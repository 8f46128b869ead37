----------------------------- MODULE MCConsumer -----------------------------
(* Small instances of Consumer for TLC.                                    *)
EXTENDS Consumer, TLC

CONSTANTS m1, m2, m3, m4, h1, h2, h3, busy

MCMessages == {m1, m2, m3, m4}

(* Three tasks of a site whose pool they have to share, and one of a site  *)
(* without a pool; a batch is named for its only url.                      *)
MCSite == [u \in MCMessages |-> IF u = m4 THEN NoSite ELSE busy]

MCTasks == [m \in MCMessages |-> {m}]

MCPoolSize == (busy :> 1)

MCHandlers == {h1, h2, h3}

Deployment(name, publisher, prefetch, again) ==
  [serviceName |-> name, publisher |-> publisher, prefetch |-> prefetch,
   restarts |-> again]

Queue == "crawl_worker_publisher_queue"

(* Three calls, so that the pool is full and a task pushed back, in a      *)
(* process that ends once for good; one call in a process that comes back. *)
(* config/staging-consumer.json names the two queues differently.          *)
MCDeployments ==
  {Deployment(Queue, TRUE, 3, 0), Deployment("crawl_worker_consumer_queue", TRUE, 3, 0),
   Deployment(Queue, FALSE, 3, 0), Deployment(Queue, TRUE, 1, 1)}
=============================================================================
