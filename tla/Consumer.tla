------------------------------ MODULE Consumer ------------------------------
(***************************************************************************)
(* The queue consumer: CreateConsumerConnections (dbs/consumer.go), and    *)
(* the function that ConsumerCrawlFn (service/helper/consumer.go) gives to *)
(* the consume library, one call per message the broker has delivered.     *)
(*                                                                         *)
(* The broker, the library and the tunny pools are not part of the         *)
(* repository.  The broker delivers a message again when the process ends  *)
(* before the message is settled; the library runs one call for each       *)
(* message it has prefetched; a pool executes PoolSize batches at a time,  *)
(* in the order in which the calls came, and its QueueLength counts those  *)
(* that execute as well as those that wait.  What a busy site pushes back  *)
(* goes to the queue it came from.                                         *)
(***************************************************************************)
EXTENDS Integers, Sequences, FiniteSets

CONSTANTS Messages,     \* the messages first put into the queue
          Tasks,        \* the urls of the batch in a message
          Malformed,    \* the messages that are no batch
          Handlers,     \* the calls that may run at once
          Sites,        \* the keys of ConsumerSitePoolConfig
          Site,         \* the site of each url, NoSite when it has no pool
          PoolSize,     \* the concurrency of each site
          Deployments,  \* the configurations the process may run with
          NoMessage, NoUrl, NoSite

Urls == DOMAIN Site

ASSUME MessagesAssumption ==
  /\ IsFiniteSet(Messages) /\ NoMessage \notin Messages
  /\ Malformed \subseteq Messages
  /\ Tasks \in [Messages -> SUBSET Urls]
  /\ \A m \in Messages : IsFiniteSet(Tasks[m])

ASSUME SitesAssumption ==
  /\ NoUrl \notin Urls /\ NoSite \notin Sites
  /\ Site \in [Urls -> Sites \cup {NoSite}]
  /\ PoolSize \in [Sites -> Nat \ {0}]

(* serviceName is that of the consumed queue, which publishToQueue         *)
(* compares; publisher tells whether a publish queue is configured;        *)
(* prefetch is PrefetchCount.  Bound: restarts is how often the process of *)
(* the deployment is started again.                                        *)
ASSUME DeploymentsAssumption ==
  /\ Deployments \subseteq [serviceName : {"crawl_worker_publisher_queue",
                                           "crawl_worker_consumer_queue"},
                            publisher : BOOLEAN, prefetch : Nat, restarts : Nat]
  /\ IsFiniteSet(Handlers)

VARIABLES
  deployment,   \* the configuration of the process
  up,           \* whether it runs
  restarts,     \* how often it has been started again
  queue,        \* the copies of each message that wait in the broker
  pc,           \* where each call is
  msg,          \* the message it holds
  todo,         \* the urls the range over its Tasks has not produced yet
  url,          \* the url it is at
  success,      \* workResult.Success
  waiting,      \* the calls that wait for the pool of each site
  executions,   \* history: the batches started from each message
  redelivered,  \* history: the copies an end of the process has put back
  fate          \* history: what has become of each message

history == << executions, redelivered, fate >>
process == << deployment, up, restarts >>
calls == << pc, msg, todo, url, success, waiting >>
vars == << process, queue, calls, history >>

MaxRestarts == deployment.restarts

Fates == {"executed", "failed", "unpublished"}

Holding(m) == {h \in Handlers : msg[h] = m}

(* pool.QueueLength                                                        *)
QueueLength(s) ==
  Cardinality({h \in Handlers : /\ pc[h] \in {"waiting", "executing"}
                                /\ url[h] \in Urls /\ Site[url[h]] = s})

Executing(s) ==
  {h \in Handlers : pc[h] = "executing" /\ url[h] \in Urls /\ Site[url[h]] = s}

Goto(h, from, to) ==
  /\ up
  /\ pc[h] = from
  /\ pc' = [pc EXCEPT ![h] = to]

Become(m, what) == fate' = [fate EXCEPT ![m] = @ \cup {what}]

-----------------------------------------------------------------------------
Init ==
  /\ deployment \in Deployments
  /\ up = FALSE
  /\ restarts = 0
  /\ queue = [m \in Messages |-> 1]
  /\ pc = [h \in Handlers |-> "idle"]
  /\ msg = [h \in Handlers |-> NoMessage]
  /\ todo = [h \in Handlers |-> {}]
  /\ url = [h \in Handlers |-> NoUrl]
  /\ success = [h \in Handlers |-> FALSE]
  /\ waiting = [s \in Sites |-> << >>]
  /\ executions = [m \in Messages |-> 0]
  /\ redelivered = [m \in Messages |-> 0]
  /\ fate = [m \in Messages |-> {}]

(* The process makes the pools, connects the publishers and then consumes; *)
(* when it cannot connect it exits, and nothing has happened.              *)
Start ==
  /\ ~up
  /\ restarts <= MaxRestarts
  /\ up' = TRUE
  /\ UNCHANGED << deployment, restarts, queue, calls, history >>

(* The process ends: on SIGINT, when consuming ends with an error, or of   *)
(* a panic or a concurrent map access in a batch.                          *)
Die ==
  /\ up
  /\ up' = FALSE
  /\ restarts' = restarts + 1
  /\ queue' = [m \in Messages |-> queue[m] + Cardinality(Holding(m))]
  /\ redelivered' = [m \in Messages |-> redelivered[m] + Cardinality(Holding(m))]
  /\ pc' = [h \in Handlers |-> "idle"]
  /\ msg' = [h \in Handlers |-> NoMessage]
  /\ todo' = [h \in Handlers |-> {}]
  /\ url' = [h \in Handlers |-> NoUrl]
  /\ success' = [h \in Handlers |-> FALSE]
  /\ waiting' = [s \in Sites |-> << >>]
  /\ UNCHANGED << deployment, executions, fate >>

-----------------------------------------------------------------------------
(* The library hands a message to a call, which decodes it.  The broker    *)
(* delivers as many as it may before they are settled.                     *)
Deliver(h) ==
  /\ Cardinality({g \in Handlers : pc[g] # "idle"}) < deployment.prefetch
  /\ \E m \in Messages :
       /\ queue[m] > 0
       /\ Goto(h, "idle", IF m \in Malformed THEN "answer" ELSE "range")
       /\ queue' = [queue EXCEPT ![m] = @ - 1]
       /\ msg' = [msg EXCEPT ![h] = m]
       /\ todo' = [todo EXCEPT ![h] = IF m \in Malformed THEN {} ELSE Tasks[m]]
       /\ UNCHANGED << process, url, success, waiting, history >>

(* Where the length of the site's pool sends the url u.                    *)
Choice(u) ==
  IF Site[u] = NoSite THEN "executing"
  ELSE IF QueueLength(Site[u]) > PoolSize[Site[u]] THEN "pushing"
  ELSE "entering"

(* Mutant of LookUp: a pool with room is passed by.                        *)
LookUpPassingBy(h) ==
  \E u \in todo[h] :
    /\ Goto(h, "range", IF Choice(u) = "pushing" THEN "pushing" ELSE "executing")
    /\ todo' = [todo EXCEPT ![h] = @ \ {u}]
    /\ url' = [url EXCEPT ![h] = u]
    /\ executions' = [executions EXCEPT ![msg[h]] =
                        IF Choice(u) = "pushing" THEN @ ELSE @ + 1]
    /\ UNCHANGED << process, queue, msg, success, waiting, redelivered,
                    fate >>

(* One iteration of the range over Tasks: the domain name of the url, and  *)
(* the length of its site's pool.  A url without a pool has the whole      *)
(* batch executed by the call itself.                                      *)
LookUp(h) ==
  \E u \in todo[h] :
    /\ Goto(h, "range", Choice(u))
    /\ todo' = [todo EXCEPT ![h] = @ \ {u}]
    /\ url' = [url EXCEPT ![h] = u]
    /\ executions' = [executions EXCEPT ![msg[h]] =
                        IF Choice(u) = "executing" THEN @ + 1 ELSE @]
    /\ UNCHANGED << process, queue, msg, success, waiting, redelivered,
                    fate >>

(* CRAWL_CONSUMER_ERR: no domain name, and the call is over.               *)
LookUpFails(h) ==
  /\ todo[h] # {}
  /\ Goto(h, "range", "answer")
  /\ UNCHANGED << process, queue, msg, todo, url, success, waiting, history >>

(* pool.Process queues the call; the length it has read is stale by now.   *)
Enter(h) ==
  /\ Goto(h, "entering", "waiting")
  /\ waiting' = [waiting EXCEPT ![Site[url[h]]] = Append(@, h)]
  /\ UNCHANGED << process, queue, msg, todo, url, success, history >>

(* A worker of the pool takes the next call and executes its batch.        *)
PoolStart(s) ==
  /\ waiting[s] # << >>
  /\ Cardinality(Executing(s)) < PoolSize[s]
  /\ LET h == Head(waiting[s])
     IN /\ Goto(h, "waiting", "executing")
        /\ executions' = [executions EXCEPT ![msg[h]] = @ + 1]
  /\ waiting' = [waiting EXCEPT ![s] = Tail(@)]
  /\ UNCHANGED << process, queue, msg, todo, url, success, redelivered,
                  fate >>

(* CrawlJobBatchExecute returns; its error is not looked at.               *)
Executed(h) ==
  /\ Goto(h, "executing", "range")
  /\ url' = [url EXCEPT ![h] = NoUrl]
  /\ Become(msg[h], "executed")
  /\ UNCHANGED << process, queue, msg, todo, success, waiting, executions,
                  redelivered >>

-----------------------------------------------------------------------------
(* publishToQueue, two seconds later, knows the name of one queue only.    *)
KnowsQueue == deployment.serviceName = "crawl_worker_publisher_queue"

(* Mutants of PushBack: the batch is executed as well; the branch that     *)
(* publishes is gone.                                                      *)
PushBackAndGoOn(h) ==
  /\ KnowsQueue /\ deployment.publisher
  /\ Goto(h, "pushing", "entering")
  /\ queue' = [queue EXCEPT ![msg[h]] = @ + 1]
  /\ UNCHANGED << process, msg, todo, url, success, waiting, executions,
                  redelivered, fate >>

PushBackNothing(h) ==
  /\ Goto(h, "pushing", "range")
  /\ url' = [url EXCEPT ![h] = NoUrl]
  /\ UNCHANGED << process, queue, msg, todo, success, waiting, history >>

(* The site is busy: the whole batch is published again.                   *)
PushBack(h) ==
  /\ KnowsQueue /\ deployment.publisher
  /\ Goto(h, "pushing", "range")
  /\ queue' = [queue EXCEPT ![msg[h]] = @ + 1]
  /\ url' = [url EXCEPT ![h] = NoUrl]
  /\ UNCHANGED << process, msg, todo, success, waiting, executions, redelivered,
                  fate >>

(* The broker refuses, or no case of the switch has the queue's name: the  *)
(* one is logged, the other is not even that, and the call goes on.        *)
PushFails(h) ==
  /\ KnowsQueue => deployment.publisher
  /\ Goto(h, "pushing", "range")
  /\ url' = [url EXCEPT ![h] = NoUrl]
  /\ Become(msg[h], "unpublished")
  /\ UNCHANGED << process, queue, msg, todo, success, waiting, executions,
                  redelivered >>

(* The publisher is nil when no publish queue is configured.               *)
PushPanics(h) ==
  /\ KnowsQueue /\ ~deployment.publisher
  /\ pc[h] = "pushing"
  /\ Die

-----------------------------------------------------------------------------
(* The range is over: the call succeeds, whatever came of its urls.        *)
Finish(h) ==
  /\ todo[h] = {}
  /\ Goto(h, "range", "answer")
  /\ success' = [success EXCEPT ![h] = TRUE]
  /\ UNCHANGED << process, queue, msg, todo, url, waiting, history >>

(* Mutant of Settle: a failure can be recovered from, and is delivered     *)
(* again.                                                                  *)
SettleRecoverable(h) ==
  /\ Goto(h, "answer", "idle")
  /\ IF success[h] THEN UNCHANGED queue
     ELSE queue' = [queue EXCEPT ![msg[h]] = @ + 1]
  /\ msg' = [msg EXCEPT ![h] = NoMessage]
  /\ todo' = [todo EXCEPT ![h] = {}]
  /\ success' = [success EXCEPT ![h] = FALSE]
  /\ UNCHANGED << process, url, waiting, history >>

(* The library settles the message: both a success and a failure that is   *)
(* NonRecoverable take it out of the queue.                                *)
Settle(h) ==
  /\ Goto(h, "answer", "idle")
  /\ IF success[h] THEN UNCHANGED fate ELSE Become(msg[h], "failed")
  /\ msg' = [msg EXCEPT ![h] = NoMessage]
  /\ todo' = [todo EXCEPT ![h] = {}]
  /\ success' = [success EXCEPT ![h] = FALSE]
  /\ UNCHANGED << process, queue, url, waiting, executions, redelivered >>

Call(h) ==
  \/ LookUp(h)
  \/ LookUpFails(h)
  \/ Enter(h)
  \/ Executed(h)
  \/ PushBack(h)
  \/ PushFails(h)
  \/ PushPanics(h)
  \/ Finish(h)
  \/ Settle(h)

(* All is settled, or the process is not started again.                    *)
Terminated ==
  /\ \/ restarts > MaxRestarts
     \/ \A m \in Messages : queue[m] = 0 /\ Holding(m) = {}
  /\ UNCHANGED vars

Next ==
  \/ Start
  \/ Die
  \/ \E h \in Handlers : Deliver(h) \/ Call(h)
  \/ \E s \in Sites : PoolStart(s)
  \/ Terminated

Spec == Init /\ [][Next]_vars

(* The process is started again, the library uses the calls it has, and    *)
(* goroutines are scheduled; a batch returns (BatchReturns of CrawlBatch). *)
Fairness ==
  /\ WF_vars(Start)
  /\ WF_vars(\E h \in Handlers : Deliver(h))
  /\ \A h \in Handlers : WF_vars(Call(h))
  /\ \A s \in Sites : WF_vars(PoolStart(s))

FairSpec == Spec /\ Fairness

-----------------------------------------------------------------------------
TypeOK ==
  /\ deployment \in Deployments
  /\ up \in BOOLEAN
  /\ restarts \in 0 .. MaxRestarts + 1
  /\ queue \in [Messages -> Nat]
  /\ pc \in [Handlers -> {"idle", "range", "entering", "waiting", "executing",
                          "pushing", "answer"}]
  /\ msg \in [Handlers -> Messages \cup {NoMessage}]
  /\ todo \in [Handlers -> SUBSET Urls]
  /\ url \in [Handlers -> Urls \cup {NoUrl}]
  /\ success \in [Handlers -> BOOLEAN]
  /\ waiting \in [Sites -> Seq(Handlers)]
  /\ executions \in [Messages -> Nat]
  /\ redelivered \in [Messages -> Nat]
  /\ fate \in [Messages -> SUBSET Fates]

Gone(m) == queue[m] = 0 /\ Holding(m) = {}

(* A message leaves the queue executed, refused or, when its site was busy *)
(* and the publication came to nothing, unpublished; in no other way.  An  *)
(* empty batch is answered and that is all.                                *)
NothingLost ==
  \A m \in Messages : Gone(m) /\ Tasks[m] # {} => fate[m] # {}

(* A batch of one url is executed once, and once more for each time the    *)
(* process ended while a call held it: pushing back does not multiply it.  *)
ExecutedOnce ==
  \A m \in Messages :
    Cardinality(Tasks[m]) = 1 => executions[m] <= 1 + redelivered[m]

(* When each batch has one url, no more batches have a url of a site in    *)
(* execution than the site's pool allows.                                  *)
SiteLimit ==
  (\A m \in Messages : Cardinality(Tasks[m]) = 1) =>
  \A s \in Sites :
    Cardinality({h \in Handlers : /\ pc[h] = "executing"
                                  /\ \E u \in Tasks[msg[h]] : Site[u] = s})
      <= PoolSize[s]

(* Unless the process stays down every message is settled for good: a      *)
(* message that is pushed back again and again gets its turn.              *)
EverythingSettles ==
  \/ <>[](\A m \in Messages : Gone(m))
  \/ <>[](~up)
=============================================================================
