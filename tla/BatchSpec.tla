----------------------------- MODULE BatchSpec ------------------------------
(***************************************************************************)
(* What the callers of CrawlJobBatchExecute (service/helper/consumer.go,   *)
(* service/controller/crawlurlcontroller.go, main.go) rely on: every task  *)
(* of the batch is answered once, with what its crawl produced, and then   *)
(* the call returns; the process may die instead, at any time.             *)
(***************************************************************************)
CONSTANTS Urls, Outcomes, NoOutcome

VARIABLES
  tasks,      \* the tasks of the batch
  answers,    \* the outcome reported for each task
  state,      \* "open", "returned" or "dead"
  refreshed   \* whether the job's translation statistics are refreshed

vars == << tasks, answers, state, refreshed >>

Init ==
  /\ tasks \subseteq Urls
  /\ answers = [u \in Urls |-> NoOutcome]
  /\ state = "open"
  /\ refreshed = FALSE

Answer(u) ==
  /\ state = "open"
  /\ u \in tasks
  /\ answers[u] = NoOutcome
  /\ \E o \in Outcomes : answers' = [answers EXCEPT ![u] = o]
  /\ UNCHANGED << tasks, state, refreshed >>

Return ==
  /\ state = "open"
  /\ tasks # {}
  /\ \A u \in tasks : answers[u] # NoOutcome
  /\ state' = "returned"
  /\ refreshed' = \E u \in tasks : answers[u].translated
  /\ UNCHANGED << tasks, answers >>

Die ==
  /\ state' = "dead"
  /\ UNCHANGED << tasks, answers, refreshed >>

Next ==
  \/ \E u \in Urls : Answer(u)
  \/ Return
  \/ Die

Spec == Init /\ [][Next]_vars
=============================================================================
