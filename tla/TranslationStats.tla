-------------------------- MODULE TranslationStats --------------------------
(***************************************************************************)
(* The translation statistics of one job (UpdateJobTranslationStats in     *)
(* service/helper/job.go): every translated batch leaves a goroutine that  *)
(* copies the job's counter of translation calls from redis into the       *)
(* parameters the job server keeps, unless it finds the job unfinished or  *)
(* the statistics already there.                                           *)
(*                                                                         *)
(* The batches of the job run in processes of their own, and the job       *)
(* server is not part of the repository.  Of a job it counts the batches   *)
(* that wait (Queued) and those handed out and not reported                *)
(* (PendingBatches); links that a reported batch feeds back are further    *)
(* batches, and none is handed out twice.                                  *)
(***************************************************************************)
EXTENDS Integers, FiniteSets

CONSTANTS Batches,       \* the batches of the job
          MaxCalls,      \* bound: the translation calls of one batch
          PendingLimit,  \* 5 in the code
          Retries,       \* 3 in the code
          Nothing, NoStats

ASSUME BatchesAssumption ==
  /\ IsFiniteSet(Batches) /\ Nothing \notin Batches
  /\ MaxCalls \in Nat /\ PendingLimit \in Nat /\ Retries \in Nat \ {0}
  /\ NoStats \notin Nat

VARIABLES
  found,       \* the batches made of links that the job finds itself
  translated,  \* those with a task that is translated
  batch,       \* where each batch is
  calls,       \* the translation calls it has made
  total,       \* total_calls, which redis keeps for the job
  last,        \* the batch handed out last
  pc,          \* where the batch's updater is
  i,           \* the failed attempts of its present request
  ts,          \* the counter it has read
  stats        \* google_translate_api_calls of the job's parameters

job == << found, translated, batch, calls, total, last >>
updaters == << pc, i, ts >>
vars == << job, updaters, stats >>

In(state) == {b \in Batches : batch[b] = state}

(* Both as the job server counts them.                                     *)
Queued == Cardinality(In("queued"))
PendingBatches == Cardinality(In("running") \cup In("executed"))

(* How an updater ends, besides going on.                                  *)
Ends == {"unfinished", "updated", "crowded", "failed", "done", "killed"}

-----------------------------------------------------------------------------
Init ==
  /\ found \in SUBSET Batches \ {Batches}
  /\ translated \in SUBSET Batches
  /\ batch = [b \in Batches |-> IF b \in found THEN "unfound" ELSE "queued"]
  /\ calls = [b \in Batches |-> 0]
  /\ total = 0
  /\ last = Nothing
  /\ pc = [b \in Batches |-> "none"]
  /\ i = [b \in Batches |-> 0]
  /\ ts = [b \in Batches |-> NoStats]
  /\ stats = NoStats

HandOut(b) ==
  /\ batch[b] = "queued"
  /\ batch' = [batch EXCEPT ![b] = "running"]
  /\ last' = b
  /\ UNCHANGED << found, translated, calls, total, updaters, stats >>

(* UpdateTranslationStatsInRedis, before each call of the translator.      *)
Translate(b) ==
  /\ batch[b] = "running" /\ b \in translated
  /\ calls[b] < MaxCalls
  /\ calls' = [calls EXCEPT ![b] = @ + 1]
  /\ total' = total + 1
  /\ UNCHANGED << found, translated, batch, last, updaters, stats >>

(* CrawlJobBatchExecute has its results, and when one of them is           *)
(* translated it starts the updater, which begins to sleep.                *)
Execute(b) ==
  /\ batch[b] = "running"
  /\ batch' = [batch EXCEPT ![b] = "executed"]
  /\ pc' = IF b \in translated THEN [pc EXCEPT ![b] = "asleep"] ELSE pc
  /\ UNCHANGED << found, translated, calls, total, last, i, ts, stats >>

(* The results reach the job server, with the links of the batch.          *)
Report(b) ==
  /\ batch[b] = "executed"
  /\ \E new \in SUBSET In("unfound") :
       batch' = [c \in Batches |-> IF c = b THEN "reported"
                                   ELSE IF c \in new THEN "queued"
                                   ELSE batch[c]]
  /\ UNCHANGED << found, translated, calls, total, last, updaters, stats >>

-----------------------------------------------------------------------------
Goto(b, from, to) == pc[b] = from /\ pc' = [pc EXCEPT ![b] = to]

Awake(b) ==
  /\ Goto(b, "asleep", "status")
  /\ UNCHANGED << job, i, ts, stats >>

(* An attempt at GetJobStatus or HGetAll fails: the updater sleeps again,  *)
(* and gives up after the last.                                            *)
RequestFails(b) ==
  \E request \in {"status", "read"} :
    /\ Goto(b, request, IF i[b] + 1 < Retries THEN request ELSE "failed")
    /\ i' = [i EXCEPT ![b] = @ + 1]
    /\ UNCHANGED << job, ts, stats >>

(* Mutants of Decision: the limit of pending batches is not looked at; the *)
(* test for statistics that are there is turned round.                     *)
DecisionAnyPending ==
  IF Queued > 0 THEN "unfinished"
  ELSE IF stats # NoStats THEN "updated" ELSE "read"

DecisionTurnedRound ==
  IF Queued > 0 THEN "unfinished"
  ELSE IF stats = NoStats THEN "updated"
  ELSE IF PendingBatches > PendingLimit THEN "crowded" ELSE "read"

(* What the job's state and parameters make of the updater.                *)
Decision ==
  IF Queued > 0 THEN "unfinished"
  ELSE IF stats # NoStats THEN "updated"
  ELSE IF PendingBatches > PendingLimit THEN "crowded"
  ELSE "read"

(* GetJobStatus answers; the answer is stale from here on.                 *)
GetJobStatus(b) ==
  /\ Goto(b, "status", Decision)
  /\ i' = [i EXCEPT ![b] = 0]
  /\ UNCHANGED << job, ts, stats >>

HGetAll(b) ==
  /\ Goto(b, "read", "patch")
  /\ ts' = [ts EXCEPT ![b] = total]
  /\ i' = [i EXCEPT ![b] = 0]
  /\ UNCHANGED << job, stats >>

(* The PATCH arrives, whether or not its response does.                    *)
Patch(b) ==
  /\ \E end \in {"done", "failed"} : Goto(b, "patch", end)
  /\ stats' = ts[b]
  /\ UNCHANGED << job, i, ts >>

(* The PATCH does not arrive; it is not tried again.                       *)
PatchFails(b) ==
  /\ Goto(b, "patch", "failed")
  /\ UNCHANGED << job, i, ts, stats >>

(* Nothing waits for the updater: it ends with its process.                *)
Killed(b) ==
  /\ pc[b] \notin Ends \cup {"none"}
  /\ pc' = [pc EXCEPT ![b] = "killed"]
  /\ UNCHANGED << job, i, ts, stats >>

Updater(b) ==
  \/ Awake(b)
  \/ RequestFails(b)
  \/ GetJobStatus(b)
  \/ HGetAll(b)
  \/ Patch(b)
  \/ PatchFails(b)

(* The job is done, and so are its updaters.                               *)
Quiet ==
  \A b \in Batches : /\ batch[b] \in {"unfound", "reported"}
                     /\ pc[b] \in Ends \cup {"none"}

Terminated == Quiet /\ UNCHANGED vars

Next ==
  \/ Terminated
  \/ \E b \in Batches :
       \/ HandOut(b)
       \/ Translate(b)
       \/ Execute(b)
       \/ Report(b)
       \/ Updater(b)
       \/ Killed(b)

Spec == Init /\ [][Next]_vars

-----------------------------------------------------------------------------
TypeOK ==
  /\ found \in SUBSET Batches
  /\ translated \in SUBSET Batches
  /\ batch \in [Batches -> {"unfound", "queued", "running", "executed",
                            "reported"}]
  /\ calls \in [Batches -> 0 .. MaxCalls]
  /\ total \in Nat
  /\ last \in Batches \cup {Nothing}
  /\ pc \in [Batches -> {"none", "asleep", "status", "read", "patch"} \cup Ends]
  /\ i \in [Batches -> 0 .. Retries]
  /\ ts \in [Batches -> Nat \cup {NoStats}]
  /\ stats \in Nat \cup {NoStats}

(* The statistics of a job that finds no links of its own miss no more     *)
(* calls than the pending batches that an updater tolerates can make,      *)
(* whatever updaters overwrite each other and however late they are.       *)
MissesAtMost ==
  found = {} /\ stats # NoStats => total - stats <= PendingLimit * MaxCalls

(* A job whose last batch is translated has its statistics in the end,     *)
(* unless an updater met an error, too many pending batches or the end of  *)
(* its process: the updaters never all leave it to one another.            *)
Recorded ==
  Quiet /\ last \in translated
        /\ (\A b \in Batches : pc[b] \notin {"failed", "crowded", "killed"})
  => stats # NoStats
=============================================================================
