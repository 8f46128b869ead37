------------------------------ MODULE MergeAll ------------------------------
(***************************************************************************)
(* MERGE_ALL (merge/merge.go): the supervised source of Visits and one     *)
(* other source work on one workflow at the same time, each in a goroutine *)
(* of InitiateConcurrently.  The other source is UNSUPERVISED, which       *)
(* clears workflow.Data and later decodes its answer into it, or M101,     *)
(* which replaces the products; without one the supervised source is       *)
(* alone, as in a cascade.  What the sources return is dropped: code and   *)
(* err are variables of the goroutine.                                     *)
(***************************************************************************)
EXTENDS Visits

CONSTANT Rivals  \* what the other source of a task may be

ASSUME RivalsAssumption ==
  Rivals \in [Jobs -> SUBSET {"none", "UNSUPERVISED", "M101"}]

Wrapper == "WRAPPER"

VARIABLES
  rival,     \* the name of the other source
  rivalPc,   \* where its goroutine is
  first,     \* the first in mg.DataSources, whose goroutine is started first
  copied,    \* the products in the copy of the workflow a goroutine was given
  gathered,  \* mg.Data: the number of products recorded for a source, -1 for none
  wrapperPc, \* where the goroutine around the supervised source is
  mergePc    \* where InitiateConcurrently is

mergeVars == << rival, rivalPc, first, copied, gathered, wrapperPc, mergePc >>

allVars == << vars, mergeVars >>

Sources == {Wrapper, "UNSUPERVISED", "M101"}

MergeInit ==
  /\ Init
  /\ rival \in Rivals[job]
  /\ rivalPc = IF rival = "none" THEN "ended" ELSE "idle"
  /\ first \in {Wrapper, rival} \ {"none"}
  /\ copied = [s \in Sources |-> 0]
  /\ gathered = [s \in Sources |-> -1]
  /\ wrapperPc = "idle"
  /\ mergePc = "waits"

(* The loop of InitiateConcurrently: a goroutine is started with a copy of *)
(* the workflow, in the order of the sources.  The copy is made in the     *)
(* loop, while the goroutine started before may already run.               *)
LaunchWrapper ==
  /\ Running /\ wrapperPc = "idle"
  /\ first = Wrapper \/ rivalPc # "idle"
  /\ wrapperPc' = "runs"
  /\ copied' = [copied EXCEPT ![Wrapper] = data.products]
  /\ UNCHANGED << vars, rival, rivalPc, first, gathered, mergePc >>

LaunchRival ==
  /\ Running /\ rivalPc = "idle"
  /\ first = rival \/ wrapperPc # "idle"
  /\ rivalPc' = "request"
  /\ copied' = [copied EXCEPT ![rival] = data.products]
  /\ UNCHANGED << vars, rival, first, gathered, wrapperPc, mergePc >>

GotoRival(from, to) == Running /\ rivalPc = from /\ rivalPc' = to

(* Unsupervised.Request clears Data before its call; Extract decodes the   *)
(* answer over whatever Data holds by then.                                *)
UnsupervisedRequest ==
  /\ rival = "UNSUPERVISED"
  /\ GotoRival("request", "calling")
  /\ data' = EmptyData
  /\ UNCHANGED << job, pc, pageVars, iteration, code, roundVars, visitVars, shared,
                  crash, rival, first, copied, gathered, wrapperPc, mergePc >>

UnsupervisedExtract ==
  /\ rival = "UNSUPERVISED"
  /\ GotoRival("calling", "record") \/ GotoRival("calling", "ended")
  /\ \E n \in 0..MaxProducts : data' = [data EXCEPT !.products = n]
  /\ UNCHANGED << job, pc, pageVars, iteration, code, roundVars, visitVars, shared,
                  crash, rival, first, copied, gathered, wrapperPc, mergePc >>

M101Request ==
  /\ rival = "M101"
  /\ \E n \in 0..MaxProducts :
       /\ GotoRival("request", IF n > 0 THEN "record" ELSE "ended")
       /\ data' = [data EXCEPT !.products = n]
  /\ UNCHANGED << job, pc, pageVars, iteration, code, roundVars, visitVars, shared,
                  crash, rival, first, copied, gathered, wrapperPc, mergePc >>

(* The source returns an error, or has no key to the cache.                *)
RivalFails ==
  /\ GotoRival("request", "ended") \/ GotoRival("calling", "ended")
  /\ UNCHANGED << vars, rival, first, copied, gathered, wrapperPc, mergePc >>

(* Mutant of Recorded: the products the workflow has by now.               *)
RecordedLive(s) == data.products

(* What a goroutine records: the products of the copy of the workflow it   *)
(* was given, not those its source has left in the workflow.               *)
Recorded(s) == copied[s]

RecordRival ==
  /\ GotoRival("record", "ended")
  /\ gathered' = [gathered EXCEPT ![rival] = Recorded(rival)]
  /\ UNCHANGED << vars, rival, first, copied, wrapperPc, mergePc >>

RecordWrapper ==
  /\ Finished /\ Running /\ wrapperPc = "runs"
  /\ wrapperPc' = "ended"
  /\ gathered' = IF pc = "extracted" THEN [gathered EXCEPT ![Wrapper] = Recorded(Wrapper)]
                                     ELSE gathered
  /\ UNCHANGED << vars, rival, rivalPc, first, copied, mergePc >>

Filled == {s \in Sources : gathered[s] >= 0}

(* TransformProductsAndMerge indexes with the length of one list, which    *)
(* getMaxLengthKey picks, the list of the wrapper, the first product of    *)
(* the others, and the products of the workflow.                           *)
Indexes(longest) ==
  \A i \in 1..gathered[longest] :
    /\ i <= data.products
    /\ \A s \in Filled : (IF s = Wrapper THEN i ELSE 1) <= gathered[s]

(* Mutant of Merge: it does not wait for the other source.                 *)
MergeFirst ==
  /\ Running /\ mergePc = "waits" /\ wrapperPc = "ended" /\ rivalPc # "idle"
  /\ mergePc' = "merged"
  /\ UNCHANGED << vars, rival, rivalPc, first, copied, gathered, wrapperPc >>

(* The goroutines are waited for and the recorded products merged into     *)
(* those of the workflow.                                                  *)
Merge ==
  /\ Running /\ mergePc = "waits" /\ wrapperPc = "ended" /\ rivalPc = "ended"
  /\ \/ /\ Filled = {} \/ \E s \in Filled : Indexes(s)
        /\ mergePc' = "merged"
        /\ UNCHANGED vars
     \/ /\ \E s \in Filled : ~Indexes(s)
        /\ crash' = "merge"
        /\ UNCHANGED << job, pc, pageVars, extractVars, roundVars, visitVars, shared,
                        mergePc >>
  /\ UNCHANGED << rival, rivalPc, first, copied, gathered, wrapperPc >>

Rival ==
  \/ UnsupervisedRequest \/ UnsupervisedExtract \/ M101Request \/ RivalFails
  \/ RecordRival

AllFinished == mergePc = "merged" \/ ~Running

Progress ==
  \/ wrapperPc # "idle" /\ Step /\ UNCHANGED mergeVars
  \/ LaunchWrapper \/ LaunchRival \/ Rival \/ RecordWrapper \/ Merge

MergeNext == Progress \/ (AllFinished /\ UNCHANGED allVars)

MergeSpec == MergeInit /\ [][MergeNext]_allVars

(* While a goroutine can run one of them does, whichever it is, and every  *)
(* call has a timeout: client.Timeout of fetchPage and PostRequest, the    *)
(* timeout of the rpc client.                                              *)
MergeFairSpec == MergeSpec /\ WF_allVars(Progress)

-----------------------------------------------------------------------------
(* Apart from log.Fatalln, which any visit may call, no goroutine ends the *)
(* process by itself: two writes to AjaxFailedStatusMap meet only in a     *)
(* round of two requests or more; a goroutine of a round misses its        *)
(* request only where UNSUPERVISED has cleared the list; and the merge,    *)
(* which indexes one list with the length of another, misses a product     *)
(* only where the source started second was given a copy that held         *)
(* products of the first, which itself has recorded none.                  *)
RacesNeedTwo ==
  /\ crash = "fatal" => round >= 2
  /\ crash = "index" => rival = "UNSUPERVISED" /\ round >= 1
  /\ crash = "merge" =>
       /\ gathered[first] <= 0
       /\ \E s \in Filled \ {first} : gathered[s] > 0

(* The merge waits for every source: from then on nobody changes what the  *)
(* pipeline goes on with, the data, the page and the metrics.              *)
MergedIsFinal ==
  [][mergePc = "merged" => UNCHANGED << data, page, crawlTime, metrics, failed >>]_allVars

(* What is left of the cycles, with the stages of the one under way; of a  *)
(* visit, with the attempts it has; of the answers of a round; and of the  *)
(* goroutines around the supervised source.                                *)
Stage ==
  [request |-> 9, cache |-> 8, visit |-> 7, visiting |-> 6, cycle |-> 5, spawn |-> 4,
   collect |-> 3, extract |-> 2, calling |-> 1, extracted |-> 0, ended |-> 0]

SourceLeft == 10 * (MaxCycles - iteration) + Stage[pc]

Turn == [spawned |-> 4, test |-> 3, waiting |-> 2, count |-> 1, counting |-> 0]

LeftAt(where, attempts) ==
  IF where \in DOMAIN Turn
    THEN 4 + 5 * attempts + Turn[where]
    ELSE [mapping |-> 3, inmap |-> 2, answer |-> 1, done |-> 0, none |-> 0][where]

VisitLeft(i) == LeftAt(at[i], MaxAttempts(i) + 1 - attempt[i])

AnswersLeft == round - received

AroundLeft ==
  [idle |-> 4, request |-> 3, calling |-> 2, record |-> 1, ended |-> 0][rivalPc]
    + [idle |-> 2, runs |-> 1, ended |-> 0][wrapperPc] + [waits |-> 1, merged |-> 0][mergePc]
    + (IF Running THEN 1 ELSE 0)

RoundLeft == << [i \in Slots |-> VisitLeft(i)], AnswersLeft, AroundLeft >>

(* Nothing turns in a circle: each step takes the source one stage nearer  *)
(* to its end, which visits and answers never take back, or else less is   *)
(* left of a visit, of the answers or of what runs beside the source.      *)
WindsDown ==
  [][\/ SourceLeft' \in 0..SourceLeft - 1 /\ AroundLeft' = AroundLeft
     \/ /\ SourceLeft' = SourceLeft
        /\ \A i \in Slots : VisitLeft(i)' \in 0..VisitLeft(i)
        /\ AnswersLeft' \in 0..AnswersLeft /\ AroundLeft' \in 0..AroundLeft
        /\ RoundLeft' # RoundLeft]_allVars

(* Whoever can take a step of Progress.                                    *)
VisitCanMove(i) ==
  \/ at[i] = "test" /\ (attempt[i] > MaxAttempts(i) \/ status[i] \in {"none", "temp"})
  \/ at[i] = "answer" /\ channel < round
  \/ at[i] \in {"spawned", "waiting", "count", "counting", "mapping", "inmap"}

CanProgress ==
  \/ wrapperPc = "idle"
  \/ pc \in {"request", "cache", "visit", "extract", "calling", "cycle", "spawn"}
  \/ pc = "visiting" /\ at[0] = "done"
  \/ pc = "collect" /\ (received >= round \/ channel > 0)
  \/ \E i \in Slots : VisitCanMove(i)
  \/ rivalPc # "ended"
  \/ Finished /\ wrapperPc = "runs"
  \/ mergePc = "waits" /\ wrapperPc = "ended" /\ rivalPc = "ended"

(* Until the merge is done, or the process has ended, somebody can go on:  *)
(* the source never waits for an answer that no goroutine will send.       *)
NeverStuck == ~AllFinished => CanProgress

(* The retries, the rounds and the cycles end, whatever the answers, and   *)
(* with them MERGE_ALL, unless the process has ended.                      *)
MergeEnds == <>AllFinished
=============================================================================
