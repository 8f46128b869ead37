----------------------- MODULE TranslationStatsProofs -----------------------
(***************************************************************************)
(* The safety of TranslationStats, for any number of batches and calls and *)
(* any limits.                                                             *)
(***************************************************************************)
EXTENDS TranslationStats, FiniteSetTheorems, TLAPS

(* The calls of the translator that running batches may still make.        *)
CallsAhead ==
  {call \in Batches \X (1 .. MaxCalls) :
     batch[call[1]] = "running" /\ call[2] > calls[call[1]]}

(* The counter x misses no more calls than are tolerated, now or later.    *)
MissesFew(x) ==
  /\ In("queued") = {}
  /\ (total - x) + Cardinality(CallsAhead) <= PendingLimit * MaxCalls

(* What an updater relies on when it acts on a status it read before.      *)
Misses ==
  found = {} =>
    /\ \A b \in Batches : batch[b] # "unfound"
    /\ \A b \in Batches : pc[b] = "read" => MissesFew(total)
    /\ \A b \in Batches : pc[b] = "patch" => MissesFew(ts[b])
    /\ stats # NoStats => MissesFew(stats)

(* A batch has an updater once it has been executed with a translated      *)
(* task, and one that tries a request may fail once more.                  *)
Updating(b) ==
  /\ batch[b] \in {"unfound", "queued", "running"} => pc[b] = "none"
  /\ batch[b] \in {"executed", "reported"} /\ b \in translated => pc[b] # "none"
  /\ pc[b] \in {"none", "asleep", "status", "read"} => i[b] < Retries
  /\ pc[b] = "patch" => ts[b] \in Nat
  /\ pc[b] \in {"updated", "done"} => stats # NoStats

(* The updater of the last batch leaves the job to another one only while  *)
(* there is another batch to come.                                         *)
LastUpdates ==
  last # Nothing =>
    /\ batch[last] \notin {"unfound", "queued"}
    /\ pc[last] = "unfinished" => In("queued") # {}

IInv ==
  /\ TypeOK
  /\ Misses
  /\ \A b \in Batches : Updating(b)
  /\ LastUpdates


-----------------------------------------------------------------------------
(* The sets that the job server counts are finite.                         *)
LEMMA Counted ==
  /\ \A state : IsFiniteSet(In(state)) /\ Cardinality(In(state)) \in Nat
  /\ Cardinality(In("running") \cup In("executed")) \in Nat
  /\ IsFiniteSet(Batches \X (1 .. MaxCalls))
<1>1. IsFiniteSet(Batches) /\ MaxCalls \in Nat
  BY BatchesAssumption
<1>2. ASSUME NEW state PROVE IsFiniteSet(In(state)) /\ Cardinality(In(state)) \in Nat
  <2>1. In(state) \in SUBSET Batches
    BY DEF In
  <2> QED BY <1>1, <2>1, FS_Subset, FS_CardinalityType
<1>3. Cardinality(In("running") \cup In("executed")) \in Nat
  <2>1. In("running") \cup In("executed") \in SUBSET Batches
    BY DEF In
  <2> QED BY <1>1, <2>1, FS_Subset, FS_CardinalityType
<1>4. IsFiniteSet(1 .. MaxCalls)
  BY <1>1, FS_Interval
<1>5. IsFiniteSet(Batches \X (1 .. MaxCalls))
  BY <1>1, <1>4, FS_Product
<1> QED BY <1>2, <1>3, <1>5

(* So are the calls ahead.                                                  *)
LEMMA AheadType == IsFiniteSet(CallsAhead) /\ Cardinality(CallsAhead) \in Nat
<1>1. CallsAhead \in SUBSET (Batches \X (1 .. MaxCalls))
  BY DEF CallsAhead
<1> QED BY <1>1, Counted, FS_Subset, FS_CardinalityType

(* No batch is queued when the job server counts none.                     *)
LEMMA NoneQueued == ~(Queued > 0) => In("queued") = {}
<1>1. Cardinality(In("queued")) \in Nat /\ IsFiniteSet(In("queued"))
  BY Counted
<1>2. ~(Queued > 0) => Cardinality(In("queued")) = 0
  BY <1>1 DEF Queued
<1> QED BY <1>1, <1>2, FS_EmptySet

LEMMA SomeQueued == Queued > 0 => In("queued") # {}
  BY FS_EmptySet DEF Queued

(* The pending batches bound the calls ahead.                              *)
LEMMA AheadBound ==
  ASSUME ~(PendingBatches > PendingLimit)
  PROVE  Cardinality(CallsAhead) <= PendingLimit * MaxCalls
<1> DEFINE Pending == In("running") \cup In("executed")
<1>1. MaxCalls \in Nat /\ PendingLimit \in Nat /\ IsFiniteSet(Batches)
  BY BatchesAssumption
<1>2. Pending \in SUBSET Batches
  BY DEF In
<1>3. IsFiniteSet(Pending) /\ Cardinality(Pending) \in Nat
  BY <1>1, <1>2, FS_Subset, FS_CardinalityType
<1>4. IsFiniteSet(1 .. MaxCalls) /\ Cardinality(1 .. MaxCalls) = MaxCalls
  <2>1. IsFiniteSet(1 .. MaxCalls)
        /\ Cardinality(1 .. MaxCalls) = IF 1 > MaxCalls THEN 0 ELSE MaxCalls - 1 + 1
    BY <1>1, FS_Interval
  <2> QED BY <1>1, <2>1
<1>5. /\ IsFiniteSet(Pending \X (1 .. MaxCalls))
      /\ Cardinality(Pending \X (1 .. MaxCalls)) = Cardinality(Pending) * MaxCalls
  BY <1>3, <1>4, FS_Product
<1>6. CallsAhead \in SUBSET (Pending \X (1 .. MaxCalls))
  BY DEF CallsAhead, In
<1>7. Cardinality(CallsAhead) <= Cardinality(Pending) * MaxCalls
  BY <1>5, <1>6, FS_Subset
<1>8. Cardinality(Pending) <= PendingLimit
  BY <1>1, <1>3 DEF PendingBatches
<1> HIDE DEF Pending
<1>9. Cardinality(Pending) * MaxCalls <= PendingLimit * MaxCalls
  BY <1>1, <1>3, <1>8
<1>10. Cardinality(CallsAhead) \in Nat
  BY AheadType
<1> QED BY <1>1, <1>3, <1>7, <1>9, <1>10

-----------------------------------------------------------------------------
LEMMA InitIInv == Init => IInv
<1> SUFFICES ASSUME Init PROVE IInv
  OBVIOUS
<1>1. TypeOK
  BY BatchesAssumption DEF Init, TypeOK, Ends
<1>2. Misses
  BY DEF Init, Misses
<1>3. \A b \in Batches : Updating(b)
  BY BatchesAssumption DEF Init, Updating
<1>4. LastUpdates
  BY DEF Init, LastUpdates
<1> QED BY <1>1, <1>2, <1>3, <1>4 DEF IInv

(* Fewer calls ahead, or the same, with the same counter.                  *)
LEMMA AheadShrinks ==
  ASSUME TypeOK, CallsAhead' \subseteq CallsAhead, total' = total,
         In("queued")' \subseteq In("queued"),
         NEW x \in Nat, MissesFew(x)
  PROVE  In("queued")' = {}
         /\ (total' - x) + Cardinality(CallsAhead') <= PendingLimit * MaxCalls
<1>1. IsFiniteSet(CallsAhead) /\ Cardinality(CallsAhead) \in Nat
  BY AheadType
<1>2. Cardinality(CallsAhead') <= Cardinality(CallsAhead) /\ IsFiniteSet(CallsAhead')
  BY <1>1, FS_Subset
<1>3. Cardinality(CallsAhead') \in Nat
  BY <1>2, FS_CardinalityType
<1>4. PendingLimit * MaxCalls \in Nat /\ total \in Nat
  BY BatchesAssumption DEF TypeOK
<1> QED BY <1>1, <1>2, <1>3, <1>4 DEF MissesFew


(* A step that adds no call ahead and no queued batch, and lets no updater *)
(* read or patch anew, keeps what the others rely on.                      *)
LEMMA MissesStay ==
  ASSUME IInv, found' = found, total' = total, stats' = stats,
         found = {} => CallsAhead' \subseteq CallsAhead,
         found = {} => In("queued")' \subseteq In("queued"),
         \A b \in Batches : batch'[b] = "unfound" => batch[b] = "unfound",
         \A b \in Batches : pc'[b] \in {"read", "patch"} => pc'[b] = pc[b] /\ ts'[b] = ts[b]
  PROVE  Misses'
<1> SUFFICES ASSUME found = {} PROVE Misses'
  BY DEF Misses
<1>1. TypeOK /\ Misses
  BY DEF IInv
<1>2. ASSUME NEW x \in Nat, MissesFew(x)
      PROVE  In("queued")' = {}
             /\ (total' - x) + Cardinality(CallsAhead') <= PendingLimit * MaxCalls
  BY <1>1, <1>2, AheadShrinks
<1>3. ASSUME NEW b \in Batches, pc'[b] = "read" PROVE MissesFew(total)'
  <2>1. MissesFew(total) /\ total \in Nat
    BY <1>1, <1>3 DEF Misses, TypeOK
  <2> QED BY <1>2, <2>1 DEF MissesFew
<1>4. ASSUME NEW b \in Batches, pc'[b] = "patch"
      PROVE  In("queued")' = {}
             /\ (total' - ts'[b]) + Cardinality(CallsAhead') <= PendingLimit * MaxCalls
  <2>1. pc[b] = "patch" /\ ts'[b] = ts[b]
    BY <1>4
  <2>2. MissesFew(ts[b]) /\ ts[b] \in Nat
    BY <1>1, <2>1 DEF Misses, IInv, Updating
  <2> QED BY <1>2, <2>1, <2>2
<1>5. ASSUME stats # NoStats PROVE MissesFew(stats)'
  <2>1. MissesFew(stats) /\ stats \in Nat
    BY <1>1, <1>5 DEF Misses, TypeOK
  <2> QED BY <1>2, <2>1 DEF MissesFew
<1>6. \A b \in Batches : batch'[b] # "unfound"
  BY <1>1 DEF Misses
<1>7. \A b \in Batches : pc'[b] = "patch" => MissesFew(ts[b])'
  BY <1>4 DEF MissesFew
<1> QED BY <1>3, <1>5, <1>6, <1>7 DEF Misses

LEMMA HandOutStep ==
  ASSUME IInv, NEW b \in Batches, HandOut(b)
  PROVE  IInv'
<1>1. /\ batch[b] = "queued" /\ batch' = [batch EXCEPT ![b] = "running"] /\ last' = b
      /\ UNCHANGED << found, translated, calls, total, pc, i, ts, stats >>
  BY DEF HandOut, updaters
<1>2. TypeOK'
  BY <1>1 DEF IInv, TypeOK
<1>3. In("queued") # {}
  BY <1>1 DEF In
<1>4. Misses'
  <2> SUFFICES ASSUME found = {} PROVE Misses'
    BY <1>1 DEF Misses
  <2>1. \A c \in Batches : batch[c] # "unfound" /\ pc[c] \notin {"read", "patch"}
    BY <1>3 DEF IInv, Misses, MissesFew
  <2>2. stats = NoStats
    BY <1>3 DEF IInv, Misses, MissesFew
  <2>3. \A c \in Batches : batch'[c] # "unfound"
    BY <1>1, <2>1 DEF IInv, TypeOK
  <2> QED BY <1>1, <2>1, <2>2, <2>3 DEF Misses
<1>5. ASSUME NEW c \in Batches PROVE Updating(c)'
  BY <1>1 DEF IInv, TypeOK, Updating
<1>6. LastUpdates'
  BY <1>1 DEF IInv, TypeOK, Updating, LastUpdates
<1> QED BY <1>2, <1>4, <1>5, <1>6 DEF IInv

LEMMA TranslateStep ==
  ASSUME IInv, NEW b \in Batches, Translate(b)
  PROVE  IInv'
<1>1. /\ batch[b] = "running" /\ calls[b] < MaxCalls
      /\ calls' = [calls EXCEPT ![b] = calls[b] + 1] /\ total' = total + 1
      /\ UNCHANGED << found, translated, batch, last, pc, i, ts, stats >>
  BY DEF Translate, updaters
<1>2. total \in Nat /\ calls[b] \in 0 .. MaxCalls /\ MaxCalls \in Nat
  BY BatchesAssumption DEF IInv, TypeOK
<1>3. TypeOK'
  BY <1>1, <1>2 DEF IInv, TypeOK
<1>4. Cardinality(CallsAhead') = Cardinality(CallsAhead) - 1
  <2>1. << b, calls[b] + 1 >> \in CallsAhead
    BY <1>1, <1>2 DEF CallsAhead
  <2>2. CallsAhead' = CallsAhead \ {<< b, calls[b] + 1 >>}
    <3>1. ASSUME NEW call \in Batches \X (1 .. MaxCalls)
          PROVE  call \in CallsAhead' <=> call \in CallsAhead \ {<< b, calls[b] + 1 >>}
      <4>1. PICK c \in Batches, k \in 1 .. MaxCalls : call = << c, k >>
        OBVIOUS
      <4>2. calls'[c] = IF c = b THEN calls[b] + 1 ELSE calls[c]
        BY <1>1 DEF IInv, TypeOK
      <4>3. calls[c] \in Nat /\ k \in Nat
        BY DEF IInv, TypeOK
      <4> QED BY <1>1, <1>2, <4>1, <4>2, <4>3 DEF CallsAhead
    <3> QED BY <3>1 DEF CallsAhead
  <2> QED BY <2>1, <2>2, AheadType, FS_RemoveElement
<1>5. In("queued")' = In("queued")
  BY <1>1 DEF In
<1>6. ASSUME NEW x \in Nat, MissesFew(x)
      PROVE  (total' - x) + Cardinality(CallsAhead') <= PendingLimit * MaxCalls
  <2>1. PendingLimit * MaxCalls \in Nat
    BY BatchesAssumption
  <2> QED BY <1>1, <1>2, <1>4, <1>6, <2>1, AheadType DEF MissesFew
<1>7. Misses'
  <2> SUFFICES ASSUME found = {} PROVE Misses'
    BY <1>1 DEF Misses
  <2>1. Misses /\ TypeOK
    BY DEF IInv
  <2>2. ASSUME NEW c \in Batches, pc'[c] = "read" PROVE MissesFew(total)'
    <3>1. MissesFew(total)
      BY <1>1, <2>1, <2>2 DEF Misses
    <3>2. (total - total) + Cardinality(CallsAhead) <= PendingLimit * MaxCalls
      BY <3>1 DEF MissesFew
    <3>3. (total' - total') + Cardinality(CallsAhead') <= PendingLimit * MaxCalls
      <4>1. PendingLimit * MaxCalls \in Nat
        BY BatchesAssumption
      <4> QED BY <1>1, <1>2, <1>4, <3>2, <4>1, AheadType
    <3> QED BY <1>5, <3>1, <3>3 DEF MissesFew
  <2>3. ASSUME NEW c \in Batches, pc'[c] = "patch" PROVE MissesFew(ts[c])'
    <3>1. MissesFew(ts[c]) /\ ts[c] \in Nat /\ ts'[c] = ts[c]
      BY <1>1, <2>1, <2>3 DEF Misses, IInv, Updating
    <3> QED BY <1>5, <1>6, <3>1 DEF MissesFew
  <2>4. ASSUME stats' # NoStats PROVE MissesFew(stats)'
    <3>1. MissesFew(stats) /\ stats \in Nat /\ stats' = stats
      BY <1>1, <2>1, <2>4 DEF Misses, TypeOK
    <3> QED BY <1>5, <1>6, <3>1 DEF MissesFew
  <2>5. \A c \in Batches : batch'[c] # "unfound"
    BY <1>1, <2>1 DEF Misses
  <2> QED BY <2>2, <2>3, <2>4, <2>5 DEF Misses
<1>8. \A c \in Batches : Updating(c)'
  BY <1>1 DEF IInv, Updating
<1>9. LastUpdates'
  BY <1>1, <1>5 DEF IInv, LastUpdates
<1> QED BY <1>3, <1>7, <1>8, <1>9 DEF IInv

LEMMA ExecuteStep ==
  ASSUME IInv, NEW b \in Batches, Execute(b)
  PROVE  IInv'
<1>1. /\ batch[b] = "running" /\ batch' = [batch EXCEPT ![b] = "executed"]
      /\ pc' = IF b \in translated THEN [pc EXCEPT ![b] = "asleep"] ELSE pc
      /\ UNCHANGED << found, translated, calls, total, last, i, ts, stats >>
  BY DEF Execute
<1>2. TypeOK'
  BY <1>1 DEF IInv, TypeOK
<1>3. /\ \A c \in Batches \ {b} : batch'[c] = batch[c] /\ pc'[c] = pc[c]
      /\ batch'[b] = "executed" /\ pc[b] = "none"
      /\ pc'[b] = IF b \in translated THEN "asleep" ELSE "none"
  BY <1>1 DEF IInv, TypeOK, Updating
<1>4. CallsAhead' \subseteq CallsAhead /\ In("queued")' = In("queued")
  BY <1>1, <1>3 DEF CallsAhead, In
<1>5. Misses'
  <2>1. \A c \in Batches : batch'[c] = "unfound" => batch[c] = "unfound"
    BY <1>3
  <2>2. \A c \in Batches : pc'[c] \in {"read", "patch"} => pc'[c] = pc[c] /\ ts'[c] = ts[c]
    BY <1>1, <1>3
  <2> QED BY <1>1, <1>4, <2>1, <2>2, MissesStay
<1>6. \A c \in Batches : Updating(c)'
  BY <1>1, <1>3 DEF IInv, Updating
<1>7. LastUpdates'
  <2>1. ASSUME last # Nothing
        PROVE  /\ batch'[last] \notin {"unfound", "queued"}
               /\ pc'[last] = "unfinished" => In("queued") # {}
    BY <1>3, <2>1 DEF IInv, TypeOK, LastUpdates
  <2> QED BY <1>1, <1>4, <2>1 DEF LastUpdates
<1> QED BY <1>2, <1>5, <1>6, <1>7 DEF IInv

LEMMA ReportStep ==
  ASSUME IInv, NEW b \in Batches, Report(b)
  PROVE  IInv'
<1>1. PICK new \in SUBSET In("unfound") :
        batch' = [c \in Batches |-> IF c = b THEN "reported"
                                    ELSE IF c \in new THEN "queued"
                                    ELSE batch[c]]
  BY DEF Report
<1>2. /\ batch[b] = "executed"
      /\ UNCHANGED << found, translated, calls, total, last, pc, i, ts, stats >>
  BY DEF Report, updaters
<1>3. /\ batch'[b] = "reported"
      /\ \A c \in Batches \ {b} :
           \/ batch'[c] = batch[c]
           \/ batch[c] = "unfound" /\ batch'[c] = "queued"
  BY <1>1 DEF In
<1>4. TypeOK'
  BY <1>1, <1>2 DEF IInv, TypeOK
<1>5. Misses'
  <2>1. \A c \in Batches : batch'[c] = "unfound" => batch[c] = "unfound"
    BY <1>3
  <2>2. CallsAhead' \subseteq CallsAhead
    BY <1>2, <1>3 DEF CallsAhead
  <2>3. found = {} => In("queued")' \subseteq In("queued")
    BY <1>2, <1>3 DEF IInv, Misses, In
  <2> QED BY <1>2, <2>1, <2>2, <2>3, MissesStay
<1>6. \A c \in Batches : Updating(c)'
  BY <1>2, <1>3 DEF IInv, TypeOK, Updating
<1>7. LastUpdates'
  <2>1. In("queued") \subseteq In("queued")'
    BY <1>2, <1>3 DEF In
  <2>2. ASSUME last # Nothing
        PROVE  /\ batch'[last] \notin {"unfound", "queued"}
               /\ pc'[last] = "unfinished" => In("queued") # {}
    BY <1>2, <1>3, <2>2 DEF IInv, TypeOK, LastUpdates
  <2> QED BY <1>2, <2>1, <2>2 DEF LastUpdates
<1> QED BY <1>4, <1>5, <1>6, <1>7 DEF IInv


-----------------------------------------------------------------------------
(* What a step of one updater has to show of it, when the job keeps still  *)
(* and the others do.                                                      *)
LEMMA UpdaterStep ==
  ASSUME IInv, NEW b \in Batches, UNCHANGED job, TypeOK',
         pc[b] \notin {"none"} \cup Ends, pc'[b] # "none",
         \A c \in Batches \ {b} : pc'[c] = pc[c] /\ i'[c] = i[c] /\ ts'[c] = ts[c],
         pc'[b] \in {"asleep", "status", "read"} => i'[b] < Retries,
         pc'[b] = "patch" => ts'[b] \in Nat,
         pc'[b] \in {"updated", "done"} => stats' # NoStats,
         stats # NoStats => stats' # NoStats,
         pc'[b] = "unfinished" => In("queued") # {}
  PROVE  (\A c \in Batches : Updating(c))' /\ LastUpdates'
<1>1. UNCHANGED << found, translated, batch, calls, total, last >>
  BY DEF job
<1>2. batch[b] \in {"executed", "reported"}
  BY DEF IInv, TypeOK, Updating
<1>3. \A c \in Batches : Updating(c)'
  <2>1. Updating(b)'
    BY <1>1, <1>2 DEF Updating
  <2>2. ASSUME NEW c \in Batches \ {b} PROVE Updating(c)'
    BY <1>1, <2>2 DEF IInv, Updating
  <2> QED BY <2>1, <2>2
<1>4. LastUpdates'
  <2>1. In("queued")' = In("queued")
    BY <1>1 DEF In
  <2>2. ASSUME last # Nothing
        PROVE  /\ batch[last] \notin {"unfound", "queued"}
               /\ pc'[last] = "unfinished" => In("queued") # {}
    BY <2>2 DEF IInv, TypeOK, LastUpdates
  <2> QED BY <1>1, <2>1, <2>2 DEF LastUpdates
<1> QED BY <1>3, <1>4

(* The job, while an updater does something.                               *)
LEMMA JobStays ==
  ASSUME UNCHANGED job
  PROVE  /\ UNCHANGED << found, translated, batch, calls, total, last >>
         /\ CallsAhead' = CallsAhead /\ In("queued")' = In("queued")
         /\ \A x : MissesFew(x) => MissesFew(x)'
<1>1. UNCHANGED << found, translated, batch, calls, total, last >>
  BY DEF job
<1>2. CallsAhead' = CallsAhead /\ In("queued")' = In("queued")
  BY <1>1 DEF CallsAhead, In
<1> QED BY <1>1, <1>2 DEF MissesFew

LEMMA AwakeStep == ASSUME IInv, NEW b \in Batches, Awake(b) PROVE IInv'
<1>1. /\ pc[b] = "asleep" /\ pc' = [pc EXCEPT ![b] = "status"]
      /\ UNCHANGED job /\ UNCHANGED << i, ts, stats >>
  BY DEF Awake, Goto
<1>2. UNCHANGED << found, translated, batch, calls, total, last >>
      /\ CallsAhead' = CallsAhead /\ In("queued")' = In("queued")
  BY <1>1, JobStays
<1>3. TypeOK'
  BY <1>1, <1>2 DEF IInv, TypeOK
<1>4. pc'[b] = "status" /\ \A c \in Batches \ {b} : pc'[c] = pc[c]
  BY <1>1 DEF IInv, TypeOK
<1>5. i[b] < Retries
  BY <1>1 DEF IInv, Updating
<1>6. Misses'
  BY <1>1, <1>2, <1>4, MissesStay
<1>7. (\A c \in Batches : Updating(c))' /\ LastUpdates'
  <2>1. pc[b] \notin {"none"} \cup Ends
    BY <1>1 DEF Ends
  <2> QED BY <1>1, <1>3, <1>4, <1>5, <2>1, UpdaterStep
<1> QED BY <1>3, <1>6, <1>7 DEF IInv

LEMMA RequestFailsStep == ASSUME IInv, NEW b \in Batches, RequestFails(b) PROVE IInv'
<1>1. PICK request \in {"status", "read"} :
        /\ pc[b] = request
        /\ pc' = [pc EXCEPT ![b] = IF i[b] + 1 < Retries THEN request ELSE "failed"]
        /\ i' = [i EXCEPT ![b] = i[b] + 1]
        /\ UNCHANGED job /\ UNCHANGED << ts, stats >>
  BY DEF RequestFails, Goto
<1>2. UNCHANGED << found, translated, batch, calls, total, last >>
      /\ CallsAhead' = CallsAhead /\ In("queued")' = In("queued")
  BY <1>1, JobStays
<1>3. i[b] < Retries /\ i[b] \in Nat /\ Retries \in Nat
  BY <1>1, BatchesAssumption DEF IInv, Updating, TypeOK
<1>4. i[b] + 1 \in 0 .. Retries
  BY <1>3
<1>5. TypeOK'
  <2>1. pc' \in [Batches -> {"none", "asleep", "status", "read", "patch"} \cup Ends]
    BY <1>1 DEF IInv, TypeOK, Ends
  <2> QED BY <1>1, <1>2, <1>4, <2>1 DEF IInv, TypeOK
<1>6. /\ pc'[b] = IF i[b] + 1 < Retries THEN request ELSE "failed"
      /\ i'[b] = i[b] + 1
      /\ \A c \in Batches \ {b} : pc'[c] = pc[c] /\ i'[c] = i[c]
  BY <1>1 DEF IInv, TypeOK
<1>7. Misses'
  BY <1>1, <1>2, <1>6, MissesStay
<1>8. (\A c \in Batches : Updating(c))' /\ LastUpdates'
  <2>1. pc[b] \notin {"none"} \cup Ends
    BY <1>1 DEF Ends
  <2> QED BY <1>1, <1>5, <1>6, <2>1, UpdaterStep
<1> QED BY <1>5, <1>7, <1>8 DEF IInv

(* The status an updater gets, and what it will rely on.                   *)
LEMMA DecisionProperties ==
  /\ Decision \in {"unfinished", "updated", "crowded", "read"}
  /\ Decision = "unfinished" => In("queued") # {}
  /\ Decision = "updated" => stats # NoStats
  /\ Decision = "read" => In("queued") = {}
                          /\ Cardinality(CallsAhead) <= PendingLimit * MaxCalls
  BY NoneQueued, SomeQueued, AheadBound DEF Decision

LEMMA GetJobStatusStep == ASSUME IInv, NEW b \in Batches, GetJobStatus(b) PROVE IInv'
<1>1. /\ pc[b] = "status" /\ pc' = [pc EXCEPT ![b] = Decision]
      /\ i' = [i EXCEPT ![b] = 0]
      /\ UNCHANGED job /\ UNCHANGED << ts, stats >>
  BY DEF GetJobStatus, Goto
<1>2. /\ UNCHANGED << found, translated, batch, calls, total, last >>
      /\ CallsAhead' = CallsAhead /\ In("queued")' = In("queued")
      /\ \A x : MissesFew(x) => MissesFew(x)'
  BY <1>1, JobStays
<1>3. Decision \in {"unfinished", "updated", "crowded", "read"}
  BY DecisionProperties
<1>4. 0 \in 0 .. Retries /\ 0 < Retries
  BY BatchesAssumption
<1>5. TypeOK'
  <2>1. pc' \in [Batches -> {"none", "asleep", "status", "read", "patch"} \cup Ends]
    BY <1>1, <1>3 DEF IInv, TypeOK, Ends
  <2> QED BY <1>1, <1>2, <1>4, <2>1 DEF IInv, TypeOK
<1>6. /\ pc'[b] = Decision /\ i'[b] = 0
      /\ \A c \in Batches \ {b} : pc'[c] = pc[c] /\ i'[c] = i[c]
  BY <1>1 DEF IInv, TypeOK
<1>7. Misses'
  <2> SUFFICES ASSUME found = {} PROVE Misses'
    BY <1>2 DEF Misses
  <2>1. Misses
    BY DEF IInv
  <2>2. Decision = "read" => MissesFew(total)
    <3>1. total - total = 0
      BY DEF IInv, TypeOK
    <3> QED BY <3>1, AheadType, DecisionProperties DEF MissesFew
  <2>3. ASSUME NEW c \in Batches, pc'[c] = "read" PROVE MissesFew(total)
    BY <1>6, <2>1, <2>2, <2>3 DEF Misses
  <2>4. ASSUME NEW c \in Batches, pc'[c] = "patch" PROVE MissesFew(ts[c])
    BY <1>3, <1>6, <2>1, <2>4 DEF Misses
  <2>5. \A c \in Batches : pc'[c] = "read" => MissesFew(total)'
    BY <1>2, <2>3 DEF MissesFew
  <2>6. \A c \in Batches : pc'[c] = "patch" => MissesFew(ts[c])'
    BY <1>1, <1>2, <2>4 DEF MissesFew
  <2>7. stats' # NoStats => MissesFew(stats)'
    BY <1>1, <1>2, <2>1 DEF Misses, MissesFew
  <2>8. \A c \in Batches : batch'[c] # "unfound"
    BY <1>2, <2>1 DEF Misses
  <2> QED BY <2>5, <2>6, <2>7, <2>8 DEF Misses
<1>8. (\A c \in Batches : Updating(c))' /\ LastUpdates'
  <2>1. pc[b] \notin {"none"} \cup Ends
    BY <1>1 DEF Ends
  <2> QED BY <1>1, <1>3, <1>4, <1>5, <1>6, <2>1, DecisionProperties, UpdaterStep
<1> QED BY <1>5, <1>7, <1>8 DEF IInv

LEMMA HGetAllStep == ASSUME IInv, NEW b \in Batches, HGetAll(b) PROVE IInv'
<1>1. /\ pc[b] = "read" /\ pc' = [pc EXCEPT ![b] = "patch"]
      /\ i' = [i EXCEPT ![b] = 0] /\ ts' = [ts EXCEPT ![b] = total]
      /\ UNCHANGED job /\ UNCHANGED stats
  BY DEF HGetAll, Goto
<1>2. /\ UNCHANGED << found, translated, batch, calls, total, last >>
      /\ CallsAhead' = CallsAhead /\ In("queued")' = In("queued")
  BY <1>1, JobStays
<1>3. 0 \in 0 .. Retries /\ total \in Nat
  BY BatchesAssumption DEF IInv, TypeOK
<1>4. TypeOK'
  BY <1>1, <1>2, <1>3 DEF IInv, TypeOK
<1>5. /\ pc'[b] = "patch" /\ ts'[b] = total
      /\ \A c \in Batches \ {b} : pc'[c] = pc[c] /\ i'[c] = i[c] /\ ts'[c] = ts[c]
  BY <1>1 DEF IInv, TypeOK
<1>6. Misses'
  <2> SUFFICES ASSUME found = {} PROVE Misses'
    BY <1>2 DEF Misses
  <2>1. Misses
    BY DEF IInv
  <2>2. \A c \in Batches : pc'[c] = "read" => MissesFew(total)'
    BY <1>2, <1>5, <2>1 DEF Misses, MissesFew
  <2>3. \A c \in Batches : pc'[c] = "patch" => MissesFew(ts[c])'
    BY <1>1, <1>2, <1>5, <2>1 DEF Misses, MissesFew
  <2>4. stats' # NoStats => MissesFew(stats)'
    BY <1>1, <1>2, <2>1 DEF Misses, MissesFew
  <2>5. \A c \in Batches : batch'[c] # "unfound"
    BY <1>2, <2>1 DEF Misses
  <2> QED BY <2>2, <2>3, <2>4, <2>5 DEF Misses
<1>7. (\A c \in Batches : Updating(c))' /\ LastUpdates'
  <2>1. pc[b] \notin {"none"} \cup Ends
    BY <1>1 DEF Ends
  <2> QED BY <1>1, <1>3, <1>4, <1>5, <2>1, UpdaterStep
<1> QED BY <1>4, <1>6, <1>7 DEF IInv

LEMMA PatchStep == ASSUME IInv, NEW b \in Batches, Patch(b) PROVE IInv'
<1>1. PICK end \in {"done", "failed"} : pc[b] = "patch" /\ pc' = [pc EXCEPT ![b] = end]
  BY DEF Patch, Goto
<1>2. UNCHANGED job /\ UNCHANGED << i, ts >> /\ stats' = ts[b]
  BY DEF Patch
<1>3. /\ UNCHANGED << found, translated, batch, calls, total, last >>
      /\ CallsAhead' = CallsAhead /\ In("queued")' = In("queued")
  BY <1>2, JobStays
<1>4. ts[b] \in Nat /\ ts[b] # NoStats
  BY <1>1, BatchesAssumption DEF IInv, Updating
<1>5. TypeOK'
  <2>1. pc' \in [Batches -> {"none", "asleep", "status", "read", "patch"} \cup Ends]
    BY <1>1 DEF IInv, TypeOK, Ends
  <2> QED BY <1>2, <1>3, <1>4, <2>1 DEF IInv, TypeOK
<1>6. pc'[b] = end /\ \A c \in Batches \ {b} : pc'[c] = pc[c]
  BY <1>1 DEF IInv, TypeOK
<1>7. Misses'
  <2> SUFFICES ASSUME found = {} PROVE Misses'
    BY <1>3 DEF Misses
  <2>1. Misses
    BY DEF IInv
  <2>2. \A c \in Batches : pc'[c] = "read" => MissesFew(total)'
    BY <1>3, <1>6, <2>1 DEF Misses, MissesFew
  <2>3. \A c \in Batches : pc'[c] = "patch" => MissesFew(ts[c])'
    BY <1>2, <1>3, <1>6, <2>1 DEF Misses, MissesFew
  <2>4. MissesFew(stats)'
    BY <1>1, <1>2, <1>3, <2>1 DEF Misses, MissesFew
  <2>5. \A c \in Batches : batch'[c] # "unfound"
    BY <1>3, <2>1 DEF Misses
  <2> QED BY <2>2, <2>3, <2>4, <2>5 DEF Misses
<1>8. (\A c \in Batches : Updating(c))' /\ LastUpdates'
  <2>1. pc[b] \notin {"none"} \cup Ends
    BY <1>1 DEF Ends
  <2> QED BY <1>1, <1>2, <1>4, <1>5, <1>6, <2>1, UpdaterStep
<1> QED BY <1>5, <1>7, <1>8 DEF IInv

(* An updater that ends without a result.                                  *)
LEMMA EndStep ==
  ASSUME IInv, NEW b \in Batches, NEW end \in {"failed", "killed"},
         pc[b] \notin {"none"} \cup Ends, pc' = [pc EXCEPT ![b] = end],
         UNCHANGED job, UNCHANGED << i, ts, stats >>
  PROVE  IInv'
<1>1. UNCHANGED << found, translated, batch, calls, total, last >>
      /\ CallsAhead' = CallsAhead /\ In("queued")' = In("queued")
  BY JobStays
<1>2. TypeOK'
  <2>1. pc' \in [Batches -> {"none", "asleep", "status", "read", "patch"} \cup Ends]
    BY DEF IInv, TypeOK, Ends
  <2> QED BY <1>1, <2>1 DEF IInv, TypeOK
<1>3. pc'[b] = end /\ \A c \in Batches \ {b} : pc'[c] = pc[c]
  BY DEF IInv, TypeOK
<1>4. Misses'
  BY <1>1, <1>3, MissesStay
<1>5. (\A c \in Batches : Updating(c))' /\ LastUpdates'
  BY <1>2, <1>3, UpdaterStep
<1> QED BY <1>2, <1>4, <1>5 DEF IInv

LEMMA StepIInv == IInv /\ [Next]_vars => IInv'
<1> SUFFICES ASSUME IInv, [Next]_vars PROVE IInv'
  OBVIOUS
<1>1. ASSUME UNCHANGED vars PROVE IInv'
  <2>1. UNCHANGED job /\ UNCHANGED << pc, i, ts, stats >>
    BY <1>1 DEF vars, updaters
  <2>2. UNCHANGED << found, translated, batch, calls, total, last >>
        /\ CallsAhead' = CallsAhead /\ In("queued")' = In("queued")
    BY <2>1, JobStays
  <2>3. Misses'
    BY <2>1, <2>2, MissesStay
  <2> QED BY <2>1, <2>2, <2>3 DEF IInv, TypeOK, Updating, LastUpdates
<1>2. ASSUME NEW b \in Batches, HandOut(b) \/ Translate(b) \/ Execute(b) \/ Report(b)
      PROVE  IInv'
  BY <1>2, HandOutStep, TranslateStep, ExecuteStep, ReportStep
<1>3. ASSUME NEW b \in Batches, Updater(b) PROVE IInv'
  <2>1. CASE PatchFails(b)
    BY <2>1, EndStep DEF PatchFails, Goto, Ends
  <2> QED BY <1>3, <2>1, AwakeStep, RequestFailsStep, GetJobStatusStep, HGetAllStep,
             PatchStep DEF Updater
<1>4. ASSUME NEW b \in Batches, Killed(b) PROVE IInv'
  BY <1>4, EndStep DEF Killed
<1>5. Terminated => UNCHANGED vars
  BY DEF Terminated
<1> QED BY <1>1, <1>2, <1>3, <1>4, <1>5 DEF Next

LEMMA Invariance == Spec => []IInv
  BY InitIInv, StepIInv, PTL DEF Spec

-----------------------------------------------------------------------------
(* Every variable of the job and of its updaters keeps its type.           *)
THEOREM TypeCorrect == Spec => []TypeOK
<1>1. IInv => TypeOK
  BY DEF IInv
<1> QED BY <1>1, Invariance, PTL

(* The statistics of a job that finds no links of its own miss no more     *)
(* calls than the tolerated batches can make, whatever updaters overwrite  *)
(* each other.                                                             *)
THEOREM MissesBounded == Spec => []MissesAtMost
<1>1. ASSUME IInv, found = {}, stats # NoStats
      PROVE  total - stats <= PendingLimit * MaxCalls
  <2>1. (total - stats) + Cardinality(CallsAhead) <= PendingLimit * MaxCalls
    BY <1>1 DEF IInv, Misses, MissesFew
  <2>2. total - stats \in Int /\ PendingLimit * MaxCalls \in Nat
    BY <1>1, BatchesAssumption DEF IInv, TypeOK
  <2> QED BY <2>1, <2>2, AheadType
<1>2. IInv => MissesAtMost
  BY <1>1 DEF MissesAtMost
<1> QED BY <1>2, Invariance, PTL

(* The updater of the last batch has not left the job to another one.      *)
THEOREM LastRecords == Spec => []Recorded
<1>1. ASSUME IInv, Quiet, last \in translated,
             \A b \in Batches : pc[b] \notin {"failed", "crowded", "killed"}
      PROVE  stats # NoStats
  <2>1. last \in Batches /\ last # Nothing
    BY <1>1, BatchesAssumption DEF IInv, TypeOK
  <2>2. batch[last] = "reported" /\ pc[last] # "none"
    BY <1>1, <2>1 DEF IInv, Quiet, LastUpdates, Updating
  <2>3. In("queued") = {}
    BY <1>1 DEF Quiet, In
  <2>4. pc[last] \in {"updated", "done"}
    BY <1>1, <2>1, <2>2, <2>3 DEF IInv, Quiet, Ends, LastUpdates
  <2> QED BY <1>1, <2>1, <2>4 DEF IInv, Updating
<1>2. IInv => Recorded
  BY <1>1 DEF Recorded
<1> QED BY <1>2, Invariance, PTL
=============================================================================
