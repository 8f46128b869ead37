--------------------------- MODULE ConsumerProofs ---------------------------
(* Theorems about Consumer, for every set of messages, number of calls,    *)
(* sites, pool sizes and number of restarts.                               *)
EXTENDS Consumer, SequenceTheorems, FiniteSetTheorems, TLAPS

-----------------------------------------------------------------------------
(* What sending to a Go channel and receiving from it do to the sequence   *)
(* that stands for it.                                                     *)

(* Sending to a channel adds one element, at its end.                      *)
LEMMA SendProperties ==
  ASSUME NEW S, NEW s \in Seq(S), NEW e \in S
  PROVE  /\ Append(s, e) \in Seq(S)
         /\ Len(Append(s, e)) = Len(s) + 1
         /\ DOMAIN Append(s, e) = 1 .. Len(s) + 1
         /\ \A i \in 1 .. Len(s) : Append(s, e)[i] = s[i]
         /\ Append(s, e)[Len(s) + 1] = e
  OBVIOUS

(* Receiving from a channel removes its first element.                     *)
LEMMA ReceiveProperties ==
  ASSUME NEW S, NEW s \in Seq(S), s # << >>
  PROVE  /\ Len(s) \in Nat \ {0}
         /\ DOMAIN s = 1 .. Len(s)
         /\ Head(s) = s[1]
         /\ Head(s) \in S
         /\ Tail(s) \in Seq(S)
         /\ DOMAIN Tail(s) = 1 .. Len(s) - 1
         /\ \A i \in 1 .. Len(s) - 1 : Tail(s)[i] = s[i + 1]
  <1>1. Len(s) \in Nat \ {0} /\ DOMAIN s = 1 .. Len(s)
    BY EmptySeq, LenProperties
  <1>2. Tail(s) \in Seq(S) /\ Len(Tail(s)) = Len(s) - 1 /\ Head(s) \in S
    BY HeadTailProperties
  <1>3. \A i \in 1 .. Len(s) - 1 : Tail(s)[i] = s[i + 1]
    BY HeadTailProperties, <1>2
  <1>4. DOMAIN Tail(s) = 1 .. Len(s) - 1
    BY <1>2, LenProperties
  <1>5. Head(s) = s[1]
    OBVIOUS
  <1> QED BY <1>1, <1>2, <1>3, <1>4, <1>5

-----------------------------------------------------------------------------
(* The inductive invariant.                                                *)

(* A call holds a message exactly while it is at work, and a url while it  *)
(* is at one; what is left to do is part of its batch.                     *)
CallState ==
  \A h \in Handlers :
    /\ pc[h] = "idle" <=> msg[h] = NoMessage
    /\ pc[h] \in {"entering", "waiting", "executing", "pushing"} <=> url[h] # NoUrl
    /\ pc[h] \in {"entering", "waiting", "pushing"} => Site[url[h]] \in Sites
    /\ msg[h] # NoMessage => todo[h] \subseteq Tasks[msg[h]]
    /\ url[h] # NoUrl => url[h] \in Tasks[msg[h]] /\ url[h] \notin todo[h]
    /\ success[h] => pc[h] = "answer"

(* A process that is not to be started again does not run.                 *)
RestartState == up => restarts <= MaxRestarts

(* The calls that wait for a pool are those at one of its site's urls.     *)
WaitState ==
  \A s \in Sites : \A i \in DOMAIN waiting[s] :
      /\ pc[waiting[s][i]] = "waiting"
      /\ Site[url[waiting[s][i]]] = s
      /\ \A j \in DOMAIN waiting[s] : waiting[s][j] = waiting[s][i] => j = i

PoolLimit == \A s \in Sites : Cardinality(Executing(s)) <= PoolSize[s]

(* A call that has still to decide what becomes of its message.            *)
Undecided(h) ==
  \/ pc[h] = "range" /\ todo[h] # {}
  \/ pc[h] \in {"entering", "waiting", "executing", "pushing"}
  \/ pc[h] = "answer" /\ ~success[h]

Traced ==
  \A m \in Messages :
    \/ Tasks[m] = {}
    \/ fate[m] # {}
    \/ queue[m] > 0
    \/ \E h \in Handlers : msg[h] = m /\ Undecided(h)

(* The calls that may still start the execution of a batch.                *)
Chances(m) ==
  {h \in Handlers : /\ msg[h] = m
                    /\ \/ pc[h] = "range" /\ todo[h] # {}
                       \/ pc[h] \in {"entering", "waiting", "pushing"}}

Counted ==
  \A m \in Messages :
    Cardinality(Tasks[m]) = 1 =>
      executions[m] + queue[m] + Cardinality(Chances(m)) <= 1 + redelivered[m]

Base == TypeOK /\ RestartState /\ CallState /\ WaitState

IInv == Base /\ PoolLimit /\ Traced /\ Counted

-----------------------------------------------------------------------------
(* Counting calls.                                                         *)

LEMMA CallsFinite ==
  ASSUME NEW S \in SUBSET Handlers
  PROVE  IsFiniteSet(S) /\ Cardinality(S) \in Nat
  BY FS_Subset, FS_CardinalityType, DeploymentsAssumption

LEMMA OneMoreCall ==
  ASSUME NEW S \in SUBSET Handlers, NEW h \in Handlers
  PROVE  /\ Cardinality(S \cup {h}) <= Cardinality(S) + 1
         /\ h \in S => Cardinality(S \ {h}) = Cardinality(S) - 1
<1>1. IsFiniteSet(S) /\ Cardinality(S) \in Nat
  BY CallsFinite
<1>2. Cardinality(S \cup {h}) = IF h \in S THEN Cardinality(S) ELSE Cardinality(S) + 1
  BY ONLY <1>1, FS_AddElement
<1>3. Cardinality(S \ {h}) = IF h \in S THEN Cardinality(S) - 1 ELSE Cardinality(S)
  BY ONLY <1>1, FS_RemoveElement
<1> QED BY ONLY <1>1, <1>2, <1>3

LEMMA FewerCalls ==
  ASSUME NEW S \in SUBSET Handlers, NEW T \in SUBSET S
  PROVE  Cardinality(T) <= Cardinality(S)
  BY CallsFinite, FS_Subset

LEMMA NoCall == Cardinality({}) = 0
  BY FS_EmptySet

LEMMA RestartsBounded == ASSUME deployment \in Deployments PROVE MaxRestarts \in Nat
  BY DeploymentsAssumption DEF MaxRestarts

-----------------------------------------------------------------------------
(* Types, and what a call holds.                                           *)

LEMMA BaseInit == Init => Base
  <1> SUFFICES ASSUME Init PROVE Base
    OBVIOUS
  <1>1. << >> \in Seq(Handlers) /\ DOMAIN << >> = {}
    BY EmptySeq
  <1>2. deployment \in Deployments /\ up \in BOOLEAN
    BY DEF Init
  <1>10. restarts \in 0 .. MaxRestarts + 1
    BY <1>2, RestartsBounded DEF Init
  <1>9. /\ queue \in [Messages -> Nat] /\ executions \in [Messages -> Nat]
        /\ redelivered \in [Messages -> Nat]
    BY DEF Init
  <1>3. fate \in [Messages -> SUBSET Fates] /\ todo \in [Handlers -> SUBSET Urls]
    BY DEF Init
  <1>4. /\ pc \in [Handlers -> {"idle", "range", "entering", "waiting", "executing",
                                "pushing", "answer"}]
        /\ msg \in [Handlers -> Messages \cup {NoMessage}]
        /\ url \in [Handlers -> Urls \cup {NoUrl}]
    BY DEF Init
  <1>5. success \in [Handlers -> BOOLEAN] /\ waiting \in [Sites -> Seq(Handlers)]
    BY <1>1 DEF Init
  <1>6. TypeOK
    BY <1>2, <1>3, <1>4, <1>5, <1>9, <1>10 DEF TypeOK
  <1>7. RestartState /\ CallState
    BY MessagesAssumption, SitesAssumption DEF Init, RestartState, CallState
  <1>8. WaitState
    BY <1>1 DEF Init, WaitState
  <1> QED BY <1>6, <1>7, <1>8 DEF Base

(* A step that moves one call and leaves the pools' queues alone.          *)
LEMMA WaitUnchanged ==
  ASSUME Base, NEW h \in Handlers, pc[h] # "waiting", UNCHANGED waiting,
         \A k \in Handlers \ {h} : pc'[k] = pc[k] /\ url'[k] = url[k]
  PROVE  WaitState'
  <1> SUFFICES ASSUME NEW s \in Sites, NEW i \in DOMAIN waiting[s]
               PROVE  /\ pc'[waiting[s][i]] = "waiting"
                      /\ Site[url'[waiting[s][i]]] = s
                      /\ \A j \in DOMAIN waiting[s] :
                            waiting[s][j] = waiting[s][i] => j = i
    BY DEF WaitState
  <1>1. waiting[s][i] \in Handlers /\ waiting[s][i] # h
    BY DEF Base, TypeOK, WaitState
  <1> QED BY <1>1 DEF Base, WaitState

LEMMA BaseStep == Base /\ [Next]_vars => Base'
  <1> SUFFICES ASSUME Base, [Next]_vars PROVE Base'
    OBVIOUS
  <1> USE DEF Base, TypeOK, RestartState, CallState, Goto, process, calls, history
  <1>0. MaxRestarts \in Nat /\ (deployment' = deployment => MaxRestarts' = MaxRestarts)
    BY RestartsBounded DEF MaxRestarts
  <1> USE MessagesAssumption, SitesAssumption, <1>0
  <1>1. CASE Start
    BY <1>1 DEF Start, WaitState
  <1>2. CASE Die
    <2> USE <1>2 DEF Die
    <2>1. \A m \in Messages : Cardinality(Holding(m)) \in Nat
      BY CallsFinite DEF Holding
    <2>2. << >> \in Seq(Handlers) /\ DOMAIN << >> = {}
      BY EmptySeq
    <2>8. deployment' \in Deployments /\ up' \in BOOLEAN
      OBVIOUS
    <2>9. restarts' \in 0 .. MaxRestarts + 1
      <3>1. restarts' = restarts + 1 /\ restarts <= MaxRestarts /\ restarts \in Nat
        OBVIOUS
      <3> QED BY <3>1
    <2>3. /\ queue' \in [Messages -> Nat] /\ executions' \in [Messages -> Nat]
          /\ redelivered' \in [Messages -> Nat] /\ fate' \in [Messages -> SUBSET Fates]
      BY <2>1
    <2>4. /\ pc' \in [Handlers -> {"idle", "range", "entering", "waiting",
                                   "executing", "pushing", "answer"}]
          /\ msg' \in [Handlers -> Messages \cup {NoMessage}]
          /\ url' \in [Handlers -> Urls \cup {NoUrl}]
          /\ todo' \in [Handlers -> SUBSET Urls]
      OBVIOUS
    <2>5. success' \in [Handlers -> BOOLEAN] /\ waiting' \in [Sites -> Seq(Handlers)]
      BY <2>2
    <2>6. RestartState' /\ CallState'
      OBVIOUS
    <2>7. WaitState'
      BY <2>2 DEF WaitState
    <2> QED BY <2>3, <2>4, <2>5, <2>6, <2>7, <2>8, <2>9
  <1>3. ASSUME NEW h \in Handlers, Deliver(h) PROVE Base'
    <2>1. PICK m \in Messages :
            /\ queue[m] > 0
            /\ Goto(h, "idle", IF m \in Malformed THEN "answer" ELSE "range")
            /\ queue' = [queue EXCEPT ![m] = @ - 1]
            /\ msg' = [msg EXCEPT ![h] = m]
            /\ todo' = [todo EXCEPT ![h] = IF m \in Malformed THEN {} ELSE Tasks[m]]
            /\ UNCHANGED << process, url, success, waiting, history >>
      BY <1>3 DEF Deliver
    <2>2. WaitState'
      BY <2>1, WaitUnchanged
    <2>3. TypeOK'
      BY <2>1
    <2>4. CallState'
      BY <2>1
    <2> QED BY <2>1, <2>2, <2>3, <2>4
  <1>4. ASSUME NEW h \in Handlers, LookUp(h) PROVE Base'
    <2>1. PICK u \in todo[h] :
            /\ Goto(h, "range", Choice(u))
            /\ todo' = [todo EXCEPT ![h] = @ \ {u}]
            /\ url' = [url EXCEPT ![h] = u]
            /\ executions' = [executions EXCEPT ![msg[h]] =
                                IF Choice(u) = "executing" THEN @ + 1 ELSE @]
            /\ UNCHANGED << process, queue, msg, success, waiting, redelivered,
                            fate >>
      BY <1>4 DEF LookUp
    <2>2. /\ Choice(u) \in {"executing", "pushing", "entering"}
          /\ Choice(u) \in {"pushing", "entering"} => Site[u] \in Sites
      BY <2>1 DEF Choice
    <2>3. WaitState'
      BY <2>1, WaitUnchanged
    <2>4. TypeOK'
      BY <2>1, <2>2
    <2>5. CallState'
      BY <2>1, <2>2
    <2> QED BY <2>1, <2>3, <2>4, <2>5
  <1>5. ASSUME NEW h \in Handlers, LookUpFails(h) PROVE Base'
    <2>1. WaitState'
      BY <1>5, WaitUnchanged DEF LookUpFails
    <2> QED BY <1>5, <2>1 DEF LookUpFails
  <1>6. ASSUME NEW h \in Handlers, Enter(h) PROVE Base'
    <2> DEFINE s == Site[url[h]]
    <2>1. s \in Sites /\ waiting[s] \in Seq(Handlers)
      BY <1>6 DEF Enter
    <2> HIDE DEF s
    <2>2. /\ waiting' = [waiting EXCEPT ![s] = Append(@, h)]
          /\ pc[h] = "entering" /\ pc' = [pc EXCEPT ![h] = "waiting"] /\ url' = url
      BY <1>6 DEF Enter, s
    <2>3. /\ Append(waiting[s], h) \in Seq(Handlers)
          /\ Len(waiting[s]) \in Nat
          /\ DOMAIN waiting[s] = 1 .. Len(waiting[s])
          /\ DOMAIN waiting'[s] = 1 .. Len(waiting[s]) + 1
          /\ \A i \in 1 .. Len(waiting[s]) : waiting'[s][i] = waiting[s][i]
          /\ waiting'[s][Len(waiting[s]) + 1] = h
      BY <2>1, <2>2, SendProperties, LenProperties
    <2>4. waiting' \in [Sites -> Seq(Handlers)]
      BY <2>1, <2>2, <2>3
    <2>5. TypeOK'
      BY <1>6, <2>4 DEF Enter
    <2>6. RestartState' /\ CallState'
      BY <1>6 DEF Enter
    <2>7. ASSUME NEW r \in Sites, r # s, NEW i \in DOMAIN waiting'[r]
          PROVE  /\ pc'[waiting'[r][i]] = "waiting"
                 /\ Site[url'[waiting'[r][i]]] = r
                 /\ \A j \in DOMAIN waiting'[r] :
                      waiting'[r][j] = waiting'[r][i] => j = i
      <3>1. waiting'[r] = waiting[r] /\ waiting[r][i] \in Handlers
        BY <2>2, <2>7
      <3> QED BY <2>2, <2>7, <3>1 DEF WaitState
    <2>8. ASSUME NEW i \in DOMAIN waiting'[s]
          PROVE  /\ pc'[waiting'[s][i]] = "waiting"
                 /\ Site[url'[waiting'[s][i]]] = s
                 /\ \A j \in DOMAIN waiting'[s] :
                      waiting'[s][j] = waiting'[s][i] => j = i
      <3> DEFINE n == Len(waiting[s])
      <3>7. waiting[s] \in Seq(Handlers) /\ DOMAIN waiting[s] = 1 .. n /\ n \in Nat
        BY <2>1
      <3>8. i \in 1 .. n + 1 /\ \A k \in 1 .. n : waiting[s][k] \in Handlers
        BY <2>3, <2>8, <3>7
      <3>9. \A k \in 1 .. n :
              /\ pc[waiting[s][k]] = "waiting" /\ Site[url[waiting[s][k]]] = s
              /\ \A j \in 1 .. n : waiting[s][j] = waiting[s][k] => j = k
        <4> HIDE DEF Base, TypeOK, RestartState, CallState, n
        <4>1. WaitState
          BY DEF Base
        <4> QED BY <2>1, <3>7, <4>1 DEF WaitState
      <3>1. /\ n \in Nat /\ i \in 1 .. n + 1
            /\ \A k \in 1 .. n :
                 /\ waiting[s][k] \in Handlers
                 /\ pc[waiting[s][k]] = "waiting" /\ Site[url[waiting[s][k]]] = s
                 /\ \A j \in 1 .. n : waiting[s][j] = waiting[s][k] => j = k
        BY <3>7, <3>8, <3>9
      <3>2. /\ DOMAIN waiting'[s] = 1 .. n + 1
            /\ \A k \in 1 .. n : waiting'[s][k] = waiting[s][k]
            /\ waiting'[s][n + 1] = h
        BY <2>3
      <3>3. pc'[h] = "waiting" /\ Site[url'[h]] = s
        BY <2>2 DEF s
      <3> HIDE DEF n, Base, TypeOK, RestartState, CallState
      <3>4. \A k \in 1 .. n :
              /\ waiting[s][k] # h
              /\ pc'[waiting[s][k]] = "waiting" /\ Site[url'[waiting[s][k]]] = s
        BY <2>2, <3>1
      <3>5. CASE i = n + 1
        BY <3>1, <3>2, <3>3, <3>4, <3>5
      <3>6. CASE i \in 1 .. n
        BY <3>1, <3>2, <3>4, <3>6
      <3> QED BY <3>1, <3>5, <3>6
    <2>9. WaitState'
      <3> HIDE DEF Base, TypeOK, RestartState, CallState
      <3> QED BY <2>7, <2>8 DEF WaitState
    <2> QED BY <2>5, <2>6, <2>9
  <1>7. ASSUME NEW s \in Sites, PoolStart(s) PROVE Base'
    <2> DEFINE h == waiting[s][1]
               n == Len(waiting[s])
    <2>1. /\ n \in Nat \ {0} /\ DOMAIN waiting[s] = 1 .. n
          /\ Head(waiting[s]) = h /\ h \in Handlers
          /\ Tail(waiting[s]) \in Seq(Handlers)
          /\ DOMAIN Tail(waiting[s]) = 1 .. n - 1
          /\ \A i \in 1 .. n - 1 : Tail(waiting[s])[i] = waiting[s][i + 1]
      BY <1>7, ReceiveProperties DEF PoolStart
    <2> HIDE DEF h, n
    <2>2. /\ pc[h] = "waiting" /\ pc' = [pc EXCEPT ![h] = "executing"]
          /\ waiting' = [waiting EXCEPT ![s] = Tail(@)]
          /\ executions' = [executions EXCEPT ![msg[h]] = @ + 1]
          /\ UNCHANGED << process, queue, msg, todo, url, success, redelivered, fate >>
      BY <1>7, <2>1 DEF PoolStart
    <2>3. waiting' \in [Sites -> Seq(Handlers)]
      BY <2>1, <2>2
    <2>4. msg[h] \in Messages
      BY <2>1, <2>2
    <2>5. TypeOK'
      <3>1. pc' \in [Handlers -> {"idle", "range", "entering", "waiting", "executing",
                                  "pushing", "answer"}]
        BY <2>2
      <3>2. executions' \in [Messages -> Nat]
        BY <2>2, <2>4
      <3>3. UNCHANGED << process, queue, msg, todo, url, success, redelivered, fate >>
        BY <2>2
      <3>4. TypeOK
        OBVIOUS
      <3> QED BY ONLY <1>0, <2>3, <3>1, <3>2, <3>3, <3>4 DEF TypeOK, process
    <2>6. RestartState' /\ CallState'
      <3>1. UNCHANGED << process, msg, todo, url, success >>
        BY <2>2
      <3>2. /\ pc[h] = "waiting" /\ pc'[h] = "executing"
            /\ \A k \in Handlers \ {h} : pc'[k] = pc[k]
        BY <2>1, <2>2
      <3>3. RestartState /\ CallState
        OBVIOUS
      <3> QED BY ONLY <1>0, <2>1, <3>1, <3>2, <3>3 DEF RestartState, CallState, process
    <2>7. \A r \in Sites : \A i \in DOMAIN waiting[r] :
            /\ waiting[r][i] \in Handlers
            /\ pc[waiting[r][i]] = "waiting" /\ Site[url[waiting[r][i]]] = r
            /\ \A j \in DOMAIN waiting[r] : waiting[r][j] = waiting[r][i] => j = i
      BY DEF WaitState
    <2>8. Site[url[h]] = s /\ \A i \in 2 .. n : waiting[s][i] # h
      <3> HIDE DEF Base, TypeOK, RestartState, CallState
      <3>1. 1 \in DOMAIN waiting[s] /\ h = waiting[s][1]
        BY <2>1 DEF h
      <3>2. Site[url[h]] = s
        BY <2>7, <3>1
      <3>3. ASSUME NEW i \in 2 .. n PROVE waiting[s][i] # h
        <4>1. i \in DOMAIN waiting[s] /\ i # 1
          BY <2>1
        <4> QED BY <2>7, <3>1, <4>1
      <3> QED BY <3>2, <3>3
    <2> HIDE DEF Base, TypeOK, RestartState, CallState
    <2>9. ASSUME NEW r \in Sites, r # s, NEW i \in DOMAIN waiting'[r]
          PROVE  /\ pc'[waiting'[r][i]] = "waiting"
                 /\ Site[url'[waiting'[r][i]]] = r
                 /\ \A j \in DOMAIN waiting'[r] :
                      waiting'[r][j] = waiting'[r][i] => j = i
      <3>1. waiting'[r] = waiting[r] /\ waiting \in [Sites -> Seq(Handlers)]
        BY <2>2, <2>9 DEF Base, TypeOK
      <3>2. waiting[r][i] # h
        BY <2>7, <2>8, <2>9, <3>1
      <3> QED BY <2>2, <2>7, <2>9, <3>1, <3>2 DEF Base, TypeOK
    <2>10. ASSUME NEW i \in DOMAIN waiting'[s]
           PROVE  /\ pc'[waiting'[s][i]] = "waiting"
                  /\ Site[url'[waiting'[s][i]]] = s
                  /\ \A j \in DOMAIN waiting'[s] :
                       waiting'[s][j] = waiting'[s][i] => j = i
      <3>1. /\ DOMAIN waiting'[s] = 1 .. n - 1
            /\ \A j \in 1 .. n - 1 : waiting'[s][j] = waiting[s][j + 1]
        BY <2>1, <2>2 DEF Base, TypeOK
      <3>2. i + 1 \in 2 .. n /\ i + 1 \in DOMAIN waiting[s] /\ i \in 1 .. n - 1
        BY <2>1, <2>10, <3>1
      <3>3. /\ waiting'[s][i] = waiting[s][i + 1]
            /\ waiting[s][i + 1] \in Handlers /\ waiting[s][i + 1] # h
        BY <2>7, <2>8, <3>1, <3>2
      <3>4. pc'[waiting'[s][i]] = "waiting" /\ Site[url'[waiting'[s][i]]] = s
        BY <2>2, <2>7, <3>2, <3>3 DEF Base, TypeOK
      <3>5. ASSUME NEW j \in 1 .. n - 1, waiting'[s][j] = waiting'[s][i]
            PROVE  j = i
        <4>1. j + 1 \in DOMAIN waiting[s] /\ waiting[s][j + 1] = waiting[s][i + 1]
          BY <2>1, <3>1, <3>3, <3>5
        <4>2. j + 1 = i + 1
          BY <2>7, <3>2, <4>1
        <4> QED BY <3>2, <4>2
      <3> QED BY <3>1, <3>4, <3>5
    <2>11. WaitState'
      BY <2>9, <2>10 DEF WaitState
    <2> QED BY <2>5, <2>6, <2>11 DEF Base
  <1>8. ASSUME NEW h \in Handlers, Executed(h) PROVE Base'
    <2>1. WaitState'
      BY <1>8, WaitUnchanged DEF Executed
    <2> QED BY <1>8, <2>1 DEF Executed, Become, Fates
  <1>9. ASSUME NEW h \in Handlers, PushBack(h) PROVE Base'
    <2>1. WaitState'
      BY <1>9, WaitUnchanged DEF PushBack
    <2> QED BY <1>9, <2>1 DEF PushBack
  <1>10. ASSUME NEW h \in Handlers, PushFails(h) PROVE Base'
    <2>1. WaitState'
      BY <1>10, WaitUnchanged DEF PushFails
    <2> QED BY <1>10, <2>1 DEF PushFails, Become, Fates
  <1>11. ASSUME NEW h \in Handlers, PushPanics(h) PROVE Base'
    BY <1>2, <1>11 DEF PushPanics
  <1>12. ASSUME NEW h \in Handlers, Finish(h) PROVE Base'
    <2>1. WaitState'
      BY <1>12, WaitUnchanged DEF Finish
    <2> QED BY <1>12, <2>1 DEF Finish
  <1>13. ASSUME NEW h \in Handlers, Settle(h) PROVE Base'
    <2>1. WaitState'
      BY <1>13, WaitUnchanged DEF Settle
    <2>2. success' \in [Handlers -> BOOLEAN]
      BY <1>13 DEF Settle
    <2>3. fate' \in [Messages -> SUBSET Fates]
      <3>1. fate' = fate \/ fate' = [fate EXCEPT ![msg[h]] = @ \cup {"failed"}]
        BY <1>13 DEF Settle, Become
      <3>2. fate \in [Messages -> SUBSET Fates] /\ {"failed"} \subseteq Fates
        BY DEF Fates
      <3> HIDE DEF Base, TypeOK, RestartState, CallState
      <3> QED BY <3>1, <3>2
    <2>4. TypeOK'
      BY <1>13, <2>2, <2>3 DEF Settle
    <2>5. RestartState' /\ CallState'
      BY <1>13 DEF Settle
    <2> QED BY <2>1, <2>4, <2>5
  <1>14. CASE UNCHANGED vars
    BY <1>14 DEF vars, WaitState
  <1> QED
    BY <1>1, <1>2, <1>3, <1>4, <1>5, <1>6, <1>7, <1>8, <1>9, <1>10, <1>11,
       <1>12, <1>13, <1>14
    DEF Next, Call, Terminated

-----------------------------------------------------------------------------
(* The pools.                                                              *)

(* A step that starts no batch of a site's pool keeps to its size.         *)
LEMMA NoneStarted ==
  ASSUME PoolLimit, Base, \A s \in Sites : Executing(s)' \subseteq Executing(s)
  PROVE  PoolLimit'
  <1> SUFFICES ASSUME NEW s \in Sites
               PROVE  Cardinality(Executing(s)') <= PoolSize[s]
    BY DEF PoolLimit
  <1>1. Executing(s) \in SUBSET Handlers /\ Executing(s)' \in SUBSET Executing(s)
    BY DEF Executing
  <1>2. Cardinality(Executing(s)') <= Cardinality(Executing(s))
    BY <1>1, FewerCalls
  <1>3. Cardinality(Executing(s)') \in Nat /\ Cardinality(Executing(s)) \in Nat
    BY <1>1, CallsFinite
  <1> QED BY <1>2, <1>3, SitesAssumption DEF PoolLimit

LEMMA PoolStep == Base /\ PoolLimit /\ [Next]_vars => PoolLimit'
  <1> SUFFICES ASSUME Base, PoolLimit, [Next]_vars PROVE PoolLimit'
    OBVIOUS
  <1>1. CASE \E s \in Sites : PoolStart(s)
    <2>1. PICK s \in Sites : PoolStart(s)
      BY <1>1
    <2> DEFINE h == Head(waiting[s])
    <2>2. /\ h \in Handlers /\ Site[url[h]] = s
          /\ pc' = [pc EXCEPT ![h] = "executing"] /\ url' = url
          /\ Cardinality(Executing(s)) < PoolSize[s]
      <3>1. h = waiting[s][1] /\ 1 \in DOMAIN waiting[s] /\ h \in Handlers
        BY <2>1, ReceiveProperties DEF PoolStart, Base, TypeOK
      <3> QED BY <2>1, <3>1 DEF PoolStart, Goto, Base, WaitState
    <2> HIDE DEF h
    <2>3. Executing(s)' \subseteq Executing(s) \cup {h}
      BY <2>2 DEF Executing, Base, TypeOK
    <2>4. \A r \in Sites \ {s} : Executing(r)' \subseteq Executing(r)
      BY <2>2 DEF Executing, Base, TypeOK
    <2>5. ASSUME NEW r \in Sites
          PROVE  Cardinality(Executing(r)') <= PoolSize[r]
      <3>1. /\ Executing(r) \in SUBSET Handlers /\ Executing(r)' \in SUBSET Handlers
            /\ Executing(r) \cup {h} \in SUBSET Handlers
        BY <2>2 DEF Executing
      <3>2. /\ Cardinality(Executing(r)) \in Nat /\ Cardinality(Executing(r)') \in Nat
            /\ Cardinality(Executing(r) \cup {h}) \in Nat
        BY <3>1, CallsFinite
      <3>3. CASE r = s
        <4>1. Cardinality(Executing(r)') <= Cardinality(Executing(r) \cup {h})
          BY <2>3, <3>1, <3>3, FewerCalls
        <4>2. Cardinality(Executing(r) \cup {h}) <= Cardinality(Executing(r)) + 1
          BY <2>2, <3>1, OneMoreCall
        <4> QED BY <2>2, <3>2, <3>3, <4>1, <4>2, SitesAssumption
      <3>4. CASE r # s
        <4>1. Cardinality(Executing(r)') <= Cardinality(Executing(r))
          BY <2>4, <3>1, <3>4, FewerCalls
        <4> QED BY <3>2, <4>1, SitesAssumption DEF PoolLimit
      <3> QED BY <3>3, <3>4
    <2> QED BY <2>5 DEF PoolLimit
  <1>2. ASSUME NEW h \in Handlers, LookUp(h) PROVE PoolLimit'
    <2>1. PICK u \in todo[h] :
            /\ pc' = [pc EXCEPT ![h] = Choice(u)] /\ url' = [url EXCEPT ![h] = u]
      BY <1>2 DEF LookUp, Goto
    <2>2. Choice(u) = "executing" => Site[u] \notin Sites
      BY SitesAssumption DEF Choice
    <2> QED BY <2>1, <2>2, NoneStarted DEF Executing, Base, TypeOK
  <1>3. CASE Die
    BY <1>3, NoneStarted DEF Die, Executing
  <1>4. ASSUME NEW h \in Handlers, Deliver(h) PROVE PoolLimit'
    BY <1>4, NoneStarted DEF Deliver, Goto, Executing, Base, TypeOK
  <1>5. ASSUME NEW h \in Handlers,
               LookUpFails(h) \/ Enter(h) \/ Executed(h) \/ PushBack(h)
               \/ PushFails(h) \/ Finish(h) \/ Settle(h)
        PROVE  PoolLimit'
    <2>1. \E to \in {"answer", "waiting", "range", "idle"} :
            /\ pc' = [pc EXCEPT ![h] = to]
            /\ \A k \in Handlers \ {h} : url'[k] = url[k]
      BY <1>5 DEF LookUpFails, Enter, Executed, PushBack, PushFails, Finish, Settle,
                  Goto, Base, TypeOK
    <2> QED BY <2>1, NoneStarted DEF Executing, Base, TypeOK
  <1>6. CASE Start \/ UNCHANGED vars
    BY <1>6, NoneStarted DEF Start, vars, calls, Executing
  <1> QED
    BY <1>1, <1>2, <1>3, <1>4, <1>5, <1>6 DEF Next, Call, PushPanics, Terminated

-----------------------------------------------------------------------------
(* What becomes of a message.                                              *)

LEMMA TracedStep == Base /\ Traced /\ [Next]_vars => Traced'
  <1> SUFFICES ASSUME Base, Traced, [Next]_vars, NEW m \in Messages, Tasks[m] # {}
               PROVE  \/ fate'[m] # {}
                      \/ queue'[m] > 0
                      \/ \E k \in Handlers : msg'[k] = m /\ Undecided(k)'
    BY DEF Traced
  <1> DEFINE Result == \/ fate'[m] # {}
                       \/ queue'[m] > 0
                       \/ \E k \in Handlers : msg'[k] = m /\ Undecided(k)'
  <1>0. \/ fate[m] # {}
        \/ queue[m] > 0
        \/ \E k \in Handlers : msg[k] = m /\ Undecided(k)
    BY DEF Traced
  <1>1. CASE Start \/ UNCHANGED vars
    BY <1>0, <1>1 DEF Start, vars, calls, history, Undecided
  <1>2. CASE Die
    <2>1. fate' = fate /\ queue'[m] = queue[m] + Cardinality(Holding(m))
      BY <1>2 DEF Die
    <2>2. Holding(m) \in SUBSET Handlers /\ Cardinality(Holding(m)) \in Nat
      BY CallsFinite DEF Holding
    <2>3. queue[m] \in Nat
      BY DEF Base, TypeOK
    <2>4. CASE \E k \in Handlers : msg[k] = m
      <3>1. Holding(m) # {}
        BY <2>4 DEF Holding
      <3>2. Cardinality(Holding(m)) # 0
        BY <2>2, <3>1, CallsFinite, FS_EmptySet
      <3> QED BY <2>1, <2>2, <2>3, <3>2
    <2> QED BY <1>0, <2>1, <2>2, <2>3, <2>4
  <1>3. ASSUME NEW h \in Handlers, Deliver(h) PROVE Result
    <2>1. PICK n \in Messages :
            /\ pc[h] = "idle"
            /\ pc' = [pc EXCEPT ![h] = IF n \in Malformed THEN "answer" ELSE "range"]
            /\ queue' = [queue EXCEPT ![n] = @ - 1]
            /\ msg' = [msg EXCEPT ![h] = n]
            /\ todo' = [todo EXCEPT ![h] = IF n \in Malformed THEN {} ELSE Tasks[n]]
            /\ UNCHANGED << success, fate >>
      BY <1>3 DEF Deliver, Goto, history
    <2>2. CASE fate[m] # {}
      BY <2>1, <2>2
    <2>3. CASE n # m /\ queue[m] > 0
      BY <2>1, <2>3 DEF Base, TypeOK
    <2>4. CASE n = m
      <3>1. msg'[h] = m
        BY <2>1, <2>4 DEF Base, TypeOK
      <3>2. Undecided(h)'
        BY <2>1, <2>4, MessagesAssumption DEF Undecided, Base, TypeOK, CallState
      <3> QED BY <3>1, <3>2
    <2>5. CASE \E k \in Handlers : msg[k] = m /\ Undecided(k)
      <3>1. PICK k \in Handlers : msg[k] = m /\ Undecided(k)
        BY <2>5
      <3>2. k # h
        BY <2>1, <3>1, MessagesAssumption DEF Undecided
      <3>3. msg'[k] = m /\ Undecided(k)'
        BY <2>1, <3>1, <3>2 DEF Undecided, Base, TypeOK
      <3> QED BY <3>3
    <2> QED BY <1>0, <2>2, <2>3, <2>4, <2>5
  <1>4. ASSUME NEW h \in Handlers, LookUp(h) PROVE Result
    <2>1. PICK u \in todo[h] :
            /\ pc[h] = "range" /\ pc' = [pc EXCEPT ![h] = Choice(u)]
            /\ todo' = [todo EXCEPT ![h] = @ \ {u}]
            /\ UNCHANGED << queue, msg, success, fate >>
      BY <1>4 DEF LookUp, Goto
    <2>2. Choice(u) \in {"executing", "pushing", "entering"}
      BY DEF Choice
    <2> QED BY <1>0, <2>1, <2>2 DEF Undecided, Base, TypeOK
  <1>5. ASSUME NEW h \in Handlers, LookUpFails(h) \/ Enter(h) PROVE Result
    <2>1. /\ pc[h] # "answer" /\ UNCHANGED << queue, msg, todo, success, fate >>
          /\ \E to \in {"answer", "waiting"} : pc' = [pc EXCEPT ![h] = to]
      BY <1>5 DEF LookUpFails, Enter, Goto, history
    <2>2. ~success[h]
      BY <2>1 DEF Base, CallState
    <2> QED BY <1>0, <2>1, <2>2 DEF Undecided, Base, TypeOK
  <1>6. ASSUME NEW s \in Sites, PoolStart(s) PROVE Result
    <2>1. PICK h \in Handlers : pc' = [pc EXCEPT ![h] = "executing"]
      BY <1>6, ReceiveProperties DEF PoolStart, Goto, Base, TypeOK
    <2>2. UNCHANGED << queue, msg, todo, success, fate >>
      BY <1>6 DEF PoolStart
    <2> QED BY <1>0, <2>1, <2>2 DEF Undecided, Base, TypeOK
  <1>7. ASSUME NEW h \in Handlers, Executed(h) \/ PushFails(h) PROVE Result
    <2>1. PICK what \in Fates : fate' = [fate EXCEPT ![msg[h]] = @ \cup {what}]
      BY <1>7 DEF Executed, PushFails, Become, Fates
    <2>2. pc' = [pc EXCEPT ![h] = "range"] /\ UNCHANGED << queue, msg, todo, success >>
      BY <1>7 DEF Executed, PushFails, Goto
    <2> QED BY <1>0, <2>1, <2>2 DEF Undecided, Base, TypeOK
  <1>8. ASSUME NEW h \in Handlers, PushBack(h) PROVE Result
    <2>1. /\ queue' = [queue EXCEPT ![msg[h]] = @ + 1]
          /\ pc' = [pc EXCEPT ![h] = "range"] /\ UNCHANGED << msg, todo, success, fate >>
      BY <1>8 DEF PushBack, Goto
    <2>2. queue[m] \in Nat
      BY DEF Base, TypeOK
    <2>3. CASE msg[h] = m
      BY <2>1, <2>2, <2>3 DEF Base, TypeOK
    <2>4. CASE msg[h] # m
      BY <1>0, <2>1, <2>4 DEF Undecided, Base, TypeOK
    <2> QED BY <2>3, <2>4
  <1>9. ASSUME NEW h \in Handlers, Finish(h) PROVE Result
    <2>1. /\ pc[h] = "range" /\ todo[h] = {}
          /\ pc' = [pc EXCEPT ![h] = "answer"] /\ success' = [success EXCEPT ![h] = TRUE]
          /\ UNCHANGED << queue, msg, todo, fate >>
      BY <1>9 DEF Finish, Goto, history
    <2>2. ~Undecided(h)
      BY <2>1 DEF Undecided
    <2>3. ASSUME NEW k \in Handlers, Undecided(k) PROVE Undecided(k)'
      <3>1. pc'[k] = pc[k] /\ success'[k] = success[k] /\ todo'[k] = todo[k]
        BY <2>1, <2>2, <2>3 DEF Base, TypeOK
      <3> QED BY <2>3, <3>1 DEF Undecided
    <2> QED BY <1>0, <2>1, <2>3
  <1>10. ASSUME NEW h \in Handlers, Settle(h) PROVE Result
    <2>1. /\ pc[h] = "answer" /\ pc' = [pc EXCEPT ![h] = "idle"]
          /\ msg' = [msg EXCEPT ![h] = NoMessage] /\ todo' = [todo EXCEPT ![h] = {}]
          /\ success' = [success EXCEPT ![h] = FALSE] /\ queue' = queue
      BY <1>10 DEF Settle, Goto
    <2>2. CASE Undecided(h) /\ msg[h] = m
      <3>1. ~success[h]
        BY <2>1, <2>2 DEF Undecided
      <3>2. fate' = [fate EXCEPT ![m] = @ \cup {"failed"}]
        BY <1>10, <2>2, <3>1 DEF Settle, Become
      <3> QED BY <3>2 DEF Base, TypeOK
    <2>3. CASE ~(Undecided(h) /\ msg[h] = m)
      <3>1. fate[m] \subseteq fate'[m]
        BY <1>10 DEF Settle, Become, Base, TypeOK
      <3>2. ASSUME NEW k \in Handlers, msg[k] = m, Undecided(k)
            PROVE  msg'[k] = m /\ Undecided(k)'
        <4>1. /\ pc'[k] = pc[k] /\ success'[k] = success[k] /\ todo'[k] = todo[k]
              /\ msg'[k] = msg[k]
          BY <2>1, <2>3, <3>2 DEF Base, TypeOK
        <4> QED BY <3>2, <4>1 DEF Undecided
      <3> QED BY <1>0, <2>1, <3>1, <3>2
    <2> QED BY <2>2, <2>3
  <1> QED
    BY <1>1, <1>2, <1>3, <1>4, <1>5, <1>6, <1>7, <1>8, <1>9, <1>10
    DEF Next, Call, PushPanics, Terminated

-----------------------------------------------------------------------------
(* How often a batch is started.                                           *)

(* A call at the only url of its batch has none left.                      *)
LEMMA LastUrl ==
  ASSUME Base, NEW h \in Handlers, url[h] # NoUrl, Cardinality(Tasks[msg[h]]) = 1
  PROVE  todo[h] = {}
  <1>1. msg[h] \in Messages
    BY DEF Base, TypeOK, CallState
  <1>2. IsFiniteSet(Tasks[msg[h]])
    BY <1>1, MessagesAssumption
  <1>3. PICK u : Tasks[msg[h]] = {u}
    BY <1>2, FS_Singleton
  <1>4. todo[h] \subseteq {u} /\ url[h] = u /\ url[h] \notin todo[h]
    BY <1>1, <1>3, MessagesAssumption DEF Base, CallState
  <1> QED BY <1>4

(* A step that starts no batch of a message and leaves its copies alone.   *)
LEMMA NotStarted ==
  ASSUME Base, NEW m \in Messages, Chances(m)' \subseteq Chances(m),
         executions'[m] = executions[m], queue'[m] = queue[m],
         redelivered'[m] = redelivered[m],
         executions[m] + queue[m] + Cardinality(Chances(m)) <= 1 + redelivered[m]
  PROVE  executions'[m] + queue'[m] + Cardinality(Chances(m)') <= 1 + redelivered'[m]
  <1>1. Chances(m) \in SUBSET Handlers /\ Chances(m)' \in SUBSET Chances(m)
    BY DEF Chances
  <1>2. /\ Cardinality(Chances(m)') <= Cardinality(Chances(m))
        /\ Cardinality(Chances(m)) \in Nat /\ Cardinality(Chances(m)') \in Nat
    BY <1>1, FewerCalls, CallsFinite
  <1>3. executions[m] \in Nat /\ queue[m] \in Nat /\ redelivered[m] \in Nat
    BY DEF Base, TypeOK
  <1> QED BY <1>2, <1>3

(* A call that starts a batch, or pushes it back, spends its chance.       *)
LEMMA ChanceSpent ==
  ASSUME Base, NEW m \in Messages, NEW h \in Chances(m),
         Chances(m)' \subseteq Chances(m) \ {h},
         executions'[m] + queue'[m] = executions[m] + queue[m] + 1,
         executions'[m] \in Nat, queue'[m] \in Nat, redelivered'[m] = redelivered[m],
         executions[m] + queue[m] + Cardinality(Chances(m)) <= 1 + redelivered[m]
  PROVE  executions'[m] + queue'[m] + Cardinality(Chances(m)') <= 1 + redelivered'[m]
  <1>1. /\ Chances(m) \in SUBSET Handlers /\ Chances(m) \ {h} \in SUBSET Handlers
        /\ Chances(m)' \in SUBSET (Chances(m) \ {h})
    BY DEF Chances
  <1>2. /\ Cardinality(Chances(m)') <= Cardinality(Chances(m) \ {h})
        /\ Cardinality(Chances(m)) \in Nat /\ Cardinality(Chances(m)') \in Nat
        /\ Cardinality(Chances(m) \ {h}) \in Nat
    BY <1>1, FewerCalls, CallsFinite
  <1>3. Cardinality(Chances(m) \ {h}) = Cardinality(Chances(m)) - 1
    BY <1>1, OneMoreCall
  <1>4. executions[m] \in Nat /\ queue[m] \in Nat /\ redelivered[m] \in Nat
    BY DEF Base, TypeOK
  <1> QED BY <1>2, <1>3, <1>4

LEMMA CountedStep == Base /\ Counted /\ [Next]_vars => Counted'
  <1> SUFFICES ASSUME Base, Counted, [Next]_vars, NEW m \in Messages,
                      Cardinality(Tasks[m]) = 1
               PROVE  executions'[m] + queue'[m] + Cardinality(Chances(m)')
                        <= 1 + redelivered'[m]
    BY DEF Counted
  <1> DEFINE Result == executions'[m] + queue'[m] + Cardinality(Chances(m)')
                         <= 1 + redelivered'[m]
  <1>0. /\ executions[m] + queue[m] + Cardinality(Chances(m)) <= 1 + redelivered[m]
        /\ executions[m] \in Nat /\ queue[m] \in Nat /\ redelivered[m] \in Nat
        /\ Cardinality(Chances(m)) \in Nat /\ Chances(m) \in SUBSET Handlers
    BY CallsFinite DEF Counted, Base, TypeOK, Chances
  <1>1. CASE Start \/ UNCHANGED vars
    <2>1. UNCHANGED << queue, pc, msg, todo, executions, redelivered >>
      BY <1>1 DEF Start, vars, calls, history
    <2>2. Chances(m)' = Chances(m)
      BY <2>1 DEF Chances
    <2> QED BY <1>0, <2>1, <2>2, NotStarted
  <1>2. CASE Die
    <2>1. Chances(m)' = {}
      BY <1>2 DEF Die, Chances
    <2>2. Holding(m) \in SUBSET Handlers /\ Cardinality(Holding(m)) \in Nat
      BY CallsFinite DEF Holding
    <2>3. /\ queue'[m] = queue[m] + Cardinality(Holding(m))
          /\ redelivered'[m] = redelivered[m] + Cardinality(Holding(m))
          /\ executions' = executions
      BY <1>2 DEF Die
    <2> QED BY <1>0, <2>1, <2>2, <2>3, NoCall
  <1>3. ASSUME NEW h \in Handlers, Deliver(h) PROVE Result
    <2>1. PICK d \in Messages :
            /\ queue[d] > 0 /\ queue' = [queue EXCEPT ![d] = @ - 1]
            /\ \E to \in {"answer", "range"} : pc' = [pc EXCEPT ![h] = to]
            /\ msg' = [msg EXCEPT ![h] = d]
            /\ \A k \in Handlers \ {h} : todo'[k] = todo[k]
            /\ UNCHANGED << executions, redelivered >>
      BY <1>3 DEF Deliver, Goto, history, Base, TypeOK
    <2>2. CASE d = m
      <3>1. Chances(m)' \in SUBSET (Chances(m) \cup {h})
        BY <2>1 DEF Chances, Base, TypeOK
      <3>2. /\ Chances(m) \cup {h} \in SUBSET Handlers
            /\ Chances(m)' \in SUBSET Handlers
        BY <1>0, <3>1
      <3>3. /\ Cardinality(Chances(m)') <= Cardinality(Chances(m) \cup {h})
            /\ Cardinality(Chances(m) \cup {h}) <= Cardinality(Chances(m)) + 1
            /\ Cardinality(Chances(m)') \in Nat /\ Cardinality(Chances(m) \cup {h}) \in Nat
        BY <1>0, <3>1, <3>2, FewerCalls, OneMoreCall, CallsFinite
      <3>4. queue'[m] = queue[m] - 1
        BY <2>1, <2>2 DEF Base, TypeOK
      <3> QED BY <1>0, <2>1, <3>3, <3>4
    <2>3. CASE d # m
      <3>1. Chances(m)' \subseteq Chances(m)
        BY <2>1, <2>3 DEF Chances, Base, TypeOK
      <3>2. queue'[m] = queue[m]
        BY <2>1, <2>3 DEF Base, TypeOK
      <3> QED BY <1>0, <2>1, <3>1, <3>2, NotStarted
    <2> QED BY <2>2, <2>3
  <1>4. ASSUME NEW h \in Handlers, LookUp(h) PROVE Result
    <2>1. PICK u \in todo[h] :
            /\ pc[h] = "range" /\ pc' = [pc EXCEPT ![h] = Choice(u)]
            /\ todo' = [todo EXCEPT ![h] = @ \ {u}]
            /\ executions' = [executions EXCEPT ![msg[h]] =
                                IF Choice(u) = "executing" THEN @ + 1 ELSE @]
            /\ UNCHANGED << queue, msg, redelivered >>
      BY <1>4 DEF LookUp, Goto
    <2>2. /\ Choice(u) \in {"executing", "pushing", "entering"}
          /\ msg[h] \in Messages
      BY <2>1 DEF Choice, Base, TypeOK, CallState
    <2>3. Chances(m)' \subseteq Chances(m)
      BY <2>1, <2>2 DEF Chances, Base, TypeOK
    <2>4. CASE msg[h] = m /\ Choice(u) = "executing"
      <3>1. h \in Chances(m) /\ Chances(m)' \subseteq Chances(m) \ {h}
        BY <2>1, <2>3, <2>4 DEF Chances, Base, TypeOK
      <3>2. executions'[m] = executions[m] + 1
        BY <2>1, <2>4 DEF Base, TypeOK
      <3>3. /\ executions'[m] + queue'[m] = executions[m] + queue[m] + 1
            /\ executions'[m] \in Nat /\ queue'[m] \in Nat
        BY <1>0, <2>1, <3>2
      <3> QED BY <1>0, <2>1, <3>1, <3>3, ChanceSpent
    <2>5. CASE ~(msg[h] = m /\ Choice(u) = "executing")
      <3>1. executions'[m] = executions[m]
        BY <2>1, <2>2, <2>5 DEF Base, TypeOK
      <3> QED BY <1>0, <2>1, <2>3, <3>1, NotStarted
    <2> QED BY <2>4, <2>5
  <1>5. ASSUME NEW h \in Handlers,
               LookUpFails(h) \/ Enter(h) \/ Finish(h) \/ Settle(h)
        PROVE  Result
    <2>1. /\ UNCHANGED << queue, executions, redelivered >>
          /\ \/ pc[h] = "entering" /\ pc' = [pc EXCEPT ![h] = "waiting"]
                /\ UNCHANGED << msg, todo >>
             \/ /\ pc' = [pc EXCEPT ![h] = "answer"] \/ pc' = [pc EXCEPT ![h] = "idle"]
                /\ \A k \in Handlers \ {h} : msg'[k] = msg[k] /\ todo'[k] = todo[k]
      BY <1>5 DEF LookUpFails, Enter, Finish, Settle, Goto, history, Base, TypeOK
    <2>2. Chances(m)' \subseteq Chances(m)
      BY <2>1 DEF Chances, Base, TypeOK
    <2> QED BY <1>0, <2>1, <2>2, NotStarted
  <1>6. ASSUME NEW s \in Sites, PoolStart(s) PROVE Result
    <2>1. PICK h \in Handlers :
            /\ pc[h] = "waiting" /\ pc' = [pc EXCEPT ![h] = "executing"]
            /\ executions' = [executions EXCEPT ![msg[h]] = @ + 1]
      BY <1>6, ReceiveProperties DEF PoolStart, Goto, Base, TypeOK
    <2>2. UNCHANGED << queue, msg, todo, redelivered >>
      BY <1>6 DEF PoolStart
    <2>3. CASE msg[h] = m
      <3>1. h \in Chances(m) /\ Chances(m)' \subseteq Chances(m) \ {h}
        BY <2>1, <2>2, <2>3 DEF Chances, Base, TypeOK
      <3>2. executions'[m] = executions[m] + 1
        BY <2>1, <2>3 DEF Base, TypeOK
      <3>3. /\ executions'[m] + queue'[m] = executions[m] + queue[m] + 1
            /\ executions'[m] \in Nat /\ queue'[m] \in Nat
        BY <1>0, <2>2, <3>2
      <3> QED BY <1>0, <2>2, <3>1, <3>3, ChanceSpent
    <2>4. CASE msg[h] # m
      <3>1. Chances(m)' \subseteq Chances(m) /\ executions'[m] = executions[m]
        BY <2>1, <2>2, <2>4 DEF Chances, Base, TypeOK
      <3> QED BY <1>0, <2>2, <3>1, NotStarted
    <2> QED BY <2>3, <2>4
  <1>7. ASSUME NEW h \in Handlers, Executed(h) \/ PushFails(h) PROVE Result
    <2>1. /\ pc[h] \in {"executing", "pushing"} /\ pc' = [pc EXCEPT ![h] = "range"]
          /\ UNCHANGED << queue, msg, todo, executions, redelivered >>
      BY <1>7 DEF Executed, PushFails, Goto
    <2>2. msg[h] = m => todo[h] = {}
      BY <2>1, LastUrl DEF Base, CallState
    <2>3. Chances(m)' \subseteq Chances(m)
      BY <2>1, <2>2 DEF Chances, Base, TypeOK
    <2> QED BY <1>0, <2>1, <2>3, NotStarted
  <1>8. ASSUME NEW h \in Handlers, PushBack(h) PROVE Result
    <2>1. /\ pc[h] = "pushing" /\ pc' = [pc EXCEPT ![h] = "range"]
          /\ queue' = [queue EXCEPT ![msg[h]] = @ + 1]
          /\ UNCHANGED << msg, todo, executions, redelivered >>
      BY <1>8 DEF PushBack, Goto
    <2>2. msg[h] = m => todo[h] = {}
      BY <2>1, LastUrl DEF Base, CallState
    <2>3. CASE msg[h] = m
      <3>1. h \in Chances(m) /\ Chances(m)' \subseteq Chances(m) \ {h}
        BY <2>1, <2>2, <2>3 DEF Chances, Base, TypeOK
      <3>2. queue'[m] = queue[m] + 1
        BY <2>1, <2>3 DEF Base, TypeOK
      <3>3. /\ executions'[m] + queue'[m] = executions[m] + queue[m] + 1
            /\ executions'[m] \in Nat /\ queue'[m] \in Nat
        BY <1>0, <2>1, <3>2
      <3> QED BY <1>0, <2>1, <3>1, <3>3, ChanceSpent
    <2>4. CASE msg[h] # m
      <3>1. Chances(m)' \subseteq Chances(m) /\ queue'[m] = queue[m]
        BY <2>1, <2>4 DEF Chances, Base, TypeOK
      <3> QED BY <1>0, <2>1, <3>1, NotStarted
    <2> QED BY <2>3, <2>4
  <1> QED
    BY <1>1, <1>2, <1>3, <1>4, <1>5, <1>6, <1>7, <1>8
    DEF Next, Call, PushPanics, Terminated

-----------------------------------------------------------------------------
(* The theorems.                                                           *)

LEMMA InvariantInit == Init => IInv
  <1> SUFFICES ASSUME Init PROVE IInv
    OBVIOUS
  <1>1. Base
    BY BaseInit
  <1>2. PoolLimit
    <2>1. \A s \in Sites : Executing(s) = {}
      BY DEF Init, Executing
    <2> QED BY <2>1, NoCall, SitesAssumption DEF PoolLimit
  <1>3. Traced
    BY DEF Init, Traced
  <1>4. Counted
    <2>1. \A m \in Messages : Chances(m) = {}
      BY DEF Init, Chances
    <2>2. \A m \in Messages : executions[m] = 0 /\ queue[m] = 1 /\ redelivered[m] = 0
      BY DEF Init
    <2> QED BY <2>1, <2>2, NoCall DEF Counted
  <1> QED BY <1>1, <1>2, <1>3, <1>4 DEF IInv

LEMMA Invariant == Spec => []IInv
  <1>1. IInv /\ [Next]_vars => IInv'
    BY BaseStep, PoolStep, TracedStep, CountedStep DEF IInv
  <1> QED BY InvariantInit, <1>1, PTL DEF Spec

(* Every variable keeps its type in every step of the consumer.            *)
THEOREM TypeCorrect == Spec => []TypeOK
  <1>1. IInv => TypeOK
    BY DEF IInv, Base
  <1> QED BY <1>1, Invariant, PTL

(* publishToQueue and the end of ConsumerCrawlFn: no message leaves the    *)
(* queue without having been executed, refused or left unpublished, when-  *)
(* ever and as often as the process ends.                                  *)
THEOREM Lost == Spec => []NothingLost
  <1>1. IInv => NothingLost
    <2> SUFFICES ASSUME IInv, NEW m \in Messages, Gone(m), Tasks[m] # {}
                 PROVE  fate[m] # {}
      BY DEF NothingLost
    <2>1. \A k \in Handlers : msg[k] # m
      BY DEF Gone, Holding
    <2> QED BY <2>1 DEF IInv, Traced, Gone
  <1> QED BY <1>1, Invariant, PTL

(* The branch of ConsumerCrawlFn at a busy site: a batch of one url is     *)
(* pushed back or executed, never both.                                    *)
THEOREM Once == Spec => []ExecutedOnce
  <1>1. IInv => ExecutedOnce
    <2> SUFFICES ASSUME IInv, NEW m \in Messages, Cardinality(Tasks[m]) = 1
                 PROVE  executions[m] <= 1 + redelivered[m]
      BY DEF ExecutedOnce
    <2>1. Chances(m) \in SUBSET Handlers
      BY DEF Chances
    <2>2. /\ executions[m] \in Nat /\ queue[m] \in Nat /\ redelivered[m] \in Nat
          /\ Cardinality(Chances(m)) \in Nat
      BY <2>1, CallsFinite DEF IInv, Base, TypeOK
    <2>3. executions[m] + queue[m] + Cardinality(Chances(m)) <= 1 + redelivered[m]
      BY DEF IInv, Counted
    <2> QED BY <2>2, <2>3
  <1> QED BY <1>1, Invariant, PTL

(* The site pools of CreateConsumerConnections: when each batch has one    *)
(* url, no site has more of them executed than its pool allows.            *)
THEOREM Limit == Spec => []SiteLimit
  <1>1. IInv => SiteLimit
    <2> SUFFICES ASSUME IInv, \A m \in Messages : Cardinality(Tasks[m]) = 1,
                        NEW s \in Sites
                 PROVE  Cardinality({h \in Handlers :
                                       /\ pc[h] = "executing"
                                       /\ \E u \in Tasks[msg[h]] : Site[u] = s})
                          <= PoolSize[s]
      BY DEF SiteLimit
    <2> DEFINE Here == {h \in Handlers : /\ pc[h] = "executing"
                                         /\ \E u \in Tasks[msg[h]] : Site[u] = s}
    <2>1. ASSUME NEW h \in Handlers, pc[h] = "executing",
                 NEW u \in Tasks[msg[h]], Site[u] = s
          PROVE  h \in Executing(s)
      <3>1. msg[h] \in Messages /\ url[h] \in Tasks[msg[h]] /\ url[h] \in Urls
        BY <2>1 DEF IInv, Base, TypeOK, CallState
      <3>2. PICK x : Tasks[msg[h]] = {x}
        BY <3>1, MessagesAssumption, FS_Singleton
      <3>3. url[h] = u
        BY <3>1, <3>2, <2>1
      <3> QED BY <2>1, <3>1, <3>3 DEF Executing
    <2>2. Here \in SUBSET Executing(s) /\ Executing(s) \in SUBSET Handlers
      BY <2>1 DEF Executing
    <2>3. /\ Cardinality(Here) <= Cardinality(Executing(s))
          /\ Cardinality(Here) \in Nat /\ Cardinality(Executing(s)) \in Nat
      <3>1. Here \in SUBSET Handlers
        OBVIOUS
      <3> HIDE DEF Here
      <3> QED BY <2>2, <3>1, FewerCalls, CallsFinite
    <2>4. Cardinality(Executing(s)) <= PoolSize[s]
      BY DEF IInv, PoolLimit
    <2>5. Cardinality(Here) <= PoolSize[s]
      <3> HIDE DEF Here
      <3> QED BY <2>3, <2>4, SitesAssumption
    <2> QED BY <2>5
  <1> QED BY <1>1, Invariant, PTL
=============================================================================
