-------------------------- MODULE M101ActorProofs ---------------------------
(* Theorems about M101Actor, for any number of workers and any length of   *)
(* its queue.                                                              *)
EXTENDS M101Actor, SequenceTheorems, TLAPS

-----------------------------------------------------------------------------
(* What sending to a Go channel and receiving from it do to the sequence   *)
(* that stands for it.                                                     *)

(* Sending to a channel adds one element, at its end.                      *)
LEMMA SendProperties ==
  ASSUME NEW S, NEW s \in Seq(S), NEW e \in S
  PROVE  /\ Append(s, e) \in Seq(S)
         /\ Len(Append(s, e)) = Len(s) + 1
         /\ DOMAIN Append(s, e) = 1 .. Len(s) + 1
         /\ \A i \in 1 .. Len(s) : Append(s, e)[i] = s[i]
         /\ Append(s, e)[Len(s) + 1] = e
  OBVIOUS

(* Receiving from a channel removes its first element.                     *)
LEMMA ReceiveProperties ==
  ASSUME NEW S, NEW s \in Seq(S), s # << >>
  PROVE  /\ Len(s) \in Nat \ {0}
         /\ DOMAIN s = 1 .. Len(s)
         /\ Head(s) = s[1]
         /\ Head(s) \in S
         /\ Tail(s) \in Seq(S)
         /\ DOMAIN Tail(s) = 1 .. Len(s) - 1
         /\ \A i \in 1 .. Len(s) - 1 : Tail(s)[i] = s[i + 1]
  <1>1. Len(s) \in Nat \ {0} /\ DOMAIN s = 1 .. Len(s)
    BY EmptySeq, LenProperties
  <1>2. Tail(s) \in Seq(S) /\ Len(Tail(s)) = Len(s) - 1 /\ Head(s) \in S
    BY HeadTailProperties
  <1>3. \A i \in 1 .. Len(s) - 1 : Tail(s)[i] = s[i + 1]
    BY HeadTailProperties, <1>2
  <1>4. DOMAIN Tail(s) = 1 .. Len(s) - 1
    BY <1>2, LenProperties
  <1>5. Head(s) = s[1]
    OBVIOUS
  <1> QED BY <1>1, <1>2, <1>3, <1>4, <1>5

(* t is s without the first of its n pairwise distinct elements.           *)
Shifted(n, s, t) ==
  /\ n \in Nat \ {0}
  /\ \A i \in 1 .. n - 1 : t[i] = s[i + 1]
  /\ \A i, j \in 1 .. n : s[i] = s[j] => i = j

(* Dropping it drops it from their set, and leaves the others distinct.    *)
Dropped(n, s, t) ==
  /\ \A x : (\E i \in 1 .. n - 1 : t[i] = x)
              <=> x # s[1] /\ \E i \in 1 .. n : s[i] = x
  /\ \A i, j \in 1 .. n - 1 : t[i] = t[j] => i = j

LEMMA DropFirst ==
  ASSUME NEW n, NEW s, NEW t, Shifted(n, s, t)
  PROVE  Dropped(n, s, t)
  <1> USE DEF Shifted
  <1>1. ASSUME NEW i \in 1 .. n - 1
        PROVE  t[i] # s[1] /\ \E k \in 1 .. n : s[k] = t[i]
    <2>1. i + 1 \in 1 .. n /\ 1 \in 1 .. n /\ i + 1 # 1 /\ t[i] = s[i + 1]
      OBVIOUS
    <2>2. s[i + 1] # s[1]
      BY <2>1
    <2> QED BY <2>1, <2>2
  <1>2. ASSUME NEW i \in 1 .. n, s[i] # s[1]
        PROVE  \E k \in 1 .. n - 1 : t[k] = s[i]
    <2>1. i - 1 \in 1 .. n - 1 /\ (i - 1) + 1 = i
      BY <1>2
    <2>2. t[i - 1] = s[i]
      BY <2>1
    <2> QED BY <2>1, <2>2
  <1>3. ASSUME NEW i \in 1 .. n - 1, NEW j \in 1 .. n - 1, t[i] = t[j]
        PROVE  i = j
    <2>1. i + 1 \in 1 .. n /\ j + 1 \in 1 .. n /\ s[i + 1] = s[j + 1]
      BY <1>3
    <2>2. i + 1 = j + 1
      BY <2>1
    <2> QED BY <2>2
  <1> QED BY <1>1, <1>2, <1>3 DEF Dropped

-----------------------------------------------------------------------------

(* A response is a reply to the url of the request in hand.                *)
Responds ==
  /\ Len(response) <= 1
  /\ response # << >> => req # Nobody /\ IsAnswer(task[req], response[1])

(* The inductive invariant.                                                *)
IInv == TypeOK /\ EachRequestInOnePlace /\ Responds

-----------------------------------------------------------------------------
(* What the actor answers is an answer by type.                            *)
LEMMA AnswerType ==
  /\ NoAnswer \in Answers
  /\ Answer("failed", << >>) \in Answers
  /\ Answer("empty", << >>) \in Answers
  /\ \A url \in Urls : Answer("products", << url >>) \in Answers
<1>1. << >> \in Seq(Urls) /\ \A url \in Urls : << url >> \in Seq(Urls)
  OBVIOUS
<1> QED BY <1>1 DEF NoAnswer, Answer, Answers

(* The answers the actor may give are answers to the url.                  *)
LEMMA AnswersToUrl ==
  ASSUME NEW url
  PROVE  /\ IsAnswer(url, Answer("failed", << >>))
         /\ IsAnswer(url, Answer("empty", << >>))
         /\ IsAnswer(url, Answer("products", << url >>))
  BY DEF IsAnswer, Answer

(* The invariant holds at first, and every action keeps it.                *)
LEMMA InitIInv == Init => IInv
<1> SUFFICES ASSUME Init PROVE IInv
  OBVIOUS
<1>0. 0 \in 0 .. MaxRetry /\ << >> \in Seq(Callers) /\ << >> \in Seq(Answers)
  BY M101Assumption
<1>a. answer \in [Callers -> Answers]
  <2>1. NoAnswer \in Answers
    BY AnswerType
  <2> QED BY <2>1 DEF Init
<1>1. TypeOK
  BY <1>0, <1>a DEF Init, TypeOK
<1>2. Queued = {} /\ req = Nobody /\ response = << >>
  BY DEF Init, Queued
<1>3. EachRequestInOnePlace
  BY <1>2, M101Assumption DEF Init, EachRequestInOnePlace
<1>4. Responds
  BY <1>2 DEF Responds
<1> QED BY <1>1, <1>3, <1>4 DEF IInv

LEMMA RequestStep ==
  ASSUME IInv, NEW c \in Callers, NEW url \in Urls, Request(c, url)
  PROVE  IInv'
<1>1. TypeOK'
  BY AnswerType DEF IInv, TypeOK, Request, actorVars
<1>2. c # req \/ req = Nobody
  BY DEF IInv, TypeOK, EachRequestInOnePlace, Request
<1>3. EachRequestInOnePlace'
  BY DEF IInv, TypeOK, EachRequestInOnePlace, Request, Queued, actorVars
<1>4. Responds'
  BY <1>2 DEF IInv, TypeOK, Responds, Request, actorVars
<1> QED BY <1>1, <1>3, <1>4 DEF IInv

LEMMA RequestActorStep ==
  ASSUME IInv, NEW c \in Callers, RequestActor(c)
  PROVE  IInv'
<1>1. /\ reqQueue' \in Seq(Callers)
      /\ DOMAIN reqQueue' = 1 .. Len(reqQueue) + 1
      /\ \A i \in 1 .. Len(reqQueue) : reqQueue'[i] = reqQueue[i]
      /\ reqQueue'[Len(reqQueue) + 1] = c
  BY SendProperties DEF IInv, TypeOK, RequestActor
<1>2. DOMAIN reqQueue = 1 .. Len(reqQueue) /\ Len(reqQueue) \in Nat
  BY LenProperties DEF IInv, TypeOK
<1>3. TypeOK'
  BY <1>1 DEF IInv, TypeOK, RequestActor, actorVars
<1>4. Queued' = Queued \cup {c}
  BY <1>1, <1>2 DEF Queued
<1>5. c \notin Queued /\ c # req
  BY M101Assumption DEF IInv, EachRequestInOnePlace, RequestActor, TypeOK
<1>6. \A i, j \in DOMAIN reqQueue' : reqQueue'[i] = reqQueue'[j] => i = j
  BY <1>1, <1>2, <1>5 DEF IInv, EachRequestInOnePlace, Queued
<1>7. {d \in Callers : pc'[d] = "wait"} = {d \in Callers : pc[d] = "wait"} \cup {c}
  BY DEF IInv, TypeOK, RequestActor
<1>8. EachRequestInOnePlace'
  BY <1>4, <1>5, <1>6, <1>7 DEF IInv, EachRequestInOnePlace, RequestActor, actorVars
<1>9. Responds'
  BY DEF IInv, Responds, RequestActor, actorVars
<1> QED BY <1>3, <1>8, <1>9 DEF IInv

LEMMA TakeRequestStep ==
  ASSUME IInv, TakeRequest
  PROVE  IInv'
<1>1. /\ Len(reqQueue) \in Nat \ {0}
      /\ DOMAIN reqQueue = 1 .. Len(reqQueue)
      /\ req' = reqQueue[1] /\ req' \in Callers
      /\ reqQueue' \in Seq(Callers)
      /\ DOMAIN reqQueue' = 1 .. Len(reqQueue) - 1
      /\ \A i \in 1 .. Len(reqQueue) - 1 : reqQueue'[i] = reqQueue[i + 1]
  BY ReceiveProperties DEF IInv, TypeOK, TakeRequest
<1>2. TypeOK'
  BY <1>1, M101Assumption DEF IInv, TypeOK, TakeRequest, callerVars
<1>3. \A i, j \in 1 .. Len(reqQueue) : reqQueue[i] = reqQueue[j] => i = j
  BY <1>1 DEF IInv, EachRequestInOnePlace
<1>4. /\ \A x : (\E i \in 1 .. Len(reqQueue) - 1 : reqQueue'[i] = x)
                  <=> x # reqQueue[1] /\ \E i \in 1 .. Len(reqQueue) : reqQueue[i] = x
      /\ \A i, j \in 1 .. Len(reqQueue) - 1 : reqQueue'[i] = reqQueue'[j] => i = j
  <2> DEFINE n == Len(reqQueue)
             t == reqQueue'
  <2>1. Shifted(n, reqQueue, t)
    BY <1>1, <1>3 DEF Shifted
  <2> HIDE DEF n, t
  <2>2. Dropped(n, reqQueue, t)
    BY <2>1, DropFirst
  <2> QED BY <2>2 DEF n, t, Dropped
<1>5. Queued' = Queued \ {req'} /\ req' \in Queued
  <2>1. \A x : x \in Queued <=> \E i \in 1 .. Len(reqQueue) : reqQueue[i] = x
    BY <1>1 DEF Queued
  <2>2. \A x : x \in Queued' <=> \E i \in 1 .. Len(reqQueue) - 1 : reqQueue'[i] = x
    BY <1>1 DEF Queued
  <2>3. 1 \in 1 .. Len(reqQueue)
    BY <1>1
  <2>4. \A x : x \in Queued' <=> x # req' /\ x \in Queued
    BY <1>1, <1>4, <2>1, <2>2
  <2>5. req' \in Queued
    BY <1>1, <2>1, <2>3
  <2> QED BY <2>4, <2>5
<1>6. req = Nobody /\ pc' = pc /\ req' # Nobody /\ ~asleep /\ response = << >>
  BY <1>1, M101Assumption DEF IInv, EachRequestInOnePlace, TakeRequest, callerVars
<1>7. EachRequestInOnePlace'
  BY <1>1, <1>4, <1>5, <1>6 DEF IInv, EachRequestInOnePlace, TakeRequest
<1>8. Responds'
  BY <1>6 DEF IInv, Responds, TakeRequest
<1> QED BY <1>2, <1>7, <1>8 DEF IInv

(* A response is a sequence of one answer.                                 *)
LEMMA OneResponse ==
  ASSUME NEW a \in Answers
  PROVE  << a >> \in Seq(Answers) /\ Len(<< a >>) = 1 /\ << a >>[1] = a /\ << a >> # << >>
  OBVIOUS

LEMMA RateLimitedStep ==
  ASSUME IInv, RateLimited
  PROVE  IInv'
<1>1. << Answer("failed", << >>) >> \in Seq(Answers)
  BY AnswerType, OneResponse
<1>2. TypeOK'
  BY <1>1 DEF IInv, TypeOK, RateLimited, callerVars
<1>3. EachRequestInOnePlace'
  BY DEF IInv, EachRequestInOnePlace, RateLimited, Checking, callerVars, Queued
<1>4. Responds'
  <2> DEFINE a == Answer("failed", << >>)
  <2>1. a \in Answers /\ IsAnswer(task[req], a)
    BY AnswerType, AnswersToUrl
  <2>2. response' = << a >> \/ response' = response
    BY DEF RateLimited
  <2>3. task' = task /\ req' = req /\ req # Nobody
    BY DEF RateLimited, Checking, callerVars
  <2> HIDE DEF a
  <2>4. CASE response' = << a >>
    <3>1. Len(response') = 1 /\ response'[1] = a
      BY <2>1, <2>4, OneResponse
    <3> QED BY <2>1, <2>3, <3>1 DEF Responds
  <2>5. CASE response' = response
    BY <2>3, <2>5 DEF IInv, Responds
  <2> QED BY <2>2, <2>4, <2>5
<1> QED BY <1>2, <1>3, <1>4 DEF IInv

LEMMA WakeUpStep ==
  ASSUME IInv, WakeUp
  PROVE  IInv'
<1>1. TypeOK'
  BY DEF IInv, TypeOK, WakeUp, callerVars
<1>2. EachRequestInOnePlace'
  BY DEF IInv, EachRequestInOnePlace, WakeUp, callerVars, Queued
<1>3. Responds'
  BY DEF IInv, Responds, WakeUp, callerVars
<1> QED BY <1>1, <1>2, <1>3 DEF IInv

LEMMA GetProductDataStep ==
  ASSUME IInv, GetProductData
  PROVE  IInv'
<1>1. req \in Callers /\ task[req] \in Urls
  BY DEF IInv, TypeOK, GetProductData, Checking
<1>2. PICK a \in {Answer("failed", << >>), Answer("empty", << >>),
                  Answer("products", << task[req] >>)} : response' = << a >>
  BY DEF GetProductData
<1>3. a \in Answers /\ IsAnswer(task[req], a)
  BY <1>1, <1>2, AnswerType, AnswersToUrl
<1>4. response' \in Seq(Answers) /\ Len(response') = 1 /\ response'[1] = a
  BY <1>2, <1>3, OneResponse
<1>5. TypeOK'
  BY <1>4 DEF IInv, TypeOK, GetProductData, callerVars
<1>6. EachRequestInOnePlace'
  BY DEF IInv, EachRequestInOnePlace, GetProductData, Checking, callerVars, Queued
<1>7. Responds'
  BY <1>3, <1>4 DEF IInv, Responds, GetProductData, Checking, callerVars
<1> QED BY <1>5, <1>6, <1>7 DEF IInv

LEMMA ReplyStep ==
  ASSUME IInv, Reply
  PROVE  /\ IInv'
         /\ req \in Callers /\ pc[req] = "wait"
         /\ answer'[req] = response[1]
         /\ IsAnswer(task[req], answer'[req])
<1>1. Head(response) \in Answers /\ Head(response) = response[1]
  BY ReceiveProperties DEF IInv, TypeOK, Reply
<1>2. req \in Callers /\ req # Nobody /\ pc[req] = "wait"
  BY DEF IInv, TypeOK, EachRequestInOnePlace, Reply
<1>3. TypeOK'
  BY <1>1, <1>2 DEF IInv, TypeOK, Reply
<1>4. {c \in Callers : pc'[c] = "wait"} = {c \in Callers : pc[c] = "wait"} \ {req}
  BY DEF IInv, TypeOK, Reply
<1>5. EachRequestInOnePlace'
  BY <1>2, <1>4, M101Assumption DEF IInv, TypeOK, EachRequestInOnePlace, Reply, Queued
<1>6. Responds'
  BY DEF IInv, Responds, Reply
<1>7. answer'[req] = response[1]
  BY <1>1, <1>2 DEF IInv, TypeOK, Reply
<1>8. IsAnswer(task[req], response[1])
  BY DEF IInv, Responds, Reply
<1> QED BY <1>2, <1>3, <1>5, <1>6, <1>7, <1>8 DEF IInv

LEMMA StepIInv == IInv /\ [Next]_vars => IInv'
<1> SUFFICES ASSUME IInv, [Next]_vars PROVE IInv'
  OBVIOUS
<1>1. CASE UNCHANGED vars
  BY <1>1 DEF vars, callerVars, actorVars, IInv, TypeOK, EachRequestInOnePlace,
              Queued, Responds
<1>2. ASSUME NEW c \in Callers, RequestActor(c) PROVE IInv'
  BY <1>2, RequestActorStep
<1>3. ASSUME NEW c \in Callers, NEW url \in Urls, Request(c, url) PROVE IInv'
  BY <1>3, RequestStep
<1>4. CASE Actor
  BY <1>4, TakeRequestStep, RateLimitedStep, WakeUpStep, GetProductDataStep,
     ReplyStep DEF Actor
<1> QED BY <1>1, <1>2, <1>3, <1>4 DEF Next

LEMMA Invariance == Spec => []IInv
  BY InitIInv, StepIInv, PTL DEF Spec

-----------------------------------------------------------------------------
(* Every variable of the actor and of its callers keeps its type.          *)
THEOREM TypeCorrect == Spec => []TypeOK
<1>1. IInv => TypeOK
  BY DEF IInv
<1> QED BY <1>1, Invariance, PTL

(* Whoever waits has one request, in the queue or in hand, and whoever     *)
(* does not has none.                                                      *)
THEOREM OnePlace == Spec => []EachRequestInOnePlace
<1>1. IInv => EachRequestInOnePlace
  BY DEF IInv
<1> QED BY <1>1, Invariance, PTL

-----------------------------------------------------------------------------
(* M101Actor implements SourceSpec: each request of a worker ends once,    *)
(* with an answer to what that worker asked.                               *)
THEOREM Implements == Spec => KeepsPromise
<1> DEFINE open == [c \in Callers |-> pc[c] # "idle"]
<1>1. ASSUME Init PROVE Source!Init
  BY <1>1 DEF Init, Source!Init
<1>2. ASSUME IInv, [Next]_vars PROVE [Source!Next]_(Source!vars)
  <2>1. CASE UNCHANGED vars
    BY <2>1 DEF vars, callerVars, Source!vars
  <2>2. ASSUME NEW c \in Callers, NEW url \in Urls, Request(c, url)
        PROVE  Source!Ask(c)
    <3>1. open' = [open EXCEPT ![c] = TRUE]
      BY <1>2, <2>2 DEF Request, IInv, TypeOK
    <3>2. ~open[c]
      BY <2>2 DEF Request
    <3> QED BY <2>2, <3>1, <3>2 DEF Request, Source!Ask
  <2>3. ASSUME NEW c \in Callers, RequestActor(c)
        PROVE  UNCHANGED Source!vars
    <3>1. open' = open
      BY <1>2, <2>3 DEF RequestActor, IInv, TypeOK
    <3> QED BY <2>3, <3>1 DEF RequestActor, Source!vars
  <2>4. ASSUME TakeRequest \/ RateLimited \/ WakeUp \/ GetProductData
        PROVE  UNCHANGED Source!vars
    BY <2>4 DEF TakeRequest, RateLimited, WakeUp, GetProductData, callerVars, Source!vars
  <2>5. ASSUME NEW c \in Callers, c = req, Reply PROVE Source!End(c)
    <3>1. /\ pc[c] = "wait" /\ IsAnswer(task[c], answer'[c])
      BY <1>2, <2>5, ReplyStep
    <3>2. open[c] /\ open' = [open EXCEPT ![c] = FALSE]
      BY <1>2, <2>5, <3>1 DEF Reply, IInv, TypeOK
    <3>3. answer' = [answer EXCEPT ![c] = answer'[c]]
      BY <1>2, <2>5 DEF Reply, IInv, TypeOK
    <3>4. task' = task
      BY <2>5 DEF Reply
    <3> QED BY <3>1, <3>2, <3>3, <3>4 DEF Source!End
  <2>6. ASSUME Reply PROVE \E c \in Callers : Source!End(c)
    <3>1. PICK c \in Callers : c = req
      BY <1>2, <2>6, ReplyStep
    <3> QED BY <2>5, <2>6, <3>1
  <2> QED BY <1>2, <2>1, <2>2, <2>3, <2>4, <2>6 DEF Next, Actor, Source!Next
<1>3. Spec => [][Next]_vars
  BY DEF Spec
<1>4. Source!Init /\ [][Source!Next]_(Source!vars) => KeepsPromise
  BY DEF KeepsPromise, Source!Spec
<1> QED BY <1>1, <1>2, <1>4, Invariance, PTL DEF Spec

(* Whoever joins the end of a line joins the end of a longer one.          *)
LEMMA Joins ==
  ASSUME NEW S, NEW s \in Seq(S), NEW t \in Seq(S), NEW e \in S
  PROVE  s \o Append(t, e) = Append(s \o t, e)
  OBVIOUS

(* The line of waiting requests only loses its first one or gains a last   *)
(* one: no request overtakes another.                                      *)
THEOREM InOrder == Spec => FirstComeFirstServed
<1> DEFINE Kept == \/ Line' = Line
                   \/ Line # << >> /\ Line' = Tail(Line)
                   \/ \E c \in Callers : Line' = Append(Line, c)
<1>1. ASSUME IInv, [Next]_vars PROVE [Kept]_vars
  <2>1. CASE UNCHANGED vars
    BY <2>1
  <2>2. ASSUME NEW c \in Callers, NEW url \in Urls, Request(c, url) PROVE Kept
    BY <2>2 DEF Request, actorVars, Line
  <2>3. ASSUME NEW c \in Callers, RequestActor(c) PROVE Kept
    <3>1. reqQueue \in Seq(Callers) /\ reqQueue' = Append(reqQueue, c) /\ req' = req
      BY <1>1, <2>3 DEF RequestActor, actorVars, IInv, TypeOK
    <3>2. CASE req = Nobody
      <4>1. << >> \o reqQueue = reqQueue /\ << >> \o reqQueue' = reqQueue'
        BY <3>1
      <4> QED BY <3>1, <3>2, <4>1 DEF Line
    <3>3. CASE req # Nobody
      <4>1. << req >> \in Seq(Callers)
        BY <1>1, <3>3 DEF IInv, TypeOK
      <4>2. << req >> \o Append(reqQueue, c) = Append(<< req >> \o reqQueue, c)
        BY <3>1, <4>1, Joins
      <4> QED BY <3>1, <3>3, <4>2 DEF Line
    <3> QED BY <3>2, <3>3
  <2>4. CASE TakeRequest
    <3>1. reqQueue \in Seq(Callers) /\ reqQueue # << >> /\ req = Nobody
      BY <1>1, <2>4 DEF TakeRequest, IInv, TypeOK
    <3>2. reqQueue = << Head(reqQueue) >> \o Tail(reqQueue) /\ Head(reqQueue) \in Callers
      BY <3>1
    <3>3. req' # Nobody /\ req' = Head(reqQueue) /\ reqQueue' = Tail(reqQueue)
      BY <2>4, <3>2, M101Assumption DEF TakeRequest
    <3>4. << >> \o reqQueue = reqQueue
      BY <3>1
    <3> QED BY <3>1, <3>2, <3>3, <3>4 DEF Line
  <2>5. CASE RateLimited \/ WakeUp \/ GetProductData
    BY <2>5 DEF RateLimited, WakeUp, GetProductData, callerVars, Line
  <2>6. CASE Reply
    <3>1. req \in Callers /\ req # Nobody /\ reqQueue \in Seq(Callers)
      BY <1>1, <2>6, ReplyStep, M101Assumption DEF IInv, TypeOK
    <3>2. << req >> \o reqQueue # << >> /\ Tail(<< req >> \o reqQueue) = reqQueue
      BY <3>1
    <3>3. req' = Nobody /\ reqQueue' = reqQueue /\ << >> \o reqQueue = reqQueue
      BY <2>6, <3>1 DEF Reply
    <3> QED BY <3>1, <3>2, <3>3 DEF Line
  <2> QED BY <1>1, <2>1, <2>2, <2>3, <2>4, <2>5, <2>6 DEF Next, Actor
<1>2. Spec => [][Next]_vars
  BY DEF Spec
<1> QED BY <1>1, <1>2, Invariance, PTL DEF FirstComeFirstServed
=============================================================================
