----------------------------- MODULE M101Actor ------------------------------
(***************************************************************************)
(* M101.Request (sources/m101/m101.go) and the actor behind it (actor.go): *)
(* the workers of the process queue their requests to one goroutine, which *)
(* checks the rate limit, calls the API and answers, one request after the *)
(* other.  The API, and the limit shared with other processes, answer      *)
(* anything.  Delete, which nothing in the program calls, is left out.     *)
(***************************************************************************)
EXTENDS Integers, Sequences

CONSTANTS
  Callers,   \* the workers of the process
  Urls,      \* what they ask for
  ReqCap,    \* the capacity of the queue of requests: 25
  MaxRetry,  \* how often a request waits for the rate limit: 10
  Nobody

ASSUME M101Assumption ==
  /\ Nobody \notin Callers
  /\ Urls # {}
  /\ ReqCap \in Nat \ {0} /\ MaxRetry \in Nat \ {0}

VARIABLES
  task,      \* the url each caller crawls
  pc,        \* "idle", "send" (a request) or "wait" (for its answer)
  answer,    \* what M101.Request returned
  reqQueue,  \* the requests the actor has not taken
  req,       \* the caller of the request in hand
  retry,     \* the field retry of that request
  asleep,    \* whether the actor sleeps until the next second
  response   \* << >> until there is a response for that request

callerVars == << task, pc, answer >>

actorVars == << req, retry, asleep, response >>

vars == << callerVars, reqQueue, actorVars >>

Answer(kind, products) == [kind |-> kind, products |-> products]

NoAnswer == Answer("none", << >>)

Init ==
  /\ task \in [Callers -> Urls]
  /\ pc = [c \in Callers |-> "idle"]
  /\ answer = [c \in Callers |-> NoAnswer]
  /\ reqQueue = << >>
  /\ req = Nobody
  /\ retry = 0
  /\ asleep = FALSE
  /\ response = << >>

Request(c, url) ==
  /\ pc[c] = "idle"
  /\ task' = [task EXCEPT ![c] = url]
  /\ answer' = [answer EXCEPT ![c] = NoAnswer]
  /\ pc' = [pc EXCEPT ![c] = "send"]
  /\ UNCHANGED << reqQueue, actorVars >>

(* requestActor: the request goes to the actor when its queue has room.    *)
RequestActor(c) ==
  /\ pc[c] = "send"
  /\ Len(reqQueue) < ReqCap
  /\ reqQueue' = Append(reqQueue, c)
  /\ pc' = [pc EXCEPT ![c] = "wait"]
  /\ UNCHANGED << task, answer, actorVars >>

(* Mutant of TakeRequest: the newest request is taken.                     *)
TakeNewest ==
  /\ req = Nobody
  /\ reqQueue # << >>
  /\ req' = reqQueue[Len(reqQueue)]
  /\ reqQueue' = SubSeq(reqQueue, 1, Len(reqQueue) - 1)
  /\ retry' = 0
  /\ UNCHANGED << callerVars, asleep, response >>

(* spawn takes the next request.                                           *)
TakeRequest ==
  /\ req = Nobody
  /\ reqQueue # << >>
  /\ req' = Head(reqQueue)
  /\ reqQueue' = Tail(reqQueue)
  /\ retry' = 0
  /\ UNCHANGED << callerVars, asleep, response >>

Checking == req # Nobody /\ response = << >> /\ ~asleep

(* Over the rate limit getResults sleeps and calls itself with the same    *)
(* request, unless its retries are used up: nothing counts them.           *)
RateLimited ==
  /\ Checking
  /\ IF retry >= MaxRetry
       THEN response' = << Answer("failed", << >>) >> /\ UNCHANGED asleep
       ELSE asleep' = TRUE /\ UNCHANGED response
  /\ UNCHANGED << callerVars, reqQueue, req, retry >>

WakeUp ==
  /\ asleep
  /\ asleep' = FALSE
  /\ UNCHANGED << callerVars, reqQueue, req, retry, response >>

(* Within the limit the API is called: it has the product, has none, or    *)
(* fails.  The limit itself may be unreadable.                             *)
GetProductData ==
  /\ Checking
  /\ response' \in {<< a >> : a \in {Answer("failed", << >>), Answer("empty", << >>),
                                     Answer("products", << task[req] >>)}}
  /\ UNCHANGED << callerVars, reqQueue, req, retry, asleep >>

(* Mutants of Reply: the request stays in hand; the answer goes to whoever *)
(* is next in the queue.                                                   *)
ReplyKeeping ==
  /\ response # << >>
  /\ answer' = [answer EXCEPT ![req] = Head(response)]
  /\ pc' = [pc EXCEPT ![req] = "idle"]
  /\ response' = << >>
  /\ UNCHANGED << task, reqQueue, req, retry, asleep >>

ReplyToNext ==
  /\ response # << >>
  /\ LET c == IF reqQueue = << >> THEN req ELSE Head(reqQueue)
     IN /\ answer' = [answer EXCEPT ![c] = Head(response)]
        /\ pc' = [pc EXCEPT ![c] = "idle"]
        /\ reqQueue' = IF reqQueue = << >> THEN << >> ELSE << req >> \o Tail(reqQueue)
  /\ req' = Nobody
  /\ response' = << >>
  /\ UNCHANGED << task, retry, asleep >>

(* The caller is answered; M101.Request fails on an answer without product. *)
Reply ==
  /\ response # << >>
  /\ answer' = [answer EXCEPT ![req] = Head(response)]
  /\ pc' = [pc EXCEPT ![req] = "idle"]
  /\ req' = Nobody
  /\ response' = << >>
  /\ UNCHANGED << task, reqQueue, retry, asleep >>

Actor == TakeRequest \/ RateLimited \/ WakeUp \/ GetProductData \/ Reply

Next ==
  \/ \E c \in Callers : RequestActor(c) \/ \E url \in Urls : Request(c, url)
  \/ Actor

Spec == Init /\ [][Next]_vars

(* The actor runs, its http calls end after ten seconds, and the senders   *)
(* that wait for room are served in their order.                           *)
FairSpec == Spec /\ WF_vars(Actor) /\ \A c \in Callers : SF_vars(RequestActor(c))

(* Besides, other processes do not use up the limit of every second.       *)
LimitedSpec == FairSpec /\ SF_vars(GetProductData)

-----------------------------------------------------------------------------
Answers == [kind : {"none", "products", "empty", "failed"}, products : Seq(Urls)]

TypeOK ==
  /\ task \in [Callers -> Urls]
  /\ pc \in [Callers -> {"idle", "send", "wait"}]
  /\ answer \in [Callers -> Answers]
  /\ reqQueue \in Seq(Callers)
  /\ req \in Callers \cup {Nobody}
  /\ retry \in 0..MaxRetry
  /\ asleep \in BOOLEAN
  /\ response \in Seq(Answers)

Queued == {reqQueue[i] : i \in DOMAIN reqQueue}

(* The callers that wait are those whose request is in the queue or in     *)
(* hand, never in both and never twice: the actor answers nobody who has   *)
(* gone, which would block it for good, and forgets nobody.                *)
EachRequestInOnePlace ==
  /\ {c \in Callers : pc[c] = "wait"} = Queued \cup ({req} \ {Nobody})
  /\ req \notin Queued
  /\ \A i, j \in DOMAIN reqQueue : reqQueue[i] = reqQueue[j] => i = j
  /\ asleep \/ response # << >> => req # Nobody
  /\ ~(asleep /\ response # << >>)

(* Requests are answered in the order in which they were queued, although  *)
(* the one in hand may wait for the rate limit any number of times.        *)
Line == (IF req = Nobody THEN << >> ELSE << req >>) \o reqQueue

FirstComeFirstServed ==
  [][\/ Line' = Line
     \/ Line # << >> /\ Line' = Tail(Line)
     \/ \E c \in Callers : Line' = Append(Line, c)]_vars

IsAnswer(url, a) ==
  CASE a.kind = "products" -> a.products = << url >>
    [] OTHER               -> a.kind \in {"empty", "failed"}

Source == INSTANCE SourceSpec WITH
  Tasks <- Urls,
  open <- [c \in Callers |-> pc[c] # "idle"],
  dead <- FALSE

(* M101.Request implements SourceSpec: each worker gets one answer, to its *)
(* own request.                                                            *)
KeepsPromise == Source!Spec

(* Every request is answered if the limit leaves room now and then.        *)
RequestsEnd == \A c \in Callers : pc[c] # "idle" ~> pc[c] = "idle"
=============================================================================
