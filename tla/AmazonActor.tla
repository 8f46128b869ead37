---------------------------- MODULE AmazonActor -----------------------------
(***************************************************************************)
(* Amazon.Request (sources/amazon/amazon.go) and the actor behind it       *)
(* (actor.go, paapi5): the workers of the process put their requests into  *)
(* one queue; requestToBatch gathers the requests for items by locale and  *)
(* flushes them on a ticker; spawn sends batch after batch to the API and  *)
(* hands the answers out by position.                                      *)
(*                                                                         *)
(* A caller waits for its answer, so its one open request is known by its  *)
(* name: a queue is a sequence of callers, and what a request asks for is  *)
(* the caller's task and stage.  The API, and the rate limit shared with   *)
(* other processes, answer anything.  Delete, which nothing in the program *)
(* calls, is left out.                                                     *)
(***************************************************************************)
EXTENDS Integers, Sequences, FiniteSets

CONSTANTS
  Callers,     \* the workers of the process
  Locales,     \* the marketplaces a url may belong to
  Asins,       \* the products of the API
  Tasks,       \* what a worker may be told to crawl
  MaxItems,    \* the size of a batch: 10
  ReqCap,      \* the capacity of the queue of requests: 100
  BatchCap,    \* the capacity of the queue of batches: 10
  MaxRetry,    \* how often a batch waits for the rate limit: 10
  Unsupported  \* the locale of a url that is not one of Amazon's

ASSUME CallersAssumption == IsFiniteSet(Callers)

(* known: the DomainInfo of the task names its asin (ParentSku).           *)
ASSUME TasksAssumption ==
  /\ Unsupported \notin Locales
  /\ Tasks \subseteq [realtime : BOOLEAN, locale : Locales \cup {Unsupported},
                      asin : Asins, known : BOOLEAN]
  /\ Tasks # {}

ASSUME BoundsAssumption ==
  /\ MaxItems \in Nat \ {0} /\ ReqCap \in Nat \ {0} /\ BatchCap \in Nat \ {0}
  /\ MaxRetry \in Nat

VARIABLES
  task,        \* what each caller crawls
  pc,          \* "idle", "send" (a request), "wait" (for its answer), "panic"
  stage,       \* which of the calls of Amazon.Request it is in
  variations,  \* the products its first call returned
  answer,      \* what Amazon.Request returned
  reqQueue,    \* the requests that requestToBatch has not taken
  localeBatch, \* localeBatchMap: the batch forming for each locale
  single,      \* a batch of one for GetVariations, waiting for room
  toFlush,     \* the locales whose batch has to go to batchQueue
  ticked,      \* the ticker's channel
  batchQueue,  \* the batches that spawn has not taken
  batch,       \* the requests of the batch in hand that are not answered
  retry,       \* how often it has waited for the rate limit
  responses,   \* their responses: << >> until the API has answered
  crash        \* whether a worker panicked

callerVars == << task, pc, stage, variations, answer, crash >>

batcherVars == << localeBatch, single, toFlush, ticked >>

senderVars == << batch, retry, responses >>

vars == << callerVars, reqQueue, batcherVars, batchQueue, senderVars >>

NoAnswer == [kind |-> "none", products |-> << >>]

Answer(kind, products) == [kind |-> kind, products |-> products]

Items(asins) == [products |-> asins, err |-> FALSE]

Error == [products |-> << >>, err |-> TRUE]

IsBadUrl(c) == task[c].locale = Unsupported

-----------------------------------------------------------------------------
Init ==
  /\ task \in [Callers -> Tasks]
  /\ pc = [c \in Callers |-> "idle"]
  /\ stage = [c \in Callers |-> "items"]
  /\ variations = [c \in Callers |-> << >>]
  /\ answer = [c \in Callers |-> NoAnswer]
  /\ reqQueue = << >>
  /\ localeBatch = [l \in Locales |-> << >>]
  /\ single = << >>
  /\ toFlush = {}
  /\ ticked = FALSE
  /\ batchQueue = << >>
  /\ batch = << >>
  /\ retry = 0
  /\ responses = << >>
  /\ crash = FALSE

(* Amazon.Request starts with GetVariations for a realtimeapi job, with    *)
(* GetItems for any other.                                                 *)
Request(c, t) ==
  /\ ~crash
  /\ pc[c] = "idle"
  /\ task' = [task EXCEPT ![c] = t]
  /\ stage' = [stage EXCEPT ![c] = IF t.realtime THEN "variations" ELSE "items"]
  /\ variations' = [variations EXCEPT ![c] = << >>]
  /\ answer' = [answer EXCEPT ![c] = NoAnswer]
  /\ pc' = [pc EXCEPT ![c] = "send"]
  /\ UNCHANGED << reqQueue, batcherVars, batchQueue, senderVars, crash >>

(* requestActor: the request goes to the actor when its queue has room.    *)
RequestActor(c) ==
  /\ ~crash
  /\ pc[c] = "send"
  /\ Len(reqQueue) < ReqCap
  /\ reqQueue' = Append(reqQueue, c)
  /\ pc' = [pc EXCEPT ![c] = "wait"]
  /\ UNCHANGED << task, stage, variations, answer, batcherVars, batchQueue,
                  senderVars, crash >>

-----------------------------------------------------------------------------
(* What Amazon.Request does with the answer of each of its calls.          *)
Return(c, a) ==
  /\ answer' = [answer EXCEPT ![c] = a]
  /\ pc' = [pc EXCEPT ![c] = "idle"]
  /\ UNCHANGED << task, stage, variations, crash >>

CallGetItems(c, next, found) ==
  /\ stage' = [stage EXCEPT ![c] = next]
  /\ variations' = [variations EXCEPT ![c] = found]
  /\ pc' = [pc EXCEPT ![c] = "send"]
  /\ UNCHANGED << task, answer, crash >>

IsAmong(asin, products) == \E i \in DOMAIN products : products[i] = asin

(* An error is followed by GetItems; an answer without products is final;  *)
(* one that lacks the queried product is completed with GetItems.          *)
GotVariations(c, r) ==
  IF r.err THEN CallGetItems(c, "items", << >>)
  ELSE IF r.products = << >> THEN Return(c, Answer("empty", << >>))
  ELSE IF task[c].known /\ ~IsAmong(task[c].asin, r.products)
    THEN CallGetItems(c, "missing", r.products)
    ELSE Return(c, Answer("products", r.products))

(* The missing product replaces the first one, which moves to the end; it  *)
(* is indexed before the error is looked at.                               *)
GotMissing(c, r) ==
  IF r.products = << >>
    THEN /\ crash' = TRUE
         /\ pc' = [pc EXCEPT ![c] = "panic"]
         /\ UNCHANGED << task, stage, variations, answer >>
    ELSE Return(c, Answer("products", r.products \o Tail(variations[c])
                                      \o << Head(variations[c]) >>))

GotItems(c, r) ==
  Return(c, IF r.err THEN Answer("failed", << >>) ELSE Answer("products", r.products))

Receive(c, r) ==
  CASE stage[c] = "variations" -> GotVariations(c, r)
    [] stage[c] = "missing"    -> GotMissing(c, r)
    [] stage[c] = "items"      -> GotItems(c, r)

-----------------------------------------------------------------------------
(* requestToBatch is in its select: nothing is left to be sent.            *)
Batching == ~crash /\ toFlush = {} /\ single = << >>

First == Head(reqQueue)

TakeFirst ==
  /\ Batching
  /\ reqQueue # << >>
  /\ reqQueue' = Tail(reqQueue)

(* A url without a locale or an asin is answered at once.                  *)
RefuseUrl ==
  /\ TakeFirst
  /\ IsBadUrl(First)
  /\ Receive(First, Error)
  /\ UNCHANGED << batcherVars, batchQueue, senderVars >>

(* A request for variations is a batch of its own.                         *)
BatchVariations ==
  /\ TakeFirst
  /\ ~IsBadUrl(First) /\ stage[First] = "variations"
  /\ single' = << First >>
  /\ UNCHANGED << callerVars, localeBatch, toFlush, ticked, batchQueue, senderVars >>

(* Mutants of BatchItems: the newest request goes first; the batch is sent *)
(* when it has outgrown its size.                                          *)
BatchItemsLastFirst ==
  /\ TakeFirst
  /\ ~IsBadUrl(First) /\ stage[First] # "variations"
  /\ LET l == task[First].locale
     IN /\ localeBatch' = [localeBatch EXCEPT ![l] = << First >> \o @]
        /\ toFlush' = IF Len(localeBatch'[l]) >= MaxItems THEN {l} ELSE {}
  /\ UNCHANGED << callerVars, single, ticked, batchQueue, senderVars >>

BatchItemsTooMany ==
  /\ TakeFirst
  /\ ~IsBadUrl(First) /\ stage[First] # "variations"
  /\ LET l == task[First].locale
     IN /\ localeBatch' = [localeBatch EXCEPT ![l] = Append(@, First)]
        /\ toFlush' = IF Len(localeBatch'[l]) > MaxItems THEN {l} ELSE {}
  /\ UNCHANGED << callerVars, single, ticked, batchQueue, senderVars >>

(* A request for items joins the batch of its locale, which has to go when *)
(* it is full.                                                             *)
BatchItems ==
  /\ TakeFirst
  /\ ~IsBadUrl(First) /\ stage[First] # "variations"
  /\ LET l == task[First].locale
     IN /\ localeBatch' = [localeBatch EXCEPT ![l] = Append(@, First)]
        /\ toFlush' = IF Len(localeBatch'[l]) >= MaxItems THEN {l} ELSE {}
  /\ UNCHANGED << callerVars, single, ticked, batchQueue, senderVars >>

(* The ticker's channel holds one tick and drops the others.               *)
Tick ==
  /\ ~crash
  /\ ~ticked
  /\ ticked' = TRUE
  /\ UNCHANGED << callerVars, reqQueue, localeBatch, single, toFlush, batchQueue,
                  senderVars >>

(* Mutant of TakeTick: the ticker does not flush.                          *)
TakeTickIdly ==
  /\ Batching
  /\ ticked
  /\ ticked' = FALSE
  /\ UNCHANGED << callerVars, reqQueue, localeBatch, single, toFlush, batchQueue,
                  senderVars >>

(* The range over localeBatchMap, in any order, that flushes on a tick.    *)
TakeTick ==
  /\ Batching
  /\ ticked
  /\ ticked' = FALSE
  /\ toFlush' = {l \in Locales : localeBatch[l] # << >>}
  /\ UNCHANGED << callerVars, reqQueue, localeBatch, single, batchQueue, senderVars >>

HasRoom == ~crash /\ Len(batchQueue) < BatchCap

(* Mutant of Flush: the batch that was sent goes on growing.               *)
FlushKeeping(l) ==
  /\ HasRoom
  /\ l \in toFlush
  /\ batchQueue' = Append(batchQueue, localeBatch[l])
  /\ UNCHANGED localeBatch
  /\ toFlush' = toFlush \ {l}
  /\ UNCHANGED << callerVars, reqQueue, single, ticked, senderVars >>

Flush(l) ==
  /\ HasRoom
  /\ l \in toFlush
  /\ batchQueue' = Append(batchQueue, localeBatch[l])
  /\ localeBatch' = [localeBatch EXCEPT ![l] = << >>]
  /\ toFlush' = toFlush \ {l}
  /\ UNCHANGED << callerVars, reqQueue, single, ticked, senderVars >>

FlushSingle ==
  /\ HasRoom
  /\ single # << >>
  /\ batchQueue' = Append(batchQueue, single)
  /\ single' = << >>
  /\ UNCHANGED << callerVars, reqQueue, localeBatch, toFlush, ticked, senderVars >>

-----------------------------------------------------------------------------
(* spawn takes the next batch.                                             *)
TakeBatch ==
  /\ ~crash
  /\ batch = << >>
  /\ batchQueue # << >>
  /\ batch' = Head(batchQueue)
  /\ batchQueue' = Tail(batchQueue)
  /\ retry' = 0
  /\ UNCHANGED << callerVars, reqQueue, batcherVars, responses >>

Checking == ~crash /\ batch # << >> /\ responses = << >>

(* Over the rate limit the batch sleeps and tries again.                   *)
RateLimited ==
  /\ Checking
  /\ retry < MaxRetry
  /\ retry' = retry + 1
  /\ UNCHANGED << callerVars, reqQueue, batcherVars, batchQueue, batch, responses >>

(* NewMultiItemResponse: one error for each request.  The limit cannot be  *)
(* read or was exceeded too often, or the call failed as a whole.          *)
AllErrors == [i \in DOMAIN batch |-> Error]

(* Normalized, for items: each asin has its product or, when the API names *)
(* it in an error or not at all, an error; requests for one asin share it. *)
ItemResponses ==
  {[i \in DOMAIN batch |->
      IF task[batch[i]].asin \in found THEN Items(<< task[batch[i]].asin >>)
                                       ELSE Error] :
     found \in SUBSET {task[batch[i]].asin : i \in DOMAIN batch}}

(* Normalized, for variations: the queried asin changes places with the    *)
(* first of what the API lists.                                            *)
QueriedFirst(asin, listed) ==
  [i \in DOMAIN listed |->
     CASE i = 1 /\ IsAmong(asin, listed) -> asin
       [] i > 1 /\ listed[i] = asin      -> listed[1]
       [] OTHER                          -> listed[i]]

Listings == {<< >>} \cup {<< a >> : a \in Asins}
            \cup {p \in Asins \X Asins : p[1] # p[2]}

VariationResponses ==
  {<< Items(QueriedFirst(task[batch[1]].asin, listed)) >> : listed \in Listings}

(* The call to the API of a batch within the rate limit, or its errors.    *)
GetResults ==
  /\ Checking
  /\ responses' \in {AllErrors}
       \cup (IF stage[batch[1]] = "variations" THEN VariationResponses
                                               ELSE ItemResponses)
  /\ UNCHANGED << callerVars, reqQueue, batcherVars, batchQueue, batch, retry >>

(* Mutant of HandOut: the answers are handed out from the other end.       *)
HandOutReversed ==
  /\ ~crash
  /\ responses # << >>
  /\ Receive(batch[1], responses[Len(responses)])
  /\ batch' = Tail(batch)
  /\ responses' = SubSeq(responses, 1, Len(responses) - 1)
  /\ UNCHANGED << reqQueue, batcherVars, batchQueue, retry >>

(* One iteration of the loop that answers the requests of a batch.         *)
HandOut ==
  /\ ~crash
  /\ responses # << >>
  /\ Receive(batch[1], responses[1])
  /\ batch' = Tail(batch)
  /\ responses' = Tail(responses)
  /\ UNCHANGED << reqQueue, batcherVars, batchQueue, retry >>

-----------------------------------------------------------------------------
Batcher ==
  \/ RefuseUrl
  \/ BatchVariations
  \/ BatchItems
  \/ TakeTick
  \/ \E l \in Locales : Flush(l)
  \/ FlushSingle

Sender == TakeBatch \/ RateLimited \/ GetResults \/ HandOut

(* A worker has panicked: the process is gone.                             *)
Dead == crash /\ UNCHANGED vars

Next ==
  \/ \E c \in Callers : RequestActor(c) \/ \E t \in Tasks : Request(c, t)
  \/ Tick
  \/ Batcher
  \/ Sender
  \/ Dead

Spec == Init /\ [][Next]_vars

(* The goroutines run and the ticker ticks; select chooses at random among *)
(* what is ready, and the senders that wait for a channel are served in    *)
(* their order, so that neither a request nor a tick is passed over for    *)
(* ever.  The API is assumed to answer: its client never gets a timeout.   *)
Fairness ==
  /\ WF_vars(Tick) /\ WF_vars(Batcher) /\ WF_vars(Sender)
  /\ SF_vars(TakeTick) /\ SF_vars(RefuseUrl \/ BatchVariations \/ BatchItems)
  /\ \A c \in Callers : SF_vars(RequestActor(c))

FairSpec == Spec /\ Fairness

-----------------------------------------------------------------------------
Stages == {"variations", "missing", "items"}

Answers == [kind : {"none", "products", "empty", "failed"}, products : Seq(Asins)]

TypeOK ==
  /\ task \in [Callers -> Tasks]
  /\ pc \in [Callers -> {"idle", "send", "wait", "panic"}]
  /\ stage \in [Callers -> Stages]
  /\ variations \in [Callers -> Seq(Asins)]
  /\ answer \in [Callers -> Answers]
  /\ reqQueue \in Seq(Callers)
  /\ localeBatch \in [Locales -> Seq(Callers)]
  /\ single \in Seq(Callers)
  /\ toFlush \in SUBSET Locales
  /\ ticked \in BOOLEAN
  /\ batchQueue \in Seq(Seq(Callers))
  /\ batch \in Seq(Callers)
  /\ retry \in 0..MaxRetry
  /\ responses \in Seq([products : Seq(Asins), err : BOOLEAN])
  /\ crash \in BOOLEAN

(* The places of a request, each with its position there.                  *)
Among(c, s) == {i \in DOMAIN s : s[i] = c}

InQueue(c) == {<< "queue", 1 >>} \X Among(c, reqQueue)

Forming(c) ==
  UNION {{<< "forming", l >>} \X Among(c, localeBatch[l]) : l \in Locales}

Single(c) == {<< "single", 1 >>} \X Among(c, single)

Batched(c) ==
  UNION {{<< "batched", i >>} \X Among(c, batchQueue[i]) : i \in DOMAIN batchQueue}

InHand(c) == {<< "hand", 1 >>} \X Among(c, batch)

Places(c) == InQueue(c) \cup Forming(c) \cup Single(c) \cup Batched(c) \cup InHand(c)

(* The request of a waiting caller is in exactly one place of the queue,   *)
(* the forming batches, the queued batches and the batch in hand, and      *)
(* there once; nobody else's is anywhere.  So no request is lost or sent   *)
(* to the API twice, and no answer is sent to a caller that has gone,      *)
(* which would block the actor for good.                                   *)
EachRequestInOnePlace ==
  \A c \in Callers : Cardinality(Places(c)) = IF pc[c] = "wait" THEN 1 ELSE 0

(* What one call to the API is made with: a request for variations alone,  *)
(* or at most MaxItems requests for items of one locale, although they     *)
(* come from workers of any job, and a batch waits while others form.      *)
WellFormed(b) ==
  /\ Len(b) \in 1..MaxItems
  /\ \A i, j \in DOMAIN b : task[b[i]].locale = task[b[j]].locale
  /\ \A i \in DOMAIN b : ~IsBadUrl(b[i])
  /\ (\E i \in DOMAIN b : stage[b[i]] = "variations") => Len(b) = 1

BatchesAreCallable ==
  /\ \A i \in DOMAIN batchQueue : WellFormed(batchQueue[i])
  /\ batch # << >> => WellFormed(batch)
  /\ responses # << >> => Len(responses) = Len(batch)

(* The places that requests for items of a locale pass through, the last   *)
(* one first: the batch in hand, the queued batches, the forming batch and *)
(* the queue of requests.                                                  *)
Line == 0..(Len(batchQueue) + 2)

Place(l, i) ==
  CASE i = 0                   -> batch
    [] i \in DOMAIN batchQueue -> batchQueue[i]
    [] i = Len(batchQueue) + 1 -> localeBatch[l]
    [] i = Len(batchQueue) + 2 -> reqQueue

InLine(l, c) == pc[c] = "wait" /\ task[c].locale = l /\ stage[c] # "variations"

Ahead(l, c, d) ==
  /\ InLine(l, c) /\ InLine(l, d)
  /\ \E i \in Line : \E m \in Among(c, Place(l, i)) :
       \E j \in Line : \E n \in Among(d, Place(l, j)) : i < j \/ (i = j /\ m < n)

(* Requests for items of a locale are answered first come, first served:   *)
(* on their way through the queue, the map of forming batches, the         *)
(* ticker's flush and the queue of batches, while a request waits those    *)
(* behind it stay behind it, and one that comes goes behind all of them.   *)
FirstComeFirstServed ==
  [][\A l \in Locales : \A c \in Callers :
       InLine(l, c) /\ InLine(l, c)' =>
         \A d \in Callers :
           /\ Ahead(l, c, d) => Ahead(l, c, d)'
           /\ ~InLine(l, d) /\ InLine(l, d)' => Ahead(l, c, d)']_vars

(* The products of a request are those of the task: the queried one first, *)
(* whenever the DomainInfo names it or no variations were asked for; alone *)
(* for GetItems; and no product for a url that is not one of Amazon's.     *)
IsAnswer(t, a) ==
  CASE a.kind = "products" ->
         /\ a.products # << >> /\ t.locale # Unsupported
         /\ t.known \/ ~t.realtime => a.products[1] = t.asin
         /\ ~t.realtime => Len(a.products) = 1
    [] a.kind = "empty"  -> t.realtime /\ t.locale # Unsupported
    [] a.kind = "failed" -> TRUE
    [] OTHER             -> FALSE

Source == INSTANCE SourceSpec WITH
  open <- [c \in Callers |-> pc[c] # "idle"],
  dead <- crash

(* Amazon.Request implements SourceSpec: through the shared actor, its     *)
(* batches and its positional answers each worker gets one answer, its own. *)
KeepsPromise == Source!Spec

(* Every request is answered, unless the process dies, however many other  *)
(* requests there are: a batch that never fills up is flushed by the       *)
(* ticker, and the rate limit is waited for a bounded number of times.     *)
RequestsEnd ==
  \A c \in Callers : pc[c] # "idle" ~> (pc[c] = "idle" \/ crash)
=============================================================================
