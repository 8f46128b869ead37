------------------------- MODULE AmazonActorProofs --------------------------
(***************************************************************************)
(* The safety of AmazonActor, for any number of workers, tasks and         *)
(* locales, and any sizes of the batches and the channels.                 *)
(***************************************************************************)
EXTENDS AmazonActor, SequenceTheorems, FiniteSetTheorems, TLAPS

(* The callers whose requests are in a sequence, each there once.          *)
Members(s) == {s[i] : i \in DOMAIN s}

Once(s) == \A i, j \in DOMAIN s : s[i] = s[j] => i = j

InBatches == UNION {Members(localeBatch[l]) : l \in Locales}

InQueued == UNION {Members(batchQueue[i]) : i \in DOMAIN batchQueue}

Waiting == {c \in Callers : pc[c] = "wait"}

(* The places of the requests are apart from one another, and hold the     *)
(* requests of those who wait.                                             *)
Apart(A, B, C, D, E) ==
  /\ A \cap B = {} /\ A \cap C = {} /\ A \cap D = {} /\ A \cap E = {}
  /\ B \cap C = {} /\ B \cap D = {} /\ B \cap E = {}
  /\ C \cap D = {} /\ C \cap E = {} /\ D \cap E = {}

Placed ==
  /\ Apart(Members(reqQueue), InBatches, Members(single), InQueued, Members(batch))
  /\ Waiting = Members(reqQueue) \cup InBatches \cup Members(single) \cup InQueued
               \cup Members(batch)

(* No place holds a request twice.                                         *)
NoneTwice ==
  /\ Once(reqQueue) /\ Once(single) /\ Once(batch)
  /\ \A l \in Locales : Once(localeBatch[l])
  /\ \A i \in DOMAIN batchQueue : Once(batchQueue[i])
  /\ \A i, j \in DOMAIN batchQueue :
       i # j => Members(batchQueue[i]) \cap Members(batchQueue[j]) = {}

(* A batch that forms has requests of its locale only, and has to go when  *)
(* it is full; a batch of one is a request for variations.                 *)
OfLocale(l, s) == \A c \in Members(s) : task[c].locale = l /\ stage[c] # "variations"

Lone(c) == ~IsBadUrl(c) /\ stage[c] = "variations"

Formed ==
  /\ \A l \in Locales :
       /\ OfLocale(l, localeBatch[l])
       /\ Len(localeBatch[l]) <= MaxItems
       /\ l \in toFlush => localeBatch[l] # << >>
       /\ l \notin toFlush => Len(localeBatch[l]) < MaxItems
  /\ Len(single) <= 1
  /\ \A c \in Members(single) : Lone(c)

(* What a caller may be told: an error, its product, or for variations any *)
(* products, with its own first if it is there.                            *)
Fits(c, r) ==
  /\ r.err => r.products = << >>
  /\ ~r.err =>
       /\ ~IsBadUrl(c)
       /\ stage[c] # "variations" => r.products = << task[c].asin >>
       /\ stage[c] = "variations" /\ IsAmong(task[c].asin, r.products) =>
            r.products[1] = task[c].asin

Responds ==
  responses # << >> =>
    /\ Len(responses) = Len(batch)
    /\ \A i \in DOMAIN batch : Fits(batch[i], responses[i])

(* The caller has had variations when it asks for the missing product.     *)
Asking(c) ==
  pc[c] \in {"send", "wait"} =>
    /\ stage[c] \in {"variations", "missing"} => task[c].realtime
    /\ stage[c] = "missing" => variations[c] # << >>

IInv ==
  /\ TypeOK
  /\ Placed
  /\ NoneTwice
  /\ Formed
  /\ BatchesAreCallable
  /\ Responds
  /\ \A c \in Callers : Asking(c)

-----------------------------------------------------------------------------
(* Sending, receiving and an empty channel, seen as sets of requests.      *)
LEMMA NoMembers == Members(<< >>) = {} /\ Once(<< >>)
  BY DEF Members, Once

LEMMA AppendMembers ==
  ASSUME NEW S, NEW s \in Seq(S), NEW e \in S
  PROVE  /\ Append(s, e) \in Seq(S)
         /\ Len(Append(s, e)) = Len(s) + 1
         /\ Members(Append(s, e)) = Members(s) \cup {e}
         /\ Once(s) /\ e \notin Members(s) => Once(Append(s, e))
<1>1. Len(s) \in Nat /\ DOMAIN s = 1 .. Len(s)
  BY LenProperties
<1>2. /\ Append(s, e) \in Seq(S)
      /\ Len(Append(s, e)) = Len(s) + 1
      /\ \A i \in 1 .. Len(s) : Append(s, e)[i] = s[i]
      /\ Append(s, e)[Len(s) + 1] = e
  BY AppendProperties
<1>3. DOMAIN Append(s, e) = 1 .. Len(s) + 1
  BY <1>2, LenProperties
<1>4. Members(Append(s, e)) = Members(s) \cup {e}
  BY <1>1, <1>2, <1>3 DEF Members
<1>5. ASSUME Once(s), e \notin Members(s) PROVE Once(Append(s, e))
  BY <1>1, <1>2, <1>3, <1>5 DEF Members, Once
<1> QED BY <1>2, <1>4, <1>5

LEMMA TailMembers ==
  ASSUME NEW S, NEW s \in Seq(S), s # << >>
  PROVE  /\ Head(s) \in S /\ Head(s) = s[1] /\ Head(s) \in Members(s)
         /\ Len(s) \in Nat \ {0} /\ DOMAIN s = 1 .. Len(s)
         /\ Tail(s) \in Seq(S)
         /\ Len(Tail(s)) = Len(s) - 1
         /\ \A i \in DOMAIN Tail(s) : i + 1 \in DOMAIN s /\ Tail(s)[i] = s[i + 1]
         /\ Members(Tail(s)) \subseteq Members(s)
         /\ Once(s) => /\ Once(Tail(s))
                       /\ Members(Tail(s)) = Members(s) \ {Head(s)}
<1>1. Len(s) \in Nat \ {0} /\ DOMAIN s = 1 .. Len(s)
  BY EmptySeq, LenProperties
<1>2. /\ Tail(s) \in Seq(S) /\ Len(Tail(s)) = Len(s) - 1 /\ Head(s) \in S
      /\ \A i \in 1 .. Len(Tail(s)) : Tail(s)[i] = s[i + 1]
  BY HeadTailProperties
<1>3. DOMAIN Tail(s) = 1 .. Len(s) - 1
  BY <1>2, LenProperties
<1>4. Head(s) = s[1]
  OBVIOUS
<1>5. Head(s) \in Members(s)
  BY <1>1, <1>4 DEF Members
<1>6. \A i \in DOMAIN Tail(s) : i + 1 \in DOMAIN s /\ Tail(s)[i] = s[i + 1]
  BY <1>1, <1>2, <1>3
<1>7. Members(Tail(s)) \subseteq Members(s)
  BY <1>6 DEF Members
<1>8. ASSUME Once(s)
      PROVE  Once(Tail(s)) /\ Members(Tail(s)) = Members(s) \ {Head(s)}
  <2>1. ASSUME NEW i \in DOMAIN Tail(s), NEW j \in DOMAIN Tail(s), Tail(s)[i] = Tail(s)[j]
        PROVE  i = j
    <3>1. s[i + 1] = s[j + 1] /\ i + 1 \in DOMAIN s /\ j + 1 \in DOMAIN s
      BY <1>6, <2>1
    <3>2. i + 1 = j + 1
      BY <1>8, <3>1 DEF Once
    <3> QED BY <1>3, <3>2
  <2>2. ASSUME NEW i \in DOMAIN Tail(s) PROVE Tail(s)[i] # Head(s)
    <3>1. s[i + 1] = Tail(s)[i] /\ i + 1 \in DOMAIN s /\ 1 \in DOMAIN s /\ i + 1 # 1
      BY <1>1, <1>3, <1>6
    <3> QED BY <1>4, <1>8, <3>1 DEF Once
  <2>3. ASSUME NEW i \in DOMAIN s, s[i] # Head(s) PROVE s[i] \in Members(Tail(s))
    <3>1. i - 1 \in DOMAIN Tail(s) /\ (i - 1) + 1 = i
      BY <1>1, <1>3, <1>4, <2>3
    <3>2. Tail(s)[i - 1] = s[i]
      BY <1>6, <3>1
    <3> QED BY <3>1, <3>2 DEF Members
  <2>4. Members(Tail(s)) = Members(s) \ {Head(s)}
    BY <1>7, <2>2, <2>3 DEF Members
  <2> QED BY <2>1, <2>4 DEF Once
<1> QED BY <1>1, <1>2, <1>4, <1>5, <1>6, <1>7, <1>8

(* A batch of one.                                                         *)
LEMMA OneMember ==
  ASSUME NEW S, NEW e \in S
  PROVE  /\ << e >> \in Seq(S) /\ Len(<< e >>) = 1 /\ << e >>[1] = e
         /\ << e >> # << >> /\ Members(<< e >>) = {e} /\ Once(<< e >>)
  BY DEF Members, Once

-----------------------------------------------------------------------------
(* A step that leaves the tasks and stages of some callers alone changes   *)
(* nothing that is said of their requests.                                 *)
LEMMA Frame ==
  ASSUME NEW D, \A d \in D : task'[d] = task[d] /\ stage'[d] = stage[d]
  PROVE  /\ \A b : Members(b) \subseteq D /\ WellFormed(b) => WellFormed(b)'
         /\ \A c \in D : \A r : Fits(c, r) => Fits(c, r)'
         /\ \A l, s : Members(s) \subseteq D /\ OfLocale(l, s) => OfLocale(l, s)'
         /\ \A c \in D : Lone(c) => Lone(c)'
<1>1. ASSUME NEW b, Members(b) \subseteq D, WellFormed(b) PROVE WellFormed(b)'
  <2>1. \A i \in DOMAIN b : task'[b[i]] = task[b[i]] /\ stage'[b[i]] = stage[b[i]]
    BY <1>1 DEF Members
  <2> QED BY <1>1, <2>1 DEF WellFormed, IsBadUrl
<1>2. ASSUME NEW c \in D, NEW r, Fits(c, r) PROVE Fits(c, r)'
  BY <1>2 DEF Fits, IsBadUrl
<1>3. ASSUME NEW l, NEW s, Members(s) \subseteq D, OfLocale(l, s) PROVE OfLocale(l, s)'
  BY <1>3 DEF OfLocale
<1>4. ASSUME NEW c \in D, Lone(c) PROVE Lone(c)'
  BY <1>4 DEF Lone, IsBadUrl
<1> QED BY <1>1, <1>2, <1>3, <1>4

(* A step of the batcher or the sender that answers nobody.                *)
LEMMA CallersStay ==
  ASSUME UNCHANGED callerVars
  PROVE  /\ Waiting' = Waiting
         /\ \A c \in Callers : Asking(c) => Asking(c)'
         /\ \A b : WellFormed(b) => WellFormed(b)'
         /\ \A c, r : Fits(c, r) => Fits(c, r)'
         /\ \A l, s : OfLocale(l, s) => OfLocale(l, s)'
         /\ \A c : Lone(c) => Lone(c)'
<1> USE DEF callerVars
<1>1. Waiting' = Waiting
  BY DEF Waiting
<1>2. \A c \in Callers : Asking(c) => Asking(c)'
  BY DEF Asking
<1>3. \A b : WellFormed(b) => WellFormed(b)'
  BY DEF WellFormed, IsBadUrl
<1>4. \A c, r : Fits(c, r) => Fits(c, r)'
  BY DEF Fits, IsBadUrl
<1>5. \A l, s : OfLocale(l, s) => OfLocale(l, s)'
  BY DEF OfLocale
<1>6. \A c : Lone(c) => Lone(c)'
  BY DEF Lone, IsBadUrl
<1> QED BY <1>1, <1>2, <1>3, <1>4, <1>5, <1>6

(* Everyone whose request is somewhere is a caller who waits.              *)
LEMMA MembersWait ==
  ASSUME Placed
  PROVE  /\ Members(reqQueue) \subseteq Waiting
         /\ \A l \in Locales : Members(localeBatch[l]) \subseteq Waiting
         /\ Members(single) \subseteq Waiting
         /\ \A i \in DOMAIN batchQueue : Members(batchQueue[i]) \subseteq Waiting
         /\ Members(batch) \subseteq Waiting
         /\ Waiting \subseteq Callers
<1>1. \A l \in Locales : Members(localeBatch[l]) \subseteq InBatches
  BY DEF InBatches
<1>2. \A i \in DOMAIN batchQueue : Members(batchQueue[i]) \subseteq InQueued
  BY DEF InQueued
<1>3. Waiting \subseteq Callers
  BY DEF Waiting
<1> QED BY <1>1, <1>2, <1>3 DEF Placed

(* What Formed, BatchesAreCallable, Responds and Asking say holds on after *)
(* a step that concerns only one caller, and one that waits nowhere then.  *)
LEMMA OthersStay ==
  ASSUME IInv, NEW c \in Callers,
         \A d \in Callers \ {c} : task'[d] = task[d] /\ stage'[d] = stage[d],
         \A d \in Callers \ {c} : pc'[d] = pc[d] /\ variations'[d] = variations[d],
         Asking(c)'
  PROVE  /\ \A b : Members(b) \subseteq Callers \ {c} /\ WellFormed(b) => WellFormed(b)'
         /\ \A d \in Callers \ {c} : \A r : Fits(d, r) => Fits(d, r)'
         /\ \A l, s : Members(s) \subseteq Callers \ {c} /\ OfLocale(l, s) =>
              OfLocale(l, s)'
         /\ \A d \in Callers \ {c} : Lone(d) => Lone(d)'
         /\ \A d \in Callers : Asking(d)'
         /\ pc'[c] # "wait" => Waiting' = Waiting \ {c}
<1>1. \A d \in Callers \ {c} : Asking(d)'
  BY DEF IInv, Asking
<1>2. \A d \in Callers : Asking(d)'
  BY <1>1
<1>3. pc'[c] # "wait" => Waiting' = Waiting \ {c}
  BY DEF Waiting
<1> QED BY <1>2, <1>3, Frame

(* The batches and the answers of the actor, when a caller that waits for  *)
(* nothing there has been changed.                                         *)
LEMMA BatchesStay ==
  ASSUME IInv, NEW D,
         \A l \in Locales : Members(localeBatch[l]) \subseteq D,
         Members(single) \subseteq D,
         \A i \in DOMAIN batchQueue : Members(batchQueue[i]) \subseteq D,
         \A d \in D : task'[d] = task[d] /\ stage'[d] = stage[d],
         UNCHANGED << batcherVars, batchQueue >>
  PROVE  /\ Formed'
         /\ (\A i \in DOMAIN batchQueue : WellFormed(batchQueue[i]))'
<1>1. /\ \A b : Members(b) \subseteq D /\ WellFormed(b) => WellFormed(b)'
      /\ \A l, s : Members(s) \subseteq D /\ OfLocale(l, s) => OfLocale(l, s)'
      /\ \A c \in D : Lone(c) => Lone(c)'
  BY Frame
<1>2. Formed
  BY DEF IInv
<1>3. \A l \in Locales : OfLocale(l, localeBatch[l])'
  BY <1>1, <1>2 DEF Formed, batcherVars, OfLocale
<1>4. \A d \in Members(single) : Lone(d)'
  BY <1>1, <1>2 DEF Formed
<1>5. localeBatch' = localeBatch /\ single' = single /\ toFlush' = toFlush
  BY DEF batcherVars
<1>6. Formed'
  <2>1. Members(single)' = Members(single)
    BY <1>5 DEF Members
  <2> QED BY <1>2, <1>3, <1>4, <1>5, <2>1 DEF Formed
<1>7. \A i \in DOMAIN batchQueue : WellFormed(batchQueue[i])
  BY DEF IInv, BatchesAreCallable
<1>8. ASSUME NEW i \in DOMAIN batchQueue, NEW b, b = batchQueue[i] PROVE WellFormed(b)'
  BY <1>1, <1>7, <1>8
<1>9. (\A i \in DOMAIN batchQueue : WellFormed(batchQueue[i]))'
  BY <1>8
<1> QED BY <1>6, <1>9

-----------------------------------------------------------------------------
Response == [products : Seq(Asins), err : BOOLEAN]

(* The three ways in which a call of Amazon.Request goes on.               *)
Returns(c) == \E a \in Answers : Return(c, a) /\ IsAnswer(task[c], a)

AsksOn(c) ==
  \E next \in {"missing", "items"}, found \in Seq(Asins) :
    /\ CallGetItems(c, next, found)
    /\ next = "missing" => found # << >> /\ task[c].realtime

Panics(c) ==
  /\ crash' = TRUE
  /\ pc' = [pc EXCEPT ![c] = "panic"]
  /\ UNCHANGED << task, stage, variations, answer >>

LEMMA AnswerType ==
  /\ << >> \in Seq(Asins)
  /\ Error \in Response /\ NoAnswer \in Answers
  /\ \A k \in {"products", "empty", "failed"}, s \in Seq(Asins) :
       /\ Answer(k, s) \in Answers
       /\ Answer(k, s).kind = k /\ Answer(k, s).products = s
  /\ \A a \in Asins : Items(<< a >>) \in Response
<1>1. << >> \in Seq(Asins) /\ \A a \in Asins : << a >> \in Seq(Asins)
  OBVIOUS
<1> QED BY <1>1 DEF Error, Response, NoAnswer, Answers, Answer, Items

(* When an answer of each kind is one to a task.                            *)
LEMMA AnswersTask ==
  ASSUME NEW t, NEW a
  PROVE  /\ a.kind = "products" =>
              (IsAnswer(t, a) <=>
                 /\ a.products # << >> /\ t.locale # Unsupported
                 /\ t.known \/ ~t.realtime => a.products[1] = t.asin
                 /\ ~t.realtime => Len(a.products) = 1)
         /\ a.kind = "empty" =>
              (IsAnswer(t, a) <=> t.realtime /\ t.locale # Unsupported)
         /\ a.kind = "failed" => IsAnswer(t, a)
<1>1. ASSUME a.kind = "products"
      PROVE  IsAnswer(t, a) <=>
               /\ a.products # << >> /\ t.locale # Unsupported
               /\ t.known \/ ~t.realtime => a.products[1] = t.asin
               /\ ~t.realtime => Len(a.products) = 1
  BY <1>1 DEF IsAnswer
<1>2. ASSUME a.kind = "empty"
      PROVE  IsAnswer(t, a) <=> t.realtime /\ t.locale # Unsupported
  BY <1>2 DEF IsAnswer
<1>3. ASSUME a.kind = "failed" PROVE IsAnswer(t, a)
  BY <1>3 DEF IsAnswer
<1> QED BY <1>1, <1>2, <1>3

LEMMA TaskType ==
  ASSUME TypeOK, NEW c \in Callers
  PROVE  /\ task[c] \in Tasks
         /\ task[c].realtime \in BOOLEAN /\ task[c].known \in BOOLEAN
         /\ task[c].asin \in Asins
         /\ task[c].locale \in Locales \cup {Unsupported}
         /\ ~IsBadUrl(c) => task[c].locale \in Locales /\ task[c].locale # Unsupported
  BY TasksAssumption DEF TypeOK, IsBadUrl

LEMMA ProductsAnswer ==
  ASSUME TypeOK, NEW c \in Callers, ~IsBadUrl(c), NEW s \in Seq(Asins), s # << >>,
         task[c].known \/ ~task[c].realtime => s[1] = task[c].asin,
         ~task[c].realtime => Len(s) = 1
  PROVE  Answer("products", s) \in Answers /\ IsAnswer(task[c], Answer("products", s))
<1>1. PICK a \in Answers : a = Answer("products", s)
  BY AnswerType
<1>2. a.kind = "products" /\ a.products = s
  BY <1>1, AnswerType
<1>3. task[c].locale # Unsupported
  BY DEF IsBadUrl
<1>4. IsAnswer(task[c], a)
  BY <1>2, <1>3, AnswersTask
<1> QED BY <1>1, <1>4

LEMMA GotVariationsOutcome ==
  ASSUME TypeOK, NEW c \in Callers, pc[c] = "wait", Asking(c), stage[c] = "variations",
         NEW r \in Response, Fits(c, r), GotVariations(c, r)
  PROVE  Returns(c) \/ AsksOn(c)
<1>1. r.products \in Seq(Asins) /\ r.err \in BOOLEAN
  BY DEF Response
<1>2. task[c].realtime
  BY DEF Asking
<1>3. CASE r.err
  <2>1. CallGetItems(c, "items", << >>)
    BY <1>3 DEF GotVariations
  <2> QED BY <2>1, AnswerType DEF AsksOn
<1>4. CASE ~r.err /\ r.products = << >>
  <2>1. Return(c, Answer("empty", << >>))
    BY <1>4 DEF GotVariations
  <2>2. IsAnswer(task[c], Answer("empty", << >>))
    BY <1>2, <1>4, AnswerType, AnswersTask DEF Fits, IsBadUrl
  <2> QED BY <2>1, <2>2, AnswerType DEF Returns
<1>5. CASE ~r.err /\ r.products # << >> /\ task[c].known
           /\ ~IsAmong(task[c].asin, r.products)
  <2>1. CallGetItems(c, "missing", r.products)
    BY <1>5 DEF GotVariations
  <2> QED BY <1>1, <1>2, <1>5, <2>1 DEF AsksOn
<1>6. CASE ~r.err /\ r.products # << >>
           /\ (task[c].known => IsAmong(task[c].asin, r.products))
  <2>1. Return(c, Answer("products", r.products))
    BY <1>6 DEF GotVariations
  <2>2. task[c].known => r.products[1] = task[c].asin
    BY <1>6 DEF Fits
  <2>3. IsAnswer(task[c], Answer("products", r.products))
    BY <1>1, <1>2, <1>6, <2>2, ProductsAnswer DEF Fits
  <2> QED BY <1>1, <2>1, <2>3, AnswerType DEF Returns
<1> QED BY <1>1, <1>3, <1>4, <1>5, <1>6

(* The product that was missing is the first of all.                       *)
LEMMA ConcatFirst ==
  ASSUME NEW S, NEW s \in Seq(S), NEW t \in Seq(S), s # << >>
  PROVE  s \o t \in Seq(S) /\ s \o t # << >> /\ (s \o t)[1] = s[1]
<1>1. Len(s) \in Nat /\ Len(s) >= 1 /\ Len(t) \in Nat
  BY EmptySeq, LenProperties
<1>2. /\ s \o t \in Seq(S) /\ Len(s \o t) = Len(s) + Len(t)
      /\ \A i \in 1 .. Len(s) + Len(t) :
           (s \o t)[i] = IF i <= Len(s) THEN s[i] ELSE t[i - Len(s)]
  BY ConcatProperties
<1>3. 1 \in 1 .. Len(s) + Len(t) /\ 1 <= Len(s)
  BY <1>1
<1>4. (s \o t)[1] = s[1]
  BY <1>2, <1>3
<1>5. s \o t # << >>
  BY <1>1, <1>2, EmptySeq
<1> QED BY <1>2, <1>4, <1>5

LEMMA GotMissingOutcome ==
  ASSUME TypeOK, NEW c \in Callers, pc[c] = "wait", Asking(c), stage[c] = "missing",
         NEW r \in Response, Fits(c, r), GotMissing(c, r)
  PROVE  Returns(c) \/ Panics(c)
<1>1. r.products \in Seq(Asins) /\ r.err \in BOOLEAN
  BY DEF Response
<1>2. task[c].realtime /\ variations[c] # << >> /\ variations[c] \in Seq(Asins)
  BY DEF Asking, TypeOK
<1>3. CASE r.products = << >>
  BY <1>3 DEF GotMissing, Panics
<1>4. CASE r.products # << >>
  <2> DEFINE rest == Tail(variations[c]) \o << Head(variations[c]) >>
             all == r.products \o Tail(variations[c]) \o << Head(variations[c]) >>
  <2>1. Tail(variations[c]) \in Seq(Asins) /\ << Head(variations[c]) >> \in Seq(Asins)
    BY <1>2, HeadTailProperties
  <2>2. /\ ~IsBadUrl(c) /\ r.products = << task[c].asin >>
    BY <1>4 DEF Fits
  <2>3. << task[c].asin >> \in Seq(Asins) /\ << task[c].asin >> # << >>
        /\ << task[c].asin >>[1] = task[c].asin
    BY TaskType, OneMember
  <2>4. PICK s \in Seq(Asins) : s = r.products \o Tail(variations[c])
    BY <1>1, <2>1, <1>4, ConcatFirst
  <2>5. s # << >> /\ s[1] = task[c].asin
    BY <1>1, <1>4, <2>1, <2>2, <2>3, <2>4, ConcatFirst
  <2>6. /\ s \o << Head(variations[c]) >> \in Seq(Asins)
       /\ (s \o << Head(variations[c]) >>)[1] = task[c].asin
       /\ s \o << Head(variations[c]) >> # << >>
    BY <2>1, <2>5, ConcatFirst
  <2>7. all \in Seq(Asins) /\ all[1] = task[c].asin /\ all # << >>
    BY <2>4, <2>6
  <2>8. Return(c, Answer("products", all))
    BY <1>4 DEF GotMissing
  <2> HIDE DEF all
  <2>9. IsAnswer(task[c], Answer("products", all))
    BY <1>2, <2>2, <2>7, ProductsAnswer
  <2> QED BY <2>7, <2>8, <2>9, AnswerType DEF Returns
<1> QED BY <1>3, <1>4

LEMMA GotItemsOutcome ==
  ASSUME TypeOK, NEW c \in Callers, pc[c] = "wait", stage[c] = "items",
         NEW r \in Response, Fits(c, r), GotItems(c, r)
  PROVE  Returns(c)
<1>1. r.err \in BOOLEAN
  BY DEF Response
<1>2. CASE r.err
  <2>1. Return(c, Answer("failed", << >>))
    BY <1>2 DEF GotItems
  <2>2. IsAnswer(task[c], Answer("failed", << >>))
    BY AnswerType, AnswersTask
  <2> QED BY <2>1, <2>2, AnswerType DEF Returns
<1>3. CASE ~r.err
  <2>1. Return(c, Answer("products", r.products))
    BY <1>3 DEF GotItems
  <2>2. ~IsBadUrl(c) /\ r.products = << task[c].asin >>
    BY <1>3 DEF Fits
  <2>3. /\ r.products \in Seq(Asins) /\ Len(r.products) = 1
        /\ r.products[1] = task[c].asin /\ r.products # << >>
    BY <2>2, TaskType, OneMember
  <2>4. IsAnswer(task[c], Answer("products", r.products))
    BY <2>2, <2>3, ProductsAnswer
  <2> QED BY <2>1, <2>2, <2>3, <2>4, AnswerType DEF Returns
<1> QED BY <1>1, <1>2, <1>3

(* What a caller that waits makes of a fitting response.                   *)
LEMMA ReceiveOutcome ==
  ASSUME TypeOK, NEW c \in Callers, pc[c] = "wait", Asking(c),
         NEW r \in Response, Fits(c, r), Receive(c, r)
  PROVE  Returns(c) \/ AsksOn(c) \/ Panics(c)
<1>1. stage[c] \in {"variations", "missing", "items"}
  BY DEF TypeOK, Stages
<1>2. CASE stage[c] = "variations"
  <2>1. GotVariations(c, r)
    BY <1>2 DEF Receive
  <2> QED BY <1>2, <2>1, GotVariationsOutcome
<1>3. CASE stage[c] = "missing"
  <2>1. GotMissing(c, r)
    BY <1>3 DEF Receive
  <2> QED BY <1>3, <2>1, GotMissingOutcome
<1>4. CASE stage[c] = "items"
  <2>1. GotItems(c, r)
    BY <1>4 DEF Receive
  <2> QED BY <1>4, <2>1, GotItemsOutcome
<1> QED BY <1>1, <1>2, <1>3, <1>4

(* It no longer waits, and nobody else is concerned.                       *)
LEMMA ReceiveEffect ==
  ASSUME TypeOK, NEW c \in Callers, Returns(c) \/ AsksOn(c) \/ Panics(c)
  PROVE  /\ task' = task
         /\ pc' \in [Callers -> {"idle", "send", "wait", "panic"}]
         /\ stage' \in [Callers -> Stages]
         /\ variations' \in [Callers -> Seq(Asins)]
         /\ answer' \in [Callers -> Answers]
         /\ crash' \in BOOLEAN
         /\ pc'[c] # "wait"
         /\ \A d \in Callers \ {c} : task'[d] = task[d] /\ stage'[d] = stage[d]
         /\ \A d \in Callers \ {c} : pc'[d] = pc[d] /\ variations'[d] = variations[d]
         /\ Asking(c)'
<1>1. CASE Returns(c)
  BY <1>1 DEF Returns, Return, TypeOK, Asking
<1>2. CASE AsksOn(c)
  <2>1. PICK next \in {"missing", "items"}, found \in Seq(Asins) :
          /\ CallGetItems(c, next, found)
          /\ next = "missing" => found # << >> /\ task[c].realtime
    BY <1>2 DEF AsksOn
  <2>2. stage'[c] = next /\ variations'[c] = found /\ task' = task /\ pc'[c] = "send"
    BY <2>1 DEF CallGetItems, TypeOK
  <2>3. Asking(c)'
    BY <2>1, <2>2 DEF Asking
  <2> QED BY <2>1, <2>2, <2>3 DEF CallGetItems, TypeOK, Stages
<1>3. CASE Panics(c)
  BY <1>3 DEF Panics, TypeOK, Asking
<1> QED BY <1>1, <1>2, <1>3

-----------------------------------------------------------------------------
(* The sets of requests that a step leaves alone.                          *)
LEMMA SameMembers ==
  /\ UNCHANGED reqQueue => Members(reqQueue)' = Members(reqQueue)
  /\ UNCHANGED localeBatch => InBatches' = InBatches
  /\ UNCHANGED single => Members(single)' = Members(single)
  /\ UNCHANGED batchQueue => InQueued' = InQueued
  /\ UNCHANGED batch => Members(batch)' = Members(batch)
  BY DEF Members, InBatches, InQueued

LEMMA SameTwice ==
  /\ UNCHANGED << reqQueue, single, batch, localeBatch, batchQueue >> /\ NoneTwice
       => NoneTwice'
  BY DEF NoneTwice, Once, Members

(* The batches that are formed, as an element of their union.              *)
LEMMA InBatchesDef ==
  \A x : x \in InBatches <=> \E l \in Locales : x \in Members(localeBatch[l])
  BY DEF InBatches

LEMMA InQueuedDef ==
  \A x : x \in InQueued <=> \E i \in DOMAIN batchQueue : x \in Members(batchQueue[i])
  BY DEF InQueued

LEMMA InitIInv == Init => IInv
<1> SUFFICES ASSUME Init PROVE IInv
  OBVIOUS
<1>1. /\ << >> \in Seq(Callers) /\ << >> \in Seq(Seq(Callers)) /\ << >> \in Seq(Asins)
      /\ << >> \in Seq(Response) /\ Len(<< >>) = 0 /\ DOMAIN << >> = {}
  BY EmptySeq, LenProperties
<1>2. TypeOK
  <2>1. answer \in [Callers -> Answers]
    BY AnswerType DEF Init
  <2>2. 0 \in 0 .. MaxRetry
    BY BoundsAssumption
  <2>3. responses \in Seq([products : Seq(Asins), err : BOOLEAN])
    BY <1>1 DEF Init, Response
  <2> QED BY <1>1, <2>1, <2>2, <2>3 DEF Init, TypeOK, Stages
<1>3. /\ Members(reqQueue) = {} /\ Members(single) = {} /\ Members(batch) = {}
      /\ \A l \in Locales : Members(localeBatch[l]) = {}
      /\ Once(reqQueue) /\ Once(single) /\ Once(batch)
      /\ \A l \in Locales : Once(localeBatch[l])
  BY NoMembers DEF Init
<1>4. InBatches = {} /\ InQueued = {} /\ Waiting = {}
  BY <1>1, <1>3, InBatchesDef, InQueuedDef DEF Init, Waiting
<1>5. Placed
  BY <1>3, <1>4 DEF Placed, Apart
<1>6. NoneTwice
  BY <1>1, <1>3 DEF NoneTwice, Init
<1>7. Formed
  <2>1. \A l \in Locales : OfLocale(l, localeBatch[l])
    BY <1>3 DEF OfLocale
  <2>2. \A l \in Locales : Len(localeBatch[l]) = 0
    BY <1>1 DEF Init
  <2>3. Len(single) = 0 /\ 0 <= MaxItems /\ 0 < MaxItems
    BY <1>1, BoundsAssumption DEF Init
  <2> QED BY <1>3, <2>1, <2>2, <2>3 DEF Formed, Init
<1>8. BatchesAreCallable /\ Responds
  BY <1>1 DEF BatchesAreCallable, Responds, Init
<1>9. \A c \in Callers : Asking(c)
  BY DEF Asking, Init
<1> QED BY <1>2, <1>5, <1>6, <1>7, <1>8, <1>9 DEF IInv

(* A caller that is idle or sends waits nowhere.                           *)
LEMMA NotWaiting ==
  ASSUME IInv, NEW c \in Callers, pc[c] # "wait"
  PROVE  /\ c \notin Members(reqQueue) /\ c \notin InBatches /\ c \notin Members(single)
         /\ c \notin InQueued /\ c \notin Members(batch)
         /\ \A l \in Locales : Members(localeBatch[l]) \subseteq Callers \ {c}
         /\ \A i \in DOMAIN batchQueue : Members(batchQueue[i]) \subseteq Callers \ {c}
         /\ Members(single) \subseteq Callers \ {c}
         /\ Members(batch) \subseteq Callers \ {c}
<1>1. c \notin Waiting
  BY DEF Waiting
<1>2. Placed
  BY DEF IInv
<1> QED BY <1>1, <1>2, MembersWait DEF Placed

(* The batch in hand and its responses, while its callers keep still.      *)
LEMMA BatchStays ==
  ASSUME IInv, NEW D, Members(batch) \subseteq D,
         \A d \in D : task'[d] = task[d] /\ stage'[d] = stage[d],
         UNCHANGED << batch, responses >>
  PROVE  /\ (batch # << >> => WellFormed(batch))'
         /\ (responses # << >> => Len(responses) = Len(batch))'
         /\ Responds'
<1>1. /\ \A b : Members(b) \subseteq D /\ WellFormed(b) => WellFormed(b)'
      /\ \A c \in D : \A r : Fits(c, r) => Fits(c, r)'
  BY Frame
<1>2. ASSUME NEW b, b = batch, b # << >> PROVE WellFormed(b)'
  BY <1>1, <1>2 DEF IInv, BatchesAreCallable
<1>3. \A i \in DOMAIN batch : batch[i] \in D
  BY DEF Members
<1>4. ASSUME responses # << >>, NEW i \in DOMAIN batch,
             NEW c, c = batch[i], NEW r, r = responses[i]
      PROVE  Fits(c, r)'
  BY <1>1, <1>3, <1>4 DEF IInv, Responds
<1>5. Responds'
  BY <1>4 DEF IInv, Responds
<1> QED BY <1>2, <1>5 DEF IInv, Responds

LEMMA RequestStep ==
  ASSUME IInv, NEW c \in Callers, NEW t \in Tasks, Request(c, t)
  PROVE  IInv'
<1>1. TypeOK'
  <2>1. /\ task' \in [Callers -> Tasks]
        /\ pc' \in [Callers -> {"idle", "send", "wait", "panic"}]
        /\ stage' \in [Callers -> Stages]
    BY DEF Request, IInv, TypeOK, Stages
  <2>2. variations' \in [Callers -> Seq(Asins)] /\ answer' \in [Callers -> Answers]
    BY AnswerType DEF Request, IInv, TypeOK
  <2> QED BY <2>1, <2>2 DEF Request, IInv, TypeOK, batcherVars, senderVars
<1>2. /\ pc[c] = "idle" /\ pc'[c] = "send" /\ task'[c] = t
      /\ stage'[c] = (IF t.realtime THEN "variations" ELSE "items")
      /\ \A d \in Callers \ {c} : task'[d] = task[d] /\ stage'[d] = stage[d]
      /\ \A d \in Callers \ {c} : pc'[d] = pc[d] /\ variations'[d] = variations[d]
  BY DEF Request, IInv, TypeOK
<1>3. Asking(c)'
  BY <1>2 DEF Asking
<1>4. \A d \in Callers : Asking(d)'
  BY <1>2, <1>3, OthersStay
<1>5. /\ \A l \in Locales : Members(localeBatch[l]) \subseteq Callers \ {c}
      /\ \A i \in DOMAIN batchQueue : Members(batchQueue[i]) \subseteq Callers \ {c}
      /\ Members(single) \subseteq Callers \ {c}
      /\ Members(batch) \subseteq Callers \ {c}
  BY <1>2, NotWaiting
<1>6. UNCHANGED << reqQueue, localeBatch, single, batchQueue, batch, responses >>
      /\ UNCHANGED << batcherVars, batchQueue >>
  BY DEF Request, batcherVars, senderVars
<1>7. Formed' /\ (\A i \in DOMAIN batchQueue : WellFormed(batchQueue[i]))'
  BY <1>2, <1>5, <1>6, BatchesStay
<1>8. (batch # << >> => WellFormed(batch))'
      /\ (responses # << >> => Len(responses) = Len(batch))' /\ Responds'
  BY <1>2, <1>5, <1>6, BatchStays
<1>9. NoneTwice'
  BY <1>6, SameTwice DEF IInv
<1>10. Placed'
  <2>1. Waiting' = Waiting
    BY <1>2 DEF Waiting
  <2> QED BY <1>6, <2>1, SameMembers DEF IInv, Placed
<1> QED BY <1>1, <1>4, <1>7, <1>8, <1>9, <1>10 DEF IInv, BatchesAreCallable

LEMMA RequestActorStep ==
  ASSUME IInv, NEW c \in Callers, RequestActor(c)
  PROVE  IInv'
<1>1. UNCHANGED << localeBatch, single, batchQueue, batch, responses >>
      /\ UNCHANGED << batcherVars, batchQueue >>
      /\ UNCHANGED << task, stage, variations >>
  BY DEF RequestActor, batcherVars, senderVars
<1>2. reqQueue \in Seq(Callers) /\ reqQueue' = Append(reqQueue, c) /\ pc[c] = "send"
  BY DEF RequestActor, IInv, TypeOK
<1>3. c \notin Members(reqQueue) /\ c \notin InBatches /\ c \notin Members(single)
      /\ c \notin InQueued /\ c \notin Members(batch)
  BY <1>2, NotWaiting
<1>4. /\ reqQueue' \in Seq(Callers)
      /\ Members(reqQueue)' = Members(reqQueue) \cup {c}
      /\ Once(reqQueue)'
  BY <1>2, <1>3, AppendMembers DEF IInv, NoneTwice, Members, Once
<1>5. TypeOK'
  BY <1>4 DEF RequestActor, IInv, TypeOK, batcherVars, senderVars
<1>6. Waiting' = Waiting \cup {c}
  BY DEF Waiting, RequestActor, IInv, TypeOK
<1>7. Placed'
  <2>1. InBatches' = InBatches /\ Members(single)' = Members(single)
        /\ InQueued' = InQueued /\ Members(batch)' = Members(batch)
    BY <1>1, SameMembers
  <2> QED BY <1>3, <1>4, <1>6, <2>1 DEF IInv, Placed, Apart
<1>8. NoneTwice'
  BY <1>1, <1>4 DEF IInv, NoneTwice, Once, Members
<1>9. Members(batch) \subseteq Callers /\ Members(single) \subseteq Callers
      /\ (\A l \in Locales : Members(localeBatch[l]) \subseteq Callers)
      /\ (\A i \in DOMAIN batchQueue : Members(batchQueue[i]) \subseteq Callers)
  BY MembersWait DEF IInv
<1>10. Formed' /\ (\A i \in DOMAIN batchQueue : WellFormed(batchQueue[i]))'
  BY <1>1, <1>9, BatchesStay
<1>11. (batch # << >> => WellFormed(batch))'
       /\ (responses # << >> => Len(responses) = Len(batch))' /\ Responds'
  BY <1>1, <1>9, BatchStays
<1>12. \A d \in Callers : Asking(d)'
  BY DEF IInv, TypeOK, Asking, RequestActor
<1> QED BY <1>5, <1>7, <1>8, <1>10, <1>11, <1>12 DEF IInv, BatchesAreCallable

(* What taking the first request off the queue leaves.                     *)
LEMMA TakeFirstEffect ==
  ASSUME IInv, TakeFirst
  PROVE  /\ First \in Callers /\ pc[First] = "wait" /\ First \in Members(reqQueue)
         /\ First \notin InBatches /\ First \notin InQueued
         /\ First \notin Members(single) /\ First \notin Members(batch)
         /\ reqQueue' \in Seq(Callers)
         /\ Members(reqQueue)' = Members(reqQueue) \ {First}
         /\ Once(reqQueue)'
         /\ toFlush = {} /\ single = << >> /\ ~crash
<1>1. /\ reqQueue \in Seq(Callers) /\ reqQueue # << >> /\ reqQueue' = Tail(reqQueue)
      /\ Once(reqQueue)
  BY DEF TakeFirst, IInv, TypeOK, NoneTwice
<1>2. /\ Head(reqQueue) \in Callers /\ Head(reqQueue) \in Members(reqQueue)
      /\ Tail(reqQueue) \in Seq(Callers)
      /\ Once(Tail(reqQueue))
      /\ Members(Tail(reqQueue)) = Members(reqQueue) \ {Head(reqQueue)}
  BY <1>1, TailMembers
<1>3. Members(reqQueue)' = Members(Tail(reqQueue)) /\ Once(reqQueue)'
  BY <1>1, <1>2 DEF Members, Once
<1>4. First \in Waiting
  BY <1>2, MembersWait DEF IInv, First
<1> QED BY <1>1, <1>2, <1>3, <1>4 DEF IInv, Placed, Apart, First, Waiting, TakeFirst, Batching

LEMMA BatchVariationsStep == ASSUME IInv, BatchVariations PROVE IInv'
<1>1. /\ First \in Callers /\ First \in Members(reqQueue)
      /\ First \notin InBatches /\ First \notin InQueued /\ First \notin Members(batch)
      /\ reqQueue' \in Seq(Callers)
      /\ Members(reqQueue)' = Members(reqQueue) \ {First}
      /\ Once(reqQueue)' /\ single = << >>
  BY TakeFirstEffect DEF BatchVariations
<1>2. /\ UNCHANGED << localeBatch, toFlush, ticked, batchQueue, batch, retry, responses >>
      /\ UNCHANGED callerVars /\ single' = << First >>
      /\ ~IsBadUrl(First) /\ stage[First] = "variations"
  BY DEF BatchVariations, senderVars
<1>3. /\ << First >> \in Seq(Callers) /\ Len(<< First >>) = 1
      /\ Members(<< First >>) = {First} /\ Once(<< First >>)
  BY <1>1, OneMember
<1>4. single' \in Seq(Callers) /\ Len(single') = 1 /\ Members(single)' = {First}
      /\ Once(single)'
  BY <1>2, <1>3 DEF Members, Once
<1>5. TypeOK'
  BY <1>1, <1>2, <1>4 DEF IInv, TypeOK, callerVars
<1>6. Members(single) = {}
  BY <1>1, NoMembers
<1>7. Placed'
  <2>1. InBatches' = InBatches /\ InQueued' = InQueued /\ Members(batch)' = Members(batch)
    BY <1>2, SameMembers
  <2>2. Waiting' = Waiting
    BY <1>2, CallersStay
  <2> QED BY <1>1, <1>4, <1>6, <2>1, <2>2 DEF IInv, Placed, Apart
<1>8. NoneTwice'
  BY <1>1, <1>2, <1>4 DEF IInv, NoneTwice, Once, Members
<1>9. Formed'
  <2>1. Formed
    BY DEF IInv
  <2>2. (\A l \in Locales : OfLocale(l, localeBatch[l]))'
    BY <1>2, <2>1 DEF Formed, OfLocale, callerVars, Members
  <2>3. (\A c \in Members(single) : Lone(c))'
    <3>1. \A c : Lone(c) => Lone(c)'
      BY <1>2, CallersStay
    <3>2. PICK c : c = First
      OBVIOUS
    <3>3. Lone(c)'
      BY <1>2, <3>1, <3>2 DEF Lone
    <3> QED BY <1>4, <3>2, <3>3
  <2> QED BY <1>2, <1>4, <2>1, <2>2, <2>3 DEF Formed
<1>10. (\A i \in DOMAIN batchQueue : WellFormed(batchQueue[i]))'
  BY <1>2 DEF IInv, BatchesAreCallable, WellFormed, IsBadUrl, Lone, callerVars
<1>11. Members(batch) \subseteq Callers
  BY MembersWait DEF IInv
<1>12. (batch # << >> => WellFormed(batch))'
       /\ (responses # << >> => Len(responses) = Len(batch))' /\ Responds'
  BY <1>2, <1>11, BatchStays DEF callerVars
<1>13. \A c \in Callers : Asking(c)'
  BY <1>2, CallersStay DEF IInv
<1> QED BY <1>5, <1>7, <1>8, <1>9, <1>10, <1>12, <1>13 DEF IInv, BatchesAreCallable

(* A step that answers nobody, and what it leaves alone.                   *)
LEMMA BatchAlone ==
  ASSUME IInv, UNCHANGED callerVars
  PROVE  /\ UNCHANGED << batch, responses >> =>
              /\ (batch # << >> => WellFormed(batch))'
              /\ (responses # << >> => Len(responses) = Len(batch))'
              /\ Responds'
         /\ UNCHANGED batchQueue => (\A i \in DOMAIN batchQueue : WellFormed(batchQueue[i]))'
         /\ \A c \in Callers : Asking(c)'
         /\ Waiting' = Waiting
<1>1. Members(batch) \subseteq Callers
  BY MembersWait DEF IInv
<1>2. ASSUME UNCHANGED << batch, responses >>
      PROVE  /\ (batch # << >> => WellFormed(batch))'
             /\ (responses # << >> => Len(responses) = Len(batch))'
             /\ Responds'
  BY <1>1, <1>2, BatchStays DEF callerVars
<1>3. ASSUME UNCHANGED batchQueue
      PROVE  (\A i \in DOMAIN batchQueue : WellFormed(batchQueue[i]))'
  BY <1>3 DEF IInv, BatchesAreCallable, WellFormed, IsBadUrl, Lone, callerVars
<1> QED BY <1>2, <1>3, CallersStay DEF IInv

LEMMA BatchItemsStep == ASSUME IInv, BatchItems PROVE IInv'
<1> DEFINE l == task[First].locale
<1>1. /\ First \in Callers /\ First \in Members(reqQueue)
      /\ First \notin InBatches /\ First \notin InQueued
      /\ First \notin Members(single) /\ First \notin Members(batch)
      /\ reqQueue' \in Seq(Callers)
      /\ Members(reqQueue)' = Members(reqQueue) \ {First}
      /\ Once(reqQueue)' /\ toFlush = {}
  BY TakeFirstEffect DEF BatchItems
<1>2. /\ UNCHANGED << single, ticked, batchQueue, batch, retry, responses >>
      /\ UNCHANGED callerVars
      /\ ~IsBadUrl(First) /\ stage[First] # "variations"
      /\ localeBatch' = [localeBatch EXCEPT ![l] = Append(@, First)]
      /\ toFlush' = IF Len(localeBatch'[l]) >= MaxItems THEN {l} ELSE {}
  BY DEF BatchItems, senderVars
<1>3. l \in Locales
  BY <1>1, <1>2, TaskType DEF IInv
<1> HIDE DEF l
<1>4. localeBatch \in [Locales -> Seq(Callers)] /\ localeBatch[l] \in Seq(Callers)
      /\ Once(localeBatch[l]) /\ First \notin Members(localeBatch[l])
  BY <1>1, <1>3, InBatchesDef DEF IInv, TypeOK, NoneTwice
<1>5. /\ localeBatch' \in [Locales -> Seq(Callers)]
      /\ localeBatch'[l] = Append(localeBatch[l], First)
      /\ \A k \in Locales \ {l} : localeBatch'[k] = localeBatch[k]
      /\ Append(localeBatch[l], First) \in Seq(Callers)
      /\ Len(Append(localeBatch[l], First)) = Len(localeBatch[l]) + 1
      /\ Members(Append(localeBatch[l], First)) = Members(localeBatch[l]) \cup {First}
      /\ Once(Append(localeBatch[l], First))
  BY <1>1, <1>2, <1>3, <1>4, AppendMembers
<1>6. TypeOK'
  BY <1>1, <1>2, <1>3, <1>5 DEF IInv, TypeOK, callerVars
<1>7. InBatches' = InBatches \cup {First}
  <2>1. \A k \in Locales : Members(localeBatch'[k]) =
          IF k = l THEN Members(localeBatch[k]) \cup {First} ELSE Members(localeBatch[k])
    BY <1>5
  <2> QED BY <1>3, <2>1 DEF InBatches, Members
<1>8. Placed'
  <2>1. Members(single)' = Members(single) /\ InQueued' = InQueued
        /\ Members(batch)' = Members(batch)
    BY <1>2, SameMembers
  <2>2. Waiting' = Waiting
    BY <1>2, CallersStay
  <2> QED BY <1>1, <1>7, <2>1, <2>2 DEF IInv, Placed, Apart
<1>9. NoneTwice'
  <2>1. \A k \in Locales : Once(localeBatch'[k])
    BY <1>5 DEF IInv, NoneTwice
  <2>2. (\A k \in Locales : Once(localeBatch[k]))'
    BY <2>1 DEF Once
  <2>3. /\ Once(single)' /\ Once(batch)'
        /\ (\A i \in DOMAIN batchQueue : Once(batchQueue[i]))'
        /\ (\A i, j \in DOMAIN batchQueue :
              i # j => Members(batchQueue[i]) \cap Members(batchQueue[j]) = {})'
    BY <1>2 DEF IInv, NoneTwice, Once, Members
  <2> QED BY <1>1, <2>2, <2>3 DEF NoneTwice
<1>10. Formed'
  <2>1. Formed
    BY DEF IInv
  <2>2. ASSUME NEW k \in Locales PROVE OfLocale(k, localeBatch'[k])
    <3>1. task[First].locale = l
      BY DEF l
    <3> QED BY <1>2, <1>5, <2>1, <3>1 DEF Formed, OfLocale
  <2>3. (\A k \in Locales : OfLocale(k, localeBatch[k]))'
    BY <1>2, <2>2 DEF OfLocale, callerVars, Members
  <2>4. Len(localeBatch[l]) \in Nat
    BY <1>4, LenProperties
  <2>5. \A k \in Locales : /\ Len(localeBatch'[k]) <= MaxItems
                           /\ k \in toFlush' => localeBatch'[k] # << >>
                           /\ k \notin toFlush' => Len(localeBatch'[k]) < MaxItems
    <3>1. Len(localeBatch[l]) < MaxItems /\ localeBatch'[l] # << >>
      BY <1>1, <1>3, <1>4, <1>5, <2>1, <2>4, EmptySeq DEF Formed
    <3>2. \A k \in Locales : Len(localeBatch[k]) < MaxItems
      BY <1>1, <2>1 DEF Formed
    <3>3. \A k \in Locales : Len(localeBatch[k]) \in Nat
      BY <1>4, LenProperties
    <3>4. toFlush' = IF Len(localeBatch[l]) + 1 >= MaxItems THEN {l} ELSE {}
      BY <1>2, <1>5
    <3>5. ASSUME NEW k \in Locales \ {l} PROVE Len(localeBatch'[k]) < MaxItems
      BY <1>5, <3>2
    <3> QED BY <1>5, <2>4, <3>1, <3>3, <3>4, <3>5, BoundsAssumption
  <2>6. Len(single)' <= 1 /\ (\A c \in Members(single) : Lone(c))'
    BY <1>2, <2>1 DEF Formed, IsBadUrl, Lone, callerVars, Members
  <2> QED BY <2>3, <2>5, <2>6 DEF Formed
<1> QED BY <1>2, <1>6, <1>8, <1>9, <1>10, BatchAlone DEF IInv, BatchesAreCallable

(* A tick, and an attempt of the sender that is put off, concern no        *)
(* request.                                                                *)
LEMMA TickStep == ASSUME IInv, Tick PROVE IInv'
<1>1. /\ UNCHANGED << reqQueue, localeBatch, single, toFlush, batchQueue, batch >>
      /\ UNCHANGED << retry, responses >> /\ UNCHANGED callerVars
      /\ ticked' = TRUE
  BY DEF Tick, senderVars
<1>2. TypeOK'
  BY <1>1 DEF IInv, TypeOK, callerVars
<1>3. Placed' /\ NoneTwice'
  BY <1>1, SameMembers, SameTwice, CallersStay DEF IInv, Placed
<1>4. Formed'
  BY <1>1 DEF IInv, Formed, OfLocale, IsBadUrl, Lone, callerVars, Members
<1> QED BY <1>1, <1>2, <1>3, <1>4, BatchAlone DEF IInv, BatchesAreCallable

LEMMA RateLimitedStep == ASSUME IInv, RateLimited PROVE IInv'
<1>1. /\ UNCHANGED << reqQueue, localeBatch, single, toFlush, ticked, batchQueue >>
      /\ UNCHANGED << batch, responses >> /\ UNCHANGED callerVars
      /\ retry < MaxRetry /\ retry' = retry + 1
  BY DEF RateLimited, batcherVars
<1>2. TypeOK'
  <2>1. retry' \in 0 .. MaxRetry
    BY <1>1, BoundsAssumption DEF IInv, TypeOK
  <2> QED BY <1>1, <2>1 DEF IInv, TypeOK, callerVars
<1>3. Placed' /\ NoneTwice'
  BY <1>1, SameMembers, SameTwice, CallersStay DEF IInv, Placed
<1>4. Formed'
  BY <1>1 DEF IInv, Formed, OfLocale, IsBadUrl, Lone, callerVars, Members
<1> QED BY <1>1, <1>2, <1>3, <1>4, BatchAlone DEF IInv, BatchesAreCallable

LEMMA TakeTickStep == ASSUME IInv, TakeTick PROVE IInv'
<1>1. /\ UNCHANGED << reqQueue, localeBatch, single, batchQueue, batch, retry, responses >>
      /\ UNCHANGED callerVars
      /\ ticked' = FALSE /\ toFlush' = {l \in Locales : localeBatch[l] # << >>}
  BY DEF TakeTick, senderVars
<1>2. TypeOK'
  BY <1>1 DEF IInv, TypeOK, callerVars
<1>3. Placed' /\ NoneTwice'
  BY <1>1, SameMembers, SameTwice, CallersStay DEF IInv, Placed
<1>4. Formed'
  <2>1. Formed
    BY DEF IInv
  <2>2. (\A l \in Locales : OfLocale(l, localeBatch[l]))'
    BY <1>1, <2>1 DEF Formed, OfLocale, callerVars, Members
  <2>3. \A l \in Locales : localeBatch[l] = << >> => Len(localeBatch[l]) < MaxItems
    BY EmptySeq, BoundsAssumption
  <2>4. Len(single)' <= 1 /\ (\A c \in Members(single) : Lone(c))'
    BY <1>1, <2>1 DEF Formed, IsBadUrl, Lone, callerVars, Members
  <2> QED BY <1>1, <2>1, <2>2, <2>3, <2>4 DEF Formed
<1> QED BY <1>1, <1>2, <1>3, <1>4, BatchAlone DEF IInv, BatchesAreCallable

(* A batch goes to spawn's channel.                                        *)
LEMMA QueueGrows ==
  ASSUME IInv, NEW b \in Seq(Callers), Once(b), Members(b) \cap InQueued = {},
         batchQueue' = Append(batchQueue, b), UNCHANGED callerVars, WellFormed(b)
  PROVE  /\ batchQueue' \in Seq(Seq(Callers))
         /\ InQueued' = InQueued \cup Members(b)
         /\ (\A i \in DOMAIN batchQueue : Once(batchQueue[i]))'
         /\ (\A i, j \in DOMAIN batchQueue :
               i # j => Members(batchQueue[i]) \cap Members(batchQueue[j]) = {})'
         /\ (\A i \in DOMAIN batchQueue : WellFormed(batchQueue[i]))'
<1> DEFINE n == Len(batchQueue)
<1>1. batchQueue \in Seq(Seq(Callers)) /\ n \in Nat /\ DOMAIN batchQueue = 1 .. n
  BY LenProperties DEF IInv, TypeOK
<1>2. /\ batchQueue' \in Seq(Seq(Callers)) /\ Len(batchQueue') = n + 1
      /\ \A i \in 1 .. n : batchQueue'[i] = batchQueue[i]
      /\ batchQueue'[n + 1] = b
  BY <1>1, AppendProperties
<1>3. DOMAIN batchQueue' = 1 .. n + 1
  BY <1>2, LenProperties
<1> HIDE DEF n
<1>4. \A i \in DOMAIN batchQueue' : i \in DOMAIN batchQueue \/ i = n + 1
  BY <1>1, <1>3
<1>5. InQueued' = InQueued \cup Members(b)
  <2>1. \A x : x \in InQueued' <=> \E i \in DOMAIN batchQueue' : x \in Members(batchQueue'[i])
    BY DEF InQueued, Members
  <2>2. n + 1 \in DOMAIN batchQueue'
    BY <1>1, <1>3
  <2>3. \A i \in DOMAIN batchQueue : i \in DOMAIN batchQueue' /\ i # n + 1
    BY <1>1, <1>3
  <2> QED BY <1>1, <1>2, <1>4, <2>1, <2>2, <2>3, InQueuedDef
<1>6. \A i \in DOMAIN batchQueue' : Once(batchQueue'[i])
  BY <1>1, <1>2, <1>4 DEF IInv, NoneTwice
<1>7. \A i, j \in DOMAIN batchQueue' :
        i # j => Members(batchQueue'[i]) \cap Members(batchQueue'[j]) = {}
  <2>1. \A i \in DOMAIN batchQueue : Members(batchQueue[i]) \subseteq InQueued
    BY DEF InQueued
  <2> QED BY <1>1, <1>2, <1>4, <2>1 DEF IInv, NoneTwice
<1>8. \A i \in DOMAIN batchQueue' : WellFormed(batchQueue'[i])
  BY <1>1, <1>2, <1>4 DEF IInv, BatchesAreCallable
<1>9. (\A i \in DOMAIN batchQueue : WellFormed(batchQueue[i]))'
  BY <1>8 DEF WellFormed, IsBadUrl, Lone, callerVars
<1>10. /\ (\A i \in DOMAIN batchQueue : Once(batchQueue[i]))'
       /\ (\A i, j \in DOMAIN batchQueue :
             i # j => Members(batchQueue[i]) \cap Members(batchQueue[j]) = {})'
  BY <1>6, <1>7 DEF Once, Members
<1> QED BY <1>2, <1>5, <1>9, <1>10

LEMMA FlushStep == ASSUME IInv, NEW l \in Locales, Flush(l) PROVE IInv'
<1> DEFINE b == localeBatch[l]
<1>1. /\ UNCHANGED << reqQueue, single, ticked, batch, retry, responses >>
      /\ UNCHANGED callerVars
      /\ l \in toFlush /\ batchQueue' = Append(batchQueue, b)
      /\ localeBatch' = [localeBatch EXCEPT ![l] = << >>]
      /\ toFlush' = toFlush \ {l}
  BY DEF Flush, senderVars
<1>2. /\ localeBatch \in [Locales -> Seq(Callers)] /\ b \in Seq(Callers)
      /\ Once(b) /\ b # << >> /\ OfLocale(l, b) /\ Len(b) <= MaxItems
  BY <1>1 DEF IInv, TypeOK, NoneTwice, Formed
<1>3. Members(b) \subseteq InBatches
  BY DEF InBatches
<1>4. Members(b) \cap InQueued = {}
  BY <1>3 DEF IInv, Placed, Apart
<1>5. WellFormed(b)
  <2>1. Len(b) \in 1 .. MaxItems
    BY <1>2, EmptySeq, BoundsAssumption
  <2>2. \A i \in DOMAIN b : task[b[i]].locale = l /\ stage[b[i]] # "variations"
    BY <1>2 DEF OfLocale, Members
  <2> QED BY <2>1, <2>2, TasksAssumption DEF WellFormed, IsBadUrl
<1> HIDE DEF b
<1>6. /\ batchQueue' \in Seq(Seq(Callers))
      /\ InQueued' = InQueued \cup Members(b)
      /\ (\A i \in DOMAIN batchQueue : Once(batchQueue[i]))'
      /\ (\A i, j \in DOMAIN batchQueue :
            i # j => Members(batchQueue[i]) \cap Members(batchQueue[j]) = {})'
      /\ (\A i \in DOMAIN batchQueue : WellFormed(batchQueue[i]))'
  <2>1. PICK c : c = b
    OBVIOUS
  <2>2. /\ c \in Seq(Callers) /\ Once(c) /\ Members(c) \cap InQueued = {}
        /\ batchQueue' = Append(batchQueue, c) /\ WellFormed(c)
    BY <1>1, <1>2, <1>4, <1>5, <2>1
  <2>3. InQueued' = InQueued \cup Members(c)
    BY <1>1, <2>2, QueueGrows
  <2> QED BY <1>1, <2>1, <2>2, <2>3, QueueGrows
<1>7. /\ localeBatch' \in [Locales -> Seq(Callers)] /\ localeBatch'[l] = << >>
      /\ \A k \in Locales \ {l} : localeBatch'[k] = localeBatch[k]
  <2>1. << >> \in Seq(Callers)
    BY EmptySeq
  <2> QED BY <1>1, <1>2, <2>1
<1>8. TypeOK'
  BY <1>1, <1>6, <1>7 DEF IInv, TypeOK, callerVars
<1>9. InBatches' = InBatches \ Members(b)
  <2>1. \A k \in Locales : \A x \in Members(localeBatch[k]) : task[x].locale = k
    BY DEF IInv, Formed, OfLocale
  <2>2. \A x \in Members(b) : task[x].locale = l
    BY <1>2 DEF OfLocale
  <2>3. \A x : x \in InBatches' <=> \E k \in Locales : x \in Members(localeBatch'[k])
    BY DEF InBatches, Members
  <2>4. Members(localeBatch'[l]) = {} /\ Members(localeBatch[l]) = Members(b)
    BY <1>7, NoMembers DEF b
  <2> QED BY <1>7, <2>1, <2>2, <2>3, <2>4, InBatchesDef
<1>10. Placed'
  <2>1. Members(reqQueue)' = Members(reqQueue) /\ Members(single)' = Members(single)
        /\ Members(batch)' = Members(batch)
    BY <1>1, SameMembers
  <2>2. Waiting' = Waiting
    BY <1>1, CallersStay
  <2> QED BY <1>3, <1>6, <1>9, <2>1, <2>2 DEF IInv, Placed, Apart
<1>11. NoneTwice'
  <2>1. \A k \in Locales : Once(localeBatch'[k])
    BY <1>7, NoMembers DEF IInv, NoneTwice
  <2>2. (\A k \in Locales : Once(localeBatch[k]))'
    BY <2>1 DEF Once
  <2>3. Once(reqQueue)' /\ Once(single)' /\ Once(batch)'
    BY <1>1 DEF IInv, NoneTwice, Once
  <2> QED BY <1>6, <2>2, <2>3 DEF NoneTwice
<1>12. Formed'
  <2>1. Formed
    BY DEF IInv
  <2>2. \A k \in Locales : OfLocale(k, localeBatch'[k])
    BY <1>7, <2>1, NoMembers DEF Formed, OfLocale
  <2>3. (\A k \in Locales : OfLocale(k, localeBatch[k]))'
    BY <1>1, <2>2 DEF OfLocale, callerVars, Members
  <2>4. Len(localeBatch'[l]) = 0
    BY <1>7, EmptySeq
  <2>5. Len(single)' <= 1 /\ (\A c \in Members(single) : Lone(c))'
    BY <1>1, <2>1 DEF Formed, IsBadUrl, Lone, callerVars, Members
  <2> QED BY <1>1, <1>7, <2>1, <2>3, <2>4, <2>5, BoundsAssumption DEF Formed
<1> QED BY <1>1, <1>6, <1>8, <1>10, <1>11, <1>12, BatchAlone DEF IInv, BatchesAreCallable

LEMMA FlushSingleStep == ASSUME IInv, FlushSingle PROVE IInv'
<1>1. /\ UNCHANGED << reqQueue, localeBatch, toFlush, ticked, batch, retry, responses >>
      /\ UNCHANGED callerVars
      /\ single # << >> /\ single' = << >> /\ batchQueue' = Append(batchQueue, single)
  BY DEF FlushSingle, senderVars
<1>2. single \in Seq(Callers) /\ Once(single) /\ Members(single) \cap InQueued = {}
  BY DEF IInv, TypeOK, NoneTwice, Placed, Apart
<1>3. WellFormed(single)
  <2>1. Len(single) = 1 /\ DOMAIN single = {1}
    <3>1. Len(single) \in Nat \ {0} /\ DOMAIN single = 1 .. Len(single) /\ Len(single) <= 1
      BY <1>1, <1>2, EmptySeq, LenProperties DEF IInv, Formed
    <3> QED BY <3>1
  <2>2. \A i \in DOMAIN single : ~IsBadUrl(single[i])
    BY DEF IInv, Formed, Lone, Members
  <2> QED BY <2>1, <2>2, BoundsAssumption DEF WellFormed
<1>4. /\ batchQueue' \in Seq(Seq(Callers))
      /\ InQueued' = InQueued \cup Members(single)
      /\ (\A i \in DOMAIN batchQueue : Once(batchQueue[i]))'
      /\ (\A i, j \in DOMAIN batchQueue :
            i # j => Members(batchQueue[i]) \cap Members(batchQueue[j]) = {})'
      /\ (\A i \in DOMAIN batchQueue : WellFormed(batchQueue[i]))'
  BY <1>1, <1>2, <1>3, QueueGrows
<1>5. Members(single)' = {} /\ Once(single)' /\ single' \in Seq(Callers)
  BY <1>1, NoMembers, EmptySeq DEF Members, Once
<1>6. TypeOK'
  BY <1>1, <1>4, <1>5 DEF IInv, TypeOK, callerVars
<1>7. Placed'
  <2>1. Members(reqQueue)' = Members(reqQueue) /\ InBatches' = InBatches
        /\ Members(batch)' = Members(batch)
    BY <1>1, SameMembers
  <2>2. Waiting' = Waiting
    BY <1>1, CallersStay
  <2> QED BY <1>4, <1>5, <2>1, <2>2 DEF IInv, Placed, Apart
<1>8. NoneTwice'
  <2>1. Once(reqQueue)' /\ Once(batch)' /\ (\A l \in Locales : Once(localeBatch[l]))'
    BY <1>1 DEF IInv, NoneTwice, Once
  <2> QED BY <1>4, <1>5, <2>1 DEF NoneTwice
<1>9. Formed'
  <2>1. Formed
    BY DEF IInv
  <2>2. (\A l \in Locales : OfLocale(l, localeBatch[l]))'
    BY <1>1, <2>1 DEF Formed, OfLocale, callerVars, Members
  <2>3. Len(single)' = 0
    BY <1>1, EmptySeq
  <2> QED BY <1>1, <1>5, <2>1, <2>2, <2>3 DEF Formed
<1> QED BY <1>1, <1>4, <1>6, <1>7, <1>8, <1>9, BatchAlone DEF IInv, BatchesAreCallable


(* There are no responses without a batch they belong to.                  *)
LEMMA NoBatchNoResponses == ASSUME IInv, batch = << >> PROVE responses = << >>
<1>1. responses \in Seq(Response) /\ Len(batch) = 0
  BY EmptySeq DEF IInv, TypeOK, Response
<1>2. responses # << >> => Len(responses) = 0
  BY <1>1 DEF IInv, Responds
<1> QED BY <1>1, <1>2, EmptySeq

LEMMA TakeBatchStep == ASSUME IInv, TakeBatch PROVE IInv'
<1> DEFINE b == Head(batchQueue)
           rest == Tail(batchQueue)
<1>1. /\ UNCHANGED << reqQueue, localeBatch, single, toFlush, ticked, responses >>
      /\ UNCHANGED callerVars
      /\ batch = << >> /\ batchQueue # << >>
      /\ batch' = b /\ batchQueue' = rest /\ retry' = 0
  BY DEF TakeBatch, batcherVars
<1>2. /\ b \in Seq(Callers) /\ b = batchQueue[1] /\ rest \in Seq(Seq(Callers))
      /\ Len(batchQueue) \in Nat \ {0} /\ DOMAIN batchQueue = 1 .. Len(batchQueue)
      /\ Len(rest) = Len(batchQueue) - 1
      /\ \A i \in DOMAIN rest : i + 1 \in DOMAIN batchQueue /\ rest[i] = batchQueue[i + 1]
  BY <1>1, TailMembers DEF IInv, TypeOK
<1>3. DOMAIN rest = 1 .. Len(batchQueue) - 1 /\ 1 \in DOMAIN batchQueue
  BY <1>2, LenProperties
<1> HIDE DEF b, rest
<1>4. responses = << >>
  BY <1>1, NoBatchNoResponses
<1>5. Once(b) /\ WellFormed(b) /\ Members(b) \subseteq InQueued
  BY <1>2, <1>3 DEF IInv, NoneTwice, BatchesAreCallable, InQueued
<1>6. \A i \in DOMAIN rest : /\ Once(rest[i]) /\ WellFormed(rest[i])
                             /\ Members(rest[i]) \cap Members(b) = {}
  <2>1. NoneTwice /\ BatchesAreCallable
    BY DEF IInv
  <2>2. ASSUME NEW i \in DOMAIN rest
        PROVE  /\ Once(rest[i]) /\ WellFormed(rest[i])
               /\ Members(rest[i]) \cap Members(b) = {}
    <3>1. i + 1 \in DOMAIN batchQueue /\ i + 1 # 1 /\ rest[i] = batchQueue[i + 1]
      BY <1>2, <1>3, <2>2
    <3>2. Members(batchQueue[i + 1]) \cap Members(batchQueue[1]) = {}
      BY <1>3, <2>1, <3>1 DEF NoneTwice
    <3>3. Once(batchQueue[i + 1]) /\ WellFormed(batchQueue[i + 1])
      BY <2>1, <3>1 DEF NoneTwice, BatchesAreCallable
    <3> QED BY <1>2, <3>1, <3>2, <3>3
  <2> QED BY <2>2
<1>7. \A i, j \in DOMAIN rest : i # j => Members(rest[i]) \cap Members(rest[j]) = {}
  <2>1. ASSUME NEW i \in DOMAIN rest, NEW j \in DOMAIN rest, i # j
        PROVE  Members(rest[i]) \cap Members(rest[j]) = {}
    <3>1. i + 1 \in DOMAIN batchQueue /\ j + 1 \in DOMAIN batchQueue /\ i + 1 # j + 1
      BY <1>2, <1>3, <2>1
    <3> QED BY <1>2, <2>1, <3>1 DEF IInv, NoneTwice
  <2> QED BY <2>1
<1>8. InQueued' = InQueued \ Members(b)
  <2>1. \A x : x \in InQueued' <=> \E i \in DOMAIN rest : x \in Members(rest[i])
    BY <1>1 DEF InQueued, Members
  <2>2. ASSUME NEW x, x \in InQueued, x \notin Members(b)
        PROVE  \E i \in DOMAIN rest : x \in Members(rest[i])
    <3>1. PICK i \in DOMAIN batchQueue : x \in Members(batchQueue[i])
      BY <2>2, InQueuedDef
    <3>2. i - 1 \in DOMAIN rest /\ (i - 1) + 1 = i
      BY <1>2, <1>3, <2>2, <3>1
    <3> QED BY <1>2, <3>1, <3>2
  <2> QED BY <1>2, <1>6, <2>1, <2>2, InQueuedDef
<1>9. Members(batch)' = Members(b) /\ Once(batch)' /\ Members(batch) = {}
  BY <1>1, <1>5, NoMembers DEF Members, Once
<1>10. TypeOK'
  <2>1. 0 \in 0 .. MaxRetry
    BY BoundsAssumption
  <2> QED BY <1>1, <1>2, <2>1 DEF IInv, TypeOK, callerVars
<1>11. Placed'
  <2>1. Members(reqQueue)' = Members(reqQueue) /\ Members(single)' = Members(single)
        /\ InBatches' = InBatches
    BY <1>1, SameMembers
  <2>2. Waiting' = Waiting
    BY <1>1, CallersStay
  <2> QED BY <1>5, <1>8, <1>9, <2>1, <2>2 DEF IInv, Placed, Apart
<1>12. NoneTwice'
  <2>1. /\ Once(reqQueue)' /\ Once(single)' /\ (\A l \in Locales : Once(localeBatch[l]))'
    BY <1>1 DEF IInv, NoneTwice, Once
  <2>2. (\A i \in DOMAIN batchQueue : Once(batchQueue[i]))'
    BY <1>1, <1>6 DEF Once
  <2>3. (\A i, j \in DOMAIN batchQueue :
           i # j => Members(batchQueue[i]) \cap Members(batchQueue[j]) = {})'
    BY <1>1, <1>7 DEF Members
  <2> QED BY <1>9, <2>1, <2>2, <2>3 DEF NoneTwice
<1>13. Formed'
  BY <1>1 DEF IInv, Formed, OfLocale, IsBadUrl, Lone, callerVars, Members
<1>14. BatchesAreCallable'
  <2>1. (\A i \in DOMAIN batchQueue : WellFormed(batchQueue[i]))'
    BY <1>1, <1>6 DEF WellFormed, IsBadUrl, Lone, callerVars
  <2>2. WellFormed(batch)'
    BY <1>1, <1>5 DEF WellFormed, IsBadUrl, Lone, callerVars
  <2> QED BY <1>1, <1>4, <2>1, <2>2 DEF BatchesAreCallable
<1> QED BY <1>1, <1>4, <1>10, <1>11, <1>12, <1>13, <1>14, BatchAlone DEF IInv, Responds

-----------------------------------------------------------------------------
(* Every response of a call fits the request at its position.              *)
LEMMA ErrorFits == \A c : Fits(c, Error)
  BY DEF Fits, Error

LEMMA VariationsFit ==
  ASSUME IInv, NEW c \in Callers, ~IsBadUrl(c), stage[c] = "variations", NEW listed \in Listings
  PROVE  LET r == Items(QueriedFirst(task[c].asin, listed))
         IN r \in Response /\ Fits(c, r)
<1> DEFINE s == QueriedFirst(task[c].asin, listed)
<1>1. PICK a \in Asins : a = task[c].asin
  BY TaskType DEF IInv
<1>2. \/ listed = << >>
      \/ \E x \in Asins : listed = << x >>
      \/ \E x, y \in Asins : listed = << x, y >> /\ x # y
  BY DEF Listings
<1>3. listed \in Seq(Asins)
  <2>1. << >> \in Seq(Asins)
    BY EmptySeq
  <2>2. \A x \in Asins : << x >> \in Seq(Asins)
    BY OneMember
  <2>3. \A x, y \in Asins : << x, y >> \in Seq(Asins)
    OBVIOUS
  <2> QED BY <1>2, <2>1, <2>2, <2>3
<1>4. /\ DOMAIN s = DOMAIN listed
      /\ \A i \in DOMAIN listed : s[i] \in Asins
  <2>1. DOMAIN listed = 1 .. Len(listed) /\ \A i \in DOMAIN listed : listed[i] \in Asins
    BY <1>3, LenProperties
  <2>2. \A i \in DOMAIN listed : 1 \in DOMAIN listed
    BY <2>1, <1>3, LenProperties
  <2> QED BY <1>1, <2>1, <2>2 DEF QueriedFirst
<1>5. s \in Seq(Asins)
  <2>1. DOMAIN listed = 1 .. Len(listed) /\ Len(listed) \in Nat
    BY <1>3, LenProperties
  <2>2. s \in [1 .. Len(listed) -> Asins]
    BY <1>4, <2>1 DEF QueriedFirst
  <2> QED BY <2>1, <2>2, IsASeq
<1>6. IsAmong(a, s) => s[1] = a
  <2>1. ASSUME NEW i \in DOMAIN s, s[i] = a PROVE IsAmong(a, listed) /\ 1 \in DOMAIN listed
    BY <1>1, <1>2, <1>4, <2>1 DEF QueriedFirst, IsAmong
  <2>2. ASSUME IsAmong(a, listed), 1 \in DOMAIN listed PROVE s[1] = a
    BY <1>1, <2>2 DEF QueriedFirst
  <2> QED BY <2>1, <2>2 DEF IsAmong
<1> HIDE DEF s
<1>7. Items(s) \in Response /\ Fits(c, Items(s))
  BY <1>1, <1>5, <1>6 DEF Items, Response, Fits
<1> QED BY <1>7 DEF s

LEMMA GetResultsStep == ASSUME IInv, GetResults PROVE IInv'
<1>1. /\ UNCHANGED << reqQueue, localeBatch, single, toFlush, ticked, batchQueue >>
      /\ UNCHANGED << batch, retry >> /\ UNCHANGED callerVars
      /\ batch # << >>
      /\ \/ responses' = AllErrors
         \/ stage[batch[1]] = "variations" /\ responses' \in VariationResponses
         \/ stage[batch[1]] # "variations" /\ responses' \in ItemResponses
  BY DEF GetResults, Checking, batcherVars
<1>2. /\ batch \in Seq(Callers) /\ Len(batch) \in Nat \ {0} /\ DOMAIN batch = 1 .. Len(batch)
      /\ \A i \in DOMAIN batch : batch[i] \in Callers
      /\ 1 \in DOMAIN batch
  BY <1>1, EmptySeq, LenProperties, ElementOfSeq DEF IInv, TypeOK
<1>3. WellFormed(batch)
  BY <1>1 DEF IInv, BatchesAreCallable
<1>4. /\ responses' \in Seq(Response) /\ Len(responses') = Len(batch)
      /\ \A i \in DOMAIN batch : Fits(batch[i], responses'[i])
  <2>1. CASE responses' = AllErrors
    <3>1. responses' \in [1 .. Len(batch) -> Response]
      BY <1>2, <2>1, AnswerType DEF AllErrors
    <3>2. responses' \in Seq(Response) /\ Len(responses') = Len(batch)
      BY <1>2, <3>1, IsASeq, LenProperties
    <3>3. \A i \in DOMAIN batch : responses'[i] = Error
      BY <2>1 DEF AllErrors
    <3> QED BY <3>2, <3>3, ErrorFits
  <2>2. CASE stage[batch[1]] = "variations" /\ responses' \in VariationResponses
    <3>1. Len(batch) = 1 /\ DOMAIN batch = {1} /\ ~IsBadUrl(batch[1])
      BY <1>2, <1>3, <2>2 DEF WellFormed
    <3>2. PICK listed \in Listings :
            responses' = << Items(QueriedFirst(task[batch[1]].asin, listed)) >>
      BY <2>2 DEF VariationResponses
    <3>3. PICK r : r = Items(QueriedFirst(task[batch[1]].asin, listed))
      OBVIOUS
    <3>4. r \in Response /\ Fits(batch[1], r)
      BY <1>2, <2>2, <3>1, <3>3, VariationsFit
    <3>5. << r >> \in Seq(Response) /\ Len(<< r >>) = 1 /\ << r >>[1] = r
      BY <3>4, OneMember
    <3> QED BY <3>1, <3>2, <3>3, <3>4, <3>5
  <2>3. CASE stage[batch[1]] # "variations" /\ responses' \in ItemResponses
    <3>1. PICK found : responses' =
            [i \in DOMAIN batch |->
               IF task[batch[i]].asin \in found THEN Items(<< task[batch[i]].asin >>)
                                                ELSE Error]
      BY <2>3 DEF ItemResponses
    <3>2. \A i \in DOMAIN batch : task[batch[i]].asin \in Asins /\ ~IsBadUrl(batch[i])
                                  /\ stage[batch[i]] # "variations"
      <4>1. \A i \in DOMAIN batch : ~IsBadUrl(batch[i])
        BY <1>3 DEF WellFormed
      <4>2. \A i \in DOMAIN batch : stage[batch[i]] # "variations"
        <5>1. ASSUME NEW i \in DOMAIN batch, stage[batch[i]] = "variations" PROVE FALSE
          <6>1. Len(batch) = 1
            BY <1>3, <5>1 DEF WellFormed
          <6>2. i = 1
            BY <1>2, <5>1, <6>1
          <6> QED BY <2>3, <5>1, <6>2
        <5> QED BY <5>1
      <4> QED BY <1>2, <4>1, <4>2, TaskType DEF IInv
    <3>3. ASSUME NEW i \in DOMAIN batch
          PROVE  responses'[i] \in Response /\ Fits(batch[i], responses'[i])
      <4>1. CASE task[batch[i]].asin \in found
        <5>1. PICK r : r = Items(<< task[batch[i]].asin >>)
          OBVIOUS
        <5>2. r \in Response
          BY <3>2, <5>1, AnswerType
        <5>3. Fits(batch[i], r)
          BY <3>2, <5>1 DEF Fits, Items
        <5> QED BY <3>1, <4>1, <5>1, <5>2, <5>3
      <4>2. CASE task[batch[i]].asin \notin found
        BY <3>1, <4>2, AnswerType, ErrorFits
      <4> QED BY <4>1, <4>2
    <3>4. responses' \in [1 .. Len(batch) -> Response]
      BY <1>2, <3>1, <3>3
    <3> QED BY <1>2, <3>3, <3>4, IsASeq, LenProperties
  <2> QED BY <1>1, <2>1, <2>2, <2>3
<1>5. TypeOK'
  BY <1>1, <1>4 DEF IInv, TypeOK, callerVars, Response
<1>6. Placed' /\ NoneTwice'
  BY <1>1, SameMembers, SameTwice, CallersStay DEF IInv, Placed
<1>7. Formed'
  BY <1>1 DEF IInv, Formed, OfLocale, IsBadUrl, Lone, callerVars, Members
<1>8. BatchesAreCallable'
  <2>1. WellFormed(batch)'
    BY <1>1, <1>3 DEF WellFormed, IsBadUrl, Lone, callerVars
  <2> QED BY <1>1, <1>4, <2>1, BatchAlone DEF BatchesAreCallable
<1>9. Responds'
  BY <1>1, <1>4 DEF Responds, Fits, IsBadUrl, callerVars
<1> QED BY <1>1, <1>5, <1>6, <1>7, <1>8, <1>9, BatchAlone DEF IInv


LEMMA RefuseUrlStep ==
  ASSUME IInv, RefuseUrl
  PROVE  /\ IInv'
         /\ \E c \in Callers :
              c = First /\ pc[c] = "wait" /\ (Returns(c) \/ AsksOn(c) \/ Panics(c))
<1>1. /\ First \in Callers /\ pc[First] = "wait"
      /\ First \in Members(reqQueue) /\ First \notin InBatches /\ First \notin InQueued
      /\ First \notin Members(single) /\ First \notin Members(batch)
      /\ reqQueue' \in Seq(Callers)
      /\ Members(reqQueue)' = Members(reqQueue) \ {First} /\ Once(reqQueue)'
  BY TakeFirstEffect DEF RefuseUrl
<1>2. PICK c \in Callers : c = First
  BY <1>1
<1>3. /\ UNCHANGED << batcherVars, batchQueue >> /\ UNCHANGED << batch, responses >>
      /\ UNCHANGED << localeBatch, single, toFlush, ticked, retry >>
      /\ Receive(c, Error)
  BY <1>2 DEF RefuseUrl, batcherVars, senderVars
<1>4. TypeOK /\ Asking(c) /\ Placed
  BY DEF IInv
<1>5. Returns(c) \/ AsksOn(c) \/ Panics(c)
  BY <1>1, <1>2, <1>3, <1>4, AnswerType, ErrorFits, ReceiveOutcome
<1>6. /\ task' = task
      /\ pc' \in [Callers -> {"idle", "send", "wait", "panic"}]
      /\ stage' \in [Callers -> Stages]
      /\ variations' \in [Callers -> Seq(Asins)]
      /\ answer' \in [Callers -> Answers]
      /\ crash' \in BOOLEAN
      /\ pc'[c] # "wait"
      /\ \A d \in Callers \ {c} : task'[d] = task[d] /\ stage'[d] = stage[d]
      /\ \A d \in Callers \ {c} : pc'[d] = pc[d] /\ variations'[d] = variations[d]
      /\ Asking(c)'
  BY <1>4, <1>5, ReceiveEffect
<1>7. TypeOK'
  BY <1>1, <1>3, <1>4, <1>6 DEF TypeOK
<1>8. (\A d \in Callers : Asking(d))' /\ Waiting' = Waiting \ {c}
  BY <1>6, OthersStay
<1>9. /\ \A l \in Locales : Members(localeBatch[l]) \subseteq Callers \ {c}
      /\ \A i \in DOMAIN batchQueue : Members(batchQueue[i]) \subseteq Callers \ {c}
      /\ Members(single) \subseteq Callers \ {c}
      /\ Members(batch) \subseteq Callers \ {c}
  BY <1>1, <1>2, <1>4, MembersWait, InBatchesDef, InQueuedDef
<1>10. Formed' /\ (\A i \in DOMAIN batchQueue : WellFormed(batchQueue[i]))'
  BY <1>3, <1>6, <1>9, BatchesStay
<1>11. (batch # << >> => WellFormed(batch))'
       /\ (responses # << >> => Len(responses) = Len(batch))' /\ Responds'
  BY <1>3, <1>6, <1>9, BatchStays
<1>12. Placed'
  <2>1. InBatches' = InBatches /\ Members(single)' = Members(single)
        /\ InQueued' = InQueued /\ Members(batch)' = Members(batch)
    BY <1>3, SameMembers
  <2> QED BY <1>1, <1>2, <1>4, <1>8, <2>1 DEF Placed, Apart
<1>13. NoneTwice'
  BY <1>1, <1>3 DEF IInv, NoneTwice, Once, Members
<1> QED BY <1>1, <1>2, <1>5, <1>7, <1>8, <1>10, <1>11, <1>12, <1>13
        DEF IInv, BatchesAreCallable

LEMMA HandOutStep ==
  ASSUME IInv, HandOut
  PROVE  /\ IInv'
         /\ \E c \in Callers :
              c = batch[1] /\ pc[c] = "wait" /\ (Returns(c) \/ AsksOn(c) \/ Panics(c))
<1>1. /\ UNCHANGED << reqQueue, batchQueue, retry >> /\ UNCHANGED << batcherVars, batchQueue >>
      /\ UNCHANGED << localeBatch, single, toFlush, ticked >>
      /\ responses # << >> /\ Receive(batch[1], responses[1])
      /\ batch' = Tail(batch) /\ responses' = Tail(responses)
  BY DEF HandOut, batcherVars
<1>2. /\ TypeOK /\ Placed /\ Responds /\ BatchesAreCallable /\ NoneTwice
      /\ batch \in Seq(Callers) /\ responses \in Seq(Response)
      /\ Len(responses) = Len(batch) /\ Once(batch)
      /\ \A i \in DOMAIN batch : Fits(batch[i], responses[i])
  BY <1>1 DEF IInv, TypeOK, Response, Responds, NoneTwice
<1>3. batch # << >>
  BY <1>1, <1>2, EmptySeq
<1>4. /\ Head(batch) = batch[1] /\ Head(batch) \in Callers /\ Head(batch) \in Members(batch)
      /\ Len(batch) \in Nat \ {0} /\ DOMAIN batch = 1 .. Len(batch)
      /\ Tail(batch) \in Seq(Callers) /\ Len(Tail(batch)) = Len(batch) - 1
      /\ \A i \in DOMAIN Tail(batch) : i + 1 \in DOMAIN batch /\ Tail(batch)[i] = batch[i + 1]
      /\ Once(Tail(batch)) /\ Members(Tail(batch)) = Members(batch) \ {Head(batch)}
  BY <1>2, <1>3, TailMembers
<1>5. /\ Head(responses) = responses[1] /\ Head(responses) \in Response
      /\ Tail(responses) \in Seq(Response) /\ Len(Tail(responses)) = Len(responses) - 1
      /\ DOMAIN Tail(responses) = 1 .. Len(responses) - 1
      /\ \A i \in DOMAIN Tail(responses) : Tail(responses)[i] = responses[i + 1]
  <2>1. Tail(responses) \in Seq(Response) /\ Len(Tail(responses)) = Len(responses) - 1
    BY <1>1, <1>2, TailMembers
  <2> QED BY <1>1, <1>2, <2>1, TailMembers, LenProperties
<1>6. PICK c \in Callers : c = batch[1]
  BY <1>4
<1>7. PICK r \in Response : r = responses[1]
  BY <1>5
<1>8. c \in Members(batch) /\ pc[c] = "wait" /\ Fits(c, r) /\ Asking(c)
  <2>1. 1 \in DOMAIN batch
    BY <1>4
  <2>2. c \in Waiting
    BY <1>2, <1>4, <1>6, MembersWait
  <2> QED BY <1>2, <1>4, <1>6, <1>7, <2>1, <2>2 DEF IInv, Waiting
<1>9. Returns(c) \/ AsksOn(c) \/ Panics(c)
  BY <1>1, <1>2, <1>6, <1>7, <1>8, ReceiveOutcome
<1>10. /\ task' = task
       /\ pc' \in [Callers -> {"idle", "send", "wait", "panic"}]
       /\ stage' \in [Callers -> Stages]
       /\ variations' \in [Callers -> Seq(Asins)]
       /\ answer' \in [Callers -> Answers]
       /\ crash' \in BOOLEAN
       /\ pc'[c] # "wait"
       /\ \A d \in Callers \ {c} : task'[d] = task[d] /\ stage'[d] = stage[d]
       /\ \A d \in Callers \ {c} : pc'[d] = pc[d] /\ variations'[d] = variations[d]
       /\ Asking(c)'
  BY <1>2, <1>9, ReceiveEffect
<1>11. TypeOK'
  BY <1>1, <1>2, <1>4, <1>5, <1>10 DEF TypeOK, Response
<1>12. (\A d \in Callers : Asking(d))' /\ Waiting' = Waiting \ {c}
  BY <1>10, OthersStay
<1>13. c \notin Members(reqQueue) /\ c \notin InBatches /\ c \notin Members(single)
       /\ c \notin InQueued
  BY <1>2, <1>8 DEF Placed, Apart
<1>14. /\ \A l \in Locales : Members(localeBatch[l]) \subseteq Callers \ {c}
       /\ \A i \in DOMAIN batchQueue : Members(batchQueue[i]) \subseteq Callers \ {c}
       /\ Members(single) \subseteq Callers \ {c}
       /\ Members(Tail(batch)) \subseteq Callers \ {c}
  BY <1>2, <1>4, <1>6, <1>13, MembersWait, InBatchesDef, InQueuedDef
<1>15. Formed' /\ (\A i \in DOMAIN batchQueue : WellFormed(batchQueue[i]))'
  BY <1>1, <1>10, <1>14, BatchesStay
<1>16. Members(batch)' = Members(batch) \ {c} /\ Once(batch)'
  <2>1. Members(batch)' = Members(Tail(batch)) /\ (Once(batch)' <=> Once(Tail(batch)))
    BY <1>1 DEF Members, Once
  <2>2. Once(Tail(batch)) /\ Members(Tail(batch)) = Members(batch) \ {c}
    BY <1>4, <1>6
  <2> QED BY ONLY <2>1, <2>2
<1>17. Placed'
  <2>1. InBatches' = InBatches /\ Members(single)' = Members(single)
        /\ InQueued' = InQueued /\ Members(reqQueue)' = Members(reqQueue)
    BY <1>1, SameMembers
  <2> QED BY <1>2, <1>12, <1>13, <1>16, <2>1 DEF Placed, Apart
<1>18. NoneTwice'
  <2>1. /\ Once(reqQueue)' /\ Once(single)'
        /\ (\A l \in Locales : Once(localeBatch[l]))'
        /\ (\A i \in DOMAIN batchQueue : Once(batchQueue[i]))'
    BY <1>1, <1>2 DEF NoneTwice, Once
  <2>2. (\A i, j \in DOMAIN batchQueue :
           i # j => Members(batchQueue[i]) \cap Members(batchQueue[j]) = {})'
    <3>1. \A i : Members(batchQueue[i])' = Members(batchQueue[i])
      BY <1>1 DEF Members
    <3>2. batchQueue' = batchQueue
      BY <1>1
    <3> QED BY <1>2, <3>1, <3>2 DEF NoneTwice
  <2> QED BY <1>16, <2>1, <2>2 DEF NoneTwice
<1>19. /\ \A b : Members(b) \subseteq Callers \ {c} /\ WellFormed(b) => WellFormed(b)'
       /\ \A d \in Callers \ {c} : \A q : Fits(d, q) => Fits(d, q)'
  BY <1>10, OthersStay
<1>20. \A i \in DOMAIN Tail(batch) : Fits(Tail(batch)[i], Tail(responses)[i])
  <2>1. DOMAIN Tail(responses) = DOMAIN Tail(batch)
    BY <1>2, <1>4, <1>5, LenProperties
  <2> QED BY <1>2, <1>4, <1>5, <2>1
<1>21. Responds'
  <2>1. ASSUME NEW i \in DOMAIN Tail(batch), NEW d, d = Tail(batch)[i],
               NEW q, q = Tail(responses)[i]
        PROVE  Fits(d, q)'
    <3>1. d \in Callers \ {c}
      BY <1>14, <2>1 DEF Members
    <3> QED BY <1>19, <1>20, <2>1, <3>1
  <2>2. (\A i \in DOMAIN batch : Fits(batch[i], responses[i]))'
    BY <1>1, <2>1
  <2> QED BY <1>1, <1>2, <1>4, <1>5, <2>2 DEF Responds
<1>22. (batch # << >> => WellFormed(batch))'
  <2>1. ASSUME Tail(batch) # << >> PROVE WellFormed(Tail(batch))
    <3>1. Len(Tail(batch)) \in 1 .. MaxItems
      <4>1. Len(Tail(batch)) \in Nat \ {0}
        BY <1>4, <2>1, EmptySeq
      <4> QED BY <1>2, <1>3, <1>4, <4>1, BoundsAssumption DEF BatchesAreCallable, WellFormed
    <3>2. WellFormed(batch)
      BY <1>2, <1>3 DEF BatchesAreCallable
    <3>3. Len(batch) # 1
      BY <1>4, <3>1, BoundsAssumption
    <3> QED BY <1>4, <3>1, <3>2, <3>3 DEF WellFormed
  <2>2. ASSUME NEW b, b = Tail(batch), b # << >> PROVE WellFormed(b)'
    BY <1>14, <1>19, <2>1, <2>2
  <2> QED BY <1>1, <2>2
<1>23. (responses # << >> => Len(responses) = Len(batch))'
  BY <1>1, <1>2, <1>4, <1>5
<1> QED BY <1>6, <1>8, <1>9, <1>11, <1>12, <1>15, <1>17, <1>18, <1>21, <1>22, <1>23
        DEF IInv, BatchesAreCallable

LEMMA StepIInv == IInv /\ [Next]_vars => IInv'
<1> SUFFICES ASSUME IInv, [Next]_vars PROVE IInv'
  OBVIOUS
<1>1. ASSUME NEW c \in Callers, RequestActor(c) PROVE IInv'
  BY <1>1, RequestActorStep
<1>2. ASSUME NEW c \in Callers, NEW t \in Tasks, Request(c, t) PROVE IInv'
  BY <1>2, RequestStep
<1>3. CASE Tick
  BY <1>3, TickStep
<1>4. CASE Batcher
  BY <1>4, RefuseUrlStep, BatchVariationsStep, BatchItemsStep, TakeTickStep, FlushStep,
     FlushSingleStep DEF Batcher
<1>5. CASE Sender
  BY <1>5, TakeBatchStep, RateLimitedStep, GetResultsStep, HandOutStep DEF Sender
<1>6. ASSUME UNCHANGED vars PROVE IInv'
  <2>1. /\ UNCHANGED << reqQueue, localeBatch, single, toFlush, ticked, batchQueue >>
        /\ UNCHANGED << batch, retry, responses >> /\ UNCHANGED callerVars
    BY <1>6 DEF vars, batcherVars, senderVars
  <2>2. TypeOK'
    BY <2>1 DEF IInv, TypeOK, callerVars
  <2>3. Placed' /\ NoneTwice'
    BY <2>1, SameMembers, SameTwice, CallersStay DEF IInv, Placed
  <2>4. Formed'
    BY <2>1 DEF IInv, Formed, OfLocale, IsBadUrl, Lone, callerVars, Members
  <2> QED BY <2>1, <2>2, <2>3, <2>4, BatchAlone DEF IInv, BatchesAreCallable
<1>7. Dead => UNCHANGED vars
  BY DEF Dead
<1> QED BY <1>1, <1>2, <1>3, <1>4, <1>5, <1>6, <1>7 DEF Next

LEMMA Invariance == Spec => []IInv
<1> QED BY InitIInv, StepIInv, PTL DEF Spec


-----------------------------------------------------------------------------
(* Every variable of the callers, the batcher and the sender keeps its     *)
(* type, and no batch waits for the rate limit more than MaxRetry times.   *)
THEOREM TypeCorrect == Spec => []TypeOK
<1>1. IInv => TypeOK
  BY DEF IInv
<1> QED BY <1>1, Invariance, PTL

(* What one call to the API is made with, and what is answered to it.      *)
THEOREM Callable == Spec => []BatchesAreCallable
<1>1. IInv => BatchesAreCallable
  BY DEF IInv
<1> QED BY <1>1, Invariance, PTL

(* The positions of a request in a sequence that holds none twice.         *)
LEMMA AmongMembers ==
  ASSUME NEW c, NEW s, NEW p
  PROVE  /\ c \notin Members(s) => {p} \X Among(c, s) = {}
         /\ c \in Members(s) /\ Once(s) => \E x : {p} \X Among(c, s) = {x}
<1>1. ASSUME c \notin Members(s) PROVE Among(c, s) = {}
  BY <1>1 DEF Members, Among
<1>2. ASSUME c \in Members(s), Once(s) PROVE \E x : {p} \X Among(c, s) = {x}
  <2>1. PICK i \in DOMAIN s : s[i] = c
    BY <1>2 DEF Members
  <2>2. Among(c, s) = {i}
    BY <1>2, <2>1 DEF Among, Once
  <2>3. {p} \X Among(c, s) = {<< p, i >>}
    BY <2>2
  <2> QED BY <2>3
<1> QED BY <1>1, <1>2

LEMMA Forming1 ==
  ASSUME IInv, NEW c \in Callers
  PROVE  /\ c \notin InBatches => Forming(c) = {}
         /\ c \in InBatches => \E x : Forming(c) = {x}
<1>1. ASSUME c \notin InBatches PROVE Forming(c) = {}
  <2>1. \A l \in Locales : {<< "forming", l >>} \X Among(c, localeBatch[l]) = {}
    BY <1>1, InBatchesDef, AmongMembers
  <2> QED BY <2>1 DEF Forming
<1>2. ASSUME c \in InBatches PROVE \E x : Forming(c) = {x}
  <2>1. PICK l \in Locales : c \in Members(localeBatch[l])
    BY <1>2, InBatchesDef
  <2>2. \A k \in Locales \ {l} : c \notin Members(localeBatch[k])
    BY <2>1 DEF IInv, Formed, OfLocale
  <2>3. \A k \in Locales \ {l} : {<< "forming", k >>} \X Among(c, localeBatch[k]) = {}
    BY <2>2, AmongMembers
  <2>4. PICK x : {<< "forming", l >>} \X Among(c, localeBatch[l]) = {x}
    BY <2>1, AmongMembers DEF IInv, NoneTwice
  <2>5. Forming(c) = {x}
    BY <2>3, <2>4 DEF Forming
  <2> QED BY <2>5
<1> QED BY <1>1, <1>2

LEMMA Batched1 ==
  ASSUME IInv, NEW c \in Callers
  PROVE  /\ c \notin InQueued => Batched(c) = {}
         /\ c \in InQueued => \E x : Batched(c) = {x}
<1>1. ASSUME c \notin InQueued PROVE Batched(c) = {}
  <2>1. \A i \in DOMAIN batchQueue : {<< "batched", i >>} \X Among(c, batchQueue[i]) = {}
    BY <1>1, InQueuedDef, AmongMembers
  <2> QED BY <2>1 DEF Batched
<1>2. ASSUME c \in InQueued PROVE \E x : Batched(c) = {x}
  <2>1. PICK i \in DOMAIN batchQueue : c \in Members(batchQueue[i])
    BY <1>2, InQueuedDef
  <2>2. \A j \in DOMAIN batchQueue \ {i} : c \notin Members(batchQueue[j])
    BY <2>1 DEF IInv, NoneTwice
  <2>3. \A j \in DOMAIN batchQueue \ {i} : {<< "batched", j >>} \X Among(c, batchQueue[j]) = {}
    BY <2>2, AmongMembers
  <2>4. PICK x : {<< "batched", i >>} \X Among(c, batchQueue[i]) = {x}
    BY <2>1, AmongMembers DEF IInv, NoneTwice
  <2>5. Batched(c) = {x}
    BY <2>3, <2>4 DEF Batched
  <2> QED BY <2>5
<1> QED BY <1>1, <1>2

(* Whoever waits has its request in exactly one place, and there once;     *)
(* nobody else has one anywhere.                                           *)
THEOREM OnePlace == Spec => []EachRequestInOnePlace
<1>1. ASSUME IInv, NEW c \in Callers
      PROVE  Cardinality(Places(c)) = IF pc[c] = "wait" THEN 1 ELSE 0
  <2>1. /\ c \notin Members(reqQueue) => InQueue(c) = {}
        /\ c \in Members(reqQueue) => \E x : InQueue(c) = {x}
    BY <1>1, AmongMembers DEF InQueue, IInv, NoneTwice
  <2>2. /\ c \notin Members(single) => Single(c) = {}
        /\ c \in Members(single) => \E x : Single(c) = {x}
    BY <1>1, AmongMembers DEF Single, IInv, NoneTwice
  <2>3. /\ c \notin Members(batch) => InHand(c) = {}
        /\ c \in Members(batch) => \E x : InHand(c) = {x}
    BY <1>1, AmongMembers DEF InHand, IInv, NoneTwice
  <2>4. /\ c \notin InBatches => Forming(c) = {}
        /\ c \in InBatches => \E x : Forming(c) = {x}
        /\ c \notin InQueued => Batched(c) = {}
        /\ c \in InQueued => \E x : Batched(c) = {x}
    BY <1>1, Forming1, Batched1
  <2>5. Placed
    BY <1>1 DEF IInv
  <2>6. CASE pc[c] = "wait"
    <3>1. \/ c \in Members(reqQueue) \/ c \in InBatches \/ c \in Members(single)
          \/ c \in InQueued \/ c \in Members(batch)
      BY <2>5, <2>6 DEF Placed, Waiting
    <3>2. \E x : Places(c) = {x}
      BY <2>1, <2>2, <2>3, <2>4, <2>5, <3>1 DEF Places, Placed, Apart
    <3> QED BY <2>6, <3>2, FS_Singleton
  <2>7. CASE pc[c] # "wait"
    <3>1. Places(c) = {}
      BY <1>1, <2>1, <2>2, <2>3, <2>4, <2>7, NotWaiting DEF Places
    <3> QED BY <2>7, <3>1, FS_EmptySet
  <2> QED BY <2>6, <2>7
<1>2. IInv => EachRequestInOnePlace
  BY <1>1 DEF EachRequestInOnePlace
<1> QED BY <1>2, Invariance, PTL

-----------------------------------------------------------------------------
(* A request that is answered ends with its answer; one that goes on with  *)
(* another call stays open; a worker that panics takes the process down.   *)
LEMMA OutcomeMaps ==
  ASSUME IInv, ~crash, NEW c \in Callers, pc[c] = "wait",
         Returns(c) \/ AsksOn(c) \/ Panics(c)
  PROVE  [Source!Next]_Source!vars
<1>1. CASE Returns(c)
  <2>1. PICK a \in Answers : Return(c, a) /\ IsAnswer(task[c], a)
    BY <1>1 DEF Returns
  <2>2. answer' = [answer EXCEPT ![c] = a] /\ answer'[c] = a
    BY <2>1 DEF Return, IInv, TypeOK
  <2>3. [d \in Callers |-> pc'[d] # "idle"] =
          [[d \in Callers |-> pc[d] # "idle"] EXCEPT ![c] = FALSE]
    BY <2>1 DEF Return, IInv, TypeOK
  <2>4. Source!End(c)
    BY <2>1, <2>2, <2>3 DEF Source!End, Return
  <2> QED BY <2>4 DEF Source!Next
<1>2. CASE AsksOn(c)
  <2>1. UNCHANGED << task, answer, crash >> /\ pc' = [pc EXCEPT ![c] = "send"]
    BY <1>2 DEF AsksOn, CallGetItems
  <2>2. [d \in Callers |-> pc'[d] # "idle"] = [d \in Callers |-> pc[d] # "idle"]
    BY <2>1 DEF IInv, TypeOK
  <2> QED BY <2>1, <2>2 DEF Source!vars
<1>3. CASE Panics(c)
  <2>1. [d \in Callers |-> pc'[d] # "idle"] = [d \in Callers |-> pc[d] # "idle"]
    BY <1>3 DEF Panics, IInv, TypeOK
  <2>2. Source!Die
    BY <1>3, <2>1 DEF Panics, Source!Die
  <2> QED BY <2>2 DEF Source!Next
<1> QED BY <1>1, <1>2, <1>3


(* AmazonActor implements SourceSpec: through the shared actor, its        *)
(* batches and its positional answers each request of a worker ends once,  *)
(* with an answer to what that worker asked.                               *)
THEOREM Implements == Spec => KeepsPromise
<1> DEFINE open == [c \in Callers |-> pc[c] # "idle"]
<1>1. ASSUME Init PROVE Source!Init
  BY <1>1 DEF Init, Source!Init
<1>2. ASSUME IInv, [Next]_vars PROVE [Source!Next]_(Source!vars)
  <2>1. ASSUME UNCHANGED callerVars PROVE UNCHANGED Source!vars
    BY <2>1 DEF callerVars, Source!vars
  <2>2. ASSUME NEW c \in Callers, NEW t \in Tasks, Request(c, t) PROVE Source!Ask(c)
    <3>1. open' = [open EXCEPT ![c] = TRUE]
      BY <1>2, <2>2 DEF Request, IInv, TypeOK
    <3>2. ~open[c]
      BY <2>2 DEF Request
    <3> QED BY <2>2, <3>1, <3>2 DEF Request, Source!Ask
  <2>3. ASSUME NEW c \in Callers, RequestActor(c) PROVE UNCHANGED Source!vars
    <3>1. open' = open
      BY <1>2, <2>3 DEF RequestActor, IInv, TypeOK
    <3> QED BY <2>3, <3>1 DEF RequestActor, Source!vars
  <2>4. ASSUME RefuseUrl \/ HandOut PROVE [Source!Next]_(Source!vars)
    <3>1. PICK c \in Callers : pc[c] = "wait" /\ (Returns(c) \/ AsksOn(c) \/ Panics(c))
      BY <1>2, <2>4, RefuseUrlStep, HandOutStep
    <3>2. ~crash
      BY <2>4 DEF RefuseUrl, TakeFirst, Batching, HandOut
    <3> QED BY <1>2, <3>1, <3>2, OutcomeMaps
  <2>5. Tick => UNCHANGED callerVars
    BY DEF Tick
  <2>6. BatchVariations \/ BatchItems \/ TakeTick \/ FlushSingle => UNCHANGED callerVars
    BY DEF BatchVariations, BatchItems, TakeTick, FlushSingle
  <2>7. (\E l \in Locales : Flush(l)) => UNCHANGED callerVars
    BY DEF Flush
  <2>8. TakeBatch \/ RateLimited \/ GetResults => UNCHANGED callerVars
    BY DEF TakeBatch, RateLimited, GetResults
  <2>9. Dead \/ UNCHANGED vars => UNCHANGED callerVars
    BY DEF Dead, vars
  <2> QED BY <1>2, <2>1, <2>2, <2>3, <2>4, <2>5, <2>6, <2>7, <2>8, <2>9
          DEF Next, Batcher, Sender, Source!Next
<1>3. Spec => [][Next]_vars
  BY DEF Spec
<1>4. Source!Init /\ [][Source!Next]_(Source!vars) => KeepsPromise
  BY DEF KeepsPromise, Source!Spec
<1> QED BY <1>1, <1>2, <1>4, Invariance, PTL DEF Spec


-----------------------------------------------------------------------------
(* First come, first served.  A request stands at a position of a place;   *)
(* each step moves those that stay in line without changing their order.   *)

(* c is at position m of place i: of the batch b in hand, the queued       *)
(* batches q, the forming batch f or the queue of requests r.              *)
Stands(b, q, f, r, c, i, m) ==
  \/ i = 0          /\ m \in Among(c, b)
  \/ i \in DOMAIN q /\ m \in Among(c, q[i])
  \/ i = Len(q) + 1 /\ m \in Among(c, f)
  \/ i = Len(q) + 2 /\ m \in Among(c, r)

Here(l, c, i, m) == Stands(batch, batchQueue, localeBatch[l], reqQueue, c, i, m)

Before(i, m, j, n) == i < j \/ (i = j /\ m < n)

LEMMA PlaceStands ==
  ASSUME NEW l, Len(batchQueue) \in Nat, DOMAIN batchQueue = 1 .. Len(batchQueue)
  PROVE  \A c, i, m : i \in Line /\ m \in Among(c, Place(l, i)) <=> Here(l, c, i, m)
  BY DEF Line, Place, Here, Stands

LEMMA PlaceStandsThen ==
  ASSUME NEW l, Len(batchQueue)' \in Nat, DOMAIN batchQueue' = 1 .. Len(batchQueue')
  PROVE  \A c, i, m : i \in Line' /\ m \in Among(c, Place(l, i)') <=> Here(l, c, i, m)'
  BY DEF Line, Place, Here, Stands

LEMMA AheadStands ==
  ASSUME IInv, IInv', NEW l, NEW c, NEW d
  PROVE  /\ Ahead(l, c, d) <=>
              /\ InLine(l, c) /\ InLine(l, d)
              /\ \E i, m, j, n : Here(l, c, i, m) /\ Here(l, d, j, n) /\ Before(i, m, j, n)
         /\ Ahead(l, c, d)' <=>
              /\ InLine(l, c)' /\ InLine(l, d)'
              /\ \E i, m, j, n : Here(l, c, i, m)' /\ Here(l, d, j, n)' /\ Before(i, m, j, n)
<1>1. /\ Len(batchQueue) \in Nat /\ DOMAIN batchQueue = 1 .. Len(batchQueue)
      /\ Len(batchQueue)' \in Nat /\ DOMAIN batchQueue' = 1 .. Len(batchQueue')
  BY LenProperties DEF IInv, TypeOK
<1>2. Ahead(l, c, d) <=>
        /\ InLine(l, c) /\ InLine(l, d)
        /\ \E i, m, j, n : Here(l, c, i, m) /\ Here(l, d, j, n) /\ Before(i, m, j, n)
  BY <1>1, PlaceStands DEF Ahead, Before
<1>3. Ahead(l, c, d)' <=>
        /\ InLine(l, c)' /\ InLine(l, d)'
        /\ \E i, m, j, n : Here(l, c, i, m)' /\ Here(l, d, j, n)' /\ Before(i, m, j, n)
  <2>1. Ahead(l, c, d)' <=>
        /\ InLine(l, c)' /\ InLine(l, d)'
        /\ \E i \in Line' : \E m \in Among(c, Place(l, i)') :
             \E j \in Line' : \E n \in Among(d, Place(l, j)') : Before(i, m, j, n)
    BY DEF Ahead, Before, Among
  <2> QED BY <1>1, <2>1, PlaceStandsThen
<1> QED BY <1>2, <1>3

LEMMA StandsType ==
  ASSUME IInv, NEW l \in Locales, NEW c, NEW i, NEW m, Here(l, c, i, m)
  PROVE  /\ Len(batchQueue) \in Nat /\ DOMAIN batchQueue = 1 .. Len(batchQueue)
         /\ i \in 0 .. (Len(batchQueue) + 2) /\ m \in Nat \ {0}
<1>1. /\ batchQueue \in Seq(Seq(Callers)) /\ batch \in Seq(Callers)
      /\ localeBatch[l] \in Seq(Callers) /\ reqQueue \in Seq(Callers)
  BY DEF IInv, TypeOK
<1>2. Len(batchQueue) \in Nat /\ DOMAIN batchQueue = 1 .. Len(batchQueue)
  BY <1>1, LenProperties
<1>3. \A j \in DOMAIN batchQueue : batchQueue[j] \in Seq(Callers)
  BY <1>1, <1>2
<1>4. \A s \in Seq(Callers) : m \in Among(c, s) => m \in Nat \ {0}
  BY LenProperties DEF Among
<1>5. m \in Nat \ {0}
  BY <1>1, <1>3, <1>4 DEF Here, Stands
<1>6. i \in 0 .. (Len(batchQueue) + 2)
  BY <1>2 DEF Here, Stands
<1> QED BY <1>2, <1>5, <1>6

(* Whoever is in line stands somewhere.                                    *)
LEMMA InLineStands ==
  ASSUME IInv, NEW l \in Locales, NEW c \in Callers, InLine(l, c)
  PROVE  \E i, m : Here(l, c, i, m)
<1>1. c \in Waiting /\ task[c].locale = l /\ stage[c] # "variations"
  BY DEF InLine, Waiting
<1>2. c \notin Members(single)
  BY <1>1 DEF IInv, Formed, Lone
<1>3. c \in InBatches => c \in Members(localeBatch[l])
  BY <1>1, InBatchesDef DEF IInv, Formed, OfLocale
<1>4. \/ c \in Members(batch) \/ c \in InQueued \/ c \in Members(localeBatch[l])
      \/ c \in Members(reqQueue)
  BY <1>1, <1>2, <1>3 DEF IInv, Placed
<1>5. \A s : c \in Members(s) <=> \E m : m \in Among(c, s)
  BY DEF Members, Among
<1>6. CASE c \in InQueued
  <2>1. PICK i \in DOMAIN batchQueue : c \in Members(batchQueue[i])
    BY <1>6, InQueuedDef
  <2> QED BY <1>5, <2>1 DEF Here, Stands
<1> QED BY <1>4, <1>5, <1>6 DEF Here, Stands


(* Positions when a request comes or the first one goes.                   *)
LEMMA AppendAt ==
  ASSUME NEW S, NEW s \in Seq(S), NEW e \in S
  PROVE  /\ Len(s) \in Nat /\ Len(s) + 1 \in Among(e, Append(s, e))
         /\ \A c, m : m \in Among(c, s) => /\ m \in Among(c, Append(s, e))
                                           /\ m \in 1 .. Len(s)
<1>1. Len(s) \in Nat /\ DOMAIN s = 1 .. Len(s)
  BY LenProperties
<1>2. /\ Append(s, e) \in Seq(S) /\ Len(Append(s, e)) = Len(s) + 1
      /\ \A i \in 1 .. Len(s) : Append(s, e)[i] = s[i]
      /\ Append(s, e)[Len(s) + 1] = e
  BY AppendProperties
<1>3. DOMAIN Append(s, e) = 1 .. (Len(s) + 1)
  BY <1>2, LenProperties
<1> QED BY <1>1, <1>2, <1>3 DEF Among

LEMMA TailAt ==
  ASSUME NEW S, NEW s \in Seq(S), s # << >>, NEW c, NEW m \in Among(c, s)
  PROVE  /\ m \in Nat \ {0}
         /\ c # Head(s) => m # 1
         /\ m # 1 => m - 1 \in Among(c, Tail(s))
<1>1. /\ Len(s) \in Nat \ {0} /\ DOMAIN s = 1 .. Len(s) /\ Head(s) = s[1]
      /\ Tail(s) \in Seq(S) /\ Len(Tail(s)) = Len(s) - 1
  BY TailMembers
<1>2. DOMAIN Tail(s) = 1 .. (Len(s) - 1)
  BY <1>1, LenProperties
<1>3. m \in 1 .. Len(s) /\ s[m] = c
  BY <1>1 DEF Among
<1>4. ASSUME m # 1 PROVE m - 1 \in Among(c, Tail(s))
  <2>1. m - 1 \in DOMAIN Tail(s) /\ (m - 1) + 1 = m
    BY <1>1, <1>2, <1>3, <1>4
  <2>2. Tail(s)[m - 1] = s[m]
    BY <2>1, TailMembers
  <2> QED BY <1>3, <2>1, <2>2 DEF Among
<1> QED BY <1>1, <1>3, <1>4

LEMMA InLineSame ==
  ASSUME UNCHANGED callerVars
  PROVE  \A l, c : InLine(l, c)' <=> InLine(l, c)
  BY DEF InLine, callerVars

(* What a step keeps: while c waits, those behind it stay behind it.       *)
Behind(l, c, d) == Ahead(l, c, d) /\ InLine(l, c)' => Ahead(l, c, d)'

(* A step that touches none of the places.                                 *)
LEMMA UntouchedBehind ==
  ASSUME IInv, IInv', NEW l \in Locales, NEW c \in Callers, NEW d \in Callers,
         UNCHANGED << reqQueue, localeBatch, batchQueue, batch >>,
         Ahead(l, c, d) => (InLine(l, c)' <=> InLine(l, c)) /\ (InLine(l, d)' <=> InLine(l, d))
  PROVE  Behind(l, c, d)
<1>1. \A x, i, m : Here(l, x, i, m)' <=> Here(l, x, i, m)
  BY DEF Here, Stands, Among
<1> QED BY <1>1, AheadStands DEF Behind

(* One that comes goes behind everyone in line.                            *)
LEMMA RequestActorBehind ==
  ASSUME IInv, IInv', NEW l \in Locales, NEW c \in Callers, NEW d \in Callers,
         NEW e \in Callers, RequestActor(e)
  PROVE  /\ Behind(l, c, d)
         /\ InLine(l, c) /\ ~InLine(l, d) /\ InLine(l, d)' => Ahead(l, c, d)'
<1>1. /\ reqQueue \in Seq(Callers) /\ reqQueue' = Append(reqQueue, e)
      /\ UNCHANGED << localeBatch, batchQueue, batch, task, stage >>
      /\ pc[e] = "send" /\ pc' = [pc EXCEPT ![e] = "wait"]
      /\ pc \in [Callers -> {"idle", "send", "wait", "panic"}]
  BY DEF RequestActor, batcherVars, senderVars, IInv, TypeOK
<1>2. \A x, i, m : Here(l, x, i, m) => Here(l, x, i, m)'
  <2>1. \A x, m : m \in Among(x, reqQueue) => m \in Among(x, reqQueue')
    BY <1>1, AppendAt
  <2> QED BY <1>1, <2>1 DEF Here, Stands, Among
<1>3. \A x \in Callers : InLine(l, x) => InLine(l, x)'
  BY <1>1 DEF InLine
<1>4. Behind(l, c, d)
  BY <1>2, <1>3, AheadStands DEF Behind, Ahead
<1>5. ASSUME InLine(l, c), ~InLine(l, d), InLine(l, d)' PROVE Ahead(l, c, d)'
  <2>1. d = e
    BY <1>1, <1>5 DEF InLine
  <2>2. PICK i, m : Here(l, c, i, m)
    BY <1>5, InLineStands
  <2>3. /\ Len(batchQueue) \in Nat /\ i \in 0 .. (Len(batchQueue) + 2) /\ m \in Nat \ {0}
    BY <2>2, StandsType
  <2> PICK j, n : j = Len(batchQueue) + 2 /\ n = Len(reqQueue) + 1
    OBVIOUS
  <2>4. Here(l, d, j, n)'
    <3>1. n \in Among(d, Append(reqQueue, e))
      BY <1>1, <2>1, AppendAt
    <3> QED BY <1>1, <3>1 DEF Here, Stands
  <2>5. i = j => m \in Among(c, reqQueue)
    <3>1. DOMAIN batchQueue = 1 .. Len(batchQueue)
      BY LenProperties DEF IInv, TypeOK
    <3> QED BY <2>2, <2>3, <3>1 DEF Here, Stands
  <2>6. Before(i, m, j, n)
    <3>1. Len(reqQueue) \in Nat /\ (i = j => m \in 1 .. Len(reqQueue))
      BY <1>1, <2>5, AppendAt
    <3> QED BY <2>3, <3>1 DEF Before
  <2>7. Here(l, c, i, m)' /\ InLine(l, c)'
    BY <1>2, <1>3, <1>5, <2>2
  <2> QED BY <1>5, <2>4, <2>6, <2>7, AheadStands
<1> QED BY <1>4, <1>5

(* The first request of the queue leaves it and is not in line.            *)
LEMMA QueueBehind ==
  ASSUME IInv, IInv', NEW l \in Locales, NEW c \in Callers, NEW d \in Callers,
         TakeFirst, ~InLine(l, First), UNCHANGED << localeBatch[l], batchQueue, batch >>,
         InLine(l, d) => InLine(l, d)'
  PROVE  Behind(l, c, d)
<1> SUFFICES ASSUME Ahead(l, c, d), InLine(l, c)' PROVE Ahead(l, c, d)'
  BY DEF Behind
<1> PICK k : k = Len(batchQueue)
  OBVIOUS
<1> DEFINE Moved(i, m) == IF i = k + 2 THEN m - 1 ELSE m
<1>1. /\ reqQueue \in Seq(Callers) /\ reqQueue # << >> /\ reqQueue' = Tail(reqQueue)
      /\ k \in Nat /\ DOMAIN batchQueue = 1 .. k
  BY LenProperties DEF TakeFirst, IInv, TypeOK
<1>2. PICK i, m, j, n : Here(l, c, i, m) /\ Here(l, d, j, n) /\ Before(i, m, j, n)
  BY AheadStands
<1>3. i \in 0 .. (k + 2) /\ m \in Nat \ {0} /\ j \in 0 .. (k + 2) /\ n \in Nat \ {0}
  BY <1>2, StandsType
<1>4. c # First /\ d # First /\ InLine(l, d)'
  BY DEF Ahead
<1>5. \A x, p, q : Here(l, x, p, q) /\ x # First => Here(l, x, p, Moved(p, q))'
  <2>1. ASSUME NEW x, NEW p, NEW q, Here(l, x, p, q), x # First
        PROVE  Here(l, x, p, Moved(p, q))'
    <3>1. CASE p = k + 2
      <4>1. q \in Among(x, reqQueue)
        BY <1>1, <2>1, <3>1 DEF Here, Stands
      <4>2. q - 1 \in Among(x, Tail(reqQueue))
        BY <1>1, <2>1, <4>1, TailAt DEF First
      <4> QED BY <1>1, <3>1, <4>2 DEF Here, Stands
    <3>2. CASE p # k + 2
      BY <1>1, <2>1, <3>2 DEF Here, Stands, Among
    <3> QED BY <3>1, <3>2
  <2> QED BY <2>1
<1>6. Here(l, c, i, Moved(i, m))' /\ Here(l, d, j, Moved(j, n))'
  BY <1>2, <1>4, <1>5
<1>7. Before(i, Moved(i, m), j, Moved(j, n))
  BY <1>1, <1>2, <1>3 DEF Before
<1> HIDE DEF Moved
<1> QED BY <1>4, <1>6, <1>7, AheadStands DEF Ahead


(* The first request of the queue goes to the end of the forming batch.    *)
LEMMA BatchItemsBehind ==
  ASSUME IInv, IInv', NEW l \in Locales, NEW c \in Callers, NEW d \in Callers, BatchItems
  PROVE  Behind(l, c, d)
<1>1. /\ TakeFirst /\ UNCHANGED << batchQueue, batch >> /\ UNCHANGED callerVars
      /\ localeBatch' = [localeBatch EXCEPT ![task[First].locale] = Append(@, First)]
      /\ localeBatch \in [Locales -> Seq(Callers)]
  BY DEF BatchItems, senderVars, IInv, TypeOK
<1>2. InLine(l, c)' <=> InLine(l, c)
  BY <1>1, InLineSame
<1>3. InLine(l, d)' <=> InLine(l, d)
  BY <1>1, InLineSame
<1>4. CASE task[First].locale # l
  <2>1. localeBatch'[l] = localeBatch[l] /\ ~InLine(l, First)
    BY <1>1, <1>4 DEF InLine
  <2> QED BY <1>1, <1>3, <2>1, QueueBehind
<1>5. CASE task[First].locale = l
  <2> SUFFICES ASSUME Ahead(l, c, d) PROVE Ahead(l, c, d)'
    BY DEF Behind
  <2> PICK k, size : k = Len(batchQueue) /\ size = Len(localeBatch[l])
    OBVIOUS
  <2> DEFINE Place1(p, q) == IF p = k + 2 /\ q = 1 THEN k + 1 ELSE p
             Moved(p, q) == IF p # k + 2 THEN q ELSE IF q = 1 THEN size + 1 ELSE q - 1
  <2>1. /\ reqQueue \in Seq(Callers) /\ reqQueue # << >> /\ reqQueue' = Tail(reqQueue)
        /\ k \in Nat /\ DOMAIN batchQueue = 1 .. k
        /\ localeBatch[l] \in Seq(Callers) /\ size \in Nat
    BY <1>1, LenProperties DEF TakeFirst, IInv, TypeOK
  <2>2. First \in Callers /\ First = reqQueue[1] /\ 1 \in DOMAIN reqQueue
    BY <2>1, TailMembers DEF First
  <2>3. localeBatch'[l] = Append(localeBatch[l], First)
    BY <1>1, <1>5
  <2>4. PICK i, m, j, n : Here(l, c, i, m) /\ Here(l, d, j, n) /\ Before(i, m, j, n)
    BY AheadStands
  <2>5. i \in 0 .. (k + 2) /\ m \in Nat \ {0} /\ j \in 0 .. (k + 2) /\ n \in Nat \ {0}
    BY <2>4, StandsType
  <2>6. /\ size + 1 \in Among(First, localeBatch'[l])
        /\ \A x, q : q \in Among(x, localeBatch[l]) =>
             q \in Among(x, localeBatch'[l]) /\ q \in 1 .. size
    BY <2>1, <2>2, <2>3, AppendAt
  <2>7. \A x, p, q : Here(l, x, p, q) => Here(l, x, Place1(p, q), Moved(p, q))'
    <3>1. ASSUME NEW x, NEW p, NEW q, Here(l, x, p, q)
          PROVE  Here(l, x, Place1(p, q), Moved(p, q))'
      <4>1. CASE p = k + 2
        <5>1. q \in Among(x, reqQueue)
          BY <2>1, <3>1, <4>1 DEF Here, Stands
        <5>2. CASE q = 1
          <6>1. x = First
            BY <2>2, <5>1, <5>2 DEF Among
          <6> QED BY <1>1, <2>1, <2>6, <4>1, <5>2, <6>1 DEF Here, Stands, Among
        <5>3. CASE q # 1
          <6>1. q - 1 \in Among(x, Tail(reqQueue))
            BY <2>1, <5>1, <5>3, TailAt
          <6> QED BY <1>1, <2>1, <4>1, <5>3, <6>1 DEF Here, Stands, Among
        <5> QED BY <5>2, <5>3
      <4>2. CASE p = k + 1
        <5>1. q \in Among(x, localeBatch[l])
          BY <2>1, <3>1, <4>2 DEF Here, Stands
        <5> QED BY <1>1, <2>1, <2>6, <4>2, <5>1 DEF Here, Stands, Among
      <4>3. CASE p # k + 2 /\ p # k + 1
        BY <1>1, <2>1, <3>1, <4>3 DEF Here, Stands, Among
      <4> QED BY <4>1, <4>2, <4>3
    <3> QED BY <3>1
  <2>8. Here(l, c, Place1(i, m), Moved(i, m))' /\ Here(l, d, Place1(j, n), Moved(j, n))'
    BY <2>4, <2>7
  <2>9. i = k + 1 => m \in 1 .. size
    BY <2>1, <2>4, <2>6 DEF Here, Stands
  <2>10. Before(Place1(i, m), Moved(i, m), Place1(j, n), Moved(j, n))
    BY <2>1, <2>4, <2>5, <2>9 DEF Before
  <2> HIDE DEF Place1, Moved
  <2> QED BY <1>2, <1>3, <2>8, <2>10, AheadStands DEF Ahead
<1> QED BY <1>4, <1>5

(* A batch goes to spawn's channel: the one of this locale, or another.    *)
LEMMA GrownBehind ==
  ASSUME IInv, IInv', NEW l \in Locales, NEW c \in Callers, NEW d \in Callers,
         NEW b \in Seq(Callers), batchQueue' = Append(batchQueue, b),
         UNCHANGED << reqQueue, batch >>, UNCHANGED callerVars,
         b = localeBatch[l] \/ localeBatch'[l] = localeBatch[l]
  PROVE  Behind(l, c, d)
<1> SUFFICES ASSUME Ahead(l, c, d) PROVE Ahead(l, c, d)'
  BY DEF Behind
<1> PICK k : k = Len(batchQueue)
  OBVIOUS
<1>1. PICK shift \in {0, 1} : \/ shift = 0 /\ b = localeBatch[l]
                              \/ shift = 1 /\ localeBatch'[l] = localeBatch[l]
  OBVIOUS
<1> DEFINE Moved(p) == IF p = k + 2 THEN p + 1 ELSE IF p = k + 1 THEN p + shift ELSE p
<1>2. k \in Nat /\ DOMAIN batchQueue = 1 .. k
  BY LenProperties DEF IInv, TypeOK
<1>3. /\ Len(batchQueue') = k + 1 /\ DOMAIN batchQueue' = 1 .. (k + 1)
      /\ \A p \in 1 .. k : batchQueue'[p] = batchQueue[p]
      /\ batchQueue'[k + 1] = b
  BY AppendProperties, LenProperties DEF IInv, TypeOK
<1>4. InLine(l, c)' /\ InLine(l, d)'
  BY InLineSame DEF Ahead
<1>5. PICK i, m, j, n : Here(l, c, i, m) /\ Here(l, d, j, n) /\ Before(i, m, j, n)
  BY AheadStands
<1>6. i \in 0 .. (k + 2) /\ m \in Nat \ {0} /\ j \in 0 .. (k + 2) /\ n \in Nat \ {0}
  BY <1>5, StandsType
<1>7. \A x, p, q : Here(l, x, p, q) => Here(l, x, Moved(p), q)'
  <2>1. ASSUME NEW x, NEW p, NEW q, Here(l, x, p, q)
        PROVE  Here(l, x, Moved(p), q)'
    <3>1. CASE p = 0
      BY <1>2, <2>1, <3>1 DEF Here, Stands, Among
    <3>2. CASE p \in 1 .. k
      <4>1. q \in Among(x, batchQueue[p])
        BY <1>2, <2>1, <3>2 DEF Here, Stands
      <4> QED BY <1>2, <1>3, <3>2, <4>1 DEF Here, Stands, Among
    <3>3. CASE p = k + 1
      <4>1. q \in Among(x, localeBatch[l])
        BY <1>2, <2>1, <3>3 DEF Here, Stands
      <4> QED BY <1>1, <1>2, <1>3, <3>3, <4>1 DEF Here, Stands, Among
    <3>4. CASE p = k + 2
      <4>1. q \in Among(x, reqQueue)
        BY <1>2, <2>1, <3>4 DEF Here, Stands
      <4> QED BY <1>2, <1>3, <3>4, <4>1 DEF Here, Stands, Among
    <3> QED BY <1>2, <2>1, <3>1, <3>2, <3>3, <3>4 DEF Here, Stands
  <2> QED BY <2>1
<1>8. Here(l, c, Moved(i), m)' /\ Here(l, d, Moved(j), n)'
  BY <1>5, <1>7
<1>9. Before(Moved(i), m, Moved(j), n)
  BY <1>1, <1>2, <1>5, <1>6 DEF Before
<1> HIDE DEF Moved
<1> QED BY <1>4, <1>8, <1>9, AheadStands

LEMMA TakeBatchBehind ==
  ASSUME IInv, IInv', NEW l \in Locales, NEW c \in Callers, NEW d \in Callers, TakeBatch
  PROVE  Behind(l, c, d)
<1> SUFFICES ASSUME Ahead(l, c, d) PROVE Ahead(l, c, d)'
  BY DEF Behind
<1> PICK k : k = Len(batchQueue)
  OBVIOUS
<1>1. /\ UNCHANGED << reqQueue, localeBatch >> /\ UNCHANGED callerVars
      /\ batch = << >> /\ batchQueue # << >>
      /\ batch' = Head(batchQueue) /\ batchQueue' = Tail(batchQueue)
  BY DEF TakeBatch, batcherVars
<1>2. /\ k \in Nat \ {0} /\ DOMAIN batchQueue = 1 .. k /\ Head(batchQueue) = batchQueue[1]
      /\ Tail(batchQueue) \in Seq(Seq(Callers)) /\ Len(Tail(batchQueue)) = k - 1
      /\ \A p \in DOMAIN Tail(batchQueue) : Tail(batchQueue)[p] = batchQueue[p + 1]
  BY <1>1, TailMembers DEF IInv, TypeOK
<1>3. Len(batchQueue') = k - 1 /\ DOMAIN batchQueue' = 1 .. (k - 1)
  BY <1>1, <1>2, LenProperties
<1>4. InLine(l, c)' /\ InLine(l, d)'
  BY <1>1, InLineSame DEF Ahead
<1>5. PICK i, m, j, n : Here(l, c, i, m) /\ Here(l, d, j, n) /\ Before(i, m, j, n)
  BY AheadStands
<1>6. i \in 0 .. (k + 2) /\ m \in Nat \ {0} /\ j \in 0 .. (k + 2) /\ n \in Nat \ {0}
  BY <1>5, StandsType
<1>7. \A x, p, q : Here(l, x, p, q) => p # 0 /\ Here(l, x, p - 1, q)'
  <2>1. ASSUME NEW x, NEW p, NEW q, Here(l, x, p, q)
        PROVE  p # 0 /\ Here(l, x, p - 1, q)'
    <3>1. p # 0
      BY <1>1, <1>2, <2>1 DEF Here, Stands, Among
    <3>2. CASE p = 1
      <4>1. q \in Among(x, batchQueue[1])
        BY <1>2, <2>1, <3>2 DEF Here, Stands
      <4> QED BY <1>1, <1>2, <3>2, <4>1 DEF Here, Stands, Among
    <3>3. CASE p \in 2 .. k
      <4>1. q \in Among(x, batchQueue[p])
        BY <1>2, <2>1, <3>3 DEF Here, Stands
      <4>2. p - 1 \in DOMAIN batchQueue' /\ batchQueue'[p - 1] = batchQueue[p]
        BY <1>1, <1>2, <1>3, <3>3
      <4> QED BY <3>1, <4>1, <4>2 DEF Here, Stands, Among
    <3>4. CASE p = k + 1
      <4>1. q \in Among(x, localeBatch[l])
        BY <1>2, <2>1, <3>4 DEF Here, Stands
      <4> QED BY <1>1, <1>2, <1>3, <3>4, <4>1 DEF Here, Stands, Among
    <3>5. CASE p = k + 2
      <4>1. q \in Among(x, reqQueue)
        BY <1>2, <2>1, <3>5 DEF Here, Stands
      <4> QED BY <1>1, <1>2, <1>3, <3>5, <4>1 DEF Here, Stands, Among
    <3> QED BY <1>2, <2>1, <3>1, <3>2, <3>3, <3>4, <3>5 DEF Here, Stands
  <2> QED BY <2>1
<1>8. Here(l, c, i - 1, m)' /\ Here(l, d, j - 1, n)'
  BY <1>5, <1>7
<1>9. Before(i - 1, m, j - 1, n)
  BY <1>2, <1>5, <1>6 DEF Before
<1> QED BY <1>4, <1>8, <1>9, AheadStands


(* The first request of the batch in hand is answered: it leaves the line, *)
(* and nobody was ahead of it.                                             *)
LEMMA HandOutBehind ==
  ASSUME IInv, IInv', NEW l \in Locales, NEW c \in Callers, NEW d \in Callers, HandOut
  PROVE  Behind(l, c, d) /\ (InLine(l, d)' => InLine(l, d))
<1>1. PICK e \in Callers :
        e = batch[1] /\ pc[e] = "wait" /\ (Returns(e) \/ AsksOn(e) \/ Panics(e))
  BY HandOutStep
<1>2. TypeOK /\ Placed /\ NoneTwice /\ Asking(e) /\ HandOut
  BY DEF IInv
<1>3. /\ pc'[e] # "wait" /\ task' = task
      /\ \A x \in Callers \ {e} : stage'[x] = stage[x] /\ pc'[x] = pc[x]
  BY <1>1, <1>2, ReceiveEffect
<1>4. \A x \in Callers : /\ x # e => (InLine(l, x)' <=> InLine(l, x))
                         /\ ~InLine(l, e)'
  BY <1>3 DEF InLine
<1>5. ASSUME Ahead(l, c, d), InLine(l, c)' PROVE Ahead(l, c, d)'
  <2> PICK k : k = Len(batchQueue)
    OBVIOUS
  <2> DEFINE Moved(p, q) == IF p = 0 THEN q - 1 ELSE q
  <2>1. /\ UNCHANGED << reqQueue, localeBatch, batchQueue >>
        /\ batch \in Seq(Callers) /\ batch' = Tail(batch)
        /\ responses # << >>
    BY DEF HandOut, batcherVars, IInv, TypeOK
  <2>2. batch # << >>
    BY <2>1, NoBatchNoResponses
  <2>3. Head(batch) = e /\ e \in Members(batch) /\ 1 \in DOMAIN batch
    BY <1>1, <2>1, <2>2, TailMembers
  <2>4. PICK i, m, j, n : Here(l, c, i, m) /\ Here(l, d, j, n) /\ Before(i, m, j, n)
    BY <1>5, AheadStands
  <2>5. /\ k \in Nat /\ DOMAIN batchQueue = 1 .. k
        /\ i \in 0 .. (k + 2) /\ m \in Nat \ {0} /\ j \in 0 .. (k + 2) /\ n \in Nat \ {0}
    BY <2>4, StandsType
  <2>6. c # e
    BY <1>4, <1>5
  <2>7. d # e
    <3> SUFFICES ASSUME d = e PROVE FALSE
      OBVIOUS
    <3>1. e \notin InQueued /\ e \notin InBatches /\ e \notin Members(reqQueue)
      BY <1>2, <2>3 DEF Placed, Apart
    <3>2. \/ j = 0 /\ n \in Among(e, batch)
          \/ j \in DOMAIN batchQueue /\ n \in Among(e, batchQueue[j])
          \/ n \in Among(e, localeBatch[l])
          \/ n \in Among(e, reqQueue)
      BY <2>4 DEF Here, Stands
    <3>3. \A s, p : p \in Among(e, s) => e \in Members(s)
      BY DEF Among, Members
    <3>4. j = 0 /\ n \in Among(e, batch)
      BY <3>1, <3>2, <3>3, InQueuedDef, InBatchesDef
    <3>5. n = 1
      BY <1>1, <1>2, <2>3, <3>4 DEF NoneTwice, Once, Among
    <3> QED BY <2>4, <2>5, <3>4, <3>5 DEF Before
  <2>8. \A x, p, q : Here(l, x, p, q) /\ x # e => Here(l, x, p, Moved(p, q))'
    <3>1. ASSUME NEW x, NEW p, NEW q, Here(l, x, p, q), x # e
          PROVE  Here(l, x, p, Moved(p, q))'
      <4>1. CASE p = 0
        <5>1. q \in Among(x, batch)
          BY <2>5, <3>1, <4>1 DEF Here, Stands
        <5>2. q - 1 \in Among(x, Tail(batch))
          BY <2>1, <2>2, <2>3, <3>1, <5>1, TailAt
        <5> QED BY <2>1, <4>1, <5>2 DEF Here, Stands, Among
      <4>2. CASE p # 0
        BY <2>1, <3>1, <4>2 DEF Here, Stands, Among
      <4> QED BY <4>1, <4>2
    <3> QED BY <3>1
  <2>9. Here(l, c, i, Moved(i, m))' /\ Here(l, d, j, Moved(j, n))'
    BY <2>4, <2>6, <2>7, <2>8
  <2>10. Before(i, Moved(i, m), j, Moved(j, n))
    BY <2>4, <2>5 DEF Before
  <2>11. InLine(l, d)'
    BY <1>4, <1>5, <2>7 DEF Ahead
  <2> HIDE DEF Moved
  <2> QED BY <1>5, <2>9, <2>10, <2>11, AheadStands
<1> QED BY <1>4, <1>5 DEF Behind

(* A url that is refused was in no line; a caller that asks waits for      *)
(* nothing yet.                                                            *)
LEMMA RefuseUrlBehind ==
  ASSUME IInv, IInv', NEW l \in Locales, NEW c \in Callers, NEW d \in Callers, RefuseUrl
  PROVE  Behind(l, c, d) /\ (InLine(l, d)' => InLine(l, d))
<1>1. PICK e \in Callers :
        e = First /\ pc[e] = "wait" /\ (Returns(e) \/ AsksOn(e) \/ Panics(e))
  BY RefuseUrlStep
<1>2. TypeOK /\ Asking(e) /\ TakeFirst /\ IsBadUrl(First)
      /\ UNCHANGED << localeBatch[l], batchQueue, batch >>
  BY DEF IInv, RefuseUrl, batcherVars, senderVars
<1>3. /\ pc'[e] # "wait" /\ task' = task
      /\ \A x \in Callers \ {e} : stage'[x] = stage[x] /\ pc'[x] = pc[x]
  BY <1>1, <1>2, ReceiveEffect
<1>4. ~InLine(l, First)
  BY <1>2, TasksAssumption DEF InLine, IsBadUrl
<1>5. \A x \in Callers : InLine(l, x)' <=> InLine(l, x)
  BY <1>1, <1>3, <1>4 DEF InLine
<1> QED BY <1>2, <1>4, <1>5, QueueBehind

LEMMA RequestBehind ==
  ASSUME IInv, IInv', NEW l \in Locales, NEW c \in Callers, NEW d \in Callers,
         NEW e \in Callers, NEW t \in Tasks, Request(e, t)
  PROVE  Behind(l, c, d) /\ (InLine(l, d)' => InLine(l, d))
<1>1. \A x \in Callers : InLine(l, x)' <=> InLine(l, x)
  BY DEF Request, InLine, IInv, TypeOK
<1>2. UNCHANGED << reqQueue, localeBatch, batchQueue, batch >>
  BY DEF Request, batcherVars, senderVars
<1> QED BY <1>1, <1>2, UntouchedBehind

(* No request overtakes another on its way through the actor.              *)
THEOREM InOrder == Spec => FirstComeFirstServed
<1> DEFINE Kept(l, c, d) ==
             InLine(l, c) /\ InLine(l, c)' =>
               /\ Ahead(l, c, d) => Ahead(l, c, d)'
               /\ ~InLine(l, d) /\ InLine(l, d)' => Ahead(l, c, d)'
<1>1. ASSUME IInv, IInv', [Next]_vars, NEW l \in Locales, NEW c \in Callers, NEW d \in Callers
      PROVE  Kept(l, c, d)
  <2>1. Behind(l, c, d) /\ (InLine(l, d)' => InLine(l, d)) => Kept(l, c, d)
    BY DEF Behind
  <2>2. ASSUME UNCHANGED callerVars, Behind(l, c, d) PROVE Kept(l, c, d)
    BY <2>1, <2>2, InLineSame
  <2>3. ASSUME UNCHANGED callerVars,
               UNCHANGED << reqQueue, localeBatch, batchQueue, batch >>
        PROVE  Kept(l, c, d)
    BY <1>1, <2>2, <2>3, InLineSame, UntouchedBehind
  <2>4. ASSUME NEW e \in Callers, RequestActor(e) PROVE Kept(l, c, d)
    BY <1>1, <2>4, RequestActorBehind DEF Behind
  <2>5. ASSUME NEW e \in Callers, NEW t \in Tasks, Request(e, t) PROVE Kept(l, c, d)
    BY <1>1, <2>1, <2>5, RequestBehind
  <2>6. CASE RefuseUrl
    BY <1>1, <2>1, <2>6, RefuseUrlBehind
  <2>7. CASE HandOut
    BY <1>1, <2>1, <2>7, HandOutBehind
  <2>8. CASE BatchVariations
    <3>1. /\ TakeFirst /\ UNCHANGED callerVars /\ ~InLine(l, First)
          /\ UNCHANGED << localeBatch[l], batchQueue, batch >>
      BY <2>8 DEF BatchVariations, senderVars, InLine
    <3> QED BY <1>1, <2>2, <3>1, InLineSame, QueueBehind
  <2>9. CASE BatchItems
    <3>1. UNCHANGED callerVars
      BY <2>9 DEF BatchItems
    <3> QED BY <1>1, <2>2, <2>9, <3>1, BatchItemsBehind
  <2>10. ASSUME NEW e \in Locales, Flush(e) PROVE Kept(l, c, d)
    <3>1. /\ UNCHANGED << reqQueue, batch >> /\ UNCHANGED callerVars
          /\ batchQueue' = Append(batchQueue, localeBatch[e])
          /\ localeBatch[e] \in Seq(Callers)
          /\ localeBatch[e] = localeBatch[l] \/ localeBatch'[l] = localeBatch[l]
      BY <1>1, <2>10 DEF Flush, senderVars, IInv, TypeOK
    <3>2. PICK b \in Seq(Callers) : b = localeBatch[e]
      BY <3>1
    <3>3. Behind(l, c, d)
      BY <1>1, <3>1, <3>2, GrownBehind
    <3> QED BY <2>2, <3>1, <3>3
  <2>11. CASE FlushSingle
    <3>1. /\ UNCHANGED << reqQueue, batch >> /\ UNCHANGED callerVars
          /\ batchQueue' = Append(batchQueue, single)
          /\ single \in Seq(Callers) /\ localeBatch'[l] = localeBatch[l]
      BY <1>1, <2>11 DEF FlushSingle, senderVars, IInv, TypeOK
    <3> QED BY <1>1, <2>2, <3>1, GrownBehind
  <2>12. CASE TakeBatch
    <3>1. UNCHANGED callerVars
      BY <2>12 DEF TakeBatch
    <3> QED BY <1>1, <2>2, <2>12, <3>1, TakeBatchBehind
  <2>13. Tick \/ TakeTick \/ RateLimited \/ GetResults \/ Dead \/ UNCHANGED vars =>
           /\ UNCHANGED callerVars
           /\ UNCHANGED << reqQueue, localeBatch, batchQueue, batch >>
    BY DEF Tick, TakeTick, RateLimited, GetResults, Dead, vars, batcherVars, senderVars
  <2> HIDE DEF Kept
  <2> QED BY <1>1, <2>3, <2>4, <2>5, <2>6, <2>7, <2>8, <2>9, <2>10, <2>11, <2>12, <2>13
          DEF Next, Batcher, Sender
<1>2. ASSUME IInv, IInv', [Next]_vars
      PROVE  [\A l \in Locales : \A c \in Callers :
                InLine(l, c) /\ InLine(l, c)' =>
                  \A d \in Callers :
                    /\ Ahead(l, c, d) => Ahead(l, c, d)'
                    /\ ~InLine(l, d) /\ InLine(l, d)' => Ahead(l, c, d)']_vars
  BY <1>1, <1>2
<1> QED BY <1>2, Invariance, PTL DEF Spec, FirstComeFirstServed
=============================================================================
