-------------------------- MODULE CrawlBatchProofs --------------------------
(* Theorems about CrawlBatch, for every batch, number of workers and job   *)
(* type.                                                                   *)
EXTENDS CrawlBatch, SequenceTheorems, FiniteSetTheorems, TLAPS

-----------------------------------------------------------------------------
(* What sending to a Go channel and receiving from it do to the sequence   *)
(* that stands for it.                                                     *)

(* Sending to a channel adds one element, at its end.                      *)
LEMMA SendProperties ==
  ASSUME NEW S, NEW s \in Seq(S), NEW e \in S
  PROVE  /\ Append(s, e) \in Seq(S)
         /\ Len(Append(s, e)) = Len(s) + 1
         /\ DOMAIN Append(s, e) = 1 .. Len(s) + 1
         /\ \A i \in 1 .. Len(s) : Append(s, e)[i] = s[i]
         /\ Append(s, e)[Len(s) + 1] = e
  OBVIOUS

(* Receiving from a channel removes its first element.                     *)
LEMMA ReceiveProperties ==
  ASSUME NEW S, NEW s \in Seq(S), s # << >>
  PROVE  /\ Len(s) \in Nat \ {0}
         /\ DOMAIN s = 1 .. Len(s)
         /\ Head(s) = s[1]
         /\ Head(s) \in S
         /\ Tail(s) \in Seq(S)
         /\ DOMAIN Tail(s) = 1 .. Len(s) - 1
         /\ \A i \in 1 .. Len(s) - 1 : Tail(s)[i] = s[i + 1]
  <1>1. Len(s) \in Nat \ {0} /\ DOMAIN s = 1 .. Len(s)
    BY EmptySeq, LenProperties
  <1>2. Tail(s) \in Seq(S) /\ Len(Tail(s)) = Len(s) - 1 /\ Head(s) \in S
    BY HeadTailProperties
  <1>3. \A i \in 1 .. Len(s) - 1 : Tail(s)[i] = s[i + 1]
    BY HeadTailProperties, <1>2
  <1>4. DOMAIN Tail(s) = 1 .. Len(s) - 1
    BY <1>2, LenProperties
  <1>5. Head(s) = s[1]
    OBVIOUS
  <1> QED BY <1>1, <1>2, <1>3, <1>4, <1>5

(* t is s without the first of its n pairwise distinct elements.           *)
Shifted(n, s, t) ==
  /\ n \in Nat \ {0}
  /\ \A i \in 1 .. n - 1 : t[i] = s[i + 1]
  /\ \A i, j \in 1 .. n : s[i] = s[j] => i = j

(* Dropping it drops it from their set, and leaves the others distinct.    *)
Dropped(n, s, t) ==
  /\ \A x : (\E i \in 1 .. n - 1 : t[i] = x)
              <=> x # s[1] /\ \E i \in 1 .. n : s[i] = x
  /\ \A i, j \in 1 .. n - 1 : t[i] = t[j] => i = j

LEMMA DropFirst ==
  ASSUME NEW n, NEW s, NEW t, Shifted(n, s, t)
  PROVE  Dropped(n, s, t)
  <1> USE DEF Shifted
  <1>1. ASSUME NEW i \in 1 .. n - 1
        PROVE  t[i] # s[1] /\ \E k \in 1 .. n : s[k] = t[i]
    <2>1. i + 1 \in 1 .. n /\ 1 \in 1 .. n /\ i + 1 # 1 /\ t[i] = s[i + 1]
      OBVIOUS
    <2>2. s[i + 1] # s[1]
      BY <2>1
    <2> QED BY <2>1, <2>2
  <1>2. ASSUME NEW i \in 1 .. n, s[i] # s[1]
        PROVE  \E k \in 1 .. n - 1 : t[k] = s[i]
    <2>1. i - 1 \in 1 .. n - 1 /\ (i - 1) + 1 = i
      BY <1>2
    <2>2. t[i - 1] = s[i]
      BY <2>1
    <2> QED BY <2>1, <2>2
  <1>3. ASSUME NEW i \in 1 .. n - 1, NEW j \in 1 .. n - 1, t[i] = t[j]
        PROVE  i = j
    <2>1. i + 1 \in 1 .. n /\ j + 1 \in 1 .. n /\ s[i + 1] = s[j + 1]
      BY <1>3
    <2>2. i + 1 = j + 1
      BY <2>1
    <2> QED BY <2>2
  <1> QED BY <1>1, <1>2, <1>3 DEF Dropped

(* A channel whose elements are pairwise distinct members of a finite set  *)
(* that lacks one of them is shorter than the set.                         *)
LEMMA ShorterThan ==
  ASSUME NEW S, NEW T, IsFiniteSet(T), NEW s \in Seq(S), NEW key,
         key \in [1 .. Len(s) -> T],
         \A i, j \in 1 .. Len(s) : key[i] = key[j] => i = j,
         NEW t \in T, \A i \in 1 .. Len(s) : key[i] # t
  PROVE  Len(s) < Cardinality(T)
  <1>1. Len(s) \in Nat
    BY LenProperties
  <1>2. IsFiniteSet(T \ {t}) /\ Cardinality(T \ {t}) = Cardinality(T) - 1
    BY FS_RemoveElement
  <1>3. Cardinality(T) \in Nat
    BY FS_CardinalityType
  <1>4. key \in Injection(1 .. Len(s), T \ {t})
    BY DEF Injection, IsInjective
  <1>5. Cardinality(1 .. Len(s)) <= Cardinality(T) - 1
    BY <1>2, <1>4, FS_Injection
  <1>6. Cardinality(1 .. Len(s)) = Len(s)
    <2>1. 1 \in Int /\ Len(s) \in Int
      BY <1>1
    <2>2. Cardinality(1 .. Len(s)) = IF 1 > Len(s) THEN 0 ELSE Len(s) - 1 + 1
      BY <2>1, FS_Interval
    <2> QED BY <1>1, <2>2
  <1> QED BY <1>1, <1>3, <1>5, <1>6

-----------------------------------------------------------------------------
(* The inductive invariant.                                                *)

Busy == {"parse", "prepare", "store", "crawl", "send"}

(* A worker holds a task exactly while it is busy, and a workflow when it  *)
(* is about to send it; only the discovery pipeline prepares its input.    *)
WorkerState ==
  \A w \in Workers :
    /\ workerPc[w] \in Busy <=> url[w] # NoUrl
    /\ workerPc[w] = "send" => workflow[w] \in Outcomes
    /\ workerPc[w] \in {"prepare", "store"} => IsDiscovery

(* Only a discovery task resends old variations.                           *)
RecrawlerState == \A u \in Urls : recrawler[u] # "none" => IsDiscovery

(* Nothing moves before the workers are started.                           *)
NotStarted ==
  mainPc = "start" =>
    /\ toFeed = {} /\ inputCh = << >> /\ outputCh = << >> /\ received = 0
    /\ workerPc = [w \in Workers |-> "unborn"]
    /\ url = [w \in Workers |-> NoUrl]
    /\ crawlResults = [u \in Urls |-> NoOutcome]

Base == TypeOK /\ WorkerState /\ RecrawlerState /\ NotStarted

(* Each step keeps the types and what a worker holds.                      *)
LEMMA BaseInit == Init => Base
  <1> SUFFICES ASSUME Init PROVE Base
    OBVIOUS
  <1>1. << >> \in Seq(Urls) /\ << >> \in Seq([url : Urls, workflow : Outcomes])
    BY EmptySeq
  <1>2. TypeOK
    BY <1>1 DEF Init, TypeOK
  <1>3. WorkerState /\ RecrawlerState /\ NotStarted
    BY DEF Init, WorkerState, RecrawlerState, NotStarted, Busy
  <1> QED BY <1>2, <1>3 DEF Base

LEMMA BaseStep == Base /\ [Next]_vars => Base'
  <1> SUFFICES ASSUME Base, [Next]_vars PROVE Base'
    OBVIOUS
  <1> USE WorkersAssumption, UrlsAssumption, OutcomesAssumption
          DEF Base, TypeOK, WorkerState, RecrawlerState, NotStarted, IsDiscovery,
              Busy
  <1>1. CASE StartWorkers
    BY <1>1 DEF StartWorkers
  <1>2. ASSUME NEW u \in Urls, Feed(u) PROVE Base'
    <2>1. inputCh' \in Seq(Urls)
      BY <1>2, SendProperties DEF Feed
    <2> QED BY <1>2, <2>1 DEF Feed
  <1>3. CASE FeedMeetsWrite \/ NoSampleWorkflow
    BY <1>3 DEF FeedMeetsWrite, NoSampleWorkflow, Abort
  <1>4. CASE CloseInput
    BY <1>4 DEF CloseInput
  <1>5. CASE Collect
    <2>1. /\ outputCh' \in Seq([url : Urls, workflow : Outcomes])
          /\ Head(outputCh) \in [url : Urls, workflow : Outcomes]
      BY <1>5, ReceiveProperties DEF Collect
    <2>2. crawlResults' \in [Urls -> Outcomes \cup {NoOutcome}]
      BY <1>5, <2>1 DEF Collect
    <2> QED BY <1>5, <2>1, <2>2 DEF Collect
  <1>6. CASE Return
    BY <1>6 DEF Return, IsTranslateCrawl
  <1>7. ASSUME NEW w \in Workers, Receive(w) PROVE Base'
    <2>1. inputCh' \in Seq(Urls) /\ Head(inputCh) \in Urls
      BY <1>7, ReceiveProperties DEF Receive
    <2>2. url' \in [Workers -> Urls \cup {NoUrl}] /\ url'[w] # NoUrl
      BY <1>7, <2>1 DEF Receive
    <2> QED BY <1>7, <2>1, <2>2 DEF Receive, Goto
  <1>8. ASSUME NEW w \in Workers, Quit(w) PROVE Base'
    BY <1>8 DEF Quit, Goto
  <1>9. ASSUME NEW w \in Workers, ParseParams(w) PROVE Base'
    BY <1>9 DEF ParseParams, Goto, batchVars
  <1>10. ASSUME NEW w \in Workers,
                NilPipeline(w) \/ ParseMeetsWrite(w) \/ NilDomainInfo(w)
                \/ CrawlMeetsWrite(w) \/ CrawlDies(w)
         PROVE Base'
    BY <1>10
    DEF NilPipeline, ParseMeetsWrite, CrawlMeetsWrite, CrawlDies, NilDomainInfo, Abort
  <1>11. ASSUME NEW w \in Workers, ParamsUnreadable(w) PROVE Base'
    BY <1>11 DEF ParamsUnreadable, Goto, batchVars
  <1>12. ASSUME NEW w \in Workers, BeginStore(w) \/ EndStore(w) PROVE Base'
    <2>1. CASE BeginStore(w)
      BY <2>1 DEF BeginStore, Goto, batchVars
    <2>2. CASE EndStore(w)
      BY <2>2 DEF EndStore, Goto, batchVars
    <2> QED BY <1>12, <2>1, <2>2
  <1>13. ASSUME NEW w \in Workers, Crawl(w) PROVE Base'
    BY <1>13 DEF Crawl, Goto, batchVars
  <1>14. ASSUME NEW w \in Workers, Send(w) PROVE Base'
    <2>1. [url |-> url[w], workflow |-> workflow[w]]
            \in [url : Urls, workflow : Outcomes]
      BY <1>14 DEF Send, Goto
    <2>2. outputCh' \in Seq([url : Urls, workflow : Outcomes])
      BY <1>14, <2>1, SendProperties DEF Send
    <2> QED BY <1>14, <2>2 DEF Send, Goto, batchVars
  <1>15. ASSUME NEW u \in Urls,
                BeginWriteParams(u) \/ EndWriteParams(u) \/ RecrawlActions(u)
                \/ RecrawlMeetsWrite(u)
         PROVE Base'
    BY <1>15 DEF BeginWriteParams, EndWriteParams, RecrawlActions, RecrawlMeetsWrite, Abort,
                 batchVars
  <1>16. CASE UNCHANGED vars
    BY <1>16 DEF vars
  <1>17. CASE Main
    BY <1>1, <1>2, <1>3, <1>4, <1>5, <1>6, <1>17 DEF Main
  <1>18. ASSUME NEW w \in Workers, Worker(w) PROVE Base'
    BY <1>7, <1>8, <1>9, <1>10, <1>11, <1>12, <1>13, <1>14, <1>18 DEF Worker
  <1>19. ASSUME NEW u \in Urls, Recrawler(u) PROVE Base'
    BY <1>15, <1>19 DEF Recrawler
  <1> QED BY <1>16, <1>17, <1>18, <1>19 DEF Next, Terminated

-----------------------------------------------------------------------------
(* Every task is in one place.                                             *)

places == << jobInput, toFeed, inputCh, url, outputCh, crawlResults >>

(* A step that moves no task keeps the ledger.                             *)
LEMMA PlacesUnchanged ==
  ASSUME EachTaskInOnePlace, UNCHANGED places,
         mainPc' # "start" => mainPc # "start"
  PROVE  EachTaskInOnePlace'
  BY DEF EachTaskInOnePlace, places, Queued, Held, Sent, Answered

LEMMA FeedMoves ==
  ASSUME Base, EachTaskInOnePlace, NEW u \in Urls, Feed(u)
  PROVE  EachTaskInOnePlace' /\ Queued' = Queued \cup {u}
  <1> USE DEF Base, TypeOK, Feed
  <1>1. /\ DOMAIN inputCh = 1 .. Len(inputCh) /\ Len(inputCh) \in Nat
        /\ DOMAIN inputCh' = 1 .. Len(inputCh) + 1
        /\ \A i \in 1 .. Len(inputCh) : inputCh'[i] = inputCh[i]
        /\ inputCh'[Len(inputCh) + 1] = u
    BY SendProperties, LenProperties
  <1>2. Queued' = Queued \cup {u}
    <2> HIDE DEF Base, TypeOK, Feed
    <2>1. 1 .. Len(inputCh) + 1 = 1 .. Len(inputCh) \cup {Len(inputCh) + 1}
      BY <1>1
    <2> QED BY <1>1, <2>1 DEF Queued
  <1>3. Held' = Held /\ Sent' = Sent /\ Answered' = Answered
    BY DEF Held, Sent, Answered
  <1>4. u \notin Queued
    BY DEF EachTaskInOnePlace
  <1>5. \A i, j \in DOMAIN inputCh' : inputCh'[i] = inputCh'[j] => i = j
    BY <1>1, <1>4 DEF EachTaskInOnePlace, Queued
  <1>6. /\ jobInput'.tasks = toFeed' \cup Queued' \cup Held' \cup Sent' \cup Answered'
        /\ toFeed' \cap (Queued' \cup Held' \cup Sent' \cup Answered') = {}
        /\ Queued' \cap (Held' \cup Sent' \cup Answered') = {}
    BY <1>2, <1>3 DEF EachTaskInOnePlace
  <1> QED BY <1>2, <1>3, <1>5, <1>6 DEF EachTaskInOnePlace

LEMMA ReceiveMoves ==
  ASSUME Base, EachTaskInOnePlace, NEW w \in Workers, Receive(w)
  PROVE  /\ EachTaskInOnePlace'
         /\ url'[w] \in Queued /\ Queued' = Queued \ {url'[w]}
  <1> DEFINE u == Head(inputCh)
  <1> USE DEF Base, TypeOK, Receive, Goto
  <1>1. /\ Len(inputCh) \in Nat \ {0}
        /\ DOMAIN inputCh = 1 .. Len(inputCh)
        /\ u = inputCh[1] /\ u \in Urls
        /\ DOMAIN inputCh' = 1 .. Len(inputCh) - 1
        /\ \A i \in 1 .. Len(inputCh) - 1 : inputCh'[i] = inputCh[i + 1]
    BY ReceiveProperties
  <1> HIDE DEF u
  <1>2. mainPc # "start"
    BY DEF NotStarted
  <1>3. \A i, j \in DOMAIN inputCh : inputCh[i] = inputCh[j] => i = j
    BY <1>2 DEF EachTaskInOnePlace
  <1>4. u \in Queued
    <2> HIDE DEF Base, TypeOK, Receive, Goto
    <2>1. 1 \in DOMAIN inputCh
      BY <1>1
    <2> QED BY <1>1, <2>1 DEF Queued
  <1>5. /\ Queued' = Queued \ {u}
        /\ \A i, j \in DOMAIN inputCh' : inputCh'[i] = inputCh'[j] => i = j
    <2> HIDE DEF Base, TypeOK, Receive, Goto
    <2> DEFINE n == Len(inputCh)
               t == inputCh'
    <2>0. Shifted(n, inputCh, t)
      BY <1>1, <1>3 DEF Shifted
    <2> HIDE DEF n, t
    <2>1. Dropped(n, inputCh, t)
      BY <2>0, DropFirst
    <2>2. DOMAIN inputCh = 1 .. n /\ DOMAIN inputCh' = 1 .. n - 1 /\ u = inputCh[1]
      BY <1>1 DEF n
    <2>3. \A x : x \in Queued <=> \E i \in 1 .. n : inputCh[i] = x
      BY <2>2 DEF Queued
    <2>4. \A x : x \in Queued' <=> \E i \in 1 .. n - 1 : t[i] = x
      BY <2>2 DEF Queued, t
    <2>5. Queued' = Queued \ {u}
      BY <2>1, <2>2, <2>3, <2>4 DEF Dropped
    <2> QED BY <2>1, <2>2, <2>5 DEF t, Dropped
  <1>6. url[w] = NoUrl /\ url' = [url EXCEPT ![w] = u]
    BY DEF WorkerState, Busy, u
  <1>7. Held' = Held \cup {u} /\ u \notin Held
    <2>1. u \notin Held
      BY <1>2, <1>4 DEF EachTaskInOnePlace
    <2> QED BY <1>1, <1>6, <2>1, UrlsAssumption DEF Held
  <1>8. Sent' = Sent /\ Answered' = Answered /\ toFeed' = toFeed
    BY DEF Sent, Answered
  <1>9. \A v, x \in Workers : url'[v] = url'[x] /\ url'[v] # NoUrl => v = x
    BY <1>2, <1>6, <1>7, <1>1 DEF EachTaskInOnePlace, Held
  <1>10. /\ jobInput'.tasks = toFeed' \cup Queued' \cup Held' \cup Sent' \cup Answered'
         /\ toFeed' \cap (Queued' \cup Held' \cup Sent' \cup Answered') = {}
         /\ Queued' \cap (Held' \cup Sent' \cup Answered') = {}
         /\ Held' \cap (Sent' \cup Answered') = {}
    BY <1>2, <1>4, <1>5, <1>7, <1>8 DEF EachTaskInOnePlace
  <1>11. EachTaskInOnePlace'
    BY <1>2, <1>5, <1>8, <1>9, <1>10 DEF EachTaskInOnePlace
  <1> QED BY <1>4, <1>5, <1>6, <1>11

LEMMA SendMoves ==
  ASSUME Base, EachTaskInOnePlace, NEW w \in Workers, Send(w)
  PROVE  /\ EachTaskInOnePlace'
         /\ Sent' = Sent \cup {url[w]} /\ url[w] \notin Sent
  <1> DEFINE u == url[w]
             e == [url |-> url[w], workflow |-> workflow[w]]
  <1> USE DEF Base, TypeOK, Send, Goto, batchVars
  <1>1. u # NoUrl /\ u \in Urls /\ mainPc # "start"
    BY DEF WorkerState, Busy, NotStarted
  <1>2. e \in [url : Urls, workflow : Outcomes] /\ e.url = u
    BY <1>1 DEF WorkerState
  <1> HIDE DEF e
  <1>3. /\ DOMAIN outputCh = 1 .. Len(outputCh) /\ Len(outputCh) \in Nat
        /\ DOMAIN outputCh' = 1 .. Len(outputCh) + 1
        /\ \A i \in 1 .. Len(outputCh) : outputCh'[i] = outputCh[i]
        /\ outputCh'[Len(outputCh) + 1] = e
    BY <1>2, SendProperties, LenProperties DEF e
  <1> HIDE DEF u
  <1>4. Sent' = Sent \cup {u}
    <2> HIDE DEF Base, TypeOK, Send, Goto, batchVars
    <2>1. \A i \in 1 .. Len(outputCh) : outputCh'[i].url = outputCh[i].url
      BY <1>3
    <2>2. outputCh'[Len(outputCh) + 1].url = u
      BY <1>2, <1>3
    <2>3. /\ 1 .. Len(outputCh) + 1 = 1 .. Len(outputCh) \cup {Len(outputCh) + 1}
          /\ DOMAIN outputCh' = 1 .. Len(outputCh) + 1
          /\ DOMAIN outputCh = 1 .. Len(outputCh)
      BY <1>3
    <2> QED BY <2>1, <2>2, <2>3 DEF Sent
  <1>5. u \in Held /\ u \notin Sent
    BY <1>1 DEF Held, u, EachTaskInOnePlace
  <1>6. Held' = Held \ {u}
    BY <1>1, UrlsAssumption DEF Held, u, EachTaskInOnePlace
  <1>7. Queued' = Queued /\ Answered' = Answered /\ toFeed' = toFeed
    BY DEF Queued, Answered
  <1>8. \A i, j \in DOMAIN outputCh' : outputCh'[i].url = outputCh'[j].url => i = j
    BY <1>1, <1>2, <1>3, <1>5 DEF EachTaskInOnePlace, Sent
  <1>9. \A v, x \in Workers : url'[v] = url'[x] /\ url'[v] # NoUrl => v = x
    BY <1>1 DEF EachTaskInOnePlace
  <1>10. /\ jobInput'.tasks = toFeed' \cup Queued' \cup Held' \cup Sent' \cup Answered'
         /\ toFeed' \cap (Queued' \cup Held' \cup Sent' \cup Answered') = {}
         /\ Queued' \cap (Held' \cup Sent' \cup Answered') = {}
         /\ Held' \cap (Sent' \cup Answered') = {}
         /\ Sent' \cap Answered' = {}
    BY <1>1, <1>4, <1>5, <1>6, <1>7 DEF EachTaskInOnePlace
  <1>11. EachTaskInOnePlace'
    BY <1>1, <1>7, <1>8, <1>9, <1>10 DEF EachTaskInOnePlace
  <1> QED BY <1>4, <1>5, <1>11 DEF u

LEMMA CollectMoves ==
  ASSUME Base, EachTaskInOnePlace, Collect
  PROVE  /\ EachTaskInOnePlace'
         /\ \E u \in jobInput.tasks \ Answered, o \in Outcomes :
              /\ crawlResults' = [crawlResults EXCEPT ![u] = o]
              /\ Answered' = Answered \cup {u}
         /\ \E u \in Sent : Sent' = Sent \ {u}
  <1> DEFINE r == Head(outputCh)
             n == Len(outputCh)
             s == [i \in 1 .. n |-> outputCh[i].url]
             t == [i \in 1 .. n - 1 |-> outputCh'[i].url]
  <1> USE DEF Base, TypeOK
  <1>1. /\ n \in Nat \ {0}
        /\ DOMAIN outputCh = 1 .. n
        /\ r = outputCh[1]
        /\ r \in [url : Urls, workflow : Outcomes]
        /\ DOMAIN outputCh' = 1 .. n - 1
        /\ \A i \in 1 .. n - 1 : outputCh'[i] = outputCh[i + 1]
    BY ReceiveProperties DEF Collect
  <1> HIDE DEF r, n
  <1>2. mainPc = "collect" /\ mainPc' = "collect"
    BY DEF Collect
  <1>3. \A i, j \in 1 .. n : s[i] = s[j] => i = j
    BY <1>1, <1>2 DEF EachTaskInOnePlace
  <1>4. /\ \A i \in 1 .. n - 1 : t[i] = s[i + 1]
        /\ \A i \in 1 .. n : s[i] = outputCh[i].url
        /\ \A i \in 1 .. n - 1 : t[i] = outputCh'[i].url
    BY <1>1
  <1>5. \A x : x \in Sent <=> \E i \in 1 .. n : s[i] = x
    <2> HIDE DEF s, t, Base, TypeOK
    <2>1. Sent = {outputCh[i].url : i \in 1 .. n}
      BY <1>1 DEF Sent
    <2> QED BY <1>4, <2>1
  <1>6. \A x : x \in Sent' <=> \E i \in 1 .. n - 1 : t[i] = x
    <2> HIDE DEF s, t, Base, TypeOK
    <2>1. Sent' = {outputCh'[i].url : i \in 1 .. n - 1}
      BY <1>1 DEF Sent
    <2> QED BY <1>4, <2>1
  <1>7. s[1] = r.url /\ r.url \in Urls /\ r.workflow \in Outcomes
    BY <1>1, <1>4
  <1> HIDE DEF s
  <1>8. Dropped(n, s, t)
    <2> HIDE DEF t, Base, TypeOK
    <2>1. Shifted(n, s, t)
      BY <1>1, <1>3, <1>4 DEF Shifted
    <2> QED BY <2>1, DropFirst
  <1>9. Sent' = Sent \ {r.url}
    <2> HIDE DEF t, Base, TypeOK
    <2> QED BY <1>5, <1>6, <1>7, <1>8 DEF Dropped
  <1>10. r.url \in Sent
    BY <1>1, <1>5, <1>7
  <1>11. \A i, j \in DOMAIN outputCh' : outputCh'[i].url = outputCh'[j].url => i = j
    BY <1>1, <1>4, <1>8 DEF Dropped
  <1>12. crawlResults' = [crawlResults EXCEPT ![r.url] = r.workflow]
    BY DEF Collect, r
  <1>13. r.url \notin Answered
    BY <1>2, <1>10 DEF EachTaskInOnePlace
  <1>14. Answered' = Answered \cup {r.url}
    BY <1>7, <1>12, OutcomesAssumption DEF Answered
  <1>15. Queued' = Queued /\ Held' = Held /\ toFeed' = toFeed /\ jobInput' = jobInput
    BY DEF Collect, Queued, Held
  <1>16. /\ jobInput'.tasks = toFeed' \cup Queued' \cup Held' \cup Sent' \cup Answered'
         /\ toFeed' \cap (Queued' \cup Held' \cup Sent' \cup Answered') = {}
         /\ Queued' \cap (Held' \cup Sent' \cup Answered') = {}
         /\ Held' \cap (Sent' \cup Answered') = {}
         /\ Sent' \cap Answered' = {}
    BY <1>2, <1>9, <1>10, <1>14, <1>15 DEF EachTaskInOnePlace
  <1>17. /\ \A i, j \in DOMAIN inputCh' : inputCh'[i] = inputCh'[j] => i = j
         /\ \A v, w \in Workers : url'[v] = url'[w] /\ url'[v] # NoUrl => v = w
    BY <1>2 DEF Collect, EachTaskInOnePlace
  <1>18. EachTaskInOnePlace'
    BY <1>11, <1>16, <1>17 DEF EachTaskInOnePlace
  <1>19. r.url \in jobInput.tasks
    BY <1>2, <1>10 DEF EachTaskInOnePlace
  <1> QED BY <1>7, <1>9, <1>10, <1>12, <1>13, <1>14, <1>18, <1>19

LEMMA StartMoves ==
  ASSUME Base, StartWorkers
  PROVE  EachTaskInOnePlace'
  <1>1. /\ toFeed' = jobInput'.tasks
        /\ inputCh' = << >> /\ outputCh' = << >>
        /\ url' = [w \in Workers |-> NoUrl]
        /\ crawlResults' = [u \in Urls |-> NoOutcome]
    BY DEF Base, NotStarted, StartWorkers
  <1>2. Queued' = {} /\ Sent' = {}
    BY <1>1 DEF Queued, Sent
  <1>3. Held' = {} /\ Answered' = {}
    BY <1>1, UrlsAssumption DEF Held, Answered
  <1> QED BY <1>1, <1>2, <1>3 DEF EachTaskInOnePlace

-----------------------------------------------------------------------------
(* The ledger of the batch: where its tasks are, how many were collected,  *)
(* and what is known at the end.                                           *)
Ledger ==
  /\ EachTaskInOnePlace
  /\ received = Cardinality(Answered)
  /\ mainPc = "start" => Answered = {}
  /\ mainPc \in {"collect", "returned"} => toFeed = {}
  /\ mainPc = "returned" => received = BatchSize /\ updater = IsTranslateCrawl

LEMMA LedgerInit == Init => Ledger
  <1> SUFFICES ASSUME Init PROVE Ledger
    OBVIOUS
  <1>1. Answered = {}
    BY DEF Init, Answered
  <1> QED BY <1>1, FS_EmptySet DEF Init, Ledger, EachTaskInOnePlace

LEMMA LedgerStep == Base /\ Ledger /\ [Next]_vars => Ledger'
  <1> SUFFICES ASSUME Base, Ledger, [Next]_vars PROVE Ledger'
    OBVIOUS
  <1>0. ASSUME jobInput' = jobInput, toFeed' = toFeed, inputCh' = inputCh,
               url' = url, outputCh' = outputCh, crawlResults' = crawlResults,
               received' = received, updater' = updater,
               \/ mainPc' = mainPc
               \/ mainPc = "feed" /\ mainPc' = "collect" /\ toFeed = {}
        PROVE  Ledger'
    <2>1. EachTaskInOnePlace'
      BY <1>0, PlacesUnchanged DEF Ledger, places
    <2>2. Answered' = Answered /\ BatchSize' = BatchSize
          /\ IsTranslateCrawl' = IsTranslateCrawl /\ toFeed' = toFeed
      BY <1>0 DEF places, Answered, BatchSize, IsTranslateCrawl
    <2> QED BY <1>0, <2>1, <2>2 DEF Ledger
  <1>1. CASE StartWorkers
    <2>1. Answered = {} /\ Answered' = Answered /\ mainPc' = "feed" /\ received' = received
      BY <1>1 DEF StartWorkers, Ledger, Answered
    <2>2. EachTaskInOnePlace'
      BY <1>1, StartMoves
    <2> QED BY <2>1, <2>2 DEF Ledger
  <1>2. ASSUME NEW u \in Urls, Feed(u) PROVE Ledger'
    <2>1. EachTaskInOnePlace'
      BY <1>2, FeedMoves DEF Ledger
    <2>2. Answered' = Answered /\ mainPc' = "feed" /\ received' = received
      BY <1>2 DEF Feed, Answered
    <2> QED BY <2>1, <2>2 DEF Ledger
  <1>3. CASE CloseInput
    BY <1>3, <1>0 DEF CloseInput
  <1>4. CASE Collect
    <2>1. EachTaskInOnePlace'
      BY <1>4, CollectMoves DEF Ledger
    <2>2. PICK u : u \notin Answered /\ Answered' = Answered \cup {u}
      BY <1>4, CollectMoves DEF Ledger
    <2>3. IsFiniteSet(Answered)
      BY UrlsAssumption, FS_Subset DEF Answered
    <2>4. Cardinality(Answered') = Cardinality(Answered) + 1
      BY <2>2, <2>3, FS_AddElement
    <2> QED BY <1>4, <2>1, <2>4 DEF Collect, Ledger
  <1>5. CASE Return
    <2>1. UNCHANGED places /\ mainPc = "collect" /\ mainPc' = "returned"
      BY <1>5 DEF Return, places
    <2>2. EachTaskInOnePlace'
      BY <2>1, PlacesUnchanged DEF Ledger
    <2>3. Answered' = Answered /\ BatchSize' = BatchSize
          /\ IsTranslateCrawl' = IsTranslateCrawl /\ toFeed' = toFeed
      BY <2>1 DEF places, Answered, BatchSize, IsTranslateCrawl
    <2> QED BY <1>5, <2>1, <2>2, <2>3 DEF Return, Ledger
  <1>6. ASSUME NEW w \in Workers, Receive(w) PROVE Ledger'
    <2>1. EachTaskInOnePlace'
      BY <1>6, ReceiveMoves DEF Ledger
    <2> QED BY <1>6, <2>1 DEF Receive, Ledger, Answered, BatchSize, IsTranslateCrawl
  <1>7. ASSUME NEW w \in Workers, Send(w) PROVE Ledger'
    <2>1. EachTaskInOnePlace'
      BY <1>7, SendMoves DEF Ledger
    <2> QED BY <1>7, <2>1
            DEF Send, batchVars, Ledger, Answered, BatchSize, IsTranslateCrawl
  <1>8. ASSUME NEW w \in Workers,
               \/ Quit(w) \/ ParseParams(w) \/ ParamsUnreadable(w)
               \/ BeginStore(w) \/ EndStore(w) \/ Crawl(w)
        PROVE  Ledger'
    <2>1. UNCHANGED batchVars /\ url' = url /\ outputCh' = outputCh
      BY <1>8
      DEF Quit, ParseParams, ParamsUnreadable, BeginStore, EndStore, Crawl,
          batchVars
    <2> QED BY <1>0, <2>1 DEF batchVars
  <1>9. ASSUME NEW w \in Workers,
               NilPipeline(w) \/ ParseMeetsWrite(w) \/ NilDomainInfo(w)
                \/ CrawlMeetsWrite(w) \/ CrawlDies(w)
        PROVE  Ledger'
    BY <1>9, <1>0
    DEF NilPipeline, ParseMeetsWrite, CrawlMeetsWrite, CrawlDies, NilDomainInfo, Abort
  <1>10. CASE FeedMeetsWrite \/ NoSampleWorkflow
    BY <1>10, <1>0 DEF FeedMeetsWrite, NoSampleWorkflow, Abort
  <1>11. ASSUME NEW u \in Urls,
                BeginWriteParams(u) \/ EndWriteParams(u) \/ RecrawlActions(u)
                \/ RecrawlMeetsWrite(u)
         PROVE  Ledger'
    BY <1>11, <1>0
    DEF BeginWriteParams, EndWriteParams, RecrawlActions, RecrawlMeetsWrite, Abort, batchVars
  <1>12. CASE UNCHANGED vars
    BY <1>12, <1>0 DEF vars
  <1> QED
    BY <1>1, <1>2, <1>3, <1>4, <1>5, <1>6, <1>7, <1>8, <1>9, <1>10, <1>11, <1>12
    DEF Next, Main, Worker, Recrawler, Terminated

-----------------------------------------------------------------------------
(* Exclusion of the workers.                                               *)

LEMMA StoresStep == Base /\ StoresExclude /\ [Next]_vars => StoresExclude'
  <1> SUFFICES ASSUME Base, StoresExclude, [Next]_vars PROVE StoresExclude'
    OBVIOUS
  <1> USE DEF Base, TypeOK, StoresExclude, StoringTask, Goto
  <1>1. ASSUME NEW w \in Workers, BeginStore(w) PROVE StoresExclude'
    BY <1>1 DEF BeginStore
  <1>2. ASSUME NEW w \in Workers,
               \/ Receive(w) \/ Quit(w) \/ ParseParams(w) \/ ParamsUnreadable(w)
               \/ EndStore(w) \/ Crawl(w) \/ Send(w)
        PROVE  StoresExclude'
    <2>1. \E to \in {"parse", "quit", "prepare", "crawl", "send", "recv"} :
             workerPc' = [workerPc EXCEPT ![w] = to]
      BY <1>2
      DEF Receive, Quit, ParseParams, ParamsUnreadable, EndStore, Crawl, Send
    <2> QED BY <2>1
  <1>3. CASE StartWorkers
    BY <1>3 DEF StartWorkers
  <1>4. CASE UNCHANGED workerPc
    BY <1>4
  <1> QED
    BY <1>1, <1>2, <1>3, <1>4
    DEF Next, Main, Worker, Recrawler, Terminated, Feed, FeedMeetsWrite,
        CloseInput, Collect, NoSampleWorkflow, Return, NilPipeline,
        ParseMeetsWrite, CrawlMeetsWrite, CrawlDies, NilDomainInfo, BeginWriteParams,
        EndWriteParams, RecrawlActions, RecrawlMeetsWrite, Abort, vars

-----------------------------------------------------------------------------
(* The inductive invariant and its consequences.                           *)
IInv == Base /\ Ledger /\ StoresExclude

LEMMA IInvCorrect == Spec => []IInv
  <1>1. Init => StoresExclude
    BY DEF Init, StoresExclude, StoringTask
  <1>2. Init => IInv
    BY <1>1, BaseInit, LedgerInit DEF IInv
  <1>3. IInv /\ [Next]_vars => IInv'
    BY BaseStep, LedgerStep, StoresStep DEF IInv
  <1> QED BY <1>2, <1>3, PTL DEF Spec

LEMMA NothingWaits == IInv => NoSenderWaits
  <1> SUFFICES ASSUME IInv PROVE NoSenderWaits
    OBVIOUS
  <1> USE DEF IInv, Base, TypeOK, Ledger
  <1>1. IsFiniteSet(jobInput.tasks)
    BY UrlsAssumption, FS_Subset
  <1>2. ASSUME mainPc = "feed", NEW t \in toFeed PROVE Len(inputCh) < BatchSize
    <2>1. DOMAIN inputCh = 1 .. Len(inputCh)
      BY LenProperties
    <2>0. \A i \in 1 .. Len(inputCh) : inputCh[i] \in Queued
      BY <2>1 DEF Queued
    <2>2. /\ t \in jobInput.tasks
          /\ \A i \in 1 .. Len(inputCh) : inputCh[i] \in jobInput.tasks /\ inputCh[i] # t
          /\ \A i, j \in 1 .. Len(inputCh) : inputCh[i] = inputCh[j] => i = j
      <3>1. /\ toFeed \subseteq jobInput.tasks /\ Queued \subseteq jobInput.tasks
            /\ toFeed \cap Queued = {}
        BY <1>2 DEF EachTaskInOnePlace
      <3>2. \A i, j \in DOMAIN inputCh : inputCh[i] = inputCh[j] => i = j
        BY <1>2 DEF EachTaskInOnePlace
      <3> HIDE DEF IInv, Base, TypeOK, Ledger
      <3> QED BY <1>2, <2>0, <2>1, <3>1, <3>2
    <2>3. inputCh \in [1 .. Len(inputCh) -> jobInput.tasks]
      BY <2>1, <2>2, LenProperties
    <2> HIDE DEF IInv, Base, TypeOK, Ledger
    <2>4. inputCh \in Seq(Urls)
      BY DEF IInv, Base, TypeOK
    <2> QED BY <1>1, <2>2, <2>3, <2>4, ShorterThan DEF BatchSize
  <1>3. ASSUME NEW w \in Workers, workerPc[w] = "send"
        PROVE  Len(outputCh) < BatchSize
    <2> DEFINE key == [i \in 1 .. Len(outputCh) |-> outputCh[i].url]
               t == url[w]
    <2>1. DOMAIN outputCh = 1 .. Len(outputCh)
      BY LenProperties
    <2>2. t \in Held /\ mainPc # "start"
      BY <1>3 DEF WorkerState, Busy, Held, NotStarted
    <2>3. \A i \in 1 .. Len(outputCh) : outputCh[i].url \in Sent
      BY <2>1 DEF Sent
    <2>4. /\ t \in jobInput.tasks
          /\ \A i \in 1 .. Len(outputCh) : key[i] \in jobInput.tasks /\ key[i] # t
          /\ \A i, j \in 1 .. Len(outputCh) : key[i] = key[j] => i = j
      BY <2>1, <2>2, <2>3 DEF EachTaskInOnePlace
    <2>5. key \in [1 .. Len(outputCh) -> jobInput.tasks]
      BY <2>4
    <2> HIDE DEF IInv, Base, TypeOK, Ledger, key, t
    <2>6. outputCh \in Seq([url : Urls, workflow : Outcomes])
      BY DEF IInv, Base, TypeOK
    <2> QED BY <1>1, <2>4, <2>5, <2>6, ShorterThan DEF BatchSize
  <1> QED BY <1>2, <1>3 DEF NoSenderWaits, ChannelCap

LEMMA AllAnswered == IInv => ReturnsEverything
  <1> SUFFICES ASSUME IInv, mainPc = "returned" PROVE ReturnsEverything
    BY DEF ReturnsEverything
  <1>1. IsFiniteSet(jobInput.tasks)
    BY UrlsAssumption, FS_Subset DEF IInv, Base, TypeOK
  <1>2. Answered \subseteq jobInput.tasks
    BY DEF IInv, Ledger, EachTaskInOnePlace
  <1>3. Cardinality(Answered) = Cardinality(jobInput.tasks)
    BY DEF IInv, Ledger, BatchSize
  <1>4. Answered = jobInput.tasks
    BY <1>1, <1>2, <1>3, FS_Subset
  <1> QED BY <1>4 DEF IInv, Ledger, ReturnsEverything, IsTranslateCrawl

-----------------------------------------------------------------------------
(* What is ahead of a batch.                                               *)

Chain == {{}, Places.parse, Places.prepare, Places.store, Places.crawl, Places.send}

Resends == {{"spawned"}, {"spawned", "write"}, {"spawned", "write", "recrawl"}}

TasksForward ==
  /\ Unfed' \subseteq Unfed
  /\ \A P \in Chain : Before(P)' \subseteq Before(P)
  /\ Before(Places.send)' \cup Sent' \subseteq Before(Places.send) \cup Sent

ResendsForward == \A R \in Resends : Resending(R)' \subseteq Before(Places.crawl) \cup Resending(R)

OthersForward ==
  /\ StagesAhead' \subseteq StagesAhead
  /\ \A w \in Workers : workerPc[w] = "quit" => workerPc'[w] = "quit"
  /\ crash' = "none" => crash = "none"

Forward == \A step \in DOMAIN Ahead : Ahead'[step] \subseteq Ahead[step]

LEMMA AllForward ==
  ASSUME TasksForward, ResendsForward, OthersForward
  PROVE  Forward
  <1>1. Before(Places.crawl)' \subseteq Before(Places.crawl)
    BY DEF TasksForward, Chain
  <1>2. \A R \in Resends : Before(Places.crawl)' \cup Resending(R)'
                             \subseteq Before(Places.crawl) \cup Resending(R)
    BY <1>1 DEF ResendsForward
  <1>3. /\ {w \in Workers : workerPc'[w] # "quit"} \subseteq {w \in Workers : workerPc[w] # "quit"}
        /\ {crash'} \cap {"none"} \subseteq {crash} \cap {"none"}
    BY DEF OthersForward
  <1> QED BY <1>2, <1>3 DEF Forward, Ahead, TasksForward, OthersForward, Chain, Resends

(* No task moves unless a variable that says where it is does.             *)
LEMMA TasksStay ==
  ASSUME UNCHANGED << jobInput, mainPc, toFeed, inputCh, url, outputCh, workerPc >>
  PROVE  TasksForward
  BY DEF TasksForward, Before, Unfed, Queued, HeldAt, Sent

LEMMA ResendsStay ==
  ASSUME recrawler' = recrawler
  PROVE  ResendsForward
  BY DEF ResendsForward, Resending

(* A worker that goes on with its task leaves the one place behind.        *)
LEMMA PassOn ==
  ASSUME Base, EachTaskInOnePlace, UNCHANGED << batchVars, url, outputCh >>,
         NEW w \in Workers, NEW p \in Busy, NEW q \in Busy, Goto(w, p, q),
         \A P \in Chain : q \in P => p \in P
  PROVE  /\ TasksForward
         /\ \A P \in Chain : p \in P /\ q \notin P =>
              url[w] \in Before(P) /\ url[w] \notin Before(P)'
  <1> USE DEF batchVars
  <1>1. /\ Unfed' = Unfed /\ Queued' = Queued /\ Sent' = Sent
    BY DEF Unfed, Queued, Sent
  <1>2. /\ workerPc[w] = p /\ workerPc'[w] = q
        /\ \A v \in Workers \ {w} : workerPc'[v] = workerPc[v]
    BY DEF Goto, Base, TypeOK
  <1>3. \A P \in Chain : HeldAt(P)' \subseteq HeldAt(P)
    BY <1>2 DEF HeldAt
  <1>4. TasksForward
    <2>1. Places.send \in Chain
      BY DEF Chain
    <2> QED BY <1>1, <1>3, <2>1 DEF TasksForward, Before
  <1>5. mainPc # "start" /\ url[w] # NoUrl
    BY <1>2 DEF Base, NotStarted, WorkerState, Busy
  <1>6. url[w] \notin Unfed /\ url[w] \notin Queued
    <2>1. url[w] \in Held
      BY <1>5 DEF Held, Base, TypeOK
    <2> QED BY <1>5, <2>1 DEF EachTaskInOnePlace, Unfed
  <1>7. ASSUME NEW P \in Chain, p \in P, q \notin P
        PROVE  url[w] \in Before(P) /\ url[w] \notin Before(P)'
    <2>1. url[w] \in HeldAt(P)
      BY <1>2, <1>7 DEF HeldAt
    <2>2. url[w] \notin HeldAt(P)'
      BY <1>2, <1>5, <1>7 DEF HeldAt, EachTaskInOnePlace
    <2> QED BY <1>1, <1>6, <2>1, <2>2 DEF Before
  <1> QED BY <1>4, <1>7

LEMMA StartForward ==
  ASSUME Base, StartWorkers
  PROVE  TasksForward /\ StagesAhead' # StagesAhead
  <1>1. /\ Unfed' = Unfed
        /\ \A P \in Chain : HeldAt(P)' = {}
        /\ Queued' = Queued /\ Sent' = Sent
    BY DEF StartWorkers, Unfed, Queued, Sent, HeldAt, Chain, Places
  <1>2. StagesAhead' # StagesAhead
    BY DEF StartWorkers, StagesAhead
  <1> QED BY <1>1, <1>2 DEF TasksForward, Before, Chain

LEMMA FeedForward ==
  ASSUME Base, EachTaskInOnePlace, NEW u \in Urls, Feed(u)
  PROVE  TasksForward /\ Unfed' # Unfed
  <1>1. Queued' = Queued \cup {u}
    BY FeedMoves
  <1>2. /\ Unfed' = Unfed \ {u} /\ u \in Unfed
        /\ \A P \in Chain : HeldAt(P)' = HeldAt(P)
        /\ Sent' = Sent
    BY DEF Feed, Unfed, HeldAt, Sent
  <1> QED BY <1>1, <1>2 DEF TasksForward, Before, Chain

LEMMA ReceiveForward ==
  ASSUME Base, EachTaskInOnePlace, NEW w \in Workers, Receive(w)
  PROVE  TasksForward /\ Before({})' # Before({})
  <1> DEFINE u == url'[w]
  <1>1. u \in Queued /\ Queued' = Queued \ {u}
    BY ReceiveMoves
  <1>2. /\ Unfed' = Unfed /\ Sent' = Sent
        /\ \A v \in Workers \ {w} : workerPc'[v] = workerPc[v] /\ url'[v] = url[v]
        /\ workerPc'[w] = "parse"
    BY DEF Receive, Unfed, Sent, Goto, Base, TypeOK
  <1>3. \A P \in Chain : P # {} => HeldAt(P)' \subseteq HeldAt(P) \cup {u}
    BY <1>2 DEF HeldAt
  <1>4. HeldAt({})' = {} /\ HeldAt({}) = {}
    BY DEF HeldAt
  <1>5. u \notin Unfed
    BY <1>1 DEF EachTaskInOnePlace, Unfed, Receive, Base, NotStarted
  <1> HIDE DEF u
  <1>6. Before({})' = Before({}) \ {u} /\ u \in Before({})
    BY <1>1, <1>2, <1>4, <1>5 DEF Before
  <1>7. \A P \in Chain : Before(P)' \subseteq Before(P)
    <2> TAKE P \in Chain
    <2>1. CASE P = {}
      BY <1>6, <2>1
    <2>2. CASE P # {}
      BY <1>1, <1>2, <1>3, <2>2 DEF Before
    <2> QED BY <2>1, <2>2
  <1>8. Places.send \in Chain
    BY DEF Chain
  <1> QED BY <1>2, <1>6, <1>7, <1>8 DEF TasksForward

LEMMA SendForward ==
  ASSUME Base, EachTaskInOnePlace, NEW w \in Workers, Send(w)
  PROVE  TasksForward /\ Before(Places.send)' # Before(Places.send)
  <1> DEFINE u == url[w]
  <1>1. Sent' = Sent \cup {u}
    BY SendMoves
  <1>2. /\ Unfed' = Unfed /\ Queued' = Queued
        /\ \A v \in Workers \ {w} : workerPc'[v] = workerPc[v] /\ url'[v] = url[v]
        /\ workerPc[w] = "send" /\ workerPc'[w] = "recv"
    BY DEF Send, Unfed, Queued, Goto, Base, TypeOK, batchVars
  <1>3. mainPc # "start" /\ u # NoUrl /\ "recv" \notin Places.send /\ "send" \in Places.send
    BY <1>2 DEF Base, NotStarted, WorkerState, Busy, Places
  <1>4. \A P \in Chain : "recv" \notin P
    BY DEF Chain, Places
  <1>5. \A P \in Chain : HeldAt(P)' \subseteq HeldAt(P) \ {u}
    BY <1>2, <1>3, <1>4 DEF HeldAt, EachTaskInOnePlace
  <1>6. u \in HeldAt(Places.send)
    BY <1>2, <1>3 DEF HeldAt
  <1>7. u \notin Unfed /\ u \notin Queued
    <2>1. u \in Held
      BY <1>3 DEF Held, Base, TypeOK
    <2> QED BY <1>3, <2>1 DEF EachTaskInOnePlace, Unfed
  <1>8. Places.send \in Chain
    BY DEF Chain
  <1> HIDE DEF u
  <1>9. Before(Places.send)' \subseteq Before(Places.send) \ {u} /\ u \in Before(Places.send)
    BY <1>2, <1>5, <1>6, <1>7, <1>8 DEF Before
  <1> QED BY <1>1, <1>2, <1>5, <1>9 DEF TasksForward, Before

LEMMA CollectForward ==
  ASSUME Base, EachTaskInOnePlace, Collect
  PROVE  /\ TasksForward
         /\ (Before(Places.send) \cup Sent)' # Before(Places.send) \cup Sent
  <1>1. PICK u \in Sent : Sent' = Sent \ {u}
    BY CollectMoves
  <1>2. \A P \in Chain : Before(P)' = Before(P)
    BY DEF Collect, Before, Unfed, Queued, HeldAt
  <1>3. Unfed' = Unfed /\ Places.send \in Chain
    BY DEF Collect, Unfed, Chain
  <1>4. u \notin Before(Places.send)
    <2>1. HeldAt(Places.send) \subseteq Held
      BY DEF HeldAt, Held, Base, TypeOK, WorkerState, Places, Busy
    <2> QED BY <1>1, <2>1 DEF Before, Unfed, EachTaskInOnePlace, Collect
  <1> QED BY <1>1, <1>2, <1>3, <1>4 DEF TasksForward

(* Less is ahead when one of the sets has changed.                         *)
Taken ==
  \/ Unfed' # Unfed
  \/ \E P \in Chain : Before(P)' # Before(P)
  \/ (Before(Places.send) \cup Sent)' # Before(Places.send) \cup Sent
  \/ \E R \in Resends : (Before(Places.crawl) \cup Resending(R))'
                           # Before(Places.crawl) \cup Resending(R)
  \/ StagesAhead' # StagesAhead
  \/ \E w \in Workers : workerPc[w] # "quit" /\ workerPc'[w] = "quit"
  \/ crash = "none" /\ crash' # "none"

LEMMA TakenFromAhead ==
  ASSUME Taken
  PROVE  Ahead' # Ahead
  <1>1. ASSUME NEW step \in DOMAIN Ahead, Ahead'[step] # Ahead[step]
        PROVE  Ahead' # Ahead
    BY <1>1
  <1>2. CASE \E P \in Chain : Before(P)' # Before(P)
    BY <1>1, <1>2 DEF Ahead, Chain
  <1>3. CASE \E R \in Resends : (Before(Places.crawl) \cup Resending(R))'
                                  # Before(Places.crawl) \cup Resending(R)
    BY <1>1, <1>3 DEF Ahead, Resends
  <1>4. CASE \E w \in Workers : workerPc[w] # "quit" /\ workerPc'[w] = "quit"
    <2>1. {w \in Workers : workerPc'[w] # "quit"} # {w \in Workers : workerPc[w] # "quit"}
      BY <1>4
    <2> QED BY <1>1, <2>1 DEF Ahead
  <1>5. CASE crash = "none" /\ crash' # "none"
    <2>1. {crash'} \cap {"none"} # {crash} \cap {"none"}
      BY <1>5
    <2> QED BY <1>1, <2>1 DEF Ahead
  <1> QED BY <1>1, <1>2, <1>3, <1>4, <1>5 DEF Taken, Ahead

(* A task resends old variations after it was crawled, so once at most.    *)
Resent == \A u \in Urls : recrawler[u] # "none" => u \notin Before(Places.crawl)

(* What a step of one kind shows: less is ahead, and nothing is resent     *)
(* twice.                                                                  *)
Progress == Forward /\ Ahead' # Ahead /\ Resent'

LEMMA StillResent ==
  ASSUME Resent, recrawler' = recrawler, TasksForward
  PROVE  Resent'
  <1>1. Before(Places.crawl)' \subseteq Before(Places.crawl)
    BY DEF TasksForward, Chain
  <1> QED BY <1>1 DEF Resent

LEMMA MainForward ==
  ASSUME IInv, Resent, Main
  PROVE  Progress
  <1> USE DEF IInv, Ledger
  <1>1. ASSUME TasksForward, Taken, OthersForward, recrawler' = recrawler
        PROVE  Progress
    BY <1>1, AllForward, ResendsStay, StillResent, TakenFromAhead DEF Progress
  <1>2. CASE StartWorkers
    <2>1. OthersForward
      BY <1>2 DEF StartWorkers, OthersForward, StagesAhead, Base, NotStarted
    <2> QED BY <1>1, <1>2, <2>1, StartForward DEF StartWorkers, Taken
  <1>3. ASSUME NEW u \in Urls, Feed(u) PROVE Progress
    BY <1>1, <1>3, FeedForward DEF Feed, Taken, OthersForward, StagesAhead
  <1>4. CASE CloseInput
    <2>1. StagesAhead' \subseteq StagesAhead /\ StagesAhead' # StagesAhead
      BY <1>4 DEF CloseInput, StagesAhead
    <2>2. TasksForward
      BY <1>4 DEF CloseInput, TasksForward, Before, Unfed, Queued, HeldAt, Sent
    <2> QED BY <1>1, <1>4, <2>1, <2>2 DEF CloseInput, Taken, OthersForward
  <1>5. CASE Collect
    BY <1>1, <1>5, CollectForward DEF Collect, Taken, OthersForward, StagesAhead
  <1>6. CASE Return
    <2>1. StagesAhead' \subseteq StagesAhead /\ StagesAhead' # StagesAhead
      BY <1>6 DEF Return, StagesAhead
    <2>2. TasksForward
      BY <1>6 DEF Return, TasksForward, Before, Unfed, Queued, HeldAt, Sent
    <2> QED BY <1>1, <1>6, <2>1, <2>2 DEF Return, Taken, OthersForward
  <1>7. CASE FeedMeetsWrite \/ NoSampleWorkflow
    <2>1. TasksForward
      BY <1>7, TasksStay DEF FeedMeetsWrite, NoSampleWorkflow, Abort
    <2> QED BY <1>1, <1>7, <2>1
            DEF FeedMeetsWrite, NoSampleWorkflow, Abort, Running, Taken, OthersForward, StagesAhead
  <1> QED BY <1>2, <1>3, <1>4, <1>5, <1>6, <1>7 DEF Main

LEMMA WorkerForward ==
  ASSUME IInv, Resent, NEW w \in Workers, Worker(w)
  PROVE  Progress
  <1> USE DEF IInv, Ledger
  <1>1. ASSUME TasksForward, Taken, OthersForward, recrawler' = recrawler
        PROVE  Progress
    BY <1>1, AllForward, ResendsStay, StillResent, TakenFromAhead DEF Progress
  <1>2. ASSUME NEW p \in Busy \cup {"recv"}, NEW q, Goto(w, p, q), mainPc' = mainPc, crash' = crash
        PROVE  OthersForward
    BY <1>2 DEF OthersForward, Goto, Base, TypeOK, Busy, StagesAhead
  <1>3. /\ Places.parse \in Chain /\ Places.prepare \in Chain /\ Places.store \in Chain
        /\ Places.crawl \in Chain
    BY DEF Chain
  <1>4. ASSUME NEW p \in Busy, NEW q \in Busy, Goto(w, p, q),
               UNCHANGED << batchVars, url, outputCh >>,
               << p, q >> \in {<< "parse", "prepare" >>, << "parse", "crawl" >>,
                               << "parse", "send" >>, << "prepare", "store" >>,
                               << "store", "crawl" >>, << "crawl", "send" >>}
        PROVE  /\ TasksForward /\ \E P \in Chain : Before(P)' # Before(P)
               /\ p = "crawl" => url[w] \notin Before(Places.crawl)'
                                 /\ url[w] \in Before(Places.crawl)
    <2>1. \A P \in Chain : q \in P => p \in P
      BY <1>4 DEF Chain, Places
    <2>2. /\ TasksForward
          /\ \A P \in Chain : p \in P /\ q \notin P =>
               url[w] \in Before(P) /\ url[w] \notin Before(P)'
      BY <1>4, <2>1, PassOn
    <2>3. \E P \in Chain : p \in P /\ q \notin P
      BY <1>3, <1>4 DEF Places
    <2>4. "send" \notin Places.crawl /\ "crawl" \in Places.crawl
      BY DEF Places
    <2> QED BY <1>3, <1>4, <2>2, <2>3, <2>4
  <1>5. CASE Receive(w)
    <2>1. OthersForward
      BY <1>2, <1>5 DEF Receive
    <2>2. TasksForward /\ Before({})' # Before({}) /\ {} \in Chain
      BY <1>5, ReceiveForward DEF Chain
    <2> QED BY <1>1, <1>5, <2>1, <2>2 DEF Receive, Taken
  <1>6. CASE Quit(w)
    <2>1. OthersForward
      BY <1>2, <1>6 DEF Quit
    <2>2. TasksForward
      <3>1. /\ \A v \in Workers \ {w} : workerPc'[v] = workerPc[v]
            /\ workerPc'[w] = "quit" /\ url' = url
        BY <1>6 DEF Quit, Goto, Base, TypeOK
      <3>2. \A P \in Chain : "quit" \notin P
        BY DEF Chain, Places
      <3>3. \A P \in Chain : HeldAt(P)' \subseteq HeldAt(P)
        BY <3>1, <3>2 DEF HeldAt
      <3> QED BY <1>6, <3>3 DEF Quit, TasksForward, Before, Unfed, Queued, Sent, Chain
    <2>3. workerPc[w] # "quit" /\ workerPc'[w] = "quit"
      BY <1>6 DEF Quit, Goto, Base, TypeOK
    <2> QED BY <1>1, <1>6, <2>1, <2>2, <2>3 DEF Quit, Taken
  <1>7. ASSUME NEW p \in Busy, NEW q \in Busy, Goto(w, p, q),
               UNCHANGED << batchVars, url, outputCh, recrawler, crash >>,
               << p, q >> \in {<< "parse", "prepare" >>, << "parse", "crawl" >>,
                               << "parse", "send" >>, << "prepare", "store" >>,
                               << "store", "crawl" >>, << "crawl", "send" >>}
        PROVE  Progress
    <2>1. OthersForward
      BY <1>2, <1>7 DEF batchVars
    <2>2. TasksForward /\ \E P \in Chain : Before(P)' # Before(P)
      BY <1>4, <1>7
    <2> QED BY <1>1, <1>7, <2>1, <2>2 DEF Taken
  <1>8. CASE ParseParams(w)
    BY <1>7, <1>8 DEF ParseParams, Busy
  <1>9. CASE ParamsUnreadable(w)
    BY <1>7, <1>9 DEF ParamsUnreadable, Busy
  <1>10. CASE BeginStore(w)
    BY <1>7, <1>10 DEF BeginStore, Busy
  <1>11. CASE EndStore(w)
    BY <1>7, <1>11 DEF EndStore, Busy
  <1>12. CASE Crawl(w)
    <2>1. /\ Goto(w, "crawl", "send") /\ UNCHANGED << batchVars, url, outputCh, crash >>
          /\ "crawl" \in Busy /\ "send" \in Busy
      BY <1>12 DEF Crawl, Busy
    <2>2. OthersForward
      BY <1>2, <2>1 DEF batchVars
    <2>3. /\ TasksForward /\ \E P \in Chain : Before(P)' # Before(P)
          /\ url[w] \notin Before(Places.crawl)' /\ url[w] \in Before(Places.crawl)
      BY <1>4, <2>1
    <2>4. \/ recrawler' = recrawler
          \/ recrawler' = [recrawler EXCEPT ![url[w]] = "spawned"]
      BY <1>12 DEF Crawl
    <2>5. \A u \in Urls : recrawler'[u] # recrawler[u] => u = url[w]
      BY <2>4 DEF Base, TypeOK
    <2>6. ResendsForward
      BY <2>3, <2>5 DEF ResendsForward, Resending
    <2>7. Resent'
      <3>1. Before(Places.crawl)' \subseteq Before(Places.crawl)
        BY <2>3 DEF TasksForward, Chain
      <3> QED BY <2>3, <2>5, <3>1 DEF Resent
    <2>8. Taken
      BY <2>3 DEF Taken
    <2> QED BY <2>2, <2>3, <2>6, <2>7, <2>8, AllForward, TakenFromAhead DEF Progress
  <1>13. CASE Send(w)
    <2>1. OthersForward
      BY <1>2, <1>13 DEF Send, batchVars, Busy
    <2>2. TasksForward /\ Before(Places.send)' # Before(Places.send) /\ Places.send \in Chain
      BY <1>13, SendForward DEF Chain
    <2> QED BY <1>1, <1>13, <2>1, <2>2 DEF Send, Taken
  <1>14. CASE \/ NilPipeline(w) \/ ParseMeetsWrite(w) \/ NilDomainInfo(w)
              \/ CrawlMeetsWrite(w) \/ CrawlDies(w)
    <2>1. Running /\ crash' # "none" /\ UNCHANGED << workerPc, recrawler, mainPc >>
      BY <1>14 DEF NilPipeline, ParseMeetsWrite, NilDomainInfo, CrawlMeetsWrite, CrawlDies, Abort
    <2>2. TasksForward
      BY <1>14, TasksStay
      DEF NilPipeline, ParseMeetsWrite, NilDomainInfo, CrawlMeetsWrite, CrawlDies, Abort
    <2> QED BY <1>1, <2>1, <2>2 DEF Running, Taken, OthersForward, StagesAhead
  <1> QED BY <1>5, <1>6, <1>8, <1>9, <1>10, <1>11, <1>12, <1>13, <1>14 DEF Worker

LEMMA RecrawlerForward ==
  ASSUME IInv, Resent, NEW u \in Urls, Recrawler(u)
  PROVE  Progress
  <1> USE DEF IInv, Ledger
  <1>1. TasksForward
    BY TasksStay
    DEF Recrawler, BeginWriteParams, EndWriteParams, RecrawlActions, RecrawlMeetsWrite, Abort,
        batchVars
  <1>2. ASSUME NEW p, NEW q, NEW R \in Resends, recrawler[u] = p, p # "none",
               recrawler' = [recrawler EXCEPT ![u] = q], UNCHANGED << mainPc, workerPc, crash >>,
               p \in R, q \notin R, \A S \in Resends : q \in S => p \in S
        PROVE  Progress
    <2>1. \A v \in Urls : recrawler'[v] = IF v = u THEN q ELSE recrawler[v]
      BY <1>2 DEF Base, TypeOK
    <2>2. ResendsForward
      BY <1>2, <2>1 DEF ResendsForward, Resending
    <2>3. Before(Places.crawl)' \subseteq Before(Places.crawl)
      BY <1>1 DEF TasksForward, Chain
    <2>4. Resent' /\ u \notin Before(Places.crawl)'
      BY <1>2, <2>1, <2>3 DEF Resent
    <2>5. u \in Resending(R) /\ u \notin Resending(R)'
      BY <1>2, <2>1 DEF Resending
    <2>6. Taken
      BY <2>4, <2>5 DEF Taken
    <2>7. OthersForward
      BY <1>2 DEF OthersForward, StagesAhead
    <2> QED BY <1>1, <2>2, <2>4, <2>6, <2>7, AllForward, TakenFromAhead DEF Progress
  <1>3. CASE BeginWriteParams(u)
    BY <1>2, <1>3 DEF BeginWriteParams, batchVars, Resends
  <1>4. CASE EndWriteParams(u)
    BY <1>2, <1>4 DEF EndWriteParams, batchVars, Resends
  <1>5. CASE RecrawlActions(u)
    BY <1>2, <1>5 DEF RecrawlActions, batchVars, Resends
  <1>6. CASE RecrawlMeetsWrite(u)
    <2>1. Running /\ crash' # "none" /\ UNCHANGED << workerPc, recrawler, mainPc >>
      BY <1>6 DEF RecrawlMeetsWrite, Abort
    <2> QED BY <1>1, <2>1, AllForward, ResendsStay, StillResent, TakenFromAhead
            DEF Running, Taken, OthersForward, StagesAhead, Progress
  <1> QED BY <1>3, <1>4, <1>5, <1>6 DEF Recrawler

-----------------------------------------------------------------------------
(* Nobody is left waiting.                                                 *)

(* The input channel is closed when the range is done, workers quit when   *)
(* it is closed and drained, and until then those that were started live.  *)
Staffed ==
  /\ inputClosed <=> mainPc \in {"collect", "returned"}
  /\ \A w \in Workers :
       /\ workerPc[w] = "quit" => inputClosed /\ inputCh = << >>
       /\ mainPc # "start" /\ w <= NumWorkers => workerPc[w] # "unborn"

LEMMA StaffedStep == Base /\ Staffed /\ [Next]_vars => Staffed'
  <1> SUFFICES ASSUME Base, Staffed, [Next]_vars PROVE Staffed'
    OBVIOUS
  <1>1. jobInput' = jobInput => NumWorkers' = NumWorkers
    BY DEF NumWorkers, BatchSize
  <1>2. CASE UNCHANGED << jobInput, mainPc, inputCh, inputClosed, workerPc >>
    BY <1>1, <1>2 DEF Staffed
  <1>3. CASE StartWorkers
    BY <1>1, <1>3 DEF StartWorkers, Staffed
  <1>4. ASSUME NEW u \in Urls, Feed(u) PROVE Staffed'
    BY <1>1, <1>4 DEF Feed, Staffed
  <1>5. CASE CloseInput
    BY <1>1, <1>5 DEF CloseInput, Staffed
  <1>6. CASE Return
    BY <1>1, <1>6 DEF Return, Staffed
  <1>7. ASSUME NEW w \in Workers, Receive(w) PROVE Staffed'
    BY <1>1, <1>7 DEF Receive, Goto, Staffed, Base, TypeOK
  <1>8. ASSUME NEW w \in Workers, Quit(w) PROVE Staffed'
    BY <1>1, <1>8 DEF Quit, Goto, Staffed, Base, TypeOK
  <1>9. ASSUME NEW w \in Workers, NEW p, NEW q \in Busy \cup {"recv"}, Goto(w, p, q),
               UNCHANGED << jobInput, mainPc, inputCh, inputClosed >>
        PROVE  Staffed'
    BY <1>1, <1>9 DEF Goto, Staffed, Base, TypeOK, Busy
  <1>10. ASSUME NEW w \in Workers,
                \/ ParseParams(w) \/ ParamsUnreadable(w) \/ BeginStore(w) \/ EndStore(w)
                \/ Crawl(w) \/ Send(w)
         PROVE  Staffed'
    BY <1>9, <1>10
    DEF ParseParams, ParamsUnreadable, BeginStore, EndStore, Crawl, Send, batchVars, Busy
  <1> QED
    BY <1>2, <1>3, <1>4, <1>5, <1>6, <1>7, <1>8, <1>10
    DEF Next, Main, Worker, Recrawler, Terminated, FeedMeetsWrite, Collect, NoSampleWorkflow,
        NilPipeline, ParseMeetsWrite, CrawlMeetsWrite, CrawlDies, NilDomainInfo,
        BeginWriteParams, EndWriteParams, RecrawlActions, RecrawlMeetsWrite, Abort, batchVars, vars

(* A worker with a task can go on with it, or another one can that writes  *)
(* to Tasks.                                                               *)
LEMMA BusyMoves ==
  ASSUME IInv, NEW w \in Workers, workerPc[w] \in Busy
  PROVE  CanMove
  <1>1. CASE workerPc[w] = "prepare"
    <2>1. CASE StoringTask = {}
      BY <1>1, <2>1 DEF CanMove
    <2>2. CASE StoringTask # {}
      BY <2>2 DEF CanMove, StoringTask
    <2> QED BY <2>1, <2>2
  <1>2. CASE workerPc[w] = "send"
    BY <1>2, NothingWaits DEF NoSenderWaits, CanMove
  <1> QED BY <1>1, <1>2 DEF Busy, CanMove

LEMMA SomebodyMoves == IInv /\ Staffed => NeverStuck
  <1> SUFFICES ASSUME IInv, Staffed, ~CanMove
               PROVE  /\ mainPc = "returned"
                      /\ \A w \in Workers : workerPc[w] \in {"unborn", "quit"}
                      /\ \A u \in Urls : recrawler[u] \in {"none", "done"}
    BY DEF NeverStuck
  <1> USE DEF IInv
  <1>1. \A w \in Workers : workerPc[w] \in {"unborn", "recv", "quit"}
    BY BusyMoves DEF Base, TypeOK, Busy
  <1>2. \A u \in Urls : recrawler[u] \in {"none", "done"}
    BY DEF CanMove, Base, TypeOK
  <1>3. Held = {}
    BY <1>1, UrlsAssumption DEF Base, WorkerState, Held, Busy
  <1>4. mainPc \in {"collect", "returned"}
    BY NothingWaits DEF CanMove, NoSenderWaits, Base, TypeOK
  <1>5. \A w \in Workers : workerPc[w] \in {"unborn", "quit"}
    BY <1>1, <1>4 DEF CanMove, Staffed
  <1>6. CASE mainPc = "collect"
    <2>1. outputCh = << >> /\ received # BatchSize
      BY <1>6 DEF CanMove
    <2>2. Sent = {}
      BY <2>1 DEF Sent
    <2>3. jobInput.tasks = Queued \cup Answered
      BY <1>3, <1>6, <2>2 DEF Ledger, EachTaskInOnePlace
    <2>4. IsFiniteSet(jobInput.tasks) /\ BatchSize \in Nat
      BY UrlsAssumption, FS_Subset, FS_CardinalityType DEF Base, TypeOK, BatchSize
    <2>5. Queued # {}
      BY <2>1, <2>3 DEF Ledger, BatchSize
    <2>6. inputCh # << >>
      BY <2>5 DEF Queued
    <2>7. jobInput.tasks # {}
      BY <2>3, <2>5
    <2>8. BatchSize # 0
      BY <2>4, <2>7, FS_EmptySet DEF BatchSize
    <2>9. 1 \in Workers /\ 1 <= NumWorkers
      BY <2>4, <2>8, WorkersAssumption DEF Workers, NumWorkers
    <2>10. workerPc[1] # "unborn"
      BY <1>6, <2>9 DEF Staffed
    <2>11. workerPc[1] # "quit"
      BY <2>6, <2>9 DEF Staffed
    <2> QED BY <1>5, <2>9, <2>10, <2>11
  <1> QED BY <1>2, <1>4, <1>5, <1>6

-----------------------------------------------------------------------------
(* The program's variables keep their types.                               *)
THEOREM TypeCorrect == Spec => []TypeOK
  <1>1. IInv => TypeOK
    BY DEF IInv, Base
  <1> QED BY <1>1, IInvCorrect, PTL

(* Whatever the order in which the range, the workers and the collector    *)
(* run, no task of a batch is lost or crawled twice.                       *)
THEOREM OnePlace == Spec => []EachTaskInOnePlace
  <1>1. IInv => EachTaskInOnePlace
    BY DEF IInv, Ledger
  <1> QED BY <1>1, IInvCorrect, PTL

(* The capacity given to the two channels is enough: no send on them ever  *)
(* waits.                                                                  *)
THEOREM NoWait == Spec => []NoSenderWaits
  BY NothingWaits, IInvCorrect, PTL

(* CrawlJobBatchExecute returns a result for every task of the batch, and  *)
(* starts the statistics updater exactly when one was translated.          *)
THEOREM Complete == Spec => []ReturnsEverything
  BY AllAnswered, IInvCorrect, PTL

(* discoveryMutex keeps the workers' writes to Tasks apart.                *)
THEOREM Exclusion == Spec => []StoresExclude
  <1>1. IInv => StoresExclude
    BY DEF IInv
  <1> QED BY <1>1, IInvCorrect, PTL

-----------------------------------------------------------------------------
(* Steps of the batch seen from its caller.                                *)

(* A step that is not Collect leaves the results alone.                    *)
LEMMA OnlyCollectAnswers ==
  ASSUME [Next]_vars
  PROVE  Collect \/ crawlResults' = crawlResults
  BY DEF Next, Main, Worker, Recrawler, Terminated, StartWorkers, Feed,
         FeedMeetsWrite, CloseInput, NoSampleWorkflow, Return, Receive, Quit,
         ParseParams, NilPipeline, ParseMeetsWrite, ParamsUnreadable,
         NilDomainInfo, BeginStore, EndStore, Crawl, Send, BeginWriteParams,
         EndWriteParams, RecrawlActions, RecrawlMeetsWrite, CrawlMeetsWrite, CrawlDies, Abort,
         batchVars, vars

(* A collected result is never replaced.                                   *)
THEOREM Final == Spec => ResultsAreFinal
  <1>1. IInv /\ [Next]_vars
          => [\A u \in Answered : crawlResults'[u] = crawlResults[u]]_vars
    <2> SUFFICES ASSUME IInv, [Next]_vars
                 PROVE  \A u \in Answered : crawlResults'[u] = crawlResults[u]
      OBVIOUS
    <2>1. CASE Collect
      <3>1. PICK u \in jobInput.tasks \ Answered, o \in Outcomes :
                   crawlResults' = [crawlResults EXCEPT ![u] = o]
        BY <2>1, CollectMoves DEF IInv, Ledger
      <3> QED BY <3>1 DEF IInv, Base, TypeOK, Answered
    <2> QED BY <2>1, OnlyCollectAnswers
  <1> QED BY <1>1, IInvCorrect, PTL DEF Spec, ResultsAreFinal

LEMMA ForwardStep ==
  ASSUME IInv, Resent, [Next]_vars
  PROVE  Resent' /\ (vars' # vars => Forward /\ Ahead' # Ahead)
  <1>1. CASE UNCHANGED vars
    <2>1. Resent'
      BY <1>1, StillResent, TasksStay DEF vars
    <2> QED BY <1>1, <2>1
  <1>2. CASE Main
    BY <1>2, MainForward DEF Progress
  <1>3. ASSUME NEW w \in Workers, Worker(w)
        PROVE  Resent' /\ Forward /\ Ahead' # Ahead
    BY <1>3, WorkerForward DEF Progress
  <1>4. ASSUME NEW u \in Urls, Recrawler(u)
        PROVE  Resent' /\ Forward /\ Ahead' # Ahead
    BY <1>4, RecrawlerForward DEF Progress
  <1>5. CASE Terminated
    BY <1>1, <1>5 DEF Terminated
  <1> QED BY <1>1, <1>2, <1>3, <1>4, <1>5 DEF Next

LEMMA ResentCorrect == Spec => []Resent
  <1>1. Init => Resent
    BY DEF Init, Resent
  <1> QED BY <1>1, ForwardStep, IInvCorrect, PTL DEF Spec

(* Whatever order the scheduler picks, the goroutines of a batch only take *)
(* from what is ahead of it, and never add to it.                          *)
THEOREM Advances == Spec => OnlyForward
  <1>1. ASSUME IInv, Resent, [Next]_vars
        PROVE  [Shrinks(Ahead, Ahead')]_vars
    BY <1>1, ForwardStep DEF Forward, Shrinks
  <1> QED BY <1>1, ResentCorrect, IInvCorrect, PTL DEF Spec, OnlyForward

(* The goroutine a task leaves behind never meets an access of the task    *)
(* itself: a map access that ends the process takes two tasks at work, or  *)
(* the range that still feeds the workers.                                 *)
THEOREM MapDeaths == Spec => []MapDeathsNeedTwo
  <1>1. Init => MapDeathsNeedTwo
    BY DEF Init, MapDeathsNeedTwo
  <1>2. ASSUME IInv, Resent, MapDeathsNeedTwo, [Next]_vars
        PROVE  MapDeathsNeedTwo'
    <2> USE DEF IInv, Base
    <2>1. CASE UNCHANGED vars
      BY <1>2, <2>1 DEF vars, MapDeathsNeedTwo, AtWork, HeldAt, Resending
    <2>2. CASE crash' # "fatal"
      BY <2>2 DEF MapDeathsNeedTwo
    <2>3. ASSUME UNCHANGED << mainPc, workerPc, url, recrawler >>,
                 mainPc = "feed" \/ \E u, v \in AtWork : u # v
          PROVE  MapDeathsNeedTwo'
      <3>1. AtWork' = AtWork
        BY <2>3 DEF AtWork, HeldAt, Resending
      <3> QED BY <2>3, <3>1 DEF MapDeathsNeedTwo
    <2>4. CASE FeedMeetsWrite
      BY <2>3, <2>4 DEF FeedMeetsWrite, Abort
    <2>5. ASSUME NEW w \in Workers, workerPc[w] \in {"parse", "crawl"},
                 NEW v \in WritingParams
          PROVE  \E t, x \in AtWork : t # x
      <3>1. url[w] \in AtWork /\ url[w] \in Before(Places.crawl)
        BY <2>5 DEF AtWork, Before, HeldAt, Places
      <3>2. v \in AtWork /\ v \notin Before(Places.crawl)
        BY <1>2, <2>5 DEF AtWork, WritingParams, Resending, Resent
      <3> QED BY <3>1, <3>2
    <2>6. ASSUME NEW w \in Workers, workerPc[w] = "crawl", NEW x \in StoringTask
          PROVE  \E t, v \in AtWork : t # v
      <3>1. workerPc[x] = "store" /\ x \in Workers /\ x # w
        BY <2>6 DEF StoringTask
      <3>2. url[w] \in AtWork /\ url[x] \in AtWork
        BY <2>6, <3>1 DEF AtWork, HeldAt
      <3>3. mainPc # "start" /\ url[x] # NoUrl
        BY <1>2, <3>1 DEF NotStarted, WorkerState, Busy
      <3>4. url[w] # url[x]
        BY <1>2, <3>1, <3>3 DEF Ledger, EachTaskInOnePlace
      <3> QED BY <3>2, <3>4
    <2>7. ASSUME NEW w \in Workers, ParseMeetsWrite(w) PROVE MapDeathsNeedTwo'
      BY <2>3, <2>5, <2>7 DEF ParseMeetsWrite, Abort
    <2>8. ASSUME NEW w \in Workers, CrawlMeetsWrite(w) PROVE MapDeathsNeedTwo'
      BY <2>3, <2>5, <2>6, <2>8 DEF CrawlMeetsWrite, Abort
    <2>9. ASSUME NEW u \in Urls, RecrawlMeetsWrite(u) PROVE MapDeathsNeedTwo'
      <3>1. PICK v \in WritingParams : TRUE
        BY <2>9 DEF RecrawlMeetsWrite
      <3>2. u \in AtWork /\ v \in AtWork /\ u # v
        BY <2>9, <3>1 DEF RecrawlMeetsWrite, WritingParams, AtWork, Resending
      <3> QED BY <2>3, <2>9, <3>2 DEF RecrawlMeetsWrite, Abort
    <2>10. \/ UNCHANGED vars \/ crash' # "fatal" \/ FeedMeetsWrite
           \/ \E w \in Workers : ParseMeetsWrite(w) \/ CrawlMeetsWrite(w)
           \/ \E u \in Urls : RecrawlMeetsWrite(u)
      BY <1>2
      DEF Next, Main, Worker, Recrawler, Terminated, StartWorkers, Feed, CloseInput, Collect,
          NoSampleWorkflow, Return, Receive, Quit, ParseParams, NilPipeline, ParamsUnreadable,
          NilDomainInfo, BeginStore, EndStore, Crawl, CrawlDies, Send, BeginWriteParams,
          EndWriteParams, RecrawlActions, Running, Abort, batchVars
    <2> QED BY <2>1, <2>2, <2>4, <2>7, <2>8, <2>9, <2>10
  <1> QED BY <1>1, <1>2, ResentCorrect, IInvCorrect, PTL DEF Spec

(* However many workers there are, the range, the workers and the          *)
(* collector never all wait for one another: with Advances, a batch goes   *)
(* on until it has returned and its goroutines have ended.                 *)
THEOREM NoDeadlock == Spec => []NeverStuck
  <1>1. Init => Staffed
    BY DEF Init, Staffed
  <1>2. IInv /\ Staffed /\ [Next]_vars => Staffed'
    BY StaffedStep DEF IInv
  <1> QED BY <1>1, <1>2, SomebodyMoves, IInvCorrect, PTL DEF Spec

(* CrawlBatch implements BatchSpec: its callers see an answer per task, in *)
(* some order, then the return, unless the process dies.                   *)
THEOREM Implements == Spec => KeepsPromise
  <1> DEFINE st == IF crash # "none" THEN "dead"
                   ELSE IF mainPc = "returned" THEN "returned" ELSE "open"
  <1>1. Init => Promise!Init
    BY DEF Init, Promise!Init
  <1>2. ASSUME IInv, [Next]_vars PROVE [Promise!Next]_(Promise!vars)
    <2>1. CASE Collect
      <3>1. PICK u \in jobInput.tasks \ Answered, o \in Outcomes :
                   crawlResults' = [crawlResults EXCEPT ![u] = o]
        BY <1>2, <2>1, CollectMoves DEF IInv, Ledger
      <3>2. u \in Urls /\ crawlResults[u] = NoOutcome
        BY <1>2, <3>1 DEF IInv, Base, TypeOK, Answered
      <3>3. Promise!Answer(u)
        BY <2>1, <3>1, <3>2 DEF Collect, Running, Promise!Answer
      <3> QED BY <3>2, <3>3 DEF Promise!Next
    <2>2. CASE Return
      <3>1. ReturnsEverything'
        <4>1. IInv'
          BY <1>2, BaseStep, LedgerStep, StoresStep DEF IInv
        <4> QED BY <4>1, AllAnswered, PTL
      <3>2. Answered' = Answered /\ jobInput' = jobInput /\ crawlResults' = crawlResults
        BY <2>2 DEF Return, Answered
      <3>3. Answered = jobInput.tasks
        BY <2>2, <3>1, <3>2 DEF Return, ReturnsEverything
      <3>4. jobInput.tasks # {}
        <4>1. received = Cardinality(jobInput.tasks) /\ received > 0
          BY <1>2, <2>2, <3>3 DEF Return, IInv, Ledger
        <4>2. Cardinality({}) = 0
          BY FS_EmptySet
        <4> QED BY <4>1, <4>2
      <3>5. \A u \in jobInput.tasks : crawlResults[u] # NoOutcome
        BY <3>3 DEF Answered
      <3>6. updater' = \E u \in jobInput.tasks : crawlResults[u].translated
        BY <2>2, <3>3 DEF Return, IsTranslateCrawl
      <3>7. Promise!Return
        BY <2>2, <3>2, <3>4, <3>5, <3>6 DEF Return, Running, Promise!Return
      <3> QED BY <3>7 DEF Promise!Next
    <2>3. CASE UNCHANGED << jobInput, crawlResults, updater, crash >>
                 /\ (mainPc' = "returned" <=> mainPc = "returned")
      BY <2>3 DEF Promise!vars
    <2>4. CASE UNCHANGED << jobInput, crawlResults, updater >> /\ crash' # "none"
      BY <2>4 DEF Promise!Die, Promise!Next
    <2> QED
      BY <1>2, <2>1, <2>2, <2>3, <2>4
      DEF Next, Main, Worker, Recrawler, Terminated, StartWorkers, Feed,
          FeedMeetsWrite, CloseInput, NoSampleWorkflow, Receive, Quit,
          ParseParams, NilPipeline, ParseMeetsWrite, ParamsUnreadable,
          NilDomainInfo, BeginStore, EndStore, Crawl, Send, BeginWriteParams,
          EndWriteParams, RecrawlActions, RecrawlMeetsWrite, CrawlMeetsWrite, CrawlDies, Abort,
          batchVars, vars
  <1> QED BY <1>1, <1>2, IInvCorrect, PTL DEF Spec, KeepsPromise, Promise!Spec
=============================================================================
