--------------------------- MODULE MergeAllProofs ---------------------------
(* Theorems about MergeAll, and so about Visits, for any jobs, any answers *)
(* of the services, any number of requests in a round and of cycles.       *)
EXTENDS MergeAll, FiniteSetTheorems, TLAPS

(* The type of each group of variables that actions write together.        *)
FlowType ==
  /\ job \in Jobs
  /\ pc \in {"request", "cache", "visit", "visiting", "extract", "calling", "cycle",
             "spawn", "collect", "extracted", "ended"}
  /\ fromCache \in BOOLEAN
  /\ page \in Kinds \cup {"none"}
  /\ crawlTime \in Nat \cup {NoTime}
  /\ code \in {NoCode, "CONTENT_ID_GENERATION_FAILED", "DOMAIN_NOT_SUPPORTED",
               "HTTP_500_ERROR", "EXTRACTION_REFUSED", "EXTRACTION_FAILED",
               "EXTRACTION_AJAX_FAILED", "EXTRACTION_MAX_CYCLES_EXCEEDED",
               "VALIDATION_FAILED"}

(* Whoever asks for another extraction has not reached the limit.          *)
CycleType ==
  /\ iteration \in 0..MaxCycles
  /\ pc # "ended" => iteration < MaxCycles

DataType ==
  data \in [unresolved : Lists, products : 0..MaxProducts]

RoundType == round \in 0..MaxAjax /\ received \in 0..MaxAjax /\ channel \in 0..MaxAjax

(* The goroutine of a request has its url once it has left "spawned"; the  *)
(* visit of the page has none.                                             *)
HasUrl(i) ==
  IF i = 0 THEN at[i] \in {"none", "test", "waiting", "count", "counting", "done"}
           ELSE at[i] \notin {"none", "spawned"} => url[i] \in Urls

VisitType ==
  /\ at \in [Slots -> {"none", "spawned", "test", "waiting", "count", "counting",
                       "mapping", "inmap", "answer", "done"}]
  /\ url \in [Slots -> Urls \cup {NoUrl}]
  /\ attempt \in [Slots -> Nat \ {0}]
  /\ status \in [Slots -> Kinds \cup {"none"}]
  /\ seen \in [Slots -> Nat]
  /\ \A i \in Slots : HasUrl(i)

SharedType ==
  /\ metrics \in [url : Nat, retry : Nat]
  /\ failed \subseteq Urls
  /\ sent \in Nat
  /\ clash \in BOOLEAN

MergeType ==
  /\ rival \in {"none", "UNSUPERVISED", "M101"}
  /\ rivalPc \in {"idle", "request", "calling", "record", "ended"}
  /\ first \in Sources
  /\ copied \in [Sources -> 0..MaxProducts]
  /\ gathered \in [Sources -> -1..MaxProducts]
  /\ wrapperPc \in {"idle", "runs", "ended"}
  /\ mergePc \in {"waits", "merged"}
  /\ crash \in {"none", "exit", "fatal", "index", "merge"}

Types ==
  /\ FlowType /\ CycleType /\ DataType /\ RoundType /\ VisitType /\ SharedType
  /\ MergeType

USE DEF pageVars, extractVars, roundVars, visitVars, shared, mergeVars

-----------------------------------------------------------------------------
(* The sequences an extraction may answer, and their elements.             *)
LEMMA ListsHold == << >> \in Lists /\ \A j \in Jobs : Unresolved[j] \subseteq Lists
<1>1. << >> \in Lists
  BY SMT DEF Lists
<1>2. ASSUME NEW j \in Jobs, NEW s \in Unresolved[j] PROVE s \in Lists
  BY SMT DEF Lists
<1> QED BY <1>1, <1>2

LEMMA UnresolvedType ==
  ASSUME NEW s \in Lists
  PROVE  /\ Len(s) \in 0..MaxAjax
         /\ \A i \in 1..Len(s) : s[i] \in Urls
<1>1. CASE s = << >>
  BY <1>1, UrlsAssumption
<1>2. ASSUME s # << >> PROVE Len(s) \in 0..MaxAjax /\ \A i \in 1..Len(s) : s[i] \in Urls
  <2>0. PICK j \in Jobs : s \in Unresolved[j]
    BY <1>2, SMT DEF Lists
  <2>1. s \in Seq(Urls) /\ Len(s) <= MaxAjax /\ Len(s) \in Nat
    BY <2>0, UrlsAssumption
  <2>2. \A i \in 1..Len(s) : s[i] \in Urls
    BY <2>1
  <2> QED BY <2>1, <2>2, UrlsAssumption
<1> QED BY <1>1, <1>2

(* Indexing with an empty list never fails.                                *)
LEMMA MergeSurvives ==
  ASSUME MergeType, NEW s \in Filled, ~Indexes(s) PROVE gathered[s] > 0
<1>1. s \in Sources /\ gathered[s] \in 0..MaxProducts
  BY UrlsAssumption DEF Filled, MergeType
<1> QED BY <1>1, UrlsAssumption DEF Indexes

LEMMA InitTypes == MergeInit => Types
<1> SUFFICES ASSUME MergeInit PROVE Types
  OBVIOUS
<1> USE DEF MergeInit, Init
<1>1. FlowType
  BY DEF FlowType
<1>2. CycleType
  BY EntriesAssumption DEF CycleType
<1>3. DataType
  BY UrlsAssumption, ListsHold DEF DataType, EmptyData
<1>4. RoundType
  BY UrlsAssumption DEF RoundType
<1>5. VisitType
  BY DEF VisitType, HasUrl
<1>6. SharedType
  BY DEF SharedType, NoMetrics
<1>7. MergeType
  <2>1. rival \in {"none", "UNSUPERVISED", "M101"}
    <3>1. job \in Jobs /\ rival \in Rivals[job]
      OBVIOUS
    <3>2. Rivals[job] \subseteq {"none", "UNSUPERVISED", "M101"}
      BY <3>1, RivalsAssumption
    <3> QED BY <3>1, <3>2
  <2>2. first \in Sources
    BY <2>1 DEF Sources, Wrapper
  <2>3. copied \in [Sources -> 0..MaxProducts] /\ gathered \in [Sources -> -1..MaxProducts]
    BY UrlsAssumption
  <2> QED BY <2>1, <2>2, <2>3 DEF MergeType
<1> QED BY <1>1, <1>2, <1>3, <1>4, <1>5, <1>6, <1>7 DEF Types

-----------------------------------------------------------------------------
(* The actions of the source, one lemma for each group of variables.       *)
LEMMA SourceFlow == ASSUME Types, Source PROVE FlowType'
<1> USE DEF Types, FlowType, Goto, End, Kinds
<1>1. CASE Refuse \/ Request \/ CacheMiss \/ VisitThePage
  BY <1>1 DEF Refuse, Request, CacheMiss, VisitThePage
<1>2. CASE PageVisited
  <2>1. 0 \in Slots
    BY UrlsAssumption DEF Slots
  <2>2. status[0] \in Kinds \cup {"none"}
    BY <2>1 DEF VisitType
  <2> QED BY <1>2, <2>2 DEF PageVisited
<1>3. CASE Forbid \/ CallExtraction \/ CallFails
  BY <1>3 DEF Forbid, CallExtraction, CallFails
<1>4. CASE CallReturns
  BY <1>4, OverridesAssumption DEF CallReturns
<1>5. CASE LeaveCycles \/ EnterCycle \/ Spawn \/ Collect \/ CloseRound
  BY <1>5 DEF LeaveCycles, EnterCycle, Spawn, Collect, CloseRound
<1>6. ASSUME NEW e \in Entries, ReadCache(e) PROVE FlowType'
  <2>1. e.age \in Nat /\ e.page \in Kinds
    BY <1>6, EntriesAssumption
  <2>2. UNCHANGED << job, code >>
    BY <1>6 DEF ReadCache
  <2>3. \/ pc' = "extract" /\ fromCache' = TRUE /\ page' = e.page /\ crawlTime' = e.age
        \/ pc' = "visit" /\ crawlTime' = 0 /\ UNCHANGED << fromCache, page >>
    BY <1>6, Zenon DEF ReadCache
  <2>4. page' \in Kinds \cup {"none"} /\ fromCache' \in BOOLEAN
    BY <2>1, <2>3
  <2>5. crawlTime' \in Nat \cup {NoTime}
    BY <2>1, <2>3
  <2>6. pc' \in {"extract", "visit"}
    BY <2>3
  <2> QED BY <2>2, <2>4, <2>5, <2>6
<1> QED BY <1>1, <1>2, <1>3, <1>4, <1>5, <1>6 DEF Source

LEMMA SourceCycle == ASSUME Types, Source PROVE CycleType'
<1> USE EntriesAssumption DEF Types, FlowType, CycleType, Goto, End
<1>1. CASE CallReturns
  <2>1. iteration \in Nat /\ iteration < MaxCycles /\ iteration' = iteration + 1
    BY <1>1 DEF CallReturns
  <2>2. \/ pc' = "ended"
        \/ iteration = 0 /\ iteration' < MaxCycles
        \/ ~LimitReached(iteration + 1)
    BY <1>1, <2>1 DEF CallReturns
  <2> QED BY <2>1, <2>2 DEF LimitReached
<1>2. CASE Refuse \/ Request \/ CacheMiss \/ VisitThePage \/ PageVisited
  BY <1>2 DEF Refuse, Request, CacheMiss, VisitThePage, PageVisited
<1>3. CASE Forbid \/ CallExtraction \/ CallFails \/ LeaveCycles
  BY <1>3 DEF Forbid, CallExtraction, CallFails, LeaveCycles
<1>4. CASE EnterCycle \/ Spawn \/ Collect \/ CloseRound
  BY <1>4 DEF EnterCycle, Spawn, Collect, CloseRound
<1>5. ASSUME NEW e \in Entries, ReadCache(e) PROVE CycleType'
  BY <1>5 DEF ReadCache
<1> QED BY <1>1, <1>2, <1>3, <1>4, <1>5 DEF Source

LEMMA SourceData == ASSUME Types, Source PROVE DataType'
<1> USE UrlsAssumption, ListsHold DEF Types, DataType
<1>1. CASE Refuse \/ Request \/ CacheMiss \/ VisitThePage \/ PageVisited \/ Forbid
  BY <1>1 DEF Refuse, Request, CacheMiss, VisitThePage, PageVisited, Forbid
<1>2. CASE CallExtraction
  BY <1>2 DEF CallExtraction, EmptyData
<1>3. CASE CallFails \/ CallReturns
  <2>1. job \in Jobs
    BY DEF FlowType
  <2>2. Decode => DataType'
    BY <2>1 DEF Decode
  <2> QED BY <1>3, <2>2 DEF CallFails, CallReturns
<1>4. CASE LeaveCycles
  BY <1>4 DEF LeaveCycles
<1>5. CASE EnterCycle \/ Spawn \/ Collect \/ CloseRound
  BY <1>5 DEF EnterCycle, Spawn, Collect, CloseRound
<1>6. ASSUME NEW e \in Entries, ReadCache(e) PROVE DataType'
  BY <1>6 DEF ReadCache
<1> QED BY <1>1, <1>2, <1>3, <1>4, <1>5, <1>6 DEF Source

LEMMA SourceRound == ASSUME Types, Source PROVE RoundType'
<1> USE UrlsAssumption DEF Types, RoundType
<1>1. CASE Refuse \/ Request \/ CacheMiss \/ VisitThePage \/ PageVisited \/ Forbid
  BY <1>1 DEF Refuse, Request, CacheMiss, VisitThePage, PageVisited, Forbid
<1>2. CASE CallExtraction \/ CallFails \/ CallReturns \/ LeaveCycles \/ EnterCycle
  BY <1>2 DEF CallExtraction, CallFails, CallReturns, LeaveCycles, EnterCycle
<1>3. CASE Spawn
  <2>1. Len(data.unresolved) \in 0..MaxAjax
    BY UnresolvedType DEF DataType
  <2> QED BY <1>3, <2>1 DEF Spawn
<1>4. CASE Collect \/ CloseRound
  BY <1>4 DEF Collect, CloseRound
<1>5. ASSUME NEW e \in Entries, ReadCache(e) PROVE RoundType'
  BY <1>5 DEF ReadCache
<1> QED BY <1>1, <1>2, <1>3, <1>4, <1>5 DEF Source

(* Visits start with everything at its first value.                        *)
LEMMA StartVisitsType ==
  ASSUME NEW slots, NEW where,
         StartVisits(slots, where),
         \/ where = "spawned" /\ 0 \notin slots
         \/ where = "test" /\ slots = {0}
  PROVE  VisitType'
  BY DEF StartVisits, VisitType, HasUrl

LEMMA SourceVisit == ASSUME Types, Source PROVE VisitType'
<1> USE DEF Types
<1>1. CASE Refuse \/ Request \/ CacheMiss \/ PageVisited \/ Forbid
  BY <1>1 DEF Refuse, Request, CacheMiss, PageVisited, Forbid, VisitType, HasUrl
<1>2. CASE CallExtraction \/ CallFails \/ CallReturns \/ LeaveCycles \/ EnterCycle
  BY <1>2 DEF CallExtraction, CallFails, CallReturns, LeaveCycles, EnterCycle,
     VisitType, HasUrl
<1>3. CASE Spawn
  <2>1. 0 \notin 1..Len(data.unresolved)
    BY UnresolvedType DEF DataType
  <2> QED BY <1>3, <2>1, StartVisitsType DEF Spawn
<1>4. CASE VisitThePage
  BY <1>4, StartVisitsType DEF VisitThePage
<1>5. CASE Collect \/ CloseRound
  BY <1>5 DEF Collect, CloseRound, VisitType, HasUrl
<1>6. ASSUME NEW e \in Entries, ReadCache(e) PROVE VisitType'
  BY <1>6 DEF ReadCache, VisitType, HasUrl
<1> QED BY <1>1, <1>2, <1>3, <1>4, <1>5, <1>6 DEF Source

LEMMA SourceShared == ASSUME Types, Source PROVE SharedType'
<1> USE DEF Types, SharedType
<1>1. CASE Refuse \/ Request \/ CacheMiss \/ VisitThePage \/ PageVisited \/ Forbid
  BY <1>1 DEF Refuse, Request, CacheMiss, VisitThePage, PageVisited, Forbid
<1>2. CASE CallExtraction \/ CallFails \/ CallReturns \/ LeaveCycles \/ EnterCycle
  BY <1>2 DEF CallExtraction, CallFails, CallReturns, LeaveCycles, EnterCycle
<1>3. CASE Spawn
  BY <1>3 DEF Spawn, NoMetrics
<1>4. CASE Collect \/ CloseRound
  BY <1>4 DEF Collect, CloseRound
<1>5. ASSUME NEW e \in Entries, ReadCache(e) PROVE SharedType'
  BY <1>5 DEF ReadCache
<1> QED BY <1>1, <1>2, <1>3, <1>4, <1>5 DEF Source

LEMMA SourceKeepsCrash == ASSUME Source PROVE UNCHANGED << job, crash >>
  BY DEF Source, Refuse, Request, CacheMiss, VisitThePage, PageVisited, Forbid,
     CallExtraction, CallFails, CallReturns, LeaveCycles, EnterCycle, Spawn, Collect,
     CloseRound, ReadCache

-----------------------------------------------------------------------------
(* A visit leaves the source where it is.                                  *)
VisitKeeps ==
  UNCHANGED << job, pc, fromCache, page, crawlTime, data, iteration, code, round,
               received >>

LEMMA VisitFrame == ASSUME NEW i \in Slots, Visit(i) PROVE VisitKeeps
  BY DEF Visit, TakeUrl, Attempt, LogFatal, Answer, BeginCount, EndCount, BeginMap,
     EndMap, SendAnswer, VisitKeeps

LEMMA WhenVisitedType ==
  ASSUME Types, NEW i \in Slots
  PROVE  WhenVisited(i) \in IF i = 0 THEN {"done"} ELSE {"answer", "mapping"}
  BY DEF WhenVisited

LEMMA VisitVisits == ASSUME Types, NEW i \in Slots, Visit(i) PROVE VisitType'
<1> USE DEF Types, VisitType, HasUrl
<1>0. i \in Nat
  BY UrlsAssumption DEF Slots
<1>1. CASE TakeUrl(i)
  <2>1. CASE i <= Len(data.unresolved)
    <3>1. i \in 1..Len(data.unresolved)
      BY <1>0, <1>1, <2>1, UnresolvedType DEF TakeUrl, DataType
    <3>2. data.unresolved[i] \in Urls
      BY <3>1, UnresolvedType DEF DataType
    <3> QED BY <1>1, <2>1, <3>2 DEF TakeUrl
  <2>2. CASE ~(i <= Len(data.unresolved))
    BY <1>1, <2>2 DEF TakeUrl
  <2> QED BY <2>1, <2>2
<1>2. CASE Attempt(i)
  <2>1. /\ at'[i] \in {"answer", "mapping", "waiting", "test", "done"}
        /\ i = 0 => at'[i] \in {"waiting", "test", "done"}
    BY <1>2, WhenVisitedType DEF Attempt
  <2>2. at' = [at EXCEPT ![i] = at'[i]]
    BY <1>2 DEF Attempt
  <2>3. \/ attempt' = attempt
        \/ attempt' = [attempt EXCEPT ![i] = attempt[i] + 1]
    BY <1>2 DEF Attempt
  <2>4. at[i] = "test" /\ UNCHANGED << url, status, seen >>
    BY <1>2 DEF Attempt
  <2> QED BY <2>1, <2>2, <2>3, <2>4
<1>3. CASE LogFatal(i)
  BY <1>3 DEF LogFatal
<1>4. CASE Answer(i)
  BY <1>4 DEF Answer, Kinds, AjaxKinds
<1>5. CASE BeginCount(i)
  <2>1. metrics[Counter(i)] \in Nat
    BY DEF SharedType, Counter
  <2> QED BY <1>5, <2>1 DEF BeginCount
<1>6. CASE EndCount(i)
  <2>1. /\ at'[i] \in {"answer", "mapping", "test", "done"}
        /\ i = 0 => at'[i] \in {"test", "done"}
    BY <1>6, WhenVisitedType DEF EndCount
  <2>2. at' = [at EXCEPT ![i] = at'[i]] /\ seen' = [seen EXCEPT ![i] = 0]
    BY <1>6 DEF EndCount
  <2>3. \/ attempt' = attempt
        \/ attempt' = [attempt EXCEPT ![i] = attempt[i] + 1]
    BY <1>6 DEF EndCount
  <2>4. at[i] = "counting" /\ UNCHANGED << url, status >>
    BY <1>6 DEF EndCount
  <2> QED BY <2>1, <2>2, <2>3, <2>4
<1>7. CASE BeginMap(i)
  BY <1>7 DEF BeginMap
<1>8. CASE EndMap(i)
  BY <1>8 DEF EndMap
<1>9. CASE SendAnswer(i)
  BY <1>9 DEF SendAnswer
<1> QED BY <1>1, <1>2, <1>3, <1>4, <1>5, <1>6, <1>7, <1>8, <1>9 DEF Visit

LEMMA VisitShared == ASSUME Types, NEW i \in Slots, Visit(i) PROVE SharedType'
<1> USE DEF Types, SharedType
<1>1. CASE TakeUrl(i) \/ Attempt(i) \/ LogFatal(i)
  BY <1>1 DEF TakeUrl, Attempt, LogFatal
<1>2. CASE Answer(i) \/ BeginCount(i) \/ SendAnswer(i)
  BY <1>2 DEF Answer, BeginCount, SendAnswer
<1>3. CASE EndCount(i)
  <2>1. seen[i] \in Nat
    BY DEF VisitType
  <2>2. Count(i) \in [url : Nat, retry : Nat]
    BY <2>1 DEF Count, Counter
  <2> QED BY <1>3, <2>2 DEF EndCount
<1>4. CASE BeginMap(i)
  BY <1>4 DEF BeginMap
<1>5. CASE EndMap(i)
  <2>1. url[i] \in Urls
    BY <1>5 DEF EndMap, VisitType, HasUrl
  <2> QED BY <1>5, <2>1 DEF EndMap
<1> QED BY <1>1, <1>2, <1>3, <1>4, <1>5 DEF Visit

LEMMA VisitRound == ASSUME Types, NEW i \in Slots, Visit(i) PROVE RoundType'
<1>1. \/ channel' = channel
      \/ channel < round /\ channel' = channel + 1
  BY DEF Visit, TakeUrl, Attempt, LogFatal, Answer, BeginCount, EndCount, BeginMap,
     EndMap, SendAnswer
<1> QED BY <1>1, VisitFrame, UrlsAssumption DEF VisitKeeps, Types, RoundType

LEMMA VisitCrash ==
  ASSUME NEW i \in Slots, Visit(i) PROVE crash' \in {crash, "exit", "index", "fatal"}
  BY DEF Visit, TakeUrl, Attempt, LogFatal, Answer, BeginCount, EndCount, BeginMap,
     EndMap, SendAnswer

-----------------------------------------------------------------------------
(* Every step of MERGE_ALL.                                                *)
LEMMA SourceTypes == ASSUME Types, Source, UNCHANGED mergeVars PROVE Types'
<1>1. FlowType' /\ CycleType' /\ DataType'
  BY SourceFlow, SourceCycle, SourceData
<1>2. RoundType' /\ VisitType' /\ SharedType'
  BY SourceRound, SourceVisit, SourceShared
<1>3. MergeType'
  BY SourceKeepsCrash DEF Types, MergeType
<1> QED BY <1>1, <1>2, <1>3 DEF Types

LEMMA VisitTypes ==
  ASSUME Types, NEW i \in Slots, Visit(i), UNCHANGED mergeVars PROVE Types'
<1>1. FlowType' /\ CycleType' /\ DataType'
  BY VisitFrame DEF VisitKeeps, Types, FlowType, CycleType, DataType
<1>2. RoundType' /\ VisitType' /\ SharedType'
  BY VisitRound, VisitVisits, VisitShared
<1>3. MergeType'
  BY VisitCrash DEF Types, MergeType
<1> QED BY <1>1, <1>2, <1>3 DEF Types

(* The steps around the supervised source leave it where it is, but may    *)
(* change its data.                                                        *)
MergeKeeps ==
  UNCHANGED << job, pc, pageVars, iteration, code, roundVars, visitVars, shared, rival,
               first >>

Launch == LaunchWrapper \/ LaunchRival

Around == Launch \/ Rival \/ RecordWrapper \/ Merge

LEMMA AroundFrame ==
  ASSUME Around PROVE MergeKeeps /\ Running /\ crash' \in {crash, "merge"}
<1> USE DEF MergeKeeps
<1>1. CASE UnsupervisedRequest \/ UnsupervisedExtract \/ M101Request
  BY <1>1 DEF UnsupervisedRequest, UnsupervisedExtract, M101Request, GotoRival
<1>2. CASE RivalFails \/ RecordRival \/ RecordWrapper
  BY <1>2 DEF RivalFails, RecordRival, RecordWrapper, GotoRival, vars
<1>3. CASE Launch
  BY <1>3 DEF Launch, LaunchWrapper, LaunchRival, vars
<1>4. CASE Merge
  BY <1>4 DEF Merge, vars
<1> QED BY <1>1, <1>2, <1>3, <1>4 DEF Around, Rival

LEMMA AroundData ==
  ASSUME Types, Around
  PROVE  /\ DataType'
         /\ data' = data \/ rivalPc \in {"request", "calling"}
         /\ data'.unresolved = data.unresolved \/ rival = "UNSUPERVISED"
<1> USE UrlsAssumption DEF Types, DataType
<1>1. CASE UnsupervisedRequest
  BY <1>1, ListsHold DEF UnsupervisedRequest, GotoRival, EmptyData
<1>2. CASE UnsupervisedExtract \/ M101Request
  BY <1>2 DEF UnsupervisedExtract, M101Request, GotoRival
<1>3. CASE Launch \/ RivalFails \/ RecordRival \/ RecordWrapper
  BY <1>3 DEF Launch, LaunchWrapper, LaunchRival, RivalFails, RecordRival, RecordWrapper,
     vars
<1>4. CASE Merge
  BY <1>4 DEF Merge, vars
<1> QED BY <1>1, <1>2, <1>3, <1>4 DEF Around, Rival

LEMMA AroundMerge == ASSUME Types, Around PROVE MergeType'
<1> USE UrlsAssumption DEF Types, MergeType
<1>1. CASE UnsupervisedRequest \/ UnsupervisedExtract \/ M101Request
  BY <1>1 DEF UnsupervisedRequest, UnsupervisedExtract, M101Request, GotoRival
<1>2. CASE RivalFails
  BY <1>2 DEF RivalFails, GotoRival, vars
<1>3. CASE RecordRival \/ RecordWrapper
  <2>1. \A s \in Sources : Recorded(s) \in -1..MaxProducts
    BY DEF Recorded
  <2>2. gathered' \in [Sources -> -1..MaxProducts]
    BY <1>3, <2>1 DEF RecordRival, RecordWrapper, Sources, Wrapper
  <2> QED BY <1>3, <2>2 DEF RecordRival, RecordWrapper, GotoRival, vars
<1>4. CASE Launch
  <2>1. data.products \in 0..MaxProducts
    BY DEF DataType
  <2> QED BY <1>4, <2>1 DEF Launch, LaunchWrapper, LaunchRival, vars
<1>5. CASE Merge
  BY <1>5 DEF Merge, vars
<1> QED BY <1>1, <1>2, <1>3, <1>4, <1>5 DEF Around, Rival

LEMMA AroundTypes == ASSUME Types, Around PROVE Types'
<1>1. MergeKeeps
  BY AroundFrame
<1>2. FlowType' /\ CycleType' /\ RoundType' /\ SharedType'
  BY <1>1 DEF MergeKeeps, Types, FlowType, CycleType, RoundType, SharedType
<1>3. VisitType'
  BY <1>1 DEF MergeKeeps, Types, VisitType, HasUrl
<1> QED BY <1>2, <1>3, AroundData, AroundMerge DEF Types

LEMMA SameTypes == ASSUME Types, UNCHANGED allVars PROVE Types'
<1> USE DEF allVars, vars, Types
<1>1. FlowType' /\ CycleType' /\ DataType' /\ RoundType' /\ SharedType'
  BY DEF FlowType, CycleType, DataType, RoundType, SharedType
<1>2. VisitType'
  BY DEF VisitType, HasUrl
<1>3. MergeType'
  BY DEF MergeType
<1> QED BY <1>1, <1>2, <1>3

LEMMA NextTypes == Types /\ [MergeNext]_allVars => Types'
<1> SUFFICES ASSUME Types, [MergeNext]_allVars PROVE Types'
  OBVIOUS
<1>1. CASE UNCHANGED allVars
  BY <1>1, SameTypes
<1>2. CASE Step /\ UNCHANGED mergeVars
  BY <1>2, SourceTypes, VisitTypes DEF Step
<1>3. CASE Around
  BY <1>3, AroundTypes
<1> QED BY <1>1, <1>2, <1>3 DEF MergeNext, Progress, Around, Launch

(* Every variable of the visits keeps its type: the cycles stay below      *)
(* their limit (wrapper.go:187) and a round within its channel.            *)
THEOREM TypeCorrect == MergeSpec => []TypeOK
<1>1. Types => TypeOK
  BY DEF Types, FlowType, CycleType, DataType, RoundType, VisitType, SharedType,
     MergeType, TypeOK
<1> QED BY <1>1, InitTypes, NextTypes, PTL DEF MergeSpec

-----------------------------------------------------------------------------
(* Where the source is tells whether its page has been visited.            *)
Phase ==
  /\ pc \in {"request", "cache", "visit", "visiting"} => iteration = 0 /\ fromCache = FALSE
  /\ pc \in {"request", "cache", "visit"} => at[0] = "none"
  /\ pc = "visiting" => at[0] # "none"
  /\ pc \in {"cycle", "spawn", "collect"} => iteration > 0
  /\ pc \in {"extract", "calling"} /\ iteration = 0 =>
       \/ fromCache = TRUE /\ at[0] = "none"
       \/ fromCache = FALSE /\ at[0] # "none"

(* The age of the page that is used.                                       *)
Age ==
  /\ fromCache = FALSE => crawlTime \in {0, NoTime}
  /\ fromCache = TRUE =>
       \E e \in Entries :
         /\ crawlTime = e.age /\ e.full
         /\ job.cacheTtl >= 0 =>
              e.age < (IF job.cacheTtl > 0 THEN job.cacheTtl ELSE DefaultTtl)

LEMMA ZeroIsSlot == 0 \in Slots /\ 0 \notin Ajax /\ Slots = Ajax \cup {0}
  BY UrlsAssumption DEF Slots, Ajax

LEMMA ReadCacheFrame ==
  ASSUME NEW e \in Entries, ReadCache(e)
  PROVE  /\ pc = "cache" /\ UNCHANGED << job, iteration, at >>
         /\ \/ pc' = "extract" /\ fromCache' = TRUE /\ crawlTime' = e.age /\ e.full
            \/ pc' = "visit" /\ fromCache' = fromCache /\ crawlTime' = 0
<1>1. pc = "cache" /\ UNCHANGED << job, iteration, at >>
  BY DEF ReadCache, Goto
<1>2. \/ pc' = "extract" /\ fromCache' = TRUE /\ crawlTime' = e.age /\ e.full
      \/ pc' = "visit" /\ fromCache' = fromCache /\ crawlTime' = 0
  BY Zenon DEF ReadCache, Goto
<1> QED BY <1>1, <1>2

LEMMA SourcePhase == ASSUME Types, Phase, Source PROVE Phase'
<1> USE DEF Phase, Goto, End
<1>0. iteration \in Nat
  BY EntriesAssumption DEF Types, CycleType
<1>1. CASE Refuse \/ Request \/ CacheMiss \/ PageVisited
  BY <1>1, <1>0 DEF Refuse, Request, CacheMiss, PageVisited
<1>2. CASE VisitThePage
  <2>1. at'[0] = "test"
    BY <1>2, ZeroIsSlot DEF VisitThePage, StartVisits
  <2> QED BY <1>2, <2>1 DEF VisitThePage
<1>3. CASE Forbid \/ CallExtraction \/ CallFails
  BY <1>3, <1>0 DEF Forbid, CallExtraction, CallFails
<1>4. CASE CallReturns
  BY <1>4, <1>0 DEF CallReturns
<1>5. CASE LeaveCycles \/ EnterCycle \/ Spawn
  BY <1>5, <1>0 DEF LeaveCycles, EnterCycle, Spawn
<1>6. CASE Collect \/ CloseRound
  BY <1>6, <1>0 DEF Collect, CloseRound
<1>7. ASSUME NEW e \in Entries, ReadCache(e) PROVE Phase'
  BY <1>7, ReadCacheFrame
<1> QED BY <1>1, <1>2, <1>3, <1>4, <1>5, <1>6, <1>7 DEF Source

(* A visit that has begun does not vanish.                                 *)
LEMMA VisitStays ==
  ASSUME Types, NEW i \in Slots, Visit(i)
  PROVE  /\ at[i] # "none" /\ at'[i] # "none"
         /\ \A j \in Slots \ {i} : at'[j] = at[j]
<1> USE DEF Types, VisitType
<1>1. CASE TakeUrl(i) \/ LogFatal(i) \/ Answer(i) \/ BeginCount(i)
  BY <1>1 DEF TakeUrl, LogFatal, Answer, BeginCount
<1>2. CASE Attempt(i)
  BY <1>2, WhenVisitedType DEF Attempt
<1>3. CASE EndCount(i)
  BY <1>3, WhenVisitedType DEF EndCount
<1>4. CASE BeginMap(i) \/ EndMap(i) \/ SendAnswer(i)
  BY <1>4 DEF BeginMap, EndMap, SendAnswer
<1> QED BY <1>1, <1>2, <1>3, <1>4 DEF Visit

LEMMA VisitPhase == ASSUME Types, Phase, NEW i \in Slots, Visit(i) PROVE Phase'
<1>1. at'[0] = "none" <=> at[0] = "none"
  BY VisitStays, ZeroIsSlot
<1> QED BY <1>1, VisitFrame DEF VisitKeeps, Phase

LEMMA SourceAge == ASSUME Types, Phase, Age, Source PROVE Age'
<1>1. CASE Request
  <2>1. fromCache' = FALSE /\ crawlTime' \in {crawlTime, 0} /\ fromCache = FALSE
    BY <1>1 DEF Request, Phase, Goto
  <2> QED BY <2>1 DEF Age
<1>2. CASE UNCHANGED << job, fromCache, crawlTime >>
  BY <1>2 DEF Age
<1>3. ASSUME NEW e \in Entries, ReadCache(e) PROVE Age'
  <2>1. job' = job /\ fromCache = FALSE
    BY <1>3, ReadCacheFrame DEF Phase
  <2>2. job.cacheTtl >= 0 => e.age < (IF job.cacheTtl > 0 THEN job.cacheTtl ELSE DefaultTtl)
    <3>1. ~Expired(e)
      BY <1>3 DEF ReadCache
    <3>2. job.cacheTtl \in Int
      BY JobsAssumption DEF Types, FlowType
    <3>3. DefaultTtl \in Nat \ {0} /\ e.age \in Nat
      BY EntriesAssumption
    <3> QED BY <3>1, <3>2, <3>3 DEF Expired, Ttl
  <2>3. \/ fromCache' = TRUE /\ crawlTime' = e.age /\ e.full
        \/ fromCache' = FALSE /\ crawlTime' = 0
    BY <1>3, <2>1, ReadCacheFrame
  <2> QED BY <2>1, <2>2, <2>3 DEF Age
<1>4. Source => \/ Request \/ UNCHANGED << job, fromCache, crawlTime >>
               \/ \E e \in Entries : ReadCache(e)
  BY DEF Source, Refuse, CacheMiss, VisitThePage, PageVisited,
     Forbid, CallExtraction, CallFails, CallReturns, LeaveCycles, EnterCycle, Spawn,
     Collect, CloseRound
<1> QED BY <1>1, <1>2, <1>3, <1>4

FreshInv == Types /\ Phase /\ Age

LEMMA NextFresh == FreshInv /\ [MergeNext]_allVars => FreshInv'
<1> SUFFICES ASSUME FreshInv, [MergeNext]_allVars PROVE Phase' /\ Age'
  BY NextTypes DEF FreshInv
<1> USE DEF FreshInv
<1>1. CASE UNCHANGED allVars
  BY <1>1 DEF allVars, vars, Phase, Age
<1>2. CASE Source
  BY <1>2, SourcePhase, SourceAge
<1>3. ASSUME NEW i \in Slots, Visit(i) PROVE Phase' /\ Age'
  BY <1>3, VisitPhase, VisitFrame DEF VisitKeeps, Age
<1>4. CASE Around
  <2>1. MergeKeeps
    BY <1>4, AroundFrame
  <2> QED BY <2>1 DEF MergeKeeps, Phase, Age
<1> QED BY <1>1, <1>2, <1>3, <1>4 DEF MergeNext, Progress, Step, Around, Launch

LEMMA InitFresh == MergeInit => FreshInv
<1> SUFFICES ASSUME MergeInit PROVE Phase /\ Age
  BY InitTypes DEF FreshInv
<1>1. /\ pc = "request" /\ iteration = 0 /\ fromCache = FALSE /\ crawlTime = NoTime
      /\ at[0] = "none"
  BY ZeroIsSlot DEF MergeInit, Init
<1> QED BY <1>1 DEF Phase, Age

(* A page of the cache is never older than the ttl that applies allows,    *)
(* and any other page has been visited by the task itself, whatever the    *)
(* cache holds (ReadDataFromCache, utils/cache.go).                        *)
THEOREM Fresh == MergeSpec => []ServesFreshPages
<1>1. FreshInv => ServesFreshPages
  <2> SUFFICES ASSUME FreshInv PROVE ServesFreshPages
    OBVIOUS
  <2>1. fromCache \in BOOLEAN
    BY DEF FreshInv, Types, FlowType
  <2>2. fromCache = TRUE /\ job.cacheTtl >= 0 =>
          crawlTime < (IF job.cacheTtl > 0 THEN job.cacheTtl ELSE DefaultTtl)
    BY DEF FreshInv, Age
  <2>3. fromCache = TRUE => crawlTime \in {e.age : e \in {f \in Entries : f.full}}
    BY DEF FreshInv, Age
  <2>4. fromCache = FALSE => crawlTime \in {0, NoTime}
    BY DEF FreshInv, Age
  <2>5. pc = "extract" /\ iteration = 0 => (fromCache = TRUE <=> at[0] = "none")
    BY DEF FreshInv, Phase
  <2> QED BY <2>1, <2>2, <2>3, <2>4, <2>5 DEF ServesFreshPages
<1> QED BY <1>1, InitFresh, NextFresh, PTL DEF MergeSpec

-----------------------------------------------------------------------------
(* The visits whose request has been made and not yet counted.             *)
Uncounted == {i \in Slots : at[i] \in {"waiting", "count", "counting"}}

(* urls and retries are what the two counters would hold without lost      *)
(* updates: the counters, and what the visits have read of them, are at    *)
(* most as much.                                                           *)
Bounded(urls, retries) ==
  /\ metrics.url <= urls /\ metrics.retry <= retries
  /\ \A i \in Slots : at[i] = "counting" =>
       seen[i] <= (IF attempt[i] = 1 THEN urls ELSE retries)

CountInv ==
  \E urls, retries \in Nat :
    /\ urls + retries + Cardinality(Uncounted) <= sent
    /\ Bounded(urls, retries)

LEMMA UncountedType ==
  /\ IsFiniteSet(Uncounted) /\ Cardinality(Uncounted) \in Nat
  /\ IsFiniteSet(Uncounted)'
  /\ Cardinality(Uncounted)' \in Nat
<1>1. IsFiniteSet(Slots)
  BY FS_Interval, UrlsAssumption DEF Slots
<1>2. Uncounted \subseteq Slots /\ Uncounted' \subseteq Slots
  BY DEF Uncounted
<1>3. IsFiniteSet(Uncounted) /\ IsFiniteSet(Uncounted')
  BY <1>1, <1>2, FS_Subset
<1> QED BY <1>3, FS_CardinalityType

(* A step that starts or ends no request, or forgets some, and counts none.*)
LEMMA SameCount ==
  ASSUME Types, CountInv, Uncounted' \subseteq Uncounted,
         metrics' = metrics, sent' = sent,
         \A i \in Slots : at'[i] = "counting" =>
           \/ at[i] = "counting" /\ seen'[i] = seen[i] /\ attempt'[i] = attempt[i]
           \/ seen'[i] = metrics[Counter(i)] /\ attempt'[i] = attempt[i]
  PROVE  CountInv'
<1>1. PICK urls \in Nat, retries \in Nat :
        /\ urls + retries + Cardinality(Uncounted) <= sent
        /\ Bounded(urls, retries)
  BY DEF CountInv
<1>2. Cardinality(Uncounted') <= Cardinality(Uncounted)
  BY UncountedType, FS_Subset
<1>3. ASSUME NEW i \in Slots, at'[i] = "counting"
      PROVE  seen'[i] <= (IF attempt'[i] = 1 THEN urls ELSE retries)
  <2>1. CASE at[i] = "counting" /\ seen'[i] = seen[i] /\ attempt'[i] = attempt[i]
    BY <1>1, <2>1 DEF Bounded
  <2>2. CASE seen'[i] = metrics[Counter(i)] /\ attempt'[i] = attempt[i]
    BY <1>1, <2>2 DEF Bounded, Counter
  <2> QED BY <1>3, <2>1, <2>2
<1>4. Bounded(urls, retries)'
  BY <1>1, <1>3 DEF Bounded
<1>5. urls + retries + Cardinality(Uncounted)' <= sent'
  <2>1. sent \in Nat
    BY DEF Types, SharedType
  <2> QED BY <1>1, <1>2, <2>1, UncountedType
<1> QED BY <1>4, <1>5 DEF CountInv

LEMMA StartCount ==
  ASSUME NEW slots, NEW where \in {"test", "spawned"}, StartVisits(slots, where)
  PROVE  Uncounted' = {} /\ \A i \in Slots : at'[i] # "counting"
  BY DEF StartVisits, Uncounted

LEMMA SourceCount == ASSUME Types, CountInv, Source PROVE CountInv'
<1>1. CASE UNCHANGED << at, seen, attempt, metrics, sent >>
  BY <1>1, SameCount DEF Uncounted
<1>2. CASE VisitThePage
  <2>1. Uncounted' = {} /\ \A i \in Slots : at'[i] # "counting"
    BY <1>2, StartCount DEF VisitThePage
  <2> QED BY <1>2, <2>1, SameCount DEF VisitThePage
<1>3. CASE Spawn
  <2>1. Uncounted' = {} /\ \A i \in Slots : at'[i] # "counting"
    BY <1>3, StartCount DEF Spawn
  <2>2. Cardinality(Uncounted') = 0
    BY <2>1, FS_EmptySet
  <2>3. Bounded(0, 0)'
    BY <1>3, <2>1 DEF Spawn, Bounded, NoMetrics
  <2>4. sent' = 0
    BY <1>3 DEF Spawn
  <2> QED BY <2>2, <2>3, <2>4 DEF CountInv
<1>4. Source => \/ VisitThePage \/ Spawn \/ UNCHANGED << at, seen, attempt, metrics, sent >>
  BY DEF Source, Refuse, Request, CacheMiss, PageVisited,
     Forbid, CallExtraction, CallFails, CallReturns, LeaveCycles, EnterCycle,
     Collect, CloseRound, ReadCache
<1> QED BY <1>1, <1>2, <1>3, <1>4

LEMMA AttemptCount == ASSUME Types, CountInv, NEW i \in Slots, Attempt(i) PROVE CountInv'
<1> USE DEF Types, VisitType
<1>1. CASE at'[i] = "waiting"
  <2>1. PICK urls \in Nat, retries \in Nat :
          /\ urls + retries + Cardinality(Uncounted) <= sent
          /\ Bounded(urls, retries)
    BY DEF CountInv
  <2>2. at' = [at EXCEPT ![i] = "waiting"] /\ at[i] = "test" /\ sent' = sent + 1
    BY <1>1, WhenVisitedType DEF Attempt
  <2>3. Uncounted' = Uncounted \cup {i}
    BY <2>2 DEF Uncounted
  <2>4. Cardinality(Uncounted') <= Cardinality(Uncounted) + 1
    BY <2>3, UncountedType, FS_AddElement
  <2>5. \A j \in Slots : at'[j] = "counting" => at[j] = "counting"
    BY <2>2
  <2>6. attempt' = attempt /\ seen' = seen /\ metrics' = metrics
    BY <1>1, WhenVisitedType DEF Attempt
  <2>7. Bounded(urls, retries)'
    BY <2>1, <2>5, <2>6 DEF Bounded
  <2>8. urls + retries + Cardinality(Uncounted)' <= sent'
    BY <2>1, <2>2, <2>4, UncountedType DEF SharedType
  <2> QED BY <2>7, <2>8 DEF CountInv
<1>2. CASE at'[i] # "waiting"
  <2>1. UNCHANGED << metrics, seen, sent >> /\ at[i] = "test"
    BY <1>2 DEF Attempt
  <2>2. at'[i] \in {"test", "done", "answer", "mapping"}
    BY <1>2, WhenVisitedType DEF Attempt
  <2>3. \A j \in Slots \ {i} : at'[j] = at[j] /\ attempt'[j] = attempt[j]
    BY DEF Attempt
  <2>4. Uncounted' \subseteq Uncounted
    BY <2>1, <2>2, <2>3 DEF Uncounted
  <2>5. \A j \in Slots : at'[j] = "counting" => at[j] = "counting" /\ attempt'[j] = attempt[j]
    BY <2>2, <2>3
  <2> QED BY <2>1, <2>4, <2>5, SameCount
<1> QED BY <1>1, <1>2

LEMMA EndCountCount == ASSUME Types, CountInv, NEW i \in Slots, EndCount(i) PROVE CountInv'
<1> USE DEF Types, VisitType
<1>1. PICK urls \in Nat, retries \in Nat :
        /\ urls + retries + Cardinality(Uncounted) <= sent
        /\ Bounded(urls, retries)
  BY DEF CountInv
<1>2. at[i] = "counting" /\ metrics' = Count(i) /\ sent' = sent
  BY DEF EndCount
<1>3. at'[i] \in {"test", "done", "answer", "mapping"}
  BY WhenVisitedType DEF EndCount
<1>4. \A j \in Slots \ {i} :
        at'[j] = at[j] /\ attempt'[j] = attempt[j] /\ seen'[j] = seen[j]
  BY DEF EndCount
<1>5. Uncounted' = Uncounted \ {i} /\ i \in Uncounted
  BY <1>2, <1>3, <1>4 DEF Uncounted
<1>6. Cardinality(Uncounted') = Cardinality(Uncounted) - 1
  BY <1>5, UncountedType, FS_RemoveElement
<1> DEFINE initial == attempt[i] = 1
<1>7. PICK urls2 \in Nat, retries2 \in Nat :
        /\ urls2 = IF initial THEN urls + 1 ELSE urls
        /\ retries2 = IF initial THEN retries ELSE retries + 1
  OBVIOUS
<1>8. /\ metrics'.url <= urls2 /\ metrics'.retry <= retries2
  <2>1. seen[i] \in Nat /\ metrics.url \in Nat /\ metrics.retry \in Nat
    BY DEF SharedType
  <2>2. /\ metrics'.url = IF initial THEN seen[i] + 1 ELSE metrics.url
        /\ metrics'.retry = IF initial THEN metrics.retry ELSE seen[i] + 1
    BY <1>2 DEF Count, Counter, SharedType
  <2>3. seen[i] <= (IF initial THEN urls ELSE retries)
    BY <1>1, <1>2 DEF Bounded
  <2>4. metrics.url <= urls /\ metrics.retry <= retries
    BY <1>1 DEF Bounded
  <2> QED BY <1>7, <2>1, <2>2, <2>3, <2>4
<1>9. ASSUME NEW j \in Slots, at'[j] = "counting"
      PROVE  seen'[j] <= (IF attempt'[j] = 1 THEN urls2 ELSE retries2)
  <2>1. j # i /\ at[j] = "counting" /\ attempt'[j] = attempt[j] /\ seen'[j] = seen[j]
    BY <1>3, <1>4, <1>9
  <2>2. seen[j] <= (IF attempt[j] = 1 THEN urls ELSE retries) /\ seen[j] \in Nat
    BY <1>1, <2>1 DEF Bounded
  <2> QED BY <1>7, <2>1, <2>2
<1>10. Bounded(urls2, retries2)'
  BY <1>8, <1>9 DEF Bounded
<1>11. urls2 + retries2 + Cardinality(Uncounted)' <= sent'
  <2>1. sent \in Nat
    BY DEF SharedType
  <2>2. urls2 + retries2 = urls + retries + 1
    BY <1>7
  <2> QED BY <1>1, <1>2, <1>6, <2>1, <2>2, UncountedType
<1> QED BY <1>10, <1>11 DEF CountInv

LEMMA VisitCount == ASSUME Types, CountInv, NEW i \in Slots, Visit(i) PROVE CountInv'
<1> USE DEF Types, VisitType
<1>1. CASE TakeUrl(i) \/ LogFatal(i)
  BY <1>1, SameCount DEF TakeUrl, LogFatal, Uncounted
<1>2. CASE Answer(i)
  BY <1>2, SameCount DEF Answer, Uncounted
<1>3. CASE BeginCount(i)
  <2>1. UNCHANGED << metrics, sent, attempt >>
    BY <1>3 DEF BeginCount
  <2>2. Uncounted' \subseteq Uncounted
    BY <1>3 DEF BeginCount, Uncounted
  <2>3. at'[i] = "counting" => seen'[i] = metrics[Counter(i)]
    BY <1>3 DEF BeginCount
  <2>4. \A j \in Slots \ {i} : at'[j] = at[j] /\ seen'[j] = seen[j]
    BY <1>3 DEF BeginCount
  <2> QED BY <2>1, <2>2, <2>3, <2>4, SameCount
<1>4. CASE BeginMap(i)
  BY <1>4, SameCount DEF BeginMap, Uncounted
<1>5. CASE EndMap(i)
  BY <1>5, SameCount DEF EndMap, Uncounted
<1>6. CASE SendAnswer(i)
  BY <1>6, SameCount DEF SendAnswer, Uncounted
<1> QED BY <1>1, <1>2, <1>3, <1>4, <1>5, <1>6, AttemptCount, EndCountCount DEF Visit

LEMMA InitCount == MergeInit => CountInv
<1> SUFFICES ASSUME MergeInit PROVE CountInv
  OBVIOUS
<1>1. Init
  BY DEF MergeInit
<1>2. Uncounted = {} /\ \A i \in Slots : at[i] # "counting"
  BY <1>1 DEF Init, Uncounted
<1>3. Cardinality(Uncounted) = 0
  BY <1>2, FS_EmptySet
<1>4. Bounded(0, 0) /\ sent = 0
  BY <1>1, <1>2 DEF Init, NoMetrics, Bounded
<1> QED BY <1>3, <1>4 DEF CountInv

LEMMA NextCount == Types /\ CountInv /\ [MergeNext]_allVars => CountInv'
<1> SUFFICES ASSUME Types, CountInv, [MergeNext]_allVars PROVE CountInv'
  OBVIOUS
<1>1. CASE UNCHANGED allVars
  BY <1>1, SameCount DEF allVars, vars, Uncounted
<1>2. CASE Source
  BY <1>2, SourceCount
<1>3. ASSUME NEW i \in Slots, Visit(i) PROVE CountInv'
  BY <1>3, VisitCount
<1>4. CASE Around
  <2>1. MergeKeeps
    BY <1>4, AroundFrame
  <2> QED BY <2>1, SameCount DEF MergeKeeps, Uncounted
<1> QED BY <1>1, <1>2, <1>3, <1>4 DEF MergeNext, Progress, Step, Around, Launch

(* The counters that the goroutines of a round share may lose updates, but *)
(* never hold more than the requests made, however many goroutines and     *)
(* retries there are (VisitPage, request/request.go).                      *)
THEOREM Counted == MergeSpec => []CountedAtMost
<1>1. Types /\ CountInv => CountedAtMost
  <2> SUFFICES ASSUME Types, CountInv PROVE CountedAtMost
    OBVIOUS
  <2>1. PICK urls \in Nat, retries \in Nat :
          /\ urls + retries + Cardinality(Uncounted) <= sent
          /\ Bounded(urls, retries)
    BY DEF CountInv
  <2>2. metrics.url \in Nat /\ metrics.retry \in Nat /\ sent \in Nat
    BY DEF Types, SharedType
  <2> QED BY <2>1, <2>2, UncountedType DEF Bounded, CountedAtMost
<1> QED BY <1>1, InitTypes, NextTypes, InitCount, NextCount, PTL DEF MergeSpec

-----------------------------------------------------------------------------
Quiet(i) == at[i] \in {"none", "done"}

DoneSet == {i \in Ajax : at[i] = "done"}

(* Visits run only while the source waits for them; the answers of a round *)
(* are taken, in the channel or still to come.                             *)
RoundInv ==
  /\ pc # "visiting" => Quiet(0)
  /\ pc # "collect" => channel = 0 /\ \A i \in Ajax : Quiet(i)
  /\ iteration = 0 => \A i \in Ajax : at[i] = "none"
  /\ \A i \in Ajax : at[i] # "none" => i <= round
  /\ pc = "collect" => /\ \A i \in 1..round : at[i] # "none"
                       /\ received + channel = Cardinality(DoneSet)

(* Whoever has passed the map of failures is in it, or has been lost.      *)
FailInv ==
  \A i \in Ajax :
    at[i] \in {"answer", "done"} /\ status[i] # "success" =>
      clash = TRUE \/ url[i] \in failed

(* Only UNSUPERVISED shortens the list under the goroutines that start.    *)
IndexInv ==
  rival # "UNSUPERVISED" =>
    \A i \in Ajax : at[i] = "spawned" => i <= Len(data.unresolved)

CrashInv ==
  /\ crash = "fatal" => round >= 2
  /\ crash = "index" => rival = "UNSUPERVISED" /\ round >= 1

MergeInv ==
  /\ mergePc = "merged" => wrapperPc = "ended" /\ rivalPc = "ended"
  /\ wrapperPc = "ended" => pc \in {"ended", "extracted"}

(* Before the first goroutine is started nobody has left a product, so     *)
(* that its copy is empty; the others may have been given any.             *)
Unstarted == IF first = Wrapper THEN wrapperPc = "idle" ELSE rivalPc = "idle"

CopyInv ==
  /\ first \in {Wrapper, rival}
  /\ Unstarted => /\ wrapperPc = "idle" /\ rivalPc \in {"idle", "ended"}
                  /\ data.products = 0
  /\ copied[first] = 0 /\ gathered[first] <= 0
  /\ crash = "merge" => \E s \in Filled \ {first} : gathered[s] > 0

IInv == FreshInv /\ RoundInv /\ FailInv /\ IndexInv /\ CrashInv /\ MergeInv /\ CopyInv

-----------------------------------------------------------------------------
LEMMA DoneType ==
  ASSUME Types, RoundInv
  PROVE  /\ DoneSet \subseteq 1..round
         /\ IsFiniteSet(1..round) /\ Cardinality(1..round) = round
         /\ IsFiniteSet(DoneSet) /\ Cardinality(DoneSet) \in Nat
<1>1. round \in Nat
  BY UrlsAssumption DEF Types, RoundType
<1>2. DoneSet \subseteq 1..round
  BY <1>1, UrlsAssumption DEF DoneSet, Ajax, RoundInv
<1>3. IsFiniteSet(1..round) /\ Cardinality(1..round) = round
  BY <1>1, FS_Interval
<1>4. IsFiniteSet(DoneSet)
  BY <1>2, <1>3, FS_Subset
<1> QED BY <1>2, <1>3, <1>4, FS_CardinalityType

(* When as many answers have been taken as goroutines were started, all of *)
(* them are done and the channel is empty.                                 *)
LEMMA AllReceived ==
  ASSUME Types, RoundInv, pc = "collect", received >= round
  PROVE  channel = 0 /\ \A i \in Ajax : Quiet(i)
<1>1. Cardinality(DoneSet) <= round
  BY DoneType, FS_Subset
<1>2. received + channel = Cardinality(DoneSet)
  BY DEF RoundInv
<1>3. received \in Nat /\ channel \in Nat /\ round \in Nat
  BY UrlsAssumption DEF Types, RoundType
<1>4. channel = 0 /\ Cardinality(DoneSet) = round
  BY <1>1, <1>2, <1>3, DoneType
<1>5. DoneSet = 1..round
  BY <1>4, DoneType, FS_Subset
<1>6. ASSUME NEW i \in Ajax PROVE Quiet(i)
  <2>1. CASE at[i] = "none"
    BY <2>1 DEF Quiet
  <2>2. CASE at[i] # "none"
    <3>1. i \in 1..round
      BY <2>2, <1>3, UrlsAssumption DEF RoundInv, Ajax
    <3> QED BY <3>1, <1>5 DEF DoneSet, Quiet
  <2> QED BY <2>1, <2>2
<1> QED BY <1>4, <1>6

(* A step that leaves the visits and the round where they are.             *)
LEMMA SameRound ==
  ASSUME RoundInv, UNCHANGED << at, round, received, channel >>,
         pc' = pc \/ (pc \notin {"visiting", "collect"} /\ pc' \notin {"visiting", "collect"}),
         iteration' = iteration \/ iteration' # 0
  PROVE  RoundInv'
<1>1. DoneSet' = DoneSet /\ \A i : Quiet(i)' <=> Quiet(i)
  BY DEF DoneSet, Quiet
<1> QED BY <1>1 DEF RoundInv

LEMMA SourceRoundInv == ASSUME FreshInv, RoundInv, Source PROVE RoundInv'
<1> USE DEF FreshInv, Goto, End
<1>0. iteration \in Nat
  BY EntriesAssumption DEF Types, CycleType
<1>1. CASE Refuse \/ Request \/ CacheMiss
  BY <1>1, SameRound DEF Refuse, Request, CacheMiss
<1>2. CASE Forbid \/ CallExtraction \/ CallFails
  BY <1>2, SameRound DEF Forbid, CallExtraction, CallFails
<1>3. CASE CallReturns
  BY <1>3, <1>0, SameRound DEF CallReturns
<1>4. CASE LeaveCycles \/ EnterCycle
  BY <1>4, SameRound DEF LeaveCycles, EnterCycle
<1>5. ASSUME NEW e \in Entries, ReadCache(e) PROVE RoundInv'
  <2>1. UNCHANGED << at, round, received, channel, iteration >>
    BY <1>5 DEF ReadCache
  <2>2. pc = "cache" /\ pc' \in {"extract", "visit"}
    BY <1>5, ReadCacheFrame
  <2> QED BY <2>1, <2>2, SameRound
<1>6. CASE VisitThePage
  <2>1. /\ pc = "visit" /\ pc' = "visiting"
        /\ UNCHANGED << round, received, channel, iteration >>
    BY <1>6 DEF VisitThePage
  <2>2. \A i \in Ajax : at'[i] = "none"
    BY <1>6, ZeroIsSlot DEF VisitThePage, StartVisits
  <2> QED BY <2>1, <2>2 DEF RoundInv, Quiet
<1>7. CASE PageVisited
  <2>1. /\ pc = "visiting" /\ pc' \in {"extract", "ended"} /\ at[0] = "done"
        /\ UNCHANGED << at, round, received, channel, iteration >>
    BY <1>7 DEF PageVisited
  <2> QED BY <2>1 DEF RoundInv, Quiet
<1>8. CASE Spawn
  <2> DEFINE n == Len(data.unresolved)
  <2>1. n \in 0..MaxAjax
    BY UnresolvedType DEF Types, DataType
  <2>2. /\ pc' = "collect" /\ round' = n /\ received' = 0 /\ channel' = 0
        /\ iteration' = iteration /\ iteration > 0
    BY <1>8 DEF Spawn, Phase
  <2>3. at' = [i \in Slots |-> IF i \in 1..n THEN "spawned" ELSE "none"]
    BY <1>8 DEF Spawn, StartVisits
  <2>4. DoneSet' = {}
    BY <2>3, ZeroIsSlot DEF DoneSet
  <2>5. Cardinality(DoneSet') = 0
    BY <2>4, FS_EmptySet
  <2>6. Quiet(0)'
    BY <2>1, <2>3, ZeroIsSlot DEF Quiet
  <2>7. \A i \in Ajax : at'[i] # "none" => i <= n
    BY <2>1, <2>3, ZeroIsSlot DEF Ajax
  <2>8. \A i \in 1..n : at'[i] # "none"
    BY <2>1, <2>3, UrlsAssumption DEF Slots
  <2> HIDE DEF n
  <2> QED BY <1>0, <2>2, <2>5, <2>6, <2>7, <2>8 DEF RoundInv
<1>9. CASE Collect
  <2>1. /\ pc = "collect" /\ pc' = "collect" /\ UNCHANGED << at, round, iteration >>
        /\ received' = received + 1 /\ channel' = channel - 1
    BY <1>9 DEF Collect
  <2>2. received' + channel' = received + channel
    BY <2>1, UrlsAssumption DEF Types, RoundType
  <2>3. DoneSet' = DoneSet /\ \A i : Quiet(i)' <=> Quiet(i)
    BY <2>1 DEF DoneSet, Quiet
  <2> QED BY <2>1, <2>2, <2>3 DEF RoundInv
<1>10. CASE CloseRound
  <2>1. /\ pc = "collect" /\ pc' = "extract" /\ received >= round
        /\ UNCHANGED << at, round, received, channel, iteration >>
    BY <1>10 DEF CloseRound
  <2>2. channel = 0 /\ \A i \in Ajax : Quiet(i)
    BY <2>1, AllReceived
  <2> QED BY <2>1, <2>2 DEF RoundInv, Quiet
<1> QED BY <1>1, <1>2, <1>3, <1>4, <1>5, <1>6, <1>7, <1>8, <1>9, <1>10 DEF Source

(* A visit that moves is under way, and only the one that sends its answer *)
(* to the channel is done, but for the visit of the page.                  *)
LEMMA VisitMoves ==
  ASSUME Types, NEW i \in Slots, Visit(i)
  PROVE  /\ ~Quiet(i)
         /\ \A j \in Slots \ {i} : at'[j] = at[j]
         /\ \/ i # 0 /\ at'[i] = "done" /\ channel' = channel + 1
            \/ i # 0 /\ ~Quiet(i)' /\ channel' = channel
            \/ i = 0 /\ channel' = channel /\ at'[i] # "none"
<1> USE DEF Types, VisitType, HasUrl, Quiet
<1>1. CASE TakeUrl(i) \/ LogFatal(i) \/ Answer(i) \/ BeginCount(i)
  BY <1>1 DEF TakeUrl, LogFatal, Answer, BeginCount
<1>2. CASE Attempt(i)
  BY <1>2, WhenVisitedType DEF Attempt
<1>3. CASE EndCount(i)
  BY <1>3, WhenVisitedType DEF EndCount
<1>4. CASE BeginMap(i) \/ EndMap(i) \/ SendAnswer(i)
  BY <1>4 DEF BeginMap, EndMap, SendAnswer
<1> QED BY <1>1, <1>2, <1>3, <1>4 DEF Visit

(* The visit of the page runs before the rounds, those of a round while    *)
(* the source collects.                                                    *)
LEMMA VisitWhen ==
  ASSUME Types, RoundInv, NEW i \in Slots, Visit(i)
  PROVE  IF i = 0 THEN pc = "visiting" ELSE i \in Ajax /\ pc = "collect"
  BY VisitMoves, ZeroIsSlot DEF RoundInv

LEMMA VisitRoundInv ==
  ASSUME Types, RoundInv, NEW i \in Slots, Visit(i) PROVE RoundInv'
<1>1. /\ UNCHANGED << pc, round, received, iteration >>
      /\ \A j \in Slots \ {i} : at'[j] = at[j]
  BY VisitFrame, VisitMoves DEF VisitKeeps
<1>2. CASE i = 0
  <2>1. pc = "visiting" /\ channel' = channel /\ \A j \in Ajax : at'[j] = at[j]
    BY <1>1, <1>2, VisitWhen, VisitMoves, ZeroIsSlot
  <2> QED BY <1>1, <2>1 DEF RoundInv, Quiet
<1>3. CASE i # 0
  <2>1. /\ i \in Ajax /\ pc = "collect" /\ at'[0] = at[0] /\ i <= round
        /\ at[i] # "done" /\ at'[i] # "none" /\ at[i] # "none"
    BY <1>1, <1>3, VisitWhen, VisitMoves, ZeroIsSlot DEF RoundInv, Quiet
  <2>2. \A j \in Ajax \ {i} : at'[j] = at[j]
    BY <1>1, ZeroIsSlot
  <2>3. \A j \in 1..round : at'[j] # "none"
    <3>1. round \in 0..MaxAjax
      BY DEF Types, RoundType
    <3>2. \A j \in 1..round : j \in Ajax
      BY <3>1, UrlsAssumption DEF Ajax
    <3> QED BY <2>1, <2>2, <3>2 DEF RoundInv
  <2>4. received' + channel' = Cardinality(DoneSet')
    <3>1. CASE at'[i] = "done" /\ channel' = channel + 1
      <4>1. DoneSet' = DoneSet \cup {i} /\ i \notin DoneSet
        BY <2>1, <2>2, <3>1 DEF DoneSet
      <4>2. Cardinality(DoneSet') = Cardinality(DoneSet) + 1
        BY <4>1, DoneType, FS_AddElement
      <4>3. received \in Nat /\ channel \in Nat
        BY UrlsAssumption DEF Types, RoundType
      <4>4. received + channel = Cardinality(DoneSet)
        BY <2>1 DEF RoundInv
      <4> QED BY <1>1, <3>1, <4>2, <4>3, <4>4, DoneType
    <3>2. CASE at'[i] # "done" /\ channel' = channel
      <4>1. DoneSet' = DoneSet
        BY <2>1, <2>2, <3>2 DEF DoneSet
      <4> QED BY <1>1, <2>1, <3>2, <4>1 DEF RoundInv
    <3> QED BY <1>3, <3>1, <3>2, VisitMoves DEF Quiet
  <2> QED BY <1>1, <2>1, <2>2, <2>3, <2>4 DEF RoundInv, Quiet
<1> QED BY <1>2, <1>3

-----------------------------------------------------------------------------
LEMMA SourceFail == ASSUME FreshInv, RoundInv, FailInv, Source PROVE FailInv'
<1>1. CASE UNCHANGED << at, status, url, failed, clash >>
  BY <1>1 DEF FailInv
<1>2. CASE VisitThePage \/ Spawn
  <2>1. \A i \in Ajax : at'[i] \in {"none", "spawned"}
    BY <1>2, ZeroIsSlot DEF VisitThePage, Spawn, StartVisits
  <2> QED BY <2>1 DEF FailInv
<1>3. CASE CallReturns
  <2>1. UNCHANGED << at, status, url, clash >>
    BY <1>3 DEF CallReturns
  <2>2. CASE iteration = 0
    <3>1. \A i \in Ajax : at[i] = "none"
      BY <2>2 DEF RoundInv
    <3> QED BY <2>1, <3>1 DEF FailInv
  <2>3. CASE iteration # 0
    <3>1. failed' = failed
      BY <1>3, <2>3 DEF CallReturns
    <3> QED BY <2>1, <3>1 DEF FailInv
  <2> QED BY <2>2, <2>3
<1>4. Source => \/ VisitThePage \/ Spawn \/ CallReturns
               \/ UNCHANGED << at, status, url, failed, clash >>
  BY DEF Source, Refuse, Request, CacheMiss, PageVisited,
     Forbid, CallExtraction, CallFails, LeaveCycles, EnterCycle,
     Collect, CloseRound, ReadCache
<1> QED BY <1>1, <1>2, <1>3, <1>4

(* The one step that writes to the map adds the request or loses it; the   *)
(* one that passes it by has succeeded.                                    *)
LEMMA VisitFail == ASSUME Types, FailInv, NEW i \in Slots, Visit(i) PROVE FailInv'
<1> USE DEF Types, VisitType
<1>1. /\ \A j \in Slots \ {i} :
           at'[j] = at[j] /\ status'[j] = status[j] /\ url'[j] = url[j]
      /\ failed \subseteq failed' /\ (clash = TRUE => clash' = TRUE)
  <2>1. CASE TakeUrl(i) \/ LogFatal(i) \/ Answer(i) \/ BeginCount(i)
    BY <2>1 DEF TakeUrl, LogFatal, Answer, BeginCount
  <2>2. CASE Attempt(i) \/ EndCount(i) \/ SendAnswer(i)
    BY <2>2 DEF Attempt, EndCount, SendAnswer
  <2>3. CASE BeginMap(i)
    BY <2>3 DEF BeginMap
  <2>4. CASE EndMap(i)
    BY <2>4 DEF EndMap
  <2> QED BY <2>1, <2>2, <2>3, <2>4 DEF Visit
<1>2. ASSUME i # 0, at'[i] \in {"answer", "done"}, status'[i] # "success"
      PROVE  clash' = TRUE \/ url'[i] \in failed'
  <2>1. CASE TakeUrl(i) \/ LogFatal(i) \/ Answer(i) \/ BeginCount(i) \/ BeginMap(i)
    BY <1>2, <2>1 DEF TakeUrl, LogFatal, Answer, BeginCount, BeginMap
  <2>2. CASE Attempt(i) \/ EndCount(i)
    <3>1. at'[i] \in {"waiting", "test", WhenVisited(i)} /\ status' = status
      BY <2>2 DEF Attempt, EndCount
    <3> QED BY <1>2, <3>1 DEF WhenVisited
  <2>3. CASE EndMap(i)
    <3>1. clash \in BOOLEAN
      BY DEF SharedType
    <3>2. url' = url /\ clash' = clash /\ (url[i] \in failed' \/ clash)
      BY <2>3 DEF EndMap
    <3> QED BY <3>1, <3>2
  <2>4. CASE SendAnswer(i)
    <3>1. /\ at[i] = "answer"
          /\ UNCHANGED << url, status, failed, clash >>
      BY <2>4 DEF SendAnswer
    <3> QED BY <1>2, <3>1, ZeroIsSlot DEF FailInv
  <2> QED BY <2>1, <2>2, <2>3, <2>4 DEF Visit
<1> QED BY <1>1, <1>2, ZeroIsSlot DEF FailInv

-----------------------------------------------------------------------------
LEMMA SourceIndex ==
  ASSUME FreshInv, RoundInv, IndexInv, Source, rival' = rival PROVE IndexInv'
<1>1. CASE pc # "collect" /\ at' = at
  <2>1. \A i \in Ajax : at'[i] # "spawned"
    BY <1>1 DEF RoundInv, Quiet
  <2> QED BY <2>1 DEF IndexInv
<1>2. CASE VisitThePage
  <2>1. \A i \in Ajax : at'[i] = "none"
    BY <1>2, ZeroIsSlot DEF VisitThePage, StartVisits
  <2> QED BY <2>1 DEF IndexInv
<1>3. CASE Spawn
  <2>1. data' = data /\ Len(data.unresolved) \in 0..MaxAjax
    BY <1>3, UnresolvedType DEF Spawn, FreshInv, Types, DataType
  <2>2. \A i \in Ajax : at'[i] = "spawned" => i <= Len(data.unresolved)
    BY <1>3, <2>1, ZeroIsSlot DEF Spawn, StartVisits, Ajax
  <2> QED BY <2>1, <2>2 DEF IndexInv
<1>4. CASE UNCHANGED << at, data >>
  BY <1>4 DEF IndexInv
<1>5. CASE Refuse \/ Request \/ CacheMiss \/ PageVisited \/ Forbid \/ EnterCycle
  BY <1>4, <1>5 DEF Refuse, Request, CacheMiss, PageVisited, Forbid, EnterCycle
<1>6. CASE CallExtraction \/ CallFails \/ CallReturns \/ LeaveCycles
  BY <1>1, <1>6 DEF CallExtraction, CallFails, CallReturns, LeaveCycles, Goto, End
<1>7. CASE Collect \/ CloseRound \/ \E e \in Entries : ReadCache(e)
  BY <1>4, <1>7 DEF Collect, CloseRound, ReadCache
<1> QED BY <1>2, <1>3, <1>5, <1>6, <1>7 DEF Source

LEMMA VisitIndex ==
  ASSUME Types, IndexInv, NEW i \in Slots, Visit(i), rival' = rival PROVE IndexInv'
<1>1. data' = data
  BY VisitFrame DEF VisitKeeps
<1>2. ASSUME NEW j \in Ajax, at'[j] = "spawned" PROVE at[j] = "spawned"
  <2>1. CASE j # i
    BY <1>2, <2>1, VisitMoves, ZeroIsSlot
  <2>2. CASE j = i
    <3>1. CASE at' = at
      BY <1>2, <3>1
    <3>2. CASE at' # at
      <4>1. Visit(i) => at'[i] # "spawned" \/ at' = at
        BY WhenVisitedType DEF Types, VisitType, Visit, TakeUrl, Attempt, LogFatal,
           Answer, BeginCount, EndCount, BeginMap, EndMap, SendAnswer
      <4> QED BY <1>2, <2>2, <3>2, <4>1
    <3> QED BY <3>1, <3>2
  <2> QED BY <2>1, <2>2
<1> QED BY <1>1, <1>2 DEF IndexInv

LEMMA VisitCrashes ==
  ASSUME NEW i \in Slots, Visit(i)
  PROVE  crash' = crash \/ LogFatal(i) \/ TakeUrl(i) \/ BeginMap(i)
  BY DEF Visit, Attempt, Answer, BeginCount, EndCount, EndMap, SendAnswer

(* Two goroutines of one round: the round has two requests at least.       *)
LEMMA VisitCrashInv ==
  ASSUME Types, RoundInv, IndexInv, CrashInv, NEW i \in Slots, Visit(i), rival' = rival
  PROVE  CrashInv'
<1> USE DEF Types, VisitType, HasUrl
<1>1. round' = round
  BY VisitFrame DEF VisitKeeps
<1>2. round \in Nat /\ \A j \in Ajax : j \in Nat /\ j >= 1
  BY UrlsAssumption DEF RoundType, Ajax
<1>3. CASE crash' = crash
  BY <1>1, <1>3 DEF CrashInv
<1>4. CASE LogFatal(i)
  BY <1>4 DEF LogFatal, CrashInv
<1>5. CASE TakeUrl(i) /\ crash' # crash
  <2>1. /\ i \in Ajax /\ at[i] = "spawned" /\ crash' = "index"
        /\ ~(i <= Len(data.unresolved))
    BY <1>5, ZeroIsSlot DEF TakeUrl
  <2>2. rival = "UNSUPERVISED"
    BY <2>1 DEF IndexInv
  <2>3. round >= 1
    BY <1>2, <2>1 DEF RoundInv
  <2> QED BY <1>1, <2>1, <2>2, <2>3 DEF CrashInv
<1>6. CASE BeginMap(i) /\ crash' # crash
  <2>1. i \in Ajax /\ at[i] = "mapping" /\ crash' = "fatal" /\ Writing # {}
    BY <1>6, ZeroIsSlot DEF BeginMap
  <2>2. PICK j \in Ajax : at[j] = "inmap"
    BY <2>1 DEF Writing
  <2>3. i <= round /\ j <= round /\ i # j
    BY <2>1, <2>2 DEF RoundInv
  <2>4. round >= 2
    BY <1>2, <2>1, <2>3
  <2> QED BY <1>1, <2>1, <2>4 DEF CrashInv
<1> QED BY <1>3, <1>4, <1>5, <1>6, VisitCrashes

(* Nothing moves once the process has ended, so that a new round does not  *)
(* replace the one it ended in.                                            *)
LEMMA SourceCrashInv == ASSUME Types, CrashInv, Source, rival' = rival PROVE CrashInv'
<1>1. crash = "none" /\ crash' = crash
  BY SourceKeepsCrash DEF Source, Refuse, Request, CacheMiss, VisitThePage, PageVisited,
     Forbid, CallExtraction, CallFails, CallReturns, LeaveCycles, EnterCycle, Spawn,
     Collect, CloseRound, ReadCache, Goto, End, Running
<1> QED BY <1>1 DEF CrashInv

-----------------------------------------------------------------------------
(* The source moves only while it has not finished.                        *)
LEMMA SourceBusy == ASSUME Source PROVE pc \notin {"ended", "extracted"}
  BY DEF Source, Refuse, Request, CacheMiss, VisitThePage, PageVisited,
     Forbid, CallExtraction, CallFails, CallReturns, LeaveCycles, EnterCycle, Spawn,
     Collect, CloseRound, ReadCache, Goto, End

LEMMA AroundInv == ASSUME Types, MergeInv, Around PROVE MergeInv'
<1>0. MergeKeeps
  BY AroundFrame
<1>1. CASE UnsupervisedRequest \/ UnsupervisedExtract \/ M101Request \/ RivalFails \/ RecordRival
  BY <1>1 DEF UnsupervisedRequest, UnsupervisedExtract, M101Request, RivalFails,
     RecordRival, GotoRival, MergeInv, vars
<1>2. CASE RecordWrapper
  BY <1>0, <1>2 DEF RecordWrapper, Finished, Running, MergeInv, MergeKeeps, vars
<1>3. CASE Merge
  BY <1>0, <1>3 DEF Merge, MergeInv, MergeKeeps
<1>4. CASE Launch
  BY <1>4 DEF Launch, LaunchWrapper, LaunchRival, MergeInv, vars
<1> QED BY <1>1, <1>2, <1>3, <1>4 DEF Around, Rival

(* Only the source started first, whose copy is empty, is sure to record   *)
(* nothing; the merge dies of the products of another.                     *)
LEMMA AroundCopy == ASSUME Types, CopyInv, Around PROVE CopyInv'
<1>0. /\ first' = first /\ rival' = rival /\ Running
      /\ crash = "none" /\ crash' \in {crash, "merge"}
  BY AroundFrame DEF MergeKeeps, Running
<1>1. first \in Sources /\ rival # Wrapper /\ gathered \in [Sources -> -1..MaxProducts]
  BY DEF Types, MergeType, Wrapper
<1>2. CASE UnsupervisedRequest \/ UnsupervisedExtract \/ M101Request \/ RivalFails
  <2>1. /\ rivalPc \in {"request", "calling"} /\ rivalPc' # "idle"
        /\ UNCHANGED << wrapperPc, copied, gathered, crash >>
    BY <1>2 DEF UnsupervisedRequest, UnsupervisedExtract, M101Request, RivalFails,
       GotoRival, vars
  <2> QED BY <1>0, <2>1 DEF CopyInv, Unstarted, Filled
<1>3. CASE RecordRival
  <2>1. rivalPc = "record" /\ rivalPc' = "ended" /\ UNCHANGED << wrapperPc, copied, crash >>
    BY <1>3 DEF RecordRival, GotoRival, vars
  <2>2. gathered'[first] <= 0
    BY <1>0, <1>1, <1>3 DEF CopyInv, RecordRival, Recorded
  <2> QED BY <1>0, <2>1, <2>2 DEF CopyInv, Unstarted
<1>4. CASE RecordWrapper
  <2>1. /\ wrapperPc = "runs" /\ wrapperPc' = "ended"
        /\ UNCHANGED << rivalPc, copied, crash >>
    BY <1>4 DEF RecordWrapper, vars
  <2>2. gathered'[first] <= 0
    BY <1>0, <1>1, <1>4 DEF CopyInv, RecordWrapper, Recorded
  <2> QED BY <1>0, <2>1, <2>2 DEF CopyInv, Unstarted
<1>5. CASE Launch
  <2>1. UNCHANGED << data, gathered, crash >>
    BY <1>5 DEF Launch, LaunchWrapper, LaunchRival, vars
  <2>2. copied'[first] = 0
    BY <1>1, <1>5 DEF CopyInv, Unstarted, Launch, LaunchWrapper, LaunchRival, Types,
       MergeType
  <2>3. ~Unstarted'
    BY <1>0, <1>1, <1>5 DEF CopyInv, Unstarted, Launch, LaunchWrapper, LaunchRival
  <2> QED BY <1>0, <2>1, <2>2, <2>3 DEF CopyInv
<1>6. CASE Merge
  <2>1. UNCHANGED << data, gathered, copied, wrapperPc, rivalPc >>
    BY <1>6 DEF Merge, vars
  <2>2. ASSUME crash' = "merge" PROVE \E s \in Filled \ {first} : gathered[s] > 0
    <3>1. PICK s \in Filled : ~Indexes(s)
      BY <1>0, <1>6, <2>2 DEF Merge, vars
    <3>2. gathered[s] > 0
      BY <3>1, MergeSurvives DEF Types
    <3>3. s # first
      BY <1>1, <3>2 DEF CopyInv
    <3> QED BY <3>2, <3>3
  <2> QED BY <1>0, <2>1, <2>2 DEF CopyInv, Unstarted, Filled
<1> QED BY <1>2, <1>3, <1>4, <1>5, <1>6 DEF Around, Rival

LEMMA InitIInv == MergeInit => IInv
<1> SUFFICES ASSUME MergeInit PROVE IInv
  OBVIOUS
<1>1. FreshInv
  BY InitFresh
<1>2. Init
  BY DEF MergeInit
<1>3. \A i \in Slots : at[i] = "none"
  BY <1>2 DEF Init
<1>4. RoundInv
  BY <1>2, <1>3, ZeroIsSlot DEF Init, RoundInv, Quiet
<1>5. FailInv /\ IndexInv
  BY <1>3, ZeroIsSlot DEF FailInv, IndexInv
<1>6. CrashInv
  BY <1>2 DEF Init, CrashInv
<1>7. MergeInv
  BY DEF MergeInit, MergeInv
<1>8. CopyInv
  <2>1. data.products = 0 /\ crash = "none"
    BY <1>2 DEF Init, EmptyData
  <2>2. rival \in {"none", "UNSUPERVISED", "M101"}
    BY <1>1 DEF FreshInv, Types, MergeType
  <2> QED BY <2>1, <2>2 DEF MergeInit, CopyInv, Unstarted, Sources, Wrapper
<1> QED BY <1>1, <1>4, <1>5, <1>6, <1>7, <1>8 DEF IInv

LEMMA NextIInv == IInv /\ [MergeNext]_allVars => IInv'
<1> SUFFICES ASSUME IInv, [MergeNext]_allVars PROVE IInv'
  OBVIOUS
<1>0. FreshInv'
  BY NextFresh DEF IInv
<1>1. CASE UNCHANGED allVars
  <2>1. RoundInv' /\ FailInv' /\ IndexInv' /\ CrashInv' /\ MergeInv' /\ CopyInv'
    BY <1>1 DEF IInv, allVars, vars, RoundInv, Quiet, DoneSet, FailInv, IndexInv,
       CrashInv, MergeInv, CopyInv, Unstarted, Filled
  <2> QED BY <1>0, <2>1 DEF IInv
<1>2. CASE wrapperPc # "idle" /\ Source /\ UNCHANGED mergeVars
  <2>1. RoundInv' /\ FailInv' /\ IndexInv' /\ CrashInv'
    BY <1>2, SourceRoundInv, SourceFail, SourceIndex, SourceCrashInv DEF IInv, FreshInv
  <2>2. MergeInv'
    BY <1>2, SourceBusy DEF IInv, MergeInv
  <2>3. CopyInv'
    BY <1>2, SourceKeepsCrash DEF IInv, CopyInv, Unstarted, Filled
  <2> QED BY <1>0, <2>1, <2>2, <2>3 DEF IInv
<1>3. ASSUME NEW i \in Slots, Visit(i), UNCHANGED mergeVars PROVE IInv'
  <2>1. RoundInv' /\ FailInv' /\ IndexInv' /\ CrashInv'
    BY <1>3, VisitRoundInv, VisitFail, VisitIndex, VisitCrashInv DEF IInv, FreshInv
  <2>2. MergeInv'
    BY <1>3, VisitFrame DEF VisitKeeps, IInv, MergeInv
  <2>3. CopyInv'
    <3>1. data' = data /\ crash' \in {crash, "exit", "index", "fatal"}
      BY <1>3, VisitFrame, VisitCrash DEF VisitKeeps
    <3> QED BY <1>3, <3>1 DEF IInv, CopyInv, Unstarted, Filled
  <2> QED BY <1>0, <2>1, <2>2, <2>3 DEF IInv
<1>4. CASE Around
  <2>1. MergeKeeps /\ crash' \in {crash, "merge"} /\ Types
    BY <1>4, AroundFrame DEF IInv, FreshInv
  <2>2. RoundInv' /\ FailInv' /\ CrashInv'
    BY <2>1 DEF MergeKeeps, IInv, RoundInv, Quiet, DoneSet, FailInv, CrashInv
  <2>3. IndexInv'
    BY <1>4, <2>1, AroundData DEF MergeKeeps, IInv, IndexInv
  <2>4. MergeInv'
    BY <1>4, <2>1, AroundInv DEF IInv
  <2>5. CopyInv'
    BY <1>4, <2>1, AroundCopy DEF IInv
  <2> QED BY <1>0, <2>2, <2>3, <2>4, <2>5 DEF IInv
<1> QED BY <1>1, <1>2, <1>3, <1>4 DEF MergeNext, Progress, Step, Around, Launch

(* The extraction runs again only when every goroutine of the round is     *)
(* done and its failures are in the map, for rounds of any size and with   *)
(* another source changing Data (ExtractDataForAjaxRequests, wrapper.go).  *)
THEOREM SeesRound == MergeSpec => []ExtractionSeesRound
<1>1. IInv => ExtractionSeesRound
  <2> SUFFICES ASSUME IInv, pc \in {"extract", "calling"}
               PROVE  /\ \A i \in Ajax : at[i] \in {"none", "done"}
                      /\ channel = 0
                      /\ clash \/ \A i \in Ajax :
                           (at[i] = "done" /\ status[i] # "success") => url[i] \in failed
    BY DEF ExtractionSeesRound
  <2>1. channel = 0 /\ \A i \in Ajax : at[i] \in {"none", "done"}
    BY DEF IInv, RoundInv, Quiet
  <2>2. clash = TRUE \/ \A i \in Ajax :
          (at[i] = "done" /\ status[i] # "success") => url[i] \in failed
    BY DEF IInv, FailInv
  <2> QED BY <2>1, <2>2
<1> QED BY <1>1, InitIInv, NextIInv, PTL DEF MergeSpec

(* Whatever the rounds and the other source, the runtime ends the process  *)
(* only where two goroutines meet, and the merge only where the copy made  *)
(* second held products (InitiateConcurrently, merge.go:66).               *)
THEOREM Races == MergeSpec => []RacesNeedTwo
<1>1. IInv => RacesNeedTwo
  BY DEF IInv, CrashInv, CopyInv, RacesNeedTwo
<1> QED BY <1>1, InitIInv, NextIInv, PTL DEF MergeSpec

(* Once the sources have been waited for nobody changes what the pipeline  *)
(* goes on with (InitiateConcurrently, merge.go).                          *)
THEOREM Final == MergeSpec => MergedIsFinal
<1> DEFINE Kept == mergePc = "merged" => UNCHANGED << data, page, crawlTime, metrics, failed >>
<1>1. ASSUME IInv, [MergeNext]_allVars PROVE [Kept]_allVars
  <2>1. SUFFICES ASSUME mergePc = "merged"
                 PROVE  UNCHANGED << data, page, crawlTime, metrics, failed >>
    OBVIOUS
  <2>2. rivalPc = "ended" /\ pc \in {"ended", "extracted"} /\ Types
    BY <1>1, <2>1 DEF IInv, MergeInv, FreshInv
  <2>3. ~Source
    BY <2>2, SourceBusy
  <2>4. ASSUME NEW i \in Slots, Visit(i) PROVE FALSE
    BY <1>1, <2>2, <2>4, VisitWhen DEF IInv
  <2>5. CASE Around
    BY <2>2, <2>5, AroundFrame, AroundData DEF MergeKeeps
  <2>6. CASE UNCHANGED allVars
    BY <2>6 DEF allVars, vars
  <2> QED BY <1>1, <2>3, <2>4, <2>5, <2>6 DEF MergeNext, Progress, Step, Around, Launch
<1>2. MergeSpec => [][Kept]_allVars
  BY <1>1, InitIInv, NextIInv, PTL DEF MergeSpec
<1> QED BY <1>2 DEF MergedIsFinal
-----------------------------------------------------------------------------
(* What is left of a task.                                                 *)

(* A visit that asks whether to try again has not used up its attempts, or *)
(* by one, and has no result but a temporary error; a round takes no more  *)
(* answers than it has requests.                                           *)
Tries ==
  /\ received <= round
  /\ \A i \in Slots :
       /\ at[i] = "test" => attempt[i] <= MaxAttempts(i) + 1 /\ status[i] \in {"none", "temp"}
       /\ at[i] \in {"spawned", "waiting", "count", "counting"} => attempt[i] <= MaxAttempts(i)
       /\ at[i] = "spawned" => status[i] = "none"

LEMMA MaxAttemptsType ==
  ASSUME FlowType, NEW i
  PROVE  MaxAttempts(i) \in Nat \ {0} /\ (job' = job => MaxAttempts(i)' = MaxAttempts(i))
<1>1. job.page.maxAttempts \in Nat /\ job.ajax.maxAttempts \in Nat
  BY JobsAssumption DEF FlowType, Params
<1> QED BY <1>1 DEF MaxAttempts, ParamsOf

LEMMA StartTries ==
  ASSUME Types, job' = job, NEW slots, NEW where \in {"test", "spawned"}, StartVisits(slots, where),
         received' <= round'
  PROVE  Tries'
<1>1. \A i : MaxAttempts(i)' \in Nat /\ MaxAttempts(i)' >= 1
  BY MaxAttemptsType DEF Types
<1>2. \A i \in Slots : attempt'[i] = 1 /\ status'[i] = "none" /\ at'[i] \in {where, "none"}
  BY DEF StartVisits
<1>3. \A i \in Slots : attempt'[i] <= MaxAttempts(i)' /\ attempt'[i] <= MaxAttempts(i)' + 1
  BY <1>1, <1>2
<1> HIDE DEF MaxAttempts
<1> QED BY <1>2, <1>3 DEF Tries

LEMMA SourceTries == ASSUME Types, Tries, Source PROVE Tries'
<1>0. \A i : MaxAttempts(i)' = MaxAttempts(i)
  BY SourceKeepsCrash, MaxAttemptsType DEF Types
<1>1. CASE UNCHANGED << visitVars, round, received >>
  BY <1>0, <1>1 DEF Tries
<1>2. CASE VisitThePage
  BY <1>2, StartTries DEF VisitThePage, Tries
<1>3. CASE Spawn
  <2>1. Len(data.unresolved) \in Nat
    BY UnresolvedType, UrlsAssumption DEF Types, DataType
  <2> QED BY <1>3, <2>1, StartTries DEF Spawn
<1>4. CASE Collect
  BY <1>0, <1>4, UrlsAssumption DEF Collect, Tries, Types, RoundType
<1> QED
  BY <1>1, <1>2, <1>3, <1>4
  DEF Source, Refuse, Request, CacheMiss, PageVisited, Forbid, CallExtraction, CallFails,
      CallReturns, LeaveCycles, EnterCycle, CloseRound, ReadCache

(* A visit that moves has less left, or ends the process.                  *)
VisitWinds(i) ==
  /\ \A j \in Slots \ {i} : at'[j] = at[j] /\ attempt'[j] = attempt[j] /\ status'[j] = status[j]
  /\ \/ crash' # "none" /\ UNCHANGED << at, attempt, status >>
     \/ /\ crash' = crash
        /\ VisitLeft(i)' \in 0..VisitLeft(i) - 1

LEMMA LeftAtValue ==
  ASSUME NEW n \in Int
  PROVE  /\ LeftAt("spawned", n) = 8 + 5 * n /\ LeftAt("test", n) = 7 + 5 * n
         /\ LeftAt("waiting", n) = 6 + 5 * n /\ LeftAt("count", n) = 5 + 5 * n
         /\ LeftAt("counting", n) = 4 + 5 * n
         /\ LeftAt("mapping", n) = 3 /\ LeftAt("inmap", n) = 2 /\ LeftAt("answer", n) = 1
         /\ LeftAt("done", n) = 0 /\ LeftAt("none", n) = 0
<1>1. DOMAIN Turn = {"spawned", "test", "waiting", "count", "counting"}
  BY DEF Turn
<1>2. /\ LeftAt("spawned", n) = 4 + 5 * n + 4 /\ LeftAt("test", n) = 4 + 5 * n + 3
      /\ LeftAt("waiting", n) = 4 + 5 * n + 2 /\ LeftAt("count", n) = 4 + 5 * n + 1
      /\ LeftAt("counting", n) = 4 + 5 * n + 0
  BY <1>1 DEF LeftAt, Turn
<1>3. /\ LeftAt("mapping", n) = 3 /\ LeftAt("inmap", n) = 2 /\ LeftAt("answer", n) = 1
      /\ LeftAt("done", n) = 0 /\ LeftAt("none", n) = 0
  BY <1>1 DEF LeftAt
<1> QED BY <1>2, <1>3

LEMMA VisitForward ==
  ASSUME Types, Tries, NEW i \in Slots, Visit(i)
  PROVE  VisitWinds(i) /\ Tries'
<1> DEFINE m == MaxAttempts(i)
           n == m + 1 - attempt[i]
<1>1. m \in Nat /\ MaxAttempts(i)' = m /\ \A j : MaxAttempts(j)' = MaxAttempts(j)
  BY VisitFrame, MaxAttemptsType DEF VisitKeeps, Types
<1>2. attempt[i] \in Nat \ {0} /\ n \in Int
  BY <1>1 DEF Types, VisitType
<1> HIDE DEF m, n
<1>3. ASSUME NEW a, at[i] = a, NEW b, NEW k \in Nat \ {0}, NEW s, crash' = crash,
             at' = [at EXCEPT ![i] = b], attempt' = [attempt EXCEPT ![i] = k],
             status' = [status EXCEPT ![i] = s],
             LeftAt(b, m + 1 - k) \in 0..LeftAt(a, n) - 1,
             b = "test" => k <= m + 1 /\ s \in {"none", "temp"},
             b \in {"waiting", "count", "counting"} => k <= m,
             b # "spawned"
      PROVE  VisitWinds(i) /\ Tries'
  <2>1. /\ \A j \in Slots \ {i} :
             at'[j] = at[j] /\ attempt'[j] = attempt[j] /\ status'[j] = status[j]
        /\ at'[i] = b /\ attempt'[i] = k /\ status'[i] = s
    BY <1>3 DEF Types, VisitType
  <2>2. VisitLeft(i)' = LeftAt(b, m + 1 - k) /\ VisitLeft(i) = LeftAt(a, n)
    BY <1>1, <1>3, <2>1 DEF VisitLeft, m, n
  <2>3. VisitWinds(i)
    BY <1>3, <2>1, <2>2 DEF VisitWinds
  <2>4. Tries'
    BY <1>1, <1>3, <2>1, VisitFrame DEF Tries, VisitKeeps, m
  <2> QED BY <2>3, <2>4
<1>4. ASSUME crash' # "none", UNCHANGED << at, attempt, status >>
      PROVE  VisitWinds(i) /\ Tries'
  BY <1>1, <1>4, VisitFrame DEF VisitWinds, Tries, VisitKeeps
<1>5. /\ attempt = [attempt EXCEPT ![i] = attempt[i]]
      /\ status = [status EXCEPT ![i] = status[i]]
      /\ m + 1 - attempt[i] = n
  BY DEF Types, VisitType, m, n
<1>6. /\ at[i] = "test" => n >= 0 /\ status[i] \in {"none", "temp"}
      /\ at[i] \in {"spawned", "waiting", "count", "counting"} => n >= 1 /\ attempt[i] <= m
      /\ at[i] = "spawned" => status[i] = "none"
  BY <1>1, <1>2 DEF Tries, m, n
<1>7. \A a : LeftAt("mapping", a) = 3 /\ LeftAt("inmap", a) = 2 /\ LeftAt("answer", a) = 1
               /\ LeftAt("done", a) = 0
  BY DEF LeftAt, Turn
<1>0. /\ LeftAt("spawned", n) = 8 + 5 * n /\ LeftAt("test", n) = 7 + 5 * n
      /\ LeftAt("waiting", n) = 6 + 5 * n /\ LeftAt("count", n) = 5 + 5 * n
      /\ LeftAt("counting", n) = 4 + 5 * n
  BY <1>2, LeftAtValue
<1>8. WhenVisited(i) \in {"done", "answer", "mapping"} /\ LeftAt(WhenVisited(i), n) \in 0..3
  BY <1>7, WhenVisitedType
<1>9. CASE TakeUrl(i)
  <2>1. CASE crash' = "index"
    BY <1>4, <1>9, <2>1 DEF TakeUrl, Running
  <2>2. CASE crash' # "index"
    <3>1. /\ at[i] = "spawned" /\ at' = [at EXCEPT ![i] = "test"]
          /\ crash' = crash /\ UNCHANGED << attempt, status >>
      BY <1>9, <2>2 DEF TakeUrl
    <3>2. LeftAt("test", n) \in 0..LeftAt("spawned", n) - 1
      BY <1>0, <1>2, <1>6, <3>1
    <3>3. attempt[i] <= m /\ attempt[i] <= m + 1 /\ status[i] = "none"
      BY <1>1, <1>2, <1>6, <3>1
    <3>4. /\ attempt' = [attempt EXCEPT ![i] = attempt[i]]
          /\ status' = [status EXCEPT ![i] = status[i]]
      BY <1>5, <3>1
    <3>5. LeftAt("test", m + 1 - attempt[i]) \in 0..LeftAt("spawned", n) - 1
      BY <1>5, <3>2
    <3> QED BY <1>2, <1>3, <3>1, <3>3, <3>4, <3>5
  <2> QED BY <2>1, <2>2
<1>10. CASE Attempt(i)
  <2>1. at[i] = "test" /\ crash' = crash /\ status' = status
    BY <1>10 DEF Attempt
  <2>2. LeftAt("test", n) = 7 + 5 * n
    BY <1>2, LeftAtValue
  <2>3. CASE at' = [at EXCEPT ![i] = WhenVisited(i)] /\ attempt' = attempt
    <3>1. LeftAt(WhenVisited(i), n) \in 0..LeftAt("test", n) - 1
      BY <1>2, <1>6, <1>8, <2>1, <2>2
    <3> QED BY <1>2, <1>3, <1>5, <1>8, <2>1, <2>3, <3>1
  <2>4. CASE /\ attempt[i] <= m
             /\ at' = [at EXCEPT ![i] = "waiting"] /\ attempt' = attempt
    <3>1. LeftAt("waiting", n) \in 0..LeftAt("test", n) - 1
      BY <1>0, <1>2, <1>6, <2>1
    <3> QED BY <1>2, <1>3, <1>5, <2>1, <2>4, <3>1
  <2>5. CASE /\ attempt[i] <= m /\ status[i] = "temp"
             /\ at' = at /\ attempt' = [attempt EXCEPT ![i] = @ + 1]
    <3>1. m + 1 - (attempt[i] + 1) = n - 1 /\ attempt[i] + 1 \in Nat \ {0} /\ n >= 1
      BY <1>1, <1>2, <2>5 DEF n
    <3>2. LeftAt("test", n - 1) \in 0..LeftAt("test", n) - 1
      <4>1. LeftAt("test", n - 1) = 7 + 5 * (n - 1)
        BY <1>2, LeftAtValue
      <4> QED BY <1>2, <2>2, <3>1, <4>1
    <3>3. at' = [at EXCEPT ![i] = "test"]
      BY <2>1, <2>5 DEF Types, VisitType
    <3>4. attempt[i] + 1 <= m + 1
      BY <1>1, <1>2, <2>5
    <3> QED BY <1>3, <1>5, <2>1, <2>5, <3>1, <3>2, <3>3, <3>4
  <2> QED BY <1>10, <2>3, <2>4, <2>5 DEF Attempt, m
<1>11. CASE LogFatal(i)
  BY <1>4, <1>11 DEF LogFatal
<1>12. CASE Answer(i)
  <2>1. PICK s \in Kinds : status' = [status EXCEPT ![i] = s]
    BY <1>12 DEF Answer, Kinds, AjaxKinds
  <2>2. LeftAt("count", n) \in 0..LeftAt("waiting", n) - 1
    BY <1>0, <1>2, <1>6, <1>12 DEF Answer
  <2> QED BY <1>2, <1>3, <1>5, <1>6, <1>12, <2>1, <2>2 DEF Answer
<1>13. CASE BeginCount(i)
  <2>1. LeftAt("counting", n) \in 0..LeftAt("count", n) - 1
    BY <1>0, <1>2, <1>6, <1>13 DEF BeginCount
  <2> QED BY <1>2, <1>3, <1>5, <1>6, <1>13, <2>1 DEF BeginCount
<1>14. CASE EndCount(i)
  <2>1. at[i] = "counting" /\ crash' = crash /\ status' = status
    BY <1>14 DEF EndCount
  <2>2. LeftAt("counting", n) = 4 + 5 * n
    BY <1>2, LeftAtValue
  <2>3. CASE status[i] = "temp"
    <3>1. m + 1 - (attempt[i] + 1) = n - 1 /\ attempt[i] + 1 \in Nat \ {0} /\ n >= 1
      BY <1>1, <1>2, <1>6, <2>1 DEF n
    <3>2. LeftAt("test", n - 1) \in 0..LeftAt("counting", n) - 1
      <4>1. LeftAt("test", n - 1) = 7 + 5 * (n - 1)
        BY <1>2, LeftAtValue
      <4> QED BY <1>2, <2>2, <3>1, <4>1
    <3>3. /\ at' = [at EXCEPT ![i] = "test"] /\ attempt' = [attempt EXCEPT ![i] = attempt[i] + 1]
      BY <1>14, <2>3 DEF EndCount
    <3>4. attempt[i] + 1 <= m + 1
      BY <1>1, <1>2, <1>6, <2>1
    <3> QED BY <1>3, <1>5, <2>1, <2>3, <3>1, <3>2, <3>3, <3>4
  <2>4. CASE status[i] # "temp"
    <3>1. at' = [at EXCEPT ![i] = WhenVisited(i)] /\ attempt' = attempt
      BY <1>14, <2>4 DEF EndCount
    <3>2. LeftAt(WhenVisited(i), n) \in 0..LeftAt("counting", n) - 1
      BY <1>2, <1>6, <1>8, <2>1, <2>2
    <3> QED BY <1>2, <1>3, <1>5, <1>8, <2>1, <3>1, <3>2
  <2> QED BY <2>3, <2>4
<1>15. CASE BeginMap(i)
  <2>1. CASE crash' = "fatal" /\ UNCHANGED at
    BY <1>4, <1>15, <2>1 DEF BeginMap
  <2>2. CASE crash' = crash /\ at' = [at EXCEPT ![i] = "inmap"]
    <3>1. LeftAt("inmap", n) \in 0..LeftAt("mapping", n) - 1
      BY <1>7
    <3> QED BY <1>2, <1>3, <1>5, <1>15, <2>2, <3>1 DEF BeginMap
  <2> QED BY <1>15, <2>1, <2>2 DEF BeginMap
<1>16. CASE EndMap(i)
  <2>1. LeftAt("answer", n) \in 0..LeftAt("inmap", n) - 1
    BY <1>7
  <2> QED BY <1>2, <1>3, <1>5, <1>16, <2>1 DEF EndMap
<1>17. CASE SendAnswer(i)
  <2>1. PICK k \in Nat \ {0} : k = 1
    OBVIOUS
  <2>2. LeftAt("done", m + 1 - k) \in 0..LeftAt("answer", n) - 1
    BY <1>7
  <2>3. /\ at[i] = "answer" /\ crash' = crash /\ status' = [status EXCEPT ![i] = status[i]]
        /\ at' = [at EXCEPT ![i] = "done"] /\ attempt' = [attempt EXCEPT ![i] = k]
    BY <1>5, <1>17, <2>1 DEF SendAnswer
  <2> QED BY <1>3, <2>2, <2>3
<1> QED BY <1>9, <1>10, <1>11, <1>12, <1>13, <1>14, <1>15, <1>16, <1>17 DEF Visit

(* A step of the source takes it a stage further, whatever cycle it is in, *)
(* or takes an answer from the channel.                                    *)
LEMMA StageValue ==
  /\ Stage["request"] = 9 /\ Stage["cache"] = 8 /\ Stage["visit"] = 7
  /\ Stage["visiting"] = 6 /\ Stage["cycle"] = 5 /\ Stage["spawn"] = 4
  /\ Stage["collect"] = 3 /\ Stage["extract"] = 2 /\ Stage["calling"] = 1
  /\ Stage["extracted"] = 0 /\ Stage["ended"] = 0
  BY DEF Stage

LEMMA SourceSteps ==
  ASSUME Source
  PROVE  \/ pc = "collect" /\ pc' = pc /\ Collect
         \/ pc = "calling" /\ pc' \in {"ended", "cycle"} /\ iteration' = iteration + 1
         \/ /\ iteration' = iteration
            /\ \/ pc = "request" /\ pc' \in {"ended", "cache", "visit"}
               \/ pc = "cache" /\ pc' \in {"visit", "extract"}
               \/ pc = "visit" /\ pc' = "visiting"
               \/ pc = "visiting" /\ pc' \in {"extract", "ended"}
               \/ pc = "extract" /\ pc' \in {"ended", "calling"}
               \/ pc = "calling" /\ pc' = "ended"
               \/ pc = "cycle" /\ pc' \in {"ended", "extracted", "spawn"}
               \/ pc = "spawn" /\ pc' = "collect"
               \/ pc = "collect" /\ pc' = "extract"
<1> USE DEF Goto, End
<1>1. CASE Refuse \/ Request \/ CacheMiss \/ VisitThePage \/ PageVisited \/ Forbid
  BY <1>1 DEF Refuse, Request, CacheMiss, VisitThePage, PageVisited, Forbid
<1>2. CASE CallExtraction \/ CallFails \/ CallReturns \/ LeaveCycles \/ EnterCycle
  BY <1>2 DEF CallExtraction, CallFails, CallReturns, LeaveCycles, EnterCycle
<1>3. CASE Spawn \/ Collect \/ CloseRound
  BY <1>3 DEF Spawn, Collect, CloseRound
<1>4. ASSUME NEW e \in Entries, ReadCache(e)
      PROVE  pc = "cache" /\ pc' \in {"visit", "extract"} /\ iteration' = iteration
  BY <1>4, ReadCacheFrame DEF ReadCache
<1> QED BY <1>1, <1>2, <1>3, <1>4 DEF Source

LEMMA SourceForward ==
  ASSUME Types, Types', Tries', Source, UNCHANGED mergeVars
  PROVE  \/ SourceLeft' \in 0..SourceLeft - 1 /\ AroundLeft' = AroundLeft
         \/ /\ UNCHANGED << pc, iteration, at, attempt, job >> /\ AroundLeft' = AroundLeft
            /\ AnswersLeft' \in 0..AnswersLeft - 1
<1>1. AroundLeft' = AroundLeft
  BY SourceKeepsCrash DEF AroundLeft, Running
<1>2. /\ iteration \in Nat /\ iteration <= MaxCycles /\ MaxCycles \in Nat
      /\ iteration' \in Nat /\ iteration' <= MaxCycles
  BY EntriesAssumption DEF Types, CycleType
<1>3. CASE Collect
  <2>1. UNCHANGED << pc, iteration, at, attempt, job, round >> /\ received' = received + 1
    BY <1>3 DEF Collect, Goto
  <2>2. received' <= round /\ received \in Nat /\ round \in Nat
    BY <2>1, UrlsAssumption DEF Tries, Types, RoundType
  <2> QED BY <1>1, <2>1, <2>2 DEF AnswersLeft
<1>4. CASE iteration' = iteration /\ Stage[pc'] \in 0..Stage[pc] - 1 /\ Stage[pc] \in 0..9
  <2>1. SourceLeft' = 10 * (MaxCycles - iteration) + Stage[pc']
    BY <1>4 DEF SourceLeft
  <2> QED BY <1>1, <1>2, <1>4, <2>1 DEF SourceLeft
<1>5. CASE iteration' = iteration + 1 /\ Stage[pc'] \in 0..5 /\ Stage[pc] = 1
  <2>1. SourceLeft' = 10 * (MaxCycles - (iteration + 1)) + Stage[pc']
    BY <1>5 DEF SourceLeft
  <2>2. iteration + 1 <= MaxCycles
    BY <1>2, <1>5
  <2> QED BY <1>1, <1>2, <1>5, <2>1, <2>2 DEF SourceLeft
<1> QED BY <1>3, <1>4, <1>5, SourceSteps, StageValue

LEMMA VisitRuns == ASSUME NEW i \in Slots, Visit(i) PROVE Running
  BY DEF Visit, TakeUrl, Attempt, LogFatal, Answer, BeginCount, EndCount, BeginMap,
     EndMap, SendAnswer

(* A step around the source leaves it and the visits where they are.       *)
LEMMA AroundForward ==
  ASSUME Types, Around
  PROVE  /\ MergeKeeps
         /\ AroundLeft' \in 0..AroundLeft - 1
<1>0. MergeKeeps /\ Running
  BY AroundFrame
<1>1. CASE /\ \/ rivalPc = "idle" /\ rivalPc' = "request"
              \/ rivalPc = "request" /\ rivalPc' \in {"calling", "record", "ended"}
              \/ rivalPc = "calling" /\ rivalPc' \in {"record", "ended"}
              \/ rivalPc = "record" /\ rivalPc' = "ended"
           /\ UNCHANGED << wrapperPc, mergePc, crash >>
  BY <1>0, <1>1 DEF AroundLeft, Running, Types, MergeType
<1>2. CASE /\ \/ wrapperPc = "idle" /\ wrapperPc' = "runs" /\ mergePc' = mergePc
              \/ wrapperPc = "runs" /\ wrapperPc' = "ended" /\ mergePc' = mergePc
              \/ mergePc = "waits" /\ mergePc' = "merged" /\ wrapperPc' = wrapperPc
           /\ UNCHANGED << rivalPc, crash >>
  BY <1>0, <1>2 DEF AroundLeft, Running, Types, MergeType
<1>3. CASE UNCHANGED << rivalPc, wrapperPc, mergePc >> /\ crash' = "merge"
  BY <1>0, <1>3 DEF AroundLeft, Running, Types, MergeType
<1>4. CASE UnsupervisedRequest \/ UnsupervisedExtract \/ M101Request
  BY <1>1, <1>4 DEF UnsupervisedRequest, UnsupervisedExtract, M101Request, GotoRival
<1>5. CASE RivalFails \/ RecordRival
  BY <1>1, <1>5 DEF RivalFails, RecordRival, GotoRival, vars
<1>6. CASE Launch
  BY <1>1, <1>2, <1>6 DEF Launch, LaunchWrapper, LaunchRival, vars
<1>7. CASE RecordWrapper
  BY <1>2, <1>7 DEF RecordWrapper, vars
<1>8. CASE Merge
  BY <1>2, <1>3, <1>8 DEF Merge, vars
<1> QED BY <1>0, <1>4, <1>5, <1>6, <1>7, <1>8 DEF Around, Rival

LEMMA InitTries == MergeInit => Tries
<1> SUFFICES ASSUME MergeInit PROVE Tries
  OBVIOUS
<1> QED BY DEF MergeInit, Init, Tries

LEMMA NextTries == IInv /\ Tries /\ [MergeNext]_allVars => Tries'
<1> SUFFICES ASSUME IInv, Tries, [MergeNext]_allVars PROVE Tries'
  OBVIOUS
<1>0. Types
  BY DEF IInv, FreshInv
<1>1. CASE UNCHANGED << job, at, attempt, status, round, received >>
  <2>1. \A i : MaxAttempts(i)' = MaxAttempts(i)
    BY <1>0, <1>1, MaxAttemptsType DEF Types
  <2> HIDE DEF MaxAttempts
  <2> QED BY <1>1, <2>1 DEF Tries
<1>2. CASE Around
  BY <1>1, <1>2, AroundFrame DEF MergeKeeps
<1>3. CASE UNCHANGED allVars
  BY <1>1, <1>3 DEF allVars, vars
<1> QED BY <1>0, <1>2, <1>3, SourceTries, VisitForward DEF MergeNext, Progress, Step, Around, Launch

(* What is left of each visit is a number: those in "test" may have tried  *)
(* once more than they may, and have a turn of the loop left.              *)
LEMMA LeftType ==
  ASSUME Types, Tries, NEW i \in Slots
  PROVE  VisitLeft(i) \in Nat
<1> DEFINE m == MaxAttempts(i)
           n == m + 1 - attempt[i]
<1>1. m \in Nat /\ attempt[i] \in Nat /\ n \in Int
  BY MaxAttemptsType DEF Types, VisitType
<1> HIDE DEF m
<1>2. /\ at[i] = "test" => n >= 0
      /\ at[i] \in {"spawned", "waiting", "count", "counting"} => n >= 1
  BY <1>1 DEF Tries, m
<1> HIDE DEF n
<1>3. /\ LeftAt("spawned", n) = 8 + 5 * n /\ LeftAt("test", n) = 7 + 5 * n
      /\ LeftAt("waiting", n) = 6 + 5 * n /\ LeftAt("count", n) = 5 + 5 * n
      /\ LeftAt("counting", n) = 4 + 5 * n
      /\ LeftAt("mapping", n) = 3 /\ LeftAt("inmap", n) = 2 /\ LeftAt("answer", n) = 1
      /\ LeftAt("done", n) = 0 /\ LeftAt("none", n) = 0
  BY <1>1, LeftAtValue
<1>4. at[i] \in {"none", "spawned", "test", "waiting", "count", "counting", "mapping",
                 "inmap", "answer", "done"}
  BY DEF Types, VisitType
<1>5. LeftAt(at[i], n) \in Nat
  BY <1>1, <1>2, <1>3, <1>4
<1> QED BY <1>5 DEF VisitLeft, m, n

LEMMA CountsLeft ==
  ASSUME Types, Tries
  PROVE  AnswersLeft \in Nat /\ AroundLeft \in Nat
<1>1. AnswersLeft \in Nat
  BY UrlsAssumption DEF Types, RoundType, Tries, AnswersLeft
<1>2. AroundLeft \in Nat
  BY DEF AroundLeft, Types, MergeType
<1> QED BY <1>1, <1>2

(* Every step of MERGE_ALL takes something from what is left, whatever the *)
(* services answer: the retries of VisitPage, the rounds of                *)
(* ExtractDataForAjaxRequests, its cycles and the other source all end.    *)
THEOREM Finite == MergeSpec => WindsDown
<1> DEFINE Advanced == SourceLeft' \in 0..SourceLeft - 1 /\ AroundLeft' = AroundLeft
           Wound ==
             /\ SourceLeft' = SourceLeft
             /\ \A i \in Slots : VisitLeft(i)' \in 0..VisitLeft(i)
             /\ AnswersLeft' \in 0..AnswersLeft /\ AroundLeft' \in 0..AroundLeft
             /\ RoundLeft' # RoundLeft
<1>1. ASSUME IInv, Tries, IInv', Tries', [MergeNext]_allVars
      PROVE  [Advanced \/ Wound]_allVars
  <2>1. Types /\ Types'
    BY <1>1 DEF IInv, FreshInv
  <2>2. \A i \in Slots : VisitLeft(i) \in Nat
    BY <1>1, <2>1, LeftType
  <2>3. AnswersLeft \in Nat /\ AroundLeft \in Nat
    BY <1>1, <2>1, CountsLeft
  <2>4. ASSUME UNCHANGED << pc, iteration >> PROVE SourceLeft' = SourceLeft
    BY <2>4 DEF SourceLeft
  <2>5. ASSUME UNCHANGED << at, attempt, job >>, NEW i \in Slots
        PROVE  VisitLeft(i)' = VisitLeft(i)
    BY <2>1, <2>5, MaxAttemptsType DEF VisitLeft, Types
  <2>6. ASSUME UNCHANGED << round, received >> PROVE AnswersLeft' = AnswersLeft
    BY <2>6 DEF AnswersLeft
  <2>7. CASE Source /\ UNCHANGED mergeVars
    <3>1. CASE /\ UNCHANGED << pc, iteration, at, attempt, job >> /\ AroundLeft' = AroundLeft
               /\ AnswersLeft' \in 0..AnswersLeft - 1
      <4>1. AnswersLeft' # AnswersLeft /\ AnswersLeft' \in 0..AnswersLeft
        BY <2>3, <3>1
      <4>2. RoundLeft' # RoundLeft
        BY <4>1 DEF RoundLeft
      <4>3. \A i \in Slots : VisitLeft(i)' \in 0..VisitLeft(i)
        BY <2>2, <2>5, <3>1
      <4> QED BY <2>3, <2>4, <3>1, <4>1, <4>2, <4>3
    <3> QED BY <1>1, <2>1, <2>7, <3>1, SourceForward
  <2>8. ASSUME NEW k \in Slots, Visit(k), UNCHANGED mergeVars PROVE Wound
    <3>1. VisitWinds(k) /\ VisitKeeps
      BY <1>1, <2>1, <2>8, VisitForward, VisitFrame
    <3>2. SourceLeft' = SourceLeft /\ AnswersLeft' = AnswersLeft
      BY <2>4, <2>6, <3>1 DEF VisitKeeps
    <3>3. CASE crash' # "none" /\ UNCHANGED << at, attempt, status >>
      <4>1. AroundLeft' = AroundLeft - 1 /\ AroundLeft >= 1
        BY <2>1, <2>8, <3>3, VisitRuns DEF AroundLeft, Running, Types, MergeType
      <4>2. AroundLeft' \in 0..AroundLeft /\ AroundLeft' # AroundLeft
        BY <2>3, <4>1
      <4>3. RoundLeft' # RoundLeft
        BY <4>2 DEF RoundLeft
      <4>4. \A i \in Slots : VisitLeft(i)' \in 0..VisitLeft(i)
        BY <2>2, <2>5, <3>1, <3>3 DEF VisitKeeps
      <4> QED BY <2>3, <3>2, <4>2, <4>3, <4>4
    <3>4. CASE crash' = crash /\ VisitLeft(k)' \in 0..VisitLeft(k) - 1
      <4>1. AroundLeft' = AroundLeft
        BY <2>8, <3>4 DEF AroundLeft, Running
      <4>2. \A i \in Slots \ {k} : VisitLeft(i)' = VisitLeft(i)
        BY <2>1, <3>1, MaxAttemptsType DEF VisitWinds, VisitKeeps, VisitLeft, Types
      <4>3. VisitLeft(k)' \in 0..VisitLeft(k) /\ VisitLeft(k)' # VisitLeft(k)
        BY <2>2, <3>4
      <4>4. \A i \in Slots : VisitLeft(i)' \in 0..VisitLeft(i)
        BY <2>2, <4>2, <4>3
      <4>5. RoundLeft' # RoundLeft
        <5>1. [i \in Slots |-> VisitLeft(i)]'[k] # [i \in Slots |-> VisitLeft(i)][k]
          BY <4>3 DEF Slots
        <5> QED BY <5>1 DEF RoundLeft
      <4>6. AnswersLeft' \in 0..AnswersLeft /\ AroundLeft' \in 0..AroundLeft
        BY <2>3, <3>2, <4>1
      <4> QED BY <3>2, <4>4, <4>5, <4>6
    <3> QED BY <3>1, <3>3, <3>4 DEF VisitWinds
  <2>9. CASE Around
    <3>1. MergeKeeps /\ AroundLeft' \in 0..AroundLeft - 1
      BY <2>1, <2>9, AroundForward
    <3>2. AroundLeft' \in 0..AroundLeft /\ AroundLeft' # AroundLeft
      BY <2>3, <3>1
    <3>3. RoundLeft' # RoundLeft
      BY <3>2 DEF RoundLeft
    <3>4. \A i \in Slots : VisitLeft(i)' \in 0..VisitLeft(i)
      BY <2>2, <2>5, <3>1 DEF MergeKeeps
    <3> QED BY <2>3, <2>4, <2>6, <3>1, <3>2, <3>3, <3>4 DEF MergeKeeps
  <2> QED BY <1>1, <2>7, <2>8, <2>9 DEF MergeNext, Progress, Step, Around, Launch
<1>2. MergeSpec => [][Advanced \/ Wound]_allVars
  BY <1>1, InitIInv, NextIInv, InitTries, NextTries, PTL DEF MergeSpec
<1> QED BY <1>2, PTL DEF WindsDown

-----------------------------------------------------------------------------
(* While the source collects, a goroutine of the round can go on, or an    *)
(* answer is in the channel, or all of them have been taken.               *)
LEMMA RoundMoves ==
  ASSUME Types, RoundInv, Tries, pc = "collect"
  PROVE  received >= round \/ channel > 0 \/ \E i \in Slots : VisitCanMove(i)
<1> SUFFICES ASSUME received < round, ~(channel > 0) PROVE \E i \in Slots : VisitCanMove(i)
  BY UrlsAssumption DEF Types, RoundType
<1>1. /\ received \in Nat /\ channel = 0 /\ round \in 0..MaxAjax
      /\ received + channel = Cardinality(DoneSet)
  BY UrlsAssumption DEF Types, RoundType, RoundInv
<1>2. DoneSet # 1..round
  <2> SUFFICES ASSUME DoneSet = 1..round PROVE FALSE
    OBVIOUS
  <2>1. Cardinality(DoneSet) = Cardinality(1..round)
    OBVIOUS
  <2> QED BY <1>1, <2>1, DoneType
<1>3. PICK i \in 1..round : i \notin DoneSet
  BY <1>2, DoneType
<1>4. i \in Ajax /\ i \in Slots
  BY <1>1, <1>3, UrlsAssumption DEF Ajax, Slots
<1>5. at[i] \in {"spawned", "test", "waiting", "count", "counting", "mapping", "inmap", "answer"}
  BY <1>3, <1>4 DEF RoundInv, DoneSet, Types, VisitType
<1>6. at[i] = "test" => status[i] \in {"none", "temp"}
  BY <1>4 DEF Tries
<1>7. channel < round
  BY <1>1
<1>8. VisitCanMove(i)
  BY <1>5, <1>6, <1>7 DEF VisitCanMove
<1> QED BY <1>4, <1>8

(* MERGE_ALL never stops half way: until it is merged, or the process has  *)
(* ended, the source, a visit, the other source or the merge can go on.    *)
THEOREM NoDeadlock == MergeSpec => []NeverStuck
<1>1. ASSUME IInv, Tries, ~AllFinished PROVE CanProgress
  <2>1. Types /\ Phase /\ RoundInv /\ Tries
    BY <1>1 DEF IInv, FreshInv
  <2>2. CASE pc \in {"request", "cache", "visit", "extract", "calling", "cycle", "spawn"}
    BY <2>2 DEF CanProgress
  <2>3. CASE pc = "visiting"
    <3>1. at[0] \in {"test", "waiting", "count", "counting", "done"}
      BY <2>1, <2>3, ZeroIsSlot DEF Types, VisitType, HasUrl, Phase
    <3>2. at[0] = "test" => status[0] \in {"none", "temp"}
      BY <2>1, ZeroIsSlot DEF Tries
    <3>3. at[0] = "done" \/ VisitCanMove(0)
      BY <3>1, <3>2 DEF VisitCanMove
    <3> QED BY <2>3, <3>3, ZeroIsSlot DEF CanProgress
  <2>4. CASE pc = "collect"
    BY <2>1, <2>4, RoundMoves DEF CanProgress
  <2>5. CASE pc \in {"ended", "extracted"}
    <3>1. mergePc = "waits" /\ wrapperPc \in {"idle", "runs", "ended"}
      BY <1>1, <2>1 DEF AllFinished, Types, MergeType
    <3> QED BY <2>5, <3>1 DEF CanProgress, Finished
  <2> QED BY <2>1, <2>2, <2>3, <2>4, <2>5 DEF Types, FlowType
<1>2. IInv /\ Tries => NeverStuck
  BY <1>1 DEF NeverStuck
<1> QED BY <1>2, InitIInv, NextIInv, InitTries, NextTries, PTL DEF MergeSpec
=============================================================================
