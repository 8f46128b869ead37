------------------------------ MODULE Recrawl -------------------------------
(***************************************************************************)
(* The recrawl of one product page: RecrawlActions (data/recrawl.go) with  *)
(* GetNewOldVariations (data/variations.go), for PostCrawlOps of the       *)
(* recrawl pipeline, for RealtimeActions (data/realtime.go) and for the    *)
(* old variations that a discovery sends.  What was crawled is compared    *)
(* with what rdstore held, rdstore is updated, and a message for every     *)
(* variation it knew goes to the raw db and to the processing pipeline.    *)
(*                                                                         *)
(* The same page may be recrawled by several tasks, a task may be          *)
(* delivered again, and a discovery may add variations meanwhile.  The     *)
(* write and the publications may fail, after they took effect or before.  *)
(***************************************************************************)
EXTENDS Integers, Sequences, FiniteSets, SequencesExt

CONSTANTS
  Tasks,    \* the deliveries that recrawl the page
  Realtime, \* those of them that are realtime tasks
  Sent,     \* those that wait for the old variations of a discovery
  Skus,     \* the child skus
  NoSku,    \* a product without an _id, or with an empty one
  Marked,   \* the skus that rdstore marks as skus_only
  Crawls    \* what an extraction may deliver: sequences of products

(* is_active; a discontinued or careless product has none.                 *)
Activity == {"none", "negative", "zero", "positive"}

Products == [id : Skus \cup {NoSku}, active : Activity]

ASSUME CrawlsAssumption ==
  /\ Crawls \subseteq Seq(Products)
  /\ Marked \subseteq Skus /\ NoSku \notin Skus /\ IsFiniteSet(Skus)
  /\ Realtime \subseteq Tasks /\ Sent \subseteq Tasks \ Realtime

Statuses == {"success", "temp", "perm", "other"}

(* skusOnly: the site is SKUS_ONLY, or the job says update_skus_only.      *)
Jobs == [source : {"WRAPPER", "M101"}, skusOnly : BOOLEAN]

Messages == [sku : Skus, active : BOOLEAN, discontinued : BOOLEAN]

(* Of Variations the skus with IsActive, and the others.                   *)
Requests ==
  [forcediscover : BOOLEAN, active : SUBSET Skus, inactive : SUBSET Skus]

VARIABLES
  job,       \* the job of each task
  pc,        \* where it is
  read,      \* the skus in workflow.RdstoreData
  products,  \* workflow.Data.Products
  status,    \* the kind of WebResponse.Status
  request,   \* rdstoreUpdateRequest
  messages,  \* rawEtlMsgs
  next,      \* the position of the message that is published
  code,      \* what RecrawlActions returns
  known,     \* the skus rdstore holds
  rdstore,   \* its IsActive for each
  raw, pp,   \* the messages published by each task
  rawDb,     \* the last message for each sku, << >> for none
  written,   \* history: the tasks whose write took effect
  alone      \* history: no other task has acted since this one read rdstore

taskVars == << job, read, products, status, request, messages, next >>
streams == << raw, pp, rawDb >>
vars == << taskVars, pc, code, known, rdstore, streams, written, alone >>

NoRequest == [forcediscover |-> FALSE, active |-> {}, inactive |-> {}]

(* Neither a realtime task nor a discovery acts on a page that the wrapper *)
(* has not read.                                                           *)
FirstStep(t) ==
  IF t \in Realtime THEN "crawl" ELSE IF t \in Sent THEN "idle" ELSE "read"

Init ==
  /\ job \in [Tasks -> Jobs]
  /\ \A t \in Realtime \cup Sent : job[t].source = "WRAPPER"
  /\ pc = [t \in Tasks |-> FirstStep(t)]
  /\ read = [t \in Tasks |-> {}]
  /\ products = [t \in Tasks |-> << >>]
  /\ status = [t \in Tasks |-> "other"]
  /\ request = [t \in Tasks |-> NoRequest]
  /\ messages = [t \in Tasks |-> << >>]
  /\ next = [t \in Tasks |-> 1]
  /\ code = [t \in Tasks |-> ""]
  /\ known \in SUBSET Skus
  /\ rdstore = [s \in Skus |-> TRUE]
  /\ raw = [t \in Tasks |-> << >>] /\ pp = [t \in Tasks |-> << >>]
  /\ rawDb = [s \in Skus |-> << >>]
  /\ written = {}
  /\ alone = [t \in Tasks |-> FALSE]

Goto(t, from, to) == pc[t] = from /\ pc' = [pc EXCEPT ![t] = to]

End(t, from, c) == Goto(t, from, "ended") /\ code' = [code EXCEPT ![t] = c]

Set(f, t, v) == [f EXCEPT ![t] = v]

(* A step of a task that others can see.                                   *)
Acts(t) == alone' = [u \in Tasks |-> u = t /\ alone[t]]

InProgress(t) == pc[t] \notin {"read", "idle", "ended", "dead"}

-----------------------------------------------------------------------------
FindVariations(t) ==
  /\ read' = Set(read, t, known)
  /\ alone' = Set(alone, t, \A u \in Tasks \ {t} : ~InProgress(u))

(* The executor reads rdstore before the crawl; without the product, the   *)
(* recrawl fails.                                                          *)
ReadRdstore(t) ==
  /\ IF known = {} THEN End(t, "read", "RDSTORE_DATA_MISSING_EARLY")
                   ELSE Goto(t, "read", "crawl") /\ UNCHANGED code
  /\ FindVariations(t)
  /\ UNCHANGED << job, products, status, request, messages, next, known, rdstore,
                  streams, written >>

Crawl(t) ==
  /\ Goto(t, "crawl", IF t \in Realtime THEN "late" ELSE "prepare")
  /\ \E c \in Crawls : products' = Set(products, t, c)
  /\ \E s \in Statuses : status' = Set(status, t, s)
  /\ UNCHANGED << job, read, request, messages, next, code, known, rdstore,
                  streams, written, alone >>

(* RealtimeActions reads rdstore after the crawl.  It leaves a page without *)
(* products, one that rdstore does not hold, and one whose domain or       *)
(* rdstore data it cannot get.                                             *)
RealtimeReads(t) ==
  /\ products[t] # << >> /\ known # {}
  /\ Goto(t, "late", "prepare")
  /\ FindVariations(t)
  /\ UNCHANGED << job, products, status, request, messages, next, code, known,
                  rdstore, streams, written >>

RealtimeLeaves(t) ==
  /\ End(t, "late", "")
  /\ UNCHANGED << taskVars, known, rdstore, streams, written, alone >>

(* The products at some positions, in their order.                         *)
Taken(ps, positions) ==
  [k \in 1..Cardinality(positions) |->
     ps[CHOOSE i \in positions : Cardinality({j \in positions : j <= i}) = k]]

(* The positions of the first product of every sku.                        *)
Distinct(ps) ==
  {i \in DOMAIN ps : /\ ps[i].id # NoSku
                     /\ \A j \in 1..(i - 1) : ps[j].id # ps[i].id}

Ids(ps) == {ps[i].id : i \in DOMAIN ps}

NewVariations(ps, skus) == Taken(ps, {i \in Distinct(ps) : ps[i].id \notin skus})

ConstructDiscChildSku(s) == [id |-> s, active |-> "none"]

(* Mutant of OldVariations: only what has been crawled is reported.        *)
OldVariationsCrawled(ps, skus) == Taken(ps, {i \in Distinct(ps) : ps[i].id \in skus})

(* The variations rdstore knows: those crawled again, then a discontinued  *)
(* product for each of the others.                                         *)
OldVariations(ps, skus) ==
  LET missed == SetToSeq(skus \ Ids(ps))
  IN Taken(ps, {i \in Distinct(ps) : ps[i].id \in skus})
       \o [k \in DOMAIN missed |-> ConstructDiscChildSku(missed[k])]

(* Mutant of RdstoreActive: any is_active will do.                         *)
RdstoreActiveAny(p) == p.active # "none"

(* rdstore takes a product without stock for active, the raw db does not.  *)
RdstoreActive(p) == p.active \in {"zero", "positive"}

RawActive(p) == p.active = "positive"

RequestFor(ps, skus) ==
  LET old == Range(OldVariations(ps, skus))
  IN [forcediscover |-> NewVariations(ps, skus) # << >>,
      active |-> {p.id : p \in {q \in old : RdstoreActive(q)}},
      inactive |-> {p.id : p \in {q \in old : ~RdstoreActive(q)}}]

MessageFor(p, s) ==
  [sku |-> p.id, active |-> RawActive(p), discontinued |-> s = "perm"]

MessagesFor(ps, s) == [k \in DOMAIN ps |-> MessageFor(ps[k], s)]

(* PostCrawlOps does nothing for a page that the wrapper has not read.     *)
Skip(t) ==
  /\ job[t].source = "M101"
  /\ End(t, "prepare", "")
  /\ UNCHANGED << taskVars, known, rdstore, streams, written, alone >>

(* PrepareDataForRecrawlETL.                                               *)
Prepare(t) ==
  /\ job[t].source # "M101"
  /\ Goto(t, "prepare", "write")
  /\ IF status[t] = "temp" THEN UNCHANGED << products, request, messages >>
     ELSE LET old == OldVariations(products[t], read[t])
          IN /\ products' = Set(products, t, old)
             /\ request' = Set(request, t, RequestFor(products[t], read[t]))
             /\ messages' = Set(messages, t, MessagesFor(old, status[t]))
  /\ UNCHANGED << job, read, status, next, code, known, rdstore, streams,
                  written, alone >>

(* What rdstore does with the request, or with the word that the product   *)
(* is gone.                                                                *)
Updated(t) ==
  IF status[t] = "success"
    THEN [s \in Skus |-> \/ s \in request[t].active
                        \/ (s \notin request[t].inactive /\ rdstore[s])]
    ELSE [s \in Skus |-> s \notin known /\ rdstore[s]]

Writes(t) == status[t] \in {"success", "perm"}

WriteDone(t) ==
  /\ rdstore' = Updated(t) /\ written' = written \cup {t} /\ Acts(t)

(* Mutant of WriteFailed: the error is logged.                             *)
WriteFailedOnly(t) == Goto(t, "write", "raw") /\ UNCHANGED code

WriteFailed(t) == End(t, "write", "RDSTORE_WRITE_FAILED")

(* writeDataToRdstore: a request that fails may have been carried out.     *)
WriteRdstore(t) ==
  /\ \/ Writes(t) /\ WriteDone(t) /\ Goto(t, "write", "raw") /\ UNCHANGED code
     \/ Writes(t) /\ WriteFailed(t)
        /\ (WriteDone(t) \/ UNCHANGED << rdstore, written, alone >>)
     \/ ~Writes(t) /\ Goto(t, "write", "raw")
        /\ UNCHANGED << code, rdstore, written, alone >>
  /\ UNCHANGED << taskVars, known, streams >>

SkusOnly(t) == job[t].skusOnly \/ read[t] \cap Marked # {}

Message(t) == messages[t][next[t]]

Left(t) == next[t] <= Len(messages[t])

(* The publisher takes the message, or returns an error, and may have      *)
(* taken it then.                                                          *)
PublishRaw(t) ==
  /\ pc[t] = "raw" /\ Left(t)
  /\ \/ /\ raw' = Set(raw, t, Append(raw[t], Message(t)))
        /\ rawDb' = [rawDb EXCEPT ![Message(t).sku] = << Message(t) >>]
        /\ Acts(t)
        /\ \/ End(t, "raw", "ETL_PUBLISH_FAILED") /\ UNCHANGED next
           \/ SkusOnly(t) /\ next' = Set(next, t, next[t] + 1)
              /\ UNCHANGED << pc, code >>
           \/ ~SkusOnly(t) /\ Goto(t, "raw", "pp") /\ UNCHANGED << next, code >>
     \/ End(t, "raw", "ETL_PUBLISH_FAILED") /\ UNCHANGED << next, raw, rawDb, alone >>
  /\ UNCHANGED << job, read, products, status, request, messages, known, rdstore,
                  pp, written >>

PpFailed(t) == End(t, "pp", "ETL_PUBLISH_FAILED") /\ UNCHANGED next

PublishPp(t) ==
  /\ pc[t] = "pp"
  /\ \/ /\ pp' = Set(pp, t, Append(pp[t], Message(t)))
        /\ Acts(t)
        /\ \/ PpFailed(t)
           \/ /\ Goto(t, "pp", "raw") /\ next' = Set(next, t, next[t] + 1)
              /\ UNCHANGED code
     \/ PpFailed(t) /\ UNCHANGED << pp, alone >>
  /\ UNCHANGED << job, read, products, status, request, messages, known, rdstore,
                  raw, rawDb, written >>

Succeed(t) ==
  /\ ~Left(t) /\ End(t, "raw", "")
  /\ UNCHANGED << taskVars, known, rdstore, streams, written, alone >>

(* The process ends: what has been written and published stays.            *)
Die(t) ==
  /\ InProgress(t)
  /\ pc' = Set(pc, t, "dead")
  /\ UNCHANGED << taskVars, code, known, rdstore, streams, written, alone >>

(* A discovery adds a variation to rdstore.                                *)
Discover(s) ==
  /\ s \notin known
  /\ known' = known \cup {s}
  /\ rdstore' = [rdstore EXCEPT ![s] = TRUE]
  /\ UNCHANGED << taskVars, pc, code, streams, written, alone >>

Step(t) ==
  \/ ReadRdstore(t) \/ Crawl(t) \/ RealtimeReads(t) \/ RealtimeLeaves(t)
  \/ Skip(t) \/ Prepare(t) \/ WriteRdstore(t)
  \/ PublishRaw(t) \/ PublishPp(t) \/ Succeed(t)

Terminated == (\A t \in Tasks : pc[t] \in {"idle", "ended", "dead"}) /\ UNCHANGED vars

Next ==
  \/ \E t \in Tasks : Step(t) \/ Die(t)
  \/ \E s \in Skus : Discover(s)
  \/ Terminated

Spec == Init /\ [][Next]_vars

-----------------------------------------------------------------------------
(* Every variable of the recrawl keeps its type; a task publishes at most  *)
(* one message for each sku.                                               *)
TypeOK ==
  /\ job \in [Tasks -> Jobs]
  /\ pc \in [Tasks -> {"read", "idle", "crawl", "late", "prepare", "write", "raw", "pp", "ended",
                       "dead"}]
  /\ read \in [Tasks -> SUBSET Skus]
  /\ products \in [Tasks -> Seq(Products)]
  /\ status \in [Tasks -> Statuses]
  /\ request \in [Tasks -> Requests]
  /\ messages \in [Tasks -> Seq(Messages)]
  /\ next \in [Tasks -> 1..(Cardinality(Skus) + 1)]
  /\ code \in [Tasks -> {"", "RDSTORE_DATA_MISSING_EARLY", "RDSTORE_WRITE_FAILED",
                         "ETL_PUBLISH_FAILED"}]
  /\ known \subseteq Skus
  /\ rdstore \in [Skus -> BOOLEAN]
  /\ raw \in [Tasks -> Seq(Messages)] /\ pp \in [Tasks -> Seq(Messages)]
  /\ rawDb \in [Skus -> {<< >>} \cup {<< m >> : m \in Messages}]
  /\ written \subseteq Tasks
  /\ alone \in [Tasks -> BOOLEAN]

Succeeded(t) == pc[t] = "ended" /\ code[t] = "" /\ job[t].source # "M101"

(* Whatever fails, and wherever the process ends, what a task publishes is *)
(* a prefix of its messages, and the processing pipeline never sees one    *)
(* that the raw db has not been sent.  A recrawl that succeeds has         *)
(* published exactly one message for each sku that rdstore held when it    *)
(* began, crawled, crawled twice or missed, and none for any other, to the *)
(* raw db and, unless it is skus_only, to the processing pipeline.         *)
EverySkuReported ==
  \A t \in Tasks :
    /\ IsPrefix(raw[t], messages[t]) /\ IsPrefix(pp[t], raw[t])
    /\ Succeeded(t) /\ status[t] # "temp" =>
         /\ {raw[t][k].sku : k \in DOMAIN raw[t]} = read[t]
         /\ Len(raw[t]) = Cardinality(read[t])
         /\ pp[t] = IF SkusOnly(t) THEN << >> ELSE raw[t]

(* Nothing is announced of a page before rdstore has taken the update that *)
(* is announced, whatever fails and wherever the process ends.             *)
AnnouncedAfterWrite ==
  \A t \in Tasks : raw[t] # << >> /\ Writes(t) => t \in written

(* After a recrawl that succeeded with no other task of the page acting    *)
(* since it read rdstore, the two stores agree on every sku: gone from     *)
(* both, or active in both, but for a product out of stock, which only     *)
(* rdstore takes for active.                                               *)
StoresAgree ==
  \A t \in Tasks : Succeeded(t) /\ Writes(t) /\ alone[t] =>
    \A s \in read[t] :
      LET m == rawDb[s][1]
          p == CHOOSE q \in Range(products[t]) : q.id = s
      IN /\ rawDb[s] # << >>
         /\ status[t] = "perm" => m.discontinued /\ ~rdstore[s]
         /\ status[t] = "success" =>
              ~m.discontinued /\ (rdstore[s] <=> m.active \/ p.active = "zero")
=============================================================================
