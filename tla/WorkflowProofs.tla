--------------------------- MODULE WorkflowProofs ---------------------------
(***************************************************************************)
(* The safety properties of Workflow, proved for every set of jobs and of  *)
(* sites.  One inductive invariant, IInv, says how far each variable is    *)
(* settled at each stage of the executor; Flow has the part about the      *)
(* failure, PostCrawlOps and the publication, Found the part about what    *)
(* the cascade has found.  Owned and Promised, in the second half, are     *)
(* inductive on top of it.                                                 *)
(***************************************************************************)
EXTENDS Workflow, SequenceTheorems, TLAPS

Done == {"report", "sent"}

(* Where the executor is, and how far its sources and DomainInfo are.      *)
Stage ==
  /\ pc \notin {"params", "preops", "domaininfo", "report", "sent"} =>
       domainInfo # {}
  /\ pc \in {"params", "preops", "domaininfo"} => source = 1
  /\ pc \in {"validate", "rdstore", "request", "extract"} =>
       source <= Len(dataSources)

(* Nothing has failed before the report, and a report is one or the other. *)
Flow ==
  /\ pc \notin Done => failureType = << >> /\ ~postCrawlOpsCalled
  /\ pc = "postops" => status = 1
  /\ pc \in Done => (status = 1 <=> failureType = << >>)
  /\ pc \in Done /\ status = 1 => postCrawlOpsCalled
  /\ postCalls = IF postCrawlOpsCalled THEN 1 ELSE 0
  /\ actions # "none" => postCrawlOpsCalled /\ ~SkipsActions
  /\ published # << >> => actions = "done"
  /\ published = << "SUCCESS" >> => status = 1 /\ data.products # "none"

(* Data names no source yet; and it holds the products of a source whose   *)
(* Extract does nothing.                                                   *)
Unnamed == data.extractionDataSource = ""

Filled(name) == name \notin {"WRAPPER", "UNSUPERVISED"} => data.products = name

(* A source is named only when the cascade ended with its products; a      *)
(* verdict stays what the loop ended with.                                 *)
Found ==
  /\ pc \notin {"merged", "postops", "report", "sent"} => Unnamed
  /\ pc = "extract" => Filled(dataSources[source])
  /\ pc \in {"params", "preops", "domaininfo", "validate", "rdstore", "merge_all"}
       => ~result.err
  /\ ProductsOfNamedSource
  /\ VerdictIsFinal

IInv == TypeOK /\ Stage /\ Flow /\ Found

-----------------------------------------------------------------------------
(* What a call of Request or Extract may leave, as a type.                 *)
Outcome == [canExtract : BOOLEAN, result : [code : SourceCodes, err : BOOLEAN],
            data : DataType, page : Pages \cup {"none"}, status : {0, 1},
            isProductUrl : BOOLEAN]

LEMMA NowType ==
  ASSUME TypeOK, domainInfo # {}
  PROVE  /\ Site \in SiteType
         /\ domainInfo = {Site}
         /\ Now \in Outcome
         /\ Now.data = data
<1>1. PICK site \in SiteType : domainInfo = {site}
  BY DEF TypeOK
<1>2. Site = site
  BY <1>1 DEF Site
<1>3. Ok \in [code : SourceCodes, err : BOOLEAN]
  BY DEF Ok, SourceCodes
<1>4. Site \in SiteType /\ domainInfo = {Site}
  BY <1>1, <1>2
<1>5. Site.isProductUrl \in BOOLEAN
  BY <1>4 DEF SiteType
<1>6. data \in DataType /\ webResponse \in Pages \cup {"none"} /\ status \in {0, 1}
  BY DEF TypeOK
<1>7. Now.data = data
  BY DEF Now
<1>8. Now \in Outcome
  BY <1>3, <1>5, <1>6 DEF Now, Outcome
<1> QED BY <1>4, <1>7, <1>8

(* A code and the outcomes a failed call has.                              *)
LEMMA FailedType ==
  ASSUME TypeOK, domainInfo # {}, NEW code \in SourceCodes
  PROVE  /\ Failed(code) \in Outcome
         /\ Failed(code).data = data
<1>1. Now \in Outcome /\ Now.data = data
  BY NowType
<1>2. Error(code) \in [code : SourceCodes, err : BOOLEAN]
  BY DEF Error
<1> QED BY <1>1, <1>2 DEF Failed, Outcome

(* An outcome that names no source for its products.                       *)
Unlabelled == {o \in Outcome : o.data.extractionDataSource = ""}

LEMMA EmptyDataType ==
  EmptyData \in DataType /\ EmptyData.extractionDataSource = ""
BY DEF EmptyData, DataType, SourceCodes

LEMMA VisitedType ==
  ASSUME TypeOK, domainInfo # {}, Unnamed, NEW page \in Pages
  PROVE  Visited(page) \in Unlabelled
<1>1. Now \in Unlabelled
  BY NowType DEF Unlabelled, Unnamed
<1> DEFINE visit == [Now EXCEPT !.page = page]
<1>2. visit \in Unlabelled
  BY <1>1 DEF Unlabelled, Outcome
<1>3. /\ [visit EXCEPT !.canExtract = TRUE] \in Unlabelled
      /\ \A code \in SourceCodes :
           [visit EXCEPT !.result = Error(code)] \in Unlabelled
  <2> HIDE DEF visit
  <2> QED BY <1>2 DEF Unlabelled, Outcome, Error
<1>4. "HTTP_500_ERROR" \in SourceCodes /\ "DOES_NOT_EXIST" \in SourceCodes
  BY DEF SourceCodes
<1> QED BY <1>2, <1>3, <1>4 DEF Visited, Pages

LEMMA SitemapsType ==
  ASSUME TypeOK, domainInfo # {}, Unnamed,
         NEW o \in Sitemaps
  PROVE  o \in Unlabelled
<1>1. ReadablePages \subseteq Pages
  BY DEF ReadablePages
<1>2. \A page \in Pages : Visited(page) \in Unlabelled
  BY VisitedType
<1>3. ASSUME NEW page \in Pages, NEW some \in BOOLEAN
      PROVE  SitemapRead(page, some) \in Unlabelled
  <2>1. [data EXCEPT !.status = 1, !.links = some] \in DataType
    BY DEF TypeOK, DataType, Unnamed
  <2>2. [data EXCEPT !.status = 1, !.links = some].extractionDataSource = ""
    BY DEF TypeOK, DataType, Unnamed
  <2> QED BY <1>2, <2>1, <2>2 DEF SitemapRead, Outcome, Unlabelled
<1>4. ASSUME NEW page \in Pages
      PROVE  [Visited(page) EXCEPT !.result = Error("")] \in Unlabelled
  BY <1>2 DEF Outcome, Error, SourceCodes, Unlabelled
<1>5. CASE o \in SitemapsRead
  <2>1. PICK page \in ReadablePages, some \in BOOLEAN : o = SitemapRead(page, some)
    BY <1>5 DEF SitemapsRead
  <2> QED BY <1>1, <1>3, <2>1
<1>6. CASE o \in SitemapsBroken
  BY <1>1, <1>4, <1>6 DEF SitemapsBroken
<1> QED BY <1>5, <1>6 DEF Sitemaps

LEMMA DiffbotType ==
  ASSUME TypeOK, domainInfo # {}, Unnamed,
         NEW o \in DiffbotRequests
  PROVE  o \in Unlabelled /\ ~o.canExtract
<1>1. Now \in Unlabelled /\ ~Now.canExtract
  BY NowType DEF Unlabelled, Unnamed, Now
<1>2. ASSUME NEW code \in DiffbotCodes
      PROVE  Failed(code) \in Unlabelled /\ ~Failed(code).canExtract
  <2>1. code \in SourceCodes
    BY DEF SourceCodes, DiffbotCodes
  <2>2. Failed(code) \in Outcome /\ Failed(code).data = data
    BY <2>1, FailedType
  <2>3. Failed(code).canExtract = Now.canExtract
    BY DEF Failed, Now
  <2> QED BY <1>1, <2>2, <2>3 DEF Unlabelled, Unnamed
<1>3. ASSUME NEW s \in {0, 1}, NEW p \in {data.products, "DIFFBOT"},
             NEW r \in [code : SourceCodes, err : BOOLEAN]
      PROVE  DiffbotAnswer(s, p, r) \in Unlabelled /\ ~DiffbotAnswer(s, p, r).canExtract
  <2> DEFINE d == [data EXCEPT !.status = s, !.products = p, !.engine = "DIFFBOT"]
  <2>1. d \in DataType /\ d.extractionDataSource = ""
    BY DEF TypeOK, DataType, Names, SourceNames, Unnamed
  <2>2. DiffbotAnswer(s, p, r) = [Now EXCEPT !.data = d, !.result = r]
    BY DEF DiffbotAnswer
  <2> HIDE DEF d
  <2> QED BY <1>1, <2>1, <2>2 DEF Outcome, Unlabelled
<1>4. CASE o \in DiffbotRefusals
  <2>1. PICK p \in {data.products, "DIFFBOT"}, code \in DiffbotCodes :
          o = DiffbotAnswer(0, p, Error(code))
    BY <1>4 DEF DiffbotRefusals
  <2>2. Error(code) \in [code : SourceCodes, err : BOOLEAN]
    BY DEF Error, SourceCodes, DiffbotCodes
  <2> QED BY <1>3, <2>1, <2>2
<1>5. CASE o \in {DiffbotAnswer(1, p, Ok) : p \in {data.products, "DIFFBOT"}}
  <2>1. Ok \in [code : SourceCodes, err : BOOLEAN]
    BY DEF Ok, SourceCodes
  <2> QED BY <1>3, <1>5, <2>1
<1>6. CASE o \in {Failed(code) : code \in DiffbotCodes}
  BY <1>2, <1>6
<1> QED BY <1>4, <1>5, <1>6 DEF DiffbotRequests, DiffbotAnswers

(* A call of M101.Request or Amazon.Request that does not fail has filled  *)
(* Data with products of its own.                                          *)
LEMMA ApiType ==
  ASSUME TypeOK, domainInfo # {}, Unnamed,
         NEW n \in {"M101", "AMAZON"},
         NEW emptyCode \in {"NO_PRODUCT_FROM_SOURCE", "AMAZON_NO_PRODUCTS_ERR"},
         NEW o \in ApiRequests(n, emptyCode)
  PROVE  /\ o \in Unlabelled
         /\ ~o.result.err => o.data.products = n
<1>1. Now \in Unlabelled
  BY NowType DEF Unlabelled, Unnamed
<1>2. "API_REQUEST_FAILED" \in SourceCodes /\ emptyCode \in SourceCodes
  BY DEF SourceCodes
<1>3. \A code \in SourceCodes :
        Failed(code) \in Unlabelled /\ Failed(code).result.err
  BY FailedType DEF Unlabelled, Unnamed, Failed, Error, Now
<1>4. [Now EXCEPT !.canExtract = TRUE, !.data.products = n, !.data.status = 1]
        \in Unlabelled
  BY <1>1 DEF Outcome, DataType, Names, SourceNames, Unlabelled
<1>5. [Now EXCEPT !.canExtract = TRUE, !.data.products = n,
                  !.data.status = 1].data.products = n
  BY <1>1 DEF Outcome, DataType, Unlabelled
<1> DEFINE e == [Failed(emptyCode) EXCEPT !.data.products = "none", !.data.status = 0,
                                          !.data.code = emptyCode]
<1>6. e \in Unlabelled /\ e.result.err
  <2> DEFINE f == Failed(emptyCode)
  <2>1. f \in Unlabelled /\ f.result.err
    BY <1>2, <1>3
  <2> HIDE DEF f
  <2>2. [f EXCEPT !.data.products = "none", !.data.status = 0,
                  !.data.code = emptyCode] \in Unlabelled
    BY <1>2, <2>1 DEF Outcome, DataType, Unlabelled
  <2>3. [f EXCEPT !.data.products = "none", !.data.status = 0,
                  !.data.code = emptyCode].result = f.result
    BY <2>1 DEF Outcome, Unlabelled
  <2> QED BY <2>1, <2>2, <2>3 DEF f
<1> HIDE DEF e
<1>7. o \in {Failed("API_REQUEST_FAILED"),
             [Now EXCEPT !.canExtract = TRUE, !.data.products = n, !.data.status = 1], e}
  BY DEF ApiRequests, e
<1> QED BY <1>2, <1>3, <1>4, <1>5, <1>6, <1>7

(* What a call of Request leaves.  A source whose Extract does nothing is  *)
(* asked to extract only when its products are there.                      *)
LEMMA RequestsType ==
  ASSUME TypeOK, domainInfo # {}, Unnamed,
         NEW name \in Names, NEW o \in Requests(name)
  PROVE  /\ o \in Unlabelled
         /\ ~o.result.err /\ o.canExtract /\ name \notin {"WRAPPER", "UNSUPERVISED"}
              => o.data.products = name
<1>1. Now \in Unlabelled
  BY NowType DEF Unlabelled, Unnamed
<1>2. \A code \in SourceCodes : Failed(code) \in Unlabelled
  BY FailedType DEF Unlabelled, Unnamed
<1>3. CASE name = "WRAPPER"
  <2>1. Failed("DOMAIN_NOT_SUPPORTED") \in Unlabelled
        /\ Failed("CONTENT_ID_GENERATION_FAILED") \in Unlabelled
    BY <1>2 DEF SourceCodes
  <2>2. ASSUME NEW page \in Pages
        PROVE [Now EXCEPT !.canExtract = TRUE, !.page = page] \in Unlabelled
    BY <1>1 DEF Outcome, Unlabelled
  <2>3. \A s \in CachedPages : s \in Unlabelled
    BY <2>2 DEF CachedPages
  <2>4. \A s \in VisitedPages : s \in Unlabelled
    BY VisitedType DEF VisitedPages
  <2>5. \A s \in Sitemaps : s \in Unlabelled
    BY SitemapsType
  <2> QED BY <1>3, <2>1, <2>3, <2>4, <2>5 DEF Requests, WrapperRequests
<1>4. CASE name = "UNSUPERVISED"
  <2>1. Failed("CONTENT_ID_GENERATION_FAILED") \in Unlabelled
        /\ Failed("UNSUPERVISED_REQUEST_FAILED") \in Unlabelled
    BY <1>2 DEF SourceCodes
  <2>2. ASSUME NEW u \in Unlabelled
        PROVE  [u EXCEPT !.data = EmptyData] \in Unlabelled
               /\ [u EXCEPT !.canExtract = TRUE, !.data = EmptyData] \in Unlabelled
    BY EmptyDataType DEF Outcome, Unlabelled
  <2> QED BY <1>1, <1>4, <2>1, <2>2 DEF Requests, UnsupervisedRequests
<1>5. CASE name = "DIFFBOT"
  BY <1>5, DiffbotType DEF Requests
<1>6. CASE name = "M101"
  <2>1. o \in ApiRequests("M101", "NO_PRODUCT_FROM_SOURCE")
    BY <1>6 DEF Requests
  <2> QED BY <1>6, <2>1, ApiType
<1>7. CASE name = "AMAZON"
  <2>1. o \in ApiRequests("AMAZON", "AMAZON_NO_PRODUCTS_ERR")
    BY <1>7 DEF Requests
  <2> QED BY <1>7, <2>1, ApiType
<1>8. CASE name = "UNKNOWN"
  BY <1>8 DEF Requests
<1> QED BY <1>3, <1>4, <1>5, <1>6, <1>7, <1>8 DEF Names, SourceNames

-----------------------------------------------------------------------------
(* An outcome whose products are of the source n, or none.                 *)
Own(n) == {o \in Unlabelled : o.data.products \in {"none", n}}

LEMMA ButType ==
  ASSUME NEW n \in Names, NEW a \in Own(n), NEW code \in SourceCodes
  PROVE  /\ But(a, code) \in Own(n)
         /\ WithoutProducts(a) \in Own(n)
         /\ [a EXCEPT !.status = 1] \in Own(n)
         /\ [a EXCEPT !.data = EmptyData] \in Own(n)
<1>1. a \in Outcome /\ a.data \in DataType
  BY DEF Own, Unlabelled, Outcome
<1>2. But(a, code) \in Own(n)
  BY <1>1 DEF But, Own, Unlabelled, Outcome, Error
<1>3. WithoutProducts(a) \in Own(n)
  BY <1>1 DEF WithoutProducts, Own, Unlabelled, Outcome, DataType
<1>4. [a EXCEPT !.status = 1] \in Own(n)
  BY <1>1 DEF Own, Unlabelled, Outcome
<1>5. [a EXCEPT !.data = EmptyData] \in Own(n)
  BY <1>1, EmptyDataType DEF Own, Unlabelled, Outcome, EmptyData
<1> QED BY <1>2, <1>3, <1>4, <1>5

LEMMA ValidatedType ==
  ASSUME NEW n \in Names, NEW a \in Own(n), NEW v \in Validated(a)
  PROVE  v \in Own(n)
<1>1. \A code \in SourceCodes : But(a, code) \in Own(n)
  BY ButType
<1>2. "EXTRACTION_FAILED_NOPRODS" \in SourceCodes /\ "REDIRECT_SKU_ERROR" \in SourceCodes
      /\ "DOES_NOT_EXIST" \in SourceCodes /\ "NOT_PRODUCT_PAGE" \in SourceCodes
  BY DEF SourceCodes
<1>3. \A c \in ProdsChecked(a) : c \in Own(n)
  BY <1>1, <1>2 DEF ProdsChecked
<1>4. WithoutProducts(But(a, "REDIRECT_SKU_ERROR")) \in Own(n)
  <2> DEFINE b == But(a, "REDIRECT_SKU_ERROR")
  <2>1. b \in Own(n)
    BY <1>1, <1>2
  <2> HIDE DEF b
  <2>2. WithoutProducts(b) \in Own(n)
    BY <2>1, <1>2, ButType
  <2> QED BY <2>2 DEF b
<1>5. [a EXCEPT !.status = 1] \in Own(n)
  BY <1>2, ButType
<1>6. CASE job.pipeline \in {"recrawl", "crawl", "testwrapper", "discovery"}
  BY <1>3, <1>4, <1>6 DEF Validated, Realtime
<1>7. CASE job.pipeline \in Realtime
  BY <1>1, <1>2, <1>5, <1>7 DEF Validated, Realtime
<1>8. CASE job.pipeline \notin {"recrawl", "crawl", "testwrapper", "discovery"} \cup Realtime
  BY <1>8 DEF Validated
<1> QED BY <1>6, <1>7, <1>8

LEMMA WrapperAnswersType ==
  ASSUME TypeOK, domainInfo # {}, Unnamed,
         NEW a \in WrapperAnswers
  PROVE  a \in Own("WRAPPER")
<1>1. PICK page \in Pages, isProduct \in BOOLEAN, p \in {"none", "WRAPPER"},
           some \in BOOLEAN :
        a = WrapperAnswer(page, isProduct, p, some)
  BY DEF WrapperAnswers
<1> DEFINE d == [EmptyData EXCEPT !.status = 1, !.products = p,
                                  !.engine = "WRAPPER", !.links = some]
<1>2. d \in DataType /\ d.extractionDataSource = "" /\ d.products \in {"none", "WRAPPER"}
  BY EmptyDataType DEF DataType, Names, SourceNames
<1>3. Now \in Outcome
  BY NowType
<1>4. a = [Now EXCEPT !.page = page, !.isProductUrl = isProduct, !.data = d]
  BY <1>1 DEF WrapperAnswer
<1> HIDE DEF d
<1> QED BY <1>2, <1>3, <1>4 DEF Own, Unlabelled, Outcome

LEMMA WrapperOutcomesType ==
  ASSUME NEW a \in Own("WRAPPER"), NEW o \in WrapperOutcomes(a)
  PROVE  o \in Own("WRAPPER")
<1>1. "WRAPPER" \in Names
  BY DEF Names, SourceNames
<1>2. \A b \in Own("WRAPPER") : \A v \in Validated(b) : v \in Own("WRAPPER")
  BY <1>1, ValidatedType
<1>3. /\ "EXTRACTION_AJAX_FAILED" \in SourceCodes /\ "HTTP_500_ERROR" \in SourceCodes
      /\ "EXTRACTION_MAX_CYCLES_EXCEEDED" \in SourceCodes
  BY DEF SourceCodes
<1>4. \A b \in Own("WRAPPER") : \A code \in SourceCodes :
        /\ But(b, code) \in Own("WRAPPER")
        /\ WithoutProducts(b) \in Own("WRAPPER")
        /\ [b EXCEPT !.data = EmptyData] \in Own("WRAPPER")
  BY <1>1, ButType
<1>5. But(a, "EXTRACTION_AJAX_FAILED") \in Own("WRAPPER")
      /\ WithoutProducts(a) \in Own("WRAPPER")
  BY <1>3, <1>4
<1>6. [But(a, "EXTRACTION_AJAX_FAILED") EXCEPT !.data = EmptyData] \in Own("WRAPPER")
  BY <1>3, <1>4, <1>5
<1>7. /\ But(a, "EXTRACTION_MAX_CYCLES_EXCEEDED") \in Own("WRAPPER")
      /\ But(a, "HTTP_500_ERROR") \in Own("WRAPPER")
  BY <1>3, <1>4
<1> QED BY <1>2, <1>5, <1>6, <1>7 DEF WrapperOutcomes

(* What a call of Extract leaves.  Unless it fails, the products are those *)
(* of the source, whatever was in Data before.                             *)
LEMMA ExtractsType ==
  ASSUME TypeOK, domainInfo # {}, Unnamed,
         NEW name \in Names, NEW o \in Extracts(name),
         Filled(name)
  PROVE  /\ o \in Unlabelled
         /\ ~o.result.err => o.data.products \in {"none", name}
<1>1. Now \in Unlabelled /\ Now.data = data
  BY NowType DEF Unlabelled, Unnamed
<1>2. \A code \in SourceCodes :
        Failed(code) \in Unlabelled /\ Failed(code).result.err
  BY FailedType DEF Unlabelled, Unnamed, Failed, Error, Now
<1>3. CASE name = "WRAPPER"
  <2>1. o = WrapperRefusal \/ o \in WrapperErrors
          \/ \E a \in WrapperAnswers : o \in WrapperOutcomes(a)
    BY <1>3 DEF Extracts, WrapperExtracts
  <2>2. CASE o = WrapperRefusal
    <3>1. data.code \in SourceCodes
      BY DEF TypeOK, DataType, Unnamed
    <3>2. "EXTRACTION_SITE_STATUS_CHECK_FAILED" \in SourceCodes
          /\ "EXTRACTION_WRAPPER_EMPTY" \in SourceCodes
      BY DEF SourceCodes
    <3> QED BY <1>2, <2>2, <3>1, <3>2 DEF WrapperRefusal
  <2>3. CASE o \in WrapperErrors
    <3>1. ASSUME NEW code \in {"", "NOT_PRODUCT_PAGE", "WRAPPER_CODE"}
          PROVE  /\ [Failed(IF code = "" THEN "EXTRACTION_FAILED" ELSE code)
                      EXCEPT !.data = [EmptyData EXCEPT !.code = code]] \in Unlabelled
                 /\ [Failed(IF code = "" THEN "EXTRACTION_FAILED" ELSE code)
                      EXCEPT !.data = [EmptyData EXCEPT !.code = code]].result.err
      <4> DEFINE c == IF code = "" THEN "EXTRACTION_FAILED" ELSE code
                 f == Failed(c)
                 d == [EmptyData EXCEPT !.code = code]
      <4>1. c \in SourceCodes /\ code \in SourceCodes
        BY DEF SourceCodes
      <4>2. f \in Unlabelled /\ f.result.err
        BY <1>2, <4>1
      <4>3. d \in DataType /\ d.extractionDataSource = ""
        BY <4>1, EmptyDataType DEF DataType
      <4> HIDE DEF f, d
      <4>4. [f EXCEPT !.data = d] \in Unlabelled /\ [f EXCEPT !.data = d].result.err
        BY <4>2, <4>3 DEF Unlabelled, Outcome
      <4> QED BY <4>4 DEF f, d
    <3> QED BY <2>3, <3>1 DEF WrapperErrors
  <2>4. CASE \E a \in WrapperAnswers : o \in WrapperOutcomes(a)
    <3>1. o \in Own("WRAPPER")
      BY <2>4, WrapperAnswersType, WrapperOutcomesType
    <3> QED BY <1>3, <3>1 DEF Own
  <2> QED BY <2>1, <2>2, <2>3, <2>4
<1>4. CASE name = "UNSUPERVISED"
  <2>1. ASSUME NEW s \in {0, 1}, NEW code \in {"", "NOT_PRODUCT_PAGE"},
               NEW p \in {"none", "UNSUPERVISED"}
        PROVE  /\ UnsupervisedData(s, code, p) \in DataType
               /\ UnsupervisedData(s, code, p).extractionDataSource = ""
               /\ UnsupervisedData(s, code, p).products = p
    BY EmptyDataType DEF UnsupervisedData, DataType, Names, SourceNames, SourceCodes
  <2>2. ASSUME NEW u \in Unlabelled, NEW d \in DataType, d.extractionDataSource = ""
        PROVE  /\ [u EXCEPT !.data = d] \in Unlabelled
               /\ [u EXCEPT !.data = d].data = d
               /\ [u EXCEPT !.data = d].result = u.result
    BY <2>2 DEF Unlabelled, Outcome
  <2>3. CASE o \in UnsupervisedErrors
    <3>1. PICK code \in UnsupervisedCodes, p \in {"none", "UNSUPERVISED"} :
            o = UnsupervisedError(code, p)
      BY <2>3 DEF UnsupervisedErrors
    <3>2. code \in SourceCodes /\ code \in {"", "NOT_PRODUCT_PAGE"}
      BY DEF SourceCodes, UnsupervisedCodes
    <3>3. Failed(code) \in Unlabelled /\ Failed(code).result.err
      BY <1>2, <3>2
    <3>4. /\ UnsupervisedData(0, code, p) \in DataType
          /\ UnsupervisedData(0, code, p).extractionDataSource = ""
      BY <2>1, <3>2
    <3> QED BY <2>2, <3>1, <3>3, <3>4 DEF UnsupervisedError
  <2>4. CASE o \in UnsupervisedAnswers
    <3>1. PICK p \in {"none", "UNSUPERVISED"} :
            o = UnsupervisedAnswer(p)
      BY <2>4 DEF UnsupervisedAnswers
    <3> DEFINE d == UnsupervisedData(1, "", p)
    <3>2. d \in DataType /\ d.extractionDataSource = "" /\ d.products = p
      BY <2>1
    <3>3. o = [Now EXCEPT !.data = d]
      BY <3>1 DEF UnsupervisedAnswer
    <3> HIDE DEF d
    <3>4. o \in Unlabelled /\ o.data = d
      BY <1>1, <2>2, <3>2, <3>3
    <3> QED BY <1>4, <3>2, <3>4
  <2>5. CASE o = [Failed("UNSUPERVISED_RPC_ERR")
                    EXCEPT !.data = [EmptyData EXCEPT !.code = "UNSUPERVISED_RPC_ERR"]]
    <3>1. "UNSUPERVISED_RPC_ERR" \in SourceCodes
      BY DEF SourceCodes
    <3>2. /\ [EmptyData EXCEPT !.code = "UNSUPERVISED_RPC_ERR"] \in DataType
          /\ [EmptyData EXCEPT !.code = "UNSUPERVISED_RPC_ERR"].extractionDataSource = ""
      BY <3>1, EmptyDataType DEF DataType
    <3> QED BY <1>2, <2>2, <2>5, <3>1, <3>2
  <2> QED BY <1>4, <2>3, <2>4, <2>5 DEF Extracts, UnsupervisedExtracts
<1>5. CASE name \notin {"WRAPPER", "UNSUPERVISED"}
  BY <1>1, <1>5 DEF Extracts, Filled
<1> QED BY <1>3, <1>4, <1>5

-----------------------------------------------------------------------------
LEMMA OneCode ==
  ASSUME NEW code \in Codes
  PROVE  << code >> \in Seq(Codes) /\ << code >> # << >>
OBVIOUS

(* The fields of Flow and TypeOK that a failure settles.                   *)
Failure ==
  /\ status = 0
  /\ failureType \in Seq(Codes) /\ failureType # << >>
  /\ postCrawlOpsCalled \in BOOLEAN
  /\ postCalls = IF postCrawlOpsCalled THEN 1 ELSE 0
  /\ actions \in {"none", "spawned", "done"}
  /\ actions # "none" => postCrawlOpsCalled /\ ~SkipsActions
  /\ published # << >> => actions = "done"

(* FailWorkflow, from a worker that has not succeeded.                     *)
LEMMA FailureType ==
  ASSUME TypeOK, Flow, NEW reason \in Seq(Codes), reason # << >>,
         NEW preFailed \in BOOLEAN, FailWorkflow(reason, preFailed),
         UNCHANGED << job, data, published >>
  PROVE  Failure'
<1>0. SkipsActions' = SkipsActions /\ SkipsActions \in BOOLEAN
  BY DEF SkipsActions
<1>1. CASE job.pipeline = "ondemand" /\ ~postCrawlOpsCalled /\ ~preFailed
  <2>1. actions = "none" /\ published = << >> /\ postCalls = 0
    BY <1>1 DEF Flow, TypeOK
  <2>2. /\ status' = 0 /\ failureType' = reason
        /\ postCrawlOpsCalled' = TRUE /\ postCalls' = 1
        /\ published' = << >>
        /\ actions' = IF SkipsActions THEN "none" ELSE "spawned"
    BY <1>1, <2>1 DEF FailWorkflow, StartActions
  <2> QED BY <1>0, <2>2 DEF Failure
<1>2. CASE ~(job.pipeline = "ondemand" /\ ~postCrawlOpsCalled /\ ~preFailed)
  <2>1. /\ status' = 0 /\ failureType' = reason
        /\ UNCHANGED << postCrawlOpsCalled, postCalls, actions, data, published >>
    BY <1>2 DEF FailWorkflow
  <2> QED BY <1>0, <2>1 DEF Failure, Flow, TypeOK
<1> QED BY <1>1, <1>2

LEMMA FailureFlow ==
  ASSUME Failure', pc' \in Done, published' # << "SUCCESS" >>
  PROVE  Flow'
BY DEF Failure, Flow, Done

(* Before the report nothing has been published.                           *)
LEMMA Unpublished ==
  ASSUME TypeOK, Flow, pc \notin Done
  PROVE  published = << >> /\ actions = "none" /\ failureType = << >>
         /\ ~postCrawlOpsCalled /\ postCalls = 0
BY DEF TypeOK, Flow

(* An action of the executor before the report that fails with a code.     *)
LEMMA FailFlow ==
  ASSUME TypeOK, Flow, pc \notin Done, NEW code \in Codes, NEW preFailed \in BOOLEAN,
         FailWorkflow(<< code >>, preFailed), pc' = "report",
         UNCHANGED << job, data, published >>
  PROVE  Flow' /\ Failure' /\ failureType' = << code >>
<1>1. << code >> \in Seq(Codes) /\ << code >> # << >>
  BY OneCode
<1>2. Failure'
  BY <1>1, FailureType
<1>3. published' # << "SUCCESS" >>
  BY Unpublished
<1> QED BY <1>2, <1>3, FailureFlow DEF FailWorkflow, Done

LEMMA InitIInv == Init => IInv
<1> SUFFICES ASSUME Init PROVE IInv
  OBVIOUS
<1> USE DEF Init
<1>1. job \in [pipeline : Pipelines, dataSources : Seq(Names),
               mergeMode : {"CASCADE", "MERGE_ALL"},
               extractData : {0, 1}, useSearchWrapper : {0, 1},
               asRecrawl : BOOLEAN, badTask : BOOLEAN]
  BY JobsAssumption
<1>2. dataSources \in Seq(Names) /\ source \in 1..(Len(dataSources) + 1)
  BY <1>1
<1>3. result \in [code : SourceCodes, err : BOOLEAN] /\ ~result.err
  BY DEF Ok, SourceCodes
<1>4. data \in DataType /\ data.extractionDataSource = ""
  BY EmptyDataType
<1>5. TypeOK
  <2>1. << >> \in Seq(Codes)
        /\ << >> \in Seq(Codes \cup {"SUCCESS", "EXTRACTION FAILED", "LOST"})
    OBVIOUS
  <2> QED BY <1>2, <1>3, <1>4, <2>1 DEF TypeOK
<1>6. Stage
  BY DEF Stage
<1>7. Flow
  BY DEF Flow, Done
<1>8. Found
  BY <1>3, <1>4 DEF Found, Unnamed, ProductsOfNamedSource, VerdictIsFinal, IsVerdict
<1> QED BY <1>5, <1>6, <1>7, <1>8 DEF IInv

-----------------------------------------------------------------------------
(* The stages before the cascade.  Each action either continues with the   *)
(* next stage or fails with a code of its own.                             *)
Early == {"params", "preops", "domaininfo", "validate", "rdstore"}

(* What neither way of leaving an early stage changes.                     *)
KeptEarly == << job, cascade, published, crash >>

LEMMA EarlyContinue ==
  ASSUME IInv, pc \in Early, NEW stage \in Early \cup {"request", "merge_all"},
         Continue(stage), UNCHANGED KeptEarly, preCrawlOpsFailed' \in BOOLEAN,
         domainInfo' = {} \/ \E site \in SiteType : domainInfo' = {site},
         dataSources' \in Seq(Names), source' \in 1..(Len(dataSources') + 1), Stage'
  PROVE  IInv'
<1> USE DEF Early, Continue, outcome, cascade, KeptEarly
<1>1. TypeOK'
  BY DEF IInv, TypeOK
<1>2. Flow'
  <2>1. published = << >> /\ actions = "none" /\ failureType = << >>
        /\ ~postCrawlOpsCalled /\ postCalls = 0
    BY Unpublished DEF IInv, Done
  <2> QED BY <2>1 DEF Flow, Done
<1>3. Found'
  <2>1. Unnamed' = Unnamed /\ IsVerdict(result') = IsVerdict(result)
    BY DEF Unnamed, IsVerdict
  <2>2. Unnamed /\ ~result.err
    BY DEF IInv, Found
  <2>3. ProductsOfNamedSource'
    BY <2>1, <2>2 DEF ProductsOfNamedSource, Unnamed
  <2>4. VerdictIsFinal'
    BY <2>2 DEF VerdictIsFinal, IsVerdict
  <2> QED BY <2>1, <2>2, <2>3, <2>4 DEF Found
<1> QED BY <1>1, <1>2, <1>3 DEF IInv

LEMMA EarlyFail ==
  ASSUME IInv, pc \in Early, NEW code \in ExecutorCodes \cup {"NOT_PRODUCT_PAGE"},
         NEW preFailed \in BOOLEAN,
         FailWorkflow(<< code >>, preFailed), pc' = "report",
         UNCHANGED KeptEarly, preCrawlOpsFailed' \in BOOLEAN,
         domainInfo' = {} \/ \E site \in SiteType : domainInfo' = {site},
         UNCHANGED dataSources
  PROVE  IInv'
<1> USE DEF Early, cascade, KeptEarly
<1>1. code \in Codes
  BY DEF Codes, SourceCodes
<1>2. Flow' /\ Failure' /\ failureType' = << code >>
  BY <1>1, FailFlow DEF IInv, Done
<1>3. TypeOK'
  <2>1. postCalls' \in Nat
    BY <1>2 DEF Failure
  <2> QED BY <1>2, <2>1 DEF IInv, TypeOK, Failure
<1>4. Stage'
  BY DEF Stage
<1>5. Found'
  <2>1. ~result.err
    BY DEF IInv, Found
  <2>2. VerdictIsFinal'
    BY <2>1 DEF VerdictIsFinal, IsVerdict
  <2> QED BY <2>1, <2>2 DEF Found, ProductsOfNamedSource
<1> QED BY <1>2, <1>3, <1>4, <1>5 DEF IInv

LEMMA ParseStep == IInv /\ ParseJobParams => IInv'
<1> SUFFICES ASSUME IInv, ParseJobParams PROVE IInv'
  OBVIOUS
<1>1. /\ pc = "params" /\ domainInfo' = domainInfo /\ dataSources' = dataSources
      /\ preCrawlOpsFailed' = preCrawlOpsFailed /\ source' = source
      /\ UNCHANGED KeptEarly
  BY DEF ParseJobParams, At, KeptEarly, cascade
<1>2. TypeOK /\ Stage
  BY DEF IInv
<1>3. CASE Continue("preops")
  <2>1. Stage'
    BY <1>1, <1>2, <1>3 DEF Stage, Continue
  <2> QED BY <1>1, <1>2, <1>3, <2>1, EarlyContinue DEF TypeOK, Early
<1>4. CASE Fail("JOBPARAMS_READERR")
  <2>1. "JOBPARAMS_READERR" \in ExecutorCodes
    BY DEF ExecutorCodes
  <2> QED BY <1>1, <1>2, <1>4, <2>1, EarlyFail DEF TypeOK, Early, Fail
<1> QED BY <1>3, <1>4 DEF ParseJobParams

LEMMA PreOpsStep == IInv /\ PreCrawlOps => IInv'
<1> SUFFICES ASSUME IInv, PreCrawlOps PROVE IInv'
  OBVIOUS
<1>1. /\ pc = "preops" /\ domainInfo' = domainInfo /\ dataSources' = dataSources
      /\ source' = source /\ UNCHANGED KeptEarly
  BY DEF PreCrawlOps, At, KeptEarly, cascade
<1>2. TypeOK /\ Stage
  BY DEF IInv
<1>3. CASE job.pipeline = "ondemand" /\ job.badTask
  <2>1. "BAD_INPUT" \in ExecutorCodes
    BY DEF ExecutorCodes
  <2>2. preCrawlOpsFailed' = TRUE /\ FailWorkflow(<< "BAD_INPUT" >>, TRUE)
        /\ pc' = "report"
    BY <1>3 DEF PreCrawlOps
  <2> QED BY <1>1, <1>2, <2>1, <2>2, EarlyFail DEF TypeOK, Early
<1>4. CASE ~(job.pipeline = "ondemand" /\ job.badTask)
  <2>1. Continue("domaininfo") /\ preCrawlOpsFailed' = preCrawlOpsFailed
    BY <1>4 DEF PreCrawlOps
  <2>2. Stage'
    BY <1>1, <1>2, <2>1 DEF Stage, Continue
  <2> QED BY <1>1, <1>2, <2>1, <2>2, EarlyContinue DEF TypeOK, Early
<1> QED BY <1>3, <1>4

LEMMA DomainInfoStep == IInv /\ RetrieveDomainInfo => IInv'
<1> SUFFICES ASSUME IInv, RetrieveDomainInfo PROVE IInv'
  OBVIOUS
<1>1. /\ pc = "domaininfo" /\ source' = source
      /\ preCrawlOpsFailed' = preCrawlOpsFailed /\ UNCHANGED KeptEarly
  BY DEF RetrieveDomainInfo, At, KeptEarly, cascade
<1>2. TypeOK /\ Stage
  BY DEF IInv
<1>3. PICK site \in Sites : domainInfo' = {site}
  BY DEF RetrieveDomainInfo
<1>4. site \in SiteType
  BY <1>3, SitesAssumption
<1>5. CASE Fail("RETRIEVE_DOMAIN_INFO_FAIL") /\ UNCHANGED dataSources
  <2>1. "RETRIEVE_DOMAIN_INFO_FAIL" \in ExecutorCodes
    BY DEF ExecutorCodes
  <2> QED BY <1>1, <1>2, <1>3, <1>4, <1>5, <2>1, EarlyFail DEF TypeOK, Early, Fail
<1>6. CASE /\ Continue("validate")
           /\ IF dataSources # << >>
                THEN UNCHANGED dataSources
                ELSE dataSources' \in IF job.pipeline \in Realtime
                                        THEN SourcesInRedis
                                        ELSE {<< "WRAPPER" >>}
  <2>1. dataSources' \in Seq(Names) /\ Len(dataSources') >= 1
    <3>1. CASE dataSources # << >>
      <4>1. dataSources \in Seq(Names) /\ dataSources' = dataSources
        BY <1>2, <1>6, <3>1 DEF TypeOK
      <4> QED BY <3>1, <4>1
    <3>2. CASE dataSources = << >>
      <4>1. dataSources' \in {<< "WRAPPER" >>, << "M101" >>, << "WRAPPER", "AMAZON" >>}
        BY <1>6, <3>2 DEF SourcesInRedis
      <4>2. "WRAPPER" \in Names /\ "M101" \in Names /\ "AMAZON" \in Names
        BY DEF Names, SourceNames
      <4>3. ASSUME NEW s \in Names, NEW t \in Names
            PROVE  /\ << s >> \in Seq(Names) /\ Len(<< s >>) = 1
                   /\ << s, t >> \in Seq(Names) /\ Len(<< s, t >>) = 2
        <5>1. << s >> \in Seq(Names) /\ Len(<< s >>) = 1
          OBVIOUS
        <5>2. << s, t >> \in Seq(Names) /\ Len(<< s, t >>) = 2
          OBVIOUS
        <5> QED BY <5>1, <5>2
      <4>4. CASE dataSources' \in {<< "WRAPPER" >>, << "M101" >>}
        <5>1. PICK s \in {"WRAPPER", "M101"} : dataSources' = << s >>
          BY <4>4
        <5>2. s \in Names
          BY <4>2
        <5> QED BY <4>3, <5>1, <5>2
      <4>5. CASE dataSources' = << "WRAPPER", "AMAZON" >>
        BY <4>2, <4>3, <4>5
      <4> QED BY <4>1, <4>4, <4>5
    <3> QED BY <3>1, <3>2
  <2>2. Continue("validate")
    BY <1>6
  <2>3. source = 1 /\ source' = 1
    BY <1>1, <1>2 DEF Stage
  <2>4. source' \in 1..(Len(dataSources') + 1) /\ source' <= Len(dataSources')
    <3>1. Len(dataSources') \in Nat
      BY <2>1
    <3> QED BY <2>1, <2>3, <3>1
  <2>5. Stage'
    BY <1>3, <2>2, <2>4 DEF Stage, Continue
  <2>6. preCrawlOpsFailed' \in BOOLEAN
    BY <1>1, <1>2 DEF TypeOK
  <2> QED BY <1>1, <1>3, <1>4, <2>1, <2>2, <2>4, <2>5, <2>6, EarlyContinue DEF Early
<1> QED BY <1>5, <1>6 DEF RetrieveDomainInfo

LEMMA ValidateStep == IInv /\ ValidateDomainInfo => IInv'
<1> SUFFICES ASSUME IInv, ValidateDomainInfo PROVE IInv'
  OBVIOUS
<1>1. /\ pc = "validate" /\ source' = source /\ UNCHANGED KeptEarly
      /\ domainInfo' = domainInfo /\ dataSources' = dataSources
      /\ preCrawlOpsFailed' = preCrawlOpsFailed
  BY DEF ValidateDomainInfo, At, KeptEarly, cascade
<1>2. TypeOK /\ Stage
  BY DEF IInv
<1> DEFINE code == IF job.pipeline \in Realtime THEN RealtimeCode ELSE SupervisedCode
<1>3. code = "" \/ code \in ExecutorCodes \cup {"NOT_PRODUCT_PAGE"}
  <2>1. RealtimeCode \in {"", "NOT_SEARCH_PAGE", "DOMAININFO_SEARCH_WRAPPERID_EMPTY",
                         "NOT_PRODUCT_PAGE"}
    BY DEF RealtimeCode
  <2>2. SupervisedCode \in {"", "NO_SITEDETAIL", "SITE_STATUS_CHECK_FAILED"}
    BY DEF SupervisedCode
  <2> QED BY <2>1, <2>2 DEF ExecutorCodes
<1>4. IF code = "" THEN Continue("rdstore") ELSE Fail(code)
  BY DEF ValidateDomainInfo
<1> HIDE DEF code
<1>5. CASE code = ""
  <2>1. Continue("rdstore")
    BY <1>4, <1>5
  <2>2. Stage'
    BY <1>1, <1>2, <2>1 DEF Stage, Continue
  <2> QED BY <1>1, <1>2, <2>1, <2>2, EarlyContinue DEF TypeOK, Early
<1>6. CASE code # ""
  BY <1>1, <1>2, <1>3, <1>4, <1>6, EarlyFail DEF TypeOK, Early, Fail
<1> QED BY <1>5, <1>6

LEMMA RdstoreStep == IInv /\ ReadRdstore => IInv'
<1> SUFFICES ASSUME IInv, ReadRdstore PROVE IInv'
  OBVIOUS
<1>1. /\ pc = "rdstore" /\ source' = source /\ UNCHANGED KeptEarly
      /\ domainInfo' = domainInfo /\ dataSources' = dataSources
      /\ preCrawlOpsFailed' = preCrawlOpsFailed
  BY DEF ReadRdstore, At, KeptEarly, cascade
<1>2. TypeOK /\ Stage
  BY DEF IInv
<1>3. \/ \E stage \in {"request", "merge_all"} : Continue(stage)
      \/ \E code \in {"RDSTORE_READ_FAIL", "RDSTORE_DATA_MISSING_EARLY"} : Fail(code)
  BY DEF ReadRdstore
<1>4. CASE \E stage \in {"request", "merge_all"} : Continue(stage)
  <2>1. PICK stage \in {"request", "merge_all"} : Continue(stage)
    BY <1>4
  <2>2. Stage'
    BY <1>1, <1>2, <2>1 DEF Stage, Continue
  <2> QED BY <1>1, <1>2, <2>1, <2>2, EarlyContinue DEF TypeOK, Early
<1>5. CASE \E code \in {"RDSTORE_READ_FAIL", "RDSTORE_DATA_MISSING_EARLY"} : Fail(code)
  <2>1. PICK code \in {"RDSTORE_READ_FAIL", "RDSTORE_DATA_MISSING_EARLY"} : Fail(code)
    BY <1>5
  <2>2. code \in ExecutorCodes
    BY DEF ExecutorCodes
  <2> QED BY <1>1, <1>2, <2>1, <2>2, EarlyFail DEF TypeOK, Early, Fail
<1> QED BY <1>3, <1>4, <1>5

-----------------------------------------------------------------------------
(* The cascade.  What a call of Request or Extract settles, whichever way  *)
(* the loop goes on.                                                       *)
KeptByLoop == << job, dataSources, failureType, preCrawlOpsFailed,
                 postCrawlOpsCalled, postCalls, actions, published, crash >>

LEMMA SourceName ==
  ASSUME TypeOK, Stage, pc \in {"request", "extract"}
  PROVE  /\ domainInfo # {}
         /\ source \in 1..Len(dataSources)
         /\ dataSources[source] \in Names
<1>1. domainInfo # {} /\ source <= Len(dataSources)
  BY DEF Stage
<1>2. dataSources \in Seq(Names) /\ source \in 1..(Len(dataSources) + 1)
  BY DEF TypeOK
<1>3. source \in 1..Len(dataSources)
  BY <1>1, <1>2
<1> QED BY <1>1, <1>2, <1>3

LEMMA LoopType ==
  ASSUME IInv, pc \in {"request", "extract"}, NEW o \in Unlabelled, Assign(o),
         UNCHANGED KeptByLoop, pc' \in {"merged", "extract", "request"},
         source' \in 1..(Len(dataSources) + 1), data' \in DataType,
         pc' # "merged" => source' <= Len(dataSources)
  PROVE  TypeOK' /\ Stage' /\ Flow'
<1>1. domainInfo # {}
  BY SourceName DEF IInv
<1>2. Site \in SiteType
  BY <1>1, NowType DEF IInv
<1>3. /\ o.result \in [code : SourceCodes, err : BOOLEAN]
      /\ o.page \in Pages \cup {"none"} /\ o.status \in {0, 1}
      /\ o.isProductUrl \in BOOLEAN
  BY DEF Unlabelled, Outcome
<1>4. [Site EXCEPT !.isProductUrl = o.isProductUrl] \in SiteType
  BY <1>2, <1>3 DEF SiteType
<1>5. \E site \in SiteType : domainInfo' = {site}
  BY <1>4 DEF Assign
<1>6. /\ result' \in [code : SourceCodes, err : BOOLEAN]
      /\ webResponse' \in Pages \cup {"none"} /\ status' \in {0, 1}
  BY <1>3 DEF Assign
<1>7. TypeOK'
  BY <1>5, <1>6 DEF IInv, TypeOK, KeptByLoop
<1>8. Stage'
  BY <1>5 DEF Stage, KeptByLoop
<1>9. Flow'
  <2>1. published = << >> /\ actions = "none" /\ failureType = << >>
        /\ ~postCrawlOpsCalled /\ postCalls = 0
    BY Unpublished DEF IInv, Done
  <2> QED BY <2>1 DEF Flow, Done, KeptByLoop
<1> QED BY <1>7, <1>8, <1>9

(* A source with a verdict ends the cascade with it.                       *)
LEMMA VerdictStep ==
  ASSUME IInv, pc \in {"request", "extract"}, NEW o \in Unlabelled, Assign(o),
         UNCHANGED KeptByLoop, EndWithVerdict(o)
  PROVE  IInv'
<1>1. o.data \in DataType /\ o.data.extractionDataSource = ""
      /\ o.result \in [code : SourceCodes, err : BOOLEAN]
  BY DEF Unlabelled, Outcome
<1>2. /\ data' = [o.data EXCEPT !.code = o.result.code, !.status = 0]
      /\ pc' = "merged" /\ source' = source /\ result' = o.result
  BY DEF EndWithVerdict, Assign
<1>3. /\ data' \in DataType /\ data'.extractionDataSource = ""
      /\ data'.status = 0 /\ data'.code = result'.code
  BY <1>1, <1>2 DEF DataType
<1>4. source' \in 1..(Len(dataSources) + 1)
  BY <1>2 DEF IInv, TypeOK
<1>5. TypeOK' /\ Stage' /\ Flow'
  BY <1>2, <1>3, <1>4, LoopType
<1>6. Found'
  <2>1. ProductsOfNamedSource' /\ VerdictIsFinal'
    BY <1>2, <1>3 DEF ProductsOfNamedSource, VerdictIsFinal
  <2> QED BY <1>2, <2>1 DEF Found
<1> QED BY <1>5, <1>6 DEF IInv

(* A source without a verdict and without products is followed by the next.*)
LEMMA NextSourceStep ==
  ASSUME IInv, pc \in {"request", "extract"}, NEW o \in Unlabelled, Assign(o),
         UNCHANGED KeptByLoop, ~IsVerdict(o.result), NextSource(o)
  PROVE  IInv'
<1>1. o.data \in DataType /\ o.data.extractionDataSource = ""
  BY DEF Unlabelled, Outcome
<1>2. /\ data' = o.data /\ source' = source + 1 /\ result' = o.result
      /\ pc' = IF source < Len(dataSources) THEN "request" ELSE "merged"
  BY DEF NextSource, Assign
<1>3. source \in 1..Len(dataSources) /\ Len(dataSources) \in Nat
  <2>1. dataSources \in Seq(Names)
    BY DEF IInv, TypeOK
  <2>2. source \in 1..Len(dataSources)
    BY SourceName DEF IInv
  <2> QED BY <2>1, <2>2
<1>4. source' \in 1..(Len(dataSources) + 1) /\ pc' \in {"merged", "request"}
      /\ (pc' # "merged" => source' <= Len(dataSources))
  BY <1>2, <1>3
<1>5. TypeOK' /\ Stage' /\ Flow'
  BY <1>1, <1>2, <1>4, LoopType
<1>6. Found'
  <2>1. Unnamed' /\ ~IsVerdict(result')
    BY <1>1, <1>2 DEF Unnamed
  <2>2. ProductsOfNamedSource' /\ VerdictIsFinal'
    BY <2>1 DEF ProductsOfNamedSource, VerdictIsFinal, Unnamed
  <2> QED BY <1>4, <2>1, <2>2 DEF Found
<1> QED BY <1>5, <1>6 DEF IInv

LEMMA RequestStep == IInv /\ Request => IInv'
<1> SUFFICES ASSUME IInv, Request PROVE IInv'
  OBVIOUS
<1>1. pc = "request" /\ UNCHANGED KeptByLoop
  BY DEF Request, At, KeptByLoop
<1>2. /\ domainInfo # {} /\ dataSources[source] \in Names
      /\ source \in 1..Len(dataSources)
  BY <1>1, SourceName DEF IInv
<1>3. Unnamed /\ TypeOK
  BY <1>1 DEF IInv, Found
<1>4. PICK o \in Requests(dataSources[source]) :
        /\ Assign(o)
        /\ \/ EndWithVerdict(o)
           \/ /\ ~o.result.err /\ o.canExtract
              /\ data' = o.data
              /\ pc' = "extract"
              /\ UNCHANGED source
           \/ /\ ~IsVerdict(o.result)
              /\ o.result.err \/ ~o.canExtract
              /\ NextSource(o)
  BY DEF Request
<1>5. /\ o \in Unlabelled
      /\ ~o.result.err /\ o.canExtract
           /\ dataSources[source] \notin {"WRAPPER", "UNSUPERVISED"}
         => o.data.products = dataSources[source]
  BY <1>2, <1>3, RequestsType
<1>6. CASE EndWithVerdict(o)
  BY <1>1, <1>4, <1>5, <1>6, VerdictStep
<1>7. CASE ~IsVerdict(o.result) /\ NextSource(o)
  BY <1>1, <1>4, <1>5, <1>7, NextSourceStep
<1>8. CASE /\ ~o.result.err /\ o.canExtract
           /\ data' = o.data
           /\ pc' = "extract"
           /\ UNCHANGED source
  <2>1. /\ data' \in DataType /\ Unnamed' /\ result' = o.result
        /\ dataSources' = dataSources
    BY <1>1, <1>4, <1>5, <1>8 DEF Unlabelled, Outcome, Unnamed, Assign, KeptByLoop
  <2>2. source' \in 1..(Len(dataSources) + 1) /\ source' <= Len(dataSources)
    BY <1>2, <1>8
  <2>3. TypeOK' /\ Stage' /\ Flow'
    BY <1>1, <1>4, <1>5, <1>8, <2>1, <2>2, LoopType
  <2>4. Filled(dataSources[source])'
    BY <1>5, <1>8, <2>1 DEF Filled
  <2>5. ProductsOfNamedSource' /\ VerdictIsFinal'
    BY <1>8, <2>1 DEF ProductsOfNamedSource, VerdictIsFinal, IsVerdict
  <2>6. Found'
    BY <1>8, <2>1, <2>4, <2>5 DEF Found
  <2> QED BY <2>3, <2>6 DEF IInv
<1> QED BY <1>4, <1>6, <1>7, <1>8

LEMMA ExtractStep == IInv /\ Extract => IInv'
<1> SUFFICES ASSUME IInv, Extract PROVE IInv'
  OBVIOUS
<1> DEFINE name == dataSources[source]
<1>1. pc = "extract" /\ UNCHANGED KeptByLoop
  BY DEF Extract, At, KeptByLoop
<1>2. domainInfo # {} /\ name \in Names /\ source \in 1..Len(dataSources)
  BY <1>1, SourceName DEF IInv
<1>3. Unnamed /\ TypeOK /\ Filled(name)
  BY <1>1 DEF IInv, Found
<1>4. PICK o \in Extracts(name) :
        /\ Assign(o)
        /\ \/ EndWithVerdict(o)
           \/ /\ ~o.result.err /\ o.data.products # "none"
              /\ data' = [o.data EXCEPT !.extractionDataSource = name]
              /\ pc' = "merged"
              /\ UNCHANGED source
           \/ /\ ~IsVerdict(o.result)
              /\ o.result.err \/ o.data.products = "none"
              /\ NextSource(o)
  BY DEF Extract
<1> HIDE DEF name
<1>5. o \in Unlabelled /\ (~o.result.err => o.data.products \in {"none", name})
  BY <1>2, <1>3, ExtractsType
<1>6. CASE EndWithVerdict(o)
  BY <1>1, <1>4, <1>5, <1>6, VerdictStep
<1>7. CASE ~IsVerdict(o.result) /\ NextSource(o)
  BY <1>1, <1>4, <1>5, <1>7, NextSourceStep
<1>8. CASE /\ ~o.result.err /\ o.data.products # "none"
           /\ data' = [o.data EXCEPT !.extractionDataSource = name]
           /\ pc' = "merged"
           /\ UNCHANGED source
  <2>1. o.data \in DataType /\ o.data.products = name
    BY <1>5, <1>8 DEF Unlabelled, Outcome
  <2>2. /\ data' \in DataType /\ data'.products = name
        /\ data'.extractionDataSource = name /\ result' = o.result
    BY <1>2, <1>4, <1>8, <2>1 DEF DataType, Assign
  <2>3. source' \in 1..(Len(dataSources) + 1)
    BY <1>2, <1>8 DEF IInv, TypeOK
  <2>4. TypeOK' /\ Stage' /\ Flow'
    BY <1>1, <1>4, <1>5, <1>8, <2>2, <2>3, LoopType
  <2>5. ProductsOfNamedSource' /\ VerdictIsFinal'
    BY <1>8, <2>2 DEF ProductsOfNamedSource, VerdictIsFinal, IsVerdict
  <2>6. Found'
    BY <1>8, <2>5 DEF Found
  <2> QED BY <2>4, <2>6 DEF IInv
<1> QED BY <1>4, <1>6, <1>7, <1>8

LEMMA DiesStep == IInv /\ SourceDies => IInv'
<1> SUFFICES ASSUME IInv, SourceDies PROVE IInv'
  OBVIOUS
<1>1. /\ crash' = "source"
      /\ UNCHANGED << job, pc, domainInfo, dataSources, cascade, outcome,
                      preCrawlOpsFailed, published >>
  BY DEF SourceDies
<1>2. TypeOK'
  <2>1. TypeOK
    BY DEF IInv
  <2> QED BY ONLY <1>1, <2>1, ZenonT(40) DEF TypeOK, cascade, outcome
<1>3. Stage' /\ Flow'
  BY <1>1 DEF IInv, Stage, Flow, SkipsActions, cascade, outcome
<1>4. Found'
  BY <1>1 DEF IInv, Found, Unnamed, Filled, ProductsOfNamedSource, VerdictIsFinal,
              IsVerdict, cascade, outcome
<1> QED BY <1>2, <1>3, <1>4 DEF IInv

-----------------------------------------------------------------------------
(* The end of the merge, the actions after the crawl and the report.       *)
LEMMA MergeAllStep == IInv /\ MergeAll => IInv'
<1> SUFFICES ASSUME IInv, MergeAll PROVE IInv'
  OBVIOUS
<1>1. /\ pc = "merge_all" /\ pc' = "merged"
      /\ UNCHANGED << job, domainInfo, dataSources, source, result,
                      preCrawlOpsFailed, published, crash >>
      /\ UNCHANGED outcome
  BY DEF MergeAll, At, Continue
<1>2. data' \in DataType /\ data'.extractionDataSource = ""
  <2> DEFINE D == [status : {0, 1}, code : {""},
                   products : {"none"} \cup {dataSources[i] : i \in DOMAIN dataSources},
                   engine : {"", "WRAPPER", "UNSUPERVISED", "DIFFBOT"}, links : BOOLEAN,
                   extractionDataSource : {""}]
  <2>1. data' \in D
    BY DEF MergeAll
  <2>2. \A i \in DOMAIN dataSources : dataSources[i] \in Names
    <3>1. dataSources \in Seq(Names)
      BY DEF IInv, TypeOK
    <3> QED BY <3>1
  <2>3. "" \in SourceCodes
    BY DEF SourceCodes
  <2> QED BY <2>1, <2>2, <2>3 DEF DataType
<1>3. webResponse' \in Pages \cup {"none"}
  BY DEF MergeAll
<1>4. TypeOK'
  BY <1>1, <1>2, <1>3 DEF IInv, TypeOK, outcome
<1>5. Stage'
  BY <1>1 DEF IInv, Stage
<1>6. Flow'
  <2>1. published = << >> /\ actions = "none" /\ failureType = << >>
        /\ ~postCrawlOpsCalled /\ postCalls = 0
    BY <1>1, Unpublished DEF IInv, Done
  <2> QED BY <1>1, <2>1 DEF Flow, Done, outcome
<1>7. Found'
  <2>1. ~result'.err
    BY <1>1 DEF IInv, Found
  <2>2. ProductsOfNamedSource' /\ VerdictIsFinal'
    BY <1>2, <2>1 DEF ProductsOfNamedSource, VerdictIsFinal, IsVerdict
  <2> QED BY <1>1, <2>2 DEF Found
<1> QED BY <1>4, <1>5, <1>6, <1>7 DEF IInv

LEMMA EndMergeStep == IInv /\ EndMerge => IInv'
<1> SUFFICES ASSUME IInv, EndMerge PROVE IInv'
  OBVIOUS
<1>1. /\ pc = "merged"
      /\ UNCHANGED << job, domainInfo, dataSources, source, result, webResponse,
                      data, preCrawlOpsFailed, published, crash >>
  BY DEF EndMerge, At, cascade
<1>2. result \in [code : SourceCodes, err : BOOLEAN] /\ preCrawlOpsFailed \in BOOLEAN
  BY DEF IInv, TypeOK
<1>3. /\ Unnamed' = Unnamed /\ SkipsActions' = SkipsActions
      /\ IsVerdict(result)' = IsVerdict(result)
      /\ IsVerdict(result) => data.status = 0 /\ data.code = result.code
  BY <1>1 DEF Unnamed, SkipsActions, IsVerdict, IInv, Found, VerdictIsFinal
<1>4. CASE result.err /\ Fail(result.code)
  <2>1. result.code \in Codes
    BY <1>2 DEF Codes
  <2>2. FailWorkflow(<< result.code >>, preCrawlOpsFailed) /\ pc' = "report"
    BY <1>4 DEF Fail
  <2>3. Flow' /\ Failure' /\ failureType' = << result.code >>
    BY <1>1, <1>2, <2>1, <2>2, FailFlow DEF IInv, Done
  <2>4. postCalls' \in Nat
    BY <2>3 DEF Failure
  <2>5. TypeOK'
    BY <1>1, <2>2, <2>3, <2>4 DEF IInv, TypeOK, Failure
  <2>6. Stage'
    BY <1>1, <2>2 DEF Stage
  <2>7. Found'
    BY <1>1, <2>2, <2>3 DEF Found, ProductsOfNamedSource, VerdictIsFinal
  <2> QED BY <2>3, <2>5, <2>6, <2>7 DEF IInv
<1>5. CASE /\ ~result.err
           /\ status' = 1
           /\ pc' = "postops"
           /\ UNCHANGED << failureType, postCrawlOpsCalled, postCalls, actions >>
  <2>1. TypeOK'
    BY <1>1, <1>5 DEF IInv, TypeOK
  <2>2. Stage'
    BY <1>1, <1>5 DEF IInv, Stage
  <2>3. Flow'
    <3>1. published = << >> /\ actions = "none" /\ failureType = << >>
          /\ ~postCrawlOpsCalled /\ postCalls = 0
      BY <1>1, Unpublished DEF IInv, Done
    <3> QED BY <1>1, <1>5, <3>1 DEF Flow, Done
  <2>4. ProductsOfNamedSource'
    BY <1>1, <1>5 DEF IInv, Found, ProductsOfNamedSource
  <2>5. VerdictIsFinal'
    BY <1>1, <1>5 DEF VerdictIsFinal, IsVerdict
  <2>6. Found'
    BY <1>5, <2>4, <2>5 DEF Found
  <2> QED BY <2>1, <2>2, <2>3, <2>6 DEF IInv
<1> QED BY <1>4, <1>5 DEF EndMerge

LEMMA ActionDataType ==
  ASSUME TypeOK, NEW d \in ActionData
  PROVE  d \in DataType /\ d.extractionDataSource = data.extractionDataSource
<1>1. data \in DataType
  BY DEF TypeOK
<1>2. ASSUME NEW p \in Names \cup {"none", "rdstore"}, NEW some \in BOOLEAN
      PROVE  /\ Left(p, some) \in DataType
             /\ Left(p, some).extractionDataSource = data.extractionDataSource
  BY <1>1 DEF Left, DataType
<1>3. data.products \in Names \cup {"none", "rdstore"} /\ data.links \in BOOLEAN
  BY <1>1 DEF DataType
<1>4. ActionProducts \subseteq Names \cup {"none", "rdstore"}
  BY <1>3 DEF ActionProducts
<1>5. ActionLinks \subseteq BOOLEAN
  BY <1>3 DEF ActionLinks
<1>6. PICK p \in ActionProducts, some \in ActionLinks : d = Left(p, some)
  BY DEF ActionData
<1> QED BY <1>2, <1>4, <1>5, <1>6

LEMMA PostOpsStep == IInv /\ PostCrawlOps => IInv'
<1> SUFFICES ASSUME IInv, PostCrawlOps PROVE IInv'
  OBVIOUS
<1>1. /\ pc = "postops" /\ pc' = "report"
      /\ postCalls' = postCalls + 1 /\ postCrawlOpsCalled' = TRUE
      /\ data' \in ActionData
      /\ UNCHANGED << job, domainInfo, dataSources, source, result,
                      preCrawlOpsFailed, published, crash >>
  BY DEF PostCrawlOps, At
<1>2. published = << >> /\ actions = "none" /\ failureType = << >> /\ postCalls = 0
      /\ status = 1
  BY <1>1, Unpublished DEF IInv, Done, Flow
<1>3. data' \in DataType /\ SkipsActions' = SkipsActions
  BY <1>1, ActionDataType DEF IInv, SkipsActions
<1>4. actions' \in {"none", "spawned"} /\ (actions' # "none" => ~SkipsActions)
  BY <1>2 DEF PostCrawlOps, StartActions
<1>5. \/ status' = 1 /\ failureType' = << >>
      \/ status' = 0 /\ failureType' \in Seq(Codes) /\ failureType' # << >>
  <2>1. PICK code \in ActionCodes :
          IF code = "" THEN UNCHANGED << status, failureType >>
                       ELSE status' = 0 /\ failureType' = << code >>
    BY DEF PostCrawlOps
  <2>2. CASE code = ""
    BY <1>2, <2>1, <2>2
  <2>3. CASE code # ""
    <3>1. code \in {"RDSTORE_DATA_MISSING", "RDSTORE_WRITE_FAILED", "ETL_PUBLISH_FAILED",
                    "VALIDATE_DATA_FAIL", "MONGO_CONNECTION_MISSING",
                    "MONGO_WRITE_FAILED"}
      BY <2>3 DEF ActionCodes
    <3>2. code \in Codes
      BY <3>1 DEF Codes, ExecutorCodes
    <3> QED BY <2>1, <2>3, <3>2, OneCode
  <2> QED BY <2>2, <2>3
<1>6. TypeOK'
  <2>1. << >> \in Seq(Codes)
    OBVIOUS
  <2>2. failureType' \in Seq(Codes) /\ status' \in {0, 1}
    BY <1>5, <2>1
  <2>3. postCalls' \in Nat
    BY <1>1, <1>2
  <2>4. webResponse' \in Pages \cup {"none"}
    BY DEF IInv, TypeOK, PostCrawlOps, PagesLeft
  <2> QED BY <1>1, <1>3, <1>4, <2>2, <2>3, <2>4 DEF IInv, TypeOK
<1>7. Stage'
  BY <1>1 DEF Stage
<1>8. Flow'
  BY <1>1, <1>2, <1>3, <1>4, <1>5 DEF Flow, Done
<1>9. Found'
  <2>1. ~IsVerdict(result)
    BY <1>1 DEF IInv, Found, VerdictIsFinal
  <2>2. VerdictIsFinal'
    BY <1>1, <2>1 DEF VerdictIsFinal, IsVerdict
  <2> QED BY <1>1, <2>2 DEF Found, ProductsOfNamedSource
<1> QED BY <1>6, <1>7, <1>8, <1>9 DEF IInv

(* TransformError gives reasons.                                           *)
LEMMA TransformType ==
  ASSUME NEW reason \in Seq(Codes), reason # << >>, NEW r \in TransformError(reason)
  PROVE  r \in Seq(Codes) /\ r # << >>
<1>1. \A code \in Codes : << code >> \in Seq(Codes) /\ << code >> # << >>
  BY OneCode
<1>2. /\ "REALTIME" \in Codes /\ "UNREACHABLE" \in Codes
      /\ "EXTRACTION_RPC_TIMEOUT" \in Codes /\ "RDSTORE_READ_TIMEOUT" \in Codes
      /\ "RDSTORE_WRITE_TIMEOUT" \in Codes
  BY DEF Codes, TransformedCodes
<1>3. "DOMAIN_NOT_SUPPORTED" \in Codes /\ "SITE_STATUS_CHECK_FAILED" \in Codes
  BY DEF Codes, SourceCodes, ExecutorCodes
<1>4. CASE job.pipeline \in Realtime
  <2> DEFINE told == RealtimeReason(reason)
  <2>1. r = << "REALTIME" >> \o told
    BY <1>4 DEF TransformError, Realtime
  <2>2. told \in Seq(Codes)
    BY <1>1, <1>2, <1>3 DEF RealtimeReason
  <2> HIDE DEF told
  <2>3. << "REALTIME" >> \in Seq(Codes) /\ Len(<< "REALTIME" >>) = 1
    BY <1>1, <1>2
  <2>4. r \in Seq(Codes) /\ Len(r) = 1 + Len(told)
    BY <2>1, <2>2, <2>3, ConcatProperties
  <2>5. Len(told) \in Nat
    BY <2>2
  <2>6. Len(<< >>) = 0
    OBVIOUS
  <2> QED BY <2>4, <2>5, <2>6
<1>5. CASE job.pipeline \notin Realtime
  <2>1. r \in {reason, << "EXTRACTION_RPC_TIMEOUT" >>, << "SITE_STATUS_CHECK_FAILED" >>,
               << "RDSTORE_READ_TIMEOUT" >>, << "RDSTORE_WRITE_TIMEOUT" >>}
    BY <1>5 DEF TransformError, RdstoreTimeout
  <2> QED BY <1>1, <1>2, <1>3, <2>1
<1> QED BY <1>4, <1>5

LEMMA ReportStep == IInv /\ Report => IInv'
<1> SUFFICES ASSUME IInv, Report PROVE IInv'
  OBVIOUS
<1>1. /\ pc = "report" /\ pc' = "sent"
      /\ UNCHANGED << job, domainInfo, dataSources, source, result, webResponse, data,
                      preCrawlOpsFailed, published, crash >>
  BY DEF Report, At, cascade
<1>2. Stage'
  BY <1>1 DEF Stage
<1>3. Found'
  BY <1>1 DEF Found, ProductsOfNamedSource, VerdictIsFinal
<1>4. CASE failureType = << >>
  <2>1. UNCHANGED outcome
    BY <1>4 DEF Report
  <2>2. TypeOK'
    BY <1>1, <2>1 DEF IInv, TypeOK, outcome
  <2>3. Flow'
    BY <1>1, <2>1 DEF IInv, Flow, Done, SkipsActions, outcome
  <2> QED BY <1>2, <1>3, <2>2, <2>3 DEF IInv
<1>5. CASE failureType # << >>
  <2>1. PICK reason \in TransformError(failureType) :
          FailWorkflow(reason, preCrawlOpsFailed)
    BY <1>5 DEF Report
  <2>2. reason \in Seq(Codes) /\ reason # << >>
    BY <1>5, <2>1, TransformType DEF IInv, TypeOK
  <2>3. preCrawlOpsFailed \in BOOLEAN
    BY DEF IInv, TypeOK
  <2>4. Failure'
    BY <1>1, <2>1, <2>2, <2>3, FailureType DEF IInv
  <2>5. published' # << "SUCCESS" >>
    BY <1>1, <1>5 DEF IInv, Flow, Done
  <2>6. Flow'
    BY <1>1, <2>4, <2>5, FailureFlow DEF Done
  <2>7. postCalls' \in Nat
    BY <2>4 DEF Failure
  <2>8. TypeOK'
    BY <1>1, <2>4, <2>7 DEF IInv, TypeOK, Failure
  <2> QED BY <1>2, <1>3, <2>6, <2>8 DEF IInv
<1> QED BY <1>4, <1>5

LEMMA SeqWider ==
  ASSUME NEW S, NEW T, S \subseteq T
  PROVE  /\ \A s \in Seq(S) : s \in Seq(T)
         /\ \A c \in T : << c >> \in Seq(T)
         /\ \A c : << c >> \in Seq(S) => c \in S
<1>1. \A s \in Seq(S) : s \in Seq(T)
  OBVIOUS
<1>2. \A c \in T : << c >> \in Seq(T)
  OBVIOUS
<1>3. ASSUME NEW c, << c >> \in Seq(S) PROVE c \in S
  <2> DEFINE s == << c >>
  <2>1. s \in Seq(S) /\ Len(s) = 1 /\ s[1] = c
    BY <1>3
  <2> HIDE DEF s
  <2>2. 1 \in 1..Len(s)
    BY <2>1
  <2>3. s[1] \in S
    BY <2>1, <2>2, ElementOfSeq
  <2> QED BY <2>1, <2>3
<1> QED BY <1>1, <1>2, <1>3

LEMMA PublishedType ==
  ASSUME TypeOK
  PROVE  /\ PublishedStatus \in Seq(Codes \cup {"SUCCESS", "EXTRACTION FAILED", "LOST"})
         /\ PublishedStatus = << "SUCCESS" >> => status = 1 /\ data.products # "none"
<1> DEFINE Told == Codes \cup {"SUCCESS", "EXTRACTION FAILED", "LOST"}
<1>1. Codes \subseteq Told /\ "SUCCESS" \in Told /\ "EXTRACTION FAILED" \in Told
  OBVIOUS
<1>2. failureType \in Seq(Codes)
  BY DEF TypeOK
<1>3. "SUCCESS" \notin Codes
  BY DEF Codes, ExecutorCodes, SourceCodes, TransformedCodes
<1>4. failureType # << "SUCCESS" >>
  BY <1>2, <1>3, SeqWider
<1> HIDE DEF Told
<1>5. failureType \in Seq(Told) /\ << "SUCCESS" >> \in Seq(Told)
      /\ << "EXTRACTION FAILED" >> \in Seq(Told)
  BY <1>1, <1>2, SeqWider
<1>6. << "EXTRACTION FAILED" >> # << "SUCCESS" >>
  OBVIOUS
<1>7. \/ PublishedStatus = << "EXTRACTION FAILED" >>
      \/ PublishedStatus = << "SUCCESS" >> /\ status = 1 /\ data.products # "none"
      \/ PublishedStatus = failureType
  BY DEF PublishedStatus
<1> QED BY <1>4, <1>5, <1>6, <1>7 DEF Told

LEMMA PublishStep == IInv /\ OnDemandCrawlActions => IInv'
<1> SUFFICES ASSUME IInv, OnDemandCrawlActions PROVE IInv'
  OBVIOUS
<1>1. /\ actions = "spawned"
      /\ UNCHANGED << job, pc, domainInfo, dataSources, cascade, status, failureType,
                      postCrawlOpsCalled, postCalls, preCrawlOpsFailed >>
  BY DEF OnDemandCrawlActions
<1>2. /\ actions' \in {"spawned", "done"}
      /\ \/ UNCHANGED published
         \/ actions' = "done" /\ published' \in {PublishedStatus, << "LOST" >>}
      /\ crash' \in {"none", "panic"}
  BY <1>1 DEF OnDemandCrawlActions
<1>3. published = << >>
  BY <1>1 DEF IInv, Flow
<1>4. /\ published' \in Seq(Codes \cup {"SUCCESS", "EXTRACTION FAILED", "LOST"})
      /\ published' = << "SUCCESS" >> => status = 1 /\ data.products # "none"
  <2>1. << >> \in Seq(Codes \cup {"SUCCESS", "EXTRACTION FAILED", "LOST"})
        /\ << >> # << "SUCCESS" >>
    OBVIOUS
  <2>2. << "LOST" >> \in Seq(Codes \cup {"SUCCESS", "EXTRACTION FAILED", "LOST"})
        /\ << "LOST" >> # << "SUCCESS" >>
    OBVIOUS
  <2> QED BY <1>2, <1>3, <2>1, <2>2, PublishedType DEF IInv
<1>5. TypeOK'
  <2>1. TypeOK
    BY DEF IInv
  <2> QED BY ONLY <1>1, <1>2, <1>4, <2>1, ZenonT(40) DEF TypeOK, cascade
<1>6. Stage'
  BY <1>1 DEF IInv, Stage, cascade
<1>7. Flow'
  <2>1. SkipsActions' = SkipsActions /\ data' = data
    BY <1>1 DEF SkipsActions, cascade
  <2>2. postCrawlOpsCalled /\ ~SkipsActions
    BY <1>1 DEF IInv, Flow
  <2>3. published' # << >> => actions' = "done"
    BY <1>2, <1>3
  <2> QED BY <1>1, <1>4, <2>1, <2>2, <2>3 DEF IInv, Flow, Done
<1>8. Found'
  BY <1>1 DEF IInv, Found, Unnamed, Filled, ProductsOfNamedSource, VerdictIsFinal,
              IsVerdict, cascade
<1> QED BY <1>5, <1>6, <1>7, <1>8 DEF IInv

-----------------------------------------------------------------------------
LEMMA StepIInv == IInv /\ [Next]_vars => IInv'
<1> SUFFICES ASSUME IInv, [Next]_vars PROVE IInv'
  OBVIOUS
<1>1. CASE UNCHANGED vars
  <2>1. TypeOK'
    <3>1. /\ UNCHANGED << job, pc, domainInfo, dataSources, source, result >>
          /\ UNCHANGED << webResponse, data, status, failureType >>
          /\ UNCHANGED << preCrawlOpsFailed, postCrawlOpsCalled, postCalls, actions >>
          /\ UNCHANGED << published, crash >>
      BY <1>1 DEF vars
    <3>2. TypeOK
      BY DEF IInv
    <3>3. domainInfo' = {} \/ \E site \in SiteType : domainInfo' = {site}
      BY <3>1, <3>2 DEF TypeOK
    <3>4. /\ dataSources' \in Seq(Names) /\ source' \in 1..(Len(dataSources') + 1)
          /\ failureType' \in Seq(Codes)
          /\ published' \in Seq(Codes \cup {"SUCCESS", "EXTRACTION FAILED", "LOST"})
      BY <3>1, <3>2 DEF TypeOK
    <3>5. /\ result' \in [code : SourceCodes, err : BOOLEAN]
          /\ webResponse' \in Pages \cup {"none"} /\ data' \in DataType
      BY <3>1, <3>2 DEF TypeOK
    <3> QED BY <3>1, <3>2, <3>3, <3>4, <3>5 DEF TypeOK
  <2>2. Stage'
    BY <1>1 DEF Stage, IInv, vars
  <2>3. Flow'
    BY <1>1 DEF Flow, SkipsActions, Done, IInv, vars
  <2>4. Found'
    BY <1>1 DEF Found, Unnamed, Filled, ProductsOfNamedSource, VerdictIsFinal,
                IsVerdict, IInv, vars
  <2> QED BY <2>1, <2>2, <2>3, <2>4 DEF IInv
<1>2. CASE Executor
  BY <1>2, ParseStep, PreOpsStep, DomainInfoStep, ValidateStep, RdstoreStep,
     RequestStep, DiesStep, ExtractStep, MergeAllStep, EndMergeStep, PostOpsStep,
     ReportStep DEF Executor
<1>3. CASE OnDemandCrawlActions
  BY <1>3, PublishStep
<1>4. CASE Terminated
  BY <1>1, <1>4 DEF Terminated
<1> QED BY <1>1, <1>2, <1>3, <1>4 DEF Next

(* The inductive invariant: the types, the stage each variable has reached, *)
(* the agreement of status, reason and publication, and what the cascade    *)
(* has found.                                                               *)
THEOREM Invariance == Spec => []IInv
<1> QED BY InitIInv, StepIInv, PTL DEF Spec

(* Every variable keeps its type.                                          *)
THEOREM TypeCorrect == Spec => []TypeOK
<1>1. IInv => TypeOK
  BY DEF IInv
<1> QED BY <1>1, Invariance, PTL

(* A reported workflow has either succeeded or a reason: FailWorkflow and  *)
(* the success of PipelineExecutor never leave Status and FailureType      *)
(* apart, for every job, site and list of data sources.                    *)
THEOREM Reason == Spec => []StatusMatchesReason
<1>1. IInv => StatusMatchesReason
  BY DEF IInv, Flow, Done, StatusMatchesReason
<1> QED BY <1>1, Invariance, PTL

(* PostCrawlOps runs at most once for a task, and once when it succeeds.   *)
THEOREM PostOps == Spec => []PostOpsOnce
<1>1. IInv => PostOpsOnce
  BY DEF IInv, Flow, Done, PostOpsOnce
<1> QED BY <1>1, Invariance, PTL

(* Products that the cascade returns are of the source it names, whatever  *)
(* list of sources it went through.                                        *)
THEOREM Provenance == Spec => []ProductsOfNamedSource
<1>1. IInv => ProductsOfNamedSource
  BY DEF IInv, Found
<1> QED BY <1>1, Invariance, PTL

(* After NOT_PRODUCT_PAGE or DOES_NOT_EXIST no other source is asked.      *)
THEOREM Verdict == Spec => []VerdictIsFinal
<1>1. IInv => VerdictIsFinal
  BY DEF IInv, Found
<1> QED BY <1>1, Invariance, PTL

-----------------------------------------------------------------------------
(* A step of the executor fails the task, leaves its outcome alone, or is  *)
(* its PostCrawlOps.                                                       *)
Fails ==
  /\ \E reason : FailWorkflow(reason, preCrawlOpsFailed')
  /\ preCrawlOpsFailed' => preCrawlOpsFailed \/ job.badTask
  /\ UNCHANGED data

GoesOn ==
  /\ UNCHANGED << postCrawlOpsCalled, actions, preCrawlOpsFailed >>
  /\ pc \in Done \/ pc' \in Done => pc \in Done /\ UNCHANGED << status, data >>

LEMMA ExecutorOutcome ==
  ASSUME Executor
  PROVE  Fails \/ GoesOn \/ PostCrawlOps
<1>1. ASSUME NEW code, Fail(code), UNCHANGED << preCrawlOpsFailed, data >>
      PROVE  Fails
  BY <1>1 DEF Fail, Fails
<1>2. ASSUME NEW stage, Continue(stage), UNCHANGED preCrawlOpsFailed,
             pc \notin Done, stage \notin Done
      PROVE  GoesOn
  BY <1>2 DEF Continue, outcome, GoesOn
<1>3. CASE ParseJobParams \/ RetrieveDomainInfo \/ ReadRdstore
  <2>1. UNCHANGED << preCrawlOpsFailed, data >> /\ pc \notin Done
    BY <1>3 DEF ParseJobParams, RetrieveDomainInfo, ReadRdstore, At, cascade, Done
  <2>2. \/ \E stage \in {"preops", "validate", "request", "merge_all"} : Continue(stage)
        \/ \E code : Fail(code)
    BY <1>3 DEF ParseJobParams, RetrieveDomainInfo, ReadRdstore
  <2> QED BY <1>1, <1>2, <2>1, <2>2 DEF Done
<1>4. CASE ValidateDomainInfo
  <2>1. UNCHANGED << preCrawlOpsFailed, data >> /\ pc \notin Done
    BY <1>4 DEF ValidateDomainInfo, At, cascade, Done
  <2>2. PICK code : \/ Continue("rdstore")
                    \/ Fail(code)
    BY <1>4 DEF ValidateDomainInfo
  <2> QED BY <1>1, <1>2, <2>1, <2>2 DEF Done
<1>5. CASE PreCrawlOps
  <2>1. UNCHANGED data /\ pc \notin Done
    BY <1>5 DEF PreCrawlOps, At, cascade, Done
  <2>2. \/ /\ job.badTask /\ preCrawlOpsFailed' = TRUE
           /\ FailWorkflow(<< "BAD_INPUT" >>, TRUE)
        \/ Continue("domaininfo") /\ UNCHANGED preCrawlOpsFailed
    BY <1>5 DEF PreCrawlOps
  <2>3. CASE /\ job.badTask /\ preCrawlOpsFailed' = TRUE
             /\ FailWorkflow(<< "BAD_INPUT" >>, TRUE)
    BY <2>1, <2>3 DEF Fails
  <2> QED BY <1>2, <2>1, <2>2, <2>3 DEF Done
<1>6. CASE Request \/ SourceDies \/ Extract
  BY <1>6 DEF Request, SourceDies, Extract, At, EndWithVerdict, NextSource, outcome,
              GoesOn, Done
<1>7. CASE MergeAll
  BY <1>2, <1>7 DEF MergeAll, At, Done
<1>8. CASE EndMerge
  <2>1. UNCHANGED << preCrawlOpsFailed, data >> /\ pc \notin Done
    BY <1>8 DEF EndMerge, At, cascade, Done
  <2>2. \/ Fail(result.code)
        \/ pc' = "postops" /\ UNCHANGED << postCrawlOpsCalled, actions >>
    BY <1>8 DEF EndMerge
  <2> QED BY <1>1, <2>1, <2>2 DEF GoesOn, Done
<1>9. CASE Report
  BY <1>9 DEF Report, At, outcome, cascade, Fails, GoesOn, Done
<1> QED BY <1>3, <1>4, <1>5, <1>6, <1>7, <1>8, <1>9 DEF Executor

-----------------------------------------------------------------------------
(* A pipeline that is never sent data sources asks the wrapper alone, so   *)
(* that its actions are never skipped.                                     *)
Supervised ==
  job.pipeline \in SupervisedOnly => IsSupervised /\ ~SkipsActions

NoLinks ==
  pc \in Done /\ job.pipeline = "recrawl" /\ status = 1 => ~data.links

(* Only GetCompleteDomainInfo and its handling of missing keys name the    *)
(* sources; only the loop and the actions after it touch Data.             *)
LEMMA ExecutorKeeps ==
  ASSUME Executor
  PROVE  /\ job' = job
         /\ dataSources' = dataSources \/ RetrieveDomainInfo
         /\ data' = data \/ Request \/ Extract \/ MergeAll \/ PostCrawlOps
<1>1. CASE ParseJobParams \/ PreCrawlOps \/ RetrieveDomainInfo \/ ValidateDomainInfo
  BY <1>1 DEF ParseJobParams, PreCrawlOps, RetrieveDomainInfo, ValidateDomainInfo, cascade
<1>2. CASE ReadRdstore \/ Request \/ SourceDies \/ Extract
  BY <1>2 DEF ReadRdstore, Request, SourceDies, Extract, cascade
<1>3. CASE MergeAll \/ EndMerge \/ PostCrawlOps \/ Report
  BY <1>3 DEF MergeAll, EndMerge, PostCrawlOps, Report, cascade
<1> QED BY <1>1, <1>2, <1>3 DEF Executor

(* A call of Request or Extract, as a type.                                *)
LEMMA LoopOutcome ==
  ASSUME IInv, Request \/ Extract
  PROVE  /\ pc \in {"request", "extract"} /\ pc' \in {"request", "extract", "merged"}
         /\ UNCHANGED KeptByLoop
         /\ dataSources[source] \in Names /\ source \in 1..Len(dataSources)
         /\ \E o \in Unlabelled :
              /\ Assign(o)
              /\ \/ EndWithVerdict(o)
                 \/ data' = o.data
                 \/ /\ Extract
                    /\ data' = [o.data EXCEPT !.extractionDataSource = dataSources[source]]
<1>1. /\ pc \in {"request", "extract"} /\ UNCHANGED KeptByLoop
      /\ pc' \in {"request", "extract", "merged"}
      /\ Request => pc = "request"
      /\ Extract => pc = "extract"
  BY DEF Request, Extract, At, KeptByLoop, EndWithVerdict, NextSource
<1>2. /\ domainInfo # {} /\ dataSources[source] \in Names
      /\ source \in 1..Len(dataSources)
  BY <1>1, SourceName DEF IInv
<1>3. Unnamed /\ TypeOK
  BY <1>1 DEF IInv, Found
<1>4. CASE Request
  <2>1. PICK o \in Requests(dataSources[source]) :
          Assign(o) /\ (EndWithVerdict(o) \/ data' = o.data)
    BY <1>4 DEF Request, NextSource
  <2>2. o \in Unlabelled
    BY <1>2, <1>3, <2>1, RequestsType
  <2> QED BY <1>1, <1>2, <2>1, <2>2
<1>5. CASE Extract
  <2> DEFINE name == dataSources[source]
  <2>1. PICK o \in Extracts(name) :
          /\ Assign(o)
          /\ \/ EndWithVerdict(o)
             \/ data' = o.data
             \/ data' = [o.data EXCEPT !.extractionDataSource = name]
    BY <1>5 DEF Extract, NextSource
  <2>2. Filled(name)
    BY <1>1, <1>5 DEF IInv, Found
  <2> HIDE DEF name
  <2>3. o \in Unlabelled
    BY <1>2, <1>3, <2>1, <2>2, ExtractsType DEF name
  <2>4. \E u \in Unlabelled :
           /\ Assign(u)
           /\ \/ EndWithVerdict(u)
              \/ data' = u.data
              \/ Extract /\ data' = [u.data EXCEPT !.extractionDataSource = name]
    BY ONLY <1>5, <2>1, <2>3
  <2> QED BY <1>1, <1>2, <2>4 DEF name
<1> QED BY <1>4, <1>5, Zenon

(* The cascade names the source it stands at, or none.                     *)
LEMMA LoopNames ==
  ASSUME IInv, Request \/ Extract
  PROVE  Unnamed' \/ data'.extractionDataSource = dataSources[source]
<1>1. PICK o \in Unlabelled :
        \/ EndWithVerdict(o)
        \/ data' = o.data
        \/ data' = [o.data EXCEPT !.extractionDataSource = dataSources[source]]
  BY LoopOutcome
<1>2. o.data \in DataType /\ o.data.extractionDataSource = ""
  BY DEF Unlabelled, Outcome
<1>3. CASE EndWithVerdict(o)
  <2>1. data' = [o.data EXCEPT !.code = o.result.code, !.status = 0]
    BY <1>3 DEF EndWithVerdict
  <2> QED BY <1>2, <2>1 DEF DataType, Unnamed
<1>4. CASE data' = o.data
  BY <1>2, <1>4 DEF Unnamed
<1>5. CASE data' = [o.data EXCEPT !.extractionDataSource = dataSources[source]]
  BY <1>2, <1>5 DEF DataType
<1> QED BY <1>1, <1>3, <1>4, <1>5

(* The sources of a supervised pipeline stay what they are, or become the  *)
(* wrapper.                                                                *)
LEMMA SupervisedSources ==
  ASSUME IsSupervised, job.pipeline \in SupervisedOnly, Executor
  PROVE  IsSupervised'
<1>1. job.pipeline \notin Realtime
  BY DEF SupervisedOnly, Realtime
<1>2. dataSources' = dataSources \/ dataSources' = << "WRAPPER" >>
  BY <1>1, ExecutorKeeps DEF RetrieveDomainInfo
<1> QED BY <1>2 DEF IsSupervised

LEMMA SupervisedStep == IInv /\ Supervised /\ [Next]_vars => Supervised'
<1> SUFFICES ASSUME IInv, Supervised, [Next]_vars, job'.pipeline \in SupervisedOnly
             PROVE  IsSupervised' /\ ~SkipsActions'
  BY DEF Supervised
<1>1. CASE UNCHANGED vars
  BY <1>1 DEF Supervised, IsSupervised, SkipsActions, vars
<1>2. CASE Executor
  <2>1. IsSupervised /\ ~SkipsActions /\ job' = job
    BY <1>2, ExecutorKeeps DEF Supervised
  <2>2. IsSupervised'
    BY <1>2, <2>1, SupervisedSources
  <2>3. CASE data' = data
    BY <2>1, <2>2, <2>3 DEF SkipsActions
  <2>4. CASE Request \/ Extract
    <3>1. source \in 1..Len(dataSources) /\ IsSupervised
      BY <2>1, <2>4, LoopOutcome
    <3>2. CASE dataSources = << >>
      BY <3>1, <3>2
    <3>3. CASE dataSources = << "WRAPPER" >>
      <4>1. Len(dataSources) = 1
        BY <3>3
      <4>2. source = 1
        BY <3>1, <4>1
      <4>3. dataSources[source] = "WRAPPER"
        BY <3>3, <4>2
      <4> QED BY <2>2, <2>4, <4>3, LoopNames DEF SkipsActions, Unnamed
    <3> QED BY <3>1, <3>2, <3>3 DEF IsSupervised
  <2>5. CASE MergeAll
    <3>1. data'.extractionDataSource = ""
      BY <2>5 DEF MergeAll
    <3> QED BY <2>2, <3>1 DEF SkipsActions
  <2>6. CASE PostCrawlOps
    <3>1. data' \in ActionData
      BY <2>6 DEF PostCrawlOps
    <3>2. SkipsActions' = SkipsActions
      BY <3>1, ActionDataType DEF IInv, SkipsActions
    <3> QED BY <2>1, <2>2, <3>2
  <2> QED BY <1>2, <2>2, <2>3, <2>4, <2>5, <2>6, ExecutorKeeps
<1>3. CASE OnDemandCrawlActions
  BY <1>3 DEF OnDemandCrawlActions, Supervised, IsSupervised, SkipsActions, cascade
<1>4. CASE Terminated
  BY <1>1, <1>4 DEF Terminated
<1> QED BY <1>1, <1>2, <1>3, <1>4 DEF Next

LEMMA NoLinksStep == IInv /\ Supervised /\ NoLinks /\ [Next]_vars => NoLinks'
<1> SUFFICES ASSUME IInv, Supervised, NoLinks, [Next]_vars,
                    pc' \in Done, job'.pipeline = "recrawl", status' = 1
             PROVE  ~data'.links
  BY DEF NoLinks
<1>1. CASE UNCHANGED vars
  BY <1>1 DEF NoLinks, vars
<1>2. CASE Executor
  <2>1. job' = job
    BY <1>2, ExecutorKeeps
  <2>2. CASE PostCrawlOps
    <3>1. ~SkipsActions
      BY <2>1 DEF Supervised, SupervisedOnly
    <3>2. ActionLinks = {FALSE}
      BY <2>1, <3>1 DEF ActionLinks
    <3>3. PICK p \in ActionProducts, some \in ActionLinks : data' = Left(p, some)
      <4>1. PICK d \in ActionData : data' = d
        BY <2>2 DEF PostCrawlOps
      <4>2. PICK p \in ActionProducts, some \in ActionLinks : d = Left(p, some)
        BY DEF ActionData
      <4> QED BY <4>1, <4>2
    <3>4. data' = Left(p, FALSE)
      BY <3>2, <3>3, Zenon
    <3>5. data \in DataType
      BY DEF IInv, TypeOK
    <3>6. Left(p, FALSE).links = FALSE
      BY <3>5 DEF Left, DataType
    <3> QED BY <3>4, <3>6
  <2>3. CASE pc \in Done /\ UNCHANGED << status, data >>
    BY <2>1, <2>3 DEF NoLinks
  <2>4. ~Fails
    BY DEF Fails, FailWorkflow
  <2> QED BY <1>2, <2>2, <2>3, <2>4, ExecutorOutcome DEF GoesOn
<1>3. CASE OnDemandCrawlActions
  BY <1>3 DEF OnDemandCrawlActions, NoLinks, cascade
<1>4. CASE Terminated
  BY <1>1, <1>4 DEF Terminated
<1> QED BY <1>1, <1>2, <1>3, <1>4 DEF Next

LEMMA InitSupervised == Init => Supervised /\ NoLinks
<1> SUFFICES ASSUME Init PROVE Supervised /\ NoLinks
  OBVIOUS
<1>1. job \in Jobs /\ dataSources = job.dataSources
  BY DEF Init
<1>2. job.pipeline \in SupervisedOnly => IsSupervised
  BY <1>1, JobsAssumption DEF IsSupervised
<1>3. ~SkipsActions
  BY DEF Init, EmptyData, SkipsActions
<1>4. pc \notin Done
  BY DEF Init, Done
<1> QED BY <1>2, <1>3, <1>4 DEF Supervised, NoLinks

-----------------------------------------------------------------------------
(* Whose products an ondemand customer is told of.  Products that no       *)
(* source is named for, without the mark of another engine, are the        *)
(* wrapper's; only between Request and Extract may Data hold those of the  *)
(* source that is asked.                                                   *)
OfWrapper(d) == d.engine \in {"", "WRAPPER"} => d.products \in {"none", "WRAPPER"}

OwnData ==
  data.extractionDataSource \in {"", "WRAPPER"} =>
    \/ OfWrapper(data)
    \/ pc = "extract" /\ data.products = dataSources[source]

Owned ==
  /\ pc = "merge_all" => job.mergeMode = "MERGE_ALL"
  /\ actions # "none" => job.pipeline = "ondemand"
  /\ published = << "SUCCESS" >> => data.engine \in {"", "WRAPPER"}
  /\ job.pipeline = "ondemand" /\ job.mergeMode = "CASCADE" => OwnData

LEMMA OkIsNoError == Ok.err = FALSE
  BY DEF Ok

(* A call of Request leaves products of the wrapper, or those of the       *)
(* source, to be extracted.                                                *)
LEMMA RequestsOwn ==
  ASSUME TypeOK, domainInfo # {}, job.pipeline = "ondemand", OfWrapper(data),
         NEW name \in Names, NEW o \in Requests(name)
  PROVE  OfWrapper(o.data) \/ (o.canExtract /\ ~o.result.err /\ o.data.products = name)
<1>1. Now \in Outcome /\ Now.data = data /\ data \in DataType
  BY NowType DEF TypeOK
<1>2. \A code : /\ Failed(code) = [Now EXCEPT !.result = Error(code)]
               /\ Failed(code).data = data
  BY <1>1 DEF Failed, Outcome
<1>3. OfWrapper(EmptyData)
  BY DEF EmptyData, OfWrapper
<1>4. CASE name = "WRAPPER"
  <2>1. \A page : Visited(page).data = data
    BY <1>1 DEF Visited, Outcome
  <2>2. Sitemaps = {}
    BY DEF Sitemaps
  <2>3. \A v \in CachedPages \cup VisitedPages : v.data = data
    BY <1>1, <2>1 DEF CachedPages, VisitedPages, Outcome
  <2> QED BY <1>2, <1>4, <2>2, <2>3 DEF Requests, WrapperRequests
<1>5. CASE name = "UNSUPERVISED"
  <2>1. \A f \in {Now, Failed("UNSUPERVISED_REQUEST_FAILED")} :
           "data" \in DOMAIN f /\ [f EXCEPT !.data = EmptyData].data = EmptyData
    BY <1>1, <1>2 DEF Outcome
  <2>2. [Now EXCEPT !.canExtract = TRUE, !.data = EmptyData].data = EmptyData
    BY <1>1 DEF Outcome
  <2> QED BY <1>2, <1>3, <1>5, <2>1, <2>2 DEF Requests, UnsupervisedRequests
<1>6. CASE name = "DIFFBOT"
  <2>1. \A s, p, r : DiffbotAnswer(s, p, r).data.engine = "DIFFBOT"
    BY <1>1 DEF DiffbotAnswer, Outcome, DataType
  <2>2. o.data = data \/ o.data.engine = "DIFFBOT"
    BY <1>2, <1>6, <2>1 DEF Requests, DiffbotRequests, DiffbotAnswers, DiffbotRefusals
  <2> QED BY <2>2 DEF OfWrapper
<1>7. ASSUME NEW n, NEW code, o \in ApiRequests(n, code), n = name
      PROVE  OfWrapper(o.data) \/ (o.canExtract /\ ~o.result.err /\ o.data.products = n)
  <2>1. CASE o = Failed("API_REQUEST_FAILED")
    BY <1>2, <2>1
  <2>2. CASE o = [Now EXCEPT !.canExtract = TRUE, !.data.products = n, !.data.status = 1]
    <3>1. o.canExtract /\ o.data.products = n /\ o.result = Ok
      BY <1>1, <2>2 DEF Now, DataType
    <3> QED BY <1>7, <3>1, OkIsNoError
  <2>3. CASE o = [Failed(code) EXCEPT !.data.products = "none", !.data.status = 0,
                                      !.data.code = code]
    <3>1. o.data.products = "none"
      BY <1>1, <1>2, <2>3 DEF Outcome, DataType
    <3> QED BY <3>1 DEF OfWrapper
  <2> QED BY <1>7, <2>1, <2>2, <2>3 DEF ApiRequests
<1>8. CASE name \in {"M101", "AMAZON"}
  BY <1>7, <1>8 DEF Requests
<1>9. CASE name = "UNKNOWN"
  BY <1>9 DEF Requests
<1> QED BY <1>4, <1>5, <1>6, <1>8, <1>9 DEF Names, SourceNames

(* A call of Extract leaves products of the wrapper, the mark of another   *)
(* engine, or the products of a source that the cascade then names.        *)
LEMMA ExtractsOwn ==
  ASSUME TypeOK, domainInfo # {}, Unnamed, NEW name \in Names, Filled(name),
         OfWrapper(data) \/ data.products = name, NEW o \in Extracts(name)
  PROVE  \/ OfWrapper(o.data)
         \/ /\ name \notin {"", "WRAPPER"} /\ ~o.result.err
            /\ o.data.products # "none"
<1>1. Now \in Outcome /\ Now.data = data /\ data \in DataType
  BY NowType DEF TypeOK
<1>2. \A code : Failed(code) = [Now EXCEPT !.result = Error(code)] /\ Failed(code).data = data
  BY <1>1 DEF Failed, Outcome
<1>3. \A code, d : [Failed(code) EXCEPT !.data = d].data = d
  BY <1>1, <1>2 DEF Outcome
<1>4. CASE name = "WRAPPER"
  <2>1. OfWrapper(data)
    BY <1>4 DEF OfWrapper
  <2>2. CASE o = WrapperRefusal
    BY <1>2, <2>1, <2>2 DEF WrapperRefusal
  <2>3. CASE o \in WrapperErrors
    <3>1. PICK code \in {"", "NOT_PRODUCT_PAGE", "WRAPPER_CODE"} :
            o = [Failed(IF code = "" THEN "EXTRACTION_FAILED" ELSE code)
                   EXCEPT !.data = [EmptyData EXCEPT !.code = code]]
      BY <2>3 DEF WrapperErrors
    <3>2. o.data = [EmptyData EXCEPT !.code = code]
      BY <1>3, <3>1
    <3>3. o.data.products = "none"
      BY <3>2 DEF EmptyData
    <3> QED BY <3>3 DEF OfWrapper
  <2>4. CASE \E a \in WrapperAnswers : o \in WrapperOutcomes(a)
    <3>1. o \in Own("WRAPPER")
      BY <2>4, WrapperAnswersType, WrapperOutcomesType
    <3> QED BY <3>1 DEF Own, OfWrapper
  <2> QED BY <1>4, <2>2, <2>3, <2>4 DEF Extracts, WrapperExtracts
<1>5. CASE name = "UNSUPERVISED"
  <2>1. ASSUME NEW s, NEW code, NEW p
        PROVE  UnsupervisedData(s, code, p).engine = "UNSUPERVISED"
    BY DEF UnsupervisedData, EmptyData
  <2>2. \A code, p : UnsupervisedError(code, p).data = UnsupervisedData(0, code, p)
    BY <1>3 DEF UnsupervisedError
  <2>3. \A p : UnsupervisedAnswer(p).data = UnsupervisedData(1, "", p)
    BY <1>1 DEF UnsupervisedAnswer, Outcome
  <2>4. CASE o \in UnsupervisedErrors
    <3>1. PICK code \in UnsupervisedCodes, p \in {"none", "UNSUPERVISED"} :
            o = UnsupervisedError(code, p)
      BY <2>4 DEF UnsupervisedErrors
    <3>2. o.data.engine = "UNSUPERVISED"
      BY <2>1, <2>2, <3>1
    <3> QED BY <3>2 DEF OfWrapper
  <2>5. CASE o \in UnsupervisedAnswers
    <3>1. PICK p \in {"none", "UNSUPERVISED"} : o = UnsupervisedAnswer(p)
      BY <2>5 DEF UnsupervisedAnswers
    <3>2. o.data = UnsupervisedData(1, "", p)
      BY <2>3, <3>1
    <3>3. UnsupervisedData(1, "", p).engine = "UNSUPERVISED"
      BY <2>1
    <3>4. o.data.engine = "UNSUPERVISED"
      BY <3>2, <3>3
    <3> QED BY <3>4 DEF OfWrapper
  <2>6. CASE o = [Failed("UNSUPERVISED_RPC_ERR")
                    EXCEPT !.data = [EmptyData EXCEPT !.code = "UNSUPERVISED_RPC_ERR"]]
    <3>1. o.data = [EmptyData EXCEPT !.code = "UNSUPERVISED_RPC_ERR"]
      BY <1>3, <2>6
    <3> QED BY <3>1 DEF EmptyData, OfWrapper
  <2>7. o \in UnsupervisedExtracts
    BY <1>5 DEF Extracts
  <2> QED BY <2>4, <2>5, <2>6, <2>7 DEF UnsupervisedExtracts
<1>6. CASE name \notin {"WRAPPER", "UNSUPERVISED"}
  <2>1. o = Now /\ o.result = Ok
    BY <1>6 DEF Extracts, Now
  <2>2. data.products = name /\ name # "none" /\ name # ""
    BY <1>6 DEF Filled, Names, SourceNames
  <2>3. ~o.result.err
    BY <2>1, OkIsNoError
  <2>4. o.data = data
    BY <1>1, <2>1
  <2> QED BY <1>6, <2>2, <2>3, <2>4
<1> QED BY <1>4, <1>5, <1>6

LEMMA OwnByLoop ==
  ASSUME IInv, job.pipeline = "ondemand", OwnData, Request \/ Extract
  PROVE  OwnData'
<1> DEFINE name == dataSources[source]
<1>1. /\ UNCHANGED KeptByLoop
      /\ Request => pc = "request"
      /\ Extract => pc = "extract"
  BY LoopOutcome DEF Request, Extract, At
<1>2. /\ domainInfo # {} /\ name \in Names /\ TypeOK /\ Unnamed
  BY <1>1, SourceName DEF IInv, Found
<1>3. OfWrapper(data) \/ (pc = "extract" /\ data.products = name)
  BY <1>2 DEF OwnData, Unnamed
<1> HIDE DEF name
<1>4. ASSUME NEW o \in Outcome, OfWrapper(o.data),
             EndWithVerdict(o) \/ data' = o.data
               \/ data' = [o.data EXCEPT !.extractionDataSource = name]
      PROVE  OwnData'
  <2>1. o.data \in DataType
    BY DEF Outcome
  <2>2. data'.engine = o.data.engine /\ data'.products = o.data.products
    BY <1>4, <2>1 DEF EndWithVerdict, DataType
  <2> QED BY <1>4, <2>2 DEF OwnData, OfWrapper
<1>5. CASE Request
  <2>1. PICK o \in Requests(name) :
          \/ EndWithVerdict(o)
          \/ /\ ~o.result.err /\ o.canExtract
             /\ data' = o.data
             /\ pc' = "extract"
             /\ UNCHANGED source
          \/ /\ o.result.err \/ ~o.canExtract
             /\ data' = o.data
    BY <1>5 DEF Request, NextSource, name
  <2>2. o \in Outcome
    BY <1>2, <2>1, RequestsType DEF Unlabelled
  <2>3. OfWrapper(o.data) \/ (o.canExtract /\ ~o.result.err /\ o.data.products = name)
    BY <1>1, <1>2, <1>3, <1>5, <2>1, RequestsOwn
  <2>4. CASE ~OfWrapper(o.data)
    <3>1. data' = o.data /\ pc' = "extract" /\ source' = source /\ dataSources' = dataSources
      BY <1>1, <2>1, <2>3, <2>4 DEF EndWithVerdict, IsVerdict, KeptByLoop
    <3> QED BY <2>3, <2>4, <3>1 DEF OwnData, name
  <2> QED BY <1>4, <2>1, <2>2, <2>4
<1>6. CASE Extract
  <2>1. PICK o \in Extracts(name) :
          \/ EndWithVerdict(o)
          \/ data' = [o.data EXCEPT !.extractionDataSource = name]
          \/ /\ o.result.err \/ o.data.products = "none"
             /\ data' = o.data
    BY <1>6 DEF Extract, NextSource, name
  <2>2. Filled(name)
    BY <1>1, <1>6 DEF IInv, Found, name
  <2>3. o \in Outcome
    BY <1>2, <2>1, <2>2, ExtractsType DEF Unlabelled
  <2>4. \/ OfWrapper(o.data)
        \/ name \notin {"", "WRAPPER"} /\ ~o.result.err /\ o.data.products # "none"
    BY <1>2, <1>3, <2>1, <2>2, ExtractsOwn
  <2>5. CASE ~OfWrapper(o.data)
    <3>1. data' = [o.data EXCEPT !.extractionDataSource = name]
      BY <2>1, <2>4, <2>5 DEF EndWithVerdict, IsVerdict
    <3>2. data'.extractionDataSource = name
      BY <2>3, <3>1 DEF Outcome, DataType
    <3> QED BY <2>4, <2>5, <3>2 DEF OwnData
  <2> QED BY <1>4, <2>1, <2>3, <2>5
<1> QED BY <1>5, <1>6

LEMMA OwnedStep == IInv /\ Owned /\ [Next]_vars => Owned'
<1> SUFFICES ASSUME IInv, Owned, [Next]_vars PROVE Owned'
  OBVIOUS
<1>1. CASE UNCHANGED vars
  BY <1>1 DEF Owned, OwnData, OfWrapper, vars
<1>2. CASE Executor
  <2>1. job' = job /\ published' = published
    BY <1>2, ExecutorKeeps DEF Executor, ParseJobParams, PreCrawlOps, RetrieveDomainInfo,
       ValidateDomainInfo, ReadRdstore, Request, SourceDies, Extract, MergeAll,
       EndMerge, PostCrawlOps, Report
  <2>2. actions' # "none" => job'.pipeline = "ondemand"
    <3>1. actions' = actions \/ job.pipeline = "ondemand"
      BY <1>2, ExecutorOutcome DEF Fails, FailWorkflow, GoesOn, PostCrawlOps
    <3> QED BY <2>1, <3>1 DEF Owned
  <2>3. pc' = "merge_all" => job'.mergeMode = "MERGE_ALL"
    <3>1. CASE ReadRdstore
      BY <2>1, <3>1 DEF ReadRdstore, Continue, Fail
    <3>2. CASE pc' = pc
      BY <2>1, <3>2 DEF Owned
    <3>3. CASE ~ReadRdstore /\ ~SourceDies
      <4>1. pc' \in {"preops", "domaininfo", "validate", "rdstore", "request", "extract",
                     "merged", "postops", "report", "sent"}
        BY <1>2, <3>3
        DEF Executor, ParseJobParams, PreCrawlOps, RetrieveDomainInfo, ValidateDomainInfo,
            Request, Extract, MergeAll, EndMerge, PostCrawlOps, Report, Continue, Fail,
            EndWithVerdict, NextSource
      <4> QED BY <4>1
    <3> QED BY <3>1, <3>2, <3>3 DEF SourceDies
  <2>4. published = << "SUCCESS" >> => data' = data
    <3>1. published = << "SUCCESS" >> => pc \in Done
      <4>1. << "SUCCESS" >> # << >>
        OBVIOUS
      <4> QED BY <4>1 DEF IInv, Flow
    <3>2. pc \in Done => data' = data
      BY <1>2, ExecutorKeeps DEF Request, Extract, MergeAll, PostCrawlOps, At, Done
    <3> QED BY <3>1, <3>2
  <2>5. job.pipeline = "ondemand" /\ job.mergeMode = "CASCADE" => OwnData'
    <3> SUFFICES ASSUME job.pipeline = "ondemand", job.mergeMode = "CASCADE", OwnData
                 PROVE  OwnData'
      BY DEF Owned
    <3>1. CASE Request \/ Extract
      BY <3>1, OwnByLoop
    <3>2. CASE MergeAll
      BY <3>2 DEF MergeAll, At, Owned
    <3>3. CASE PostCrawlOps
      <4>1. PICK p \in ActionProducts, some \in ActionLinks : data' = Left(p, some)
        <5>1. PICK d \in ActionData : data' = d
          BY <3>3 DEF PostCrawlOps
        <5>2. PICK p \in ActionProducts, some \in ActionLinks : d = Left(p, some)
          BY DEF ActionData
        <5> QED BY <5>1, <5>2
      <4>2. p = data.products
        BY DEF ActionProducts, KeepsOldVariations
      <4>3. /\ data'.products = data.products /\ data'.engine = data.engine
            /\ data'.extractionDataSource = data.extractionDataSource
        BY <4>1, <4>2 DEF IInv, TypeOK, DataType, Left
      <4>4. pc # "extract"
        BY <3>3 DEF PostCrawlOps, At
      <4> QED BY <4>3, <4>4 DEF OwnData, OfWrapper
    <3>4. CASE data' = data /\ pc # "extract"
      BY <3>4 DEF OwnData
    <3>5. CASE SourceDies
      BY <3>5 DEF SourceDies, cascade, OwnData
    <3>6. pc = "extract" => Extract \/ SourceDies
      BY <1>2
      DEF Executor, At, ParseJobParams, PreCrawlOps, RetrieveDomainInfo, ValidateDomainInfo,
          ReadRdstore, Request, MergeAll, EndMerge, PostCrawlOps, Report
    <3> QED BY <1>2, <3>1, <3>2, <3>3, <3>4, <3>5, <3>6, ExecutorKeeps
  <2> QED BY <2>1, <2>2, <2>3, <2>4, <2>5 DEF Owned
<1>3. CASE OnDemandCrawlActions
  <2>1. /\ actions = "spawned" /\ UNCHANGED << job, pc, dataSources, source, data >>
        /\ published' = published \/ published' \in {PublishedStatus, << "LOST" >>}
    BY <1>3 DEF OnDemandCrawlActions, cascade
  <2>2. PublishedStatus = << "SUCCESS" >> => data.engine \in {"", "WRAPPER"}
    <3>1. << "EXTRACTION FAILED" >> # << "SUCCESS" >>
      OBVIOUS
    <3> QED BY <3>1 DEF PublishedStatus
  <2>3. << "LOST" >> # << "SUCCESS" >>
    OBVIOUS
  <2> QED BY <2>1, <2>2, <2>3 DEF Owned, OwnData, OfWrapper
<1>4. CASE Terminated
  BY <1>1, <1>4 DEF Terminated
<1> QED BY <1>1, <1>2, <1>3, <1>4 DEF Next

(* An ondemand customer is told SUCCESS only of a task that is reported as *)
(* a success, whenever the publishing goroutine runs; and after a cascade  *)
(* over any list of sources only of products of the wrapper.               *)
THEOREM Publication == Spec => []PublishedTrue
<1>1. Init => Owned
  <2>1. << >> # << "SUCCESS" >>
    OBVIOUS
  <2> SUFFICES ASSUME Init PROVE Owned
    OBVIOUS
  <2>2. OfWrapper(data)
    BY DEF Init, EmptyData, OfWrapper
  <2>3. pc # "merge_all" /\ actions = "none" /\ published = << >>
    BY DEF Init
  <2> QED BY <2>1, <2>2, <2>3 DEF Owned, OwnData
<1>2. IInv /\ Owned => PublishedTrue
  <2> SUFFICES ASSUME IInv, Owned, published = << "SUCCESS" >> PROVE
        /\ pc \in {"report", "sent"} /\ status = 1 /\ failureType = << >>
        /\ data.products # "none"
        /\ job.mergeMode = "CASCADE" => data.products = "WRAPPER"
    BY DEF PublishedTrue
  <2>1. published # << >>
    OBVIOUS
  <2>2. actions = "done" /\ status = 1 /\ data.products # "none"
    BY <2>1 DEF IInv, Flow
  <2>3. postCrawlOpsCalled /\ ~SkipsActions
    BY <2>2 DEF IInv, Flow
  <2>4. pc \in {"report", "sent"}
    BY <2>3 DEF IInv, Flow, Done
  <2>5. ASSUME job.mergeMode = "CASCADE" PROVE data.products = "WRAPPER"
    <3>1. job.pipeline = "ondemand" /\ data.engine \in {"", "WRAPPER"} /\ OwnData
      BY <2>2, <2>5 DEF Owned
    <3> QED BY <2>2, <2>3, <2>4, <3>1 DEF OwnData, OfWrapper, SkipsActions
  <2> QED BY <2>2, <2>4, <2>5 DEF IInv, Flow, Done
<1> QED BY <1>1, <1>2, OwnedStep, Invariance, PTL DEF Spec

-----------------------------------------------------------------------------
(* An ondemand task whose PreCrawlOps worked is reported with its          *)
(* PostCrawlOps called; that has started the goroutine, unless the data is *)
(* of another source; and the goroutine ends with a publication.           *)
Tried ==
  /\ preCrawlOpsFailed => job.badTask
  /\ job.pipeline = "ondemand" =>
       /\ pc \in Done /\ ~preCrawlOpsFailed => postCrawlOpsCalled
       /\ postCrawlOpsCalled /\ ~SkipsActions => actions # "none"
  /\ actions = "done" => published # << >> \/ job.badTask

(* FailWorkflow calls PostCrawlOps of an ondemand task, unless it has been *)
(* called or PreCrawlOps failed.                                           *)
LEMMA FailCalls ==
  ASSUME TypeOK, Tried, job.pipeline = "ondemand",
         NEW reason, NEW preFailed, FailWorkflow(reason, preFailed), UNCHANGED data
  PROVE  /\ ~preFailed => postCrawlOpsCalled'
         /\ postCrawlOpsCalled' /\ ~SkipsActions' => actions' # "none"
<1>1. SkipsActions' = SkipsActions
  BY DEF SkipsActions
<1>2. CASE ~postCrawlOpsCalled /\ ~preFailed
  BY <1>1, <1>2 DEF FailWorkflow, StartActions
<1>3. CASE postCrawlOpsCalled \/ preFailed
  BY <1>1, <1>3 DEF FailWorkflow, Tried
<1> QED BY <1>2, <1>3

LEMMA TriedByExecutor ==
  ASSUME IInv, Tried, Executor
  PROVE  Tried'
<1>1. job' = job /\ published' = published
  BY ExecutorKeeps DEF Executor, ParseJobParams, PreCrawlOps, RetrieveDomainInfo,
     ValidateDomainInfo, ReadRdstore, Request, SourceDies, Extract, MergeAll,
     EndMerge, PostCrawlOps, Report
<1>2. TypeOK /\ Flow
  BY DEF IInv
<1>3. CASE Fails
  <2>1. PICK reason : FailWorkflow(reason, preCrawlOpsFailed')
    BY <1>3 DEF Fails
  <2>2. job.pipeline = "ondemand" =>
          /\ ~preCrawlOpsFailed' => postCrawlOpsCalled'
          /\ postCrawlOpsCalled' /\ ~SkipsActions' => actions' # "none"
    BY <1>2, <1>3, <2>1, FailCalls DEF Fails
  <2>3. actions' = "done" => actions = "done"
    BY <2>1 DEF FailWorkflow, StartActions
  <2>4. preCrawlOpsFailed' => job.badTask
    BY <1>3 DEF Fails, Tried
  <2> QED BY <1>1, <2>2, <2>3, <2>4 DEF Tried
<1>4. CASE GoesOn
  <2>1. UNCHANGED << postCrawlOpsCalled, actions, preCrawlOpsFailed >>
    BY <1>4 DEF GoesOn
  <2>2. CASE pc \in Done
    <3>1. SkipsActions' = SkipsActions
      BY <1>4, <2>2 DEF GoesOn, SkipsActions
    <3> QED BY <1>1, <2>1, <2>2, <3>1 DEF Tried
  <2>3. CASE pc \notin Done
    <3>1. ~postCrawlOpsCalled /\ pc' \notin Done
      BY <1>2, <1>4, <2>3 DEF Flow, GoesOn
    <3> QED BY <1>1, <2>1, <3>1 DEF Tried
  <2> QED BY <2>2, <2>3
<1>5. CASE PostCrawlOps
  <2>1. /\ postCrawlOpsCalled' = TRUE /\ preCrawlOpsFailed' = preCrawlOpsFailed
        /\ actions' = IF job.pipeline = "ondemand" /\ ~SkipsActions THEN "spawned"
                                                                   ELSE actions
        /\ data' \in ActionData
    BY <1>5 DEF PostCrawlOps, StartActions
  <2>2. SkipsActions' = SkipsActions
    BY <1>2, <2>1, ActionDataType DEF SkipsActions
  <2> QED BY <1>1, <2>1, <2>2 DEF Tried
<1> QED BY <1>3, <1>4, <1>5, ExecutorOutcome

(* The goroutine publishes something: a report has succeeded or a reason.  *)
LEMMA TriedByActions ==
  ASSUME IInv, Tried, OnDemandCrawlActions
  PROVE  Tried'
<1>1. /\ actions = "spawned" /\ actions' # "none"
      /\ UNCHANGED << job, pc, data, postCrawlOpsCalled, preCrawlOpsFailed >>
      /\ \/ actions' = "spawned"
         \/ actions' = "done" /\ job.badTask
         \/ actions' = "done" /\ published' \in {PublishedStatus, << "LOST" >>}
  BY DEF OnDemandCrawlActions, cascade
<1>2. PublishedStatus # << >>
  <2>1. status = 1 \/ failureType # << >>
    BY <1>1 DEF IInv, Flow, Done
  <2>2. << "EXTRACTION FAILED" >> # << >> /\ << "SUCCESS" >> # << >>
    OBVIOUS
  <2> QED BY <2>1, <2>2 DEF PublishedStatus
<1>3. << "LOST" >> # << >>
  OBVIOUS
<1>4. SkipsActions' = SkipsActions
  BY <1>1 DEF SkipsActions
<1> QED BY <1>1, <1>2, <1>3, <1>4 DEF Tried

LEMMA TriedStep == IInv /\ Tried /\ [Next]_vars => Tried'
<1> SUFFICES ASSUME IInv, Tried, [Next]_vars PROVE Tried'
  OBVIOUS
<1>1. CASE UNCHANGED vars
  BY <1>1 DEF Tried, SkipsActions, vars
<1>2. CASE Terminated
  BY <1>1, <1>2 DEF Terminated
<1> QED BY <1>1, <1>2, TriedByExecutor, TriedByActions DEF Next

-----------------------------------------------------------------------------
(* What a page of products needs to be believed: a cascade over the        *)
(* wrapper alone, by a pipeline that looks for products, on a page that    *)
(* was found and is a product's, of a site other than Amazon.              *)
Looks == job.pipeline \in {"recrawl", "crawl", "testwrapper"}

OnProductPage == webResponse = "success" /\ Site.isProductUrl /\ ~Site.isAmazon

Stocked ==
  /\ pc = "merge_all" => job.mergeMode = "MERGE_ALL"
  /\ pc = "postops" => ~result.err
  /\ pc \in {"merged", "postops"} /\ ~result.err /\ dataSources = << "WRAPPER" >>
       /\ job.mergeMode = "CASCADE" /\ Looks /\ OnProductPage
     => data.products # "none"

(* A call of the wrapper that leaves no error, on such a page.             *)
Believed(o) == ~o.result.err /\ o.page = "success" /\ o.isProductUrl /\ ~Site.isAmazon

(* Request ends without an error and without a page to extract only when   *)
(* the page was not found.                                                 *)
LEMMA VisitedBelieved ==
  ASSUME TypeOK, domainInfo # {}, Looks, NEW o \in Requests("WRAPPER"), Believed(o)
  PROVE  o.canExtract
<1>1. Now \in Outcome
  BY NowType
<1>2. \A code : Failed(code).result.err
  BY <1>1 DEF Failed, Error, Outcome
<1>3. Sitemaps = {}
  BY DEF Sitemaps, Looks
<1>4. ASSUME NEW page \in Pages
      PROVE  [Now EXCEPT !.canExtract = TRUE, !.page = page].canExtract
  BY <1>1 DEF Outcome
<1>5. ASSUME NEW page \in Pages, Visited(page).page = "success"
      PROVE  Visited(page).canExtract
  <2> DEFINE visit == [Now EXCEPT !.page = page]
  <2>1. visit \in Outcome /\ visit.page = page
    BY <1>1 DEF Outcome
  <2> HIDE DEF visit
  <2>2. /\ \A code : [visit EXCEPT !.result = Error(code)].page = page
        /\ [visit EXCEPT !.canExtract = TRUE].page = page
        /\ [visit EXCEPT !.canExtract = TRUE].canExtract
    BY <2>1 DEF Outcome
  <2>3. page = "success"
    BY <1>5, <2>1, <2>2 DEF Visited, visit
  <2>4. Visited(page) = [visit EXCEPT !.canExtract = TRUE]
    BY <2>3 DEF Visited, visit
  <2> QED BY <2>2, <2>4
<1>6. o \in CachedPages \cup VisitedPages
  BY <1>2, <1>3 DEF Requests, WrapperRequests, Believed
<1> QED BY <1>4, <1>5, <1>6 DEF CachedPages, VisitedPages, Believed

(* ValidateExtractionResponse of these pipelines passes such a page only   *)
(* with products.                                                          *)
LEMMA ValidatedBelieved ==
  ASSUME Looks, NEW a \in Own("WRAPPER"), NEW o \in Validated(a), Believed(o)
  PROVE  o = a /\ a.data.products # "none"
<1>1. a \in Outcome
  BY DEF Own, Unlabelled
<1>2. \A code : But(a, code).result.err
  BY <1>1 DEF But, Error, Outcome
<1>3. WithoutProducts(But(a, "REDIRECT_SKU_ERROR")).result.err
  <2> DEFINE b == But(a, "REDIRECT_SKU_ERROR")
  <2>1. b.result.err
    BY <1>2
  <2>2. b = [a EXCEPT !.result = Error("REDIRECT_SKU_ERROR")]
    BY DEF But
  <2>3. "result" \in DOMAIN b /\ "data" \in DOMAIN b
    BY <1>1, <2>2 DEF Outcome
  <2> HIDE DEF b
  <2>4. [b EXCEPT !.data.products = "none"].result = b.result
    BY <2>3
  <2> QED BY <2>1, <2>4 DEF b, WithoutProducts
<1>4. o \in ProdsChecked(a)
  <2>1. CASE job.pipeline \in {"crawl", "testwrapper"}
    BY <2>1 DEF Validated, Realtime
  <2>2. CASE job.pipeline = "recrawl" /\ a.page = "success"
    <3>1. o \in {WithoutProducts(But(a, "REDIRECT_SKU_ERROR"))} \cup ProdsChecked(a)
      BY <2>2 DEF Validated, Realtime
    <3> QED BY <1>3, <3>1 DEF Believed
  <2>3. CASE job.pipeline = "recrawl" /\ a.page # "success"
    <3>1. o = a
      BY <2>3 DEF Validated, Realtime
    <3> QED BY <2>3, <3>1 DEF Believed
  <2> QED BY <2>1, <2>2, <2>3 DEF Looks
<1>5. PICK none \in NoActiveProds(a) :
        o = IF none THEN But(a, "EXTRACTION_FAILED_NOPRODS") ELSE a
  BY <1>4 DEF ProdsChecked
<1>6. ~none /\ o = a
  BY <1>2, <1>5 DEF Believed
<1>7. a.data.products # "none"
  <2>1. a.isProductUrl /\ a.page = "success" /\ ~Site.isAmazon
    BY <1>6 DEF Believed
  <2>2. CASE a.data.products = "none"
    <3>1. NoActiveProds(a) = {TRUE}
      BY <2>1, <2>2 DEF NoActiveProds
    <3> QED BY <1>5, <1>6, <3>1
  <2> QED BY <2>2
<1> QED BY <1>6, <1>7

LEMMA ExtractedBelieved ==
  ASSUME TypeOK, domainInfo # {}, Unnamed, Looks,
         NEW o \in Extracts("WRAPPER"), Believed(o)
  PROVE  o.data.products # "none"
<1>1. \A code : Failed(code).result.err
  BY NowType DEF Failed, Error, Outcome
<1>2. WrapperRefusal.result.err
  BY <1>1 DEF WrapperRefusal
<1>3. \A e \in WrapperErrors : e.result.err
  <2>1. ASSUME NEW code PROVE
          [Failed(IF code = "" THEN "EXTRACTION_FAILED" ELSE code)
             EXCEPT !.data = [EmptyData EXCEPT !.code = code]].result.err
    <3> DEFINE f == Failed(IF code = "" THEN "EXTRACTION_FAILED" ELSE code)
               d == [EmptyData EXCEPT !.code = code]
    <3>1. f.result.err
      BY <1>1
    <3>2. "result" \in DOMAIN f
      BY NowType DEF Failed, Outcome
    <3> HIDE DEF f, d
    <3>3. [f EXCEPT !.data = d].result.err
      BY <3>1, <3>2
    <3> QED BY <3>3 DEF f, d
  <2> QED BY <2>1 DEF WrapperErrors
<1>4. PICK a \in WrapperAnswers : o \in WrapperOutcomes(a)
  BY <1>2, <1>3 DEF Extracts, WrapperExtracts, Believed
<1>5. a \in Own("WRAPPER") /\ a \in Outcome
  BY WrapperAnswersType DEF Own, Unlabelled
<1>6. /\ But(a, "EXTRACTION_MAX_CYCLES_EXCEEDED").result.err
      /\ But(a, "HTTP_500_ERROR").result.err
  BY <1>5 DEF But, Error, Outcome
<1>7. [But(a, "EXTRACTION_AJAX_FAILED") EXCEPT !.data = EmptyData].result.err
  BY <1>5 DEF But, Error, Outcome
<1>8. o \in Validated(a) \/ (a.page = "perm" /\ o \in Validated(WithoutProducts(a)))
  BY <1>4, <1>6, <1>7 DEF WrapperOutcomes, Believed
<1>9. WithoutProducts(a) \in Own("WRAPPER") /\ WithoutProducts(a).page = a.page
  <2>1. "WRAPPER" \in Names /\ "" \in SourceCodes
    BY DEF Names, SourceNames, SourceCodes
  <2> QED BY <1>5, <2>1, ButType DEF WithoutProducts, Outcome
<1>10. CASE o \in Validated(a)
  BY <1>5, <1>10, ValidatedBelieved
<1>11. CASE a.page = "perm" /\ o \in Validated(WithoutProducts(a))
  <2>1. o.page = "perm"
    BY <1>9, <1>11, ValidatedBelieved
  <2> QED BY <2>1 DEF Believed
<1> QED BY <1>8, <1>10, <1>11

(* The site after a call keeps what it was, but for isProductUrl.          *)
LEMMA SiteAfter ==
  ASSUME TypeOK, domainInfo # {}, NEW o \in Unlabelled, Assign(o)
  PROVE  Site'.isProductUrl = o.isProductUrl /\ Site'.isAmazon = Site.isAmazon
<1>1. PICK site \in SiteType : Site = site
  BY NowType
<1> DEFINE after == [site EXCEPT !.isProductUrl = o.isProductUrl]
<1>2. domainInfo' = {after}
  BY <1>1 DEF Assign
<1>3. Site' = after
  BY <1>2 DEF Site
<1>4. after.isProductUrl = o.isProductUrl /\ after.isAmazon = site.isAmazon
  BY DEF SiteType
<1> QED BY <1>1, <1>3, <1>4

(* The cascade over the wrapper alone ends with products on such a page.   *)
LEMMA StockedByLoop ==
  ASSUME IInv, Request \/ Extract, pc' = "merged", ~result'.err,
         dataSources = << "WRAPPER" >>, Looks, OnProductPage'
  PROVE  data'.products # "none"
<1>1. /\ source \in 1..Len(dataSources) /\ UNCHANGED KeptByLoop
      /\ Request => pc = "request"
      /\ Extract => pc = "extract"
  BY LoopOutcome DEF Request, Extract, At
<1>2. dataSources[source] = "WRAPPER" /\ source = Len(dataSources)
  <2>1. Len(dataSources) = 1
    OBVIOUS
  <2>2. source = 1
    BY <1>1, <2>1
  <2> QED BY <2>1, <2>2
<1>3. TypeOK /\ domainInfo # {} /\ Unnamed /\ "WRAPPER" \in Names /\ Filled("WRAPPER")
  BY <1>1, <1>2, SourceName DEF IInv, Found, Filled, Names, SourceNames
<1>4. ASSUME NEW o \in Unlabelled, Assign(o)
      PROVE  Believed(o) /\ (~EndWithVerdict(o))
  <2>1. o.result = result' /\ o.page = webResponse'
    BY <1>4 DEF Assign
  <2>2. o.isProductUrl /\ ~Site.isAmazon
    BY <1>3, <1>4, SiteAfter DEF OnProductPage
  <2> QED BY <2>1, <2>2 DEF Believed, OnProductPage, EndWithVerdict, IsVerdict
<1>5. CASE Request
  <2>1. PICK o \in Requests("WRAPPER") :
          /\ Assign(o)
          /\ EndWithVerdict(o) \/ o.result.err \/ ~o.canExtract
    BY <1>2, <1>5 DEF Request
  <2>2. o \in Unlabelled
    BY <1>3, RequestsType
  <2>3. Believed(o) /\ ~EndWithVerdict(o)
    BY <1>4, <2>1, <2>2
  <2> QED BY <1>3, <2>1, <2>3, VisitedBelieved DEF Believed
<1>6. CASE Extract
  <2>1. PICK o \in Extracts("WRAPPER") :
          /\ Assign(o)
          /\ \/ EndWithVerdict(o)
             \/ data' = o.data
             \/ data' = [o.data EXCEPT !.extractionDataSource = "WRAPPER"]
    BY <1>2, <1>6 DEF Extract, NextSource
  <2>2. o \in Unlabelled
    BY <1>3, ExtractsType
  <2>3. Believed(o) /\ ~EndWithVerdict(o)
    BY <1>4, <2>1, <2>2
  <2>4. o.data.products # "none"
    BY <1>3, <2>3, ExtractedBelieved
  <2> QED BY <2>1, <2>2, <2>3, <2>4 DEF Unlabelled, Outcome, DataType
<1> QED BY <1>5, <1>6

LEMMA StockedStep == IInv /\ Stocked /\ [Next]_vars => Stocked'
<1> SUFFICES ASSUME IInv, Stocked, [Next]_vars PROVE Stocked'
  OBVIOUS
<1>1. CASE UNCHANGED vars
  BY <1>1 DEF Stocked, Looks, OnProductPage, Site, vars
<1>2. CASE ParseJobParams \/ PreCrawlOps \/ RetrieveDomainInfo \/ ValidateDomainInfo
  <2>1. pc' \in {"preops", "domaininfo", "validate", "rdstore", "report"}
    BY <1>2 DEF ParseJobParams, PreCrawlOps, RetrieveDomainInfo, ValidateDomainInfo,
                Continue, Fail
  <2> QED BY <2>1 DEF Stocked
<1>3. CASE ReadRdstore
  <2>1. /\ pc' \in {"request", "merge_all", "report"} /\ job' = job
        /\ pc' = "merge_all" => job.mergeMode = "MERGE_ALL"
    BY <1>3 DEF ReadRdstore, Continue, Fail
  <2> QED BY <2>1 DEF Stocked
<1>4. CASE Request \/ Extract
  <2>1. /\ pc' \in {"request", "extract", "merged"}
        /\ UNCHANGED << job, dataSources >>
    BY <1>4, LoopOutcome DEF KeptByLoop
  <2> QED BY <1>4, <2>1, StockedByLoop DEF Stocked, Looks
<1>5. CASE MergeAll
  <2>1. pc' = "merged" /\ job' = job /\ job.mergeMode = "MERGE_ALL"
    BY <1>5 DEF MergeAll, At, Continue, Stocked
  <2> QED BY <2>1 DEF Stocked
<1>6. CASE EndMerge
  <2>1. /\ pc = "merged" /\ pc' \in {"postops", "report"}
        /\ pc' = "postops" => ~result.err
        /\ UNCHANGED << job, domainInfo, dataSources, result, webResponse, data >>
    BY <1>6 DEF EndMerge, At, cascade, Fail
  <2> QED BY <2>1 DEF Stocked, Looks, OnProductPage, Site
<1>7. CASE PostCrawlOps \/ Report
  <2>1. pc' \in {"report", "sent"}
    BY <1>7 DEF PostCrawlOps, Report
  <2> QED BY <2>1 DEF Stocked
<1>8. CASE SourceDies \/ OnDemandCrawlActions
  <2>1. UNCHANGED << job, pc, domainInfo, dataSources, result, webResponse, data >>
    BY <1>8 DEF SourceDies, OnDemandCrawlActions, cascade
  <2> QED BY <2>1 DEF Stocked, Looks, OnProductPage, Site
<1>9. CASE Terminated
  BY <1>1, <1>9 DEF Terminated
<1> QED BY <1>1, <1>2, <1>3, <1>4, <1>5, <1>6, <1>7, <1>8, <1>9 DEF Next, Executor

(* The promises, as one invariant on top of IInv.                          *)
Promised == Supervised /\ NoLinks /\ Tried /\ Stocked

LEMMA PromisedInit == Init => Promised
<1>1. Init => Tried /\ Stocked
  BY DEF Init, Tried, Stocked, Done
<1> QED BY <1>1, InitSupervised DEF Promised

LEMMA PromisedHolds == IInv /\ Promised => PipelinePromises
<1> SUFFICES ASSUME IInv, Promised PROVE PipelinePromises
  OBVIOUS
<1>1. ProductPageHasProducts
  BY DEF Promised, Stocked, Looks, OnProductPage, ProductPageHasProducts
<1>2. RecrawlSendsNoLinks
  BY DEF Promised, NoLinks, Done, RecrawlSendsNoLinks
<1>3. OnDemandPublishes
  <2>1. actions \in {"none", "spawned", "done"}
    BY DEF IInv, TypeOK
  <2> QED BY <2>1 DEF Promised, Tried, Done, OnDemandPublishes
<1> QED BY <1>1, <1>2, <1>3 DEF PipelinePromises

(* What the hooks of the pipelines promise, for every job, site and list   *)
(* of data sources: a product page that succeeds has products, a recrawl   *)
(* sends no links, an ondemand task is published.                          *)
THEOREM Promises == Spec => []PipelinePromises
<1>1. IInv /\ Promised /\ [Next]_vars => Promised'
  BY SupervisedStep, NoLinksStep, TriedStep, StockedStep DEF Promised
<1> QED BY <1>1, PromisedInit, PromisedHolds, Invariance, PTL DEF Spec
=============================================================================
