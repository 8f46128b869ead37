--------------------------- MODULE RecrawlProofs ----------------------------
(* Theorems about Recrawl and Discovery, for any number of tasks that      *)
(* recrawl the page, any skus and whatever an extraction delivers.         *)
EXTENDS Discovery, FiniteSetTheorems, FunctionTheorems, SequenceTheorems, TLAPS

(* Nothing is published before the write has been passed.                  *)
BeforeWrite == {"read", "idle", "crawl", "late", "prepare", "write"}

(* A task that publishes has written, and one that has not come so far has *)
(* published nothing.                                                      *)
Kept(t) ==
  /\ pc[t] \in BeforeWrite => raw[t] = << >> /\ pp[t] = << >> /\ next[t] = 1
  /\ pc[t] \in BeforeWrite \ {"write"} => messages[t] = << >>
  /\ pc[t] \in {"raw", "pp"} /\ Writes(t) => t \in written
  /\ raw[t] # << >> /\ Writes(t) => t \in written

(* One sequence is the beginning of another.                               *)
Begins(s, q) == Len(s) <= Len(q) /\ \A k \in 1..Len(s) : s[k] = q[k]

(* How much of the messages has been published at each place.              *)
Published(t) ==
  /\ Begins(raw[t], messages[t]) /\ Begins(pp[t], raw[t])
  /\ pc[t] = "raw" => /\ Len(raw[t]) = next[t] - 1
                      /\ Len(pp[t]) = IF SkusOnly(t) THEN 0 ELSE next[t] - 1
  /\ pc[t] = "pp" => ~SkusOnly(t) /\ Len(raw[t]) = next[t] /\ Len(pp[t]) = next[t] - 1
  /\ Succeeded(t) /\ status[t] # "temp" =>
       /\ Len(raw[t]) = Len(messages[t])
       /\ Len(pp[t]) = IF SkusOnly(t) THEN 0 ELSE Len(raw[t])

(* The products list the skus, each of them once.                          *)
Enumerates(ps, skus) ==
  /\ Ids(ps) = skus
  /\ \A j, k \in DOMAIN ps : ps[j].id = ps[k].id => j = k

(* What the recrawl has made of the crawl, and what rdstore is asked.      *)
PreparedFrom(t) ==
  /\ Enumerates(products[t], read[t])
  /\ messages[t] = MessagesFor(products[t], status[t])
  /\ \A k \in DOMAIN products[t] :
       LET p == products[t][k]
       IN /\ p.id \in request[t].active <=> RdstoreActive(p)
          /\ p.id \in request[t].inactive <=> ~RdstoreActive(p)

Ready(t) ==
  /\ status[t] # "temp"
  /\ pc[t] \in {"write", "raw", "pp"} \/ Succeeded(t)

(* The messages are those of the skus that rdstore held, each of them once;*)
(* a realtime task that leaves the page has not read rdstore.              *)
Prepared(t) ==
  /\ read[t] \subseteq known
  /\ \A k \in DOMAIN messages[t] : messages[t][k].sku \in read[t]
  /\ pc[t] = "read" => t \notin Realtime
  /\ pc[t] = "late" => t \in Realtime
  /\ t \in Realtime /\ pc[t] \in {"crawl", "late"} => read[t] = {}
  /\ Ready(t) => (read[t] = {} /\ messages[t] = << >>) \/ PreparedFrom(t)

(* What the task has written and published is still there.                 *)
Agreed(t) ==
  alone[t] /\ Writes(t) =>
    /\ \A k \in DOMAIN raw[t] : rawDb[raw[t][k].sku] = << raw[t][k] >>
    /\ Ready(t) /\ pc[t] # "write" =>
         \A s \in read[t] : rdstore[s] <=> status[t] = "success" /\ s \in request[t].active

Places ==
  {"read", "idle", "crawl", "late", "prepare", "write", "raw", "pp", "ended", "dead"}

Codes ==
  {"", "RDSTORE_DATA_MISSING_EARLY", "RDSTORE_WRITE_FAILED", "ETL_PUBLISH_FAILED"}

(* The types of what the tasks and the stores hold.                        *)
Typed ==
  /\ job \in [Tasks -> Jobs]
  /\ pc \in [Tasks -> Places]
  /\ read \in [Tasks -> SUBSET Skus]
  /\ products \in [Tasks -> Seq(Products)]
  /\ status \in [Tasks -> Statuses]
  /\ request \in [Tasks -> Requests]
  /\ messages \in [Tasks -> Seq(Messages)]
  /\ next \in [Tasks -> Nat \ {0}]
  /\ code \in [Tasks -> Codes]
  /\ known \subseteq Skus
  /\ raw \in [Tasks -> Seq(Messages)] /\ pp \in [Tasks -> Seq(Messages)]
  /\ rawDb \in [Skus -> {<< >>} \cup {<< m >> : m \in Messages}]
  /\ written \subseteq Tasks

(* Two variables hold truth values.                                        *)
Flags == rdstore \in [Skus -> BOOLEAN] /\ alone \in [Tasks -> BOOLEAN]

(* The types of what the discoveries hold.                                 *)
DiscoveryTyped ==
  /\ input \in [Sent -> Discovered]
  /\ at \in [Sent -> {"read", "crawl", "filter", "split", "mongo", "answer", "done", "dead"}]
  /\ found \in [Sent -> Seq(Products)]
  /\ inserted \in [Sent -> SUBSET Skus]

(* The goroutine does not start before the discovery has split the         *)
(* variations, and it does not read rdstore nor crawl.                     *)
Started(d) ==
  /\ pc[d] \notin {"read", "crawl", "late"}
  /\ at[d] \in {"read", "crawl", "filter", "split"} =>
       pc[d] = "idle" /\ products[d] = << >> /\ inserted[d] = {}
  /\ at[d] \in {"filter", "split"} /\ Page(d).kind = "product" => found[d] = input[d].crawl

(* What the discovery keeps of its crawl, and what it hands over.          *)
Divided(d) ==
  Splits(Page(d)) =>
    /\ inserted[d] \cap read[d] = {}
    /\ at[d] = "mongo" \/ (at[d] \in {"answer", "done"} /\ input[d].crawl # << >>) =>
         /\ Ids(found[d]) \ {NoSku} = Ids(input[d].crawl) \ (read[d] \cup {NoSku})
         /\ Ids(products[d]) = read[d]

Dividing == DiscoveryTyped /\ \A d \in Sent : Started(d) /\ Divided(d)

Reporting ==
  /\ Typed
  /\ \A t \in Tasks : Kept(t) /\ Published(t) /\ Prepared(t)

-----------------------------------------------------------------------------
(* A set of naturals that is not empty has a least element.                *)
LEMMA Least ==
  ASSUME NEW S, S \subseteq Nat, S # {}
  PROVE  \E m \in S : \A k \in S : m <= k
<1>1. PICK m \in S : \A k \in S : << k, m >> \notin OpToRel(<, Nat)
  BY NatLessThanWellFounded, WFMin
<1>2. \A k \in S : ~(k < m)
  BY <1>1 DEF OpToRel
<1> QED BY <1>2

(* The rank of a position among some of them counts those up to it: it is  *)
(* a bijection, so that Taken lists the products at these positions.       *)
LEMMA RankIsBijection ==
  ASSUME NEW P, P \subseteq Nat, IsFiniteSet(P)
  PROVE  LET rank == [i \in P |-> Cardinality({j \in P : j <= i})]
         IN rank \in Bijection(P, 1..Cardinality(P))
<1> DEFINE Upto(i) == {j \in P : j <= i}
           rank == [i \in P |-> Cardinality(Upto(i))]
           n == Cardinality(P)
<1>1. n \in Nat
  BY FS_CardinalityType
<1>2. ASSUME NEW i \in P
      PROVE  IsFiniteSet(Upto(i)) /\ Cardinality(Upto(i)) \in 1..n
  <2>1. Upto(i) \in SUBSET P /\ i \in Upto(i)
    OBVIOUS
  <2>2. IsFiniteSet(Upto(i)) /\ Cardinality(Upto(i)) <= n
    BY <2>1, FS_Subset
  <2>3. Cardinality(Upto(i)) \in Nat /\ Cardinality(Upto(i)) # 0
    BY <2>1, <2>2, FS_CardinalityType, FS_EmptySet
  <2> QED BY <1>1, <2>2, <2>3
<1>3. ASSUME NEW i \in P, NEW k \in P, i < k
      PROVE  Cardinality(Upto(i)) # Cardinality(Upto(k))
  <2>1. Upto(i) \in SUBSET Upto(k) /\ k \in Upto(k) /\ k \notin Upto(i)
    <3>1. i \in Nat /\ k \in Nat /\ ~(k <= i)
      BY <1>3
    <3>2. \A j \in P : j <= i => j <= k
      BY <1>3, <3>1
    <3>3. Upto(i) \subseteq Upto(k)
      BY <3>2
    <3> QED BY <3>1, <3>3
  <2>2. IsFiniteSet(Upto(k)) /\ Upto(i) # Upto(k)
    BY <1>2, <2>1
  <2> HIDE DEF Upto
  <2> QED BY <2>1, <2>2, FS_Subset
<1>4. rank \in Injection(P, 1..n)
  <2>1. rank \in [P -> 1..n]
    BY <1>2
  <2>2. ASSUME NEW i \in P, NEW k \in P, rank[i] = rank[k] PROVE i = k
    <3>1. Cardinality(Upto(i)) = Cardinality(Upto(k))
      BY <2>2
    <3>2. i < k \/ k < i \/ i = k
      OBVIOUS
    <3> QED BY <1>3, <3>1, <3>2
  <2> QED BY <2>1, <2>2 DEF Injection, IsInjective
<1>5. IsFiniteSet(1..n) /\ Cardinality(1..n) = n
  BY <1>1, FS_Interval
<1>6. rank \in Surjection(P, 1..n)
  <2> HIDE DEF rank
  <2> QED BY <1>4, <1>5, FS_Injection
<1> QED BY <1>4, <1>6 DEF Bijection

LEMMA TakenProperties ==
  ASSUME NEW ps \in Seq(Products), NEW P, P \subseteq DOMAIN ps
  PROVE  /\ Taken(ps, P) \in Seq(Products)
         /\ Ids(Taken(ps, P)) = {ps[i].id : i \in P}
         /\ (\A i, j \in P : ps[i].id = ps[j].id => i = j) =>
              \A j, k \in DOMAIN Taken(ps, P) :
                Taken(ps, P)[j].id = Taken(ps, P)[k].id => j = k
<1> DEFINE n == Cardinality(P)
           Rank(i) == Cardinality({j \in P : j <= i})
           rank == [i \in P |-> Rank(i)]
           pos == [k \in 1..n |-> CHOOSE i \in P : Rank(i) = k]
           taken == Taken(ps, P)
<1>1. P \subseteq Nat /\ IsFiniteSet(P)
  <2>1. DOMAIN ps = 1..Len(ps) /\ Len(ps) \in Nat
    OBVIOUS
  <2>2. IsFiniteSet(1..Len(ps))
    BY <2>1, FS_Interval
  <2> QED BY <2>1, <2>2, FS_Subset
<1>2. rank \in Bijection(P, 1..n)
  BY <1>1, RankIsBijection
<1>3. n \in Nat
  BY <1>1, FS_CardinalityType
<1>4. ASSUME NEW k \in 1..n PROVE pos[k] \in P /\ Rank(pos[k]) = k
  <2>1. PICK i \in P : rank[i] = k
    BY <1>2 DEF Bijection, Surjection
  <2>2. \E j \in P : Rank(j) = k
    BY <2>1
  <2> QED BY <2>2
<1>5. ASSUME NEW i \in P PROVE Rank(i) \in 1..n /\ pos[Rank(i)] = i
  <2>1. Rank(i) \in 1..n
    <3>1. rank[i] \in 1..n
      BY <1>2 DEF Bijection, Injection
    <3> QED BY <3>1
  <2>2. pos[Rank(i)] \in P /\ rank[pos[Rank(i)]] = rank[i]
    BY <1>4, <2>1
  <2> HIDE DEF rank, pos
  <2> QED BY <1>2, <2>1, <2>2 DEF Bijection, Injection, IsInjective
<1>6. taken = [k \in 1..n |-> ps[pos[k]]]
  BY DEF Taken
<1> HIDE DEF taken, pos, Rank
<1>7. DOMAIN taken = 1..n /\ \A k \in 1..n : taken[k] = ps[pos[k]]
  BY <1>6
<1>8. taken \in Seq(Products)
  <2>1. \A k \in 1..n : ps[pos[k]] \in Products
    BY <1>4
  <2> QED BY <1>3, <1>6, <2>1, IsASeq
<1>9. Ids(taken) = {ps[i].id : i \in P}
  <2>1. ASSUME NEW k \in DOMAIN taken PROVE taken[k].id \in {ps[i].id : i \in P}
    BY <1>4, <1>7
  <2>2. ASSUME NEW i \in P PROVE \E k \in DOMAIN taken : taken[k].id = ps[i].id
    BY <1>5, <1>7
  <2> QED BY <2>1, <2>2 DEF Ids
<1>10. ASSUME \A i, j \in P : ps[i].id = ps[j].id => i = j,
              NEW j \in DOMAIN taken, NEW k \in DOMAIN taken, taken[j].id = taken[k].id
       PROVE  j = k
  <2>1. pos[j] = pos[k]
    BY <1>4, <1>7, <1>10
  <2> QED BY <1>4, <1>7, <2>1
<1> QED BY <1>8, <1>9, <1>10 DEF taken

(* Every sku that was crawled has a first product, and one only.           *)
LEMMA FirstOfSku ==
  ASSUME NEW ps \in Seq(Products)
  PROVE  /\ Distinct(ps) \subseteq DOMAIN ps
         /\ {ps[i].id : i \in Distinct(ps)} = Ids(ps) \ {NoSku}
         /\ \A i, j \in Distinct(ps) : ps[i].id = ps[j].id => i = j
<1>1. DOMAIN ps = 1..Len(ps) /\ Len(ps) \in Nat
  OBVIOUS
<1>2. ASSUME NEW i \in DOMAIN ps, ps[i].id # NoSku
      PROVE  \E j \in Distinct(ps) : ps[j].id = ps[i].id
  <2> DEFINE S == {j \in DOMAIN ps : ps[j].id = ps[i].id}
  <2>1. S \subseteq Nat /\ i \in S
    BY <1>1
  <2>2. PICK m \in S : \A k \in S : m <= k
    BY <2>1, Least
  <2>3. ASSUME NEW j \in 1..(m - 1) PROVE ps[j].id # ps[m].id
    <3>1. m \in 1..Len(ps) /\ ps[m].id = ps[i].id
      BY <1>1, <2>2
    <3>2. j \in DOMAIN ps /\ j < m
      BY <1>1, <3>1
    <3> QED BY <2>2, <3>1, <3>2
  <2> QED BY <1>2, <2>2, <2>3 DEF Distinct
<1>3. ASSUME NEW i \in Distinct(ps), NEW j \in Distinct(ps), ps[i].id = ps[j].id, i < j
      PROVE  FALSE
  <2>1. i \in 1..(j - 1)
    BY <1>1, <1>3 DEF Distinct
  <2> QED BY <1>3, <2>1 DEF Distinct
<1>4. \A i, j \in Distinct(ps) : ps[i].id = ps[j].id => i = j
  <2>1. \A i \in Distinct(ps) : i \in Nat
    BY <1>1 DEF Distinct
  <2>2. \A i, j \in Distinct(ps) : i < j \/ j < i \/ i = j
    BY <2>1
  <2> QED BY <1>3, <2>2
<1>5. {ps[i].id : i \in Distinct(ps)} = Ids(ps) \ {NoSku}
  <2>1. ASSUME NEW x \in Ids(ps) \ {NoSku} PROVE \E i \in Distinct(ps) : x = ps[i].id
    <3>1. PICK i \in DOMAIN ps : ps[i].id = x
      BY DEF Ids
    <3>2. PICK j \in Distinct(ps) : ps[j].id = ps[i].id
      BY <1>2, <3>1
    <3> QED BY <3>1, <3>2
  <2>2. ASSUME NEW i \in Distinct(ps) PROVE ps[i].id \in Ids(ps) \ {NoSku}
    BY DEF Distinct, Ids
  <2> QED BY <2>1, <2>2
<1> QED BY <1>4, <1>5 DEF Distinct

(* SetToSeq lists a finite set.                                            *)
LEMMA SetListed ==
  ASSUME NEW S, IsFiniteSet(S)
  PROVE  /\ SetToSeq(S) \in [1..Cardinality(S) -> S]
         /\ Cardinality(S) \in Nat
         /\ \A s \in S : \E k \in 1..Cardinality(S) : SetToSeq(S)[k] = s
         /\ \A j, k \in 1..Cardinality(S) : SetToSeq(S)[j] = SetToSeq(S)[k] => j = k
<1> DEFINE n == Cardinality(S)
<1>1. n \in Nat /\ ExistsBijection(1..n, S)
  BY FS_CardinalityType
<1>2. \E f \in [1..n -> S] : IsInjective(f)
  BY <1>1 DEF ExistsBijection, Bijection, Injection
<1>3. SetToSeq(S) \in [1..n -> S] /\ IsInjective(SetToSeq(S))
  BY <1>2 DEF SetToSeq
<1>4. PICK f : f = SetToSeq(S)
  OBVIOUS
<1>5. f \in Injection(1..n, S)
  BY <1>3, <1>4 DEF Injection
<1>6. IsFiniteSet(1..n) /\ Cardinality(1..n) = n
  BY <1>1, FS_Interval
<1>7. f \in Surjection(1..n, S)
  BY <1>5, <1>6, FS_Injection
<1> QED BY <1>1, <1>3, <1>4, <1>5, <1>7 DEF Surjection, Injection, IsInjective

(* The new variations are those crawled that rdstore does not know.        *)
LEMMA NewVariationsProperties ==
  ASSUME NEW ps \in Seq(Products), NEW skus \in SUBSET Skus
  PROVE  /\ NewVariations(ps, skus) \in Seq(Products)
         /\ Ids(NewVariations(ps, skus)) = Ids(ps) \ (skus \cup {NoSku})
<1> DEFINE P == {i \in Distinct(ps) : ps[i].id \notin skus}
           taken == Taken(ps, P)
<1>1. P \subseteq DOMAIN ps
  BY FirstOfSku
<1>2. {ps[i].id : i \in P} = Ids(ps) \ (skus \cup {NoSku})
  <2>1. {ps[i].id : i \in Distinct(ps)} = Ids(ps) \ {NoSku}
    BY FirstOfSku
  <2> QED BY <2>1
<1>3. taken = NewVariations(ps, skus)
  BY DEF NewVariations
<1> HIDE DEF P
<1>4. taken \in Seq(Products) /\ Ids(taken) = {ps[i].id : i \in P}
  BY <1>1, TakenProperties
<1> QED BY <1>2, <1>3, <1>4

(* The old variations are those that rdstore knows, each of them once,     *)
(* whether it has been crawled, once or twice, or has been missed.         *)
LEMMA OldVariationsProperties ==
  ASSUME NEW ps \in Seq(Products), NEW skus \in SUBSET Skus
  PROVE  /\ OldVariations(ps, skus) \in Seq(Products)
         /\ Enumerates(OldVariations(ps, skus), skus)
<1> DEFINE P == {i \in Distinct(ps) : ps[i].id \in skus}
           taken == Taken(ps, P)
           lost == skus \ Ids(ps)
           missed == SetToSeq(lost)
           disc == [k \in DOMAIN missed |-> ConstructDiscChildSku(missed[k])]
           old == OldVariations(ps, skus)
<1>1. P \subseteq DOMAIN ps
  BY FirstOfSku
<1>3. \A i, j \in P : ps[i].id = ps[j].id => i = j
  BY FirstOfSku
<1>4. {ps[i].id : i \in P} = skus \cap Ids(ps)
  <2>1. NoSku \notin skus
    BY CrawlsAssumption
  <2>2. {ps[i].id : i \in Distinct(ps)} = Ids(ps) \ {NoSku}
    BY FirstOfSku
  <2> QED BY <2>1, <2>2
<1>13. old = taken \o disc
  BY DEF OldVariations
<1> HIDE DEF P
<1>2. /\ taken \in Seq(Products)
      /\ Ids(taken) = {ps[i].id : i \in P}
      /\ \A j, k \in DOMAIN taken : taken[j].id = taken[k].id => j = k
  BY <1>1, <1>3, TakenProperties
<1> HIDE DEF taken
<1>5. Ids(taken) = skus \cap Ids(ps)
  BY <1>2, <1>4
<1>6. \A j, k \in DOMAIN taken : taken[j].id = taken[k].id => j = k
  BY <1>2
<1>7. IsFiniteSet(lost) /\ lost \subseteq Skus
  BY CrawlsAssumption, FS_Subset
<1> DEFINE m == Cardinality(lost)
<1>8. /\ missed \in [1..m -> lost] /\ m \in Nat
      /\ \A s \in lost : \E k \in 1..m : missed[k] = s
      /\ \A j, k \in 1..m : missed[j] = missed[k] => j = k
  BY <1>7, SetListed
<1> HIDE DEF missed, m
<1>9. \A s \in Skus : ConstructDiscChildSku(s) \in Products
                      /\ ConstructDiscChildSku(s).id = s
  BY DEF ConstructDiscChildSku, Products, Activity
<1>10. DOMAIN disc = 1..m /\ \A k \in 1..m : disc[k].id = missed[k] /\ disc[k] \in Products
  BY <1>7, <1>8, <1>9
<1> HIDE DEF disc
<1>11. disc \in Seq(Products) /\ Len(disc) = m
  <2>1. disc = [k \in 1..m |-> disc[k]]
    BY <1>10 DEF disc
  <2>2. disc \in [1..m -> Products]
    BY <1>10, <2>1
  <2>3. disc \in Seq(Products)
    BY <1>8, <2>2
  <2> QED BY <1>8, <1>10, <2>3
<1>12. Ids(disc) = lost
  BY <1>8, <1>10 DEF Ids
<1> HIDE DEF old
<1>14. /\ old \in Seq(Products) /\ Len(old) = Len(taken) + m
       /\ \A k \in 1..Len(taken) : old[k] = taken[k]
       /\ \A k \in (Len(taken) + 1)..(Len(taken) + m) : old[k] = disc[k - Len(taken)]
  BY <1>2, <1>11, <1>13, ConcatProperties
<1> DEFINE n == Len(taken)
<1>15. n \in Nat /\ DOMAIN taken = 1..n /\ DOMAIN old = 1..(n + m)
  BY <1>2, <1>8, <1>14
<1> HIDE DEF n
<1>16. \A k \in DOMAIN old : \/ k \in 1..n /\ old[k] = taken[k]
                             \/ k - n \in 1..m /\ old[k] = disc[k - n]
  <2> SUFFICES ASSUME NEW k \in DOMAIN old
               PROVE  \/ k \in 1..n /\ old[k] = taken[k]
                      \/ k - n \in 1..m /\ old[k] = disc[k - n]
    OBVIOUS
  <2>1. k \in 1..n \/ (k \in (n + 1)..(n + m) /\ k - n \in 1..m)
    BY <1>8, <1>15
  <2> QED BY <1>14, <2>1 DEF n
<1>17. ASSUME NEW j \in 1..n, NEW k \in 1..m PROVE taken[j].id # disc[k].id
  <2>1. taken[j].id \in Ids(ps) /\ disc[k].id \notin Ids(ps)
    <3>1. taken[j].id \in Ids(taken) /\ disc[k].id \in Ids(disc)
      BY <1>10, <1>15 DEF Ids
    <3> QED BY <1>5, <1>12, <3>1
  <2> QED BY <2>1
<1>18. ASSUME NEW j \in DOMAIN old, NEW k \in DOMAIN old, old[j].id = old[k].id
       PROVE  j = k
  <2>0. j \in Nat /\ k \in Nat
    BY <1>15
  <2>1. CASE j \in 1..n /\ k \in 1..n /\ old[j] = taken[j] /\ old[k] = taken[k]
    BY <1>6, <1>15, <1>18, <2>1
  <2>2. CASE j - n \in 1..m /\ k - n \in 1..m /\ old[j] = disc[j - n] /\ old[k] = disc[k - n]
    <3>1. missed[j - n] = missed[k - n]
      BY <1>10, <1>18, <2>2
    <3>2. j - n = k - n
      BY <1>8, <2>2, <3>1
    <3> QED BY <1>15, <2>0, <3>2
  <2> QED BY <1>16, <1>17, <1>18, <2>1, <2>2
<1>19. Ids(old) = Ids(taken) \cup Ids(disc)
  <2>1. ASSUME NEW k \in 1..n PROVE k \in DOMAIN old /\ old[k] = taken[k]
    BY <1>8, <1>14, <1>15 DEF n
  <2>2. ASSUME NEW k \in 1..m PROVE k + n \in DOMAIN old /\ old[k + n] = disc[k]
    <3>1. k + n \in (n + 1)..(n + m) /\ (k + n) - n = k
      BY <1>8, <1>15
    <3> QED BY <1>14, <1>15, <3>1 DEF n
  <2>3. Ids(taken) \subseteq Ids(old)
    BY <1>15, <2>1 DEF Ids
  <2>4. Ids(disc) \subseteq Ids(old)
    BY <1>10, <2>2 DEF Ids
  <2>5. ASSUME NEW k \in DOMAIN old PROVE old[k].id \in Ids(taken) \cup Ids(disc)
    <3>1. CASE k \in 1..n /\ old[k] = taken[k]
      BY <1>15, <3>1 DEF Ids
    <3>2. CASE k - n \in 1..m /\ old[k] = disc[k - n]
      BY <1>10, <3>2 DEF Ids
    <3> QED BY <1>16, <3>1, <3>2
  <2>6. Ids(old) \subseteq Ids(taken) \cup Ids(disc)
    BY <2>5 DEF Ids
  <2> QED BY <2>3, <2>4, <2>6
<1>20. Ids(old) = skus
  BY <1>5, <1>12, <1>19
<1>21. \A j, k \in DOMAIN old : old[j].id = old[k].id => j = k
  BY <1>18
<1> QED BY <1>14, <1>20, <1>21 DEF Enumerates, old


-----------------------------------------------------------------------------
(* A step that leaves everything of one task as it is.                     *)
Still(u) ==
  /\ pc'[u] = pc[u] /\ read'[u] = read[u] /\ products'[u] = products[u]
  /\ status'[u] = status[u] /\ request'[u] = request[u]
  /\ messages'[u] = messages[u] /\ next'[u] = next[u] /\ code'[u] = code[u]
  /\ raw'[u] = raw[u] /\ pp'[u] = pp[u] /\ job'[u] = job[u]

LEMMA StillKeeps ==
  ASSUME NEW u \in Tasks, Still(u), known \subseteq known', written \subseteq written',
         Kept(u), Published(u), Prepared(u)
  PROVE  Kept(u)' /\ Published(u)' /\ Prepared(u)'
<1>1. Writes(u)' = Writes(u) /\ SkusOnly(u)' = SkusOnly(u) /\ Succeeded(u)' = Succeeded(u)
  BY DEF Still, Writes, SkusOnly, Succeeded
<1>2. Kept(u)'
  BY <1>1 DEF Still, Kept
<1>3. Published(u)'
  BY <1>1 DEF Still, Published
<1>4. Ready(u)' = Ready(u) /\ PreparedFrom(u)' = PreparedFrom(u)
  BY <1>1 DEF Still, Ready, PreparedFrom
<1>5. Prepared(u)'
  BY <1>4 DEF Still, Prepared
<1> QED BY <1>2, <1>3, <1>5


(* What an action of a task leaves alone.                                  *)
Leaves(t) ==
  /\ \A u \in Tasks \ {t} : Still(u)
  /\ known' = known /\ written \subseteq written'

LEMMA ReadLeaves == ASSUME Typed, NEW t \in Tasks, ReadRdstore(t) PROVE Leaves(t)
  BY DEF Typed, ReadRdstore, FindVariations, End, Goto, Set, streams, Leaves, Still

LEMMA CrawlLeaves == ASSUME Typed, NEW t \in Tasks, Crawl(t) PROVE Leaves(t)
<1>1. PICK c, s : products' = Set(products, t, c) /\ status' = Set(status, t, s)
  BY DEF Crawl
<1> QED BY <1>1 DEF Typed, Crawl, Goto, Set, streams, Leaves, Still

LEMMA RealtimeReadsLeaves == ASSUME Typed, NEW t \in Tasks, RealtimeReads(t) PROVE Leaves(t)
  BY DEF Typed, RealtimeReads, FindVariations, Goto, Set, streams, Leaves, Still

LEMMA RealtimeLeavesLeaves == ASSUME Typed, NEW t \in Tasks, RealtimeLeaves(t) PROVE Leaves(t)
  BY DEF Typed, RealtimeLeaves, End, Goto, taskVars, streams, Leaves, Still

LEMMA SkipLeaves == ASSUME Typed, NEW t \in Tasks, Skip(t) PROVE Leaves(t)
  BY DEF Typed, Skip, End, Goto, taskVars, streams, Leaves, Still

LEMMA PrepareLeaves == ASSUME Typed, NEW t \in Tasks, Prepare(t) PROVE Leaves(t)
<1>1. PICK p, r, m : /\ products' = Set(products, t, p) \/ products' = products
                     /\ request' = Set(request, t, r) \/ request' = request
                     /\ messages' = Set(messages, t, m) \/ messages' = messages
  BY DEF Prepare
<1> QED BY <1>1 DEF Typed, Prepare, Goto, Set, streams, Leaves, Still

LEMMA WriteLeaves == ASSUME Typed, NEW t \in Tasks, WriteRdstore(t) PROVE Leaves(t)
<1>1. written \subseteq written'
  BY DEF WriteRdstore, WriteDone
<1>2. \A u \in Tasks \ {t} : pc'[u] = pc[u] /\ code'[u] = code[u]
  BY DEF Typed, WriteRdstore, WriteFailed, End, Goto
<1> QED BY <1>1, <1>2 DEF WriteRdstore, taskVars, streams, Leaves, Still

LEMMA PublishRawLeaves == ASSUME Typed, NEW t \in Tasks, PublishRaw(t) PROVE Leaves(t)
<1>1. \A u \in Tasks \ {t} : pc'[u] = pc[u] /\ code'[u] = code[u] /\ next'[u] = next[u]
  BY DEF Typed, PublishRaw, End, Goto, Set
<1>2. \A u \in Tasks \ {t} : raw'[u] = raw[u]
  BY DEF Typed, PublishRaw, Set
<1> QED BY <1>1, <1>2 DEF PublishRaw, Leaves, Still

LEMMA PublishPpLeaves == ASSUME Typed, NEW t \in Tasks, PublishPp(t) PROVE Leaves(t)
<1>1. \A u \in Tasks \ {t} : pc'[u] = pc[u] /\ code'[u] = code[u] /\ next'[u] = next[u]
  BY DEF Typed, PublishPp, PpFailed, End, Goto, Set
<1>2. \A u \in Tasks \ {t} : pp'[u] = pp[u]
  BY DEF Typed, PublishPp, Set
<1> QED BY <1>1, <1>2 DEF PublishPp, Leaves, Still

LEMMA SucceedLeaves == ASSUME Typed, NEW t \in Tasks, Succeed(t) PROVE Leaves(t)
  BY DEF Typed, Succeed, End, Goto, taskVars, streams, Leaves, Still

LEMMA DieLeaves == ASSUME Typed, NEW t \in Tasks, Die(t) PROVE Leaves(t)
  BY DEF Typed, Die, Set, taskVars, streams, Leaves, Still


-----------------------------------------------------------------------------
(* The types, for each of the actions of a task.                           *)
LEMMA ReadTypes == ASSUME Typed, NEW t \in Tasks, ReadRdstore(t) PROVE Typed'
<1>1. pc' \in [Tasks -> Places]
  BY DEF Typed, ReadRdstore, End, Goto, Places
<1>2. code' \in [Tasks -> Codes]
  BY DEF Typed, ReadRdstore, End, Codes
<1>3. read' \in [Tasks -> SUBSET Skus]
  BY DEF Typed, ReadRdstore, FindVariations, Set
<1> QED BY <1>1, <1>2, <1>3 DEF Typed, ReadRdstore, streams

LEMMA CrawlTypes == ASSUME Typed, NEW t \in Tasks, Crawl(t) PROVE Typed'
<1>1. pc' \in [Tasks -> Places]
  BY DEF Typed, Crawl, Goto, Places
<1>2. products' \in [Tasks -> Seq(Products)]
  BY CrawlsAssumption DEF Typed, Crawl, Set
<1>3. status' \in [Tasks -> Statuses]
  BY DEF Typed, Crawl, Set
<1> QED BY <1>1, <1>2, <1>3 DEF Typed, Crawl, streams

LEMMA RealtimeReadsTypes == ASSUME Typed, NEW t \in Tasks, RealtimeReads(t) PROVE Typed'
<1>1. pc' \in [Tasks -> Places]
  BY DEF Typed, RealtimeReads, Goto, Places
<1>2. read' \in [Tasks -> SUBSET Skus]
  BY DEF Typed, RealtimeReads, FindVariations, Set
<1> QED BY <1>1, <1>2 DEF Typed, RealtimeReads, streams

LEMMA EndTypes ==
  ASSUME Typed, NEW t \in Tasks, NEW from,
         NEW c \in Codes, End(t, from, c)
  PROVE  /\ pc' \in [Tasks -> Places]
         /\ code' \in [Tasks -> Codes]
<1>1. pc' \in [Tasks -> Places]
  BY DEF Typed, End, Goto, Places
<1>2. code' \in [Tasks -> Codes]
  BY DEF Typed, End, Codes
<1> QED BY <1>1, <1>2

LEMMA RealtimeLeavesTypes == ASSUME Typed, NEW t \in Tasks, RealtimeLeaves(t) PROVE Typed'
  BY EndTypes DEF Typed, Codes, RealtimeLeaves, taskVars, streams

LEMMA SkipTypes == ASSUME Typed, NEW t \in Tasks, Skip(t) PROVE Typed'
  BY EndTypes DEF Typed, Codes, Skip, taskVars, streams

LEMMA SucceedTypes == ASSUME Typed, NEW t \in Tasks, Succeed(t) PROVE Typed'
  BY EndTypes DEF Typed, Codes, Succeed, taskVars, streams

LEMMA DieTypes == ASSUME Typed, NEW t \in Tasks, Die(t) PROVE Typed'
<1>1. pc' \in [Tasks -> Places]
  BY DEF Typed, Die, Set, Places
<1> QED BY <1>1 DEF Typed, Die, taskVars, streams

(* The messages made of products, and the request.                         *)
LEMMA MessagesTypes ==
  ASSUME NEW ps \in Seq(Products), NEW skus \in SUBSET Skus, Ids(ps) \subseteq skus,
         NEW s \in Statuses
  PROVE  /\ MessagesFor(ps, s) \in Seq(Messages)
         /\ Len(MessagesFor(ps, s)) = Len(ps)
         /\ \A k \in DOMAIN MessagesFor(ps, s) : MessagesFor(ps, s)[k].sku \in skus
<1> DEFINE ms == MessagesFor(ps, s)
<1>1. DOMAIN ps = 1..Len(ps) /\ Len(ps) \in Nat
  OBVIOUS
<1>2. ms = [k \in 1..Len(ps) |-> MessageFor(ps[k], s)]
  BY <1>1 DEF MessagesFor
<1>3. ASSUME NEW k \in 1..Len(ps)
      PROVE  MessageFor(ps[k], s) \in Messages /\ MessageFor(ps[k], s).sku \in skus
  <2>1. ps[k].id \in skus
    BY <1>1 DEF Ids
  <2>2. RawActive(ps[k]) \in BOOLEAN /\ (s = "perm") \in BOOLEAN
    BY DEF RawActive
  <2> QED BY <2>1, <2>2, Zenon DEF MessageFor, Messages
<1>4. ms \in Seq(Messages) /\ Len(ms) = Len(ps)
  BY <1>1, <1>2, <1>3, IsASeq
<1>5. \A k \in 1..Len(ps) : ms[k] = MessageFor(ps[k], s)
  BY <1>2
<1>6. DOMAIN ms = 1..Len(ps)
  BY <1>2
<1> HIDE DEF ms
<1>7. \A k \in DOMAIN ms : ms[k].sku \in skus
  BY <1>3, <1>5, <1>6
<1> QED BY <1>4, <1>7 DEF ms


(* The request names each of the old variations once, as active or not.    *)
LEMMA RequestProperties ==
  ASSUME NEW ps \in Seq(Products), NEW skus \in SUBSET Skus
  PROVE  LET r == RequestFor(ps, skus)
             old == OldVariations(ps, skus)
         IN /\ r \in Requests
            /\ \A k \in DOMAIN old :
                 /\ old[k].id \in r.active <=> RdstoreActive(old[k])
                 /\ old[k].id \in r.inactive <=> ~RdstoreActive(old[k])
<1> DEFINE old == OldVariations(ps, skus)
           On == {p.id : p \in {q \in Range(old) : RdstoreActive(q)}}
           Off == {p.id : p \in {q \in Range(old) : ~RdstoreActive(q)}}
           new == NewVariations(ps, skus) # << >>
<1>1. RequestFor(ps, skus) = [forcediscover |-> new, active |-> On, inactive |-> Off]
  BY DEF RequestFor
<1>2. old \in Seq(Products) /\ Enumerates(old, skus)
  BY OldVariationsProperties
<1>3. new \in BOOLEAN
  OBVIOUS
<1> HIDE DEF old, new
<1>4. Range(old) = {old[k] : k \in DOMAIN old}
  BY DEF Range
<1>5. \A k, j \in DOMAIN old : old[k].id = old[j].id => k = j
  BY <1>2 DEF Enumerates
<1>6. ASSUME NEW k \in DOMAIN old
      PROVE  /\ old[k].id \in On <=> RdstoreActive(old[k])
             /\ old[k].id \in Off <=> ~RdstoreActive(old[k])
  <2>1. RdstoreActive(old[k]) => old[k].id \in On
    BY <1>4
  <2>2. ~RdstoreActive(old[k]) => old[k].id \in Off
    BY <1>4
  <2>3. ASSUME old[k].id \in On PROVE RdstoreActive(old[k])
    <3>1. PICK p \in Range(old) : RdstoreActive(p) /\ p.id = old[k].id
      BY <2>3
    <3>2. PICK j \in DOMAIN old : p = old[j]
      BY <1>4, <3>1
    <3> QED BY <1>5, <3>1, <3>2
  <2>4. ASSUME old[k].id \in Off PROVE ~RdstoreActive(old[k])
    <3>1. PICK p \in Range(old) : ~RdstoreActive(p) /\ p.id = old[k].id
      BY <2>4
    <3>2. PICK j \in DOMAIN old : p = old[j]
      BY <1>4, <3>1
    <3> QED BY <1>5, <3>1, <3>2
  <2> QED BY <2>1, <2>2, <2>3, <2>4
<1>7. On \in SUBSET Skus /\ Off \in SUBSET Skus
  <2>1. \A k \in DOMAIN old : old[k].id \in skus
    BY <1>2 DEF Enumerates, Ids
  <2>2. \A p \in Range(old) : p.id \in Skus
    BY <1>4, <2>1
  <2> QED BY <2>2
<1> HIDE DEF On, Off
<1>8. RequestFor(ps, skus) \in Requests
  <2>1. [forcediscover |-> new, active |-> On, inactive |-> Off] \in Requests
    BY <1>3, <1>7, Zenon DEF Requests
  <2> QED BY <1>1, <2>1, Zenon
<1>9. RequestFor(ps, skus).active = On /\ RequestFor(ps, skus).inactive = Off
  BY <1>1
<1> QED BY <1>6, <1>8, <1>9 DEF old

LEMMA PrepareTypes == ASSUME Typed, NEW t \in Tasks, Prepare(t) PROVE Typed'
<1>1. pc' \in [Tasks -> Places]
  BY DEF Typed, Prepare, Goto, Places
<1>2. products[t] \in Seq(Products) /\ read[t] \in SUBSET Skus /\ status[t] \in Statuses
  BY DEF Typed
<1> DEFINE old == OldVariations(products[t], read[t])
<1>3. /\ RequestFor(products[t], read[t]) \in Requests
      /\ old \in Seq(Products)
      /\ MessagesFor(old, status[t]) \in Seq(Messages)
  <2>1. RequestFor(products[t], read[t]) \in Requests
    BY <1>2, RequestProperties
  <2>2. old \in Seq(Products) /\ Ids(old) = read[t]
    BY <1>2, OldVariationsProperties DEF Enumerates
  <2> HIDE DEF old
  <2>3. MessagesFor(old, status[t]) \in Seq(Messages)
    BY <1>2, <2>2, MessagesTypes
  <2> QED BY <2>1, <2>2, <2>3
<1>4. /\ products' \in [Tasks -> Seq(Products)]
      /\ request' \in [Tasks -> Requests]
      /\ messages' \in [Tasks -> Seq(Messages)]
  <2>1. CASE status[t] = "temp"
    BY <2>1 DEF Typed, Prepare
  <2>2. CASE status[t] # "temp"
    <3>1. /\ products' = Set(products, t, old)
          /\ request' = Set(request, t, RequestFor(products[t], read[t]))
          /\ messages' = Set(messages, t, MessagesFor(old, status[t]))
      BY <2>2, Zenon DEF Prepare
    <3> HIDE DEF old
    <3> QED BY <1>3, <3>1 DEF Typed, Set
  <2> QED BY <2>1, <2>2
<1> QED BY <1>1, <1>4 DEF Typed, Prepare, streams

LEMMA WriteTypes == ASSUME Typed, NEW t \in Tasks, WriteRdstore(t) PROVE Typed'
<1>1. pc' \in [Tasks -> Places] /\ code' \in [Tasks -> Codes]
  <2>1. CASE WriteFailed(t)
    BY <2>1, EndTypes DEF WriteFailed, Codes
  <2>2. CASE Goto(t, "write", "raw") /\ UNCHANGED code
    BY <2>2 DEF Typed, Goto, Places
  <2> QED BY <2>1, <2>2 DEF WriteRdstore
<1>2. written' \subseteq Tasks
  BY DEF Typed, WriteRdstore, WriteDone
<1> QED BY <1>1, <1>2 DEF Typed, WriteRdstore, taskVars, streams

LEMMA PublishRawTypes ==
  ASSUME Typed, NEW t \in Tasks, PublishRaw(t)
  PROVE  Typed' /\ Message(t) \in Messages /\ next[t] \in DOMAIN messages[t]
<1>1. Message(t) \in Messages /\ next[t] \in DOMAIN messages[t]
  <2>1. messages[t] \in Seq(Messages) /\ next[t] \in Nat \ {0}
    BY DEF Typed
  <2>2. next[t] \in 1..Len(messages[t])
    BY <2>1 DEF PublishRaw, Left
  <2> QED BY <2>1, <2>2 DEF Message
<1>2. pc' \in [Tasks -> Places] /\ code' \in [Tasks -> Codes]
  <2>1. CASE End(t, "raw", "ETL_PUBLISH_FAILED")
    BY <2>1, EndTypes DEF Codes
  <2>2. CASE UNCHANGED << pc, code >>
    BY <2>2 DEF Typed
  <2>3. CASE Goto(t, "raw", "pp") /\ UNCHANGED code
    BY <2>3 DEF Typed, Goto, Places
  <2> QED BY <2>1, <2>2, <2>3 DEF PublishRaw
<1>3. next' \in [Tasks -> Nat \ {0}]
  <2>1. next[t] + 1 \in Nat \ {0}
    BY DEF Typed
  <2>2. next' = next \/ next' = Set(next, t, next[t] + 1)
    BY DEF PublishRaw
  <2> QED BY <2>1, <2>2 DEF Typed, Set
<1>4. raw' \in [Tasks -> Seq(Messages)]
  <2>1. Append(raw[t], Message(t)) \in Seq(Messages)
    BY <1>1 DEF Typed
  <2> QED BY <2>1 DEF Typed, PublishRaw, Set
<1>5. rawDb' \in [Skus -> {<< >>} \cup {<< m >> : m \in Messages}]
  <2>1. PICK one : one = << Message(t) >>
    OBVIOUS
  <2>2. one \in {<< >>} \cup {<< m >> : m \in Messages}
    BY <1>1, <2>1
  <2>3. rawDb' = rawDb \/ rawDb' = [rawDb EXCEPT ![Message(t).sku] = one]
    BY <2>1 DEF PublishRaw
  <2> QED BY <2>2, <2>3 DEF Typed
<1> QED BY <1>1, <1>2, <1>3, <1>4, <1>5 DEF Typed, PublishRaw

LEMMA PublishPpTypes ==
  ASSUME Typed, NEW t \in Tasks, PublishPp(t), next[t] \in DOMAIN messages[t]
  PROVE  Typed' /\ Message(t) \in Messages
<1>1. Message(t) \in Messages
  BY DEF Typed, Message
<1>2. pc' \in [Tasks -> Places] /\ code' \in [Tasks -> Codes]
  <2>1. CASE End(t, "pp", "ETL_PUBLISH_FAILED")
    BY <2>1, EndTypes DEF Codes
  <2>2. CASE Goto(t, "pp", "raw") /\ UNCHANGED code
    BY <2>2 DEF Typed, Goto, Places
  <2> QED BY <2>1, <2>2 DEF PublishPp, PpFailed
<1>3. next' \in [Tasks -> Nat \ {0}]
  <2>1. next[t] + 1 \in Nat \ {0}
    BY DEF Typed
  <2>2. next' = next \/ next' = Set(next, t, next[t] + 1)
    BY DEF PublishPp, PpFailed
  <2> QED BY <2>1, <2>2 DEF Typed, Set
<1>4. pp' \in [Tasks -> Seq(Messages)]
  <2>1. Append(pp[t], Message(t)) \in Seq(Messages)
    BY <1>1 DEF Typed
  <2> QED BY <2>1 DEF Typed, PublishPp, Set
<1> QED BY <1>1, <1>2, <1>3, <1>4 DEF Typed, PublishPp


-----------------------------------------------------------------------------
(* What one task has to show.                                              *)
Reports(t) == Kept(t) /\ Published(t) /\ Prepared(t)

LEMMA BeginsReflexive == ASSUME NEW s \in Seq(Messages) PROVE Begins(s, s)
  BY DEF Begins

(* Before the write nothing has to be shown of what is published.          *)
LEMMA EarlyReports ==
  ASSUME NEW t \in Tasks, raw[t] = << >>, pp[t] = << >>, next[t] = 1, messages[t] = << >>,
         UNCHANGED << raw, pp, next, messages >>,
         pc'[t] \in {"idle", "crawl", "late", "prepare"},
         read'[t] \subseteq known', pc'[t] = "late" => t \in Realtime,
         t \in Realtime /\ pc'[t] \in {"crawl", "late"} => read'[t] = {}
  PROVE  Reports(t)'
<1>1. Kept(t)'
  BY DEF Kept, BeforeWrite
<1>2. ~Ready(t)' /\ ~Succeeded(t)'
  BY DEF Ready, Succeeded
<1>3. Published(t)'
  BY <1>2 DEF Published, Begins
<1>4. Prepared(t)'
  BY <1>2 DEF Prepared
<1> QED BY <1>1, <1>3, <1>4 DEF Reports

(* A task that is early has published nothing.                             *)
LEMMA EarlyKept ==
  ASSUME NEW t \in Tasks, Kept(t), pc[t] \in BeforeWrite \ {"write"}
  PROVE  raw[t] = << >> /\ pp[t] = << >> /\ next[t] = 1 /\ messages[t] = << >>
  BY DEF Kept

(* A task that ends, or dies, leaves what it has published.                *)
LEMMA EndReports ==
  ASSUME NEW t \in Tasks, Reports(t),
         UNCHANGED << raw, pp, next, messages, read, status, job, request, products, known >>,
         pc'[t] \in {"ended", "dead"}, written \subseteq written', ~Succeeded(t)'
  PROVE  Reports(t)'
<1>1. Writes(t)' = Writes(t)
  BY DEF Writes
<1>2. Kept(t)'
  BY <1>1 DEF Reports, Kept, BeforeWrite
<1>3. Published(t)'
  BY DEF Reports, Published
<1>4. ~Ready(t)'
  BY DEF Ready
<1>5. Prepared(t)'
  BY <1>4 DEF Reports, Prepared
<1> QED BY <1>2, <1>3, <1>5 DEF Reports

LEMMA ReadReports ==
  ASSUME Reporting, NEW t \in Tasks, ReadRdstore(t) PROVE Reports(t)'
<1>1. /\ UNCHANGED << raw, pp, next, messages, status, job, request, products, known, written >>
      /\ pc[t] = "read" /\ read'[t] = known
  BY DEF Reporting, Typed, ReadRdstore, FindVariations, Set, End, Goto, streams
<1>2. raw[t] = << >> /\ pp[t] = << >> /\ next[t] = 1 /\ messages[t] = << >>
  BY <1>1, EarlyKept DEF Reporting, BeforeWrite
<1>3. CASE pc'[t] = "crawl"
  <2>1. t \notin Realtime
    BY <1>1 DEF Reporting, Prepared
  <2> QED BY <1>1, <1>2, <1>3, <2>1, EarlyReports
<1>4. CASE pc'[t] = "ended" /\ code'[t] # ""
  <2>1. ~Succeeded(t)' /\ ~Ready(t)'
    BY <1>4 DEF Succeeded, Ready
  <2>2. pc'[t] = "ended"
    BY <1>4
  <2>3. Kept(t)'
    BY <1>1, <1>2, <2>2 DEF Kept, BeforeWrite
  <2>4. Published(t)'
    BY <1>1, <1>2, <2>1, <2>2 DEF Published, Begins
  <2>5. Prepared(t)'
    BY <1>1, <1>2, <2>1, <2>2 DEF Prepared
  <2> QED BY <2>3, <2>4, <2>5 DEF Reports
<1> QED BY <1>3, <1>4 DEF Reporting, Typed, ReadRdstore, End, Goto

LEMMA CrawlReports == ASSUME Reporting, NEW t \in Tasks, Crawl(t) PROVE Reports(t)'
<1>1. /\ UNCHANGED << raw, pp, next, messages, read, known >>
      /\ pc[t] = "crawl"
      /\ pc'[t] = IF t \in Realtime THEN "late" ELSE "prepare"
  BY DEF Reporting, Typed, Crawl, Goto, streams
<1>2. raw[t] = << >> /\ pp[t] = << >> /\ next[t] = 1 /\ messages[t] = << >>
  BY <1>1, EarlyKept DEF Reporting, BeforeWrite
<1>3. read[t] \subseteq known /\ (t \in Realtime => read[t] = {})
  BY <1>1 DEF Reporting, Prepared
<1> QED BY <1>1, <1>2, <1>3, EarlyReports

LEMMA RealtimeReadsReports ==
  ASSUME Reporting, NEW t \in Tasks, RealtimeReads(t) PROVE Reports(t)'
<1>1. /\ UNCHANGED << raw, pp, next, messages, known >>
      /\ pc[t] = "late" /\ pc'[t] = "prepare" /\ read'[t] = known
  BY DEF Reporting, Typed, RealtimeReads, FindVariations, Set, Goto, streams
<1>2. raw[t] = << >> /\ pp[t] = << >> /\ next[t] = 1 /\ messages[t] = << >>
  BY <1>1, EarlyKept DEF Reporting, BeforeWrite
<1> QED BY <1>1, <1>2, EarlyReports

LEMMA RealtimeLeavesReports ==
  ASSUME Reporting, NEW t \in Tasks, RealtimeLeaves(t) PROVE Reports(t)'
<1>1. /\ UNCHANGED << raw, pp, next, messages, read, status, known, written, job >>
      /\ pc[t] = "late" /\ pc'[t] = "ended"
  BY DEF Reporting, Typed, RealtimeLeaves, End, Goto, taskVars, streams
<1>2. raw[t] = << >> /\ pp[t] = << >> /\ next[t] = 1 /\ messages[t] = << >>
  BY <1>1, EarlyKept DEF Reporting, BeforeWrite
<1>3. read[t] = {}
  BY <1>1 DEF Reporting, Prepared
<1>4. Kept(t)'
  BY <1>1, <1>2 DEF Kept, BeforeWrite
<1>5. Published(t)'
  BY <1>1, <1>2 DEF Published, Begins
<1>6. Prepared(t)'
  BY <1>1, <1>2, <1>3 DEF Prepared
<1> QED BY <1>4, <1>5, <1>6 DEF Reports

LEMMA SkipReports == ASSUME Reporting, NEW t \in Tasks, Skip(t) PROVE Reports(t)'
<1>1. /\ UNCHANGED << raw, pp, next, messages, read, status, job, request, products, known,
                      written >>
      /\ pc'[t] = "ended" /\ job[t].source = "M101"
  BY DEF Reporting, Typed, Skip, End, Goto, taskVars, streams
<1>2. ~Succeeded(t)'
  BY <1>1 DEF Succeeded
<1> QED BY <1>1, <1>2, EndReports DEF Reporting, Reports

LEMMA DieReports == ASSUME Reporting, NEW t \in Tasks, Die(t) PROVE Reports(t)'
<1>1. /\ UNCHANGED << raw, pp, next, messages, read, status, job, request, products, known,
                      written >>
      /\ pc'[t] = "dead"
  BY DEF Reporting, Typed, Die, Set, taskVars, streams
<1>2. ~Succeeded(t)'
  BY <1>1 DEF Succeeded
<1> QED BY <1>1, <1>2, EndReports DEF Reporting, Reports


(* What has been prepared stays.                                           *)
LEMMA StaysPrepared ==
  ASSUME NEW t \in Tasks, Prepared(t), Ready(t)' => Ready(t),
         UNCHANGED << messages, read, known, status, products, request >>,
         pc'[t] \in {"write", "raw", "pp", "ended", "dead"}
  PROVE  Prepared(t)'
<1>1. PreparedFrom(t)' = PreparedFrom(t)
  BY DEF PreparedFrom
<1> QED BY <1>1 DEF Prepared

LEMMA PrepareReports == ASSUME Reporting, NEW t \in Tasks, Prepare(t) PROVE Reports(t)'
<1>1. /\ UNCHANGED << raw, pp, next, read, status, known, written, job >>
      /\ pc[t] = "prepare" /\ pc'[t] = "write"
  BY DEF Reporting, Typed, Prepare, Goto, streams
<1>2. raw[t] = << >> /\ pp[t] = << >> /\ next[t] = 1 /\ messages[t] = << >>
  BY <1>1, EarlyKept DEF Reporting, BeforeWrite
<1>3. Kept(t)'
  BY <1>1, <1>2 DEF Kept, BeforeWrite
<1>4. messages'[t] \in Seq(Messages)
  BY PrepareTypes DEF Reporting, Typed
<1>5. Published(t)'
  BY <1>1, <1>2, <1>4 DEF Published, Begins, Succeeded
<1>6. Prepared(t)'
  <2>1. read[t] \subseteq known
    BY DEF Reporting, Prepared
  <2>2. CASE status[t] = "temp"
    <3>1. messages'[t] = << >> /\ ~Ready(t)'
      BY <1>1, <1>2, <2>2 DEF Prepare, Ready
    <3> QED BY <1>1, <2>1, <3>1 DEF Prepared
  <2>3. CASE status[t] # "temp"
    <3> DEFINE old == OldVariations(products[t], read[t])
    <3>1. products[t] \in Seq(Products) /\ read[t] \in SUBSET Skus /\ status[t] \in Statuses
      BY DEF Reporting, Typed
    <3>2. old \in Seq(Products) /\ Enumerates(old, read[t])
      BY <3>1, OldVariationsProperties
    <3>3. /\ products'[t] = old /\ request'[t] = RequestFor(products[t], read[t])
          /\ messages'[t] = MessagesFor(old, status[t])
      BY <2>3 DEF Reporting, Typed, Prepare, Set
    <3>4. \A k \in DOMAIN old :
            /\ old[k].id \in RequestFor(products[t], read[t]).active <=> RdstoreActive(old[k])
            /\ old[k].id \in RequestFor(products[t], read[t]).inactive <=> ~RdstoreActive(old[k])
      BY <3>1, RequestProperties
    <3> HIDE DEF old
    <3>5. \A k \in DOMAIN messages'[t] : messages'[t][k].sku \in read[t]
      BY <3>1, <3>2, <3>3, MessagesTypes DEF Enumerates
    <3>6. PreparedFrom(t)'
      BY <1>1, <3>2, <3>3, <3>4 DEF PreparedFrom, RdstoreActive
    <3> QED BY <1>1, <2>1, <3>5, <3>6 DEF Prepared
  <2> QED BY <2>2, <2>3
<1> QED BY <1>3, <1>5, <1>6 DEF Reports

LEMMA WriteReports == ASSUME Reporting, NEW t \in Tasks, WriteRdstore(t) PROVE Reports(t)'
<1>1. /\ UNCHANGED << raw, pp, next, messages, read, status, job, request, products, known >>
      /\ pc[t] = "write"
  BY DEF WriteRdstore, WriteFailed, End, Goto, taskVars, streams
<1>2. written \subseteq written'
  BY DEF WriteRdstore, WriteDone
<1>3. CASE WriteFailed(t)
  <2>1. pc'[t] = "ended" /\ ~Succeeded(t)'
    BY <1>3 DEF Reporting, Typed, WriteFailed, End, Goto, Succeeded
  <2> QED BY <1>1, <1>2, <2>1, EndReports DEF Reporting, Reports
<1>4. CASE ~WriteFailed(t)
  <2>1. pc'[t] = "raw" /\ (Writes(t) => t \in written')
    BY <1>4 DEF Reporting, Typed, WriteRdstore, WriteDone, Goto
  <2>2. raw[t] = << >> /\ pp[t] = << >> /\ next[t] = 1
    BY <1>1 DEF Reporting, Kept, BeforeWrite
  <2>3. Kept(t)'
    BY <1>1, <2>1, <2>2 DEF Kept, BeforeWrite, Writes
  <2>4. messages[t] \in Seq(Messages)
    BY DEF Reporting, Typed
  <2>5. Published(t)'
    BY <1>1, <2>1, <2>2, <2>4 DEF Published, Begins, Succeeded
  <2>6. Ready(t)' => Ready(t)
    BY <1>1 DEF Ready
  <2>7. Prepared(t)'
    BY <1>1, <2>1, <2>6, StaysPrepared DEF Reporting
  <2> QED BY <2>3, <2>5, <2>7 DEF Reports
<1> QED BY <1>3, <1>4

(* One more message has been published.                                    *)
LEMMA OneMore ==
  ASSUME NEW s \in Seq(Messages), NEW q \in Seq(Messages), Begins(s, q), Len(s) < Len(q),
         NEW m, m = q[Len(s) + 1], NEW r \in Seq(Messages), Begins(r, s)
  PROVE  /\ Begins(Append(s, m), q) /\ Begins(r, Append(s, m))
         /\ Len(Append(s, m)) = Len(s) + 1 /\ Append(s, m) # << >>
<1> DEFINE more == Append(s, m)
<1>1. Len(s) + 1 \in 1..Len(q)
  OBVIOUS
<1>2. more \in Seq(Messages) /\ Len(more) = Len(s) + 1
  BY <1>1
<1>3. \A k \in 1..Len(s) : more[k] = s[k]
  BY <1>1
<1>4. more[Len(s) + 1] = q[Len(s) + 1]
  BY <1>1
<1> HIDE DEF more
<1>5. Begins(more, q)
  <2>1. Len(more) <= Len(q)
    BY <1>1, <1>2
  <2>2. ASSUME NEW k \in 1..Len(more) PROVE more[k] = q[k]
    <3>1. k \in 1..Len(s) \/ k = Len(s) + 1
      BY <1>2
    <3> QED BY <1>3, <1>4, <3>1 DEF Begins
  <2> QED BY <2>1, <2>2 DEF Begins
<1>6. Begins(r, more)
  BY <1>2, <1>3 DEF Begins
<1>7. more # << >>
  BY <1>2
<1> QED BY <1>2, <1>5, <1>6, <1>7 DEF more

LEMMA PublishRawReports == ASSUME Reporting, NEW t \in Tasks, PublishRaw(t) PROVE Reports(t)'
<1>1. /\ UNCHANGED << pp, messages, read, status, job, request, products, known, written >>
      /\ pc[t] = "raw"
  BY DEF PublishRaw
<1>2. /\ raw[t] \in Seq(Messages) /\ pp[t] \in Seq(Messages) /\ messages[t] \in Seq(Messages)
      /\ next[t] \in Nat \ {0} /\ next[t] <= Len(messages[t])
  BY DEF Reporting, Typed, PublishRaw, Left
<1>3. /\ Begins(raw[t], messages[t]) /\ Begins(pp[t], raw[t])
      /\ Len(raw[t]) = next[t] - 1
      /\ Len(pp[t]) = IF SkusOnly(t) THEN 0 ELSE next[t] - 1
  BY <1>1 DEF Reporting, Published
<1>4. Writes(t)' = Writes(t) /\ (Writes(t) => t \in written) /\ SkusOnly(t)' = SkusOnly(t)
  BY <1>1 DEF Reporting, Kept, Writes, SkusOnly
<1>5. Ready(t)' => Ready(t)
  BY <1>1 DEF Ready
<1> DEFINE more == Append(raw[t], Message(t))
<1>6. Message(t) = messages[t][Len(raw[t]) + 1]
  BY <1>2, <1>3 DEF Message
<1>7. /\ Begins(more, messages[t]) /\ Len(more) = next[t] /\ more # << >>
      /\ Begins(pp[t], more)
  <2>1. Len(raw[t]) < Len(messages[t])
    BY <1>2, <1>3
  <2>2. /\ Begins(more, messages[t]) /\ Begins(pp[t], more) /\ more # << >>
        /\ Len(more) = Len(raw[t]) + 1
    BY <1>2, <1>3, <1>6, <2>1, OneMore
  <2> QED BY <1>2, <1>3, <2>2
<1> HIDE DEF more
<1>8. CASE UNCHANGED raw /\ End(t, "raw", "ETL_PUBLISH_FAILED") /\ UNCHANGED next
  <2>1. pc'[t] = "ended" /\ ~Succeeded(t)'
    BY <1>8 DEF Reporting, Typed, End, Goto, Succeeded
  <2> QED BY <1>1, <1>8, <2>1, EndReports DEF Reporting, Reports
<1>9. ASSUME raw'[t] = more, pc'[t] \in {"raw", "pp", "ended"}, ~Succeeded(t)',
             pc'[t] = "raw" => SkusOnly(t) /\ next'[t] = next[t] + 1,
             pc'[t] = "pp" => ~SkusOnly(t) /\ next'[t] = next[t]
      PROVE  Reports(t)'
  <2>1. Kept(t)'
    BY <1>4, <1>9, <1>1 DEF Kept, BeforeWrite
  <2>2. Published(t)'
    BY <1>1, <1>2, <1>3, <1>4, <1>7, <1>9 DEF Published
  <2>3. Prepared(t)'
    BY <1>1, <1>5, <1>9, StaysPrepared DEF Reporting
  <2> QED BY <2>1, <2>2, <2>3 DEF Reports
<1>10. CASE raw' = Set(raw, t, Append(raw[t], Message(t)))
  <2>1. raw'[t] = more
    BY <1>10 DEF Reporting, Typed, Set, more
  <2>2. CASE End(t, "raw", "ETL_PUBLISH_FAILED")
    <3>1. pc'[t] = "ended" /\ ~Succeeded(t)'
      BY <2>2 DEF Reporting, Typed, End, Goto, Succeeded
    <3> QED BY <1>9, <2>1, <3>1
  <2>3. CASE SkusOnly(t) /\ next' = Set(next, t, next[t] + 1) /\ UNCHANGED << pc, code >>
    <3>1. pc'[t] = "raw" /\ next'[t] = next[t] + 1
      BY <1>1, <2>3 DEF Reporting, Typed, Set
    <3> QED BY <1>9, <2>1, <2>3, <3>1 DEF Succeeded
  <2>4. CASE ~SkusOnly(t) /\ Goto(t, "raw", "pp") /\ UNCHANGED << next, code >>
    <3>1. pc'[t] = "pp"
      BY <2>4 DEF Reporting, Typed, Goto
    <3> QED BY <1>9, <2>1, <2>4, <3>1 DEF Succeeded
  <2> QED BY <1>8, <2>2, <2>3, <2>4 DEF PublishRaw
<1> QED BY <1>8, <1>10 DEF PublishRaw

(* The message that the processing pipeline gets is in the raw db stream.  *)
LEMMA PpMessage ==
  ASSUME Reporting, NEW t \in Tasks, pc[t] = "pp"
  PROVE  /\ next[t] \in DOMAIN messages[t] /\ next[t] = Len(raw[t])
         /\ raw[t][next[t]] = Message(t)
<1>1. messages[t] \in Seq(Messages) /\ next[t] \in Nat \ {0} /\ raw[t] \in Seq(Messages)
  BY DEF Reporting, Typed
<1>2. Begins(raw[t], messages[t]) /\ Len(raw[t]) = next[t]
  BY DEF Reporting, Published
<1> QED BY <1>1, <1>2 DEF Begins, Message

LEMMA PublishPpReports == ASSUME Reporting, NEW t \in Tasks, PublishPp(t) PROVE Reports(t)'
<1>1. /\ UNCHANGED << raw, messages, read, status, job, request, products, known, written >>
      /\ pc[t] = "pp"
  BY DEF PublishPp
<1>2. /\ raw[t] \in Seq(Messages) /\ pp[t] \in Seq(Messages) /\ messages[t] \in Seq(Messages)
      /\ next[t] \in Nat \ {0}
  BY DEF Reporting, Typed
<1>3. /\ Begins(raw[t], messages[t]) /\ Begins(pp[t], raw[t])
      /\ ~SkusOnly(t) /\ Len(raw[t]) = next[t] /\ Len(pp[t]) = next[t] - 1
  BY <1>1 DEF Reporting, Published
<1>4. Writes(t)' = Writes(t) /\ (Writes(t) => t \in written) /\ SkusOnly(t)' = SkusOnly(t)
  BY <1>1 DEF Reporting, Kept, Writes, SkusOnly
<1>5. Ready(t)' => Ready(t)
  BY <1>1 DEF Ready
<1> DEFINE more == Append(pp[t], Message(t))
<1>6. Message(t) = raw[t][Len(pp[t]) + 1]
  BY <1>1, <1>2, <1>3, PpMessage
<1>7. Begins(more, raw[t]) /\ Len(more) = next[t]
  <2>1. Begins(pp[t], pp[t]) /\ Len(pp[t]) < Len(raw[t])
    BY <1>2, <1>3, BeginsReflexive
  <2>2. Begins(more, raw[t]) /\ Len(more) = Len(pp[t]) + 1
    BY <1>2, <1>3, <1>6, <2>1, OneMore
  <2> QED BY <1>2, <1>3, <2>2
<1> HIDE DEF more
<1>8. ASSUME pp'[t] = more \/ pp'[t] = pp[t],
             ~Succeeded(t)',
             \/ pc'[t] = "ended"
             \/ pc'[t] = "raw" /\ pp'[t] = more /\ next'[t] = next[t] + 1
      PROVE  Reports(t)'
  <2>1. Kept(t)'
    BY <1>1, <1>4, <1>8 DEF Kept, BeforeWrite
  <2>2. Published(t)'
    BY <1>1, <1>2, <1>3, <1>4, <1>7, <1>8 DEF Published
  <2>3. Prepared(t)'
    BY <1>1, <1>5, <1>8, StaysPrepared DEF Reporting
  <2> QED BY <2>1, <2>2, <2>3 DEF Reports
<1>9. pp'[t] = more \/ pp'[t] = pp[t]
  BY DEF Reporting, Typed, PublishPp, Set, more
<1>10. CASE PpFailed(t)
  <2>1. pc'[t] = "ended" /\ ~Succeeded(t)'
    BY <1>10 DEF Reporting, Typed, PpFailed, End, Goto, Succeeded
  <2> QED BY <1>8, <1>9, <2>1
<1>11. CASE ~PpFailed(t)
  <2>1. pc'[t] = "raw" /\ next'[t] = next[t] + 1 /\ pp'[t] = more
    BY <1>11 DEF Reporting, Typed, PublishPp, Goto, Set, more
  <2>2. ~Succeeded(t)'
    BY <2>1 DEF Succeeded
  <2> QED BY <1>8, <2>1, <2>2
<1> QED BY <1>10, <1>11

LEMMA SucceedReports == ASSUME Reporting, NEW t \in Tasks, Succeed(t) PROVE Reports(t)'
<1>1. /\ UNCHANGED << raw, pp, next, messages, read, status, job, request, products, known,
                      written >>
      /\ pc[t] = "raw" /\ pc'[t] = "ended" /\ ~Left(t)
  BY DEF Reporting, Typed, Succeed, End, Goto, taskVars, streams
<1>2. Writes(t)' = Writes(t) /\ SkusOnly(t)' = SkusOnly(t)
  BY <1>1 DEF Writes, SkusOnly
<1>3. Kept(t)'
  BY <1>1, <1>2 DEF Reporting, Kept, BeforeWrite
<1>4. Ready(t)' => Ready(t)
  BY <1>1 DEF Ready
<1>5. Prepared(t)'
  BY <1>1, <1>4, StaysPrepared DEF Reporting
<1>6. Len(raw[t]) = Len(messages[t])
  <2>1. raw[t] \in Seq(Messages) /\ messages[t] \in Seq(Messages) /\ next[t] \in Nat
    BY DEF Reporting, Typed
  <2>2. Len(raw[t]) = next[t] - 1 /\ Len(raw[t]) <= Len(messages[t])
    BY <1>1 DEF Reporting, Published, Begins
  <2> QED BY <1>1, <2>1, <2>2 DEF Left
<1>7. Published(t)'
  <2>1. /\ Begins(raw[t], messages[t]) /\ Begins(pp[t], raw[t])
        /\ Len(raw[t]) = next[t] - 1
        /\ Len(pp[t]) = IF SkusOnly(t) THEN 0 ELSE next[t] - 1
    BY <1>1 DEF Reporting, Published
  <2> QED BY <1>1, <1>2, <1>6, <2>1 DEF Published
<1> QED BY <1>3, <1>5, <1>7 DEF Reports


-----------------------------------------------------------------------------
LEMMA InitReporting == Init => Reporting
<1> SUFFICES ASSUME Init PROVE Reporting
  OBVIOUS
<1>1. pc \in [Tasks -> Places]
  BY DEF Init, FirstStep, Places
<1>2. code \in [Tasks -> Codes]
  BY DEF Init, Codes
<1>3. NoRequest \in Requests
  BY Zenon DEF NoRequest, Requests
<1>4. request \in [Tasks -> Requests]
  BY <1>3 DEF Init
<1>5. rawDb \in [Skus -> {<< >>} \cup {<< m >> : m \in Messages}]
  BY DEF Init
<1>6. Typed
  <2>1. /\ read = [t \in Tasks |-> {}] /\ status = [t \in Tasks |-> "other"]
        /\ products = [t \in Tasks |-> << >>] /\ messages = [t \in Tasks |-> << >>]
        /\ raw = [t \in Tasks |-> << >>] /\ pp = [t \in Tasks |-> << >>]
        /\ next = [t \in Tasks |-> 1] /\ written = {}
    BY Zenon DEF Init
  <2>2. read \in [Tasks -> SUBSET Skus] /\ status \in [Tasks -> Statuses]
    BY <2>1 DEF Statuses
  <2>3. products \in [Tasks -> Seq(Products)] /\ messages \in [Tasks -> Seq(Messages)]
    BY <2>1
  <2>4. raw \in [Tasks -> Seq(Messages)] /\ pp \in [Tasks -> Seq(Messages)]
    BY <2>1
  <2>5. next \in [Tasks -> Nat \ {0}] /\ written \subseteq Tasks
    BY <2>1
  <2>6. job \in [Tasks -> Jobs] /\ known \subseteq Skus
    BY DEF Init
  <2> QED BY <1>1, <1>2, <1>4, <1>5, <2>2, <2>3, <2>4, <2>5, <2>6 DEF Typed
<1>7. ASSUME NEW t \in Tasks PROVE Reports(t)
  <2>1. raw[t] = << >> /\ pp[t] = << >> /\ next[t] = 1 /\ messages[t] = << >> /\ read[t] = {}
    BY DEF Init
  <2>2. /\ pc[t] \in {"read", "idle", "crawl"}
        /\ pc[t] = "read" => t \notin Realtime
    BY DEF Init, FirstStep
  <2>3. Kept(t)
    BY <2>1, <2>2 DEF Kept, BeforeWrite
  <2>4. ~Succeeded(t) /\ ~Ready(t)
    BY <2>2 DEF Succeeded, Ready
  <2>5. Published(t)
    BY <2>1, <2>2, <2>4 DEF Published, Begins
  <2>6. Prepared(t)
    BY <2>1, <2>2, <2>4 DEF Prepared
  <2> QED BY <2>3, <2>5, <2>6 DEF Reports
<1> QED BY <1>6, <1>7 DEF Reporting, Reports

(* Every action of a task keeps the invariant.                             *)
LEMMA StepReporting ==
  ASSUME Reporting, NEW t \in Tasks, Step(t) \/ Die(t)
  PROVE  Reporting' /\ Leaves(t)
<1>1. ASSUME Typed', Reports(t)', Leaves(t) PROVE Reporting'
  <2>1. ASSUME NEW u \in Tasks \ {t} PROVE Reports(u)'
    BY <1>1, StillKeeps DEF Reporting, Reports, Leaves
  <2> QED BY <1>1, <2>1 DEF Reporting, Reports
<1>2. Typed
  BY DEF Reporting
<1>3. CASE ReadRdstore(t)
  BY <1>1, <1>2, <1>3, ReadTypes, ReadReports, ReadLeaves
<1>4. CASE Crawl(t)
  BY <1>1, <1>2, <1>4, CrawlTypes, CrawlReports, CrawlLeaves
<1>5. CASE RealtimeReads(t)
  BY <1>1, <1>2, <1>5, RealtimeReadsTypes, RealtimeReadsReports, RealtimeReadsLeaves
<1>6. CASE RealtimeLeaves(t)
  BY <1>1, <1>2, <1>6, RealtimeLeavesTypes, RealtimeLeavesReports, RealtimeLeavesLeaves
<1>7. CASE Skip(t)
  BY <1>1, <1>2, <1>7, SkipTypes, SkipReports, SkipLeaves
<1>8. CASE Prepare(t)
  BY <1>1, <1>2, <1>8, PrepareTypes, PrepareReports, PrepareLeaves
<1>9. CASE WriteRdstore(t)
  BY <1>1, <1>2, <1>9, WriteTypes, WriteReports, WriteLeaves
<1>10. CASE PublishRaw(t)
  BY <1>1, <1>2, <1>10, PublishRawTypes, PublishRawReports, PublishRawLeaves
<1>11. CASE PublishPp(t)
  <2>1. next[t] \in DOMAIN messages[t]
    BY <1>11, PpMessage DEF PublishPp
  <2> QED BY <1>1, <1>2, <1>11, <2>1, PublishPpTypes, PublishPpReports, PublishPpLeaves
<1>12. CASE Succeed(t)
  BY <1>1, <1>2, <1>12, SucceedTypes, SucceedReports, SucceedLeaves
<1>13. CASE Die(t)
  BY <1>1, <1>2, <1>13, DieTypes, DieReports, DieLeaves
<1> QED
  BY <1>3, <1>4, <1>5, <1>6, <1>7, <1>8, <1>9, <1>10, <1>11, <1>12, <1>13 DEF Step

(* So does a variation that rdstore is given meanwhile.                    *)
LEMMA DiscoverReporting == ASSUME Reporting, NEW s \in Skus, Discover(s) PROVE Reporting'
<1>1. Typed'
  BY DEF Reporting, Typed, Discover, taskVars, streams
<1>2. ASSUME NEW t \in Tasks PROVE Kept(t)' /\ Published(t)' /\ Prepared(t)'
  <2>1. Still(t) /\ known \subseteq known' /\ written \subseteq written'
    BY DEF Discover, taskVars, streams, Still
  <2> QED BY <2>1, StillKeeps DEF Reporting
<1> QED BY <1>1, <1>2 DEF Reporting

LEMMA UnchangedReporting == ASSUME Reporting, UNCHANGED vars PROVE Reporting'
<1>1. Typed'
  BY DEF Reporting, Typed, vars, taskVars, streams
<1>2. ASSUME NEW t \in Tasks PROVE Kept(t)' /\ Published(t)' /\ Prepared(t)'
  <2>1. Still(t) /\ known \subseteq known' /\ written \subseteq written'
    BY DEF vars, taskVars, streams, Still
  <2> QED BY <2>1, StillKeeps DEF Reporting
<1> QED BY <1>1, <1>2 DEF Reporting

LEMMA NextReporting == Reporting /\ [Next]_vars => Reporting'
<1> SUFFICES ASSUME Reporting, [Next]_vars PROVE Reporting'
  OBVIOUS
<1>1. CASE UNCHANGED vars
  BY <1>1, UnchangedReporting
<1>2. ASSUME NEW t \in Tasks, Step(t) \/ Die(t) PROVE Reporting'
  BY <1>2, StepReporting
<1>3. ASSUME NEW s \in Skus, Discover(s) PROVE Reporting'
  BY <1>3, DiscoverReporting
<1>4. CASE Terminated
  BY <1>4, UnchangedReporting DEF Terminated
<1> QED BY <1>1, <1>2, <1>3, <1>4 DEF Next

(* As many products as skus, when each sku is listed once.                 *)
LEMMA EnumeratesCount ==
  ASSUME NEW ps \in Seq(Products), NEW skus, Enumerates(ps, skus)
  PROVE  Cardinality(skus) = Len(ps)
<1> DEFINE id == [k \in 1..Len(ps) |-> ps[k].id]
<1>1. Len(ps) \in Nat /\ DOMAIN ps = 1..Len(ps)
  OBVIOUS
<1>2. id \in [1..Len(ps) -> skus]
  BY <1>1 DEF Enumerates, Ids
<1>3. \A j, k \in 1..Len(ps) : id[j] = id[k] => j = k
  BY <1>1 DEF Enumerates
<1>4. \A s \in skus : \E k \in 1..Len(ps) : id[k] = s
  BY <1>1 DEF Enumerates, Ids
<1> HIDE DEF id
<1>5. ExistsBijection(1..Len(ps), skus)
  BY <1>2, <1>3, <1>4
     DEF ExistsBijection, Bijection, Injection, IsInjective, Surjection
<1> QED BY <1>1, <1>5, FS_CountingElements

LEMMA BeginsIsPrefix ==
  ASSUME NEW s \in Seq(Messages), NEW q \in Seq(Messages), Begins(s, q)
  PROVE  IsPrefix(s, q)
<1>1. Len(s) \in Nat /\ Len(q) \in Nat /\ Len(s) <= Len(q)
  BY DEF Begins
<1>2. SubSeq(s, 1, Len(s)) = [k \in 1..Len(s) |-> s[k]]
  BY <1>1, SubSeqProperties
<1>3. SubSeq(q, 1, Len(s)) = [k \in 1..Len(s) |-> q[k]]
  BY <1>1, SubSeqProperties
<1> QED BY <1>1, <1>2, <1>3 DEF IsPrefix, Begins

(* A sequence that begins another, and is as long, is the other.           *)
LEMMA BeginsAll ==
  ASSUME NEW s \in Seq(Messages), NEW q \in Seq(Messages), Begins(s, q), Len(s) = Len(q)
  PROVE  s = q
  BY SeqEqual DEF Begins

LEMMA ReportingImpliesReported == Reporting => EverySkuReported
<1> SUFFICES ASSUME Reporting, NEW t \in Tasks
             PROVE  /\ IsPrefix(raw[t], messages[t]) /\ IsPrefix(pp[t], raw[t])
                    /\ Succeeded(t) /\ status[t] # "temp" =>
                         /\ {raw[t][k].sku : k \in DOMAIN raw[t]} = read[t]
                         /\ Len(raw[t]) = Cardinality(read[t])
                         /\ pp[t] = IF SkusOnly(t) THEN << >> ELSE raw[t]
  BY Zenon DEF EverySkuReported
<1>1. /\ raw[t] \in Seq(Messages) /\ pp[t] \in Seq(Messages) /\ messages[t] \in Seq(Messages)
      /\ products[t] \in Seq(Products) /\ read[t] \subseteq Skus
  BY DEF Reporting, Typed
<1>2. Begins(raw[t], messages[t]) /\ Begins(pp[t], raw[t])
  BY DEF Reporting, Published
<1>3. IsPrefix(raw[t], messages[t]) /\ IsPrefix(pp[t], raw[t])
  BY <1>1, <1>2, BeginsIsPrefix
<1>4. ASSUME Succeeded(t), status[t] # "temp"
      PROVE  /\ {raw[t][k].sku : k \in DOMAIN raw[t]} = read[t]
             /\ Len(raw[t]) = Cardinality(read[t])
             /\ pp[t] = IF SkusOnly(t) THEN << >> ELSE raw[t]
  <2>1. Len(raw[t]) = Len(messages[t]) /\ Len(pp[t]) = IF SkusOnly(t) THEN 0 ELSE Len(raw[t])
    BY <1>4 DEF Reporting, Published
  <2>2. raw[t] = messages[t]
    BY <1>1, <1>2, <2>1, BeginsAll
  <2>3. pp[t] = IF SkusOnly(t) THEN << >> ELSE raw[t]
    <3>1. CASE SkusOnly(t)
      BY <1>1, <2>1, <3>1
    <3>2. CASE ~SkusOnly(t)
      BY <1>1, <1>2, <2>1, <3>2, BeginsAll
    <3> QED BY <3>1, <3>2
  <2>4. Ready(t)
    BY <1>4 DEF Ready
  <2>5. CASE read[t] = {} /\ messages[t] = << >>
    BY <2>2, <2>3, <2>5, FS_EmptySet
  <2>6. CASE PreparedFrom(t)
    <3>1. Enumerates(products[t], read[t]) /\ messages[t] = MessagesFor(products[t], status[t])
      BY <2>6 DEF PreparedFrom
    <3>2. DOMAIN messages[t] = DOMAIN products[t] /\ Len(messages[t]) = Len(products[t])
      BY <1>1, <3>1 DEF MessagesFor
    <3>3. \A k \in DOMAIN products[t] : messages[t][k].sku = products[t][k].id
      BY <3>1 DEF MessagesFor, MessageFor
    <3>4. {messages[t][k].sku : k \in DOMAIN messages[t]} = read[t]
      BY <3>1, <3>2, <3>3 DEF Enumerates, Ids
    <3>5. Len(messages[t]) = Cardinality(read[t])
      BY <1>1, <3>1, <3>2, EnumeratesCount
    <3> QED BY <2>2, <2>3, <3>4, <3>5
  <2> QED BY <2>4, <2>5, <2>6 DEF Reporting, Prepared
<1> QED BY <1>3, <1>4

LEMMA ReportingImpliesAnnounced == Reporting => AnnouncedAfterWrite
  BY DEF Reporting, Kept, AnnouncedAfterWrite

(* Whatever fails, and wherever the process ends, what a task publishes is *)
(* a prefix of its messages; a recrawl that succeeds has told of each sku  *)
(* that rdstore held when it began, once, and of no other, whatever was    *)
(* crawled (RecrawlActions, data/recrawl.go, with GetNewOldVariations,     *)
(* data/variations.go).                                                    *)
THEOREM Reported == Spec => []EverySkuReported
<1> QED BY InitReporting, NextReporting, ReportingImpliesReported, PTL DEF Spec

(* Nothing is announced of a page before rdstore has taken the update that *)
(* is announced, for any number of deliveries of the page, whatever fails  *)
(* and wherever a process ends (RecrawlActions, data/recrawl.go).          *)
THEOREM Announced == Spec => []AnnouncedAfterWrite
<1> QED BY InitReporting, NextReporting, ReportingImpliesAnnounced, PTL DEF Spec


-----------------------------------------------------------------------------
(* The stores.  A step that leaves them alone, and of a task what it has   *)
(* published and asked for, keeps what has been agreed.                    *)
LEMMA AgreedStays ==
  ASSUME NEW t \in Tasks, Agreed(t), UNCHANGED << rawDb, rdstore >>, alone'[t] => alone[t],
         raw'[t] = raw[t], read'[t] = read[t], status'[t] = status[t], request'[t] = request[t],
         Ready(t)' /\ pc'[t] # "write" => Ready(t) /\ pc[t] # "write"
  PROVE  Agreed(t)'
<1>1. Writes(t)' = Writes(t)
  BY DEF Writes
<1> QED BY <1>1 DEF Agreed

(* A task that has published nothing, and is not yet ready, agrees.        *)
LEMMA AgreedEarly ==
  ASSUME NEW t \in Tasks, raw'[t] = << >>, ~Ready(t)' \/ pc'[t] = "write" \/ read'[t] = {}
  PROVE  Agreed(t)'
  BY DEF Agreed

(* What others see of a step: either it makes them not alone, or it leaves *)
(* the stores as they are.                                                 *)
Quiet(t) ==
  \A u \in Tasks \ {t} :
    \/ ~alone'[u]
    \/ rawDb' = rawDb /\ rdstore' = rdstore /\ (alone'[u] => alone[u])

Agreement == \A t \in Tasks : Agreed(t)

LEMMA OthersAgree ==
  ASSUME Agreement, NEW t \in Tasks, Leaves(t), Quiet(t), Agreed(t)'
  PROVE  Agreement'
<1>1. ASSUME NEW u \in Tasks \ {t} PROVE Agreed(u)'
  <2>1. Still(u)
    BY DEF Leaves
  <2>2. Ready(u)' = Ready(u) /\ pc'[u] = pc[u]
    BY <2>1 DEF Still, Ready, Succeeded
  <2>3. CASE ~alone'[u]
    BY <2>3 DEF Agreed
  <2>4. CASE rawDb' = rawDb /\ rdstore' = rdstore /\ (alone'[u] => alone[u])
    BY <2>1, <2>2, <2>4, AgreedStays DEF Agreement, Still
  <2> QED BY <2>3, <2>4 DEF Quiet
<1> QED BY <1>1 DEF Agreement

(* A step that is seen makes the others not alone.                         *)
LEMMA ActsQuiet ==
  ASSUME NEW t \in Tasks, Acts(t)
  PROVE  Quiet(t) /\ (alone'[t] => alone[t])
<1>1. alone'[t] => alone[t]
  BY DEF Acts
<1>2. ASSUME NEW u \in Tasks \ {t} PROVE ~alone'[u]
  BY <1>2 DEF Acts
<1> QED BY <1>1, <1>2 DEF Quiet

LEMMA FindQuiet ==
  ASSUME Flags, NEW t \in Tasks, FindVariations(t), UNCHANGED << rawDb, rdstore >>
  PROVE  Quiet(t)
<1>1. ASSUME NEW u \in Tasks \ {t} PROVE alone'[u] = alone[u]
  BY DEF Flags, FindVariations, Set
<1> QED BY <1>1 DEF Quiet

LEMMA SilentQuiet ==
  ASSUME NEW t \in Tasks, UNCHANGED << rawDb, rdstore, alone >>
  PROVE  Quiet(t) /\ (alone'[t] => alone[t])
  BY DEF Quiet


LEMMA StepFlags == ASSUME Typed, Flags, NEW t \in Tasks, Step(t) \/ Die(t) PROVE Flags'
<1>1. alone' \in [Tasks -> BOOLEAN]
  <2>1. ASSUME Acts(t) PROVE alone' \in [Tasks -> BOOLEAN]
    BY <2>1, Zenon DEF Flags, Acts
  <2>2. ASSUME FindVariations(t) PROVE alone' \in [Tasks -> BOOLEAN]
    <3>1. PICK b \in BOOLEAN : alone' = Set(alone, t, b)
      BY <2>2, Zenon DEF FindVariations
    <3> QED BY <3>1 DEF Flags, Set
  <2>3. Acts(t) \/ FindVariations(t) \/ alone' = alone
    BY Zenon DEF Step, ReadRdstore, Crawl, RealtimeReads, RealtimeLeaves, Skip, Prepare,
       WriteRdstore, WriteDone, PublishRaw, PublishPp, Succeed, Die
  <2> QED BY <2>1, <2>2, <2>3 DEF Flags
<1>2. rdstore' \in [Skus -> BOOLEAN]
  <2>1. Updated(t) \in [Skus -> BOOLEAN]
    BY Zenon DEF Updated
  <2>2. rdstore' = Updated(t) \/ rdstore' = rdstore
    BY Zenon DEF Step, ReadRdstore, Crawl, RealtimeReads, RealtimeLeaves, Skip, Prepare,
       WriteRdstore, WriteDone, PublishRaw, PublishPp, Succeed, Die
  <2> QED BY <2>1, <2>2 DEF Flags
<1> QED BY <1>1, <1>2 DEF Flags

LEMMA ReadAgrees ==
  ASSUME Reporting, Agreement, Flags, NEW t \in Tasks, ReadRdstore(t) \/ RealtimeReads(t)
  PROVE  Agreed(t)' /\ Quiet(t)
<1>1. pc[t] \in {"read", "late"} /\ raw' = raw
  BY DEF ReadRdstore, RealtimeReads, End, Goto, streams
<1>2. raw'[t] = << >>
  BY <1>1 DEF Reporting, Kept, BeforeWrite
<1>3. ~Ready(t)'
  <2>1. CASE pc'[t] \in {"crawl", "prepare"}
    BY <2>1 DEF Ready, Succeeded
  <2>2. CASE pc'[t] = "ended" /\ code'[t] = "RDSTORE_DATA_MISSING_EARLY"
    BY <2>2 DEF Ready, Succeeded
  <2> QED BY <2>1, <2>2 DEF Reporting, Typed, ReadRdstore, RealtimeReads, End, Goto
<1>4. Quiet(t)
  BY FindQuiet DEF ReadRdstore, RealtimeReads, streams
<1> QED BY <1>2, <1>3, <1>4, AgreedEarly

LEMMA EarlyAgrees ==
  ASSUME Reporting, Agreement, NEW t \in Tasks,
         Crawl(t) \/ RealtimeLeaves(t) \/ Skip(t) \/ Prepare(t)
  PROVE  Agreed(t)' /\ Quiet(t)
<1>1. UNCHANGED << raw, rawDb, rdstore, alone >>
      /\ pc[t] \in {"crawl", "late", "prepare"}
  BY DEF Crawl, RealtimeLeaves, Skip, Prepare, End, Goto, streams, taskVars
<1>2. raw'[t] = << >>
  BY <1>1 DEF Reporting, Kept, BeforeWrite
<1>3. CASE Crawl(t)
  <2>1. pc'[t] \in {"late", "prepare"}
    BY <1>3 DEF Reporting, Typed, Crawl, Goto
  <2> QED BY <1>1, <1>2, <2>1, AgreedEarly, SilentQuiet DEF Ready, Succeeded
<1>4. CASE RealtimeLeaves(t)
  <2>1. pc[t] = "late" /\ read' = read
    BY <1>4 DEF RealtimeLeaves, End, Goto, taskVars
  <2>2. read'[t] = {}
    BY <2>1 DEF Reporting, Prepared
  <2> QED BY <1>1, <1>2, <2>2, AgreedEarly, SilentQuiet
<1>5. CASE Skip(t)
  <2>1. pc'[t] = "ended" /\ job'[t].source = "M101"
    BY <1>5 DEF Reporting, Typed, Skip, End, Goto, taskVars
  <2> QED BY <1>1, <1>2, <2>1, AgreedEarly, SilentQuiet DEF Ready, Succeeded
<1>6. CASE Prepare(t)
  <2>1. pc'[t] = "write"
    BY <1>6 DEF Reporting, Typed, Prepare, Goto
  <2> QED BY <1>1, <1>2, <2>1, AgreedEarly, SilentQuiet
<1> QED BY <1>3, <1>4, <1>5, <1>6

(* What the request makes of rdstore.                                      *)
LEMMA UpdatedAgrees ==
  ASSUME Reporting, NEW t \in Tasks, pc[t] = "write", Writes(t), NEW s \in read[t]
  PROVE  Updated(t)[s] <=> status[t] = "success" /\ s \in request[t].active
<1>1. s \in Skus /\ s \in known
  BY DEF Reporting, Typed, Prepared
<1>2. Ready(t) /\ status[t] \in {"success", "perm"}
  BY DEF Ready, Writes
<1>3. CASE status[t] = "success"
  <2>1. PreparedFrom(t)
    BY <1>2 DEF Reporting, Prepared
  <2>2. PICK k \in DOMAIN products[t] : products[t][k].id = s
    BY <2>1 DEF PreparedFrom, Enumerates, Ids
  <2>3. s \in request[t].active \/ s \in request[t].inactive
    BY <2>1, <2>2 DEF PreparedFrom
  <2>4. ~(s \in request[t].active /\ s \in request[t].inactive)
    BY <2>1, <2>2 DEF PreparedFrom
  <2>5. Updated(t)[s] <=> \/ s \in request[t].active
                          \/ (s \notin request[t].inactive /\ rdstore[s])
    BY <1>1, <1>3, Zenon DEF Updated
  <2> QED BY <1>3, <2>3, <2>4, <2>5
<1>4. CASE status[t] = "perm"
  <2>1. Updated(t)[s] <=> s \notin known /\ rdstore[s]
    <3>1. status[t] # "success"
      BY <1>4
    <3> QED BY <1>1, <3>1, Zenon DEF Updated
  <2> QED BY <1>1, <1>4, <2>1
<1> QED BY <1>2, <1>3, <1>4

LEMMA WriteAgrees ==
  ASSUME Reporting, Agreement, NEW t \in Tasks, WriteRdstore(t)
  PROVE  Agreed(t)' /\ Quiet(t)
<1>1. UNCHANGED << raw, rawDb, read, status, request, job >> /\ pc[t] = "write"
  BY DEF WriteRdstore, WriteFailed, End, Goto, taskVars, streams
<1>2. Quiet(t)
  BY <1>1, ActsQuiet, SilentQuiet DEF WriteRdstore, WriteDone
<1>3. raw'[t] = << >>
  BY <1>1 DEF Reporting, Kept, BeforeWrite
<1>4. CASE WriteFailed(t)
  <2>1. pc'[t] = "ended" /\ code'[t] = "RDSTORE_WRITE_FAILED"
    BY <1>4 DEF Reporting, Typed, WriteFailed, End, Goto
  <2>2. ~Ready(t)'
    BY <2>1 DEF Ready, Succeeded
  <2> QED BY <1>2, <1>3, <2>2, AgreedEarly
<1>5. CASE ~Writes(t)
  BY <1>1, <1>2, <1>3, <1>5 DEF Agreed, Writes
<1>6. CASE Writes(t) /\ ~WriteFailed(t)
  <2>1. rdstore' = Updated(t)
    BY <1>6 DEF WriteRdstore, WriteDone
  <2>2. \A s \in read[t] : rdstore'[s] <=> status[t] = "success" /\ s \in request[t].active
    BY <1>1, <1>6, <2>1, UpdatedAgrees
  <2> QED BY <1>1, <1>2, <1>3, <2>2 DEF Agreed
<1> QED BY <1>4, <1>5, <1>6

(* One sku is not in two messages.                                         *)
LEMMA OneMessage ==
  ASSUME Reporting, NEW t \in Tasks, Ready(t)
  PROVE  \A j, k \in DOMAIN messages[t] : messages[t][j].sku = messages[t][k].sku => j = k
<1>1. CASE messages[t] = << >>
  BY <1>1
<1>2. CASE PreparedFrom(t)
  <2>1. messages[t] = MessagesFor(products[t], status[t])
    BY <1>2 DEF PreparedFrom
  <2>2. DOMAIN messages[t] = DOMAIN products[t]
    BY <2>1 DEF MessagesFor
  <2>3. \A k \in DOMAIN products[t] : messages[t][k].sku = products[t][k].id
    BY <2>1 DEF MessagesFor, MessageFor
  <2> QED BY <1>2, <2>2, <2>3 DEF PreparedFrom, Enumerates
<1> QED BY <1>1, <1>2 DEF Reporting, Prepared


LEMMA PublishRawAgrees ==
  ASSUME Reporting, Agreement, NEW t \in Tasks, PublishRaw(t)
  PROVE  Agreed(t)' /\ Quiet(t)
<1>1. UNCHANGED << read, status, request, messages, job, rdstore >> /\ pc[t] = "raw"
      /\ Writes(t)' = Writes(t)
  BY DEF PublishRaw, Writes
<1>2. Ready(t)' => Ready(t)
  BY <1>1 DEF Ready
<1>3. CASE UNCHANGED << raw, rawDb, alone >>
  BY <1>1, <1>2, <1>3, AgreedStays, SilentQuiet DEF Agreement
<1>4. CASE /\ raw' = Set(raw, t, Append(raw[t], Message(t)))
           /\ rawDb' = [rawDb EXCEPT ![Message(t).sku] = << Message(t) >>]
           /\ Acts(t)
  <2>1. Quiet(t) /\ (alone'[t] => alone[t])
    BY <1>4, ActsQuiet
  <2>2. SUFFICES ASSUME alone'[t], Writes(t) PROVE Agreed(t)'
    BY <1>1, <2>1 DEF Agreed
  <2>3. Ready(t) /\ alone[t]
    BY <1>1, <2>1, <2>2 DEF Ready, Writes
  <2>4. /\ \A k \in DOMAIN raw[t] : rawDb[raw[t][k].sku] = << raw[t][k] >>
        /\ \A s \in read[t] : rdstore[s] <=> status[t] = "success" /\ s \in request[t].active
    BY <1>1, <2>2, <2>3 DEF Agreement, Agreed
  <2>5. /\ raw[t] \in Seq(Messages) /\ messages[t] \in Seq(Messages)
        /\ Message(t) \in Messages /\ next[t] \in DOMAIN messages[t]
        /\ next[t] \in Nat
    BY PublishRawTypes DEF Reporting, Typed
  <2>6. Begins(raw[t], messages[t]) /\ Len(raw[t]) = next[t] - 1
    BY <1>1 DEF Reporting, Published
  <2> DEFINE m == Message(t)
             more == Append(raw[t], m)
  <2>7. raw'[t] = more
    BY <1>4 DEF Reporting, Typed, Set
  <2>8. /\ DOMAIN more = 1..next[t] /\ more[next[t]] = m
        /\ \A k \in 1..(next[t] - 1) : more[k] = raw[t][k]
    BY <2>5, <2>6
  <2>9. rawDb'[m.sku] = << m >> /\ \A s \in Skus : s # m.sku => rawDb'[s] = rawDb[s]
    <3>1. m.sku \in Skus /\ DOMAIN rawDb = Skus
      BY <2>5 DEF Messages, Reporting, Typed
    <3> HIDE DEF m
    <3>2. rawDb' = [rawDb EXCEPT ![m.sku] = << m >>]
      BY <1>4 DEF m
    <3>3. PICK one : one = << m >>
      OBVIOUS
    <3>4. rawDb' = [rawDb EXCEPT ![m.sku] = one]
      BY <3>2, <3>3
    <3> QED BY <3>1, <3>3, <3>4
  <2>10. ASSUME NEW k \in 1..(next[t] - 1)
         PROVE  /\ k \in DOMAIN raw[t] /\ raw[t][k].sku # m.sku
                /\ raw[t][k].sku \in Skus
    <3>1. k \in DOMAIN raw[t] /\ raw[t][k] = messages[t][k] /\ k \in DOMAIN messages[t]
          /\ k # next[t]
      BY <2>5, <2>6 DEF Begins
    <3>2. m = messages[t][next[t]]
      BY DEF Message
    <3>3. raw[t][k].sku # m.sku
      BY <2>3, <2>5, <3>1, <3>2, OneMessage
    <3>4. raw[t][k] \in Messages
      BY <2>5, <3>1
    <3> QED BY <3>1, <3>3, <3>4 DEF Messages
  <2> HIDE DEF m, more
  <2>11. ASSUME NEW k \in DOMAIN more PROVE rawDb'[more[k].sku] = << more[k] >>
    <3>1. CASE k = next[t]
      BY <2>8, <2>9, <3>1
    <3>2. CASE k \in 1..(next[t] - 1)
      <4>1. more[k] = raw[t][k] /\ rawDb'[raw[t][k].sku] = rawDb[raw[t][k].sku]
        BY <2>8, <2>9, <2>10, <3>2
      <4> QED BY <2>4, <2>10, <3>2, <4>1
    <3> QED BY <2>5, <2>8, <3>1, <3>2
  <2> QED BY <1>1, <2>4, <2>7, <2>11 DEF Agreed
<1> QED BY <1>3, <1>4 DEF PublishRaw

LEMMA LateAgrees ==
  ASSUME Reporting, Agreement, NEW t \in Tasks, PublishPp(t) \/ Succeed(t) \/ Die(t)
  PROVE  Agreed(t)' /\ Quiet(t)
<1>1. /\ UNCHANGED << raw, read, status, request, job, rawDb, rdstore >>
      /\ Acts(t) \/ UNCHANGED alone
  BY DEF PublishPp, Succeed, Die, taskVars, streams
<1>2. Ready(t)' /\ pc'[t] # "write" => Ready(t) /\ pc[t] # "write"
  <2>1. CASE PublishPp(t) \/ Succeed(t)
    BY <1>1, <2>1 DEF PublishPp, Succeed, End, Goto, Ready
  <2>2. CASE Die(t)
    BY <2>2 DEF Reporting, Typed, Die, Set, Ready, Succeeded
  <2> QED BY <2>1, <2>2
<1> QED BY <1>1, <1>2, AgreedStays, ActsQuiet, SilentQuiet DEF Agreement

LEMMA StepAgreement ==
  ASSUME Reporting, Agreement, Flags, NEW t \in Tasks, Step(t) \/ Die(t)
  PROVE  Agreement'
<1>1. Agreed(t)' /\ Quiet(t)
  BY ReadAgrees, EarlyAgrees, WriteAgrees, PublishRawAgrees, LateAgrees DEF Step
<1> QED BY <1>1, StepReporting, OthersAgree

LEMMA DiscoverAgreement ==
  ASSUME Reporting, Agreement, Flags, NEW s \in Skus, Discover(s)
  PROVE  Agreement' /\ Flags'
<1>1. /\ UNCHANGED << pc, code, job, raw, rawDb, read, status, request, alone >>
      /\ rdstore' = [rdstore EXCEPT ![s] = TRUE]
  BY DEF Discover, taskVars, streams
<1>2. Flags'
  BY <1>1 DEF Flags
<1>3. ASSUME NEW t \in Tasks PROVE Agreed(t)'
  <2>1. s \notin read[t] /\ read[t] \subseteq Skus
    BY DEF Reporting, Typed, Prepared, Discover
  <2>2. \A r \in read[t] : rdstore'[r] = rdstore[r]
    BY <1>1, <2>1 DEF Flags
  <2>3. Ready(t)' = Ready(t) /\ Writes(t)' = Writes(t)
    BY <1>1 DEF Ready, Writes, Succeeded
  <2>4. Agreed(t)
    BY DEF Agreement
  <2> QED BY <1>1, <2>2, <2>3, <2>4 DEF Agreed
<1> QED BY <1>2, <1>3 DEF Agreement

LEMMA UnchangedAgreement ==
  ASSUME Agreement, Flags, UNCHANGED vars PROVE Agreement' /\ Flags'
<1>1. Flags'
  BY DEF Flags, vars, streams
<1>2. ASSUME NEW t \in Tasks PROVE Agreed(t)'
  BY AgreedStays DEF Agreement, vars, taskVars, streams, Ready, Succeeded
<1> QED BY <1>1, <1>2 DEF Agreement

LEMMA InitAgreement == Init => Agreement /\ Flags
<1> SUFFICES ASSUME Init PROVE Agreement /\ Flags
  OBVIOUS
<1>1. rdstore = [s \in Skus |-> TRUE] /\ alone = [t \in Tasks |-> FALSE]
  BY Zenon DEF Init
<1>2. Flags
  BY <1>1 DEF Flags
<1>3. \A t \in Tasks : ~alone[t]
  BY <1>1
<1> QED BY <1>2, <1>3 DEF Agreement, Agreed

LEMMA NextAgreement == Reporting /\ Agreement /\ Flags /\ [Next]_vars => Agreement' /\ Flags'
<1> SUFFICES ASSUME Reporting, Agreement, Flags, [Next]_vars PROVE Agreement' /\ Flags'
  OBVIOUS
<1>1. CASE UNCHANGED vars
  BY <1>1, UnchangedAgreement
<1>2. ASSUME NEW t \in Tasks, Step(t) \/ Die(t) PROVE Agreement' /\ Flags'
  BY <1>2, StepAgreement, StepFlags DEF Reporting
<1>3. ASSUME NEW s \in Skus, Discover(s) PROVE Agreement' /\ Flags'
  BY <1>3, DiscoverAgreement
<1>4. CASE Terminated
  BY <1>4, UnchangedAgreement DEF Terminated
<1> QED BY <1>1, <1>2, <1>3, <1>4 DEF Next

LEMMA AgreementImpliesAgree == Reporting /\ Agreement => StoresAgree
<1> SUFFICES ASSUME Reporting, Agreement, NEW t \in Tasks, Succeeded(t), Writes(t), alone[t],
                    NEW s \in read[t]
             PROVE  LET m == rawDb[s][1]
                        p == CHOOSE q \in Range(products[t]) : q.id = s
                    IN /\ rawDb[s] # << >>
                       /\ status[t] = "perm" => m.discontinued /\ ~rdstore[s]
                       /\ status[t] = "success" =>
                            ~m.discontinued /\ (rdstore[s] <=> m.active \/ p.active = "zero")
  BY Zenon DEF StoresAgree
<1> DEFINE p == CHOOSE q \in Range(products[t]) : q.id = s
<1>1. Ready(t) /\ status[t] # "temp" /\ pc[t] # "write"
  BY DEF Ready, Writes, Succeeded
<1>2. PreparedFrom(t)
  BY <1>1 DEF Reporting, Prepared
<1>3. PICK k \in DOMAIN products[t] : products[t][k].id = s
  BY <1>2 DEF PreparedFrom, Enumerates, Ids
<1>4. p = products[t][k]
  <2>1. \A j \in DOMAIN products[t] : products[t][j].id = s => j = k
    BY <1>2, <1>3 DEF PreparedFrom, Enumerates
  <2>2. Range(products[t]) = {products[t][j] : j \in DOMAIN products[t]}
    BY DEF Range
  <2>3. products[t][k] \in Range(products[t])
    BY <2>2
  <2>4. \A q \in Range(products[t]) : q.id = s => q = products[t][k]
    BY <2>1, <2>2
  <2> QED BY <1>3, <2>3, <2>4
<1> HIDE DEF p
<1>5. messages[t] = MessagesFor(products[t], status[t])
  BY <1>2 DEF PreparedFrom
<1>6. messages[t][k] = MessageFor(p, status[t]) /\ k \in DOMAIN messages[t]
  BY <1>4, <1>5 DEF MessagesFor
<1>7. raw[t] = messages[t]
  <2>1. /\ raw[t] \in Seq(Messages) /\ messages[t] \in Seq(Messages)
        /\ Begins(raw[t], messages[t]) /\ Len(raw[t]) = Len(messages[t])
    BY <1>1 DEF Reporting, Typed, Published
  <2> QED BY <2>1, BeginsAll
<1>8. /\ rawDb[raw[t][k].sku] = << raw[t][k] >>
      /\ rdstore[s] <=> status[t] = "success" /\ s \in request[t].active
  BY <1>1, <1>6, <1>7 DEF Agreement, Agreed
<1>9. s \in request[t].active <=> RdstoreActive(p)
  BY <1>2, <1>3, <1>4 DEF PreparedFrom
<1>10. PICK m : m = MessageFor(p, status[t])
  OBVIOUS
<1>11. rawDb[s] = << m >>
  <2>1. m.sku = s
    BY <1>3, <1>4, <1>10 DEF MessageFor
  <2> QED BY <1>6, <1>7, <1>8, <1>10, <2>1
<1>12. rawDb[s] # << >> /\ rawDb[s][1] = m
  BY <1>11
<1>13. (m.discontinued <=> status[t] = "perm") /\ (m.active <=> p.active = "positive")
  BY <1>10, Zenon DEF MessageFor, RawActive
<1>14. rdstore[s] <=> status[t] = "success" /\ p.active \in {"zero", "positive"}
  BY <1>8, <1>9 DEF RdstoreActive
<1>15. status[t] = "perm" => m.discontinued /\ ~rdstore[s]
  BY <1>13, <1>14
<1>16. status[t] = "success" =>
         ~m.discontinued /\ (rdstore[s] <=> m.active \/ p.active = "zero")
  BY <1>13, <1>14
<1> QED BY <1>12, <1>15, <1>16 DEF p

(* After a recrawl that succeeded with no other task of the page acting    *)
(* since it read rdstore, rdstore and the raw db agree on every sku it had *)
(* read (writeDataToRdstore, data/recrawl.go).                             *)
THEOREM Agree == Spec => []StoresAgree
<1>1. Init => Reporting /\ Agreement /\ Flags
  BY InitReporting, InitAgreement
<1>2. Reporting /\ Agreement /\ Flags /\ [Next]_vars => (Reporting /\ Agreement /\ Flags)'
  BY NextReporting, NextAgreement
<1> QED BY <1>1, <1>2, AgreementImpliesAgree, PTL DEF Spec


-----------------------------------------------------------------------------
(* The discovery.  A step that leaves one of them as it is.                *)
Rests(e) ==
  /\ at'[e] = at[e] /\ found'[e] = found[e] /\ input'[e] = input[e]
  /\ inserted'[e] = inserted[e]
  /\ pc'[e] = pc[e] /\ products'[e] = products[e] /\ read'[e] = read[e]

LEMMA RestsDivided ==
  ASSUME NEW e \in Sent, Rests(e), Started(e), Divided(e)
  PROVE  Started(e)' /\ Divided(e)'
<1>1. Page(e)' = Page(e)
  BY DEF Rests, Page
<1>2. Started(e)'
  BY <1>1 DEF Rests, Started
<1>3. Divided(e)'
  BY <1>1 DEF Rests, Divided, Splits
<1> QED BY <1>2, <1>3

LEMMA OthersDivide ==
  ASSUME Dividing, NEW d \in Sent, DiscoveryTyped', \A e \in Sent \ {d} : Rests(e),
         Started(d)', Divided(d)'
  PROVE  Dividing'
  BY RestsDivided DEF Dividing

LEMMA IdsTypes == ASSUME NEW ps \in Seq(Products) PROVE Ids(ps) \subseteq Skus \cup {NoSku}
<1>1. \A i \in DOMAIN ps : ps[i] \in Products
  OBVIOUS
<1>2. \A p \in Products : p.id \in Skus \cup {NoSku}
  BY DEF Products
<1> QED BY <1>1, <1>2 DEF Ids

(* A step of the discovery alone: nothing of its recrawl changes.          *)
GoesAlone(d, from, to) ==
  /\ UNCHANGED << vars, input, found >>
  /\ at[d] = from /\ at' = Set(at, d, to)
  /\ \/ inserted' = inserted
     \/ from = "mongo" /\ \E done \in SUBSET (Ids(found[d]) \ {NoSku}) :
                            inserted' = Set(inserted, d, done)

LEMMA AloneDivides ==
  ASSUME Dividing, NEW d \in Sent, NEW from, NEW to, GoesAlone(d, from, to),
         \/ from = "filter" /\ to = "split"
         \/ from = "split" /\ to = "mongo" /\ ~Splits(Page(d))
         \/ from = "split" /\ to = "answer" /\ found[d] = << >>
         \/ from = "mongo" /\ to = "answer"
         \/ from = "answer" /\ to = "done"
  PROVE  Dividing'
<1> USE DEF GoesAlone
<1>1. UNCHANGED << pc, products, read >> /\ Page(d)' = Page(d)
  BY DEF vars, taskVars, Page
<1>2. /\ at'[d] = to
      /\ \A e \in Sent \ {d} : at'[e] = at[e]
  BY DEF Dividing, DiscoveryTyped, Set
<1>3. PICK more : /\ inserted' = Set(inserted, d, more)
                  /\ \/ more = inserted[d]
                     \/ at[d] = "mongo" /\ more \subseteq Ids(found[d]) \ {NoSku}
  <2>1. CASE inserted' = inserted
    <3>1. inserted' = Set(inserted, d, inserted[d])
      BY <2>1 DEF Dividing, DiscoveryTyped, Set
    <3> QED BY <3>1
  <2>2. CASE at[d] = "mongo" /\ \E done \in SUBSET (Ids(found[d]) \ {NoSku}) :
                                 inserted' = Set(inserted, d, done)
    BY <2>2
  <2> QED BY <2>1, <2>2
<1>4. found[d] \in Seq(Products) /\ inserted[d] \subseteq Skus
  BY DEF Dividing, DiscoveryTyped
<1>5. Ids(found[d]) \ {NoSku} \subseteq Skus
  BY <1>4, IdsTypes
<1>6. /\ inserted'[d] = more /\ more \subseteq Skus
      /\ \A e \in Sent \ {d} : inserted'[e] = inserted[e]
      /\ inserted' \in [Sent -> SUBSET Skus]
  BY <1>3, <1>4, <1>5 DEF Dividing, DiscoveryTyped, Set
<1>7. DiscoveryTyped'
  BY <1>6 DEF Dividing, DiscoveryTyped, Set
<1>8. \A e \in Sent \ {d} : Rests(e)
  BY <1>1, <1>2, <1>6 DEF Rests
<1>9. Started(d)'
  BY <1>1, <1>2, <1>3, <1>6 DEF Dividing, Started
<1>10. ASSUME Splits(Page(d)) PROVE more \cap read[d] = {}
  BY <1>3, <1>10 DEF Dividing, Divided
<1>11. ASSUME Splits(Page(d)), to = "mongo" \/ (to \in {"answer", "done"} /\ input[d].crawl # << >>)
       PROVE  /\ Ids(found[d]) \ {NoSku} = Ids(input[d].crawl) \ (read[d] \cup {NoSku})
              /\ Ids(products[d]) = read[d]
  <2>1. at[d] = "mongo" \/ at[d] = "answer"
    <3>1. CASE at[d] = "split" /\ found[d] = << >> /\ to = "answer"
      <4>1. found[d] = input[d].crawl
        BY <1>11, <3>1 DEF Dividing, Started, Splits
      <4> QED BY <1>11, <3>1, <4>1
    <3> QED BY <1>11, <3>1
  <2>2. CASE at[d] = "mongo"
    BY <1>11, <2>2 DEF Dividing, Divided
  <2>3. CASE at[d] = "answer" /\ input[d].crawl # << >>
    BY <1>11, <2>3 DEF Dividing, Divided
  <2> QED BY <1>11, <2>1, <2>2, <2>3
<1>12. Divided(d)'
  BY <1>1, <1>2, <1>6, <1>10, <1>11 DEF Divided
<1> QED BY <1>7, <1>8, <1>9, <1>12, OthersDivide


(* The steps of the discovery that read, crawl and split change its        *)
(* recrawl, which has not started yet.                                     *)
LEMMA NotStarted ==
  ASSUME Reporting, Dividing, NEW d \in Sent, at[d] \in {"read", "crawl", "filter", "split"}
  PROVE  /\ pc[d] = "idle" /\ products[d] = << >> /\ inserted[d] = {}
         /\ raw[d] = << >> /\ pp[d] = << >> /\ next[d] = 1 /\ messages[d] = << >>
         /\ read[d] \subseteq known /\ d \in Tasks /\ d \notin Realtime
<1>1. d \in Tasks /\ d \notin Realtime
  BY CrawlsAssumption
<1>2. pc[d] = "idle" /\ products[d] = << >> /\ inserted[d] = {}
  BY DEF Dividing, Started
<1>3. raw[d] = << >> /\ pp[d] = << >> /\ next[d] = 1 /\ messages[d] = << >>
  BY <1>1, <1>2, EarlyKept DEF Reporting, BeforeWrite
<1> QED BY <1>1, <1>2, <1>3 DEF Reporting, Prepared

(* Such a step keeps the invariant of the recrawls.                        *)
LEMMA NotStartedReporting ==
  ASSUME Reporting, Dividing, NEW d \in Sent, at[d] \in {"read", "crawl", "filter", "split"},
         Typed', \A u \in Tasks \ {d} : Still(u),
         UNCHANGED << raw, pp, next, messages, known, written >>,
         pc'[d] \in {"idle", "prepare"}, read'[d] \subseteq known
  PROVE  Reporting'
<1>1. Reports(d)'
  BY NotStarted, EarlyReports
<1>2. ASSUME NEW u \in Tasks \ {d} PROVE Reports(u)'
  BY StillKeeps DEF Reporting, Reports
<1> QED BY <1>1, <1>2 DEF Reporting, Reports

LEMMA ReadProductStep ==
  ASSUME Reporting, Dividing, NEW d \in Sent, ReadProduct(d)
  PROVE  Reporting' /\ Dividing'
<1>1. /\ UNCHANGED << job, pc, products, status, request, messages, next, code, known, raw, pp,
                      rawDb, written, input, found, inserted >>
      /\ at[d] = "read" /\ at' = Set(at, d, "crawl")
      /\ read' = Set(read, d, known) \/ read' = read
  BY DEF ReadProduct, FindVariations, GoesTo, streams
<1>2. /\ pc[d] = "idle" /\ products[d] = << >> /\ inserted[d] = {}
      /\ read[d] \subseteq known /\ d \in Tasks
  BY <1>1, NotStarted
<1>3. /\ read' \in [Tasks -> SUBSET Skus] /\ read'[d] \subseteq known
      /\ \A u \in Tasks \ {d} : read'[u] = read[u]
  BY <1>1, <1>2 DEF Reporting, Typed, Set
<1>4. Reporting'
  <2>1. Typed'
    BY <1>1, <1>3 DEF Reporting, Typed
  <2>2. \A u \in Tasks \ {d} : Still(u)
    BY <1>1, <1>3 DEF Still
  <2> QED BY <1>1, <1>2, <1>3, <2>1, <2>2, NotStartedReporting
<1>5. Dividing'
  <2>1. DiscoveryTyped' /\ at'[d] = "crawl"
    BY <1>1 DEF Dividing, DiscoveryTyped, Set
  <2>2. \A e \in Sent \ {d} : Rests(e)
    BY <1>1, <1>3, CrawlsAssumption DEF Rests, Dividing, DiscoveryTyped, Set
  <2>3. Started(d)' /\ Divided(d)'
    BY <1>1, <1>2, <2>1 DEF Started, Divided
  <2> QED BY <2>1, <2>2, <2>3, OthersDivide
<1> QED BY <1>4, <1>5

LEMMA CrawlPageStep ==
  ASSUME Reporting, Dividing, NEW d \in Sent, CrawlPage(d)
  PROVE  Reporting' /\ Dividing'
<1>1. /\ UNCHANGED << job, pc, read, products, request, messages, next, code, known, raw, pp,
                      rawDb, written, input, inserted >>
      /\ at[d] = "crawl" /\ at' = Set(at, d, "filter")
      /\ found' = Set(found, d, IF Page(d).kind = "sitemap" THEN << >> ELSE input[d].crawl)
  BY DEF CrawlPage, GoesTo, streams
<1>2. PICK s \in {"success", "perm"} : status' = Set(status, d, s)
  BY DEF CrawlPage
<1>3. /\ pc[d] = "idle" /\ products[d] = << >> /\ inserted[d] = {}
      /\ read[d] \subseteq known /\ d \in Tasks
  BY <1>1, NotStarted
<1>4. /\ status' \in [Tasks -> Statuses] /\ \A u \in Tasks \ {d} : status'[u] = status[u]
  BY <1>2, <1>3 DEF Reporting, Typed, Set, Statuses
<1>5. Reporting'
  <2>1. Typed'
    BY <1>1, <1>4 DEF Reporting, Typed
  <2>2. \A u \in Tasks \ {d} : Still(u)
    BY <1>1, <1>4 DEF Still
  <2> QED BY <1>1, <1>3, <2>1, <2>2, NotStartedReporting
<1>6. Dividing'
  <2>1. input[d].crawl \in Seq(Products)
    BY CrawlsAssumption, DiscoveredAssumption DEF Dividing, DiscoveryTyped
  <2>2. /\ found' \in [Sent -> Seq(Products)]
        /\ Page(d).kind = "product" => found'[d] = input[d].crawl
        /\ \A e \in Sent \ {d} : found'[e] = found[e]
    BY <1>1, <2>1 DEF Dividing, DiscoveryTyped, Set
  <2>3. DiscoveryTyped' /\ at'[d] = "filter" /\ \A e \in Sent \ {d} : at'[e] = at[e]
    BY <1>1, <2>2 DEF Dividing, DiscoveryTyped, Set
  <2>4. \A e \in Sent \ {d} : Rests(e)
    BY <1>1, <2>2, <2>3 DEF Rests
  <2>5. Page(d)' = Page(d)
    BY <1>1 DEF Page
  <2>6. Started(d)' /\ Divided(d)'
    BY <1>1, <1>3, <2>2, <2>3, <2>5 DEF Started, Divided
  <2> QED BY <2>3, <2>4, <2>6, OthersDivide
<1> QED BY <1>5, <1>6

(* What is new and what is old of a crawl.                                 *)
LEMMA NewAndOld ==
  ASSUME Reporting, Dividing, NEW d \in Sent
  PROVE  /\ New(d) \in Seq(Products)
         /\ Ids(New(d)) \ {NoSku} = Ids(found[d]) \ (read[d] \cup {NoSku})
         /\ Old(d) \in Seq(Products) /\ Ids(Old(d)) = read[d]
<1>1. found[d] \in Seq(Products) /\ read[d] \in SUBSET Skus
  BY CrawlsAssumption DEF Dividing, DiscoveryTyped, Reporting, Typed
<1>2. CASE read[d] = {}
  <2>1. New(d) = found[d] /\ Old(d) = << >>
    BY <1>2 DEF New, Old
  <2>2. Ids(<< >>) = {} /\ << >> \in Seq(Products)
    BY DEF Ids
  <2> QED BY <1>1, <1>2, <2>1, <2>2
<1>3. CASE read[d] # {}
  <2>1. New(d) = NewVariations(found[d], read[d]) /\ Old(d) = OldVariations(found[d], read[d])
    BY <1>3 DEF New, Old
  <2>2. /\ NewVariations(found[d], read[d]) \in Seq(Products)
        /\ Ids(NewVariations(found[d], read[d])) = Ids(found[d]) \ (read[d] \cup {NoSku})
    BY <1>1, NewVariationsProperties
  <2>3. /\ OldVariations(found[d], read[d]) \in Seq(Products)
        /\ Ids(OldVariations(found[d], read[d])) = read[d]
    BY <1>1, OldVariationsProperties DEF Enumerates
  <2> QED BY <2>1, <2>2, <2>3
<1> QED BY <1>2, <1>3

LEMMA SplitStep ==
  ASSUME Reporting, Dividing, NEW d \in Sent, SplitVariations(d)
  PROVE  Reporting' /\ Dividing'
<1>1. /\ UNCHANGED << job, read, status, request, messages, next, code, known, raw, pp,
                      rawDb, written, input, inserted >>
      /\ at[d] = "split" /\ at' = Set(at, d, "mongo")
      /\ Splits(Page(d)) /\ found' = Set(found, d, New(d))
  BY DEF SplitVariations, LeaveNew, GoesTo, streams
<1>2. /\ pc[d] = "idle" /\ products[d] = << >> /\ inserted[d] = {}
      /\ read[d] \subseteq known /\ d \in Tasks
  BY <1>1, NotStarted
<1>3. /\ New(d) \in Seq(Products) /\ Ids(New(d)) \ {NoSku} = Ids(found[d]) \ (read[d] \cup {NoSku})
      /\ Old(d) \in Seq(Products) /\ Ids(Old(d)) = read[d]
  BY NewAndOld
<1>4. found[d] = input[d].crawl
  BY <1>1 DEF Dividing, Started, Splits
<1>5. /\ pc' \in [Tasks -> Places] /\ products' \in [Tasks -> Seq(Products)]
      /\ pc'[d] \in {"idle", "prepare"} /\ products'[d] = Old(d)
      /\ \A u \in Tasks \ {d} : pc'[u] = pc[u] /\ products'[u] = products[u]
  <2>1. CASE Old(d) = << >>
    BY <1>2, <2>1 DEF SplitVariations, Reporting, Typed
  <2>2. CASE Old(d) # << >>
    <3>1. Goto(d, "idle", "prepare") /\ products' = Set(products, d, Old(d))
      BY <2>2 DEF SplitVariations
    <3>2. pc' \in [Tasks -> Places] /\ pc'[d] = "prepare" /\ \A u \in Tasks \ {d} : pc'[u] = pc[u]
      BY <1>2, <3>1 DEF Goto, Reporting, Typed, Places
    <3>3. /\ products' \in [Tasks -> Seq(Products)] /\ products'[d] = Old(d)
          /\ \A u \in Tasks \ {d} : products'[u] = products[u]
      BY <1>2, <1>3, <3>1 DEF Reporting, Typed, Set
    <3> QED BY <3>2, <3>3
  <2> QED BY <2>1, <2>2
<1>6. Reporting'
  <2>1. Typed'
    BY <1>1, <1>5 DEF Reporting, Typed
  <2>2. \A u \in Tasks \ {d} : Still(u)
    BY <1>1, <1>5 DEF Still
  <2> QED BY <1>1, <1>2, <1>5, <2>1, <2>2, NotStartedReporting
<1>7. Dividing'
  <2>1. /\ found' \in [Sent -> Seq(Products)] /\ found'[d] = New(d)
        /\ \A e \in Sent \ {d} : found'[e] = found[e]
    BY <1>1, <1>3 DEF Dividing, DiscoveryTyped, Set
  <2>2. DiscoveryTyped' /\ at'[d] = "mongo" /\ \A e \in Sent \ {d} : at'[e] = at[e]
    BY <1>1, <2>1 DEF Dividing, DiscoveryTyped, Set
  <2>3. \A e \in Sent \ {d} : Rests(e)
    BY <1>1, <1>5, <2>1, <2>2, CrawlsAssumption DEF Rests
  <2>4. Started(d)'
    BY <1>5, <2>2 DEF Started
  <2>5. Divided(d)'
    BY <1>1, <1>2, <1>3, <1>4, <1>5, <2>1, <2>2 DEF Divided
  <2> QED BY <2>2, <2>3, <2>4, <2>5, OthersDivide
<1> QED BY <1>6, <1>7


LEMMA AloneSteps ==
  ASSUME Reporting, Dividing, NEW d \in Sent,
         \/ FilterLinks(d) \/ KeepTogether(d) \/ NothingFound(d) \/ WriteMongo(d)
         \/ MongoFails(d) \/ Answer(d)
  PROVE  Reporting' /\ Dividing'
<1>1. UNCHANGED << vars, input, found >>
  BY DEF FilterLinks, KeepTogether, NothingFound, WriteMongo, MongoFails, Answer
<1>2. Reporting'
  BY <1>1, UnchangedReporting
<1>3. CASE FilterLinks(d)
  <2>1. at[d] = "filter" /\ at' = Set(at, d, "split")
    BY <1>3 DEF FilterLinks, GoesTo
  <2>2. inserted' = inserted
    BY <1>3 DEF FilterLinks
  <2>3. GoesAlone(d, "filter", "split")
    BY <1>1, <2>1, <2>2 DEF GoesAlone
  <2> QED BY <1>2, <2>2, <2>3, AloneDivides
<1>4. CASE KeepTogether(d)
  <2>1. at[d] = "split" /\ at' = Set(at, d, "mongo")
    BY <1>4 DEF KeepTogether, GoesTo
  <2>2. inserted' = inserted /\ ~Splits(Page(d))
    BY <1>4 DEF KeepTogether
  <2>3. GoesAlone(d, "split", "mongo")
    BY <1>1, <2>1, <2>2 DEF GoesAlone
  <2> QED BY <1>2, <2>2, <2>3, AloneDivides
<1>5. CASE NothingFound(d)
  <2>1. at[d] = "split" /\ at' = Set(at, d, "answer")
    BY <1>5 DEF NothingFound, GoesTo
  <2>2. inserted' = inserted /\ found[d] = << >>
    BY <1>5 DEF NothingFound
  <2>3. GoesAlone(d, "split", "answer")
    BY <1>1, <2>1, <2>2 DEF GoesAlone
  <2> QED BY <1>2, <2>2, <2>3, AloneDivides
<1>6. CASE WriteMongo(d)
  <2>1. at[d] = "mongo" /\ at' = Set(at, d, "answer")
    BY <1>6 DEF WriteMongo, GoesTo
  <2>2. \E done \in SUBSET (Ids(found[d]) \ {NoSku}) : inserted' = Set(inserted, d, done)
    BY <1>6 DEF WriteMongo
  <2>3. GoesAlone(d, "mongo", "answer")
    BY <1>1, <2>1, <2>2 DEF GoesAlone
  <2> QED BY <1>2, <2>2, <2>3, AloneDivides
<1>7. CASE MongoFails(d)
  <2>1. at[d] = "mongo" /\ at' = Set(at, d, "answer")
    BY <1>7 DEF MongoFails, GoesTo
  <2>2. inserted' = inserted
    BY <1>7 DEF MongoFails
  <2>3. GoesAlone(d, "mongo", "answer")
    BY <1>1, <2>1, <2>2 DEF GoesAlone
  <2> QED BY <1>2, <2>2, <2>3, AloneDivides
<1>8. CASE Answer(d)
  <2>1. at[d] = "answer" /\ at' = Set(at, d, "done")
    BY <1>8 DEF Answer, GoesTo
  <2>2. inserted' = inserted
    BY <1>8 DEF Answer
  <2>3. GoesAlone(d, "answer", "done")
    BY <1>1, <2>1, <2>2 DEF GoesAlone
  <2> QED BY <1>2, <2>2, <2>3, AloneDivides
<1> QED BY <1>2, <1>3, <1>4, <1>5, <1>6, <1>7, <1>8

LEMMA KillStep ==
  ASSUME Reporting, Dividing, NEW d \in Sent, Kill(d)
  PROVE  Reporting' /\ Dividing'
<1>1. /\ UNCHANGED << job, read, products, status, request, messages, next, code, known, raw, pp,
                      rawDb, written, input, found, inserted >>
      /\ at' = Set(at, d, "dead")
      /\ pc' = IF InProgress(d) THEN Set(pc, d, "dead") ELSE pc
  BY DEF Kill, taskVars, streams
<1>2. d \in Tasks
  BY CrawlsAssumption
<1>3. /\ pc' \in [Tasks -> Places] /\ pc'[d] \in {"dead", pc[d]}
      /\ \A u \in Tasks \ {d} : pc'[u] = pc[u]
  BY <1>1, <1>2 DEF Reporting, Typed, Set, Places
<1>4. Reporting'
  <2>1. Typed'
    BY <1>1, <1>3 DEF Reporting, Typed
  <2>2. \A u \in Tasks \ {d} : Still(u)
    BY <1>1, <1>3 DEF Still
  <2>3. CASE pc'[d] = "dead"
    <3>1. ~Succeeded(d)'
      BY <2>3 DEF Succeeded
    <3>2. Reports(d)'
      BY <1>1, <1>2, <2>3, <3>1, EndReports DEF Reporting, Reports
    <3> QED BY <1>1, <2>1, <2>2, <3>2, StillKeeps DEF Reporting, Reports
  <2>4. CASE pc'[d] = pc[d]
    <3>1. \A u \in Tasks : Still(u)
      BY <1>1, <2>2, <2>4 DEF Still
    <3> QED BY <1>1, <2>1, <3>1, StillKeeps DEF Reporting
  <2> QED BY <1>3, <2>3, <2>4
<1>5. Dividing'
  <2>1. DiscoveryTyped' /\ at'[d] = "dead" /\ \A e \in Sent \ {d} : at'[e] = at[e]
    BY <1>1 DEF Dividing, DiscoveryTyped, Set
  <2>2. \A e \in Sent \ {d} : Rests(e)
    BY <1>1, <1>3, <2>1, CrawlsAssumption DEF Rests
  <2>3. Page(d)' = Page(d)
    BY <1>1 DEF Page
  <2>4. Started(d)'
    BY <1>3, <2>1 DEF Dividing, Started
  <2>5. Divided(d)'
    BY <1>1, <2>1, <2>3 DEF Dividing, Divided, Splits
  <2> QED BY <2>1, <2>2, <2>4, <2>5, OthersDivide
<1> QED BY <1>4, <1>5

(* What a recrawl that a discovery has started does with its products.     *)
LEMMA SentStep ==
  ASSUME Reporting, NEW t \in Sent, Step(t) \/ Die(t), pc[t] \notin {"read", "crawl", "late"}
  PROVE  /\ pc[t] # "idle" /\ pc'[t] \notin {"read", "crawl", "late"} /\ read'[t] = read[t]
         /\ Ids(products'[t]) = read[t] \/ products'[t] = products[t]
<1>1. t \in Tasks
  BY CrawlsAssumption
<1>2. CASE Prepare(t)
  <2>1. pc[t] = "prepare" /\ pc'[t] = "write" /\ read' = read
    BY <1>1, <1>2 DEF Prepare, Goto, Reporting, Typed
  <2>2. products[t] \in Seq(Products) /\ read[t] \in SUBSET Skus
    BY <1>1 DEF Reporting, Typed
  <2>3. Ids(OldVariations(products[t], read[t])) = read[t]
    BY <2>2, OldVariationsProperties DEF Enumerates
  <2>4. products' = products \/ products'[t] = OldVariations(products[t], read[t])
    BY <1>1, <1>2 DEF Prepare, Set, Reporting, Typed
  <2> QED BY <2>1, <2>3, <2>4
<1>3. CASE Skip(t) \/ WriteRdstore(t) \/ PublishRaw(t) \/ PublishPp(t) \/ Succeed(t)
  <2>1. read' = read /\ products' = products
    BY <1>3 DEF Skip, WriteRdstore, PublishRaw, PublishPp, Succeed, taskVars
  <2>2. pc[t] # "idle"
    BY <1>3 DEF Skip, WriteRdstore, WriteFailed, PublishRaw, PublishPp, Succeed, End, Goto
  <2>3. pc'[t] \in {"ended", "raw", "pp"}
    BY <1>1, <1>3 DEF Skip, WriteRdstore, WriteFailed, PublishRaw, PublishPp, PpFailed, Succeed,
       End, Goto, Reporting, Typed
  <2> QED BY <2>1, <2>2, <2>3
<1>4. CASE Die(t)
  BY <1>1, <1>4 DEF Die, InProgress, Set, taskVars, Reporting, Typed
<1>5. ~(ReadRdstore(t) \/ Crawl(t) \/ RealtimeReads(t) \/ RealtimeLeaves(t))
  BY DEF ReadRdstore, Crawl, RealtimeReads, RealtimeLeaves, End, Goto
<1> QED BY <1>2, <1>3, <1>4, <1>5 DEF Step

LEMMA RecrawlStep ==
  ASSUME Reporting, Dividing, NEW t \in Tasks, Step(t) \/ Die(t), UNCHANGED discoveryVars
  PROVE  Reporting' /\ Dividing'
<1>1. Reporting' /\ \A u \in Tasks \ {t} : Still(u)
  BY StepReporting DEF Leaves
<1>2. UNCHANGED << at, found, input, inserted >>
  BY DEF discoveryVars
<1>3. DiscoveryTyped'
  BY <1>2 DEF Dividing, DiscoveryTyped
<1>4. ASSUME NEW e \in Sent PROVE Started(e)' /\ Divided(e)'
  <2>1. e \in Tasks
    BY CrawlsAssumption
  <2>2. CASE e # t
    <3>1. Rests(e)
      BY <1>1, <1>2, <2>1, <2>2 DEF Rests, Still
    <3> QED BY <3>1, RestsDivided DEF Dividing
  <2>3. CASE e = t
    <3>1. /\ pc[e] # "idle" /\ pc'[e] \notin {"read", "crawl", "late"} /\ read'[e] = read[e]
          /\ Ids(products'[e]) = read[e] \/ products'[e] = products[e]
      BY <2>3, SentStep DEF Dividing, Started
    <3>2. Page(e)' = Page(e)
      BY <1>2 DEF Page
    <3>3. Started(e)'
      BY <1>2, <3>1 DEF Dividing, Started
    <3>4. Divided(e)'
      BY <1>2, <3>1, <3>2 DEF Dividing, Divided, Splits
    <3> QED BY <3>3, <3>4
  <2> QED BY <2>2, <2>3
<1> QED BY <1>1, <1>3, <1>4 DEF Dividing

LEMMA IndexStep ==
  ASSUME Reporting, Dividing, NEW s \in Skus, Index(s)
  PROVE  Reporting' /\ Dividing'
<1>1. Reporting'
  BY DiscoverReporting DEF Index
<1>2. DiscoveryTyped'
  BY DEF Index, discoveryVars, Dividing, DiscoveryTyped
<1>3. \A e \in Sent : Rests(e)
  BY DEF Index, Discover, discoveryVars, taskVars, Rests
<1> QED BY <1>1, <1>2, <1>3, RestsDivided DEF Dividing

LEMMA RestingStep ==
  ASSUME Reporting, Dividing, UNCHANGED allVars
  PROVE  Reporting' /\ Dividing'
<1>1. Reporting'
  BY UnchangedReporting DEF allVars
<1>2. DiscoveryTyped'
  BY DEF allVars, discoveryVars, Dividing, DiscoveryTyped
<1>3. \A e \in Sent : Rests(e)
  BY DEF allVars, discoveryVars, vars, taskVars, Rests
<1> QED BY <1>1, <1>2, <1>3, RestsDivided DEF Dividing

LEMMA InitDividing == DiscoveryInit => Reporting /\ Dividing
<1> SUFFICES ASSUME DiscoveryInit PROVE Reporting /\ Dividing
  OBVIOUS
<1>1. Init
  BY DEF DiscoveryInit
<1>2. Reporting
  BY <1>1, InitReporting
<1>3. /\ input \in [Sent -> Discovered] /\ at = [d \in Sent |-> "read"]
      /\ found = [d \in Sent |-> << >>] /\ inserted = [d \in Sent |-> {}]
  BY Zenon DEF DiscoveryInit
<1>4. DiscoveryTyped
  BY <1>3 DEF DiscoveryTyped
<1>5. ASSUME NEW d \in Sent PROVE Started(d) /\ Divided(d)
  <2>1. d \in Tasks /\ d \notin Realtime
    BY CrawlsAssumption
  <2>2. pc = [t \in Tasks |-> FirstStep(t)] /\ products = [t \in Tasks |-> << >>]
        /\ read = [t \in Tasks |-> {}]
    BY <1>1, Zenon DEF Init
  <2>3. pc[d] = "idle" /\ products[d] = << >> /\ read[d] = {}
    BY <2>1, <2>2 DEF FirstStep
  <2>4. at[d] = "read" /\ inserted[d] = {}
    BY <1>3
  <2> QED BY <2>3, <2>4 DEF Started, Divided
<1> QED BY <1>2, <1>4, <1>5 DEF Dividing

LEMMA NextDividing == Reporting /\ Dividing /\ [DiscoveryNext]_allVars => Reporting' /\ Dividing'
<1> SUFFICES ASSUME Reporting, Dividing, [DiscoveryNext]_allVars PROVE Reporting' /\ Dividing'
  OBVIOUS
<1>1. CASE UNCHANGED allVars
  BY <1>1, RestingStep
<1>2. ASSUME NEW d \in Sent, DiscoveryStep(d) PROVE Reporting' /\ Dividing'
  BY <1>2, ReadProductStep, CrawlPageStep, SplitStep, AloneSteps, KillStep DEF DiscoveryStep
<1>3. ASSUME NEW t \in Tasks, (Step(t) /\ UNCHANGED discoveryVars) \/ KillRecrawl(t)
      PROVE  Reporting' /\ Dividing'
  BY <1>3, RecrawlStep DEF KillRecrawl
<1>4. ASSUME NEW s \in Skus, Index(s) PROVE Reporting' /\ Dividing'
  BY <1>4, IndexStep
<1>5. CASE DiscoveryTerminated
  BY <1>5, RestingStep DEF DiscoveryTerminated, Terminated, allVars
<1> QED BY <1>1, <1>2, <1>3, <1>4, <1>5 DEF DiscoveryNext

LEMMA DividingImpliesOldOrNew == Reporting /\ Dividing => OldOrNew
<1> SUFFICES ASSUME Reporting, Dividing, NEW d \in Sent, Splits(Page(d))
             PROVE  /\ inserted[d] \cap read[d] = {}
                    /\ {raw[d][k].sku : k \in DOMAIN raw[d]} \subseteq read[d]
                    /\ at[d] = "done" /\ fault[d] = "" /\ input[d].crawl # << >> =>
                         (Ids(found[d]) \cup Ids(products[d])) \ {NoSku}
                           = (Ids(input[d].crawl) \cup read[d]) \ {NoSku}
  BY Zenon DEF OldOrNew
<1>1. inserted[d] \cap read[d] = {}
  BY DEF Dividing, Divided
<1>2. d \in Tasks
  BY CrawlsAssumption
<1>3. ASSUME NEW k \in DOMAIN raw[d] PROVE raw[d][k].sku \in read[d]
  <2>1. raw[d] \in Seq(Messages) /\ messages[d] \in Seq(Messages) /\ Begins(raw[d], messages[d])
    BY <1>2 DEF Reporting, Typed, Published
  <2>2. raw[d][k] = messages[d][k] /\ k \in DOMAIN messages[d]
    BY <2>1 DEF Begins
  <2> QED BY <1>2, <2>2 DEF Reporting, Prepared
<1>4. ASSUME at[d] = "done", input[d].crawl # << >>
      PROVE  (Ids(found[d]) \cup Ids(products[d])) \ {NoSku}
               = (Ids(input[d].crawl) \cup read[d]) \ {NoSku}
  <2>1. /\ Ids(found[d]) \ {NoSku} = Ids(input[d].crawl) \ (read[d] \cup {NoSku})
        /\ Ids(products[d]) = read[d]
    BY <1>4 DEF Dividing, Divided
  <2> QED BY <2>1
<1> QED BY <1>1, <1>3, <1>4

(* Of a product page that is discovered, rdstore's own variations are      *)
(* never inserted as new, only they are announced, and no variation is     *)
(* lost between the two, for any number of discoveries and recrawls of the *)
(* page, whatever fails (PostCrawlOps of the discovery pipeline and        *)
(* sendOldVariatonsToRecrawl).                                             *)
THEOREM Divides == DiscoverySpec => []OldOrNew
<1> QED BY InitDividing, NextDividing, DividingImpliesOldOrNew, PTL DEF DiscoverySpec

(* The recrawls keep their promises beside discoveries of the page, those  *)
(* that a discovery has started among them.                                *)
THEOREM ReportedBesideDiscoveries == DiscoverySpec => [](EverySkuReported /\ AnnouncedAfterWrite)
<1>1. Reporting => EverySkuReported /\ AnnouncedAfterWrite
  BY ReportingImpliesReported, ReportingImpliesAnnounced
<1> QED BY <1>1, InitDividing, NextDividing, PTL DEF DiscoverySpec

-----------------------------------------------------------------------------
(* LookUps is defined by recursion over the batches: there are such        *)
(* values, for each number of batches, and LookUps has them.               *)
LEMMA LookUpsSteps ==
  ASSUME NEW ls \in Seq(Links), NEW page, NEW noDomain, NEW failed
  PROVE  LET after == LookUps(ls, page, noDomain, failed)
         IN /\ after[0] = [index |-> 0, kept |-> {}]
            /\ \A i \in 1..NumBatches(ls) :
                 after[i] = LookUpBatch(after[i - 1], ls, i, page, noDomain, failed)
<1> DEFINE N == NumBatches(ls)
           Call(a, i) == LookUpBatch(a, ls, i, page, noDomain, failed)
           Zero == [index |-> 0, kept |-> {}]
           Runs(f, n) == /\ f[0] = Zero
                         /\ \A i \in 1..n : f[i] = Call(f[i - 1], i)
           Stuck == {n \in Nat : ~ \E f : Runs(f, n)}
<1> HIDE DEF Call, Zero
<1>0. N \in Nat
  BY LinksAssumption DEF NumBatches
<1>1. Stuck = {}
  <2> SUFFICES ASSUME Stuck # {} PROVE FALSE
    OBVIOUS
  <2>1. PICK n \in Stuck : \A k \in Stuck : n <= k
    BY Least
  <2>2. CASE n = 0
    <3> DEFINE f == [i \in {0} |-> Zero]
    <3>1. Runs(f, 0)
      OBVIOUS
    <3> QED BY <2>1, <2>2, <3>1
  <2>3. CASE n # 0
    <3>1. n \in Nat /\ n - 1 \in Nat /\ ~(n <= n - 1)
      BY <2>1, <2>3
    <3>2. n - 1 \notin Stuck
      <4> HIDE DEF Stuck
      <4> QED BY <2>1, <3>1
    <3>3. PICK f : Runs(f, n - 1)
      <4> HIDE DEF Runs
      <4> QED BY <3>1, <3>2
    <3> DEFINE g == [i \in 0..n |-> IF i = n THEN Call(f[n - 1], n) ELSE f[i]]
    <3>4. g[0] = Zero
      BY <2>1, <2>3, <3>3
    <3>5. ASSUME NEW i \in 1..n PROVE g[i] = Call(g[i - 1], i)
      <4>1. i - 1 \in 0..n /\ i - 1 # n /\ i \in 0..n
        BY <2>1
      <4>2. g[i - 1] = f[i - 1]
        BY <4>1
      <4>3. i # n => i \in 1..(n - 1)
        BY <2>1
      <4> QED BY <3>3, <4>1, <4>2, <4>3
    <3>6. Runs(g, n)
      BY <3>4, <3>5
    <3> QED BY <2>1, <3>6
  <2> QED BY <2>2, <2>3
<1>2. PICK f : Runs(f, N)
  BY <1>0, <1>1
<1> DEFINE Def(h) == [i \in 0..N |-> IF i = 0 THEN Zero ELSE Call(h[i - 1], i)]
<1>3. \E h : h = Def(h)
  <2> DEFINE h == [i \in 0..N |-> f[i]]
  <2>1. \A i \in 0..N : h[i] = IF i = 0 THEN Zero ELSE Call(h[i - 1], i)
    BY <1>0, <1>2
  <2>2. h = Def(h)
    BY <2>1
  <2> QED BY <2>2
<1>4. LookUps(ls, page, noDomain, failed) = CHOOSE h : h = Def(h)
  BY Zenon DEF LookUps, Zero, Call
<1> DEFINE after == LookUps(ls, page, noDomain, failed)
<1>5. after = Def(after)
  <2> HIDE DEF Def
  <2> QED BY Zenon, <1>3, <1>4
<1>6. after[0] = Zero /\ \A i \in 1..N : after[i] = Call(after[i - 1], i)
  <2> HIDE DEF after
  <2> QED BY <1>0, <1>5
<1> QED BY <1>6 DEF Call, Zero

-----------------------------------------------------------------------------
(* Where a batch ends in the list.                                         *)
BatchEnd(ls, i) == IF i * BatchSize <= Len(ls) THEN i * BatchSize ELSE Len(ls)

(* A batch is what lies between the end of the one before it and its own.  *)
LEMMA BatchIsInterval ==
  ASSUME NEW ls \in Seq(Links), NEW i \in 1..NumBatches(ls)
  PROVE  /\ BatchEnd(ls, i) \in Nat /\ BatchEnd(ls, i - 1) \in Nat
         /\ BatchEnd(ls, i - 1) <= BatchEnd(ls, i) /\ BatchEnd(ls, i) <= Len(ls)
         /\ Batch(ls, i) = (BatchEnd(ls, i - 1) + 1)..BatchEnd(ls, i)
         /\ IsFiniteSet(Batch(ls, i))
         /\ Cardinality(Batch(ls, i)) = BatchEnd(ls, i) - BatchEnd(ls, i - 1)
<1> DEFINE b == (i - 1) * BatchSize
<1>1. Len(ls) \in Nat /\ BatchSize \in Nat /\ BatchSize > 0 /\ i \in Nat /\ i - 1 \in Nat
  BY LinksAssumption DEF NumBatches
<1>2. i * BatchSize = b + BatchSize /\ b \in Nat
  BY <1>1
<1> HIDE DEF b
<1>3. /\ BatchEnd(ls, i) = IF b + BatchSize <= Len(ls) THEN b + BatchSize ELSE Len(ls)
      /\ BatchEnd(ls, i - 1) = IF b <= Len(ls) THEN b ELSE Len(ls)
  BY <1>1, <1>2 DEF BatchEnd, b
<1>4. Batch(ls, i) = {p \in 1..Len(ls) : b < p /\ p <= b + BatchSize}
  BY <1>1, <1>2 DEF Batch, b
<1>5. /\ BatchEnd(ls, i) \in Nat /\ BatchEnd(ls, i - 1) \in Nat
      /\ BatchEnd(ls, i - 1) <= BatchEnd(ls, i) /\ BatchEnd(ls, i) <= Len(ls)
      /\ Batch(ls, i) = (BatchEnd(ls, i - 1) + 1)..BatchEnd(ls, i)
  BY <1>1, <1>2, <1>3, <1>4
<1>6. ASSUME NEW m \in Nat, NEW n \in Nat, m <= n
      PROVE  IsFiniteSet((m + 1)..n) /\ Cardinality((m + 1)..n) = n - m
  <2>1. m + 1 \in Int /\ n \in Int
    OBVIOUS
  <2>2. PICK k : k = m + 1
    OBVIOUS
  <2>3. IsFiniteSet(k..n) /\ Cardinality(k..n) = IF k > n THEN 0 ELSE n - k + 1
    BY <2>1, <2>2, FS_Interval
  <2> QED BY <1>6, <2>2, <2>3
<1> QED BY <1>5, <1>6

(* The last batch ends with the list.                                      *)
LEMMA BatchesCover ==
  ASSUME NEW ls \in Seq(Links)
  PROVE  /\ NumBatches(ls) \in Nat \ {0}
         /\ BatchEnd(ls, 0) = 0 /\ BatchEnd(ls, NumBatches(ls)) = Len(ls)
<1> DEFINE q == Len(ls) \div BatchSize
<1>1. Len(ls) \in Nat /\ BatchSize \in Nat /\ BatchSize > 0
  BY LinksAssumption
<1>2. q \in Nat /\ Len(ls) < BatchSize * q + BatchSize
  BY <1>1
<1>3. (q + 1) * BatchSize = BatchSize * q + BatchSize
  BY <1>1, <1>2
<1>4. ~((q + 1) * BatchSize <= Len(ls))
  BY <1>1, <1>2, <1>3
<1> QED BY <1>1, <1>2, <1>4 DEF BatchEnd, NumBatches

(* A list of all elements of a set.                                        *)
LEMMA ListOfSet ==
  ASSUME NEW S, IsFiniteSet(S), NEW ls \in SetToSeqs(S)
  PROVE  /\ ls \in Seq(S) /\ DOMAIN ls = 1..Len(ls) /\ Len(ls) \in Nat
         /\ \A p, r \in DOMAIN ls : ls[p] = ls[r] => p = r
         /\ {ls[p] : p \in DOMAIN ls} = S
<1> DEFINE n == Cardinality(S)
<1>1. n \in Nat
  BY FS_CardinalityType
<1>2. ls \in [1..n -> S] /\ \A p, r \in 1..n : p # r => ls[p] # ls[r]
  BY DEF SetToSeqs
<1>3. ls \in Seq(S) /\ Len(ls) = n /\ DOMAIN ls = 1..n
  BY <1>1, <1>2
<1>4. ls \in Surjection(1..n, S)
  <2>1. ls \in Injection(1..n, S)
    BY <1>2 DEF Injection, IsInjective
  <2>2. IsFiniteSet(1..n) /\ Cardinality(1..n) = n
    BY <1>1, FS_Interval
  <2> QED BY <2>1, <2>2, FS_Injection
<1>5. \A s \in S : \E p \in 1..n : ls[p] = s
  BY <1>4 DEF Surjection
<1> QED BY <1>1, <1>2, <1>3, <1>5

(* What stands at different positions are as many links.                    *)
LEMMA AsManyLinks ==
  ASSUME NEW ls, NEW P, IsFiniteSet(P), \A p, r \in P : ls[p] = ls[r] => p = r
  PROVE  LET T == {ls[p] : p \in P}
         IN IsFiniteSet(T) /\ Cardinality(T) = Cardinality(P)
<1> DEFINE T == {ls[p] : p \in P}
           f == [p \in P |-> ls[p]]
<1>1. f \in Bijection(P, T)
  BY DEF Bijection, Injection, Surjection, IsInjective
<1>2. ExistsBijection(P, T)
  BY <1>1 DEF ExistsBijection
<1> HIDE DEF T
<1> QED BY <1>2, FS_Bijection DEF T

(* The positions of the links that a batch keeps.                          *)
Positions(index, ls, i, page, noDomain) ==
  {Position(index, ls, i, noDomain, p) : p \in Found(ls, i, page, noDomain)}

(* The positions of the links that a batch keeps are as many as the batch has *)
(* verified, further on than index stood, and no further than the batch    *)
(* moves it.  When every domain is known and index stands where the batch  *)
(* begins, they are the verified ones.                                     *)
LEMMA PositionsOfBatch ==
  ASSUME NEW ls \in Seq(Links), NEW i \in 1..NumBatches(ls), NEW page, NEW noDomain,
         NEW index \in Nat
  PROVE  LET good == Found(ls, i, page, noDomain)
             kept == Positions(index, ls, i, page, noDomain)
         IN /\ kept \subseteq (index + 1)..(index + Cardinality(Batch(ls, i)))
            /\ IsFiniteSet(kept) /\ Cardinality(kept) = Cardinality(good)
            /\ noDomain = {} /\ index = BatchEnd(ls, i - 1) => kept = good
<1> DEFINE batch == Batch(ls, i)
           named == Named(ls, i, noDomain)
           refused == Refused(ls, i, noDomain)
           good == Found(ls, i, page, noDomain)
           Rank(p) == Cardinality({q \in named : q <= p})
           first == index + Cardinality(refused)
           kept == Positions(index, ls, i, page, noDomain)
<1>1. /\ IsFiniteSet(batch) /\ batch \subseteq Nat
      /\ batch = (BatchEnd(ls, i - 1) + 1)..BatchEnd(ls, i)
      /\ BatchEnd(ls, i) \in Nat /\ BatchEnd(ls, i - 1) \in Nat
  <2>1. batch \subseteq Nat
    BY DEF Batch
  <2> HIDE DEF batch
  <2> QED BY <2>1, BatchIsInterval DEF batch
<1>2. named \in SUBSET batch /\ refused \in SUBSET batch /\ good \in SUBSET named
  BY DEF Named, Refused, Found
<1>3. IsFiniteSet(named) /\ IsFiniteSet(refused) /\ IsFiniteSet(good)
  BY <1>1, <1>2, FS_Subset
<1>4. Cardinality(refused) + Cardinality(named) = Cardinality(batch)
      /\ Cardinality(refused) \in Nat /\ Cardinality(named) \in Nat
  <2>1. refused \cup named = batch /\ refused \cap named = {}
    BY <1>2 DEF Refused
  <2>2. Cardinality(refused \cap named) = 0
    BY <2>1, FS_EmptySet
  <2>3. Cardinality(refused) \in Nat /\ Cardinality(named) \in Nat
    BY <1>3, FS_CardinalityType
  <2>4. Cardinality(refused \cup named)
          = Cardinality(refused) + Cardinality(named) - Cardinality(refused \cap named)
    BY <1>3, FS_Union
  <2> HIDE DEF batch, refused, named
  <2>5. Cardinality(refused \cup named) = Cardinality(batch)
    BY Zenon, <2>1
  <2> QED BY <2>2, <2>3, <2>4, <2>5
<1>5. /\ \A p \in named : Rank(p) \in 1..Cardinality(named)
      /\ \A p, q \in named : Rank(p) = Rank(q) => p = q
  <2> DEFINE rank == [p \in named |-> Rank(p)]
  <2>1. rank \in Bijection(named, 1..Cardinality(named))
    BY <1>1, <1>2, <1>3, RankIsBijection
  <2>2. rank \in [named -> 1..Cardinality(named)] /\ IsInjective(rank)
    BY <2>1 DEF Bijection, Injection
  <2> HIDE DEF Rank
  <2> QED BY <2>2 DEF IsInjective
<1>6. \A p : Position(index, ls, i, noDomain, p) = first + Rank(p)
  BY DEF Position
<1> HIDE DEF batch, named, refused, good, Rank
<1>7. first \in Nat
  BY <1>4
<1>8. \A p \in good : Rank(p) \in Nat /\ Rank(p) >= 1 /\ Rank(p) <= Cardinality(named)
  BY <1>2, <1>4, <1>5
<1> HIDE DEF first
<1>9. kept = {first + Rank(p) : p \in good}
  BY <1>6 DEF Positions, good
<1>10. kept \subseteq (index + 1)..(index + Cardinality(batch))
  <2>1. ASSUME NEW p \in good
        PROVE  first + Rank(p) \in (index + 1)..(index + Cardinality(batch))
    BY <1>4, <1>8 DEF first
  <2> QED BY <1>9, <2>1
<1>11. IsFiniteSet(kept) /\ Cardinality(kept) = Cardinality(good)
  <2> DEFINE place == [p \in good |-> first + Rank(p)]
  <2>1. \A p, q \in good : place[p] = place[q] => p = q
    BY <1>2, <1>5, <1>7, <1>8
  <2>2. kept = {place[p] : p \in good}
    BY <1>9
  <2>3. IsFiniteSet({place[p] : p \in good})
        /\ Cardinality({place[p] : p \in good}) = Cardinality(good)
    <3> HIDE DEF place
    <3> QED BY <1>3, <2>1, AsManyLinks
  <2> HIDE DEF kept, place
  <2> QED BY <2>2, <2>3
<1>12. ASSUME noDomain = {}, index = BatchEnd(ls, i - 1) PROVE kept = good
  <2>1. named = batch /\ refused = {}
    BY <1>12 DEF Named, Refused, batch, named, refused
  <2>2. first = index
    BY <2>1, FS_EmptySet DEF first
  <2>3. ASSUME NEW p \in good PROVE first + Rank(p) = p
    <3>1. p \in (index + 1)..BatchEnd(ls, i)
      BY <1>1, <1>2, <1>12, <2>1
    <3>2. {q \in named : q <= p} = (index + 1)..p
      BY <1>1, <1>12, <2>1, <3>1
    <3>3. p \in Int /\ index + 1 \in Int /\ p >= index + 1
      BY <3>1
    <3>4. Cardinality((index + 1)..p) = p - (index + 1) + 1
      BY <3>3, FS_Interval
    <3>5. Rank(p) = Cardinality((index + 1)..p)
      BY Zenon, <3>2 DEF Rank
    <3> QED BY <2>2, <3>3, <3>4, <3>5
  <2> QED BY <1>9, <2>3
<1> QED BY <1>10, <1>11, <1>12 DEF batch, good

(* The positions verified by the first batches.                            *)
VerifiedTo(ls, n, page, noDomain, failed) ==
  UNION {Found(ls, i, page, noDomain) : i \in {j \in 1..n : Answered(ls, j, noDomain, failed)}}

(* After a batch index has not gone beyond it, and as many positions as    *)
(* were verified have been kept, none of them beyond index; when nothing   *)
(* has failed they are the verified ones.                                  *)
Counted(acc, ls, n, page, noDomain, failed) ==
  LET verified == VerifiedTo(ls, n, page, noDomain, failed)
  IN /\ acc.index \in Nat /\ acc.index <= BatchEnd(ls, n)
     /\ verified \subseteq 1..BatchEnd(ls, n)
     /\ \E K \in SUBSET (1..acc.index) :
          /\ acc.kept = {ls[p] : p \in K}
          /\ Cardinality(K) = Cardinality(verified)
          /\ noDomain = {} /\ failed = {} => K = verified /\ acc.index = BatchEnd(ls, n)

(* A set that grows by what it did not have.                               *)
LEMMA Grows ==
  ASSUME NEW S, NEW T, IsFiniteSet(S), IsFiniteSet(T), S \cap T = {}
  PROVE  IsFiniteSet(S \cup T) /\ Cardinality(S \cup T) = Cardinality(S) + Cardinality(T)
<1>1. Cardinality(S \cap T) = 0
  BY FS_EmptySet
<1>2. Cardinality(S) \in Nat /\ Cardinality(T) \in Nat
  BY FS_CardinalityType
<1>3. /\ IsFiniteSet(S \cup T)
      /\ Cardinality(S \cup T) = Cardinality(S) + Cardinality(T) - Cardinality(S \cap T)
  BY FS_Union
<1> QED BY <1>1, <1>2, <1>3

LEMMA BatchCounts ==
  ASSUME NEW ls \in Seq(Links), NEW i \in 1..NumBatches(ls), NEW page, NEW noDomain,
         NEW failed, NEW acc, acc = [index |-> acc.index, kept |-> acc.kept],
         Counted(acc, ls, i - 1, page, noDomain, failed)
  PROVE  Counted(LookUpBatch(acc, ls, i, page, noDomain, failed),
                 ls, i, page, noDomain, failed)
<1> DEFINE before == VerifiedTo(ls, i - 1, page, noDomain, failed)
           verified == VerifiedTo(ls, i, page, noDomain, failed)
           batch == Batch(ls, i)
           refused == Refused(ls, i, noDomain)
           good == Found(ls, i, page, noDomain)
           later == LookUpBatch(acc, ls, i, page, noDomain, failed)
<1>1. /\ acc.index \in Nat /\ acc.index <= BatchEnd(ls, i - 1)
      /\ before \subseteq 1..BatchEnd(ls, i - 1)
  BY DEF Counted
<1>2. PICK K \in SUBSET (1..acc.index) :
        /\ acc.kept = {ls[p] : p \in K}
        /\ Cardinality(K) = Cardinality(before)
        /\ noDomain = {} /\ failed = {} => K = before /\ acc.index = BatchEnd(ls, i - 1)
  BY DEF Counted
<1>3. /\ BatchEnd(ls, i) \in Nat /\ BatchEnd(ls, i - 1) \in Nat
      /\ BatchEnd(ls, i - 1) <= BatchEnd(ls, i)
      /\ batch = (BatchEnd(ls, i - 1) + 1)..BatchEnd(ls, i)
      /\ IsFiniteSet(batch)
      /\ Cardinality(batch) = BatchEnd(ls, i) - BatchEnd(ls, i - 1)
  BY BatchIsInterval
<1>4. /\ good \subseteq batch /\ refused \subseteq batch
      /\ IsFiniteSet(good) /\ IsFiniteSet(refused)
      /\ Cardinality(refused) \in Nat /\ Cardinality(refused) <= Cardinality(batch)
  <2>1. good \in SUBSET batch /\ refused \in SUBSET batch
    BY DEF Found, Named, Refused
  <2> HIDE DEF good, refused, batch
  <2> QED BY <2>1, <1>3, FS_Subset, FS_CardinalityType
<1>5. (1..i) = (1..(i - 1)) \cup {i} /\ i \notin 1..(i - 1)
  BY DEF NumBatches
<1>6. verified = IF Answered(ls, i, noDomain, failed) THEN before \cup good ELSE before
  BY <1>5 DEF VerifiedTo
<1>7. IsFiniteSet(before) /\ IsFiniteSet(K)
  <2>1. \A n \in Nat : IsFiniteSet(1..n)
    BY FS_Interval
  <2> HIDE DEF before
  <2>2. IsFiniteSet(1..BatchEnd(ls, i - 1)) /\ IsFiniteSet(1..acc.index)
    BY <1>1, <1>3, <2>1
  <2> QED BY <1>1, <1>2, <2>2, FS_Subset
<1> HIDE DEF before, verified, batch, refused, good
<1>8. CASE Answered(ls, i, noDomain, failed)
  <2> DEFINE kept == Positions(acc.index, ls, i, page, noDomain)
             L == K \cup kept
  <2>1. /\ kept \subseteq (acc.index + 1)..(acc.index + Cardinality(batch))
        /\ IsFiniteSet(kept) /\ Cardinality(kept) = Cardinality(good)
        /\ noDomain = {} /\ acc.index = BatchEnd(ls, i - 1) => kept = good
    <3>1. acc.index \in Nat
      BY <1>1
    <3> QED BY Zenon, <3>1, PositionsOfBatch DEF good, batch
  <2>2. later = [index |-> acc.index + Cardinality(batch),
                kept |-> acc.kept \cup {LinkKept(acc.index, ls, i, noDomain, p) : p \in good}]
    BY <1>8 DEF LookUpBatch, batch, good
  <2>3. later.kept = {ls[p] : p \in L} /\ later.index = acc.index + Cardinality(batch)
    <3>1. \A p \in good : LinkKept(acc.index, ls, i, noDomain, p)
                            = ls[Position(acc.index, ls, i, noDomain, p)]
      BY DEF LinkKept
    <3> HIDE DEF later
    <3>2. kept = {Position(acc.index, ls, i, noDomain, p) : p \in good}
      BY DEF Positions, good
    <3> HIDE DEF kept
    <3> QED BY <1>2, <2>2, <3>1, <3>2
  <2>4. later.index \in Nat /\ later.index <= BatchEnd(ls, i)
    BY <1>1, <1>3, <2>3
  <2> HIDE DEF later, kept
  <2>5. L \in SUBSET (1..later.index)
    <3>1. Cardinality(batch) \in Nat
      BY <1>3
    <3>2. \A p \in K : p \in 1..later.index
      BY <1>1, <1>2, <2>3, <3>1
    <3>3. \A p \in kept : p \in 1..later.index
      BY <1>1, <2>1, <2>3, <3>1
    <3> QED BY <3>2, <3>3
  <2>6. K \cap kept = {}
    BY <1>1, <1>2, <2>1
  <2>7. before \cap good = {}
    BY <1>1, <1>3, <1>4
  <2>8. Cardinality(L) = Cardinality(verified)
    <3>1. Cardinality(L) = Cardinality(K) + Cardinality(kept)
      BY <1>7, <2>1, <2>6, Grows
    <3>2. Cardinality(before \cup good) = Cardinality(before) + Cardinality(good)
      BY <1>4, <1>7, <2>7, Grows
    <3>3. verified = before \cup good
      BY <1>6, <1>8
    <3> QED BY <1>2, <2>1, <3>1, <3>2, <3>3
  <2>9. ASSUME noDomain = {}, failed = {}
        PROVE  L = verified /\ later.index = BatchEnd(ls, i)
    BY <1>2, <1>3, <1>6, <1>8, <2>1, <2>3, <2>9
  <2>10. verified \subseteq 1..BatchEnd(ls, i)
    BY <1>1, <1>3, <1>4, <1>6
  <2> HIDE DEF L
  <2> QED BY <2>3, <2>4, <2>5, <2>8, <2>9, <2>10 DEF Counted, later, verified
<1>9. CASE ~Answered(ls, i, noDomain, failed)
  <2>1. later.index = acc.index + Cardinality(refused) /\ later.kept = acc.kept
    BY <1>9 DEF LookUpBatch, refused
  <2> HIDE DEF later
  <2>2. later.index \in Nat /\ later.index <= BatchEnd(ls, i)
    BY <1>1, <1>3, <1>4, <2>1
  <2>3. K \in SUBSET (1..later.index)
    BY <1>1, <1>2, <1>4, <2>1
  <2>4. verified = before
    BY <1>6, <1>9
  <2>5. ASSUME noDomain = {}, failed = {} PROVE later.index = BatchEnd(ls, i)
    <3>1. Named(ls, i, noDomain) = batch /\ refused = {}
      BY <2>5 DEF Named, Refused, refused, batch
    <3>2. batch = {}
      BY <1>9, <2>5, <3>1 DEF Answered
    <3>3. Cardinality(refused) = 0 /\ Cardinality(batch) = 0
      BY <3>1, <3>2, FS_EmptySet
    <3> QED BY <1>1, <1>2, <1>3, <2>1, <2>5, <3>3
  <2>6. verified \subseteq 1..BatchEnd(ls, i)
    BY <1>1, <1>3, <2>4
  <2> QED BY <1>2, <2>1, <2>2, <2>3, <2>4, <2>5, <2>6 DEF Counted, later, verified
<1> QED BY <1>8, <1>9

(* By induction over the batches, for their loop to its end.               *)
LEMMA LookUpsCount ==
  ASSUME NEW ls \in Seq(Links), NEW page, NEW noDomain, NEW failed
  PROVE  LET N == NumBatches(ls)
         IN Counted(LookUps(ls, page, noDomain, failed)[N], ls, N, page, noDomain, failed)
<1> DEFINE N == NumBatches(ls)
           after == LookUps(ls, page, noDomain, failed)
           Good(n) == /\ after[n] = [index |-> after[n].index, kept |-> after[n].kept]
                      /\ Counted(after[n], ls, n, page, noDomain, failed)
           Bad == {n \in 0..N : ~Good(n)}
<1>1. N \in Nat /\ BatchEnd(ls, 0) = 0
  BY BatchesCover
<1>2. /\ after[0] = [index |-> 0, kept |-> {}]
      /\ \A i \in 1..N : after[i] = LookUpBatch(after[i - 1], ls, i, page, noDomain, failed)
  BY LookUpsSteps
<1> HIDE DEF after, N
<1>3. Good(0)
  <2>1. VerifiedTo(ls, 0, page, noDomain, failed) = {}
    BY DEF VerifiedTo
  <2>2. /\ {} \in SUBSET (1..after[0].index)
        /\ after[0].kept = {ls[p] : p \in {}}
        /\ after[0].index = 0 /\ after[0].kept = {}
    BY <1>2
  <2>3. Cardinality({}) = Cardinality({}) /\ {} \subseteq 1..0
    OBVIOUS
  <2>4. Counted(after[0], ls, 0, page, noDomain, failed)
    BY <1>1, <2>1, <2>2, <2>3 DEF Counted
  <2> QED BY <1>2, <2>2, <2>4
<1>4. ASSUME NEW i \in 1..N, Good(i - 1) PROVE Good(i)
  <2>1. Counted(after[i], ls, i, page, noDomain, failed)
    BY <1>2, <1>4, BatchCounts DEF N
  <2>2. after[i] = [index |-> after[i].index, kept |-> after[i].kept]
    <3>1. after[i] = LookUpBatch(after[i - 1], ls, i, page, noDomain, failed)
      BY <1>2
    <3>2. after[i - 1] = [index |-> after[i - 1].index, kept |-> after[i - 1].kept]
      BY <1>4
    <3>3. PICK acc : acc = after[i - 1]
      OBVIOUS
    <3>4. CASE Answered(ls, i, noDomain, failed)
      BY <3>1, <3>4 DEF LookUpBatch
    <3>5. CASE ~Answered(ls, i, noDomain, failed)
      <4>1. after[i] = [acc EXCEPT !.index = @ + Cardinality(Refused(ls, i, noDomain))]
        BY <3>1, <3>3, <3>5 DEF LookUpBatch
      <4>2. acc = [index |-> acc.index, kept |-> acc.kept]
        BY <3>2, <3>3
      <4> QED BY <4>1, <4>2
    <3> QED BY <3>4, <3>5
  <2> QED BY <2>1, <2>2
<1> HIDE DEF Good
<1>5. Bad = {}
  <2> SUFFICES ASSUME Bad # {} PROVE FALSE
    OBVIOUS
  <2>1. Bad \subseteq Nat
    BY <1>1
  <2>2. PICK n \in Bad : \A k \in Bad : n <= k
    BY <2>1, Least
  <2>3. n \in 1..N
    BY <1>1, <1>3, <2>2
  <2>4. Good(n - 1)
    BY <1>1, <2>2, <2>3
  <2> QED BY <1>4, <2>2, <2>3, <2>4
<1>6. Good(N)
  BY <1>1, <1>5
<1> QED BY <1>6 DEF Good, after, N

(* Every position is in one of the batches.                                *)
LEMMA EveryPositionInBatch ==
  ASSUME NEW ls \in Seq(Links), NEW p \in DOMAIN ls
  PROVE  \E i \in 1..NumBatches(ls) : p \in Batch(ls, i)
<1> DEFINE Reach == {n \in 0..NumBatches(ls) : p <= BatchEnd(ls, n)}
<1>1. NumBatches(ls) \in Nat /\ BatchEnd(ls, 0) = 0 /\ BatchEnd(ls, NumBatches(ls)) = Len(ls)
  BY BatchesCover
<1>2. p \in Nat /\ p > 0 /\ p <= Len(ls)
  OBVIOUS
<1>3. Reach \subseteq Nat /\ Reach # {}
  BY <1>1, <1>2
<1>4. PICK i \in Reach : \A n \in Reach : i <= n
  BY <1>3, Least
<1>5. i \in 1..NumBatches(ls)
  BY <1>1, <1>2, <1>4
<1>6. i - 1 \notin Reach
  BY <1>4, <1>5
<1>7. BatchEnd(ls, i - 1) \in Nat /\ BatchEnd(ls, i) \in Nat
      /\ Batch(ls, i) = (BatchEnd(ls, i - 1) + 1)..BatchEnd(ls, i)
  BY <1>5, BatchIsInterval
<1>8. ~(p <= BatchEnd(ls, i - 1)) /\ p <= BatchEnd(ls, i)
  BY <1>1, <1>4, <1>5, <1>6
<1> QED BY <1>2, <1>5, <1>7, <1>8

(* The products fed back are links of the list, as many as were verified   *)
(* to be eligible, and the eligible ones when nothing has failed.          *)
LEMMA FilterCounts ==
  ASSUME NEW S \in SUBSET Links, NEW ls \in SetToSeqs(S), NEW page, NEW noDomain, NEW failed
  PROVE  LET kept == FilterProductLinks(ls, page, noDomain, failed)
             verified == Verified(ls, page, noDomain, failed)
         IN /\ kept \subseteq S /\ Cardinality(kept) = Cardinality(verified)
            /\ noDomain = {} /\ failed = {} =>
                 kept = {l \in S : page.verdict[l] # "indexed"}
<1> DEFINE N == NumBatches(ls)
           kept == FilterProductLinks(ls, page, noDomain, failed)
           listed == Verified(ls, page, noDomain, failed)
           verified == VerifiedTo(ls, N, page, noDomain, failed)
           last == LookUps(ls, page, noDomain, failed)[N]
<1>1. IsFiniteSet(S)
  BY FS_Subset, LinksAssumption
<1>2. /\ ls \in Seq(S) /\ DOMAIN ls = 1..Len(ls) /\ Len(ls) \in Nat
      /\ \A p, r \in DOMAIN ls : ls[p] = ls[r] => p = r
      /\ {ls[p] : p \in DOMAIN ls} = S
  BY <1>1, ListOfSet
<1>3. ls \in Seq(Links)
  BY <1>2
<1>4. BatchEnd(ls, N) = Len(ls)
  BY <1>3, BatchesCover
<1>5. Counted(last, ls, N, page, noDomain, failed)
  BY <1>3, LookUpsCount
<1>6. last.index \in Nat /\ last.index <= Len(ls) /\ verified \subseteq 1..Len(ls)
  BY <1>4, <1>5 DEF Counted
<1>7. PICK K \in SUBSET (1..last.index) :
        /\ last.kept = {ls[p] : p \in K}
        /\ Cardinality(K) = Cardinality(verified)
        /\ noDomain = {} /\ failed = {} => K = verified
  BY <1>5 DEF Counted
<1>8. kept = {ls[p] : p \in K}
  BY <1>7 DEF FilterProductLinks
<1>9. listed = {ls[p] : p \in verified}
  BY DEF Verified, VerifiedTo
<1> HIDE DEF verified, kept, listed, last
<1>10. K \in SUBSET DOMAIN ls /\ verified \in SUBSET DOMAIN ls
  BY <1>2, <1>6
<1>11. IsFiniteSet(K) /\ IsFiniteSet(verified)
  <2>1. IsFiniteSet(1..Len(ls))
    BY <1>2, FS_Interval
  <2> QED BY <1>2, <1>10, <2>1, FS_Subset
<1>12. Cardinality(kept) = Cardinality(listed)
  <2>1. ASSUME NEW P \in SUBSET DOMAIN ls, IsFiniteSet(P)
        PROVE  Cardinality({ls[p] : p \in P}) = Cardinality(P)
    <3>1. \A p, r \in P : ls[p] = ls[r] => p = r
      BY <1>2
    <3> QED BY Zenon, <2>1, <3>1, AsManyLinks
  <2>2. /\ Cardinality({ls[p] : p \in K}) = Cardinality(K)
        /\ Cardinality({ls[p] : p \in verified}) = Cardinality(verified)
    BY <1>10, <1>11, <2>1
  <2> QED BY <1>7, <1>8, <1>9, <2>2
<1>13. ASSUME noDomain = {}, failed = {}
       PROVE  kept = {l \in S : page.verdict[l] # "indexed"}
  <2>1. ASSUME NEW p \in DOMAIN ls
        PROVE  p \in verified <=> Eligible(page, ls[p])
    <3>1. PICK i \in 1..N : p \in Batch(ls, i)
      BY <1>3, EveryPositionInBatch
    <3>2. Named(ls, i, noDomain) = Batch(ls, i) /\ Answered(ls, i, noDomain, failed)
      BY <1>13, <3>1 DEF Named, Answered
    <3>3. Eligible(page, ls[p]) => p \in Found(ls, i, page, noDomain)
      BY <3>1, <3>2 DEF Found
    <3>4. p \in verified => Eligible(page, ls[p])
      BY DEF verified, VerifiedTo, Found
    <3> QED BY <3>2, <3>3, <3>4 DEF verified, VerifiedTo
  <2>2. kept = {ls[p] : p \in verified}
    BY <1>7, <1>8, <1>13
  <2> QED BY <1>2, <1>10, <2>1, <2>2 DEF Eligible
<1>14. kept \subseteq S
  BY <1>2, <1>8, <1>10
<1> QED BY <1>12, <1>13, <1>14 DEF kept, listed

-----------------------------------------------------------------------------
Stages == {"read", "crawl", "filter", "split", "mongo", "answer", "done", "dead"}

(* What has just been looked up is counted, where discoveries are.         *)
Counting ==
  /\ at \in [Sent -> Stages] /\ lookup = [d \in Sent |-> lookup[d]]
  /\ FeedbackCounted

(* A function that is changed at one place is one on the same set.         *)
LEMMA OnSameSet ==
  ASSUME NEW S, NEW f, f = [x \in S |-> f[x]], NEW d, NEW v, NEW g, g = [f EXCEPT ![d] = v]
  PROVE  g = [x \in S |-> g[x]]
<1>1. g = [x \in S |-> IF x = d THEN v ELSE f[x]]
  OBVIOUS
<1> QED BY <1>1

(* A step that leaves the links to those that have them.                   *)
LEMMA NoLinksFiltered ==
  ASSUME Counting, at' \in [Sent -> Stages], lookup' = [d \in Sent |-> lookup'[d]], input' = input,
         \A d \in Sent : at'[d] = "split" => at[d] = "split" /\ lookup'[d] = lookup[d]
  PROVE  Counting'
<1> SUFFICES ASSUME NEW d \in Sent, at'[d] = "split", ~Page(d)'.force
             PROVE  /\ Cardinality(lookup'[d].kept) = Cardinality(lookup'[d].verified)
                    /\ lookup'[d].complete =>
                         lookup'[d].kept = {l \in ProductsOf(Page(d)') : Eligible(Page(d)', l)}
  BY Zenon DEF Counting, FeedbackCounted
<1>1. Page(d)' = Page(d)
  BY DEF Page
<1>2. at[d] = "split" /\ lookup'[d] = lookup[d]
  OBVIOUS
<1> QED BY <1>1, <1>2 DEF Counting, FeedbackCounted

LEMMA FilterLinksCounts ==
  ASSUME Counting, NEW d \in Sent, FilterLinks(d)
  PROVE  Counting'
<1>1. PICK ls \in SetToSeqs(ProductsOf(Page(d))), noDomain \in SUBSET ProductsOf(Page(d)) :
        \E failed \in SUBSET (1..NumBatches(ls)) :
          lookup' = Set(lookup, d, LookUpProducts(d, ls, noDomain, failed))
  BY DEF FilterLinks
<1>2. PICK failed \in SUBSET (1..NumBatches(ls)) :
        lookup' = Set(lookup, d, LookUpProducts(d, ls, noDomain, failed))
  BY <1>1
<1>3. at[d] = "filter" /\ at' = Set(at, d, "split") /\ input' = input
  BY DEF FilterLinks, GoesTo
<1>4. at' \in [Sent -> Stages] /\ lookup' = [e \in Sent |-> lookup'[e]]
  <2>1. at' \in [Sent -> Stages]
    BY <1>3 DEF Counting, Set, Stages
  <2>2. PICK result : lookup' = [lookup EXCEPT ![d] = result]
    BY <1>2 DEF Set
  <2>3. lookup' = [e \in Sent |-> lookup'[e]]
    BY <2>2, OnSameSet DEF Counting
  <2> QED BY <2>1, <2>3
<1>5. ProductsOf(Page(d)) \in SUBSET Links
  BY LinksAssumption DEF ProductsOf
<1> SUFFICES ASSUME NEW e \in Sent, at'[e] = "split", ~Page(e)'.force
             PROVE  /\ Cardinality(lookup'[e].kept) = Cardinality(lookup'[e].verified)
                    /\ lookup'[e].complete =>
                         lookup'[e].kept = {l \in ProductsOf(Page(e)') : Eligible(Page(e)', l)}
  BY <1>4, Zenon DEF Counting, FeedbackCounted
<1>6. Page(e)' = Page(e)
  BY <1>3 DEF Page
<1>7. CASE e # d
  <2>1. at[e] = "split" /\ lookup'[e] = lookup[e]
    BY <1>2, <1>3, <1>7 DEF Counting, Set, Stages
  <2> QED BY <1>6, <2>1 DEF Counting, FeedbackCounted
<1>8. CASE e = d
  <2>1. lookup'[d] = LookUpProducts(d, ls, noDomain, failed)
    BY <1>2 DEF Counting, Set, Stages
  <2>2. ~Page(d).force
    BY <1>6, <1>8
  <2>3. /\ lookup'[d].kept = FilterProductLinks(ls, Page(d), noDomain, failed)
        /\ lookup'[d].verified = Verified(ls, Page(d), noDomain, failed)
        /\ lookup'[d].complete = (noDomain = {} /\ failed = {})
    BY <2>1, <2>2 DEF LookUpProducts
  <2>4. PICK S, page : S = ProductsOf(page) /\ page = Page(d)
    OBVIOUS
  <2>5. S \in SUBSET Links /\ ls \in SetToSeqs(S)
    BY <1>5, <2>4
  <2>6. /\ Cardinality(FilterProductLinks(ls, page, noDomain, failed))
             = Cardinality(Verified(ls, page, noDomain, failed))
        /\ noDomain = {} /\ failed = {} =>
             FilterProductLinks(ls, page, noDomain, failed)
               = {l \in S : page.verdict[l] # "indexed"}
    BY ONLY <2>5, FilterCounts
  <2>7. {l \in S : page.verdict[l] # "indexed"} = {l \in S : Eligible(page, l)}
    BY DEF Eligible
  <2>8. Cardinality(lookup'[d].kept) = Cardinality(lookup'[d].verified)
    BY <2>3, <2>4, <2>6, Zenon
  <2>9. lookup'[d].complete => lookup'[d].kept = {l \in S : page.verdict[l] # "indexed"}
    BY <2>3, <2>4, <2>6, Zenon
  <2>10. lookup'[d].complete =>
           lookup'[d].kept = {l \in ProductsOf(Page(d)) : Eligible(Page(d), l)}
    BY <2>4, <2>7, <2>9, Zenon
  <2> QED BY <1>6, <1>8, <2>8, <2>10, Zenon
<1> QED BY <1>7, <1>8

LEMMA NextCounting == Counting /\ [DiscoveryNext]_allVars => Counting'
<1> SUFFICES ASSUME Counting, [DiscoveryNext]_allVars PROVE Counting'
  OBVIOUS
<1>1. CASE UNCHANGED discoveryVars
  BY <1>1, NoLinksFiltered DEF Counting, discoveryVars
<1>2. ASSUME NEW d \in Sent, DiscoveryStep(d) PROVE Counting'
  <2>1. CASE FilterLinks(d)
    BY <2>1, FilterLinksCounts
  <2>2. CASE ~FilterLinks(d)
    <3>1. /\ input' = input
          /\ \E place \in {"crawl", "filter", "mongo", "answer", "done", "dead"} :
               at' = Set(at, d, place)
      BY <1>2, <2>2 DEF DiscoveryStep, ReadProduct, CrawlPage, SplitVariations, KeepTogether,
         NothingFound, WriteMongo, MongoFails, Answer, Kill, GoesTo
    <3>2. lookup' = lookup \/ lookup' = Set(lookup, d, NoLookup)
      BY <1>2, <2>2 DEF DiscoveryStep, ReadProduct, CrawlPage, SplitVariations, KeepTogether,
         NothingFound, WriteMongo, MongoFails, Answer, Kill, Forget
    <3>3. /\ at' \in [Sent -> Stages] /\ at'[d] # "split"
          /\ \A e \in Sent \ {d} : at'[e] = at[e]
      BY <3>1 DEF Counting, Set, Stages
    <3>4. /\ lookup' = [e \in Sent |-> lookup'[e]]
          /\ \A e \in Sent \ {d} : lookup'[e] = lookup[e]
      <4>1. lookup = [e \in Sent |-> lookup[e]]
        BY DEF Counting
      <4>2. CASE lookup' = lookup
        BY <4>1, <4>2
      <4>3. CASE lookup' = [lookup EXCEPT ![d] = NoLookup]
        BY <4>1, <4>3, OnSameSet
      <4> QED BY <3>2, <4>2, <4>3 DEF Set
    <3>5. \A e \in Sent : at'[e] = "split" => at[e] = "split" /\ lookup'[e] = lookup[e]
      BY <3>3, <3>4
    <3> QED BY <3>1, <3>3, <3>4, <3>5, NoLinksFiltered
  <2> QED BY <2>1, <2>2
<1>3. CASE \E t \in Tasks : (Step(t) /\ UNCHANGED discoveryVars) \/ KillRecrawl(t)
  BY <1>1, <1>3 DEF KillRecrawl
<1>4. CASE \E s \in Skus : Index(s)
  BY <1>1, <1>4 DEF Index
<1>5. CASE DiscoveryTerminated
  BY <1>1, <1>5 DEF DiscoveryTerminated
<1>6. CASE UNCHANGED allVars
  BY <1>1, <1>6 DEF allVars
<1> QED BY <1>2, <1>3, <1>4, <1>5, <1>6 DEF DiscoveryNext

LEMMA InitCounting == DiscoveryInit => Counting
<1> SUFFICES ASSUME DiscoveryInit PROVE Counting
  OBVIOUS
<1>1. at = [d \in Sent |-> "read"] /\ lookup = [d \in Sent |-> NoLookup]
  BY Zenon DEF DiscoveryInit
<1>2. at \in [Sent -> Stages]
  BY <1>1 DEF Stages
<1>5. \A d \in Sent : at[d] = "read"
  BY <1>1
<1>3. lookup = [d \in Sent |-> lookup[d]]
  BY <1>1
<1>4. FeedbackCounted
  BY <1>5 DEF FeedbackCounted
<1> QED BY <1>2, <1>3, <1>4 DEF Counting

(* Of any page with any number of links, looked up in batches of any size, *)
(* as many products are fed back as were verified to be eligible, however  *)
(* lookups and domains fail, and exactly these when nothing fails          *)
(* (filterProductLinks, whose one index runs through all the batches).     *)
THEOREM CountsFeedback == DiscoverySpec => []FeedbackCounted
<1>1. Counting => FeedbackCounted
  BY DEF Counting
<1> QED BY <1>1, InitCounting, NextCounting, PTL DEF DiscoverySpec
=============================================================================
