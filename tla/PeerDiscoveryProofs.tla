------------------------ MODULE PeerDiscoveryProofs ------------------------
(***************************************************************************)
(* What the pool and the list of the resolver hold, for any nodes, any     *)
(* spellings of their URLs and any peers they list.                        *)
(***************************************************************************)
EXTENDS PeerDiscovery, DataLemmas

(* Nothing but URLs of n entries of s, all in K, each as often as in s.    *)
Among(t, s, n, K) ==
    /\ Len(t) <= n
    /\ \A i \in 1..Len(t) : t[i] \in K /\ \E j \in 1..n : t[i] = s[j]
    /\ NamesOnce(s) => NamesOnce(t)

(* What the loop has appended after n entries, for all n at once.          *)
Loop(f, s, n, K) ==
    f = [i \in 0..n |-> IF i = 0 THEN <<>>
                        ELSE IF s[i] \in K THEN Append(f[i - 1], s[i])
                        ELSE f[i - 1]]

LEMMA LoopExists ==
    ASSUME NEW s, NEW K, NEW n \in Nat
    PROVE  \E f : Loop(f, s, n, K)
<1> DEFINE Bad == {m \in Nat : ~\E f : Loop(f, s, m, K)}
<1>1. 0 \notin Bad
  <2>1. Loop([i \in 0..0 |-> <<>>], s, 0, K)
    BY DEF Loop
  <2> QED
    BY <2>1
<1>2. ASSUME NEW m \in Nat, m \notin Bad PROVE m + 1 \notin Bad
  <2>1. PICK f : Loop(f, s, m, K)
    BY <1>2
  <2> DEFINE last == IF s[m + 1] \in K THEN Append(f[m], s[m + 1]) ELSE f[m]
             g    == [i \in 0..(m + 1) |-> IF i = m + 1 THEN last ELSE f[i]]
  <2>2. ASSUME NEW i \in 0..(m + 1)
        PROVE  g[i] = IF i = 0 THEN <<>>
                      ELSE IF s[i] \in K THEN Append(g[i - 1], s[i]) ELSE g[i - 1]
    <3>1. CASE i = 0
      BY <2>1, <3>1 DEF Loop
    <3>2. CASE i # 0 /\ i # m + 1
      <4>1. i \in 0..m /\ i - 1 \in 0..m /\ i - 1 # m + 1
        BY <3>2
      <4>2. g[i] = f[i] /\ g[i - 1] = f[i - 1]
        BY <3>2, <4>1
      <4>3. f[i] = IF s[i] \in K THEN Append(f[i - 1], s[i]) ELSE f[i - 1]
        BY <2>1, <3>2, <4>1 DEF Loop
      <4> QED
        BY <3>2, <4>2, <4>3
    <3>3. CASE i = m + 1
      <4>1. i # 0 /\ m \in 0..(m + 1) /\ i - 1 = m /\ m # m + 1
        BY <3>3
      <4>2. g[i] = last /\ g[i - 1] = f[m]
        BY <3>3, <4>1
      <4> QED
        BY <3>3, <4>1, <4>2
    <3> QED
      BY <3>1, <3>2, <3>3
  <2>3. Loop(g, s, m + 1, K)
    <3>1. g = [i \in 0..(m + 1) |-> g[i]]
      OBVIOUS
    <3> HIDE DEF g
    <3> QED
      BY <2>2, <3>1, Zenon DEF Loop
  <2> QED
    BY <2>3
<1> SUFFICES ASSUME Bad # {} PROVE FALSE
  OBVIOUS
<1>3. PICK b \in Bad : \A y \in Bad : b <= y
  <2>1. Bad \subseteq Nat
    OBVIOUS
  <2> QED
    BY <2>1, LeastNat
<1>4. b # 0 /\ b - 1 \in Nat /\ (b - 1) + 1 = b /\ b - 1 \notin Bad
  BY <1>1, <1>3
<1> QED
  BY <1>2, <1>3, <1>4

LEMMA AmongNext ==
    ASSUME NEW s \in Seq(Urls), NEW K, NEW m \in Nat, m + 1 <= Len(s),
           NEW t \in Seq(Urls), Among(t, s, m, K), NEW e, e = s[m + 1]
    PROVE  /\ Among(t, s, m + 1, K)
           /\ e \in K => Append(t, e) \in Seq(Urls) /\ Among(Append(t, e), s, m + 1, K)
<1>1. 1..m \subseteq 1..(m + 1) /\ Len(t) \in Nat /\ m + 1 \in 1..Len(s) /\ e \in Urls
  OBVIOUS
<1>2. Among(t, s, m + 1, K)
  BY <1>1 DEF Among
<1>3. ASSUME e \in K PROVE Among(Append(t, e), s, m + 1, K)
  <2> DEFINE g == Append(t, e)
  <2>1. PICK k \in Nat : k = Len(t)
    BY <1>1
  <2>2. Len(g) = k + 1 /\ g[k + 1] = e /\ \A i \in 1..k : g[i] = t[i]
    BY <1>1, <2>1, AppendProperties
  <2> HIDE DEF g
  <2>3. ASSUME NEW i \in 1..(k + 1)
        PROVE  g[i] \in K /\ \E j \in 1..(m + 1) : g[i] = s[j]
    <3>1. CASE i = k + 1
      BY <1>1, <1>3, <2>2, <3>1
    <3>2. CASE i \in 1..k
      BY <1>1, <2>1, <2>2, <3>2 DEF Among
    <3> QED
      BY <3>1, <3>2
  <2>4. ASSUME NamesOnce(s) PROVE NamesOnce(g)
    <3>1. NamesOnce(t)
      BY <2>4 DEF Among
    <3>2. ASSUME NEW i \in 1..k PROVE Norm[g[i]] # Norm[e]
      <4>1. PICK j \in 1..m : t[i] = s[j]
        BY <2>1, <3>2 DEF Among
      <4>2. j \in 1..Len(s) /\ m + 1 \in 1..Len(s) /\ j # m + 1
        BY <1>1
      <4>3. Norm[s[j]] # Norm[s[m + 1]]
        BY <2>4, <4>2 DEF NamesOnce
      <4> QED
        BY <2>2, <4>1, <4>3
    <3>3. ASSUME NEW i \in 1..(k + 1), NEW j \in 1..(k + 1), Norm[g[i]] = Norm[g[j]]
          PROVE  i = j
      <4>1. CASE i \in 1..k /\ j \in 1..k
        BY <2>1, <2>2, <3>1, <3>3, <4>1 DEF NamesOnce
      <4>2. CASE i = k + 1 \/ j = k + 1
        <5>1. i \in 1..k \/ j \in 1..k \/ i = j
          BY <4>2
        <5> QED
          BY <2>2, <3>2, <3>3, <4>2, <5>1
      <4> QED
        BY <4>1, <4>2
    <3> QED
      BY <2>2, <3>3 DEF NamesOnce
  <2>5. Len(g) <= m + 1
    BY <2>1, <2>2 DEF Among
  <2>6. Among(g, s, m + 1, K)
    BY <2>2, <2>3, <2>4, <2>5 DEF Among
  <2> QED
    BY <2>6 DEF g
<1> QED
  BY <1>1, <1>2, <1>3, AppendProperties

(* The loops of GetNodes and refreshPool add only entries of the list they *)
(* go through, only those wanted, and none twice that is there once.       *)
LEMMA OnlyFacts ==
    ASSUME NEW s \in Seq(Urls), NEW K
    PROVE  Only(s, K) \in Seq(Urls) /\ Among(Only(s, K), s, Len(s), K)
<1>1. PICK n \in Nat : n = Len(s)
  OBVIOUS
<1> DEFINE f == CHOOSE f : Loop(f, s, n, K)
<1>2. Loop(f, s, n, K)
  BY LoopExists, Zenon
<1>3. Only(s, K) = f[n]
  BY <1>1, Zenon DEF Only, Loop
<1> HIDE DEF f
<1> DEFINE Good(i) == f[i] \in Seq(Urls) /\ Among(f[i], s, i, K)
           Bad     == {i \in 0..n : ~Good(i)}
<1>4. f[0] = <<>> /\ \A m \in 0..n : m # 0 =>
         f[m] = IF s[m] \in K THEN Append(f[m - 1], s[m]) ELSE f[m - 1]
  <2>1. 0 \in 0..n
    OBVIOUS
  <2> QED
    BY <1>2, <2>1 DEF Loop
<1>5. Good(0)
  BY <1>4, EmptySeq DEF Among, NamesOnce
<1>6. ASSUME NEW m \in Nat, m + 1 <= n, Good(m) PROVE Good(m + 1)
  <2>1. f[m + 1] = IF s[m + 1] \in K THEN Append(f[m], s[m + 1]) ELSE f[m]
    <3>1. m + 1 \in 0..n /\ m + 1 # 0 /\ (m + 1) - 1 = m
      BY <1>6
    <3> QED
      BY <1>4, <3>1
  <2>2. /\ f[m] \in Seq(Urls) /\ Among(f[m], s, m, K) /\ m + 1 <= Len(s)
    BY <1>1, <1>6
  <2>3. /\ Among(f[m], s, m + 1, K)
        /\ s[m + 1] \in K => /\ Append(f[m], s[m + 1]) \in Seq(Urls)
                             /\ Among(Append(f[m], s[m + 1]), s, m + 1, K)
    BY <2>2, AmongNext
  <2> QED
    BY <2>1, <2>2, <2>3
<1>7. Bad = {}
  <2> SUFFICES ASSUME Bad # {} PROVE FALSE
    OBVIOUS
  <2>1. PICK b \in Bad : \A y \in Bad : b <= y
    <3>1. Bad \subseteq Nat
      OBVIOUS
    <3> QED
      BY <3>1, LeastNat
  <2>2. b # 0
    BY <1>5, <2>1
  <2> HIDE DEF Good
  <2>3. b - 1 \in Nat /\ (b - 1) + 1 = b /\ b <= n /\ b - 1 \notin Bad /\ b - 1 \in 0..n
    BY <2>1, <2>2
  <2> QED
    BY <1>6, <2>1, <2>3
<1>8. Good(n)
  BY <1>7
<1> QED
  BY <1>1, <1>3, <1>8

-----------------------------------------------------------------------------
(* The URL in hand is one, and one crawl more is within the bound.         *)
InHand == dpc \in {"check", "crawl"} => url \in Urls /\ crawled <= MaxCrawls

DType == TypeOK /\ InHand

LEMMA EmptyPool ==
    /\ <<>> \in Seq(Urls) /\ Len(<<>>) <= MaxPoolSize
    /\ \A i \in 1..Len(<<>>) : FALSE
BY EmptySeq, SizesAssumption

LEMMA TypeInit == Init => DType
<1> SUFFICES ASSUME Init PROVE DType
  OBVIOUS
<1>1. \A p \in {pool, newPool} :
         Len(p) <= MaxPoolSize /\ \A i \in 1..Len(p) : Norm[p[i]] \notin SeedNodes
  BY EmptyPool DEF Init
<1>2. InHand /\ crawled \in 0..(MaxCrawls + 1) /\ seen \in SUBSET Nodes
  BY SizesAssumption DEF Init, InHand
<1> QED
  BY <1>1, <1>2, EmptyPool, UrlsAssumption DEF Init, DType, TypeOK

LEMMA FetchedType ==
    ASSUME url \in Urls
    PROVE  Fetched \in Seq(Urls)
BY EmptySeq, UrlsAssumption DEF Fetched, Nodes

LEMMA TypeStep == DType /\ [Next]_vars => DType'
<1> SUFFICES ASSUME DType, [Next]_vars PROVE DType'
  OBVIOUS
<1> USE SizesAssumption DEF DType, TypeOK, InHand
<1>1. CASE Change
  BY <1>1 DEF Change, refresh
<1>2. CASE StartRefresh
  <2>1. Seeds \o pool \in Seq(Urls)
    BY UrlsAssumption, ConcatProperties
  <2>2. /\ queue' \in Seq(Urls) /\ newPool' \in Seq(Urls)
        /\ Len(newPool') <= MaxPoolSize
        /\ \A i \in 1..Len(newPool') : Norm[newPool'[i]] \notin SeedNodes
    BY <1>2, <2>1, EmptyPool DEF StartRefresh, NodesToCrawl
  <2>3. crawled' \in 0..(MaxCrawls + 1) /\ dpc' = "loop" /\ url' = NoUrl /\ seen' \in SUBSET Nodes
    BY <1>2 DEF StartRefresh
  <2> QED
    BY <1>2, <2>2, <2>3 DEF StartRefresh
<1>3. CASE Take
  <2>1. Head(queue) \in Urls /\ Tail(queue) \in Seq(Urls)
    BY <1>3, HeadTailProperties DEF Take, More
  <2>2. Norm[Head(queue)] \in Nodes
    BY <2>1 DEF Nodes
  <2>3. /\ queue' \in Seq(Urls) /\ seen' \in SUBSET Nodes
        /\ dpc' \in {"loop", "check"} /\ url' \in Urls \cup {NoUrl}
        /\ dpc' = "check" => url' \in Urls
    BY <1>3, <2>1, <2>2 DEF Take, Rest
  <2>4. crawled <= MaxCrawls /\ UNCHANGED <<healthy, pool, newPool, ticked, stopping, crawled, nodes>>
    BY <1>3 DEF Take, More
  <2> QED
    BY <2>3, <2>4
<1>4. CASE HealthCheck
  <2>1. url \in Urls
    BY <1>4 DEF HealthCheck
  <2>2. /\ newPool' \in Seq(Urls) /\ Len(newPool') <= MaxPoolSize
        /\ \A i \in 1..Len(newPool') : Norm[newPool'[i]] \notin SeedNodes
    <3>1. CASE newPool' = newPool
      BY <3>1
    <3>2. CASE Joins /\ newPool' = Append(newPool, url)
      <4>1. PICK k \in Nat : k = Len(newPool)
        OBVIOUS
      <4>2. /\ newPool' \in Seq(Urls) /\ Len(newPool') = k + 1
            /\ newPool'[k + 1] = url /\ \A i \in 1..k : newPool'[i] = newPool[i]
        BY <2>1, <3>2, <4>1, AppendProperties
      <4>3. Norm[url] \notin SeedNodes /\ k + 1 <= MaxPoolSize
        BY <3>2, <4>1 DEF Joins, IsSeedNode
      <4>4. \A i \in 1..(k + 1) : i = k + 1 \/ i \in 1..k
        OBVIOUS
      <4> QED
        BY <4>1, <4>2, <4>3, <4>4
    <3> QED
      BY <1>4, <3>1, <3>2 DEF HealthCheck
  <2>3. dpc' \in {"crawl", "loop"}
    BY <1>4 DEF HealthCheck
  <2> QED
    BY <1>4, <2>1, <2>2, <2>3 DEF HealthCheck
<1>5. CASE CrawlNode
  <2>1. Only(Fetched, Unmet) \in Seq(Urls)
    BY <1>5, FetchedType, OnlyFacts DEF CrawlNode
  <2>2. queue' \in Seq(Urls)
    BY <1>5, <2>1, ConcatProperties DEF CrawlNode
  <2> QED
    BY <1>5, <2>2 DEF CrawlNode
<1>6. CASE EndRefresh
  BY <1>6, EmptySeq DEF EndRefresh
<1>7. CASE Tick \/ Stop \/ LoopEnds
  BY <1>7 DEF Tick, Stop, LoopEnds, refresh
<1>8. CASE UpdateNodes
  <2>1. GetNodes \in Seq(Urls)
    BY UrlsAssumption, OnlyFacts, ConcatProperties DEF GetNodes
  <2> QED
    BY <1>8, <2>1 DEF UpdateNodes, refresh
<1>9. CASE UNCHANGED vars
  BY <1>9 DEF vars, refresh
<1> QED
  BY <1>1, <1>2, <1>3, <1>4, <1>5, <1>6, <1>7, <1>8, <1>9 DEF Next, Refreshing

(* The pool keeps to its size and never names a seed, whatever nodes list  *)
(* and however they spell it.                                              *)
THEOREM TypeCorrect == Spec => []TypeOK
<1>1. DType => TypeOK
  BY DEF DType
<1> QED
  BY TypeInit, TypeStep, <1>1, PTL DEF Spec

-----------------------------------------------------------------------------
(* No list names a node twice: the nodes of the new pool have been met,    *)
(* and the one in hand, met just now, is not among them.                   *)
Distinct ==
    /\ NamesOnce(pool) /\ NamesOnce(newPool)
    /\ \A i \in 1..Len(newPool) : Norm[newPool[i]] \in seen
    /\ dpc = "check" => /\ Norm[url] \in seen
                        /\ \A i \in 1..Len(newPool) : Norm[newPool[i]] # Norm[url]
    /\ EachNodeOnce

LEMMA DistinctInit == Init => Distinct
BY EmptySeq DEF Init, Distinct, EachNodeOnce, NamesOnce

LEMMA DistinctStep == DType /\ Distinct /\ [Next]_vars => Distinct'
<1> SUFFICES ASSUME DType, Distinct, [Next]_vars PROVE Distinct'
  OBVIOUS
<1> USE DEF Distinct
<1>1. CASE Change \/ Tick \/ Stop \/ LoopEnds \/ UNCHANGED vars
  BY <1>1 DEF Change, Tick, Stop, LoopEnds, vars, refresh, EachNodeOnce, NamesOnce
<1>2. CASE StartRefresh \/ EndRefresh
  <2>1. CASE StartRefresh
    BY <2>1, EmptySeq DEF StartRefresh, EachNodeOnce, NamesOnce
  <2>2. CASE EndRefresh
    BY <2>2, EmptySeq DEF EndRefresh, EachNodeOnce, NamesOnce
  <2> QED
    BY <1>2, <2>1, <2>2
<1>3. CASE Take
  <2>1. CASE Met(Head(queue))
    BY <1>3, <2>1 DEF Take, EachNodeOnce, NamesOnce
  <2>2. CASE ~Met(Head(queue))
    <3>1. \A i \in 1..Len(newPool) : Norm[newPool[i]] # Norm[Head(queue)]
      BY <2>2 DEF Met
    <3> QED
      BY <1>3, <2>2, <3>1 DEF Take, EachNodeOnce, NamesOnce
  <2> QED
    BY <2>1, <2>2
<1>4. CASE HealthCheck
  <2>0. UNCHANGED <<pool, seen, url, nodes>> /\ dpc = "check" /\ dpc' # "check"
    BY <1>4 DEF HealthCheck
  <2>1. CASE newPool' = newPool
    BY <2>0, <2>1 DEF EachNodeOnce, NamesOnce
  <2>2. CASE newPool' = Append(newPool, url)
    <3>1. PICK k \in Nat : k = Len(newPool)
      BY DEF DType, TypeOK
    <3>2. /\ Len(newPool') = k + 1
          /\ newPool'[k + 1] = url /\ \A i \in 1..k : newPool'[i] = newPool[i]
      BY <1>4, <2>2, <3>1, AppendProperties DEF HealthCheck, DType, TypeOK, InHand
    <3>3. \A i \in 1..(k + 1) : i = k + 1 \/ i \in 1..k
      OBVIOUS
    <3>4. NamesOnce(newPool')
      BY <2>0, <3>1, <3>2, <3>3 DEF NamesOnce
    <3>5. \A i \in 1..Len(newPool') : Norm[newPool'[i]] \in seen'
      BY <2>0, <3>1, <3>2, <3>3
    <3> QED
      BY <2>0, <3>4, <3>5 DEF EachNodeOnce, NamesOnce
  <2> QED
    BY <1>4, <2>1, <2>2 DEF HealthCheck
<1>5. CASE CrawlNode
  BY <1>5 DEF CrawlNode, EachNodeOnce, NamesOnce
<1>6. CASE UpdateNodes
  <2> DEFINE more == Only(pool, NotSeeds)
  <2>1. more \in Seq(Urls) /\ Among(more, pool, Len(pool), NotSeeds)
    BY OnlyFacts DEF DType, TypeOK
  <2>2. NamesOnce(more) /\ \A i \in 1..Len(more) : Norm[more[i]] \notin SeedNodes
    BY <2>1 DEF Among, NotSeeds, IsSeedNode
  <2>3. nodes' = Seeds \o more
    BY <1>6 DEF UpdateNodes, GetNodes
  <2> HIDE DEF more
  <2>4. PICK k \in Nat, m \in Nat : k = Len(Seeds) /\ m = Len(more)
    BY <2>1, UrlsAssumption
  <2>5. /\ Len(nodes') = k + m
        /\ \A i \in 1..(k + m) : nodes'[i] = IF i <= k THEN Seeds[i] ELSE more[i - k]
    BY <2>1, <2>3, <2>4, UrlsAssumption, ConcatProperties
  <2>6. ASSUME NamesOnce(Seeds), NEW i \in 1..(k + m), NEW j \in 1..(k + m),
               Norm[nodes'[i]] = Norm[nodes'[j]]
        PROVE  i = j
    <3>1. \A h \in 1..(k + m) : \/ h \in 1..k /\ nodes'[h] = Seeds[h]
                                \/ h - k \in 1..m /\ nodes'[h] = more[h - k]
      BY <2>5
    <3>2. \A h \in 1..k : Norm[Seeds[h]] \in SeedNodes
      BY <2>4 DEF SeedNodes
    <3>3. CASE i \in 1..k /\ j \in 1..k
      BY <2>4, <2>5, <2>6, <3>3 DEF NamesOnce
    <3>4. CASE i - k \in 1..m /\ j - k \in 1..m /\ nodes'[i] = more[i - k] /\ nodes'[j] = more[j - k]
      <4>1. i - k = j - k
        BY <2>2, <2>4, <2>6, <3>4 DEF NamesOnce
      <4> QED
        BY <4>1
    <3>5. \A h \in 1..m : Norm[more[h]] \notin SeedNodes
      BY <2>2, <2>4
    <3>6. \A h \in 1..(k + m) :
             \/ h \in 1..k /\ Norm[nodes'[h]] \in SeedNodes
             \/ h - k \in 1..m /\ nodes'[h] = more[h - k] /\ Norm[nodes'[h]] \notin SeedNodes
      <4> TAKE h \in 1..(k + m)
      <4>1. CASE h \in 1..k /\ nodes'[h] = Seeds[h]
        BY <4>1, <3>2, Zenon
      <4>2. CASE h - k \in 1..m /\ nodes'[h] = more[h - k]
        BY <4>2, <3>5, Zenon
      <4> QED
        BY <3>1, <4>1, <4>2, Zenon
    <3> QED
      BY <2>6, <3>3, <3>4, <3>6, Zenon
  <2>7. EachNodeOnce'
    BY <2>5, <2>6 DEF EachNodeOnce, NamesOnce
  <2> QED
    BY <1>6, <2>7 DEF UpdateNodes, refresh, NamesOnce
<1> QED
  BY <1>1, <1>2, <1>3, <1>4, <1>5, <1>6 DEF Next, Refreshing

(* EachNodeOnce: the list GetNodes hands to the resolver never names one   *)
(* node twice, if the configured seeds do not, whatever became of the      *)
(* nodes and however many pools came before.                               *)
THEOREM EachNodeOnceHolds == Spec => []EachNodeOnce
<1> DEFINE IInv == DType /\ Distinct
<1>1. Init => IInv
  BY TypeInit, DistinctInit
<1>2. IInv /\ [Next]_vars => IInv'
  BY TypeStep, DistinctStep
<1>3. IInv => EachNodeOnce
  BY DEF Distinct
<1> QED
  BY <1>1, <1>2, <1>3, PTL DEF Spec

-----------------------------------------------------------------------------
(* There are no more nodes than URLs, so what is left to meet is counted.  *)
LEMMA NodesFinite == IsFiniteSet(Nodes)
<1> DEFINE f == [u \in Urls |-> Norm[u]]
<1>1. f \in Surjection(Urls, Nodes)
  BY DEF Surjection, Nodes
<1> QED
  BY <1>1, FS_Surjection, UrlsAssumption

LEMMA LeftFacts ==
    /\ Left \in Nat
    /\ \A n \in Nodes \ seen : seen' = seen \cup {n} => Left' < Left
<1> DEFINE L == Nodes \ seen
<1>1. IsFiniteSet(L) /\ Cardinality(L) \in Nat
  BY NodesFinite, FS_Difference, FS_CardinalityType
<1>2. ASSUME NEW n \in L, seen' = seen \cup {n}
      PROVE  Left' < Left
  <2>1. Nodes \ seen' = L \ {n}
    BY <1>2
  <2>2. Cardinality(L \ {n}) = Cardinality(L) - 1
    BY <1>1, <1>2, FS_RemoveElement
  <2>3. Left' = Cardinality(L) - 1 /\ Left = Cardinality(L)
    BY <2>1, <2>2, Zenon DEF Left
  <2> QED
    BY <1>1, <2>3
<1> QED
  BY <1>1, <1>2 DEF Left

LEMMA ShrinksStep ==
    DType /\ [Next]_vars
        => [(dpc \in {"loop", "check", "crawl"}) =>
                Shrinks \/ dpc' = "idle" \/ UNCHANGED <<dpc, refresh>>]_vars
<1> SUFFICES ASSUME DType, Next, dpc \in {"loop", "check", "crawl"}
             PROVE  Shrinks \/ dpc' = "idle" \/ UNCHANGED <<dpc, refresh>>
  OBVIOUS
<1>1. CASE Take
  <2>1. queue \in Seq(Urls) /\ queue # <<>> /\ dpc = "loop" /\ queue' = Tail(queue)
    BY <1>1 DEF Take, More, Rest, DType, TypeOK
  <2>2. CASE Met(Head(queue))
    <3>1. Len(queue') \in Nat /\ Len(queue) \in Nat /\ Len(queue') < Len(queue)
      BY <2>1, HeadTailProperties
    <3>2. Left' = Left /\ Requests' = Requests
      BY <1>1, <2>2 DEF Take, Left, Requests
    <3> QED
      BY <3>1, <3>2 DEF Shrinks
  <2>3. CASE ~Met(Head(queue))
    <3>1. Norm[Head(queue)] \in Nodes \ seen
      BY <2>1, <2>3, HeadTailProperties DEF Met, Nodes
    <3>2. seen' = seen \cup {Norm[Head(queue)]}
      BY <1>1, <2>3 DEF Take
    <3> QED
      BY <3>1, <3>2, LeftFacts DEF Shrinks
  <2> QED
    BY <2>2, <2>3
<1>2. CASE HealthCheck \/ CrawlNode
  <2>1. Left' = Left /\ dpc' \in {"loop", "crawl"} /\ dpc \in {"check", "crawl"}
        /\ (dpc = "crawl" => dpc' = "loop")
    BY <1>2 DEF HealthCheck, CrawlNode, Left
  <2>2. Requests' < Requests
    BY <2>1 DEF Requests
  <2> QED
    BY <2>1, <2>2 DEF Shrinks
<1>3. CASE EndRefresh
  BY <1>3 DEF EndRefresh
<1>4. CASE StartRefresh \/ LoopEnds
  BY <1>4 DEF StartRefresh, LoopEnds
<1>5. CASE Change \/ Tick \/ Stop \/ UpdateNodes
  BY <1>5 DEF Change, Tick, Stop, UpdateNodes
<1> QED
  BY <1>1, <1>2, <1>3, <1>4, <1>5 DEF Next, Refreshing

(* RefreshShrinks: refreshPool, which Stop waits for, has in each of its   *)
(* steps less to do, for any network: it ends after as many steps as the   *)
(* nodes, their checks and the URLs they list allow.                       *)
THEOREM RefreshShrinksHolds == Spec => RefreshShrinks
BY TypeInit, TypeStep, ShrinksStep, PTL DEF Spec, RefreshShrinks
=============================================================================
