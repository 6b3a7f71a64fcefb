--------------------------- MODULE PeerDiscovery ---------------------------
(***************************************************************************)
(* Discovery (internal/peerdiscovery): one goroutine refreshes the pool of *)
(* nodes, once before the daemon goes on and then at every tick of a day;  *)
(* another, in cmd/dnn-daemon, hands the seeds and the pool to the         *)
(* resolver every five minutes.                                            *)
(*                                                                         *)
(* A node can be written as more than one URL; Norm is normalizeURL.       *)
(***************************************************************************)
EXTENDS Integers, Sequences, FiniteSets

CONSTANTS
    Urls,
    Norm,           \* Norm[u]: the node a URL names
    Seeds,          \* seedNodes
    Peers,          \* Peers[n]: the URLs node n lists, /dnn/peers first
    MaxPoolSize,
    MaxCrawls,      \* the 50 of refreshPool
    NoUrl

Nodes     == {Norm[u] : u \in Urls}
SeedNodes == {Norm[Seeds[i]] : i \in 1..Len(Seeds)}

ASSUME UrlsAssumption == /\ IsFiniteSet(Urls) /\ NoUrl \notin Urls /\ DOMAIN Norm = Urls
                         /\ Seeds \in Seq(Urls) /\ Peers \in [Nodes -> Seq(Urls)]
ASSUME SizesAssumption == MaxPoolSize \in Nat \ {0} /\ MaxCrawls \in Nat

VARIABLES
    healthy,    \* the nodes that answer at the moment
    pool,       \* Discovery.pool
    dpc,        \* where the refreshing goroutine is
    ticked,     \* the ticker's channel is full
    stopping,   \* stopCh is closed
    queue,      \* nodesToCrawl
    seen, newPool, crawled,
    url,        \* the URL in hand
    nodes       \* Resolver.nodes

refresh == <<queue, seen, newPool, crawled, url>>
vars    == <<healthy, pool, dpc, ticked, stopping, refresh, nodes>>

(* Type invariant.  The pool keeps to its size, counting only nodes the seeds
   do not name. *)
TypeOK ==
    /\ healthy \in SUBSET Nodes
    /\ \A p \in {pool, newPool} :
           Len(p) <= MaxPoolSize /\ \A i \in 1..Len(p) : Norm[p[i]] \notin SeedNodes
    /\ pool \in Seq(Urls) /\ newPool \in Seq(Urls) /\ queue \in Seq(Urls)
    /\ dpc \in {"start", "loop", "check", "crawl", "idle", "stopped"}
    /\ ticked \in BOOLEAN /\ stopping \in BOOLEAN
    /\ seen \in SUBSET Nodes
    /\ crawled \in 0..(MaxCrawls + 1)
    /\ url \in Urls \cup {NoUrl}
    /\ nodes \in Seq(Urls)

(* main gives the resolver the configured nodes before it starts discovery. *)
Init ==
    /\ healthy \in SUBSET Nodes
    /\ pool = <<>>
    /\ dpc = "start"
    /\ ticked = FALSE /\ stopping = FALSE
    /\ queue = <<>> /\ seen = {} /\ newPool = <<>> /\ crawled = 0 /\ url = NoUrl
    /\ nodes = Seeds

IsSeedNode(u) == Norm[u] \in SeedNodes

(* The loops that append, one by one, the URLs of a list that are in K. *)
Only(s, K) ==
    LET F[i \in 0..Len(s)] == IF i = 0 THEN <<>>
                              ELSE IF s[i] \in K THEN Append(F[i - 1], s[i])
                              ELSE F[i - 1] IN
    F[Len(s)]

-----------------------------------------------------------------------------
(* The network, outside the daemon: nodes come and go. *)
Change ==
    /\ healthy' \in SUBSET Nodes
    /\ UNCHANGED <<pool, dpc, ticked, stopping, refresh, nodes>>

(* refreshPool starts from the seeds and what is left of the last pool. *)
NodesToCrawl == Seeds \o pool

StartRefresh ==
    /\ dpc = "start" \/ (dpc = "idle" /\ ticked)
    /\ ticked' = FALSE
    /\ queue' = NodesToCrawl
    /\ seen' = {} /\ newPool' = <<>> /\ crawled' = 0 /\ url' = NoUrl
    /\ dpc' = "loop"
    /\ UNCHANGED <<healthy, pool, stopping, nodes>>

MoreQueued == queue # <<>>      \* a bug: neither bound is looked at
More == queue # <<>> /\ Len(newPool) < MaxPoolSize /\ crawled <= MaxCrawls

(* A node is met once in a refresh, however it is written; a bug: URLs are
   compared as they are written. *)
MetAsWritten(u) == \E i \in 1..Len(newPool) : newPool[i] = u
Met(u) == Norm[u] \in seen

(* The head of the queue: a node met before is dropped.  A bug: the queue
   moves on only for a node not met before. *)
RestForNew == IF Met(Head(queue)) THEN queue ELSE Tail(queue)
Rest       == Tail(queue)

Take ==
    /\ dpc = "loop" /\ More
    /\ queue' = Rest
    /\ IF Met(Head(queue))
       THEN UNCHANGED <<seen, url, dpc>>
       ELSE /\ seen' = seen \cup {Norm[Head(queue)]}
            /\ url' = Head(queue)
            /\ dpc' = "check"
    /\ UNCHANGED <<healthy, pool, ticked, stopping, newPool, crawled, nodes>>

(* Whether the URL in hand joins the pool. *)
Joins == ~IsSeedNode(url) /\ Len(newPool) < MaxPoolSize

HealthCheck ==
    /\ dpc = "check"
    /\ IF Norm[url] \in healthy
       THEN /\ newPool' = IF Joins THEN Append(newPool, url) ELSE newPool
            /\ dpc' = "crawl"
       ELSE /\ dpc' = "loop" /\ UNCHANGED newPool
    /\ UNCHANGED <<healthy, pool, ticked, stopping, queue, seen, crawled, url, nodes>>

(* The peers a node lists; none if it fails now.  A bug: only seeds are
   asked. *)
FetchedOfSeeds == IF IsSeedNode(url) /\ Norm[url] \in healthy THEN Peers[Norm[url]] ELSE <<>>
Fetched == IF Norm[url] \in healthy THEN Peers[Norm[url]] ELSE <<>>
Unmet == {u \in Urls : ~Met(u)}

CrawlNode ==
    /\ dpc = "crawl"
    /\ queue' = queue \o Only(Fetched, Unmet)
    /\ crawled' = crawled + 1
    /\ dpc' = "loop"
    /\ UNCHANGED <<healthy, pool, ticked, stopping, seen, newPool, url, nodes>>

(* The new pool replaces the old one, whatever became of its nodes. *)
EndRefresh ==
    /\ dpc = "loop" /\ ~More
    /\ pool' = newPool
    /\ dpc' = "idle"
    /\ queue' = <<>> /\ seen' = {} /\ newPool' = <<>> /\ crawled' = 0 /\ url' = NoUrl
    /\ UNCHANGED <<healthy, ticked, stopping, nodes>>

(* The ticker; a tick that finds the channel full is lost. *)
Tick ==
    /\ ~stopping
    /\ ticked' = TRUE
    /\ UNCHANGED <<healthy, pool, dpc, stopping, refresh, nodes>>

(* Stop closes the channel once the first refresh is over; the loop sees it
   when it is back at its select. *)
Stop ==
    /\ ~stopping /\ dpc # "start"
    /\ stopping' = TRUE
    /\ UNCHANGED <<healthy, pool, dpc, ticked, refresh, nodes>>
LoopEnds ==
    /\ dpc = "idle" /\ stopping
    /\ dpc' = "stopped"
    /\ UNCHANGED <<healthy, pool, ticked, stopping, refresh, nodes>>

-----------------------------------------------------------------------------
(* The five-minute ticker of main: GetNodes, then UpdateNodes. *)
NotSeeds == {u \in Urls : ~IsSeedNode(u)}
GetNodes == Seeds \o Only(pool, NotSeeds)

UpdateNodes ==
    /\ dpc # "start"
    /\ nodes' = GetNodes
    /\ UNCHANGED <<healthy, pool, dpc, ticked, stopping, refresh>>

-----------------------------------------------------------------------------
Refreshing == StartRefresh \/ Take \/ HealthCheck \/ CrawlNode \/ EndRefresh
Next == Change \/ Refreshing \/ Tick \/ Stop \/ LoopEnds \/ UpdateNodes

Spec == Init /\ [][Next]_vars

(* Requests have timeouts, tickers tick, goroutines run. *)
FairSpec == /\ Spec
            /\ WF_vars(Refreshing) /\ WF_vars(LoopEnds)
            /\ WF_vars(Tick) /\ WF_vars(UpdateNodes)

-----------------------------------------------------------------------------
NamesOnce(s) == \A i, j \in 1..Len(s) : Norm[s[i]] = Norm[s[j]] => i = j

(* The resolver asks "3 random nodes": its list never holds one node twice,
   however nodes spell each other's URLs and pools follow each other. *)
EachNodeOnce == NamesOnce(Seeds) => NamesOnce(nodes)

(* What a stop waits for: each step of a refresh leaves fewer nodes to meet,
   or as many and the URL in hand further, or fewer URLs queued, however
   nodes list each other and come and go meanwhile. *)
Left     == Cardinality(Nodes \ seen)
Requests == CASE dpc = "check" -> 2 [] dpc = "crawl" -> 1 [] OTHER -> 0
Shrinks  == \/ Left' < Left
            \/ Left' = Left /\ Requests' < Requests
            \/ Left' = Left /\ Requests' = Requests /\ Len(queue') < Len(queue)
RefreshShrinks ==
    [][(dpc \in {"loop", "check", "crawl"}) =>
           Shrinks \/ dpc' = "idle" \/ UNCHANGED <<dpc, refresh>>]_vars

(* Every refresh ends, and with it a stop, even if nodes list each other. *)
StopEnds == stopping ~> dpc = "stopped"

(* What can be reached from the seeds while all nodes answer. *)
Reachable ==
    LET Step(S) == S \cup {Norm[u] : u \in UNION {{Peers[n][i] : i \in 1..Len(Peers[n])} : n \in S}}
        R[k \in 0..Cardinality(Nodes)] == IF k = 0 THEN SeedNodes ELSE Step(R[k - 1]) IN
    R[Cardinality(Nodes)]

(* README.md: "Self-healing node pool".  Once all nodes answer for good, the
   resolver ends up with the seeds and, whatever became of the pool before,
   every other node there is a way to or as many of them as a pool holds
   (MaxCrawls being large enough to get to those). *)
Asked  == {Norm[nodes[i]] : i \in 1..Len(nodes)}
Others == Reachable \ SeedNodes
PoolHeals ==
    (<>[](healthy = Nodes) /\ []~stopping)
        => <>[](/\ SeedNodes \subseteq Asked /\ Asked \subseteq Reachable
                /\ \/ Others \subseteq Asked
                   \/ Cardinality(Asked \ SeedNodes) = MaxPoolSize)
=============================================================================
