------------------------------ MODULE Resolver ------------------------------
(***************************************************************************)
(* Resolver.Resolve (internal/resolver/resolver.go): one DNN name resolved *)
(* by any number of concurrent calls against a network of nodes that       *)
(* replicate the owner's record with a lag.                                *)
(*                                                                         *)
(* A call copies the node list, shuffles it, and asks it in sets of        *)
(* SetSize nodes, at most MaxSets sets.  One goroutine per node of a set   *)
(* writes one slot of a slice all share; the call goes on when all have    *)
(* answered or when the set's timeout fires, and in that case it reads the *)
(* slice while late goroutines are still writing it.  A slot read in the   *)
(* middle of a write has any mixture of its old and new words.             *)
(***************************************************************************)
EXTENDS PickBest, FiniteSets, Sequences

CONSTANTS
    Nodes,          \* the node URLs that exist
    Legacy,         \* the nodes that send neither the event nor domain_found
    Keyless,        \* the legacy nodes that leave pubkey out too
    Forged,         \* the nodes whose events do not check
    NodeLists,      \* the lists peer discovery may install
    Keys,           \* owner keys
    Calls,          \* concurrent calls of Resolve
    SetSize,        \* maxNodesPerSet
    MaxSets,        \* maxRetrySets
    MaxVersion,     \* bound: publications of the owner
    NoNode

ASSUME NodesAssumption == /\ Legacy \subseteq Nodes /\ Keyless \subseteq Legacy
                          /\ Forged \subseteq Nodes \ Legacy
                          /\ NodeLists \subseteq SUBSET Nodes
                          /\ IsFiniteSet(Nodes)
                          /\ NoNode \notin Nodes /\ NoKey \notin Keys
ASSUME SizeAssumption == /\ SetSize \in Nat \ {0} /\ MaxSets \in Nat \ {0}
                         /\ MaxVersion \in Nat

VARIABLES
    record,     \* the owner's publications: record[v] is the event created at v
    has,        \* has[n]: the version node n serves, 0 before its first
    nodes,      \* Resolver.nodes
    pc,         \* where each call is
    since,      \* since[c]: has, when call c copied the node list
    left,       \* the nodes of the copy that call c has not asked
    round,      \* the set call c is at
    who,        \* who[c][i]: the node slot i of the set asks
    phase,      \* how far the goroutine of slot i is
    ans,        \* ans[c][i]: what that goroutine writes
    got,        \* the slots written when the wait for the set ended
    next,       \* the next slot pickBestResult reads
    read,       \* read[c][i]: what it read
    valid,      \* the slots it accepted
    removed,    \* history: the newest version call c was told is a removal
    result      \* result[c]: the slot whose resolution is returned, 0 for an error

world    == <<record, has>>
slots    == <<who, phase, ans>>
picking  == <<got, next, read, valid>>
callVars == <<pc, since, left, round, slots, picking, removed, result>>
vars     == <<world, nodes, callVars>>

Slot     == 1..SetSize
Versions == 0..MaxVersion
Slots    == [ver : Versions, ev : BOOLEAN, ok : BOOLEAN,
             key : Keys \cup {NoKey}, found : BOOLEAN]

TypeOK ==
    /\ record \in Seq([key : Keys, found : BOOLEAN]) /\ Len(record) <= MaxVersion
    /\ has \in [Nodes -> Versions]
    /\ nodes \in SUBSET Nodes
    /\ pc \in [Calls -> {"idle", "ask", "wait", "pick", "done"}]
    /\ since \in [Calls -> [Nodes -> Versions]]
    /\ left \in [Calls -> SUBSET Nodes]
    /\ round \in [Calls -> 0..MaxSets]
    /\ who \in [Calls -> [Slot -> Nodes \cup {NoNode}]]
    /\ phase \in [Calls -> [Slot -> {"unused", "asked", "writing", "written"}]]
    /\ ans \in [Calls -> [Slot -> Slots]]
    /\ got \in [Calls -> SUBSET Slot]
    /\ next \in [Calls -> 1..(SetSize + 1)]
    /\ read \in [Calls -> [Slot -> Slots]]
    /\ valid \in [Calls -> SUBSET Slot]
    /\ removed \in [Calls -> Versions]
    /\ result \in [Calls -> Slot \cup {0}]

NoSlots == [i \in Slot |-> Unwritten]

Init ==
    /\ record = <<>>
    /\ has = [n \in Nodes |-> 0]
    /\ nodes \in NodeLists
    /\ pc = [c \in Calls |-> "idle"]
    /\ since = [c \in Calls |-> [n \in Nodes |-> 0]]
    /\ left = [c \in Calls |-> {}]
    /\ round = [c \in Calls |-> 0]
    /\ who = [c \in Calls |-> [i \in Slot |-> NoNode]]
    /\ phase = [c \in Calls |-> [i \in Slot |-> "unused"]]
    /\ ans = [c \in Calls |-> NoSlots]
    /\ got = [c \in Calls |-> {}]
    /\ next = [c \in Calls |-> 1]
    /\ read = [c \in Calls |-> NoSlots]
    /\ valid = [c \in Calls |-> {}]
    /\ removed = [c \in Calls |-> 0]
    /\ result = [c \in Calls |-> 0]

-----------------------------------------------------------------------------
(* The network, outside the daemon: the owner publishes, renames or removes
   the domain; a node catches up with some later publication. *)
Publish(k, f) ==
    /\ Len(record) < MaxVersion
    /\ record' = Append(record, [key |-> k, found |-> f])
    /\ UNCHANGED <<has, nodes, callVars>>

Sync(n) ==
    /\ \E v \in (has[n] + 1)..Len(record) : has' = [has EXCEPT ![n] = v]
    /\ UNCHANGED <<record, nodes, callVars>>

(* UpdateNodes: discovery installs a new list; running calls keep their copy. *)
UpdateNodes(L) ==
    /\ nodes' = L
    /\ UNCHANGED <<world, callVars>>

-----------------------------------------------------------------------------
(* Resolve starts: an empty list fails at once. *)
Begin(c) ==
    /\ pc[c] = "idle"
    /\ since' = [since EXCEPT ![c] = has]
    /\ left' = [left EXCEPT ![c] = nodes]
    /\ pc' = [pc EXCEPT ![c] = IF nodes = {} THEN "done" ELSE "ask"]
    /\ UNCHANGED <<world, nodes, round, slots, picking, removed, result>>

Smaller(a, b) == IF a <= b THEN a ELSE b

(* The bound of the loop over sets; a bug would be to have none. *)
EndlessSets(c) == TRUE
MoreSets(c)    == round[c] < MaxSets /\ left[c] # {}

(* The next set of the shuffled list: any arrangement of nodes not asked. *)
AskSet(c) ==
    /\ pc[c] = "ask" /\ MoreSets(c)
    /\ LET k == Smaller(SetSize, Cardinality(left[c])) IN
       \E f \in [1..k -> left[c]] :
           /\ \A i, j \in 1..k : f[i] = f[j] => i = j
           /\ left' = [left EXCEPT ![c] = @ \ {f[i] : i \in 1..k}]
           /\ who' = [who EXCEPT ![c] = [i \in Slot |-> IF i <= k THEN f[i] ELSE NoNode]]
           /\ phase' = [phase EXCEPT ![c] = [i \in Slot |-> IF i <= k THEN "asked" ELSE "unused"]]
    /\ ans' = [ans EXCEPT ![c] = NoSlots]
    /\ round' = [round EXCEPT ![c] = @ + 1]
    /\ got' = [got EXCEPT ![c] = {}]
    /\ next' = [next EXCEPT ![c] = 1]
    /\ read' = [read EXCEPT ![c] = NoSlots]
    /\ valid' = [valid EXCEPT ![c] = {}]
    /\ pc' = [pc EXCEPT ![c] = "wait"]
    /\ UNCHANGED <<world, nodes, since, removed, result>>

(* No set is left: ErrAllNodesFailed. *)
GiveUp(c) ==
    /\ pc[c] = "ask" /\ ~MoreSets(c)
    /\ pc' = [pc EXCEPT ![c] = "done"]
    /\ UNCHANGED <<world, nodes, since, left, round, slots, picking, removed, result>>

(* What resolveFromNode makes of the response of node n. *)
NodeAnswer(n) ==
    LET v == has[n] IN
    IF v = 0 THEN Unwritten
    ELSE [ver   |-> v,
          ev    |-> n \notin Legacy,
          ok    |-> n \notin Legacy \cup Forged,
          key   |-> IF n \in Keyless THEN NoKey ELSE record[v].key,
          found |-> n \in Legacy \/ record[v].found]

(* A write matters until its slot is read. *)
Awaited(c, i) == pc[c] = "wait" \/ (pc[c] = "pick" /\ next[c] <= i)

(* The goroutine of slot i has the response, or an error, and starts to
   write the slot. *)
Answer(c, i) ==
    /\ Awaited(c, i) /\ phase[c][i] = "asked"
    /\ \E a \in {NodeAnswer(who[c][i]), Unwritten} : ans' = [ans EXCEPT ![c][i] = a]
    /\ phase' = [phase EXCEPT ![c][i] = "writing"]
    /\ UNCHANGED <<world, nodes, pc, since, left, round, who, picking, removed, result>>

Written(c, i) ==
    /\ Awaited(c, i) /\ phase[c][i] = "writing"
    /\ phase' = [phase EXCEPT ![c][i] = "written"]
    /\ UNCHANGED <<world, nodes, pc, since, left, round, who, ans, picking, removed, result>>

WrittenSlots(c) == {i \in Slot : phase[c][i] = "written"}

EndWait(c) ==
    /\ pc[c] = "wait"
    /\ got' = [got EXCEPT ![c] = WrittenSlots(c)]
    /\ pc' = [pc EXCEPT ![c] = "pick"]
    /\ UNCHANGED <<world, nodes, since, left, round, slots, next, read, valid, removed, result>>

(* The select of queryNodesParallel: every goroutine is done, or time is up. *)
AllAnswered(c) == \A i \in Slot : phase[c][i] \in {"unused", "written"}
WaitDone(c)    == AllAnswered(c) /\ EndWait(c)
NoTimer(c)     == AllAnswered(c) /\ EndWait(c)      \* a bug: the wait has no timer
TimeOut(c)     == ~AllAnswered(c) /\ EndWait(c)

(* What a read of slot i may see: while the slot is being written, any of
   the resolution, the event pointer and domain_found may still be old. *)
Torn(a) == {[ver |-> v, ev |-> e, ok |-> a.ok, key |-> a.key, found |-> d] :
               v \in {0, a.ver}, e \in {FALSE, a.ev}, d \in {FALSE, a.found}}
Reads(c, i) == CASE phase[c][i] = "written" -> {ans[c][i]}
                 [] phase[c][i] = "writing" -> Torn(ans[c][i])
                 [] OTHER                   -> {Unwritten}

(* One turn of the first loop of pickBestResult. *)
ReadSlot(c) ==
    /\ pc[c] = "pick" /\ next[c] \in Slot
    /\ \E s \in Reads(c, next[c]) :
           /\ read' = [read EXCEPT ![c][next[c]] = s]
           /\ valid' = [valid EXCEPT ![c] = IF Acceptable(s) THEN @ \cup {next[c]} ELSE @]
    /\ next' = [next EXCEPT ![c] = @ + 1]
    /\ UNCHANGED <<world, nodes, pc, since, left, round, slots, got, removed, result>>

(* The newest answer is of a version that removes the domain: a slot read
   before its domain_found was written tells of no removal. *)
ToldRemoved(c) ==
    LET V == valid[c]  w == read[c][Newest(read[c], V)]  v == CreatedAt(w) IN
    V # {} /\ Consistent(read[c], V) /\ ~w.found /\ v # 0 /\ ~record[v].found

(* The rest of pickBestResult, and Resolve's reaction: return or next set. *)
Decide(c) ==
    /\ pc[c] = "pick" /\ next[c] = SetSize + 1
    /\ LET b == Pick(read[c], valid[c])
           v == CreatedAt(read[c][Newest(read[c], valid[c])]) IN
           /\ result' = [result EXCEPT ![c] = b]
           /\ pc' = [pc EXCEPT ![c] = IF b # 0 THEN "done" ELSE "ask"]
           /\ removed' = [removed EXCEPT ![c] = IF ToldRemoved(c) /\ v > @ THEN v ELSE @]
    /\ UNCHANGED <<world, nodes, since, left, round, slots, picking>>

(* The caller has its answer and drops the rest; the same worker may resolve
   again.  A late goroutine of this call writes a slice nobody reads. *)
Return(c) ==
    /\ pc[c] = "done"
    /\ pc' = [pc EXCEPT ![c] = "idle"]
    /\ since' = [since EXCEPT ![c] = [n \in Nodes |-> 0]]
    /\ left' = [left EXCEPT ![c] = {}]
    /\ round' = [round EXCEPT ![c] = 0]
    /\ who' = [who EXCEPT ![c] = [i \in Slot |-> NoNode]]
    /\ phase' = [phase EXCEPT ![c] = [i \in Slot |-> "unused"]]
    /\ ans' = [ans EXCEPT ![c] = NoSlots]
    /\ got' = [got EXCEPT ![c] = {}]
    /\ next' = [next EXCEPT ![c] = 1]
    /\ read' = [read EXCEPT ![c] = NoSlots]
    /\ valid' = [valid EXCEPT ![c] = {}]
    /\ removed' = [removed EXCEPT ![c] = 0]
    /\ result' = [result EXCEPT ![c] = 0]
    /\ UNCHANGED <<world, nodes>>

-----------------------------------------------------------------------------
Network == \/ \E k \in Keys, f \in BOOLEAN : Publish(k, f)
           \/ \E n \in Nodes : Sync(n)
           \/ \E L \in NodeLists : UpdateNodes(L)
Goroutine(c, i) == Answer(c, i) \/ Written(c, i)
(* The steps of the calling goroutine itself, the timer's among them. *)
Caller(c) == AskSet(c) \/ GiveUp(c) \/ WaitDone(c) \/ TimeOut(c) \/ ReadSlot(c) \/ Decide(c)

Next == \/ Network
        \/ \E c \in Calls : \/ Begin(c) \/ Return(c) \/ Caller(c)
                            \/ \E i \in Slot : Goroutine(c, i)

Spec == Init /\ [][Next]_vars

(* The caller is never blocked for good: a set's wait is bounded by its
   timer.  Nothing is assumed of the nodes, or of the goroutines asking. *)
FairSpec == Spec /\ \A c \in Calls : WF_vars(Caller(c))

-----------------------------------------------------------------------------
Returned(c) == pc[c] = "done" /\ result[c] # 0
ResultOf(c) == read[c][result[c]]

(* The version a call returns was served, by the node the call takes it
   from, between the call's beginning and now, and is not a removal unless
   that node cannot report one: late goroutines, a list replaced half way
   and reads of half-written slots included. *)
Regular == \A c \in Calls : Returned(c) =>
    LET n == who[c][result[c]]  v == ResultOf(c).ver IN
    /\ v \in 1..Len(record) /\ since[c][n] <= v /\ v <= has[n]
    /\ n \in Legacy \/ record[v].found

(* "Picks the freshest created_at": no node whose verified answer was in the
   slice when the wait for the set ended had a newer version. *)
FreshestInTime == \A c \in Calls : Returned(c) =>
    \A i \in got[c] : LET a == ans[c][i] IN
        a.ver # 0 /\ a.ev /\ a.ok => a.ver <= CreatedAt(ResultOf(c))

(* "all valid responses should have the same pubkey": two accepted answers
   of the set a result comes from never name two different owners. *)
KeysAgree == \A c \in Calls : Returned(c) =>
    \A i, j \in valid[c] :
        NoKey \in {read[c][i].key, read[c][j].key} \/ read[c][i].key = read[c][j].key

(* When every node of a set answered in time, the call moves on to another
   set only for a reason found in the answers themselves: nothing usable,
   two owners, or a removal. *)
HasReason(c) ==
    LET A == {i \in Slot : Acceptable(ans[c][i])} IN
    \/ A = {}
    \/ \E i, j \in A : ans[c][i].key # ans[c][j].key /\ NoKey \notin {ans[c][i].key, ans[c][j].key}
    \/ \E i \in A : ~ans[c][i].found
RefusalHasReason == [][\A c \in Calls :
    pc[c] = "pick" /\ pc'[c] = "ask" /\ got[c] = {i \in Slot : who[c][i] # NoNode}
        => HasReason(c)]_vars

(* Every call returns, answer or error, however few nodes ever answer. *)
CallsReturn == \A c \in Calls : pc[c] = "ask" ~> pc[c] = "done"

(* README.md: "removed domains don't resolve".  A call that was told of a
   removal returns nothing older than it. *)
RemovedDomainsDontResolve == \A c \in Calls :
    Returned(c) => ResultOf(c).ver > removed[c]

(* resolver.go: "If we have a raw connection event, verify its signature".
   An answer that came with an event is returned only if the event checks. *)
SignatureVerified == \A c \in Calls : Returned(c) =>
    LET a == ans[c][result[c]] IN a.ev => a.ok

(* The resolver does what its callers are promised. *)
Lookup == INSTANCE NameLookup WITH
    status <- [c \in Calls |-> CASE pc[c] \in {"idle", "done"} -> pc[c] [] OTHER -> "busy"],
    answer <- [c \in Calls |-> IF Returned(c) THEN ResultOf(c).ver ELSE 0]
ImplementsLookup == Lookup!Spec
=============================================================================
