--------------------------- MODULE ResolverProofs ---------------------------
(***************************************************************************)
(* What a resolution may return, for any nodes, keys, lists, calls and     *)
(* sizes of sets: whatever late goroutines write, and whatever mixture of  *)
(* words a slot shows that is read while it is written.                    *)
(***************************************************************************)
EXTENDS Resolver, DataLemmas, TLAPS

(* First pickBestResult, for any slots.  There is a newest accepted        *)
(* answer, and Newest is it.                                               *)
LEMMA NewestFacts ==
    ASSUME NEW n \in Nat, NEW m \in Nat, NEW s, NEW V \in SUBSET (1..n), V # {},
           \A i \in V : CreatedAt(s[i]) \in 0..m
    PROVE  /\ Newest(s, V) \in V
           /\ \A j \in V : CreatedAt(s[j]) <= CreatedAt(s[Newest(s, V)])
<1> DEFINE Age(i) == m - CreatedAt(s[i])
           ages   == {Age(i) : i \in V}
           Best(i) == \A j \in V : \/ CreatedAt(s[j]) < CreatedAt(s[i])
                                   \/ CreatedAt(s[j]) = CreatedAt(s[i]) /\ i <= j
<1>0. V \subseteq Nat /\ \A i \in V : CreatedAt(s[i]) \in Nat
  <2>1. 1..n \subseteq Nat /\ 0..m \subseteq Nat
    BY SMT
  <2> QED
    BY <2>1, Zenon
<1>1. \A i \in V : Age(i) \in Nat
  BY SMT
<1>2. PICK a \in ages : \A b \in ages : a <= b
  <2>1. ages \subseteq Nat /\ ages # {}
    BY <1>1
  <2> QED
    BY <2>1, LeastNat
<1>3. PICK k \in V : a = Age(k)
  OBVIOUS
<1> DEFINE young == {i \in V : CreatedAt(s[i]) = CreatedAt(s[k])}
<1>4. \A j \in V : CreatedAt(s[j]) <= CreatedAt(s[k])
  <2> SUFFICES ASSUME NEW j \in V PROVE CreatedAt(s[j]) <= CreatedAt(s[k])
    OBVIOUS
  <2>1. Age(k) <= Age(j)
    BY <1>2, <1>3
  <2>2. CreatedAt(s[j]) \in Nat /\ CreatedAt(s[k]) \in Nat
    BY <1>0
  <2> QED
    BY <2>1, <2>2, SMT
<1>5. PICK i \in young : \A j \in young : i <= j
  <2>1. young \subseteq Nat /\ young # {}
    BY <1>0, Zenon
  <2> QED
    BY <2>1, LeastNat
<1>6. Best(i)
  <2> SUFFICES ASSUME NEW j \in V PROVE \/ CreatedAt(s[j]) < CreatedAt(s[i])
                                        \/ CreatedAt(s[j]) = CreatedAt(s[i]) /\ i <= j
    OBVIOUS
  <2>1. CreatedAt(s[j]) \in Nat /\ CreatedAt(s[k]) \in Nat /\ CreatedAt(s[i]) = CreatedAt(s[k])
    BY <1>0, Zenon
  <2>2. CASE CreatedAt(s[j]) = CreatedAt(s[k])
    BY <1>5, <2>1, <2>2
  <2>3. CASE CreatedAt(s[j]) # CreatedAt(s[k])
    <3>1. CreatedAt(s[j]) <= CreatedAt(s[k])
      BY <1>4
    <3>2. CreatedAt(s[j]) < CreatedAt(s[k])
      BY <2>1, <2>3, <3>1, SMT
    <3> QED
      BY <2>1, <3>2, Zenon
  <2> QED
    BY <2>2, <2>3
<1>7. Newest(s, V) \in V /\ Best(Newest(s, V))
  BY <1>6, Zenon DEF Newest
<1> DEFINE w == Newest(s, V)
<1>8. \A j \in V : CreatedAt(s[j]) <= CreatedAt(s[w])
  <2> SUFFICES ASSUME NEW j \in V PROVE CreatedAt(s[j]) <= CreatedAt(s[w])
    OBVIOUS
  <2>1. CreatedAt(s[j]) \in Nat /\ CreatedAt(s[w]) \in Nat
    BY <1>0, <1>7, Zenon
  <2>2. \/ CreatedAt(s[j]) < CreatedAt(s[w])
        \/ CreatedAt(s[j]) = CreatedAt(s[w])
    BY <1>7
  <2> HIDE DEF w
  <2> QED
    BY <2>1, <2>2, SMT
<1> QED
  BY <1>7, <1>8

(* An answer of pickBestResult is an accepted one, the newest of them, and *)
(* not a removal; nil (0) is not a slot.                                   *)
THEOREM PickFacts ==
    ASSUME NEW n \in Nat, NEW m \in Nat, NEW s, NEW V \in SUBSET (1..n),
           \A i \in V : CreatedAt(s[i]) \in 0..m,
           Pick(s, V) # 0
    PROVE  /\ Pick(s, V) \in V /\ s[Pick(s, V)].found
           /\ \A j \in V : CreatedAt(s[j]) <= CreatedAt(s[Pick(s, V)])
<1>1. V # {} /\ Consistent(s, V) /\ s[Newest(s, V)].found /\ Pick(s, V) = Newest(s, V)
  BY DEF Pick
<1> QED
  BY <1>1, NewestFacts

-----------------------------------------------------------------------------
(* Nodes only move forward, and no further than the owner.                 *)
History ==
    /\ \A n \in Nodes : has[n] <= Len(record)
    /\ \A c \in Calls, n \in Nodes : since[c][n] <= has[n]

(* What a goroutine writes, its node has served since the call began; what *)
(* was read of it is that or less.                                         *)
Answers == \A c \in Calls, i \in Slot :
    /\ phase[c][i] = "asked" => who[c][i] \in Nodes
    /\ ans[c][i].ver # 0 =>
          /\ who[c][i] \in Nodes
          /\ since[c][who[c][i]] <= ans[c][i].ver /\ ans[c][i].ver <= has[who[c][i]]
          /\ ans[c][i].found => who[c][i] \in Legacy \/ record[ans[c][i].ver].found

Readings == \A c \in Calls, i \in Slot : read[c][i].ver # 0 =>
    /\ who[c][i] \in Nodes
    /\ since[c][who[c][i]] <= read[c][i].ver /\ read[c][i].ver <= has[who[c][i]]
    /\ read[c][i].found => who[c][i] \in Legacy \/ record[read[c][i].ver].found

(* Slots written in time are settled: what is read of them is what they    *)
(* hold, and it is accepted for what it is.                                *)
Settled == \A c \in Calls, i \in Slot :
    /\ i \in got[c] => phase[c][i] = "written"
    /\ i \in got[c] /\ i < next[c] => read[c][i] = ans[c][i]
    /\ i \in valid[c] <=> i < next[c] /\ Acceptable(read[c][i])

(* A call that waits has read nothing; one that is idle holds nothing; a   *)
(* result is the newest accepted answer of the last set.                   *)
Progress == \A c \in Calls :
    /\ pc[c] = "wait" => next[c] = 1
    /\ pc[c] = "idle" => \A i \in Slot : ans[c][i].ver = 0 /\ read[c][i].ver = 0
    /\ result[c] # 0 =>
          /\ pc[c] = "done" /\ next[c] = SetSize + 1
          /\ result[c] \in valid[c] /\ read[c][result[c]].found
          /\ \A j \in valid[c] : CreatedAt(read[c][j]) <= CreatedAt(read[c][result[c]])

IInv == TypeOK /\ History /\ Answers /\ Readings /\ Settled /\ Progress

-----------------------------------------------------------------------------
(* A slot nobody wrote is a slot; versions are bounded.                    *)
LEMMA SlotFacts ==
    /\ Unwritten \in Slots /\ Unwritten.ver = 0
    /\ \A s \in Slots : CreatedAt(s) \in 0..MaxVersion
<1>1. 0 \in Versions /\ Versions = 0..MaxVersion
  BY SizeAssumption, SMT DEF SizeAssumption, Versions
<1>2. Unwritten \in Slots /\ Unwritten.ver = 0
  BY <1>1 DEF Slots, Unwritten
<1>3. \A s \in Slots : s.ver \in 0..MaxVersion
  BY <1>1 DEF Slots
<1> QED
  BY <1>1, <1>2, <1>3 DEF CreatedAt

(* A torn read shows the version of the slot or none, and never found      *)
(* where the slot says the domain is gone.                                 *)
LEMMA ReadFacts ==
    ASSUME TypeOK, NEW c \in Calls, NEW i \in Slot, NEW s \in Reads(c, i)
    PROVE  /\ s \in Slots
           /\ s.ver # 0 => s.ver = ans[c][i].ver
           /\ s.ver # 0 /\ s.found => ans[c][i].found
           /\ phase[c][i] = "written" => s = ans[c][i]
<1>1. ans[c][i] \in Slots
  BY DEF TypeOK
<1>2. CASE phase[c][i] = "written"
  BY <1>1, <1>2 DEF Reads
<1>3. CASE phase[c][i] = "writing"
  <2>1. s \in Torn(ans[c][i])
    BY <1>3 DEF Reads
  <2>2. PICK v \in {0, ans[c][i].ver}, e \in {FALSE, ans[c][i].ev}, d \in {FALSE, ans[c][i].found} :
            s = [ver |-> v, ev |-> e, ok |-> ans[c][i].ok, key |-> ans[c][i].key, found |-> d]
    BY <2>1, SMT DEF Torn
  <2>3. 0 \in Versions
    BY SizeAssumption, SMT DEF SizeAssumption, Versions
  <2> QED
    BY <1>1, <1>3, <2>2, <2>3 DEF Slots
<1>4. CASE phase[c][i] \notin {"written", "writing"}
  BY <1>4, SlotFacts DEF Reads
<1> QED
  BY <1>2, <1>3, <1>4

(* What a node answers is what it serves.                                  *)
LEMMA AnswerFacts ==
    ASSUME TypeOK, History, NEW n \in Nodes
    PROVE  /\ NodeAnswer(n) \in Slots
           /\ NodeAnswer(n).ver # 0 =>
                 /\ NodeAnswer(n).ver = has[n]
                 /\ NodeAnswer(n).found => n \in Legacy \/ record[has[n]].found
<1>1. CASE has[n] = 0
  BY <1>1, SlotFacts DEF NodeAnswer
<1>2. CASE has[n] # 0
  <2>1. has[n] \in Versions /\ has[n] \in 1..Len(record)
    <3>1. has[n] \in Versions /\ Len(record) \in Nat /\ has[n] <= Len(record)
      BY LenProperties DEF TypeOK, History
    <3> QED
      BY <1>2, <3>1, SizeAssumption, SMT DEF SizeAssumption, Versions
  <2>2. record[has[n]].key \in Keys /\ record[has[n]].found \in BOOLEAN
    <3>1. record[has[n]] \in [key : Keys, found : BOOLEAN]
      BY <2>1, ElementOfSeq DEF TypeOK
    <3> QED
      BY <3>1
  <2> QED
    BY <1>2, <2>1, <2>2 DEF NodeAnswer, Slots
<1> QED
  BY <1>1, <1>2

(* A set is made of nodes that were not asked, each in a slot of its own.  *)
LEMMA AskFacts ==
    ASSUME TypeOK, NEW c \in Calls, AskSet(c)
    PROVE  /\ left' \in [Calls -> SUBSET Nodes]
           /\ who' \in [Calls -> [Slot -> Nodes \cup {NoNode}]]
           /\ phase' \in [Calls -> [Slot -> {"unused", "asked"} \cup {"writing", "written"}]]
           /\ \A i \in Slot : phase'[c][i] = "asked" => who'[c][i] \in Nodes
           /\ \A d \in Calls \ {c} : who'[d] = who[d] /\ phase'[d] = phase[d]
<1> DEFINE k == Smaller(SetSize, Cardinality(left[c]))
<1>1. left[c] \subseteq Nodes
  BY DEF TypeOK
<1>2. k \in Nat
  <2>1. Cardinality(left[c]) \in Nat
    BY <1>1, NodesAssumption, FS_Subset, FS_CardinalityType DEF NodesAssumption
  <2> QED
    BY <2>1, SizeAssumption, SMT DEF SizeAssumption, Smaller
<1> HIDE DEF k
<1>3. PICK f \in [1..k -> left[c]] :
          /\ left' = [left EXCEPT ![c] = @ \ {f[i] : i \in 1..k}]
          /\ who' = [who EXCEPT ![c] = [i \in Slot |-> IF i <= k THEN f[i] ELSE NoNode]]
          /\ phase' = [phase EXCEPT ![c] = [i \in Slot |-> IF i <= k THEN "asked" ELSE "unused"]]
  BY DEF AskSet, k
<1>4. \A i \in Slot : i <= k => f[i] \in Nodes
  <2>1. \A i \in Slot : i <= k => i \in 1..k
    BY <1>2, SizeAssumption, SMT DEF SizeAssumption, Slot
  <2> QED
    BY <1>1, <2>1
<1>5. left' \in [Calls -> SUBSET Nodes]
  BY <1>1, <1>3 DEF TypeOK
<1>6. who' \in [Calls -> [Slot -> Nodes \cup {NoNode}]]
  BY <1>3, <1>4 DEF TypeOK
<1>7. phase' \in [Calls -> [Slot -> {"unused", "asked"} \cup {"writing", "written"}]]
  BY <1>3 DEF TypeOK
<1>8. \A i \in Slot : phase'[c][i] = "asked" => who'[c][i] \in Nodes
  BY <1>3, <1>4 DEF TypeOK
<1>9. \A d \in Calls \ {c} : who'[d] = who[d] /\ phase'[d] = phase[d]
  BY <1>3 DEF TypeOK
<1> QED
  BY <1>5, <1>6, <1>7, <1>8, <1>9

(* What Decide makes of the accepted answers. *)
LEMMA DecideFacts ==
    ASSUME TypeOK, NEW c \in Calls, Pick(read[c], valid[c]) # 0
    PROVE  /\ Pick(read[c], valid[c]) \in valid[c]
           /\ read[c][Pick(read[c], valid[c])].found
           /\ \A j \in valid[c] :
                 CreatedAt(read[c][j]) <= CreatedAt(read[c][Pick(read[c], valid[c])])
<1> DEFINE s == read[c]
           V == valid[c]
<1>1. V \in SUBSET (1..SetSize) /\ SetSize \in Nat /\ MaxVersion \in Nat
  BY SizeAssumption DEF SizeAssumption, TypeOK, Slot
<1>2. \A i \in V : CreatedAt(s[i]) \in 0..MaxVersion
  BY SlotFacts DEF TypeOK
<1>3. Pick(s, V) # 0
  OBVIOUS
<1> HIDE DEF s, V
<1>4. /\ Pick(s, V) \in V /\ s[Pick(s, V)].found
      /\ \A j \in V : CreatedAt(s[j]) <= CreatedAt(s[Pick(s, V)])
  BY <1>1, <1>2, <1>3, PickFacts
<1> QED
  BY <1>4 DEF s, V

(* The age of a removal a call was told of is a version.                   *)
LEMMA ToldFacts ==
    ASSUME TypeOK, NEW c \in Calls, ToldRemoved(c)
    PROVE  CreatedAt(read[c][Newest(read[c], valid[c])]) \in Versions
<1> DEFINE s == read[c]
           V == valid[c]
<1>1. V \in SUBSET (1..SetSize) /\ SetSize \in Nat /\ MaxVersion \in Nat /\ V # {}
  BY SizeAssumption DEF SizeAssumption, TypeOK, Slot, ToldRemoved
<1>2. \A i \in V : CreatedAt(s[i]) \in 0..MaxVersion
  BY SlotFacts DEF TypeOK
<1> HIDE DEF s, V
<1>3. Newest(s, V) \in V
  BY <1>1, <1>2, NewestFacts
<1> QED
  BY <1>2, <1>3 DEF s, V, Versions

(* Every step is one of these. *)
LEMMA Steps ==
    ASSUME [Next]_vars
    PROVE  \/ UNCHANGED vars
           \/ \E k \in Keys, f \in BOOLEAN : Publish(k, f)
           \/ \E n \in Nodes : Sync(n)
           \/ \E L \in NodeLists : UpdateNodes(L)
           \/ \E c \in Calls : \/ Begin(c) \/ Return(c) \/ AskSet(c) \/ GiveUp(c) \/ EndWait(c)
                               \/ ReadSlot(c) \/ Decide(c)
                               \/ \E i \in Slot : Answer(c, i) \/ Written(c, i)
BY DEF Next, Network, Goroutine, Caller, WaitDone, TimeOut

-----------------------------------------------------------------------------
(* The invariant holds at first.                                           *)
LEMMA InitIInv == Init => IInv
<1> SUFFICES ASSUME Init PROVE IInv
  OBVIOUS
<1>1. /\ 0 \in Versions /\ 1 \in 1..(SetSize + 1) /\ 0 \in 0..MaxSets
      /\ Slot \subseteq Nat \ {0}
  BY SizeAssumption, SMT DEF SizeAssumption, Versions, Slot
<1>2. NoSlots \in [Slot -> Slots] /\ \A i \in Slot : NoSlots[i] = Unwritten
  BY SlotFacts DEF NoSlots
<1>3. <<>> \in Seq([key : Keys, found : BOOLEAN]) /\ Len(<<>>) = 0
  BY EmptySeq
<1>4. nodes \in SUBSET Nodes
  BY NodesAssumption DEF NodesAssumption, Init
<1>5. TypeOK
  BY <1>1, <1>2, <1>3, <1>4, SizeAssumption, SMT DEF SizeAssumption, Init, TypeOK
<1>6. History
  BY <1>3 DEF Init, History
<1>7. Answers /\ Readings
  BY <1>2, SlotFacts DEF Init, Answers, Readings
<1>8. Settled
  BY <1>1, <1>2, SlotFacts DEF Init, Settled
<1>9. Progress
  BY <1>2, SlotFacts DEF Init, Progress
<1> QED
  BY <1>5, <1>6, <1>7, <1>8, <1>9 DEF IInv

(* Every step keeps the types.                                             *)
LEMMA TypeStep == IInv /\ [Next]_vars => TypeOK'
<1> SUFFICES ASSUME IInv, [Next]_vars PROVE TypeOK'
  OBVIOUS
<1>0. TypeOK /\ History
  BY DEF IInv
<1> USE <1>0
<1>1. CASE UNCHANGED vars
  BY <1>1 DEF TypeOK, vars, world, callVars, slots, picking
<1>2. ASSUME NEW k \in Keys, NEW f \in BOOLEAN, Publish(k, f) PROVE TypeOK'
  <2>1. [key |-> k, found |-> f] \in [key : Keys, found : BOOLEAN]
    OBVIOUS
  <2>2. /\ record' \in Seq([key : Keys, found : BOOLEAN])
        /\ Len(record') = Len(record) + 1 /\ Len(record) \in Nat
    BY <1>2, <2>1, AppendProperties, LenProperties DEF Publish, TypeOK
  <2>3. Len(record') <= MaxVersion
    BY <1>2, <2>2, SizeAssumption, SMT DEF SizeAssumption, Publish
  <2> QED
    BY <1>2, <2>2, <2>3 DEF Publish, TypeOK, vars, world, callVars, slots, picking
<1>3. ASSUME NEW n \in Nodes, Sync(n) PROVE TypeOK'
  <2>1. PICK v \in (has[n] + 1)..Len(record) : has' = [has EXCEPT ![n] = v]
    BY <1>3 DEF Sync
  <2>2. v \in Versions
    <3>1. has[n] \in Versions /\ Len(record) \in Nat /\ Len(record) <= MaxVersion
      BY LenProperties DEF TypeOK
    <3> QED
      BY <3>1, SizeAssumption, SMT DEF SizeAssumption, Versions
  <2> QED
    BY <1>3, <2>1, <2>2 DEF Sync, TypeOK, vars, world, callVars, slots, picking
<1>4. ASSUME NEW L \in NodeLists, UpdateNodes(L) PROVE TypeOK'
  BY <1>4, NodesAssumption DEF NodesAssumption, UpdateNodes, TypeOK, vars, world, callVars, slots, picking
<1>5. ASSUME NEW c \in Calls, Begin(c) PROVE TypeOK'
  BY <1>5 DEF Begin, TypeOK, vars, world, callVars, slots, picking
<1>6. ASSUME NEW c \in Calls, Return(c) PROVE TypeOK'
  <2>1. /\ 0 \in Versions /\ 1 \in 1..(SetSize + 1) /\ 0 \in 0..MaxSets
    BY SizeAssumption, SMT DEF SizeAssumption, Versions
  <2>2. NoSlots \in [Slot -> Slots]
    BY SlotFacts DEF NoSlots
  <2> QED
    BY <1>6, <2>1, <2>2 DEF Return, TypeOK, world
<1>7. ASSUME NEW c \in Calls, AskSet(c) PROVE TypeOK'
  <2>1. NoSlots \in [Slot -> Slots] /\ 1 \in 1..(SetSize + 1)
    BY SlotFacts, SizeAssumption, SMT DEF SizeAssumption, NoSlots
  <2>2. round[c] + 1 \in 0..MaxSets
    <3>1. round[c] \in 0..MaxSets /\ round[c] < MaxSets
      BY <1>7 DEF AskSet, MoreSets, TypeOK
    <3> QED
      BY <3>1, SizeAssumption, SMT DEF SizeAssumption
  <2>3. /\ left' \in [Calls -> SUBSET Nodes]
        /\ who' \in [Calls -> [Slot -> Nodes \cup {NoNode}]]
        /\ phase' \in [Calls -> [Slot -> {"unused", "asked", "writing", "written"}]]
    <3>1. {"unused", "asked"} \cup {"writing", "written"} = {"unused", "asked", "writing", "written"}
      OBVIOUS
    <3> QED
      BY <1>7, <3>1, AskFacts
  <2> QED
    BY <1>7, <2>1, <2>2, <2>3 DEF AskSet, TypeOK, world
<1>8. ASSUME NEW c \in Calls, GiveUp(c) PROVE TypeOK'
  BY <1>8 DEF GiveUp, TypeOK, vars, world, callVars, slots, picking
<1>9. ASSUME NEW c \in Calls, EndWait(c) PROVE TypeOK'
  BY <1>9 DEF EndWait, WrittenSlots, TypeOK, vars, world, callVars, slots, picking
<1>10. ASSUME NEW c \in Calls, ReadSlot(c) PROVE TypeOK'
  <2>1. PICK s \in Reads(c, next[c]) :
            /\ read' = [read EXCEPT ![c][next[c]] = s]
            /\ valid' = [valid EXCEPT ![c] = IF Acceptable(s) THEN @ \cup {next[c]} ELSE @]
    BY <1>10 DEF ReadSlot
  <2>2. next[c] \in Slot /\ s \in Slots
    BY <1>10, ReadFacts DEF ReadSlot
  <2>3. next[c] + 1 \in 1..(SetSize + 1)
    BY <2>2, SizeAssumption, SMT DEF SizeAssumption, Slot
  <2> QED
    BY <1>10, <2>1, <2>2, <2>3 DEF ReadSlot, TypeOK, world, slots
<1>11. ASSUME NEW c \in Calls, Decide(c) PROVE TypeOK'
  <2>1. Pick(read[c], valid[c]) \in Slot \cup {0}
    BY DecideFacts DEF TypeOK
  <2> QED
    BY <1>11, <2>1, ToldFacts DEF Decide, TypeOK, world, slots, picking
<1>12. ASSUME NEW c \in Calls, NEW i \in Slot, Answer(c, i) PROVE TypeOK'
  <2>1. PICK a \in {NodeAnswer(who[c][i]), Unwritten} : ans' = [ans EXCEPT ![c][i] = a]
    BY <1>12 DEF Answer
  <2>2. who[c][i] \in Nodes
    BY <1>12 DEF Answer, IInv, Answers
  <2>3. a \in Slots
    BY <2>2, AnswerFacts, SlotFacts
  <2> QED
    BY <1>12, <2>1, <2>3 DEF Answer, TypeOK, vars, world, callVars, slots, picking
<1>13. ASSUME NEW c \in Calls, NEW i \in Slot, Written(c, i) PROVE TypeOK'
  BY <1>13 DEF Written, TypeOK, vars, world, callVars, slots, picking
<1> QED
  BY Steps, <1>1, <1>2, <1>3, <1>4, <1>5, <1>6, <1>7, <1>8, <1>9, <1>10, <1>11, <1>12, <1>13

(* Nodes and calls only move forward.                                      *)
LEMMA HistoryStep == IInv /\ [Next]_vars => History'
<1> SUFFICES ASSUME IInv, [Next]_vars PROVE History'
  OBVIOUS
<1>0. TypeOK /\ History /\ Answers /\ Readings /\ Settled /\ Progress
  BY DEF IInv
<1> USE <1>0
<1>1. ASSUME NEW k \in Keys, NEW f \in BOOLEAN, Publish(k, f) PROVE History'
  <2>1. Len(record') = Len(record) + 1 /\ Len(record) \in Nat
    BY <1>1, AppendProperties, LenProperties DEF Publish, TypeOK
  <2>2. \A n \in Nodes : has[n] \in Nat
    BY SizeAssumption, SMT DEF SizeAssumption, TypeOK, Versions
  <2> QED
    BY <1>1, <2>1, <2>2 DEF Publish, History, callVars
<1>2. ASSUME NEW n \in Nodes, Sync(n) PROVE History'
  <2>1. PICK v \in (has[n] + 1)..Len(record) : has' = [has EXCEPT ![n] = v]
    BY <1>2 DEF Sync
  <2>2. has[n] \in Nat /\ has[n] <= v /\ v <= Len(record)
    <3>1. has[n] \in Nat /\ Len(record) \in Nat
      BY LenProperties, SizeAssumption, SMT DEF SizeAssumption, TypeOK, Versions
    <3> QED
      BY <3>1, SMT
  <2>3. \A m \in Nodes : has'[m] = IF m = n THEN v ELSE has[m]
    BY <2>1 DEF TypeOK
  <2>4. \A c \in Calls : since[c][n] \in Nat /\ since[c][n] <= has[n]
    BY SizeAssumption, SMT DEF SizeAssumption, TypeOK, Versions, History
  <2>5. v \in Nat /\ \A c \in Calls : since[c][n] <= v
    BY <2>2, <2>4, LenProperties, SMT DEF TypeOK
  <2> QED
    BY <1>2, <2>2, <2>3, <2>5 DEF Sync, History, callVars
<1>3. ASSUME NEW c \in Calls, Begin(c) PROVE History'
  <2>1. \A d \in Calls : since'[d] = IF d = c THEN has ELSE since[d]
    BY <1>3 DEF Begin, TypeOK
  <2>2. \A n \in Nodes : has[n] \in Nat
    BY SizeAssumption, SMT DEF SizeAssumption, TypeOK, Versions
  <2> QED
    BY <1>3, <2>1, <2>2 DEF Begin, History, world
<1>4. ASSUME NEW c \in Calls, Return(c) PROVE History'
  <2>1. \A d \in Calls, n \in Nodes : since'[d][n] = IF d = c THEN 0 ELSE since[d][n]
    BY <1>4 DEF Return, TypeOK
  <2>2. \A n \in Nodes : has[n] \in Nat
    BY SizeAssumption, SMT DEF SizeAssumption, TypeOK, Versions
  <2> QED
    BY <1>4, <2>1, <2>2 DEF Return, History, world
<1>5. CASE UNCHANGED <<record, has, since>>
  BY <1>5 DEF History, Acceptable
<1> QED
  BY Steps, <1>1, <1>2, <1>3, <1>4, <1>5
     DEF UpdateNodes, AskSet, GiveUp, EndWait, Decide, ReadSlot, Answer, Written, vars, world, callVars, slots, picking

(* A publication leaves what a node serves as it was. *)
LEMMA PublishKeeps ==
    ASSUME TypeOK, History, NEW k \in Keys, NEW f \in BOOLEAN, Publish(k, f),
           NEW n \in Nodes, NEW v \in Versions, v # 0, v <= has[n]
    PROVE  record'[v] = record[v]
<1>1. v \in 1..Len(record)
  <2>1. Len(record) \in Nat /\ has[n] \in Nat /\ v \in Nat /\ has[n] <= Len(record)
    BY LenProperties, SizeAssumption, SMT DEF SizeAssumption, TypeOK, Versions, History
  <2> QED
    BY <2>1, SMT
<1> QED
  BY <1>1, AppendProperties DEF Publish, TypeOK

(* What goroutines write was served; a slot being asked has a node.        *)
LEMMA AnswersStep == IInv /\ [Next]_vars => Answers'
<1> SUFFICES ASSUME IInv, [Next]_vars PROVE Answers'
  OBVIOUS
<1>0. TypeOK /\ History /\ Answers /\ Readings /\ Settled /\ Progress
  BY DEF IInv
<1> USE <1>0
<1>1. ASSUME NEW k \in Keys, NEW f \in BOOLEAN, Publish(k, f) PROVE Answers'
  <2>1. UNCHANGED <<has, since, who, phase, ans, read>>
    BY <1>1 DEF Publish, callVars, slots, picking
  <2>2. ASSUME NEW c \in Calls, NEW i \in Slot, ans[c][i].ver # 0
        PROVE  record'[ans[c][i].ver] = record[ans[c][i].ver]
    <3>1. ans[c][i].ver \in Versions
      BY DEF TypeOK, Slots
    <3> QED
      BY <1>1, <2>2, <3>1, PublishKeeps DEF Answers
  <2> QED
    BY <2>1, <2>2 DEF Answers
<1>2. ASSUME NEW n \in Nodes, Sync(n) PROVE Answers'
  <2>1. UNCHANGED <<record, since, who, phase, ans, read>>
    BY <1>2 DEF Sync, callVars, slots, picking
  <2>2. \A m \in Nodes : has[m] \in Nat /\ has'[m] \in Nat /\ has[m] <= has'[m]
    <3>1. PICK v \in (has[n] + 1)..Len(record) : has' = [has EXCEPT ![n] = v]
      BY <1>2 DEF Sync
    <3>2. Len(record) \in Nat /\ \A m \in Nodes : has[m] \in Nat
      BY LenProperties, SizeAssumption, SMT DEF SizeAssumption, TypeOK, Versions
    <3>3. \A m \in Nodes : has'[m] = IF m = n THEN v ELSE has[m]
      BY <3>1 DEF TypeOK
    <3> QED
      BY <3>1, <3>2, <3>3, SMT
  <2>3. \A c \in Calls, i \in Slot : ans[c][i].ver \in Nat
    BY SizeAssumption, SMT DEF SizeAssumption, TypeOK, Slots, Versions
  <2> QED
    BY <2>1, <2>2, <2>3 DEF Answers
<1>3. ASSUME NEW c \in Calls, Begin(c) PROVE Answers'
  <2>1. UNCHANGED <<record, has, who, phase, ans, read>>
    BY <1>3 DEF Begin, world, slots, picking
  <2>2. \A d \in Calls \ {c} : since'[d] = since[d]
    BY <1>3 DEF Begin, TypeOK
  <2>3. \A i \in Slot : ans[c][i].ver = 0
    BY <1>3 DEF Begin, Progress
  <2> QED
    BY <2>1, <2>2, <2>3 DEF Answers
<1>4. ASSUME NEW c \in Calls, Return(c) PROVE Answers'
  <2>1. UNCHANGED <<record, has>>
    BY <1>4 DEF Return, world
  <2>2. \A d \in Calls \ {c} : /\ since'[d] = since[d] /\ who'[d] = who[d] /\ phase'[d] = phase[d]
                                /\ ans'[d] = ans[d]
    BY <1>4 DEF Return, TypeOK
  <2>3. \A i \in Slot : ans'[c][i].ver = 0 /\ phase'[c][i] = "unused"
    BY <1>4, SlotFacts DEF Return, TypeOK, NoSlots
  <2> QED
    BY <2>1, <2>2, <2>3 DEF Answers
<1>5. ASSUME NEW c \in Calls, AskSet(c) PROVE Answers'
  <2>1. UNCHANGED <<record, has, since>>
    BY <1>5 DEF AskSet, world
  <2>2. \A d \in Calls \ {c} : who'[d] = who[d] /\ phase'[d] = phase[d]
    BY <1>5, AskFacts
  <2>3. \A d \in Calls \ {c} : ans'[d] = ans[d]
    BY <1>5 DEF AskSet, TypeOK
  <2>4. \A i \in Slot : ans'[c][i].ver = 0
    BY <1>5, SlotFacts DEF AskSet, TypeOK, NoSlots
  <2>5. \A i \in Slot : phase'[c][i] = "asked" => who'[c][i] \in Nodes
    BY <1>5, AskFacts
  <2> QED
    BY <2>1, <2>2, <2>3, <2>4, <2>5 DEF Answers
<1>6. ASSUME NEW c \in Calls, NEW i \in Slot, Answer(c, i) PROVE Answers'
  <2>1. UNCHANGED <<record, has, since, who>>
    BY <1>6 DEF Answer, world
  <2>2. PICK a \in {NodeAnswer(who[c][i]), Unwritten} : ans' = [ans EXCEPT ![c][i] = a]
    BY <1>6 DEF Answer
  <2>3. who[c][i] \in Nodes
    BY <1>6 DEF Answer, Answers
  <2>4. \A d \in Calls, j \in Slot : ans'[d][j] = IF d = c /\ j = i THEN a ELSE ans[d][j]
    BY <2>2 DEF TypeOK
  <2>5. \A d \in Calls, j \in Slot : phase'[d][j] = "asked" => phase[d][j] = "asked"
    BY <1>6 DEF Answer, TypeOK
  <2>6. a.ver # 0 => /\ a.ver = has[who[c][i]]
                     /\ a.found => who[c][i] \in Legacy \/ record[a.ver].found
    BY <2>2, <2>3, AnswerFacts, SlotFacts
  <2>7. /\ has[who[c][i]] <= has[who[c][i]]
        /\ since[c][who[c][i]] <= has[who[c][i]]
    BY <2>3, SizeAssumption, SMT DEF SizeAssumption, TypeOK, Versions, History
  <2> QED
    BY <2>1, <2>3, <2>4, <2>5, <2>6, <2>7 DEF Answers
<1>7. ASSUME NEW c \in Calls, NEW i \in Slot, Written(c, i) PROVE Answers'
  <2>1. UNCHANGED <<record, has, since, who, ans>>
    BY <1>7 DEF Written, world
  <2>2. \A d \in Calls, j \in Slot : phase'[d][j] = "asked" => phase[d][j] = "asked"
    BY <1>7 DEF Written, TypeOK
  <2> QED
    BY <2>1, <2>2 DEF Answers
<1>8. CASE UNCHANGED <<record, has, since, who, phase, ans>>
  BY <1>8 DEF Answers, Acceptable
<1> QED
  BY Steps, <1>1, <1>2, <1>3, <1>4, <1>5, <1>6, <1>7, <1>8
     DEF UpdateNodes, GiveUp, EndWait, Decide, ReadSlot, vars, world, callVars, slots, picking

(* What is read was written, or less of it.                                *)
LEMMA ReadingsStep == IInv /\ [Next]_vars => Readings'
<1> SUFFICES ASSUME IInv, [Next]_vars PROVE Readings'
  OBVIOUS
<1>0. TypeOK /\ History /\ Answers /\ Readings /\ Settled /\ Progress
  BY DEF IInv
<1> USE <1>0
<1>1. ASSUME NEW k \in Keys, NEW f \in BOOLEAN, Publish(k, f) PROVE Readings'
  <2>1. UNCHANGED <<has, since, who, phase, ans, read>>
    BY <1>1 DEF Publish, callVars, slots, picking
  <2>2. ASSUME NEW c \in Calls, NEW i \in Slot, read[c][i].ver # 0
        PROVE  record'[read[c][i].ver] = record[read[c][i].ver]
    <3>1. read[c][i].ver \in Versions
      BY DEF TypeOK, Slots
    <3> QED
      BY <1>1, <2>2, <3>1, PublishKeeps DEF Readings
  <2> QED
    BY <2>1, <2>2 DEF Readings
<1>2. ASSUME NEW n \in Nodes, Sync(n) PROVE Readings'
  <2>1. UNCHANGED <<record, since, who, phase, ans, read>>
    BY <1>2 DEF Sync, callVars, slots, picking
  <2>2. \A m \in Nodes : has[m] \in Nat /\ has'[m] \in Nat /\ has[m] <= has'[m]
    <3>1. PICK v \in (has[n] + 1)..Len(record) : has' = [has EXCEPT ![n] = v]
      BY <1>2 DEF Sync
    <3>2. Len(record) \in Nat /\ \A m \in Nodes : has[m] \in Nat
      BY LenProperties, SizeAssumption, SMT DEF SizeAssumption, TypeOK, Versions
    <3>3. \A m \in Nodes : has'[m] = IF m = n THEN v ELSE has[m]
      BY <3>1 DEF TypeOK
    <3> QED
      BY <3>1, <3>2, <3>3, SMT
  <2>3. \A c \in Calls, i \in Slot : read[c][i].ver \in Nat
    BY SizeAssumption, SMT DEF SizeAssumption, TypeOK, Slots, Versions
  <2> QED
    BY <2>1, <2>2, <2>3 DEF Readings
<1>3. ASSUME NEW c \in Calls, Begin(c) PROVE Readings'
  <2>1. UNCHANGED <<record, has, who, phase, ans, read>>
    BY <1>3 DEF Begin, world, slots, picking
  <2>2. \A d \in Calls \ {c} : since'[d] = since[d]
    BY <1>3 DEF Begin, TypeOK
  <2>3. \A i \in Slot : read[c][i].ver = 0
    BY <1>3 DEF Begin, Progress
  <2> QED
    BY <2>1, <2>2, <2>3 DEF Readings
<1>4. ASSUME NEW c \in Calls, Return(c) PROVE Readings'
  <2>1. UNCHANGED <<record, has>>
    BY <1>4 DEF Return, world
  <2>2. \A d \in Calls \ {c} : /\ since'[d] = since[d] /\ who'[d] = who[d] /\ phase'[d] = phase[d]
                                /\ read'[d] = read[d]
    BY <1>4 DEF Return, TypeOK
  <2>3. \A i \in Slot : read'[c][i].ver = 0 /\ phase'[c][i] = "unused"
    BY <1>4, SlotFacts DEF Return, TypeOK, NoSlots
  <2> QED
    BY <2>1, <2>2, <2>3 DEF Readings
<1>5. ASSUME NEW c \in Calls, AskSet(c) PROVE Readings'
  <2>1. UNCHANGED <<record, has, since>>
    BY <1>5 DEF AskSet, world
  <2>2. \A d \in Calls \ {c} : who'[d] = who[d] /\ phase'[d] = phase[d]
    BY <1>5, AskFacts
  <2>3. \A d \in Calls \ {c} : read'[d] = read[d]
    BY <1>5 DEF AskSet, TypeOK
  <2>4. \A i \in Slot : read'[c][i].ver = 0
    BY <1>5, SlotFacts DEF AskSet, TypeOK, NoSlots
  <2>5. \A i \in Slot : phase'[c][i] = "asked" => who'[c][i] \in Nodes
    BY <1>5, AskFacts
  <2> QED
    BY <2>1, <2>2, <2>3, <2>4, <2>5 DEF Readings
<1>6. ASSUME NEW c \in Calls, ReadSlot(c) PROVE Readings'
  <2>1. UNCHANGED <<record, has, since, who>>
    BY <1>6 DEF ReadSlot, world, slots
  <2>2. PICK s \in Reads(c, next[c]) : read' = [read EXCEPT ![c][next[c]] = s]
    BY <1>6 DEF ReadSlot
  <2>3. next[c] \in Slot
    BY <1>6 DEF ReadSlot
  <2>4. \A d \in Calls, j \in Slot : read'[d][j] = IF d = c /\ j = next[c] THEN s ELSE read[d][j]
    BY <2>2, <2>3 DEF TypeOK
  <2>5. s.ver # 0 => s.ver = ans[c][next[c]].ver /\ (s.found => ans[c][next[c]].found)
    BY <2>3, ReadFacts
  <2> QED
    BY <2>1, <2>3, <2>4, <2>5 DEF Readings, Answers
<1>7. CASE UNCHANGED <<record, has, since, who, read>>
  BY <1>7 DEF Readings, Acceptable
<1> QED
  BY Steps, <1>1, <1>2, <1>3, <1>4, <1>5, <1>6, <1>7
     DEF UpdateNodes, GiveUp, EndWait, Decide, Answer, Written, vars, world, callVars, slots, picking

(* A slot that was written in time is read as it is.                       *)
LEMMA SettledStep == IInv /\ [Next]_vars => Settled'
<1> SUFFICES ASSUME IInv, [Next]_vars PROVE Settled'
  OBVIOUS
<1>0. TypeOK /\ History /\ Answers /\ Readings /\ Settled /\ Progress
  BY DEF IInv
<1> USE <1>0
<1>1. ASSUME NEW c \in Calls, Return(c) PROVE Settled'
  <2>1. \A d \in Calls \ {c} : /\ got'[d] = got[d] /\ phase'[d] = phase[d] /\ next'[d] = next[d]
                                /\ read'[d] = read[d] /\ ans'[d] = ans[d] /\ valid'[d] = valid[d]
    BY <1>1 DEF Return, TypeOK
  <2>2. got'[c] = {} /\ next'[c] = 1 /\ valid'[c] = {}
    BY <1>1 DEF Return, TypeOK
  <2>3. \A i \in Slot : ~(i < 1)
    BY SizeAssumption, SMT DEF SizeAssumption, Slot
  <2> QED
    BY <2>1, <2>2, <2>3 DEF Settled
<1>2. ASSUME NEW c \in Calls, AskSet(c) PROVE Settled'
  <2>1. \A d \in Calls \ {c} : /\ got'[d] = got[d] /\ next'[d] = next[d]
                                /\ read'[d] = read[d] /\ ans'[d] = ans[d] /\ valid'[d] = valid[d]
    BY <1>2 DEF AskSet, TypeOK
  <2>2. \A d \in Calls \ {c} : phase'[d] = phase[d]
    BY <1>2, AskFacts
  <2>3. got'[c] = {} /\ next'[c] = 1 /\ valid'[c] = {}
    BY <1>2 DEF AskSet, TypeOK
  <2>4. \A i \in Slot : ~(i < 1)
    BY SizeAssumption, SMT DEF SizeAssumption, Slot
  <2> QED
    BY <2>1, <2>2, <2>3, <2>4 DEF Settled
<1>3. ASSUME NEW c \in Calls, EndWait(c) PROVE Settled'
  <2>1. UNCHANGED <<phase, next, read, ans, valid>>
    BY <1>3 DEF EndWait, slots
  <2>2. \A d \in Calls : got'[d] = IF d = c THEN WrittenSlots(c) ELSE got[d]
    BY <1>3 DEF EndWait, TypeOK
  <2>3. next[c] = 1
    BY <1>3 DEF EndWait, Progress
  <2>4. \A i \in Slot : ~(i < 1)
    BY SizeAssumption, SMT DEF SizeAssumption, Slot
  <2> QED
    <3>1. ASSUME NEW d \in Calls, NEW i \in Slot
          PROVE  /\ i \in got'[d] => phase'[d][i] = "written"
                 /\ i \in got'[d] /\ i < next'[d] => read'[d][i] = ans'[d][i]
      <4>1. CASE d = c
        <5>1. got'[d] = {j \in Slot : phase[c][j] = "written"}
          BY <2>2, <4>1 DEF WrittenSlots
        <5>2. ~(i < next'[d])
          BY <2>1, <2>3, <2>4, <4>1
        <5> QED
          BY <2>1, <4>1, <5>1, <5>2, Zenon
      <4>2. CASE d # c
        <5>1. got'[d] = got[d]
          BY <2>2, <4>2
        <5> QED
          BY <2>1, <5>1, Zenon DEF Settled
      <4> QED
        BY <4>1, <4>2
    <3>2. ASSUME NEW d \in Calls, NEW i \in Slot
          PROVE  i \in valid'[d] <=> i < next'[d] /\ Acceptable(read'[d][i])
      BY <2>1, Zenon DEF Settled
    <3> QED
      BY <3>1, <3>2, Zenon DEF Settled, Acceptable
<1>4. ASSUME NEW c \in Calls, ReadSlot(c) PROVE Settled'
  <2>1. UNCHANGED <<got, phase, ans>>
    BY <1>4 DEF ReadSlot, slots
  <2>2. PICK s \in Reads(c, next[c]) :
            /\ read' = [read EXCEPT ![c][next[c]] = s]
            /\ valid' = [valid EXCEPT ![c] = IF Acceptable(s) THEN @ \cup {next[c]} ELSE @]
    BY <1>4 DEF ReadSlot
  <2>3. next[c] \in Slot
    BY <1>4 DEF ReadSlot
  <2>4. phase[c][next[c]] = "written" => s = ans[c][next[c]]
    BY <2>3, ReadFacts
  <2>5. \A d \in Calls, j \in Slot : read'[d][j] = IF d = c /\ j = next[c] THEN s ELSE read[d][j]
    BY <2>2, <2>3 DEF TypeOK
  <2>6. \A d \in Calls : /\ next'[d] = IF d = c THEN next[c] + 1 ELSE next[d]
                         /\ valid'[d] = IF d = c /\ Acceptable(s) THEN valid[d] \cup {next[c]} ELSE valid[d]
    BY <1>4, <2>2 DEF ReadSlot, TypeOK
  <2>7. \A j \in Slot : /\ j < next[c] + 1 <=> j < next[c] \/ j = next[c]
                        /\ ~(next[c] < next[c])
    BY <2>3, SizeAssumption, SMT DEF SizeAssumption, Slot
  <2>8. ASSUME NEW d \in Calls, NEW i \in Slot
        PROVE  /\ i \in got'[d] => phase'[d][i] = "written"
               /\ i \in got'[d] /\ i < next'[d] => read'[d][i] = ans'[d][i]
               /\ i \in valid'[d] <=> i < next'[d] /\ Acceptable(read'[d][i])
    <3>1. CASE d # c
      <4>1. /\ read'[d][i] = read[d][i] /\ next'[d] = next[d] /\ valid'[d] = valid[d]
            /\ got'[d] = got[d] /\ phase'[d][i] = phase[d][i] /\ ans'[d][i] = ans[d][i]
        BY <2>1, <2>5, <2>6, <3>1
      <4> QED
        BY <4>1, Zenon DEF Settled
    <3>2. CASE d = c /\ i = next[c]
      <4>1. /\ read'[d][i] = s /\ i < next'[d] /\ (i \in valid'[d] <=> Acceptable(s) \/ i \in valid[d])
            /\ got'[d] = got[d] /\ phase'[d][i] = phase[d][i] /\ ans'[d][i] = ans[d][i]
        BY <2>1, <2>5, <2>6, <2>7, <3>2
      <4>2. i \notin valid[d]
        BY <2>7, <3>2, Zenon DEF Settled
      <4>3. i \in got[d] => s = ans[d][i]
        BY <2>4, <3>2 DEF Settled
      <4> QED
        BY <4>1, <4>2, <4>3, Zenon DEF Settled
    <3>3. CASE d = c /\ i # next[c]
      <4>1. /\ read'[d][i] = read[d][i] /\ (i < next'[d] <=> i < next[d])
            /\ (i \in valid'[d] <=> i \in valid[d])
            /\ got'[d] = got[d] /\ phase'[d][i] = phase[d][i] /\ ans'[d][i] = ans[d][i]
        BY <2>1, <2>5, <2>6, <2>7, <3>3
      <4> QED
        BY <4>1, Zenon DEF Settled
    <3> QED
      BY <3>1, <3>2, <3>3
  <2> QED
    BY <2>8, Zenon DEF Settled, Acceptable
<1>5. ASSUME NEW c \in Calls, NEW i \in Slot, Answer(c, i) PROVE Settled'
  <2>1. UNCHANGED <<got, next, read, valid>>
    BY <1>5 DEF Answer, picking
  <2>2. phase[c][i] = "asked" /\ i \notin got[c]
    BY <1>5 DEF Answer, Settled
  <2>3. \A d \in Calls, j \in Slot : (d # c \/ j # i) => phase'[d][j] = phase[d][j] /\ ans'[d][j] = ans[d][j]
    BY <1>5 DEF Answer, TypeOK
  <2> QED
    BY <2>1, <2>2, <2>3 DEF Settled
<1>6. ASSUME NEW c \in Calls, NEW i \in Slot, Written(c, i) PROVE Settled'
  <2>1. UNCHANGED <<got, next, read, ans, valid>>
    BY <1>6 DEF Written, picking
  <2>2. \A d \in Calls, j \in Slot : phase[d][j] = "written" => phase'[d][j] = "written"
    BY <1>6 DEF Written, TypeOK
  <2> QED
    BY <2>1, <2>2 DEF Settled
<1>7. CASE UNCHANGED <<got, phase, next, read, ans, valid>>
  BY <1>7 DEF Settled, Acceptable
<1> QED
  BY Steps, <1>1, <1>2, <1>3, <1>4, <1>5, <1>6, <1>7
     DEF Publish, Sync, UpdateNodes, Begin, GiveUp, Decide, vars, world, callVars, slots, picking

(* Only a call that is done has a result.                                  *)
LEMMA ProgressStep == IInv /\ [Next]_vars => Progress'
<1> SUFFICES ASSUME IInv, [Next]_vars PROVE Progress'
  OBVIOUS
<1>0. TypeOK /\ History /\ Answers /\ Readings /\ Settled /\ Progress
  BY DEF IInv
<1> USE <1>0
<1>1. ASSUME NEW c \in Calls, Begin(c) PROVE Progress'
  <2>1. UNCHANGED <<next, ans, read, result, valid>>
    BY <1>1 DEF Begin, slots, picking
  <2>2. pc[c] = "idle" /\ result[c] = 0
    BY <1>1 DEF Begin, Progress
  <2>3. \A d \in Calls : pc'[d] = IF d = c THEN (IF nodes = {} THEN "done" ELSE "ask") ELSE pc[d]
    BY <1>1 DEF Begin, TypeOK
  <2> QED
    BY <2>1, <2>2, <2>3 DEF Progress
<1>2. ASSUME NEW c \in Calls, Return(c) PROVE Progress'
  <2>1. \A d \in Calls \ {c} : /\ pc'[d] = pc[d] /\ next'[d] = next[d] /\ ans'[d] = ans[d] /\ read'[d] = read[d]
                                /\ result'[d] = result[d] /\ valid'[d] = valid[d]
    BY <1>2 DEF Return, TypeOK
  <2>2. pc'[c] = "idle" /\ result'[c] = 0 /\ \A i \in Slot : ans'[c][i].ver = 0 /\ read'[c][i].ver = 0
    BY <1>2, SlotFacts DEF Return, TypeOK, NoSlots
  <2> QED
    BY <2>1, <2>2 DEF Progress
<1>3. ASSUME NEW c \in Calls, AskSet(c) PROVE Progress'
  <2>1. \A d \in Calls \ {c} : /\ pc'[d] = pc[d] /\ next'[d] = next[d] /\ ans'[d] = ans[d] /\ read'[d] = read[d]
                                /\ result'[d] = result[d] /\ valid'[d] = valid[d]
    BY <1>3 DEF AskSet, TypeOK
  <2>2. pc'[c] = "wait" /\ next'[c] = 1 /\ result'[c] = 0
    BY <1>3 DEF AskSet, TypeOK, Progress
  <2> QED
    BY <2>1, <2>2 DEF Progress
<1>4. ASSUME NEW c \in Calls, GiveUp(c) PROVE Progress'
  <2>1. UNCHANGED <<next, ans, read, result, valid>>
    BY <1>4 DEF GiveUp, slots, picking
  <2>2. result[c] = 0 /\ \A d \in Calls : pc'[d] = IF d = c THEN "done" ELSE pc[d]
    BY <1>4 DEF GiveUp, TypeOK, Progress
  <2> QED
    BY <2>1, <2>2 DEF Progress
<1>5. ASSUME NEW c \in Calls, EndWait(c) PROVE Progress'
  <2>1. UNCHANGED <<next, ans, read, result, valid>>
    BY <1>5 DEF EndWait, slots
  <2>2. result[c] = 0 /\ \A d \in Calls : pc'[d] = IF d = c THEN "pick" ELSE pc[d]
    BY <1>5 DEF EndWait, TypeOK, Progress
  <2> QED
    BY <2>1, <2>2 DEF Progress
<1>6. ASSUME NEW c \in Calls, ReadSlot(c) PROVE Progress'
  <2>1. UNCHANGED <<pc, ans, result>> /\ pc[c] = "pick" /\ result[c] = 0
    BY <1>6 DEF ReadSlot, slots, Progress
  <2>2. \A d \in Calls \ {c} : next'[d] = next[d] /\ read'[d] = read[d] /\ valid'[d] = valid[d]
    BY <1>6 DEF ReadSlot, TypeOK
  <2> QED
    BY <2>1, <2>2 DEF Progress
<1>7. ASSUME NEW c \in Calls, Decide(c) PROVE Progress'
  <2>1. UNCHANGED <<next, ans, read, valid>> /\ pc[c] = "pick" /\ next[c] = SetSize + 1
    BY <1>7 DEF Decide, slots, picking
  <2>2. \A d \in Calls \ {c} : pc'[d] = pc[d] /\ result'[d] = result[d]
    BY <1>7 DEF Decide, TypeOK
  <2>3. result'[c] = Pick(read[c], valid[c]) /\ pc'[c] = IF Pick(read[c], valid[c]) # 0 THEN "done" ELSE "ask"
    BY <1>7 DEF Decide, TypeOK
  <2> QED
    BY <2>1, <2>2, <2>3, DecideFacts DEF Progress
<1>8. ASSUME NEW c \in Calls, NEW i \in Slot, Answer(c, i) PROVE Progress'
  <2>1. UNCHANGED <<pc, next, read, result, valid>> /\ pc[c] # "idle"
    BY <1>8 DEF Answer, Awaited, picking
  <2>2. \A d \in Calls \ {c} : ans'[d] = ans[d]
    BY <1>8 DEF Answer, TypeOK
  <2> QED
    BY <2>1, <2>2 DEF Progress
<1>9. CASE UNCHANGED <<pc, next, ans, read, result, valid>>
  BY <1>9 DEF Progress, Acceptable
<1> QED
  BY Steps, <1>1, <1>2, <1>3, <1>4, <1>5, <1>6, <1>7, <1>8, <1>9
     DEF Publish, Sync, UpdateNodes, Written, vars, world, callVars, slots, picking

(* The inductive invariant holds in every state.                           *)
THEOREM Invariant == Spec => []IInv
<1>1. IInv /\ [Next]_vars => IInv'
  BY TypeStep, HistoryStep, AnswersStep, ReadingsStep, SettledStep, ProgressStep DEF IInv
<1> QED
  BY <1>1, InitIInv, PTL DEF Spec

-----------------------------------------------------------------------------
(* Every variable stays in its type, whatever the size of the network.     *)
THEOREM TypeCorrect == Spec => []TypeOK
<1>1. IInv => TypeOK
  BY DEF IInv
<1> QED
  BY <1>1, Invariant, PTL

(* What a call returns was served to it (Resolve): by a node of the set,   *)
(* at a moment of the call, and not a removal the node could report.       *)
THEOREM RegularHolds == Spec => []Regular
<1>1. IInv => Regular
  <2> SUFFICES ASSUME IInv, NEW c \in Calls, Returned(c)
               PROVE  LET n == who[c][result[c]]  v == ResultOf(c).ver IN
                      /\ v \in 1..Len(record) /\ since[c][n] <= v /\ v <= has[n]
                      /\ n \in Legacy \/ record[v].found
    BY DEF Regular
  <2> DEFINE i == result[c]
             v == read[c][i].ver
             n == who[c][i]
  <2>1. i \in valid[c] /\ read[c][i].found
    BY DEF IInv, Progress, Returned
  <2>2. i \in Slot /\ v # 0
    BY <2>1 DEF IInv, TypeOK, Settled, Acceptable
  <2>3. /\ n \in Nodes /\ since[c][n] <= v /\ v <= has[n]
        /\ n \in Legacy \/ record[v].found
    BY <2>1, <2>2 DEF IInv, Readings
  <2>4. v \in 1..Len(record)
    <3>1. v \in Versions /\ has[n] \in Versions /\ Len(record) \in Nat /\ has[n] <= Len(record)
      BY <2>2, <2>3, LenProperties DEF IInv, TypeOK, History, Slots
    <3> HIDE DEF v, n
    <3> QED
      BY <2>2, <2>3, <3>1, SizeAssumption, SMT DEF SizeAssumption, Versions
  <2> QED
    BY <2>3, <2>4 DEF ResultOf
<1> QED
  BY <1>1, Invariant, PTL

(* No answer that was in time and verified is newer than the one returned  *)
(* (pickBestResult, through torn reads and late writes).                   *)
THEOREM FreshestInTimeHolds == Spec => []FreshestInTime
<1>1. IInv => FreshestInTime
  <2> SUFFICES ASSUME IInv, NEW c \in Calls, Returned(c), NEW i \in got[c],
                      ans[c][i].ver # 0, ans[c][i].ev, ans[c][i].ok
               PROVE  ans[c][i].ver <= CreatedAt(ResultOf(c))
    BY DEF FreshestInTime
  <2>1. i \in Slot /\ i < next[c]
    <3>1. i \in Slot /\ next[c] = SetSize + 1
      BY DEF IInv, TypeOK, Progress, Returned
    <3> QED
      BY <3>1, SizeAssumption, SMT DEF SizeAssumption, Slot
  <2>2. read[c][i] = ans[c][i] /\ i \in valid[c]
    BY <2>1 DEF IInv, Settled, Acceptable
  <2>3. CreatedAt(read[c][i]) <= CreatedAt(ResultOf(c))
    BY <2>2 DEF IInv, Progress, Returned, ResultOf
  <2> QED
    BY <2>2, <2>3 DEF CreatedAt
<1> QED
  BY <1>1, Invariant, PTL

-----------------------------------------------------------------------------
(* The refinement: the state of a call as its callers see it (NameLookup). *)
StatusOf(c) == CASE pc[c] \in {"idle", "done"} -> pc[c] [] OTHER -> "busy"
AnswerOf(c) == IF Returned(c) THEN ResultOf(c).ver ELSE 0

(* The beginning is a beginning.                                           *)
LEMMA InitMaps == Init => Lookup!Init
BY DEF Init, Lookup!Init, Returned

(* The version Decide returns was served during the call. *)
LEMMA DecideServes ==
    ASSUME IInv, NEW c \in Calls, pc[c] = "pick", Pick(read[c], valid[c]) # 0
    PROVE  \E n \in Nodes, v \in 1..Len(record) :
               Lookup!Served(c, n, v) /\ v = read[c][Pick(read[c], valid[c])].ver
<1> DEFINE i == Pick(read[c], valid[c])
           v == read[c][i].ver
           n == who[c][i]
<1>1. i \in valid[c] /\ read[c][i].found
  BY DecideFacts DEF IInv
<1> HIDE DEF i
<1>2. i \in Slot /\ v # 0
  BY <1>1 DEF IInv, TypeOK, Settled, Acceptable
<1>3. /\ n \in Nodes /\ since[c][n] <= v /\ v <= has[n]
      /\ n \in Legacy \/ record[v].found
  BY <1>1, <1>2 DEF IInv, Readings
<1>4. v \in 1..Len(record) /\ v >= 1
  <2>1. v \in Versions /\ has[n] \in Versions /\ Len(record) \in Nat /\ has[n] <= Len(record)
    BY <1>2, <1>3, LenProperties DEF IInv, TypeOK, History, Slots
  <2> HIDE DEF v, n
  <2> QED
    BY <1>2, <1>3, <2>1, SizeAssumption, SMT DEF SizeAssumption, Versions
<1>5. Lookup!Served(c, n, v)
  BY <1>3, <1>4 DEF Lookup!Served
<1> QED
  BY <1>3, <1>4, <1>5 DEF i

(* Steps that the callers do not see. *)
LEMMA Unseen ==
    ASSUME TypeOK, UNCHANGED <<record, has, since>>,
           \A c \in Calls : StatusOf(c)' = StatusOf(c) /\ AnswerOf(c)' = AnswerOf(c)
    PROVE  UNCHANGED Lookup!vars
BY DEF Lookup!vars, StatusOf, AnswerOf

(* Every step of the resolver is one that its callers are promised, or one *)
(* they do not see.                                                        *)
LEMMA StepMaps == IInv /\ [Next]_vars => [Lookup!Next]_(Lookup!vars)
<1> SUFFICES ASSUME IInv, [Next]_vars PROVE [Lookup!Next]_(Lookup!vars)
  OBVIOUS
<1>0. TypeOK /\ Progress
  BY DEF IInv
<1> USE <1>0
<1>1. CASE UNCHANGED vars
  <2>1. UNCHANGED <<record, has, since>>
    BY <1>1 DEF vars, world, callVars
  <2>2. \A d \in Calls : StatusOf(d)' = StatusOf(d) /\ AnswerOf(d)' = AnswerOf(d)
    BY <1>1 DEF vars, callVars, picking, StatusOf, AnswerOf, Returned, ResultOf
  <2> QED
    BY <2>1, <2>2, Unseen
<1>2. ASSUME NEW k \in Keys, NEW f \in BOOLEAN, Publish(k, f) PROVE [Lookup!Next]_(Lookup!vars)
  <2>1. Lookup!Publish(k, f)
    BY <1>2 DEF Publish, callVars, picking, Lookup!Publish, Returned, ResultOf
  <2> QED
    BY <2>1 DEF Lookup!Next
<1>3. ASSUME NEW n \in Nodes, Sync(n) PROVE [Lookup!Next]_(Lookup!vars)
  <2>1. Lookup!Sync(n)
    BY <1>3 DEF Sync, callVars, picking, Lookup!Sync, Returned, ResultOf
  <2> QED
    BY <2>1 DEF Lookup!Next
<1>4. ASSUME NEW L \in NodeLists, UpdateNodes(L) PROVE [Lookup!Next]_(Lookup!vars)
  <2>1. UNCHANGED <<record, has, since>>
    BY <1>4 DEF UpdateNodes, world, callVars, picking
  <2>2. \A d \in Calls : StatusOf(d)' = StatusOf(d) /\ AnswerOf(d)' = AnswerOf(d)
    BY <1>4 DEF UpdateNodes, world, callVars, picking, StatusOf, AnswerOf, Returned, ResultOf
  <2> QED
    BY <2>1, <2>2, Unseen
<1>5. ASSUME NEW c \in Calls, Begin(c) PROVE [Lookup!Next]_(Lookup!vars)
  <2>1. /\ UNCHANGED <<record, has>> /\ since' = [since EXCEPT ![c] = has]
        /\ StatusOf(c) = "idle" /\ StatusOf(c)' = IF nodes = {} THEN "done" ELSE "busy"
    BY <1>5 DEF Begin, world, TypeOK, StatusOf
  <2>2. \A d \in Calls : /\ d # c => StatusOf(d)' = StatusOf(d)
                         /\ AnswerOf(d)' = AnswerOf(d)
    BY <1>5 DEF Begin, picking, TypeOK, Progress, StatusOf, AnswerOf, Returned, ResultOf
  <2>3. Lookup!Call(c) \/ Lookup!FailAtOnce(c)
    BY <2>1, <2>2 DEF Lookup!Call, Lookup!FailAtOnce, StatusOf, AnswerOf
  <2> QED
    BY <2>3 DEF Lookup!Next
<1>6. ASSUME NEW c \in Calls, Return(c) PROVE [Lookup!Next]_(Lookup!vars)
  <2>1. /\ UNCHANGED <<record, has>> /\ since' = [since EXCEPT ![c] = [n \in Nodes |-> 0]]
        /\ StatusOf(c) = "done" /\ StatusOf(c)' = "idle" /\ AnswerOf(c)' = 0
    BY <1>6 DEF Return, world, TypeOK, StatusOf, AnswerOf, Returned
  <2>2. \A d \in Calls \ {c} : StatusOf(d)' = StatusOf(d) /\ AnswerOf(d)' = AnswerOf(d)
    BY <1>6 DEF Return, TypeOK, StatusOf, AnswerOf, Returned, ResultOf
  <2>3. Lookup!Return(c)
    BY <2>1, <2>2 DEF Lookup!Return, StatusOf, AnswerOf
  <2> QED
    BY <2>3 DEF Lookup!Next
<1>7. ASSUME NEW c \in Calls, AskSet(c) PROVE [Lookup!Next]_(Lookup!vars)
  <2>1. UNCHANGED <<record, has, since>>
    BY <1>7 DEF AskSet, world
  <2>2. \A d \in Calls : StatusOf(d)' = StatusOf(d) /\ AnswerOf(d)' = AnswerOf(d)
    BY <1>7 DEF AskSet, world, TypeOK, Progress, StatusOf, AnswerOf, Returned, ResultOf
  <2> QED
    BY <2>1, <2>2, Unseen
<1>8. ASSUME NEW c \in Calls, GiveUp(c) PROVE [Lookup!Next]_(Lookup!vars)
  <2>1. UNCHANGED <<record, has, since>> /\ StatusOf(c) = "busy" /\ StatusOf(c)' = "done"
    BY <1>8 DEF GiveUp, world, TypeOK, StatusOf
  <2>2. \A d \in Calls : /\ d # c => StatusOf(d)' = StatusOf(d)
                         /\ AnswerOf(d)' = AnswerOf(d)
    BY <1>8 DEF GiveUp, picking, TypeOK, Progress, StatusOf, AnswerOf, Returned, ResultOf
  <2>3. Lookup!Fail(c)
    BY <2>1, <2>2 DEF Lookup!Fail, StatusOf, AnswerOf
  <2> QED
    BY <2>3 DEF Lookup!Next
<1>9. ASSUME NEW c \in Calls, EndWait(c) PROVE [Lookup!Next]_(Lookup!vars)
  <2>1. UNCHANGED <<record, has, since>>
    BY <1>9 DEF EndWait, world
  <2>2. \A d \in Calls : StatusOf(d)' = StatusOf(d) /\ AnswerOf(d)' = AnswerOf(d)
    BY <1>9 DEF EndWait, world, TypeOK, Progress, StatusOf, AnswerOf, Returned, ResultOf
  <2> QED
    BY <2>1, <2>2, Unseen
<1>10. ASSUME NEW c \in Calls, ReadSlot(c) PROVE [Lookup!Next]_(Lookup!vars)
  <2>1. UNCHANGED <<record, has, since>>
    BY <1>10 DEF ReadSlot, world
  <2>2. \A d \in Calls : StatusOf(d)' = StatusOf(d) /\ AnswerOf(d)' = AnswerOf(d)
    BY <1>10 DEF ReadSlot, world, TypeOK, Progress, StatusOf, AnswerOf, Returned, ResultOf
  <2> QED
    BY <2>1, <2>2, Unseen
<1>11. ASSUME NEW c \in Calls, Decide(c) PROVE [Lookup!Next]_(Lookup!vars)
  <2> DEFINE b == Pick(read[c], valid[c])
  <2>1. UNCHANGED <<record, has, since, read>> /\ pc[c] = "pick" /\ result[c] = 0
    BY <1>11 DEF Decide, world, picking, Progress
  <2>2. /\ \A d \in Calls \ {c} : pc'[d] = pc[d] /\ result'[d] = result[d]
        /\ result'[c] = b /\ pc'[c] = IF b # 0 THEN "done" ELSE "ask"
    BY <1>11 DEF Decide, TypeOK
  <2>3. \A d \in Calls \ {c} : StatusOf(d)' = StatusOf(d) /\ AnswerOf(d)' = AnswerOf(d)
    BY <2>1, <2>2 DEF StatusOf, AnswerOf, Returned, ResultOf
  <2>4. CASE b = 0
    <3>1. StatusOf(c)' = StatusOf(c) /\ AnswerOf(c)' = AnswerOf(c)
      BY <2>1, <2>2, <2>4 DEF StatusOf, AnswerOf, Returned
    <3> QED
      BY <2>1, <2>3, <3>1, Unseen
  <2>5. CASE b # 0
    <3>1. StatusOf(c) = "busy" /\ StatusOf(c)' = "done" /\ AnswerOf(c)' = read[c][b].ver
      BY <2>1, <2>2, <2>5 DEF StatusOf, AnswerOf, Returned, ResultOf
    <3>2. PICK n \in Nodes, v \in 1..Len(record) : Lookup!Served(c, n, v) /\ v = read[c][b].ver
      BY <2>1, <2>5, DecideServes
    <3> HIDE DEF b
    <3>3. Lookup!Succeed(c)
      BY <2>1, <2>3, <3>1, <3>2 DEF Lookup!Succeed, StatusOf, AnswerOf
    <3> QED
      BY <3>3 DEF Lookup!Next
  <2> QED
    BY <2>4, <2>5
<1>12. ASSUME NEW c \in Calls, NEW i \in Slot, Answer(c, i) PROVE [Lookup!Next]_(Lookup!vars)
  <2>1. UNCHANGED <<record, has, since>>
    BY <1>12 DEF Answer, world, picking
  <2>2. \A d \in Calls : StatusOf(d)' = StatusOf(d) /\ AnswerOf(d)' = AnswerOf(d)
    BY <1>12 DEF Answer, world, picking, StatusOf, AnswerOf, Returned, ResultOf
  <2> QED
    BY <2>1, <2>2, Unseen
<1>13. ASSUME NEW c \in Calls, NEW i \in Slot, Written(c, i) PROVE [Lookup!Next]_(Lookup!vars)
  <2>1. UNCHANGED <<record, has, since>>
    BY <1>13 DEF Written, world, picking
  <2>2. \A d \in Calls : StatusOf(d)' = StatusOf(d) /\ AnswerOf(d)' = AnswerOf(d)
    BY <1>13 DEF Written, world, picking, StatusOf, AnswerOf, Returned, ResultOf
  <2> QED
    BY <2>1, <2>2, Unseen
<1> QED
  BY Steps, <1>1, <1>2, <1>3, <1>4, <1>5, <1>6, <1>7, <1>8, <1>9, <1>10, <1>11, <1>12, <1>13

(* The resolver implements what its callers are promised: its behaviours,  *)
(* seen as calls that are idle, busy or done with an answer, are NameLookup's. *)
THEOREM Refinement == Spec => ImplementsLookup
BY InitMaps, StepMaps, Invariant, PTL DEF Spec, ImplementsLookup, Lookup!Spec

-----------------------------------------------------------------------------
(* Where every node names the owner, so does every slot that was filled.   *)
Named ==
    \A c \in Calls, i \in Slot :
        /\ ans[c][i].ver # 0 => ans[c][i].key # NoKey
        /\ read[c][i].ver # 0 => read[c][i].key # NoKey

(* A result comes of accepted answers that passed the consistency check.   *)
Checked == \A c \in Calls : result[c] # 0 => Consistent(read[c], valid[c])

KInv == IInv /\ Named /\ Checked

LEMMA KInvInit == Init => KInv
<1> SUFFICES ASSUME Init PROVE Named /\ Checked
  BY InitIInv DEF KInv
<1> QED
  BY SlotFacts DEF Init, NoSlots, Named, Checked

LEMMA NamedStep ==
    ASSUME Keyless = {}
    PROVE  KInv /\ [Next]_vars => Named'
<1> SUFFICES ASSUME IInv, Named, [Next]_vars PROVE Named'
  BY DEF KInv
<1>0. TypeOK /\ Answers /\ History
  BY DEF IInv
<1> USE <1>0
<1>1. ASSUME NEW c \in Calls, Return(c) \/ AskSet(c) PROVE Named'
  <2>1. ans' = [ans EXCEPT ![c] = NoSlots] /\ read' = [read EXCEPT ![c] = NoSlots]
    BY <1>1 DEF Return, AskSet
  <2>2. \A d \in Calls, i \in Slot :
           /\ ans'[d][i] = IF d = c THEN Unwritten ELSE ans[d][i]
           /\ read'[d][i] = IF d = c THEN Unwritten ELSE read[d][i]
    BY <2>1 DEF TypeOK, NoSlots
  <2> QED
    BY <2>2, SlotFacts DEF Named
<1>2. ASSUME NEW c \in Calls, ReadSlot(c) PROVE Named'
  <2>1. PICK s \in Reads(c, next[c]) : read' = [read EXCEPT ![c][next[c]] = s]
    BY <1>2 DEF ReadSlot
  <2>2. next[c] \in Slot /\ UNCHANGED ans
    BY <1>2 DEF ReadSlot, slots
  <2>3. s.ver # 0 => ans[c][next[c]].ver # 0 /\ s.key = ans[c][next[c]].key
    BY <2>2, SlotFacts DEF Reads, Torn
  <2>4. \A d \in Calls, i \in Slot :
           read'[d][i] = IF d = c /\ i = next[c] THEN s ELSE read[d][i]
    BY <2>1, <2>2 DEF TypeOK
  <2> QED
    BY <2>2, <2>3, <2>4 DEF Named
<1>3. ASSUME NEW c \in Calls, NEW i \in Slot, Answer(c, i) PROVE Named'
  <2>1. PICK a \in {NodeAnswer(who[c][i]), Unwritten} : ans' = [ans EXCEPT ![c][i] = a]
    BY <1>3 DEF Answer
  <2>2. who[c][i] \in Nodes /\ UNCHANGED read
    BY <1>3 DEF Answer, Answers, picking
  <2>3. a.ver # 0 => a.key # NoKey
    <3> SUFFICES ASSUME a.ver # 0 PROVE a.key # NoKey
      OBVIOUS
    <3>1. a = NodeAnswer(who[c][i]) /\ has[who[c][i]] # 0
      BY <2>1, SlotFacts DEF NodeAnswer
    <3>2. has[who[c][i]] \in 1..Len(record)
      <4>1. /\ has[who[c][i]] \in Versions /\ Len(record) \in Nat
            /\ has[who[c][i]] <= Len(record)
        BY <2>2, LenProperties DEF TypeOK, History
      <4> QED
        BY <3>1, <4>1, SizeAssumption, SMT DEF SizeAssumption, Versions
    <3>3. record[has[who[c][i]]] \in [key : Keys, found : BOOLEAN]
      BY <3>2, ElementOfSeq DEF TypeOK
    <3>4. a.key = record[has[who[c][i]]].key
      BY <3>1 DEF NodeAnswer
    <3> QED
      BY <3>3, <3>4, NodesAssumption DEF NodesAssumption
  <2>4. \A d \in Calls, j \in Slot :
           ans'[d][j] = IF d = c /\ j = i THEN a ELSE ans[d][j]
    BY <2>1 DEF TypeOK
  <2> QED
    BY <2>2, <2>3, <2>4 DEF Named
<1>4. CASE UNCHANGED <<ans, read>>
  BY <1>4 DEF Named
<1> QED
  BY Steps, <1>1, <1>2, <1>3, <1>4
     DEF Publish, Sync, UpdateNodes, Begin, GiveUp, EndWait, Decide, Written,
         vars, world, callVars, slots, picking

LEMMA CheckedStep == KInv /\ [Next]_vars => Checked'
<1> SUFFICES ASSUME IInv, Checked, [Next]_vars PROVE Checked'
  BY DEF KInv
<1>0. TypeOK /\ Progress
  BY DEF IInv
<1> USE <1>0
<1>1. ASSUME NEW c \in Calls, Return(c) PROVE Checked'
  BY <1>1 DEF Return, TypeOK, Checked
<1>2. ASSUME NEW c \in Calls, AskSet(c) \/ ReadSlot(c) PROVE Checked'
  <2>1. UNCHANGED result /\ result[c] = 0
    BY <1>2 DEF AskSet, ReadSlot, Progress
  <2>2. \A d \in Calls \ {c} : read'[d] = read[d] /\ valid'[d] = valid[d]
    BY <1>2 DEF AskSet, ReadSlot, TypeOK
  <2> QED
    BY <2>1, <2>2 DEF Checked
<1>3. ASSUME NEW c \in Calls, Decide(c) PROVE Checked'
  <2>1. UNCHANGED <<read, valid>> /\ result' = [result EXCEPT ![c] = Pick(read[c], valid[c])]
    BY <1>3 DEF Decide, picking
  <2>2. Pick(read[c], valid[c]) # 0 => Consistent(read[c], valid[c])
    BY DEF Pick
  <2> QED
    BY <2>1, <2>2 DEF TypeOK, Checked
<1>4. CASE UNCHANGED <<read, valid, result>>
  BY <1>4 DEF Checked
<1> QED
  BY Steps, <1>1, <1>2, <1>3, <1>4
     DEF Publish, Sync, UpdateNodes, Begin, GiveUp, EndWait, Answer, Written,
         vars, world, callVars, slots, picking

(* The reference of the consistency check is one of the answers.           *)
LEMMA FirstFacts ==
    ASSUME NEW V \in SUBSET Slot, V # {}
    PROVE  First(V) \in V
<1>1. V \subseteq Nat
  BY SizeAssumption, SMT DEF SizeAssumption, Slot
<1>2. \E i \in V : \A j \in V : i <= j
  BY <1>1, LeastNat
<1> QED
  BY <1>2 DEF First

(* "all valid responses should have the same pubkey": where every node     *)
(* names the owner, the accepted answers of the set a result comes from    *)
(* all name one, though only the first is compared with the others.  An    *)
(* empty key makes the check pass, which is why the assumption is there.   *)
THEOREM KeysAgreeHolds ==
    ASSUME Keyless = {}
    PROVE  Spec => []KeysAgree
<1>1. KInv /\ [Next]_vars => KInv'
  <2>1. IInv /\ [Next]_vars => IInv'
    BY TypeStep, HistoryStep, AnswersStep, ReadingsStep, SettledStep, ProgressStep DEF IInv
  <2> QED
    BY <2>1, NamedStep, CheckedStep DEF KInv
<1>2. KInv => KeysAgree
  <2> SUFFICES ASSUME KInv, NEW c \in Calls, Returned(c), NEW i \in valid[c], NEW j \in valid[c]
               PROVE  read[c][i].key = read[c][j].key
    BY DEF KeysAgree
  <2>1. valid[c] \in SUBSET Slot /\ valid[c] # {}
    BY DEF KInv, IInv, TypeOK
  <2>2. First(valid[c]) \in valid[c]
    BY <2>1, FirstFacts
  <2>3. \A k \in valid[c] : read[c][k].key # NoKey
    BY <2>1 DEF KInv, IInv, Settled, Acceptable, Named
  <2>4. Consistent(read[c], valid[c])
    BY DEF KInv, Checked, Returned
  <2> QED
    BY <2>2, <2>3, <2>4 DEF Consistent
<1> QED
  BY KInvInit, <1>1, <1>2, PTL DEF Spec

-----------------------------------------------------------------------------
(* Where all nodes of a set were in time, the slots accepted are those     *)
(* whose answers are acceptable, and they were read as they are.           *)
LEMMA AllInTime ==
    ASSUME IInv, NEW c \in Calls, next[c] = SetSize + 1,
           got[c] = {i \in Slot : who[c][i] # NoNode}
    PROVE  /\ valid[c] = {i \in Slot : Acceptable(ans[c][i])}
           /\ \A i \in valid[c] : read[c][i] = ans[c][i]
<1>1. \A i \in Slot : i < next[c]
  BY SizeAssumption, SMT DEF SizeAssumption, Slot
<1>2. \A i \in Slot : i \in got[c] => read[c][i] = ans[c][i]
  BY <1>1 DEF IInv, Settled
<1>3. \A i \in Slot : i \notin got[c] => ans[c][i].ver = 0 /\ read[c][i].ver = 0
  BY NodesAssumption DEF NodesAssumption, IInv, Answers, Readings
<1>4. \A i \in Slot : i \in valid[c] <=> Acceptable(read[c][i])
  BY <1>1 DEF IInv, Settled
<1>5. \A i \in Slot : i \in valid[c] <=> Acceptable(ans[c][i])
  BY <1>2, <1>3, <1>4 DEF Acceptable
<1>6. valid[c] \subseteq Slot
  BY DEF IInv, TypeOK
<1> QED
  BY <1>2, <1>3, <1>4, <1>5, <1>6 DEF Acceptable

(* A set whose nodes all answered in time is given up only for what they   *)
(* answered (pickBestResult returning nil, and the retry of Resolve).      *)
THEOREM RefusalHasReasonHolds == Spec => RefusalHasReason
<1> DEFINE Refused(c) == pc[c] = "pick" /\ pc'[c] = "ask"
                         /\ got[c] = {i \in Slot : who[c][i] # NoNode}
<1>1. IInv /\ [Next]_vars => [\A c \in Calls : Refused(c) => HasReason(c)]_vars
  <2> SUFFICES ASSUME IInv, [Next]_vars, NEW c \in Calls, Refused(c)
               PROVE  HasReason(c)
    OBVIOUS
  <2>0. TypeOK
    BY DEF IInv
  <2>1. Decide(c)
    <3>1. \A d \in Calls : \/ Begin(d) \/ Return(d) \/ AskSet(d) \/ GiveUp(d) \/ EndWait(d)
             => ~Refused(c)
      BY <2>0 DEF Begin, Return, AskSet, GiveUp, EndWait, TypeOK
    <3>2. \A d \in Calls : Decide(d) => d = c
      BY <2>0 DEF Decide, TypeOK
    <3>3. /\ \A k \in Keys, f \in BOOLEAN : Publish(k, f) => UNCHANGED pc
          /\ \A n \in Nodes : Sync(n) => UNCHANGED pc
          /\ \A L \in NodeLists : UpdateNodes(L) => UNCHANGED pc
      BY DEF Publish, Sync, UpdateNodes, callVars
    <3>4. \A d \in Calls : ReadSlot(d) \/ (\E i \in Slot : Answer(d, i) \/ Written(d, i)) => UNCHANGED pc
      BY DEF ReadSlot, Answer, Written, callVars
    <3>5. UNCHANGED vars => UNCHANGED pc
      BY DEF vars, callVars
    <3>6. ~UNCHANGED pc
      OBVIOUS
    <3> QED
      BY Steps, <3>1, <3>2, <3>3, <3>4, <3>5, <3>6
  <2> DEFINE s == read[c]
             V == valid[c]
  <2>2. Pick(s, V) = 0 /\ next[c] = SetSize + 1
    BY <2>0, <2>1 DEF Decide, TypeOK
  <2>3. /\ V = {i \in Slot : Acceptable(ans[c][i])}
        /\ \A i \in V : s[i] = ans[c][i]
    BY <2>2, AllInTime
  <2>4. /\ V \in SUBSET (1..SetSize) /\ SetSize \in Nat /\ MaxVersion \in Nat
        /\ \A i \in V : CreatedAt(s[i]) \in 0..MaxVersion
    BY <2>0, SizeAssumption, SlotFacts DEF SizeAssumption, TypeOK, Slot
  <2> HIDE DEF s, V
  <2>5. CASE V = {}
    BY <2>3, <2>5 DEF HasReason
  <2>6. CASE V # {} /\ ~Consistent(s, V)
    <3>1. First(V) \in V
      BY <2>4, <2>6, FirstFacts DEF Slot
    <3>2. PICK i \in V : s[i].key # NoKey /\ s[First(V)].key # NoKey /\ s[i].key # s[First(V)].key
      BY <2>6 DEF Consistent
    <3>3. /\ ans[c][i].key # ans[c][First(V)].key
          /\ NoKey \notin {ans[c][i].key, ans[c][First(V)].key}
      BY <2>3, <3>1, <3>2
    <3> QED
      BY <2>3, <3>1, <3>3, Zenon DEF HasReason
  <2>7. CASE V # {} /\ Consistent(s, V)
    <3>1. Newest(s, V) \in V /\ Newest(s, V) # 0
      <4>1. Newest(s, V) \in V
        BY <2>4, <2>7, NewestFacts
      <4> QED
        BY <2>4, <4>1
    <3>2. ~s[Newest(s, V)].found
      BY <2>2, <2>7, <3>1 DEF Pick
    <3> QED
      BY <2>3, <3>1, <3>2 DEF HasReason
  <2> QED
    BY <2>5, <2>6, <2>7
<1> QED
  BY <1>1, Invariant, PTL DEF Spec, RefusalHasReason
=============================================================================
