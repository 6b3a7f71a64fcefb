-------------------------- MODULE LifecycleProofs --------------------------
(***************************************************************************)
(* What the rules of the kernel are at any moment in the life of any       *)
(* number of daemons: for any users, bounds, crashes and connections.      *)
(***************************************************************************)
EXTENDS Lifecycle, DataLemmas

(* A connection that is accepted and not counted yet will fit.             *)
Fits == \A p \in Procs : accepted[p] => open[p] < MaxConns

IType == TypeOK /\ Fits

(* What main knows of the goroutine of Capture.Start: it runs from the     *)
(* boot on, and rules are deleted only when it said that it had added      *)
(* them.  If commands work there is nothing to undo; if no signal comes    *)
(* early, a stop finds the goroutine done and the rules marked.            *)
Order == \A p \in Procs :
    /\ main[p] \in {"down", "boot"} => cap[p] = "off"
    /\ main[p] \notin {"down", "boot"} => cap[p] # "off"
    /\ iptablesSet[p] => cap[p] \in {"serve", "on"}
    /\ main[p] \in {"delredirect", "delreturn"} => iptablesSet[p]
    /\ ~CommandsFail => cap[p] \notin {"undo", "failed"}
    /\ ~CommandsFail /\ ~EarlySignals =>
          /\ main[p] \in Stopping => cap[p] = "on"
          /\ cap[p] \in {"serve", "on"} /\ main[p] # "exit" => iptablesSet[p]

(* The processes whose redirection is in the chain and is still to be      *)
(* deleted by them; those about to delete their other rule; those that     *)
(* have added only that one.                                               *)
Holders  == {p \in Procs : cap[p] \in {"set", "serve", "on"} /\ main[p] \notin {"delreturn", "exit"}}
Leaving  == {p \in Procs : main[p] = "delreturn"}
Entering == {p \in Procs : cap[p] = "redirect"}

Rules(rule, n) == CountTo(chain, rule, n)

(* Every one of these redirections is there.                               *)
Counted == Cardinality(Holders) <= Rules(Redirect, Len(chain))

(* Where all run as user u: before every redirection there are as many     *)
(* rules that exempt u as there are redirections, and one more for each    *)
(* process that is about to delete one.                                    *)
Balanced(u) ==
    /\ \A i \in 1..Len(chain) : chain[i] = Redirect
          => Rules(Redirect, i) + Cardinality(Leaving) <= Rules(u, i)
    /\ Rules(Redirect, Len(chain)) + Cardinality(Leaving) + Cardinality(Entering)
          <= Rules(u, Len(chain))

OneUser(u) == \A p \in Procs : User[p] = u
-----------------------------------------------------------------------------
(* iptables -D: nothing, or one entry less, the first that is that rule.   *)
LEMMA DeleteFacts ==
    ASSUME NEW S, chain \in Seq(S), NEW rule, Delete(rule)
    PROVE  \/ /\ \A i \in 1..Len(chain) : chain[i] # rule
              /\ UNCHANGED chain
           \/ \E k \in 1..Len(chain) :
                 /\ chain[k] = rule /\ \A j \in 1..(k - 1) : chain[j] # rule
                 /\ chain' \in Seq(S) /\ Len(chain') = Len(chain) - 1
                 /\ \A i \in 1..Len(chain') :
                       chain'[i] = IF i < k THEN chain[i] ELSE chain[i + 1]
<1> DEFINE at == {i \in 1..Len(chain) : chain[i] = rule}
<1>1. CASE at = {}
  BY <1>1 DEF Delete
<1>2. CASE at # {}
  <2>1. \E i \in at : \A j \in at : i <= j
    <3>1. at \subseteq Nat
      OBVIOUS
    <3> QED
      BY <1>2, <3>1, LeastNat
  <2>2. PICK k \in at : /\ \A j \in at : k <= j
                        /\ chain' = SubSeq(chain, 1, k - 1) \o SubSeq(chain, k + 1, Len(chain))
    BY <1>2, <2>1 DEF Delete
  <2>3. k \in 1..Len(chain) /\ chain[k] = rule
    OBVIOUS
  <2>4. ASSUME NEW j \in 1..(k - 1), chain[j] = rule PROVE FALSE
    <3>1. j \in at /\ ~(k <= j)
      BY <2>3, <2>4
    <3> QED
      BY <2>2, <3>1
  <2>5. /\ chain' \in Seq(S) /\ Len(chain') = Len(chain) - 1
        /\ \A i \in 1..Len(chain') : chain'[i] = IF i < k THEN chain[i] ELSE chain[i + 1]
    <3>1. \A t : t = SubSeq(chain, 1, k - 1) \o SubSeq(chain, k + 1, Len(chain))
             => /\ t \in Seq(S) /\ Len(t) = Len(chain) - 1
                /\ \A i \in 1..Len(t) : t[i] = IF i < k THEN chain[i] ELSE chain[i + 1]
      BY <2>3, EntryRemoved, Zenon
    <3> QED
      BY <2>2, <3>1, Zenon
  <2> QED
    BY <2>3, <2>4, <2>5
<1> QED
  BY <1>1, <1>2

LEMMA TryDeleteType ==
    ASSUME NEW S, chain \in Seq(S), NEW rule, TryDelete(rule)
    PROVE  chain' \in Seq(S)
BY DeleteFacts DEF TryDelete

(* The end of a process leaves everything well typed.                      *)
LEMMA GoneType ==
    ASSUME IType, NEW p \in Procs, NEW how \in {"stopped", "killed", "crashed"}, Gone(p, how),
           crashes' \in 0..MaxCrashes
    PROVE  IType'
<1>1. owner' \in [Ports -> Procs \cup {NoProc}]
  BY DEF IType, TypeOK, Gone, Freed
<1>2. /\ main' \in [Procs -> {"down", "boot", "run"} \cup Stopping]
      /\ ended' \in [Procs -> {"never", "stopped", "killed", "crashed"}]
  BY DEF IType, TypeOK, Gone
<1>3. /\ iptablesSet' \in [Procs -> BOOLEAN] /\ crawling' \in [Procs -> BOOLEAN]
      /\ accepted' \in [Procs -> BOOLEAN]
  BY DEF IType, TypeOK, Gone
<1>4. open' \in [Procs -> 0..MaxConns] /\ Fits'
  BY BoundsAssumption DEF IType, TypeOK, Fits, Gone
<1> QED
  BY <1>1, <1>2, <1>3, <1>4 DEF IType, TypeOK, Gone

LEMMA BindType ==
    ASSUME owner \in [Ports -> Procs \cup {NoProc}], NEW p \in Procs, NEW s, Bind(p, s)
    PROVE  owner' \in [Ports -> Procs \cup {NoProc}]
BY DEF Bind

LEMMA TypeInit == Init => IType
BY ProcsAssumption, BoundsAssumption, EmptySeq DEF Init, IType, TypeOK, Fits, Ports

LEMMA TypeStep == IType /\ [Next]_vars => IType'
<1> SUFFICES ASSUME IType, [Next]_vars PROVE IType'
  OBVIOUS
<1> USE BoundsAssumption DEF IType, TypeOK, Fits
<1>1. CASE Reboot
  BY <1>1, EmptySeq DEF Reboot
<1>2. ASSUME NEW p \in Procs, Launch(p) \/ Signal(p) \/ Tick(p) \/ Refreshed(p) PROVE IType'
  <2>1. CASE Launch(p)
    BY <2>1 DEF Launch, Stopping
  <2>2. CASE Signal(p)
    BY <2>2 DEF Signal, Stopping
  <2>3. CASE Tick(p)
    BY <2>3 DEF Tick
  <2>4. CASE Refreshed(p)
    BY <2>4 DEF Refreshed
  <2> QED
    BY <1>2, <2>1, <2>2, <2>3, <2>4
<1>3. ASSUME NEW p \in Procs, BootEnds(p) \/ Exit(p) \/ Kill(p) \/ Crash(p) PROVE IType'
  <2>1. \E how \in {"stopped", "killed", "crashed"} : Gone(p, how)
    BY <1>3 DEF BootEnds, Exit, Kill, Crash
  <2>2. crashes' \in 0..MaxCrashes
    BY <1>3 DEF BootEnds, Exit, Kill, Crash
  <2> QED
    BY <2>1, <2>2, GoneType
<1>4. ASSUME NEW p \in Procs, Boot(p) \/ StopDiscovery(p) \/ Drained(p) \/ RemoveRules(p) PROVE IType'
  <2>1. CASE Boot(p)
    BY <2>1 DEF Boot
  <2>2. CASE StopDiscovery(p)
    BY <2>2 DEF StopDiscovery, Stopping
  <2>3. CASE Drained(p)
    BY <2>3 DEF Drained, Stopping
  <2>4. CASE RemoveRules(p)
    BY <2>4 DEF RemoveRules, Stopping
  <2> QED
    BY <1>4, <2>1, <2>2, <2>3, <2>4
<1>5. ASSUME NEW p \in Procs, StopProxy(p) \/ ShutdownServer(p) PROVE IType'
  <2>1. owner' \in [Ports -> Procs \cup {NoProc}]
    BY <1>5 DEF StopProxy, ShutdownServer, Freed
  <2>2. CASE StopProxy(p)
    BY <2>1, <2>2 DEF StopProxy, Stopping
  <2>3. CASE ShutdownServer(p)
    BY <2>1, <2>3 DEF ShutdownServer, Stopping
  <2> QED
    BY <1>5, <2>2, <2>3
<1>6. ASSUME NEW p \in Procs, DelRedirect(p) \/ DelReturn(p) PROVE IType'
  <2>1. chain' \in Seq(Users \cup {Redirect})
    BY <1>6, TryDeleteType DEF DelRedirect, DelReturn
  <2>2. CASE DelRedirect(p)
    BY <2>1, <2>2 DEF DelRedirect, Stopping
  <2>3. CASE DelReturn(p)
    BY <2>1, <2>3 DEF DelReturn, Stopping
  <2> QED
    BY <1>6, <2>2, <2>3
<1>7. ASSUME NEW p \in Procs, StartBegin(p) \/ MarkSet(p) \/ StartServer(p) PROVE IType'
  <2>1. CASE StartBegin(p)
    BY <2>1 DEF StartBegin, Start
  <2>2. CASE MarkSet(p)
    BY <2>2 DEF MarkSet, Start
  <2>3. CASE StartServer(p)
    BY <2>3 DEF StartServer, Start
  <2> QED
    BY <1>7, <2>1, <2>2, <2>3
<1>8. ASSUME NEW p \in Procs, AddReturn(p) \/ AddRedirect(p) \/ UndoReturn(p) PROVE IType'
  <2>1. chain' \in Seq(Users \cup {Redirect})
    <3>1. User[p] \in Users
      BY DEF Users
    <3>2. ASSUME NEW rule \in Users \cup {Redirect}, Add(rule)
          PROVE  chain' \in Seq(Users \cup {Redirect})
      BY <3>2, AppendProperties DEF Add
    <3>3. CASE UndoReturn(p)
      BY <3>3, TryDeleteType DEF UndoReturn
    <3> QED
      BY <1>8, <3>1, <3>2, <3>3 DEF AddReturn, AddRedirect
  <2>2. CASE AddReturn(p)
    BY <2>1, <2>2 DEF AddReturn, Start
  <2>3. CASE AddRedirect(p)
    BY <2>1, <2>3 DEF AddRedirect, Start
  <2>4. CASE UndoReturn(p)
    BY <2>1, <2>4 DEF UndoReturn, Start
  <2> QED
    BY <1>8, <2>2, <2>3, <2>4
<1>9. ASSUME NEW p \in Procs, ListenAndServe(p) PROVE IType'
  <2>1. owner' \in [Ports -> Procs \cup {NoProc}]
    BY <1>9, BindType DEF ListenAndServe
  <2> QED
    BY <1>9, <2>1 DEF ListenAndServe
<1>10. ASSUME NEW p \in Procs, StartListener(p) PROVE IType'
  <2>1. owner' \in [Ports -> Procs \cup {NoProc}]
    BY <1>10, BindType DEF StartListener
  <2>2. prx' \in [Procs -> {"off", "https", "http", "ipv6", "on", "failed"}]
    BY <1>10 DEF StartListener, AfterBind
  <2> QED
    BY <1>10, <2>1, <2>2 DEF StartListener
<1>11. ASSUME NEW p \in Procs, Accept(p) \/ Handle(p) \/ Handled(p) PROVE IType'
  <2>1. CASE Accept(p)
    BY <2>1 DEF Accept
  <2>2. CASE Handle(p)
    BY <2>2 DEF Handle
  <2>3. CASE Handled(p)
    BY <2>3 DEF Handled
  <2> QED
    BY <1>11, <2>1, <2>2, <2>3
<1>12. CASE UNCHANGED vars
  BY <1>12 DEF vars, procVars
<1> QED
  BY <1>1, <1>2, <1>3, <1>4, <1>5, <1>6, <1>7, <1>8, <1>9, <1>10, <1>11, <1>12
     DEF Next, MainStep, CaptureStep, ProxyStep

(* Every state of Lifecycle is well typed.                                 *)
THEOREM TypeCorrect == Spec => []TypeOK
<1>1. IType => TypeOK
  BY DEF IType
<1> QED
  BY TypeInit, TypeStep, <1>1, PTL DEF Spec

-----------------------------------------------------------------------------
(* Order holds at first and after every step.                              *)
LEMMA OrderInit == Init => Order
BY DEF Init, Order, Stopping

LEMMA OrderStep == IType /\ Order /\ [Next]_vars => Order'
<1> SUFFICES ASSUME IType, Order, [Next]_vars PROVE Order'
  OBVIOUS
<1>0. /\ main \in [Procs -> {"down", "boot", "run"} \cup Stopping]
      /\ cap \in [Procs -> {"off", "begin", "return", "redirect", "undo", "set",
                            "serve", "on", "failed"}]
      /\ iptablesSet \in [Procs -> BOOLEAN]
  BY DEF IType, TypeOK
<1> USE <1>0 DEF Order, Stopping
<1>1. CASE Reboot
  BY <1>1 DEF Reboot
<1>2. ASSUME NEW p \in Procs, Launch(p) \/ Signal(p) \/ Tick(p) \/ Refreshed(p) PROVE Order'
  BY <1>2 DEF Launch, Signal, Tick, Refreshed
<1>3. ASSUME NEW p \in Procs, BootEnds(p) \/ Exit(p) \/ Kill(p) \/ Crash(p) PROVE Order'
  BY <1>3 DEF BootEnds, Exit, Kill, Crash, Gone
<1>4. ASSUME NEW p \in Procs, Boot(p) \/ StopDiscovery(p) \/ Drained(p) \/ RemoveRules(p)
      PROVE  Order'
  BY <1>4 DEF Boot, StopDiscovery, Drained, RemoveRules
<1>5. ASSUME NEW p \in Procs, StopProxy(p) \/ ShutdownServer(p) PROVE Order'
  BY <1>5 DEF StopProxy, ShutdownServer
<1>6. ASSUME NEW p \in Procs, DelRedirect(p) \/ DelReturn(p) PROVE Order'
  BY <1>6 DEF DelRedirect, DelReturn
<1>7. ASSUME NEW p \in Procs, StartBegin(p) \/ MarkSet(p) \/ StartServer(p) PROVE Order'
  BY <1>7 DEF StartBegin, MarkSet, StartServer, Start
<1>8. ASSUME NEW p \in Procs, AddReturn(p) \/ AddRedirect(p) \/ UndoReturn(p) PROVE Order'
  BY <1>8 DEF AddReturn, AddRedirect, UndoReturn, Start
<1>9. ASSUME NEW p \in Procs, ListenAndServe(p) \/ ProxyStep(p) PROVE Order'
  BY <1>9 DEF ListenAndServe, ProxyStep, StartListener, Accept, Handle, Handled
<1>10. CASE UNCHANGED vars
  BY <1>10 DEF vars, procVars
<1> QED
  BY <1>1, <1>2, <1>3, <1>4, <1>5, <1>6, <1>7, <1>8, <1>9, <1>10
     DEF Next, MainStep, CaptureStep

-----------------------------------------------------------------------------
(* What a step may do to the chain and to those who hold, enter and leave. *)
Emptied == chain' = <<>> /\ Holders' = {} /\ Leaving' = {} /\ Entering' = {}
Kept    == /\ chain' = chain
           /\ Holders' \subseteq Holders /\ Leaving' \subseteq Leaving
           /\ Entering' \subseteq Entering
Enters(p) == /\ Add(User[p])
             /\ Entering' = Entering \cup {p} /\ UNCHANGED <<Holders, Leaving>>
Holds(p)  == /\ Add(Redirect)
             /\ p \in Entering /\ Entering' = Entering \ {p} /\ UNCHANGED Leaving
             /\ p \notin Holders
             /\ Holders' = Holders \cup {p} \/ UNCHANGED Holders
Leaves(p) == /\ Delete(Redirect)
             /\ p \in Holders /\ Holders' = Holders \ {p}
             /\ Leaving' = Leaving \cup {p} /\ UNCHANGED Entering
Left(p)   == /\ Delete(User[p])
             /\ p \in Leaving /\ Leaving' = Leaving \ {p} /\ UNCHANGED <<Holders, Entering>>

LEMMA Changes ==
    ASSUME IType, Order, [Next]_vars, ~CommandsFail
    PROVE  Emptied \/ Kept \/ \E p \in Procs : Enters(p) \/ Holds(p) \/ Leaves(p) \/ Left(p)
<1>0. /\ main \in [Procs -> {"down", "boot", "run"} \cup Stopping]
      /\ cap \in [Procs -> {"off", "begin", "return", "redirect", "undo", "set",
                            "serve", "on", "failed"}]
      /\ iptablesSet \in [Procs -> BOOLEAN] /\ crashes \in Nat
  BY BoundsAssumption DEF IType, TypeOK
<1> USE <1>0 DEF Order, Stopping, Holders, Leaving, Entering
<1>1. CASE Reboot
  BY <1>1 DEF Reboot, Emptied
<1>2. ASSUME NEW p \in Procs, Launch(p) \/ Signal(p) \/ Tick(p) \/ Refreshed(p) PROVE Kept
  BY <1>2 DEF Launch, Signal, Tick, Refreshed, Kept
<1>3. ASSUME NEW p \in Procs, BootEnds(p) \/ Exit(p) \/ Kill(p) \/ Crash(p) PROVE Kept
  <2>1. main' = [main EXCEPT ![p] = "down"] /\ cap' = [cap EXCEPT ![p] = "off"] /\ chain' = chain
    BY <1>3 DEF BootEnds, Exit, Kill, Crash, Gone
  <2> QED
    BY <2>1 DEF Kept
<1>4. ASSUME NEW p \in Procs, Boot(p) \/ StopDiscovery(p) \/ Drained(p) PROVE Kept
  BY <1>4 DEF Boot, StopDiscovery, Drained, Kept
<1>5. ASSUME NEW p \in Procs, RemoveRules(p) PROVE Kept
  BY <1>5 DEF RemoveRules, Kept
<1>6. ASSUME NEW p \in Procs, StopProxy(p) \/ ShutdownServer(p) PROVE Kept
  BY <1>6 DEF StopProxy, ShutdownServer, Kept
<1>7. ASSUME NEW p \in Procs, DelRedirect(p) PROVE Leaves(p)
  BY <1>7 DEF DelRedirect, TryDelete, Leaves
<1>8. ASSUME NEW p \in Procs, DelReturn(p) PROVE Left(p)
  BY <1>8 DEF DelReturn, TryDelete, Left
<1>9. ASSUME NEW p \in Procs, StartBegin(p) \/ MarkSet(p) \/ StartServer(p) PROVE Kept
  BY <1>9 DEF StartBegin, MarkSet, StartServer, Start, Kept
<1>10. ASSUME NEW p \in Procs, AddReturn(p) PROVE Enters(p)
  BY <1>10 DEF AddReturn, Start, Enters
<1>11. ASSUME NEW p \in Procs, AddRedirect(p) PROVE Holds(p)
  BY <1>11 DEF AddRedirect, Start, Holds
<1>12. ASSUME NEW p \in Procs, UndoReturn(p) PROVE FALSE
  BY <1>12 DEF UndoReturn, Start
<1>13. ASSUME NEW p \in Procs, ListenAndServe(p) \/ ProxyStep(p) PROVE Kept
  BY <1>13 DEF ListenAndServe, ProxyStep, StartListener, Accept, Handle, Handled, Kept
<1>14. CASE UNCHANGED vars
  BY <1>14 DEF vars, procVars, Kept
<1> QED
  BY <1>1, <1>2, <1>3, <1>4, <1>5, <1>6, <1>7, <1>8, <1>9, <1>10, <1>11, <1>12, <1>13, <1>14
     DEF Next, MainStep, CaptureStep

-----------------------------------------------------------------------------
(* Sets of processes are finite; one more or one less counts as one.       *)
LEMMA ProcSets ==
    ASSUME NEW S \in SUBSET Procs
    PROVE  /\ IsFiniteSet(S) /\ Cardinality(S) \in Nat
           /\ \A p \in S : Cardinality(S \ {p}) = Cardinality(S) - 1 /\ Cardinality(S) >= 1
           /\ \A p : p \notin S => Cardinality(S \cup {p}) = Cardinality(S) + 1
           /\ \A p : Cardinality(S \cup {p}) <= Cardinality(S) + 1
           /\ \A T \in SUBSET S : Cardinality(T) \in Nat /\ Cardinality(T) <= Cardinality(S)
<1>1. IsFiniteSet(S)
  BY ProcsAssumption, FS_Subset
<1>2. Cardinality(S) \in Nat
  BY <1>1, FS_CardinalityType
<1>3. ASSUME NEW p \in S
      PROVE  Cardinality(S \ {p}) = Cardinality(S) - 1 /\ Cardinality(S) >= 1
  <2>1. IsFiniteSet(S \ {p}) /\ Cardinality(S \ {p}) = Cardinality(S) - 1
    BY <1>1, FS_RemoveElement
  <2>2. Cardinality(S \ {p}) \in Nat
    BY <2>1, FS_CardinalityType
  <2> QED
    BY <1>2, <2>1, <2>2
<1>4. ASSUME NEW p
      PROVE  /\ p \notin S => Cardinality(S \cup {p}) = Cardinality(S) + 1
             /\ Cardinality(S \cup {p}) <= Cardinality(S) + 1
  BY <1>1, <1>2, FS_AddElement
<1>5. ASSUME NEW T \in SUBSET S
      PROVE  Cardinality(T) \in Nat /\ Cardinality(T) <= Cardinality(S)
  BY <1>1, FS_Subset, FS_CardinalityType
<1> QED
  BY <1>1, <1>2, <1>3, <1>4, <1>5

LEMMA EmptyCounts ==
    /\ Cardinality({}) = 0 /\ Len(<<>>) = 0
    /\ \A x : CountTo(<<>>, x, 0) = 0
BY CountFacts, FS_EmptySet

(* A rule at the end, and a rule deleted where there is one.               *)
LEMMA AddCounts ==
    ASSUME chain \in Seq(Users \cup {Redirect}), NEW rule \in Users \cup {Redirect}, Add(rule)
    PROVE  Grown(chain, rule, chain')
BY CountAppended DEF Add

LEMMA DeleteCounts ==
    ASSUME chain \in Seq(Users \cup {Redirect}), NEW rule, Delete(rule),
           CountTo(chain, rule, Len(chain)) >= 1
    PROVE  \E n \in Nat, k \in 1..Len(chain) :
              /\ Len(chain) = n + 1 /\ Len(chain') = n
              /\ chain[k] = rule /\ \A j \in 1..(k - 1) : chain[j] # rule
              /\ Shrunk(chain, k, chain', n)
<1>0. Len(chain) \in Nat
  OBVIOUS
<1>1. \E i \in 1..Len(chain) : chain[i] = rule
  BY <1>0, CountSome
<1>2. PICK k \in 1..Len(chain) :
         /\ chain[k] = rule /\ \A j \in 1..(k - 1) : chain[j] # rule
         /\ Len(chain') = Len(chain) - 1
         /\ \A i \in 1..Len(chain') : chain'[i] = IF i < k THEN chain[i] ELSE chain[i + 1]
  BY <1>1, DeleteFacts
<1>3. PICK n \in Nat : n = Len(chain') /\ Len(chain) = n + 1 /\ k \in 1..(n + 1)
  BY <1>0, <1>2
<1>4. \A i \in 1..n : chain'[i] = IF i < k THEN chain[i] ELSE chain[i + 1]
  BY <1>2, <1>3, Zenon
<1>5. Shrunk(chain, k, chain', n)
  BY <1>3, <1>4, CountWithout
<1> QED
  BY <1>2, <1>3, <1>5

-----------------------------------------------------------------------------
(* Each holder's redirection is in the chain.                              *)
LEMMA CountedInit == Init => Counted
<1> SUFFICES ASSUME Init PROVE Counted
  OBVIOUS
<1>1. Holders = {} /\ chain = <<>>
  BY DEF Init, Holders
<1> QED
  BY <1>1, EmptyCounts DEF Counted, Rules

LEMMA CountedStep ==
    ASSUME ~CommandsFail
    PROVE  IType /\ Order /\ Counted /\ [Next]_vars => Counted'
<1> SUFFICES ASSUME IType, Order, Counted, [Next]_vars PROVE Counted'
  OBVIOUS
<1>0. /\ chain \in Seq(Users \cup {Redirect}) /\ Len(chain) \in Nat
      /\ \A p \in Procs : User[p] \in Users /\ User[p] # Redirect
      /\ CountTo(chain, Redirect, Len(chain)) \in Nat
      /\ Holders \in SUBSET Procs /\ Cardinality(Holders) \in Nat
  BY ProcsAssumption, CountFacts, ProcSets DEF IType, TypeOK, Users, Holders
<1> SUFFICES Cardinality(Holders') <= CountTo(chain', Redirect, Len(chain'))
  BY DEF Counted, Rules
<1>2. Cardinality(Holders) <= CountTo(chain, Redirect, Len(chain))
  BY DEF Counted, Rules
<1>3. CASE Emptied
  BY <1>3, EmptyCounts DEF Emptied
<1>4. CASE Kept
  <2>1. Cardinality(Holders') \in Nat /\ Cardinality(Holders') <= Cardinality(Holders)
    BY <1>0, <1>4, ProcSets DEF Kept
  <2> QED
    BY <1>0, <1>2, <1>4, <2>1 DEF Kept
<1>5. ASSUME NEW p \in Procs, Enters(p)
      PROVE  /\ CountTo(chain', Redirect, Len(chain')) = CountTo(chain, Redirect, Len(chain))
             /\ Holders' = Holders
  <2>1. CountTo(chain', Redirect, Len(chain'))
           = CountTo(chain, Redirect, Len(chain)) + (IF User[p] = Redirect THEN 1 ELSE 0)
    BY <1>0, <1>5, AddCounts DEF Enters, Grown
  <2> QED
    BY <1>0, <1>5, <2>1 DEF Enters
<1>6. ASSUME NEW p \in Procs, Holds(p)
      PROVE  /\ CountTo(chain', Redirect, Len(chain')) = CountTo(chain, Redirect, Len(chain)) + 1
             /\ Cardinality(Holders') = Cardinality(Holders) + 1 \/ Holders' = Holders
  <2>1. CountTo(chain', Redirect, Len(chain')) = CountTo(chain, Redirect, Len(chain)) + 1
    BY <1>0, <1>6, AddCounts DEF Holds, Grown
  <2> QED
    BY <1>0, <1>6, <2>1, ProcSets DEF Holds
<1>7. ASSUME NEW p \in Procs, Leaves(p)
      PROVE  /\ CountTo(chain', Redirect, Len(chain')) = CountTo(chain, Redirect, Len(chain)) - 1
             /\ Cardinality(Holders') = Cardinality(Holders) - 1
  <2>1. Cardinality(Holders') = Cardinality(Holders) - 1 /\ Cardinality(Holders) >= 1
    BY <1>0, <1>7, ProcSets DEF Leaves
  <2>2. CountTo(chain, Redirect, Len(chain)) >= 1
    BY <1>0, <1>2, <2>1
  <2>3. CountTo(chain, Redirect, Len(chain)) = CountTo(chain', Redirect, Len(chain')) + 1
        /\ CountTo(chain', Redirect, Len(chain')) \in Nat
    <3>1. PICK n \in Nat, k \in 1..Len(chain) :
             /\ Len(chain) = n + 1 /\ Len(chain') = n
             /\ chain[k] = Redirect /\ Shrunk(chain, k, chain', n)
      BY <1>0, <1>7, <2>2, DeleteCounts DEF Leaves
    <3>2. CountTo(chain, Redirect, n + 1) = CountTo(chain', Redirect, n) + 1
      BY <3>1 DEF Shrunk
    <3>3. CountTo(chain', Redirect, n) \in Nat
      BY CountFacts
    <3> QED
      BY <3>1, <3>2, <3>3, Zenon
  <2> QED
    BY <1>0, <2>1, <2>3
<1>8. ASSUME NEW p \in Procs, Left(p)
      PROVE  /\ CountTo(chain', Redirect, Len(chain')) = CountTo(chain, Redirect, Len(chain))
             /\ Holders' = Holders
  <2>1. CASE CountTo(chain, User[p], Len(chain)) >= 1
    <3>1. PICK n \in Nat, k \in 1..Len(chain) :
             /\ Len(chain) = n + 1 /\ Len(chain') = n
             /\ chain[k] = User[p] /\ Shrunk(chain, k, chain', n)
      BY <1>0, <1>8, <2>1, DeleteCounts DEF Left
    <3>2. CountTo(chain, Redirect, n + 1) = CountTo(chain', Redirect, n) + 0
      BY <1>0, <3>1 DEF Shrunk
    <3>3. CountTo(chain', Redirect, n) \in Nat
      BY CountFacts
    <3> QED
      BY <1>8, <3>1, <3>2, <3>3 DEF Left
  <2>2. CASE ~(CountTo(chain, User[p], Len(chain)) >= 1)
    BY <1>0, <1>8, <2>2, CountSome, DeleteFacts DEF Left
  <2> QED
    BY <2>1, <2>2
<1>9. Emptied \/ Kept \/ \E p \in Procs : Enters(p) \/ Holds(p) \/ Leaves(p) \/ Left(p)
  BY Changes
<1> QED
  BY <1>0, <1>2, <1>3, <1>4, <1>5, <1>6, <1>7, <1>8, <1>9

-----------------------------------------------------------------------------
(* Before every redirection stand enough rules of the one user.            *)
LEMMA BalancedInit ==
    ASSUME NEW u
    PROVE  Init => Balanced(u)
<1> SUFFICES ASSUME Init PROVE Balanced(u)
  OBVIOUS
<1>1. Leaving = {} /\ Entering = {} /\ chain = <<>>
  BY DEF Init, Leaving, Entering
<1> QED
  BY <1>1, EmptyCounts DEF Balanced, Rules

LEMMA BalancedStep ==
    ASSUME ~CommandsFail, NEW u \in Users, OneUser(u)
    PROVE  IType /\ Order /\ Counted /\ Balanced(u) /\ [Next]_vars => Balanced(u)'
<1> SUFFICES ASSUME IType, Order, Counted, Balanced(u), [Next]_vars PROVE Balanced(u)'
  OBVIOUS
<1> DEFINE R(i)  == CountTo(chain, Redirect, i)
           U(i)  == CountTo(chain, u, i)
           R1(i) == CountTo(chain', Redirect, i)
           U1(i) == CountTo(chain', u, i)
           n     == Len(chain)
           L     == Cardinality(Leaving)
           E     == Cardinality(Entering)
           L1    == Cardinality(Leaving')
           E1    == Cardinality(Entering')
<1>0. /\ chain \in Seq(Users \cup {Redirect}) /\ n \in Nat
      /\ u # Redirect /\ \A p \in Procs : User[p] = u
      /\ Holders \in SUBSET Procs /\ Leaving \in SUBSET Procs /\ Entering \in SUBSET Procs
      /\ L \in Nat /\ E \in Nat
  BY ProcsAssumption, ProcSets DEF IType, TypeOK, OneUser, Holders, Leaving, Entering
<1>1. \A i \in Nat : R(i) \in Nat /\ U(i) \in Nat /\ R1(i) \in Nat /\ U1(i) \in Nat
  BY CountFacts
<1>2. /\ \A i \in 1..n : chain[i] = Redirect => R(i) + L <= U(i)
      /\ R(n) + L + E <= U(n)
  BY DEF Balanced, Rules
<1>3. Cardinality(Holders) <= R(n)
  BY DEF Counted, Rules
<1> SUFFICES /\ \A i \in 1..Len(chain') : chain'[i] = Redirect => R1(i) + L1 <= U1(i)
             /\ R1(Len(chain')) + L1 + E1 <= U1(Len(chain'))
  BY DEF Balanced, Rules
<1>4. CASE Emptied
  BY <1>4, EmptyCounts DEF Emptied
<1>5. CASE Kept
  <2>1. L1 \in Nat /\ L1 <= L /\ E1 \in Nat /\ E1 <= E
    BY <1>0, <1>5, ProcSets DEF Kept
  <2>2. chain' = chain
    BY <1>5 DEF Kept
  <2>3. ASSUME NEW i \in 1..n, chain[i] = Redirect PROVE R(i) + L1 <= U(i)
    <3>1. i \in Nat
      BY <1>0
    <3>2. R(i) \in Nat /\ U(i) \in Nat
      BY <1>1, <3>1
    <3>3. R(i) + L <= U(i)
      BY <1>2, <2>3
    <3> HIDE DEF R, U, L, L1, n
    <3> QED
      BY <1>0, <2>1, <3>2, <3>3
  <2>4. R(n) + L1 + E1 <= U(n)
    <3>1. R(n) \in Nat /\ U(n) \in Nat
      BY <1>0, <1>1
    <3> HIDE DEF R, U, L, L1, E, E1, n
    <3> QED
      BY <1>0, <1>2, <2>1, <3>1
  <2> QED
    BY <2>2, <2>3, <2>4
<1>6. ASSUME NEW p \in Procs, Enters(p) \/ Holds(p),
             NEW rule \in {u, Redirect}, Grown(chain, rule, chain'),
             R(n) + L + E + (IF rule = Redirect THEN 1 ELSE 0) + (E1 - E)
                <= U(n) + (IF rule = u THEN 1 ELSE 0),
             E1 \in Nat, L1 = L,
             rule = Redirect => E >= 1
      PROVE  /\ \A i \in 1..Len(chain') : chain'[i] = Redirect => R1(i) + L1 <= U1(i)
             /\ R1(Len(chain')) + L1 + E1 <= U1(Len(chain'))
  <2>1. /\ Len(chain') = n + 1 /\ chain'[n + 1] = rule
        /\ \A i \in 1..n : chain'[i] = chain[i] /\ R1(i) = R(i) /\ U1(i) = U(i)
        /\ R1(n + 1) = R(n) + (IF rule = Redirect THEN 1 ELSE 0)
        /\ U1(n + 1) = U(n) + (IF rule = u THEN 1 ELSE 0)
    <3>1. 1..n \subseteq 0..n
      BY <1>0
    <3> QED
      BY <1>6, <3>1 DEF Grown
  <2>2. R(n) \in Nat /\ U(n) \in Nat
    BY <1>0, <1>1
  <2> HIDE DEF R, U, R1, U1, n, L, E, L1, E1
  <2>3. ASSUME NEW i \in 1..(n + 1), chain'[i] = Redirect PROVE R1(i) + L1 <= U1(i)
    <3>1. CASE i \in 1..n
      BY <1>2, <1>6, <2>1, <2>3, <3>1
    <3>2. CASE i = n + 1
      BY <1>0, <1>2, <1>6, <2>1, <2>2, <2>3, <3>2
    <3> QED
      BY <1>0, <3>1, <3>2
  <2>4. R1(n + 1) + L1 + E1 <= U1(n + 1)
    BY <1>0, <1>6, <2>1, <2>2
  <2> QED
    BY <2>1, <2>3, <2>4
<1>7. ASSUME NEW p \in Procs, Enters(p)
      PROVE  /\ Grown(chain, u, chain') /\ L1 = L /\ E1 \in Nat /\ E1 <= E + 1
  BY <1>0, <1>7, AddCounts, ProcSets DEF Enters
<1>8. ASSUME NEW p \in Procs, Holds(p)
      PROVE  /\ Grown(chain, Redirect, chain') /\ L1 = L
             /\ E1 \in Nat /\ E1 = E - 1 /\ E >= 1
  BY <1>0, <1>8, AddCounts, ProcSets DEF Holds
<1>9. ASSUME NEW p \in Procs, Leaves(p)
      PROVE  /\ \A i \in 1..Len(chain') : chain'[i] = Redirect => R1(i) + L1 <= U1(i)
             /\ R1(Len(chain')) + L1 + E1 <= U1(Len(chain'))
  <2>1. Cardinality(Holders) >= 1 /\ Cardinality(Holders) \in Nat
    BY <1>0, <1>9, ProcSets DEF Leaves
  <2>2. L1 <= L + 1 /\ L1 \in Nat /\ E1 = E
    <3>1. Leaving' \in SUBSET Procs
      BY <1>0, <1>9 DEF Leaves
    <3> QED
      BY <1>0, <1>9, <3>1, ProcSets DEF Leaves
  <2>3. R(n) >= 1
    BY <1>0, <1>1, <1>3, <2>1
  <2>4. PICK m \in Nat, k \in 1..n :
           /\ n = m + 1 /\ Len(chain') = m
           /\ chain[k] = Redirect /\ \A j \in 1..(k - 1) : chain[j] # Redirect
           /\ Shrunk(chain, k, chain', m)
    BY <1>0, <1>9, <2>3, DeleteCounts DEF Leaves
  <2>5. /\ \A i \in 1..m : chain'[i] = IF i < k THEN chain[i] ELSE chain[i + 1]
        /\ \A i \in Nat : k <= i + 1 /\ i <= m => R(i + 1) = R1(i) + 1 /\ U(i + 1) = U1(i) + 0
    BY <1>0, <2>4 DEF Shrunk
  <2> HIDE DEF R, U, R1, U1, n, L, E, L1, E1
  <2>6. ASSUME NEW i \in 1..m, chain'[i] = Redirect PROVE R1(i) + L1 <= U1(i)
    <3>1. k <= i
      BY <2>4, <2>5, <2>6
    <3>2. chain[i + 1] = Redirect /\ i + 1 \in 1..n /\ i \in Nat
      BY <2>4, <2>5, <2>6, <3>1
    <3>3. R(i + 1) + L <= U(i + 1)
      BY <1>2, <3>2
    <3>4. R(i + 1) = R1(i) + 1 /\ U(i + 1) = U1(i) + 0
      BY <2>4, <2>5, <3>1, <3>2
    <3>5. R1(i) \in Nat /\ U1(i) \in Nat
      BY <1>1, <3>2
    <3> QED
      BY <1>0, <2>2, <3>3, <3>4, <3>5
  <2>7. R1(m) + L1 + E1 <= U1(m)
    <3>1. R(m + 1) = R1(m) + 1 /\ U(m + 1) = U1(m) + 0
      BY <1>0, <2>4, <2>5
    <3>2. R1(m) \in Nat /\ U1(m) \in Nat
      BY <1>1
    <3> QED
      BY <1>0, <1>2, <2>2, <2>4, <3>1, <3>2
  <2> QED
    BY <2>4, <2>6, <2>7
<1>10. ASSUME NEW p \in Procs, Left(p)
      PROVE  /\ \A i \in 1..Len(chain') : chain'[i] = Redirect => R1(i) + L1 <= U1(i)
             /\ R1(Len(chain')) + L1 + E1 <= U1(Len(chain'))
  <2>1. L1 = L - 1 /\ L >= 1 /\ L1 \in Nat /\ E1 = E
    BY <1>0, <1>10, ProcSets DEF Left
  <2>2. R(n) \in Nat /\ U(n) \in Nat /\ U(n) >= 1
    <3>1. R(n) \in Nat /\ U(n) \in Nat
      BY <1>0, <1>1
    <3> HIDE DEF R, U, n, L, E
    <3> QED
      BY <1>0, <1>2, <2>1, <3>1
  <2>3. PICK m \in Nat, k \in 1..n :
           /\ n = m + 1 /\ Len(chain') = m
           /\ chain[k] = u /\ \A j \in 1..(k - 1) : chain[j] # u
           /\ Shrunk(chain, k, chain', m)
    BY <1>0, <1>10, <2>2, DeleteCounts DEF Left
  <2>4. /\ \A i \in 1..m : chain'[i] = IF i < k THEN chain[i] ELSE chain[i + 1]
        /\ \A i \in Nat : k <= i + 1 /\ i <= m => R(i + 1) = R1(i) + 0 /\ U(i + 1) = U1(i) + 1
    BY <1>0, <2>3 DEF Shrunk
  <2>5. \A i \in 1..n : i < k => ~(U(i) >= 1)
    <3> SUFFICES ASSUME NEW i \in 1..n, i < k PROVE ~\E j \in 1..i : chain[j] = u
      BY <1>0, CountSome
    <3> QED
      BY <1>0, <2>3
  <2> HIDE DEF R, U, R1, U1, n, L, E, L1, E1
  <2>6. ASSUME NEW i \in 1..m, chain'[i] = Redirect PROVE R1(i) + L1 <= U1(i)
    <3>0. i \in Nat /\ i \in 1..n /\ i + 1 \in 1..n
      BY <2>3
    <3>4. R(i) \in Nat /\ U(i) \in Nat /\ R1(i) \in Nat /\ U1(i) \in Nat
      BY <1>1, <3>0, Zenon
    <3>1. k <= i
      <4>1. SUFFICES ASSUME i < k PROVE FALSE
        BY <2>3
      <4>2. chain[i] = Redirect
        BY <2>4, <2>6, <4>1
      <4>3. R(i) + L <= U(i) /\ ~(U(i) >= 1)
        BY <1>2, <2>5, <3>0, <4>1, <4>2
      <4> QED
        BY <1>0, <2>1, <3>4, <4>3
    <3>2. chain[i + 1] = Redirect
      BY <2>3, <2>4, <2>6, <3>1
    <3>3. R(i + 1) + L <= U(i + 1) /\ R(i + 1) = R1(i) + 0 /\ U(i + 1) = U1(i) + 1
      BY <1>2, <2>3, <2>4, <3>0, <3>1, <3>2
    <3> QED
      BY <1>0, <2>1, <3>4, <3>3
  <2>7. R1(m) + L1 + E1 <= U1(m)
    <3>1. R(m + 1) = R1(m) + 0 /\ U(m + 1) = U1(m) + 1
      BY <1>0, <2>3, <2>4
    <3>2. R1(m) \in Nat /\ U1(m) \in Nat
      BY <1>1
    <3> QED
      BY <1>0, <1>2, <2>1, <2>3, <3>1, <3>2
  <2> QED
    BY <2>3, <2>6, <2>7
<1>11. Emptied \/ Kept \/ \E p \in Procs : Enters(p) \/ Holds(p) \/ Leaves(p) \/ Left(p)
  BY Changes
<1>12. ASSUME NEW p \in Procs, Enters(p) \/ Holds(p)
      PROVE  /\ \A i \in 1..Len(chain') : chain'[i] = Redirect => R1(i) + L1 <= U1(i)
             /\ R1(Len(chain')) + L1 + E1 <= U1(Len(chain'))
  <2>1. R(n) \in Nat /\ U(n) \in Nat
    BY <1>0, <1>1
  <2>2. CASE Enters(p)
    <3>1. Grown(chain, u, chain') /\ L1 = L /\ E1 \in Nat /\ E1 <= E + 1
      BY <1>7, <2>2
    <3>2. R(n) + L + E + 0 + (E1 - E) <= U(n) + 1
      <4> HIDE DEF R, U, n, L, E, E1
      <4> QED
        BY <1>0, <1>2, <2>1, <3>1
    <3> QED
      BY <1>0, <1>6, <2>2, <3>1, <3>2
  <2>3. CASE Holds(p)
    <3>1. /\ Grown(chain, Redirect, chain') /\ L1 = L
          /\ E1 \in Nat /\ E1 = E - 1 /\ E >= 1
      BY <1>8, <2>3
    <3>2. R(n) + L + E + 1 + (E1 - E) <= U(n) + 0
      <4> HIDE DEF R, U, n, L, E, E1
      <4> QED
        BY <1>0, <1>2, <2>1, <3>1
    <3> QED
      BY <1>0, <1>6, <2>3, <3>1, <3>2
  <2> QED
    BY <1>12, <2>2, <2>3
<1> QED
  BY <1>4, <1>5, <1>9, <1>10, <1>11, <1>12

-----------------------------------------------------------------------------
(* Capture.Start of capture_linux.go adds the rule that exempts the daemon *)
(* before the redirection and removeIptables deletes them in the other     *)
(* order: where all daemons run as one user and commands work, a query of  *)
(* that user is never redirected, whether or not a server listens, after   *)
(* any number of crashes, kills and signals during the start.              *)
THEOREM NeverRedirected ==
    ASSUME ~CommandsFail, NEW u \in Users, OneUser(u)
    PROVE  Spec => []~Redirected(u)
<1> DEFINE IInv == IType /\ Order /\ Counted /\ Balanced(u)
<1>1. Init => IInv
  BY TypeInit, OrderInit, CountedInit, BalancedInit
<1>2. IInv /\ [Next]_vars => IInv'
  BY TypeStep, OrderStep, CountedStep, BalancedStep
<1>3. IInv => ~Redirected(u)
  <2> SUFFICES ASSUME IInv, NEW i \in 1..Len(chain), chain[i] = Redirect,
                      \A j \in 1..(i - 1) : chain[j] # u
               PROVE  FALSE
    BY DEF Redirected
  <2>1. i \in Nat /\ u # Redirect /\ Leaving \in SUBSET Procs
    BY ProcsAssumption DEF IType, TypeOK, Leaving
  <2>2. CountTo(chain, Redirect, i) >= 1
    BY <2>1, CountSome
  <2>3. \A j \in 1..i : chain[j] # u
    BY <2>1
  <2>4. ~(CountTo(chain, u, i) >= 1)
    BY <2>1, <2>3, CountSome
  <2>5. CountTo(chain, Redirect, i) + Cardinality(Leaving) <= CountTo(chain, u, i)
    BY DEF Balanced, Rules
  <2>6. /\ CountTo(chain, Redirect, i) \in Nat /\ CountTo(chain, u, i) \in Nat
        /\ Cardinality(Leaving) \in Nat
    BY <2>1, CountFacts, ProcSets
  <2> QED
    BY <2>2, <2>4, <2>5, <2>6
<1> QED
  BY <1>1, <1>2, <1>3, PTL DEF Spec

(* NoLoop, the comment of capture_linux.go: a daemon whose server listens  *)
(* never has its own queries redirected, whatever was left behind.         *)
THEOREM NoLoopHolds ==
    ASSUME ~CommandsFail, \A p, q \in Procs : User[p] = User[q]
    PROVE  Spec => []NoLoop
<1>1. CASE Procs = {}
  <2>1. NoLoop
    BY <1>1 DEF NoLoop
  <2> QED
    BY <2>1, PTL
<1>2. CASE Procs # {}
  <2>1. PICK u \in Users : OneUser(u)
    BY <1>2 DEF Users, OneUser
  <2>2. Spec => []~Redirected(u)
    BY <2>1, NeverRedirected
  <2>3. ~Redirected(u) => NoLoop
    BY <2>1 DEF OneUser, NoLoop
  <2> QED
    BY <2>2, <2>3, PTL
<1> QED
  BY <1>1, <1>2

-----------------------------------------------------------------------------
(* What is left behind.  Where commands work and nobody stops a process    *)
(* early or kills it, those that exempt their user are the ones whose      *)
(* other rule is in the chain, and each crash leaves two.                  *)
Calm == ~CommandsFail /\ ~SlowStops /\ ~EarlySignals

Exempting   == {p \in Procs : cap[p] \in {"redirect", "set", "serve", "on"} /\ main[p] # "exit"}
ExemptOf(u) == {p \in Exempting : User[p] = u}

Lefts ==
    /\ \A u \in Users : Cardinality(ExemptOf(u)) <= Rules(u, Len(chain))
    /\ Len(chain) <= Cardinality(Holders) + Cardinality(Exempting) + 2 * crashes

Cleared    == chain' = <<>> /\ Holders' = {} /\ Exempting' = {} /\ UNCHANGED crashes
Untouched  == UNCHANGED <<chain, Holders, Exempting, crashes>>
Crashes(p) == /\ crashes' = crashes + 1 /\ UNCHANGED chain
              /\ Holders' = Holders \ {p} /\ Exempting' = Exempting \ {p}
Exempts(p) == /\ Add(User[p]) /\ UNCHANGED <<Holders, crashes>>
              /\ p \notin Exempting /\ Exempting' = Exempting \cup {p}
Redirects(p) == /\ Add(Redirect) /\ UNCHANGED <<Exempting, crashes>>
                /\ p \notin Holders /\ Holders' = Holders \cup {p}
Releases(p)  == /\ Delete(Redirect) /\ UNCHANGED <<Exempting, crashes>>
                /\ p \in Holders /\ Holders' = Holders \ {p}
Submits(p)   == /\ Delete(User[p]) /\ UNCHANGED <<Holders, crashes>>
                /\ p \in Exempting /\ Exempting' = Exempting \ {p}

LEMMA CalmChanges ==
    ASSUME IType, Order, [Next]_vars, Calm
    PROVE  Cleared \/ Untouched
           \/ \E p \in Procs : Crashes(p) \/ Exempts(p) \/ Redirects(p) \/ Releases(p) \/ Submits(p)
<1>0. /\ main \in [Procs -> {"down", "boot", "run"} \cup Stopping]
      /\ cap \in [Procs -> {"off", "begin", "return", "redirect", "undo", "set",
                            "serve", "on", "failed"}]
      /\ iptablesSet \in [Procs -> BOOLEAN] /\ crashes \in Nat
  BY BoundsAssumption DEF IType, TypeOK
<1> USE <1>0 DEF Calm, Order, Stopping, Holders, Exempting
<1>1. CASE Reboot
  BY <1>1 DEF Reboot, Cleared
<1>2. ASSUME NEW p \in Procs, Launch(p) \/ Signal(p) \/ Tick(p) \/ Refreshed(p) PROVE Untouched
  BY <1>2 DEF Launch, Signal, Tick, Refreshed, Untouched
<1>3. ASSUME NEW p \in Procs, BootEnds(p) \/ Kill(p) PROVE FALSE
  BY <1>3 DEF BootEnds, Kill
<1>4. ASSUME NEW p \in Procs, Exit(p) PROVE Untouched
  BY <1>4 DEF Exit, Gone, Untouched
<1>5. ASSUME NEW p \in Procs, Crash(p) PROVE Crashes(p)
  BY <1>5 DEF Crash, Gone, Crashes
<1>6. ASSUME NEW p \in Procs, Boot(p) \/ StopDiscovery(p) \/ Drained(p) PROVE Untouched
  BY <1>6 DEF Boot, StopDiscovery, Drained, Untouched
<1>7. ASSUME NEW p \in Procs, RemoveRules(p) PROVE Untouched
  BY <1>7 DEF RemoveRules, Untouched
<1>8. ASSUME NEW p \in Procs, StopProxy(p) \/ ShutdownServer(p) PROVE Untouched
  BY <1>8 DEF StopProxy, ShutdownServer, Untouched
<1>9. ASSUME NEW p \in Procs, DelRedirect(p) PROVE Releases(p)
  BY <1>9 DEF DelRedirect, TryDelete, Releases
<1>10. ASSUME NEW p \in Procs, DelReturn(p) PROVE Submits(p)
  BY <1>10 DEF DelReturn, TryDelete, Submits
<1>11. ASSUME NEW p \in Procs, StartBegin(p) \/ MarkSet(p) \/ StartServer(p) PROVE Untouched
  BY <1>11 DEF StartBegin, MarkSet, StartServer, Start, Untouched
<1>12. ASSUME NEW p \in Procs, AddReturn(p) PROVE Exempts(p)
  BY <1>12 DEF AddReturn, Start, Exempts
<1>13. ASSUME NEW p \in Procs, AddRedirect(p) PROVE Redirects(p)
  BY <1>13 DEF AddRedirect, Start, Redirects
<1>14. ASSUME NEW p \in Procs, UndoReturn(p) PROVE FALSE
  BY <1>14 DEF UndoReturn, Start
<1>15. ASSUME NEW p \in Procs, ListenAndServe(p) \/ ProxyStep(p) PROVE Untouched
  BY <1>15 DEF ListenAndServe, ProxyStep, StartListener, Accept, Handle, Handled, Untouched
<1>16. CASE UNCHANGED vars
  BY <1>16 DEF vars, procVars, Untouched
<1> QED
  BY <1>1, <1>2, <1>3, <1>4, <1>5, <1>6, <1>7, <1>8, <1>9, <1>10, <1>11, <1>12, <1>13, <1>14,
     <1>15, <1>16 DEF Next, MainStep, CaptureStep

LEMMA LeftsInit == Init => Lefts
<1> SUFFICES ASSUME Init PROVE Lefts
  OBVIOUS
<1>1. /\ Holders = {} /\ Exempting = {} /\ \A u \in Users : ExemptOf(u) = {}
      /\ chain = <<>> /\ crashes = 0
  BY DEF Init, Holders, Exempting, ExemptOf
<1>2. \A u : CountTo(chain, u, Len(chain)) = 0
  BY <1>1, EmptyCounts, Zenon
<1>3. Len(chain) = 0 /\ Cardinality(Holders) = 0 /\ Cardinality(Exempting) = 0
      /\ \A u \in Users : Cardinality(ExemptOf(u)) = 0
  BY <1>1, EmptyCounts
<1> QED
  BY <1>1, <1>2, <1>3 DEF Lefts, Rules

(* A rule that is there and deleted is one less of its kind.               *)
LEMMA DeleteLess ==
    ASSUME chain \in Seq(Users \cup {Redirect}), NEW rule, Delete(rule),
           CountTo(chain, rule, Len(chain)) >= 1
    PROVE  /\ Len(chain') \in Nat /\ Len(chain) = Len(chain') + 1
           /\ \A x : CountTo(chain, x, Len(chain))
                     = CountTo(chain', x, Len(chain')) + (IF rule = x THEN 1 ELSE 0)
<1>1. PICK n \in Nat, k \in 1..Len(chain) :
         /\ Len(chain) = n + 1 /\ Len(chain') = n
         /\ chain[k] = rule /\ Shrunk(chain, k, chain', n)
  BY DeleteCounts
<1> QED
  BY <1>1 DEF Shrunk

LEMMA LeftsStep ==
    ASSUME Calm
    PROVE  IType /\ Order /\ Counted /\ Lefts /\ [Next]_vars => Lefts'
<1> SUFFICES ASSUME IType, Order, Counted, Lefts, [Next]_vars PROVE Lefts'
  OBVIOUS
<1> DEFINE n    == Len(chain)
           n1   == Len(chain')
           H    == Cardinality(Holders)
           H1   == Cardinality(Holders')
           X    == Cardinality(Exempting)
           X1   == Cardinality(Exempting')
           R(u)  == CountTo(chain, u, n)
           R1(u) == CountTo(chain', u, n1)
           E(u)  == Cardinality(ExemptOf(u))
           E1(u) == Cardinality(ExemptOf(u)')
<1>0. /\ chain \in Seq(Users \cup {Redirect}) /\ n \in Nat
      /\ \A p \in Procs : User[p] \in Users
      /\ \A u \in Users : u # Redirect
      /\ Holders \in SUBSET Procs /\ Exempting \in SUBSET Procs
      /\ \A u \in Users : ExemptOf(u) \in SUBSET Procs
      /\ H \in Nat /\ X \in Nat /\ crashes \in Nat
      /\ \A u \in Users : E(u) \in Nat
  BY ProcsAssumption, BoundsAssumption, ProcSets
     DEF IType, TypeOK, Users, Holders, Exempting, ExemptOf
<1>1. /\ \A u : R(u) \in Nat
      /\ H <= R(Redirect)
      /\ \A u \in Users : E(u) <= R(u)
      /\ n <= H + X + 2 * crashes
  BY <1>0, CountFacts DEF Counted, Lefts, Rules
<1> SUFFICES /\ \A u \in Users : E1(u) <= R1(u)
             /\ n1 <= H1 + X1 + 2 * crashes'
  BY Zenon DEF Lefts, Rules
<1>2. CASE Cleared
  <2>1. \A u \in Users : ExemptOf(u)' = {}
    BY <1>2 DEF Cleared, ExemptOf
  <2>2. \A u : R1(u) = 0
    BY <1>2, EmptyCounts, Zenon DEF Cleared
  <2>3. n1 = 0 /\ H1 = 0 /\ X1 = 0 /\ crashes' = crashes
    BY <1>2, EmptyCounts DEF Cleared
  <2>4. \A u \in Users : E1(u) = 0
    BY <2>1, EmptyCounts
  <2> HIDE DEF n, n1, H, H1, X, X1, R, R1, E, E1
  <2> QED
    BY <1>0, <2>2, <2>3, <2>4
<1>3. CASE Untouched
  <2>1. \A u \in Users : ExemptOf(u)' = ExemptOf(u)
    BY <1>3 DEF Untouched, ExemptOf
  <2> QED
    BY <1>1, <1>3, <2>1 DEF Untouched
<1>4. ASSUME NEW p \in Procs, Crashes(p)
      PROVE  /\ \A u \in Users : E1(u) <= R1(u)
             /\ n1 <= H1 + X1 + 2 * crashes'
  <2>1. ASSUME NEW u \in Users PROVE E1(u) \in Nat /\ E1(u) <= E(u)
    <3>1. ExemptOf(u)' \in SUBSET ExemptOf(u)
      BY <1>4 DEF Crashes, ExemptOf
    <3> QED
      BY <1>0, <3>1, ProcSets
  <2>2. H1 \in Nat /\ H1 >= H - 1 /\ X1 \in Nat /\ X1 >= X - 1
    <3>1. /\ Holders' = Holders \/ (p \in Holders /\ Holders' = Holders \ {p})
          /\ Exempting' = Exempting \/ (p \in Exempting /\ Exempting' = Exempting \ {p})
      BY <1>4 DEF Crashes
    <3>2. H1 = H \/ (H1 = H - 1 /\ H >= 1)
      BY <1>0, <3>1, ProcSets
    <3>3. X1 = X \/ (X1 = X - 1 /\ X >= 1)
      BY <1>0, <3>1, ProcSets
    <3> HIDE DEF H, H1, X, X1
    <3> QED
      BY <1>0, <3>2, <3>3
  <2>3. chain' = chain /\ crashes' = crashes + 1
    BY <1>4 DEF Crashes
  <2>4. n1 = n /\ \A u : R1(u) = R(u)
    BY <2>3
  <2> HIDE DEF n, n1, H, H1, X, X1, R, R1, E, E1
  <2> QED
    BY <1>0, <1>1, <2>1, <2>2, <2>3, <2>4
<1>5. ASSUME NEW p \in Procs, Exempts(p)
      PROVE  /\ \A u \in Users : E1(u) <= R1(u)
             /\ n1 <= H1 + X1 + 2 * crashes'
  <2>1. Grown(chain, User[p], chain')
    BY <1>0, <1>5, AddCounts DEF Exempts
  <2>2. n1 = n + 1 /\ \A u : R1(u) = R(u) + (IF User[p] = u THEN 1 ELSE 0)
    BY <2>1 DEF Grown
  <2>3. H1 = H /\ X1 = X + 1 /\ crashes' = crashes
    BY <1>0, <1>5, ProcSets DEF Exempts
  <2>4. ASSUME NEW u \in Users PROVE E1(u) \in Nat /\ E1(u) <= E(u) + (IF User[p] = u THEN 1 ELSE 0)
    <3>1. ExemptOf(u)' = IF User[p] = u THEN ExemptOf(u) \cup {p} ELSE ExemptOf(u)
      BY <1>5 DEF Exempts, ExemptOf
    <3>2. p \notin ExemptOf(u)
      BY <1>5 DEF Exempts, ExemptOf
    <3> QED
      BY <1>0, <3>1, <3>2, ProcSets
  <2> HIDE DEF n, n1, H, H1, X, X1, R, R1, E, E1
  <2> QED
    BY <1>0, <1>1, <2>2, <2>3, <2>4
<1>6. ASSUME NEW p \in Procs, Redirects(p)
      PROVE  /\ \A u \in Users : E1(u) <= R1(u)
             /\ n1 <= H1 + X1 + 2 * crashes'
  <2>1. Grown(chain, Redirect, chain')
    BY <1>0, <1>6, AddCounts DEF Redirects
  <2>2. n1 = n + 1 /\ \A u \in Users : R1(u) = R(u) + 0
    BY <1>0, <2>1 DEF Grown
  <2>3. H1 = H + 1 /\ X1 = X /\ crashes' = crashes
    BY <1>0, <1>6, ProcSets DEF Redirects
  <2>4. \A u \in Users : E1(u) = E(u)
    BY <1>6 DEF Redirects, ExemptOf
  <2> HIDE DEF n, n1, H, H1, X, X1, R, R1, E, E1
  <2> QED
    BY <1>0, <1>1, <2>2, <2>3, <2>4
<1>7. ASSUME NEW p \in Procs, Releases(p)
      PROVE  /\ \A u \in Users : E1(u) <= R1(u)
             /\ n1 <= H1 + X1 + 2 * crashes'
  <2>1. H1 = H - 1 /\ H >= 1 /\ X1 = X /\ crashes' = crashes
    BY <1>0, <1>7, ProcSets DEF Releases
  <2>2. R(Redirect) >= 1
    <3> HIDE DEF R, H
    <3> QED
      BY <1>0, <1>1, <2>1
  <2>3. n1 \in Nat /\ n = n1 + 1 /\ \A u \in Users : R(u) = R1(u) + 0
    BY <1>0, <1>7, <2>2, DeleteLess DEF Releases
  <2>4. \A u \in Users : E1(u) = E(u) /\ R1(u) \in Nat
    BY <1>7, <2>3, CountFacts DEF Releases, ExemptOf
  <2> HIDE DEF n, n1, H, H1, X, X1, R, R1, E, E1
  <2> QED
    BY <1>0, <1>1, <2>1, <2>3, <2>4
<1>8. ASSUME NEW p \in Procs, Submits(p)
      PROVE  /\ \A u \in Users : E1(u) <= R1(u)
             /\ n1 <= H1 + X1 + 2 * crashes'
  <2>1. X1 = X - 1 /\ X >= 1 /\ H1 = H /\ crashes' = crashes
    BY <1>0, <1>8, ProcSets DEF Submits
  <2>2. p \in ExemptOf(User[p]) /\ User[p] \in Users
    BY <1>0, <1>8 DEF Submits, ExemptOf
  <2>3. E(User[p]) >= 1
    BY <1>0, <2>2, ProcSets
  <2>4. R(User[p]) >= 1
    <3> HIDE DEF R, E
    <3> QED
      BY <1>0, <1>1, <2>2, <2>3
  <2>5. n1 \in Nat /\ n = n1 + 1 /\ \A u : R(u) = R1(u) + (IF User[p] = u THEN 1 ELSE 0)
    BY <1>0, <1>8, <2>4, DeleteLess DEF Submits
  <2>6. ASSUME NEW u \in Users
        PROVE  R1(u) \in Nat /\ E1(u) = E(u) - (IF User[p] = u THEN 1 ELSE 0)
    <3>1. ExemptOf(u)' = IF User[p] = u THEN ExemptOf(u) \ {p} ELSE ExemptOf(u)
      BY <1>8 DEF Submits, ExemptOf
    <3>2. R1(u) \in Nat
      BY <2>5, CountFacts
    <3>3. CASE User[p] = u
      BY <1>0, <2>2, <3>1, <3>2, <3>3, ProcSets
    <3>4. CASE User[p] # u
      BY <1>0, <3>1, <3>2, <3>4
    <3> QED
      BY <3>3, <3>4
  <2> HIDE DEF n, n1, H, H1, X, X1, R, R1, E, E1
  <2> QED
    BY <1>0, <1>1, <2>1, <2>5, <2>6
<1> HIDE DEF n, n1, H, H1, X, X1, R, R1, E, E1
<1> QED
  BY <1>2, <1>3, <1>4, <1>5, <1>6, <1>7, <1>8, CalmChanges

(* RulesRemovedOnStop, the comment of service_linux.go: when commands work *)
(* and no daemon was killed, or stopped while it started, the chain holds  *)
(* two rules for each crash at most once all have stopped, in whatever     *)
(* order they did, as whichever users.                                     *)
THEOREM RulesRemovedOnStopHolds ==
    ASSUME ~CommandsFail, ~SlowStops, ~EarlySignals
    PROVE  Spec => []RulesRemovedOnStop
<1> DEFINE IInv == IType /\ Order /\ Counted /\ Lefts
<1>1. Init => IInv
  BY TypeInit, OrderInit, CountedInit, LeftsInit
<1>2. IInv /\ [Next]_vars => IInv'
  BY TypeStep, OrderStep, CountedStep, LeftsStep DEF Calm
<1>3. IInv => RulesRemovedOnStop
  <2> SUFFICES ASSUME IInv, \A p \in Procs : main[p] = "down"
               PROVE  Len(chain) <= 2 * crashes
    BY DEF RulesRemovedOnStop
  <2>1. Holders = {} /\ Exempting = {}
    BY DEF Order, Holders, Exempting
  <2>2. crashes \in Nat
    BY BoundsAssumption DEF IType, TypeOK
  <2> QED
    BY <2>1, <2>2, EmptyCounts DEF Lefts
<1> QED
  BY <1>1, <1>2, <1>3, PTL DEF Spec
=============================================================================
