------------------------ MODULE SystemSettingsProofs ------------------------
(***************************************************************************)
(* What becomes of the settings the daemon borrows, for any processes,     *)
(* adapters and settings, and any number of crashes, changes and failures. *)
(***************************************************************************)
EXTENDS SystemSettings, TLAPS

-----------------------------------------------------------------------------
(* macOS.  Capture.Start and Capture.Stop side by side: Start runs from    *)
(* the launch on, and Stop undoes only what Start is through with.         *)
Stages == \A p \in Procs :
    /\ stop[p] = "down" <=> start[p] = "off"
    /\ pfSet[p] \/ stop[p] \in {"load", "undone"} => start[p] \in {"serve", "on"}

(* The lines are added to a text without them, and unless something went   *)
(* wrong to one with the machine's own rules, which are in the file or are *)
(* about to be written to it.                                              *)
Held ==
    /\ conf.ours <= 1
    /\ \A p \in Procs : start[p] \in {"conf", "fillConf"} => held[p].ours = 0
    /\ ~spoiled =>
          /\ \A p \in Procs : start[p] \in {"conf", "fillConf"} => held[p].own
          /\ conf.own \/ \E p \in Procs : start[p] = "fillConf"

(* Who will undo a redirection that is loaded, or that the files ask for.  *)
Undoers ==
    ~abandoned =>
        /\ rules.redirect => \E p \in Procs : stop[p] \in {"run", "server", "rules", "load", "exit"}
        /\ Loaded.redirect => \E p \in Procs : stop[p] \in {"run", "server", "rules", "exit"}

PfInv == PfTypeOK /\ Stages /\ Held /\ Undoers

-----------------------------------------------------------------------------
(* Windows.  Every record is that of a setting an adapter has had, and the *)
(* adapters in hand have been looked at, or recorded.                      *)
Recorded(rec) ==
    \A a \in Adapters : rec[a] # NoRecord => \E s \in Settings : rec[a] = RecordOf(a, s)

Hands ==
    /\ Recorded(merged) /\ (Loads => Recorded(file))
    /\ op \in {"next", "merge", "save", "fill", "set"} =>
          /\ \A a \in batch \cup todo : seen[a] \in Settings
          /\ ~quiet
    /\ op = "fill" => file = Cut
    /\ op = "restore" => merged = Existing /\ \A a \in batch : merged[a] # NoRecord
    /\ op \in {"restore", "sweep", "remove"} => Loads

(* For an adapter whose record was not lost the file has the record of the *)
(* setting that is remembered as its first one, and that is not ours.      *)
Firsts == [a \in Adapters |-> IF orig[a] = NoRecord THEN NoRecord ELSE RecordOf(a, orig[a])]

KeptFor(a) ==
    /\ op \in {"next", "merge", "save", "set"} \/ (op # "fill" /\ file # Missing)
          => Existing[a] = Firsts[a]
    /\ op = "fill" => merged[a] = Merge(Firsts, batch)[a]
    /\ op = "set" /\ a \in batch => Existing[a] # NoRecord
    /\ (Pointed(a) \/ seen[a] = Ours) /\ op # "fill" => Existing[a] # NoRecord
    /\ (Pointed(a) \/ seen[a] = Ours) /\ op = "fill" => orig[a] # NoRecord
    /\ op \notin {"idle", "sweep", "reset"} \/ file # Missing => orig[a] # Ours
Kept == \A a \in Adapters \ lost : KeptFor(a)

(* How far a restore without a failure has come.                           *)
Given(a) == a \notin lost /\ orig[a] # NoRecord => setting[a] \in GivenBack(a, orig[a])
Restoring ==
    quiet =>
        /\ op = "restore" => \A a \in Present \ batch : Given(a) \/ a \in AlwaysReset
        /\ op = "sweep" => \A a \in Present : Given(a) \/ a \in AlwaysReset
        /\ op \in {"remove", "idle"} => \A a \in Present : ~Pointed(a) /\ Given(a)
        /\ op # "reset"

DnsInv == DnsTypeOK /\ Hands /\ Kept /\ Restoring

IInv == os \in {"darwin", "windows"} /\ PfInv /\ DnsInv

-----------------------------------------------------------------------------
PfStep(p) == Launch(p) \/ Starting(p) \/ Signal(p) \/ Stopping(p) \/ Crash(p)

(* The lines of pf.conf are never more than the two of the type: what is   *)
(* written was read without them.                                          *)
LEMMA PfTypeStep == PfTypeOK /\ Held /\ PfNext => PfTypeOK'
<1> SUFFICES ASSUME PfTypeOK, Held, NEW p \in Procs, PfStep(p)
             PROVE  PfTypeOK'
  BY DEF PfNext, PfStep
<1>1. CASE Launch(p)
  BY <1>1 DEF PfTypeOK, Held, Content, Launch
<1>2. CASE WriteAnchor(p)
  BY <1>2 DEF PfTypeOK, Held, Content, WriteAnchor, At
<1>3. CASE ReadConf(p)
  <2>1. PICK c \in {conf, Empty} :
             /\ \/ At(p, "read", "conf") /\ held' = [held EXCEPT ![p] = c]
                \/ At(p, "read", "load") /\ UNCHANGED held
             /\ spoiled' = \/ spoiled \/ c # conf
                           \/ \E q \in Procs : start[q] = "fillConf"
    BY <1>3 DEF ReadConf
  <2>2. spoiled' \in BOOLEAN
    BY <2>1, Zenon
  <2>3. conf \in Content /\ Empty \in Content
    BY DEF PfTypeOK, Content, Empty
  <2>4. held' \in [Procs -> Content]
    BY <2>1, <2>3 DEF PfTypeOK
  <2> QED
    BY <1>3, <2>1, <2>2, <2>4 DEF PfTypeOK, ReadConf, At
<1>4. CASE WriteConf(p)
  <2>1. Empty \in Content /\ (start[p] = "fillConf" => WithOurs(held[p]) \in Content)
    BY DEF PfTypeOK, Held, Content, Empty, WithOurs
  <2>2. spoiled' = TRUE \/ spoiled' = spoiled
    BY <1>4, Zenon DEF WriteConf
  <2>3. conf' \in Content /\ held' \in [Procs -> Content]
    BY <1>4, <2>1 DEF PfTypeOK, WriteConf, At
  <2> QED
    BY <1>4, <2>2, <2>3 DEF PfTypeOK, WriteConf, At
<1>5. CASE LoadRules(p)
  BY <1>5 DEF PfTypeOK, Held, Content, LoadRules, At, Results, Pfctl, Loaded
<1>6. CASE Enable(p)
  BY <1>6 DEF PfTypeOK, Held, Content, Enable, At, Results
<1>7. CASE StartServer(p)
  BY <1>7 DEF PfTypeOK, Held, Content, StartServer, At
<1>8. CASE ListenAndServe(p)
  BY <1>8 DEF PfTypeOK, Held, Content, ListenAndServe
<1>9. CASE Signal(p)
  BY <1>9 DEF PfTypeOK, Held, Content, Signal
<1>10. CASE ShutdownServer(p)
  BY <1>10 DEF PfTypeOK, Held, Content, ShutdownServer, Freed
<1>11. CASE RemovePF(p)
  BY <1>11 DEF PfTypeOK, Held, Content, RemovePF, RemoveAnchor
<1>12. CASE UnloadRules(p)
  BY <1>12 DEF PfTypeOK, Held, Content, UnloadRules, Results, Pfctl, Loaded
<1>13. CASE Exit(p)
  BY <1>13 DEF PfTypeOK, Held, Content, Exit, Gone, Freed, Empty
<1>14. CASE Crash(p)
  BY PfAssumption, <1>14 DEF PfTypeOK, Held, Content, Crash, Gone, Freed, Empty
<1> QED
  BY <1>1, <1>2, <1>3, <1>4, <1>5, <1>6, <1>7, <1>8, <1>9, <1>10, <1>11, <1>12, <1>13, <1>14 DEF PfStep, Starting, Stopping

(* Start and Stop keep to their order.                                     *)
LEMMA StagesStep == PfTypeOK /\ Stages /\ PfNext => Stages'
<1> SUFFICES ASSUME PfTypeOK, Stages, NEW p \in Procs, PfStep(p)
             PROVE  Stages'
  BY DEF PfNext, PfStep
<1>1. CASE Launch(p)
  BY <1>1 DEF PfTypeOK, Stages, Launch
<1>2. CASE WriteAnchor(p)
  BY <1>2 DEF PfTypeOK, Stages, WriteAnchor, At
<1>3. CASE ReadConf(p)
  BY <1>3 DEF PfTypeOK, Stages, ReadConf, At, Adds, Empty
<1>4. CASE WriteConf(p)
  BY <1>4 DEF PfTypeOK, Stages, WriteConf, At, Empty, WithOurs
<1>5. CASE LoadRules(p)
  BY <1>5 DEF PfTypeOK, Stages, LoadRules, At, Results, Pfctl, Loaded
<1>6. CASE Enable(p)
  BY <1>6 DEF PfTypeOK, Stages, Enable, At, Results
<1>7. CASE StartServer(p)
  BY <1>7 DEF PfTypeOK, Stages, StartServer, At
<1>8. CASE ListenAndServe(p)
  BY <1>8 DEF PfTypeOK, Stages, ListenAndServe
<1>9. CASE Signal(p)
  BY <1>9 DEF PfTypeOK, Stages, Signal
<1>10. CASE ShutdownServer(p)
  BY <1>10 DEF PfTypeOK, Stages, ShutdownServer, Freed
<1>11. CASE RemovePF(p)
  BY <1>11 DEF PfTypeOK, Stages, RemovePF, RemoveAnchor
<1>12. CASE UnloadRules(p)
  BY <1>12 DEF PfTypeOK, Stages, UnloadRules, Results, Pfctl, Loaded
<1>13. CASE Exit(p)
  BY <1>13 DEF PfTypeOK, Stages, Exit, Gone, Freed, Empty
<1>14. CASE Crash(p)
  BY <1>14 DEF PfTypeOK, Stages, Crash, Gone, Freed, Empty
<1> QED
  BY <1>1, <1>2, <1>3, <1>4, <1>5, <1>6, <1>7, <1>8, <1>9, <1>10, <1>11, <1>12, <1>13, <1>14 DEF PfStep, Starting, Stopping

(* Two processes may read, empty and fill the same file: no rule is lost   *)
(* unless the file was read or left empty by then.                         *)
LEMMA HeldStep == PfTypeOK /\ Stages /\ Held /\ PfNext => Held'
<1> SUFFICES ASSUME PfTypeOK, Stages, Held, NEW p \in Procs, PfStep(p)
             PROVE  Held'
  BY DEF PfNext, PfStep
<1>1. CASE Launch(p)
  BY <1>1 DEF PfTypeOK, Stages, Held, Content, Launch
<1>2. CASE WriteAnchor(p)
  BY <1>2 DEF PfTypeOK, Held, Content, WriteAnchor, At
<1>3. CASE ReadConf(p)
  BY <1>3 DEF PfTypeOK, Held, Content, ReadConf, At, Adds, Empty
<1>4. CASE WriteConf(p)
  BY <1>4 DEF PfTypeOK, Held, Content, WriteConf, At, Empty, WithOurs
<1>5. CASE LoadRules(p)
  BY <1>5 DEF PfTypeOK, Held, Content, LoadRules, At, Results, Pfctl, Loaded
<1>6. CASE Enable(p)
  BY <1>6 DEF PfTypeOK, Held, Content, Enable, At, Results
<1>7. CASE StartServer(p)
  BY <1>7 DEF PfTypeOK, Held, Content, StartServer, At
<1>8. CASE ListenAndServe(p)
  BY <1>8 DEF PfTypeOK, Held, Content, ListenAndServe
<1>9. CASE Signal(p)
  BY <1>9 DEF PfTypeOK, Held, Content, Signal
<1>10. CASE ShutdownServer(p)
  BY <1>10 DEF PfTypeOK, Held, Content, ShutdownServer, Freed
<1>11. CASE RemovePF(p)
  BY <1>11 DEF PfTypeOK, Held, Content, RemovePF, RemoveAnchor
<1>12. CASE UnloadRules(p)
  BY <1>12 DEF PfTypeOK, Held, Content, UnloadRules, Results, Pfctl, Loaded
<1>13. CASE Exit(p)
  BY <1>13 DEF PfTypeOK, Held, Content, Exit, Gone, Freed, Empty
<1>14. CASE Crash(p)
  BY <1>14 DEF PfTypeOK, Held, Content, Crash, Gone, Freed, Empty
<1> QED
  BY <1>1, <1>2, <1>3, <1>4, <1>5, <1>6, <1>7, <1>8, <1>9, <1>10, <1>11, <1>12, <1>13, <1>14 DEF PfStep, Starting, Stopping

(* While the redirection stands, whoever brought it in is still to undo    *)
(* it: a process ends after its Stop, or is counted as one that did not.   *)
LEMMA UndoersStep == PfTypeOK /\ Stages /\ Undoers /\ PfNext => Undoers'
<1> SUFFICES ASSUME PfTypeOK, Stages, Undoers, NEW p \in Procs, PfStep(p)
             PROVE  Undoers'
  BY DEF PfNext, PfStep
<1>1. CASE Launch(p)
  BY <1>1 DEF PfTypeOK, Stages, Undoers, Loaded, Launch
<1>2. CASE WriteAnchor(p)
  BY <1>2 DEF PfTypeOK, Stages, Undoers, Loaded, WriteAnchor, At
<1>3. CASE ReadConf(p)
  BY <1>3 DEF PfTypeOK, Stages, Undoers, Loaded, ReadConf, At, Adds, Empty
<1>4. CASE WriteConf(p)
  BY <1>4 DEF PfTypeOK, Stages, Undoers, Loaded, WriteConf, At, Empty, WithOurs
<1>5. CASE LoadRules(p)
  BY <1>5 DEF PfTypeOK, Stages, Undoers, Loaded, LoadRules, At, Results, Pfctl, Loaded
<1>6. CASE Enable(p)
  BY <1>6 DEF PfTypeOK, Stages, Undoers, Loaded, Enable, At, Results
<1>7. CASE StartServer(p)
  BY <1>7 DEF PfTypeOK, Stages, Undoers, Loaded, StartServer, At
<1>8. CASE ListenAndServe(p)
  BY <1>8 DEF PfTypeOK, Stages, Undoers, Loaded, ListenAndServe
<1>9. CASE Signal(p)
  BY <1>9 DEF PfTypeOK, Stages, Undoers, Loaded, Signal
<1>10. CASE ShutdownServer(p)
  BY <1>10 DEF PfTypeOK, Stages, Undoers, Loaded, ShutdownServer, Freed
<1>11. CASE RemovePF(p)
  BY <1>11 DEF PfTypeOK, Stages, Undoers, Loaded, RemovePF, RemoveAnchor
<1>12. CASE UnloadRules(p)
  BY <1>12 DEF PfTypeOK, Stages, Undoers, Loaded, UnloadRules, Results, Pfctl, Loaded
<1>13. CASE Exit(p)
  BY <1>13 DEF PfTypeOK, Stages, Undoers, Loaded, Exit, Gone, Freed, Empty
<1>14. CASE Crash(p)
  BY <1>14 DEF PfTypeOK, Stages, Undoers, Loaded, Crash, Gone, Freed, Empty
<1> QED
  BY <1>1, <1>2, <1>3, <1>4, <1>5, <1>6, <1>7, <1>8, <1>9, <1>10, <1>11, <1>12, <1>13, <1>14 DEF PfStep, Starting, Stopping

(* These are what the properties of the macOS part ask for.                *)
LEMMA PfSafe == PfTypeOK /\ Held /\ Stages /\ Undoers => UserRulesKept /\ RedirectUndone
<1> SUFFICES ASSUME PfTypeOK, Held, Stages, Undoers
             PROVE  UserRulesKept /\ RedirectUndone
  OBVIOUS
<1>1. UserRulesKept
  BY DEF PfTypeOK, Held, UserRulesKept
<1>2. RedirectUndone
  BY DEF PfTypeOK, Undoers, RedirectUndone
<1> QED
  BY <1>1, <1>2

LEMMA PfStart == PfInit => PfInv
<1> SUFFICES ASSUME PfInit
             PROVE  PfInv
  OBVIOUS
<1>1. conf \in Content /\ rules \in [own : BOOLEAN, redirect : BOOLEAN] /\ Empty \in Content
  BY DEF PfInit, Content, Empty
<1>2. PfTypeOK
  <2>1. pfSet \in [Procs -> BOOLEAN] /\ enabled \in BOOLEAN /\ spoiled \in BOOLEAN /\ abandoned \in BOOLEAN
    BY DEF PfInit
  <2>2. held \in [Procs -> Content]
    BY <1>1 DEF PfInit
  <2> QED
    BY PfAssumption, <1>1, <2>1, <2>2 DEF PfInit, PfTypeOK
<1>3. Stages /\ Held
  BY DEF PfInit, Stages, Held
<1>4. Undoers
  BY DEF PfInit, Undoers, Loaded
<1> QED
  BY <1>2, <1>3, <1>4 DEF PfInv

LEMMA PfStutter == PfInv /\ UNCHANGED pfVars => PfInv'
BY DEF PfInv, PfTypeOK, Held, Stages, Undoers, Loaded, pfVars, procVars

LEMMA PfInvStep == PfInv /\ [PfNext]_pfVars => PfInv'
BY PfTypeStep, StagesStep, HeldStep, UndoersStep, PfStutter DEF PfInv

-----------------------------------------------------------------------------
(* What a record holds of a setting, and what comes back of it.            *)
LEMMA RecordFacts ==
    \A a \in Adapters, s \in Settings :
        /\ RecordOf(a, s) \in Record /\ RecordOf(a, s) # NoRecord
        /\ s # NoRecord
        /\ s # Ours => RecordOf(a, s).dns # Ours
        /\ RecordOf(a, s).wasDhcp <=> a \in Dhcp
<1> SUFFICES ASSUME NEW a \in Adapters, NEW s \in Settings
             PROVE  /\ RecordOf(a, s) \in Record /\ RecordOf(a, s) # NoRecord
                    /\ s # NoRecord
                    /\ s # Ours => RecordOf(a, s).dns # Ours
                    /\ RecordOf(a, s).wasDhcp <=> a \in Dhcp
  OBVIOUS
<1>1. DnsOf(a, s) \in {<<>>, Offered, Ours} \cup Choices \cup {<<c[1]>> : c \in Choices}
  BY DEF DnsOf, Settings
<1>2. RecordOf(a, s) \in Record
  BY <1>1 DEF RecordOf, Record
<1>3. RecordOf(a, s) # NoRecord /\ s # NoRecord
  BY <1>2, MarksAssumption
<1>4. Offered # Ours /\ <<>> # Ours
  BY DnsAssumption DEF Ours
<1>5. ASSUME s # Ours PROVE DnsOf(a, s) # Ours
  BY <1>4, <1>5 DEF DnsOf
<1> QED
  BY <1>2, <1>3, <1>5 DEF RecordOf

LEMMA FirstFacts ==
    \A s \in Settings \ {Unset} :
        /\ s # <<>> /\ <<s[1]>> \in Settings
        /\ s # Ours => <<s[1]>> # Ours
<1> SUFFICES ASSUME NEW s \in Settings \ {Unset}
             PROVE  /\ s # <<>> /\ <<s[1]>> \in Settings
                    /\ s # Ours => <<s[1]>> # Ours
  OBVIOUS
<1>1. CASE s = Ours
  BY <1>1 DEF Ours, Settings
<1>2. CASE s \in Choices
  BY <1>2, DnsAssumption DEF Ours, Settings
<1>3. CASE \E c \in Choices : s = <<c[1]>>
  <2>1. PICK c \in Choices : s = <<c[1]>>
    BY <1>3
  <2>2. s[1] = c[1] /\ s # <<>> /\ c[1] # Daemon
    BY <2>1, DnsAssumption
  <2> QED
    BY <2>1, <2>2 DEF Ours, Settings
<1> QED
  BY <1>1, <1>2, <1>3 DEF Settings

LEMMA RestoredFacts ==
    \A a \in Adapters, s \in Settings, t \in Settings :
        /\ Restored(RecordOf(a, s), t) \in Settings
        /\ a \in AlwaysReset \/ Restored(RecordOf(a, s), t) \in GivenBack(a, s)
<1> SUFFICES ASSUME NEW a \in Adapters, NEW s \in Settings, NEW t \in Settings
             PROVE  /\ Restored(RecordOf(a, s), t) \in Settings
                    /\ a \in AlwaysReset \/ Restored(RecordOf(a, s), t) \in GivenBack(a, s)
  OBVIOUS
<1>1. RecordOf(a, s).wasDhcp <=> a \in Dhcp
  BY DEF RecordOf
<1>2. RecordOf(a, s).dns = DnsOf(a, s)
  BY DEF RecordOf
<1>3. CASE a \in Dhcp
  BY <1>1, <1>3 DEF Restored, GivenBack, Settings
<1>4. CASE a \notin Dhcp /\ s = Unset
  BY <1>1, <1>2, <1>4 DEF Restored, GivenBack, DnsOf
<1>5. CASE a \notin Dhcp /\ s # Unset
  BY <1>1, <1>2, <1>5, FirstFacts DEF Restored, GivenBack, DnsOf
<1> QED
  BY <1>3, <1>4, <1>5

(* The record of no adapter, and the one that is read from the file.       *)
LEMMA NothingFacts ==
    /\ Nothing \in Records /\ Nothing \in [Adapters -> Settings \cup {NoRecord}]
    /\ \A a \in Adapters : Nothing[a] = NoRecord
    /\ Recorded(Nothing)
BY DEF Nothing, Records, Recorded

LEMMA ExistingFacts ==
    DnsTypeOK /\ Hands => Existing \in Records /\ Recorded(Existing)
BY NothingFacts DEF DnsTypeOK, Hands, Existing, Loads

LEMMA ReadFacts ==
    DnsTypeOK /\ Hands => \A ok \in BOOLEAN : Read(ok) \in Records /\ Recorded(Read(ok))
BY ExistingFacts, NothingFacts DEF Read

LEMMA IdleFacts ==
    Idle /\ DnsTypeOK =>
        /\ op' = "idle" /\ ensuring' = FALSE /\ todo' = {} /\ batch' = {}
        /\ seen' \in [Adapters -> Settings \cup {NoRecord}]
        /\ merged' \in Records /\ Recorded(merged)'
BY NothingFacts DEF Idle, Recorded

LEMMA SettingsFacts == Unset \in Settings /\ Ours \in Settings /\ Choices \subseteq Settings
BY DEF Settings

(* What is merged is again a record of settings that were seen.            *)
LEMMA MergeFacts ==
    ASSUME DnsTypeOK, Hands, op = "merge"
    PROVE  \A ok \in Outcomes : Merge(Read(ok), batch) \in Records /\ Recorded(Merge(Read(ok), batch))
<1> SUFFICES ASSUME NEW ok \in Outcomes
             PROVE  Merge(Read(ok), batch) \in Records /\ Recorded(Merge(Read(ok), batch))
  OBVIOUS
<1>1. \A a \in batch : seen[a] \in Settings
  BY DEF Hands
<1>2. \A a \in batch : RecordOf(a, seen[a]) \in Record
  BY <1>1, RecordFacts DEF DnsTypeOK
<1>3. Read(ok) \in Records /\ Recorded(Read(ok))
  BY ReadFacts DEF Outcomes
<1>4. Merge(Read(ok), batch) \in Records
  BY <1>2, <1>3 DEF Merge, Records
<1>5. Recorded(Merge(Read(ok), batch))
  BY <1>1, <1>3 DEF Merge, Recorded
<1> QED
  BY <1>4, <1>5

(* The calls of dnsconfig, one by one: types, what is in hand, the record, *)
(* and a restore on its way.                                               *)
LEMMA DnsTypeStep == DnsTypeOK /\ Hands /\ DnsNext => DnsTypeOK'
<1> SUFFICES ASSUME DnsTypeOK, Hands, Step \/ Interrupted \/ \E a \in Adapters : Change(a)
             PROVE  DnsTypeOK'
  BY DEF DnsNext
<1>1. CASE SetDNS
  BY <1>1, IdleFacts, NothingFacts, ExistingFacts DEF DnsTypeOK, Records, SetDNS, local, adapters, See, Active
<1>2. CASE EnsureDNS
  BY <1>2, IdleFacts, NothingFacts, ExistingFacts DEF DnsTypeOK, Records, EnsureDNS, local, adapters, See, Active
<1>3. CASE NextInterface
  BY <1>3, IdleFacts, NothingFacts, ExistingFacts DEF DnsTypeOK, Records, NextInterface, local, adapters
<1>4. CASE MergeConfigs
  <2>1. op = "merge" /\ merged' \in Records
    BY <1>4, MergeFacts DEF MergeConfigs
  <2> QED
    BY <1>4, <2>1 DEF DnsTypeOK, MergeConfigs, local, adapters
<1>5. CASE SaveOpens
  BY <1>5, IdleFacts, NothingFacts, ExistingFacts DEF DnsTypeOK, Records, SaveOpens, local, adapters, SaveFails
<1>6. CASE SaveFills
  BY <1>6, IdleFacts, NothingFacts, ExistingFacts DEF DnsTypeOK, Records, SaveFills, InHand, local, adapters, SaveFails
<1>7. CASE SetInterface
  <2>1. setting' \in [Adapters -> Settings]
    BY <1>7, SettingsFacts DEF DnsTypeOK, SetInterface
  <2> QED
    BY <1>7, <2>1, IdleFacts DEF DnsTypeOK, SetInterface, local
<1>8. CASE RestoreDNS
  <2>1. PICK ok \in Outcomes, listed \in Outcomes :
             /\ merged' = Read(ok)
             /\ op' = IF ok /\ Loads THEN "restore" ELSE "reset"
             /\ batch' = IF listed THEN {a \in Present : Read(ok)[a] # NoRecord} ELSE {}
             /\ quiet' = (Loads /\ ok /\ listed)
    BY <1>8 DEF RestoreDNS
  <2>2. merged' \in Records /\ batch' \in SUBSET Adapters
    BY <2>1, ReadFacts DEF Outcomes, Present
  <2>3. quiet' \in BOOLEAN
    BY <2>1, Zenon
  <2> QED
    BY <1>8, <2>1, <2>2, <2>3, NothingFacts DEF DnsTypeOK, RestoreDNS, adapters
<1>9. CASE RestoreInterface
  <2>1. \A a \in batch : Restored(merged[a], setting[a]) \in Settings
    BY <1>9, RestoredFacts DEF DnsTypeOK, Hands, Recorded, RestoreInterface
  <2>2. setting' \in [Adapters -> Settings]
    BY <1>9, <2>1 DEF DnsTypeOK, RestoreInterface
  <2>3. quiet' = FALSE \/ quiet' = quiet
    BY <1>9, Zenon DEF RestoreInterface
  <2> QED
    BY <1>9, <2>2, <2>3 DEF DnsTypeOK, RestoreInterface
<1>10. CASE Sweep
  <2>1. PICK ok \in Outcomes :
             /\ setting' = [a \in Adapters |->
                    IF ok /\ a \in Present /\ (Pointed(a) \/ a \in AlwaysReset) THEN Unset ELSE setting[a]]
             /\ quiet' = (quiet /\ ok)
    BY <1>10 DEF Sweep
  <2>2. setting' \in [Adapters -> Settings]
    BY <2>1, SettingsFacts DEF DnsTypeOK
  <2>3. quiet' \in BOOLEAN
    BY <2>1, Zenon
  <2> QED
    BY <1>10, <2>2, <2>3, IdleFacts DEF DnsTypeOK, Sweep, local
<1>11. CASE Remove
  BY <1>11, IdleFacts, NothingFacts, ExistingFacts DEF DnsTypeOK, Records, Remove, local, adapters, Pointed
<1>12. CASE Interrupted
  BY <1>12, IdleFacts, NothingFacts, ExistingFacts DEF DnsTypeOK, Records, Interrupted, InHand, local, adapters
<1>13. ASSUME NEW a \in Adapters, Change(a) PROVE DnsTypeOK'
  <2>1. setting' \in [Adapters -> Settings] /\ state' \in [Adapters -> {"up", "down", "gone"}]
    BY <1>13, SettingsFacts DEF DnsTypeOK, Change
  <2>2. changes' \in 0..MaxChanges
    BY <1>13, DnsAssumption DEF DnsTypeOK, Change
  <2> QED
    BY <1>13, <2>1, <2>2 DEF DnsTypeOK, Change, local
<1> QED
  BY <1>1, <1>2, <1>3, <1>4, <1>5, <1>6, <1>7, <1>8, <1>9, <1>10, <1>11, <1>12, <1>13 DEF Step

LEMMA HandsStep == DnsTypeOK /\ Hands /\ DnsNext => Hands'
<1> SUFFICES ASSUME DnsTypeOK, Hands, Step \/ Interrupted \/ \E a \in Adapters : Change(a)
             PROVE  Hands'
  BY DEF DnsNext
<1>1. CASE SetDNS
  BY <1>1, NothingFacts, MarksAssumption DEF DnsTypeOK, Hands, Recorded, Loads, Existing, SetDNS, local, See, Active
<1>2. CASE EnsureDNS
  BY <1>2, NothingFacts, MarksAssumption DEF DnsTypeOK, Hands, Recorded, Loads, Existing, EnsureDNS, local, See, Active
<1>3. CASE NextInterface
  BY <1>3, IdleFacts DEF DnsTypeOK, Hands, Recorded, Loads, Existing, NextInterface, local
<1>4. CASE MergeConfigs
  <2>1. op = "merge" /\ Recorded(merged)'
    BY <1>4, MergeFacts DEF MergeConfigs, Recorded
  <2> QED
    BY <1>4, <2>1 DEF DnsTypeOK, Hands, Recorded, Loads, Existing, MergeConfigs
<1>5. CASE SaveOpens
  BY <1>5, IdleFacts, MarksAssumption DEF DnsTypeOK, Hands, Recorded, Loads, Existing, SaveOpens, local, SaveFails
<1>6. CASE SaveFills
  BY <1>6, IdleFacts DEF DnsTypeOK, Hands, Recorded, Loads, Existing, SaveFills, local, SaveFails
<1>7. CASE SetInterface
  BY <1>7, IdleFacts DEF DnsTypeOK, Hands, Recorded, Loads, Existing, SetInterface, local
<1>8. CASE RestoreDNS
  <2>1. PICK ok \in Outcomes, listed \in Outcomes :
             /\ merged' = Read(ok)
             /\ op' = IF ok /\ Loads THEN "restore" ELSE "reset"
             /\ batch' = IF listed THEN {a \in Present : Read(ok)[a] # NoRecord} ELSE {}
    BY <1>8 DEF RestoreDNS
  <2>2. Recorded(merged)' /\ UNCHANGED file
    BY <1>8, <2>1, ReadFacts DEF RestoreDNS, Outcomes, Recorded
  <2> QED
    BY <2>1, <2>2 DEF Hands, Recorded, Loads, Existing, Read
<1>9. CASE RestoreInterface
  BY <1>9, MarksAssumption DEF DnsTypeOK, Hands, Recorded, Loads, Existing, RestoreInterface, local
<1>10. CASE Sweep
  BY <1>10, IdleFacts DEF DnsTypeOK, Hands, Recorded, Loads, Existing, Sweep, local
<1>11. CASE Remove
  BY <1>11, IdleFacts DEF DnsTypeOK, Hands, Recorded, Loads, Existing, Remove, local
<1>12. CASE Interrupted
  BY <1>12, IdleFacts DEF DnsTypeOK, Hands, Recorded, Loads, Existing, Interrupted, local
<1>13. ASSUME NEW a \in Adapters, Change(a) PROVE Hands'
  BY <1>13 DEF Hands, Recorded, Loads, Existing, Change, local
<1> QED
  BY <1>1, <1>2, <1>3, <1>4, <1>5, <1>6, <1>7, <1>8, <1>9, <1>10, <1>11, <1>12, <1>13 DEF Step

LEMMA KeptStep == DnsTypeOK /\ Hands /\ Kept /\ DnsNext => Kept'
<1> SUFFICES ASSUME DnsTypeOK, Hands, Kept, Step \/ Interrupted \/ \E a \in Adapters : Change(a)
             PROVE  Kept'
  BY DEF DnsNext
<1>0. NoRecord # Ours /\ Unset # Ours /\ NoRecord \notin Settings /\ \A c \in Choices : c # Ours
  BY MarksAssumption, DnsAssumption, SettingsFacts DEF Ours
<1>1. CASE SetDNS
  BY <1>0, <1>1, NothingFacts, MarksAssumption DEF DnsTypeOK, Hands, Kept, KeptFor, Firsts, Existing, Loads, Pointed, SetDNS, local, adapters, See, Active
<1>2. CASE EnsureDNS
  BY <1>0, <1>2, NothingFacts, MarksAssumption DEF DnsTypeOK, Hands, Kept, KeptFor, Firsts, Existing, Loads, Pointed, EnsureDNS, local, adapters, See, Active
<1>3. CASE NextInterface
  BY <1>0, <1>3, NothingFacts, MarksAssumption DEF DnsTypeOK, Hands, Kept, KeptFor, Firsts, Existing, Loads, Pointed, NextInterface, local, adapters, Idle
<1>4. CASE MergeConfigs
  BY <1>0, <1>4, MarksAssumption DEF DnsTypeOK, Hands, Kept, KeptFor, Firsts, Existing, Loads, Pointed, MergeConfigs, adapters
<1>5. CASE SaveOpens
  <2>0. UNCHANGED <<setting, orig>> /\ op = "save"
    BY <1>5 DEF SaveOpens, adapters
  <2>1. ASSUME file' = Cut, op' = "fill", UNCHANGED local,
               lost' = lost \cup {a \in Adapters : merged[a] # Merge(Existing, batch)[a]},
               NEW a \in Adapters \ lost'
        PROVE  KeptFor(a)'
    <3>1. KeptFor(a) /\ merged[a] = Merge(Existing, batch)[a]
      BY <2>1 DEF Kept
    <3>2. Existing[a] = Firsts[a] /\ orig[a] # Ours /\ (Pointed(a) \/ seen[a] = Ours => Existing[a] # NoRecord)
      BY <2>0, <3>1 DEF KeptFor
    <3>3. merged[a] = Merge(Firsts, batch)[a]
      BY <2>1, <3>1, <3>2 DEF Merge
    <3>4. Firsts' = Firsts /\ merged' = merged /\ Pointed(a)' = Pointed(a) /\ seen' = seen
      BY <2>0, <2>1 DEF Firsts, Pointed, local
    <3>5. merged'[a] = Merge(Firsts, batch)'[a]
      BY <2>1, <3>3, <3>4 DEF Merge, local
    <3>6. Pointed(a) \/ seen[a] = Ours => orig[a] # NoRecord
      BY <2>1, <3>2 DEF Firsts
    <3> QED
      BY <2>0, <2>1, <3>2, <3>4, <3>5, <3>6 DEF KeptFor
  <2>2. ASSUME SaveFails, UNCHANGED file, NEW a \in Adapters \ lost',
               lost' = IF ensuring THEN lost \cup {x \in batch : Existing[x] = NoRecord} ELSE lost
        PROVE  KeptFor(a)'
    <3>1. KeptFor(a) /\ (ensuring /\ a \in batch => Existing[a] # NoRecord)
      BY <2>2 DEF Kept
    <3> QED
      BY <1>0, <2>0, <2>2, <3>1, NothingFacts
         DEF KeptFor, SaveFails, Idle, Firsts, Existing, Loads, Pointed, local
  <2> QED
    BY <1>5, <2>1, <2>2 DEF SaveOpens, Kept
<1>6. CASE SaveFills
  <2> SUFFICES ASSUME NEW a \in Adapters \ lost'
               PROVE  KeptFor(a)'
    BY DEF Kept
  <2>1. op = "fill" /\ file = Cut /\ UNCHANGED setting /\ a \notin lost
    BY <1>6 DEF SaveFills, Hands, adapters
  <2>2. /\ merged[a] = Merge(Firsts, batch)[a]
        /\ Pointed(a) \/ seen[a] = Ours => orig[a] # NoRecord
        /\ orig[a] # Ours
    BY <2>1 DEF Kept, KeptFor
  <2>3. /\ a \in batch => seen[a] \in Settings
        /\ orig[a] # NoRecord => orig[a] \in Settings
    BY <2>1 DEF Hands, DnsTypeOK
  <2>4. ASSUME file' = merged, op' = "set", UNCHANGED local,
               orig' = [x \in Adapters |-> IF merged[x] = NoRecord THEN NoRecord
                                           ELSE IF orig[x] # NoRecord THEN orig[x] ELSE seen[x]]
        PROVE  KeptFor(a)'
    <3>1. Existing' = merged /\ seen' = seen
      BY <2>4, MarksAssumption DEF Existing, Loads, DnsTypeOK, local
    <3>2. /\ merged[a] = Firsts'[a]
          /\ orig[a] # NoRecord \/ a \in batch => merged[a] # NoRecord
          /\ orig'[a] # Ours
      <4>1. CASE orig[a] # NoRecord
        BY <2>2, <2>3, <2>4, <4>1, RecordFacts DEF Merge, Firsts
      <4>2. CASE orig[a] = NoRecord /\ a \in batch
        BY <2>2, <2>3, <2>4, <4>2, RecordFacts DEF Merge, Firsts
      <4>3. CASE orig[a] = NoRecord /\ a \notin batch
        BY <1>0, <2>2, <2>4, <4>3 DEF Merge, Firsts
      <4> QED
        BY <4>1, <4>2, <4>3
    <3> QED
      BY <2>1, <2>2, <2>4, <3>1, <3>2 DEF KeptFor, Pointed, local
  <2>5. ASSUME SaveFails, lost' = lost \cup InHand, UNCHANGED <<file, orig>>
        PROVE  KeptFor(a)'
    <3>1. merged[a] = NoRecord
      BY <2>5 DEF InHand
    <3>2. a \notin batch /\ orig[a] = NoRecord
      BY <2>2, <2>3, <3>1, RecordFacts DEF Merge, Firsts
    <3>3. Existing'[a] = NoRecord /\ Firsts'[a] = NoRecord
      BY <2>1, <2>5, <3>2, NothingFacts DEF Existing, Loads, Firsts
    <3> QED
      BY <1>0, <2>1, <2>2, <2>5, <3>2, <3>3, NothingFacts DEF KeptFor, SaveFails, Idle, Pointed, local
  <2> QED
    BY <1>6, <2>4, <2>5 DEF SaveFills
<1>7. CASE SetInterface
  BY <1>0, <1>7, NothingFacts, MarksAssumption DEF DnsTypeOK, Hands, Kept, KeptFor, Firsts, Existing, Loads, Pointed, SetInterface, local, adapters, Idle
<1>8. CASE RestoreDNS
  BY <1>0, <1>8, NothingFacts, MarksAssumption DEF DnsTypeOK, Hands, Kept, KeptFor, Firsts, Existing, Loads, Pointed, RestoreDNS, local, adapters
<1>9. CASE RestoreInterface
  BY <1>0, <1>9, NothingFacts, MarksAssumption DEF DnsTypeOK, Hands, Kept, KeptFor, Firsts, Existing, Loads, Pointed, RestoreInterface, local, adapters
<1>10. CASE Sweep
  BY <1>0, <1>10, NothingFacts, MarksAssumption DEF DnsTypeOK, Hands, Kept, KeptFor, Firsts, Existing, Loads, Pointed, Sweep, local, adapters, Idle
<1>11. CASE Remove
  BY <1>0, <1>11, NothingFacts, MarksAssumption DEF DnsTypeOK, Hands, Kept, KeptFor, Firsts, Existing, Loads, Pointed, Remove, local, adapters, Idle
<1>12. CASE Interrupted
  <2> SUFFICES ASSUME NEW a \in Adapters \ lost'
               PROVE  KeptFor(a)'
    BY DEF Kept
  <2>1. UNCHANGED <<setting, file, orig>> /\ Idle /\ KeptFor(a)
    BY <1>12 DEF Interrupted, Kept, adapters
  <2>2. CASE op # "fill"
    BY <1>0, <2>1, <2>2, NothingFacts DEF KeptFor, Firsts, Existing, Loads, Pointed, Idle
  <2>3. CASE op = "fill"
    <3>1. merged[a] = NoRecord /\ file = Cut
      BY <1>12, <2>3 DEF Interrupted, InHand, Hands
    <3>2. Merge(Firsts, batch)[a] = NoRecord
      BY <2>1, <2>3, <3>1 DEF KeptFor
    <3>3. a \notin batch /\ Firsts[a] = NoRecord
      BY <2>3, <3>2, RecordFacts DEF Merge, Hands
    <3>4. orig[a] = NoRecord
      BY <3>3, RecordFacts DEF Firsts, DnsTypeOK
    <3> QED
      BY <1>0, <2>1, <2>3, <3>1, <3>3, <3>4, NothingFacts, MarksAssumption
         DEF KeptFor, Firsts, Existing, Loads, Pointed, Idle
  <2> QED
    BY <2>2, <2>3
<1>13. ASSUME NEW a \in Adapters, Change(a) PROVE Kept'
  <2>1. UNCHANGED <<file, op, seen, todo, batch, merged, orig, lost>>
    BY <1>13 DEF Change, local
  <2>2. \A x \in Adapters : Pointed(x)' => Pointed(x)
    BY <1>0, <1>13 DEF DnsTypeOK, Pointed, Change
  <2> QED
    BY <2>1, <2>2 DEF Kept, KeptFor, Firsts, Existing, Loads, Merge
<1> QED
  BY <1>1, <1>2, <1>3, <1>4, <1>5, <1>6, <1>7, <1>8, <1>9, <1>10, <1>11, <1>12, <1>13 DEF Step

(* What a sweep takes away from an adapter was not given back to it.       *)
LEMMA SweptFacts ==
    ASSUME NEW a \in Adapters, NEW s \in Settings, s # Ours, NEW t \in GivenBack(a, s),
           t = Ours \/ a \in AlwaysReset
    PROVE  Unset \in GivenBack(a, s)
<1>1. CASE a \in Dhcp \cup AlwaysReset
  BY <1>1 DEF GivenBack
<1>2. CASE a \notin Dhcp \cup AlwaysReset /\ s = Unset
  BY <1>2, SettingsFacts DEF GivenBack
<1>3. CASE a \notin Dhcp \cup AlwaysReset /\ s # Unset
  BY <1>3, FirstFacts DEF GivenBack
<1> QED
  BY <1>1, <1>2, <1>3

LEMMA RestoringStep == DnsTypeOK /\ Hands /\ Kept /\ Restoring /\ DnsNext => Restoring'
<1> SUFFICES ASSUME DnsTypeOK, Hands, Kept, Restoring, Step \/ Interrupted \/ \E a \in Adapters : Change(a),
                    quiet'
             PROVE  Restoring'
  BY DEF DnsNext, Restoring
<1>1. CASE SetDNS \/ EnsureDNS
  BY <1>1 DEF SetDNS, EnsureDNS, See
<1>2. CASE NextInterface \/ MergeConfigs \/ SaveOpens \/ SaveFills \/ SetInterface
  <2>1. quiet' = quiet
    BY <1>2 DEF NextInterface, MergeConfigs, SaveOpens, SaveFills, SetInterface
  <2> QED
    BY <1>2, <2>1 DEF Hands, NextInterface, MergeConfigs, SaveOpens, SaveFills, SetInterface
<1>3. CASE RestoreDNS
  <2>1. Loads /\ batch' = {a \in Present : Existing[a] # NoRecord} /\ op' = "restore"
    BY <1>3 DEF RestoreDNS, Read
  <2>2. UNCHANGED <<setting, state, file, orig, lost>>
    BY <1>3 DEF RestoreDNS, adapters
  <2>3. \A a \in Adapters \ lost : Existing[a] = Firsts[a]
    BY <1>3, <2>1, <2>2 DEF Kept, KeptFor, Loads, RestoreDNS
  <2>4. \A a \in Present \ batch' : a \in lost \/ orig[a] = NoRecord
    BY <2>1, <2>3, RecordFacts DEF Firsts, DnsTypeOK, Present
  <2> QED
    BY <2>1, <2>2, <2>4 DEF Restoring, Loads, Given, Present
<1>4. CASE RestoreInterface
  <2>1. op = "restore" /\ UNCHANGED <<state, file, merged, orig, lost>>
    BY <1>4 DEF RestoreInterface
  <2>2. CASE batch = {} /\ op' = "sweep" /\ UNCHANGED <<setting, batch, quiet>>
    BY <2>1, <2>2 DEF Restoring, Loads, Given, Present
  <2>3. ASSUME NEW a \in batch, a \in Present, batch' = batch \ {a}, UNCHANGED <<op, quiet>>,
               setting' = [setting EXCEPT ![a] = Restored(merged[a], @)]
        PROVE  Restoring'
    <3>1. a \in Adapters /\ setting[a] \in Settings /\ (orig[a] # NoRecord => orig[a] \in Settings)
      BY <2>3 DEF DnsTypeOK
    <3>2. a \notin lost => merged[a] = Firsts[a]
      BY <2>1, <3>1 DEF Kept, KeptFor, Hands, Loads
    <3>3. a \notin lost /\ orig[a] # NoRecord => setting'[a] = Restored(RecordOf(a, orig[a]), setting[a])
      BY <2>3, <3>1, <3>2 DEF Firsts, DnsTypeOK
    <3>4. Given(a)' \/ a \in AlwaysReset
      BY <2>1, <3>1, <3>3, RestoredFacts DEF Given
    <3>5. \A x \in Adapters \ {a} : setting'[x] = setting[x]
      BY <2>3 DEF DnsTypeOK
    <3> QED
      BY <2>1, <2>3, <3>4, <3>5 DEF Restoring, Loads, Given, Present
  <2> QED
    BY <1>4, <2>2, <2>3 DEF RestoreInterface
<1>5. CASE Sweep
  <2>1. /\ quiet /\ setting' = [a \in Adapters |->
               IF a \in Present /\ (Pointed(a) \/ a \in AlwaysReset) THEN Unset ELSE setting[a]]
    BY <1>5 DEF Sweep
  <2>2. op = "sweep" /\ UNCHANGED <<state, file, orig, lost>>
    BY <1>5, <2>1 DEF Sweep, Restoring
  <2>3. Loads /\ \A a \in Present : Given(a) \/ a \in AlwaysReset
    BY <2>1, <2>2 DEF Hands, Restoring
  <2>4. \A a \in Adapters \ lost : orig[a] # Ours /\ (orig[a] # NoRecord => orig[a] \in Settings)
    BY <2>2, <2>3 DEF Kept, KeptFor, Loads, DnsTypeOK
  <2>5. ASSUME NEW a \in Present PROVE ~Pointed(a)' /\ Given(a)'
    <3>1. /\ a \in Adapters /\ setting[a] \in Settings
          /\ setting'[a] = IF Pointed(a) \/ a \in AlwaysReset THEN Unset ELSE setting[a]
      BY <2>1 DEF Present, DnsTypeOK
    <3>2. ~Pointed(a)'
      BY <3>1, MarksAssumption DEF Pointed
    <3>3. CASE a \in AlwaysReset
      BY <2>2, <3>1, <3>2, <3>3 DEF Given, GivenBack
    <3>4. CASE a \notin AlwaysReset /\ ~Pointed(a)
      BY <2>2, <2>3, <3>1, <3>2, <3>4 DEF Given
    <3>5. CASE a \notin AlwaysReset /\ Pointed(a)
      BY <2>2, <2>3, <2>4, <3>1, <3>2, <3>5, SweptFacts DEF Given, Pointed
    <3> QED
      BY <3>3, <3>4, <3>5
  <2>6. op' = "remove"
    BY <1>5, <2>2 DEF Sweep
  <2> QED
    BY <2>2, <2>5, <2>6 DEF Restoring, Present
<1>6. CASE Remove
  BY <1>6 DEF Remove, Idle, Restoring, Given, Present, Pointed, adapters
<1>7. CASE Interrupted
  BY <1>7 DEF Interrupted
<1>8. ASSUME NEW a \in Adapters, Change(a) PROVE Restoring'
  BY <1>8 DEF Change
<1> QED
  BY <1>1, <1>2, <1>3, <1>4, <1>5, <1>6, <1>7, <1>8 DEF Step

-----------------------------------------------------------------------------
(* Initially, and without a step, the DNS part is as it should be.         *)
LEMMA DnsStart == DnsInit => DnsInv
<1> SUFFICES ASSUME DnsInit
             PROVE  DnsInv
  OBVIOUS
<1>1. NoRecord # Ours /\ Unset # Ours /\ \A c \in Choices : c # Ours
  BY MarksAssumption, DnsAssumption, SettingsFacts DEF Ours
<1>2. ~Loads /\ Existing = Nothing /\ \A a \in Adapters : ~Pointed(a)
  BY <1>1 DEF DnsInit, Loads, Existing, Pointed
<1>3. DnsTypeOK
  <2>1. setting \in [Adapters -> Settings]
    BY SettingsFacts DEF DnsInit
  <2>2. changes \in 0..MaxChanges
    BY DnsAssumption DEF DnsInit
  <2> QED
    BY <2>1, <2>2, NothingFacts DEF DnsInit, DnsTypeOK
<1>4. Hands
  BY <1>2, NothingFacts DEF DnsInit, Hands
<1>5. Kept
  BY <1>1, <1>2, NothingFacts, MarksAssumption DEF DnsInit, Kept, KeptFor
<1>6. Restoring
  BY DEF DnsInit, Restoring
<1> QED
  BY <1>3, <1>4, <1>5, <1>6 DEF DnsInv

LEMMA DnsStutter == DnsInv /\ UNCHANGED dnsVars => DnsInv'
<1> SUFFICES ASSUME DnsInv, UNCHANGED dnsVars
             PROVE  DnsInv'
  OBVIOUS
<1>1. UNCHANGED <<setting, state, file, op, ensuring, seen, todo, batch, merged, changes, orig, lost, quiet>>
  BY DEF dnsVars, adapters, local
<1> QED
  BY <1>1 DEF DnsInv, DnsTypeOK, Hands, Recorded, Loads, Kept, KeptFor, Existing, Firsts, Merge, Pointed,
              Restoring, Given, Present

LEMMA DnsInvStep == DnsInv /\ [DnsNext]_dnsVars => DnsInv'
BY DnsTypeStep, HandsStep, KeptStep, RestoringStep, DnsStutter DEF DnsInv

(* These are what the properties of the Windows part ask for.              *)
LEMMA DnsSafe == DnsInv => OriginalsKept /\ RestoreUndoes
<1> SUFFICES ASSUME DnsInv
             PROVE  OriginalsKept /\ RestoreUndoes
  OBVIOUS
<1>1. DnsTypeOK /\ Hands /\ Kept /\ Restoring
  BY DEF DnsInv
<1>2. RestoreUndoes
  BY <1>1 DEF Restoring, RestoreUndoes, Given
<1>3. OriginalsKept
  <2> SUFFICES ASSUME NEW a \in Adapters \ lost
               PROVE  LET r == IF op = "fill" THEN merged ELSE Existing IN
                      /\ Pointed(a) => r[a] # NoRecord
                      /\ r[a] # NoRecord => r[a].dns # Ours
    BY DEF OriginalsKept
  <2>1. KeptFor(a) /\ (orig[a] # NoRecord => orig[a] \in Settings)
    BY <1>1 DEF Kept, DnsTypeOK
  <2>2. CASE op = "fill"
    <3>1. merged[a] = Merge(Firsts, batch)[a] /\ orig[a] # Ours
      BY <2>1, <2>2 DEF KeptFor
    <3>2. a \in batch => seen[a] \in Settings
      BY <1>1, <2>2 DEF Hands
    <3>3. Pointed(a) \/ seen[a] = Ours => orig[a] # NoRecord
      BY <2>1, <2>2 DEF KeptFor
    <3> QED
      BY <2>1, <2>2, <3>1, <3>2, <3>3, RecordFacts DEF Merge, Firsts
  <2>3. CASE op # "fill"
    <3>1. Pointed(a) => Existing[a] # NoRecord
      BY <2>1, <2>3 DEF KeptFor
    <3>2. CASE Existing[a] = Firsts[a] /\ orig[a] # Ours
      BY <2>1, <2>3, <3>1, <3>2, RecordFacts DEF Firsts
    <3>3. CASE Existing[a] = NoRecord
      BY <2>3, <3>1, <3>3
    <3> QED
      BY <2>1, <2>3, <3>2, <3>3, NothingFacts DEF KeptFor, Existing, Loads
  <2> QED
    BY <2>2, <2>3
<1> QED
  BY <1>2, <1>3

LEMMA Invariant == Spec => []IInv
<1>1. Init => IInv
  BY PfStart, DnsStart DEF Init, IInv
<1>2. IInv /\ [Next]_vars => IInv'
  <2> SUFFICES ASSUME IInv, [Next]_vars
               PROVE  IInv'
    OBVIOUS
  <2>1. [PfNext]_pfVars /\ [DnsNext]_dnsVars /\ UNCHANGED os
    BY DEF Next, Darwin, Windows, vars
  <2> QED
    BY <2>1, PfInvStep, DnsInvStep DEF IInv
<1> QED
  BY <1>1, <1>2, PTL DEF Spec

(* The variables of capture_darwin.go and dnsconfig keep their types.      *)
THEOREM TypeCorrect == Spec => []TypeOK
<1>1. IInv => TypeOK
  BY DEF IInv, PfInv, DnsInv, TypeOK
<1> QED
  BY <1>1, Invariant, PTL

(* Whatever processes and calls there are, in whatever order and however   *)
(* they end: pf.conf keeps the machine's own rules, with the daemon's      *)
(* lines once, unless a read or a write of it failed or was cut short; and *)
(* an adapter that points to the daemon has a record with its original     *)
(* servers, unless a failed read or save, or a restore that could not set  *)
(* the adapter back, lost the record of this adapter.                      *)
THEOREM OwnSettingsKeptHolds == Spec => []OwnSettingsKept
<1>1. IInv => OwnSettingsKept
  BY PfSafe, DnsSafe DEF IInv, PfInv, OwnSettingsKept
<1> QED
  BY <1>1, Invariant, PTL

(* What stops or restores without a failure leaves nothing redirected to   *)
(* the daemon; each adapter whose record was not lost before gets what     *)
(* RestoreDNS gives back for the servers it had: DHCP's, or its first one. *)
THEOREM UndoneHolds == Spec => []Undone
<1>1. IInv => Undone
  BY PfSafe, DnsSafe DEF IInv, PfInv, Undone
<1> QED
  BY <1>1, Invariant, PTL
=============================================================================
