----------------------------- MODULE DnsConfig -----------------------------
(***************************************************************************)
(* The DNS servers of Windows' network adapters (internal/dnsconfig):      *)
(* SetDNS and EnsureDNS write down what the adapters use and then point    *)
(* them to the daemon; RestoreDNS gives back what was written down.  main  *)
(* calls none of them any more: here somebody calls them in any order, one *)
(* at a time, and may be interrupted between any two commands, while the   *)
(* user changes settings and adapters come and go.                         *)
(***************************************************************************)
EXTENDS Naturals, Sequences

CONSTANTS
    Adapters,
    Dhcp,           \* the adapters that get their addresses by DHCP
    AlwaysReset,    \* the adapters resetAllDaemonDNS takes for Wi-Fi or Ethernet
    Choices,        \* lists of DNS servers that users set
    Offered,        \* the list DHCP offers
    Daemon,         \* localDNS, 127.0.0.1
    Unset,          \* an adapter without DNS servers of its own
    Missing, Cut, NoRecord,
    MaxChanges,     \* bound: changes from outside
    CanFail         \* whether commands, reads and writes may fail

ASSUME DnsAssumption ==
    /\ Dhcp \subseteq Adapters /\ AlwaysReset \subseteq Adapters
    /\ \A c \in Choices \cup {Offered} : Len(c) \in Nat \ {0} /\ \A i \in 1..Len(c) : c[i] # Daemon
    /\ MaxChanges \in Nat /\ CanFail \in BOOLEAN

VARIABLES
    setting,    \* the DNS servers set for an adapter, or Unset
    state,      \* an adapter is connected, there without a connection, or gone
    file,       \* original-dns.json: missing, cut short, or a record of some adapters
    op,         \* where the call in progress is
    ensuring,   \* it is EnsureDNS
    seen,       \* getActiveInterfaces: the settings it found
    todo,       \* adapters of the loop still to come
    batch,      \* adapters to be set, or restored
    merged,     \* the record in hand
    changes,
    orig,       \* history: the setting an adapter had when it was first recorded
    lost,       \* history: the adapters whose record was lost, or never made
    quiet       \* history: the last restore was complete and nothing was changed since

local    == <<ensuring, seen, todo, batch, merged>>
adapters == <<setting, state>>
dnsVars  == <<adapters, file, op, local, changes, orig, lost, quiet>>

Ours     == <<Daemon>>
Settings == {Unset, Ours} \cup Choices \cup {<<c[1]>> : c \in Choices}
DnsOf(a, s) == IF s # Unset THEN s ELSE IF a \in Dhcp THEN Offered ELSE <<>>
Record   == [dns : {<<>>, Offered, Ours} \cup Choices \cup {<<c[1]>> : c \in Choices}, wasDhcp : BOOLEAN]
Records  == [Adapters -> Record \cup {NoRecord}]
Nothing  == [a \in Adapters |-> NoRecord]
Pointed(a) == setting[a] = Ours
Active   == {a \in Adapters : state[a] = "up"}
Present  == {a \in Adapters : state[a] # "gone"}
Outcomes  == IF CanFail THEN BOOLEAN ELSE {TRUE}

ASSUME MarksAssumption ==
    /\ Unset # Ours /\ NoRecord \notin Record \cup Settings
    /\ Missing # Cut /\ Missing \notin Records /\ Cut \notin Records

DnsTypeOK ==
    /\ setting \in [Adapters -> Settings]
    /\ state \in [Adapters -> {"up", "down", "gone"}]
    /\ file \in Records \cup {Missing, Cut}
    /\ op \in {"idle", "next", "merge", "save", "fill", "set", "restore", "sweep", "remove", "reset"}
    /\ ensuring \in BOOLEAN
    /\ seen \in [Adapters -> Settings \cup {NoRecord}]
    /\ todo \in SUBSET Adapters /\ batch \in SUBSET Adapters
    /\ merged \in Records
    /\ changes \in 0..MaxChanges
    /\ orig \in [Adapters -> Settings \cup {NoRecord}]
    /\ lost \in SUBSET Adapters /\ quiet \in BOOLEAN

DnsInit ==
    /\ setting \in [Adapters -> {Unset} \cup Choices]
    /\ state = [a \in Adapters |-> "up"]
    /\ file = Missing
    /\ op = "idle"
    /\ ensuring = FALSE /\ seen = Nothing /\ todo = {} /\ batch = {} /\ merged = Nothing
    /\ changes = 0
    /\ orig = Nothing /\ lost = {} /\ quiet = FALSE

-----------------------------------------------------------------------------
(* Outside: the user sets servers, adapters are plugged and unplugged. *)
Change(a) ==
    /\ changes < MaxChanges /\ changes' = changes + 1
    /\ \/ /\ a \in Present
          /\ \E s \in {Unset} \cup Choices : setting' = [setting EXCEPT ![a] = s]
          /\ UNCHANGED state
       \/ /\ \E x \in {"up", "down", "gone"} : state' = [state EXCEPT ![a] = x]
          /\ UNCHANGED setting
    /\ quiet' = FALSE
    /\ UNCHANGED <<file, op, local, orig, lost>>

-----------------------------------------------------------------------------
(* loadOriginalConfig: a file cut short does not parse, and a good one may
   fail to be read.  SetDNS and EnsureDNS take every error for no record. *)
Loads    == file \notin {Missing, Cut}
Existing == IF Loads THEN file ELSE Nothing
Read(ok) == IF ok THEN Existing ELSE Nothing
RecordOf(a, s) == [dns |-> DnsOf(a, s), wasDhcp |-> a \in Dhcp]

(* mergeInterfaceConfigs; a bug: what is seen now replaces the record. *)
MergeNewest(old, S) == [a \in Adapters |-> IF a \in S THEN RecordOf(a, seen[a]) ELSE old[a]]
Merge(old, S) == [a \in Adapters |->
    IF a \in S /\ old[a] = NoRecord THEN RecordOf(a, seen[a]) ELSE old[a]]

Idle == /\ op' = "idle"
        /\ ensuring' = FALSE /\ seen' = Nothing /\ todo' = {} /\ batch' = {} /\ merged' = Nothing

(* Both begin with getActiveInterfaces.  Where there is no file, all starts
   anew but for the adapters that still point to the daemon. *)
See == /\ op = "idle" /\ Active # {}
       /\ seen' = [a \in Adapters |-> IF a \in Active THEN setting[a] ELSE NoRecord]
       /\ orig' = IF file = Missing THEN Nothing ELSE orig
       /\ lost' = IF file = Missing THEN {a \in lost : Pointed(a)} ELSE lost
       /\ quiet' = FALSE
       /\ merged' = Nothing

SetDNS ==
    /\ See
    /\ ensuring' = FALSE /\ todo' = {} /\ batch' = Active
    /\ op' = "merge"
    /\ UNCHANGED <<adapters, file, changes>>

EnsureDNS ==
    /\ See
    /\ ensuring' = TRUE /\ batch' = {}
    /\ todo' = {a \in Active : ~Pointed(a)}
    /\ op' = "next"
    /\ UNCHANGED <<adapters, file, changes>>

(* The loop of EnsureDNS does everything for one adapter after the other. *)
NextInterface ==
    /\ op = "next"
    /\ IF todo = {} THEN Idle
       ELSE /\ \E a \in todo : batch' = {a} /\ todo' = todo \ {a}
            /\ op' = "merge"
            /\ UNCHANGED <<ensuring, seen, merged>>
    /\ UNCHANGED <<adapters, file, changes, orig, lost, quiet>>

MergeConfigs ==
    /\ op = "merge"
    /\ \E ok \in Outcomes : merged' = Merge(Read(ok), batch)
    /\ op' = "save"
    /\ UNCHANGED <<adapters, file, ensuring, seen, todo, batch, changes, orig, lost, quiet>>

(* saveOriginalConfig empties the file and fills it.  SetDNS gives up when
   that fails, EnsureDNS goes on.  What a failed read left out of the record
   in hand is lost with the first of the two. *)
SaveFails == IF ensuring THEN op' = "set" /\ UNCHANGED local ELSE Idle
SaveOpens ==
    /\ op = "save"
    /\ \/ /\ file' = Cut /\ op' = "fill" /\ UNCHANGED local
          /\ lost' = lost \cup {a \in Adapters : merged[a] # Merge(Existing, batch)[a]}
       \/ /\ CanFail /\ SaveFails /\ UNCHANGED file
          /\ lost' = IF ensuring THEN lost \cup {a \in batch : Existing[a] = NoRecord} ELSE lost
    /\ UNCHANGED <<adapters, changes, orig, quiet>>
InHand == {a \in Adapters : merged[a] # NoRecord}
SaveFills ==
    /\ op = "fill"
    /\ \/ /\ file' = merged /\ op' = "set"
          /\ orig' = [a \in Adapters |-> IF merged[a] = NoRecord THEN NoRecord
                                         ELSE IF orig[a] # NoRecord THEN orig[a] ELSE seen[a]]
          /\ UNCHANGED <<local, lost>>
       \/ CanFail /\ SaveFails /\ lost' = lost \cup InHand /\ UNCHANGED <<file, orig>>
    /\ UNCHANGED <<adapters, changes, quiet>>

(* setInterfaceDNS; a failure is only reported, as that of an adapter that
   has gone. *)
SetInterface ==
    /\ op = "set"
    /\ \/ \E a \in batch, ok \in Outcomes :
              /\ setting' = IF ok /\ a \in Present THEN [setting EXCEPT ![a] = Ours] ELSE setting
              /\ batch' = batch \ {a}
              /\ UNCHANGED <<op, ensuring, seen, todo, merged>>
       \/ /\ batch = {} /\ UNCHANGED setting
          /\ IF ensuring THEN op' = "next" /\ UNCHANGED local ELSE Idle
    /\ UNCHANGED <<state, file, changes, orig, lost, quiet>>

-----------------------------------------------------------------------------
(* RestoreDNS: without a record that can be read the sweep alone.  Names of
   adapters that cannot be listed are no names. *)
RestoreDNS ==
    /\ op = "idle"
    /\ \E ok, listed \in Outcomes :
           /\ merged' = Read(ok)
           /\ op' = IF ok /\ Loads THEN "restore" ELSE "reset"
           /\ batch' = IF listed THEN {a \in Present : Read(ok)[a] # NoRecord} ELSE {}
           /\ quiet' = (Loads /\ ok /\ listed)
    /\ ensuring' = FALSE /\ todo' = {} /\ seen' = Nothing
    /\ UNCHANGED <<adapters, file, changes, orig, lost>>

(* Only the first of the servers an adapter had comes back. *)
Restored(r, s) == IF r.wasDhcp THEN Unset ELSE IF r.dns # <<>> THEN <<r.dns[1]>> ELSE s

RestoreInterface ==
    /\ op = "restore"
    /\ \/ \E a \in batch, ok \in Outcomes :
              /\ IF ok /\ a \in Present
                 THEN setting' = [setting EXCEPT ![a] = Restored(merged[a], @)] /\ UNCHANGED quiet
                 ELSE UNCHANGED setting /\ quiet' = FALSE
              /\ batch' = batch \ {a}
              /\ UNCHANGED op
       \/ batch = {} /\ op' = "sweep" /\ UNCHANGED <<setting, batch, quiet>>
    /\ UNCHANGED <<state, file, ensuring, seen, todo, merged, changes, orig, lost>>

(* resetAllDaemonDNS: what still points to the daemon, and Wi-Fi and Ethernet
   whatever they point to.  The file goes only if it was read. *)
Sweep ==
    /\ op \in {"sweep", "reset"}
    /\ \E ok \in Outcomes :
           /\ setting' = [a \in Adapters |->
                  IF ok /\ a \in Present /\ (Pointed(a) \/ a \in AlwaysReset) THEN Unset ELSE setting[a]]
           /\ quiet' = (quiet /\ ok)
    /\ IF op = "sweep" THEN op' = "remove" /\ UNCHANGED local ELSE Idle
    /\ UNCHANGED <<state, file, changes, orig, lost>>

(* Whatever has failed before, the record goes, or stays if it cannot be
   removed, which nobody is told. *)
Remove ==
    /\ op = "remove"
    /\ \/ file' = Missing /\ lost' = lost \cup {a \in Adapters : Pointed(a)}
       \/ CanFail /\ UNCHANGED <<file, lost>>
    /\ Idle
    /\ UNCHANGED <<adapters, changes, orig, quiet>>

(* The process dies between two commands. *)
Interrupted ==
    /\ op # "idle"
    /\ Idle
    /\ lost' = IF op = "fill" THEN lost \cup InHand ELSE lost
    /\ quiet' = FALSE
    /\ UNCHANGED <<adapters, file, changes, orig>>

-----------------------------------------------------------------------------
Step == \/ SetDNS \/ EnsureDNS \/ NextInterface \/ MergeConfigs \/ SaveOpens \/ SaveFills
        \/ SetInterface \/ RestoreDNS \/ RestoreInterface \/ Sweep \/ Remove

DnsNext == Step \/ Interrupted \/ \E a \in Adapters : Change(a)

-----------------------------------------------------------------------------
(* windows.go: "keep the ORIGINAL saved settings (don't overwrite with
   127.0.0.1)".  Through any calls, failures and interruptions, an adapter that
   points to the daemon has a record, and no record names the daemon, but for
   the adapters of a record that was lost: one that a failed read kept from
   being merged, that a save left cut short or did not make, or that a restore
   threw away although the adapter was not set back. *)
OriginalsKept ==
    LET r == IF op = "fill" THEN merged ELSE Existing IN
    \A a \in Adapters \ lost : /\ Pointed(a) => r[a] # NoRecord
                              /\ r[a] # NoRecord => r[a].dns # Ours

(* What a restore gives back for the setting s an adapter had: DHCP's servers
   to all that have their address from DHCP and to Wi-Fi and Ethernet, the
   first server of its list to another.  One that had no server at all is
   left with what it has. *)
GivenBack(a, s) ==
    IF a \in Dhcp \cup AlwaysReset THEN {Unset}
    ELSE IF s = Unset THEN Settings ELSE {<<s[1]>>}

(* After a restore without a failure no adapter that is there points to the
   daemon; and each that was recorded, and whose record was not lost before,
   has what RestoreDNS gives back for the setting it had when the daemon first
   came, however many calls and interruptions there were in between. *)
RestoreUndoes ==
    quiet /\ op = "idle" =>
        \A a \in Present : /\ ~Pointed(a)
                           /\ a \notin lost /\ orig[a] # NoRecord => setting[a] \in GivenBack(a, orig[a])

(* windows.go:50: "Load existing saved config (if any) and MERGE - don't
   overwrite".  What is about to be saved holds every record there is.  A read
   that fails is taken for no record, and the save overwrites. *)
MergeKeeps ==
    op = "save" => \A a \in Adapters : Existing[a] # NoRecord => merged[a] = Existing[a]
=============================================================================
