---------------------------- MODULE Installation ----------------------------
(***************************************************************************)
(* Installing and uninstalling the daemon: service_linux.go,               *)
(* service_darwin.go and the second half of windows.go, with the local     *)
(* certificate authority they and the daemon keep in two files             *)
(* (generator.go, install_windows.go).                                     *)
(*                                                                         *)
(* Each system runs its own list of steps.  A command may fail, the        *)
(* installer may be killed and the machine may lose power between any two  *)
(* steps, and installers are run again, over whatever is left.             *)
(***************************************************************************)
EXTENDS Naturals, Sequences, FiniteSets

CONSTANTS Systems,     \* the systems that are looked at
          MaxRuns,     \* bound: runs of the installer or uninstaller
          MaxFaults    \* bound: failing commands, kills and power cuts

AllSystems == {"debian", "redhat", "otherLinux", "macos", "windows"}

ASSUME InstallationAssumption ==
    Systems \subseteq AllSystems /\ MaxRuns \in Nat /\ MaxFaults \in Nat

VARIABLES system,
          todo, outcome, clean,   \* the installer: steps left, how it went, no command failed
          nss,                    \* it finds certutil and the user behind sudo
          cert, key,              \* the two files of the authority
          made, fresh, writes,    \* Generate and Save of the installer and of the daemon
          anchor, store, browser, \* what the machine trusts
          binary, unit, enabled, route,
          daemon, signs,          \* the service, and the authority it signs with
          runs, faults

files   == <<cert, key>>
saving  == <<made, fresh, writes>>
trust   == <<anchor, store, browser>>
host    == <<binary, unit, enabled, route>>
svc     == <<daemon, signs>>
run     == <<todo, outcome, clean>>
fixed   == <<system, nss, runs>>
vars    == <<system, todo, outcome, clean, nss, cert, key, made, fresh, writes, anchor,
             store, browser, binary, unit, enabled, route, daemon, signs, runs, faults>>

Savers == {"installer", "daemon"}
CA     == [n : Nat \ {0}, by : Savers]
None   == [n |-> 0, by |-> "none"]
Cut    == [n |-> 0, by |-> "cut"]      \* a file that was truncated and not filled

Linux   == system \in {"debian", "redhat", "otherLinux"}
Windows == system = "windows"

(* Bugs, for the mutants: the new unit is started and not enabled; the certificate is    *)
(* trusted before there is one; the unit is removed and left enabled.      *)
InstallingDisabled ==
    CASE Windows -> <<"open", "create", "clear", "rmCert", "make", "trust", "route", "start">>
      [] Linux   -> <<"copy", "unit", "make", "trust", "browser", "route", "start">>
      [] OTHER   -> <<"copy", "unit", "trust", "route", "start">>
InstallingTrustFirst ==
    CASE Windows -> <<"open", "create", "clear", "rmCert", "trust", "make", "route", "start">>
      [] Linux   -> <<"copy", "unit", "trust", "make", "browser", "route", "enable", "start">>
      [] OTHER   -> <<"copy", "unit", "trust", "route", "start">>
UninstallingEnabled ==
    CASE Windows -> <<"rmRoute", "untrust", "rmCert", "find", "stop", "delete">>
      [] Linux   -> <<"stop", "rmUnit", "rmRoute", "untrust", "rmBrowser", "rmBinary">>
      [] OTHER   -> <<"stop", "rmUnit", "rmRoute", "untrust", "rmBinary">>

Installing ==
    CASE Windows -> <<"open", "create", "clear", "rmCert", "make", "trust", "route", "start">>
      [] Linux   -> <<"copy", "unit", "make", "trust", "browser", "route", "enable", "start">>
      [] OTHER   -> <<"copy", "unit", "trust", "route", "start">>

Uninstalling ==
    CASE Windows -> <<"rmRoute", "untrust", "rmCert", "find", "stop", "delete">>
      [] Linux   -> <<"stop", "disable", "rmUnit", "rmRoute", "untrust", "rmBrowser", "rmBinary">>
      [] OTHER   -> <<"stop", "rmUnit", "rmRoute", "untrust", "rmBinary">>

-----------------------------------------------------------------------------
(* A run of the installer. *)

At(step) == writes["installer"] = <<>> /\ todo # <<>> /\ Head(todo) = step

Goes(ok) == /\ todo' = Tail(todo)
            /\ clean' = (clean /\ ok)
            /\ outcome' = IF Len(todo) > 1 THEN outcome
                          ELSE IF outcome = "installing" THEN "installed" ELSE "uninstalled"
Stops    == todo' = <<>> /\ clean' = FALSE /\ outcome' = "failed"
Fault    == faults < MaxFaults /\ faults' = faults + 1
Pass     == Goes(TRUE) /\ UNCHANGED faults        \* done, or nothing to do
Warns    == Goes(FALSE) /\ Fault                  \* a command failed, the next one runs
Errors   == Stops /\ Fault                        \* a command failed, the function returns
Refuses  == Stops /\ UNCHANGED faults             \* an early return

Begin ==
    /\ todo = <<>>
    /\ runs < MaxRuns
    /\ runs' = runs + 1
    /\ clean' = TRUE
    /\ nss' \in IF Linux THEN BOOLEAN ELSE {FALSE}
    /\ \/ outcome' = "installing" /\ todo' = Installing
       \/ outcome' = "uninstalling" /\ todo' = Uninstalling
    /\ UNCHANGED <<system, files, saving, trust, host, svc, faults>>

-----------------------------------------------------------------------------
(* The authority: Generate, Save, Load and Exists of generator.go.  A file *)
(* is written by truncating and filling it.                                *)

Loads == cert \in CA /\ key \in CA
Exists == cert # None /\ key # None
SaveSteps == <<"openCert", "cert", "openKey", "key">>

Generate(p) ==
    /\ made' = made + 1
    /\ fresh' = [fresh EXCEPT ![p] = [n |-> made + 1, by |-> p]]
    /\ writes' = [writes EXCEPT ![p] = SaveSteps]

Save(p) ==
    /\ writes[p] # <<>>
    /\ LET w == Head(writes[p]) IN
         /\ cert' = CASE w = "openCert" -> Cut [] w = "cert" -> fresh[p] [] OTHER -> cert
         /\ key'  = CASE w = "openKey"  -> Cut [] w = "key"  -> fresh[p] [] OTHER -> key
    /\ writes' = [writes EXCEPT ![p] = Tail(@)]
    /\ UNCHANGED <<fixed, run, faults, made, fresh, trust, host, svc>>

(* What is left of an unfinished Save is on disk. Windows only warns.      *)
SaveFails(p) ==
    /\ writes[p] # <<>>
    /\ Fault
    /\ writes' = [writes EXCEPT ![p] = <<>>]
    /\ IF p = "daemon"
         THEN daemon' = "due" /\ UNCHANGED run
         ELSE /\ IF Windows THEN clean' = FALSE /\ UNCHANGED <<todo, outcome>> ELSE Stops
              /\ UNCHANGED daemon
    /\ UNCHANGED <<fixed, files, made, fresh, trust, host, signs>>

-----------------------------------------------------------------------------
(* The steps of InstallService. *)

Running == daemon \in {"boot", "on"}

(* Linux refuses to write to a program that runs.                          *)
Copy ==
    /\ At("copy")
    /\ \/ ~(Linux /\ Running) /\ binary' = TRUE /\ Pass
       \/ Linux /\ Running /\ Refuses /\ UNCHANGED binary
       \/ Errors /\ UNCHANGED binary
    /\ UNCHANGED <<fixed, files, saving, trust, unit, enabled, route, svc>>

WriteUnit ==
    /\ At("unit")
    /\ \/ unit' = "there" /\ Pass
       \/ Errors /\ UNCHANGED unit
    /\ UNCHANGED <<fixed, files, saving, trust, binary, enabled, route, svc>>

(* A stopped service is deleted, and goes when its last handle is closed;  *)
(* the installer may fall victim to its own taskkill.                      *)
OpenService ==
    /\ At("open")
    /\ \/ unit = "none" /\ UNCHANGED unit /\ (Pass \/ Errors)
       \/ unit # "none" /\ UNCHANGED unit /\ Refuses
       \/ /\ unit = "there" /\ daemon = "off"
          /\ \/ unit' \in {"none", "marked"} /\ Pass
             \/ UNCHANGED unit /\ Errors
    /\ UNCHANGED <<fixed, files, saving, trust, binary, enabled, route, svc>>

CreateService ==
    /\ At("create")
    /\ \/ unit = "none" /\ unit' = "there" /\ Pass
       \/ unit = "marked" /\ Refuses /\ UNCHANGED unit
       \/ Errors /\ UNCHANGED unit
    /\ UNCHANGED <<fixed, files, saving, trust, binary, enabled, route, svc>>

CleanupOldCerts ==
    /\ At("clear")
    /\ \/ store' = {} /\ Pass
       \/ Warns /\ UNCHANGED store
    /\ UNCHANGED <<fixed, files, saving, anchor, browser, host, svc>>

(* Both files are removed if both exist, one after the other.              *)
RemoveCert ==
    /\ At("rmCert")
    /\ \/ Exists /\ cert' = None /\ todo' = <<"rmKey">> \o Tail(todo)
          /\ UNCHANGED <<outcome, clean, faults>>
       \/ Exists /\ Fault /\ clean' = FALSE /\ todo' = <<"rmKey">> \o Tail(todo)
          /\ UNCHANGED <<outcome, cert>>
       \/ ~Exists /\ Pass /\ UNCHANGED cert
    /\ UNCHANGED <<fixed, key, saving, trust, host, svc>>

RemoveKey ==
    /\ At("rmKey")
    /\ \/ key' = None /\ Pass
       \/ Warns /\ UNCHANGED key
    /\ UNCHANGED <<fixed, cert, saving, trust, host, svc>>


(* Windows always makes a new authority; Linux when neither file is there. *)
MakeCA ==
    /\ At("make")
    /\ Pass
    /\ IF Windows \/ (cert = None /\ key = None)
         THEN Generate("installer") ELSE UNCHANGED saving
    /\ UNCHANGED <<fixed, files, trust, host, svc>>

(* update-ca-certificates makes the store what the anchors are.            *)
TrustLinux ==
    /\ system \in {"debian", "redhat"}
    /\ \/ anchor' = (IF cert # None THEN cert ELSE anchor)
          /\ \/ store' = {c \in {anchor'} : c \in CA} /\ Pass
             \/ Errors /\ UNCHANGED store
       \/ Warns /\ store' = {c \in {anchor} : c \in CA} /\ UNCHANGED anchor

TrustMac ==
    /\ system = "macos"
    /\ \/ cert = None /\ Pass /\ UNCHANGED store
       \/ cert = Cut /\ Refuses /\ UNCHANGED store
       \/ cert \in CA /\ store' = store \cup {cert} /\ Pass
       \/ cert # None /\ Errors /\ UNCHANGED store
    /\ UNCHANGED anchor

InstallToStore ==
    /\ Windows
    /\ \/ cert \in CA /\ store' = store \cup {cert} /\ Pass
       \/ cert \notin CA /\ Goes(FALSE) /\ UNCHANGED <<store, faults>>
       \/ Warns /\ UNCHANGED store
    /\ UNCHANGED anchor

InstallCA ==
    /\ At("trust")
    /\ \/ TrustLinux \/ TrustMac \/ InstallToStore
       \/ system = "otherLinux" /\ Pass /\ UNCHANGED <<anchor, store>>
    /\ UNCHANGED <<fixed, files, saving, browser, host, svc>>

InstallNSSCert ==
    /\ At("browser")
    /\ \/ nss /\ cert \in CA /\ browser' = {cert} /\ Pass
       \/ nss /\ cert = Cut /\ browser' = {} /\ Goes(FALSE) /\ UNCHANGED faults
       \/ (~nss \/ cert = None) /\ UNCHANGED browser /\ Pass
       \/ nss /\ cert # None /\ browser' \in {{}, browser} /\ Warns
    /\ UNCHANGED <<fixed, files, saving, anchor, store, host, svc>>

(* On Windows a route that is there makes the first command fail; it is    *)
(* deleted, and the same Cmd run again, which Go refuses ("already         *)
(* started").                                                              *)
Added == ~(Windows /\ route)
AddRoute ==
    /\ At("route")
    /\ \/ route' = Added /\ Pass
       \/ Warns /\ (IF Windows THEN route' = FALSE ELSE UNCHANGED route)
    /\ UNCHANGED <<fixed, files, saving, trust, binary, unit, enabled, svc>>

Enable ==
    /\ At("enable")
    /\ \/ enabled' = TRUE /\ Pass
       \/ Errors /\ UNCHANGED enabled
    /\ UNCHANGED <<fixed, files, saving, trust, binary, unit, route, svc>>

(* launchctl may report a job that is loaded already as an error.          *)
StartService ==
    /\ At("start")
    /\ \/ daemon' = (IF daemon = "off" THEN "due" ELSE daemon) /\ Pass
       \/ system = "macos" /\ daemon # "off" /\ Refuses /\ UNCHANGED daemon
       \/ (IF Windows THEN Warns ELSE Errors) /\ UNCHANGED daemon
    /\ UNCHANGED <<fixed, files, saving, trust, host, signs>>

Install == \/ Copy \/ WriteUnit \/ OpenService \/ CreateService \/ CleanupOldCerts
           \/ RemoveCert \/ RemoveKey \/ MakeCA \/ InstallCA \/ InstallNSSCert
           \/ AddRoute \/ Enable \/ StartService

-----------------------------------------------------------------------------
(* The steps of UninstallService. On Linux and macOS every error is        *)
(* ignored; Windows returns when there is no service or it is marked.      *)

StopService ==
    /\ At("stop")
    /\ \/ daemon' = "off" /\ signs' = None /\ writes' = [writes EXCEPT !["daemon"] = <<>>] /\ Pass
       \/ Warns /\ UNCHANGED <<svc, writes>>
    /\ UNCHANGED <<fixed, files, made, fresh, trust, host>>

Disable ==
    /\ At("disable")
    /\ \/ enabled' = FALSE /\ Pass
       \/ Warns /\ UNCHANGED enabled
    /\ UNCHANGED <<fixed, files, saving, trust, binary, unit, route, svc>>

RemoveUnit ==
    /\ At("rmUnit")
    /\ \/ unit' = "none" /\ Pass
       \/ Warns /\ UNCHANGED unit
    /\ UNCHANGED <<fixed, files, saving, trust, binary, enabled, route, svc>>

RemoveRoute ==
    /\ At("rmRoute")
    /\ \/ route' = FALSE /\ Pass
       \/ Warns /\ UNCHANGED route
    /\ UNCHANGED <<fixed, files, saving, trust, binary, unit, enabled, svc>>

UntrustLinux ==
    /\ Linux
    /\ \/ anchor' = None /\ store' = {} /\ Pass
       \/ anchor' = None /\ UNCHANGED store /\ Warns
       \/ UNCHANGED <<anchor, store>> /\ Warns

(* Mutant: the certificate file goes with the anchor, and the key stays.   *)
UninstallCAFile ==
    /\ At("untrust")
    /\ anchor' = None /\ store' = {} /\ cert' = None
    /\ Pass
    /\ UNCHANGED <<fixed, key, saving, browser, host, svc>>

(* security(1) deletes by name, and not at all when the name is ambiguous. *)
UninstallCA ==
    /\ At("untrust")
    /\ \/ UntrustLinux
       \/ /\ ~Linux
          /\ UNCHANGED anchor
          /\ \/ (Windows \/ Cardinality(store) < 2) /\ store' = {} /\ Pass
             \/ ~Windows /\ Cardinality(store) > 1 /\ Goes(FALSE) /\ UNCHANGED <<store, faults>>
             \/ Warns /\ UNCHANGED store
    /\ UNCHANGED <<fixed, files, saving, browser, host, svc>>

UninstallNSSCert ==
    /\ At("rmBrowser")
    /\ \/ (IF nss THEN browser' = {} ELSE UNCHANGED browser) /\ Pass
       \/ nss /\ Warns /\ UNCHANGED browser
    /\ UNCHANGED <<fixed, files, saving, anchor, store, host, svc>>

RemoveBinary ==
    /\ At("rmBinary")
    /\ \/ binary' = FALSE /\ Pass
       \/ Warns /\ UNCHANGED binary
    /\ UNCHANGED <<fixed, files, saving, trust, unit, enabled, route, svc>>

FindService ==
    /\ At("find")
    /\ \/ unit # "none" /\ Pass
       \/ unit = "none" /\ Refuses
       \/ Errors
    /\ UNCHANGED <<fixed, files, saving, trust, host, svc>>

DeleteService ==
    /\ At("delete")
    /\ \/ unit = "there" /\ unit' = "marked" /\ Pass
       \/ unit # "there" /\ Refuses /\ UNCHANGED unit
       \/ Errors /\ UNCHANGED unit
    /\ UNCHANGED <<fixed, files, saving, trust, binary, enabled, route, svc>>

Uninstall == \/ StopService \/ Disable \/ RemoveUnit \/ RemoveRoute \/ UninstallCA
             \/ UninstallNSSCert \/ RemoveBinary \/ FindService \/ DeleteService

-----------------------------------------------------------------------------
(* The daemon and the machine. *)

(* Mutant: the daemon makes a new authority whenever it boots.             *)
BootGenerates ==
    /\ daemon = "due"
    /\ Windows \/ binary
    /\ CASE Windows -> daemon' = "on" /\ signs' = cert /\ UNCHANGED saving
         [] OTHER   -> daemon' = "boot" /\ UNCHANGED signs /\ Generate("daemon")
    /\ UNCHANGED <<fixed, run, faults, files, trust, host>>

(* LoadOrGenerate; a Windows service only loads, and runs without.         *)
Boot ==
    /\ daemon = "due"
    /\ Windows \/ binary
    /\ \/ /\ Loads \/ Windows
          /\ daemon' = "on" /\ signs' = (IF Loads THEN cert ELSE None) /\ UNCHANGED saving
       \/ /\ ~Loads /\ ~Windows
          /\ daemon' = "boot" /\ UNCHANGED signs /\ Generate("daemon")
    /\ UNCHANGED <<fixed, run, faults, files, trust, host>>

Ready ==
    /\ daemon = "boot"
    /\ writes["daemon"] = <<>>
    /\ daemon' = "on"
    /\ signs' = fresh["daemon"]
    /\ UNCHANGED <<fixed, run, faults, files, saving, trust, host>>

(* The operator stops the service, as INSTALL.md tells them to for a run   *)
(* in the foreground.                                                      *)
Halt ==
    /\ todo = <<>> /\ daemon = "on"
    /\ daemon' = "off" /\ signs' = None
    /\ outcome' = "halted"
    /\ UNCHANGED <<fixed, todo, clean, faults, files, saving, trust, host>>

(* The last handle of a deleted service is closed.                         *)
Vanish ==
    /\ unit = "marked" /\ daemon = "off"
    /\ unit' = "none"
    /\ UNCHANGED <<fixed, run, faults, files, saving, trust, binary, enabled, route, svc>>

Interrupt ==
    /\ todo # <<>>
    /\ Errors
    /\ writes' = [writes EXCEPT !["installer"] = <<>>]
    /\ UNCHANGED <<fixed, files, made, fresh, trust, host, svc>>

Wanted == unit = "there" /\ (Linux => enabled)

PowerCut ==
    /\ Fault
    /\ IF todo = <<>> THEN UNCHANGED run ELSE Stops
    /\ writes' = [p \in Savers |-> <<>>]
    /\ daemon' = (IF Wanted THEN "due" ELSE "off")
    /\ signs' = None
    /\ unit' = (IF unit = "marked" THEN "none" ELSE unit)
    /\ route' = (Windows /\ route)
    /\ UNCHANGED <<fixed, files, made, fresh, trust, binary, enabled>>

-----------------------------------------------------------------------------
(* A foreground run may have made an authority before.                     *)
Init ==
    /\ system \in Systems
    /\ todo = <<>> /\ outcome = "none" /\ clean = TRUE /\ nss = FALSE
    /\ \/ cert = None /\ made = 0
       \/ ~Windows /\ cert = [n |-> 1, by |-> "daemon"] /\ made = 1
    /\ key = cert
    /\ fresh = [p \in Savers |-> None]
    /\ writes = [p \in Savers |-> <<>>]
    /\ anchor = None /\ store = {} /\ browser = {}
    /\ binary = FALSE /\ unit = "none" /\ enabled = FALSE /\ route = FALSE
    /\ daemon = "off" /\ signs = None
    /\ runs = 0 /\ faults = 0

DaemonStep == Save("daemon") \/ Boot \/ Ready
Next == \/ Begin \/ Install \/ Uninstall \/ DaemonStep
        \/ Save("installer") \/ \E p \in Savers : SaveFails(p)
        \/ Halt \/ Vanish \/ Interrupt \/ PowerCut

Spec == Init /\ [][Next]_vars /\ WF_vars(DaemonStep)
-----------------------------------------------------------------------------
(* What an installation promises. *)

(* Type invariant. However often the daemon boots and the installer runs,  *)
(* a new one is made only after a failure, after a stop (of every other    *)
(* run) while the daemon was making one, or, on Windows, by each run.      *)
TypeOK ==
    LET Made == {c \in [n : 1..made, by : Savers] : TRUE} IN
    /\ system \in Systems
    /\ todo \in Seq({Installing[i] : i \in DOMAIN Installing}
                    \cup {Uninstalling[i] : i \in DOMAIN Uninstalling} \cup {"rmKey"})
    /\ outcome \in {"none", "installing", "uninstalling", "installed", "uninstalled", "failed",
                   "halted"}
    /\ (todo = <<>>) <=> outcome \notin {"installing", "uninstalling"}
    /\ {clean, nss, binary, enabled, route} \subseteq BOOLEAN
    /\ {cert, key} \subseteq Made \cup {None, Cut}
    /\ anchor \in Made \cup {None, Cut}
    /\ store \subseteq Made /\ browser \subseteq Made
    /\ fresh \in [Savers -> Made \cup {None}]
    /\ writes \in [Savers -> {SubSeq(SaveSteps, i, 4) : i \in 1..5}]
    /\ unit \in {"none", "there", "marked"}
    /\ daemon \in {"off", "due", "boot", "on"}
    /\ signs \in Made \cup {None}
    /\ runs \in 0..MaxRuns /\ faults \in 0..MaxFaults
    /\ made \in 0..(IF Windows THEN runs ELSE 1 + faults + runs \div 2)

(* Certificate and key are written one after the other, by two programs,   *)
(* and any of them may be cut short: on Linux and macOS whatever Load      *)
(* accepts still is a pair. (On Windows a run that removed one file only   *)
(* and a failing Save can leave a mismatch.)                               *)
PairLoads == ~Windows /\ Loads => cert = key

(* On Linux and macOS an authority that can be loaded is never written     *)
(* over, by boots and runs of either program cut short anywhere: who       *)
(* finds the files unfinished may be writing them beside somebody else,    *)
(* and browsers go on trusting what they were given.                       *)
AuthorityKept == [][~Windows /\ Loads => UNCHANGED files]_vars

(* After an installation in which no command failed, the machine (and the  *)
(* browser of the user who ran it) trusts what the running daemon signs,   *)
(* unless the daemon had to make its authority itself: InstallService does *)
(* not see to that on macOS, nor where one of the two files is there.      *)
SignsTrusted ==
    outcome = "installed" /\ clean /\ daemon = "on"
        /\ system # "otherLinux" /\ signs.by # "daemon"
    => signs \in store /\ (nss => signs \in browser)

(* UninstallService undoes whatever earlier runs left, finished or not: if *)
(* its own commands work nothing of the daemon runs, starts or is trusted. *)
UninstallClean ==
    outcome = "uninstalled" /\ clean
    => /\ daemon = "off" /\ unit # "there" /\ ~binary /\ ~enabled /\ ~route
       /\ store = {} /\ (nss => browser = {})

(* Once installed, the service is brought up, and brought up again after a *)
(* power cut, until somebody runs the installer again.                     *)
Installed == outcome = "installed" /\ clean
ServiceReturns == Installed ~> (daemon = "on" \/ ~Installed)

(* "Valid cert: Browser shows normal HTTPS padlock" (README.md:35), on     *)
(* every system INSTALL.md lists a trust store for.                        *)
PadlockShown == Installed /\ daemon = "on" /\ system # "otherLinux" => signs \in store

(* "Route might already exist, try to delete and re-add" (windows.go:339). *)
RouteThere == Installed /\ Windows => route
=============================================================================
