----------------------------- MODULE PfCapture -----------------------------
(***************************************************************************)
(* The DNS capture of macOS (internal/capture/capture_darwin.go): Start,   *)
(* in a goroutine of its own, writes an anchor file, appends two lines to  *)
(* the machine's own /etc/pf.conf and has pf load it; Stop, in main,       *)
(* removes the anchor file and has pf load what is left.  The files and    *)
(* the rules of pf outlive the process, os.WriteFile truncates a file      *)
(* before it fills it, and nothing keeps two processes apart.              *)
(***************************************************************************)
EXTENDS Naturals

CONSTANTS
    Procs,          \* runs of the daemon that may exist side by side
    NoProc,
    MaxCrashes,     \* bound: crashes of any process
    Failing         \* whether a command, a read or a write may fail

ASSUME PfAssumption ==
    NoProc \notin Procs /\ Failing \in BOOLEAN /\ MaxCrashes \in Nat

VARIABLES
    anchorFile,     \* /etc/pf.anchors/dnn
    conf,           \* /etc/pf.conf: the machine's own rules, the daemon's lines
    rules,          \* what pf has loaded: the machine's own rules, the redirection
    enabled,        \* pf is switched on
    port,           \* the process listening on 127.0.0.1:5353
    crashes,
    start,          \* where the goroutine of Capture.Start is
    held,           \* pfConf: the content of pf.conf as Start read it, until it is written
    pfSet,
    server,         \* the goroutine of ListenAndServe, "none" until dnsServer is set
    stop,           \* where main is: it runs, or is in Capture.Stop
    spoiled,        \* history: how the machine's rules may have been lost
    abandoned       \* history: a process went without undoing what it did

procVars == <<start, held, pfSet, server, stop>>
pfVars   == <<anchorFile, conf, rules, enabled, port, crashes, procVars, spoiled, abandoned>>

Content == [own : BOOLEAN, ours : 0..2]
Empty   == [own |-> FALSE, ours |-> 0]

PfTypeOK ==
    /\ anchorFile \in {"none", "cut", "whole"}
    /\ conf \in Content
    /\ rules \in [own : BOOLEAN, redirect : BOOLEAN]
    /\ enabled \in BOOLEAN
    /\ port \in Procs \cup {NoProc}
    /\ crashes \in 0..MaxCrashes
    /\ start \in [Procs -> {"off", "anchor", "fillAnchor", "read", "conf", "fillConf", "load",
                            "enable", "serve", "on", "failed"}]
    /\ held \in [Procs -> Content]
    /\ pfSet \in [Procs -> BOOLEAN]
    /\ server \in [Procs -> {"none", "starting", "listening", "over"}]
    /\ stop \in [Procs -> {"down", "run", "server", "rules", "load", "exit", "undone"}]
    /\ spoiled \in BOOLEAN /\ abandoned \in BOOLEAN

PfInit ==
    /\ anchorFile = "none"
    /\ conf = [own |-> TRUE, ours |-> 0]
    /\ rules = [own |-> TRUE, redirect |-> FALSE]
    /\ enabled \in BOOLEAN
    /\ port = NoProc
    /\ crashes = 0
    /\ start = [p \in Procs |-> "off"]
    /\ held = [p \in Procs |-> Empty]
    /\ pfSet = [p \in Procs |-> FALSE]
    /\ server = [p \in Procs |-> "none"]
    /\ stop = [p \in Procs |-> "down"]
    /\ spoiled = FALSE /\ abandoned = FALSE

-----------------------------------------------------------------------------
(* pfctl -f: pf loads pf.conf and, where that says so, the anchor; an anchor
   file that is missing is ignored, as removePF says, and an empty one has
   no rule.  Nobody looks at a failure. *)
Loaded  == [own |-> conf.own, redirect |-> conf.ours > 0 /\ anchorFile = "whole"]
Pfctl(ok) == rules' = IF ok THEN Loaded ELSE rules
Results == IF Failing THEN BOOLEAN ELSE {TRUE}

Freed(p) == port' = IF port = p THEN NoProc ELSE port

(* The end of a process.  What it had begun to write stays cut short. *)
Gone(p) ==
    /\ start' = [start EXCEPT ![p] = "off"]
    /\ held' = [held EXCEPT ![p] = Empty]
    /\ pfSet' = [pfSet EXCEPT ![p] = FALSE]
    /\ server' = [server EXCEPT ![p] = "none"]
    /\ stop' = [stop EXCEPT ![p] = "down"]
    /\ spoiled' = (spoiled \/ start[p] = "fillConf")
    /\ Freed(p)
    /\ UNCHANGED <<anchorFile, conf, rules, enabled>>

-----------------------------------------------------------------------------
(* Capture.Start: setupPF, and then startDNSServer. *)
At(p, from, to) == start[p] = from /\ start' = [start EXCEPT ![p] = to]

Launch(p) ==
    /\ stop[p] = "down"
    /\ stop' = [stop EXCEPT ![p] = "run"]
    /\ start' = [start EXCEPT ![p] = "anchor"]
    /\ UNCHANGED <<anchorFile, conf, rules, enabled, port, crashes, held, pfSet, server,
                   spoiled, abandoned>>

WriteAnchor(p) ==
    /\ \/ At(p, "anchor", "fillAnchor") /\ anchorFile' = "cut"
       \/ At(p, "fillAnchor", "read") /\ anchorFile' = "whole"
       \/ /\ Failing /\ UNCHANGED anchorFile
          /\ At(p, "anchor", "failed") \/ At(p, "fillAnchor", "failed")
    /\ UNCHANGED <<conf, rules, enabled, port, crashes, held, pfSet, server, stop,
                   spoiled, abandoned>>

(* A bug: the lines are added without looking whether they are there. *)
AddsAlways(c) == TRUE
(* The lines are added once: the text is searched for the anchor's name. *)
Adds(c) == c.ours = 0

(* An error is not looked at: what could not be read is taken to be empty. *)
ReadConf(p) ==
    /\ \E c \in {conf} \cup IF Failing THEN {Empty} ELSE {} :
           /\ IF Adds(c)
              THEN At(p, "read", "conf") /\ held' = [held EXCEPT ![p] = c]
              ELSE At(p, "read", "load") /\ UNCHANGED held
           /\ spoiled' = \/ spoiled \/ c # conf
                         \/ \E q \in Procs : start[q] = "fillConf"
    /\ UNCHANGED <<anchorFile, conf, rules, enabled, port, crashes, pfSet, server, stop, abandoned>>

WithOurs(c) == [own |-> c.own, ours |-> c.ours + 1]

WriteConf(p) ==
    /\ \/ At(p, "conf", "fillConf") /\ conf' = Empty /\ UNCHANGED <<held, spoiled>>
       \/ /\ At(p, "fillConf", "load") /\ conf' = WithOurs(held[p])
          /\ held' = [held EXCEPT ![p] = Empty] /\ UNCHANGED spoiled
       \/ /\ Failing /\ UNCHANGED <<conf, held>>
          /\ \/ At(p, "conf", "failed") /\ UNCHANGED spoiled
             \/ At(p, "fillConf", "failed") /\ spoiled' = TRUE
    /\ UNCHANGED <<anchorFile, rules, enabled, port, crashes, pfSet, server, stop, abandoned>>

LoadRules(p) ==
    /\ At(p, "load", "enable")
    /\ \E ok \in Results : Pfctl(ok)
    /\ UNCHANGED <<anchorFile, conf, enabled, port, crashes, held, pfSet, server, stop,
                   spoiled, abandoned>>

(* setupPF switches pf on, and notes that Stop has something to undo. *)
Enable(p) ==
    /\ At(p, "enable", "serve")
    /\ \E ok \in Results : enabled' = (enabled \/ ok)
    /\ pfSet' = [pfSet EXCEPT ![p] = TRUE]
    /\ UNCHANGED <<anchorFile, conf, rules, port, crashes, held, server, stop,
                   spoiled, abandoned>>

(* startDNSServer never fails: it does not wait for the port. *)
StartServer(p) ==
    /\ At(p, "serve", "on")
    /\ server' = [server EXCEPT ![p] = "starting"]
    /\ UNCHANGED <<anchorFile, conf, rules, enabled, port, crashes, held, pfSet, stop,
                   spoiled, abandoned>>

ListenAndServe(p) ==
    /\ server[p] = "starting"
    /\ \/ port = NoProc /\ port' = p /\ server' = [server EXCEPT ![p] = "listening"]
       \/ port # NoProc /\ UNCHANGED port /\ server' = [server EXCEPT ![p] = "over"]
    /\ UNCHANGED <<anchorFile, conf, rules, enabled, crashes, start, held, pfSet, stop,
                   spoiled, abandoned>>

-----------------------------------------------------------------------------
(* main comes to Capture.Stop at any time, Start being through or not. *)
Signal(p) ==
    /\ stop[p] = "run"
    /\ stop' = [stop EXCEPT ![p] = "server"]
    /\ UNCHANGED <<anchorFile, conf, rules, enabled, port, crashes, start, held, pfSet, server,
                   spoiled, abandoned>>

(* Shutdown of a server that has not started fails, and is not looked at. *)
ShutdownServer(p) ==
    /\ stop[p] = "server"
    /\ stop' = [stop EXCEPT ![p] = "rules"]
    /\ IF server[p] = "listening"
       THEN server' = [server EXCEPT ![p] = "over"] /\ Freed(p)
       ELSE UNCHANGED <<server, port>>
    /\ UNCHANGED <<anchorFile, conf, rules, enabled, crashes, start, held, pfSet,
                   spoiled, abandoned>>

(* removePF: nothing to do unless pfSet says so.  The lines stay in pf.conf.
   A bug: the anchor file stays as well. *)
AnchorStays  == UNCHANGED anchorFile
RemoveAnchor == anchorFile' = "none"
RemovePF(p) ==
    /\ stop[p] = "rules"
    /\ IF pfSet[p]
       THEN RemoveAnchor /\ stop' = [stop EXCEPT ![p] = "load"]
       ELSE UNCHANGED anchorFile /\ stop' = [stop EXCEPT ![p] = "exit"]
    /\ UNCHANGED <<conf, rules, enabled, port, crashes, start, held, pfSet, server,
                   spoiled, abandoned>>
UnloadRules(p) ==
    /\ stop[p] = "load"
    /\ \E ok \in Results :
           /\ Pfctl(ok)
           /\ stop' = [stop EXCEPT ![p] = IF ok THEN "undone" ELSE "exit"]
           /\ abandoned' = (abandoned /\ ~(ok /\ ~Loaded.redirect))
    /\ pfSet' = [pfSet EXCEPT ![p] = FALSE]
    /\ UNCHANGED <<anchorFile, conf, enabled, port, crashes, start, held, server, spoiled>>

(* main returns, whatever Start is at. *)
Exit(p) ==
    /\ stop[p] \in {"exit", "undone"}
    /\ Gone(p)
    /\ abandoned' = (abandoned \/ stop[p] = "exit")
    /\ UNCHANGED crashes

Crash(p) ==
    /\ stop[p] # "down" /\ crashes < MaxCrashes
    /\ crashes' = crashes + 1
    /\ Gone(p)
    /\ abandoned' = TRUE

-----------------------------------------------------------------------------
Starting(p) == \/ WriteAnchor(p) \/ ReadConf(p) \/ WriteConf(p) \/ LoadRules(p)
               \/ Enable(p) \/ StartServer(p) \/ ListenAndServe(p)
Stopping(p) == ShutdownServer(p) \/ RemovePF(p) \/ UnloadRules(p) \/ Exit(p)

PfNext == \E p \in Procs : \/ Launch(p) \/ Starting(p)
                         \/ Signal(p) \/ Stopping(p) \/ Crash(p)

-----------------------------------------------------------------------------
(* The machine's own rules stay in pf.conf, and the daemon's lines come into
   it once, through any runs of it.  They are lost in three ways only: pf.conf
   cannot be read or written, a process ends between emptying and filling it,
   or another process reads it in between. *)
UserRulesKept ==
    ~spoiled => /\ \/ conf.own
                   \/ \E p \in Procs : start[p] = "fillConf" /\ held[p].own
                /\ conf.ours <= 1

(* Once all processes are gone nothing is redirected to them, in whatever
   order they started and stopped.  The exception is a process that went
   without undoing what it had done: it crashed, main returned before setupPF
   was through, or pfctl failed; and it lasts until a later Stop undoes it. *)
RedirectUndone ==
    (\A p \in Procs : stop[p] = "down") /\ ~abandoned => ~rules.redirect
=============================================================================
