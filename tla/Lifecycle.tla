----------------------------- MODULE Lifecycle -----------------------------
(***************************************************************************)
(* The life of the daemon on Linux: runForeground of cmd/dnn-daemon starts *)
(* the DNS capture and the proxy in goroutines of their own and, on a      *)
(* signal, stops discovery, the proxy and the capture in that order, while *)
(* those goroutines may still be starting.  What outlives a process is the *)
(* nat OUTPUT chain of the kernel, which the capture edits one iptables    *)
(* command at a time: a process that crashes leaves its rules behind.      *)
(* Several processes may run, the service and one started by hand.         *)
(***************************************************************************)
EXTENDS Integers, Sequences, FiniteSets

CONSTANTS
    Procs,          \* runs of the daemon that may exist side by side
    User,           \* User[p]: the user p runs as
    NoProc, Redirect,
    MaxConns,       \* bound: connections a process handles at a time
    MaxCrashes,     \* bound: crashes of any process
    MaxRules,       \* bound: over a chain this long, only a crashed process is started again
    CommandsFail,   \* whether iptables may fail (no right, the lock is held)
    SlowStops,      \* whether whoever stops a process may lose patience and kill it
    EarlySignals    \* whether a signal may come while the capture is starting

Users == {User[p] : p \in Procs}
Ports == {"https", "http", "ipv6", "dns"}

ASSUME ProcsAssumption == /\ IsFiniteSet(Procs) /\ NoProc \notin Procs /\ Redirect \notin Users
                          /\ {CommandsFail, SlowStops, EarlySignals} \subseteq BOOLEAN
ASSUME BoundsAssumption == MaxConns \in Nat /\ MaxCrashes \in Nat /\ MaxRules \in Nat

VARIABLES
    chain,      \* the rules of nat OUTPUT: a user's RETURN rule, or Redirect
    owner,      \* owner[port]: the process listening on it
    crashes,
    main,       \* where runForeground is
    cap,        \* where the goroutine of Capture.Start is
    prx,        \* where the goroutine of Proxy.Start is
    server,     \* the goroutine of ListenAndServe, "none" until dnsServer is set
    iptablesSet,
    crawling,   \* refreshLoop is inside refreshPool
    accepted,   \* acceptLoop has a connection and has not counted it yet
    open,       \* the WaitGroup of the proxy: handlers running
    ended       \* history: how the last process of each kind ended

procVars == <<main, cap, prx, server, iptablesSet, crawling, accepted, open, ended>>
vars     == <<chain, owner, crashes, procVars>>

Stopping == {"discovery", "proxy", "drain", "capture", "server", "rules",
             "delredirect", "delreturn", "exit"}

TypeOK ==
    /\ chain \in Seq(Users \cup {Redirect})
    /\ owner \in [Ports -> Procs \cup {NoProc}]
    /\ crashes \in 0..MaxCrashes
    /\ main \in [Procs -> {"down", "boot", "run"} \cup Stopping]
    /\ cap \in [Procs -> {"off", "begin", "return", "redirect", "undo", "set",
                          "serve", "on", "failed"}]
    /\ prx \in [Procs -> {"off", "https", "http", "ipv6", "on", "failed"}]
    /\ server \in [Procs -> {"none", "starting", "listening", "failed", "shut"}]
    /\ iptablesSet \in [Procs -> BOOLEAN]
    /\ crawling \in [Procs -> BOOLEAN]
    /\ accepted \in [Procs -> BOOLEAN]
    /\ open \in [Procs -> 0..MaxConns]
    /\ ended \in [Procs -> {"never", "stopped", "killed", "crashed"}]

Init ==
    /\ chain = <<>>
    /\ owner = [s \in Ports |-> NoProc]
    /\ crashes = 0
    /\ main = [p \in Procs |-> "down"]
    /\ cap = [p \in Procs |-> "off"]
    /\ prx = [p \in Procs |-> "off"]
    /\ server = [p \in Procs |-> "none"]
    /\ iptablesSet = [p \in Procs |-> FALSE]
    /\ crawling = [p \in Procs |-> FALSE]
    /\ accepted = [p \in Procs |-> FALSE]
    /\ open = [p \in Procs |-> 0]
    /\ ended = [p \in Procs |-> "never"]

-----------------------------------------------------------------------------
(* iptables -A and -D: -D removes the first rule equal to the one named,
   and changes nothing if there is none.  Bugs: -I for -A; a -D that does
   not name the rule as it was added. *)
Insert(rule) == chain' = <<rule>> \o chain
Add(rule) == chain' = Append(chain, rule)
Delete(rule) ==
    LET at == {i \in 1..Len(chain) : chain[i] = rule}
        k  == CHOOSE i \in at : \A j \in at : i <= j IN
    chain' = IF at = {} THEN chain
             ELSE SubSeq(chain, 1, k - 1) \o SubSeq(chain, k + 1, Len(chain))
DeleteOther(rule) == UNCHANGED chain
(* A -D whose failure nobody looks at. *)
TryDelete(rule) == Delete(rule) \/ (CommandsFail /\ UNCHANGED chain)

(* The first rule of the chain that applies to a query of user u decides. *)
Redirected(u) == \E i \in 1..Len(chain) :
    chain[i] = Redirect /\ \A j \in 1..(i - 1) : chain[j] # u
Redirecting == \E i \in 1..Len(chain) : chain[i] = Redirect

(* The ports of S that p holds are free again; a bug: they are not. *)
Held(p, S)  == owner
Freed(p, S) == [s \in Ports |-> IF s \in S /\ owner[s] = p THEN NoProc ELSE owner[s]]

(* The end of a process: everything of it is gone, except its rules. *)
Gone(p, how) ==
    /\ main' = [main EXCEPT ![p] = "down"]
    /\ cap' = [cap EXCEPT ![p] = "off"]
    /\ prx' = [prx EXCEPT ![p] = "off"]
    /\ server' = [server EXCEPT ![p] = "none"]
    /\ iptablesSet' = [iptablesSet EXCEPT ![p] = FALSE]
    /\ crawling' = [crawling EXCEPT ![p] = FALSE]
    /\ accepted' = [accepted EXCEPT ![p] = FALSE]
    /\ open' = [open EXCEPT ![p] = 0]
    /\ ended' = [ended EXCEPT ![p] = how]
    /\ owner' = Freed(p, Ports)
    /\ UNCHANGED chain

-----------------------------------------------------------------------------
(* runForeground. *)
Launch(p) ==
    /\ main[p] = "down" /\ (Len(chain) < MaxRules \/ ended[p] = "crashed")
    /\ main' = [main EXCEPT ![p] = "boot"]
    /\ UNCHANGED <<chain, owner, crashes, cap, prx, server, iptablesSet, crawling,
                   accepted, open, ended>>

(* The first crawl, the CA, signal.Notify, and then the goroutines. *)
Boot(p) ==
    /\ main[p] = "boot"
    /\ main' = [main EXCEPT ![p] = "run"]
    /\ cap' = [cap EXCEPT ![p] = "begin"]
    /\ prx' = [prx EXCEPT ![p] = "https"]
    /\ UNCHANGED <<chain, owner, crashes, server, iptablesSet, crawling, accepted, open, ended>>

(* A signal that is not handled yet ends the process. *)
BootEnds(p) == EarlySignals /\ main[p] = "boot" /\ Gone(p, "stopped") /\ UNCHANGED crashes

Signal(p) ==
    /\ main[p] = "run" /\ (EarlySignals \/ cap[p] \in {"on", "failed"})
    /\ main' = [main EXCEPT ![p] = "discovery"]
    /\ UNCHANGED <<chain, owner, crashes, cap, prx, server, iptablesSet, crawling,
                   accepted, open, ended>>

(* The refresh of every 24 hours; it ends, its requests having timeouts. *)
Tick(p) ==
    /\ main[p] = "run" /\ ~crawling[p]
    /\ crawling' = [crawling EXCEPT ![p] = TRUE]
    /\ UNCHANGED <<chain, owner, crashes, main, cap, prx, server, iptablesSet,
                   accepted, open, ended>>
RefreshedRunning(p) ==      \* a bug: the end of a crawl is not noticed while stopping
    /\ main[p] = "run" /\ crawling[p]
    /\ crawling' = [crawling EXCEPT ![p] = FALSE]
    /\ UNCHANGED <<chain, owner, crashes, main, cap, prx, server, iptablesSet,
                   accepted, open, ended>>
Refreshed(p) ==
    /\ crawling[p]
    /\ crawling' = [crawling EXCEPT ![p] = FALSE]
    /\ UNCHANGED <<chain, owner, crashes, main, cap, prx, server, iptablesSet,
                   accepted, open, ended>>

(* discovery.Stop waits for refreshLoop. *)
StopDiscovery(p) ==
    /\ main[p] = "discovery" /\ ~crawling[p]
    /\ main' = [main EXCEPT ![p] = "proxy"]
    /\ UNCHANGED <<chain, owner, crashes, cap, prx, server, iptablesSet, crawling,
                   accepted, open, ended>>

(* prx.Stop closes the listeners there are and waits for the handlers. *)
StopProxy(p) ==
    /\ main[p] = "proxy"
    /\ owner' = Freed(p, {"https", "http", "ipv6"})
    /\ main' = [main EXCEPT ![p] = "drain"]
    /\ UNCHANGED <<chain, crashes, cap, prx, server, iptablesSet, crawling,
                   accepted, open, ended>>
Drained(p) ==
    /\ main[p] = "drain" /\ open[p] = 0
    /\ main' = [main EXCEPT ![p] = "capture"]
    /\ UNCHANGED <<chain, owner, crashes, cap, prx, server, iptablesSet, crawling,
                   accepted, open, ended>>

(* dnsCapture.Stop: Shutdown of a server that has not started fails, and
   does not keep it from starting. *)
ShutdownServer(p) ==
    /\ main[p] = "capture"
    /\ IF server[p] = "listening"
       THEN server' = [server EXCEPT ![p] = "shut"] /\ owner' = Freed(p, {"dns"})
       ELSE UNCHANGED <<server, owner>>
    /\ main' = [main EXCEPT ![p] = "rules"]
    /\ UNCHANGED <<chain, crashes, cap, prx, iptablesSet, crawling, accepted, open, ended>>

(* removeIptables: nothing to do unless iptablesSet says so. *)
RemoveRules(p) ==
    /\ main[p] = "rules"
    /\ main' = [main EXCEPT ![p] = IF iptablesSet[p] THEN "delredirect" ELSE "exit"]
    /\ UNCHANGED <<chain, owner, crashes, cap, prx, server, iptablesSet, crawling,
                   accepted, open, ended>>
DelRedirect(p) ==
    /\ main[p] = "delredirect"
    /\ TryDelete(Redirect)
    /\ main' = [main EXCEPT ![p] = "delreturn"]
    /\ UNCHANGED <<owner, crashes, cap, prx, server, iptablesSet, crawling,
                   accepted, open, ended>>
DelReturn(p) ==
    /\ main[p] = "delreturn"
    /\ TryDelete(User[p])
    /\ iptablesSet' = [iptablesSet EXCEPT ![p] = FALSE]
    /\ main' = [main EXCEPT ![p] = "exit"]
    /\ UNCHANGED <<owner, crashes, cap, prx, server, crawling, accepted, open, ended>>

Exit(p) == main[p] = "exit" /\ Gone(p, "stopped") /\ UNCHANGED crashes

(* Any death without a stop: log.Fatalf while booting among them. *)
Crash(p) ==
    /\ main[p] # "down" /\ crashes < MaxCrashes
    /\ Gone(p, "crashed")
    /\ crashes' = crashes + 1

(* A stop that takes too long ends with SIGKILL: systemd's after 90 s. *)
Kill(p) ==
    /\ SlowStops /\ main[p] \in Stopping \ {"exit"}
    /\ Gone(p, "killed") /\ UNCHANGED crashes

Reboot ==
    /\ \A p \in Procs : main[p] = "down"
    /\ chain' = <<>>
    /\ ended' = [p \in Procs |-> "never"]
    /\ UNCHANGED <<owner, crashes, main, cap, prx, server, iptablesSet, crawling,
                   accepted, open>>

-----------------------------------------------------------------------------
(* Capture.Start, in its goroutine. *)
Start(p, from, to) == cap[p] = from /\ cap' = [cap EXCEPT ![p] = to]

StartBegin(p) ==
    /\ Start(p, "begin", "return")
    /\ UNCHANGED <<chain, owner, crashes, main, prx, server, iptablesSet, crawling,
                   accepted, open, ended>>
AddReturn(p) ==
    /\ \/ Start(p, "return", "redirect") /\ Add(User[p])
       \/ CommandsFail /\ Start(p, "return", "failed") /\ UNCHANGED chain
    /\ UNCHANGED <<owner, crashes, main, prx, server, iptablesSet, crawling,
                   accepted, open, ended>>
AddRedirect(p) ==
    /\ \/ Start(p, "redirect", "set") /\ Add(Redirect)
       \/ CommandsFail /\ Start(p, "redirect", "undo") /\ UNCHANGED chain
    /\ UNCHANGED <<owner, crashes, main, prx, server, iptablesSet, crawling,
                   accepted, open, ended>>
UndoReturn(p) ==
    /\ Start(p, "undo", "failed") /\ TryDelete(User[p])
    /\ UNCHANGED <<owner, crashes, main, prx, server, iptablesSet, crawling,
                   accepted, open, ended>>
MarkSet(p) ==
    /\ Start(p, "set", "serve")
    /\ iptablesSet' = [iptablesSet EXCEPT ![p] = TRUE]
    /\ UNCHANGED <<chain, owner, crashes, main, prx, server, crawling, accepted, open, ended>>
(* startDNSServer never fails: it does not wait for the port. *)
StartServer(p) ==
    /\ Start(p, "serve", "on")
    /\ server' = [server EXCEPT ![p] = "starting"]
    /\ UNCHANGED <<chain, owner, crashes, main, prx, iptablesSet, crawling, accepted, open, ended>>

Bind(p, s) == owner[s] = NoProc /\ owner' = [owner EXCEPT ![s] = p]

ListenAndServe(p) ==
    /\ server[p] = "starting"
    /\ \/ Bind(p, "dns") /\ server' = [server EXCEPT ![p] = "listening"]
       \/ /\ owner["dns"] # NoProc /\ UNCHANGED owner
          /\ server' = [server EXCEPT ![p] = "failed"]
    /\ UNCHANGED <<chain, crashes, main, cap, prx, iptablesSet, crawling, accepted, open, ended>>

(* Proxy.Start, in its goroutine: without the IPv6 listener it goes on. *)
AfterBind(s) == CASE s = "https" -> "http" [] s = "http" -> "ipv6" [] s = "ipv6" -> "on"
StartListener(p) ==
    /\ prx[p] \in {"https", "http", "ipv6"}
    /\ LET s == prx[p] IN
       \/ Bind(p, s) /\ prx' = [prx EXCEPT ![p] = AfterBind(s)]
       \/ /\ owner[s] # NoProc /\ UNCHANGED owner
          /\ prx' = [prx EXCEPT ![p] = IF s = "ipv6" THEN "on" ELSE "failed"]
    /\ UNCHANGED <<chain, crashes, main, cap, server, iptablesSet, crawling,
                   accepted, open, ended>>

(* acceptLoop counts a connection some time after it has accepted it. *)
Accept(p) ==
    /\ \E s \in {"https", "http", "ipv6"} : owner[s] = p
    /\ ~accepted[p] /\ open[p] < MaxConns
    /\ accepted' = [accepted EXCEPT ![p] = TRUE]
    /\ UNCHANGED <<chain, owner, crashes, main, cap, prx, server, iptablesSet, crawling,
                   open, ended>>
Handle(p) ==
    /\ accepted[p]
    /\ accepted' = [accepted EXCEPT ![p] = FALSE]
    /\ open' = [open EXCEPT ![p] = @ + 1]
    /\ UNCHANGED <<chain, owner, crashes, main, cap, prx, server, iptablesSet, crawling, ended>>
(* A handler ends when both its peers are done; nothing makes them. *)
Handled(p) ==
    /\ open[p] > 0
    /\ open' = [open EXCEPT ![p] = @ - 1]
    /\ UNCHANGED <<chain, owner, crashes, main, cap, prx, server, iptablesSet, crawling,
                   accepted, ended>>

-----------------------------------------------------------------------------
MainStep(p) == \/ Boot(p) \/ StopDiscovery(p) \/ StopProxy(p) \/ Drained(p)
               \/ ShutdownServer(p) \/ RemoveRules(p) \/ DelRedirect(p) \/ DelReturn(p) \/ Exit(p)
CaptureStep(p) == \/ StartBegin(p) \/ AddReturn(p) \/ AddRedirect(p) \/ UndoReturn(p)
                  \/ MarkSet(p) \/ StartServer(p) \/ ListenAndServe(p)
ProxyStep(p) == StartListener(p) \/ Accept(p) \/ Handle(p) \/ Handled(p)

Next == \/ Reboot
        \/ \E p \in Procs : \/ Launch(p) \/ BootEnds(p) \/ Signal(p) \/ Tick(p) \/ Refreshed(p)
                            \/ MainStep(p) \/ CaptureStep(p) \/ ProxyStep(p)
                            \/ Crash(p) \/ Kill(p)

Spec == Init /\ [][Next]_vars

(* Goroutines run, commands return, a crawl ends; the service is started
   again after it crashed (Restart=on-failure).  Nobody has to end a
   connection. *)
Restart(p) == ended[p] = "crashed" /\ Launch(p)
FairSpec ==
    /\ Spec
    /\ \A p \in Procs : /\ WF_vars(MainStep(p)) /\ WF_vars(CaptureStep(p))
                        /\ WF_vars(Refreshed(p)) /\ WF_vars(Restart(p))

-----------------------------------------------------------------------------
(* capture_linux.go: "Prevents loop: daemon -> 8.8.8.8:53 -> iptables ->
   back to daemon".  A process whose DNS server answers never has its own
   queries redirected, whatever earlier and other processes left behind. *)
NoLoop == \A p \in Procs : server[p] = "listening" => ~Redirected(User[p])

(* service_linux.go: "iptables rules were managed by the daemon and removed
   on stop".  Once all have stopped, in whatever order, the chain holds at
   most the two rules of each process that crashed: one that comes and goes
   later leaves those and takes as many as it brought, -D naming a rule and
   not whose it is. *)
RulesRemovedOnStop ==
    (\A p \in Procs : main[p] = "down") => Len(chain) <= 2 * crashes

(* A crash leaves the DNS queries of the whole machine redirected to a port
   nobody listens on: sooner or later the service is back and listens, or
   someone stops it, or it is back and has failed to add its rules again. *)
Recovers == \A p \in Procs :
    Redirecting /\ ended[p] = "crashed"
        ~> server[p] = "listening" \/ cap[p] = "failed" \/ ended[p] # "crashed"

(* A process that was told to stop ends, unless a connection stays open. *)
ShutdownEnds == \A p \in Procs :
    main[p] = "discovery" ~> main[p] = "down" \/ (main[p] = "drain" /\ open[p] > 0)
=============================================================================
