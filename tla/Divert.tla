------------------------------- MODULE Divert -------------------------------
(***************************************************************************)
(* The Windows service (windows.go, Execute) and its packet capture        *)
(* (capture_windows.go): one goroutine takes every outbound DNS packet of  *)
(* the machine from the WinDivert driver, one at a time, and hands it back *)
(* or answers it.  The lookups of the daemon itself pass the same filter.  *)
(* What is cached and trusted on the way is in CertTrust.                  *)
(***************************************************************************)
EXTENDS Naturals, Sequences, FiniteSets

CONSTANTS Packets,     \* outbound DNS packets of applications
          Kind,        \* [Packets -> {"other", "address", "unsupported"}]
          Lookup,      \* the daemon's lookup of a node's host
          MaxForgets,  \* bound: times the host has to be looked up again
          MaxConns     \* bound: connections open at the proxy

ASSUME DivertAssumption ==
    /\ Kind \in [Packets -> {"other", "address", "unsupported"}]
    /\ Lookup \notin Packets
    /\ MaxForgets \in Nat /\ MaxConns \in Nat

VARIABLES exec,             \* where Execute is
          handle, running,  \* the WinDivert handle, Capture.running
          loop, packet,     \* captureLoop, and what it works on
          queue,            \* in the driver
          fate,             \* what became of each packet
          known, forgets,   \* a node can be asked without a lookup
          proxy, conns

vars == <<exec, handle, running, loop, packet, queue, fate, known, forgets, proxy, conns>>

All == Packets \cup {Lookup}

(* The states the service reports, by the place in Execute.                *)
Status ==
    CASE exec \in {"new", "start", "proxy"} -> "StartPending"
      [] exec = "running"                   -> "Running"
      [] exec = "end"                       -> "Stopped"
      [] OTHER                              -> "StopPending"

-----------------------------------------------------------------------------
(* The network: a packet is diverted while a handle is open.               *)

Sent(p) == IF handle = "open"
             THEN queue' = Append(queue, p) /\ fate' = [fate EXCEPT ![p] = "queued"]
             ELSE UNCHANGED queue /\ fate' = [fate EXCEPT ![p] = "passed"]

Query(p) ==
    /\ p \in Packets /\ fate[p] = "none"
    /\ Sent(p)
    /\ UNCHANGED <<exec, handle, running, loop, packet, known, forgets, proxy, conns>>

Reply ==
    /\ fate[Lookup] \in {"passed", "lost", "expired"}
    /\ known' = (known \/ fate[Lookup] = "passed")
    /\ fate' = [fate EXCEPT ![Lookup] = "none"]
    /\ UNCHANGED <<exec, handle, running, loop, packet, queue, forgets, proxy, conns>>

(* The driver keeps a packet for two seconds, which a resolution exceeds.  *)
Expire ==
    /\ loop \in {"resolve", "verify"} /\ queue # <<>>
    /\ queue' = Tail(queue)
    /\ fate' = [fate EXCEPT ![Head(queue)] = "expired"]
    /\ UNCHANGED <<exec, handle, running, loop, packet, known, forgets, proxy, conns>>

Forget ==
    /\ known /\ forgets < MaxForgets
    /\ known' = FALSE /\ forgets' = forgets + 1
    /\ UNCHANGED <<exec, handle, running, loop, packet, queue, fate, proxy, conns>>

Connect ==
    /\ proxy = "on" /\ conns < MaxConns
    /\ \E p \in Packets : fate[p] = "answered"
    /\ conns' = conns + 1
    /\ UNCHANGED <<exec, handle, running, loop, packet, queue, fate, known, forgets, proxy>>

Disconnect ==
    /\ conns > 0
    /\ conns' = conns - 1
    /\ UNCHANGED <<exec, handle, running, loop, packet, queue, fate, known, forgets, proxy>>

-----------------------------------------------------------------------------
(* captureLoop *)

CheckRunning ==
    /\ loop = "check"
    /\ loop' = (IF running THEN "recv" ELSE "done")
    /\ UNCHANGED <<exec, handle, running, packet, queue, fate, known, forgets, proxy, conns>>

(* Mutant: the packet stays with the driver as well.                       *)
RecvCopies ==
    /\ loop = "recv" /\ handle = "open" /\ queue # <<>>
    /\ packet' = Head(queue)
    /\ fate' = [fate EXCEPT ![Head(queue)] = "held"]
    /\ loop' = "process"
    /\ UNCHANGED <<exec, handle, running, queue, known, forgets, proxy, conns>>

Recv ==
    /\ loop = "recv" /\ handle = "open" /\ queue # <<>>
    /\ packet' = Head(queue) /\ queue' = Tail(queue)
    /\ fate' = [fate EXCEPT ![Head(queue)] = "held"]
    /\ loop' = "process"
    /\ UNCHANGED <<exec, handle, running, known, forgets, proxy, conns>>

RecvFails ==
    /\ loop = "recv" /\ handle # "open"
    /\ loop' = "check"
    /\ UNCHANGED <<exec, handle, running, packet, queue, fate, known, forgets, proxy, conns>>

(* WinDivertSend and the next turn; on a closed handle the packet is gone. *)
Inject(how) ==
    /\ fate' = [fate EXCEPT ![packet] = IF handle = "open" THEN how ELSE "lost"]
    /\ loop' = "check"
    /\ packet' = Lookup

ProcessPacket ==
    /\ loop = "process"
    /\ IF packet = Lookup \/ Kind[packet] = "other"
         THEN Inject("passed")
         ELSE loop' = "resolve" /\ UNCHANGED <<packet, fate>>
    /\ UNCHANGED <<exec, handle, running, queue, known, forgets, proxy, conns>>

(* Resolve inside handleDNN: a host that is not known is looked up, which  *)
(* takes another turn of this loop; the timer of the resolver ends it.     *)
LookUp ==
    /\ loop = "resolve" /\ ~known /\ fate[Lookup] = "none"
    /\ Sent(Lookup)
    /\ UNCHANGED <<exec, handle, running, loop, packet, known, forgets, proxy, conns>>

Resolved ==
    /\ loop = "resolve" /\ known
    /\ loop' = "verify"
    /\ UNCHANGED <<exec, handle, running, packet, queue, fate, known, forgets, proxy, conns>>

(* Mutant: a failed resolution returns without handing the packet back.    *)
ResolveDrops ==
    /\ loop = "resolve"
    /\ fate' = [fate EXCEPT ![packet] = "lost"]
    /\ loop' = "check"
    /\ packet' = Lookup
    /\ UNCHANGED <<exec, handle, running, queue, known, forgets, proxy, conns>>

(* Mutant: without the timer only an answer of a node ends a resolution.   *)
ResolveUntilAnswer ==
    /\ loop = "resolve" /\ known
    /\ Inject("passed")
    /\ UNCHANGED <<exec, handle, running, queue, known, forgets, proxy, conns>>

ResolveFails ==
    /\ loop = "resolve"
    /\ Inject("passed")
    /\ UNCHANGED <<exec, handle, running, queue, known, forgets, proxy, conns>>

(* The rest of handleDNN: a check of the server, bounded by its own        *)
(* timeout, then the answer.                                               *)
AnswerDNN ==
    /\ loop = "verify"
    /\ Inject(IF Kind[packet] = "address" THEN "answered" ELSE "passed")
    /\ UNCHANGED <<exec, handle, running, queue, known, forgets, proxy, conns>>

Loop == CheckRunning \/ Recv \/ RecvFails \/ ProcessPacket \/ Resolved \/ ResolveFails
        \/ AnswerDNN

-----------------------------------------------------------------------------
(* Execute *)

(* Without a handle Execute returns, and so does the process.              *)
New ==
    /\ exec = "new"
    /\ \/ handle' = "open" /\ exec' = "start"
       \/ handle' = handle /\ exec' = "end"
    /\ UNCHANGED <<running, loop, packet, queue, fate, known, forgets, proxy, conns>>

Start ==
    /\ exec = "start"
    /\ running' = TRUE /\ loop' = "check"
    /\ exec' = "proxy"
    /\ UNCHANGED <<handle, packet, queue, fate, known, forgets, proxy, conns>>

(* Without an authority or with the ports taken the service runs on.       *)
StartProxy ==
    /\ exec = "proxy"
    /\ proxy' \in {"on", "off"}
    /\ exec' = "running"
    /\ UNCHANGED <<handle, running, loop, packet, queue, fate, known, forgets, conns>>

StopControl ==
    /\ exec = "running"
    /\ exec' = "discovery"
    /\ UNCHANGED <<handle, running, loop, packet, queue, fate, known, forgets, proxy, conns>>

(* Mutant: the proxy is stopped first, as runForeground does.              *)
StopProxyFirst ==
    /\ exec = "discovery"
    /\ conns = 0
    /\ exec' = "unmark"
    /\ UNCHANGED <<handle, running, loop, packet, queue, fate, known, forgets, proxy, conns>>

StopDiscovery ==
    /\ exec = "discovery"
    /\ exec' = "unmark"
    /\ UNCHANGED <<handle, running, loop, packet, queue, fate, known, forgets, proxy, conns>>

StopCapture ==
    /\ exec = "unmark"
    /\ running' = FALSE
    /\ exec' = "close"
    /\ UNCHANGED <<handle, loop, packet, queue, fate, known, forgets, proxy, conns>>

(* WinDivertClose: what the driver still holds is dropped.                 *)
CloseHandle ==
    /\ exec = "close"
    /\ handle' = "closed"
    /\ fate' = [p \in All |-> IF fate[p] = "queued" THEN "lost" ELSE fate[p]]
    /\ queue' = <<>>
    /\ exec' = "wait"
    /\ UNCHANGED <<running, loop, packet, known, forgets, proxy, conns>>

(* Mutant: Stop does not wait for the goroutine.                           *)
StopWithoutWait ==
    /\ exec = "wait"
    /\ exec' = "stopProxy"
    /\ UNCHANGED <<handle, running, loop, packet, queue, fate, known, forgets, proxy, conns>>

WaitLoop ==
    /\ exec = "wait" /\ loop = "done"
    /\ exec' = "stopProxy"
    /\ UNCHANGED <<handle, running, loop, packet, queue, fate, known, forgets, proxy, conns>>

StopProxy ==
    /\ exec = "stopProxy"
    /\ proxy' = "off"
    /\ exec' = "drain"
    /\ UNCHANGED <<handle, running, loop, packet, queue, fate, known, forgets, conns>>

Return ==
    /\ exec = "drain" /\ conns = 0
    /\ exec' = "end"
    /\ UNCHANGED <<handle, running, loop, packet, queue, fate, known, forgets, proxy, conns>>

Execute == New \/ Start \/ StartProxy \/ StopDiscovery \/ StopCapture \/ CloseHandle
           \/ WaitLoop \/ StopProxy \/ Return

-----------------------------------------------------------------------------
Init ==
    /\ exec = "new" /\ handle = "none" /\ running = FALSE
    /\ loop = "off" /\ packet = Lookup
    /\ queue = <<>> /\ fate = [p \in All |-> "none"]
    /\ known \in BOOLEAN /\ forgets = 0
    /\ proxy = "off" /\ conns = 0

Next == \/ \E p \in Packets : Query(p)
        \/ Reply \/ Expire \/ Forget \/ Connect \/ Disconnect
        \/ Loop \/ LookUp \/ Execute \/ StopControl

(* The goroutines run, and the timers of a resolution and a check go off.  *)
(* Nobody has to ask, to stop the service or to close a connection.        *)
Spec == Init /\ [][Next]_vars /\ WF_vars(Loop) /\ WF_vars(Execute)

-----------------------------------------------------------------------------
(* Type invariant. The driver and the loop hold each packet once.          *)
TypeOK ==
    /\ exec \in {"new", "start", "proxy", "running", "discovery", "unmark", "close", "wait",
                 "stopProxy", "drain", "end"}
    /\ handle \in {"none", "open", "closed"} /\ running \in BOOLEAN
    /\ loop \in {"off", "check", "recv", "process", "resolve", "verify", "done"}
    /\ packet \in All
    /\ fate \in [All -> {"none", "queued", "held", "passed", "answered", "lost", "expired"}]
    /\ {queue[i] : i \in DOMAIN queue} = {p \in All : fate[p] = "queued"}
    /\ Len(queue) = Cardinality({p \in All : fate[p] = "queued"})
    /\ {p \in All : fate[p] = "held"}
         = IF loop \in {"process", "resolve", "verify"} THEN {packet} ELSE {}
    /\ known \in BOOLEAN /\ forgets \in 0..MaxForgets
    /\ proxy \in {"on", "off"} /\ conns \in 0..MaxConns

(* Whatever becomes of a name, the capture loses no DNS traffic while the  *)
(* service runs (what waits too long behind a name, the driver discards):  *)
(* a packet goes missing only when the service is stopped.                 *)
DroppedOnlyByStop ==
    (\E p \in All : fate[p] = "lost") => Status \in {"StopPending", "Stopped"}

(* A stopped service holds nothing: no handle, no goroutine with a packet. *)
StoppedIsQuiet ==
    Status = "Stopped" /\ handle # "none" =>
        /\ handle = "closed" /\ loop = "done" /\ conns = 0
        /\ \A p \in All : fate[p] \notin {"queued", "held"}

(* No packet stays diverted, even when the node that a name needs must     *)
(* first be found through the same loop.                                   *)
PacketsGoOn ==
    \A p \in Packets : fate[p] = "queued" ~> fate[p] \notin {"queued", "held"}

(* Once a stop begins the machine's DNS is given back, whether or not      *)
(* clients keep connections at the proxy open.                             *)
StopFreesDNS == Status = "StopPending" ~> handle # "open"

(* The service does what the programs of the machine are promised: each    *)
(* packet taken is dealt with once, in the manner and at the time allowed. *)
Tap == INSTANCE DnsTap WITH
    status <- Status,
    fate <- [p \in All |-> IF fate[p] \in {"queued", "held"} THEN "inside" ELSE fate[p]]
ImplementsTap == Tap!Spec

(* "WinDivert intercepts packets BEFORE routing, avoiding the loop issues  *)
(* we had with TUN-based routing." (capture_windows.go:2-3): a resolution  *)
(* never waits for a lookup that waits for the resolution.                 *)
AvoidsLoop == ~(loop = "resolve" /\ fate[Lookup] = "queued")
=============================================================================
