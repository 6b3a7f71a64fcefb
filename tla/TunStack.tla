------------------------------ MODULE TunStack ------------------------------
(***************************************************************************)
(* The userspace stack on a TUN device (internal/stack, internal/tun), by  *)
(* which the daemon took DNS packets before it used WinDivert: a goroutine *)
(* reads one packet after the other from the device and answers it; Stop   *)
(* closes the device under it and waits for it.  WinTUN has an event to    *)
(* wait for; Linux and macOS read a file in blocking mode.                 *)
(***************************************************************************)
EXTENDS Naturals, Sequences

CONSTANT MaxRing    \* bound: packets waiting in the device

VARIABLES
    device,     \* "wintun" or "file"
    owned,      \* what New has taken from the system and not given back
    closed,     \* the flag of the device; its session has ended
    ring,       \* packets in the device, by what they ask
    event,      \* WinTUN's read event, which one wait takes back
    running,    \* Stack.running
    reader,     \* where readLoop is, Read included
    work,       \* the packet in its buffer
    stop        \* where Start and Stop are

(* What New takes, one after the other: an adapter, a session on it and its
   event; or a file and the interface made of it. *)
Takes == IF device = "wintun" THEN <<"adapter", "session", "event">> ELSE <<"file", "interface">>

(* A query for a name of the network, another query, any other packet. *)
Kinds == {"dnn", "plain", "other"}

TypeOK ==
    /\ device \in {"wintun", "file"} /\ closed \in BOOLEAN
    /\ \E n \in 0..Len(Takes) : owned = SubSeq(Takes, 1, n)
    /\ ring \in Seq(Kinds) /\ Len(ring) <= MaxRing /\ event \in BOOLEAN
    /\ running \in BOOLEAN
    /\ reader \in {"off", "check", "read", "call", "blocked", "wait", "wake", "receive",
                   "process", "resolve", "forward", "write", "done"}
    /\ work \in Kinds
    /\ stop \in {"create", "failed", "new", "run", "close", "wait", "stopped"}
    /\ reader \in {"call", "blocked"} => device = "file"
    /\ reader \in {"wait", "wake", "receive"} => device = "wintun"

Init ==
    /\ device \in {"wintun", "file"} /\ owned = <<>> /\ closed = FALSE
    /\ ring = <<>> /\ event = FALSE
    /\ running = FALSE /\ reader = "off" /\ work = "other" /\ stop = "create"

-----------------------------------------------------------------------------
(* newTUN: what fails takes back all before it.  That addresses or routes
   could not be set is only warned about. *)
Release == owned' = <<>>

Create ==
    /\ stop = "create"
    /\ \/ /\ owned' = Append(owned, Takes[Len(owned) + 1])
          /\ stop' = IF owned' = Takes THEN "new" ELSE "create"
       \/ Release /\ stop' = "failed"
    /\ UNCHANGED <<device, closed, ring, event, running, reader, work>>

Arrive(k) ==
    /\ owned = Takes
    /\ Len(ring) < MaxRing
    /\ ring' = Append(ring, k) /\ event' = TRUE
    /\ UNCHANGED <<device, owned, closed, running, reader, work, stop>>

-----------------------------------------------------------------------------
Goes(from, to) == reader = from /\ reader' = to

CheckRunning ==
    /\ Goes("check", IF running THEN "read" ELSE "done")
    /\ UNCHANGED <<device, owned, closed, ring, event, running, work, stop>>

(* Read looks at the flag, and lets go of the lock before it waits.
   ErrClosed ends the loop. *)
Read ==
    /\ Goes("read", IF closed THEN "done" ELSE IF device = "file" THEN "call" ELSE "wait")
    /\ UNCHANGED <<device, owned, closed, ring, event, running, work, stop>>

(* Linux and macOS: a file closed meanwhile gives an error that is not
   ErrClosed, as a failed read does.  A read that waits keeps the file, which
   is given back when it returns. *)
ReadFile ==
    /\ Goes("call", IF closed THEN "check" ELSE "blocked")
    /\ UNCHANGED <<device, owned, closed, ring, event, running, work, stop>>

Returned == IF closed THEN Release ELSE UNCHANGED owned
ReadReturns ==
    /\ ring # <<>>
    /\ Goes("blocked", "process")
    /\ work' = Head(ring) /\ ring' = Tail(ring)
    /\ Returned
    /\ UNCHANGED <<device, closed, event, running, stop>>
ReadFails ==
    /\ Goes("blocked", "check")
    /\ Returned
    /\ UNCHANGED <<device, closed, ring, event, running, work, stop>>

(* Windows: the end of the session ends the wait, too.  Under the lock the
   flag is looked at once more; what woke the reader may be gone. *)
Wake ==
    /\ event \/ closed
    /\ Goes("wait", "wake")
    /\ event' = FALSE
    /\ UNCHANGED <<device, owned, closed, ring, running, work, stop>>

(* A bug: the flag is not looked at again. *)
LockUnchecked ==
    /\ Goes("wake", "receive")
    /\ UNCHANGED <<device, owned, closed, ring, event, running, work, stop>>
Lock ==
    /\ Goes("wake", IF closed THEN "done" ELSE "receive")
    /\ UNCHANGED <<device, owned, closed, ring, event, running, work, stop>>

Receive ==
    /\ IF ring = <<>>
       THEN Goes("receive", "wait") /\ UNCHANGED <<work, ring>>
       ELSE Goes("receive", "process") /\ work' = Head(ring) /\ ring' = Tail(ring)
    /\ UNCHANGED <<device, owned, closed, event, running, stop>>

-----------------------------------------------------------------------------
(* processPacket.  Packets that ask nothing are dropped, those of transports
   too. *)
ProcessPacket ==
    /\ Goes("process", CASE work = "dnn"   -> "resolve"
                         [] work = "plain" -> "forward"
                         [] work = "other" -> "check")
    /\ UNCHANGED <<device, owned, closed, ring, event, running, work, stop>>

(* handleDNNQuery: whatever Resolve says after its timeouts, an answer is
   sent; what is cached on the way is in CertTrust. *)
HandleDNNQuery ==
    /\ Goes("resolve", "write")
    /\ UNCHANGED <<device, owned, closed, ring, event, running, work, stop>>

(* forwardDNS: after at most four seconds the answer of the upstream, or
   nothing. *)
ForwardDNS ==
    /\ Goes("forward", "write") \/ Goes("forward", "check")
    /\ UNCHANGED <<device, owned, closed, ring, event, running, work, stop>>

(* sendDNSResponse: on a closed device the answer is gone. *)
SendDNSResponse ==
    /\ Goes("write", "check")
    /\ UNCHANGED <<device, owned, closed, ring, event, running, work, stop>>

ReadLoop == \/ CheckRunning \/ Read \/ ReadFile \/ ReadReturns \/ Wake \/ Lock \/ Receive
            \/ ProcessPacket \/ HandleDNNQuery \/ ForwardDNS \/ SendDNSResponse

-----------------------------------------------------------------------------
Start ==
    /\ stop = "new" /\ stop' = "run"
    /\ running' = TRUE /\ reader' = "check"
    /\ UNCHANGED <<device, owned, closed, ring, event, work>>

Stop ==
    /\ stop = "run" /\ stop' = "close"
    /\ running' = FALSE
    /\ UNCHANGED <<device, owned, closed, ring, event, reader, work>>

(* A bug: Stop waits for the goroutine before it closes the device. *)
CloseAfterWait ==
    /\ stop = "close" /\ reader = "done" /\ stop' = "wait"
    /\ closed' = TRUE /\ Release
    /\ UNCHANGED <<device, ring, event, running, reader, work>>

(* Close takes the lock, which Read holds while it receives. *)
Close ==
    /\ stop = "close" /\ stop' = "wait"
    /\ reader # "receive"
    /\ closed' = TRUE
    /\ IF reader = "blocked" THEN UNCHANGED owned ELSE Release
    /\ UNCHANGED <<device, ring, event, running, reader, work>>

Wait ==
    /\ stop = "wait" /\ reader = "done" /\ stop' = "stopped"
    /\ UNCHANGED <<device, owned, closed, ring, event, running, reader, work>>

Stopping == Close \/ Wait

Next == \/ \E k \in Kinds : Arrive(k)
        \/ ReadLoop \/ ReadFails \/ Create \/ Start \/ Stop \/ Stopping

-----------------------------------------------------------------------------
(* No call of the driver on a session that has ended (Close sets the session
   to 0).  Once Stop has returned, or New has failed, nobody is in the device
   and the system has everything back. *)
ClosedIsQuiet ==
    /\ reader = "receive" => ~closed
    /\ stop = "stopped" => closed /\ reader = "done"
    /\ stop \in {"failed", "stopped"} => owned = <<>>

(* Stop closes the device under the reader and waits for it.  It returns,
   whatever the reader is at, except that where the device is a file in
   blocking mode a reader that waits in it is not woken: then Stop returns
   after one more packet. *)
StopEnds ==
    /\ stop = "close" ~> (stop = "stopped" \/ reader = "blocked")
    /\ stop = "wait" /\ ring # <<>> ~> stop = "stopped"
=============================================================================
