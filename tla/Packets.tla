------------------------------ MODULE Packets ------------------------------
(***************************************************************************)
(* The two ways in which the daemon takes DNS packets off a machine's      *)
(* network: out of WinDivert, as the Windows service does (Divert), or out *)
(* of a TUN device (TunStack), which no main uses any more.                *)
(***************************************************************************)
EXTENDS Divert

CONSTANT MaxRing

ASSUME RingAssumption == MaxRing \in Nat

VARIABLE way    \* "divert" or "tun"
VARIABLES device, owned, closed, ring, event, tunRunning, reader, work, stop

Tun == INSTANCE TunStack WITH running <- tunRunning

tunVars == <<device, owned, closed, ring, event, tunRunning, reader, work, stop>>

PacketsInit ==
    /\ way \in {"divert", "tun"}
    /\ Init /\ Tun!Init
    /\ way = "divert" => device = "file"
    /\ way = "tun" => ~known

Diverted(A) == way = "divert" /\ A /\ UNCHANGED <<way, tunVars>>
Tunnelled(A) == way = "tun" /\ A /\ UNCHANGED <<way, vars>>

PacketsNext == Diverted(Next) \/ Tunnelled(Tun!Next)

(* As in Divert; and the goroutine of the stack and a Stop that has begun go
   on.  Nobody has to send a packet, and no read has to fail. *)
PacketsSpec ==
    /\ PacketsInit /\ [][PacketsNext]_<<way, vars, tunVars>>
    /\ WF_vars(Diverted(Loop)) /\ WF_vars(Diverted(Execute))
    /\ WF_tunVars(Tunnelled(Tun!ReadLoop)) /\ WF_tunVars(Tunnelled(Tun!Stopping))

(* Type invariant. *)
PacketsTypeOK == way \in {"divert", "tun"} /\ TypeOK /\ Tun!TypeOK

(* stack.go, tun_windows.go: the driver is not called on a session that has
   ended, and nobody is in the device once Stop has returned. *)
TunClosedIsQuiet == Tun!ClosedIsQuiet

(* stack.go: Stop returns, unless the reader waits in a file that Close does
   not wake it from; then it takes one more packet. *)
TunStopEnds == Tun!StopEnds
=============================================================================
