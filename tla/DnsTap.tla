------------------------------- MODULE DnsTap -------------------------------
(***************************************************************************)
(* What the Windows service promises the other programs of the machine,    *)
(* whatever its driver, loop and resolutions do: a DNS packet it takes is  *)
(* dealt with once, and only a query for an address of a DNN name is ever  *)
(* answered; a packet grows old only behind a name that is being resolved; *)
(* it is dropped only while the service stops, and a stopped service has   *)
(* none.                                                                   *)
(***************************************************************************)

CONSTANTS Packets, Kind, Lookup

VARIABLES status, fate

vars == <<status, fate>>

All       == Packets \cup {Lookup}
Inside(p) == fate[p] = "inside"

Init ==
    /\ status = "StartPending"
    /\ fate = [p \in All |-> "none"]

Becomes(p, what) == fate' = [fate EXCEPT ![p] = what] /\ UNCHANGED status

Send(p) ==
    /\ fate[p] = "none"
    /\ \/ status # "Stopped" /\ Becomes(p, "inside")
       \/ Becomes(p, "passed")

HandBack(p) == Inside(p) /\ Becomes(p, "passed")

Answer(p) == p \in Packets /\ Inside(p) /\ Kind[p] = "address" /\ Becomes(p, "answered")

Expire(p) ==
    /\ Inside(p)
    /\ \E q \in Packets \ {p} : Inside(q) /\ Kind[q] # "other"
    /\ Becomes(p, "expired")

Lose(S) ==
    /\ status = "StopPending"
    /\ \A p \in S : Inside(p)
    /\ fate' = [p \in All |-> IF p \in S THEN "lost" ELSE fate[p]]
    /\ UNCHANGED status

(* The daemon may look its node up again once it is done with that lookup. *)
LookUpAgain == fate[Lookup] \in {"passed", "lost", "expired"} /\ Becomes(Lookup, "none")

Report(s) ==
    /\ <<status, s>> \in {<<"StartPending", "Running">>, <<"StartPending", "Stopped">>,
                          <<"Running", "StopPending">>, <<"StopPending", "Stopped">>}
    /\ s = "Stopped" => \A p \in All : ~Inside(p)
    /\ status' = s
    /\ UNCHANGED fate

Next == \/ \E p \in All : Send(p) \/ HandBack(p) \/ Answer(p) \/ Expire(p)
        \/ \E S \in SUBSET All : Lose(S)
        \/ LookUpAgain
        \/ \E s \in {"Running", "StopPending", "Stopped"} : Report(s)

Spec == Init /\ [][Next]_vars
=============================================================================
