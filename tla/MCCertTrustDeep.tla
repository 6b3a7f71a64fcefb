-------------------------- MODULE MCCertTrustDeep --------------------------
(* CertTrust for TLC with a history of the failures the proxy recorded, to
   see what becomes of them for the names below a zone. *)
EXTENDS MCCertTrust

VARIABLE refuted    \* history: the names whose zone the proxy has marked as failed since
                    \* their own entries were found to be good

(* The proxy records on an entry of the zone that the check failed, while n
   has an entry that passed its own. *)
Refutes(h, n) ==
    /\ MarkZone(h) /\ ~hverdict[h]
    /\ Zone(n) = Zone(hname[h]) /\ res[Zone(n)] # NoEntry
    /\ res[n] # NoEntry /\ res[n].verified

(* A later registration or verdict, of the name or of its zone, ends it. *)
NoteFailures ==
    refuted' = {n \in Names :
        \/ \E h \in Conns : Refutes(h, n)
        \/ n \in refuted /\ res'[n] = res[n] /\ res'[Zone(n)] = res[Zone(n)]}

HistorySpec == Init /\ refuted = {} /\ [][Next /\ NoteFailures]_<<vars, refuted>>

(* httpsproxy/proxy.go, where the proxy records a failed check: "This ensures
   signer generates untrusted cert for future connections".  Until something
   newer is known, a connection to a name of the zone is then not trusted. *)
FailureReachesNames == [][\A h \in Conns :
    hpc[h] = "check" /\ hpc'[h] = "serve" /\ hname[h] \in refuted
        => ~trust'[h]]_<<vars, refuted>>
=============================================================================
