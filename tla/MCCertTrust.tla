---------------------------- MODULE MCCertTrust ----------------------------
(* Instances of CertTrust for TLC: a DNN label, a name under it, and names
   under that; tables of subdomains where the routing is what matters. *)
EXTENDS CertTrust, TLC

CONSTANTS i1, i2, x1, x2

T == <<"nabandonaread">>
A == <<"free", "nabandonaread">>
W == <<"www", "free", "nabandonaread">>

TwoZones == {T, A}
OneZone  == {A}
WithSub  == {A, W}

(* No subdomain has an address of its own. *)
Plain == {NoSubs}
(* Some of the subdomains declared have one. *)
Tables == {s \in [Prefixes -> {i2, NoIp}] : s[<<>>] = NoIp}

(* The owner of a zone declares one server, with either certificate or none;
   the names below it have no record of their own. *)
AnyCert == [n \in Names |-> [ip : {i1}, sub : {NoSubs},
                             cert : IF n \in Zones THEN {x1, x2, NoCert} ELSE {}]]
(* The owner of each zone has a server of its own; one of them may take back
   the certificate it declared, or declare it later. *)
OwnServer == (T :> [ip : {i1}, cert : {x1}, sub : {NoSubs}])
          @@ (A :> [ip : {i2}, cert : {x1, NoCert}, sub : {NoSubs}])
(* One root server, and any table of addresses for the subdomains. *)
AnyTable == [n \in Names |-> [ip : {i1}, cert : {x1}, sub : IF n \in Zones THEN Subs ELSE {}]]
=============================================================================
