------------------------------ MODULE MCDivert ------------------------------
(* Three queries on a machine whose word list is three short words, none   *)
(* the beginning of another; and the detector, on all labels of up to six  *)
(* characters, with that list and with one that is not so.                 *)
EXTENDS Packets, Detector, TLC

CONSTANTS site, mail, web

ShortWords == {<<"a", "a">>, <<"b">>, <<"a", "b">>}

(* Two names of the network, one of them queried for a type the daemon     *)
(* does not answer, and an ordinary name.                                  *)
NameOf == (site :> << <<"n", "a", "b", "b", "a">> >>)
       @@ (mail :> << <<"b">>, <<"n", "b", "a", "a", "1", "b">> >>)
       @@ (web  :> << <<"n", "b", "b", "a">>, <<"n", "b">> >>)
KindOf == (site :> "address") @@ (mail :> "unsupported") @@ (web :> "other")

ASSUME KindIsDetected ==
    \A p \in {site, mail, web} : KindOf[p] # "other" <=> IsDNNName(NameOf[p])

(* The list in the code is like the first of these; the words removed from *)
(* it (bip39.go:7) are those that would make it like the second.           *)
Tried == UNION {[1..n -> Letters \cup Digits] : n \in 1..6}
Overlapping == INSTANCE Detector WITH Words <- {<<"a">>, <<"a", "b">>, <<"b", "a">>}

(* What is detected has the documented format.  With a list none of whose  *)
(* words begins another, everything of that format is detected.            *)
ASSUME DetectorSound ==
    \A s \in Tried : /\ IsSinglePartDNN(s) => InFormat(s)
                     /\ Overlapping!IsSinglePartDNN(s) => Overlapping!InFormat(s)
ASSUME DetectorComplete ==
    PrefixFree /\ \A s \in Tried : InFormat(s) => IsSinglePartDNN(s)

(* With words that begin others the longest match misses labels of the     *)
(* format: a, ba and a letter are read as ab, a and no letter.             *)
ASSUME DetectorGreedy ==
    \E s \in Tried : Overlapping!InFormat(s) /\ ~Overlapping!IsSinglePartDNN(s)
=============================================================================
