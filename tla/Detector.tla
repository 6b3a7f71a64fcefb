------------------------------ MODULE Detector ------------------------------
(***************************************************************************)
(* Which names belong to the network (detector.go).  A label of it is an   *)
(* n, two words of a list, digits that may be left out, and letters.  A    *)
(* label is a sequence of characters, a name a sequence of labels.         *)
(***************************************************************************)
EXTENDS Naturals, Sequences

CONSTANTS Letters, Digits, Initial,  \* the characters; the n
          Words,                     \* BIP39Words
          MinLen                     \* labels shorter than this are passed over

ASSUME DetectorAssumption ==
    /\ Initial \in Letters /\ Letters \cap Digits = {}
    /\ Words \subseteq Seq(Letters) \ {<<>>}
    /\ MinLen \in Nat
    /\ \A v, w \in Words : Len(v) + Len(w) + 2 >= MinLen

Prefix(w, s) == Len(w) <= Len(s) /\ SubSeq(s, 1, Len(w)) = w
After(n, s) == SubSeq(s, n + 1, Len(s))

(* The longest word s begins with, the empty sequence if there is none.    *)
MatchBIP39Prefix(s) ==
    LET matches == {w \in Words : Prefix(w, s)} IN
    IF matches = {} THEN <<>>
    ELSE CHOOSE w \in matches : \A v \in matches : Len(v) <= Len(w)

(* How many digits s begins with. *)
CycleDigits(s) ==
    CHOOSE n \in 0..Len(s) : /\ \A i \in 1..n : s[i] \in Digits
                             /\ n < Len(s) => s[n + 1] \notin Digits

(* Position letters, at least one, after optional digits. *)
EndsWell(s) ==
    LET letters == After(CycleDigits(s), s) IN
    letters # <<>> /\ \A i \in DOMAIN letters : letters[i] \in Letters

IsDNNEncoded(s) ==
    LET rest  == After(1, s)
        word1 == MatchBIP39Prefix(rest)
        left  == After(Len(word1), rest)
        word2 == MatchBIP39Prefix(left)
    IN  word1 # <<>> /\ word2 # <<>> /\ EndsWell(After(Len(word2), left))

IsSinglePartDNN(s) == Len(s) >= MinLen /\ s[1] = Initial /\ IsDNNEncoded(s)

(* Names with a space are searches: a space is neither letter nor digit.   *)
IsDNNName(name) ==
    /\ name # <<>>
    /\ \A i \in DOMAIN name : \A j \in DOMAIN name[i] : name[i][j] # " "
    /\ IsSinglePartDNN(name[Len(name)])

(* The leftmost label that could be one, or else the last.                 *)
GetTLD(name) ==
    LET dnn == {i \in DOMAIN name : IsSinglePartDNN(name[i])} IN
    IF dnn = {} THEN name[Len(name)]
    ELSE name[CHOOSE i \in dnn : \A j \in dnn : i <= j]

-----------------------------------------------------------------------------
(* The format as the documentation gives it (README.md:21).                *)
InFormat(s) ==
    /\ s # <<>> /\ s[1] = Initial
    /\ \E v, w \in Words :
          LET rest == After(1, s)
              left == After(Len(v), rest)
          IN  Prefix(v, rest) /\ Prefix(w, left) /\ EndsWell(After(Len(w), left))

(* No word of the list begins another one.                                 *)
PrefixFree == \A v, w \in Words : Prefix(v, w) => v = w
=============================================================================
