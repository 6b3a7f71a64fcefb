----------------------------- MODULE DataLemmas -----------------------------
(***************************************************************************)
(* Facts about numbers and sequences that several proofs need and the      *)
(* library does not have: the least element of a set of numbers, and how   *)
(* often a value occurs in the first entries of a sequence.                *)
(***************************************************************************)
EXTENDS Integers, Sequences, TLAPS, FiniteSetTheorems, SequenceTheorems, WellFoundedInduction

(* A nonempty set of natural numbers has a least element.                  *)
LEMMA LeastNat ==
    ASSUME NEW T, T \subseteq Nat, T # {}
    PROVE  \E x \in T : \A y \in T : x <= y
<1> DEFINE Below == {0..n : n \in T}
           R     == StrictSubsetOrdering(Nat)
<1>1. IsWellFoundedOn(R, FiniteSubsetsOf(Nat))
  BY FS_StrictSubsetOrderingWellFounded
<1>2. \A n \in T : 0..n \in FiniteSubsetsOf(Nat)
  <2> SUFFICES ASSUME NEW n \in T PROVE 0..n \in FiniteSubsetsOf(Nat)
    OBVIOUS
  <2>1. n \in Int /\ 0 \in Int /\ 0..n \subseteq Nat
    BY SMT
  <2>2. IsFiniteSet(0..n)
    BY <2>1, FS_Interval
  <2> QED
    BY <2>1, <2>2, Zenon DEF FiniteSubsetsOf
<1>3. Below \subseteq FiniteSubsetsOf(Nat) /\ Below # {}
  BY <1>2
<1>4. PICK X \in Below : \A Y \in Below : ~(<<Y, X>> \in R)
  BY <1>1, <1>3, WFMin
<1>5. PICK x \in T : X = 0..x
  BY <1>4
<1>6. \A y \in T : ~(y < x)
  <2> SUFFICES ASSUME NEW y \in T, y < x PROVE FALSE
    OBVIOUS
  <2>1. 0..y \subseteq 0..x /\ x \in 0..x /\ x \notin 0..y /\ 0..x \subseteq Nat
    BY SMT
  <2>2. <<0..y, 0..x>> \in R
    BY <2>1, Zenon DEF StrictSubsetOrdering
  <2> QED
    BY <1>4, <1>5, <2>2
<1> QED
  BY <1>6, SMT

-----------------------------------------------------------------------------
(* A sequence without its entry k.                                         *)
LEMMA EntryRemoved ==
    ASSUME NEW S, NEW s \in Seq(S), NEW k \in 1..Len(s), NEW t,
           t = SubSeq(s, 1, k - 1) \o SubSeq(s, k + 1, Len(s))
    PROVE  /\ t \in Seq(S) /\ Len(t) = Len(s) - 1
           /\ \A i \in 1..Len(t) : t[i] = IF i < k THEN s[i] ELSE s[i + 1]
<1> DEFINE a == SubSeq(s, 1, k - 1)
           b == SubSeq(s, k + 1, Len(s))
<1>0. Len(s) \in Nat /\ k \in Nat /\ \A i \in 1..Len(s) : s[i] \in S
  OBVIOUS
<1>1. /\ a \in Seq(S) /\ Len(a) = k - 1
      /\ \A i \in 1..(k - 1) : a[i] = s[i]
  BY <1>0, SubSeqProperties
<1>2. /\ b \in Seq(S) /\ Len(b) = Len(s) - k
      /\ \A i \in 1..(Len(s) - k) : b[i] = s[k + i]
  <2>1. CASE k = Len(s)
    <3>1. b = <<>>
      BY <2>1, <1>0, SubSeqEmpty
    <3> QED
      BY <2>1, <3>1
  <2>2. CASE k < Len(s)
    BY <2>2, <1>0, SubSeqProperties
  <2> QED
    BY <2>1, <2>2, <1>0
<1> HIDE DEF a, b
<1>3. /\ a \o b \in Seq(S) /\ Len(a \o b) = Len(a) + Len(b)
      /\ \A i \in 1..(Len(a) + Len(b)) :
            (a \o b)[i] = IF i <= Len(a) THEN a[i] ELSE b[i - Len(a)]
  BY <1>1, <1>2, ConcatProperties
<1>4. t = a \o b
  BY DEF a, b
<1>5. t \in Seq(S) /\ Len(t) = Len(s) - 1
  <2>1. Len(a \o b) = (k - 1) + (Len(s) - k)
    BY <1>1, <1>2, <1>3, Zenon
  <2>2. (k - 1) + (Len(s) - k) = Len(s) - 1
    BY <1>0
  <2> QED
    BY <1>3, <1>4, <2>1, <2>2, Zenon
<1>6. ASSUME NEW i \in 1..Len(t) PROVE t[i] = IF i < k THEN s[i] ELSE s[i + 1]
  <2>1. t[i] = IF i <= k - 1 THEN a[i] ELSE b[i - (k - 1)]
    <3>1. Len(a) = k - 1 /\ i \in 1..(Len(a) + Len(b))
      BY <1>3, <1>4, <1>5, <1>1, Zenon
    <3> QED
      BY <1>3, <1>4, <3>1, Zenon
  <2>2. CASE i < k
    BY <2>1, <2>2, <1>0, <1>1
  <2>3. CASE ~(i < k)
    <3>0. i \in Nat /\ i >= 1 /\ i <= Len(s) - 1 /\ i >= k /\ k >= 1
      <4>1. i \in 1..(Len(s) - 1)
        BY <1>5, Zenon
      <4> QED
        BY <4>1, <1>0, <2>3
    <3>1. i - (k - 1) \in 1..(Len(s) - k) /\ k + (i - (k - 1)) = i + 1 /\ ~(i <= k - 1)
      BY <1>0, <3>0
    <3>2. b[i - (k - 1)] = s[k + (i - (k - 1))]
      BY <3>1, <1>2, Zenon
    <3> QED
      BY <2>1, <2>3, <3>1, <3>2, Zenon
  <2> QED
    BY <2>2, <2>3
<1> QED
  BY <1>5, <1>6

-----------------------------------------------------------------------------
(* How many of the first n entries of s are x.                             *)
Occurs(s, x, n) == {i \in 1..n : s[i] = x}
CountTo(s, x, n) == Cardinality(Occurs(s, x, n))

(* It is a number, none for none, one more for each entry that is x.       *)
LEMMA CountFacts ==
    ASSUME NEW s, NEW x, NEW n \in Nat
    PROVE  /\ IsFiniteSet(Occurs(s, x, n))
           /\ CountTo(s, x, n) \in Nat
           /\ CountTo(s, x, 0) = 0
           /\ CountTo(s, x, n + 1) = CountTo(s, x, n) + (IF s[n + 1] = x THEN 1 ELSE 0)
<1>1. IsFiniteSet(1..n)
  BY FS_Interval
<1>2. IsFiniteSet(Occurs(s, x, n))
  BY <1>1, FS_Subset, Zenon DEF Occurs
<1>3. CountTo(s, x, n) \in Nat
  BY <1>2, FS_CardinalityType DEF CountTo
<1>4. Occurs(s, x, 0) = {}
  BY DEF Occurs
<1>5. Occurs(s, x, n + 1) = IF s[n + 1] = x THEN Occurs(s, x, n) \cup {n + 1} ELSE Occurs(s, x, n)
  BY DEF Occurs
<1>6. n + 1 \notin Occurs(s, x, n)
  BY DEF Occurs
<1>7. CountTo(s, x, n + 1) = CountTo(s, x, n) + (IF s[n + 1] = x THEN 1 ELSE 0)
  <2>1. Cardinality(Occurs(s, x, n) \cup {n + 1}) = Cardinality(Occurs(s, x, n)) + 1
    BY <1>2, <1>6, FS_AddElement, Zenon
  <2> QED
    BY <1>3, <1>5, <2>1 DEF CountTo
<1> QED
  BY <1>2, <1>3, <1>4, <1>7, FS_EmptySet DEF CountTo

LEMMA CountNext ==
    ASSUME NEW s, NEW x, NEW n \in Nat
    PROVE  CountTo(s, x, n + 1) = CountTo(s, x, n) + (IF s[n + 1] = x THEN 1 ELSE 0)
BY CountFacts

(* There are none where there is none; where there is one, there are some. *)
LEMMA CountSome ==
    ASSUME NEW s, NEW x, NEW n \in Nat
    PROVE  CountTo(s, x, n) >= 1 <=> \E i \in 1..n : s[i] = x
<1>1. Occurs(s, x, n) = {} <=> ~\E i \in 1..n : s[i] = x
  BY DEF Occurs
<1>2. CountTo(s, x, n) = 0 <=> Occurs(s, x, n) = {}
  BY CountFacts, FS_EmptySet DEF CountTo
<1> QED
  BY <1>1, <1>2, CountFacts, SMT

(* Only the entries counted matter.                                        *)
LEMMA CountSame ==
    ASSUME NEW s, NEW t, NEW x, NEW n \in Nat, \A i \in 1..n : s[i] = t[i]
    PROVE  CountTo(s, x, n) = CountTo(t, x, n)
<1>1. Occurs(s, x, n) = Occurs(t, x, n)
  BY DEF Occurs
<1> QED
  BY <1>1 DEF CountTo

(* When entry k is taken out, the entries behind it move up by one: of     *)
(* every value there are as many as before, of that of entry k one less.   *)
LEMMA CountRemoved ==
    ASSUME NEW s, NEW t, NEW k \in Nat \ {0}, NEW m \in Nat, k <= m + 1,
           \A i \in 1..m : t[i] = IF i < k THEN s[i] ELSE s[i + 1],
           NEW x, NEW n \in Nat, n <= m, k <= n + 1
    PROVE  CountTo(s, x, n + 1) = CountTo(t, x, n) + (IF s[k] = x THEN 1 ELSE 0)
<1> DEFINE Good(i) == CountTo(s, x, i + 1) = CountTo(t, x, i) + (IF s[k] = x THEN 1 ELSE 0)
           Bad == {i \in Nat : k <= i + 1 /\ i <= m /\ ~Good(i)}
<1>1. Good(k - 1)
  <2>1. k - 1 \in Nat /\ (k - 1) + 1 = k /\ k - 1 <= m
    OBVIOUS
  <2>2. CountTo(s, x, k) = CountTo(s, x, k - 1) + (IF s[k] = x THEN 1 ELSE 0)
    <3> HIDE DEF Good
    <3> QED
      BY <2>1, CountFacts
  <2>3. \A i \in 1..(k - 1) : s[i] = t[i]
    BY <2>1
  <2>4. CountTo(s, x, k - 1) = CountTo(t, x, k - 1)
    BY <2>1, <2>3, CountSame
  <2> QED
    BY <2>1, <2>2, <2>4
<1>2. ASSUME NEW i \in Nat, k <= i + 1, i + 1 <= m, Good(i)
      PROVE  Good(i + 1)
  <2>1. CountTo(s, x, (i + 1) + 1) = CountTo(s, x, i + 1) + (IF s[(i + 1) + 1] = x THEN 1 ELSE 0)
    BY CountFacts
  <2>2. CountTo(t, x, i + 1) = CountTo(t, x, i) + (IF t[i + 1] = x THEN 1 ELSE 0)
    BY CountFacts
  <2>3. t[i + 1] = s[(i + 1) + 1]
    BY <1>2
  <2>4. CountTo(t, x, i) \in Nat
    BY CountFacts
  <2> QED
    BY <1>2, <2>1, <2>2, <2>3, <2>4
<1> SUFFICES ASSUME Bad # {} PROVE FALSE
  OBVIOUS
<1>3. PICK b \in Bad : \A y \in Bad : b <= y
  BY LeastNat
<1> HIDE DEF Good
<1>4. b # k - 1
  BY <1>1, <1>3
<1>5. b - 1 \in Nat /\ k <= (b - 1) + 1 /\ b - 1 <= m /\ (b - 1) + 1 = b /\ b - 1 \notin Bad
  BY <1>3, <1>4
<1> QED
  BY <1>2, <1>3, <1>5

(* What one more entry at the end is to these counts.                      *)
Grown(s, e, t) ==
    /\ Len(t) = Len(s) + 1 /\ t[Len(t)] = e
    /\ \A i \in 1..Len(s) : t[i] = s[i]
    /\ \A x : \A i \in 0..Len(s) : CountTo(t, x, i) = CountTo(s, x, i)
    /\ \A x : CountTo(t, x, Len(t)) = CountTo(s, x, Len(s)) + (IF e = x THEN 1 ELSE 0)

LEMMA CountAppended ==
    ASSUME NEW S, NEW s \in Seq(S), NEW e \in S
    PROVE  Grown(s, e, Append(s, e))
<1> DEFINE t == Append(s, e)
<1>1. PICK n \in Nat : n = Len(s)
  OBVIOUS
<1>2. Len(t) = n + 1 /\ t[n + 1] = e /\ \A i \in 1..n : t[i] = s[i]
  BY <1>1, AppendProperties
<1> HIDE <1>1 DEF t
<1>3. ASSUME NEW x, NEW i \in 0..n PROVE CountTo(t, x, i) = CountTo(s, x, i)
  <2>1. i \in Nat /\ \A j \in 1..i : t[j] = s[j]
    BY <1>2
  <2> QED
    BY <2>1, CountSame
<1>4. ASSUME NEW x
      PROVE  CountTo(t, x, n + 1) = CountTo(s, x, n) + (IF e = x THEN 1 ELSE 0)
  <2>1. CountTo(t, x, n + 1) = CountTo(t, x, n) + (IF t[n + 1] = x THEN 1 ELSE 0)
    BY CountNext, Zenon
  <2>2. CountTo(t, x, n) = CountTo(s, x, n)
    BY <1>3
  <2> QED
    BY <1>2, <2>1, <2>2, Zenon
<1>5. Grown(s, e, t)
  BY <1>1, <1>2, <1>3, <1>4, Zenon DEF Grown
<1> QED
  BY <1>5 DEF t

(* What it is to them that an entry is taken out, as EntryRemoved has it.  *)
Shrunk(s, k, t, n) ==
    /\ \A i \in 1..n : t[i] = IF i < k THEN s[i] ELSE s[i + 1]
    /\ \A x : \A i \in Nat : k <= i + 1 /\ i <= n
          => CountTo(s, x, i + 1) = CountTo(t, x, i) + (IF s[k] = x THEN 1 ELSE 0)
    /\ \A x : CountTo(s, x, n + 1) = CountTo(t, x, n) + (IF s[k] = x THEN 1 ELSE 0)

LEMMA CountWithout ==
    ASSUME NEW s, NEW t, NEW n \in Nat, NEW k \in 1..(n + 1),
           \A i \in 1..n : t[i] = IF i < k THEN s[i] ELSE s[i + 1]
    PROVE  Shrunk(s, k, t, n)
<1>1. k \in Nat \ {0} /\ k <= n + 1
  OBVIOUS
<1>2. ASSUME NEW x, NEW i \in Nat, k <= i + 1, i <= n
      PROVE  CountTo(s, x, i + 1) = CountTo(t, x, i) + (IF s[k] = x THEN 1 ELSE 0)
  BY <1>1, <1>2, CountRemoved
<1> QED
  BY <1>1, <1>2 DEF Shrunk
=============================================================================
