------------------------------ MODULE PickBest ------------------------------
(***************************************************************************)
(* The choice Resolve makes among the answers of one set of nodes:         *)
(* pickBestResult of internal/resolver/resolver.go.  It is a pure function *)
(* of the slots that were read, so it is kept apart from the machine that  *)
(* fills them (module Resolver).                                           *)
(*                                                                         *)
(* A slot is what the code reads of one resolveResult:                     *)
(*   ver    the version of the owner's record the resolution carries,      *)
(*          0 when resolution is nil (no answer yet, an error, a 404);     *)
(*   ev     whether the raw connection event came with it;                 *)
(*   ok     whether that event's signature checks;                         *)
(*   key    the owner key it names (NoKey: the field was absent);          *)
(*   found  domain_found, TRUE when an older node leaves it out.           *)
(* Version v of the record is the event created at time v, so versions are *)
(* compared where the code compares created_at.                            *)
(***************************************************************************)
EXTENDS Integers

CONSTANT NoKey      \* the empty pubkey of an older node's response

(* A slot nobody wrote: the zero value of resolveResult. *)
Unwritten == [ver |-> 0, ev |-> FALSE, ok |-> FALSE, key |-> NoKey, found |-> FALSE]

(* Which responses enter the comparison: an error or a missing resolution
   is skipped, and so is an event whose signature fails; a response without
   an event is accepted. *)
Acceptable(s) == s.ver # 0 /\ (s.ev => s.ok)

(* An accepted response without an event loses to any verified one. *)
CreatedAt(s) == IF s.ev THEN s.ver ELSE 0

(* The reference of the consistency check is the first accepted slot. *)
First(V) == CHOOSE i \in V : \A j \in V : i <= j

(* A bug: only the winner's key is compared. *)
WinnerConsistent(s, V) ==
    \E i \in V : /\ \A j \in V : CreatedAt(s[j]) <= CreatedAt(s[i])
                /\ (s[First(V)].key = NoKey \/ s[i].key \in {NoKey, s[First(V)].key})

(* The pubkey check as it is coded: every accepted response against the
   reference, an empty key on either side passing. *)
Consistent(s, V) ==
    \A i \in V : \/ s[i].key = NoKey
                 \/ s[First(V)].key = NoKey
                 \/ s[i].key = s[First(V)].key

(* A bug: the first accepted response is taken for the newest. *)
FirstValid(s, V) == First(V)

(* The newest created_at; the earlier slot wins a tie. *)
Newest(s, V) ==
    CHOOSE i \in V : \A j \in V : \/ CreatedAt(s[j]) < CreatedAt(s[i])
                                  \/ CreatedAt(s[j]) = CreatedAt(s[i]) /\ i <= j

(* Bugs: a removal is returned like a record; the first slot, whose index in
   the code is 0, is mistaken for none. *)
PickAny(s, V) == IF V # {} /\ Consistent(s, V) THEN Newest(s, V) ELSE 0
PickButFirst(s, V) ==
    IF V # {} /\ Consistent(s, V) /\ s[Newest(s, V)].found THEN Newest(s, V) - 1 ELSE 0

(* The slot whose resolution pickBestResult returns, 0 for nil. *)
Pick(s, V) ==
    IF V # {} /\ Consistent(s, V) /\ s[Newest(s, V)].found THEN Newest(s, V) ELSE 0
=============================================================================
