----------------------------- MODULE MCResolver -----------------------------
(* Instances of Resolver for TLC: up to three nodes. *)
EXTENDS Resolver, TLC

CONSTANTS n1, n2, n3

SymmetricKeys == Permutations(Keys) \cup Permutations(Nodes \ Legacy)

(* Discovery drops and brings back n1; or never touches the list. *)
BothLists == {Nodes, Nodes \ {n1}}
OneList   == {Nodes}

(* A bound for the instances whose sets are large: the network changes
   between calls and not during one. *)
NetworkQuiet ==
    (\E c \in Calls : pc[c] # "idle") => UNCHANGED <<record, has, nodes>>
=============================================================================
