-------------------------- MODULE MCSystemSettings --------------------------
(* Two runs of the macOS build side by side; an adapter with DHCP and one
   without, of which the user sets the DNS servers now and then. *)
EXTENDS SystemSettings, TLC
CONSTANTS procA, procB, wifi, lan, s1, s2, offered
MCChoices == {<<s1, s2>>}
MCOffered == <<offered>>
MCSymmetry == Permutations(Procs)
=============================================================================
