--------------------------- MODULE SystemSettings ---------------------------
(***************************************************************************)
(* What the daemon changes in a machine's own settings and has to give     *)
(* back: on macOS the packet filter (PfCapture), on Windows the DNS        *)
(* servers of the adapters (DnsConfig).  A build has one of the two.       *)
(***************************************************************************)
EXTENDS PfCapture, DnsConfig

VARIABLE os     \* the build: "darwin" or "windows"

vars == <<os, pfVars, dnsVars>>

(* Where the other part is not in the build, its variables say nothing. *)
Init ==
    /\ os \in {"darwin", "windows"}
    /\ PfInit /\ DnsInit
    /\ os = "darwin" => setting = [a \in Adapters |-> Unset]
    /\ os = "windows" => ~enabled

Darwin  == os = "darwin" /\ PfNext /\ UNCHANGED <<os, dnsVars>>
Windows == os = "windows" /\ DnsNext /\ UNCHANGED <<os, pfVars>>

Next == Darwin \/ Windows

Spec == Init /\ [][Next]_vars

TypeOK == os \in {"darwin", "windows"} /\ PfTypeOK /\ DnsTypeOK

(* The daemon does not lose the settings it found: capture_darwin.go keeps the
   machine's own rules in pf.conf and adds its lines once; dnsconfig's record
   keeps "the ORIGINAL saved settings (don't overwrite with 127.0.0.1)"; where
   something failed or was cut short, the two parts say what may be lost. *)
OwnSettingsKept == UserRulesKept /\ OriginalsKept

(* What stops or restores without a failure leaves nothing of the daemon: no
   redirection in pf and no adapter that asks 127.0.0.1; and an adapter whose
   record was not lost has what RestoreDNS gives back for what it had before. *)
Undone == RedirectUndone /\ RestoreUndoes
=============================================================================
