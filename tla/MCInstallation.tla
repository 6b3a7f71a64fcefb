--------------------------- MODULE MCInstallation ---------------------------
(* Small instances of Installation: the systems are given in the .cfg.     *)
EXTENDS Installation
=============================================================================
