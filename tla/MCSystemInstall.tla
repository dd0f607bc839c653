--------------------------- MODULE MCSystemInstall ---------------------------
(* Instances of SystemInstall for TLC. *)
EXTENDS SystemInstall
=============================================================================
