---------------------------- MODULE SupervisionMC ----------------------------
(* Small instances of Supervision for TLC. *)
EXTENDS Supervision
=============================================================================
