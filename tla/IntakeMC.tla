------------------------------ MODULE IntakeMC ------------------------------
(* Small instances of Intake for TLC. *)
EXTENDS Intake, TLC

(* Daemons are interchangeable; used where no liveness is checked. *)
Symmetry == Permutations(Daemons)
=============================================================================
