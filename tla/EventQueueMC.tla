--------------------------- MODULE EventQueueMC ---------------------------
(* Small instances of EventQueue for TLC. *)
EXTENDS EventQueue, TLC

(* Workers are interchangeable, and so are producers; used where no         *)
(* liveness is checked.                                                     *)
Symmetry == Permutations(Workers) \cup Permutations(Producers)
=============================================================================
