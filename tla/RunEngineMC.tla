---------------------------- MODULE RunEngineMC ----------------------------
(* Small instances of RunEngine for TLC. *)
EXTENDS RunEngine, TLC

(* Workers, request ids and answers are interchangeable; used where no      *)
(* liveness is checked.                                                     *)
Symmetry == Permutations(Workers) \cup Permutations(RequestIds) \cup Permutations(Values)
=============================================================================
