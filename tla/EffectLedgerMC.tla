--------------------------- MODULE EffectLedgerMC ---------------------------
(* Small instances of EffectLedger for TLC. *)
EXTENDS EffectLedger, TLC

(* Callers and values are interchangeable; used where no liveness is        *)
(* checked.                                                                 *)
Symmetry == Permutations(Callers) \cup Permutations(Values)
=============================================================================
