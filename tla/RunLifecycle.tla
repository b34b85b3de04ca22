---------------------------- MODULE RunLifecycle ----------------------------
(***************************************************************************)
(* What the row of a run does when the statements of store.py and engine.py *)
(* meet it in the order they are meant to: it advances one generation at a  *)
(* time, it leaves COMPLETED and FAILED never, and it goes on after a block *)
(* only when the barrier of its effect has gone.  Nothing is said of        *)
(* workers, leases, single statements or crashes.                           *)
(***************************************************************************)
EXTENDS Naturals

CONSTANTS Runs

VARIABLES
  phase,    \* run -> "NONE", "RUNNING", "BLOCKED_EFFECT", "COMPLETED", "FAILED"
  step,     \* run -> generation
  barrier   \* run -> blocked on an effect that is not established yet

vars == <<phase, step, barrier>>

Init ==
  /\ phase = [r \in Runs |-> "NONE"]
  /\ step = [r \in Runs |-> 0]
  /\ barrier = [r \in Runs |-> FALSE]

Turn(r, from, to) == phase[r] = from /\ phase' = [phase EXCEPT ![r] = to]
NextGeneration(r) == step' = [step EXCEPT ![r] = @ + 1]

Submit(r) == Turn(r, "NONE", "RUNNING") /\ UNCHANGED <<step, barrier>>
Advance(r) == phase[r] = "RUNNING" /\ NextGeneration(r) /\ UNCHANGED <<phase, barrier>>
Complete(r) == Turn(r, "RUNNING", "COMPLETED") /\ NextGeneration(r) /\ UNCHANGED barrier
Fail(r) == Turn(r, "RUNNING", "FAILED") /\ UNCHANGED <<step, barrier>>

Block(r) ==
  /\ Turn(r, "RUNNING", "BLOCKED_EFFECT")
  /\ \E open \in BOOLEAN : barrier' = [barrier EXCEPT ![r] = open]
  /\ UNCHANGED step

Establish(r) ==
  /\ barrier[r]
  /\ barrier' = [barrier EXCEPT ![r] = FALSE]
  /\ UNCHANGED <<phase, step>>

Resume(r) ==
  /\ ~barrier[r]
  /\ Turn(r, "BLOCKED_EFFECT", "RUNNING") /\ NextGeneration(r) /\ UNCHANGED barrier

Next ==
  \E r \in Runs :
    \/ Submit(r) \/ Advance(r) \/ Complete(r) \/ Fail(r)
    \/ Block(r) \/ Establish(r) \/ Resume(r)

Spec == Init /\ [][Next]_vars
=============================================================================
