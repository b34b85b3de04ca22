--------------------------- MODULE EffectContract ---------------------------
(***************************************************************************)
(* What docs/EFFECT_AND_RECOVERY.md promises of a mutation request: under   *)
(* one request id the outside world changes at most once, the change is     *)
(* never recorded as absent, and an outcome that is recorded stays.         *)
(*                                                                          *)
(* The contract knows neither callers, nor the order of SQL statements,     *)
(* nor crashes.  EffectLedger implements it when the host that reconciles   *)
(* is truthful and patient and when one caller at a time drives a request.  *)
(***************************************************************************)
EXTENDS Naturals

CONSTANTS RequestIds, Values, None

VARIABLES
  record,    \* request id -> "none", "open", "done" or "void"
  happened,  \* request id -> how often the outside world changed for it
  answer     \* request id -> the recorded result, None unless "done"

vars == <<record, happened, answer>>

Init ==
  /\ record = [i \in RequestIds |-> "none"]
  /\ happened = [i \in RequestIds |-> 0]
  /\ answer = [i \in RequestIds |-> None]

(* The request becomes durable, for the first time or again after it was    *)
(* established that nothing happened.                                       *)
Open(i) ==
  /\ record[i] \in {"none", "void"}
  /\ record' = [record EXCEPT ![i] = "open"]
  /\ UNCHANGED <<happened, answer>>

(* The outside world changes: only for an open request, and only once. *)
Happen(i) ==
  /\ record[i] = "open"
  /\ happened[i] = 0
  /\ happened' = [happened EXCEPT ![i] = 1]
  /\ UNCHANGED <<record, answer>>

(* The outcome of a change that did happen becomes the answer, for good. *)
Settle(i, v) ==
  /\ record[i] = "open"
  /\ happened[i] = 1
  /\ record' = [record EXCEPT ![i] = "done"]
  /\ answer' = [answer EXCEPT ![i] = v]
  /\ UNCHANGED happened

(* It is established that nothing happened. *)
Void(i) ==
  /\ record[i] = "open"
  /\ happened[i] = 0
  /\ record' = [record EXCEPT ![i] = "void"]
  /\ UNCHANGED <<happened, answer>>

Next ==
  \E i \in RequestIds :
    \/ Open(i)
    \/ Happen(i)
    \/ \E v \in Values : Settle(i, v)
    \/ Void(i)

Spec == Init /\ [][Next]_vars
=============================================================================
