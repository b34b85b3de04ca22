---------------------------- MODULE EffectLedger ----------------------------
(***************************************************************************)
(* The tool registry's effect ledger (src/pre_active/tools.py): the table   *)
(* tool_effects, the callers inside ToolRegistry.execute and                *)
(* recover_reconciled, the external handlers they invoke, and the host's    *)
(* ToolRegistry.reconcile.                                                  *)
(*                                                                          *)
(* The connection is in autocommit mode, so every SQL statement of execute  *)
(* is a transaction of its own and an action of its own here: between two   *)
(* of them any other process may run, and a process may die.                *)
(***************************************************************************)
EXTENDS Naturals

CONSTANTS
  Callers,       \* processes that may be inside execute: workers and hosts
  RequestIds,    \* request ids the model may mint
  Mutations,     \* (tool, arguments) bodies of registered, granted mutations
  Reads,         \* bodies of registered, granted read-only tools
  Inadmissible,  \* unknown tool, capability not granted, arguments rejected
  Values,        \* what a handler may return
  None,          \* SQL NULL
  Truthful,      \* the host's evidence is right at the moment it reconciles
  Quiescent,     \* the host waits until no dispatch of the request is running
  Serialised,    \* at most one caller at a time is inside a request id
  MaxDenials     \* bound: verdicts "no effect" per request id

Bodies == Mutations \cup Reads \cup Inadmissible
Errors == {"ToolError", "OtherError"}

ASSUME LedgerAssumption ==
  /\ Mutations \cap Reads = {} /\ Mutations \cap Inadmissible = {}
  /\ Reads \cap Inadmissible = {}
  /\ Values \cap Errors = {}
  /\ None \notin Values \cup Errors \cup Bodies \cup RequestIds
  /\ {Truthful, Quiescent, Serialised} \subseteq BOOLEAN
  /\ MaxDenials \in Nat

VARIABLES
  effect,   \* request id -> tool_effects.state, "NONE" when there is no row
  request,  \* request id -> tool_effects.request_json
  result,   \* request id -> tool_effects.result_json
  denied,   \* request id -> tool_reconciliations rows with effect_occurred = 0
  applied,  \* request id -> how often a handler changed the outside world
  call      \* caller -> where it is inside execute, and for which request

ledger == <<effect, request, result, denied>>
vars == <<effect, request, result, denied, applied, call>>

EffectStates ==
  {"NONE", "EXECUTING", "ATTEMPTED_UNKNOWN", "COMMITTED", "RECONCILED_NO_EFFECT"}

(* Where a caller stands: the statement of execute it is about to run, or   *)
(* how the call ended.                                                      *)
Points == {"idle", "read", "lookup", "insert", "retry", "handler", "effected",
           "commit", "unknown", "returned", "raised"}

(* The handler of a mutation has been invoked and its outcome is not yet    *)
(* in the ledger.                                                           *)
InFlight == {"handler", "effected", "commit", "unknown"}

NoCall == [at |-> "idle", rid |-> None, body |-> None, reply |-> None]

Init ==
  /\ effect = [i \in RequestIds |-> "NONE"]
  /\ request = [i \in RequestIds |-> None]
  /\ result = [i \in RequestIds |-> None]
  /\ denied = [i \in RequestIds |-> 0]
  /\ applied = [i \in RequestIds |-> 0]
  /\ call = [p \in Callers |-> NoCall]

-----------------------------------------------------------------------------
(* Steps of a call. *)

At(p, point) == call[p].at = point
Goto(p, point) == call' = [call EXCEPT ![p].at = point]
Answer(p, v) == call' = [call EXCEPT ![p].at = "returned", ![p].reply = v]
Raise(p, err) == call' = [call EXCEPT ![p].at = "raised", ![p].reply = err]

Free(p, i) ==
  /\ At(p, "idle")
  /\ Serialised => \A q \in Callers : call[q].rid # i

(* execute: the registry, the capability and the arguments are checked      *)
(* before the ledger is touched; then reads and mutations part ways.        *)
Admission(b) ==
  IF b \in Reads THEN "read" ELSE IF b \in Mutations THEN "lookup" ELSE "raised"

Start(p, i, b) ==
  /\ Free(p, i)
  /\ call' = [call EXCEPT ![p] =
       [at |-> Admission(b), rid |-> i, body |-> b,
        reply |-> IF b \in Inadmissible THEN "ToolError" ELSE None]]
  /\ UNCHANGED <<ledger, applied>>

(* A read-only handler answers, or raises; the ledger is not involved. *)
ReadOnly(p) ==
  /\ At(p, "read")
  /\ \/ \E v \in Values : Answer(p, v)
     \/ \E err \in Errors : Raise(p, err)
  /\ UNCHANGED <<ledger, applied>>

BugMayRetry(i) == effect[i] \in {"RECONCILED_NO_EFFECT", "ATTEMPTED_UNKNOWN"}
MayRetry(i) == effect[i] = "RECONCILED_NO_EFFECT"

SameRequest(p) == request[call[p].rid] = call[p].body

(* SELECT * FROM tool_effects: the branch the row dictates.  The branch is  *)
(* taken on what was read here, whatever happens to the row afterwards.     *)
Lookup(p) ==
  LET i == call[p].rid IN
  /\ At(p, "lookup")
  /\ \/ effect[i] = "NONE" /\ Goto(p, "insert")
     \/ effect[i] # "NONE" /\ ~SameRequest(p) /\ Raise(p, "ToolError")
     \/ effect[i] = "COMMITTED" /\ SameRequest(p) /\ Answer(p, result[i])
     \/ MayRetry(i) /\ SameRequest(p) /\ Goto(p, "retry")
     \/ /\ effect[i] \in {"EXECUTING", "ATTEMPTED_UNKNOWN"}
        /\ SameRequest(p) /\ Raise(p, "ToolError")
  /\ UNCHANGED <<ledger, applied>>

(* INSERT ... 'EXECUTING': the primary key rejects a second row. *)
Insert(p) ==
  LET i == call[p].rid IN
  /\ At(p, "insert")
  /\ \/ /\ effect[i] = "NONE"
        /\ effect' = [effect EXCEPT ![i] = "EXECUTING"]
        /\ request' = [request EXCEPT ![i] = call[p].body]
        /\ Goto(p, "handler")
     \/ effect[i] # "NONE" /\ Raise(p, "OtherError") /\ UNCHANGED <<effect, request>>
  /\ UNCHANGED <<result, denied, applied>>

(* UPDATE ... SET state='EXECUTING': no condition on the state. *)
Retry(p) ==
  /\ At(p, "retry")
  /\ effect' = [effect EXCEPT ![call[p].rid] = "EXECUTING"]
  /\ result' = [result EXCEPT ![call[p].rid] = None]
  /\ Goto(p, "handler")
  /\ UNCHANGED <<request, denied, applied>>

(* The handler changes the outside world. *)
Apply(p) ==
  /\ At(p, "handler")
  /\ applied' = [applied EXCEPT ![call[p].rid] = @ + 1]
  /\ Goto(p, "effected")
  /\ UNCHANGED ledger

(* The handler returns.  An output json.dumps rejects raises outside the    *)
(* try block, so the row stays EXECUTING.                                   *)
HandlerReturns(p) ==
  /\ At(p, "effected")
  /\ \/ \E v \in Values : call' = [call EXCEPT ![p].at = "commit", ![p].reply = v]
     \/ Raise(p, "OtherError")
  /\ UNCHANGED <<ledger, applied>>

(* The handler raises, before or after it changed the outside world. *)
HandlerRaises(p) ==
  /\ call[p].at \in {"handler", "effected"}
  /\ \E err \in Errors : call' = [call EXCEPT ![p].at = "unknown", ![p].reply = err]
  /\ UNCHANGED <<ledger, applied>>

BugAfterRaise == "RECONCILED_NO_EFFECT"
AfterRaise == "ATTEMPTED_UNKNOWN"

(* except BaseException: UPDATE without a condition, then re-raise. *)
Unknown(p) ==
  /\ At(p, "unknown")
  /\ effect' = [effect EXCEPT ![call[p].rid] = AfterRaise]
  /\ Goto(p, "raised")
  /\ UNCHANGED <<request, result, denied, applied>>

BugStoredResult(p) == None
BugStoredRequest(p) == call[p].body
StoredResult(p) == call[p].reply

(* UPDATE ... SET state='COMMITTED', result_json=...: no condition either. *)
Commit(p) ==
  /\ At(p, "commit")
  /\ effect' = [effect EXCEPT ![call[p].rid] = "COMMITTED"]
  /\ result' = [result EXCEPT ![call[p].rid] = StoredResult(p)]
  /\ Goto(p, "returned")
  /\ UNCHANGED <<request, denied, applied>>

(* A statement that is not executed at all (the database stays locked past  *)
(* sqlite3's timeout, the disk is full) raises and leaves no trace.         *)
StatementFails(p) ==
  /\ call[p].at \in {"lookup", "insert", "retry", "commit", "unknown"}
  /\ Raise(p, "OtherError")
  /\ UNCHANGED <<ledger, applied>>

(* recover_reconciled: replay what is committed, re-execute what was        *)
(* denied, refuse the rest.                                                 *)
Recover(p, i) ==
  /\ Free(p, i)
  /\ call' = [call EXCEPT ![p] =
       [rid |-> i, body |-> request[i],
        at |-> IF effect[i] = "COMMITTED" THEN "returned"
               ELSE IF MayRetry(i) THEN "lookup" ELSE "raised",
        reply |-> IF effect[i] = "COMMITTED" THEN result[i]
                  ELSE IF MayRetry(i) THEN None ELSE "ToolError"]]
  /\ UNCHANGED <<ledger, applied>>

(* The caller takes the outcome of its call. *)
Finish(p) ==
  /\ call[p].at \in {"returned", "raised"}
  /\ call' = [call EXCEPT ![p] = NoCall]
  /\ UNCHANGED <<ledger, applied>>

(* The process dies: what it knew is gone, what it wrote stays. *)
Crash(p) ==
  /\ ~At(p, "idle")
  /\ call' = [call EXCEPT ![p] = NoCall]
  /\ UNCHANGED <<ledger, applied>>

-----------------------------------------------------------------------------
(* Reconciliation by the host: the check, the evidence row and the new      *)
(* state are one BEGIN IMMEDIATE transaction.                               *)

BugReconcilable(i) == effect[i] \in {"EXECUTING", "ATTEMPTED_UNKNOWN", "COMMITTED"}
Reconcilable(i) == effect[i] \in {"EXECUTING", "ATTEMPTED_UNKNOWN"}

(* What the host is trusted with; the code does not check it. *)
Patience(i) == Quiescent => \A p \in Callers : ~(call[p].rid = i /\ call[p].at \in InFlight)

Confirm(i, v) ==
  /\ Reconcilable(i) /\ Patience(i)
  /\ Truthful => applied[i] > 0
  /\ effect' = [effect EXCEPT ![i] = "COMMITTED"]
  /\ result' = [result EXCEPT ![i] = v]
  /\ UNCHANGED <<request, denied, applied, call>>

BugDeniedState == "NONE"
DeniedState == "RECONCILED_NO_EFFECT"

Deny(i) ==
  /\ Reconcilable(i) /\ Patience(i)
  /\ Truthful => applied[i] = 0
  /\ denied[i] < MaxDenials
  /\ denied' = [denied EXCEPT ![i] = @ + 1]
  /\ effect' = [effect EXCEPT ![i] = DeniedState]
  /\ result' = [result EXCEPT ![i] = None]
  /\ UNCHANGED <<request, applied, call>>

Reconcile(i) == Deny(i) \/ \E v \in Values : Confirm(i, v)

-----------------------------------------------------------------------------
(* A caller's own progress inside a call, and the whole component. *)

Step(p) ==
  \/ ReadOnly(p) \/ Lookup(p) \/ Insert(p) \/ Retry(p)
  \/ Apply(p) \/ HandlerReturns(p) \/ HandlerRaises(p) \/ Unknown(p) \/ Commit(p)
  \/ StatementFails(p)

Next ==
  \/ \E p \in Callers :
       \/ \E i \in RequestIds : Recover(p, i) \/ \E b \in Bodies : Start(p, i, b)
       \/ Step(p) \/ Finish(p) \/ Crash(p)
  \/ \E i \in RequestIds : Reconcile(i)

Spec == Init /\ [][Next]_vars

-----------------------------------------------------------------------------
(* Properties. *)

Call == [at : Points, rid : RequestIds \cup {None}, body : Bodies \cup {None},
         reply : Values \cup Errors \cup {None}]

(* Every row and every call is of the shape schema and code give it. *)
TypeOK ==
  /\ effect \in [RequestIds -> EffectStates]
  /\ request \in [RequestIds -> Mutations \cup {None}]
  /\ result \in [RequestIds -> Values \cup {None}]
  /\ denied \in [RequestIds -> Nat]
  /\ applied \in [RequestIds -> Nat]
  /\ call \in [Callers -> Call]

(* The write-ahead rule: whatever interleaves, dies or reconciles, a change *)
(* of the outside world always has its durable request beside it.           *)
WriteAhead ==
  \A i \in RequestIds : applied[i] > 0 => effect[i] # "NONE" /\ request[i] # None

(* As long as no host has vouched that nothing happened, a request id       *)
(* changes the world at most once: any number of callers, any crashes, any  *)
(* handler failure, any (even false) confirmation.                          *)
OneAttemptUnlessDenied ==
  \A i \in RequestIds : denied[i] = 0 => applied[i] <= 1

(* With a truthful and patient host, a request id changes the world at most *)
(* once, denials and re-executions included.                                *)
AtMostOneEffect == \A i \in RequestIds : applied[i] <= 1

(* The ledger never claims an effect that did not happen, nor the absence   *)
(* of one that did.                                                         *)
RecordIsTrue ==
  \A i \in RequestIds :
    /\ effect[i] = "COMMITTED" => applied[i] > 0
    /\ effect[i] = "RECONCILED_NO_EFFECT" => applied[i] = 0

(* A caller that got an answer for a mutation got the answer the ledger     *)
(* will replay from then on.                                                *)
AnswerIsReplayable ==
  \A p \in Callers :
    At(p, "returned") /\ call[p].body \in Mutations =>
      /\ effect[call[p].rid] = "COMMITTED"
      /\ call[p].reply = result[call[p].rid]
      /\ call[p].reply \in Values

KeepsCommitted ==
  \A i \in RequestIds : effect[i] = "COMMITTED" =>
    effect'[i] = "COMMITTED" /\ result'[i] = result[i]

(* COMMITTED is terminal: neither the state nor the result changes again. *)
CommittedIsFinal == [][KeepsCommitted]_vars

DispatchesOpen ==
  \A p \in Callers : ~At(p, "handler") /\ call'[p].at = "handler" =>
    effect[call[p].rid] \in {"NONE", "RECONCILED_NO_EFFECT"}

(* A handler is only ever invoked for a request that is new or established  *)
(* to have had no effect: never for an unresolved or a committed one.       *)
DispatchOnlyWhenOpen == [][DispatchesOpen]_vars

(* A row holds the mutation that was admitted under it, only a mutation     *)
(* gets as far as the row, nobody is past the INSERT before the row exists, *)
(* and only an output is committed.                                         *)
Admitted ==
  /\ \A i \in RequestIds : effect[i] # "NONE" => request[i] \in Mutations
  /\ \A p \in Callers :
       /\ call[p].at # "idle" => call[p].rid \in RequestIds
       /\ call[p].at \in {"lookup", "insert"} => call[p].body \in Mutations
       /\ call[p].at \in InFlight \cup {"retry"} => effect[call[p].rid] # "NONE"
       /\ call[p].at = "commit" => call[p].reply \in Values

(* The inductive invariant behind WriteAhead and OneAttemptUnlessDenied,    *)
(* whatever the host and the callers do: until a denial at most one caller  *)
(* ever got past the INSERT.                                                *)
DispatchInv ==
  /\ Admitted
  /\ \A i \in RequestIds :
       /\ effect[i] = "NONE" => applied[i] = 0
       /\ denied[i] = 0 =>
            /\ effect[i] # "RECONCILED_NO_EFFECT"
            /\ applied[i] <= 1
            /\ \A p \in Callers : call[p].rid = i =>
                 /\ call[p].at # "retry"
                 /\ call[p].at = "handler" => applied[i] = 0
            /\ \A p, q \in Callers :
                 /\ call[p].rid = i /\ call[p].at \in InFlight
                 /\ call[q].rid = i /\ call[q].at \in InFlight
                 => p = q

(* The host and the schedule the contract relies on. *)
Trusted == Truthful /\ Quiescent /\ Serialised

(* What holds in addition under that trust: a caller's position tells the   *)
(* row, and the row tells what happened.                                    *)
TrustedInv ==
  /\ \A p, q \in Callers : call[p].rid = call[q].rid => p = q \/ call[p].rid = None
  /\ \A p \in Callers :
       LET i == call[p].rid IN
       /\ At(p, "read") => call[p].body \notin Mutations
       /\ At(p, "insert") => effect[i] = "NONE"
       /\ At(p, "retry") => effect[i] = "RECONCILED_NO_EFFECT"
       /\ At(p, "handler") => effect[i] = "EXECUTING" /\ applied[i] = 0
       /\ call[p].at \in {"effected", "commit"} =>
            effect[i] = "EXECUTING" /\ applied[i] = 1
       /\ At(p, "unknown") => effect[i] = "EXECUTING"
  /\ \A i \in RequestIds :
       /\ applied[i] <= 1
       /\ effect[i] \in {"NONE", "RECONCILED_NO_EFFECT"} => applied[i] = 0
       /\ effect[i] = "COMMITTED" => applied[i] = 1 /\ result[i] \in Values
       /\ effect[i] # "COMMITTED" => result[i] = None
  /\ AnswerIsReplayable

(* The ledger implements the at-most-once contract. *)
Contract == INSTANCE EffectContract WITH
  record <- [i \in RequestIds |->
    CASE effect[i] = "NONE" -> "none"
      [] effect[i] = "COMMITTED" -> "done"
      [] effect[i] = "RECONCILED_NO_EFFECT" -> "void"
      [] OTHER -> "open"],
  happened <- applied,
  answer <- result

ImplementsContract == Contract!Spec
=============================================================================
