------------------------- MODULE EffectLedgerProofs -------------------------
(***************************************************************************)
(* Proofs about EffectLedger, for any sets of callers, request ids, bodies  *)
(* and values and any number of denials.                                    *)
(***************************************************************************)
EXTENDS EffectLedger, TLAPS

-----------------------------------------------------------------------------
(* Type correctness. *)

(* The invariant the proofs of this section are about: types, and what an   *)
(* admitted call and a row have to do with each other.                      *)
TypeInv == TypeOK /\ Admitted

(* Caller p went on to `point' in the same request, and nobody else moved. *)
Moved(p, point, reply) ==
  /\ call' \in [Callers -> Call]
  /\ call'[p].at = point /\ call'[p].reply = reply
  /\ call'[p].rid = call[p].rid /\ call'[p].body = call[p].body
  /\ \A q \in Callers \ {p} : call'[q] = call[q]

LEMMA Moves ==
  ASSUME call \in [Callers -> Call], NEW p \in Callers, NEW point \in Points,
         NEW reply \in Values \cup Errors \cup {None},
         call' = [call EXCEPT ![p].at = point, ![p].reply = reply]
  PROVE  Moved(p, point, reply)
  BY DEF Moved, Call

LEMMA GotoMoves ==
  ASSUME call \in [Callers -> Call], NEW p \in Callers, NEW point \in Points,
         Goto(p, point)
  PROVE  Moved(p, point, call[p].reply)
  BY DEF Goto, Moved, Call

LEMMA AnswerMoves ==
  ASSUME call \in [Callers -> Call], NEW p \in Callers, NEW v \in Values \cup {None},
         Answer(p, v)
  PROVE  Moved(p, "returned", v)
  BY Moves DEF Answer, Points

LEMMA RaiseMoves ==
  ASSUME call \in [Callers -> Call], NEW p \in Callers, NEW err \in Errors, Raise(p, err)
  PROVE  Moved(p, "raised", err)
  BY Moves DEF Raise, Points


LEMMA TypeInit == Init => TypeInv
  BY LedgerAssumption
  DEF Init, TypeInv, TypeOK, Admitted, InFlight, EffectStates, Call, Points, NoCall

(* The steps of a call that leave the ledger and the world alone. *)
Passive(p, reply) ==
  LET i == call[p].rid IN
  /\ UNCHANGED <<ledger, applied>>
  /\ \/ At(p, "read") /\ (Moved(p, "returned", reply) \/ Moved(p, "raised", reply))
     \/ At(p, "lookup") /\ effect[i] = "NONE" /\ Moved(p, "insert", reply)
     \/ At(p, "lookup") /\ MayRetry(i) /\ Moved(p, "retry", reply)
     \/ /\ At(p, "lookup") /\ effect[i] = "COMMITTED" /\ reply = result[i]
        /\ Moved(p, "returned", reply)
     \/ At(p, "lookup") /\ Moved(p, "raised", reply)
     \/ /\ call[p].at \in {"insert", "retry", "commit", "unknown"}
        /\ Moved(p, "raised", reply)
     \/ At(p, "effected") /\ reply \in Values /\ Moved(p, "commit", reply)
     \/ At(p, "effected") /\ Moved(p, "raised", reply)
     \/ call[p].at \in {"handler", "effected"} /\ Moved(p, "unknown", reply)

(* The steps of a call that do not. *)
Active(p) ==
  LET reply == call[p].reply IN
  \/ Insert(p) /\ effect[call[p].rid] = "NONE" /\ Moved(p, "handler", reply)
  \/ Retry(p) /\ Moved(p, "handler", reply)
  \/ Apply(p) /\ Moved(p, "effected", reply)
  \/ Unknown(p) /\ Moved(p, "raised", reply)
  \/ Commit(p) /\ Moved(p, "returned", reply)

LEMMA StepCases ==
  ASSUME TypeInv, NEW p \in Callers, Step(p)
  PROVE  /\ call[p].rid \in RequestIds
         /\ Active(p) \/ \E reply \in Values \cup Errors \cup {None} : Passive(p, reply)
  <1> DEFINE i == call[p].rid
             Reply == Values \cup Errors \cup {None}
             Goal == Active(p) \/ \E reply \in Reply : Passive(p, reply)
  <1>0. /\ call \in [Callers -> Call] /\ "ToolError" \in Errors /\ "OtherError" \in Errors
        /\ call[p].reply \in Reply
    BY DEF Errors, TypeInv, TypeOK, Call
  <1>i. call[p].rid \in RequestIds
    BY DEF TypeInv, Admitted, Step, ReadOnly, Lookup, Insert, Retry, Apply,
           HandlerReturns, HandlerRaises, Unknown, Commit, StatementFails, At
  <1> SUFFICES Goal
    BY <1>i
  <1>1. CASE ReadOnly(p)
    <2>1. \E reply \in Reply : Moved(p, "returned", reply) \/ Moved(p, "raised", reply)
      BY <1>0, <1>1, AnswerMoves, RaiseMoves DEF ReadOnly
    <2> QED BY <1>1, <2>1 DEF ReadOnly, Passive
  <1>2. CASE Lookup(p)
    <2>1. result[i] \in Values \cup {None}
      BY <1>2, <1>i DEF TypeInv, TypeOK
    <2>2. At(p, "lookup") /\ UNCHANGED <<ledger, applied>>
      BY <1>2 DEF Lookup
    <2>3. CASE effect[i] = "NONE" /\ Goto(p, "insert")
      <3>1. Moved(p, "insert", call[p].reply)
        BY <1>0, <2>3, GotoMoves DEF Points
      <3> QED BY <1>0, <2>2, <2>3, <3>1 DEF Passive
    <2>4. CASE MayRetry(i) /\ Goto(p, "retry")
      <3>1. Moved(p, "retry", call[p].reply)
        BY <1>0, <2>4, GotoMoves DEF Points
      <3> QED BY <1>0, <2>2, <2>4, <3>1 DEF Passive
    <2>5. CASE effect[i] = "COMMITTED" /\ Answer(p, result[i])
      <3>1. Moved(p, "returned", result[i])
        BY <1>0, <2>1, <2>5, AnswerMoves
      <3> QED BY <1>0, <2>1, <2>2, <2>5, <3>1 DEF Passive
    <2>6. CASE Raise(p, "ToolError")
      <3>1. Moved(p, "raised", "ToolError")
        BY <1>0, <2>6, RaiseMoves
      <3> QED BY <1>0, <2>2, <3>1 DEF Passive
    <2> QED BY <1>2, <2>3, <2>4, <2>5, <2>6 DEF Lookup
  <1>3. CASE Insert(p)
    <2>1. CASE effect[i] = "NONE"
      <3>1. Moved(p, "handler", call[p].reply)
        BY <1>0, <1>3, <2>1, GotoMoves DEF Insert, Points
      <3> QED BY <1>3, <2>1, <3>1 DEF Active
    <2>2. CASE effect[i] # "NONE"
      <3>1. Moved(p, "raised", "OtherError")
        BY <1>0, <1>3, <2>2, RaiseMoves DEF Insert
      <3> QED BY <1>0, <1>3, <2>2, <3>1 DEF Insert, Passive, ledger, At
    <2> QED BY <2>1, <2>2
  <1>4. CASE Retry(p)
    <2>1. Moved(p, "handler", call[p].reply)
      BY <1>0, <1>4, GotoMoves DEF Retry, Points
    <2> QED BY <1>4, <2>1 DEF Active
  <1>5. CASE Apply(p)
    <2>1. Moved(p, "effected", call[p].reply)
      BY <1>0, <1>5, GotoMoves DEF Apply, Points
    <2> QED BY <1>5, <2>1 DEF Active
  <1>6. CASE HandlerReturns(p)
    <2>1. Moved(p, "raised", "OtherError") \/ \E v \in Values : Moved(p, "commit", v)
      BY <1>0, <1>6, RaiseMoves, Moves DEF HandlerReturns, Points
    <2> QED BY <1>0, <1>6, <2>1 DEF HandlerReturns, Passive
  <1>7. CASE HandlerRaises(p)
    <2>1. \E err \in Errors : Moved(p, "unknown", err)
      BY <1>0, <1>7, Moves DEF HandlerRaises, Points
    <2> QED BY <1>7, <2>1 DEF HandlerRaises, Passive
  <1>8. CASE Unknown(p)
    <2>1. Moved(p, "raised", call[p].reply)
      BY <1>0, <1>8, GotoMoves DEF Unknown, Points
    <2> QED BY <1>8, <2>1 DEF Active
  <1>9. CASE Commit(p)
    <2>1. Moved(p, "returned", call[p].reply)
      BY <1>0, <1>9, GotoMoves DEF Commit, Points
    <2> QED BY <1>9, <2>1 DEF Active
  <1>10. CASE StatementFails(p)
    <2>1. Moved(p, "raised", "OtherError")
      BY <1>0, <1>10, RaiseMoves DEF StatementFails
    <2> QED BY <1>0, <1>10, <2>1 DEF StatementFails, Passive, At
  <1> QED
    BY <1>1, <1>2, <1>3, <1>4, <1>5, <1>6, <1>7, <1>8, <1>9, <1>10 DEF Step

(* A step of a caller inside a call. *)
LEMMA TypeStep ==
  ASSUME TypeInv, NEW p \in Callers, Step(p)
  PROVE  TypeInv'
  <1> USE LedgerAssumption DEF TypeInv, TypeOK, Admitted, ledger, At, InFlight, Moved
  <1>1. ASSUME NEW reply \in Values \cup Errors \cup {None}, Passive(p, reply)
        PROVE  TypeInv'
    BY <1>1 DEF Passive, MayRetry
  <1>2. CASE Insert(p) /\ effect[call[p].rid] = "NONE" /\ Moved(p, "handler", call[p].reply)
    BY <1>2 DEF Insert, EffectStates
  <1>3. CASE Retry(p) /\ Moved(p, "handler", call[p].reply)
    BY <1>3 DEF Retry, EffectStates
  <1>4. CASE Apply(p) /\ Moved(p, "effected", call[p].reply)
    BY <1>4 DEF Apply
  <1>5. CASE Unknown(p) /\ Moved(p, "raised", call[p].reply)
    BY <1>5 DEF Unknown, EffectStates, AfterRaise
  <1>6. CASE Commit(p) /\ Moved(p, "returned", call[p].reply)
    BY <1>6 DEF Commit, EffectStates, StoredResult
  <1> QED
    BY <1>1, <1>2, <1>3, <1>4, <1>5, <1>6, StepCases DEF Active

LEMMA TypeNext == TypeInv /\ [Next]_vars => TypeInv'
  <1> SUFFICES ASSUME TypeInv, [Next]_vars PROVE TypeInv'
    OBVIOUS
  <1> USE LedgerAssumption DEF TypeInv, TypeOK, Admitted, ledger, InFlight
  <1>1. ASSUME NEW p \in Callers, NEW i \in RequestIds, Recover(p, i) PROVE TypeInv'
    <2>1. request[i] \in Bodies \cup {None} /\ result[i] \in Values \cup {None}
      BY DEF Bodies
    <2>2. call' \in [Callers -> Call]
      BY <1>1, <2>1 DEF Recover, Call, Points, Errors
    <2> QED BY <1>1, <2>2 DEF Recover, MayRetry, Call
  <1>2. ASSUME NEW p \in Callers, NEW i \in RequestIds, NEW b \in Bodies, Start(p, i, b)
        PROVE  TypeInv'
    <2>1. call' \in [Callers -> Call]
      BY <1>2 DEF Start, Call, Points, Errors, Admission
    <2> QED BY <1>2, <2>1 DEF Start, Admission, Call
  <1>3. ASSUME NEW p \in Callers, Step(p) PROVE TypeInv'
    BY <1>3, TypeStep
  <1>4. ASSUME NEW p \in Callers, Finish(p) \/ Crash(p) PROVE TypeInv'
    <2>1. call' \in [Callers -> Call]
      BY <1>4 DEF Finish, Crash, NoCall, Call, Points
    <2> QED BY <1>4, <2>1 DEF Finish, Crash, NoCall
  <1>5. ASSUME NEW i \in RequestIds, Reconcile(i) PROVE TypeInv'
    BY <1>5 DEF Reconcile, Deny, Confirm, Reconcilable, DeniedState, EffectStates
  <1>6. CASE UNCHANGED vars
    BY <1>6 DEF vars
  <1> QED
    BY <1>1, <1>2, <1>3, <1>4, <1>5, <1>6 DEF Next

(* The schema's and the code's types are respected in every reachable       *)
(* state.                                                                   *)
THEOREM TypeCorrect == Spec => []TypeOK
  <1>1. Spec => []TypeInv
    BY TypeInit, TypeNext, PTL DEF Spec
  <1> QED
    BY <1>1, PTL DEF TypeInv

-----------------------------------------------------------------------------
(* At most one attempt before a denial. *)

LEMMA DispatchInit == Init => DispatchInv
  BY TypeInit DEF TypeInv, Init, DispatchInv, NoCall, InFlight

LEMMA DispatchStep ==
  ASSUME TypeInv, DispatchInv, TypeInv', NEW p \in Callers, Step(p)
  PROVE  DispatchInv'
  <1> USE DEF DispatchInv, TypeInv, TypeOK, ledger, At, InFlight, Moved
  <1>0. call[p].rid \in RequestIds
    BY StepCases
  <1>1. ASSUME NEW reply \in Values \cup Errors \cup {None}, Passive(p, reply)
        PROVE  DispatchInv'
    BY <1>0, <1>1 DEF Passive, MayRetry
  <1>2. CASE Insert(p) /\ effect[call[p].rid] = "NONE" /\ Moved(p, "handler", call[p].reply)
    BY <1>0, <1>2 DEF Insert, Admitted
  <1>3. CASE Retry(p) /\ Moved(p, "handler", call[p].reply)
    BY <1>0, <1>3 DEF Retry
  <1>4. CASE Apply(p) /\ Moved(p, "effected", call[p].reply)
    BY <1>0, <1>4 DEF Apply, Admitted
  <1>5. CASE Unknown(p) /\ Moved(p, "raised", call[p].reply)
    BY <1>0, <1>5 DEF Unknown, AfterRaise
  <1>6. CASE Commit(p) /\ Moved(p, "returned", call[p].reply)
    BY <1>0, <1>6 DEF Commit
  <1> QED
    BY <1>1, <1>2, <1>3, <1>4, <1>5, <1>6, StepCases DEF Active

LEMMA DispatchNext == TypeInv /\ TypeInv' /\ DispatchInv /\ [Next]_vars => DispatchInv'
  <1> SUFFICES ASSUME TypeInv, TypeInv', DispatchInv, [Next]_vars PROVE DispatchInv'
    OBVIOUS
  <1> USE DEF DispatchInv, TypeInv, TypeOK, ledger, InFlight, Call
  <1>1. ASSUME NEW p \in Callers, NEW i \in RequestIds, Recover(p, i) PROVE DispatchInv'
    BY <1>1 DEF Recover, MayRetry
  <1>2. ASSUME NEW p \in Callers, NEW i \in RequestIds, NEW b \in Bodies, Start(p, i, b)
        PROVE  DispatchInv'
    BY <1>2 DEF Start, Admission
  <1>3. ASSUME NEW p \in Callers, Step(p) PROVE DispatchInv'
    BY <1>3, DispatchStep
  <1>4. ASSUME NEW p \in Callers, Finish(p) \/ Crash(p) PROVE DispatchInv'
    <2>1. call' = [call EXCEPT ![p] = NoCall] /\ UNCHANGED <<ledger, applied>>
      BY <1>4 DEF Finish, Crash
    <2> QED BY <2>1 DEF NoCall
  <1>5. ASSUME NEW i \in RequestIds, Reconcile(i) PROVE DispatchInv'
    BY <1>5 DEF Reconcile, Deny, Confirm, Reconcilable, DeniedState
  <1>6. CASE UNCHANGED vars
    BY <1>6 DEF vars, Admitted
  <1> QED
    BY <1>1, <1>2, <1>3, <1>4, <1>5, <1>6 DEF Next

LEMMA DispatchInvariant == Spec => [](TypeInv /\ DispatchInv)
  <1>1. Spec => []TypeInv
    BY TypeInit, TypeNext, PTL DEF Spec
  <1> QED BY <1>1, DispatchInit, DispatchNext, PTL DEF Spec

(* Whatever the host claims and however callers interleave and die, an      *)
(* effect never happens without its durable request.                        *)
THEOREM EffectsAreWrittenAhead == Spec => []WriteAhead
  <1>1. TypeInv /\ DispatchInv => WriteAhead
    BY LedgerAssumption
    DEF TypeInv, TypeOK, DispatchInv, Admitted, WriteAhead, Bodies
  <1> QED BY <1>1, DispatchInvariant, PTL

(* Whatever the host claims and however callers interleave and die, a       *)
(* request id is attempted at most once until a host denies that it had     *)
(* an effect.                                                               *)
THEOREM AttemptedOnceUntilDenied == Spec => []OneAttemptUnlessDenied
  <1>1. DispatchInv => OneAttemptUnlessDenied
    BY DEF DispatchInv, OneAttemptUnlessDenied
  <1> QED BY <1>1, DispatchInvariant, PTL

-----------------------------------------------------------------------------
(* The trusted host: truthful, patient, and one caller at a time in a       *)
(* request id.                                                              *)

LEMMA TrustedInit == Init => TrustedInv
  BY LedgerAssumption
  DEF Init, TrustedInv, AnswerIsReplayable, NoCall, At

LEMMA TrustedStep ==
  ASSUME Trusted, TypeInv, TrustedInv, TypeInv', NEW p \in Callers, Step(p)
  PROVE  TrustedInv'
  <1> USE LedgerAssumption
      DEF TrustedInv, AnswerIsReplayable, TypeInv, TypeOK, ledger, At, Moved
  <1>0. call[p].rid \in RequestIds /\ call[p].rid # None
    BY StepCases
  <1>1. ASSUME NEW reply \in Values \cup Errors \cup {None}, Passive(p, reply)
        PROVE  TrustedInv'
    BY <1>0, <1>1 DEF Passive, MayRetry
  <1>2. CASE Insert(p) /\ effect[call[p].rid] = "NONE" /\ Moved(p, "handler", call[p].reply)
    BY <1>0, <1>2 DEF Insert, Admitted
  <1>3. CASE Retry(p) /\ Moved(p, "handler", call[p].reply)
    BY <1>0, <1>3 DEF Retry
  <1>4. CASE Apply(p) /\ Moved(p, "effected", call[p].reply)
    BY <1>0, <1>4 DEF Apply
  <1>5. CASE Unknown(p) /\ Moved(p, "raised", call[p].reply)
    BY <1>0, <1>5 DEF Unknown, AfterRaise
  <1>6. CASE Commit(p) /\ Moved(p, "returned", call[p].reply)
    BY <1>0, <1>6 DEF Commit, StoredResult, Admitted
  <1> QED
    BY <1>1, <1>2, <1>3, <1>4, <1>5, <1>6, StepCases DEF Active

LEMMA TrustedNext ==
  ASSUME Trusted
  PROVE  TypeInv /\ TypeInv' /\ TrustedInv /\ [Next]_vars => TrustedInv'
  <1> SUFFICES ASSUME TypeInv, TypeInv', TrustedInv, [Next]_vars PROVE TrustedInv'
    OBVIOUS
  <1> USE LedgerAssumption
      DEF TrustedInv, AnswerIsReplayable, TypeInv, TypeOK, ledger, Call, At, InFlight
  <1>1. ASSUME NEW p \in Callers, NEW i \in RequestIds, Recover(p, i) PROVE TrustedInv'
    BY <1>1 DEF Recover, MayRetry, Free, Trusted
  <1>2. ASSUME NEW p \in Callers, NEW i \in RequestIds, NEW b \in Bodies, Start(p, i, b)
        PROVE  TrustedInv'
    BY <1>2 DEF Start, Admission, Free, Trusted
  <1>3. ASSUME NEW p \in Callers, Step(p) PROVE TrustedInv'
    BY <1>3, TrustedStep
  <1>4. ASSUME NEW p \in Callers, Finish(p) \/ Crash(p) PROVE TrustedInv'
    <2>1. call' = [call EXCEPT ![p] = NoCall] /\ UNCHANGED <<ledger, applied>>
      BY <1>4 DEF Finish, Crash
    <2> QED BY <2>1 DEF NoCall
  <1>5. ASSUME NEW i \in RequestIds, Reconcile(i) PROVE TrustedInv'
    BY <1>5 DEF Reconcile, Deny, Confirm, Reconcilable, DeniedState, Patience,
                Trusted, Admitted
  <1>6. CASE UNCHANGED vars
    BY <1>6 DEF vars
  <1> QED
    BY <1>1, <1>2, <1>3, <1>4, <1>5, <1>6 DEF Next

LEMMA TrustedInvariant ==
  ASSUME Trusted PROVE Spec => [](TypeInv /\ TrustedInv)
  <1>1. Spec => []TypeInv
    BY TypeInit, TypeNext, PTL DEF Spec
  <1>2. TypeInv /\ TypeInv' /\ TrustedInv /\ [Next]_vars => TrustedInv'
    BY TrustedNext
  <1> QED BY <1>1, <1>2, TrustedInit, PTL DEF Spec

(* With a trusted host no request id changes the world twice, however many  *)
(* denials, re-executions and crashes there are.                            *)
THEOREM EffectsHappenOnce ==
  ASSUME Trusted PROVE Spec => []AtMostOneEffect
  <1>1. TrustedInv => AtMostOneEffect
    BY DEF TrustedInv, AtMostOneEffect
  <1> QED BY <1>1, TrustedInvariant, PTL

(* With a trusted host the ledger tells the truth. *)
THEOREM LedgerIsTruthful ==
  ASSUME Trusted PROVE Spec => []RecordIsTrue
  <1>1. TypeInv /\ TrustedInv => RecordIsTrue
    BY DEF TypeInv, TypeOK, TrustedInv, RecordIsTrue
  <1> QED BY <1>1, TrustedInvariant, PTL

(* With a trusted host every answer a caller got is the one replayed later. *)
THEOREM AnswersAreReplayed ==
  ASSUME Trusted PROVE Spec => []AnswerIsReplayable
  <1>1. TrustedInv => AnswerIsReplayable
    BY DEF TrustedInv
  <1> QED BY <1>1, TrustedInvariant, PTL

-----------------------------------------------------------------------------
(* What a step of the trusted ledger may never do, and the contract it      *)
(* implements.                                                              *)

(* A step that writes no row and changes nothing outside. *)
Silent == UNCHANGED <<ledger, applied>>

(* The steps that do, each for one request id. *)
Loud(i) ==
  \/ /\ effect[i] = "NONE" /\ effect' = [effect EXCEPT ![i] = "EXECUTING"]
     /\ UNCHANGED <<result, applied>>
  \/ /\ effect[i] = "RECONCILED_NO_EFFECT"
     /\ effect' = [effect EXCEPT ![i] = "EXECUTING"]
     /\ result' = result /\ applied' = applied
  \/ /\ effect[i] = "EXECUTING" /\ applied[i] = 0
     /\ applied' = [applied EXCEPT ![i] = 1] /\ UNCHANGED <<effect, result>>
  \/ /\ effect[i] = "EXECUTING" /\ effect' = [effect EXCEPT ![i] = "ATTEMPTED_UNKNOWN"]
     /\ UNCHANGED <<result, applied>>
  \/ /\ effect[i] \in {"EXECUTING", "ATTEMPTED_UNKNOWN"} /\ applied[i] = 1
     /\ effect' = [effect EXCEPT ![i] = "COMMITTED"]
     /\ \E v \in Values : result' = [result EXCEPT ![i] = v]
     /\ UNCHANGED applied
  \/ /\ effect[i] \in {"EXECUTING", "ATTEMPTED_UNKNOWN"} /\ applied[i] = 0
     /\ effect' = [effect EXCEPT ![i] = "RECONCILED_NO_EFFECT"]
     /\ UNCHANGED <<result, applied>>

(* Every step of the trusted ledger is silent, or loud for one request id;  *)
(* and it invokes a handler only for an open one.                           *)
LEMMA TrustedSteps ==
  ASSUME Trusted, TypeInv, TrustedInv, [Next]_vars
  PROVE  /\ Silent \/ \E i \in RequestIds : Loud(i)
         /\ DispatchesOpen
  <1> DEFINE Goal == (Silent \/ \E i \in RequestIds : Loud(i)) /\ DispatchesOpen
  <1> USE LedgerAssumption DEF TypeInv, TypeOK, TrustedInv, At, DispatchesOpen
  <1>1. ASSUME NEW p \in Callers, NEW i \in RequestIds, Recover(p, i) PROVE Goal
    BY <1>1 DEF Recover, Silent, Call
  <1>2. ASSUME NEW p \in Callers, NEW i \in RequestIds, NEW b \in Bodies, Start(p, i, b)
        PROVE  Goal
    BY <1>2 DEF Start, Admission, Silent, Call
  <1>3. ASSUME NEW p \in Callers, Step(p) PROVE Goal
    <2> DEFINE i == call[p].rid
    <2>0. i \in RequestIds
      BY <1>3, StepCases
    <2>1. ASSUME NEW reply \in Values \cup Errors \cup {None}, Passive(p, reply)
          PROVE  Goal
      BY <2>1 DEF Passive, Silent, Moved
    <2>2. CASE Insert(p) /\ effect[i] = "NONE" /\ Moved(p, "handler", call[p].reply)
      <3>1. Loud(i)
        BY <2>0, <2>2 DEF Insert, Loud
      <3> QED BY <2>0, <2>2, <3>1 DEF Moved
    <2>3. CASE Retry(p) /\ Moved(p, "handler", call[p].reply)
      <3>1. Loud(i)
        BY <2>0, <2>3 DEF Retry, Loud
      <3> QED BY <2>0, <2>3, <3>1 DEF Moved, Retry
    <2>4. CASE Apply(p) /\ Moved(p, "effected", call[p].reply)
      <3>0. effect[i] = "EXECUTING" /\ applied[i] = 0
        BY <2>4 DEF Apply
      <3>1. Loud(i)
        BY <2>4, <3>0 DEF Apply, Loud, ledger
      <3> QED BY <2>0, <2>4, <3>1 DEF Moved
    <2>5. CASE Unknown(p) /\ Moved(p, "raised", call[p].reply)
      <3>1. Loud(i)
        BY <2>0, <2>5 DEF Unknown, Loud, AfterRaise
      <3> QED BY <2>0, <2>5, <3>1 DEF Moved
    <2>6. CASE Commit(p) /\ Moved(p, "returned", call[p].reply)
      <3>1. Loud(i)
        BY <2>0, <2>6 DEF Commit, Loud, StoredResult, Admitted
      <3> QED BY <2>0, <2>6, <3>1 DEF Moved
    <2> QED BY <1>3, <2>1, <2>2, <2>3, <2>4, <2>5, <2>6, StepCases DEF Active
  <1>4. ASSUME NEW p \in Callers, Finish(p) \/ Crash(p) PROVE Goal
    BY <1>4 DEF Finish, Crash, NoCall, Silent
  <1>5. ASSUME NEW i \in RequestIds, Reconcile(i) PROVE Goal
    <2>1. CASE Deny(i)
      <3>1. Loud(i)
        BY <2>1 DEF Deny, Reconcilable, DeniedState, Trusted, Loud
      <3> QED BY <2>1, <3>1 DEF Deny
    <2>2. ASSUME NEW v \in Values, Confirm(i, v) PROVE Goal
      <3>1. applied[i] = 1
        BY <2>2 DEF Confirm, Trusted
      <3>2. Loud(i)
        BY <2>2, <3>1 DEF Confirm, Reconcilable, Loud
      <3> QED BY <2>2, <3>2 DEF Confirm
    <2> QED BY <1>5, <2>1, <2>2 DEF Reconcile
  <1>6. CASE UNCHANGED vars
    BY <1>6 DEF vars, Silent, ledger
  <1> QED
    BY <1>1, <1>2, <1>3, <1>4, <1>5, <1>6 DEF Next

(* COMMITTED is terminal. *)
THEOREM CommittedStays ==
  ASSUME Trusted PROVE Spec => CommittedIsFinal
  <1>1. TypeInv /\ TrustedInv /\ [Next]_vars => KeepsCommitted
    <2> SUFFICES ASSUME TypeInv, TrustedInv, [Next]_vars PROVE KeepsCommitted
      OBVIOUS
    <2>1. ASSUME NEW i \in RequestIds, Loud(i) PROVE KeepsCommitted
      BY <2>1 DEF Loud, TypeInv, TypeOK, KeepsCommitted
    <2>2. CASE Silent
      BY <2>2 DEF Silent, ledger, KeepsCommitted
    <2> QED BY <2>1, <2>2, TrustedSteps
  <1> QED BY <1>1, TrustedInvariant, PTL DEF Spec, CommittedIsFinal

(* An unresolved or committed request is never dispatched. *)
THEOREM DispatchIsOpen ==
  ASSUME Trusted PROVE Spec => DispatchOnlyWhenOpen
  <1>1. TypeInv /\ TrustedInv /\ [Next]_vars => DispatchesOpen
    BY TrustedSteps
  <1> QED BY <1>1, TrustedInvariant, PTL DEF Spec, DispatchOnlyWhenOpen

(* The trusted ledger implements the at-most-once contract. *)
THEOREM LedgerImplementsContract ==
  ASSUME Trusted PROVE Spec => ImplementsContract
  <1>1. Init => Contract!Init
    BY DEF Init, Contract!Init
  <1>2. TypeInv /\ TrustedInv /\ [Next]_vars => [Contract!Next]_Contract!vars
    <2> SUFFICES ASSUME TypeInv, TrustedInv, [Next]_vars
                 PROVE  [Contract!Next]_Contract!vars
      OBVIOUS
    <2> USE DEF TypeInv, TypeOK, EffectStates
    <2>1. CASE Silent
      BY <2>1 DEF Silent, ledger, Contract!vars
    <2>2. ASSUME NEW i \in RequestIds, Loud(i)
          PROVE  Contract!Next \/ UNCHANGED Contract!vars
      <3> USE DEF Loud
      <3>1. CASE effect[i] \in {"NONE", "RECONCILED_NO_EFFECT"}
        <4>1. Contract!Open(i)
          BY <2>2, <3>1 DEF Contract!Open
        <4> QED BY <4>1 DEF Contract!Next
      <3>2. CASE effect[i] = "EXECUTING" /\ effect' = effect
        <4>1. Contract!Happen(i)
          BY <2>2, <3>2 DEF Contract!Happen
        <4> QED BY <4>1 DEF Contract!Next
      <3>3. CASE effect'[i] = "ATTEMPTED_UNKNOWN" /\ effect' # effect
        BY <2>2, <3>3 DEF Contract!vars
      <3>4. CASE effect[i] \in {"EXECUTING", "ATTEMPTED_UNKNOWN"} /\ effect'[i] = "COMMITTED"
        <4>1. PICK v \in Values : result' = [result EXCEPT ![i] = v]
          BY <2>2, <3>4
        <4>2. /\ applied[i] = 1 /\ applied' = applied
              /\ effect' = [effect EXCEPT ![i] = "COMMITTED"]
          BY <2>2, <3>4
        <4>3. Contract!Settle(i, v)
          BY <3>4, <4>1, <4>2 DEF Contract!Settle
        <4> QED BY <4>3 DEF Contract!Next
      <3>5. CASE /\ effect[i] \in {"EXECUTING", "ATTEMPTED_UNKNOWN"}
                 /\ effect'[i] = "RECONCILED_NO_EFFECT"
        <4>1. Contract!Void(i)
          BY <2>2, <3>5 DEF Contract!Void
        <4> QED BY <4>1 DEF Contract!Next
      <3> QED BY <2>2, <3>1, <3>2, <3>3, <3>4, <3>5
    <2> QED BY <2>1, <2>2, TrustedSteps
  <1> QED
    BY <1>1, <1>2, TrustedInvariant, PTL DEF Spec, ImplementsContract, Contract!Spec
=============================================================================
