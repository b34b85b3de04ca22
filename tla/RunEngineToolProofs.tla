-------------------------- MODULE RunEngineToolProofs --------------------------
(***************************************************************************)
(* Proofs about RunEngine and the effect ledger inside it, under the        *)
(* assumptions of RunEngineProofs: the engine drives the ledger by steps of *)
(* EffectLedger only, so what is proved there of any callers holds here.    *)
(***************************************************************************)
EXTENDS RunEngineProofs

LP == INSTANCE EffectLedgerProofs WITH Serialised <- FALSE

(* The positions in which a worker's plan is a tool call. *)
Calling == {"say", "tool", "block", "fail", "advance"}

(* What a process and its call of the ledger have to do with each other.    *)
ToolInv(p) ==
  /\ p \in Workers /\ job[p].pc \in Calling => job[p].plan \in Calls
  /\ p \in Hosts /\ job[p].pc # "idle" => job[p].plan.rid \in RequestIds
  /\ job[p].pc # "tool" => call[p] = L!NoCall
  /\ job[p].pc = "tool" =>
       /\ call[p].at # "idle" /\ call[p].rid = job[p].plan.rid
       /\ p \in Workers => call[p].body = job[p].plan.body
       /\ p \in Hosts /\ call[p].at \notin {"returned", "raised"} => effect[call[p].rid] # "NONE"
  /\ call[p].at = "returned" => call[p].reply \in Values \cup {None}

Queues == owner \in [Events -> Workers \cup {None}] /\ lapsed \in [Events -> BOOLEAN]

TextTypes ==
  /\ said \in [Runs -> SUBSET Steps]
  /\ outcome \in [Runs -> [Steps -> Values \cup {None}]]
  /\ recovered \in [Runs -> [RequestIds -> Values \cup {None}]]
  /\ faults \in Nat
  /\ Queues

BlockedInv ==
  \A r \in Runs : run[r].status = "BLOCKED_EFFECT" => run[r].blockedOn \in RequestIds

Tools ==
  /\ Inv /\ LP!TypeInv /\ TextTypes /\ BlockedInv
  /\ \A p \in Callers : ToolInv(p)
  /\ EffectsAreDecided

-----------------------------------------------------------------------------
LEMMA LedgerConstants == LP!LedgerAssumption
BY ToolsAssumption DEF L!LedgerAssumption, LP!LedgerAssumption, L!Errors, LP!Errors, L!Bodies, LP!Bodies

(* The two instances of the ledger are one. *)
LEMMA SameLedger ==
  /\ L!Init <=> LP!Init
  /\ L!TypeOK <=> LP!TypeOK
  /\ L!Next <=> LP!Next
  /\ L!vars = LP!vars
  /\ \A p \in Callers : L!Step(p) <=> LP!Step(p)
  /\ L!WriteAhead <=> LP!WriteAhead
  /\ L!OneAttemptUnlessDenied <=> LP!OneAttemptUnlessDenied
BY DEF
  L!Init, L!NoCall, L!TypeOK, L!Next, L!vars, L!Step, L!WriteAhead, L!OneAttemptUnlessDenied,
  L!EffectStates, L!Call, L!Points, L!Errors, L!Bodies, L!ledger, L!At, L!Goto, L!Answer,
  L!Raise, L!Free, L!Admission, L!Start, L!ReadOnly, L!MayRetry, L!SameRequest, L!Lookup,
  L!Insert, L!Retry, L!Apply, L!HandlerReturns, L!HandlerRaises, L!AfterRaise, L!Unknown,
  L!StoredResult, L!Commit, L!StatementFails, L!Recover, L!Finish, L!Crash, L!Reconcilable,
  L!Patience, L!InFlight, L!Confirm, L!DeniedState, L!Deny, L!Reconcile,
  LP!Init, LP!NoCall, LP!TypeOK, LP!Next, LP!vars, LP!Step, LP!WriteAhead, LP!OneAttemptUnlessDenied,
  LP!EffectStates, LP!Call, LP!Points, LP!Errors, LP!Bodies, LP!ledger, LP!At, LP!Goto, LP!Answer,
  LP!Raise, LP!Free, LP!Admission, LP!Start, LP!ReadOnly, LP!MayRetry, LP!SameRequest, LP!Lookup,
  LP!Insert, LP!Retry, LP!Apply, LP!HandlerReturns, LP!HandlerRaises, LP!AfterRaise, LP!Unknown,
  LP!StoredResult, LP!Commit, LP!StatementFails, LP!Recover, LP!Finish, LP!Crash, LP!Reconcilable,
  LP!Patience, LP!InFlight, LP!Confirm, LP!DeniedState, LP!Deny, LP!Reconcile

-----------------------------------------------------------------------------
(* What a step inside execute does to the ledger.                           *)

(* Rows stay, with the request they were written for.                       *)
RowsStay ==
  \A i \in RequestIds : effect[i] # "NONE" => effect'[i] # "NONE" /\ request'[i] = request[i]

LEMMA StepMoves ==
  ASSUME LP!TypeInv, NEW p \in Callers, L!Step(p)
  PROVE  /\ RowsStay
         /\ \A q \in Callers \ {p} : call'[q] = call[q]
         /\ call'[p].rid = call[p].rid /\ call'[p].body = call[p].body
         /\ call'[p].at # "idle"
         /\ call[p].rid \in RequestIds
         /\ \A i \in RequestIds : effect[i] = "NONE" /\ effect'[i] # "NONE" =>
              /\ i = call[p].rid /\ call[p].at = "insert" /\ request'[i] = call[p].body
<1> DEFINE Goal ==
         /\ RowsStay
         /\ \A q \in Callers \ {p} : call'[q] = call[q]
         /\ call'[p].rid = call[p].rid /\ call'[p].body = call[p].body
         /\ call'[p].at # "idle"
         /\ \A i \in RequestIds : effect[i] = "NONE" /\ effect'[i] # "NONE" =>
              /\ i = call[p].rid /\ call[p].at = "insert" /\ request'[i] = call[p].body
<1>0. LP!Step(p) BY SameLedger
<1>1. /\ call[p].rid \in RequestIds
      /\ LP!Active(p) \/ \E reply \in Values \cup LP!Errors \cup {None} : LP!Passive(p, reply)
  BY <1>0, LP!StepCases, LedgerConstants
<1> USE DEF RowsStay, LP!TypeInv, LP!TypeOK, LP!Moved, LP!ledger, LP!At
<1>2. ASSUME NEW reply \in Values \cup LP!Errors \cup {None}, LP!Passive(p, reply)
      PROVE  Goal
  BY <1>2 DEF LP!Passive
<1>3. CASE LP!Insert(p) /\ effect[call[p].rid] = "NONE" /\ LP!Moved(p, "handler", call[p].reply)
  BY <1>1, <1>3 DEF LP!Insert
<1>4. CASE LP!Retry(p) /\ LP!Moved(p, "handler", call[p].reply)
  BY <1>1, <1>4 DEF LP!Retry, LP!Admitted, LP!InFlight
<1>5. CASE LP!Apply(p) /\ LP!Moved(p, "effected", call[p].reply)
  BY <1>1, <1>5 DEF LP!Apply
<1>6. CASE LP!Unknown(p) /\ LP!Moved(p, "raised", call[p].reply)
  BY <1>1, <1>6 DEF LP!Unknown, LP!AfterRaise, LP!Admitted, LP!InFlight
<1>7. CASE LP!Commit(p) /\ LP!Moved(p, "returned", call[p].reply)
  BY <1>1, <1>7 DEF LP!Commit, LP!Admitted, LP!InFlight
<1> QED BY <1>1, <1>2, <1>3, <1>4, <1>5, <1>6, <1>7 DEF LP!Active

(* An answer is a result, never an error.                                   *)
LEMMA StepAnswers ==
  ASSUME LP!TypeInv, NEW p \in Callers, L!Step(p), call'[p].at = "returned"
  PROVE  call'[p].reply \in Values \cup {None}
<1>1. call \in [Callers -> LP!Call] /\ call[p].rid \in RequestIds /\ call[p].at # "returned"
  <2>1. call[p].rid \in RequestIds BY StepMoves
  <2>2. call[p].at # "returned"
    BY DEF L!Step, L!ReadOnly, L!Lookup, L!Insert, L!Retry, L!Apply, L!HandlerReturns,
           L!HandlerRaises, L!Unknown, L!Commit, L!StatementFails, L!At
  <2> QED BY <2>1, <2>2 DEF LP!TypeInv, LP!TypeOK
<1>2. CASE L!ReadOnly(p)
  BY <1>1, <1>2 DEF L!ReadOnly, L!Answer, L!Raise, LP!Call
<1>3. CASE L!Lookup(p)
  <2>1. result[call[p].rid] \in Values \cup {None} BY <1>1 DEF LP!TypeInv, LP!TypeOK
  <2> QED BY <1>1, <1>3, <2>1 DEF L!Lookup, L!Answer, L!Raise, L!Goto, LP!Call
<1>4. CASE L!Commit(p)
  BY <1>1, <1>4 DEF L!Commit, L!At, L!Goto, LP!TypeInv, LP!Admitted, LP!Call
<1>5. CASE \/ L!Insert(p) \/ L!Retry(p) \/ L!Apply(p) \/ L!HandlerReturns(p)
           \/ L!HandlerRaises(p) \/ L!Unknown(p) \/ L!StatementFails(p)
  BY <1>1, <1>5 DEF L!Insert, L!Retry, L!Apply, L!HandlerReturns, L!HandlerRaises, L!Unknown,
     L!StatementFails, L!Raise, L!Goto, LP!Call
<1> QED BY <1>2, <1>3, <1>4, <1>5 DEF L!Step

-----------------------------------------------------------------------------
(* Who does not move keeps what it has to do with its call.                 *)
LEMMA ToolStays ==
  ASSUME Tools, RowsStay, NEW p \in Callers, job'[p] = job[p], call'[p] = call[p]
  PROVE  ToolInv(p)'
<1>1. ToolInv(p) BY DEF Tools
<1>2. job[p].pc = "tool" /\ p \in Hosts => call[p].rid \in RequestIds BY <1>1 DEF ToolInv
<1>3. job[p].pc = "tool" /\ p \in Hosts /\ call[p].at \notin {"returned", "raised"} =>
        effect'[call[p].rid] # "NONE"
  BY <1>1, <1>2 DEF ToolInv, RowsStay
<1> QED BY <1>1, <1>3 DEF ToolInv

DecisionsStay ==
  \A e \in Events : decision[e[1]][e[2]] # None => decision'[e[1]][e[2]] = decision[e[1]][e[2]]

LEMMA DecidedStays ==
  ASSUME Tools, RowsStay, DecisionsStay,
         \A i \in RequestIds : effect[i] = "NONE" => effect'[i] = "NONE"
  PROVE  EffectsAreDecided'
<1> SUFFICES ASSUME NEW i \in RequestIds, effect'[i] # "NONE"
             PROVE  \E e \in Events : decision'[e[1]][e[2]] = [rid |-> i, body |-> request'[i]]
  BY DEF EffectsAreDecided
<1>1. effect[i] # "NONE" /\ request'[i] = request[i] BY DEF RowsStay
<1>2. PICK e \in Events : decision[e[1]][e[2]] = [rid |-> i, body |-> request[i]]
  BY <1>1 DEF Tools, EffectsAreDecided
<1>3. decision[e[1]][e[2]] # None
  <2>1. decision[e[1]][e[2]] \in Plans \cup {None} BY DEF Tools, Inv, Types, Events
  <2>2. request[i] \in Mutations BY <1>1 DEF Tools, LP!TypeInv, LP!Admitted
  <2>3. [rid |-> i, body |-> request[i]] \in Plans BY <2>2 DEF Plans, Calls, Bodies
  <2> QED BY <1>2, <2>3, EngineAssumption
<1> QED BY <1>1, <1>2, <1>3 DEF DecisionsStay

LEMMA LedgerTypes ==
  ASSUME Tools, [L!Next]_(L!vars)
  PROVE  LP!TypeInv'
<1>1. LP!TypeInv /\ [LP!Next]_(LP!vars)
  BY SameLedger DEF Tools, L!vars, LP!vars
<1> QED BY <1>1, LP!TypeNext, LedgerConstants

(* Steps that leave the ledger alone.                                       *)
LEMMA QuietTools ==
  ASSUME Tools, Inv', UNCHANGED toolVars, NEW p \in Callers, OnlyMoves(p),
         job[p].pc # "tool", job'[p].pc # "tool",
         p \in Workers /\ job'[p].pc \in Calling => job'[p].plan \in Calls,
         p \in Hosts /\ job'[p].pc # "idle" => job'[p].plan.rid \in RequestIds,
         TextTypes', BlockedInv', DecisionsStay
  PROVE  Tools'
<1>1. RowsStay /\ UNCHANGED L!vars BY DEF RowsStay, toolVars, L!vars
<1>2. LP!TypeInv' BY <1>1, LedgerTypes
<1>3. \A q \in Callers \ {p} : ToolInv(q)' BY <1>1, ToolStays DEF OnlyMoves, toolVars
<1>4. ToolInv(p)' BY DEF Tools, ToolInv, toolVars, L!NoCall
<1>5. EffectsAreDecided' BY <1>1, DecidedStays DEF toolVars
<1> QED BY <1>2, <1>3, <1>4, <1>5 DEF Tools

LEMMA PlansAre ==
  /\ Calls \subseteq Plans /\ \A plan \in Plans : plan # Final => plan \in Calls
  /\ None \notin Plans
BY EngineAssumption DEF Plans

QuietWork(w) ==
  \/ Load(w) \/ MaxedOut(w) \/ Drop(w) \/ Decide(w) \/ Ask(w) \/ Admit(w) \/ Block(w) \/ Fail(w)
  \/ Advance(w) \/ Conclude(w) \/ Complete(w) \/ Ack(w) \/ Blame(w) \/ Requeue(w)

(* Where a worker goes without a tool call in hand.                         *)
Elsewhere == (Attempt \cup Outside) \ Calling

LEMMA QuietWorkJob ==
  ASSUME Tools, NEW w \in Workers, QuietWork(w)
  PROVE  /\ UNCHANGED toolVars /\ OnlyMoves(w)
         /\ job[w].pc # "tool" /\ job'[w].pc # "tool"
         /\ job'[w].pc \in Calling => job'[w].plan \in Calls
<1> DEFINE r == job[w].run
           s == job[w].step
           Goal == /\ UNCHANGED toolVars /\ OnlyMoves(w)
                   /\ job[w].pc # "tool" /\ job'[w].pc # "tool"
                   /\ job'[w].pc \in Calling => job'[w].plan \in Calls
<1>1. w \in Callers /\ Inv /\ job \in [Callers -> Job] BY Kinds DEF Tools, Inv, Types
<1>2. ASSUME NEW pc \in Elsewhere, Go(w, pc), UNCHANGED toolVars, job[w].pc # "tool" PROVE Goal
  BY <1>1, <1>2, GoesFor, Positions DEF Elsewhere, Calling
<1>3. ASSUME Leave(w), UNCHANGED toolVars, job[w].pc # "tool" PROVE Goal
  BY <1>1, <1>3, LeavesFor DEF Leave, NoJob, Calling
<1>4. ASSUME NEW plan, NEW pc, job' = [job EXCEPT ![w].plan = plan, ![w].pc = pc],
             pc # "tool", pc \in Calling => plan \in Calls, UNCHANGED toolVars, job[w].pc # "tool"
      PROVE  Goal
  BY <1>1, <1>4 DEF Job, OnlyMoves
<1>5. CASE Load(w)
  <2>1. Loaded(w) \in Elsewhere BY DEF Loaded, Elsewhere, Attempt, Outside, Calling
  <2> QED BY <1>2, <1>5, <2>1 DEF Load, At
<1>6. CASE Decide(w)
  <2>1. r \in Runs /\ s \in Steps BY <1>1, <1>6, Works DEF Decide, At
  <2>2. decision[r][s] \in Plans \cup {None} BY <1>1, <2>1 DEF Inv, Types
  <2>3. UNCHANGED toolVars /\ job[w].pc # "tool" /\ "ask" \in Elsewhere
    BY <1>6 DEF Decide, At, Elsewhere, Attempt, Calling
  <2>4. CASE Go(w, "ask") BY <1>2, <2>3, <2>4
  <2>5. ASSUME decision[r][s] = Final,
               job' = [job EXCEPT ![w].plan = decision[r][s], ![w].pc = "final"]
        PROVE  Goal
    <3>1. "final" \notin Calling BY DEF Calling
    <3> QED BY <1>4, <2>3, <2>5, <3>1
  <2>6. ASSUME decision[r][s] # None, decision[r][s] # Final,
               job' = [job EXCEPT ![w].plan = decision[r][s], ![w].pc = "say"]
        PROVE  Goal
    BY <1>4, <2>2, <2>3, <2>6, PlansAre
  <2> QED BY <1>6, <2>4, <2>5, <2>6 DEF Decide
<1>7. CASE Ask(w)
  <2>1. PICK plan \in Plans : job' = [job EXCEPT ![w].plan = plan, ![w].pc = "admit"]
    BY <1>7 DEF Ask
  <2>2. "admit" \notin Calling BY DEF Calling
  <2>3. UNCHANGED toolVars /\ job[w].pc # "tool" BY <1>7 DEF Ask, At
  <2> QED BY <1>4, <2>1, <2>2, <2>3
<1>8. CASE Admit(w)
  <2>1. job[w].plan \in Plans BY <1>1, <1>8, Works DEF Admit, At, Doing
  <2>2. UNCHANGED toolVars /\ job[w].pc # "tool" /\ "error" \in Elsewhere /\ "final" \in Elsewhere
    BY <1>8 DEF Admit, At, Elsewhere, Attempt, Outside, Calling
  <2>3. CASE Go(w, "error") \/ Go(w, "final") BY <1>2, <2>2, <2>3
  <2>4. CASE Go(w, "say") /\ job[w].plan # Final
    <3>1. "say" \in Points BY Positions DEF Attempt
    <3>2. OnlyMoves(w) /\ job'[w].pc = "say" /\ job'[w].plan = job[w].plan
      BY <1>1, <2>4, <3>1, GoesFor
    <3>3. job[w].plan \in Calls BY <2>1, <2>4, PlansAre
    <3> QED BY <2>2, <3>2, <3>3
  <2> QED BY <1>8, <2>3, <2>4 DEF Admit
<1>9. {"ack", "error", "drop", "complete", "requeue"} \subseteq Elsewhere
  BY DEF Elsewhere, Attempt, Outside, Calling
<1>10. CASE MaxedOut(w) \/ Fail(w) \/ Conclude(w) \/ Complete(w) \/ Blame(w)
  BY <1>2, <1>9, <1>10 DEF MaxedOut, Fail, Conclude, Complete, Blame, At
<1>11. CASE Drop(w) \/ Requeue(w)
  BY <1>3, <1>11 DEF Drop, Requeue, At
<1>12. CASE Block(w) \/ Advance(w)
  BY <1>2, <1>9, <1>12 DEF Block, Advance, At
<1>13. CASE Ack(w)
  BY <1>2, <1>3, <1>9, <1>13 DEF Ack, At
<1> QED BY <1>5, <1>6, <1>7, <1>8, <1>10, <1>11, <1>12, <1>13 DEF QuietWork

(* Rows, events and messages keep their types in such a step.               *)
LEMMA RowStaysTyped ==
  ASSUME Tools, NEW r \in Runs, \A q \in Runs \ {r} : run'[q] = run[q],
         run'[r].status = "BLOCKED_EFFECT" => run'[r].blockedOn \in RequestIds
  PROVE  BlockedInv'
BY DEF Tools, BlockedInv

LEMMA QuietWorkText ==
  ASSUME Tools, NEW w \in Workers, QuietWork(w)
  PROVE  TextTypes' /\ BlockedInv' /\ DecisionsStay
<1> DEFINE r == job[w].run
           s == job[w].step
           Goal == TextTypes' /\ BlockedInv' /\ DecisionsStay
<1>1. Inv /\ TextTypes /\ BlockedInv /\ ToolInv(w) BY Kinds DEF Tools
<1>2. job[w].pc # "idle" => r \in Runs /\ s \in Steps /\ run[r] \in Row
  BY <1>1, Works DEF Inv, Types
<1>3. CASE Load(w) \/ Decide(w) \/ Ask(w)
  BY <1>1, <1>3 DEF Load, Decide, Ask, textVars, queueVars, Queues, TextTypes, BlockedInv, DecisionsStay
<1>4. ASSUME UNCHANGED <<textVars, queueVars, faults>>, BlockedInv'
      PROVE  Goal
  BY <1>1, <1>4 DEF textVars, queueVars, Queues, TextTypes, DecisionsStay
<1>5. CASE MaxedOut(w) \/ Fail(w) \/ Complete(w)
  <2>1. job[w].pc # "idle" /\ UNCHANGED <<textVars, queueVars, faults>>
    BY <1>5 DEF MaxedOut, Fail, Complete, At
  <2>2. run'[r].status # "BLOCKED_EFFECT" /\ \A q \in Runs \ {r} : run'[q] = run[q]
    <3>1. run \in [Runs -> Row] /\ r \in Runs
      BY <1>1, <1>2, <2>1 DEF Inv, Types
    <3>2. CASE MaxedOut(w)
      BY <3>1, <3>2 DEF MaxedOut, Row
    <3>3. CASE Fail(w)
      BY <3>1, <3>3 DEF Fail, Row
    <3>4. CASE Complete(w)
      BY <3>1, <3>4 DEF Complete, Row
    <3> QED BY <1>5, <3>2, <3>3, <3>4
  <2> QED BY <1>2, <1>4, <2>1, <2>2, RowStaysTyped
<1>6. CASE Block(w)
  <2>1. job[w].pc = "block" /\ UNCHANGED <<textVars, queueVars, faults>>
    BY <1>6 DEF Block, At
  <2>2. job[w].plan.rid \in RequestIds
    BY <1>1, <2>1 DEF ToolInv, Calling, Calls
  <2>3. CASE UNCHANGED run BY <1>1, <1>4, <2>1, <2>3 DEF BlockedInv
  <2>4. CASE run' = [run EXCEPT ![r].status = "BLOCKED_EFFECT", ![r].error = TRUE,
                                ![r].blockedOn = job[w].plan.rid]
    <3>1. run'[r].blockedOn = job[w].plan.rid /\ \A q \in Runs \ {r} : run'[q] = run[q]
      BY <1>1, <1>2, <2>1, <2>4 DEF Inv, Types, Row
    <3> QED BY <1>2, <1>4, <2>1, <2>2, <3>1, RowStaysTyped
  <2> QED BY <1>6, <2>3, <2>4 DEF Block
<1>7. CASE Blame(w)
  <2>1. job[w].pc # "idle" /\ UNCHANGED <<textVars, queueVars, faults>>
    BY <1>7 DEF Blame, At
  <2>2. /\ run'[r].status = run[r].status /\ run'[r].blockedOn = run[r].blockedOn
        /\ \A q \in Runs \ {r} : run'[q] = run[q]
    BY <1>1, <1>2, <1>7, <2>1 DEF Blame, Inv, Types, Row
  <2> QED BY <1>1, <1>2, <1>4, <2>1, <2>2, RowStaysTyped DEF BlockedInv
<1>8. ASSUME UNCHANGED textVars, faults' \in Nat, Queues', BlockedInv'
      PROVE  Goal
  BY <1>1, <1>8 DEF textVars, TextTypes, DecisionsStay
<1>9. CASE Drop(w) \/ Ack(w) \/ Requeue(w)
  <2>1. UNCHANGED <<run, textVars>>
    BY <1>9 DEF Drop, Ack, Requeue
  <2>2. faults' \in Nat
    BY <1>1, <1>9 DEF Drop, Ack, Requeue, Spend, TextTypes
  <2>3. Queues'
    BY <1>1, <1>9 DEF Drop, Ack, Requeue, TextTypes, Queues, queueVars, Q!Ack, Q!Release, Q!Settle
  <2> QED BY <1>1, <1>8, <2>1, <2>2, <2>3 DEF BlockedInv
<1>10. CASE Advance(w)
  <2>1. job[w].pc # "idle" /\ UNCHANGED <<textVars, faults>>
    BY <1>10 DEF Advance, At
  <2>2. faults' \in Nat BY <1>1, <2>1 DEF TextTypes
  <2>3. CASE UNCHANGED <<run, queueVars>>
    BY <1>1, <1>8, <2>1, <2>2, <2>3 DEF BlockedInv, TextTypes, Queues, queueVars
  <2>4. CASE /\ MayAdvance(r, s) /\ run' = [run EXCEPT ![r].step = @ + 1, ![r].error = FALSE]
             /\ Schedule(r, s + 1)
    <3>1. run'[r].status # "BLOCKED_EFFECT" /\ \A q \in Runs \ {r} : run'[q] = run[q]
      BY <1>1, <1>2, <2>1, <2>4 DEF MayAdvance, Inv, Types, Row
    <3>2. BlockedInv' BY <1>2, <2>1, <3>1, RowStaysTyped
    <3>3. Queues' BY <1>1, <2>4 DEF Schedule, Q!Enqueue, TextTypes, Queues
    <3> QED BY <1>8, <2>1, <2>2, <3>2, <3>3
  <2> QED BY <1>10, <2>3, <2>4 DEF Advance
<1>11. CASE Conclude(w)
  <2>1. r \in Runs /\ s \in Steps BY <1>2, <1>11 DEF Conclude, At
  <2>2. said' \in [Runs -> SUBSET Steps] BY <1>1, <1>11, <2>1 DEF Conclude, TextTypes
  <2> QED BY <1>1, <1>11, <2>2 DEF Conclude, queueVars, Queues, TextTypes, BlockedInv, DecisionsStay
<1>12. CASE Admit(w)
  <2>1. UNCHANGED <<run, said, outcome, recovered, faults, queueVars>> BY <1>12 DEF Admit
  <2>2. DecisionsStay
    <3>1. /\ r \in Runs /\ s \in Steps
          /\ decision' = decision \/ (Admissible(decision[r][s], job[w].plan)
                                    /\ decision' = [decision EXCEPT ![r][s] = job[w].plan])
      BY <1>2, <1>12 DEF Admit, At
    <3>2. \A q \in Runs : \A t \in Steps :
            decision[q][t] # None => decision'[q][t] = decision[q][t]
      BY <1>1, <3>1 DEF Admissible, Inv, Types
    <3> QED BY <3>2 DEF DecisionsStay, Events
  <2> QED BY <1>1, <2>1, <2>2 DEF queueVars, Queues, TextTypes, BlockedInv
<1> QED BY <1>3, <1>5, <1>6, <1>7, <1>9, <1>10, <1>11, <1>12 DEF QuietWork

LEMMA QuietWorkTools ==
  ASSUME Tools, Inv', NEW w \in Workers, QuietWork(w)
  PROVE  Tools'
BY QuietWorkJob, QuietWorkText, QuietTools, Kinds

-----------------------------------------------------------------------------
(* The other steps that leave the ledger alone.                             *)

LEMMA QuietOthers ==
  ASSUME Tools, Inv', UNCHANGED <<textVars, faults, toolVars>>, BlockedInv',
         Queues',
         \/ UNCHANGED job
         \/ \E p \in Callers :
              /\ OnlyMoves(p) /\ job[p].pc # "tool" /\ job'[p].pc \notin Calling
              /\ p \in Hosts /\ job'[p].pc # "idle" => job'[p].plan.rid \in RequestIds
  PROVE  Tools'
<1>1. TextTypes' BY DEF Tools, TextTypes, textVars
<1>2. DecisionsStay BY DEF DecisionsStay, textVars
<1>3. CASE UNCHANGED job
  <2>1. RowsStay /\ UNCHANGED L!vars BY DEF RowsStay, toolVars, L!vars
  <2>2. LP!TypeInv' BY <2>1, LedgerTypes
  <2>3. \A q \in Callers : ToolInv(q)' BY <1>3, <2>1, ToolStays DEF toolVars
  <2>4. EffectsAreDecided' BY <1>2, <2>1, DecidedStays DEF toolVars
  <2> QED BY <1>1, <2>2, <2>3, <2>4 DEF Tools
<1>4. ASSUME NEW p \in Callers, OnlyMoves(p), job[p].pc # "tool", job'[p].pc \notin Calling,
             p \in Hosts /\ job'[p].pc # "idle" => job'[p].plan.rid \in RequestIds
      PROVE  Tools'
  <2>1. job'[p].pc # "tool" BY <1>4 DEF Calling
  <2> QED BY <1>1, <1>2, <1>4, <2>1, QuietTools
<1> QED BY <1>3, <1>4

LEMMA SubmitTools == ASSUME Tools, Inv', NEW r \in Runs, Submit(r) PROVE Tools'
<1>1. BlockedInv'
  <2>1. run'[r].status # "BLOCKED_EFFECT" /\ \A q \in Runs \ {r} : run'[q] = run[q]
    BY DEF Submit, Tools, Inv, Types, Row
  <2> QED BY <2>1, RowStaysTyped
<1>2. Queues' BY DEF Submit, Q!Enqueue, Tools, TextTypes, Queues
<1>3. UNCHANGED <<textVars, faults, toolVars, job>> BY DEF Submit
<1> QED BY <1>1, <1>2, <1>3, QuietOthers

LEMMA ClaimTools ==
  ASSUME Tools, Inv', NEW w \in Workers, NEW e \in Events, Claim(w, e) PROVE Tools'
<1>1. BlockedInv' BY DEF Claim, Tools, BlockedInv
<1>2. w \in Callers /\ w \notin Hosts BY Kinds
<1>3. OnlyMoves(w) /\ job[w].pc # "tool" /\ job'[w].pc \notin Calling
  BY <1>2 DEF Claim, At, OnlyMoves, Calling, Tools, Inv, Types
<1>4. Queues' BY DEF Claim, Q!Claim, Tools, TextTypes, Queues
<1>5. UNCHANGED <<textVars, faults, toolVars>> BY DEF Claim
<1> QED BY <1>1, <1>2, <1>3, <1>4, <1>5, QuietOthers

LEMMA ResumeBlockedTools ==
  ASSUME Tools, Inv', NEW h \in Hosts, NEW r \in Runs, ResumeBlocked(h, r) PROVE Tools'
<1>1. BlockedInv' BY DEF ResumeBlocked, Tools, BlockedInv
<1>2. h \in Callers BY Kinds
<1>3. run[r].blockedOn \in RequestIds BY DEF ResumeBlocked, Tools, BlockedInv
<1>4. /\ OnlyMoves(h) /\ job[h].pc # "tool" /\ job'[h].pc \notin Calling
      /\ job'[h].plan.rid \in RequestIds
  BY <1>2, <1>3 DEF ResumeBlocked, At, OnlyMoves, Calling, Tools, Inv, Types
<1>5. UNCHANGED <<textVars, faults, toolVars>> BY DEF ResumeBlocked
<1>6. Queues' BY DEF ResumeBlocked, Tools, TextTypes, Queues, queueVars
<1> QED BY <1>1, <1>2, <1>4, <1>5, <1>6, QuietOthers

LEMMA ResumeTools == ASSUME Tools, Inv', NEW h \in Hosts, Resume(h) PROVE Tools'
<1> DEFINE r == job[h].run
<1>1. h \in Callers /\ h \notin Workers /\ job[h].pc = "resume" BY Kinds DEF Resume, At
<1>2. r \in Runs BY <1>1 DEF Tools, Inv, Doing
<1>3. BlockedInv'
  <2>1. CASE UNCHANGED run BY <2>1 DEF Tools, BlockedInv
  <2>2. CASE run' = [run EXCEPT ![r].status = "RUNNING", ![r].blockedOn = None,
                                ![r].error = FALSE, ![r].step = @ + 1]
    <3>1. run \in [Runs -> Row] BY DEF Tools, Inv, Types
    <3>2. run'[r].status # "BLOCKED_EFFECT" /\ \A q \in Runs \ {r} : run'[q] = run[q]
      BY <1>2, <2>2, <3>1 DEF Row
    <3> QED BY <1>2, <3>2, RowStaysTyped
  <2> QED BY <2>1, <2>2 DEF Resume
<1>4. OnlyMoves(h) /\ job'[h] = NoJob
  BY <1>1, LeavesFor DEF Resume, Leave, Tools, Inv, Types
<1>5. UNCHANGED <<textVars, faults, toolVars>> BY DEF Resume
<1>6. Queues' BY DEF Resume, Schedule, Q!Enqueue, Tools, TextTypes, Queues, queueVars
<1>7. job[h].pc # "tool" /\ job'[h].pc = "idle" /\ "idle" \notin Calling
  BY <1>1, <1>4 DEF NoJob, Calling
<1> QED BY <1>1, <1>3, <1>4, <1>5, <1>6, <1>7, QuietOthers

LEMMA LapseTools == ASSUME Tools, Inv', NEW e \in Events, Lapse(e) PROVE Tools'
<1>1. BlockedInv' BY DEF Lapse, Tools, BlockedInv
<1>2. Queues' BY DEF Lapse, Q!Lapse, Tools, TextTypes, Queues
<1>3. UNCHANGED <<textVars, faults, toolVars, job>> BY DEF Lapse
<1> QED BY <1>1, <1>2, <1>3, QuietOthers

-----------------------------------------------------------------------------
(* Steps of the ledger.                                                     *)

LEMMA LedgerTools ==
  ASSUME Tools, Inv', [L!Next]_(L!vars), RowsStay, NEW p \in Callers, OnlyMoves(p),
         \A q \in Callers \ {p} : call'[q] = call[q],
         ToolInv(p)', TextTypes', UNCHANGED <<run, decision>>,
         \A i \in RequestIds : effect[i] = "NONE" /\ effect'[i] # "NONE" =>
           \E e \in Events : decision[e[1]][e[2]] = [rid |-> i, body |-> request'[i]]
  PROVE  Tools'
<1>1. LP!TypeInv' BY LedgerTypes
<1>2. \A q \in Callers \ {p} : ToolInv(q)' BY ToolStays DEF OnlyMoves
<1>3. BlockedInv' BY DEF Tools, BlockedInv
<1>4. EffectsAreDecided'
  <2> SUFFICES ASSUME NEW i \in RequestIds, effect'[i] # "NONE"
               PROVE  \E e \in Events : decision[e[1]][e[2]] = [rid |-> i, body |-> request'[i]]
    BY DEF EffectsAreDecided
  <2>1. CASE effect[i] = "NONE" BY <2>1
  <2>2. CASE effect[i] # "NONE" BY <2>2 DEF RowsStay, Tools, EffectsAreDecided
  <2> QED BY <2>1, <2>2
<1> QED BY <1>1, <1>2, <1>3, <1>4 DEF Tools

(* What a call is when it is over.                                          *)
LEMMA CallEnds ==
  ASSUME Tools, NEW p \in Callers, call' = [call EXCEPT ![p] = L!NoCall]
  PROVE  /\ call'[p] = L!NoCall /\ \A q \in Callers \ {p} : call'[q] = call[q]
         /\ call'[p].at = "idle"
BY DEF Tools, LP!TypeInv, LP!TypeOK, L!NoCall

(* A step that ends a call and leaves the ledger alone.                     *)
LEMMA EndTools ==
  ASSUME Tools, Inv', NEW p \in Callers, call' = [call EXCEPT ![p] = L!NoCall],
         call[p].at \in {"returned", "raised"} \/ L!Crash(p) \/ call'= call,
         OnlyMoves(p), job'[p].pc # "tool",
         p \in Workers /\ job'[p].pc \in Calling => job'[p].plan \in Calls,
         p \in Hosts /\ job'[p].pc # "idle" => job'[p].plan.rid \in RequestIds,
         UNCHANGED <<run, decision, effect, request, result, denied, applied>>, TextTypes'
  PROVE  Tools'
<1>1. /\ call'[p] = L!NoCall /\ \A q \in Callers \ {p} : call'[q] = call[q]
      /\ call'[p].at = "idle"
  BY CallEnds
<1>2. [L!Next]_(L!vars)
  <2>1. CASE call[p].at \in {"returned", "raised"}
    BY <2>1 DEF L!Next, L!Finish, L!ledger
  <2>2. CASE L!Crash(p) BY <2>2 DEF L!Next
  <2>3. CASE call' = call BY <2>3 DEF L!vars
  <2> QED BY <2>1, <2>2, <2>3
<1>3. RowsStay BY DEF RowsStay
<1>4. ToolInv(p)' BY <1>1 DEF ToolInv
<1> QED BY <1>1, <1>2, <1>3, <1>4, LedgerTools

LEMMA SayTools == ASSUME Tools, Inv', NEW w \in Workers, Say(w) PROVE Tools'
<1> DEFINE r == job[w].run
           i == job[w].plan.rid
           b == job[w].plan.body
<1>1. w \in Callers /\ w \notin Hosts /\ job[w].pc = "say" /\ Inv BY Kinds DEF Say, At, Tools
<1>2. r \in Runs /\ job[w].step \in Steps BY <1>1, Works
<1>3. job[w].plan \in Calls /\ i \in RequestIds /\ b \in Bodies
  BY <1>1 DEF Tools, ToolInv, Calling, Calls
<1>4. L!Start(w, i, b) BY DEF Say
<1>5. [L!Next]_(L!vars) BY <1>1, <1>3, <1>4 DEF L!Next, L!Bodies, Bodies
<1>6. /\ OnlyMoves(w) /\ job'[w].pc = "tool" /\ job'[w].plan = job[w].plan
  BY <1>1, GoesFor, Positions DEF Say, Attempt
<1>7. /\ \A q \in Callers \ {w} : call'[q] = call[q]
      /\ call'[w].rid = i /\ call'[w].body = b
      /\ call'[w].at \in {"read", "lookup", "raised"}
  BY <1>1, <1>4 DEF L!Start, L!Admission, Tools, LP!TypeInv, LP!TypeOK
<1>8. ToolInv(w)' BY <1>1, <1>3, <1>6, <1>7 DEF ToolInv
<1>9. UNCHANGED <<effect, request>> BY <1>4 DEF L!Start, L!ledger
<1>10. TextTypes'
  <2>1. said' \in [Runs -> SUBSET Steps] BY <1>2 DEF Say, Tools, TextTypes
  <2> QED BY <2>1 DEF Say, Tools, TextTypes, Queues, queueVars
<1>11. UNCHANGED <<run, decision>> BY DEF Say
<1> QED BY <1>1, <1>5, <1>6, <1>7, <1>8, <1>9, <1>10, <1>11, LedgerTools DEF RowsStay

LEMMA ToolTools == ASSUME Tools, Inv', NEW p \in Callers, Tool(p) PROVE Tools'
<1>1. L!Step(p) /\ job[p].pc = "tool" /\ UNCHANGED <<run, textVars, job, queueVars>> BY DEF Tool, At
<1>2. /\ RowsStay
      /\ \A q \in Callers \ {p} : call'[q] = call[q]
      /\ call'[p].rid = call[p].rid /\ call'[p].body = call[p].body
      /\ call'[p].at # "idle"
      /\ call[p].rid \in RequestIds
      /\ \A i \in RequestIds : effect[i] = "NONE" /\ effect'[i] # "NONE" =>
           /\ i = call[p].rid /\ call[p].at = "insert" /\ request'[i] = call[p].body
  BY <1>1, StepMoves DEF Tools
<1>3. ToolInv(p) BY DEF Tools
<1>4. call'[p].at = "returned" => call'[p].reply \in Values \cup {None}
  BY <1>1, StepAnswers DEF Tools
<1>5. p \in Hosts => effect'[call[p].rid] # "NONE" \/ call'[p].at \in {"returned", "raised"}
  <2>1. call[p].at \notin {"returned", "raised"}
    BY <1>1 DEF L!Step, L!ReadOnly, L!Lookup, L!Insert, L!Retry, L!Apply, L!HandlerReturns,
           L!HandlerRaises, L!Unknown, L!Commit, L!StatementFails, L!At
  <2> QED BY <1>1, <1>2, <1>3, <2>1 DEF ToolInv, RowsStay
<1>6. ToolInv(p)' BY <1>1, <1>2, <1>3, <1>4, <1>5 DEF ToolInv
<1>7. [L!Next]_(L!vars) BY <1>1 DEF L!Next
<1>8. TextTypes'
  <2>1. faults' \in Nat BY DEF Tool, Spend, Tools, TextTypes
  <2> QED BY <1>1, <2>1 DEF Tools, TextTypes, Queues, textVars, queueVars
<1>9. ASSUME NEW i \in RequestIds, effect[i] = "NONE", effect'[i] # "NONE"
      PROVE  \E e \in Events : decision[e[1]][e[2]] = [rid |-> i, body |-> request'[i]]
  <2> DEFINE plan == job[p].plan
  <2>1. i = call[p].rid /\ call[p].at = "insert" /\ request'[i] = call[p].body
    BY <1>2, <1>9
  <2>2. p \in Workers BY <1>1, <1>3, <1>9, <2>1, Kinds DEF ToolInv
  <2>3. plan \in Calls /\ call[p].rid = plan.rid /\ call[p].body = plan.body
    BY <1>1, <1>3, <2>2 DEF ToolInv, Calling
  <2>4. plan = [rid |-> i, body |-> request'[i]] BY <2>1, <2>3 DEF Calls
  <2>5. EventOf(p) \in Events /\ EventOf(p)[1] = job[p].run /\ EventOf(p)[2] = job[p].step
    BY <1>1, <2>2, Working DEF Tools
  <2>6. plan = decision[job[p].run][job[p].step]
    BY <1>1, <2>2, Works DEF Tools, Doing, Acting
  <2> QED BY <2>4, <2>5, <2>6
<1>10. UNCHANGED <<run, decision>> /\ OnlyMoves(p) BY <1>1 DEF textVars, OnlyMoves
<1> QED BY <1>2, <1>6, <1>7, <1>8, <1>9, <1>10, LedgerTools

LEMMA ToolReturnedTools ==
  ASSUME Tools, Inv', NEW w \in Workers, ToolReturned(w) PROVE Tools'
<1> DEFINE r == job[w].run
           s == job[w].step
<1>1. w \in Callers /\ w \notin Hosts /\ job[w].pc = "tool" /\ call[w].at = "returned" /\ Inv
  BY Kinds DEF ToolReturned, At, L!At, Tools
<1>2. r \in Runs /\ s \in Steps BY <1>1, Works
<1>3. call[w].reply \in Values \cup {None} /\ job[w].plan \in Calls
  BY <1>1 DEF Tools, ToolInv, Calling
<1>4. TextTypes'
  <2>1. outcome' \in [Runs -> [Steps -> Values \cup {None}]]
    <3>1. outcome \in [Runs -> [Steps -> Values \cup {None}]] BY DEF Tools, TextTypes
    <3>2. UNCHANGED outcome \/ outcome' = [outcome EXCEPT ![r][s] = call[w].reply]
      BY DEF ToolReturned
    <3> QED BY <1>2, <1>3, <3>1, <3>2
  <2> QED BY <2>1 DEF ToolReturned, Tools, TextTypes, Queues, queueVars
<1>5. PICK pc \in {"advance", "error"} : Go(w, pc) BY DEF ToolReturned
<1>6. OnlyMoves(w) /\ job'[w].pc # "tool" /\ job'[w].plan = job[w].plan
  BY <1>1, <1>5, GoesFor, Positions DEF Attempt, Outside
<1>7. call' = [call EXCEPT ![w] = L!NoCall] /\ UNCHANGED <<effect, request, result, denied, applied>>
  BY DEF ToolReturned, L!Finish, L!ledger
<1>8. UNCHANGED <<run, decision>> BY DEF ToolReturned
<1> QED BY <1>1, <1>3, <1>4, <1>6, <1>7, <1>8, EndTools

LEMMA ToolRaisedTools == ASSUME Tools, Inv', NEW w \in Workers, ToolRaised(w) PROVE Tools'
<1>1. w \in Callers /\ w \notin Hosts /\ job[w].pc = "tool" /\ call[w].at = "raised" /\ Inv
  BY Kinds DEF ToolRaised, At, L!At, Tools
<1>2. job[w].plan \in Calls BY <1>1 DEF Tools, ToolInv, Calling
<1>3. UNCHANGED <<run, textVars, faults, queueVars>> BY DEF ToolRaised
<1>4. TextTypes' BY <1>3 DEF Tools, TextTypes, Queues, textVars, queueVars
<1>5. PICK pc \in {"block", "fail", "error"} : Go(w, pc) BY DEF ToolRaised, Verdict
<1>6. OnlyMoves(w) /\ job'[w].pc # "tool" /\ job'[w].plan = job[w].plan
  BY <1>1, <1>5, GoesFor, Positions DEF Attempt, Outside
<1>7. call' = [call EXCEPT ![w] = L!NoCall] /\ UNCHANGED <<effect, request, result, denied, applied>>
  BY DEF ToolRaised, L!Finish, L!ledger
<1> QED BY <1>1, <1>2, <1>3, <1>4, <1>6, <1>7, EndTools DEF textVars

LEMMA RecoverTools == ASSUME Tools, Inv', NEW h \in Hosts, Recover(h) PROVE Tools'
<1> DEFINE i == job[h].plan.rid
<1>1. h \in Callers /\ h \notin Workers /\ job[h].pc = "recover" /\ Inv
  BY Kinds DEF Recover, At, Tools
<1>2. i \in RequestIds BY <1>1 DEF Tools, ToolInv
<1>3. L!Recover(h, i) /\ UNCHANGED <<run, textVars, faults, queueVars>> BY DEF Recover
<1>4. [L!Next]_(L!vars) BY <1>1, <1>2, <1>3 DEF L!Next
<1>5. OnlyMoves(h) /\ job'[h].pc = "tool" /\ job'[h].plan = job[h].plan
  BY <1>1, GoesFor, Positions DEF Recover, Attempt
<1>6. result[i] \in Values \cup {None} BY <1>2 DEF Tools, LP!TypeInv, LP!TypeOK
<1>7. /\ \A q \in Callers \ {h} : call'[q] = call[q]
      /\ call'[h].rid = i
      /\ call'[h].at \in {"returned", "lookup", "raised"}
      /\ call'[h].at = "lookup" => effect[i] # "NONE"
      /\ call'[h].at = "returned" => call'[h].reply = result[i]
  BY <1>1, <1>3 DEF L!Recover, L!MayRetry, Tools, LP!TypeInv, LP!TypeOK
<1>8. UNCHANGED <<effect, request>> BY <1>3 DEF L!Recover, L!ledger
<1>9. ToolInv(h)' BY <1>1, <1>2, <1>5, <1>6, <1>7, <1>8 DEF ToolInv
<1>10. TextTypes' BY <1>3 DEF Tools, TextTypes, Queues, textVars, queueVars
<1>11. UNCHANGED <<run, decision>> BY <1>3 DEF textVars
<1> QED BY <1>1, <1>4, <1>5, <1>7, <1>8, <1>9, <1>10, <1>11, LedgerTools DEF RowsStay

LEMMA RecoveredTools == ASSUME Tools, Inv', NEW h \in Hosts, Recovered(h) PROVE Tools'
<1> DEFINE r == job[h].run
           i == job[h].plan.rid
<1>1. /\ h \in Callers /\ h \notin Workers /\ job[h].pc = "tool" /\ Inv
      /\ call[h].at \in {"returned", "raised"}
  BY Kinds DEF Recovered, At, L!Finish, Tools
<1>2. r \in Runs /\ i \in RequestIds BY <1>1 DEF Tools, Inv, Doing, ToolInv
<1>3. call[h].at = "returned" => call[h].reply \in Values \cup {None} BY <1>1 DEF Tools, ToolInv
<1>4. TextTypes'
  <2>1. recovered' \in [Runs -> [RequestIds -> Values \cup {None}]]
    <3>1. recovered \in [Runs -> [RequestIds -> Values \cup {None}]] BY DEF Tools, TextTypes
    <3>2. \/ UNCHANGED recovered
          \/ call[h].at = "returned" /\ recovered' = [recovered EXCEPT ![r][i] = call[h].reply]
      BY DEF Recovered, Answered
    <3> QED BY <1>2, <1>3, <3>1, <3>2
  <2> QED BY <2>1 DEF Recovered, Tools, TextTypes, Queues, queueVars
<1>5. call' = [call EXCEPT ![h] = L!NoCall] /\ UNCHANGED <<effect, request, result, denied, applied>>
  BY DEF Recovered, L!Finish, L!ledger
<1>6. UNCHANGED <<run, decision>> BY DEF Recovered
<1>7. CASE Go(h, "resume")
  <2>1. OnlyMoves(h) /\ job'[h].pc # "tool" /\ job'[h].plan.rid = i
    BY <1>1, <1>7, GoesFor, Positions DEF Outside
  <2> QED BY <1>1, <1>2, <1>4, <1>5, <1>6, <2>1, EndTools
<1>8. CASE Leave(h)
  <2>1. OnlyMoves(h) /\ job'[h].pc = "idle"
    BY <1>1, <1>8, LeavesFor DEF Leave, NoJob, Inv, Types
  <2> QED BY <1>1, <1>4, <1>5, <1>6, <2>1, EndTools
<1> QED BY <1>7, <1>8 DEF Recovered

LEMMA ReconcileTools == ASSUME Tools, Inv', NEW i \in RequestIds, Reconcile(i) PROVE Tools'
<1>1. L!Reconcile(i) /\ UNCHANGED <<run, textVars, job, faults, queueVars>> BY DEF Reconcile
<1>2. [L!Next]_(L!vars) BY <1>1 DEF L!Next
<1>3. /\ UNCHANGED <<request, call>> /\ effect[i] # "NONE" /\ effect'[i] # "NONE"
      /\ \A j \in RequestIds \ {i} : effect'[j] = effect[j]
  BY <1>1 DEF L!Reconcile, L!Deny, L!Confirm, L!Reconcilable, L!DeniedState, Tools,
              LP!TypeInv, LP!TypeOK
<1>4. RowsStay /\ \A j \in RequestIds : effect[j] = "NONE" => effect'[j] = "NONE"
  BY <1>3 DEF RowsStay
<1>5. LP!TypeInv' BY <1>2, LedgerTypes
<1>6. \A p \in Callers : ToolInv(p)' BY <1>1, <1>3, <1>4, ToolStays
<1>7. TextTypes' /\ BlockedInv'
  BY <1>1 DEF Tools, TextTypes, Queues, textVars, queueVars, BlockedInv
<1>8. EffectsAreDecided' BY <1>1, <1>4, DecidedStays DEF DecisionsStay, textVars
<1> QED BY <1>5, <1>6, <1>7, <1>8 DEF Tools

LEMMA BreakTools == ASSUME Tools, Inv', NEW p \in Callers, Break(p) \/ Crash(p) PROVE Tools'
<1>1. /\ Inv /\ UNCHANGED <<run, textVars, queueVars, effect, request, result, denied, applied>>
      /\ call' = [call EXCEPT ![p] = L!NoCall]
  BY DEF Break, Crash, Tools
<1>2. TextTypes'
  <2>1. faults' \in Nat BY DEF Break, Crash, Spend, Tools, TextTypes
  <2> QED BY <1>1, <2>1 DEF Tools, TextTypes, Queues, textVars, queueVars
<1>3. call[p].at \in {"returned", "raised"} \/ L!Crash(p) \/ call' = call
  <2>1. CASE job[p].pc = "tool"
    BY <1>1, <2>1 DEF Break, Crash, At, L!Crash, L!At, L!ledger, Tools, ToolInv
  <2>2. CASE job[p].pc # "tool"
    BY <1>1, <2>2 DEF Tools, ToolInv, LP!TypeInv, LP!TypeOK
  <2> QED BY <2>1, <2>2
<1>4. CASE Leave(p)
  <2>1. OnlyMoves(p) /\ job'[p].pc = "idle"
    BY <1>1, <1>4, LeavesFor DEF Leave, NoJob, Inv, Types
  <2> QED BY <1>1, <1>2, <1>3, <2>1, EndTools DEF Calling, textVars
<1>5. CASE p \in Workers /\ Go(p, "error")
  <2>1. OnlyMoves(p) /\ job'[p].pc = "error" /\ p \notin Hosts
    BY <1>1, <1>5, GoesFor, Positions, Kinds DEF Outside
  <2> QED BY <1>1, <1>2, <1>3, <2>1, EndTools DEF Calling, textVars
<1> QED BY <1>4, <1>5 DEF Break, Crash

LEMMA ToolsInit == Init => Tools
<1> SUFFICES ASSUME Init PROVE Tools OBVIOUS
<1>1. Inv BY InitInv
<1>2. LP!TypeInv
  <2>1. LP!Init BY SameLedger DEF Init
  <2> QED BY <2>1, LP!TypeInit, LedgerConstants
<1>3. TextTypes BY StepsAreNumbers DEF Init, TextTypes, Queues, Q!Init
<1>4. BlockedInv BY DEF Init, BlockedInv, NoRun
<1>5. ASSUME NEW p \in Callers PROVE ToolInv(p)
  BY <1>5 DEF Init, L!Init, ToolInv, NoJob, L!NoCall, Calling
<1>6. EffectsAreDecided BY DEF Init, L!Init, EffectsAreDecided
<1> QED BY <1>1, <1>2, <1>3, <1>4, <1>5, <1>6 DEF Tools

LEMMA ToolsNext == Tools /\ Inv' /\ [Next]_vars => Tools'
<1> SUFFICES ASSUME Tools, Inv', [Next]_vars PROVE Tools' OBVIOUS
<1>1. CASE UNCHANGED vars
  <2>1. UNCHANGED <<textVars, faults, toolVars, job, run, queueVars>> BY <1>1 DEF vars
  <2>2. BlockedInv' /\ Queues' BY <2>1 DEF Tools, BlockedInv, TextTypes, Queues, queueVars
  <2> QED BY <2>1, <2>2, QuietOthers
<1>2. ASSUME NEW w \in Workers, Work(w) PROVE Tools'
  BY <1>2, QuietWorkTools, SayTools, ToolTools, ToolReturnedTools, ToolRaisedTools, Kinds
     DEF Work, QuietWork
<1>3. ASSUME NEW h \in Hosts, HostWork(h) PROVE Tools'
  BY <1>3, RecoverTools, ToolTools, RecoveredTools, ResumeTools, Kinds DEF HostWork
<1> QED BY <1>1, <1>2, <1>3, SubmitTools, ClaimTools, ResumeBlockedTools, ReconcileTools, BreakTools,
           LapseTools DEF Next

LEMMA ToolsHold == Spec => [](Inv /\ Tools)
<1>1. Init => Inv /\ Tools BY InitInv, ToolsInit
<1>2. Inv /\ Tools /\ [Next]_vars => (Inv /\ Tools)' BY NextKeeps, ToolsNext
<1> QED BY <1>1, <1>2, PTL DEF Spec

(* Every table, every row and every process keeps the shape that schema.sql *)
(* and the engine give it, through every step of every actor.               *)
THEOREM TypeCorrect == Spec => []TypeOK
<1>1. Inv /\ Tools => TypeOK
  <2> SUFFICES ASSUME Inv, Tools PROVE TypeOK OBVIOUS
  <2>1. L!TypeOK BY SameLedger DEF Tools, LP!TypeInv
  <2>2. Q!TypeOK BY DEF Tools, TextTypes, Queues, Q!TypeOK, Inv, Types, Statuses
  <2> QED BY <2>1, <2>2 DEF TypeOK, Tools, TextTypes, Inv, Types
<1> QED BY <1>1, ToolsHold, PTL

(* Nothing is in the ledger that the model did not ask for: a row of        *)
(* tool_effects is written (tools.py execute) only for a decision that is   *)
(* already durable, with its request id and its body, whoever executes or   *)
(* recovers it.                                                             *)
THEOREM EffectsComeFromDecisions == Spec => []EffectsAreDecided
<1>1. Tools => EffectsAreDecided BY DEF Tools
<1> QED BY <1>1, ToolsHold, PTL

-----------------------------------------------------------------------------
(* The engine uses the ledger through its operations alone.                 *)

LEMMA StepDrivesLedger == Tools /\ [Next]_vars => [L!Next]_(L!vars)
<1> SUFFICES ASSUME Tools, [Next]_vars PROVE [L!Next]_(L!vars) OBVIOUS
<1>1. ASSUME UNCHANGED toolVars PROVE [L!Next]_(L!vars) BY <1>1 DEF toolVars, L!vars
<1>2. ASSUME NEW p \in Callers, L!Step(p) \/ L!Finish(p) \/ L!Crash(p)
      PROVE  [L!Next]_(L!vars)
  BY <1>2 DEF L!Next
<1>3. ASSUME NEW w \in Workers, Work(w) PROVE [L!Next]_(L!vars)
  <2>1. CASE QuietWork(w) BY <1>1, <2>1, QuietWorkJob
  <2>2. CASE Say(w)
    <3>1. job[w].plan \in Calls BY <2>2, Kinds DEF Say, At, Tools, ToolInv, Calling
    <3>2. job[w].plan.rid \in RequestIds /\ job[w].plan.body \in Bodies BY <3>1 DEF Calls
    <3> QED BY <2>2, <3>2, Kinds DEF Say, L!Next, L!Bodies, Bodies
  <2>3. CASE Tool(w) \/ ToolReturned(w) \/ ToolRaised(w)
    BY <1>2, <2>3, Kinds DEF Tool, ToolReturned, ToolRaised
  <2> QED BY <1>3, <2>1, <2>2, <2>3 DEF Work, QuietWork
<1>4. ASSUME NEW h \in Hosts, HostWork(h) PROVE [L!Next]_(L!vars)
  <2>1. CASE Recover(h)
    <3>1. job[h].plan.rid \in RequestIds BY <2>1, Kinds DEF Recover, At, Tools, ToolInv
    <3> QED BY <2>1, <3>1, Kinds DEF Recover, L!Next
  <2>2. CASE Tool(h) \/ Recovered(h) BY <1>2, <2>2, Kinds DEF Tool, Recovered
  <2>3. CASE Resume(h) BY <1>1, <2>3 DEF Resume
  <2> QED BY <1>4, <2>1, <2>2, <2>3 DEF HostWork
<1>5. ASSUME NEW i \in RequestIds, Reconcile(i) PROVE [L!Next]_(L!vars)
  BY <1>5 DEF Reconcile, L!Next
<1>6. ASSUME NEW p \in Callers, Break(p) \/ Crash(p) PROVE [L!Next]_(L!vars)
  <2>1. /\ call' = [call EXCEPT ![p] = L!NoCall]
        /\ UNCHANGED <<effect, request, result, denied, applied>>
    BY <1>6 DEF Break, Crash
  <2>2. CASE job[p].pc = "tool"
    BY <1>2, <1>6, <2>1, <2>2 DEF Break, Crash, At, L!Finish, L!Crash, L!At, L!ledger, Tools, ToolInv
  <2>3. CASE job[p].pc # "tool"
    BY <2>1, <2>3 DEF Tools, ToolInv, LP!TypeInv, LP!TypeOK, L!vars
  <2> QED BY <2>2, <2>3
<1>7. CASE UNCHANGED vars BY <1>1, <1>7 DEF vars
<1> QED BY <1>1, <1>3, <1>4, <1>5, <1>6, <1>7
    DEF Next, Submit, Claim, ResumeBlocked, Lapse

LEMMA RowsKeep == ASSUME LP!TypeInv, [L!Next]_(L!vars) PROVE RowsStay
<1>1. ASSUME UNCHANGED <<effect, request>> PROVE RowsStay BY <1>1 DEF RowsStay
<1>2. ASSUME NEW p \in Callers, L!Step(p) PROVE RowsStay BY <1>2, StepMoves
<1>3. ASSUME NEW p \in Callers,
             \/ \E i \in RequestIds : L!Recover(p, i) \/ \E b \in L!Bodies : L!Start(p, i, b)
             \/ L!Finish(p) \/ L!Crash(p)
      PROVE  RowsStay
  BY <1>1, <1>3 DEF L!Recover, L!Start, L!Finish, L!Crash, L!ledger
<1>4. ASSUME NEW i \in RequestIds, L!Reconcile(i) PROVE RowsStay
  BY <1>4 DEF L!Reconcile, L!Deny, L!Confirm, L!DeniedState, LP!TypeInv, LP!TypeOK, RowsStay
<1>5. CASE UNCHANGED L!vars BY <1>1, <1>5 DEF L!vars
<1> QED BY <1>2, <1>3, <1>4, <1>5 DEF L!Next

(* Whatever workers and hosts do, crash or repeat, the ledger only ever     *)
(* moves by the operations of tools.py (execute, recover_reconciled,        *)
(* reconcile): EffectLedger is what the engine runs on.                     *)
THEOREM EngineDrivesLedger == Spec => L!Spec
<1>1. Init => L!Init BY DEF Init
<1>2. Inv /\ Tools /\ [Next]_vars => [L!Next]_(L!vars) BY StepDrivesLedger
<1> QED BY <1>1, <1>2, ToolsHold, PTL DEF Spec, L!Spec

LEMMA EngineDrivesLedgerToo == Spec => LP!Spec
<1>1. L!Init => LP!Init BY SameLedger
<1>2. [L!Next]_(L!vars) => [LP!Next]_(LP!vars) BY SameLedger DEF L!vars, LP!vars
<1> QED BY <1>1, <1>2, EngineDrivesLedger, PTL DEF L!Spec, LP!Spec

(* The ledger's rules hold of every schedule of workers and hosts the       *)
(* engine has: no effect without its durable request,                       *)
THEOREM EngineWritesAhead == Spec => []WriteAhead
<1>1. LP!Spec => []LP!WriteAhead BY LP!EffectsAreWrittenAhead, LedgerConstants
<1>2. LP!WriteAhead => WriteAhead BY SameLedger DEF WriteAhead
<1> QED BY <1>1, <1>2, EngineDrivesLedgerToo, PTL

(* and no second attempt until a host denies the first.                     *)
THEOREM EngineAttemptsOnce == Spec => []OneAttemptUnlessDenied
<1>1. LP!Spec => []LP!OneAttemptUnlessDenied BY LP!AttemptedOnceUntilDenied, LedgerConstants
<1>2. LP!OneAttemptUnlessDenied => OneAttemptUnlessDenied
  BY SameLedger DEF OneAttemptUnlessDenied
<1> QED BY <1>1, <1>2, EngineDrivesLedgerToo, PTL

-----------------------------------------------------------------------------
(* The engine uses the queue through its operations alone.                  *)

(* A lease that lapses is a set of one. *)
LEMMA LapseIsLapses ==
  ASSUME Queues, NEW e \in Events, Q!Lapse(e)
  PROVE  Q!Next
<1>1. /\ status[e] = "CLAIMED" /\ ~lapsed[e] /\ UNCHANGED <<status, owner>>
      /\ lapsed' = [lapsed EXCEPT ![e] = TRUE]
  BY DEF Q!Lapse
<1>2. lapsed \in [Events -> BOOLEAN] BY DEF Queues
<1>3. lapsed' = [x \in Events |-> lapsed[x] \/ x \in {e}]
  <2> SUFFICES ASSUME NEW x \in Events PROVE lapsed'[x] = (lapsed[x] \/ x \in {e})
    BY <1>1, <1>2, Zenon
  <2>1. CASE x = e BY <1>1, <1>2, <2>1, Zenon
  <2>2. CASE x # e
    <3>1. lapsed'[x] = lapsed[x] /\ lapsed[x] \in BOOLEAN BY <1>1, <1>2, <2>2, Zenon
    <3>2. ~(x \in {e}) BY <2>2
    <3> QED BY <3>1, <3>2, Zenon
  <2> QED BY <2>1, <2>2
<1>4. Q!Lapses({e}) BY <1>1, <1>3, Zenon DEF Q!Lapses
<1> QED BY <1>4, Zenon DEF Q!Next

LEMMA StepDrivesQueue == Tools /\ Tools' /\ [Next]_vars => [Q!Next]_(Q!vars)
<1> SUFFICES ASSUME Tools, Tools', [Next]_vars PROVE [Q!Next]_(Q!vars) OBVIOUS
<1>1. ASSUME UNCHANGED queueVars PROVE [Q!Next]_(Q!vars) BY <1>1 DEF queueVars, Q!vars
<1>2. ASSUME NEW e \in Events, Q!Enqueue(e) PROVE [Q!Next]_(Q!vars) BY <1>2 DEF Q!Next
<1>3. ASSUME NEW w \in Workers, Work(w) PROVE [Q!Next]_(Q!vars)
  <2> DEFINE r == job[w].run
  <2>1. w \in Callers /\ Inv BY Kinds DEF Tools
  <2>2. CASE Drop(w) \/ Ack(w) \/ Requeue(w)
    <3>1. job[w].pc # "idle" BY <2>2 DEF Drop, Ack, Requeue, At
    <3>2. EventOf(w) \in Events BY <2>1, <3>1, Working
    <3>3. Q!Ack(w, EventOf(w)) \/ Q!Release(w, EventOf(w)) \/ UNCHANGED queueVars
      BY <2>2 DEF Drop, Ack, Requeue
    <3> QED BY <1>1, <3>2, <3>3 DEF Q!Next
  <2>3. CASE Advance(w)
    <3>1. job[w].pc # "idle" BY <2>3 DEF Advance, At
    <3>2. r \in Runs /\ job[w].step \in Steps BY <2>1, <3>1, Works
    <3>3. CASE UNCHANGED queueVars BY <1>1, <3>3
    <3>4. CASE MayAdvance(r, job[w].step) /\ run' = [run EXCEPT ![r].step = @ + 1, ![r].error = FALSE]
               /\ Q!Enqueue(<<r, job[w].step + 1>>)
      <4>1. run \in [Runs -> Row] /\ run' \in [Runs -> Row] BY DEF Tools, Inv, Types
      <4>2. run'[r].step \in Steps BY <3>2, <4>1 DEF Row
      <4>3. run'[r].step = run[r].step + 1
        <5>1. run[r] \in Row BY <3>2, <4>1
        <5>2. run'[r] = [run[r] EXCEPT !.step = @ + 1, !.error = FALSE] BY <3>2, <3>4, <4>1
        <5> QED BY <5>1, <5>2 DEF Row
      <4>4. <<r, job[w].step + 1>> \in Events BY <3>2, <3>4, <4>2, <4>3 DEF Events, MayAdvance
      <4> QED BY <1>2, <3>4, <4>4
    <3> QED BY <2>3, <3>3, <3>4 DEF Advance, Schedule
  <2>4. CASE ~(Drop(w) \/ Ack(w) \/ Requeue(w) \/ Advance(w))
    <3>1. UNCHANGED queueVars
      BY <1>3, <2>4 DEF Work, Load, MaxedOut, Decide, Ask, Admit, Say, Tool, ToolReturned,
         ToolRaised, Block, Fail, Conclude, Complete, Blame
    <3> QED BY <1>1, <3>1
  <2> QED BY <2>2, <2>3, <2>4
<1>4. ASSUME NEW h \in Hosts, HostWork(h) PROVE [Q!Next]_(Q!vars)
  <2> DEFINE r == job[h].run
  <2>1. CASE Resume(h)
    <3>1. CASE UNCHANGED queueVars BY <1>1, <3>1
    <3>2. CASE MayResume(r) /\ Q!Enqueue(<<r, run[r].step + 1>>) /\ run[r].step < MaxSteps + Slack
      <4>1. r \in Runs /\ run[r].step \in Nat
        BY <2>1, Kinds, StepsAreNumbers DEF Resume, At, Tools, Inv, Types, Doing, Row
      <4>2. run[r].step + 1 \in Steps BY <3>2, <4>1, EngineAssumption DEF EngineAssumption, Steps
      <4> QED BY <1>2, <3>2, <4>1, <4>2 DEF Events
    <3> QED BY <2>1, <3>1, <3>2 DEF Resume, Schedule
  <2>2. CASE ~Resume(h)
    BY <1>1, <1>4, <2>2 DEF HostWork, Recover, Tool, Recovered
  <2> QED BY <2>1, <2>2
<1>5. ASSUME NEW r \in Runs, Submit(r) PROVE [Q!Next]_(Q!vars)
  BY <1>2, <1>5, StepsAreNumbers DEF Submit, Events
<1>6. ASSUME NEW w \in Workers, NEW e \in Events, Claim(w, e) PROVE [Q!Next]_(Q!vars)
  BY <1>6 DEF Claim, Q!Next
<1>7. ASSUME NEW h \in Hosts, NEW r \in Runs, ResumeBlocked(h, r) PROVE [Q!Next]_(Q!vars)
  BY <1>1, <1>7 DEF ResumeBlocked
<1>8. ASSUME NEW i \in RequestIds, Reconcile(i) PROVE [Q!Next]_(Q!vars) BY <1>1, <1>8 DEF Reconcile
<1>9. ASSUME NEW p \in Callers, Break(p) \/ Crash(p) PROVE [Q!Next]_(Q!vars)
  BY <1>1, <1>9 DEF Break, Crash
<1>10. ASSUME NEW e \in Events, Lapse(e) PROVE [Q!Next]_(Q!vars)
  BY <1>10, LapseIsLapses DEF Lapse, Tools, TextTypes
<1>11. CASE UNCHANGED vars BY <1>1, <1>11 DEF vars
<1> QED BY <1>3, <1>4, <1>5, <1>6, <1>7, <1>8, <1>9, <1>10, <1>11 DEF Next

(* The queue inside the engine is the lease queue: every enqueue names a    *)
(* generation of a run, every claim, acknowledgement and release is by a    *)
(* worker of its event (engine.py, store.py).  EventQueue implements that   *)
(* specification, clock, priorities and back-off included.                  *)
THEOREM EngineDrivesQueue == Spec => Q!Spec
<1>1. Init => Q!Init BY DEF Init
<1>2. Inv /\ Tools /\ (Inv /\ Tools)' /\ [Next]_vars => [Q!Next]_(Q!vars) BY StepDrivesQueue
<1> QED BY <1>1, <1>2, ToolsHold, PTL DEF Spec, Q!Spec
=============================================================================
