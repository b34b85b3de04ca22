----------------------------- MODULE RunEngine -----------------------------
(***************************************************************************)
(* The run engine (src/pre_active/engine.py) over the store's run tables    *)
(* (src/pre_active/store.py): workers that claim run.step events and drive  *)
(* runs, hosts that resume runs blocked on an effect, the queue             *)
(* (LeaseQueue) and the effect ledger (EffectLedger) they share.            *)
(*                                                                          *)
(* One action is one SQL statement or one explicit transaction, one call    *)
(* of the model or one step inside ToolRegistry.execute.                    *)
(***************************************************************************)
EXTENDS Naturals, FiniteSets

CONSTANTS
  Workers, Hosts, Runs, RequestIds, Mutations, Reads, Inadmissible, Values, None,
  Truthful, Quiescent,  \* what the host that reconciles is trusted with
  HostWaits,   \* the host reconciles only what some run is blocked on
  Overlap,     \* a lease may lapse while its owner is still at work
  FreshIds,    \* the model never mints the same request id twice
  MaxSteps,    \* Engine.max_steps
  Slack,       \* bound: generations beyond MaxSteps that stale workers reach
  MaxDenials,  \* bound: verdicts "no effect" per request id
  CountFaults, MaxFaults  \* bound on crashes, failing statements and calls

Callers == Workers \cup Hosts
Steps == 0..(MaxSteps + Slack)
Events == Runs \X Steps
Bodies == Mutations \cup Reads \cup Inadmissible

(* A decision is one tool call or the final text; what the text says does   *)
(* not matter here.                                                         *)
Final == [rid |-> None, body |-> None]
Calls == [rid : RequestIds, body : Bodies]
Plans == Calls \cup {Final}

ASSUME EngineAssumption ==
  /\ Workers \cap Hosts = {}
  /\ None \notin Workers \cup Hosts \cup Runs \cup RequestIds \cup Plans
  /\ MaxSteps \in Nat \ {0} /\ Slack \in Nat /\ MaxFaults \in Nat
  /\ {HostWaits, Overlap, FreshIds, CountFaults} \subseteq BOOLEAN

VARIABLES
  run,         \* run -> its row: status, step_count, blocked_request_id, last_error set
  decision,    \* run, step -> the model decision admitted for it
  said,        \* run -> steps whose assistant message is in the transcript
  outcome,     \* run, step -> the tool-result message
  recovered,   \* run, request id -> the reconciled-result message
  job,         \* worker or host -> what it is doing, and for which run
  faults,      \* how many faults have been spent
  status, owner, lapsed,                           \* LeaseQueue
  effect, request, result, denied, applied, call   \* EffectLedger

queueVars == <<status, owner, lapsed>>
toolVars == <<effect, request, result, denied, applied, call>>
textVars == <<decision, said, outcome, recovered>>
vars == <<run, textVars, job, faults, queueVars, toolVars>>

Q == INSTANCE LeaseQueue
L == INSTANCE EffectLedger WITH Serialised <- FALSE

(* What the ledger assumes of its constants.                                *)
ASSUME ToolsAssumption == L!LedgerAssumption

-----------------------------------------------------------------------------
(* Where run_once stands.  An exception inside Attempt is handled by        *)
(* run_once, elsewhere it ends the cycle.                                   *)
Attempt == {"decide", "ask", "admit", "say", "tool", "block", "fail", "advance",
            "final", "complete", "ack"}
Outside == {"load", "maxed", "drop", "error", "requeue", "recover", "resume"}
Points == {"idle"} \cup Attempt \cup Outside

NoJob == [pc |-> "idle", run |-> None, step |-> 0, plan |-> None]
NoRun == [status |-> "NONE", step |-> 0, blockedOn |-> None, error |-> FALSE]

Init ==
  /\ run = [r \in Runs |-> NoRun]
  /\ decision = [r \in Runs |-> [s \in Steps |-> None]]
  /\ said = [r \in Runs |-> {}]
  /\ outcome = [r \in Runs |-> [s \in Steps |-> None]]
  /\ recovered = [r \in Runs |-> [i \in RequestIds |-> None]]
  /\ job = [p \in Callers |-> NoJob]
  /\ faults = 0
  /\ Q!Init
  /\ L!Init

At(p, pc) == job[p].pc = pc
Go(p, pc) == job' = [job EXCEPT ![p].pc = pc]
Leave(p) == job' = [job EXCEPT ![p] = NoJob]
EventOf(p) == <<job[p].run, job[p].step>>

(* Crashes, failing statements, and errors of the model or of a read-only   *)
(* tool; they are counted only where liveness is checked.                   *)
Spend ==
  \/ ~CountFaults /\ UNCHANGED faults
  \/ CountFaults /\ faults < MaxFaults /\ faults' = faults + 1

-----------------------------------------------------------------------------
(* Submission and claiming. *)

(* create_run_with_initial_step: the run and its first event, atomically. *)
Submit(r) ==
  /\ run[r].status = "NONE"
  /\ run' = [run EXCEPT ![r].status = "RUNNING"]
  /\ Q!Enqueue(<<r, 0>>)
  /\ UNCHANGED <<textVars, job, faults, toolVars>>

Claim(w, e) ==
  /\ At(w, "idle")
  /\ Q!Claim(w, e)
  /\ job' = [job EXCEPT ![w] = [pc |-> "load", run |-> e[1], step |-> e[2], plan |-> None]]
  /\ UNCHANGED <<run, textVars, faults, toolVars>>

(* get_run: the run must be at this event's generation, running, and within *)
(* its step budget.  The row read here is trusted until the end.            *)
Exhausted(row) == row.step >= MaxSteps

Loaded(w) ==
  LET row == run[job[w].run] IN
  CASE row.step # job[w].step \/ row.status # "RUNNING" -> "drop"
    [] row.step = job[w].step /\ row.status = "RUNNING" /\ Exhausted(row) -> "maxed"
    [] OTHER -> "decide"

Load(w) ==
  /\ At(w, "load")
  /\ Go(w, Loaded(w))
  /\ UNCHANGED <<run, textVars, faults, queueVars, toolVars>>

MaxedOut(w) ==
  /\ At(w, "maxed")
  /\ run' = [run EXCEPT ![job[w].run].status = "FAILED", ![job[w].run].error = TRUE]
  /\ Go(w, "drop")
  /\ UNCHANGED <<textVars, faults, queueVars, toolVars>>

(* ack_event outside the try block: a lost lease ends the cycle. *)
Drop(w) ==
  /\ At(w, "drop")
  /\ \/ Q!Ack(w, EventOf(w))
     \/ ~Q!Owns(w, EventOf(w)) /\ UNCHANGED queueVars
  /\ Leave(w)
  /\ UNCHANGED <<run, textVars, faults, toolVars>>

-----------------------------------------------------------------------------
(* One step of a run. *)

(* get_run_step_decision: an admitted decision is used again. *)
Decide(w) ==
  LET old == decision[job[w].run][job[w].step] IN
  /\ At(w, "decide")
  /\ \/ old = None /\ Go(w, "ask")
     \/ /\ old # None
        /\ job' = [job EXCEPT ![w].plan = old,
                              ![w].pc = IF old = Final THEN "final" ELSE "say"]
  /\ UNCHANGED <<run, textVars, faults, queueVars, toolVars>>

Minted ==
  {decision[e[1]][e[2]].rid : e \in {f \in Events : decision[f[1]][f[2]] # None}}
    \cup {job[p].plan.rid : p \in {q \in Callers : job[q].plan # None}}

(* model.respond *)
Ask(w) ==
  /\ At(w, "ask")
  /\ \E plan \in Plans :
       /\ FreshIds /\ plan # Final => plan.rid \notin Minted
       /\ job' = [job EXCEPT ![w].plan = plan, ![w].pc = "admit"]
  /\ UNCHANGED <<run, textVars, faults, queueVars, toolVars>>

(* record_run_step_decision: the first decision of a step is the only one. *)
BugAdmissible(old, plan) == TRUE
Admissible(old, plan) == old \in {None, plan}

Admit(w) ==
  LET r == job[w].run  s == job[w].step  plan == job[w].plan IN
  /\ At(w, "admit")
  /\ \/ /\ Admissible(decision[r][s], plan)
        /\ decision' = [decision EXCEPT ![r][s] = plan]
        /\ Go(w, IF plan = Final THEN "final" ELSE "say")
     \/ ~Admissible(decision[r][s], plan) /\ Go(w, "error") /\ UNCHANGED decision
  /\ UNCHANGED <<run, said, outcome, recovered, faults, queueVars, toolVars>>

(* The assistant message, and the call of ToolRegistry.execute. *)
Say(w) ==
  /\ At(w, "say")
  /\ said' = [said EXCEPT ![job[w].run] = @ \cup {job[w].step}]
  /\ L!Start(w, job[w].plan.rid, job[w].plan.body)
  /\ Go(w, "tool")
  /\ UNCHANGED <<run, decision, outcome, recovered, faults, queueVars>>

(* A step inside execute; a handler that raises and a statement that fails  *)
(* are faults.                                                              *)
Faulty(p) ==
  \/ call'[p].at = "unknown"
  \/ call'[p].at = "raised" /\ call'[p].reply = "OtherError" /\ ~L!At(p, "unknown")

Tool(p) ==
  /\ At(p, "tool")
  /\ L!Step(p)
  /\ IF Faulty(p) THEN Spend ELSE UNCHANGED faults
  /\ UNCHANGED <<run, textVars, job, queueVars>>

(* record_run_message: a key is written once; the same content may be       *)
(* written again.                                                           *)
BugRecordable(old, content) == old = None
Recordable(old, content) == old \in {None, content}

(* execute returned: the tool-result message. *)
ToolReturned(w) ==
  LET r == job[w].run  s == job[w].step  v == call[w].reply IN
  /\ At(w, "tool") /\ L!At(w, "returned")
  /\ \/ /\ Recordable(outcome[r][s], v)
        /\ outcome' = [outcome EXCEPT ![r][s] = v]
        /\ Go(w, "advance")
     \/ ~Recordable(outcome[r][s], v) /\ Go(w, "error") /\ UNCHANGED outcome
  /\ L!Finish(w)
  /\ UNCHANGED <<run, decision, said, recovered, faults, queueVars>>

BugUnresolved(i) == effect[i] = "EXECUTING"
Unresolved(i) == effect[i] \in {"EXECUTING", "ATTEMPTED_UNKNOWN"}

(* execute raised: what the engine makes of it depends on the effect row,   *)
(* read after the fact, and on the exception.                               *)
BugVerdict(i, err) == "block"
BugVerdict2(i, err) == IF Unresolved(i) THEN "block" ELSE "advance"
Verdict(i, err) ==
  IF Unresolved(i) THEN "block" ELSE IF err = "ToolError" THEN "fail" ELSE "error"

ToolRaised(w) ==
  /\ At(w, "tool") /\ L!At(w, "raised")
  /\ Go(w, Verdict(job[w].plan.rid, call[w].reply))
  /\ L!Finish(w)
  /\ UNCHANGED <<run, textVars, faults, queueVars>>

(* block_run_on_effect: only a running run can be blocked, at whatever      *)
(* generation it is by now.                                                 *)
Block(w) ==
  LET r == job[w].run IN
  /\ At(w, "block")
  /\ \/ /\ run[r].status = "RUNNING"
        /\ run' = [run EXCEPT ![r].status = "BLOCKED_EFFECT", ![r].error = TRUE,
                              ![r].blockedOn = job[w].plan.rid]
        /\ Go(w, "ack")
     \/ run[r].status # "RUNNING" /\ Go(w, "error") /\ UNCHANGED run
  /\ UNCHANGED <<textVars, faults, queueVars, toolVars>>

(* update_run(status=FAILED): no condition on the row. *)
Fail(w) ==
  /\ At(w, "fail")
  /\ run' = [run EXCEPT ![job[w].run].status = "FAILED", ![job[w].run].error = TRUE]
  /\ Go(w, "ack")
  /\ UNCHANGED <<textVars, faults, queueVars, toolVars>>

(* The successor event of a generation, in the transaction that reaches it. *)
BugSchedule(r, s) == Q!Enqueue(<<r, s - 1>>)
Schedule(r, s) == Q!Enqueue(<<r, s>>)

(* advance_run_step: compare-and-set on status and generation. *)
BugMayAdvance(r, s) == run[r].status = "RUNNING"
MayAdvance(r, s) == run[r].status = "RUNNING" /\ run[r].step = s

Advance(w) ==
  LET r == job[w].run  s == job[w].step IN
  /\ At(w, "advance")
  /\ \/ /\ MayAdvance(r, s)
        /\ run' = [run EXCEPT ![r].step = @ + 1, ![r].error = FALSE]
        /\ Schedule(r, s + 1)
        /\ Go(w, "ack")
     \/ ~MayAdvance(r, s) /\ Go(w, "error") /\ UNCHANGED <<run, queueVars>>
  /\ UNCHANGED <<textVars, faults, toolVars>>

(* The final message. *)
Conclude(w) ==
  /\ At(w, "final")
  /\ said' = [said EXCEPT ![job[w].run] = @ \cup {job[w].step}]
  /\ Go(w, "complete")
  /\ UNCHANGED <<run, decision, outcome, recovered, faults, queueVars, toolVars>>

(* update_run(status=COMPLETED, increment_step): no condition on the row. *)
Complete(w) ==
  LET r == job[w].run IN
  /\ At(w, "complete")
  /\ run[r].step < MaxSteps + Slack
  /\ run' = [run EXCEPT ![r].status = "COMPLETED", ![r].error = FALSE, ![r].step = @ + 1]
  /\ Go(w, "ack")
  /\ UNCHANGED <<textVars, faults, queueVars, toolVars>>

(* ack_event inside the try block; the journal row that follows it is a     *)
(* statement of its own and may fail when the event is already DONE.        *)
Ack(w) ==
  /\ At(w, "ack")
  /\ \/ Q!Ack(w, EventOf(w)) /\ Leave(w) /\ UNCHANGED faults
     \/ Q!Ack(w, EventOf(w)) /\ Go(w, "error") /\ Spend
     \/ ~Q!Owns(w, EventOf(w)) /\ Go(w, "error") /\ UNCHANGED <<faults, queueVars>>
  /\ UNCHANGED <<run, textVars, toolVars>>

(* except BaseException: last_error, then fail_event, then re-raise. *)
Blame(w) ==
  /\ At(w, "error")
  /\ run' = [run EXCEPT ![job[w].run].error = TRUE]
  /\ Go(w, "requeue")
  /\ UNCHANGED <<textVars, faults, queueVars, toolVars>>

Requeue(w) ==
  /\ At(w, "requeue")
  /\ \/ Q!Release(w, EventOf(w))
     \/ ~Q!Owns(w, EventOf(w)) /\ UNCHANGED queueVars
  /\ Leave(w)
  /\ UNCHANGED <<run, textVars, faults, toolVars>>

-----------------------------------------------------------------------------
(* resume_blocked_effect, called by a host. *)

ResumeBlocked(h, r) ==
  /\ At(h, "idle")
  /\ run[r].status = "BLOCKED_EFFECT"
  /\ job' = [job EXCEPT ![h] = [pc |-> "recover", run |-> r, step |-> 0,
                                plan |-> [rid |-> run[r].blockedOn, body |-> None]]]
  /\ UNCHANGED <<run, textVars, faults, queueVars, toolVars>>

Recover(h) ==
  /\ At(h, "recover")
  /\ L!Recover(h, job[h].plan.rid)
  /\ Go(h, "tool")
  /\ UNCHANGED <<run, textVars, faults, queueVars>>

BugAnswered(h) == call[h].at \in {"returned", "raised"}
Answered(h) == call[h].at = "returned"

(* The reconciled-result message, or the exception goes to the host. *)
Recovered(h) ==
  LET r == job[h].run  i == job[h].plan.rid  v == call[h].reply IN
  /\ At(h, "tool")
  /\ \/ /\ Answered(h) /\ Recordable(recovered[r][i], v)
        /\ recovered' = [recovered EXCEPT ![r][i] = v]
        /\ Go(h, "resume")
     \/ /\ Answered(h) => ~Recordable(recovered[r][i], v)
        /\ Leave(h) /\ UNCHANGED recovered
  /\ L!Finish(h)
  /\ UNCHANGED <<run, decision, said, outcome, faults, queueVars>>

(* resume_run_after_effect: the run must be blocked, on whatever request. *)
MayResume(r) == run[r].status = "BLOCKED_EFFECT"

Resume(h) ==
  LET r == job[h].run IN
  /\ At(h, "resume")
  /\ \/ /\ MayResume(r) /\ run[r].step < MaxSteps + Slack
        /\ run' = [run EXCEPT ![r].status = "RUNNING", ![r].blockedOn = None,
                              ![r].error = FALSE, ![r].step = @ + 1]
        /\ Schedule(r, run[r].step + 1)
     \/ ~MayResume(r) /\ UNCHANGED <<run, queueVars>>
  /\ Leave(h)
  /\ UNCHANGED <<textVars, faults, toolVars>>

(* ToolRegistry.reconcile, called by the host. *)
Reconcile(i) ==
  /\ HostWaits => \E r \in Runs : run[r].status = "BLOCKED_EFFECT" /\ run[r].blockedOn = i
  /\ L!Reconcile(i)
  /\ UNCHANGED <<run, textVars, job, faults, queueVars>>

-----------------------------------------------------------------------------
(* The environment. *)

(* A statement or a call that raises instead of taking effect: the database *)
(* is locked, the model is unreachable. *)
Break(p) ==
  /\ ~At(p, "idle")
  /\ At(p, "tool") => call[p].at \in {"returned", "raised"}
  /\ IF p \in Workers /\ job[p].pc \in Attempt THEN Go(p, "error") ELSE Leave(p)
  /\ call' = [call EXCEPT ![p] = L!NoCall]
  /\ Spend
  /\ UNCHANGED <<run, textVars, queueVars, effect, request, result, denied, applied>>

Crash(p) ==
  /\ ~At(p, "idle")
  /\ Leave(p)
  /\ call' = [call EXCEPT ![p] = L!NoCall]
  /\ Spend
  /\ UNCHANGED <<run, textVars, queueVars, effect, request, result, denied, applied>>

Busy(p, e) == ~At(p, "idle") /\ EventOf(p) = e

Lapse(e) ==
  /\ ~Overlap => \A w \in Workers : owner[e] = w => ~Busy(w, e)
  /\ Q!Lapse(e)
  /\ UNCHANGED <<run, textVars, job, faults, toolVars>>

-----------------------------------------------------------------------------
Work(w) ==
  \/ Load(w) \/ MaxedOut(w) \/ Drop(w) \/ Decide(w) \/ Ask(w) \/ Admit(w) \/ Say(w)
  \/ Tool(w) \/ ToolReturned(w) \/ ToolRaised(w) \/ Block(w) \/ Fail(w) \/ Advance(w)
  \/ Conclude(w) \/ Complete(w) \/ Ack(w) \/ Blame(w) \/ Requeue(w)

HostWork(h) == Recover(h) \/ Tool(h) \/ Recovered(h) \/ Resume(h)

Next ==
  \/ \E r \in Runs : Submit(r)
  \/ \E w \in Workers : Work(w) \/ \E e \in Events : Claim(w, e)
  \/ \E h \in Hosts : HostWork(h) \/ \E r \in Runs : ResumeBlocked(h, r)
  \/ \E i \in RequestIds : Reconcile(i)
  \/ \E p \in Callers : Break(p) \/ Crash(p)
  \/ \E e \in Events : Lapse(e)

Spec == Init /\ [][Next]_vars

-----------------------------------------------------------------------------
(* Properties that hold whatever overlaps. *)

Row == [status : {"NONE", "RUNNING", "BLOCKED_EFFECT", "COMPLETED", "FAILED"},
        step : Steps, blockedOn : RequestIds \cup {None}, error : BOOLEAN]
Job == [pc : Points, run : Runs \cup {None}, step : Steps,
        plan : [rid : RequestIds \cup {None}, body : Bodies \cup {None}] \cup {None}]

(* Every table and every process is of the shape schema and code give it. *)
TypeOK ==
  /\ run \in [Runs -> Row]
  /\ decision \in [Runs -> [Steps -> Plans \cup {None}]]
  /\ said \in [Runs -> SUBSET Steps]
  /\ outcome \in [Runs -> [Steps -> Values \cup {None}]]
  /\ recovered \in [Runs -> [RequestIds -> Values \cup {None}]]
  /\ job \in [Callers -> Job]
  /\ faults \in Nat
  /\ Q!TypeOK
  /\ L!TypeOK

(* A running run always has a live event for the generation it is at: no    *)
(* crash, failing statement, lost lease or stale worker strands it.         *)
NoStrandedRun ==
  \A r \in Runs : run[r].status = "RUNNING" =>
    status[<<r, run[r].step>>] \in {"PENDING", "CLAIMED"}

(* What a worker says, executes or concludes for a step is the one decision *)
(* that is durable for it, even if several workers ran the same step and    *)
(* the model answered each of them differently.                             *)
ActsOnDecision ==
  \A w \in Workers : job[w].pc \in {"say", "tool", "block", "fail", "advance", "final",
                                    "complete"} =>
    job[w].plan = decision[job[w].run][job[w].step]

(* Every effect in the ledger was decided by the model for some step of     *)
(* some run, durably and with exactly that request id and body.             *)
EffectsAreDecided ==
  \A i \in RequestIds : effect[i] # "NONE" =>
    \E e \in Events : decision[e[1]][e[2]] = [rid |-> i, body |-> request[i]]

-----------------------------------------------------------------------------
(* What documentation and tests say and some schedule refutes. *)

(* COMPLETED and FAILED are terminal. *)
TerminalIsFinal ==
  [][\A r \in Runs : run[r].status \in {"COMPLETED", "FAILED"} =>
       run'[r].status = run[r].status]_vars

(* A run leaves BLOCKED_EFFECT only when its effect is established. *)
ResumedWhenEstablished ==
  [][\A r \in Runs :
       run[r].status = "BLOCKED_EFFECT" /\ run'[r].status = "RUNNING" =>
         effect[run[r].blockedOn] = "COMMITTED"]_vars

-----------------------------------------------------------------------------
(* Properties that need leases longer than any cycle (~Overlap). *)

(* Every generation a run has left behind is in its transcript: the call    *)
(* and what came of it, or the final text.                                  *)
TranscriptComplete ==
  \A r \in Runs : \A s \in Steps : s < run[r].step =>
    /\ s \in said[r]
    /\ \/ decision[r][s] = Final
       \/ outcome[r][s] # None
       \/ recovered[r][decision[r][s].rid] # None

(* No run goes past a mutation before its effect is committed, and what the *)
(* transcript tells the model of it is what the ledger holds.               *)
NoStepPastOpenEffect ==
  \A r \in Runs : \A s \in Steps :
    LET i == decision[r][s].rid IN
    s < run[r].step /\ decision[r][s] \in Calls /\ decision[r][s].body \in Mutations =>
      /\ effect[i] = "COMMITTED"
      /\ {outcome[r][s], recovered[r][i]} \subseteq {None, result[i]}

(* A blocked run waits for the mutation of the generation it is at, and     *)
(* that mutation has a row a host can reconcile.                            *)
BlockedOnOwnStep ==
  \A r \in Runs : run[r].status = "BLOCKED_EFFECT" =>
    /\ decision[r][run[r].step].rid = run[r].blockedOn
    /\ effect[run[r].blockedOn] # "NONE"

(* A run fails for what its step asked for or for its step budget; a        *)
(* mutation that got as far as the ledger never fails it.                   *)
FailedHasCause ==
  \A r \in Runs : run[r].status = "FAILED" =>
    \/ run[r].step >= MaxSteps
    \/ decision[r][run[r].step].body \notin Mutations

(* The ledger's rules, kept by workers whose leases lapsed, by models that  *)
(* reuse request ids and by hosts that lie: no effect without its durable   *)
(* request, and no second attempt until a host denies the first.            *)
WriteAhead == L!WriteAhead
OneAttemptUnlessDenied == L!OneAttemptUnlessDenied

(* With a truthful and patient host the engine's retries, resumes and       *)
(* re-executions never make an effect happen twice.                         *)
AtMostOneEffect == L!AtMostOneEffect

(* Leases, the run's status and the single host keep calls on one request   *)
(* id apart: the engine uses the ledger the way the ledger's contract needs *)
(* it to be used.                                                           *)
SerialLedger == INSTANCE EffectLedger WITH Serialised <- TRUE

UsesLedgerSerially == SerialLedger!Spec

Lifecycle == INSTANCE RunLifecycle WITH
  phase <- [r \in Runs |-> run[r].status],
  step <- [r \in Runs |-> run[r].step],
  barrier <- [r \in Runs |->
    run[r].status = "BLOCKED_EFFECT" /\ effect[run[r].blockedOn] # "COMMITTED"]

(* While leases outlast cycles and one host resumes, the rows of the table  *)
(* runs only ever move as RunLifecycle allows: one generation at a time,    *)
(* never out of a final status, never past an open effect.                  *)
ImplementsLifecycle == Lifecycle!Spec

-----------------------------------------------------------------------------
(* Liveness: a worker goes on with its cycle, every claimable event is      *)
(* claimed in the end, leases of dead workers lapse, and the host           *)
(* reconciles and resumes.  The model may answer anything and a tool return *)
(* anything, every time; what raises is a fault, and faults come to an end  *)
(* (CountFaults).                                                           *)
Fairness ==
  /\ \A w \in Workers : WF_vars(Work(w))
  /\ \A h \in Hosts : WF_vars(HostWork(h))
  /\ \A e \in Events : SF_vars(\E w \in Workers : Claim(w, e)) /\ WF_vars(Lapse(e))
  /\ \A i \in RequestIds : WF_vars(Reconcile(i))
  /\ \A r \in Runs : SF_vars(\E h \in Hosts : ResumeBlocked(h, r))

(* The system under the scheduling its supervisors and its host provide. *)
FairSpec == Spec /\ Fairness

Ended(r) == run[r].status \in {"COMPLETED", "FAILED"}

(* A read-only tool is run again for a step whose result message is already *)
(* written, and returns something else.                                     *)
Contradicts(w) ==
  /\ At(w, "tool") /\ L!At(w, "returned") /\ job[w].plan.body \in Reads
  /\ outcome[job[w].run][job[w].step] \notin {None, call[w].reply}

(* Every submitted run ends, however often its steps are retried, unless    *)
(* its read-only tools contradict what they returned before, again and      *)
(* again.                                                                   *)
RunsEnd ==
  \A r \in Runs : run[r].status # "NONE" ~>
    Ended(r) \/ \E w \in Workers : Contradicts(w) /\ job[w].run = r

(* Every event is acknowledged in the end: none is redelivered for ever,    *)
(* with the same exception.                                                 *)
EventsDrain ==
  \A e \in Events : status[e] # "ABSENT" ~>
    status[e] = "DONE" \/ \E w \in Workers : Contradicts(w) /\ EventOf(w) = e

(* As the architecture has it, without the exception: a death after a       *)
(* read-only call can be retried, and keyed messages make the retry         *)
(* harmless.  It does not hold: a read that returns something else than     *)
(* before conflicts with its keyed message, in every redelivery.            *)
RetriedRunsEnd == \A r \in Runs : run[r].status # "NONE" ~> Ended(r)
=============================================================================
