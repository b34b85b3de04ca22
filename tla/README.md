# Pre-Active in TLA+

Pre-Active is a durable agent runtime: a task becomes a *run*, a run advances
by *steps* (one model decision each), a step is driven by a *run.step event*
in a SQLite queue, and a mutating tool call goes through an *effect ledger* so
that a crash never repeats it blindly. Several daemons may share one database.
This directory models the runtime in TLA+, checks it with TLC and proves the
central results with TLAPS. Paths below are relative to the repository
(`engine.py` is `src/pre_active/engine.py`, `*.ps1` is in `ops/windows`).

## Inventory

| component | state | operations | interacts with |
|---|---|---|---|
| **Effect ledger** `tools.py:258-507` | `tool_effects`, `tool_reconciliations` | `execute`, `recover_reconciled`, `effect_state`, `reconcile` | handlers (outside world), engine, host |
| **Event queue** `store.py:171-242, 557-668` | `events` | `enqueue_event`, `claim_event`, `ack_event`, `fail_event` | engine, scheduler, producers |
| **Run store** `store.py:245-515` | `runs`, `run_step_decisions`, `run_messages` | create, advance, block, resume, update, record decision, record message | engine |
| **Run engine** `engine.py` | none but the row it read and the cycle's position | `run_once`, `resume_blocked_effect`, `submit_task` | queue, run store, ledger, model |
| **Task intake** `engine.py:145-178` | `runs.source_event_id` | `task.requested` to run | queue, run store, journal |
| **Scheduler** `scheduler.py` | `schedules` | `add_interval`, `tick` | queue |
| **Daemon** `daemon.py` | none | `cycle`, `run_forever` | scheduler, engine |
| **Journal** `store.py:129-169` | `journal` | `append_journal` | everything above |
| **Context and memory** `context.py`, `store.py:517-555` | `memories` | `build`, `search_memories` | engine |
| **Schema validation** `tools.py:75-255` | none | `_check_supported_schema`, `_validate_schema_value` | ledger |
| **Model adapter** `providers/openai_compatible.py` | none | `respond`, `parse_response` | engine |
| **Qwen endpoint** `ops/windows/tool_protocol.py`, `qwen_http.py` | none | `parse_qwen_response`, HTTP | adapter |
| **Windows supervision** `ops/windows/*.ps1` | OS tasks | restart loops, watchdog | daemon, endpoint |
| **CLI** `cli.py` | none | wiring, defaults | all |

What makes it hard: the SQLite connection is in autocommit mode
(`isolation_level=None`), so apart from five explicit transactions *every
statement is a transaction of its own*; a worker trusts a row it read before a
model call of minutes; leases (30 s by default) are never renewed; a process
may die, and a statement may fail on a locked database, between any two
statements; handlers change the world outside every transaction; and a host
reconciles and resumes while workers run.

What makes each part correct:

* ledger: a request id changes the world at most once; the record tells the
  truth; an answer given is the answer replayed;
* queue: an event is lost by nobody, and claimed by one worker at a time as
  long as leases outlast cycles;
* engine and run store: a running run always has an event that continues it;
  a step has one decision whoever runs it; a run goes past a mutation only
  when its effect is established; every run ends;
* intake, scheduler: one run per source event, one event per occurrence, none
  forgotten;
* daemon and supervision: no error ends the polling, an interrupt does, and
  whatever dies is started again;
* context: the budget is kept, the task comes before memory, better memory
  before worse;
* model turn: no tool markup becomes a final text, the endpoint lets through
  only what the registry admits, the registry admits exactly what a schema
  describes.

PROJECT.json lists these components, the hazards at their lines, and the map
from every modelled definition to the source.

## Modules

| module | what it is |
|---|---|
| `EffectLedger` | `tools.py`: callers inside `execute` and `recover_reconciled`, statement by statement, the handler, the host's `reconcile` |
| `EffectContract` | abstract specification: an at-most-once register per request id |
| `EffectLedgerProofs` | TLAPS proofs about `EffectLedger` |
| `LeaseQueue` | abstract specification of the queue, without a clock, and the operators that engine and intake compose |
| `EventQueue` | `store.py:129-242, 557-668`: the queue with its clock, dedup keys and journal rows |
| `EventQueueProofs` | TLAPS proofs about `EventQueue` |
| `RunEngine` | `engine.py` over the run tables; composes `LeaseQueue` and `EffectLedger` |
| `RunLifecycle` | abstract specification: what may happen to a run's row |
| `RunEngineProofs` | TLAPS proofs about `RunEngine` under any schedule and any host |
| `RunEngineToolProofs` | the same, with the ledger and the queue inside the engine |
| `RunEngineLeasedProofs` | TLAPS proofs about `RunEngine` where leases outlast cycles and the host is trusted |
| `Scheduler` | `scheduler.py`: schedules and the tick, statement by statement; used by `Intake` |
| `Intake` | `daemon.py`, `engine.py:137-178`: tick, claim, task to run; composes `Scheduler` and `LeaseQueue` |
| `TaskContract` | abstract specification: what scheduling and intake promise |
| `IntakeProofs` | TLAPS proofs about `Intake` |
| `Daemon` | the statements of a cycle and where each exception goes |
| `Supervision` | `*.ps1` around `Daemon` and the model endpoint |
| `SupervisionProofs` | TLAPS proofs about `Supervision` |
| `ContextBudget` | `context.py`, `search_memories`: operators on lengths |
| `SchemaSubset` | `tools.py:71-255`: which schemas are supported, which values they accept |
| `SchemaMeaning` | specification of `SchemaSubset`: what its keywords mean in JSON Schema |
| `QwenProtocol` | `tool_protocol.py`, `qwen_http.py`: what the endpoint makes of a generation |
| `ModelTurn` | one turn: context, offer, endpoint or provider, adapter, admission; composes `ContextBudget`, `QwenProtocol` and `SchemaSubset`, against `SchemaMeaning` |
| `ModelTurnProofs` | TLAPS proofs about `ModelTurn` |
| `*MC` | symmetry, and for `ModelTurn` the inputs, of the TLC instances |

### EffectLedger

A row of `tool_effects` is `effect`, `request`, `result` at its request id;
`denied` counts its reconciliations that found no effect. `applied` is the
outside world: how often a handler changed it for this id. It is history, no
guard of the program reads it (only a truthful host's does). `call[p]` is
where caller `p` stands:

    lookup  tools.py:336   SELECT, and the branch taken on what was read
    insert  tools.py:365   INSERT ... 'EXECUTING' (primary key)
    retry   tools.py:352   UPDATE ... 'EXECUTING' after RECONCILED_NO_EFFECT
    handler tools.py:375   the handler was invoked; it changes the world, or raises
    effected               it changed the world; it returns or raises
    unknown tools.py:377   UPDATE ... 'ATTEMPTED_UNKNOWN'
    commit  tools.py:385   UPDATE ... 'COMMITTED'

`StatementFails` lets any of these statements raise and leave no trace.
`Crash` forgets a call. A body is a (tool, arguments) pair; the sets
`Mutations`, `Reads` and `Inadmissible` stand for what registry, capability
and schema checks make of it. Bodies are admitted alike for all runs, so a
request that one run may execute and another may not is out of scope.
Rows from databases older than the column `request_json` are left out.
Exceptions are `ToolError` (what the engine tells apart) or `OtherError`.

The host is not code of the repository. What it may do is three constants:
`Truthful` (its evidence is right when it reconciles), `Quiescent` (it waits
until no dispatch of the request is running) and, for the callers, `Serialised`
(one caller per request id). All three FALSE is the code with any host.

### LeaseQueue

`status`, `owner` and `lapsed` of an event. Time and priority only decide
which claim comes next, and here any claimable event may: every order the
code can produce is included. `ack_event` and `fail_event` check the owner,
not the lease, so an owner whose lease lapsed and was not reclaimed still
succeeds. An event is the pair (run, generation): the dedup key
`run-step:<run>:<step>` makes a second `enqueue_event` reuse the row.

### RunEngine

`run[r]` is the row, `decision`, `said`, `outcome`, `recovered` the durable
decisions and keyed messages. `job[p]` is the position of worker or host `p`:

    load      get_run and the checks before the try block      engine.py:180-198
    maxed     update_run(FAILED, max_steps exceeded)           190-195
    drop      ack_event outside the try block                  184, 187, 196
    decide    get_run_step_decision                            200
    ask       model.respond                                    204
    admit     record_run_step_decision                         208
    say       assistant message, call of execute               218-235
    tool      inside execute (EffectLedger), then 261 or 236
    block     block_run_on_effect                              239
    fail      update_run(FAILED)                               250
    advance   advance_run_step, one transaction                268
    final     final message                                    276
    complete  update_run(COMPLETED)                            283
    ack       ack_event inside the try block                   245, 256, 291
    error     update_run(last_error)                           294
    requeue   fail_event                                       295
    recover, tool, resume   resume_blocked_effect              118-135

`Break` makes the next statement or the model call raise: inside the try
block that leads to `error`, elsewhere it ends the cycle. `Crash` is process
death; the process comes back idle. `Overlap` says whether a lease may lapse
while its owner works; it may with the default settings. `FreshIds` says
whether the model mints a new request id each time, `HostWaits` whether the
host touches only requests a run is blocked on.

Reading and branching in one action: `get_run` and the checks on its result
(the row is the process's own copy from then on); the assistant message and
the entry of `execute`, which touches no shared state before its SELECT;
`effect_state` and the branch on it.

### EventQueue

A row is `status`, `owner`, `until`, `avail`, `attempts` and the `request` it
holds (kind, payload, priority: what `enqueue_event` compares). Time is
relative: `until` and `avail` are the time still to go and shrink with `Tick`,
and `job[w].age` is how long ago worker `w` read the clock. That is what the
code does: `run_once(now)` uses one reading for the claim, for the lease and,
after the model call, for `retry_at` (`engine.py:299`). `Claim` is the
transaction of `claim_event` with its order (priority, then age); `Ack` and
`Fail` are the conditional UPDATE, and `NoteAcked`, `NoteFailed`,
`NoteEnqueued` the journal row, a statement of its own. `prod[p]` is a
producer in `enqueue_event`: SELECT, INSERT, the SELECT after a conflict;
`EnqueueAtOnce` is the same inside a transaction of a caller. `Stall` makes a
cycle outlast its lease, `Die` and `Boot` are the process.

### Scheduler, Intake

`sched[s]` is the row of a schedule. `tick[d]` is daemon `d` inside `tick`:
the rows it read, the one it is at with the `next` it computes, how many it has
emitted; `Emit` is one `enqueue_event`, whose dedup key `schedule:<id>:<time>`
is the event <<s, t>>, and `Write` the UPDATE without a condition. `Intake`
adds what `run_once` does with the claimed event: create the run and its first
step in one transaction (`Create`), journal a rejection (`Reject`),
acknowledge. `Abandon` is an exception or a death at any statement, `Lapse`
the lease. The kind and payload of a schedule's events are its class: `Valid`,
`Malformed` or `Foreign`. `run.step` events are `RunEngine`'s.

### Daemon, Supervision

`pc` is the statement a process is at, `exc` the exception in flight, `effect`
the row of the step's request, `event` what became of the event. A statement
is done or raises, and `Lands` says which handler gets the exception: those of
`execute` the inner one of `run_once`, those of the try block the outer one,
those before it `run_forever`. An interrupt is `KeyboardInterrupt` or
`SystemExit`; it may come anywhere, and `except BaseException` in the handlers
takes it like any other. `Supervision` adds the scripts: `keeper` is
`start-pre-active.ps1`, `host` is `start-qwen.ps1`, `server` and `gpu` what
they look at.

### ContextBudget, SchemaSubset, QwenProtocol, ModelTurn

Texts are lengths in `ContextBudget`. A JSON value in `SchemaSubset` carries
its type and what validation looks at: a number is counted in halves, so that
2.5 exists and 1 and 1.0 differ by type only, a regular expression is the set
of texts it finds. A generation in `QwenProtocol` is a sequence of pieces:
texts, start tags, end tags, and markers that are no whole tag. The two regular
expressions of `tool_protocol.py` are non-greedy and match across line ends, so
what they find is a matter of which tag comes next. `Match` goes from the first
opening of a call that is ever closed to the first closing after it, whatever
is between; a parameter (`Starts`, `Literal`) goes from a start tag to the next
end tag, over any other tags, and `NoResidue` asks that nothing is left
between. A literal of several pieces is read by a string only.
`ModelTurn` strings them together in the order of `run_once`: `Assemble`,
`Offer` (registration and capabilities), `AskLocal` or `AskOther`,
`Interpret`, `Execute` up to the ledger. What `Reply` sends, `Interpret` reads.

The validator is recursive. `Supported`, `Accepts` and `PyEqual` of
`SchemaSubset` are one call each, and what the calls inside return is a
constant, `Registers`, `Admits` and `Equals`. The run ties the knot
(`ModelTurnMC` and the cfg give them these operators as values), so that TLC
evaluates the recursion while the modules declare no RECURSIVE operator and
can be proved about. What the proofs know of these constants, and of `Means`
and `Nests` below, is `RegistryAssumption`: the defining equations
(`Admits(s, v) <=> Accepts(s, v)`) for every schema and value that the
validation of arguments comes by, of the arguments that the registry may be
given (`Given`), and that schemas are finite trees. TLC evaluates it.
`SchemaMeaning` is built the same way, from what the keywords mean and not from
the code: `Holds` is what `AdmittedIsValid` compares `Accepts` with, and
`Confusing` names where the two may disagree.

### Abstract specifications

`EffectContract` promises, per request id: the world changes only while the
request is open, at most once; an outcome is recorded only if it happened,
and for good; "void" only if it did not. `EffectLedger` implements it
(`ImplementsContract`) under `Trusted`.

`RunLifecycle` lets a row advance one generation at a time, never leave a
final status, and leave a block only when the block's barrier (an effect that
is not established) is gone. `RunEngine` implements it (`ImplementsLifecycle`)
while leases outlast cycles and one host resumes. `RunEngineTerminal` and
`RunEngineTwoHosts` show that both conditions are needed.

`LeaseQueue` is what the engine and the intake are verified against: an event
is claimed when nobody holds it or its lease has lapsed, and settled by its
owner. `EventQueue` implements it (`ImplementsLeaseQueue`), whatever clock
reading a cycle carries: a stalled worker may still settle an event whose
lease has lapsed, which `LeaseQueue` allows (`ClaimLate`, `Lapses`).

`TaskContract` knows a plan per schedule and a phase per occurrence: requested
in order without gaps, none before its time, then run or closed, once.
`Intake` implements it (`ImplementsTaskContract`).

## Runs

| run | asks | bounds |
|---|---|---|
| `EffectLedgerTrusted` | the contract and what it rests on | 2 callers, 2 ids, 2 mutations, 2 denials |
| `RunEngineLeased` | transcript, open effects, blocks, at-most-once end to end; lifecycle; serial use of the ledger | 2 workers, 1 host, 1 run, 2 ids, MaxSteps 2, unbounded faults |
| `RunEngineOverlap` | stranded runs, decisions, durable request first, at most one attempt until a denial; leases lapse, ids collide, the host lies | 2 workers, 1 host, 2 ids, MaxSteps 1, Slack 2, 1 denial |
| `RunEngineLive` | every run ends, every event is acknowledged, unless reads contradict themselves; a mutation never fails its run | 1 worker, 1 host, 2 ids, 2 values, MaxSteps 2, 2 faults |
| `RunEngineTerminal`, `RunEngineTwoHosts`, `RunEngineReread` | *violations*, one finding each | as small as the trace needs |
| `EventQueueTimed` | dedup, journal, who settles, the lease queue | 2 workers, 2 producers, 2 keys, 2 priorities, lease 2, stall 3, 2 faults |
| `EventQueueLive` | an event that fails for ever starves nobody, unless cycles are slow again and again | 1 worker, 2 producers, 2 keys, 2 priorities, lease 3, delays to 4, calls to 4, stall 5, 1 fault |
| `IntakeCycle` | occurrences, runs and rejections; the task contract | 2 daemons, a recurring task and a malformed one-shot request, cap 2, 2 faults |
| `SupervisionLive` | what ends the daemon, and that it polls again | 4 faults; errors of statements without bound |
| `ModelTurn` | context, endpoint, adapter, registry on all inputs of `ModelTurnMC` | budget 12, lengths 1 to 13, 9 memories, 111 schemas, 137 generations, 45 payloads |

Why the bounds are enough. Two processes meet in every race of this code: each
conflict is one statement against one older read. The ledger without a trusted
host is checked inside the engine, with two workers and a host as its three
callers (`RunEngineOverlap`); the proofs have any number. One id is enough
for a race on a row, two for confusion between steps; two denials cover a
re-execution that is denied again. One run is enough where runs share nothing
but request ids. MaxSteps 2 has a generation with
a predecessor and a successor. `Slack` leaves generations above the budget for
stale workers (`Complete` increments without a condition); it is a guard of
`Complete` and `Resume` only. Faults are unbounded except where liveness is
checked or the state space asks for it.

In `EventQueueTimed` a stall (3) outlasts the lease (2), so that an event is
taken over and settled while its old worker still holds it, and the claim may
come one unit after the clock was read. Delays are capped by `MaxDelay` and
`attempts` by `MaxAttempts`, above which nothing depends on them. In
`EventQueueLive` a call of the model may take any time from nothing to 4: it
may end within its lease (3) or after it, before the back-off it earns (2, then
4) or after it. It has one worker, since a second one that is free can only
help an event that waits, and with one the order of claims decides alone.
`RunEngineLive` has one worker too: whatever two workers do to each other is a
race, which the other runs have, while a cycle that ends nowhere needs one that
repeats itself; the two faults at any point redeliver a step twice. Its tools
return one of two values, anew in every call. Two daemons overlap in one schedule in
`IntakeCycle`, and a tick that stops at the cap leaves another schedule
overdue; no schedule there is `Foreign`, whose events take the path of a
malformed one without the rejection. The proofs cover it, and every other
bound. In `ModelTurn` the budget is met exactly, missed by one from either
side, and exhausted by the system prompt; every supported keyword and every
JSON type occurs. The generations are complete calls, one call cut off after
any of its tags, alone or before a second one, and one that lacks any one tag
or has any one too many: a tag that is missed, and what it then swallows, is
the case the two regular expressions turn on.

The engine and turn runs set `CHECK_DEADLOCK FALSE`: when all runs have ended
and all events are done, or when the turn is over, nothing is left to do (an
idle engine's polling changes nothing). The others check for deadlock.

## Fairness

`RunEngine!FairSpec` assumes: a worker goes on with the cycle it is in (WF on
`Work`): SQLite statements and the HTTP call end, by timeout at the latest
(`store.py:103`, `openai_compatible.py:105`), and a dead process is restarted
(`start-pre-active.ps1`, the watchdog; `Crash` returns it to idle).
Every event that is claimable again and again is claimed (SF): `run_forever`
polls without end, and claims are ordered by priority and age, so an event
that waits becomes the oldest. `EventQueue` checks that premise where an event
fails for ever. A claimed event's lease lapses if nobody acks
it (WF, time passes). The host reconciles what is unresolved (WF) and resumes
what is blocked (SF); the documentation asks that of it. Its verdict is
reached: `Truthful` decides between the two. The model may answer anything and
a tool return anything, every time: a model that calls tools for ever is ended
by `max_steps`. What raises, the model's endpoint and handlers included, is a
fault, and faults come to an end (`CountFaults`), since no progress is possible
while every statement fails. One behaviour of a healthy system keeps a run from
ending nevertheless: a read-only tool is run again when its step is retried,
and if it returns something else than its recorded message, the step fails on
the message's key and is retried (`store.py:514`). `RunsEnd` and `EventsDrain`
except a run whose reads do that again and again (`Contradicts`): each of them
says "until it happens once more". `RunEngineReread` shows that the exception is
needed, after a single fault. Every denial follows a
fault that left its effect unresolved, so with `MaxDenials` equal to
`MaxFaults`, as in `RunEngineLive`, the bound on denials is never met.

`EventQueue!FairSpec`: WF for each producer's call, for each worker (a dead
one is booted by the supervisor) and for time. There is none for `Claim` of an
event: which event comes next is decided by the order in `claim_event`.
`NoneStarves` holds of an event until a cycle is slow (`Slow`: it outlasts its
lease, or the longest delay a failure can earn), and so rules out that an event
waits for ever while from some time on cycles are not slow. Nothing better
holds: the delay counts from the beginning of a cycle, so that a failing event
of the first place is due again as soon as a call has timed out after 60 s or
more, and one worker then serves nothing else.

`Supervision!Fairness`: WF for the daemon's statements (each returns or
raises), the supervisor of the daemon, the supervisor of the endpoint, a
loading model, the watchdog (a task of every minute) and for who took the GPU
to give it back. Kills, crashes and interrupts are finitely many, errors of
the daemon's statements are not.

`Intake` has no liveness property: that a capped tick reaches every schedule
rests on `ORDER BY next_at` and on time that runs no faster than ticks, and
the clock of the model is bounded.

## Proofs

`EffectLedgerProofs` proves, for any constants that satisfy `LedgerAssumption`:

* without any trust: `TypeCorrect`, `EffectsAreWrittenAhead`,
  `AttemptedOnceUntilDenied`. `OneAttemptUnlessDenied` is not inductive: it
  does not say that a caller at `handler` finds `applied = 0`, nor that only
  one caller is past the INSERT. `DispatchInv` adds that, until a denial,
  at most one caller is in flight, no caller is at `retry`, and a row without
  state was never applied.
* under `Trusted`: `EffectsHappenOnce`, `LedgerIsTruthful`,
  `AnswersAreReplayed`, `CommittedStays`, `DispatchIsOpen` and the refinement
  `LedgerImplementsContract`. They rest on `TrustedInv`: the position of the
  caller determines the row, the row determines what happened. `TrustedSteps`
  classifies every step as one of the contract's or as silent, once, and the
  action properties and the refinement follow from the classification.

`RunEngineProofs` proves, for any constants that satisfy `EngineAssumption`
(overlapping leases, colliding ids, a lying host and unbounded faults
included):

* `RunsAreNeverStranded` (`NoStrandedRun`). It is not inductive: it does not
  say that the event of a *new* generation is new. If it were DONE already,
  `enqueue_event` would reuse the row and the run would stop. `Inv` adds that
  no event is ahead of its run's generation (`Scheduled`) and what the position
  of each worker says of the event it holds (`Doing`): a worker about to
  acknowledge has left the generation behind or the run is not running
  (`Settled`), however stale the row is that it read.
* `OneDecisionPerStep` (`ActsOnDecision`), from the same `Inv`: a worker that
  is past `admit` carries the durable decision, and decisions never change
  (`Monotone`).

The argument has two halves. `OthersKeep`: rows and decisions only move on
(`Onward`), which keeps `Doing` of whoever does not move. One lemma per action
then shows `Doing` of the one that does, with `RowChanges`, `Generates` and
`EventMoves` for the three ways to touch a row or an event.

`RunEngineToolProofs` puts the ledger and the queue inside the engine, under
`ToolsAssumption` (the ledger's own assumption on its constants) and nothing
else: leases still overlap and the host may still lie.

* `EngineDrivesLedger`: `Spec => L!Spec`, every step of the engine is a step of
  `EffectLedger` or leaves it alone. What `EffectLedgerProofs` proves of any
  callers therefore holds of workers and hosts: `EngineWritesAhead`
  (`WriteAhead`) and `EngineAttemptsOnce` (`OneAttemptUnlessDenied`).
* `EngineDrivesQueue`: `Spec => Q!Spec`, likewise of `LeaseQueue`, which
  `EventQueue` implements. `IntakeProofs!IntakeDrivesQueue` says it of scheduler
  and intake.
* `EffectsComeFromDecisions` (`EffectsAreDecided`) and `TypeCorrect`.

None of these is inductive. `Tools` adds to `Inv` what a process and its call of
the ledger have to do with each other (`ToolInv`): a worker in `tool` calls
with the request id and body of its plan, which by `Inv` is the durable
decision; a host only re-executes a request that has a row; whoever is outside
has no call.

`RunEngineLeasedProofs` assumes `Leased` besides: leases outlast cycles
(`~Overlap`), request ids are fresh (`FreshIds`), one host resumes, and it is
`Truthful` and `Quiescent`. Workers, runs, ids, budgets, crashes and failing
statements remain arbitrary. The endpoint mints its ids with `uuid4`
(`tool_protocol.py:179`); the rest is up to the installation, a lease longer
than a model call with its timeout above all. `RunEngineTerminal` and
`RunEngineTwoHosts` show the lifecycle broken when leases lapse and when a
second host resumes; the findings below say what each of the others prevents.
Under it:

* `TranscriptIsComplete` (`TranscriptComplete`), `StepsWaitForEffects`
  (`NoStepPastOpenEffect`), `BlocksOnOwnStep` (`BlockedOnOwnStep`);
* `EngineUsesLedgerSerially` (`UsesLedgerSerially`): no two calls under one
  request id. This is the premise of the ledger's trusted theorems, so the
  chain closes: `EngineActsOnce` (`AtMostOneEffect`), end to end, and
  `EngineKeepsContract`, that the engine implements `EffectContract`, follow
  from `EffectLedgerProofs`;
* `EngineImplementsLifecycle` (`ImplementsLifecycle`), the refinement of
  `RunLifecycle`;
* `FailuresHaveCause` (`FailedHasCause`), which needs `HostWaits` too.

The inductive invariant is `LInv`. A worker in its cycle holds its event, which
makes it the only one, and finds the run where it read it (`WorkerInv`); the
run a host works on stays blocked on the request it read (`HostInv`). No two
decisions have one request id, also not one that is only minted yet (`Unique`,
`Fresh`): with that, two callers under one id would be two holders of one
event, or a worker and the host at one run that cannot be RUNNING and blocked
at once. `RunInv` and `TextInv` say what each generation left in the
transcript and that it agrees with the ledger. Serial use and `TrustedInv` of
the ledger depend on each other, so they are one induction: a step of the
engine is a step of the *serial* ledger because `LInv` holds before it, and
the ledger's lemmas then carry `TrustedInv` over it. `CauseInv` adds, for
`FailuresHaveCause`, what the exception a worker carries says of its row.

`EventQueueProofs` proves, for any constants that satisfy `QueueAssumption`
and `PowersAssumption`: `TypeCorrect`, `RequestsAreBound` (`AcceptedIsBound`),
`JournalTellsTruth` (`JournalIsHonest`), `OnlyLatestClaimEnds`
(`LatestClaimEnds`) and the refinement `QueueIsLeased`
(`ImplementsLeaseQueue`). The invariant adds to the types that a worker in its
cycle has journalled a claim, carries the attempt of the claim it still owns
and notes an acknowledgement only of a finished event (`WorkerInv`), what a
producer knows of the row under its key (`ProducerInv`), and what the journal
says of a row (`RowInv`). `Keeps` is what no step takes back: requests, finished
events and journal rows. In the refinement a claim whose lease has passed
already is `ClaimLate`, and a unit of time is `Lapses` of the leases it ends.
`PowersAssumption` says that 2^0 to 2^6, which the back-off uses, are natural
numbers; the provers know no exponents, TLC evaluates it.

`IntakeProofs` proves, for any daemons, schedules, intervals, cap, clock and
faults that satisfy `IntakeAssumption`: `TypeCorrect` (ticks keep to the cap),
`NoOccurrenceLost` (`NoneForgotten`) and `SettledIsHandled`
(`SettledMeansHandled`). `NoneForgotten` speaks of `next` in the row; what
breaks it is a tick that carries an older `next` and writes it later. The
invariant therefore says of every row a tick carries what it says of the
table (`Sound`): its `next` is the first occurrence or follows one that has
its event. A stale write then only moves a schedule back to occurrences that
are emitted already, whose dedup keys make the second emission void.
`SettledMeansHandled` needs that a daemon at `ack` has done the work
(`JobInv`) and that nothing undoes it (`Keeps`). `IntakeKeepsContract` is the
refinement `ImplementsTaskContract`; it needs besides that an event somebody
works on has its row (`Present`). Emitting an occurrence for the first time is
the contract's `Request`, creating a run its `Run`, acknowledging an event that
is no valid task its `Close`; stale emissions, redelivered requests and all
else are stutters.

`ModelTurnProofs` proves, for any budget, lengths, memories, generations and
schemas that satisfy `TurnAssumption` (lengths are natural numbers, generations
and lists of types sequences), `MemoryAssumption` (the heading is not empty,
memories are finite sets, their ids distinct) and `RegistryAssumption` (above),
every invariant of the run:

* `ContextKeepsBudget` (`BudgetKept`) and `TaskIsCutLast` (`TaskBeforeMemory`)
  follow the branches of `_trim_required`, whatever was selected; that no memory
  is there when the prompt leaves no room comes from `Remaining`. A task that is
  cut leaves the budget exactly used, or the prompt with its separator alone
  exceeds it.
* `BestMemoryIsTaken` (`BestMemoryFirst`). The selection is a fold over the hits.
  `SelectionInv` says of each of its steps that the room left is exactly what
  the chosen lines leave, and that every hit seen so far is taken or would not
  have fitted after the better ones; what comes later ranks lower and does not
  change that (`LeftOutStays`). That hits come by rank is a count: a memory's
  position is the number of memories ranked above it (`RanksAreExact`).
  `SetInduction` and `StepsExist` (functions defined step by step exist) come
  from the well-foundedness of the naturals. They speak of sets and functions,
  which takes the place of the library's induction on predicates.
* `MarkupIsNeverText` (`NoMarkupAsText`) is not inductive: `AnswerInv` adds that
  what waits to be interpreted is the endpoint's reply to this generation, and
  one lemma each says what `Parse`, `Message` and `Response` keep of it. What a
  generation says is defined without the parser (`Answers`, `Whole`,
  `Unclosed`). `MatchIsFirst` says that the match is the earliest pair of an
  opening and a closing, `StartTagsBegin` that in a body without residue every
  start tag begins a match unless a parameter is not closed, and
  `CallIsAnswered` puts them together. The exception is the code's, not the
  model's (see the findings).
* `LocalCallsAreAdmitted` (`CallsAreAdmissible`) needs `AdmissionInv`: the tool
  was registered, the decision is one the endpoint checked against it, and its
  arguments are among those of `Given`. Every value of a declared type that the
  endpoint coerces has that type for the registry (`CoercedHasDeclaredType`).
* `RegistryMeansSchema` (`AdmittedIsValid`): on registered schemas of any
  nesting the registry admits exactly what `Holds` describes, unless something
  in them is `Confusing`. `LevelAgrees` compares the two keyword by keyword where
  the calls inside agree, `ReadingsAgree` is the induction over nesting, and
  `RegistryIsExact` needs that registration has checked every schema that
  validation reaches (`InsideAreChildren`).

`SupervisionProofs` proves `TypeCorrect`, `ErrorsAreSurvived`
(`OnlyInterruptsStop`) and `InterruptsAreKept` (`InterruptIsKept`), for any
number of faults. Type correctness says where an exception may be in flight,
and is strengthened by which handlers an exception can be in at all
(`HandlersApply`).

Every invariant and every action property that a passing run checks is stated
by a theorem above. Only model-checked are the liveness properties (`RunsEnd`,
`EventsDrain`, `NoneStarves`, `KeepsPolling`), which are out of the prover's
reach. The three violated properties are refuted, by TLC.

## Findings

Three places where the code does what its documentation says it does not, each
with a run (PROJECT.json quotes both sides):

* a worker whose lease lapsed overwrites a final status (`RunEngineTerminal`);
* a second host resumes the run's next block, which nobody reconciled
  (`RunEngineTwoHosts`);
* a read-only tool that returns something else in a retried step, after its
  result message was written, keeps its run from ever ending
  (`RunEngineReread`, `store.py:514`).

What the models' constants and exceptions record besides:

* Without `Quiescent`, a handler that ends late overwrites the row a host
  reconciled meanwhile (`tools.py:385` has no condition on the state). Without
  `Serialised`, two recoveries of a denied request dispatch it twice
  (`tools.py:351`: the retry decides on an older read).
* Without `HostWaits`, a host that reconciles before the engine has looked at
  the effect row (`engine.py:237`) makes the engine fail the run
  (`FailedHasCause`). Without `FreshIds`, an exception under a request id that
  another run's unresolved mutation uses blocks this run on that effect
  (`BlockedOnOwnStep`).
* A failed acknowledgement after `update_run(COMPLETED)` leaves `last_error` on
  a completed run (`engine.py:294`).
* "process-control exceptions still stop it" (`README.md:32`) with two
  exceptions: an interrupt during a mutation is answered by blocking the run,
  and the daemon goes on; and a clean-up that raises replaces the interrupt by
  its own error. `InterruptIsKept` names both.
* A `print` that raises (`daemon.py:34`) ends the daemon: `OnlyInterruptsStop`
  names it.
* What raises before the try block (a `run.step` event without a run) leaves
  the event claimed until its lease lapses, and no back-off applies.
* The delay of a retry counts from the start of the cycle (`engine.py:299`): a
  failure after a call of more than a minute is due again at once, against
  "retryable through the queue with bounded exponential delay"
  (`docs/ARCHITECTURE.md:161`). `NoneStarves` excepts such cycles (`Slow`).
* The parser of the local model is not "fail-closed for [...] malformed
  envelopes, [...] parallel calls" (`docs/WINDOWS_LAPPY_RUNTIME_V1.md:86`): a
  parameter that is cut off by another start tag takes in what follows up to
  the next end tag, the rest of its call or a whole second call, as its argument
  (`tool_protocol.py:144`). `NoMarkupAsText` names the case (`Unclosed`).
* A rejection is journalled again when a process dies between
  `engine.py:149` and `:155`: what `SettledMeansHandled` says is that there is
  one, and only of runs that there are never two.
* A system prompt of `max_chars` or more is sent whole, so the context exceeds
  its budget; the task is then empty (`BudgetKept`).
* `enum` and `const` take `true` for 1, and `uniqueItems` tells 1 from 1.0,
  also inside arrays and objects (`Confusing`). `AdmittedIsValid` names both.

## Not modelled

* A clock that goes backwards; times that are no whole numbers (the dedup key
  of a schedule keeps six decimals of a float).
* Schema migration of old databases, SQLite itself (a statement is atomic and
  durable, or raises and leaves no trace).
* The HTTP transport, the language model, tokenizer and GPU: a reply is a
  status and a body, a generation a sequence of pieces. An abandoned request
  that goes on generating has no durable effect.
* An argument that is a JSON list or object with a tag inside one of its
  strings: a literal with tags in it is read as a string only.
* What the regular expressions of a schema find, the precision of floating-point numbers, and
  Unicode: sets and small numbers stand for them.
* At the endpoint, tool declarations that the registry would not have admitted:
  the engine sends no others.
* `add_memory`, `status`, argument parsing, printing, the installation part of
  the Windows scripts, the examples: no control depends on them. A daemon whose
  supervisor dies and leaves it running is not followed; two daemons on one
  database are `RunEngine`'s, `EventQueue`'s and `Intake`'s subject.
* Two workers under one `--worker-id`: ownership is by that name
  (`store.py:561`), and the default, the process id, tells them apart on one
  machine only.

## Plan

1. *(done)* ledger, engine, queue, intake, scheduler, daemon, supervision,
   context, schema subset, protocol, with their runs; proofs of ledger, queue
   and intake with their refinements, of stranded runs, decisions and
   supervision.
2. *(done)* the ledger and the queue inside the engine; with leases that
   outlast cycles, serial use of the ledger, the transcript, `RunLifecycle` and
   the ledger's contract end to end; the budget and the protocol of a turn.
3. *(done)* the turn: the selection of memories, what the endpoint lets
   through, and the registry against the meaning of its keywords.
4. Left: the hazards in PROJECT.json that no property covers.
