------------------------------- MODULE Intake -------------------------------
(***************************************************************************)
(* The cycle of a daemon (src/pre_active/daemon.py) from schedules to runs: *)
(* the scheduler's tick, the claim of one event, and what run_once          *)
(* (src/pre_active/engine.py) does with every kind of event but run.step,   *)
(* which RunEngine models.  Several daemons share the store; any statement  *)
(* may raise and any process may die.                                       *)
(***************************************************************************)
EXTENDS Integers

CONSTANTS
  Daemons, Schedules, None, Recurring, Intervals, Cap, MaxTime,  \* Scheduler
  Valid,      \* schedules of a well-formed task.requested
  Malformed,  \* of a task.requested without a task or with bad capabilities
  Foreign,    \* of a kind the engine does not know
  MaxFaults   \* bound: deaths, raising statements, lost leases

ASSUME IntakeAssumption ==
  /\ Intervals \subseteq Nat \ {0} /\ Recurring \subseteq Schedules
  /\ None \notin Int \cup Schedules \cup Daemons
  /\ Cap \in Nat \ {0} /\ MaxTime \in Nat
  /\ Schedules = Valid \cup Malformed \cup Foreign
  /\ Valid \cap Malformed = {} /\ Valid \cap Foreign = {} /\ Malformed \cap Foreign = {}
  /\ MaxFaults \in Nat

VARIABLES
  clock, sched, tick,     \* Scheduler
  status, owner, lapsed,  \* LeaseQueue
  runs,     \* event -> how many rows of table runs name it as their source
  refused,  \* event -> the journal has EVENT_REJECTED for it
  job,      \* daemon -> the event it claimed in this cycle, and where it stands
  faults    \* how many faults have been spent

queueVars == <<status, owner, lapsed>>
tableVars == <<clock, sched, queueVars, runs, refused>>
vars == <<tableVars, tick, job, faults>>

S == INSTANCE Scheduler
Q == INSTANCE LeaseQueue WITH Workers <- Daemons, Events <- S!Events

Events == S!Events
NoJob == [pc |-> "none", event |-> None]

Init ==
  /\ S!Init
  /\ runs = [e \in Events |-> 0]
  /\ refused = [e \in Events |-> FALSE]
  /\ job = [d \in Daemons |-> NoJob]
  /\ faults = 0

At(d, pc) == job[d].pc = pc
Go(d, pc) == job' = [job EXCEPT ![d].pc = pc]
Spend == faults < MaxFaults /\ faults' = faults + 1

(* The cycle ends: by return or by an exception, which run_forever prints. *)
EndCycle(d) ==
  /\ job' = [job EXCEPT ![d] = NoJob]
  /\ tick' = [tick EXCEPT ![d] = S!NoTick]

-----------------------------------------------------------------------------
Tick(d) == S!Tick(d) /\ UNCHANGED <<runs, refused, job, faults>>
Add(s) == S!Add(s) /\ UNCHANGED <<runs, refused, job, faults>>
Advance == S!Advance /\ UNCHANGED <<runs, refused, job, faults>>

(* run_once branches on the event's kind before any other test. *)
Branch(e) ==
  CASE e[1] \in Valid -> "create"
    [] e[1] \in Malformed -> "reject"
    [] e[1] \in Foreign -> "ack"

Claim(d, e) ==
  /\ S!At(d, "done") /\ At(d, "none")
  /\ Q!Claim(d, e)
  /\ job' = [job EXCEPT ![d] = [pc |-> Branch(e), event |-> e]]
  /\ UNCHANGED <<clock, sched, tick, runs, refused, faults>>

(* Nothing was due at the reading of the clock. *)
NothingDue(d) ==
  /\ S!At(d, "done") /\ At(d, "none")
  /\ EndCycle(d)
  /\ UNCHANGED <<tableVars, faults>>

(* create_run_with_initial_step, one transaction: the run that already has  *)
(* this source event is used again.                                         *)
BugRunsAfter(n) == n + 1
RunsAfter(n) == IF n = 0 THEN 1 ELSE n

Create(d) ==
  /\ At(d, "create")
  /\ runs' = [runs EXCEPT ![job[d].event] = RunsAfter(@)]
  /\ Go(d, "ack")
  /\ UNCHANGED <<clock, sched, tick, queueVars, refused, faults>>

Reject(d) ==
  /\ At(d, "reject")
  /\ refused' = [refused EXCEPT ![job[d].event] = TRUE]
  /\ Go(d, "ack")
  /\ UNCHANGED <<clock, sched, tick, queueVars, runs, faults>>

(* ack_event; these calls are outside the try block, so a lost lease just   *)
(* ends the cycle.                                                          *)
Ack(d) ==
  /\ At(d, "ack")
  /\ \/ Q!Ack(d, job[d].event)
     \/ ~Q!Owns(d, job[d].event) /\ UNCHANGED queueVars
  /\ EndCycle(d)
  /\ UNCHANGED <<clock, sched, runs, refused, faults>>

-----------------------------------------------------------------------------
(* A statement of the cycle raises, or the process dies and another one     *)
(* starts; an exception in the tick skips the claim.                        *)
Abandon(d) ==
  /\ ~S!At(d, "idle")
  /\ EndCycle(d)
  /\ Spend
  /\ UNCHANGED tableVars

(* A lease lapses; under a live owner that is a fault. *)
Lapse(e) ==
  /\ Q!Lapse(e)
  /\ IF \E d \in Daemons : job[d].event = e /\ owner[e] = d THEN Spend ELSE UNCHANGED faults
  /\ UNCHANGED <<clock, sched, tick, runs, refused, job>>

Cycle(d) == Tick(d) \/ NothingDue(d) \/ Create(d) \/ Reject(d) \/ Ack(d)

Next ==
  \/ \E s \in Schedules : Add(s)
  \/ \E d \in Daemons : Cycle(d) \/ Abandon(d) \/ \E e \in Events : Claim(d, e)
  \/ \E e \in Events : Lapse(e)
  \/ Advance

Spec == Init /\ [][Next]_vars

-----------------------------------------------------------------------------
Row == [on : BOOLEAN, first : Nat, every : Intervals \cup {None}, next : Nat, added : BOOLEAN]
Item == [id : Schedules \cup {None}, every : Intervals \cup {None}, next : Nat]

(* Tables and daemons are of the shape schema and code give them: the       *)
(* schema has a unique index on the source event of a run, and a tick emits *)
(* at most max_occurrences events over all its schedules.                   *)
TypeOK ==
  /\ clock \in S!Times
  /\ sched \in [Schedules -> Row]
  /\ tick \in [Daemons -> [pc : {"idle", "select", "emit", "write", "done"},
                           now : S!Times, rows : SUBSET Item, row : Item, emitted : 0..Cap]]
  /\ Q!TypeOK
  /\ runs \in [Events -> 0..1] /\ refused \in [Events -> BOOLEAN]
  /\ job \in [Daemons -> [pc : {"none", "create", "reject", "ack"},
                          event : Events \cup {None}]]
  /\ faults \in Nat

Emitted(s, t) == <<s, t>> \in Events /\ status[<<s, t>>] # "ABSENT"

(* t is the first occurrence of s, or the one before it has its event. *)
Follows(s, t) ==
  \/ t = sched[s].first
  \/ sched[s].every # None /\ Emitted(s, t - sched[s].every)

(* No daemon, stale or dead, makes the scheduler skip an occurrence, emit   *)
(* one that is none, or emit one early: events, and the next_at every tick  *)
(* starts from, follow one another without a gap from first_at.             *)
NoneForgotten ==
  \A s \in Schedules : sched[s].added =>
    /\ Follows(s, sched[s].next)
    /\ \A t \in S!Times : Emitted(s, t) => t <= clock /\ Follows(s, t)

(* An acknowledged event has had its effect: a well-formed request exactly  *)
(* one run, a malformed one a rejection in the journal (a second one after  *)
(* a crash), and only a well-formed one has a run at all.                   *)
SettledMeansHandled ==
  \A e \in Events :
    /\ runs[e] <= (IF e[1] \in Valid THEN 1 ELSE 0)
    /\ status[e] = "DONE" =>
         /\ e[1] \in Valid => runs[e] = 1
         /\ e[1] \in Malformed => refused[e]

(* What the contract sees of the tables. *)
plan == [s \in Schedules |-> [known |-> sched[s].added, first |-> sched[s].first,
                              every |-> sched[s].every]]

PhaseOf(e) ==
  CASE status[e] = "ABSENT" -> "none"
    [] status[e] # "ABSENT" /\ runs[e] = 1 -> "run"
    [] status[e] # "ABSENT" /\ runs[e] > 1 -> "runs"
    [] status[e] # "ABSENT" /\ runs[e] = 0 -> IF status[e] = "DONE" THEN "closed" ELSE "open"

phase == [e \in Events |-> PhaseOf(e)]

Contract == INSTANCE TaskContract

(* Daemons that overlap, stall and die implement the contract of recurring  *)
(* tasks: each occurrence is requested once, in order, not before its time, *)
(* and each well-formed request becomes exactly one run.                    *)
ImplementsTaskContract == Contract!Spec
=============================================================================
