------------------------------ MODULE Scheduler ------------------------------
(***************************************************************************)
(* The scheduler (src/pre_active/scheduler.py): the table schedules and the *)
(* tick each daemon makes at the start of its cycle.  A tick selects the    *)
(* overdue schedules once, then enqueues one event per occurrence and       *)
(* writes next_at back, each in a statement of its own: the ticks of        *)
(* several daemons interleave, and one may end anywhere.                    *)
(*                                                                          *)
(* A unit of time is a microsecond, the resolution of the dedup key.        *)
(***************************************************************************)
EXTENDS Integers

CONSTANTS
  Daemons, Schedules, None,
  Recurring,  \* the schedules with an interval; the others are one-shot rows
  Intervals,  \* every_seconds
  Cap,        \* tick(max_occurrences)
  MaxTime     \* bound: the clock stops here

Times == 0..MaxTime

Events == Schedules \X Times  \* one per dedup key

VARIABLES
  clock,
  sched,   \* schedule -> its row, with the first_at it was added with
  tick,    \* daemon -> where its tick stands
  status, owner, lapsed   \* LeaseQueue

queueVars == <<status, owner, lapsed>>
vars == <<clock, sched, tick, queueVars>>

Q == INSTANCE LeaseQueue WITH Workers <- Daemons

NoRow == [on |-> FALSE, first |-> 0, every |-> None, next |-> 0, added |-> FALSE]
NoItem == [id |-> None, every |-> None, next |-> 0]
NoTick == [pc |-> "idle", now |-> 0, rows |-> {}, row |-> NoItem, emitted |-> 0]

Init ==
  /\ clock = 0
  /\ sched = [s \in Schedules |-> NoRow]
  /\ tick = [d \in Daemons |-> NoTick]
  /\ Q!Init

At(d, pc) == tick[d].pc = pc
EventOf(row) == <<row.id, row.next>>

-----------------------------------------------------------------------------
(* add_interval, or a row without an interval. *)
Add(s) ==
  /\ ~sched[s].added
  /\ \E every \in (IF s \in Recurring THEN Intervals ELSE {None}), first \in Times :
       sched' = [sched EXCEPT ![s] =
         [on |-> TRUE, first |-> first, every |-> every, next |-> first, added |-> TRUE]]
  /\ UNCHANGED <<clock, tick, queueVars>>

(* The daemon reads the clock, once for the whole cycle. *)
Begin(d) ==
  /\ At(d, "idle")
  /\ tick' = [tick EXCEPT ![d] = [NoTick EXCEPT !.pc = "select", !.now = clock]]
  /\ UNCHANGED <<clock, sched, queueVars>>

(* WHERE enabled=1 AND next_at <= ? *)
BugOverdue(s, now) == sched[s].on
Overdue(s, now) == sched[s].on /\ sched[s].next <= now

Item(s) == [id |-> s, every |-> sched[s].every, next |-> sched[s].next]

(* ORDER BY next_at: the tick t goes on to the next of its rows, if it has  *)
(* any left and max_occurrences is not reached.                             *)
GoOn(d, t) ==
  IF t.rows = {} \/ t.emitted >= Cap
  THEN tick' = [tick EXCEPT ![d] = [NoTick EXCEPT !.pc = "done", !.emitted = t.emitted]]
  ELSE \E row \in t.rows :
         /\ \A other \in t.rows : row.next <= other.next
         /\ tick' = [tick EXCEPT ![d] =
              [t EXCEPT !.pc = "emit", !.row = row, !.rows = @ \ {row}]]

(* The rows are read once; the rest of the tick trusts them. *)
Select(d) ==
  /\ At(d, "select")
  /\ LET due == {s \in Schedules : Overdue(s, tick[d].now)}
     IN GoOn(d, [tick[d] EXCEPT !.rows = {Item(s) : s \in due}])
  /\ UNCHANGED <<clock, sched, queueVars>>

(* The loop over the occurrences of an interval. *)
BugRoom(next, now, emitted) == next <= now
Room(next, now, emitted) == next <= now /\ emitted < Cap

BugFollowing(row) == row.next + 2 * row.every
Following(row) == row.next + row.every

(* One occurrence: its event, under a dedup key made of schedule and time.  *)
Emit(d) ==
  LET row == tick[d].row
      next == IF row.every = None THEN row.next ELSE Following(row)
      emitted == tick[d].emitted + 1
      more == row.every # None /\ Room(next, tick[d].now, emitted)
  IN
  /\ At(d, "emit")
  /\ Q!Enqueue(EventOf(row))
  /\ tick' = [tick EXCEPT ![d].pc = IF more THEN "emit" ELSE "write",
                          ![d].row.next = next, ![d].emitted = emitted]
  /\ UNCHANGED <<clock, sched>>

(* The UPDATE has no condition on what is there by now. *)
Write(d) ==
  LET row == tick[d].row IN
  /\ At(d, "write")
  /\ sched' = [sched EXCEPT ![row.id] =
       IF row.every = None THEN [@ EXCEPT !.on = FALSE] ELSE [@ EXCEPT !.next = row.next]]
  /\ GoOn(d, tick[d])
  /\ UNCHANGED <<clock, queueVars>>

Advance ==
  /\ clock < MaxTime
  /\ clock' = clock + 1
  /\ UNCHANGED <<sched, tick, queueVars>>

Tick(d) == Begin(d) \/ Select(d) \/ Emit(d) \/ Write(d)
=============================================================================
