---------------------------- MODULE IntakeProofs ----------------------------
(***************************************************************************)
(* Proofs about Intake, for any daemons, schedules, intervals, caps and     *)
(* clocks: daemons overlap, stall and die at any statement.                 *)
(***************************************************************************)
EXTENDS Intake, TLAPS

Times == S!Times
Statuses == {"ABSENT", "PENDING", "CLAIMED", "DONE"}
TickRow == [pc : {"idle", "select", "emit", "write", "done"},
            now : Times, rows : SUBSET Item, row : Item, emitted : Nat]
JobRow == [pc : {"none", "create", "reject", "ack"}, event : Events \cup {None}]

(* What a tick carries of a schedule is of the schedule and follows what    *)
(* was emitted, however old it is.                                          *)
Sound(item) ==
  /\ item.id \in Schedules
  /\ sched[item.id].added /\ item.every = sched[item.id].every
  /\ Follows(item.id, item.next)

Carried(d, item) ==
  item \in tick[d].rows \/ (tick[d].pc \in {"emit", "write"} /\ item = tick[d].row)

TickInv(d) ==
  /\ tick[d].now <= clock
  /\ \A item \in Item : Carried(d, item) => Sound(item)
  /\ \A item \in tick[d].rows : item.next <= tick[d].now
  /\ tick[d].pc = "emit" => tick[d].row.next <= tick[d].now /\ tick[d].emitted < Cap
  /\ tick[d].emitted <= Cap

Due(s, t) == (sched[s].added /\ t = sched[s].next) \/ Emitted(s, t)

SchedInv(s) ==
  /\ ~sched[s].added => ~sched[s].on
  /\ \A t \in Nat : Due(s, t) => Follows(s, t)
  /\ \A t \in Times : Emitted(s, t) => sched[s].added /\ t <= clock

(* The work that an event asks for is done. *)
Handled(e) ==
  /\ e[1] \in Valid => runs[e] = 1
  /\ e[1] \in Malformed => refused[e]

EventInv(e) ==
  /\ e[1] \notin Valid => runs[e] = 0
  /\ status[e] = "DONE" => Handled(e)

JobInv(d) ==
  /\ job[d].pc # "none" => job[d].event \in Events
  /\ \A e \in Events : job[d].event = e =>
       /\ job[d].pc = "create" => e[1] \in Valid
       /\ job[d].pc = "reject" => e[1] \in Malformed
       /\ job[d].pc = "ack" => Handled(e)

Types ==
  /\ clock \in Times
  /\ sched \in [Schedules -> Row]
  /\ tick \in [Daemons -> TickRow]
  /\ status \in [Events -> Statuses]
  /\ owner \in [Events -> Daemons \cup {None}]
  /\ lapsed \in [Events -> BOOLEAN]
  /\ runs \in [Events -> 0..1]
  /\ refused \in [Events -> BOOLEAN]
  /\ job \in [Daemons -> JobRow]
  /\ faults \in Nat

IInv ==
  /\ Types
  /\ \A d \in Daemons : TickInv(d)
  /\ \A d \in Daemons : JobInv(d)
  /\ \A s \in Schedules : SchedInv(s)
  /\ \A e \in Events : EventInv(e)

-----------------------------------------------------------------------------
LEMMA TimesFact == Times = 0..MaxTime /\ MaxTime \in Nat /\ Cap \in Nat \ {0}
                   /\ Intervals \subseteq Nat \ {0} /\ Events = Schedules \X Times
BY IntakeAssumption DEF Times, S!Times, Events, S!Events

(* What no step takes back. *)
Keeps ==
  /\ \A e \in Events : status[e] # "ABSENT" => status'[e] # "ABSENT"
  /\ \A s \in Schedules : sched[s].added =>
       /\ sched'[s].added /\ sched'[s].first = sched[s].first
       /\ sched'[s].every = sched[s].every
  /\ \A e \in Events : runs[e] = 1 => runs'[e] = 1
  /\ \A e \in Events : refused[e] => refused'[e]
  /\ clock <= clock'

LEMMA FollowsStays ==
  ASSUME Keeps, NEW s \in Schedules, NEW t, sched[s].added, Follows(s, t)
  PROVE  Follows(s, t)'
BY DEF Keeps, Follows, Emitted

LEMMA SoundStays ==
  ASSUME Keeps, NEW item, Sound(item)
  PROVE  Sound(item)'
<1>1. Follows(item.id, item.next)' BY FollowsStays DEF Sound
<1> QED BY <1>1 DEF Sound, Keeps

LEMMA HandledStays ==
  ASSUME Keeps, NEW e \in Events, Handled(e)
  PROVE  Handled(e)'
BY Zenon DEF Keeps, Handled

LEMMA TickStays ==
  ASSUME Types, Types', Keeps, NEW d \in Daemons, TickInv(d), tick'[d] = tick[d]
  PROVE  TickInv(d)'
<1>1. tick[d] \in TickRow BY DEF Types
<1>2. tick[d].now \in Int /\ clock \in Int /\ clock' \in Int
  BY <1>1, TimesFact DEF Types, TickRow
<1>3. tick'[d].now <= clock' BY <1>2 DEF TickInv, Keeps
<1>4. ASSUME NEW item \in Item, Carried(d, item)' PROVE Sound(item)'
  BY <1>4, SoundStays DEF TickInv, Carried
<1> QED BY <1>3, <1>4 DEF TickInv

LEMMA TickEnds ==
  ASSUME Types', NEW d \in Daemons, NEW n \in 0..Cap,
         \/ tick'[d] = S!NoTick
         \/ tick'[d] = [S!NoTick EXCEPT !.pc = "done", !.emitted = n]
  PROVE  TickInv(d)'
<1>1. clock' \in 0..MaxTime BY TimesFact DEF Times, S!Times, Types
<1>2. /\ tick'[d].now = 0 /\ tick'[d].rows = {} /\ tick'[d].pc \in {"idle", "done"}
      /\ tick'[d].emitted \in 0..Cap
  <2>1. CASE tick'[d] = S!NoTick BY <2>1, TimesFact DEF S!NoTick
  <2>2. CASE tick'[d] = [S!NoTick EXCEPT !.pc = "done", !.emitted = n]
    BY <2>2, TimesFact DEF S!NoTick
  <2> QED BY <2>1, <2>2
<1> QED BY <1>1, <1>2, TimesFact DEF TickInv, Carried

LEMMA SchedStays ==
  ASSUME Types, Types', Keeps, NEW s \in Schedules, SchedInv(s), sched'[s] = sched[s],
         \A t \in Times : Emitted(s, t)' => Emitted(s, t)
  PROVE  SchedInv(s)'
<1>1. ASSUME NEW t \in Nat, Due(s, t)' PROVE Follows(s, t)'
  <2>1. Emitted(s, t)' => t \in Times BY TimesFact DEF Emitted
  <2>2. Due(s, t) BY <1>1, <2>1 DEF Due
  <2>3. Due(s, t) => sched[s].added
    BY <2>1, TimesFact DEF Due, SchedInv, Emitted
  <2> QED BY <2>2, <2>3, FollowsStays DEF SchedInv
<1>2. ASSUME NEW t \in Times, Emitted(s, t)' PROVE sched'[s].added /\ t <= clock'
  <2>1. Emitted(s, t) BY <1>2
  <2>2. sched[s].added /\ t <= clock BY <2>1 DEF SchedInv
  <2> QED BY <2>2, TimesFact DEF Keeps, Types
<1>3. Times' = Times BY DEF Times, S!Times
<1> QED BY <1>1, <1>2, <1>3 DEF SchedInv

LEMMA EventStays ==
  ASSUME Keeps, NEW e \in Events, EventInv(e), runs'[e] = runs[e],
         status'[e] = "DONE" => status[e] = "DONE"
  PROVE  EventInv(e)'
BY HandledStays DEF EventInv

LEMMA JobStays ==
  ASSUME Keeps, NEW d \in Daemons, JobInv(d), job'[d] = job[d]
  PROVE  JobInv(d)'
<1>1. Events' = Events BY DEF Events, S!Events, S!Times
<1> QED BY <1>1, HandledStays DEF JobInv

LEMMA JobEnds ==
  ASSUME NEW d \in Daemons, job'[d] = NoJob
  PROVE  JobInv(d)'
BY IntakeAssumption, TimesFact DEF JobInv, NoJob

-----------------------------------------------------------------------------
(* A step that moves neither events nor runs. *)
QueueStill == UNCHANGED <<queueVars, runs, refused, job, faults>>

LEMMA StillEvents ==
  ASSUME IInv, Types', Keeps, UNCHANGED <<status, runs>>
  PROVE  \A e \in Events : EventInv(e)'
BY EventStays DEF IInv

LEMMA StillJobs ==
  ASSUME IInv, Keeps, UNCHANGED job
  PROVE  \A d \in Daemons : JobInv(d)'
BY JobStays DEF IInv

LEMMA StillScheds ==
  ASSUME IInv, Types', Keeps, UNCHANGED <<sched, status>>
  PROVE  \A s \in Schedules : SchedInv(s)'
<1> SUFFICES ASSUME NEW s \in Schedules PROVE SchedInv(s)' OBVIOUS
<1>1. \A t \in Times : Emitted(s, t)' => Emitted(s, t) BY DEF Emitted, Events, S!Events, S!Times
<1> QED BY <1>1, SchedStays DEF IInv

LEMMA OtherTicks ==
  ASSUME IInv, Types', Keeps, NEW d \in Daemons, TickInv(d)',
         \A o \in Daemons \ {d} : tick'[o] = tick[o]
  PROVE  \A o \in Daemons : TickInv(o)'
<1> SUFFICES ASSUME NEW o \in Daemons PROVE TickInv(o)' OBVIOUS
<1>1. CASE o = d BY <1>1
<1>2. CASE o # d BY <1>2, TickStays DEF IInv
<1> QED BY <1>1, <1>2

LEMMA StillTicks ==
  ASSUME IInv, Types', Keeps, UNCHANGED tick
  PROVE  \A o \in Daemons : TickInv(o)'
BY TickStays DEF IInv

LEMMA IInvPrime ==
  ASSUME Types', \A d \in Daemons : TickInv(d)', \A d \in Daemons : JobInv(d)',
         \A s \in Schedules : SchedInv(s)', \A e \in Events : EventInv(e)'
  PROVE  IInv'
<1>1. Events' = Events BY DEF Events, S!Events, S!Times
<1> QED BY <1>1 DEF IInv

-----------------------------------------------------------------------------
LEMMA AddStep ==
  ASSUME IInv, NEW s \in Schedules, Add(s)
  PROVE  IInv'
<1> USE DEF Add, S!Add, queueVars, S!queueVars
<1>1. PICK every \in Intervals \cup {None}, first \in Times :
        sched' = [sched EXCEPT ![s] =
          [on |-> TRUE, first |-> first, every |-> every, next |-> first, added |-> TRUE]]
  BY DEF Times
<1>2. Types'
  <2>1. first \in Nat BY TimesFact
  <2>2. sched' \in [Schedules -> Row] BY <1>1, <2>1 DEF IInv, Types, Row
  <2> QED BY <2>2 DEF IInv, Types, Times, S!Times, Statuses, TickRow, JobRow, Item, Row,
            Events, S!Events
<1>3. Keeps BY <1>1, TimesFact DEF Keeps, IInv, Types
<1>4. ASSUME NEW o \in Schedules PROVE SchedInv(o)'
  <2>1. \A t \in Times : Emitted(o, t)' => Emitted(o, t)
    BY DEF Emitted, Events, S!Events, S!Times
  <2>2. CASE o # s BY <2>1, <2>2, <1>1, <1>2, <1>3, SchedStays DEF IInv, Types
  <2>3. CASE o = s
    <3>1. \A t \in Times : ~Emitted(s, t) BY DEF IInv, SchedInv
    <3>2. \A t \in Nat : ~Emitted(s, t)' BY <3>1, TimesFact DEF Emitted, Events, S!Events, S!Times
    <3>3. sched'[s] =
            [on |-> TRUE, first |-> first, every |-> every, next |-> first, added |-> TRUE]
      BY <1>1 DEF IInv, Types
    <3>4. \A t \in Nat : Due(s, t)' => Follows(s, t)' BY <3>2, <3>3 DEF Due, Follows
    <3> QED BY <2>3, <3>2, <3>3, <3>4, TimesFact DEF SchedInv, Times, S!Times
  <2> QED BY <2>2, <2>3
<1> QED BY <1>2, <1>3, <1>4, StillTicks, StillJobs, StillEvents, IInvPrime

LEMMA AdvanceStep ==
  ASSUME IInv, Advance
  PROVE  IInv'
<1> USE DEF Advance, S!Advance, queueVars, S!queueVars
<1>1. clock \in Int BY TimesFact DEF IInv, Types
<1>2. Types'
  <2>1. clock' \in Times BY <1>1, TimesFact DEF IInv, Types
  <2> QED BY <2>1 DEF IInv, Types, Times, S!Times, Statuses, TickRow, JobRow, Item, Row,
            Events, S!Events
<1>3. Keeps BY <1>1 DEF Keeps
<1> QED BY <1>2, <1>3, StillScheds, StillTicks, StillJobs, StillEvents, IInvPrime

LEMMA BeginStep ==
  ASSUME IInv, NEW d \in Daemons, S!Begin(d), UNCHANGED <<runs, refused, job, faults>>
  PROVE  IInv'
<1> USE DEF S!Begin, queueVars, S!queueVars
<1>1. clock \in Times BY DEF IInv, Types
<1>2. tick'[d] = [S!NoTick EXCEPT !.pc = "select", !.now = clock]
  BY DEF IInv, Types
<1>3. tick' \in [Daemons -> TickRow]
  <2>1. [S!NoTick EXCEPT !.pc = "select", !.now = clock] \in TickRow
    BY <1>1, TimesFact DEF S!NoTick, S!NoItem, TickRow, Item
  <2> QED BY <2>1 DEF IInv, Types
<1>4. Types'
  BY <1>3 DEF IInv, Types, Times, S!Times, Statuses, TickRow, JobRow, Item, Row,
            Events, S!Events
<1>5. Keeps BY <1>1, TimesFact DEF Keeps
<1>6. TickInv(d)'
  <2>1. /\ tick'[d].pc = "select" /\ tick'[d].now = clock /\ tick'[d].rows = {}
        /\ tick'[d].emitted = 0
    BY <1>2 DEF S!NoTick
  <2> QED BY <1>1, <2>1, TimesFact DEF TickInv, Carried
<1>7. \A o \in Daemons \ {d} : tick'[o] = tick[o] BY DEF IInv, Types
<1>8. \A o \in Daemons : TickInv(o)' BY <1>4, <1>5, <1>6, <1>7, OtherTicks
<1> QED BY <1>4, <1>5, <1>8, StillScheds, StillJobs, StillEvents, IInvPrime

(* A tick goes on with rows it may trust, under the clock reading it has.   *)
LEMMA GoesOn ==
  ASSUME IInv, Types', Keeps, NEW d \in Daemons, NEW t \in TickRow, S!GoOn(d, t),
         t.now = tick[d].now, t.emitted <= Cap,
         \A item \in t.rows : Sound(item)' /\ item.next <= t.now
  PROVE  \A o \in Daemons : TickInv(o)'
<1>1. \A o \in Daemons \ {d} : tick'[o] = tick[o] BY DEF S!GoOn, IInv, Types
<1>2. CASE t.rows = {} \/ t.emitted >= Cap
  <2>1. t.emitted \in 0..Cap BY TimesFact DEF TickRow
  <2>2. tick'[d] = [S!NoTick EXCEPT !.pc = "done", !.emitted = t.emitted]
    BY <1>2 DEF S!GoOn, IInv, Types
  <2> QED BY <1>1, <2>1, <2>2, TickEnds, OtherTicks
<1>3. CASE ~(t.rows = {} \/ t.emitted >= Cap)
  <2>1. PICK row \in t.rows :
          tick' = [tick EXCEPT ![d] =
                    [t EXCEPT !.pc = "emit", !.row = row, !.rows = @ \ {row}]]
    BY <1>3 DEF S!GoOn
  <2>2. tick'[d] = [t EXCEPT !.pc = "emit", !.row = row, !.rows = @ \ {row}]
    BY <2>1 DEF IInv, Types
  <2>3. /\ tick'[d].pc = "emit" /\ tick'[d].row = row /\ tick'[d].rows = t.rows \ {row}
        /\ tick'[d].now = t.now /\ tick'[d].emitted = t.emitted
    BY <2>2 DEF TickRow
  <2>4. t.now <= clock'
    BY TimesFact DEF IInv, TickInv, Keeps, Types, TickRow, Times, S!Times
  <2>5. t.emitted < Cap BY <1>3, TimesFact DEF TickRow
  <2>6. \A item \in Item : Carried(d, item)' => Sound(item)' BY <2>3 DEF Carried
  <2>7. TickInv(d)' BY <2>3, <2>4, <2>5, <2>6 DEF TickInv
  <2> QED BY <1>1, <2>7, OtherTicks
<1> QED BY <1>2, <1>3

LEMMA GoOnType ==
  ASSUME Types, NEW d \in Daemons, NEW t \in TickRow, S!GoOn(d, t)
  PROVE  tick' \in [Daemons -> TickRow]
<1>1. CASE t.rows = {} \/ t.emitted >= Cap
  <2>1. [S!NoTick EXCEPT !.pc = "done", !.emitted = t.emitted] \in TickRow
    <3>1. S!NoTick \in TickRow BY TimesFact DEF S!NoTick, S!NoItem, TickRow, Item
    <3>2. t.emitted \in Nat BY DEF TickRow
    <3> QED BY <3>1, <3>2 DEF TickRow
  <2> QED BY <1>1, <2>1 DEF S!GoOn, Types
<1>2. CASE ~(t.rows = {} \/ t.emitted >= Cap)
  <2>1. PICK row \in t.rows :
          tick' = [tick EXCEPT ![d] =
                    [t EXCEPT !.pc = "emit", !.row = row, !.rows = @ \ {row}]]
    BY <1>2 DEF S!GoOn
  <2>2. [t EXCEPT !.pc = "emit", !.row = row, !.rows = @ \ {row}] \in TickRow
    BY DEF TickRow
  <2> QED BY <2>1, <2>2 DEF Types
<1> QED BY <1>1, <1>2

LEMMA SelectStep ==
  ASSUME IInv, NEW d \in Daemons, S!Select(d), UNCHANGED <<runs, refused, job, faults>>
  PROVE  IInv'
<1> USE DEF S!Select, queueVars, S!queueVars
<1> DEFINE due == {s \in Schedules : S!Overdue(s, tick[d].now)}
           t == [tick[d] EXCEPT !.rows = {S!Item(s) : s \in due}]
<1>1. tick[d] \in TickRow BY DEF IInv, Types
<1>2. \A item \in t.rows : item \in Item /\ Sound(item) /\ item.next <= tick[d].now
  <2> SUFFICES ASSUME NEW s \in due
               PROVE  LET item == S!Item(s) IN item \in Item /\ Sound(item) /\ item.next <= tick[d].now
    BY <1>1 DEF TickRow
  <2>1. sched[s] \in Row /\ sched[s].on /\ sched[s].next <= tick[d].now
    BY DEF IInv, Types, S!Overdue
  <2>2. S!Item(s) = [id |-> s, every |-> sched[s].every, next |-> sched[s].next]
    BY DEF S!Item
  <2>3. S!Item(s) \in Item BY <2>1, <2>2 DEF Row, Item
  <2>4. sched[s].added BY <2>1 DEF IInv, SchedInv
  <2>5. Follows(s, sched[s].next) BY <2>1, <2>4 DEF IInv, SchedInv, Due, Row
  <2>6. Sound(S!Item(s)) BY <2>2, <2>4, <2>5 DEF Sound
  <2> QED BY <2>1, <2>2, <2>3, <2>6
<1>3. t \in TickRow /\ t.now = tick[d].now /\ t.emitted = tick[d].emitted
  BY <1>1, <1>2 DEF TickRow
<1>4. S!GoOn(d, t) OBVIOUS
<1> HIDE DEF t
<1>5. Types'
  <2>1. tick' \in [Daemons -> TickRow] BY <1>3, <1>4, GoOnType DEF IInv
  <2> QED BY <2>1 DEF IInv, Types, Times, S!Times, Statuses, TickRow, JobRow, Item, Row,
            Events, S!Events
<1>6. Keeps BY TimesFact DEF Keeps, IInv, Types
<1>7. \A o \in Daemons : TickInv(o)'
  <2>1. \A item \in t.rows : Sound(item)' /\ item.next <= t.now
    BY <1>2, <1>3, <1>6, SoundStays
  <2>2. t.emitted <= Cap BY <1>3 DEF IInv, TickInv
  <2> QED BY <1>3, <1>4, <1>5, <1>6, <2>1, <2>2, GoesOn
<1> QED BY <1>5, <1>6, <1>7, StillScheds, StillJobs, StillEvents, IInvPrime

LEMMA WriteStep ==
  ASSUME IInv, NEW d \in Daemons, S!Write(d), UNCHANGED <<runs, refused, job, faults>>
  PROVE  IInv'
<1> USE DEF S!Write, queueVars, S!queueVars
<1> DEFINE row == tick[d].row
<1>1. tick[d] \in TickRow /\ tick[d].pc = "write" BY DEF IInv, Types, S!At
<1>2. row \in Item /\ Sound(row) BY <1>1 DEF IInv, TickInv, Carried, TickRow
<1>3. PICK s \in Schedules : s = row.id BY <1>2 DEF Sound
<1>4. PICK new \in Row :
        /\ sched' = [sched EXCEPT ![s] = new]
        /\ new.added = sched[s].added /\ new.first = sched[s].first
        /\ new.every = sched[s].every /\ new.next \in {sched[s].next, row.next}
  <2>1. sched[s] \in Row /\ row.next \in Nat BY <1>2 DEF IInv, Types, Item
  <2>2. CASE row.every = None
    <3>1. sched' = [sched EXCEPT ![s] = [sched[s] EXCEPT !.on = FALSE]]
      BY <1>3, <2>2 DEF IInv, Types
    <3>2. [sched[s] EXCEPT !.on = FALSE] \in Row BY <2>1 DEF Row
    <3> QED BY <2>1, <3>1, <3>2 DEF Row
  <2>3. CASE row.every # None
    <3>1. sched' = [sched EXCEPT ![s] = [sched[s] EXCEPT !.next = row.next]]
      BY <1>3, <2>3 DEF IInv, Types
    <3>2. [sched[s] EXCEPT !.next = row.next] \in Row BY <2>1 DEF Row
    <3> QED BY <2>1, <3>1, <3>2 DEF Row
  <2> QED BY <2>2, <2>3
<1>5. Types'
  <2>1. tick' \in [Daemons -> TickRow] BY <1>1, GoOnType DEF IInv
  <2>2. sched' \in [Schedules -> Row] BY <1>4 DEF IInv, Types
  <2> QED BY <2>1, <2>2 DEF IInv, Types, Times, S!Times, Statuses, TickRow, JobRow, Item, Row,
            Events, S!Events
<1>6. sched'[s] = new /\ \A o \in Schedules \ {s} : sched'[o] = sched[o]
  BY <1>4 DEF IInv, Types
<1>7. Keeps
  <2>1. \A o \in Schedules : sched'[o].added = sched[o].added
          /\ sched'[o].first = sched[o].first /\ sched'[o].every = sched[o].every
    BY <1>4, <1>6
  <2>2. clock' = clock /\ clock <= clock BY TimesFact DEF IInv, Types
  <2> QED BY <2>1, <2>2 DEF Keeps
<1>8. \A o \in Daemons : TickInv(o)'
  <2>1. \A item \in tick[d].rows : Sound(item)' /\ item.next <= tick[d].now
    BY <1>1, <1>7, SoundStays DEF IInv, TickInv, Carried, TickRow
  <2>2. tick[d].emitted <= Cap BY DEF IInv, TickInv
  <2> QED BY <1>1, <1>5, <1>7, <2>1, <2>2, GoesOn
<1>9. ASSUME NEW o \in Schedules PROVE SchedInv(o)'
  <2>1. \A t : Emitted(o, t)' => Emitted(o, t)
    BY DEF Emitted, Events, S!Events, S!Times
  <2>2. CASE o # s BY <2>1, <2>2, <1>5, <1>6, <1>7, SchedStays DEF IInv
  <2>3. CASE o = s
    <3>1. sched[s].added /\ Follows(s, row.next) BY <1>2, <1>3 DEF Sound
    <3>2. ASSUME NEW t \in Nat, Due(s, t)' PROVE Follows(s, t)'
      <4>1. Due(s, t) \/ t = row.next BY <2>1, <2>3, <1>4, <1>6, <3>1, <3>2 DEF Due
      <4>2. Follows(s, t) BY <3>1, <4>1 DEF IInv, SchedInv
      <4> QED BY <1>7, <3>1, <4>2, FollowsStays
    <3>3. sched'[s].added BY <1>4, <1>6, <3>1
    <3>4. \A t \in Times : Emitted(s, t)' => t <= clock'
      BY <2>1, <2>3 DEF IInv, SchedInv
    <3>5. Times' = Times BY DEF Times, S!Times
    <3> QED BY <2>3, <3>2, <3>3, <3>4, <3>5 DEF SchedInv
  <2> QED BY <2>2, <2>3
<1> QED BY <1>5, <1>7, <1>8, <1>9, StillJobs, StillEvents, IInvPrime

LEMMA EmitStep ==
  ASSUME IInv, NEW d \in Daemons, S!Emit(d), UNCHANGED <<runs, refused, job, faults>>
  PROVE  IInv'
<1>r. PICK row : row = tick[d].row OBVIOUS
<1> DEFINE s == row.id
           e == <<s, row.next>>
           next == IF row.every = None THEN row.next ELSE row.next + row.every
           more == row.every # None /\ S!Room(next, tick[d].now, tick[d].emitted + 1)
<1>1. tick[d] \in TickRow /\ tick[d].pc = "emit" BY DEF IInv, Types, S!Emit, S!At
<1>2. row \in Item /\ Sound(row) BY <1>r, <1>1 DEF IInv, TickInv, Carried, TickRow
<1>3. /\ row.next \in Nat /\ row.next <= tick[d].now /\ tick[d].now \in 0..MaxTime
      /\ tick[d].now <= clock /\ clock \in 0..MaxTime
      /\ tick[d].emitted \in Nat /\ tick[d].emitted < Cap
      /\ row.every \in Intervals \cup {None}
  BY <1>r, <1>1, <1>2, TimesFact DEF IInv, TickInv, TickRow, Item, Types
<1>4. row.next \in Times /\ row.next <= clock BY <1>3, TimesFact
<1>5. s \in Schedules /\ sched[s].added /\ row.every = sched[s].every /\ Follows(s, row.next)
  BY <1>2 DEF Sound
<1>6. e \in Events BY <1>4, <1>5, TimesFact
<1>7. UNCHANGED <<clock, sched, owner, lapsed>>
      /\ status' = [status EXCEPT ![e] = IF @ = "ABSENT" THEN "PENDING" ELSE @]
  BY <1>r DEF S!Emit, S!Q!Enqueue, S!EventOf
<1>8. tick' = [tick EXCEPT ![d].pc = IF more THEN "emit" ELSE "write",
                           ![d].row.next = next, ![d].emitted = tick[d].emitted + 1]
  BY <1>r DEF S!Emit, S!Following
<1>9. next \in Nat /\ (row.every # None => next - row.every = row.next)
  <2>1. CASE row.every = None BY <1>3, <2>1
  <2>2. CASE row.every # None
    <3>1. row.every \in Nat /\ next = row.next + row.every BY <1>3, <2>2, TimesFact
    <3> QED BY <1>3, <3>1
  <2> QED BY <2>1, <2>2
<1>10. more => next <= tick[d].now /\ tick[d].emitted + 1 < Cap BY DEF S!Room
<1> HIDE DEF next, more
<1>11. tick'[d] = [tick[d] EXCEPT !.pc = IF more THEN "emit" ELSE "write",
         !.row = [row EXCEPT !.next = next], !.emitted = tick[d].emitted + 1]
       /\ \A o \in Daemons \ {d} : tick'[o] = tick[o]
  BY <1>r, <1>1, <1>8 DEF IInv, Types, TickRow
<1>12. Types'
  <2>1. [row EXCEPT !.next = next] \in Item BY <1>2, <1>9 DEF Item
  <2>2. tick'[d] \in TickRow
    <3>1. (IF more THEN "emit" ELSE "write") \in {"idle", "select", "emit", "write", "done"}
      OBVIOUS
    <3>2. tick[d].emitted + 1 \in Nat BY <1>3
    <3> QED BY <1>1, <1>11, <2>1, <3>1, <3>2 DEF TickRow
  <2>3. tick' \in [Daemons -> TickRow] BY <1>8, <1>11, <2>2 DEF IInv, Types
  <2>4. status' \in [Events -> Statuses] BY <1>6, <1>7 DEF IInv, Types, Statuses
  <2> QED BY <1>7, <2>3, <2>4 DEF IInv, Types, Times, S!Times, Statuses, TickRow, JobRow, Item,
            Row, Events, S!Events
<1>13. /\ status'[e] # "ABSENT"
       /\ \A o \in Events \ {e} : status'[o] = status[o]
       /\ \A o \in Events : status[o] # "ABSENT" => status'[o] = status[o]
       /\ status'[e] = "DONE" => status[e] = "DONE"
  BY <1>6, <1>7 DEF IInv, Types, Statuses
<1>14. Keeps BY <1>3, <1>7, <1>13 DEF Keeps
<1>15. Emitted(s, row.next)' BY <1>6, <1>13 DEF Emitted, Events, S!Events, S!Times
<1> HIDE DEF e
<1>16. TickInv(d)'
  <2>1. /\ tick'[d].now = tick[d].now /\ tick'[d].rows = tick[d].rows
        /\ tick'[d].row = [row EXCEPT !.next = next]
        /\ tick'[d].emitted = tick[d].emitted + 1
        /\ tick'[d].pc = "emit" => more
    BY <1>1, <1>11 DEF TickRow
  <2>2. /\ tick'[d].row.id = s /\ tick'[d].row.every = row.every
        /\ tick'[d].row.next = next
    BY <1>2, <2>1 DEF Item
  <2>3. Follows(s, next)'
    <3>1. CASE row.every = None
      BY <1>5, <1>14, <3>1, FollowsStays DEF next
    <3>2. CASE row.every # None
      <4>1. sched'[s].every = row.every BY <1>5, <1>7
      <4> QED BY <1>9, <1>15, <3>2, <4>1 DEF Follows
    <3> QED BY <3>1, <3>2
  <2>4. ASSUME NEW item \in Item, Carried(d, item)' PROVE Sound(item)'
    <3>1. CASE item \in tick[d].rows
      BY <1>14, <3>1, SoundStays DEF IInv, TickInv, Carried
    <3>2. CASE item = tick'[d].row
      <4>1. item.id = s /\ item.every = row.every /\ item.next = next BY <2>2, <3>2
      <4> QED BY <1>5, <1>7, <2>3, <4>1 DEF Sound
    <3> QED BY <2>1, <2>4, <3>1, <3>2 DEF Carried
  <2>5. \A item \in tick'[d].rows : item.next <= tick'[d].now BY <2>1 DEF IInv, TickInv
  <2>6. tick'[d].now <= clock' BY <1>3, <1>7, <2>1
  <2>7. tick'[d].emitted <= Cap BY <1>3, <2>1, TimesFact
  <2>8. tick'[d].pc = "emit" => tick'[d].row.next <= tick'[d].now /\ tick'[d].emitted < Cap
    BY <1>10, <2>1, <2>2
  <2> QED BY <2>4, <2>5, <2>6, <2>7, <2>8 DEF TickInv
<1>17. \A o \in Daemons : TickInv(o)' BY <1>11, <1>12, <1>14, <1>16, OtherTicks
<1>18. ASSUME NEW o \in Schedules PROVE SchedInv(o)'
  <2>1. ASSUME NEW t, Emitted(o, t)' PROVE Emitted(o, t) \/ (o = s /\ t = row.next)
    BY <1>13, <2>1 DEF Emitted, Events, S!Events, S!Times, e
  <2>2. \A t \in Nat : Due(o, t)' => Follows(o, t)'
    <3>1. SUFFICES ASSUME NEW t \in Nat, Due(o, t)' PROVE Follows(o, t)' OBVIOUS
    <3>2. Due(o, t) \/ (o = s /\ t = row.next) BY <1>7, <2>1, <3>1 DEF Due
    <3>3. sched[o].added /\ Follows(o, t)
      BY <1>5, <3>2, TimesFact DEF Due, IInv, SchedInv, Emitted
    <3> QED BY <1>14, <3>3, FollowsStays
  <2>3. \A t \in Times : Emitted(o, t)' => sched'[o].added /\ t <= clock'
    BY <1>4, <1>5, <1>7, <2>1 DEF IInv, SchedInv
  <2>4. Times' = Times BY DEF Times, S!Times
  <2> QED BY <1>7, <2>2, <2>3, <2>4 DEF IInv, SchedInv
<1>19. ASSUME NEW o \in Events PROVE EventInv(o)'
  BY <1>13, <1>14, EventStays DEF IInv
<1> QED BY <1>12, <1>14, <1>17, <1>18, <1>19, StillJobs, IInvPrime

LEMMA TickStep ==
  ASSUME IInv, NEW d \in Daemons, Tick(d)
  PROVE  IInv'
BY BeginStep, SelectStep, EmitStep, WriteStep DEF Tick, S!Tick

-----------------------------------------------------------------------------
(* The cycle of d ends.                                                     *)
LEMMA CycleEnds ==
  ASSUME IInv, Types', Keeps, NEW d \in Daemons, EndCycle(d)
  PROVE  /\ \A o \in Daemons : TickInv(o)'
         /\ \A o \in Daemons : JobInv(o)'
<1>1. /\ tick'[d] = S!NoTick /\ job'[d] = NoJob
      /\ \A o \in Daemons \ {d} : tick'[o] = tick[o] /\ job'[o] = job[o]
  BY DEF EndCycle, IInv, Types
<1>2. TickInv(d)'
  <2>1. 0 \in 0..Cap BY TimesFact
  <2> QED BY <1>1, <2>1, TickEnds
<1>3. ASSUME NEW o \in Daemons PROVE JobInv(o)'
  <2>1. CASE o = d BY <1>1, <2>1, JobEnds
  <2>2. CASE o # d BY <1>1, <2>2, JobStays DEF IInv
  <2> QED BY <2>1, <2>2
<1> QED BY <1>1, <1>2, <1>3, OtherTicks

LEMMA EndTypes ==
  ASSUME Types, NEW d \in Daemons, EndCycle(d)
  PROVE  tick' \in [Daemons -> TickRow] /\ job' \in [Daemons -> JobRow]
<1>1. S!NoTick \in TickRow BY TimesFact DEF S!NoTick, S!NoItem, TickRow, Item
<1>2. NoJob \in JobRow BY DEF NoJob, JobRow
<1> QED BY <1>1, <1>2 DEF EndCycle, Types

(* Only the job of d moves, to a place it may be in.                        *)
LEMMA OtherJobs ==
  ASSUME IInv, Keeps, NEW d \in Daemons, JobInv(d)',
         \A o \in Daemons \ {d} : job'[o] = job[o]
  PROVE  \A o \in Daemons : JobInv(o)'
<1> SUFFICES ASSUME NEW o \in Daemons PROVE JobInv(o)' OBVIOUS
<1>1. CASE o = d BY <1>1
<1>2. CASE o # d BY <1>2, JobStays DEF IInv
<1> QED BY <1>1, <1>2

LEMMA EventKinds ==
  ASSUME NEW e \in Events
  PROVE  /\ e[1] \in Schedules
         /\ e[1] \in Valid \/ e[1] \in Malformed \/ e[1] \in Foreign
         /\ ~(e[1] \in Valid /\ e[1] \in Malformed)
<1>1. e[1] \in Schedules BY TimesFact
<1>2. Schedules = Valid \cup Malformed \cup Foreign BY IntakeAssumption
<1>3. Valid \cap Malformed = {} BY IntakeAssumption
<1> QED BY <1>1, <1>2, <1>3

LEMMA ClaimStep ==
  ASSUME IInv, NEW d \in Daemons, NEW e \in Events, Claim(d, e)
  PROVE  IInv'
<1> USE DEF Claim, Q!Claim
<1>1. status' = [status EXCEPT ![e] = "CLAIMED"] /\ status[e] \in {"PENDING", "CLAIMED"}
  BY DEF Q!Claimable
<1>2. Branch(e) \in {"create", "reject", "ack"}
      /\ (Branch(e) = "create" => e[1] \in Valid)
      /\ (Branch(e) = "reject" => e[1] \in Malformed)
      /\ (Branch(e) = "ack" => e[1] \in Foreign)
  BY EventKinds DEF Branch
<1>3. job'[d] = [pc |-> Branch(e), event |-> e]
      /\ \A o \in Daemons \ {d} : job'[o] = job[o]
  BY DEF IInv, Types
<1>4. Types'
  <2>1. job' \in [Daemons -> JobRow] BY <1>2, <1>3 DEF IInv, Types, JobRow
  <2>2. status' \in [Events -> Statuses] BY <1>1 DEF IInv, Types, Statuses
  <2>3. owner' \in [Events -> Daemons \cup {None}] /\ lapsed' \in [Events -> BOOLEAN]
    BY DEF IInv, Types
  <2> QED BY <2>1, <2>2, <2>3 DEF IInv, Types, Times, S!Times, Statuses, TickRow, JobRow, Item,
            Row, Events, S!Events
<1>5. Keeps BY <1>1, TimesFact DEF Keeps, IInv, Types
<1>6. JobInv(d)'
  <2>1. Events' = Events BY DEF Events, S!Events, S!Times
  <2>2. Branch(e) = "ack" => Handled(e)'
    <3>1. e[1] \in Foreign => e[1] \notin Valid /\ e[1] \notin Malformed
      BY IntakeAssumption
    <3> QED BY <1>2, <3>1 DEF Handled
  <2> QED BY <1>2, <1>3, <2>1, <2>2 DEF JobInv
<1>7. \A o \in Daemons : JobInv(o)' BY <1>3, <1>5, <1>6, OtherJobs
<1>8. ASSUME NEW o \in Events PROVE EventInv(o)'
  <2>1. status'[o] = "DONE" => status[o] = "DONE" BY <1>1 DEF IInv, Types
  <2> QED BY <1>5, <2>1, EventStays DEF IInv
<1>9. ASSUME NEW s \in Schedules PROVE SchedInv(s)'
  <2>1. \A t \in Times : Emitted(s, t)' => Emitted(s, t)
    BY <1>1 DEF Emitted, Events, S!Events, S!Times, IInv, Types
  <2> QED BY <1>4, <1>5, <2>1, SchedStays DEF IInv
<1> QED BY <1>4, <1>5, <1>7, <1>8, <1>9, StillTicks, IInvPrime

LEMMA NothingDueStep ==
  ASSUME IInv, NEW d \in Daemons, EndCycle(d), UNCHANGED tableVars, faults' \in Nat
  PROVE  IInv'
<1> USE DEF tableVars, queueVars
<1>1. Types'
  BY EndTypes DEF IInv, Types, Times, S!Times, Statuses, TickRow, JobRow, Item, Row, Events, S!Events
<1>2. Keeps BY TimesFact DEF Keeps, IInv, Types
<1> QED BY <1>1, <1>2, CycleEnds, StillScheds, StillEvents, IInvPrime

LEMMA CreateStep ==
  ASSUME IInv, NEW d \in Daemons, Create(d)
  PROVE  IInv'
<1> USE DEF Create, queueVars, At, Go
<1>1. PICK e \in Events : job[d].event = e BY DEF IInv, JobInv
<1>2. e[1] \in Valid BY <1>1 DEF IInv, JobInv
<1>3. runs' = [runs EXCEPT ![e] = 1]
  <2>1. runs[e] \in 0..1 BY DEF IInv, Types
  <2>2. RunsAfter(runs[e]) = 1 BY <2>1 DEF RunsAfter
  <2> QED BY <1>1, <2>2 DEF IInv, Types
<1>4. /\ job'[d] = [job[d] EXCEPT !.pc = "ack"]
      /\ \A o \in Daemons \ {d} : job'[o] = job[o]
  BY DEF IInv, Types
<1>5. job[d] \in JobRow BY DEF IInv, Types
<1>6. Types'
  <2>1. job' \in [Daemons -> JobRow] BY <1>4, <1>5 DEF IInv, Types, JobRow
  <2>2. runs' \in [Events -> 0..1]
    <3>1. 1 \in 0..1 OBVIOUS
    <3> QED BY <1>3, <3>1 DEF IInv, Types
  <2> QED BY <2>1, <2>2 DEF IInv, Types, Times, S!Times, Statuses, TickRow, JobRow, Item,
            Row, Events, S!Events
<1>7. Keeps BY <1>3, TimesFact DEF Keeps, IInv, Types
<1>8. Handled(e)' BY <1>2, <1>3, EventKinds DEF Handled, IInv, Types
<1>9. JobInv(d)'
  <2>1. job'[d].pc = "ack" /\ job'[d].event = e BY <1>1, <1>4, <1>5 DEF JobRow
  <2>2. Events' = Events BY DEF Events, S!Events, S!Times
  <2> QED BY <1>8, <2>1, <2>2 DEF JobInv
<1>10. \A o \in Daemons : JobInv(o)' BY <1>4, <1>7, <1>9, OtherJobs
<1>11. ASSUME NEW o \in Events PROVE EventInv(o)'
  <2>1. CASE o = e BY <1>2, <1>8, <2>1 DEF EventInv
  <2>2. CASE o # e
    <3>1. runs'[o] = runs[o] BY <1>3, <2>2 DEF IInv, Types
    <3> QED BY <1>7, <3>1, EventStays DEF IInv
  <2> QED BY <2>1, <2>2
<1> QED BY <1>6, <1>7, <1>10, <1>11, StillTicks, StillScheds, IInvPrime

LEMMA RejectStep ==
  ASSUME IInv, NEW d \in Daemons, Reject(d)
  PROVE  IInv'
<1> USE DEF Reject, queueVars, At, Go
<1>1. PICK e \in Events : job[d].event = e BY DEF IInv, JobInv
<1>2. e[1] \in Malformed BY <1>1 DEF IInv, JobInv
<1>3. refused' = [refused EXCEPT ![e] = TRUE] BY <1>1
<1>4. /\ job'[d] = [job[d] EXCEPT !.pc = "ack"]
      /\ \A o \in Daemons \ {d} : job'[o] = job[o]
  BY DEF IInv, Types
<1>5. job[d] \in JobRow BY DEF IInv, Types
<1>6. Types'
  <2>1. job' \in [Daemons -> JobRow] BY <1>4, <1>5 DEF IInv, Types, JobRow
  <2>2. refused' \in [Events -> BOOLEAN] BY <1>3 DEF IInv, Types
  <2> QED BY <2>1, <2>2 DEF IInv, Types, Times, S!Times, Statuses, TickRow, JobRow, Item,
            Row, Events, S!Events
<1>7. Keeps
  <2>1. \A o \in Events : refused[o] => refused'[o] BY <1>3 DEF IInv, Types
  <2> QED BY <2>1, TimesFact DEF Keeps, IInv, Types
<1>8. Handled(e)'
  <2>1. refused'[e] BY <1>3 DEF IInv, Types
  <2> QED BY <1>2, <2>1, EventKinds DEF Handled
<1>9. JobInv(d)'
  <2>1. job'[d].pc = "ack" /\ job'[d].event = e BY <1>1, <1>4, <1>5 DEF JobRow
  <2>2. Events' = Events BY DEF Events, S!Events, S!Times
  <2> QED BY <1>8, <2>1, <2>2 DEF JobInv
<1>10. \A o \in Daemons : JobInv(o)' BY <1>4, <1>7, <1>9, OtherJobs
<1> QED BY <1>6, <1>7, <1>10, StillTicks, StillScheds, StillEvents, IInvPrime

LEMMA AckStep ==
  ASSUME IInv, NEW d \in Daemons, Ack(d)
  PROVE  IInv'
<1> USE DEF Ack, queueVars, At
<1>1. PICK e \in Events : job[d].event = e BY DEF IInv, JobInv
<1>2. Handled(e) BY <1>1 DEF IInv, JobInv
<1>3. \/ UNCHANGED queueVars
      \/ /\ status[e] = "CLAIMED" /\ status' = [status EXCEPT ![e] = "DONE"]
         /\ owner' = [owner EXCEPT ![e] = None] /\ lapsed' = [lapsed EXCEPT ![e] = FALSE]
  BY <1>1 DEF Q!Ack, Q!Owns, Q!Settle
<1>4. Types'
  <2>1. status' \in [Events -> Statuses] BY <1>3 DEF IInv, Types, Statuses
  <2>2. owner' \in [Events -> Daemons \cup {None}] BY <1>3 DEF IInv, Types
  <2>3. lapsed' \in [Events -> BOOLEAN] BY <1>3 DEF IInv, Types
  <2>4. tick' \in [Daemons -> TickRow] /\ job' \in [Daemons -> JobRow] BY EndTypes DEF IInv
  <2> QED BY <2>1, <2>2, <2>3, <2>4 DEF IInv, Types, Times, S!Times, Statuses, TickRow, JobRow,
            Item, Row, Events, S!Events
<1>5. Keeps BY <1>3, TimesFact DEF Keeps, IInv, Types
<1>6. ASSUME NEW o \in Events PROVE EventInv(o)'
  <2>1. CASE o = e BY <1>2, <1>5, <2>1, HandledStays DEF IInv, EventInv
  <2>2. CASE o # e
    <3>1. status'[o] = status[o] BY <1>3, <2>2 DEF IInv, Types
    <3> QED BY <1>5, <3>1, EventStays DEF IInv
  <2> QED BY <2>1, <2>2
<1>7. ASSUME NEW s \in Schedules PROVE SchedInv(s)'
  <2>1. \A t \in Times : Emitted(s, t)' => Emitted(s, t)
    BY <1>3 DEF Emitted, Events, S!Events, S!Times, IInv, Types
  <2> QED BY <1>4, <1>5, <2>1, SchedStays DEF IInv
<1> QED BY <1>4, <1>5, <1>6, <1>7, CycleEnds, IInvPrime

LEMMA LapseStep ==
  ASSUME IInv, NEW e \in Events, Lapse(e)
  PROVE  IInv'
<1> USE DEF Lapse, Q!Lapse
<1>1. faults' \in Nat BY DEF Spend, IInv, Types
<1>2. lapsed' \in [Events -> BOOLEAN] BY DEF IInv, Types
<1>3. Types'
  BY <1>1, <1>2 DEF IInv, Types, Times, S!Times, Statuses, TickRow, JobRow, Item, Row,
     Events, S!Events
<1>4. Keeps BY TimesFact DEF Keeps, IInv, Types
<1> QED BY <1>3, <1>4, StillTicks, StillJobs, StillScheds, StillEvents, IInvPrime

LEMMA InitInv == Init => IInv
<1> SUFFICES ASSUME Init PROVE IInv OBVIOUS
<1> USE DEF Init, S!Init, S!Q!Init
<1>1. Types
  <2>1. S!NoRow \in Row BY DEF S!NoRow, Row
  <2>2. S!NoTick \in TickRow BY TimesFact DEF S!NoTick, S!NoItem, TickRow, Item
  <2>3. NoJob \in JobRow BY DEF NoJob, JobRow
  <2>4. clock \in Times BY TimesFact
  <2>5. status \in [Events -> Statuses] /\ owner \in [Events -> Daemons \cup {None}]
        /\ lapsed \in [Events -> BOOLEAN]
    BY DEF Events, Statuses
  <2> QED BY <2>1, <2>2, <2>3, <2>4, <2>5 DEF Types
<1>2. ASSUME NEW d \in Daemons PROVE TickInv(d)
  <2>1. /\ tick[d].now = 0 /\ tick[d].rows = {} /\ tick[d].pc = "idle"
        /\ tick[d].emitted = 0 /\ clock = 0
    BY DEF S!NoTick
  <2> QED BY <2>1, TimesFact DEF TickInv, Carried
<1>3. ASSUME NEW d \in Daemons PROVE JobInv(d)
  <2>1. job[d] = NoJob OBVIOUS
  <2> QED BY <2>1 DEF JobInv, NoJob
<1>4. ASSUME NEW s \in Schedules PROVE SchedInv(s)
  <2>1. ~sched[s].added /\ ~sched[s].on BY DEF S!NoRow
  <2>2. \A t : ~Emitted(s, t) BY DEF Emitted, Events
  <2> QED BY <2>1, <2>2 DEF SchedInv, Due
<1>5. ASSUME NEW e \in Events PROVE EventInv(e) BY DEF EventInv, Events
<1> QED BY <1>1, <1>2, <1>3, <1>4, <1>5 DEF IInv

LEMMA NextInv == IInv /\ [Next]_vars => IInv'
<1> SUFFICES ASSUME IInv, [Next]_vars PROVE IInv' OBVIOUS
<1>1. CASE \E s \in Schedules : Add(s) BY <1>1, AddStep
<1>2. ASSUME NEW d \in Daemons, Cycle(d) PROVE IInv'
  <2>1. CASE Tick(d) BY <2>1, TickStep
  <2>2. CASE NothingDue(d)
    BY <2>2, NothingDueStep DEF NothingDue, IInv, Types
  <2>3. CASE Create(d) BY <2>3, CreateStep
  <2>4. CASE Reject(d) BY <2>4, RejectStep
  <2>5. CASE Ack(d) BY <2>5, AckStep
  <2> QED BY <1>2, <2>1, <2>2, <2>3, <2>4, <2>5 DEF Cycle
<1>3. ASSUME NEW d \in Daemons, Abandon(d) PROVE IInv'
  <2>1. faults' \in Nat BY <1>3 DEF Abandon, Spend, IInv, Types
  <2> QED BY <1>3, <2>1, NothingDueStep DEF Abandon
<1>4. CASE \E d \in Daemons, e \in Events : Claim(d, e) BY <1>4, ClaimStep
<1>5. CASE \E e \in Events : Lapse(e) BY <1>5, LapseStep
<1>6. CASE Advance BY <1>6, AdvanceStep
<1>7. CASE UNCHANGED vars
  BY <1>7 DEF vars, tableVars, queueVars, IInv, Types, TickInv, Carried, Sound, Follows, Emitted,
     JobInv, Handled, SchedInv, Due, EventInv, Times, S!Times, Statuses, TickRow, JobRow, Item,
     Row, Events, S!Events
<1> QED BY <1>1, <1>2, <1>3, <1>4, <1>5, <1>6, <1>7 DEF Next

(* The strengthened invariant: what ticks carry, what jobs have done.       *)
THEOREM InvHolds == Spec => []IInv
BY InitInv, NextInv, PTL DEF Spec

(* Tables and daemons keep their shape, no event gets a second run, and no  *)
(* tick emits more than max_occurrences events.                             *)
THEOREM TypeCorrect == Spec => []TypeOK
<1>1. IInv => TypeOK
  <2> SUFFICES ASSUME IInv PROVE TypeOK OBVIOUS
  <2>1. ASSUME NEW d \in Daemons PROVE tick[d].emitted \in 0..Cap
    BY TimesFact DEF IInv, Types, TickRow, TickInv
  <2>2. tick \in [Daemons -> [pc : {"idle", "select", "emit", "write", "done"},
                             now : Times, rows : SUBSET Item, row : Item, emitted : 0..Cap]]
    BY <2>1 DEF IInv, Types, TickRow
  <2> QED BY <2>2 DEF IInv, Types, TypeOK, Times, Statuses, JobRow, Q!TypeOK, Events
<1> QED BY <1>1, InvHolds, PTL

(* However ticks overlap, stall and die, the occurrences of a schedule      *)
(* follow one another from first_at without a gap, and none is early.       *)
THEOREM NoOccurrenceLost == Spec => []NoneForgotten
<1>1. IInv => NoneForgotten
  <2> SUFFICES ASSUME IInv, NEW s \in Schedules, sched[s].added
               PROVE  /\ Follows(s, sched[s].next)
                      /\ \A t \in Times : Emitted(s, t) => t <= clock /\ Follows(s, t)
    BY DEF NoneForgotten, Times
  <2>1. sched[s].next \in Nat BY DEF IInv, Types, Row
  <2>2. \A t \in Times : t \in Nat BY TimesFact
  <2> QED BY <2>1, <2>2 DEF IInv, SchedInv, Due
<1> QED BY <1>1, InvHolds, PTL

(* An acknowledged request has its one run or its rejection, whichever      *)
(* daemon made it and whoever acknowledged.                                 *)
THEOREM SettledIsHandled == Spec => []SettledMeansHandled
<1>1. IInv => SettledMeansHandled
  <2> SUFFICES ASSUME IInv, NEW e \in Events
               PROVE  /\ runs[e] <= (IF e[1] \in Valid THEN 1 ELSE 0)
                      /\ status[e] = "DONE" =>
                           /\ e[1] \in Valid => runs[e] = 1
                           /\ e[1] \in Malformed => refused[e]
    BY DEF SettledMeansHandled
  <2>1. runs[e] \in 0..1 BY DEF IInv, Types
  <2> QED BY <2>1 DEF IInv, EventInv, Handled
<1> QED BY <1>1, InvHolds, PTL

-----------------------------------------------------------------------------
(* An event that a daemon works on, or that has a run, has its row.         *)
Present ==
  /\ \A d \in Daemons : job[d].pc # "none" => status[job[d].event] # "ABSENT"
  /\ \A e \in Events : runs[e] = 1 => status[e] # "ABSENT"

LEMMA RowsRemain ==
  ASSUME IInv, Next, NEW e \in Events, status[e] # "ABSENT"
  PROVE  status'[e] # "ABSENT"
<1> USE DEF IInv, Types
<1>1. ASSUME NEW s \in Schedules, Add(s) PROVE status'[e] # "ABSENT"
  BY <1>1 DEF Add, S!Add, S!queueVars
<1>2. ASSUME NEW d \in Daemons, Tick(d) PROVE status'[e] # "ABSENT"
  BY <1>2 DEF Tick, S!Tick, S!Begin, S!Select, S!Emit, S!Write, S!queueVars, S!Q!Enqueue
<1>3. ASSUME NEW d \in Daemons, NothingDue(d) \/ Create(d) \/ Reject(d) \/ Abandon(d)
      PROVE  status'[e] # "ABSENT"
  BY <1>3 DEF NothingDue, Create, Reject, Abandon, tableVars, queueVars
<1>4. ASSUME NEW d \in Daemons, Ack(d) PROVE status'[e] # "ABSENT"
  BY <1>4 DEF Ack, Q!Ack, Q!Settle, queueVars
<1>5. ASSUME NEW d \in Daemons, NEW f \in Events, Claim(d, f) PROVE status'[e] # "ABSENT"
  BY <1>5 DEF Claim, Q!Claim
<1>6. ASSUME NEW f \in Events, Lapse(f) PROVE status'[e] # "ABSENT" BY <1>6 DEF Lapse, Q!Lapse
<1>7. CASE Advance BY <1>7 DEF Advance, S!Advance, S!queueVars
<1> QED BY <1>1, <1>2, <1>3, <1>4, <1>5, <1>6, <1>7 DEF Next, Cycle

LEMMA PresentNext == IInv /\ Present /\ [Next]_vars => Present'
<1> SUFFICES ASSUME IInv, Present, Next PROVE Present'
  BY DEF vars, tableVars, queueVars, Present
<1> USE DEF IInv, Types
<1>1. ASSUME NEW d \in Daemons, job'[d].pc # "none", job'[d].event = job[d].event,
             job[d].pc # "none"
      PROVE  status'[job'[d].event] # "ABSENT"
  BY <1>1, RowsRemain DEF Present, JobInv
<1>2. ASSUME NEW e \in Events, runs[e] = 1 PROVE status'[e] # "ABSENT"
  BY <1>2, RowsRemain DEF Present
<1>3. CASE UNCHANGED <<job, runs>>
  BY <1>1, <1>2, <1>3 DEF Present
<1>4. ASSUME NEW d \in Daemons, Create(d) \/ Reject(d) PROVE Present'
  <2>1. job[d].event \in Events /\ status[job[d].event] # "ABSENT"
    BY <1>4 DEF Create, Reject, At, Present, JobInv
  <2>2. status'[job[d].event] # "ABSENT" BY <2>1, RowsRemain
  <2>3. ASSUME NEW e \in Events, runs'[e] = 1 PROVE status'[e] # "ABSENT"
    BY <1>2, <1>4, <2>2, <2>3 DEF Create, Reject
  <2>4. ASSUME NEW c \in Daemons, job'[c].pc # "none" PROVE status'[job'[c].event] # "ABSENT"
    <3>1. job'[c].event = job[c].event /\ job[c].pc # "none"
      BY <1>4, <2>4 DEF Create, Reject, Go, At, JobRow
    <3> QED BY <1>1, <2>4, <3>1
  <2> QED BY <2>3, <2>4 DEF Present
<1>5. ASSUME NEW d \in Daemons, EndCycle(d), UNCHANGED runs PROVE Present'
  <2>1. ASSUME NEW c \in Daemons, job'[c].pc # "none" PROVE status'[job'[c].event] # "ABSENT"
    <3>1. job'[c] = job[c] BY <1>5, <2>1 DEF EndCycle, NoJob
    <3> QED BY <1>1, <2>1, <3>1
  <2> QED BY <1>2, <1>5, <2>1 DEF Present
<1>6. ASSUME NEW d \in Daemons, NEW f \in Events, Claim(d, f) PROVE Present'
  <2>1. status'[f] = "CLAIMED" BY <1>6 DEF Claim, Q!Claim
  <2>2. ASSUME NEW c \in Daemons, job'[c].pc # "none" PROVE status'[job'[c].event] # "ABSENT"
    <3>1. CASE c = d BY <1>6, <2>1, <3>1 DEF Claim
    <3>2. CASE c # d
      <4>1. job'[c] = job[c] BY <1>6, <3>2 DEF Claim
      <4> QED BY <1>1, <2>2, <4>1
    <3> QED BY <3>1, <3>2
  <2>3. runs' = runs BY <1>6 DEF Claim
  <2> QED BY <1>2, <2>2, <2>3 DEF Present
<1>7. Next =>
        \/ UNCHANGED <<job, runs>>
        \/ \E d \in Daemons : Create(d) \/ Reject(d) \/ (EndCycle(d) /\ UNCHANGED runs)
                              \/ \E f \in Events : Claim(d, f)
  BY DEF Next, Cycle, Add, Tick, NothingDue, Ack, Abandon, Lapse, Advance, tableVars
<1> QED BY <1>3, <1>4, <1>5, <1>6, <1>7

-----------------------------------------------------------------------------
(* Every step is one of the contract's, or none.                            *)
LEMMA ContractSets ==
  Contract!Times = Times /\ Contract!Events = Events /\ Events = Schedules \X Times
BY DEF Contract!Times, Contract!Events, Times, Events, S!Times, S!Events

LEMMA PhaseIs ==
  ASSUME Types, NEW e \in Events
  PROVE  /\ phase[e] = PhaseOf(e)
         /\ status[e] = "ABSENT" => PhaseOf(e) = "none"
         /\ status[e] # "ABSENT" /\ runs[e] = 1 => PhaseOf(e) = "run"
         /\ status[e] = "DONE" /\ runs[e] = 0 => PhaseOf(e) = "closed"
         /\ status[e] \in {"PENDING", "CLAIMED"} /\ runs[e] = 0 => PhaseOf(e) = "open"
         /\ runs[e] \in 0..1 /\ status[e] \in Statuses
<1>1. runs[e] \in 0..1 /\ status[e] \in Statuses BY DEF Types
<1>2. phase[e] = PhaseOf(e) BY DEF phase
<1>3. CASE status[e] = "ABSENT" BY <1>1, <1>2, <1>3 DEF PhaseOf
<1>4. CASE status[e] # "ABSENT" /\ runs[e] = 1 BY <1>1, <1>2, <1>4 DEF PhaseOf
<1>5. CASE status[e] # "ABSENT" /\ runs[e] = 0 BY <1>1, <1>2, <1>5 DEF PhaseOf, Statuses
<1> QED BY <1>1, <1>3, <1>4, <1>5

(* Only what changes in the rows of one event changes its phase.            *)
LEMMA PhaseMoves ==
  ASSUME NEW e \in Events, NEW value,
         \A f \in Events \ {e} : status'[f] = status[f] /\ runs'[f] = runs[f],
         PhaseOf(e)' = value
  PROVE  phase' = [phase EXCEPT ![e] = value]
<1>1. \A f \in Events \ {e} : PhaseOf(f)' = PhaseOf(f) BY DEF PhaseOf
<1> QED BY <1>1 DEF phase, Events, S!Events, S!Times

LEMMA PhaseStays ==
  ASSUME UNCHANGED runs,
         \A e \in Events : \/ status'[e] = status[e]
                           \/ {status[e], status'[e]} \subseteq {"PENDING", "CLAIMED"}
  PROVE  phase' = phase
<1>1. \A e \in Events : PhaseOf(e)' = PhaseOf(e) BY DEF PhaseOf
<1> QED BY <1>1 DEF phase, Events, S!Events, S!Times

LEMMA PlanStays ==
  ASSUME \A s \in Schedules : /\ sched'[s].added = sched[s].added
                              /\ sched'[s].first = sched[s].first
                              /\ sched'[s].every = sched[s].every
  PROVE  plan' = plan
BY DEF plan

LEMMA StillPlans ==
  ASSUME UNCHANGED sched
  PROVE  plan' = plan
BY DEF plan

LEMMA ContractAdd ==
  ASSUME IInv, NEW s \in Schedules, Add(s)
  PROVE  Contract!Next
<1> USE DEF IInv, Types
<1>1. PICK every \in (IF s \in Recurring THEN Intervals ELSE {None}), first \in Times :
        sched' = [sched EXCEPT ![s] =
          [on |-> TRUE, first |-> first, every |-> every, next |-> first, added |-> TRUE]]
  BY DEF Add, S!Add, Times
<1>2. ~sched[s].added /\ UNCHANGED <<clock, status, runs>> BY DEF Add, S!Add, S!queueVars
<1>3. ~plan[s].known BY <1>2 DEF plan
<1>4. plan' = [plan EXCEPT ![s] = [known |-> TRUE, first |-> first, every |-> every]]
  BY <1>1 DEF plan
<1>5. phase' = phase BY <1>2, PhaseStays
<1>6. Contract!Add(s) BY <1>1, <1>2, <1>3, <1>4, <1>5, ContractSets DEF Contract!Add
<1> QED BY <1>6 DEF Contract!Next

LEMMA ContractAdvance ==
  ASSUME IInv, Advance
  PROVE  Contract!Next
<1>1. clock < MaxTime /\ clock' = clock + 1 /\ UNCHANGED <<sched, status, runs>>
  BY DEF Advance, S!Advance, S!queueVars
<1>2. phase' = phase /\ plan' = plan BY <1>1, PhaseStays, StillPlans
<1>3. Contract!Advance BY <1>1, <1>2 DEF Contract!Advance
<1> QED BY <1>3 DEF Contract!Next

LEMMA ContractEmit ==
  ASSUME IInv, Present, NEW d \in Daemons, S!Emit(d), UNCHANGED runs
  PROVE  [Contract!Next]_(Contract!vars)
<1>r. PICK row : row = tick[d].row OBVIOUS
<1> DEFINE s == row.id
           t == row.next
           e == <<s, t>>
<1>1. tick[d] \in TickRow /\ tick[d].pc = "emit" BY DEF IInv, Types, S!Emit, S!At
<1>2. row \in Item /\ Sound(row) BY <1>r, <1>1 DEF IInv, TickInv, Carried, TickRow
<1>3. /\ t \in Nat /\ t <= tick[d].now /\ tick[d].now \in 0..MaxTime
      /\ tick[d].now <= clock /\ clock \in 0..MaxTime
  BY <1>r, <1>1, <1>2, TimesFact DEF IInv, TickInv, TickRow, Item, Types
<1>4. t \in Times /\ t <= clock BY <1>3, TimesFact
<1>5. s \in Schedules /\ sched[s].added /\ Follows(s, t) BY <1>2 DEF Sound
<1>6. e \in Events BY <1>4, <1>5, TimesFact
<1>7. /\ UNCHANGED <<clock, sched>>
      /\ status' = [status EXCEPT ![e] = IF @ = "ABSENT" THEN "PENDING" ELSE @]
  BY <1>r DEF S!Emit, S!Q!Enqueue, S!EventOf
<1>8. status \in [Events -> Statuses] /\ Types BY DEF IInv, Types
<1>9. CASE status[e] # "ABSENT"
  <2>1. status' = status BY <1>7, <1>8, <1>9
  <2> QED BY <1>7, <2>1, PhaseStays, StillPlans DEF Contract!vars
<1>10. CASE status[e] = "ABSENT"
  <2>1. status'[e] = "PENDING" /\ \A f \in Events \ {e} : status'[f] = status[f]
    BY <1>6, <1>7, <1>8, <1>10
  <2>2. runs'[e] = 0
    BY <1>6, <1>8, <1>10, PhaseIs DEF Present
  <2>3. PhaseOf(e)' = "open" BY <2>1, <2>2 DEF PhaseOf
  <2>4. phase' = [phase EXCEPT ![e] = "open"] BY <1>6, <2>1, <2>3, PhaseMoves
  <2>5. phase[e] = "none" BY <1>6, <1>8, <1>10, PhaseIs
  <2>6. plan' = plan BY <1>7, StillPlans
  <2>7. plan[s].known /\ plan[s].first = sched[s].first /\ plan[s].every = sched[s].every
    BY <1>5 DEF plan
  <2>8. ASSUME NEW u, Emitted(s, u) PROVE Contract!Requested(<<s, u>>)
    <3>1. <<s, u>> \in Events /\ status[<<s, u>>] # "ABSENT" BY <2>8 DEF Emitted
    <3>2. phase[<<s, u>>] # "none"
      <4>1. runs[<<s, u>>] = 0 \/ runs[<<s, u>>] = 1 BY <1>8, <3>1, PhaseIs
      <4> QED BY <1>8, <3>1, <4>1, PhaseIs DEF Statuses
    <3> QED BY <3>1, <3>2, ContractSets DEF Contract!Requested
  <2>9. t = plan[s].first \/ (plan[s].every # None /\ Contract!Requested(<<s, t - plan[s].every>>))
    BY <1>5, <2>7, <2>8 DEF Follows
  <2>10. Contract!Request(s, t)
    BY <1>4, <1>7, <2>4, <2>5, <2>6, <2>7, <2>9 DEF Contract!Request
  <2> QED BY <1>4, <1>5, <2>10, ContractSets DEF Contract!Next
<1> QED BY <1>9, <1>10

LEMMA ContractWrite ==
  ASSUME IInv, NEW d \in Daemons, S!Write(d), UNCHANGED runs
  PROVE  UNCHANGED Contract!vars
<1>1. UNCHANGED <<clock, status>> BY DEF S!Write, S!queueVars
<1>2. ASSUME NEW s \in Schedules
      PROVE  /\ sched'[s].added = sched[s].added
             /\ sched'[s].first = sched[s].first
             /\ sched'[s].every = sched[s].every
  BY DEF S!Write, IInv, Types, Row
<1> QED BY <1>1, <1>2, PhaseStays, PlanStays DEF Contract!vars

LEMMA ContractCreate ==
  ASSUME IInv, Present, NEW d \in Daemons, Create(d)
  PROVE  [Contract!Next]_(Contract!vars)
<1>r. PICK e : e = job[d].event OBVIOUS
<1>1. e \in Events /\ e[1] \in Valid /\ status[e] # "ABSENT" /\ Types
  BY <1>r DEF Create, At, IInv, JobInv, Present
<1>2. UNCHANGED <<clock, sched, status>> /\ runs' = [runs EXCEPT ![e] = RunsAfter(@)]
  BY <1>r DEF Create, queueVars
<1>3. runs[e] \in 0..1 /\ status[e] \in Statuses /\ runs \in [Events -> 0..1]
  BY <1>1, PhaseIs DEF Types
<1>4. plan' = plan BY <1>2, StillPlans
<1>5. CASE runs[e] = 1
  <2>1. runs' = runs BY <1>2, <1>3, <1>5 DEF RunsAfter
  <2> QED BY <1>2, <1>4, <2>1, PhaseStays DEF Contract!vars
<1>6. CASE runs[e] = 0
  <2>1. runs'[e] = 1 /\ \A f \in Events \ {e} : runs'[f] = runs[f]
    BY <1>1, <1>2, <1>3, <1>6 DEF RunsAfter
  <2>2. status[e] # "DONE" BY <1>1, <1>6 DEF IInv, EventInv, Handled
  <2>3. phase[e] = "open" BY <1>1, <1>3, <1>6, <2>2, PhaseIs DEF Statuses
  <2>4. PhaseOf(e)' = "run" BY <1>1, <1>2, <2>1 DEF PhaseOf
  <2>5. phase' = [phase EXCEPT ![e] = "run"] BY <1>1, <1>2, <2>1, <2>4, PhaseMoves
  <2>6. Contract!Run(e) BY <1>1, <1>2, <1>4, <2>3, <2>5 DEF Contract!Run, Contract!Move
  <2> QED BY <1>1, <2>6, ContractSets DEF Contract!Next
<1> QED BY <1>3, <1>5, <1>6

LEMMA ContractAck ==
  ASSUME IInv, NEW d \in Daemons, Ack(d)
  PROVE  [Contract!Next]_(Contract!vars)
<1>r. PICK e : e = job[d].event OBVIOUS
<1>1. e \in Events /\ Handled(e) /\ Types
  BY <1>r DEF Ack, At, IInv, JobInv
<1>2. UNCHANGED <<clock, sched, runs>> BY DEF Ack
<1>3. plan' = plan BY <1>2, StillPlans
<1>4. CASE UNCHANGED status BY <1>2, <1>3, <1>4, PhaseStays DEF Contract!vars
<1>5. CASE Q!Ack(d, e)
  <2>1. status[e] = "CLAIMED" /\ status' = [status EXCEPT ![e] = "DONE"]
    BY <1>5 DEF Q!Ack, Q!Owns, Q!Settle
  <2>2. status'[e] = "DONE" /\ \A f \in Events \ {e} : status'[f] = status[f]
    BY <1>1, <2>1 DEF Types
  <2>3. CASE e[1] \in Valid
    <3>1. runs[e] = 1 BY <1>1, <2>3 DEF Handled
    <3>2. PhaseOf(e)' = "run" BY <1>2, <2>2, <3>1 DEF PhaseOf
    <3>3. phase' = [phase EXCEPT ![e] = "run"] BY <1>1, <1>2, <2>2, <3>2, PhaseMoves
    <3>4. phase[e] = "run" BY <1>1, <2>1, <3>1, PhaseIs
    <3>5. phase' = phase BY <1>1, <3>3, <3>4 DEF phase
    <3> QED BY <1>2, <1>3, <3>5 DEF Contract!vars
  <2>4. CASE e[1] \notin Valid
    <3>1. runs[e] = 0 BY <1>1, <2>4 DEF IInv, EventInv
    <3>2. PhaseOf(e)' = "closed" BY <1>2, <2>2, <3>1 DEF PhaseOf
    <3>3. phase' = [phase EXCEPT ![e] = "closed"] BY <1>1, <1>2, <2>2, <3>2, PhaseMoves
    <3>4. phase[e] = "open" BY <1>1, <2>1, <3>1, PhaseIs
    <3>5. Contract!Close(e)
      BY <1>2, <1>3, <2>4, <3>3, <3>4 DEF Contract!Close, Contract!Move
    <3> QED BY <1>1, <3>5, ContractSets DEF Contract!Next
  <2> QED BY <2>3, <2>4
<1> QED BY <1>r, <1>4, <1>5 DEF Ack, queueVars

LEMMA ContractClaim ==
  ASSUME IInv, NEW d \in Daemons, NEW e \in Events, Claim(d, e)
  PROVE  UNCHANGED Contract!vars
<1>1. UNCHANGED <<clock, sched, runs>> BY DEF Claim
<1>2. status[e] \in {"PENDING", "CLAIMED"} /\ status' = [status EXCEPT ![e] = "CLAIMED"]
  BY DEF Claim, Q!Claim, Q!Claimable
<1>3. \A f \in Events : \/ status'[f] = status[f]
                        \/ {status[f], status'[f]} \subseteq {"PENDING", "CLAIMED"}
  BY <1>2 DEF IInv, Types
<1> QED BY <1>1, <1>3, PhaseStays, StillPlans DEF Contract!vars

(* However daemons overlap, stall and die, each occurrence is requested     *)
(* once, in order and not early, and becomes one run or none as its task    *)
(* is valid or not.                                                         *)
THEOREM IntakeKeepsContract == Spec => ImplementsTaskContract
<1>1. Init => Present /\ Contract!Init
  <2> SUFFICES ASSUME Init PROVE Present /\ Contract!Init OBVIOUS
  <2> USE DEF Init, S!Init, S!Q!Init
  <2>1. Present BY DEF Present, NoJob, Events
  <2>2. \A e \in Events : PhaseOf(e) = "none" BY DEF PhaseOf, Events
  <2>3. phase = [e \in Contract!Events |-> "none"] BY <2>2, ContractSets DEF phase
  <2>4. plan = [s \in Schedules |-> [known |-> FALSE, first |-> 0, every |-> None]]
    BY DEF plan, S!NoRow
  <2> QED BY <2>1, <2>3, <2>4 DEF Contract!Init
<1>2. IInv /\ Present /\ [Next]_vars => [Contract!Next]_(Contract!vars)
  <2> SUFFICES ASSUME IInv, Present, [Next]_vars PROVE [Contract!Next]_(Contract!vars) OBVIOUS
  <2>1. CASE UNCHANGED <<clock, sched, status, runs>>
    BY <2>1, PhaseStays, StillPlans DEF Contract!vars
  <2>2. ASSUME NEW d \in Daemons, Cycle(d) \/ Abandon(d) PROVE [Contract!Next]_(Contract!vars)
    BY <2>1, <2>2, ContractEmit, ContractWrite, ContractCreate, ContractAck
    DEF Cycle, Tick, S!Tick, S!Begin, S!Select, NothingDue, Reject, Abandon, S!queueVars,
        queueVars, tableVars
  <2>3. CASE \E s \in Schedules : Add(s) BY <2>3, ContractAdd
  <2>4. CASE Advance BY <2>4, ContractAdvance
  <2>5. CASE \E d \in Daemons, e \in Events : Claim(d, e) BY <2>5, ContractClaim
  <2>6. CASE \E e \in Events : Lapse(e) BY <2>1, <2>6 DEF Lapse, Q!Lapse
  <2>7. CASE UNCHANGED vars BY <2>1, <2>7 DEF vars, tableVars, queueVars
  <2> QED BY <2>2, <2>3, <2>4, <2>5, <2>6, <2>7 DEF Next
<1> QED BY <1>1, <1>2, InvHolds, PresentNext, PTL
    DEF Spec, ImplementsTaskContract, Contract!Spec

-----------------------------------------------------------------------------
(* Scheduler and intake use the queue through its operations alone.         *)

(* An occurrence that a tick emits is an event of the queue. *)
LEMMA EmitsAnEvent ==
  ASSUME IInv, NEW d \in Daemons, S!Emit(d)
  PROVE  \E e \in Events : Q!Enqueue(e)
<1> DEFINE row == tick[d].row
<1>1. tick[d] \in TickRow /\ tick[d].pc = "emit" BY DEF IInv, Types, S!Emit, S!At
<1>2. row \in Item /\ Sound(row) BY <1>1 DEF IInv, TickInv, Carried, TickRow
<1>3. row.id \in Schedules BY <1>2 DEF Sound
<1>4. /\ row.next \in Nat /\ row.next <= tick[d].now /\ tick[d].now \in 0..MaxTime
      /\ tick[d].now <= clock /\ clock \in 0..MaxTime
  BY <1>1, <1>2, TimesFact DEF IInv, TickInv, TickRow, Item, Types
<1>5. row.next \in Times BY <1>4, TimesFact
<1>6. S!EventOf(row) \in Events BY <1>3, <1>5, TimesFact DEF S!EventOf
<1>7. Q!Enqueue(S!EventOf(row)) BY DEF S!Emit, S!Q!Enqueue, Q!Enqueue
<1> QED BY <1>6, <1>7

LEMMA LapseIsLapses ==
  ASSUME IInv, NEW e \in Events, Q!Lapse(e)
  PROVE  Q!Lapses({e})
<1>1. /\ status[e] = "CLAIMED" /\ ~lapsed[e] /\ UNCHANGED <<status, owner>>
      /\ lapsed' = [lapsed EXCEPT ![e] = TRUE]
  BY DEF Q!Lapse
<1>2. lapsed \in [Events -> BOOLEAN] BY DEF IInv, Types
<1>3. lapsed' = [x \in Events |-> lapsed[x] \/ x \in {e}]
  <2> SUFFICES ASSUME NEW x \in Events PROVE lapsed'[x] = (lapsed[x] \/ x \in {e})
    BY <1>1, <1>2, Zenon
  <2>1. CASE x = e BY <1>1, <1>2, <2>1, Zenon
  <2>2. CASE x # e
    <3>1. lapsed'[x] = lapsed[x] /\ lapsed[x] \in BOOLEAN BY <1>1, <1>2, <2>2, Zenon
    <3>2. ~(x \in {e}) BY <2>2
    <3> QED BY <3>1, <3>2, Zenon
  <2> QED BY <2>1, <2>2
<1> QED BY <1>1, <1>3, Zenon DEF Q!Lapses, Events

LEMMA StepDrivesQueue == IInv /\ [Next]_vars => [Q!Next]_(Q!vars)
<1> SUFFICES ASSUME IInv, [Next]_vars PROVE [Q!Next]_(Q!vars) OBVIOUS
<1>1. ASSUME UNCHANGED queueVars PROVE [Q!Next]_(Q!vars) BY <1>1 DEF queueVars, Q!vars
<1>2. CASE \E s \in Schedules : Add(s) BY <1>1, <1>2 DEF Add, S!Add, S!queueVars, queueVars
<1>3. CASE Advance BY <1>1, <1>3 DEF Advance, S!Advance, S!queueVars, queueVars
<1>4. ASSUME NEW d \in Daemons, Tick(d) PROVE [Q!Next]_(Q!vars)
  <2>1. CASE S!Emit(d) BY <2>1, EmitsAnEvent DEF Q!Next, Events
  <2>2. CASE S!Begin(d) \/ S!Select(d) \/ S!Write(d)
    BY <1>1, <2>2 DEF S!Begin, S!Select, S!Write, S!queueVars, queueVars
  <2> QED BY <1>4, <2>1, <2>2 DEF Tick, S!Tick
<1>5. ASSUME NEW d \in Daemons, Ack(d) PROVE [Q!Next]_(Q!vars)
  <2>1. job[d].event \in Events BY <1>5 DEF Ack, At, IInv, JobInv
  <2> QED BY <1>1, <1>5, <2>1 DEF Ack, Q!Next, Events
<1>6. ASSUME NEW d \in Daemons,
             NothingDue(d) \/ Create(d) \/ Reject(d) \/ Abandon(d)
      PROVE  [Q!Next]_(Q!vars)
  BY <1>1, <1>6 DEF NothingDue, Create, Reject, Abandon, tableVars
<1>7. ASSUME NEW d \in Daemons, NEW e \in Events, Claim(d, e) PROVE [Q!Next]_(Q!vars)
  BY <1>7 DEF Claim, Q!Next, Events
<1>8. ASSUME NEW e \in Events, Lapse(e) PROVE [Q!Next]_(Q!vars)
  <2>1. Q!Lapses({e}) BY <1>8, LapseIsLapses DEF Lapse
  <2> QED BY <2>1, Zenon DEF Q!Next, Events
<1>9. CASE UNCHANGED vars BY <1>1, <1>9 DEF vars, tableVars
<1> QED BY <1>2, <1>3, <1>4, <1>5, <1>6, <1>7, <1>8, <1>9 DEF Next, Cycle

(* The queue under scheduler and intake is the lease queue: what a tick     *)
(* enqueues, however stale, is an occurrence the clock has reached, and     *)
(* what a daemon acknowledges is the event it claimed (scheduler.py,        *)
(* engine.py, store.py).                                                    *)
THEOREM IntakeDrivesQueue == Spec => Q!Spec
<1>1. Init => Q!Init BY DEF Init, S!Init, S!Q!Init, Q!Init, Events
<1> QED BY <1>1, StepDrivesQueue, InvHolds, PTL DEF Spec, Q!Spec
=============================================================================
