---------------------------- MODULE TaskContract ----------------------------
(***************************************************************************)
(* What scheduler, queue and intake promise together for recurring tasks,   *)
(* without daemons, ticks, leases or faults: a plan's occurrences are       *)
(* requested one after the other from the first, none early, and each       *)
(* request ends in one run or, if it is no valid task, without one.         *)
(***************************************************************************)
EXTENDS Integers

CONSTANTS Schedules, Recurring, Intervals, None, MaxTime, Valid

VARIABLES
  clock,
  plan,   \* schedule -> known or not, first occurrence, interval
  phase   \* schedule, occurrence -> "none", "open", "run" or "closed"

vars == <<clock, plan, phase>>

Times == 0..MaxTime
Events == Schedules \X Times

Init ==
  /\ clock = 0
  /\ plan = [s \in Schedules |-> [known |-> FALSE, first |-> 0, every |-> None]]
  /\ phase = [e \in Events |-> "none"]

Add(s) ==
  /\ ~plan[s].known
  /\ \E every \in (IF s \in Recurring THEN Intervals ELSE {None}), first \in Times :
       plan' = [plan EXCEPT ![s] = [known |-> TRUE, first |-> first, every |-> every]]
  /\ UNCHANGED <<clock, phase>>

Requested(e) == e \in Events /\ phase[e] # "none"

(* t is due, and it is the first occurrence or follows a requested one. *)
Request(s, t) ==
  /\ plan[s].known /\ t <= clock
  /\ \/ t = plan[s].first
     \/ plan[s].every # None /\ Requested(<<s, t - plan[s].every>>)
  /\ phase[<<s, t>>] = "none"
  /\ phase' = [phase EXCEPT ![<<s, t>>] = "open"]
  /\ UNCHANGED <<clock, plan>>

Move(e, from, to) ==
  /\ phase[e] = from
  /\ phase' = [phase EXCEPT ![e] = to]
  /\ UNCHANGED <<clock, plan>>

Run(e) == e[1] \in Valid /\ Move(e, "open", "run")
Close(e) == e[1] \notin Valid /\ Move(e, "open", "closed")

Advance == clock < MaxTime /\ clock' = clock + 1 /\ UNCHANGED <<plan, phase>>

Next ==
  \/ \E s \in Schedules : Add(s) \/ \E t \in Times : Request(s, t)
  \/ \E e \in Events : Run(e) \/ Close(e)
  \/ Advance

Spec == Init /\ [][Next]_vars
=============================================================================
