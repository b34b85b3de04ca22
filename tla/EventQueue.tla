----------------------------- MODULE EventQueue -----------------------------
(***************************************************************************)
(* The durable event queue of src/pre_active/store.py with its clock:       *)
(* availability times, leases, retry delays, priorities, the dedup key and  *)
(* the journal rows, under producers that race on a key and workers that    *)
(* poll, stall and die (src/pre_active/engine.py, daemon.py).               *)
(*                                                                          *)
(* Time is relative: available_at and lease_until are kept as the time      *)
(* still to go, and the `now' a cycle captured at its start as its age.     *)
(* One action is one SQL statement or one explicit transaction, or the      *)
(* handling of an event, or one unit of time.                               *)
(***************************************************************************)
EXTENDS Integers

CONSTANTS
  Workers, Producers, None,
  Events,      \* one per dedup key, numbered by created_at
  Requests,    \* kind, payload and priority of a request; only the priority shows
  Delays,      \* how far ahead of `now' a producer sets available_at
  Failing,     \* events whose handling may fail for ever
  Lease,       \* Engine.lease_seconds
  Poll,        \* Daemon.run_forever(poll_seconds)
  MaxDelay,    \* 60 s, the longest retry delay
  MaxWait,     \* bound: from the reading of the clock to the claim
  MaxCall,     \* bound: from the reading of the clock to the end of a cycle
  MaxStall,    \* bound: the same for a cycle that stalls
  MaxAttempts, \* bound: the attempts column counts up to this
  MaxFaults    \* bound: deaths, stalls and failing statements

ASSUME QueueAssumption ==
  /\ Events \subseteq Nat /\ Requests \subseteq Nat
  /\ Delays \subseteq Nat /\ Failing \subseteq Events
  /\ None \notin Workers \cup Requests
  /\ {Lease, Poll, MaxDelay, MaxWait, MaxCall, MaxStall, MaxAttempts} \subseteq Nat \ {0}
  /\ MaxFaults \in Nat

(* The powers the retry delay is made of; provers know nothing of them.     *)
ASSUME PowersAssumption == \A n \in 0..6 : 2 ^ n \in Nat

VARIABLES
  status,   \* event -> "ABSENT" (no row), "PENDING", "CLAIMED" or "DONE"
  owner,    \* event -> lease_owner
  until,    \* event -> lease_until, from now
  avail,    \* event -> available_at, from now
  attempts, \* event -> attempts
  request,  \* event -> the request its row holds
  journal,  \* event -> the types of its journal rows
  job,      \* worker -> what it is doing, for which event
  prod,     \* producer -> its call of enqueue_event
  faults    \* how many faults have been spent

rowVars == <<status, owner, until, avail, attempts, request>>
vars == <<rowVars, journal, job, prod, faults>>

Least(a, b) == IF a <= b THEN a ELSE b
Greatest(a, b) == IF a >= b THEN a ELSE b

NoJob == [pc |-> "off", event |-> None, age |-> 0, attempt |-> 0, slow |-> FALSE]
Sleeping == [NoJob EXCEPT !.pc = "idle"]
NoCall == [pc |-> "ready", key |-> None, request |-> None]

Init ==
  /\ status = [e \in Events |-> "ABSENT"]
  /\ owner = [e \in Events |-> None]
  /\ until = [e \in Events |-> 0]
  /\ avail = [e \in Events |-> 0]
  /\ attempts = [e \in Events |-> 0]
  /\ request = [e \in Events |-> None]
  /\ journal = [e \in Events |-> {}]
  /\ job = [w \in Workers |-> NoJob]
  /\ prod = [p \in Producers |-> NoCall]
  /\ faults = 0

Spend == faults < MaxFaults /\ faults' = faults + 1

At(w, pc) == job[w].pc = pc
Go(w, pc) == job' = [job EXCEPT ![w].pc = pc]
Sleep(w) == job' = [job EXCEPT ![w] = Sleeping]

(* append_journal *)
Note(e, type) == journal' = [journal EXCEPT ![e] = @ \cup {type}]

-----------------------------------------------------------------------------
(* enqueue_event: outside a transaction the look-up, the insertion and the  *)
(* journal row are statements of their own.                                 *)

Answer(p, row) == IF row = prod[p].request THEN "accepted" ELSE "refused"
Reply(p, pc) == prod' = [prod EXCEPT ![p].pc = pc]

Request(p) ==
  /\ prod[p].pc = "ready"
  /\ \E e \in Events, q \in Requests :
       prod' = [prod EXCEPT ![p] = [pc |-> "lookup", key |-> e, request |-> q]]
  /\ UNCHANGED <<rowVars, journal, job, faults>>

Lookup(p) ==
  LET e == prod[p].key IN
  /\ prod[p].pc = "lookup"
  /\ Reply(p, IF status[e] = "ABSENT" THEN "insert" ELSE Answer(p, request[e]))
  /\ UNCHANGED <<rowVars, journal, job, faults>>

NewRow(e, q) ==
  /\ status' = [status EXCEPT ![e] = "PENDING"]
  /\ request' = [request EXCEPT ![e] = q]
  /\ \E d \in Delays : avail' = [avail EXCEPT ![e] = d]
  /\ UNCHANGED <<owner, until, attempts>>

(* IntegrityError: another producer was first, and its row is compared. *)
BugRaced(p, row) == "accepted"
Raced(p, row) == Answer(p, row)

Insert(p) ==
  LET e == prod[p].key IN
  /\ prod[p].pc = "insert"
  /\ \/ status[e] = "ABSENT" /\ NewRow(e, prod[p].request) /\ Reply(p, "inserted")
     \/ status[e] # "ABSENT" /\ Reply(p, Raced(p, request[e])) /\ UNCHANGED rowVars
  /\ UNCHANGED <<journal, job, faults>>

NoteEnqueued(p) ==
  /\ prod[p].pc = "inserted"
  /\ Note(prod[p].key, "ENQUEUED")
  /\ Reply(p, "accepted")
  /\ UNCHANGED <<rowVars, job, faults>>

(* The same inside the caller's transaction. *)
EnqueueAtOnce(p) ==
  LET e == prod[p].key IN
  /\ prod[p].pc = "lookup" /\ status[e] = "ABSENT"
  /\ NewRow(e, prod[p].request)
  /\ Note(e, "ENQUEUED")
  /\ Reply(p, "accepted")
  /\ UNCHANGED <<job, faults>>

(* The producer dies, or a statement of its call raises. *)
Abort(p) ==
  /\ prod[p].pc \in {"lookup", "insert", "inserted"}
  /\ Reply(p, "gone")
  /\ Spend
  /\ UNCHANGED <<rowVars, journal, job>>

-----------------------------------------------------------------------------
(* claim_event *)

Busy(w) == job[w].pc \in {"work", "ack", "acked", "fail", "failed"}

(* run_forever reads the clock after its sleep. *)
Wake(w) ==
  /\ At(w, "idle") /\ job[w].age >= Poll
  /\ job' = [job EXCEPT ![w].pc = "claim", ![w].age = 0]
  /\ UNCHANGED <<rowVars, journal, prod, faults>>

(* Both times are compared with the captured clock reading. *)
BugDue(e, age) ==
  /\ avail[e] <= -age
  /\ status[e] \in {"PENDING", "CLAIMED"}
Due(e, age) ==
  /\ avail[e] <= -age
  /\ status[e] = "PENDING" \/ (status[e] = "CLAIMED" /\ until[e] <= -age)

Before(f, e) == request[f] > request[e] \/ (request[f] = request[e] /\ f < e)

Claim(w, e) ==
  LET age == job[w].age
      n == Least(attempts[e] + 1, MaxAttempts)
  IN
  /\ At(w, "claim") /\ Due(e, age)
  /\ \A f \in Events : Due(f, age) => ~Before(f, e)
  /\ status' = [status EXCEPT ![e] = "CLAIMED"]
  /\ owner' = [owner EXCEPT ![e] = w]
  /\ until' = [until EXCEPT ![e] = Lease - age]
  /\ attempts' = [attempts EXCEPT ![e] = n]
  /\ job' = [job EXCEPT ![w] = [@ EXCEPT !.pc = "work", !.event = e, !.attempt = n]]
  /\ Note(e, "CLAIMED")
  /\ UNCHANGED <<avail, request, prod, faults>>

NothingDue(w) ==
  /\ At(w, "claim")
  /\ \A e \in Events : ~Due(e, job[w].age)
  /\ Sleep(w)
  /\ UNCHANGED <<rowVars, journal, prod, faults>>

-----------------------------------------------------------------------------
(* run_once after the claim: the event is handled, then acknowledged or     *)
(* failed.  What raises outside the try block (a run.step event without a   *)
(* run), before any call of the model, leaves it claimed until the lease    *)
(* lapses; it may do so every time, and never reach fail_event.             *)

Handle(w) ==
  /\ At(w, "work")
  /\ \/ Go(w, "ack") /\ UNCHANGED faults
     \/ job[w].event \in Failing /\ Go(w, "fail") /\ UNCHANGED faults
     \/ job[w].event \in Failing /\ job[w].age <= MaxWait /\ Sleep(w) /\ UNCHANGED faults
     \/ Go(w, "fail") /\ Spend
  /\ UNCHANGED <<rowVars, journal, prod>>

(* WHERE status='CLAIMED' AND lease_owner=? *)
BugOwns(w, e) == status[e] = "CLAIMED"
Owns(w, e) == status[e] = "CLAIMED" /\ owner[e] = w

Settle(e, state) ==
  /\ status' = [status EXCEPT ![e] = state]
  /\ owner' = [owner EXCEPT ![e] = None]
  /\ until' = [until EXCEPT ![e] = 0]
  /\ UNCHANGED <<attempts, request>>

(* ack_event; a lost lease raises, and inside the try block that leads to   *)
(* fail_event.                                                              *)
BugAckLost(w, e) == Go(w, "acked") /\ UNCHANGED rowVars
AckLost(w, e) == (Go(w, "fail") \/ Sleep(w)) /\ UNCHANGED rowVars

Ack(w) ==
  LET e == job[w].event IN
  /\ At(w, "ack")
  /\ \/ Owns(w, e) /\ Settle(e, "DONE") /\ Go(w, "acked") /\ UNCHANGED avail
     \/ ~Owns(w, e) /\ AckLost(w, e)
  /\ UNCHANGED <<journal, prod, faults>>

NoteAcked(w) ==
  /\ At(w, "acked")
  /\ Note(job[w].event, "ACKED")
  /\ Sleep(w)
  /\ UNCHANGED <<rowVars, prod, faults>>

(* retry_at = now + min(60, 2 ** min(attempts, 6)), now being the reading   *)
(* the cycle started with.                                                  *)
Backoff(n) == Least(MaxDelay, 2 ^ Least(n, 6))
BugRetryAt(w) == -job[w].age
RetryAt(w) == Backoff(job[w].attempt) - job[w].age

Fail(w) ==
  LET e == job[w].event IN
  /\ At(w, "fail")
  /\ \/ /\ Owns(w, e)
        /\ Settle(e, "PENDING")
        /\ avail' = [avail EXCEPT ![e] = Greatest(RetryAt(w), -MaxWait)]
        /\ Go(w, "failed")
     \/ ~Owns(w, e) /\ Sleep(w) /\ UNCHANGED rowVars
  /\ UNCHANGED <<journal, prod, faults>>

NoteFailed(w) ==
  /\ At(w, "failed")
  /\ Note(job[w].event, "RETRY")
  /\ Sleep(w)
  /\ UNCHANGED <<rowVars, prod, faults>>

-----------------------------------------------------------------------------
(* The environment. *)

(* A statement raises: inside the try block that leads to fail_event.       *)
StatementFails(w) ==
  /\ \/ At(w, "ack") /\ Go(w, "fail")
     \/ At(w, "acked") /\ (Go(w, "fail") \/ Sleep(w))
     \/ job[w].pc \in {"claim", "fail", "failed"} /\ Sleep(w)
  /\ Spend
  /\ UNCHANGED <<rowVars, journal, prod>>

Die(w) ==
  /\ ~At(w, "off")
  /\ job' = [job EXCEPT ![w] = NoJob]
  /\ Spend
  /\ UNCHANGED <<rowVars, journal, prod>>

(* A process starts, and its first cycle needs no sleep. *)
Boot(w) ==
  /\ At(w, "off")
  /\ job' = [job EXCEPT ![w] = [Sleeping EXCEPT !.age = Poll]]
  /\ UNCHANGED <<rowVars, journal, prod, faults>>

(* A model call or a lock that takes longer than a cycle should. *)
Stall(w) ==
  /\ Busy(w) /\ ~job[w].slow
  /\ job' = [job EXCEPT ![w].slow = TRUE]
  /\ Spend
  /\ UNCHANGED <<rowVars, journal, prod>>

MayAge(w) ==
  \/ At(w, "off")
  \/ At(w, "idle") /\ job[w].age < Poll
  \/ At(w, "claim") /\ job[w].age < MaxWait
  \/ Busy(w) /\ job[w].age < (IF job[w].slow THEN MaxStall ELSE MaxCall)

(* What is long past is past: a claim looks back MaxWait at most. *)
Pass(n) == IF n > -MaxWait THEN n - 1 ELSE n

Tick ==
  /\ \A w \in Workers : MayAge(w)
  /\ until' = [e \in Events |-> IF status[e] = "CLAIMED" THEN Pass(until[e]) ELSE 0]
  /\ avail' = [e \in Events |->
       IF status[e] \in {"PENDING", "CLAIMED"} THEN Pass(avail[e]) ELSE avail[e]]
  /\ job' = [w \in Workers |-> IF At(w, "off") THEN job[w] ELSE [job[w] EXCEPT !.age = @ + 1]]
  /\ UNCHANGED <<status, owner, attempts, request, journal, prod, faults>>

-----------------------------------------------------------------------------
Produce(p) == Request(p) \/ Lookup(p) \/ Insert(p) \/ NoteEnqueued(p) \/ EnqueueAtOnce(p)

Work(w) ==
  \/ Boot(w) \/ Wake(w) \/ NothingDue(w) \/ \E e \in Events : Claim(w, e)
  \/ Handle(w) \/ Ack(w) \/ NoteAcked(w) \/ Fail(w) \/ NoteFailed(w)

Next ==
  \/ \E p \in Producers : Produce(p) \/ Abort(p)
  \/ \E w \in Workers : Work(w) \/ StatementFails(w) \/ Die(w) \/ Stall(w)
  \/ Tick

Spec == Init /\ [][Next]_vars

(* Producers finish their calls, workers their cycles, the supervisor       *)
(* starts them again, and time passes.  Faults come to an end (MaxFaults).  *)
Fairness ==
  /\ \A p \in Producers : WF_vars(Produce(p))
  /\ \A w \in Workers : WF_vars(Work(w))
  /\ WF_vars(Tick)

FairSpec == Spec /\ Fairness
-----------------------------------------------------------------------------
Statuses == {"ABSENT", "PENDING", "CLAIMED", "DONE"}
Points == {"off", "idle", "claim", "work", "ack", "acked", "fail", "failed"}
Calls == {"ready", "lookup", "insert", "inserted", "accepted", "refused", "gone"}

(* Rows, journal, workers and producers are of the shape schema and code    *)
(* give them, and a row names an owner exactly while it is claimed.         *)
TypeOK ==
  /\ status \in [Events -> Statuses]
  /\ owner \in [Events -> Workers \cup {None}]
  /\ \A e \in Events : status[e] = "CLAIMED" <=> owner[e] # None
  /\ until \in [Events -> Int] /\ avail \in [Events -> Int]
  /\ attempts \in [Events -> 0..MaxAttempts]
  /\ request \in [Events -> Requests \cup {None}]
  /\ journal \in [Events -> SUBSET {"ENQUEUED", "CLAIMED", "ACKED", "RETRY"}]
  /\ job \in [Workers -> [pc : Points, event : Events \cup {None}, age : Nat,
                          attempt : 0..MaxAttempts, slow : BOOLEAN]]
  /\ prod \in [Producers -> [pc : Calls, key : Events \cup {None},
                             request : Requests \cup {None}]]
  /\ faults \in Nat

(* A producer whose call succeeded finds its own request under its key, and *)
(* one that was refused finds another, however the producers raced.         *)
AcceptedIsBound ==
  \A p \in Producers :
    /\ prod[p].pc = "accepted" => request[prod[p].key] = prod[p].request
    /\ prod[p].pc = "refused" => request[prod[p].key] \notin {None, prod[p].request}

(* What the journal says of an event happened to it: an ACKED row only for  *)
(* a finished event, a RETRY row only after a claim, a finished event only  *)
(* with a CLAIMED row.  Rows may be missing or late, never false.           *)
JournalIsHonest ==
  \A e \in Events :
    /\ "ACKED" \in journal[e] => status[e] = "DONE"
    /\ "RETRY" \in journal[e] => "CLAIMED" \in journal[e]
    /\ status[e] \in {"CLAIMED", "DONE"} => "CLAIMED" \in journal[e]

(* Only the holder of the latest claim ends it: a worker whose lease lapsed *)
(* and was taken over neither finishes nor requeues the event, not even     *)
(* after the one who took over gave it back.                                *)
Holds(w, e) == job[w].event = e /\ Busy(w) /\ job[w].attempt = attempts[e]

LatestClaimEnds ==
  [][\A e \in Events :
       status[e] = "CLAIMED" /\ status'[e] # "CLAIMED" =>
         Holds(owner[e], e) /\ job'[owner[e]].pc \in {"acked", "failed"}]_vars

(* The rows of the table events follow the lease discipline the engine is   *)
(* verified against, for every clock reading a cycle may have captured.     *)
lapsed == [e \in Events |-> status[e] = "CLAIMED" /\ until[e] <= 0]
Leases == INSTANCE LeaseQueue

ImplementsLeaseQueue == Leases!Spec

(* A cycle that outlasts its lease, or the longest delay a failure can earn *)
(* before the next cycle begins.                                            *)
Slow(w) == Busy(w) /\ (job[w].age >= Lease \/ job[w].age + Poll >= MaxDelay)

(* An event that fails for ever, with whatever priority and whether or not  *)
(* it ever reaches fail_event, does not keep the queue from the others: as  *)
(* long as cycles are not slow again and again, every one of them has its   *)
(* turn.                                                                    *)
NoneStarves ==
  \A e \in Events \ Failing :
    status[e] # "ABSENT" ~> status[e] = "DONE" \/ \E w \in Workers : Slow(w)
=============================================================================
