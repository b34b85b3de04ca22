-------------------------- MODULE EventQueueProofs --------------------------
(***************************************************************************)
(* Proofs about EventQueue, for any producers, workers, keys, requests,     *)
(* delays and clocks: cycles stall past their leases, statements fail and   *)
(* processes die anywhere.                                                  *)
(***************************************************************************)
EXTENDS EventQueue, TLAPS

(* A worker in its cycle has journalled a claim, carries the attempt of the *)
(* claim it holds if it still owns the event, and journals an               *)
(* acknowledgement only of a finished event.                                *)
WorkerInv(w) ==
  Busy(w) =>
    /\ job[w].event \in Events
    /\ "CLAIMED" \in journal[job[w].event]
    /\ owner[job[w].event] = w => job[w].attempt = attempts[job[w].event]
    /\ job[w].pc = "acked" => status[job[w].event] = "DONE"

(* What a producer was told of the row under its key. *)
ProducerInv(p) ==
  prod[p].pc \in {"lookup", "insert", "inserted", "accepted", "refused"} =>
    /\ prod[p].key \in Events /\ prod[p].request \in Requests
    /\ prod[p].pc \in {"inserted", "accepted"} => request[prod[p].key] = prod[p].request
    /\ prod[p].pc = "refused" => request[prod[p].key] \notin {None, prod[p].request}

RowInv(e) ==
  /\ status[e] = "ABSENT" <=> request[e] = None
  /\ "ACKED" \in journal[e] => status[e] = "DONE"
  /\ "RETRY" \in journal[e] => "CLAIMED" \in journal[e]
  /\ status[e] \in {"CLAIMED", "DONE"} => "CLAIMED" \in journal[e]

IInv ==
  /\ TypeOK
  /\ \A w \in Workers : WorkerInv(w)
  /\ \A p \in Producers : ProducerInv(p)
  /\ \A e \in Events : RowInv(e)

USE QueueAssumption

LEMMA Bounds ==
  /\ Lease \in Nat /\ Poll \in Nat /\ MaxDelay \in Nat /\ MaxWait \in Nat
  /\ MaxAttempts \in Nat /\ MaxAttempts > 0
OBVIOUS

JobRow == [pc : Points, event : Events \cup {None}, age : Nat,
           attempt : 0..MaxAttempts, slow : BOOLEAN]

LEMMA JobRows ==
  /\ NoJob \in JobRow /\ Sleeping \in JobRow
  /\ \A row \in JobRow, pc \in Points :
       /\ [row EXCEPT !.pc = pc] \in JobRow
       /\ [row EXCEPT !.pc = pc].pc = pc
       /\ [row EXCEPT !.pc = pc].event = row.event
       /\ [row EXCEPT !.pc = pc].attempt = row.attempt
<1>1. 0 \in 0..MaxAttempts BY Bounds
<1> QED BY <1>1 DEF NoJob, Sleeping, JobRow, Points

(* A worker's row stays one as it moves. *)
LEMMA JobMoves ==
  ASSUME job \in [Workers -> JobRow], NEW w \in Workers
  PROVE  /\ \A row \in JobRow : job' = [job EXCEPT ![w] = row] => job' \in [Workers -> JobRow]
         /\ \A pc \in Points : Go(w, pc) => job' \in [Workers -> JobRow]
         /\ Sleep(w) => job' \in [Workers -> JobRow]
<1>1. ASSUME NEW row \in JobRow, job' = [job EXCEPT ![w] = row]
      PROVE  job' \in [Workers -> JobRow]
  BY <1>1
<1>2. ASSUME NEW pc \in Points, Go(w, pc)
      PROVE  job' \in [Workers -> JobRow]
  <2>1. [job[w] EXCEPT !.pc = pc] \in JobRow BY JobRows
  <2>2. job' = [job EXCEPT ![w] = [job[w] EXCEPT !.pc = pc]] BY <1>2 DEF Go
  <2> QED BY <1>1, <2>1, <2>2
<1>3. Sleep(w) => job' \in [Workers -> JobRow] BY <1>1, JobRows DEF Sleep
<1> QED BY <1>1, <1>2, <1>3

(* So it does as time passes, whatever it is doing.                         *)
LEMMA TimeAges ==
  ASSUME job \in [Workers -> JobRow], Tick
  PROVE  job' \in [Workers -> JobRow]
<1>1. ASSUME NEW row \in JobRow, NEW age \in Nat
      PROVE  [row EXCEPT !.age = age] \in JobRow
  BY <1>1 DEF JobRow
<1>2. ASSUME NEW w \in Workers PROVE job'[w] \in JobRow
  <2>1. job[w] \in JobRow /\ job[w].age \in Nat BY DEF JobRow
  <2>2. job[w].age + 1 \in Nat BY <2>1
  <2> QED BY <1>1, <2>1, <2>2 DEF Tick
<1> QED BY <1>2 DEF Tick

LEMMA NewRowDelays ==
  ASSUME NEW e \in Events, NEW q, avail \in [Events -> Int], NewRow(e, q)
  PROVE  avail' \in [Events -> Int]
<1>1. PICK d \in Delays : avail' = [avail EXCEPT ![e] = d] BY DEF NewRow
<1>2. d \in Int OBVIOUS
<1> QED BY <1>1, <1>2

CallRow == [pc : Calls, key : Events \cup {None}, request : Requests \cup {None}]

(* A call of a producer stays one as it moves on, and a journal a journal.   *)
LEMMA ReplyType ==
  ASSUME prod \in [Producers -> CallRow], NEW p \in Producers, NEW pc \in Calls, Reply(p, pc)
  PROVE  prod' \in [Producers -> CallRow]
<1>1. [prod[p] EXCEPT !.pc = pc] \in CallRow BY DEF CallRow
<1>2. prod' = [prod EXCEPT ![p] = [prod[p] EXCEPT !.pc = pc]] BY DEF Reply
<1> QED BY <1>1, <1>2

Types == {"ENQUEUED", "CLAIMED", "ACKED", "RETRY"}

LEMMA NoteType ==
  ASSUME journal \in [Events -> SUBSET Types], NEW e \in Events, NEW type \in Types, Note(e, type)
  PROVE  journal' \in [Events -> SUBSET Types]
<1>1. journal[e] \cup {type} \in SUBSET Types OBVIOUS
<1>2. journal' = [journal EXCEPT ![e] = journal[e] \cup {type}] BY DEF Note
<1> QED BY <1>1, <1>2

LEMMA BackoffType ==
  ASSUME NEW n \in Nat
  PROVE  Backoff(n) \in Nat
<1>1. Least(n, 6) \in 0..6 BY SMT DEF Least
<1>2. 2 ^ Least(n, 6) \in Nat BY <1>1, PowersAssumption
<1>3. MaxDelay \in Nat BY Bounds
<1> QED BY <1>2, <1>3 DEF Backoff, Least

LEMMA InitInv == Init => IInv
BY SMT DEF Init, IInv, TypeOK, WorkerInv, ProducerInv, RowInv, NoJob, NoCall, Busy,
           Statuses, Points, Calls

-----------------------------------------------------------------------------
(* What no step takes back, and what that keeps.                            *)
Keeps ==
  \A e \in Events :
    /\ status[e] = "DONE" => status'[e] = "DONE"
    /\ "CLAIMED" \in journal[e] => "CLAIMED" \in journal'[e]
    /\ request[e] # None => request'[e] = request[e]

LEMMA WorkerStays ==
  ASSUME IInv, Keeps, NEW w \in Workers,
         job'[w].pc = job[w].pc, job'[w].event = job[w].event,
         job'[w].attempt = job[w].attempt,
         \A e \in Events : owner'[e] = w => owner[e] = w /\ attempts'[e] = attempts[e]
  PROVE  WorkerInv(w)'
<1> SUFFICES ASSUME Busy(w)
             PROVE  WorkerInv(w)'
  BY DEF WorkerInv, Busy
<1> DEFINE e == job[w].event
<1>1. WorkerInv(w) BY DEF IInv
<1>2. e \in Events BY <1>1 DEF WorkerInv
<1>3. "CLAIMED" \in journal'[e] BY <1>1, <1>2 DEF WorkerInv, Keeps
<1>4. owner'[e] = w => job'[w].attempt = attempts'[e] BY <1>1, <1>2 DEF WorkerInv
<1>5. job[w].pc = "acked" => status'[e] = "DONE" BY <1>1, <1>2 DEF WorkerInv, Keeps
<1> QED BY <1>2, <1>3, <1>4, <1>5 DEF WorkerInv

LEMMA ProducerStays ==
  ASSUME IInv, Keeps, NEW p \in Producers, prod'[p] = prod[p]
  PROVE  ProducerInv(p)'
<1> DEFINE e == prod[p].key
<1> SUFFICES ASSUME prod[p].pc \in {"lookup", "insert", "inserted", "accepted", "refused"}
             PROVE  ProducerInv(p)'
  BY DEF ProducerInv
<1>1. ProducerInv(p) BY DEF IInv
<1>2. e \in Events /\ prod[p].request \in Requests BY <1>1 DEF ProducerInv
<1>3. prod[p].pc \in {"inserted", "accepted"} => request'[e] = prod[p].request
  BY <1>1, <1>2 DEF ProducerInv, Keeps
<1>4. prod[p].pc = "refused" => request'[e] \notin {None, prod[p].request}
  BY <1>1, <1>2 DEF ProducerInv, Keeps
<1> QED BY <1>2, <1>3, <1>4 DEF ProducerInv

-----------------------------------------------------------------------------
(* The producers: rows appear, nothing else changes. *)
LEMMA ProduceStep ==
  ASSUME IInv, NEW p \in Producers, Produce(p) \/ Abort(p)
  PROVE  IInv'
<1> USE DEF IInv, TypeOK
<1>0. job \in [Workers -> JobRow] BY DEF JobRow
<1> DEFINE e == prod[p].key
<1>1. prod[p].pc \in {"lookup", "insert", "inserted"} => e \in Events /\ prod[p].request \in Requests
  BY DEF ProducerInv
<1>2. UNCHANGED job /\ UNCHANGED owner /\ UNCHANGED attempts
  BY DEF Produce, Request, Lookup, Insert, NoteEnqueued, EnqueueAtOnce, Abort, NewRow, rowVars
<1>3. \A q \in Producers : q # p => prod'[q] = prod[q]
  BY DEF Produce, Request, Lookup, Insert, NoteEnqueued, EnqueueAtOnce, Abort, Reply
<1>4. CASE Request(p)
  <2>1. TypeOK' BY <1>4 DEF Request, rowVars, Calls
  <2>2. Keeps /\ ProducerInv(p)' BY <1>4 DEF Request, rowVars, Keeps, ProducerInv
  <2>3. \A f \in Events : RowInv(f)' BY <1>4 DEF Request, rowVars, RowInv
  <2> QED BY <1>2, <1>3, <2>1, <2>2, <2>3, WorkerStays, ProducerStays
<1>5. CASE Lookup(p) \/ Abort(p)
  <2>1. TypeOK' BY <1>5 DEF Lookup, Abort, Reply, Answer, rowVars, Calls, Spend
  <2>2. Keeps BY <1>5 DEF Lookup, Abort, rowVars, Keeps
  <2>3. \A f \in Events : RowInv(f)' BY <1>5 DEF Lookup, Abort, rowVars, RowInv
  <2>4. ProducerInv(p)'
    BY <1>1, <1>5 DEF Lookup, Abort, Reply, Answer, rowVars, ProducerInv, RowInv
  <2> QED BY <1>2, <1>3, <2>1, <2>2, <2>3, <2>4, WorkerStays, ProducerStays
<1>6. CASE NoteEnqueued(p)
  <2>a. e \in Events /\ "ENQUEUED" \in Types /\ "accepted" \in Calls
    BY <1>1, <1>6 DEF NoteEnqueued, Types, Calls
  <2>b. Note(e, "ENQUEUED") /\ Reply(p, "accepted") /\ UNCHANGED <<rowVars, job, faults>>
    BY <1>6 DEF NoteEnqueued
  <2>c. prod' \in [Producers -> CallRow] BY <2>a, <2>b, ReplyType DEF CallRow
  <2>d. journal' \in [Events -> SUBSET Types] BY <2>a, <2>b, NoteType DEF Types
  <2>1. TypeOK' BY <2>b, <2>c, <2>d DEF CallRow, Types, rowVars
  <2>2. Keeps BY <1>6 DEF NoteEnqueued, Note, rowVars, Keeps
  <2>3. \A f \in Events : RowInv(f)' BY <1>6 DEF NoteEnqueued, Note, rowVars, RowInv
  <2>4. ProducerInv(p)' BY <1>6 DEF NoteEnqueued, Note, Reply, rowVars, ProducerInv
  <2> QED BY <1>2, <1>3, <2>1, <2>2, <2>3, <2>4, WorkerStays, ProducerStays
<1>7. CASE Insert(p) /\ status[e] # "ABSENT"
  <2>1. TypeOK' BY <1>7 DEF Insert, Reply, Raced, Answer, rowVars, Calls
  <2>2. Keeps BY <1>7 DEF Insert, rowVars, Keeps
  <2>3. \A f \in Events : RowInv(f)' BY <1>7 DEF Insert, rowVars, RowInv
  <2>4. ProducerInv(p)'
    BY <1>1, <1>7 DEF Insert, Reply, Raced, Answer, rowVars, ProducerInv, RowInv
  <2> QED BY <1>2, <1>3, <2>1, <2>2, <2>3, <2>4, WorkerStays, ProducerStays
<1>8. ASSUME e \in Events, prod[p].request \in Requests, status[e] = "ABSENT",
             NewRow(e, prod[p].request), UNCHANGED <<job, faults>>,
             UNCHANGED journal \/ Note(e, "ENQUEUED"),
             Reply(p, "inserted") \/ Reply(p, "accepted")
      PROVE  IInv'
  <2>1. TypeOK'
    <3>2. avail' \in [Events -> Int] BY <1>8, NewRowDelays
    <3>3. status' \in [Events -> Statuses] BY <1>8 DEF NewRow, Statuses
    <3>4. request' \in [Events -> Requests \cup {None}] BY <1>8 DEF NewRow
    <3>5. journal' \in [Events -> SUBSET {"ENQUEUED", "CLAIMED", "ACKED", "RETRY"}]
      BY <1>8 DEF Note
    <3>6. prod' \in [Producers -> [pc : Calls, key : Events \cup {None},
                                   request : Requests \cup {None}]]
      <4>1. "inserted" \in Calls /\ "accepted" \in Calls BY DEF Calls
      <4> QED BY <1>8, <4>1, ReplyType DEF CallRow
    <3>7. \A f \in Events : status'[f] = "CLAIMED" <=> owner'[f] # None
      BY <1>2, <1>8 DEF NewRow
    <3> QED BY <1>2, <1>8, <3>2, <3>3, <3>4, <3>5, <3>6, <3>7 DEF NewRow
  <2>2. Keeps BY <1>8 DEF NewRow, Note, Keeps, RowInv
  <2>3. \A f \in Events : RowInv(f)' BY <1>8 DEF NewRow, Note, RowInv
  <2>4. ProducerInv(p)' BY <1>8 DEF NewRow, Reply, ProducerInv
  <2> QED BY <1>2, <1>3, <2>1, <2>2, <2>3, <2>4, WorkerStays, ProducerStays
<1>9. CASE (Insert(p) /\ status[e] = "ABSENT") \/ EnqueueAtOnce(p)
  BY <1>1, <1>8, <1>9 DEF Insert, EnqueueAtOnce
<1> QED BY <1>4, <1>5, <1>6, <1>7, <1>9 DEF Produce

-----------------------------------------------------------------------------
(* Workers between claims: their rows stay.                                 *)
LEMMA IdleStep ==
  ASSUME IInv, NEW w \in Workers,
         Boot(w) \/ Wake(w) \/ NothingDue(w) \/ Handle(w) \/ StatementFails(w) \/ Die(w) \/ Stall(w)
  PROVE  IInv'
<1> USE DEF IInv, TypeOK
<1>0. job \in [Workers -> JobRow] BY DEF JobRow
<1>1. UNCHANGED <<rowVars, journal, prod>>
  BY DEF Boot, Wake, NothingDue, Handle, StatementFails, Die, Stall
<1>2. Keeps BY <1>1 DEF Keeps, rowVars
<1>3. \A v \in Workers : v # w => job'[v] = job[v]
  BY DEF Boot, Wake, NothingDue, Handle, StatementFails, Die, Stall, Sleep, Go
<1>4. /\ job' \in [Workers -> JobRow]
      /\ faults' \in Nat
  <2> USE <1>0, JobMoves
  <2>1. CASE Boot(w)
    <3>1. [Sleeping EXCEPT !.age = Poll] \in JobRow BY JobRows, Bounds DEF JobRow
    <3> QED BY <2>1, <3>1 DEF Boot
  <2>2. CASE Wake(w)
    <3>1. [job[w] EXCEPT !.pc = "claim", !.age = 0] \in JobRow
      <4>1. job[w] \in JobRow BY <1>0
      <4> QED BY <4>1 DEF JobRow, Points
    <3>2. job' = [job EXCEPT ![w] = [job[w] EXCEPT !.pc = "claim", !.age = 0]]
      BY <1>0, <2>2 DEF Wake, JobRow
    <3> QED BY <2>2, <3>1, <3>2 DEF Wake
  <2>3. CASE NothingDue(w) BY <2>3 DEF NothingDue
  <2>4. CASE Handle(w) BY <2>4 DEF Handle, Points, Spend
  <2>5. CASE StatementFails(w) BY <2>5 DEF StatementFails, Points, Spend
  <2>6. CASE Die(w) BY <2>6, JobRows DEF Die, Spend
  <2>7. CASE Stall(w)
    <3>1. [job[w] EXCEPT !.slow = TRUE] \in JobRow
      <4>1. job[w] \in JobRow BY <1>0
      <4> QED BY <4>1 DEF JobRow
    <3> QED BY <2>7, <3>1 DEF Stall, Spend
  <2> QED BY <2>1, <2>2, <2>3, <2>4, <2>5, <2>6, <2>7
<1>5. TypeOK' BY <1>1, <1>4 DEF rowVars, JobRow
<1>6. WorkerInv(w)'
  <2>1. CASE Boot(w) BY <2>1 DEF Boot, NoJob, Sleeping, WorkerInv, Busy
  <2>2. CASE Wake(w) \/ NothingDue(w)
    BY <2>2 DEF Wake, NothingDue, Sleep, NoJob, Sleeping, WorkerInv, Busy
  <2>3. CASE Handle(w)
    BY <1>1, <2>3 DEF Handle, At, Go, Sleep, NoJob, Sleeping, WorkerInv, Busy, rowVars
  <2>4. CASE StatementFails(w)
    BY <1>1, <2>4 DEF StatementFails, At, Go, Sleep, NoJob, Sleeping, WorkerInv, Busy, rowVars
  <2>5. CASE Die(w) \/ Stall(w)
    BY <1>1, <2>5 DEF Die, Stall, NoJob, WorkerInv, Busy, rowVars
  <2> QED BY <2>1, <2>2, <2>3, <2>4, <2>5
<1>7. \A v \in Workers : WorkerInv(v)' BY <1>1, <1>2, <1>3, <1>6, WorkerStays DEF rowVars
<1>8. \A p \in Producers : ProducerInv(p)' BY <1>1, <1>2, ProducerStays
<1>9. \A e \in Events : RowInv(e)' BY <1>1 DEF RowInv, rowVars
<1> QED BY <1>5, <1>7, <1>8, <1>9

(* A claim takes the event from whoever held it. *)
LEMMA ClaimStep ==
  ASSUME IInv, NEW w \in Workers, NEW e \in Events, Claim(w, e)
  PROVE  IInv'
<1> USE DEF IInv, TypeOK
<1>0. job \in [Workers -> JobRow] BY DEF JobRow
<1> DEFINE n == Least(attempts[e] + 1, MaxAttempts)
<1>1. n \in 0..MaxAttempts BY Bounds DEF Least
<1>2. status[e] \in {"PENDING", "CLAIMED"} BY DEF Claim, Due
<1>3. TypeOK'
  <2>1. job' \in [Workers -> JobRow]
    <3>1. [job[w] EXCEPT !.pc = "work", !.event = e, !.attempt = n] \in JobRow
      <4>1. job[w] \in JobRow BY <1>0
      <4> QED BY <1>1, <4>1 DEF JobRow, Points
    <3> QED BY <1>0, <3>1, JobMoves DEF Claim
  <2>2. until' \in [Events -> Int] /\ attempts' \in [Events -> 0..MaxAttempts]
    BY <1>1 DEF Claim
  <2>3. status' \in [Events -> Statuses] /\ owner' \in [Events -> Workers \cup {None}]
    BY DEF Claim, Statuses
  <2>4. journal' \in [Events -> SUBSET {"ENQUEUED", "CLAIMED", "ACKED", "RETRY"}]
    BY DEF Claim, Note
  <2>5. \A f \in Events : status'[f] = "CLAIMED" <=> owner'[f] # None BY DEF Claim
  <2> QED BY <2>1, <2>2, <2>3, <2>4, <2>5 DEF Claim, JobRow
<1>4. Keeps BY <1>2 DEF Claim, Note, Keeps
<1>5. WorkerInv(w)' BY <1>2 DEF Claim, Note, WorkerInv
<1>6. \A v \in Workers : v # w => WorkerInv(v)' BY <1>4, WorkerStays DEF Claim
<1>7. \A p \in Producers : ProducerInv(p)' BY <1>4, ProducerStays DEF Claim
<1>8. \A f \in Events : RowInv(f)' BY <1>2 DEF Claim, Note, RowInv
<1> QED BY <1>3, <1>5, <1>6, <1>7, <1>8

(* The owner settles: by the invariant, it holds the latest claim.          *)
LEMMA SettleStep ==
  ASSUME IInv, NEW w \in Workers, Ack(w) \/ Fail(w)
  PROVE  IInv'
<1> USE DEF IInv, TypeOK
<1>0. job \in [Workers -> JobRow] BY DEF JobRow
<1> DEFINE e == job[w].event
<1>1. e \in Events BY DEF Ack, Fail, At, WorkerInv, Busy
<1>2. \A v \in Workers : v # w => job'[v] = job[v] BY DEF Ack, AckLost, Fail, Go, Sleep
<1>3. CASE ~Owns(w, e)
  <2>1. UNCHANGED <<rowVars, journal, prod, faults>> BY <1>3 DEF Ack, AckLost, Fail
  <2>2. Go(w, "fail") \/ Sleep(w) BY <1>3 DEF Ack, AckLost, Fail
  <2>3. TypeOK'
    <3>1. job' \in [Workers -> JobRow] BY <1>0, <2>2, JobMoves DEF Points
    <3> QED BY <2>1, <3>1 DEF JobRow, rowVars
  <2>4. Keeps BY <2>1 DEF Keeps, rowVars
  <2>5. Busy(w) BY DEF Ack, Fail, At, Busy
  <2>6. WorkerInv(w)' BY <2>1, <2>2, <2>5 DEF Go, Sleep, Sleeping, NoJob, WorkerInv, Busy, rowVars
  <2>7. \A v \in Workers : v # w => WorkerInv(v)' BY <1>2, <2>1, <2>4, WorkerStays DEF rowVars
  <2>8. \A p \in Producers : ProducerInv(p)' BY <2>1, <2>4, ProducerStays
  <2>9. \A f \in Events : RowInv(f)' BY <2>1 DEF RowInv, rowVars
  <2> QED BY <2>3, <2>6, <2>7, <2>8, <2>9
<1>4. CASE Owns(w, e)
  <2>1. \/ Settle(e, "DONE") /\ Go(w, "acked") /\ UNCHANGED avail
        \/ Settle(e, "PENDING") /\ Go(w, "failed")
           /\ avail' = [avail EXCEPT ![e] = Greatest(RetryAt(w), -MaxWait)]
    BY <1>4 DEF Ack, Fail
  <2>2. UNCHANGED <<journal, prod, faults>> BY DEF Ack, Fail
  <2>3. status[e] = "CLAIMED" /\ owner[e] = w BY <1>4 DEF Owns
  <2>4. TypeOK'
    <3>1. Greatest(RetryAt(w), -MaxWait) \in Int
      <4>1. Backoff(job[w].attempt) \in Nat BY BackoffType
      <4> QED BY <4>1 DEF RetryAt, Greatest
    <3>2. avail' \in [Events -> Int] BY <2>1, <3>1
    <3>3. job' \in [Workers -> JobRow]
      BY <1>0, <2>1, JobMoves DEF Points
    <3>4. /\ status' \in [Events -> Statuses] /\ owner' \in [Events -> Workers \cup {None}]
          /\ until' \in [Events -> Int] /\ UNCHANGED <<attempts, request>>
      BY <2>1 DEF Settle, Statuses
    <3>5. \A f \in Events : status'[f] = "CLAIMED" <=> owner'[f] # None BY <2>1 DEF Settle
    <3> QED BY <2>2, <3>2, <3>3, <3>4, <3>5 DEF JobRow
  <2>5. Keeps BY <2>1, <2>2, <2>3 DEF Keeps, Settle
  <2>6. WorkerInv(w)'
    <3>1. WorkerInv(w) /\ Busy(w) BY DEF Ack, Fail, At, Busy
    <3>2. owner'[e] # w BY <1>1, <2>1 DEF Settle
    <3>3. job'[w].event = e /\ job'[w].pc \in {"acked", "failed"} BY <2>1 DEF Go
    <3>4. job'[w].pc = "acked" => status'[e] = "DONE" BY <1>1, <2>1 DEF Go, Settle
    <3> QED BY <1>1, <2>2, <3>1, <3>2, <3>3, <3>4 DEF WorkerInv
  <2>7. \A f \in Events, v \in Workers :
          owner'[f] = v => owner[f] = v /\ attempts'[f] = attempts[f]
    BY <2>1 DEF Settle
  <2>8. \A v \in Workers : v # w => WorkerInv(v)' BY <1>2, <2>5, <2>7, WorkerStays
  <2>9. \A p \in Producers : ProducerInv(p)' BY <2>2, <2>5, ProducerStays
  <2>10. \A f \in Events : RowInv(f)' BY <2>1, <2>2, <2>3 DEF RowInv, Settle
  <2> QED BY <2>4, <2>6, <2>8, <2>9, <2>10
<1> QED BY <1>3, <1>4

(* The journal rows after it. *)
LEMMA NoteStep ==
  ASSUME IInv, NEW w \in Workers, NoteAcked(w) \/ NoteFailed(w)
  PROVE  IInv'
<1> USE DEF IInv, TypeOK
<1>0. job \in [Workers -> JobRow] BY DEF JobRow
<1> DEFINE e == job[w].event
<1>1. WorkerInv(w) /\ Busy(w) BY DEF NoteAcked, NoteFailed, At, Busy
<1>2. e \in Events /\ "CLAIMED" \in journal[e] BY <1>1 DEF WorkerInv
<1>3. UNCHANGED <<rowVars, prod, faults>> /\ Sleep(w) BY DEF NoteAcked, NoteFailed
<1>4. \/ Note(e, "ACKED") /\ status[e] = "DONE"
      \/ Note(e, "RETRY")
  BY <1>1 DEF NoteAcked, NoteFailed, WorkerInv, At
<1>5. TypeOK'
  <2>1. job' \in [Workers -> JobRow] BY <1>0, <1>3, JobRows DEF Sleep
  <2>2. journal' \in [Events -> SUBSET {"ENQUEUED", "CLAIMED", "ACKED", "RETRY"}]
    BY <1>4 DEF Note
  <2> QED BY <1>3, <2>1, <2>2 DEF JobRow, rowVars
<1>6. Keeps BY <1>3, <1>4 DEF Keeps, Note, rowVars
<1>7. WorkerInv(w)' BY <1>3 DEF Sleep, Sleeping, NoJob, WorkerInv, Busy
<1>8. \A v \in Workers : v # w => WorkerInv(v)' BY <1>3, <1>6, WorkerStays DEF Sleep, rowVars
<1>9. \A p \in Producers : ProducerInv(p)' BY <1>3, <1>6, ProducerStays
<1>10. \A f \in Events : RowInv(f)' BY <1>2, <1>3, <1>4 DEF RowInv, Note, rowVars
<1> QED BY <1>5, <1>7, <1>8, <1>9, <1>10

(* Time takes nothing from the rows but time. *)
LEMMA TickStep ==
  ASSUME IInv, Tick
  PROVE  IInv'
<1> USE DEF IInv, TypeOK
<1>0. job \in [Workers -> JobRow] BY DEF JobRow
<1>1. UNCHANGED <<status, owner, attempts, request, journal, prod, faults>> BY DEF Tick
<1>2. \A w \in Workers :
        /\ job'[w].pc = job[w].pc /\ job'[w].event = job[w].event
        /\ job'[w].attempt = job[w].attempt
  BY DEF Tick
<1>3. TypeOK'
  <2>1. until' \in [Events -> Int] /\ avail' \in [Events -> Int] BY DEF Tick, Pass
  <2>2. job' \in [Workers -> JobRow] BY <1>0, TimeAges
  <2> QED BY <1>1, <2>1, <2>2 DEF JobRow
<1>4. Keeps BY <1>1 DEF Keeps
<1>5. \A w \in Workers : WorkerInv(w)' BY <1>1, <1>2, <1>4, WorkerStays
<1>6. \A p \in Producers : ProducerInv(p)' BY <1>1, <1>4, ProducerStays
<1>7. \A e \in Events : RowInv(e)' BY <1>1 DEF RowInv
<1> QED BY <1>3, <1>5, <1>6, <1>7

LEMMA InvStep ==
  ASSUME IInv, [Next]_vars
  PROVE  IInv'
<1>1. CASE \E p \in Producers : Produce(p) \/ Abort(p) BY <1>1, ProduceStep
<1>2. CASE \E w \in Workers : Work(w) \/ StatementFails(w) \/ Die(w) \/ Stall(w)
  BY <1>2, IdleStep, ClaimStep, SettleStep, NoteStep DEF Work
<1>3. CASE Tick BY <1>3, TickStep
<1>4. CASE UNCHANGED vars
  BY <1>4 DEF vars, rowVars, IInv, TypeOK, WorkerInv, ProducerInv, RowInv, Busy
<1> QED BY <1>1, <1>2, <1>3, <1>4 DEF Next

THEOREM InvHolds == Spec => []IInv
<1>1. IInv /\ [Next]_vars => IInv' BY InvStep
<1> QED BY InitInv, <1>1, PTL DEF Spec

(* Rows, workers and producers stay well typed, and a row names an owner    *)
(* exactly while it is claimed, for any number of stalls and deaths.        *)
THEOREM TypeCorrect == Spec => []TypeOK
<1>1. IInv => TypeOK BY DEF IInv
<1> QED BY InvHolds, <1>1, PTL

(* However producers race on a dedup key, a request is accepted only if the *)
(* row holds it, and refused only if the row holds another.                 *)
THEOREM RequestsAreBound == Spec => []AcceptedIsBound
<1>1. IInv => AcceptedIsBound BY DEF IInv, ProducerInv, AcceptedIsBound
<1> QED BY InvHolds, <1>1, PTL

(* The journal is never ahead of the rows.                                  *)
THEOREM JournalTellsTruth == Spec => []JournalIsHonest
<1>1. IInv => JournalIsHonest BY DEF IInv, RowInv, JournalIsHonest
<1> QED BY InvHolds, <1>1, PTL

-----------------------------------------------------------------------------
(* A claim ends by its owner's acknowledgement or failure only.             *)
LEMMA ClaimEnds ==
  ASSUME IInv, Next, NEW e \in Events, status[e] = "CLAIMED", status'[e] # "CLAIMED"
  PROVE  \E w \in Workers : (Ack(w) \/ Fail(w)) /\ Owns(w, e) /\ job[w].event = e
<1> USE DEF IInv, TypeOK
<1>1. CASE \E p \in Producers : Produce(p) \/ Abort(p)
  BY <1>1 DEF Produce, Request, Lookup, Insert, NoteEnqueued, EnqueueAtOnce, Abort, NewRow, rowVars
<1>2. CASE Tick BY <1>2 DEF Tick
<1>3. ASSUME NEW w \in Workers, Work(w) \/ StatementFails(w) \/ Die(w) \/ Stall(w)
      PROVE  Ack(w) \/ Fail(w)
  BY <1>3 DEF Work, Boot, Wake, NothingDue, Claim, Handle, NoteAcked, NoteFailed,
              StatementFails, Die, Stall, rowVars
<1>4. ASSUME NEW w \in Workers, Ack(w) \/ Fail(w)
      PROVE  Owns(w, e) /\ job[w].event = e
  <2>1. job[w].event \in Events BY <1>4 DEF Ack, Fail, At, WorkerInv, Busy
  <2>2. Owns(w, job[w].event) BY <1>4 DEF Ack, Fail, AckLost, rowVars
  <2>3. Settle(job[w].event, "DONE") \/ Settle(job[w].event, "PENDING") BY <1>4, <2>2 DEF Ack, Fail
  <2>4. job[w].event = e BY <2>1, <2>3 DEF Settle
  <2> QED BY <2>2, <2>4
<1> QED BY <1>1, <1>2, <1>3, <1>4 DEF Next

(* Whoever stalled past its lease does not end the claim of another.        *)
THEOREM OnlyLatestClaimEnds == Spec => LatestClaimEnds
<1>1. ASSUME IInv, [Next]_vars, NEW e \in Events, status[e] = "CLAIMED", status'[e] # "CLAIMED"
      PROVE  Holds(owner[e], e) /\ job'[owner[e]].pc \in {"acked", "failed"}
  <2>1. Next BY <1>1 DEF vars, rowVars
  <2>2. PICK w \in Workers : (Ack(w) \/ Fail(w)) /\ Owns(w, e) /\ job[w].event = e
    BY <1>1, <2>1, ClaimEnds
  <2>3. owner[e] = w BY <2>2 DEF Owns
  <2>4. Busy(w) /\ WorkerInv(w) BY <1>1, <2>2 DEF Ack, Fail, At, Busy, IInv
  <2>5. Holds(w, e) BY <2>2, <2>3, <2>4 DEF Holds, WorkerInv
  <2>6. Go(w, "acked") \/ Go(w, "failed") BY <2>2 DEF Ack, Fail
  <2>7. job'[w].pc \in {"acked", "failed"} BY <1>1, <2>6 DEF Go, IInv, TypeOK
  <2> QED BY <2>3, <2>5, <2>7
<1>2. IInv /\ [Next]_vars =>
        [\A e \in Events : status[e] = "CLAIMED" /\ status'[e] # "CLAIMED" =>
           Holds(owner[e], e) /\ job'[owner[e]].pc \in {"acked", "failed"}]_vars
  BY <1>1
<1> QED BY InvHolds, <1>2, PTL DEF Spec, LatestClaimEnds

-----------------------------------------------------------------------------
(* Every step is one of the lease queue's, or none: a claim may come with a *)
(* lease that has passed, and time ends any number of leases at once.       *)
LEMMA LeaseInit == Init => Leases!Init
BY DEF Init, Leases!Init, lapsed

LEMMA RowsStay ==
  ASSUME IInv, UNCHANGED rowVars
  PROVE  UNCHANGED Leases!vars
BY DEF rowVars, Leases!vars, lapsed

LEMMA LeaseRow ==
  ASSUME IInv, NEW p \in Producers, Produce(p)
  PROVE  [Leases!Next]_(Leases!vars)
<1> USE DEF IInv, TypeOK
<1> DEFINE e == prod[p].key
<1>1. CASE UNCHANGED rowVars BY <1>1, RowsStay
<1>2. CASE ~UNCHANGED rowVars
  <2>1. e \in Events /\ status[e] = "ABSENT" /\ NewRow(e, prod[p].request)
    BY <1>2 DEF Produce, Request, Lookup, Insert, NoteEnqueued, EnqueueAtOnce, ProducerInv
  <2>2. status' = [status EXCEPT ![e] = IF @ = "ABSENT" THEN "PENDING" ELSE @]
    BY <2>1 DEF NewRow
  <2>3. lapsed' = lapsed BY <2>1 DEF NewRow, lapsed
  <2>4. Leases!Enqueue(e) BY <2>1, <2>2, <2>3 DEF Leases!Enqueue, NewRow
  <2> QED BY <2>1, <2>4 DEF Leases!Next
<1> QED BY <1>1, <1>2

LEMMA LeaseClaim ==
  ASSUME IInv, NEW w \in Workers, NEW e \in Events, Claim(w, e)
  PROVE  Leases!Next
<1> USE DEF IInv, TypeOK
<1>1. job[w].age \in Nat /\ until[e] \in Int OBVIOUS
<1>2. Leases!Claimable(e)
  <2>1. lapsed[e] = (status[e] = "CLAIMED" /\ until[e] <= 0) BY DEF lapsed
  <2>2. status[e] = "PENDING" \/ (status[e] = "CLAIMED" /\ until[e] <= -job[w].age)
    BY DEF Claim, Due
  <2>3. -job[w].age <= 0 BY <1>1
  <2>4. until[e] <= -job[w].age => until[e] <= 0 BY <1>1, <2>3
  <2> QED BY <2>1, <2>2, <2>4 DEF Leases!Claimable
<1>3. /\ status' = [status EXCEPT ![e] = "CLAIMED"]
      /\ owner' = [owner EXCEPT ![e] = w]
      /\ until' = [until EXCEPT ![e] = Lease - job[w].age]
  BY DEF Claim
<1>4. CASE Lease - job[w].age <= 0
  <2>1. lapsed' = [lapsed EXCEPT ![e] = TRUE] BY <1>3, <1>4 DEF lapsed
  <2> QED BY <1>2, <1>3, <2>1 DEF Leases!ClaimLate, Leases!Next
<1>5. CASE ~(Lease - job[w].age <= 0)
  <2>1. lapsed' = [lapsed EXCEPT ![e] = FALSE] BY <1>3, <1>5 DEF lapsed
  <2> QED BY <1>2, <1>3, <2>1 DEF Leases!Claim, Leases!Next
<1> QED BY <1>4, <1>5

LEMMA LeaseSettle ==
  ASSUME IInv, NEW w \in Workers, Ack(w) \/ Fail(w)
  PROVE  [Leases!Next]_(Leases!vars)
<1> USE DEF IInv, TypeOK
<1> DEFINE e == job[w].event
<1>1. e \in Events BY DEF Ack, Fail, At, WorkerInv, Busy
<1>2. CASE ~Owns(w, e) BY <1>2, RowsStay DEF Ack, Fail, AckLost
<1>3. CASE Owns(w, e)
  <2>1. ASSUME NEW state \in {"DONE", "PENDING"}, Settle(e, state)
        PROVE  Leases!Settle(e, state)
    <3>1. lapsed' = [lapsed EXCEPT ![e] = FALSE] BY <1>1, <2>1 DEF Settle, lapsed
    <3> QED BY <2>1, <3>1 DEF Settle, Leases!Settle
  <2>2. Settle(e, "DONE") \/ Settle(e, "PENDING") BY <1>3 DEF Ack, Fail
  <2>3. Leases!Owns(w, e) BY <1>3 DEF Owns, Leases!Owns
  <2> QED BY <1>1, <2>1, <2>2, <2>3 DEF Leases!Ack, Leases!Release, Leases!Next
<1> QED BY <1>2, <1>3

LEMMA LeaseTick ==
  ASSUME IInv, Tick
  PROVE  Leases!Next
<1> USE DEF IInv, TypeOK
<1> DEFINE E == {e \in Events : lapsed'[e] /\ ~lapsed[e]}
<1>1. \A e \in Events : lapsed[e] => lapsed'[e] BY DEF Tick, Pass, lapsed
<1>2. \A e \in E : status[e] = "CLAIMED" /\ ~lapsed[e] BY DEF Tick, lapsed
<1>3. lapsed' = [e \in Events |-> lapsed[e] \/ e \in E]
  <2>1. \A e \in Events : lapsed'[e] = (lapsed[e] \/ e \in E)
    <3>1. \A e \in Events : lapsed'[e] \in BOOLEAN /\ lapsed[e] \in BOOLEAN BY DEF lapsed
    <3> QED BY <1>1, <3>1
  <2>2. lapsed' = [e \in Events |-> lapsed'[e]] BY DEF lapsed
  <2> QED BY <2>1, <2>2
<1>4. Leases!Lapses(E) BY <1>2, <1>3 DEF Leases!Lapses, Tick
<1>5. E \in SUBSET Events OBVIOUS
<1> QED BY <1>4, <1>5 DEF Leases!Next

(* The queue with its clock implements the lease queue without one.         *)
THEOREM QueueIsLeased == Spec => ImplementsLeaseQueue
<1>1. ASSUME IInv, [Next]_vars
      PROVE  [Leases!Next]_(Leases!vars)
  <2>1. CASE UNCHANGED rowVars BY <1>1, <2>1, RowsStay
  <2>2. CASE \E p \in Producers : Produce(p) \/ Abort(p)
    BY <1>1, <2>2, LeaseRow, RowsStay DEF Abort
  <2>3. CASE \E w \in Workers : Work(w) \/ StatementFails(w) \/ Die(w) \/ Stall(w)
    <3>1. PICK w \in Workers : Work(w) \/ StatementFails(w) \/ Die(w) \/ Stall(w) BY <2>3
    <3>2. UNCHANGED rowVars \/ (\E e \in Events : Claim(w, e)) \/ Ack(w) \/ Fail(w)
      BY <3>1 DEF Work, Boot, Wake, NothingDue, Handle, NoteAcked, NoteFailed, StatementFails, Die, Stall
    <3> QED BY <1>1, <3>2, RowsStay, LeaseClaim, LeaseSettle
  <2>4. CASE Tick BY <1>1, <2>4, LeaseTick
  <2> QED BY <1>1, <2>1, <2>2, <2>3, <2>4 DEF Next, vars
<1> QED BY InvHolds, LeaseInit, <1>1, PTL DEF Spec, ImplementsLeaseQueue, Leases!Spec
=============================================================================
