-------------------------- MODULE RunEngineProofs --------------------------
(***************************************************************************)
(* Proofs about RunEngine, for any workers, hosts, runs, request ids,       *)
(* bodies and budgets: leases may lapse under live workers, request ids may *)
(* be reused, the host may lie, any process may die and any statement fail. *)
(***************************************************************************)
EXTENDS RunEngine, TLAPS

Statuses == {"ABSENT", "PENDING", "CLAIMED", "DONE"}

Types ==
  /\ run \in [Runs -> Row]
  /\ decision \in [Runs -> [Steps -> Plans \cup {None}]]
  /\ job \in [Callers -> Job]
  /\ status \in [Events -> Statuses]

(* No event runs ahead of the generation its run is at. *)
Scheduled ==
  \A r \in Runs :
    /\ run[r].status = "NONE" => run[r].step = 0
    /\ \A s \in Steps :
         status[<<r, s>>] # "ABSENT" => run[r].status # "NONE" /\ s <= run[r].step

(* Generation s of r needs its event no more. *)
Settled(r, s) == s < run[r].step \/ run[r].status # "RUNNING"

Acting == {"say", "tool", "block", "fail", "advance", "final", "complete"}

(* What the position of a worker or a host tells of the run and the step it *)
(* works on, however stale the row is that it read.                         *)
Doing(p) ==
  job[p].pc # "idle" =>
    LET r == job[p].run  s == job[p].step IN
    /\ r \in Runs /\ run[r].status # "NONE"
    /\ p \in Hosts => job[p].pc \in {"recover", "tool", "resume"}
    /\ p \in Workers =>
         /\ job[p].pc \notin {"recover", "resume"}
         /\ s <= run[r].step
         /\ job[p].pc \in {"decide", "ask", "admit"} \cup Acting => s < MaxSteps
         /\ job[p].pc \in {"drop", "ack"} => Settled(r, s)
         /\ job[p].pc = "admit" => job[p].plan \in Plans
         /\ job[p].pc \in Acting => decision[r][s] # None /\ job[p].plan = decision[r][s]

Inv == Types /\ Scheduled /\ NoStrandedRun /\ \A p \in Callers : Doing(p)

-----------------------------------------------------------------------------
(* How rows and decisions move, whoever moves them. *)

Onward(r) ==
  /\ run[r].status # "NONE" => run'[r].status # "NONE"
  /\ run[r].step <= run'[r].step
  /\ run'[r].status = "RUNNING" /\ run[r].status \notin {"RUNNING", "NONE"} =>
       run[r].step < run'[r].step

Monotone ==
  /\ \A r \in Runs : Onward(r)
  /\ \A r \in Runs : \A s \in Steps :
       decision[r][s] # None => decision'[r][s] = decision[r][s]

Tables == Types' /\ Scheduled' /\ NoStrandedRun' /\ Monotone

OnlyMoves(p) == \A q \in Callers \ {p} : job'[q] = job[q]

LEMMA Unmoved ==
  ASSUME Types, UNCHANGED run, NEW r \in Runs
  PROVE  Onward(r)
  <1>1. run[r].step \in Nat
    BY EngineAssumption DEF Types, Row, Steps
  <1> QED BY <1>1 DEF Onward

LEMMA StepsAreNumbers == Steps \subseteq Nat /\ MaxSteps \in Nat /\ 0 \in Steps
  BY EngineAssumption DEF Steps

(* Whoever does not move keeps what it knows. *)
LEMMA OthersKeep ==
  ASSUME Types, Types', Monotone, NEW p \in Callers, Doing(p), job'[p] = job[p]
  PROVE  Doing(p)'
  <1> DEFINE r == job[p].run
             s == job[p].step
  <1>1. SUFFICES ASSUME job[p].pc # "idle"
                 PROVE  Doing(p)'
    BY DEF Doing
  <1>2. r \in Runs /\ run[r].status # "NONE" /\ run'[r].status # "NONE"
    BY <1>1 DEF Doing, Monotone, Onward
  <1>3. s \in Steps /\ s \in Nat /\ run[r].step \in Nat /\ run'[r].step \in Nat
    BY <1>2, StepsAreNumbers DEF Types, Row, Job
  <1>4. ASSUME p \in Workers
        PROVE  s <= run'[r].step
    BY <1>1, <1>2, <1>3, <1>4 DEF Doing, Monotone, Onward
  <1>5. ASSUME p \in Workers, job[p].pc \in {"drop", "ack"}
        PROVE  Settled(r, s)'
    BY <1>1, <1>2, <1>3, <1>5 DEF Doing, Monotone, Onward, Settled
  <1>6. ASSUME p \in Workers, job[p].pc \in Acting
        PROVE  decision'[r][s] # None /\ job[p].plan = decision'[r][s]
    BY <1>1, <1>2, <1>3, <1>6 DEF Doing, Monotone
  <1> QED BY <1>1, <1>2, <1>4, <1>5, <1>6 DEF Doing, Settled

LEMMA OneMoves ==
  ASSUME Inv, Tables, NEW p \in Callers, OnlyMoves(p), Doing(p)'
  PROVE  Inv'
  BY OthersKeep DEF Inv, Tables, OnlyMoves

(* Steps that leave rows, decisions and events alone. *)
LEMMA JobOnly ==
  ASSUME Inv, NEW p \in Callers, NEW j \in Job, job' = [job EXCEPT ![p] = j],
         UNCHANGED <<run, decision, status>>
  PROVE  Tables /\ OnlyMoves(p) /\ job'[p] = j
  <1>1. Types' /\ OnlyMoves(p) /\ job'[p] = j
    BY DEF Inv, Types, OnlyMoves
  <1>2. Monotone
    BY Unmoved DEF Inv, Monotone
  <1> QED BY <1>1, <1>2 DEF Inv, Tables, Scheduled, NoStrandedRun

LEMMA Kinds ==
  /\ NoJob \in Job
  /\ \A p \in Callers : p \in Workers \/ p \in Hosts
  /\ \A p \in Workers : p \notin Hosts /\ p \in Callers
  /\ \A p \in Hosts : p \notin Workers /\ p \in Callers
  BY EngineAssumption, StepsAreNumbers DEF NoJob, Job, Points, Callers

LEMMA Leaves ==
  ASSUME Inv, NEW p \in Callers, Leave(p), UNCHANGED <<run, decision, status>>
  PROVE  Inv'
  <1>1. Tables /\ OnlyMoves(p) /\ job'[p] = NoJob
    BY JobOnly, Kinds DEF Leave
  <1>2. Doing(p)'
    BY <1>1 DEF Doing, NoJob
  <1> QED BY <1>1, <1>2, OneMoves

LEMMA Goes ==
  ASSUME Inv, NEW p \in Callers, NEW pc \in Points, Go(p, pc),
         UNCHANGED <<run, decision, status>>
  PROVE  /\ Tables /\ OnlyMoves(p)
         /\ job'[p].pc = pc /\ job'[p].run = job[p].run /\ job'[p].step = job[p].step
         /\ job'[p].plan = job[p].plan
  <1> DEFINE j == [job[p] EXCEPT !.pc = pc]
  <1>1. j \in Job /\ j.pc = pc /\ j.run = job[p].run /\ j.step = job[p].step
        /\ j.plan = job[p].plan
    BY DEF Inv, Types, Job
  <1>2. job' = [job EXCEPT ![p] = j]
    BY DEF Go
  <1> HIDE DEF j
  <1> QED BY <1>1, <1>2, JobOnly

-----------------------------------------------------------------------------
(* Initial states, and the steps of a worker. *)

LEMMA InitInv == Init => Inv
  <1> SUFFICES ASSUME Init PROVE Inv
    OBVIOUS
  <1>1. NoRun \in Row /\ NoRun.status = "NONE" /\ NoRun.step = 0
    BY StepsAreNumbers DEF NoRun, Row
  <1>2. Types
    BY <1>1, Kinds DEF Init, Types, Statuses, Q!Init
  <1>3. Scheduled
    BY <1>1 DEF Init, Scheduled, Q!Init, Events
  <1>4. NoStrandedRun
    BY <1>1 DEF Init, NoStrandedRun
  <1>5. \A p \in Callers : Doing(p)
    BY DEF Init, Doing, NoJob
  <1> QED BY <1>2, <1>3, <1>4, <1>5 DEF Inv

(* What has to hold of a worker that goes on to pc. *)
Fits(w, pc) ==
  LET r == job[w].run  s == job[w].step IN
  /\ pc \notin {"recover", "resume"}
  /\ pc \in {"decide", "ask", "admit"} \cup Acting => s < MaxSteps
  /\ pc \in {"drop", "ack"} => Settled(r, s)
  /\ pc = "admit" => job[w].plan \in Plans
  /\ pc \in Acting => decision[r][s] # None /\ job[w].plan = decision[r][s]

LEMMA Works ==
  ASSUME Inv, NEW w \in Workers, job[w].pc # "idle"
  PROVE  /\ w \in Callers /\ Doing(w)
         /\ job[w].run \in Runs /\ job[w].step \in Steps
         /\ job[w].step \in Nat /\ run[job[w].run].step \in Nat
         /\ run[job[w].run].status # "NONE" /\ job[w].step <= run[job[w].run].step
  BY Kinds, StepsAreNumbers DEF Inv, Types, Doing, Job, Row

LEMMA WorkerMoves ==
  ASSUME Inv, Tables, NEW w \in Workers, job[w].pc # "idle", OnlyMoves(w),
         job'[w].run = job[w].run, job'[w].step = job[w].step,
         NEW pc \in Points, job'[w].pc = pc, Fits(w, pc)'
  PROVE  Inv'
  <1> DEFINE r == job[w].run
             s == job[w].step
  <1>1. /\ w \in Callers /\ r \in Runs /\ s \in Nat
        /\ run[r].status # "NONE" /\ s <= run[r].step /\ run[r].step \in Nat
    BY Works
  <1>2. run'[r].status # "NONE" /\ run[r].step <= run'[r].step
    BY <1>1 DEF Tables, Monotone, Onward
  <1>3. run'[r].step \in Nat
    BY <1>1, StepsAreNumbers DEF Tables, Types, Row
  <1>4. s <= run'[r].step
    BY <1>1, <1>2, <1>3
  <1>5. Doing(w)'
    BY <1>1, <1>2, <1>4, Kinds DEF Doing, Fits
  <1> QED BY <1>1, <1>5, OneMoves

LEMMA WorkerGoes ==
  ASSUME Inv, NEW w \in Workers, job[w].pc # "idle", NEW pc \in Points, Go(w, pc),
         UNCHANGED <<run, decision, status>>, Fits(w, pc)
  PROVE  Inv'
  <1>1. /\ Tables /\ OnlyMoves(w)
        /\ job'[w].pc = pc /\ job'[w].run = job[w].run /\ job'[w].step = job[w].step
        /\ job'[w].plan = job[w].plan
    BY Works, Goes
  <1>2. Fits(w, pc)'
    BY <1>1 DEF Fits, Settled
  <1> QED BY <1>1, <1>2, WorkerMoves

LEMMA LoadKeeps == ASSUME Inv, NEW w \in Workers, Load(w) PROVE Inv'
  <1> DEFINE r == job[w].run
             s == job[w].step
  <1>1. job[w].pc # "idle" /\ Go(w, Loaded(w)) /\ UNCHANGED <<run, decision, status>>
    BY DEF Load, textVars, queueVars, At
  <1>2. s \in Nat /\ run[r].step \in Nat /\ s <= run[r].step
    BY <1>1, Works
  <1>3. ASSUME run[r].step # s \/ run[r].status # "RUNNING"
        PROVE  Loaded(w) = "drop" /\ Settled(r, s)
    BY <1>2, <1>3 DEF Loaded, Settled
  <1>4. ASSUME run[r].step = s, run[r].status = "RUNNING"
        PROVE  Loaded(w) = "maxed" \/ (Loaded(w) = "decide" /\ s < MaxSteps)
    BY <1>2, <1>4, StepsAreNumbers DEF Loaded, Exhausted
  <1>5. Loaded(w) \in Points /\ Fits(w, Loaded(w))
    BY <1>3, <1>4 DEF Fits, Points, Attempt, Outside, Acting
  <1> QED BY <1>1, <1>5, WorkerGoes

LEMMA Positions == Attempt \cup Outside \subseteq Points /\ "idle" \in Points
  BY DEF Points

LEMMA DecideKeeps == ASSUME Inv, NEW w \in Workers, Decide(w) PROVE Inv'
  <1> DEFINE r == job[w].run
             s == job[w].step
             old == decision[r][s]
  <1>1. At(w, "decide") /\ job[w].pc # "idle" /\ UNCHANGED <<run, decision, status>>
    BY DEF Decide, textVars, queueVars, At
  <1>2. s < MaxSteps
    BY <1>1, Works DEF Doing, At
  <1>3. CASE old = None /\ Go(w, "ask")
    <2>1. Fits(w, "ask")
      BY <1>2 DEF Fits, Acting
    <2> QED BY <1>1, <1>3, <2>1, WorkerGoes, Positions DEF Attempt
  <1>4. ASSUME old # None,
               NEW pc \in {"final", "say"},
               job' = [job EXCEPT ![w].plan = old, ![w].pc = pc]
        PROVE  Inv'
    <2> DEFINE j == [job[w] EXCEPT !.plan = old, !.pc = pc]
    <2>1. old \in Plans /\ w \in Callers
      BY <1>1, <1>4, Works DEF Inv, Types
    <2>2. old \in [rid : RequestIds \cup {None}, body : Bodies \cup {None}]
      BY <2>1 DEF Plans, Calls, Final
    <2>3. pc \in Points
      BY <1>4 DEF Points, Attempt
    <2>4. job[w] \in Job
      BY <2>1 DEF Inv, Types
    <2>5. j \in Job /\ j.pc = pc /\ j.plan = old /\ j.run = r /\ j.step = s
      BY <2>2, <2>3, <2>4 DEF Job
    <2>6. job' = [job EXCEPT ![w] = j]
      BY <1>4
    <2> HIDE DEF j
    <2>7. Tables /\ OnlyMoves(w) /\ job'[w] = j
      BY <1>1, <2>1, <2>5, <2>6, JobOnly
    <2>8. Fits(w, pc)'
      BY <1>1, <1>2, <1>4, <2>5, <2>7 DEF Fits
    <2> QED BY <1>1, <2>3, <2>5, <2>7, <2>8, WorkerMoves
  <1> QED BY <1>3, <1>4 DEF Decide

LEMMA AskKeeps == ASSUME Inv, NEW w \in Workers, Ask(w) PROVE Inv'
  <1> DEFINE r == job[w].run
             s == job[w].step
  <1>1. At(w, "ask") /\ job[w].pc # "idle" /\ UNCHANGED <<run, decision, status>>
    BY DEF Ask, textVars, queueVars, At
  <1>2. s < MaxSteps
    BY <1>1, Works DEF Doing, At
  <1>3. PICK plan \in Plans : job' = [job EXCEPT ![w].plan = plan, ![w].pc = "admit"]
    BY DEF Ask
  <1> DEFINE j == [job[w] EXCEPT !.plan = plan, !.pc = "admit"]
  <1>4. plan \in [rid : RequestIds \cup {None}, body : Bodies \cup {None}]
    BY <1>3 DEF Plans, Calls, Final
  <1>5. w \in Callers /\ job[w] \in Job /\ "admit" \in Points
    BY <1>1, Works DEF Inv, Types, Points, Attempt
  <1>6. j \in Job /\ j.pc = "admit" /\ j.plan = plan /\ j.run = r /\ j.step = s
    BY <1>4, <1>5 DEF Job
  <1>7. job' = [job EXCEPT ![w] = j]
    BY <1>3
  <1> HIDE DEF j
  <1>8. Tables /\ OnlyMoves(w) /\ job'[w] = j
    BY <1>1, <1>5, <1>6, <1>7, JobOnly
  <1>9. Fits(w, "admit")'
    BY <1>2, <1>3, <1>6, <1>8 DEF Fits, Acting
  <1> QED BY <1>1, <1>5, <1>6, <1>8, <1>9, WorkerMoves

LEMMA AdmitKeeps == ASSUME Inv, NEW w \in Workers, Admit(w) PROVE Inv'
  <1> DEFINE r == job[w].run
             s == job[w].step
             plan == job[w].plan
  <1>1. At(w, "admit") /\ job[w].pc # "idle" /\ UNCHANGED <<run, status>>
    BY DEF Admit, queueVars, At
  <1>2. s < MaxSteps /\ plan \in Plans /\ plan # None
    BY <1>1, Works, EngineAssumption DEF Doing, At
  <1>3. CASE Go(w, "error") /\ UNCHANGED decision
    <2>1. Fits(w, "error")
      BY DEF Fits, Acting
    <2> QED BY <1>1, <1>3, <2>1, WorkerGoes, Positions DEF Outside
  <1>4. ASSUME Admissible(decision[r][s], plan),
               decision' = [decision EXCEPT ![r][s] = plan],
               NEW pc \in {"final", "say"}, Go(w, pc)
        PROVE  Inv'
    <2> DEFINE j == [job[w] EXCEPT !.pc = pc]
    <2>1. /\ r \in Runs /\ s \in Steps /\ w \in Callers /\ job[w] \in Job /\ pc \in Points
          /\ decision \in [Runs -> [Steps -> Plans \cup {None}]]
      BY <1>1, <1>4, Works DEF Inv, Types, Points, Attempt
    <2>2. j \in Job /\ j.pc = pc /\ j.plan = plan /\ j.run = r /\ j.step = s
      BY <2>1 DEF Job
    <2>3. job' = [job EXCEPT ![w] = j]
      BY <1>4 DEF Go
    <2> HIDE DEF j
    <2>4. OnlyMoves(w) /\ job'[w] = j /\ job' \in [Callers -> Job]
      BY <2>1, <2>2, <2>3 DEF Inv, Types, OnlyMoves
    <2>5. decision'[r][s] = plan /\ decision' \in [Runs -> [Steps -> Plans \cup {None}]]
      BY <1>2, <1>4, <2>1
    <2>6. \A q \in Runs : \A t \in Steps :
            decision[q][t] # None => decision'[q][t] = decision[q][t]
      BY <1>4, <2>1 DEF Admissible
    <2>7. \A q \in Runs : Onward(q)
      BY <1>1, Unmoved DEF Inv
    <2>8. Tables
      BY <1>1, <2>4, <2>5, <2>6, <2>7
      DEF Tables, Inv, Types, Scheduled, NoStrandedRun, Monotone
    <2>9. Fits(w, pc)'
      BY <1>2, <1>4, <2>2, <2>4, <2>5 DEF Fits
    <2> QED BY <1>1, <2>1, <2>2, <2>4, <2>8, <2>9, WorkerMoves
  <1> QED BY <1>3, <1>4 DEF Admit

LEMMA SayKeeps == ASSUME Inv, NEW w \in Workers, Say(w) \/ Conclude(w) PROVE Inv'
  <1>1. PICK pc \in {"tool", "complete"} :
          /\ job[w].pc \in {"say", "final"} /\ Go(w, pc) /\ UNCHANGED <<run, decision, status>>
    BY DEF Say, Conclude, queueVars, At
  <1>2. job[w].pc # "idle" /\ pc \in Points
    BY <1>1, Positions DEF Attempt
  <1>3. Fits(w, pc)
    BY <1>1, Works DEF Doing, Fits, Acting
  <1> QED BY <1>1, <1>2, <1>3, WorkerGoes

LEMMA ToolReturnedKeeps == ASSUME Inv, NEW w \in Workers, ToolReturned(w) PROVE Inv'
  <1>1. PICK pc \in {"advance", "error"} :
          /\ job[w].pc = "tool" /\ Go(w, pc) /\ UNCHANGED <<run, decision, status>>
    BY DEF ToolReturned, queueVars, At
  <1>2. job[w].pc # "idle" /\ pc \in Points
    BY <1>1, Positions DEF Attempt, Outside
  <1>3. Fits(w, pc)
    BY <1>1, Works DEF Doing, Fits, Acting
  <1> QED BY <1>1, <1>2, <1>3, WorkerGoes

LEMMA ToolRaisedKeeps == ASSUME Inv, NEW w \in Workers, ToolRaised(w) PROVE Inv'
  <1>1. PICK pc \in {"block", "fail", "error"} :
          /\ job[w].pc = "tool" /\ Go(w, pc) /\ UNCHANGED <<run, decision, status>>
    BY DEF ToolRaised, Verdict, textVars, queueVars, At
  <1>2. job[w].pc # "idle" /\ pc \in Points
    BY <1>1, Positions DEF Attempt, Outside
  <1>3. Fits(w, pc)
    BY <1>1, Works DEF Doing, Fits, Acting
  <1> QED BY <1>1, <1>2, <1>3, WorkerGoes

(* An event that is acknowledged is one its run needs no more. *)
MayBecome(e, state) ==
  state \in {"PENDING", "CLAIMED"} \/ (state = "DONE" /\ Settled(e[1], e[2]))

LEMMA EventMoves ==
  ASSUME Inv, NEW e \in Events, NEW state \in Statuses,
         status' = [status EXCEPT ![e] = state],
         status[e] # "ABSENT", MayBecome(e, state),
         UNCHANGED <<run, decision>>, job' \in [Callers -> Job]
  PROVE  Tables
  <1>1. Types'
    BY DEF Inv, Types
  <1>2. Monotone
    BY Unmoved DEF Inv, Monotone
  <1>3. Scheduled'
    BY DEF Inv, Types, Scheduled, Events
  <1>4. NoStrandedRun'
    <2> SUFFICES ASSUME NEW r \in Runs, run[r].status = "RUNNING"
                 PROVE  status'[<<r, run[r].step>>] \in {"PENDING", "CLAIMED"}
      BY DEF NoStrandedRun
    <2>1. run[r].step \in Steps /\ run[r].step \in Nat /\ <<r, run[r].step>> \in Events
      BY StepsAreNumbers DEF Inv, Types, Row, Events
    <2>2. status[<<r, run[r].step>>] \in {"PENDING", "CLAIMED"}
      BY DEF Inv, NoStrandedRun
    <2>3. CASE <<r, run[r].step>> # e
      BY <2>1, <2>2, <2>3 DEF Inv, Types
    <2>4. CASE <<r, run[r].step>> = e
      <3>1. ~Settled(e[1], e[2])
        BY <2>1, <2>4 DEF Settled
      <3> QED BY <2>1, <2>4, <3>1 DEF Inv, Types, MayBecome
    <2> QED BY <2>3, <2>4
  <1> QED BY <1>1, <1>2, <1>3, <1>4 DEF Tables

LEMMA EventStays ==
  ASSUME Inv, NEW e \in Events, NEW state \in {"PENDING", "CLAIMED"},
         status' = [status EXCEPT ![e] = state], status[e] # "ABSENT",
         UNCHANGED <<run, decision>>, job' \in [Callers -> Job]
  PROVE  Tables
  <1>1. state \in Statuses
    BY DEF Statuses
  <1>2. MayBecome(e, state)
    BY DEF MayBecome
  <1> QED BY <1>1, <1>2, EventMoves

LEMMA Working ==
  ASSUME Inv, NEW w \in Workers, job[w].pc # "idle"
  PROVE  EventOf(w) \in Events /\ EventOf(w)[1] = job[w].run /\ EventOf(w)[2] = job[w].step
  BY Works DEF EventOf, Events

LEMMA LeavesFor ==
  ASSUME Inv, NEW p \in Callers, Leave(p)
  PROVE  OnlyMoves(p) /\ Doing(p)' /\ job' \in [Callers -> Job]
  <1>1. OnlyMoves(p) /\ job'[p] = NoJob /\ job' \in [Callers -> Job]
    BY Kinds DEF Leave, Inv, Types, OnlyMoves
  <1> QED BY <1>1 DEF Doing, NoJob

LEMMA GoesFor ==
  ASSUME Inv, NEW p \in Callers, NEW pc \in Points, Go(p, pc)
  PROVE  /\ OnlyMoves(p) /\ job' \in [Callers -> Job]
         /\ job'[p].pc = pc /\ job'[p].run = job[p].run /\ job'[p].step = job[p].step
         /\ job'[p].plan = job[p].plan
  <1> DEFINE j == [job[p] EXCEPT !.pc = pc]
  <1>1. j \in Job /\ j.pc = pc /\ j.run = job[p].run /\ j.step = job[p].step
        /\ j.plan = job[p].plan
    BY DEF Inv, Types, Job
  <1>2. job' = [job EXCEPT ![p] = j]
    BY DEF Go
  <1> HIDE DEF j
  <1> QED BY <1>1, <1>2 DEF Inv, Types, OnlyMoves

LEMMA DropKeeps == ASSUME Inv, NEW w \in Workers, Drop(w) PROVE Inv'
  <1>1. job[w].pc = "drop" /\ job[w].pc # "idle" /\ Leave(w) /\ UNCHANGED <<run, decision>>
    BY DEF Drop, textVars, At
  <1>2. w \in Callers /\ Settled(job[w].run, job[w].step)
    BY <1>1, Works DEF Doing
  <1>3. CASE UNCHANGED status
    BY <1>1, <1>2, <1>3, Leaves
  <1>4. CASE Q!Ack(w, EventOf(w))
    <2>1. Tables
      BY <1>1, <1>2, <1>4, Working, EventMoves, LeavesFor
      DEF Q!Ack, Q!Owns, Q!Settle, Statuses, MayBecome
    <2> QED BY <1>1, <1>2, <2>1, LeavesFor, OneMoves
  <1> QED BY <1>3, <1>4 DEF Drop, queueVars

LEMMA AckKeeps == ASSUME Inv, NEW w \in Workers, Ack(w) PROVE Inv'
  <1>1. job[w].pc = "ack" /\ job[w].pc # "idle" /\ UNCHANGED <<run, decision>>
    BY DEF Ack, textVars, At
  <1>2. w \in Callers /\ Settled(job[w].run, job[w].step) /\ "error" \in Points
    BY <1>1, Works, Positions DEF Doing, Outside
  <1>3. Fits(w, "error") /\ Fits(w, "error")'
    BY DEF Fits, Acting
  <1>4. CASE Go(w, "error") /\ UNCHANGED status
    BY <1>1, <1>2, <1>3, <1>4, WorkerGoes
  <1>5. ASSUME Q!Ack(w, EventOf(w)), job' \in [Callers -> Job]
        PROVE  Tables
    BY <1>1, <1>2, <1>5, Working, EventMoves
    DEF Q!Ack, Q!Owns, Q!Settle, Statuses, MayBecome
  <1>6. CASE Q!Ack(w, EventOf(w)) /\ Leave(w)
    BY <1>2, <1>5, <1>6, LeavesFor, OneMoves
  <1>7. CASE Q!Ack(w, EventOf(w)) /\ Go(w, "error")
    BY <1>1, <1>2, <1>3, <1>5, <1>7, GoesFor, WorkerMoves
  <1> QED BY <1>4, <1>6, <1>7 DEF Ack, queueVars

LEMMA RequeueKeeps == ASSUME Inv, NEW w \in Workers, Requeue(w) PROVE Inv'
  <1>1. job[w].pc # "idle" /\ Leave(w) /\ UNCHANGED <<run, decision>> /\ w \in Callers
    BY Kinds DEF Requeue, textVars, At
  <1>2. CASE UNCHANGED status
    BY <1>1, <1>2, Leaves
  <1>3. CASE Q!Release(w, EventOf(w))
    <2>1. /\ status[EventOf(w)] # "ABSENT" /\ EventOf(w) \in Events
          /\ status' = [status EXCEPT ![EventOf(w)] = "PENDING"]
      BY <1>1, <1>3, Working DEF Q!Release, Q!Owns, Q!Settle
    <2>2. Tables
      BY <1>1, <2>1, EventStays, LeavesFor
    <2> QED BY <1>1, <2>2, LeavesFor, OneMoves
  <1> QED BY <1>2, <1>3 DEF Requeue, queueVars

LEMMA ClaimKeeps == ASSUME Inv, NEW w \in Workers, NEW e \in Events, Claim(w, e) PROVE Inv'
  <1> DEFINE j == [pc |-> "load", run |-> e[1], step |-> e[2], plan |-> None]
  <1>1. /\ w \in Callers /\ e[1] \in Runs /\ e[2] \in Steps /\ e = <<e[1], e[2]>>
        /\ UNCHANGED <<run, decision>> /\ job' = [job EXCEPT ![w] = j]
    BY Kinds DEF Claim, Events, textVars
  <1>2. j \in Job
    BY <1>1, Positions DEF Job, Outside
  <1>3. OnlyMoves(w) /\ job'[w] = j /\ job' \in [Callers -> Job]
    BY <1>1, <1>2 DEF Inv, Types, OnlyMoves
  <1>4. status[e] # "ABSENT" /\ status' = [status EXCEPT ![e] = "CLAIMED"]
    BY DEF Claim, Q!Claim, Q!Claimable
  <1>5. Tables
    BY <1>1, <1>3, <1>4, EventStays
  <1>6. run[e[1]].status # "NONE" /\ e[2] <= run[e[1]].step
    BY <1>1, <1>4 DEF Inv, Scheduled
  <1>7. Doing(w)'
    BY <1>1, <1>3, <1>6, Kinds DEF Doing, Acting
  <1> QED BY <1>1, <1>3, <1>5, <1>7, OneMoves

-----------------------------------------------------------------------------
(* Steps that change the row of a run. *)

LEMMA RowIs ==
  ASSUME Inv, NEW r \in Runs
  PROVE  /\ run[r] \in Row /\ run[r].step \in Steps /\ run[r].step \in Nat
         /\ run[r].step <= run[r].step
  <1>1. run[r] \in Row /\ run[r].step \in Steps
    BY DEF Inv, Types, Row
  <1>2. run[r].step \in Nat
    BY <1>1, StepsAreNumbers
  <1>3. \A n \in Nat : n <= n
    OBVIOUS
  <1> QED BY <1>1, <1>2, <1>3

(* A change that does not ask for a new event: the run stays at its         *)
(* generation, or it does not run on.                                       *)
LEMMA RowChanges ==
  ASSUME Inv, NEW r \in Runs, NEW row \in Row, run' = [run EXCEPT ![r] = row],
         UNCHANGED <<decision, status>>, job' \in [Callers -> Job],
         run[r].step <= row.step,
         row.status # "NONE",
         row.status = "RUNNING" => run[r].status = "RUNNING" /\ row.step = run[r].step
  PROVE  Tables /\ run'[r] = row
  <1>1. Types' /\ run'[r] = row /\ \A q \in Runs \ {r} : run'[q] = run[q]
    BY DEF Inv, Types
  <1>2. \A q \in Runs : run[q].step \in Nat /\ run'[q].step \in Nat
    BY <1>1, RowIs, StepsAreNumbers DEF Types, Row
  <1>3. Onward(r)
    BY <1>1, <1>2 DEF Onward
  <1>4. ASSUME NEW q \in Runs \ {r}
        PROVE  Onward(q)
    BY <1>1, <1>2 DEF Onward
  <1>5. Monotone
    BY <1>3, <1>4 DEF Monotone
  <1>6. Scheduled'
    <2> SUFFICES ASSUME NEW q \in Runs, NEW s \in Steps, status[<<q, s>>] # "ABSENT"
                 PROVE  run'[q].status # "NONE" /\ s <= run'[q].step
      BY <1>1 DEF Inv, Scheduled
    <2>1. run[q].status # "NONE" /\ s <= run[q].step /\ s \in Nat
      BY StepsAreNumbers DEF Inv, Scheduled
    <2>2. Onward(q)
      BY <1>5 DEF Monotone
    <2> QED BY <1>2, <2>1, <2>2 DEF Onward
  <1>7. NoStrandedRun'
    BY <1>1 DEF Inv, NoStrandedRun
  <1> QED BY <1>1, <1>5, <1>6, <1>7 DEF Tables

(* The same for a worker that changes the row and goes on. *)
LEMMA WorkerWrites ==
  ASSUME Inv, NEW w \in Workers, job[w].pc # "idle", NEW pc \in Points, Go(w, pc),
         NEW row \in Row, run' = [run EXCEPT ![job[w].run] = row],
         UNCHANGED <<decision, status>>,
         run[job[w].run].step <= row.step, row.status # "NONE",
         row.status = "RUNNING" =>
           run[job[w].run].status = "RUNNING" /\ row.step = run[job[w].run].step,
         pc \in {"drop", "ack", "requeue"},
         pc # "requeue" => row.status # "RUNNING"
  PROVE  Inv'
  <1> DEFINE r == job[w].run
  <1>1. w \in Callers /\ r \in Runs
    BY Works
  <1>2. /\ OnlyMoves(w) /\ job' \in [Callers -> Job]
        /\ job'[w].pc = pc /\ job'[w].run = r /\ job'[w].step = job[w].step
    BY <1>1, GoesFor
  <1>3. Tables /\ run'[r] = row
    BY <1>1, <1>2, RowChanges
  <1>4. Fits(w, pc)'
    BY <1>2, <1>3 DEF Fits, Settled, Acting
  <1> QED BY <1>2, <1>3, <1>4, WorkerMoves

LEMMA NextStep ==
  ASSUME Inv, NEW r \in Runs, run[r].step < MaxSteps + Slack
  PROVE  /\ run[r].step + 1 \in Steps /\ run[r].step < run[r].step + 1
         /\ run[r].step <= run[r].step + 1
  <1> DEFINE n == run[r].step
  <1>1. n \in Nat
    BY RowIs
  <1>2. MaxSteps + Slack \in Nat
    BY EngineAssumption
  <1>3. n < MaxSteps + Slack
    OBVIOUS
  <1> HIDE DEF n
  <1>4. n + 1 \in 0..(MaxSteps + Slack) /\ n < n + 1 /\ n <= n + 1
    BY <1>1, <1>2, <1>3
  <1> QED BY <1>4 DEF n, Steps

LEMMA FailKeeps == ASSUME Inv, NEW w \in Workers, MaxedOut(w) \/ Fail(w) PROVE Inv'
  <1> DEFINE r == job[w].run
             row == [run[r] EXCEPT !.status = "FAILED", !.error = TRUE]
  <1>1. PICK pc \in {"drop", "ack"} :
          /\ job[w].pc # "idle" /\ Go(w, pc) /\ UNCHANGED <<decision, status>>
          /\ run' = [run EXCEPT ![r] = row]
    BY DEF MaxedOut, Fail, textVars, queueVars, At
  <1>2. r \in Runs /\ pc \in Points
    BY <1>1, Works, Positions DEF Attempt, Outside
  <1>3. row \in Row /\ row.status = "FAILED" /\ row.step = run[r].step
    BY <1>2, RowIs DEF Row
  <1> HIDE DEF row
  <1>4. run[r].step <= row.step
    BY <1>2, <1>3, RowIs, Zenon
  <1> QED BY <1>1, <1>2, <1>3, <1>4, WorkerWrites

LEMMA BlockKeeps == ASSUME Inv, NEW w \in Workers, Block(w) PROVE Inv'
  <1> DEFINE r == job[w].run
             row == [run[r] EXCEPT !.status = "BLOCKED_EFFECT", !.error = TRUE,
                                   !.blockedOn = job[w].plan.rid]
  <1>1. job[w].pc = "block" /\ job[w].pc # "idle" /\ UNCHANGED <<decision, status>>
    BY DEF Block, textVars, queueVars, At
  <1>2. CASE Go(w, "error") /\ UNCHANGED run
    <2>1. Fits(w, "error")
      BY DEF Fits, Acting
    <2> QED BY <1>1, <1>2, <2>1, WorkerGoes, Positions DEF Outside
  <1>3. CASE Go(w, "ack") /\ run' = [run EXCEPT ![r] = row]
    <2>1. /\ r \in Runs /\ job[w].step \in Steps /\ "ack" \in Points
          /\ job[w].plan = decision[r][job[w].step] /\ decision[r][job[w].step] # None
      BY <1>1, Works, Positions DEF Doing, Attempt, Acting
    <2>2. job[w].plan \in Plans
      BY <2>1 DEF Inv, Types
    <2>3. job[w].plan.rid \in RequestIds \cup {None}
      BY <2>2 DEF Plans, Calls, Final
    <2>4. row \in Row /\ row.status = "BLOCKED_EFFECT" /\ row.step = run[r].step
      BY <2>1, <2>3, RowIs DEF Row
    <2> HIDE DEF row
    <2>5. run[r].step <= row.step
      BY <2>1, <2>4, RowIs, Zenon
    <2> QED BY <1>1, <1>3, <2>1, <2>4, <2>5, WorkerWrites
  <1> QED BY <1>2, <1>3 DEF Block

LEMMA CompleteKeeps == ASSUME Inv, NEW w \in Workers, Complete(w) PROVE Inv'
  <1> DEFINE r == job[w].run
             row == [run[r] EXCEPT !.status = "COMPLETED", !.error = FALSE,
                                   !.step = run[r].step + 1]
  <1>1. /\ job[w].pc # "idle" /\ Go(w, "ack") /\ UNCHANGED <<decision, status>>
        /\ run[r].step < MaxSteps + Slack /\ run' = [run EXCEPT ![r] = row]
    BY DEF Complete, textVars, queueVars, At
  <1>2. r \in Runs /\ "ack" \in Points
    BY <1>1, Works, Positions DEF Attempt
  <1>3. run[r].step + 1 \in Steps /\ run[r].step <= run[r].step + 1
    BY <1>1, <1>2, NextStep
  <1>4. row \in Row /\ row.status = "COMPLETED" /\ row.step = run[r].step + 1
    BY <1>2, <1>3, RowIs DEF Row
  <1> HIDE DEF row
  <1> QED BY <1>1, <1>2, <1>3, <1>4, WorkerWrites

LEMMA BlameKeeps == ASSUME Inv, NEW w \in Workers, Blame(w) PROVE Inv'
  <1> DEFINE r == job[w].run
             row == [run[r] EXCEPT !.error = TRUE]
  <1>1. /\ job[w].pc # "idle" /\ Go(w, "requeue") /\ UNCHANGED <<decision, status>>
        /\ run' = [run EXCEPT ![r] = row]
    BY DEF Blame, textVars, queueVars, At
  <1>2. r \in Runs /\ run[r].status # "NONE" /\ "requeue" \in Points
    BY <1>1, Works, Positions DEF Outside
  <1>3. row \in Row /\ row.status = run[r].status /\ row.step = run[r].step
    BY <1>2, RowIs DEF Row
  <1> HIDE DEF row
  <1>4. run[r].step <= row.step
    BY <1>2, <1>3, RowIs, Zenon
  <1> QED BY <1>1, <1>2, <1>3, <1>4, WorkerWrites

-----------------------------------------------------------------------------
(* Steps that bring a run to a generation: its event is new, so it is       *)
(* PENDING after the step.                                                  *)

LEMMA Generates ==
  ASSUME Inv, NEW r \in Runs, NEW row \in Row, run' = [run EXCEPT ![r] = row],
         row.status = "RUNNING", Q!Enqueue(<<r, row.step>>), UNCHANGED decision,
         job' \in [Callers -> Job],
         run[r].status = "NONE" \/ run[r].step < row.step,
         run[r].step <= row.step
  PROVE  Tables /\ run'[r] = row
  <1>1. run' \in [Runs -> Row] /\ run'[r] = row /\ \A q \in Runs \ {r} : run'[q] = run[q]
    BY DEF Inv, Types
  <1>2. \A q \in Runs : run[q].step \in Nat /\ run'[q].step \in Nat
    BY <1>1, RowIs, StepsAreNumbers DEF Row
  <1>3. row.step \in Steps /\ row.step \in Nat
    BY StepsAreNumbers DEF Row
  <1>4. status[<<r, row.step>>] = "ABSENT"
    BY <1>2, <1>3 DEF Inv, Scheduled
  <1>5. <<r, row.step>> \in Events /\ status \in [Events -> Statuses]
    BY <1>3 DEF Inv, Types, Events
  <1>6. status' = [status EXCEPT ![<<r, row.step>>] = "PENDING"]
    BY <1>4 DEF Q!Enqueue
  <1>7. Types'
    BY <1>1, <1>5, <1>6 DEF Inv, Types, Statuses
  <1>8. Monotone
    <2>1. Onward(r)
      BY <1>1, <1>2 DEF Onward
    <2>2. ASSUME NEW q \in Runs \ {r}
          PROVE  Onward(q)
      BY <1>1, <1>2 DEF Onward
    <2> QED BY <2>1, <2>2 DEF Monotone
  <1>9. Scheduled'
    <2>1. ASSUME NEW s \in Steps, status'[<<r, s>>] # "ABSENT"
          PROVE  s <= row.step
      <3>1. s \in Nat
        BY StepsAreNumbers
      <3>2. CASE s = row.step
        BY <3>1, <3>2
      <3>3. CASE s # row.step
        <4>1. status[<<r, s>>] # "ABSENT"
          BY <1>5, <1>6, <2>1, <3>3 DEF Events
        <4>2. s <= run[r].step
          BY <4>1 DEF Inv, Scheduled
        <4> QED BY <1>2, <1>3, <3>1, <4>2
      <3> QED BY <3>2, <3>3
    <2>2. ASSUME NEW q \in Runs \ {r}, NEW s \in Steps
          PROVE  status'[<<q, s>>] = status[<<q, s>>]
      BY <1>5, <1>6 DEF Events
    <2> QED BY <1>1, <2>1, <2>2 DEF Inv, Scheduled
  <1>10. NoStrandedRun'
    <2>1. status'[<<r, row.step>>] = "PENDING"
      BY <1>5, <1>6
    <2>2. ASSUME NEW q \in Runs \ {r}, run[q].status = "RUNNING"
          PROVE  status'[<<q, run[q].step>>] \in {"PENDING", "CLAIMED"}
      <3>1. status[<<q, run[q].step>>] \in {"PENDING", "CLAIMED"} /\ run[q].step \in Steps
        BY <2>2, RowIs DEF Inv, NoStrandedRun
      <3> QED BY <1>5, <1>6, <3>1 DEF Events
    <2> QED BY <1>1, <2>1, <2>2 DEF NoStrandedRun
  <1> QED BY <1>1, <1>7, <1>8, <1>9, <1>10 DEF Tables

LEMMA SubmitKeeps == ASSUME Inv, NEW r \in Runs, Submit(r) PROVE Inv'
  <1> DEFINE row == [run[r] EXCEPT !.status = "RUNNING"]
  <1>1. /\ run[r].status = "NONE" /\ run' = [run EXCEPT ![r] = row]
        /\ Q!Enqueue(<<r, 0>>) /\ UNCHANGED <<decision, job>>
    BY DEF Submit, textVars
  <1>2. run[r].step = 0
    BY <1>1 DEF Inv, Scheduled
  <1>3. row \in Row /\ row.status = "RUNNING" /\ row.step = run[r].step
    BY RowIs DEF Row
  <1> HIDE DEF row
  <1>4. run[r].step <= row.step /\ row.step = 0
    BY <1>2, <1>3, RowIs, Zenon
  <1>5. job' \in [Callers -> Job]
    BY <1>1 DEF Inv, Types
  <1>6. Tables
    BY <1>1, <1>3, <1>4, <1>5, Generates
  <1>7. \A p \in Callers : Doing(p)'
    BY <1>1, <1>6, OthersKeep DEF Inv, Tables
  <1> QED BY <1>6, <1>7 DEF Inv, Tables

LEMMA AdvanceKeeps == ASSUME Inv, NEW w \in Workers, Advance(w) PROVE Inv'
  <1> DEFINE r == job[w].run
             s == job[w].step
             row == [run[r] EXCEPT !.step = run[r].step + 1, !.error = FALSE]
  <1>1. job[w].pc = "advance" /\ job[w].pc # "idle" /\ UNCHANGED decision
    BY DEF Advance, textVars, At
  <1>2. CASE Go(w, "error") /\ UNCHANGED <<run, status>>
    <2>1. Fits(w, "error")
      BY DEF Fits, Acting
    <2> QED BY <1>1, <1>2, <2>1, WorkerGoes, Positions DEF Outside
  <1>3. CASE /\ MayAdvance(r, s) /\ run' = [run EXCEPT ![r] = row]
             /\ Schedule(r, s + 1) /\ Go(w, "ack")
    <2>1. /\ w \in Callers /\ r \in Runs /\ s < MaxSteps /\ s \in Nat /\ "ack" \in Points
      BY <1>1, Works, Positions DEF Doing, Attempt, Acting
    <2>2. run[r].step = s /\ run[r].status = "RUNNING"
      BY <1>3 DEF MayAdvance
    <2>3. run[r].step < MaxSteps + Slack
      BY <2>1, <2>2, EngineAssumption
    <2>4. run[r].step + 1 \in Steps /\ run[r].step < run[r].step + 1
          /\ run[r].step <= run[r].step + 1
      BY <2>1, <2>3, NextStep
    <2>5. row \in Row /\ row.status = "RUNNING" /\ row.step = run[r].step + 1
      <3>1. run[r] \in Row BY <2>1, RowIs
      <3>2. FALSE \in BOOLEAN OBVIOUS
      <3> QED BY <2>2, <2>4, <3>1, <3>2 DEF Row
    <2>6. run' = [run EXCEPT ![r] = row]
      BY <1>3
    <2> HIDE DEF row
    <2>7. Q!Enqueue(<<r, row.step>>)
      BY <1>3, <2>2, <2>5 DEF Schedule
    <2>8. run[r].step <= row.step /\ run[r].step < row.step
      BY <2>4, <2>5, Zenon
    <2>9. /\ OnlyMoves(w) /\ job' \in [Callers -> Job]
          /\ job'[w].pc = "ack" /\ job'[w].run = r /\ job'[w].step = s
      BY <1>3, <2>1, GoesFor
    <2>10. Tables /\ run'[r] = row
      BY <1>1, <2>1, <2>5, <2>6, <2>7, <2>8, <2>9, Generates
    <2>11. s < run'[r].step
      BY <2>2, <2>8, <2>10, Zenon
    <2>12. Fits(w, "ack")'
      BY <2>9, <2>11 DEF Fits, Settled, Acting
    <2> QED BY <1>1, <2>1, <2>9, <2>10, <2>12, WorkerMoves
  <1> QED BY <1>2, <1>3 DEF Advance, queueVars

-----------------------------------------------------------------------------
(* Steps of a host, and steps of either. *)

LEMMA HostGoes ==
  ASSUME Inv, NEW h \in Hosts, job[h].pc # "idle", NEW pc \in {"tool", "resume"}, Go(h, pc),
         UNCHANGED <<run, decision, status>>
  PROVE  Inv'
  <1>1. h \in Callers /\ pc \in Points /\ Doing(h)
    BY Kinds, Positions DEF Attempt, Outside, Inv
  <1>2. /\ Tables /\ OnlyMoves(h)
        /\ job'[h].pc = pc /\ job'[h].run = job[h].run
    BY <1>1, Goes
  <1>3. Doing(h)'
    BY <1>1, <1>2, Kinds DEF Doing
  <1> QED BY <1>1, <1>2, <1>3, OneMoves

LEMMA ResumeBlockedKeeps ==
  ASSUME Inv, NEW h \in Hosts, NEW r \in Runs, ResumeBlocked(h, r) PROVE Inv'
  <1> DEFINE i == run[r].blockedOn
             plan == [rid |-> i, body |-> None]
             j == [pc |-> "recover", run |-> r, step |-> 0, plan |-> plan]
  <1>1. /\ h \in Callers /\ run[r].status = "BLOCKED_EFFECT"
        /\ job' = [job EXCEPT ![h] = j] /\ UNCHANGED <<run, decision, status>>
    BY Kinds DEF ResumeBlocked, textVars, queueVars
  <1>2. run[r] \in Row /\ 0 \in Steps /\ "recover" \in Points
    BY RowIs, StepsAreNumbers, Positions DEF Outside
  <1>3. i \in RequestIds \cup {None}
    BY <1>2 DEF Row
  <1>4. j \in Job
    BY <1>2, <1>3 DEF Job
  <1>5. j.pc = "recover" /\ j.run = r
    OBVIOUS
  <1> HIDE DEF j
  <1>6. Tables /\ OnlyMoves(h) /\ job'[h] = j
    BY <1>1, <1>4, JobOnly
  <1>7. Doing(h)'
    BY <1>1, <1>5, <1>6, Kinds DEF Doing
  <1> QED BY <1>1, <1>6, <1>7, OneMoves

LEMMA HostWorkKeeps ==
  ASSUME Inv, NEW h \in Hosts, Recover(h) \/ Recovered(h) PROVE Inv'
  <1>1. h \in Callers /\ job[h].pc # "idle" /\ UNCHANGED <<run, decision, status>>
    BY Kinds DEF Recover, Recovered, textVars, queueVars, At
  <1>2. CASE Leave(h)
    BY <1>1, <1>2, Leaves
  <1>3. ASSUME NEW pc \in {"tool", "resume"}, Go(h, pc)
        PROVE  Inv'
    BY <1>1, <1>3, HostGoes
  <1> QED BY <1>2, <1>3 DEF Recover, Recovered

LEMMA ResumeKeeps == ASSUME Inv, NEW h \in Hosts, Resume(h) PROVE Inv'
  <1> DEFINE r == job[h].run
             row == [run[r] EXCEPT !.status = "RUNNING", !.blockedOn = None,
                                   !.error = FALSE, !.step = run[r].step + 1]
  <1>1. h \in Callers /\ job[h].pc # "idle" /\ Leave(h) /\ UNCHANGED decision
    BY Kinds DEF Resume, textVars, At
  <1>2. r \in Runs
    BY <1>1 DEF Inv, Doing
  <1>3. CASE UNCHANGED <<run, status>>
    BY <1>1, <1>3, Leaves
  <1>4. CASE /\ run[r].step < MaxSteps + Slack
             /\ run' = [run EXCEPT ![r] = row] /\ Schedule(r, run[r].step + 1)
    <2>1. run[r].step + 1 \in Steps /\ run[r].step < run[r].step + 1
          /\ run[r].step <= run[r].step + 1
      BY <1>2, <1>4, NextStep
    <2>2. row \in Row /\ row.status = "RUNNING" /\ row.step = run[r].step + 1
      BY <1>2, <2>1, RowIs DEF Row
    <2>3. run' = [run EXCEPT ![r] = row]
      BY <1>4
    <2> HIDE DEF row
    <2>4. Q!Enqueue(<<r, row.step>>)
      BY <1>4, <2>2 DEF Schedule
    <2>5. run[r].step <= row.step /\ run[r].step < row.step
      BY <2>1, <2>2, Zenon
    <2>6. OnlyMoves(h) /\ Doing(h)' /\ job' \in [Callers -> Job]
      BY <1>1, LeavesFor
    <2>7. Tables
      BY <1>1, <1>2, <2>2, <2>3, <2>4, <2>5, <2>6, Generates
    <2> QED BY <1>1, <2>6, <2>7, OneMoves
  <1> QED BY <1>3, <1>4 DEF Resume, queueVars

LEMMA NothingMoves == ASSUME Inv, UNCHANGED <<run, decision, job, status>> PROVE Inv'
  <1>1. ASSUME NEW p \in Callers
        PROVE  Doing(p)'
    BY DEF Inv, Doing, Settled
  <1> QED BY <1>1 DEF Inv, Types, Scheduled, NoStrandedRun

LEMMA BreakKeeps == ASSUME Inv, NEW p \in Callers, Break(p) \/ Crash(p) PROVE Inv'
  <1>1. job[p].pc # "idle" /\ UNCHANGED <<run, decision, status>>
    BY DEF Break, Crash, textVars, queueVars, At
  <1>2. CASE Leave(p)
    BY <1>1, <1>2, Leaves
  <1>3. CASE p \in Workers /\ Go(p, "error")
    <2>1. Fits(p, "error")
      BY DEF Fits, Acting
    <2> QED BY <1>1, <1>3, <2>1, WorkerGoes, Positions DEF Outside
  <1> QED BY <1>2, <1>3 DEF Break, Crash

LEMMA NextKeeps == Inv /\ [Next]_vars => Inv'
  <1> SUFFICES ASSUME Inv, [Next]_vars PROVE Inv'
    OBVIOUS
  <1>1. CASE UNCHANGED vars
    BY <1>1, NothingMoves DEF vars, textVars, queueVars
  <1>2. ASSUME NEW w \in Workers, Work(w)
        PROVE  Inv'
    <2>1. CASE Tool(w)
      BY <2>1, NothingMoves DEF Tool, textVars, queueVars
    <2> QED BY <1>2, <2>1, LoadKeeps, FailKeeps, DropKeeps, DecideKeeps, AskKeeps,
               AdmitKeeps, SayKeeps, ToolReturnedKeeps, ToolRaisedKeeps, BlockKeeps,
               AdvanceKeeps, CompleteKeeps, AckKeeps, BlameKeeps, RequeueKeeps
        DEF Work
  <1>3. ASSUME NEW h \in Hosts, HostWork(h)
        PROVE  Inv'
    <2>1. CASE Tool(h)
      BY <2>1, NothingMoves DEF Tool, textVars, queueVars
    <2> QED BY <1>3, <2>1, HostWorkKeeps, ResumeKeeps DEF HostWork
  <1>4. ASSUME NEW i \in RequestIds, Reconcile(i)
        PROVE  Inv'
    BY <1>4, NothingMoves DEF Reconcile, textVars, queueVars
  <1>5. ASSUME NEW e \in Events, Lapse(e)
        PROVE  Inv'
    BY <1>5, NothingMoves DEF Lapse, textVars, Q!Lapse
  <1> QED BY <1>1, <1>2, <1>3, <1>4, <1>5, SubmitKeeps, ClaimKeeps, ResumeBlockedKeeps,
             BreakKeeps DEF Next

LEMMA InvHolds == Spec => []Inv
  BY InitInv, NextKeeps, PTL DEF Spec

(* No run is ever stranded: whatever workers and hosts do and wherever they *)
(* fail, a RUNNING run (engine.py run_once, store.py advance_run_step and   *)
(* resume_run_after_effect) has a live event at its generation.             *)
THEOREM RunsAreNeverStranded == Spec => []NoStrandedRun
  <1>1. Inv => NoStrandedRun
    BY DEF Inv
  <1> QED BY <1>1, InvHolds, PTL

(* A worker only ever acts on the decision that is durable for its step     *)
(* (store.py record_run_step_decision), though several workers may run the  *)
(* step and the model may answer each of them differently.                  *)
THEOREM OneDecisionPerStep == Spec => []ActsOnDecision
  <1>1. Inv => ActsOnDecision
    <2> SUFFICES ASSUME Inv, NEW w \in Workers, job[w].pc \in Acting
                 PROVE  job[w].plan = decision[job[w].run][job[w].step]
      BY DEF ActsOnDecision, Acting
    <2>1. job[w].pc # "idle"
      BY DEF Acting
    <2> QED BY <2>1, Works DEF Doing
  <1> QED BY <1>1, InvHolds, PTL
=============================================================================
