------------------------- MODULE RunEngineLeasedProofs -------------------------
(***************************************************************************)
(* Proofs about RunEngine where leases outlast cycles, one host resumes and *)
(* the host is truthful and patient: any workers, runs, request ids and     *)
(* budgets, and any process may die and any statement fail.                 *)
(***************************************************************************)
EXTENDS RunEngineToolProofs

SP == INSTANCE EffectLedgerProofs WITH Serialised <- TRUE

(* What the engine's promises about effects rest on: cycles end before      *)
(* their leases do, no request id is minted twice, and one host resumes,    *)
(* which reconciles truthfully and only when no dispatch is running.        *)
Leased ==
  /\ ~Overlap /\ FreshIds /\ Truthful /\ Quiescent
  /\ \A g, h \in Hosts : g = h

(* A worker holds the event of its cycle, until it has acknowledged it.     *)
Holds(w) == LET e == EventOf(w) IN status[e] = "CLAIMED" /\ owner[e] = w /\ ~lapsed[e]

Current == {"decide", "ask", "admit", "say", "tool", "block", "fail", "advance", "final",
            "complete"}

(* Whose work depends on the run staying as it is.                          *)
Bound(p) == \/ p \in Workers /\ job[p].pc \in Current \cup {"maxed"}
            \/ p \in Hosts /\ job[p].pc # "idle"

WorkerInv(w) ==
  LET r == job[w].run  s == job[w].step  pc == job[w].pc  plan == job[w].plan IN
  /\ pc # "idle" => r \in Runs
  /\ pc # "idle" => Holds(w) \/ (pc \in {"error", "requeue"} /\ status[EventOf(w)] = "DONE")
  /\ pc \in Current \cup {"maxed"} => run[r].status = "RUNNING" /\ run[r].step = s
  /\ pc = "maxed" => s >= MaxSteps
  /\ pc \in {"final", "complete"} => plan = Final
  /\ pc \in {"ask", "admit"} => decision[r][s] = None
  /\ pc \in {"tool", "block", "fail", "advance", "complete"} => s \in said[r]
  /\ pc = "advance" => outcome[r][s] # None
  /\ pc = "block" => effect[plan.rid] # "NONE"

HostInv(h) ==
  LET r == job[h].run IN
  job[h].pc # "idle" =>
    /\ r \in Runs
    /\ run[r].status = "BLOCKED_EFFECT" /\ job[h].plan.rid = run[r].blockedOn
    /\ job[h].pc = "tool" => call[h].body \in Mutations
    /\ job[h].pc = "resume" => recovered[r][job[h].plan.rid] # None

(* The model mints every request id once.                                   *)
Unique ==
  \A e, f \in Events :
    decision[e[1]][e[2]] \in Calls /\ decision[f[1]][f[2]] \in Calls
      /\ decision[e[1]][e[2]].rid = decision[f[1]][f[2]].rid => e = f

Minting(w) == job[w].pc = "admit" /\ job[w].plan \in Calls

Fresh(w) ==
  Minting(w) =>
    /\ \A e \in Events : decision[e[1]][e[2]] \in Calls =>
         decision[e[1]][e[2]].rid # job[w].plan.rid
    /\ \A v \in Workers : Minting(v) /\ job[v].plan.rid = job[w].plan.rid => v = w

(* What a generation leaves behind: its message and what came of it.        *)
Left(r, s) ==
  /\ s \in said[r]
  /\ \/ decision[r][s] = Final
     \/ /\ decision[r][s] \in Calls
        /\ outcome[r][s] # None \/ recovered[r][decision[r][s].rid] # None

(* What a run has left behind, and what it waits for.                       *)
RunInv(r) ==
  /\ \A s \in Steps : s < run[r].step => Left(r, s)
  /\ run[r].status = "BLOCKED_EFFECT" =>
       LET plan == decision[r][run[r].step] IN
       plan \in Calls /\ plan.rid = run[r].blockedOn /\ run[r].step \in said[r]
       /\ effect[plan.rid] # "NONE"

(* What the transcript says came of a mutation is what the ledger holds.    *)
TextInv(r) ==
  /\ \A s \in Steps : outcome[r][s] # None => decision[r][s] \in Calls
       /\ LET i == decision[r][s].rid IN
          decision[r][s].body \in Mutations => effect[i] = "COMMITTED" /\ outcome[r][s] = result[i]
  /\ \A i \in RequestIds : recovered[r][i] # None =>
       effect[i] = "COMMITTED" /\ recovered[r][i] = result[i]

ReplyInv(p) == call[p].at = "returned" => call[p].reply \in Values

LInv ==
  /\ Tools /\ SP!TrustedInv
  /\ \A w \in Workers : WorkerInv(w) /\ Fresh(w)
  /\ \A h \in Hosts : HostInv(h)
  /\ Unique
  /\ \A r \in Runs : RunInv(r) /\ TextInv(r)
  /\ \A p \in Callers : ReplyInv(p)

-----------------------------------------------------------------------------
LEMMA SerialConstants == SP!LedgerAssumption /\ (Leased => SP!Trusted)
BY ToolsAssumption DEF L!LedgerAssumption, SP!LedgerAssumption, L!Errors, SP!Errors, L!Bodies,
   SP!Bodies, Leased, SP!Trusted

(* The serialised ledger of RunEngine is the one EffectLedgerProofs is      *)
(* about.                                                                   *)
LEMMA SameSerial ==
  /\ SerialLedger!Init <=> SP!Init
  /\ SerialLedger!Next <=> SP!Next
  /\ SerialLedger!vars = SP!vars
BY DEF
  SerialLedger!Init, SerialLedger!NoCall, SerialLedger!Next, SerialLedger!vars, SerialLedger!Step,
  SerialLedger!Points, SerialLedger!Errors, SerialLedger!Bodies, SerialLedger!ledger,
  SerialLedger!At, SerialLedger!Goto, SerialLedger!Answer, SerialLedger!Raise, SerialLedger!Free,
  SerialLedger!Admission, SerialLedger!Start, SerialLedger!ReadOnly, SerialLedger!MayRetry,
  SerialLedger!SameRequest, SerialLedger!Lookup, SerialLedger!Insert, SerialLedger!Retry,
  SerialLedger!Apply, SerialLedger!HandlerReturns, SerialLedger!HandlerRaises,
  SerialLedger!AfterRaise, SerialLedger!Unknown, SerialLedger!StoredResult, SerialLedger!Commit,
  SerialLedger!StatementFails, SerialLedger!Recover, SerialLedger!Finish, SerialLedger!Crash,
  SerialLedger!Reconcilable, SerialLedger!Patience, SerialLedger!InFlight, SerialLedger!Confirm,
  SerialLedger!DeniedState, SerialLedger!Deny, SerialLedger!Reconcile,
  SP!Init, SP!NoCall, SP!Next, SP!vars, SP!Step, SP!Points, SP!Errors, SP!Bodies, SP!ledger,
  SP!At, SP!Goto, SP!Answer, SP!Raise, SP!Free, SP!Admission, SP!Start, SP!ReadOnly, SP!MayRetry,
  SP!SameRequest, SP!Lookup, SP!Insert, SP!Retry, SP!Apply, SP!HandlerReturns, SP!HandlerRaises,
  SP!AfterRaise, SP!Unknown, SP!StoredResult, SP!Commit, SP!StatementFails, SP!Recover, SP!Finish,
  SP!Crash, SP!Reconcilable, SP!Patience, SP!InFlight, SP!Confirm, SP!DeniedState, SP!Deny,
  SP!Reconcile

(* Serialised or not, the ledger's steps are the same but for the guard of  *)
(* a call that begins.                                                      *)
LEMMA SameSteps ==
  /\ L!vars = SP!vars
  /\ \A p \in Callers :
       /\ L!Step(p) <=> SP!Step(p)
       /\ L!Finish(p) <=> SP!Finish(p)
       /\ L!Crash(p) <=> SP!Crash(p)
       /\ \A i \in RequestIds : (\A q \in Callers : call[q].rid # i) =>
            /\ L!Recover(p, i) => SP!Recover(p, i)
            /\ \A b \in Bodies : L!Start(p, i, b) => SP!Start(p, i, b)
  /\ \A i \in RequestIds : L!Reconcile(i) <=> SP!Reconcile(i)
BY DEF
  L!NoCall, L!vars, L!Step,
  L!Points, L!Errors, L!Bodies, L!ledger, L!At, L!Goto, L!Answer,
  L!Raise, L!Free, L!Admission, L!Start, L!ReadOnly, L!MayRetry, L!SameRequest, L!Lookup,
  L!Insert, L!Retry, L!Apply, L!HandlerReturns, L!HandlerRaises, L!AfterRaise, L!Unknown,
  L!StoredResult, L!Commit, L!StatementFails, L!Recover, L!Finish, L!Crash, L!Reconcilable,
  L!Patience, L!InFlight, L!Confirm, L!DeniedState, L!Deny, L!Reconcile,
  SP!NoCall, SP!vars, SP!Step, SP!Points, SP!Errors, SP!Bodies, SP!ledger,
  SP!At, SP!Goto, SP!Answer, SP!Raise, SP!Free, SP!Admission, SP!Start, SP!ReadOnly, SP!MayRetry,
  SP!SameRequest, SP!Lookup, SP!Insert, SP!Retry, SP!Apply, SP!HandlerReturns, SP!HandlerRaises,
  SP!AfterRaise, SP!Unknown, SP!StoredResult, SP!Commit, SP!StatementFails, SP!Recover, SP!Finish,
  SP!Crash, SP!Reconcilable, SP!Patience, SP!InFlight, SP!Confirm, SP!DeniedState, SP!Deny,
  SP!Reconcile

LEMMA SameTypes == LP!TypeInv <=> SP!TypeInv
<1>1. LP!TypeOK <=> SP!TypeOK
  <2>1. LP!Points = SP!Points /\ LP!Errors = SP!Errors /\ LP!Bodies = SP!Bodies
    BY DEF LP!Points, SP!Points, LP!Errors, SP!Errors, LP!Bodies, SP!Bodies
  <2>2. LP!Call = SP!Call BY <2>1 DEF LP!Call, SP!Call
  <2>3. LP!EffectStates = SP!EffectStates BY DEF LP!EffectStates, SP!EffectStates
  <2> QED BY <2>2, <2>3 DEF LP!TypeOK, SP!TypeOK
<1>2. LP!Admitted <=> SP!Admitted
  BY DEF LP!Admitted, SP!Admitted, LP!InFlight, SP!InFlight
<1> QED BY <1>1, <1>2 DEF LP!TypeInv, SP!TypeInv

-----------------------------------------------------------------------------
(* Leases and the status of a run keep processes apart.                     *)

LEMMA WorkerAt ==
  ASSUME LInv, NEW w \in Workers, job[w].pc # "idle"
  PROVE  /\ w \in Callers /\ w \notin Hosts
         /\ job[w].run \in Runs /\ job[w].step \in Steps
         /\ EventOf(w) \in Events /\ EventOf(w) = <<job[w].run, job[w].step>>
         /\ job[w].pc \notin {"error", "requeue"} => Holds(w)
         /\ job[w].pc \in Current \cup {"maxed"} =>
              run[job[w].run].status = "RUNNING" /\ run[job[w].run].step = job[w].step
         /\ job[w].pc \in Acting => job[w].plan = decision[job[w].run][job[w].step]
         /\ job[w].pc \in Calling => job[w].plan \in Calls
<1>1. Inv /\ WorkerInv(w) /\ ToolInv(w) BY Kinds DEF LInv, Tools
<1>2. job[w].pc \in Acting => job[w].plan = decision[job[w].run][job[w].step]
  BY <1>1, Works DEF Doing
<1> QED BY <1>1, <1>2, Works, Kinds, Working DEF WorkerInv, ToolInv, EventOf

LEMMA HostAt ==
  ASSUME LInv, NEW h \in Hosts, job[h].pc # "idle"
  PROVE  /\ h \in Callers /\ h \notin Workers
         /\ job[h].run \in Runs /\ run[job[h].run].status = "BLOCKED_EFFECT"
         /\ job[h].plan.rid = run[job[h].run].blockedOn
         /\ job[h].plan.rid \in RequestIds
         /\ run[job[h].run].step \in Steps
         /\ decision[job[h].run][run[job[h].run].step] \in Calls
         /\ decision[job[h].run][run[job[h].run].step].rid = job[h].plan.rid
         /\ effect[job[h].plan.rid] # "NONE"
<1>1. HostInv(h) /\ Inv /\ ToolInv(h) BY Kinds DEF LInv, Tools
<1>2. RunInv(job[h].run) BY <1>1 DEF LInv, HostInv
<1> QED BY <1>1, <1>2, Kinds, RowIs DEF HostInv, RunInv, ToolInv

(* Two bound processes never work on the same run.                          *)
LEMMA Apart ==
  ASSUME LInv, Leased, NEW p \in Callers, NEW q \in Callers, Bound(p), Bound(q),
         job[p].run = job[q].run
  PROVE  p = q
<1>1. CASE p \in Workers /\ q \in Workers
  <2>1. job[p].pc # "idle" /\ job[p].pc \notin {"error", "requeue"} /\ job[p].pc \in Current \cup {"maxed"}
    BY <1>1, Kinds DEF Bound, Current
  <2>2. job[q].pc # "idle" /\ job[q].pc \notin {"error", "requeue"} /\ job[q].pc \in Current \cup {"maxed"}
    BY <1>1, Kinds DEF Bound, Current
  <2>3. Holds(p) /\ Holds(q) /\ EventOf(p) = EventOf(q)
    BY <1>1, <2>1, <2>2, WorkerAt
  <2> QED BY <2>3 DEF Holds
<1>2. CASE p \in Hosts /\ q \in Hosts BY <1>2 DEF Leased
<1>3. ASSUME NEW w \in Workers, NEW h \in Hosts, Bound(w), Bound(h), job[w].run = job[h].run
      PROVE  FALSE
  <2>1. job[w].pc # "idle" /\ job[w].pc \in Current \cup {"maxed"}
    BY <1>3, Kinds DEF Bound, Current
  <2>2. job[h].pc # "idle" BY <1>3, Kinds DEF Bound
  <2> QED BY <1>3, <2>1, <2>2, WorkerAt, HostAt
<1> QED BY <1>1, <1>2, <1>3, Kinds

(* Whose request a process is about: the decision of one event.             *)
Asked(p) == IF p \in Workers THEN EventOf(p) ELSE <<job[p].run, run[job[p].run].step>>

LEMMA AskedIs ==
  ASSUME LInv, NEW p \in Callers,
         \/ p \in Workers /\ job[p].pc \in {"say", "tool"}
         \/ p \in Hosts /\ job[p].pc # "idle"
  PROVE  /\ Asked(p) \in Events /\ Asked(p)[1] = job[p].run
         /\ decision[Asked(p)[1]][Asked(p)[2]] \in Calls
         /\ decision[Asked(p)[1]][Asked(p)[2]].rid = job[p].plan.rid
         /\ Bound(p)
<1>1. CASE p \in Workers /\ job[p].pc \in {"say", "tool"}
  <2>1. job[p].pc # "idle" /\ job[p].pc \in Acting /\ job[p].pc \in Calling /\ job[p].pc \in Current
    BY <1>1 DEF Acting, Calling, Current
  <2> QED BY <1>1, <2>1, WorkerAt DEF Asked, Bound
<1>2. CASE p \in Hosts /\ job[p].pc # "idle"
  BY <1>2, HostAt DEF Asked, Bound, Events
<1> QED BY <1>1, <1>2

LEMMA NobodyElse ==
  ASSUME LInv, Leased, NEW p \in Callers, NEW q \in Callers,
         \/ p \in Workers /\ job[p].pc = "say"
         \/ p \in Hosts /\ job[p].pc = "recover",
         job[p].plan.rid \in RequestIds
  PROVE  call[q].rid # job[p].plan.rid
<1> SUFFICES ASSUME call[q].rid = job[p].plan.rid PROVE FALSE OBVIOUS
<1>1. ToolInv(q) BY DEF LInv, Tools
<1>2. None \notin RequestIds BY EngineAssumption
<1>3. job[q].pc = "tool" /\ job[q].plan.rid = job[p].plan.rid
  BY <1>1, <1>2 DEF ToolInv, L!NoCall
<1>4. /\ Asked(p) \in Events /\ Asked(p)[1] = job[p].run /\ Bound(p)
      /\ decision[Asked(p)[1]][Asked(p)[2]] \in Calls
      /\ decision[Asked(p)[1]][Asked(p)[2]].rid = job[p].plan.rid
  BY AskedIs
<1>5. /\ Asked(q) \in Events /\ Asked(q)[1] = job[q].run /\ Bound(q)
      /\ decision[Asked(q)[1]][Asked(q)[2]] \in Calls
      /\ decision[Asked(q)[1]][Asked(q)[2]].rid = job[q].plan.rid
  BY <1>3, AskedIs, Kinds
<1>6. Asked(p) = Asked(q) BY <1>3, <1>4, <1>5 DEF LInv, Unique
<1>7. p = q BY <1>4, <1>5, <1>6, Apart
<1> QED BY <1>3, <1>7

(* So the engine's calls never overlap on a request id.                     *)
LEMMA SerialNext ==
  ASSUME LInv, Leased, [Next]_vars
  PROVE  [SP!Next]_(SP!vars)
<1>1. ASSUME UNCHANGED toolVars PROVE [SP!Next]_(SP!vars) BY <1>1 DEF toolVars, SP!vars
<1>2. ASSUME NEW p \in Callers, L!Step(p) \/ L!Finish(p) \/ L!Crash(p)
      PROVE  [SP!Next]_(SP!vars)
  BY <1>2, SameSteps DEF SP!Next
<1>3. Tools BY DEF LInv
<1>4. ASSUME NEW w \in Workers, Work(w) PROVE [SP!Next]_(SP!vars)
  <2>1. CASE QuietWork(w) BY <1>1, <1>3, <2>1, QuietWorkJob
  <2>2. CASE Say(w)
    <3> DEFINE i == job[w].plan.rid
               b == job[w].plan.body
    <3>1. job[w].pc = "say" /\ w \in Callers BY <2>2, Kinds DEF Say, At
    <3>2. job[w].plan \in Calls BY <1>3, <3>1 DEF Tools, ToolInv, Calling
    <3>3. i \in RequestIds /\ b \in Bodies BY <3>2 DEF Calls
    <3>4. L!Start(w, i, b) BY <2>2 DEF Say
    <3>5. \A q \in Callers : call[q].rid # i BY <3>1, <3>3, NobodyElse
    <3>6. SP!Start(w, i, b) BY <3>1, <3>3, <3>4, <3>5, SameSteps
    <3> QED BY <3>1, <3>3, <3>6 DEF SP!Next, SP!Bodies, Bodies
  <2>3. CASE Tool(w) \/ ToolReturned(w) \/ ToolRaised(w)
    BY <1>2, <2>3, Kinds DEF Tool, ToolReturned, ToolRaised
  <2> QED BY <1>4, <2>1, <2>2, <2>3 DEF Work, QuietWork
<1>5. ASSUME NEW h \in Hosts, HostWork(h) PROVE [SP!Next]_(SP!vars)
  <2>1. CASE Recover(h)
    <3> DEFINE i == job[h].plan.rid
    <3>1. job[h].pc = "recover" /\ h \in Callers BY <2>1, Kinds DEF Recover, At
    <3>2. i \in RequestIds BY <1>3, <3>1 DEF Tools, ToolInv
    <3>3. \A q \in Callers : call[q].rid # i BY <3>1, <3>2, NobodyElse
    <3>4. SP!Recover(h, i) BY <2>1, <3>1, <3>2, <3>3, SameSteps DEF Recover
    <3> QED BY <3>1, <3>2, <3>4 DEF SP!Next
  <2>2. CASE Tool(h) \/ Recovered(h) BY <1>2, <2>2, Kinds DEF Tool, Recovered
  <2>3. CASE Resume(h) BY <1>1, <2>3 DEF Resume
  <2> QED BY <1>5, <2>1, <2>2, <2>3 DEF HostWork
<1>6. ASSUME NEW i \in RequestIds, Reconcile(i) PROVE [SP!Next]_(SP!vars)
  BY <1>6, SameSteps DEF Reconcile, SP!Next
<1>7. ASSUME NEW p \in Callers, Break(p) \/ Crash(p) PROVE [SP!Next]_(SP!vars)
  <2>1. /\ call' = [call EXCEPT ![p] = L!NoCall]
        /\ UNCHANGED <<effect, request, result, denied, applied>>
    BY <1>7 DEF Break, Crash
  <2>2. CASE job[p].pc = "tool"
    BY <1>2, <1>3, <1>7, <2>1, <2>2
       DEF Break, Crash, At, L!Finish, L!Crash, L!At, L!ledger, Tools, ToolInv
  <2>3. CASE job[p].pc # "tool"
    BY <1>3, <2>1, <2>3 DEF Tools, ToolInv, LP!TypeInv, LP!TypeOK, SP!vars
  <2> QED BY <2>2, <2>3
<1>8. CASE UNCHANGED vars BY <1>1, <1>8 DEF vars
<1> QED BY <1>1, <1>4, <1>5, <1>6, <1>7, <1>8
    DEF Next, Submit, Claim, ResumeBlocked, Lapse

(* What the ledger therefore does in a step of the engine.                  *)
LEMMA LedgerMoves ==
  ASSUME LInv, Leased, [Next]_vars, Tools'
  PROVE  /\ SP!TrustedInv'
         /\ RowsStay
         /\ \A i \in RequestIds : effect[i] = "COMMITTED" =>
              effect'[i] = "COMMITTED" /\ result'[i] = result[i]
<1>1. [SP!Next]_(SP!vars) BY SerialNext
<1>2. SP!TypeInv /\ SP!TypeInv' /\ SP!TrustedInv
  <2>1. (LP!TypeInv <=> SP!TypeInv)' BY SameTypes, PTL
  <2> QED BY <2>1, SameTypes DEF LInv, Tools
<1>3. SP!Trusted /\ SP!LedgerAssumption BY SerialConstants
<1>4. SP!TrustedInv' BY <1>1, <1>2, <1>3, SP!TrustedNext
<1>5. SP!Silent \/ \E i \in RequestIds : SP!Loud(i) BY <1>1, <1>2, <1>3, SP!TrustedSteps
<1>6. effect \in [RequestIds -> SP!EffectStates] BY <1>2 DEF SP!TypeInv, SP!TypeOK
<1>7. \A i \in RequestIds : effect[i] = "COMMITTED" =>
        effect'[i] = "COMMITTED" /\ result'[i] = result[i]
  <2>1. CASE SP!Silent BY <2>1 DEF SP!Silent, SP!ledger
  <2>2. ASSUME NEW i \in RequestIds, SP!Loud(i)
        PROVE  \A j \in RequestIds : effect[j] = "COMMITTED" =>
                 effect'[j] = "COMMITTED" /\ result'[j] = result[j]
    BY <1>2, <2>2 DEF SP!Loud, SP!TypeInv, SP!TypeOK
  <2> QED BY <1>5, <2>1, <2>2
<1>8. RowsStay BY RowsKeep, StepDrivesLedger DEF LInv, Tools
<1> QED BY <1>4, <1>7, <1>8

-----------------------------------------------------------------------------
(* What a step leaves alone.                                                *)

(* What is in the transcript, or decided, stays.                            *)
Grown ==
  /\ \A r \in Runs : said[r] \subseteq said'[r]
  /\ \A r \in Runs : \A s \in Steps :
       /\ decision[r][s] # None => decision'[r][s] = decision[r][s]
       /\ outcome[r][s] # None => outcome'[r][s] = outcome[r][s]
  /\ \A r \in Runs : \A i \in RequestIds :
       recovered[r][i] # None => recovered'[r][i] = recovered[r][i]

LEMMA TextsGrow ==
  ASSUME Tools, [Next]_vars
  PROVE  Grown
<1> USE DEF Grown
<1>1. ASSUME UNCHANGED textVars PROVE Grown BY <1>1 DEF textVars
<1>2. /\ decision \in [Runs -> [Steps -> Plans \cup {None}]]
      /\ said \in [Runs -> SUBSET Steps]
      /\ outcome \in [Runs -> [Steps -> Values \cup {None}]]
      /\ recovered \in [Runs -> [RequestIds -> Values \cup {None}]]
  BY DEF Tools, Inv, Types, TextTypes
<1>3. ASSUME NEW w \in Workers, Work(w) PROVE Grown
  <2> DEFINE r == job[w].run
             s == job[w].step
  <2>1. CASE Admit(w)
    <3>1. \/ decision' = decision
          \/ decision[r][s] \in {None, job[w].plan} /\ decision' = [decision EXCEPT ![r][s] = job[w].plan]
      BY <2>1 DEF Admit, Admissible
    <3>2. UNCHANGED <<said, outcome, recovered>> BY <2>1 DEF Admit
    <3>3. ASSUME NEW q \in Runs, NEW t \in Steps, decision[q][t] # None
          PROVE  decision'[q][t] = decision[q][t]
      <4>1. CASE q = r /\ t = s BY <1>2, <3>1, <3>3, <4>1
      <4>2. CASE q = r /\ t # s BY <1>2, <3>1, <4>2
      <4>3. CASE q # r BY <1>2, <3>1, <4>3
      <4> QED BY <4>1, <4>2, <4>3
    <3> QED BY <3>2, <3>3
  <2>2. CASE Say(w) \/ Conclude(w)
    <3>1. said' = [said EXCEPT ![r] = @ \cup {s}] /\ UNCHANGED <<decision, outcome, recovered>>
      BY <2>2 DEF Say, Conclude
    <3> QED BY <1>2, <3>1
  <2>3. CASE ToolReturned(w)
    <3>1. \/ outcome' = outcome
          \/ outcome[r][s] \in {None, call[w].reply} /\ outcome' = [outcome EXCEPT ![r][s] = call[w].reply]
      BY <2>3 DEF ToolReturned, Recordable
    <3>2. UNCHANGED <<said, decision, recovered>> BY <2>3 DEF ToolReturned
    <3>3. ASSUME NEW q \in Runs, NEW t \in Steps, outcome[q][t] # None
          PROVE  outcome'[q][t] = outcome[q][t]
      <4>1. CASE q = r /\ t = s BY <1>2, <3>1, <3>3, <4>1
      <4>2. CASE q = r /\ t # s BY <1>2, <3>1, <4>2
      <4>3. CASE q # r BY <1>2, <3>1, <4>3
      <4> QED BY <4>1, <4>2, <4>3
    <3> QED BY <3>2, <3>3
  <2>4. CASE ~Admit(w) /\ ~Say(w) /\ ~Conclude(w) /\ ~ToolReturned(w)
    <3>1. UNCHANGED textVars
      BY <1>3, <2>4 DEF Work, Load, MaxedOut, Drop, Decide, Ask, Tool, ToolRaised, Block, Fail,
                        Advance, Complete, Ack, Blame, Requeue
    <3> QED BY <1>1, <3>1
  <2> QED BY <2>1, <2>2, <2>3, <2>4
<1>4. ASSUME NEW h \in Hosts, HostWork(h) PROVE Grown
  <2> DEFINE r == job[h].run
             i == job[h].plan.rid
             v == call[h].reply
  <2>1. CASE Recovered(h)
    <3>1. \/ recovered' = recovered
          \/ recovered[r][i] \in {None, v} /\ recovered' = [recovered EXCEPT ![r][i] = v]
      BY <2>1 DEF Recovered, Recordable
    <3>2. UNCHANGED <<said, decision, outcome>> BY <2>1 DEF Recovered
    <3>3. ASSUME NEW q \in Runs, NEW t \in RequestIds, recovered[q][t] # None
          PROVE  recovered'[q][t] = recovered[q][t]
      <4>1. CASE q = r /\ t = i BY <1>2, <3>1, <3>3, <4>1
      <4>2. CASE q = r /\ t # i BY <1>2, <3>1, <4>2
      <4>3. CASE q # r BY <1>2, <3>1, <4>3
      <4> QED BY <4>1, <4>2, <4>3
    <3> QED BY <3>2, <3>3
  <2>2. CASE Recover(h) \/ Tool(h) \/ Resume(h) BY <1>1, <2>2 DEF Recover, Tool, Resume
  <2> QED BY <1>4, <2>1, <2>2 DEF HostWork
<1> QED BY <1>1, <1>3, <1>4 DEF Next, vars, Submit, Claim, ResumeBlocked, Reconcile, Break, Crash, Lapse

(* What a step of p leaves to the others: their jobs and calls, the rows of *)
(* the runs that are not p's, the events they hold, what is decided.        *)
SameRow(r) ==
  /\ run'[r].status = run[r].status /\ run'[r].step = run[r].step
  /\ run'[r].blockedOn = run[r].blockedOn

StillHolds(q) ==
  /\ status'[EventOf(q)] = "CLAIMED" /\ owner'[EventOf(q)] = q /\ ~lapsed'[EventOf(q)]

EventsStay(p) ==
  /\ \A q \in Workers \ {p} : job[q].pc # "idle" /\ Holds(q) => StillHolds(q)
  /\ \A e \in Events : status[e] = "DONE" => status'[e] = "DONE"

Frame(p) ==
  /\ OnlyMoves(p) /\ \A q \in Callers \ {p} : call'[q] = call[q]
  /\ \A r \in Runs : SameRow(r) \/ run[r].status = "NONE" \/ (p \in Callers /\ Bound(p) /\ job[p].run = r)
  /\ EventsStay(p)
  /\ \A r \in Runs : \A s \in Steps : decision'[r][s] # decision[r][s] =>
       p \in Workers /\ job[p].pc = "admit" /\ job[p].run = r /\ job[p].step = s

(* The queue is left alone, or gets a new event. *)
Enqueues ==
  UNCHANGED <<owner, lapsed>> /\ \A e \in Events : status[e] # "ABSENT" => status'[e] = status[e]

LEMMA HeldStay ==
  ASSUME LInv, Leased, NEW p \in Callers \cup {None}, NEW e \in Events,
         \/ p \in Workers /\ (Q!Claim(p, e) \/ Q!Ack(p, e) \/ Q!Release(p, e))
         \/ Lapse(e)
  PROVE  EventsStay(p)
<1>1. /\ status \in [Events -> Statuses] /\ owner \in [Events -> Workers \cup {None}]
      /\ lapsed \in [Events -> BOOLEAN]
  BY DEF LInv, Tools, Inv, Types, TextTypes, Queues
<1>2. \A q \in Workers : job[q].pc # "idle" => EventOf(q) \in Events BY WorkerAt
<1>3. CASE p \in Workers /\ Q!Claim(p, e)
  BY <1>1, <1>2, <1>3 DEF Q!Claim, Q!Claimable, EventsStay, Holds, StillHolds
<1>4. CASE p \in Workers /\ (Q!Ack(p, e) \/ Q!Release(p, e))
  BY <1>1, <1>2, <1>4 DEF Q!Ack, Q!Release, Q!Owns, Q!Settle, EventsStay, Holds, StillHolds
<1>5. CASE Lapse(e)
  <2>1. \A w \in Workers : owner[e] = w => ~Busy(w, e) BY <1>5 DEF Lapse, Leased
  <2>2. UNCHANGED <<status, owner>> /\ lapsed' = [lapsed EXCEPT ![e] = TRUE] BY <1>5 DEF Lapse, Q!Lapse
  <2> QED BY <1>1, <1>2, <2>1, <2>2 DEF Busy, At, EventsStay, Holds, StillHolds
<1> QED BY <1>3, <1>4, <1>5

LEMMA EnqueueStays ==
  ASSUME LInv, Enqueues, NEW p PROVE EventsStay(p)
<1>1. \A q \in Workers : job[q].pc # "idle" /\ Holds(q) => StillHolds(q)
  BY WorkerAt DEF Enqueues, Holds, StillHolds
<1> QED BY <1>1 DEF Enqueues, EventsStay

(* A step that touches no row, no event and no decision. *)
LEMMA QuietFrame ==
  ASSUME LInv, NEW p, OnlyMoves(p), \A q \in Callers \ {p} : call'[q] = call[q],
         UNCHANGED <<run, queueVars, decision>>
  PROVE  Frame(p)
<1>1. Enqueues BY DEF Enqueues, queueVars
<1> QED BY <1>1, EnqueueStays DEF Frame, SameRow

(* One that changes the row of the run the process is bound to. *)
LEMMA RowFrame ==
  ASSUME LInv, NEW p \in Callers, OnlyMoves(p), \A q \in Callers \ {p} : call'[q] = call[q],
         Bound(p), \A r \in Runs \ {job[p].run} : run'[r] = run[r],
         EventsStay(p), UNCHANGED decision
  PROVE  Frame(p)
BY DEF Frame, SameRow

LEMMA BoundPoints ==
  /\ {"maxed", "block", "fail", "complete", "advance"} \subseteq Current \cup {"maxed"}
  /\ "idle" \notin Current
BY DEF Current

LEMMA WorkFrame ==
  ASSUME LInv, Leased, NEW w \in Workers, Work(w)
  PROVE  Frame(w)
<1> DEFINE r == job[w].run
           s == job[w].step
<1>1. w \in Callers /\ Tools /\ Inv /\ run \in [Runs -> Row] BY Kinds DEF LInv, Tools, Inv, Types
<1>2. CASE QuietWork(w)
  <2>1. OnlyMoves(w) /\ \A q \in Callers \ {w} : call'[q] = call[q]
    BY <1>1, <1>2, QuietWorkJob DEF toolVars
  <2>2. ASSUME UNCHANGED <<run, queueVars, decision>> PROVE Frame(w) BY <2>1, <2>2, QuietFrame
  <2>3. CASE Load(w) \/ Decide(w) \/ Ask(w) \/ Conclude(w)
    BY <2>2, <2>3 DEF Load, Decide, Ask, Conclude, textVars
  <2>4. CASE MaxedOut(w) \/ Block(w) \/ Fail(w) \/ Complete(w) \/ Advance(w)
    <3>1. job[w].pc \in {"maxed", "block", "fail", "complete", "advance"} /\ UNCHANGED decision
      BY <2>4 DEF MaxedOut, Block, Fail, Complete, Advance, At, textVars
    <3>2. Bound(w) BY <3>1, BoundPoints DEF Bound
    <3>3. \A q \in Runs \ {r} : run'[q] = run[q]
      BY <1>1, <2>4 DEF MaxedOut, Block, Fail, Complete, Advance
    <3>4. Enqueues
      BY <2>4 DEF MaxedOut, Block, Fail, Complete, Advance, Schedule, Q!Enqueue, Enqueues, queueVars,
                  LInv, Tools, Inv, Types
    <3> QED BY <1>1, <2>1, <3>1, <3>2, <3>3, <3>4, EnqueueStays, RowFrame
  <2>5. CASE Blame(w)
    <3>1. \A q \in Runs : SameRow(q) BY <1>1, <2>5 DEF Blame, SameRow, Row
    <3>2. Enqueues BY <2>5 DEF Blame, Enqueues, queueVars
    <3> QED BY <2>1, <2>5, <3>1, <3>2, EnqueueStays DEF Blame, textVars, Frame
  <2>6. CASE Drop(w) \/ Ack(w) \/ Requeue(w)
    <3>1. EventOf(w) \in Events BY <1>1, <2>6, Working DEF Drop, Ack, Requeue, At
    <3>2. \/ Q!Ack(w, EventOf(w)) \/ Q!Release(w, EventOf(w)) \/ UNCHANGED queueVars
      BY <2>6 DEF Drop, Ack, Requeue
    <3>3. UNCHANGED queueVars => Enqueues BY DEF Enqueues, queueVars
    <3>4. EventsStay(w) BY <1>1, <3>1, <3>2, <3>3, HeldStay, EnqueueStays
    <3> QED BY <2>1, <2>6, <3>4 DEF Drop, Ack, Requeue, textVars, Frame, SameRow
  <2>7. CASE Admit(w)
    <3>1. UNCHANGED <<run, queueVars>> BY <2>7 DEF Admit
    <3>2. Enqueues BY <3>1 DEF Enqueues, queueVars
    <3>3. \A q \in Runs : \A t \in Steps : decision'[q][t] # decision[q][t] => q = r /\ t = s
      BY <1>1, <2>7 DEF Admit, Inv, Types
    <3> QED BY <2>1, <2>7, <3>1, <3>2, <3>3, EnqueueStays DEF Admit, At, Frame, SameRow
  <2> QED BY <1>2, <2>3, <2>4, <2>5, <2>6, <2>7 DEF QuietWork
<1>3. CASE Say(w)
  <2>1. OnlyMoves(w) BY <1>1, <1>3, GoesFor, Positions DEF Say, Attempt
  <2>2. \A q \in Callers \ {w} : call'[q] = call[q] BY <1>3 DEF Say, L!Start, Tools, LInv, LP!TypeInv, LP!TypeOK
  <2> QED BY <1>3, <2>1, <2>2, QuietFrame DEF Say
<1>4. CASE Tool(w)
  <2>1. OnlyMoves(w) BY <1>4 DEF Tool, OnlyMoves
  <2>2. \A q \in Callers \ {w} : call'[q] = call[q] BY <1>1, <1>4, StepMoves DEF Tool, Tools
  <2> QED BY <1>4, <2>1, <2>2, QuietFrame DEF Tool, textVars
<1>5. CASE ToolReturned(w) \/ ToolRaised(w)
  <2>1. PICK pc \in {"advance", "error", "block", "fail"} : Go(w, pc)
    BY <1>5 DEF ToolReturned, ToolRaised, Verdict
  <2>2. OnlyMoves(w) BY <1>1, <2>1, GoesFor, Positions DEF Attempt, Outside
  <2>3. \A q \in Callers \ {w} : call'[q] = call[q]
    BY <1>1, <1>5, CallEnds DEF ToolReturned, ToolRaised, L!Finish
  <2> QED BY <1>5, <2>2, <2>3, QuietFrame DEF ToolReturned, ToolRaised, textVars
<1> QED BY <1>2, <1>3, <1>4, <1>5 DEF Work, QuietWork

LEMMA HostFrame ==
  ASSUME LInv, Leased, NEW h \in Hosts, HostWork(h) \/ \E r \in Runs : ResumeBlocked(h, r)
  PROVE  Frame(h)
<1>1. h \in Callers /\ Tools /\ Inv /\ run \in [Runs -> Row] BY Kinds DEF LInv, Tools, Inv, Types
<1>2. CASE Recover(h)
  <2>1. OnlyMoves(h) BY <1>1, <1>2, GoesFor, Positions DEF Recover, Attempt
  <2>2. \A q \in Callers \ {h} : call'[q] = call[q]
    BY <1>2 DEF Recover, L!Recover, Tools, LInv, LP!TypeInv, LP!TypeOK
  <2> QED BY <1>2, <2>1, <2>2, QuietFrame DEF Recover, textVars
<1>3. CASE Tool(h)
  <2>1. OnlyMoves(h) BY <1>3 DEF Tool, OnlyMoves
  <2>2. \A q \in Callers \ {h} : call'[q] = call[q] BY <1>1, <1>3, StepMoves DEF Tool, Tools
  <2> QED BY <1>3, <2>1, <2>2, QuietFrame DEF Tool, textVars
<1>4. CASE Recovered(h)
  <2>1. OnlyMoves(h)
    BY <1>1, <1>4, GoesFor, LeavesFor, Positions DEF Recovered, Outside
  <2>2. \A q \in Callers \ {h} : call'[q] = call[q]
    BY <1>1, <1>4, CallEnds DEF Recovered, L!Finish
  <2> QED BY <1>4, <2>1, <2>2, QuietFrame DEF Recovered
<1>5. CASE Resume(h)
  <2>1. Bound(h) BY <1>1, <1>5 DEF Resume, At, Bound
  <2>2. OnlyMoves(h) BY <1>1, <1>5, LeavesFor DEF Resume
  <2>3. \A q \in Runs \ {job[h].run} : run'[q] = run[q] BY <1>1, <1>5 DEF Resume
  <2>4. Enqueues
    BY <1>5 DEF Resume, Schedule, Q!Enqueue, Enqueues, queueVars, LInv, Tools, Inv, Types
  <2>5. UNCHANGED <<decision, call>> BY <1>5 DEF Resume, textVars, toolVars
  <2> QED BY <1>1, <2>1, <2>2, <2>3, <2>4, <2>5, EnqueueStays, RowFrame
<1>6. ASSUME NEW r \in Runs, ResumeBlocked(h, r) PROVE Frame(h)
  BY <1>1, <1>6, QuietFrame DEF ResumeBlocked, OnlyMoves, textVars, toolVars, Inv, Types
<1> QED BY <1>2, <1>3, <1>4, <1>5, <1>6 DEF HostWork

LEMMA ClaimFrame ==
  ASSUME LInv, Leased, NEW w \in Workers, NEW e \in Events, Claim(w, e)
  PROVE  Frame(w)
<1>1. w \in Callers /\ job \in [Callers -> Job] BY Kinds DEF LInv, Tools, Inv, Types
<1>2. OnlyMoves(w) BY <1>1 DEF Claim, OnlyMoves
<1>3. EventsStay(w) BY <1>1, HeldStay DEF Claim
<1> QED BY <1>2, <1>3 DEF Claim, textVars, toolVars, Frame, SameRow

LEMMA BreakFrame ==
  ASSUME LInv, NEW p \in Callers, Break(p) \/ Crash(p)
  PROVE  Frame(p)
<1>1. Inv /\ Tools BY DEF LInv, Tools
<1>2. OnlyMoves(p)
  BY <1>1, GoesFor, LeavesFor, Positions DEF Break, Crash, Outside
<1>3. \A q \in Callers \ {p} : call'[q] = call[q] BY <1>1, CallEnds DEF Break, Crash
<1> QED BY <1>2, <1>3, QuietFrame DEF Break, Crash, textVars

LEMMA NobodyFrame ==
  ASSUME LInv, Leased,
         \/ \E r \in Runs : Submit(r)
         \/ \E i \in RequestIds : Reconcile(i)
         \/ \E e \in Events : Lapse(e)
         \/ UNCHANGED vars
  PROVE  Frame(None)
<1>1. None \notin Callers BY EngineAssumption DEF Callers
<1>2. UNCHANGED job => OnlyMoves(None) BY DEF OnlyMoves
<1>3. ASSUME NEW r \in Runs, Submit(r) PROVE Frame(None)
  <2>1. Enqueues
    BY <1>3 DEF Submit, Q!Enqueue, Enqueues, LInv, Tools, Inv, Types
  <2>2. \A q \in Runs : run[q].status = "NONE" \/ SameRow(q)
    BY <1>3 DEF Submit, SameRow, LInv, Tools, Inv, Types
  <2> QED BY <1>2, <1>3, <2>1, <2>2, EnqueueStays DEF Submit, textVars, toolVars, Frame
<1>4. ASSUME NEW i \in RequestIds, Reconcile(i) PROVE Frame(None)
  <2>1. UNCHANGED call BY <1>4 DEF Reconcile, L!Reconcile, L!Deny, L!Confirm
  <2> QED BY <1>2, <1>4, <2>1, QuietFrame DEF Reconcile, textVars
<1>5. ASSUME NEW e \in Events, Lapse(e) PROVE Frame(None)
  <2>1. EventsStay(None) BY <1>5, HeldStay
  <2> QED BY <1>2, <1>5, <2>1 DEF Lapse, textVars, toolVars, Frame, SameRow
<1>6. CASE UNCHANGED vars
  BY <1>2, <1>6, QuietFrame DEF vars, textVars, toolVars
<1> QED BY <1>3, <1>4, <1>5, <1>6

-----------------------------------------------------------------------------
(* Whoever does not move keeps what it knows.                               *)

LEMMA WorkersStay ==
  ASSUME LInv, Leased, NEW p, Frame(p), Grown, RowsStay, NEW w \in Workers, w # p
  PROVE  WorkerInv(w)'
<1> DEFINE r == job[w].run
           s == job[w].step
           pc == job[w].pc
<1>1. WorkerInv(w) /\ w \in Callers BY Kinds DEF LInv
<1>2. job'[w] = job[w] BY <1>1 DEF Frame, OnlyMoves
<1> SUFFICES ASSUME pc # "idle" PROVE WorkerInv(w)'
  BY <1>2 DEF WorkerInv, Current
<1>3. r \in Runs /\ s \in Steps /\ EventOf(w) \in Events BY WorkerAt
<1>4. EventOf(w)' = EventOf(w) BY <1>2 DEF EventOf
<1>5. Holds(w)' \/ (pc \in {"error", "requeue"} /\ status'[EventOf(w)'] = "DONE")
  <2>1. Holds(w) => StillHolds(w) BY DEF Frame, EventsStay
  <2>2. StillHolds(w) => Holds(w)' BY <1>4 DEF StillHolds, Holds
  <2> QED BY <1>1, <1>3, <1>4, <2>1, <2>2 DEF WorkerInv, Frame, EventsStay
<1>6. pc \in Current \cup {"maxed"} => run'[r].status = "RUNNING" /\ run'[r].step = s
  <2> SUFFICES ASSUME pc \in Current \cup {"maxed"} PROVE SameRow(r)
    BY <1>1 DEF WorkerInv, SameRow
  <2>1. Bound(w) BY DEF Bound
  <2>2. run[r].status = "RUNNING" BY <1>1 DEF WorkerInv
  <2>3. p \in Callers /\ Bound(p) /\ job[p].run = r => p = w BY <1>1, <2>1, Apart
  <2> QED BY <1>3, <2>2, <2>3 DEF Frame
<1>7. pc \in {"ask", "admit"} => decision'[r][s] = None
  <2> SUFFICES ASSUME pc \in {"ask", "admit"}, decision'[r][s] # None PROVE FALSE OBVIOUS
  <2>1. decision[r][s] = None BY <1>1 DEF WorkerInv
  <2>2. p \in Workers /\ job[p].pc = "admit" /\ job[p].run = r BY <1>3, <2>1 DEF Frame
  <2>3. Bound(p) /\ Bound(w) BY <2>2 DEF Bound, Current
  <2> QED BY <1>1, <2>2, <2>3, Apart, Kinds
<1>8. pc \in {"tool", "block", "fail", "advance", "complete"} => s \in said'[r]
  BY <1>1, <1>3 DEF WorkerInv, Grown
<1>9. pc = "advance" => outcome'[r][s] # None
  BY <1>1, <1>3 DEF WorkerInv, Grown
<1>10. pc = "block" => effect'[job[w].plan.rid] # "NONE"
  <2> SUFFICES ASSUME pc = "block" PROVE effect'[job[w].plan.rid] # "NONE" OBVIOUS
  <2>1. job[w].plan \in Calls BY WorkerAt DEF Calling
  <2> QED BY <1>1, <2>1 DEF WorkerInv, RowsStay, Calls
<1> QED BY <1>1, <1>2, <1>3, <1>4, <1>5, <1>6, <1>7, <1>8, <1>9, <1>10 DEF WorkerInv

LEMMA HostsStay ==
  ASSUME LInv, Leased, NEW p, Frame(p), Grown, NEW h \in Hosts, h # p
  PROVE  HostInv(h)'
<1> DEFINE r == job[h].run
<1>1. HostInv(h) /\ h \in Callers BY Kinds DEF LInv
<1>2. job'[h] = job[h] /\ call'[h] = call[h] BY <1>1 DEF Frame, OnlyMoves
<1> SUFFICES ASSUME job[h].pc # "idle" PROVE HostInv(h)'
  BY <1>2 DEF HostInv
<1>3. r \in Runs /\ job[h].plan.rid \in RequestIds BY HostAt
<1>4. SameRow(r)
  <2>1. Bound(h) BY DEF Bound
  <2>2. run[r].status = "BLOCKED_EFFECT" BY <1>1 DEF HostInv
  <2>3. p \in Callers /\ Bound(p) /\ job[p].run = r => p = h BY <1>1, <2>1, Apart
  <2> QED BY <1>3, <2>2, <2>3 DEF Frame
<1>5. job[h].pc = "resume" => recovered'[r][job[h].plan.rid] # None
  BY <1>1, <1>3 DEF HostInv, Grown
<1> QED BY <1>1, <1>2, <1>3, <1>4, <1>5 DEF HostInv, SameRow

-----------------------------------------------------------------------------
(* Whoever moves knows what its new position tells.                         *)

LEMMA GoesOn ==
  ASSUME LInv, NEW w \in Workers, job[w].pc # "idle", NEW pc \in Attempt \cup Outside, Go(w, pc),
         EventsStay(None)
  PROVE  /\ job'[w].pc = pc /\ job'[w].run = job[w].run /\ job'[w].step = job[w].step
         /\ job'[w].plan = job[w].plan /\ job[w].run \in Runs
         /\ EventOf(w)' = EventOf(w)
         /\ Holds(w) => Holds(w)'
         /\ status[EventOf(w)] = "DONE" => status'[EventOf(w)'] = "DONE"
<1>1. Inv /\ w \in Callers /\ pc \in Points /\ w # None
  BY Kinds, Positions, EngineAssumption DEF LInv, Tools
<1>2. /\ job'[w].pc = pc /\ job'[w].run = job[w].run /\ job'[w].step = job[w].step
      /\ job'[w].plan = job[w].plan
  BY <1>1, GoesFor
<1>3. EventOf(w)' = EventOf(w) /\ EventOf(w) \in Events BY <1>2, WorkerAt DEF EventOf
<1>4. Holds(w) => Holds(w)'
  <2>1. Holds(w) => StillHolds(w) BY <1>1 DEF EventsStay
  <2> QED BY <1>3, <2>1 DEF StillHolds, Holds
<1> QED BY <1>2, <1>3, <1>4, WorkerAt DEF EventsStay

LEMMA GoesOut ==
  ASSUME LInv, NEW w \in Workers, job[w].pc # "idle", NEW pc \in {"drop", "ack", "error"}, Go(w, pc),
         EventsStay(None), job[w].pc \notin {"error", "requeue"}
  PROVE  WorkerInv(w)'
<1>1. pc \in Attempt \cup Outside BY DEF Attempt, Outside
<1>2. Holds(w) BY WorkerAt
<1> QED BY <1>1, <1>2, GoesOn DEF WorkerInv, Current

LEMMA Gone == ASSUME Tools, NEW w \in Workers, Leave(w) PROVE WorkerInv(w)'
<1>1. job'[w] = NoJob BY Kinds DEF Leave, Tools, Inv, Types
<1> QED BY <1>1 DEF WorkerInv, NoJob, Current

LEMMA QueueStill == ASSUME LInv, Enqueues \/ UNCHANGED queueVars PROVE EventsStay(None)
<1>1. Enqueues BY DEF Enqueues, queueVars
<1> QED BY <1>1, EnqueueStays

LEMMA QuietWorkKnows ==
  ASSUME LInv, Leased, NEW w \in Workers, QuietWork(w)
  PROVE  WorkerInv(w)'
<1> DEFINE r == job[w].run
           s == job[w].step
<1>1. /\ Inv /\ Tools /\ WorkerInv(w) /\ job[w].pc # "idle" /\ w \in Callers
      /\ job \in [Callers -> Job] /\ run \in [Runs -> Row]
  BY Kinds DEF LInv, Tools, QuietWork, Load, MaxedOut, Drop, Decide, Ask, Admit, Block, Fail,
               Advance, Conclude, Complete, Ack, Blame, Requeue, At, Inv, Types
<1>2. /\ r \in Runs /\ s \in Steps /\ EventOf(w) \in Events
      /\ job[w].pc \notin {"error", "requeue"} => Holds(w)
  BY <1>1, WorkerAt
<1>3. CASE Load(w)
  <2>1. job[w].pc = "load" /\ Go(w, Loaded(w)) /\ EventsStay(None)
    BY <1>3, QueueStill DEF Load, At
  <2>2. \/ Loaded(w) = "drop"
        \/ Loaded(w) = "maxed" /\ run[r].status = "RUNNING" /\ run[r].step = s /\ s >= MaxSteps
        \/ Loaded(w) = "decide" /\ run[r].status = "RUNNING" /\ run[r].step = s
    BY DEF Loaded, Exhausted
  <2>3. Loaded(w) \in Attempt \cup Outside BY <2>2 DEF Attempt, Outside
  <2>4. UNCHANGED run BY <1>3 DEF Load
  <2> QED BY <1>1, <1>2, <2>1, <2>2, <2>3, <2>4, GoesOn DEF WorkerInv, Current
<1>4. CASE MaxedOut(w) \/ Fail(w) \/ Complete(w) \/ Block(w) \/ Advance(w)
  <2>1. job[w].pc \in {"maxed", "fail", "complete", "block", "advance"}
    BY <1>4 DEF MaxedOut, Fail, Complete, Block, Advance, At
  <2>2. \E pc \in {"drop", "ack", "error"} : Go(w, pc)
    BY <1>4 DEF MaxedOut, Fail, Complete, Block, Advance
  <2>3. EventsStay(None)
    BY <1>4, QueueStill DEF MaxedOut, Block, Fail, Complete, Advance, Schedule, Q!Enqueue, Enqueues,
                            LInv, Tools, Inv, Types
  <2> QED BY <1>1, <2>1, <2>2, <2>3, GoesOut
<1>5. CASE Drop(w) \/ Requeue(w) BY <1>1, <1>5, Gone DEF Drop, Requeue
<1>6. CASE Decide(w)
  <2>1. /\ job[w].pc = "decide" /\ EventsStay(None) /\ UNCHANGED run /\ UNCHANGED decision
        /\ run[r].status = "RUNNING" /\ run[r].step = s
    BY <1>1, <1>6, QueueStill DEF Decide, At, textVars, WorkerInv, Current
  <2>2. CASE decision[r][s] = None /\ Go(w, "ask")
    <3>1. "ask" \in Attempt \cup Outside BY DEF Attempt
    <3> QED BY <1>1, <1>2, <2>1, <2>2, <3>1, GoesOn DEF WorkerInv, Current
  <2>3. ASSUME NEW pc \in {"say", "final"}, pc = "final" => decision[r][s] = Final,
               job' = [job EXCEPT ![w].plan = decision[r][s], ![w].pc = pc]
        PROVE  WorkerInv(w)'
    <3>1. /\ job'[w].pc = pc /\ job'[w].run = r /\ job'[w].step = s
          /\ job'[w].plan = decision[r][s]
      BY <1>1, <2>3 DEF Job
    <3>2. EventOf(w)' = EventOf(w) BY <3>1 DEF EventOf
    <3>3. Holds(w)' BY <1>2, <1>6, <2>1, <3>2 DEF Holds, Decide, queueVars
    <3> QED BY <1>2, <2>1, <2>3, <3>1, <3>3 DEF WorkerInv, Current
  <2> QED BY <1>6, <2>2, <2>3 DEF Decide
<1>7. CASE Ask(w)
  <2>1. /\ job[w].pc = "ask" /\ UNCHANGED <<run, decision, queueVars>>
        /\ run[r].status = "RUNNING" /\ run[r].step = s /\ decision[r][s] = None
    BY <1>1, <1>7 DEF Ask, At, textVars, WorkerInv, Current
  <2>2. PICK plan \in Plans : job' = [job EXCEPT ![w].plan = plan, ![w].pc = "admit"]
    BY <1>7 DEF Ask
  <2>3. job'[w].pc = "admit" /\ job'[w].run = r /\ job'[w].step = s
    BY <1>1, <2>2 DEF Job
  <2>4. EventOf(w)' = EventOf(w) BY <2>3 DEF EventOf
  <2>5. Holds(w)' BY <1>2, <2>1, <2>4 DEF Holds, queueVars
  <2> QED BY <1>2, <2>1, <2>3, <2>5 DEF WorkerInv, Current
<1>8. CASE Admit(w)
  <2>1. /\ job[w].pc = "admit" /\ UNCHANGED run /\ EventsStay(None)
        /\ run[r].status = "RUNNING" /\ run[r].step = s
    BY <1>1, <1>8, QueueStill DEF Admit, At, WorkerInv, Current
  <2>2. ASSUME NEW pc \in {"say", "final", "error"}, Go(w, pc), pc = "final" => job[w].plan = Final
        PROVE  WorkerInv(w)'
    <3>1. pc \in Attempt \cup Outside BY DEF Attempt, Outside
    <3> QED BY <1>1, <1>2, <2>1, <2>2, <3>1, GoesOn DEF WorkerInv, Current
  <2> QED BY <1>8, <2>2 DEF Admit
<1>9. CASE Conclude(w)
  <2>1. /\ job[w].pc = "final" /\ UNCHANGED run /\ EventsStay(None) /\ Go(w, "complete")
        /\ run[r].status = "RUNNING" /\ run[r].step = s /\ job[w].plan = Final
    BY <1>1, <1>9, QueueStill DEF Conclude, At, WorkerInv, Current
  <2>2. s \in said'[r] BY <1>1, <1>2, <1>9 DEF Conclude, Tools, TextTypes
  <2>3. "complete" \in Attempt \cup Outside BY DEF Attempt
  <2> QED BY <1>1, <1>2, <2>1, <2>2, <2>3, GoesOn DEF WorkerInv, Current
<1>10. CASE Ack(w)
  <2>1. job[w].pc = "ack" /\ status \in [Events -> Statuses] BY <1>1, <1>10 DEF Ack, At, Inv, Types
  <2>2. CASE Leave(w) BY <1>1, <2>2, Gone
  <2>3. CASE Q!Ack(w, EventOf(w)) /\ Go(w, "error")
    <3>1. job'[w].pc = "error" /\ job'[w].run = r /\ job'[w].step = s
      BY <1>1, <2>3, GoesFor, Positions DEF Outside
    <3>2. status'[EventOf(w)'] = "DONE"
      <4>1. EventOf(w)' = EventOf(w) BY <3>1 DEF EventOf
      <4> QED BY <1>2, <2>1, <2>3, <4>1 DEF Q!Ack, Q!Settle
    <3> QED BY <1>2, <3>1, <3>2 DEF WorkerInv, Current
  <2>4. CASE UNCHANGED queueVars /\ Go(w, "error")
    BY <1>1, <2>1, <2>4, QueueStill, GoesOut
  <2> QED BY <1>10, <2>2, <2>3, <2>4 DEF Ack
<1>11. CASE Blame(w)
  <2>1. job[w].pc = "error" /\ EventsStay(None) /\ Go(w, "requeue")
    BY <1>11, QueueStill DEF Blame, At
  <2>2. "requeue" \in Attempt \cup Outside BY DEF Outside
  <2> QED BY <1>1, <1>2, <2>1, <2>2, GoesOn DEF WorkerInv, Current
<1> QED BY <1>3, <1>4, <1>5, <1>6, <1>7, <1>8, <1>9, <1>10, <1>11 DEF QuietWork

LEMMA ToolWorkKnows ==
  ASSUME LInv, Leased, NEW w \in Workers, Say(w) \/ Tool(w) \/ ToolReturned(w) \/ ToolRaised(w),
         RowsStay
  PROVE  WorkerInv(w)'
<1> DEFINE r == job[w].run
           s == job[w].step
           i == job[w].plan.rid
<1>1. /\ Inv /\ Tools /\ WorkerInv(w) /\ ToolInv(w) /\ w \in Callers /\ ReplyInv(w)
      /\ job[w].pc \in {"say", "tool"} /\ UNCHANGED <<run, queueVars, decision>>
  BY Kinds DEF LInv, Tools, Say, Tool, ToolReturned, ToolRaised, At, textVars
<1>2. /\ r \in Runs /\ s \in Steps /\ Holds(w) /\ job[w].pc # "idle"
      /\ job[w].plan \in Calls /\ i \in RequestIds
      /\ run[r].status = "RUNNING" /\ run[r].step = s
  BY <1>1, WorkerAt DEF Calling, Current, Calls
<1>3. EventsStay(None) BY <1>1, QueueStill
<1>4. CASE Say(w)
  <2>1. s \in said'[r] BY <1>1, <1>2, <1>4 DEF Say, Tools, TextTypes
  <2>2. "tool" \in Attempt \cup Outside /\ Go(w, "tool") BY <1>4 DEF Attempt, Say
  <2> QED BY <1>1, <1>2, <1>3, <2>1, <2>2, GoesOn DEF WorkerInv, Current
<1>5. CASE Tool(w)
  <2>1. UNCHANGED <<job, said>> /\ job[w].pc = "tool" BY <1>5 DEF Tool, At, textVars
  <2>2. EventOf(w)' = EventOf(w) BY <2>1 DEF EventOf
  <2>3. Holds(w)' BY <1>1, <1>2, <2>2 DEF Holds, queueVars
  <2> QED BY <1>1, <1>2, <2>1, <2>3 DEF WorkerInv, Current
<1>6. CASE ToolReturned(w)
  <2>1. job[w].pc = "tool" /\ call[w].at = "returned" /\ UNCHANGED said /\ s \in said[r]
    BY <1>1, <1>6 DEF ToolReturned, At, L!At, WorkerInv
  <2>2. call[w].reply # None
    BY <1>1, <2>1, ToolsAssumption DEF ReplyInv, L!LedgerAssumption
  <2>3. CASE Go(w, "error") BY <1>1, <1>2, <1>3, <2>1, <2>3, GoesOut
  <2>4. CASE Go(w, "advance") /\ outcome' = [outcome EXCEPT ![r][s] = call[w].reply]
    <3>1. outcome'[r][s] = call[w].reply BY <1>1, <1>2, <2>4 DEF Tools, TextTypes
    <3>2. "advance" \in Attempt \cup Outside BY DEF Attempt
    <3> QED BY <1>1, <1>2, <1>3, <2>1, <2>2, <2>4, <3>1, <3>2, GoesOn DEF WorkerInv, Current
  <2> QED BY <1>6, <2>3, <2>4 DEF ToolReturned
<1>7. CASE ToolRaised(w)
  <2>1. job[w].pc = "tool" /\ UNCHANGED said /\ s \in said[r]
    BY <1>1, <1>7 DEF ToolRaised, At, WorkerInv, textVars
  <2>2. ASSUME NEW pc \in {"block", "fail", "error"}, Go(w, pc), pc = "block" => effect[i] # "NONE"
        PROVE  WorkerInv(w)'
    <3>1. pc \in Attempt \cup Outside BY DEF Attempt, Outside
    <3>2. pc = "block" => effect'[i] # "NONE" BY <1>2, <2>2 DEF RowsStay
    <3> QED BY <1>1, <1>2, <1>3, <2>1, <2>2, <3>1, <3>2, GoesOn DEF WorkerInv, Current
  <2>3. /\ Verdict(i, call[w].reply) \in {"block", "fail", "error"}
        /\ Verdict(i, call[w].reply) = "block" => effect[i] # "NONE"
    BY DEF Verdict, Unresolved
  <2> QED BY <1>7, <2>2, <2>3 DEF ToolRaised
<1> QED BY <1>4, <1>5, <1>6, <1>7

LEMMA ClaimKnows ==
  ASSUME LInv, NEW w \in Workers, NEW e \in Events, Claim(w, e)
  PROVE  WorkerInv(w)'
<1> DEFINE j == [pc |-> "load", run |-> e[1], step |-> e[2], plan |-> None]
<1>1. /\ w \in Callers /\ e[1] \in Runs /\ e = <<e[1], e[2]>> BY Kinds DEF Events
<1>2. job'[w] = j BY <1>1 DEF Claim, LInv, Tools, Inv, Types
<1>3. EventOf(w)' = e BY <1>1, <1>2 DEF EventOf
<1>4. Holds(w)'
  BY <1>3 DEF Claim, Q!Claim, Holds, LInv, Tools, Inv, Types, TextTypes, Queues
<1> QED BY <1>1, <1>2, <1>4 DEF WorkerInv, Current

LEMMA BreakKnows ==
  ASSUME LInv, NEW w \in Workers, Break(w) \/ Crash(w)
  PROVE  WorkerInv(w)'
<1>1. /\ w \in Callers /\ Tools /\ job[w].pc # "idle" /\ EventsStay(None)
  BY Kinds, QueueStill DEF Break, Crash, At, LInv
<1>2. CASE Leave(w) BY <1>1, <1>2, Gone
<1>3. CASE job[w].pc \in Attempt /\ Go(w, "error")
  <2>1. job[w].pc \notin {"error", "requeue"} BY <1>3 DEF Attempt
  <2> QED BY <1>1, <1>3, <2>1, GoesOut
<1> QED BY <1>2, <1>3 DEF Break, Crash

LEMMA HostStepKnows ==
  ASSUME LInv, Leased, NEW h \in Hosts,
         HostWork(h) \/ (\E r \in Runs : ResumeBlocked(h, r)) \/ Break(h) \/ Crash(h)
  PROVE  HostInv(h)'
<1> DEFINE r == job[h].run
           i == job[h].plan.rid
<1>1. h \in Callers /\ h \notin Workers /\ Tools /\ Inv /\ HostInv(h) /\ job \in [Callers -> Job]
  BY Kinds DEF LInv, Tools, Inv, Types
<1>2. CASE Leave(h)
  <2>1. job'[h].pc = "idle" BY <1>1, <1>2 DEF Leave, NoJob
  <2> QED BY <2>1 DEF HostInv
<1>3. ASSUME NEW q \in Runs, ResumeBlocked(h, q) PROVE HostInv(h)'
  <2>1. /\ job'[h] = [pc |-> "recover", run |-> q, step |-> 0,
                      plan |-> [rid |-> run[q].blockedOn, body |-> None]]
        /\ run[q].status = "BLOCKED_EFFECT" /\ UNCHANGED run
    BY <1>1, <1>3 DEF ResumeBlocked
  <2> QED BY <2>1 DEF HostInv
<1>4. CASE Recover(h)
  <2>1. job[h].pc = "recover" /\ UNCHANGED run /\ Go(h, "tool") /\ L!Recover(h, i)
    BY <1>4 DEF Recover, At
  <2>2. job'[h].pc = "tool" /\ job'[h].run = r /\ job'[h].plan = job[h].plan
    BY <1>1, <2>1, GoesFor, Positions DEF Attempt
  <2>3. i \in RequestIds /\ effect[i] # "NONE" BY <2>1, HostAt
  <2>4. request[i] \in Mutations BY <1>1, <2>3 DEF Tools, LP!TypeInv, LP!Admitted
  <2>5. call'[h].body \in Mutations
    BY <1>1, <2>1, <2>4 DEF L!Recover, Tools, LP!TypeInv, LP!TypeOK
  <2> QED BY <1>1, <2>1, <2>2, <2>5 DEF HostInv
<1>5. CASE Tool(h)
  <2>1. UNCHANGED <<run, job>> /\ job[h].pc = "tool" /\ call'[h].body = call[h].body
    BY <1>1, <1>5, StepMoves DEF Tool, At, Tools
  <2> QED BY <1>1, <2>1 DEF HostInv
<1>6. CASE Recovered(h)
  <2>1. job[h].pc = "tool" /\ UNCHANGED run BY <1>6 DEF Recovered, At
  <2>2. CASE /\ call[h].at = "returned" /\ Go(h, "resume")
             /\ recovered' = [recovered EXCEPT ![r][i] = call[h].reply]
    <3>1. job'[h].pc = "resume" /\ job'[h].run = r /\ job'[h].plan = job[h].plan
      BY <1>1, <2>2, GoesFor, Positions DEF Outside
    <3>2. r \in Runs /\ i \in RequestIds BY <2>1, HostAt
    <3>3. recovered'[r][i] = call[h].reply BY <1>1, <2>2, <3>2 DEF Tools, TextTypes
    <3>4. call[h].reply # None
      BY <1>1, <2>2, ToolsAssumption DEF LInv, ReplyInv, L!LedgerAssumption
    <3> QED BY <1>1, <2>1, <3>1, <3>3, <3>4 DEF HostInv
  <2> QED BY <1>2, <1>6, <2>2 DEF Recovered, Answered
<1> QED BY <1>1, <1>2, <1>3, <1>4, <1>5, <1>6 DEF HostWork, Resume, Break, Crash

LEMMA Framed ==
  ASSUME LInv, Leased, [Next]_vars, RowsStay
  PROVE  \E p \in Callers \cup {None} :
           Frame(p) /\ (p \in Workers => WorkerInv(p)') /\ (p \in Hosts => HostInv(p)')
<1> DEFINE Goal == \E p \in Callers \cup {None} :
                     Frame(p) /\ (p \in Workers => WorkerInv(p)') /\ (p \in Hosts => HostInv(p)')
<1>1. None \notin Workers /\ None \notin Hosts BY EngineAssumption
<1>2. ASSUME NEW w \in Workers, Frame(w), WorkerInv(w)' PROVE Goal BY <1>2, Kinds
<1>3. ASSUME NEW h \in Hosts, Frame(h), HostInv(h)' PROVE Goal BY <1>3, Kinds
<1>4. ASSUME NEW w \in Workers, Work(w) PROVE Goal
  <2>1. Frame(w) BY <1>4, WorkFrame
  <2>2. WorkerInv(w)' BY <1>4, QuietWorkKnows, ToolWorkKnows DEF Work, QuietWork
  <2> QED BY <1>2, <2>1, <2>2
<1>5. ASSUME NEW w \in Workers, NEW e \in Events, Claim(w, e) PROVE Goal
  BY <1>2, <1>5, ClaimFrame, ClaimKnows
<1>6. ASSUME NEW h \in Hosts, HostWork(h) \/ \E r \in Runs : ResumeBlocked(h, r) PROVE Goal
  BY <1>3, <1>6, HostFrame, HostStepKnows
<1>7. ASSUME NEW p \in Callers, Break(p) \/ Crash(p) PROVE Goal
  <2>1. Frame(p) BY <1>7, BreakFrame
  <2>2. p \in Workers => WorkerInv(p)' BY <1>7, BreakKnows
  <2>3. p \in Hosts => HostInv(p)' BY <1>7, HostStepKnows
  <2> QED BY <2>1, <2>2, <2>3
<1>8. CASE \/ \E r \in Runs : Submit(r)
           \/ \E i \in RequestIds : Reconcile(i)
           \/ \E e \in Events : Lapse(e)
           \/ UNCHANGED vars
  <2>1. Frame(None) BY <1>8, NobodyFrame
  <2> QED BY <1>1, <2>1
<1> QED BY <1>4, <1>5, <1>6, <1>7, <1>8 DEF Next

LEMMA KnowledgeKept ==
  ASSUME LInv, Leased, [Next]_vars, RowsStay, Grown
  PROVE  (\A w \in Workers : WorkerInv(w)') /\ (\A h \in Hosts : HostInv(h)')
<1>1. PICK p \in Callers \cup {None} :
        Frame(p) /\ (p \in Workers => WorkerInv(p)') /\ (p \in Hosts => HostInv(p)')
  BY Framed
<1>2. ASSUME NEW w \in Workers PROVE WorkerInv(w)' BY <1>1, WorkersStay
<1>3. ASSUME NEW h \in Hosts PROVE HostInv(h)' BY <1>1, HostsStay
<1> QED BY <1>2, <1>3

-----------------------------------------------------------------------------
(* Request ids stay apart.                                                  *)

(* A worker and its call of the ledger are moved by the worker, or die.     *)
LEMMA Movers ==
  ASSUME LInv, Leased, [Next]_vars, NEW w \in Workers
  PROVE  \/ job'[w] = job[w] /\ call'[w] = call[w]
         \/ Work(w) \/ (\E e \in Events : Claim(w, e)) \/ Break(w) \/ Crash(w)
<1>1. w \in Callers BY Kinds
<1>2. ASSUME NEW p, Frame(p), p # w PROVE job'[w] = job[w] /\ call'[w] = call[w]
  BY <1>1, <1>2 DEF Frame, OnlyMoves
<1>3. ASSUME NEW p \in Workers, p # w, Work(p) \/ \E e \in Events : Claim(p, e)
      PROVE  job'[w] = job[w] /\ call'[w] = call[w]
  BY <1>2, <1>3, WorkFrame, ClaimFrame
<1>4. ASSUME NEW p \in Callers, p # w, Break(p) \/ Crash(p)
      PROVE  job'[w] = job[w] /\ call'[w] = call[w]
  BY <1>2, <1>4, BreakFrame
<1>5. ASSUME NEW h \in Hosts, HostWork(h) \/ \E r \in Runs : ResumeBlocked(h, r)
      PROVE  job'[w] = job[w] /\ call'[w] = call[w]
  <2>1. h # w BY Kinds
  <2> QED BY <1>2, <1>5, <2>1, HostFrame
<1>6. CASE \/ \E r \in Runs : Submit(r)
           \/ \E i \in RequestIds : Reconcile(i)
           \/ \E e \in Events : Lapse(e)
           \/ UNCHANGED vars
  <2>1. None # w BY EngineAssumption
  <2> QED BY <1>2, <1>6, <2>1, NobodyFrame
<1> QED BY <1>3, <1>4, <1>5, <1>6 DEF Next

(* The ways to the admission and to the failure of a run.                   *)
LEMMA Arrivals ==
  ASSUME LInv, Leased, [Next]_vars, NEW w \in Workers, job'[w].pc \in {"admit", "fail"}
  PROVE  \/ job'[w] = job[w]
         \/ job'[w].pc = "admit" /\ Ask(w)
         \/ job'[w].pc = "fail" /\ ToolRaised(w)
<1>1. w \in Callers /\ Inv /\ job \in [Callers -> Job]
  BY Kinds DEF LInv, Tools, Inv, Types
<1>2. ASSUME NEW pc \in Points, Go(w, pc), pc \notin {"admit", "fail"} PROVE FALSE
  BY <1>1, <1>2, GoesFor
<1>3. ASSUME Leave(w) PROVE FALSE BY <1>1, <1>3 DEF Leave, NoJob
<1>4. CASE Break(w) \/ Crash(w) BY <1>2, <1>3, <1>4, Positions DEF Break, Crash, Outside
<1>5. ASSUME NEW e \in Events, Claim(w, e) PROVE FALSE BY <1>1, <1>5 DEF Claim
<1>6. CASE Load(w) \/ MaxedOut(w) \/ Drop(w)
  <2>1. Loaded(w) \in {"drop", "maxed", "decide"} BY DEF Loaded
  <2>2. Loaded(w) \in Points /\ Loaded(w) \notin {"admit", "fail"} /\ "drop" \in Points
    BY <2>1 DEF Points, Attempt, Outside
  <2> QED BY <1>2, <1>3, <1>6, <2>2 DEF Load, MaxedOut, Drop
<1>7. CASE Decide(w)
  <2>1. CASE Go(w, "ask") BY <1>2, <2>1, Positions DEF Attempt
  <2>2. ASSUME NEW plan, NEW pc \in {"final", "say"}, job' = [job EXCEPT ![w].plan = plan, ![w].pc = pc]
        PROVE  FALSE
    BY <1>1, <2>2 DEF Job
  <2> QED BY <1>7, <2>1, <2>2 DEF Decide
<1>8. CASE Ask(w)
  <2>1. PICK plan \in Plans : job' = [job EXCEPT ![w].plan = plan, ![w].pc = "admit"]
    BY <1>8 DEF Ask
  <2>2. job'[w].pc = "admit" BY <1>1, <2>1 DEF Job
  <2> QED BY <1>8, <2>2
<1>9. CASE Admit(w) \/ Say(w) \/ ToolReturned(w)
  <2>1. \E pc \in {"say", "final", "error", "tool", "advance"} : Go(w, pc)
    BY <1>9 DEF Admit, Say, ToolReturned
  <2> QED BY <1>2, <2>1 DEF Points, Attempt, Outside
<1>10. CASE ToolRaised(w)
  <2>1. \E pc \in {"block", "fail", "error"} : Go(w, pc) BY <1>10 DEF ToolRaised, Verdict
  <2>2. job'[w].pc # "admit" BY <1>1, <2>1, GoesFor DEF Points, Attempt, Outside
  <2> QED BY <1>10, <2>2
<1>11. CASE Tool(w) BY <1>11 DEF Tool
<1>12. CASE \/ Block(w) \/ Fail(w) \/ Advance(w) \/ Conclude(w) \/ Complete(w) \/ Ack(w)
            \/ Blame(w) \/ Requeue(w)
  <2>1. Leave(w) \/ \E pc \in {"ack", "error", "complete", "requeue"} : Go(w, pc)
    BY <1>12 DEF Block, Fail, Advance, Conclude, Complete, Ack, Blame, Requeue
  <2> QED BY <1>2, <1>3, <2>1 DEF Points, Attempt, Outside
<1> QED BY <1>4, <1>5, <1>6, <1>7, <1>8, <1>9, <1>10, <1>11, <1>12, Movers DEF Work

(* A decision is admitted by the worker it was made for, and once.          *)
LEMMA DecisionMoves ==
  ASSUME LInv, [Next]_vars
  PROVE  \/ UNCHANGED decision
         \/ \E w \in Workers :
              /\ job[w].pc = "admit" /\ job[w].run \in Runs /\ job[w].step \in Steps
              /\ decision' = [decision EXCEPT ![job[w].run][job[w].step] = job[w].plan]
              /\ decision[job[w].run][job[w].step] = None
              /\ job'[w].pc # "admit" /\ \A v \in Workers \ {w} : job'[v] = job[v]
<1>1. ASSUME NEW w \in Workers, Admit(w), ~UNCHANGED decision
      PROVE  /\ job[w].pc = "admit" /\ job[w].run \in Runs /\ job[w].step \in Steps
             /\ decision' = [decision EXCEPT ![job[w].run][job[w].step] = job[w].plan]
             /\ decision[job[w].run][job[w].step] = None
             /\ job'[w].pc # "admit" /\ \A v \in Workers \ {w} : job'[v] = job[v]
  <2>1. WorkerInv(w) /\ Inv /\ w \in Callers BY Kinds DEF LInv, Tools
  <2>2. /\ job[w].pc = "admit"
        /\ decision' = [decision EXCEPT ![job[w].run][job[w].step] = job[w].plan]
        /\ \E pc \in {"final", "say"} : Go(w, pc)
    BY <1>1 DEF Admit, At
  <2>3. job[w].run \in Runs /\ job[w].step \in Steps BY <2>2, WorkerAt
  <2>4. decision[job[w].run][job[w].step] = None BY <2>1, <2>2 DEF WorkerInv
  <2>5. job'[w].pc # "admit" /\ \A v \in Workers \ {w} : job'[v] = job[v]
    BY <2>1, <2>2, Kinds DEF Go, Inv, Types, Job
  <2> QED BY <2>2, <2>3, <2>4, <2>5
<1>2. ASSUME NEW w \in Workers, Work(w) PROVE UNCHANGED decision \/ Admit(w)
  BY <1>2 DEF Work, Load, MaxedOut, Drop, Decide, Ask, Say, Tool, ToolReturned, ToolRaised,
              Block, Fail, Advance, Conclude, Complete, Ack, Blame, Requeue, textVars
<1>3. ASSUME NEW h \in Hosts, HostWork(h) PROVE UNCHANGED decision
  BY <1>3 DEF HostWork, Recover, Tool, Recovered, Resume, textVars
<1> QED BY <1>1, <1>2, <1>3
    DEF Next, vars, textVars, Submit, Claim, ResumeBlocked, Reconcile, Break, Crash, Lapse

LEMMA MintedAre ==
  ASSUME LInv
  PROVE  /\ \A e \in Events : decision[e[1]][e[2]] \in Calls => decision[e[1]][e[2]].rid \in Minted
         /\ \A w \in Workers : Minting(w) => job[w].plan.rid \in Minted
<1>1. None \notin Calls /\ Workers \subseteq Callers BY PlansAre, Kinds
<1> QED BY <1>1 DEF Minted, Minting

LEMMA IdsKept ==
  ASSUME LInv, Leased, [Next]_vars
  PROVE  Unique' /\ \A w \in Workers : Fresh(w)'
<1>1. Final \notin Calls
  BY EngineAssumption DEF Final, Calls
<1>2. \A w \in Workers : Minting(w)' => Ask(w) \/ (Minting(w) /\ job'[w] = job[w])
  <2> SUFFICES ASSUME NEW w \in Workers, Minting(w)'
               PROVE  Ask(w) \/ (Minting(w) /\ job'[w] = job[w])
    OBVIOUS
  <2>1. job'[w].pc = "admit" /\ job'[w].plan \in Calls BY DEF Minting
  <2>2. Ask(w) \/ job'[w] = job[w] BY <2>1, Arrivals
  <2>3. job'[w] = job[w] => Minting(w) BY <2>1 DEF Minting
  <2> QED BY <2>2, <2>3
<1>3. ASSUME NEW w \in Workers, Ask(w), Minting(w)'
      PROVE  /\ job'[w].plan.rid \notin Minted
             /\ \A v \in Workers \ {w} : job'[v] = job[v]
             /\ UNCHANGED decision
  <2>1. PICK plan \in Plans : /\ plan # Final => plan.rid \notin Minted
                              /\ job' = [job EXCEPT ![w].plan = plan, ![w].pc = "admit"]
    BY <1>3 DEF Ask, Leased
  <2>2. w \in Callers /\ job \in [Callers -> Job] BY Kinds DEF LInv, Tools, Inv, Types
  <2>3. job'[w].plan = plan BY <2>1, <2>2 DEF Job
  <2>4. plan # Final BY <1>1, <1>3, <2>3 DEF Minting
  <2> QED BY <1>3, <2>1, <2>2, <2>3, <2>4, Kinds DEF Ask, textVars
<1>4. CASE UNCHANGED decision
  <2>1. Unique' BY <1>4 DEF LInv, Unique
  <2>2. ASSUME NEW w \in Workers, Minting(w)', Ask(w) PROVE Fresh(w)'
    <3>1. \A e \in Events : decision[e[1]][e[2]] \in Calls =>
            decision[e[1]][e[2]].rid # job'[w].plan.rid
      BY <1>3, <2>2, MintedAre
    <3>2. ASSUME NEW v \in Workers, Minting(v)', job'[v].plan.rid = job'[w].plan.rid, v # w
          PROVE  FALSE
      <4>1. job'[v] = job[v] BY <1>3, <2>2, <3>2
      <4>2. Minting(v) BY <3>2, <4>1 DEF Minting
      <4> QED BY <1>3, <2>2, <3>2, <4>1, <4>2, MintedAre
    <3> QED BY <1>4, <3>1, <3>2 DEF Fresh
  <2>3. ASSUME NEW w \in Workers, Minting(w)', Minting(w), job'[w] = job[w] PROVE Fresh(w)'
    <3>1. Fresh(w) BY DEF LInv
    <3>2. ASSUME NEW v \in Workers, Minting(v)', job'[v].plan.rid = job'[w].plan.rid, v # w
          PROVE  FALSE
      <4>1. CASE Ask(v) BY <1>3, <2>3, <3>2, <4>1, MintedAre
      <4>2. CASE Minting(v) /\ job'[v] = job[v] BY <2>3, <3>1, <3>2, <4>2 DEF Fresh
      <4> QED BY <1>2, <3>2, <4>1, <4>2
    <3> QED BY <1>4, <2>3, <3>1, <3>2 DEF Fresh
  <2>4. ASSUME NEW w \in Workers PROVE Fresh(w)'
    BY <1>2, <2>2, <2>3 DEF Fresh
  <2> QED BY <2>1, <2>4
<1>5. ASSUME NEW v \in Workers,
             job[v].pc = "admit", job[v].run \in Runs, job[v].step \in Steps,
             decision' = [decision EXCEPT ![job[v].run][job[v].step] = job[v].plan],
             decision[job[v].run][job[v].step] = None,
             job'[v].pc # "admit", \A w \in Workers \ {v} : job'[w] = job[w]
      PROVE  Unique' /\ \A w \in Workers : Fresh(w)'
  <2> DEFINE g == <<job[v].run, job[v].step>>
  <2>1. decision \in [Runs -> [Steps -> Plans \cup {None}]] BY DEF LInv, Tools, Inv, Types
  <2>2. \A e \in Events : decision'[e[1]][e[2]] = IF e = g THEN job[v].plan ELSE decision[e[1]][e[2]]
    <3> SUFFICES ASSUME NEW r \in Runs, NEW s \in Steps
                 PROVE  decision'[r][s] =
                          IF r = job[v].run /\ s = job[v].step THEN job[v].plan ELSE decision[r][s]
      BY DEF Events
    <3>1. CASE r = job[v].run /\ s = job[v].step BY <1>5, <2>1, <3>1
    <3>2. CASE r = job[v].run /\ s # job[v].step BY <1>5, <2>1, <3>2
    <3>3. CASE r # job[v].run BY <1>5, <2>1, <3>3
    <3> QED BY <3>1, <3>2, <3>3
  <2>3. Fresh(v) BY DEF LInv
  <2>4. ASSUME NEW e \in Events, decision[e[1]][e[2]] \in Calls, job[v].plan \in Calls
        PROVE  decision[e[1]][e[2]].rid # job[v].plan.rid
    BY <1>5, <2>3, <2>4 DEF Fresh, Minting
  <2>5. Unique'
    <3> SUFFICES ASSUME NEW e \in Events, NEW f \in Events,
                        decision'[e[1]][e[2]] \in Calls, decision'[f[1]][f[2]] \in Calls,
                        decision'[e[1]][e[2]].rid = decision'[f[1]][f[2]].rid
                 PROVE  e = f
      BY DEF Unique
    <3>1. CASE e # g /\ f # g BY <2>2, <3>1 DEF LInv, Unique
    <3>2. CASE e = g /\ f # g BY <2>2, <2>4, <3>2
    <3>3. CASE e # g /\ f = g BY <2>2, <2>4, <3>3
    <3> QED BY <3>1, <3>2, <3>3
  <2>6. ASSUME NEW w \in Workers, Minting(w)' PROVE Fresh(w)'
    <3>1. w # v /\ job'[w] = job[w] BY <1>5, <2>6 DEF Minting
    <3>2. Minting(w) /\ Fresh(w) BY <2>6, <3>1 DEF Minting, LInv
    <3>3. ASSUME NEW e \in Events, decision'[e[1]][e[2]] \in Calls
          PROVE  decision'[e[1]][e[2]].rid # job[w].plan.rid
      <4>1. CASE e = g
        <5>1. decision'[e[1]][e[2]] = job[v].plan BY <2>2, <4>1
        <5>2. Minting(v) BY <1>5, <3>3, <5>1 DEF Minting
        <5> QED BY <3>1, <3>2, <5>1, <5>2 DEF Fresh
      <4>2. CASE e # g BY <2>2, <3>2, <3>3, <4>2 DEF Fresh
      <4> QED BY <4>1, <4>2
    <3>4. ASSUME NEW u \in Workers, Minting(u)', job'[u].plan.rid = job[w].plan.rid PROVE u = w
      <4>1. u # v /\ job'[u] = job[u] BY <1>5, <3>4 DEF Minting
      <4>2. Minting(u) BY <3>4, <4>1 DEF Minting
      <4> QED BY <3>2, <3>4, <4>1, <4>2 DEF Fresh
    <3> QED BY <3>1, <3>3, <3>4 DEF Fresh
  <2>7. ASSUME NEW w \in Workers PROVE Fresh(w)' BY <2>6 DEF Fresh
  <2> QED BY <2>5, <2>7
<1> QED BY <1>4, <1>5, DecisionMoves

-----------------------------------------------------------------------------
(* What execute answers is what a handler returned.                         *)

LEMMA RepliesAreValues ==
  ASSUME LInv, Leased, [Next]_vars, SP!TrustedInv', NEW p \in Callers
  PROVE  ReplyInv(p)'
<1> SUFFICES ASSUME call'[p].at = "returned", call'[p].body \notin Mutations
             PROVE  call'[p].reply \in Values
  BY DEF ReplyInv, SP!TrustedInv, SP!AnswerIsReplayable, SP!At
<1>1. ReplyInv(p) /\ SP!TypeInv BY SameTypes DEF LInv, Tools
<1>2. call \in [Callers -> SP!Call] BY <1>1 DEF SP!TypeInv, SP!TypeOK
<1>3. CASE call'[p] = call[p] BY <1>1, <1>3 DEF ReplyInv
<1>4. ASSUME NEW c, call' = [call EXCEPT ![p] = c] PROVE call'[p] = c BY <1>2, <1>4
<1>5. ASSUME NEW q \in Callers, NEW i \in RequestIds, SP!Recover(q, i)
      PROVE  call'[p] = call[p]
  <2>1. CASE q = p
    <3>1. call'[p].body = request[i] /\ effect[i] = "COMMITTED"
      BY <1>2, <1>5, <2>1 DEF SP!Recover
    <3>2. request[i] \in Mutations BY <1>1, <3>1 DEF SP!TypeInv, SP!Admitted
    <3> QED BY <3>1, <3>2
  <2>2. CASE q # p BY <1>2, <1>5, <2>2 DEF SP!Recover
  <2> QED BY <2>1, <2>2
<1>6. ASSUME NEW q \in Callers, NEW i \in RequestIds, NEW b \in SP!Bodies, SP!Start(q, i, b)
      PROVE  call'[p] = call[p]
  <2>1. CASE q = p
    <3>1. call'[p].at = SP!Admission(b) BY <1>2, <1>6, <2>1 DEF SP!Start
    <3> QED BY <3>1 DEF SP!Admission
  <2>2. CASE q # p BY <1>2, <1>6, <2>2 DEF SP!Start
  <2> QED BY <2>1, <2>2
<1>7. ASSUME NEW q \in Callers, SP!Finish(q) \/ SP!Crash(q) PROVE call'[p] = call[p]
  BY <1>2, <1>7 DEF SP!Finish, SP!Crash, SP!NoCall
<1>8. ASSUME NEW i \in RequestIds, SP!Reconcile(i) PROVE call'[p] = call[p]
  BY <1>8 DEF SP!Reconcile, SP!Confirm, SP!Deny
<1>9. ASSUME NEW q \in Callers, SP!Step(q), q # p PROVE call'[p] = call[p]
  <2>1. L!Step(q) /\ LP!TypeInv BY <1>9, SameSteps DEF LInv, Tools
  <2> QED BY <1>9, <2>1, StepMoves
<1>10. CASE SP!Step(p)
  <2>1. call'[p].body = call[p].body
    <3>1. L!Step(p) /\ LP!TypeInv BY <1>10, SameSteps DEF LInv, Tools
    <3> QED BY <3>1, StepMoves
  <2>2. CASE SP!ReadOnly(p) BY <1>2, <2>2 DEF SP!ReadOnly, SP!Answer, SP!Raise, SP!Call
  <2>3. CASE SP!Lookup(p) BY <1>1, <2>1, <2>3 DEF SP!Lookup, SP!At, SP!TypeInv, SP!Admitted
  <2>4. CASE SP!Commit(p)
    BY <1>1, <1>2, <2>4 DEF SP!Commit, SP!At, SP!Goto, SP!TypeInv, SP!Admitted, SP!Call
  <2>5. CASE \/ SP!Insert(p) \/ SP!Retry(p) \/ SP!Apply(p) \/ SP!HandlerReturns(p)
             \/ SP!HandlerRaises(p) \/ SP!Unknown(p) \/ SP!StatementFails(p)
    BY <1>2, <2>5 DEF SP!Insert, SP!Retry, SP!Apply, SP!HandlerReturns, SP!HandlerRaises,
       SP!Unknown, SP!StatementFails, SP!Raise, SP!Goto, SP!Call
  <2> QED BY <1>10, <2>2, <2>3, <2>4, <2>5 DEF SP!Step
<1>11. [SP!Next]_(SP!vars) BY SerialNext
<1> QED BY <1>3, <1>5, <1>6, <1>7, <1>8, <1>9, <1>10, <1>11 DEF SP!Next, SP!vars

-----------------------------------------------------------------------------
(* What the transcript and the rows tell of the ledger.                     *)

(* A message about a call is the answer the call has just got.              *)
LEMMA TextMoves ==
  ASSUME LInv, [Next]_vars
  PROVE  /\ \/ UNCHANGED outcome
            \/ \E w \in Workers :
                 /\ job[w].pc = "tool" /\ call[w].at = "returned"
                 /\ job[w].run \in Runs /\ job[w].step \in Steps
                 /\ outcome' = [outcome EXCEPT ![job[w].run][job[w].step] = call[w].reply]
         /\ \/ UNCHANGED recovered
            \/ \E h \in Hosts :
                 /\ job[h].pc = "tool" /\ call[h].at = "returned"
                 /\ job[h].run \in Runs /\ job[h].plan.rid \in RequestIds
                 /\ recovered' = [recovered EXCEPT ![job[h].run][job[h].plan.rid] = call[h].reply]
<1>1. ASSUME NEW w \in Workers, ToolReturned(w)
      PROVE  /\ UNCHANGED recovered
             /\ \/ UNCHANGED outcome
                \/ /\ job[w].pc = "tool" /\ call[w].at = "returned"
                   /\ job[w].run \in Runs /\ job[w].step \in Steps
                   /\ outcome' = [outcome EXCEPT ![job[w].run][job[w].step] = call[w].reply]
  <2>1. job[w].pc = "tool" /\ call[w].at = "returned" BY <1>1 DEF ToolReturned, At, L!At
  <2>2. job[w].run \in Runs /\ job[w].step \in Steps BY <2>1, WorkerAt
  <2> QED BY <1>1, <2>1, <2>2 DEF ToolReturned
<1>2. ASSUME NEW h \in Hosts, Recovered(h)
      PROVE  /\ UNCHANGED outcome
             /\ \/ UNCHANGED recovered
                \/ /\ job[h].pc = "tool" /\ call[h].at = "returned"
                   /\ job[h].run \in Runs /\ job[h].plan.rid \in RequestIds
                   /\ recovered' = [recovered EXCEPT ![job[h].run][job[h].plan.rid] = call[h].reply]
  <2>1. job[h].pc = "tool" BY <1>2 DEF Recovered, At
  <2>2. job[h].run \in Runs /\ job[h].plan.rid \in RequestIds BY <2>1, HostAt
  <2> QED BY <1>2, <2>1, <2>2 DEF Recovered, Answered
<1>3. ASSUME NEW w \in Workers, Work(w), ~ToolReturned(w) PROVE UNCHANGED <<outcome, recovered>>
  BY <1>3 DEF Work, Load, MaxedOut, Drop, Decide, Ask, Admit, Say, Tool, ToolRaised,
              Block, Fail, Advance, Conclude, Complete, Ack, Blame, Requeue, textVars
<1>4. ASSUME NEW h \in Hosts, HostWork(h), ~Recovered(h) PROVE UNCHANGED <<outcome, recovered>>
  BY <1>4 DEF HostWork, Recover, Tool, Resume, textVars
<1>5. CASE (\E w \in Workers : Work(w)) \/ (\E h \in Hosts : HostWork(h))
  BY <1>1, <1>2, <1>3, <1>4, <1>5
<1>6. CASE ~(\E w \in Workers : Work(w)) /\ ~(\E h \in Hosts : HostWork(h))
  BY <1>6 DEF Next, vars, textVars, Submit, Claim, ResumeBlocked, Reconcile, Break, Crash, Lapse
<1> QED BY <1>5, <1>6

CommittedStays ==
  \A i \in RequestIds : effect[i] = "COMMITTED" =>
    effect'[i] = "COMMITTED" /\ result'[i] = result[i]

LEMMA TextsKept ==
  ASSUME LInv, [Next]_vars, Grown, CommittedStays, NEW r \in Runs
  PROVE  TextInv(r)'
<1>1. TextInv(r) /\ SP!AnswerIsReplayable /\ None \notin Calls
  BY PlansAre DEF LInv, SP!TrustedInv
<1>2. /\ outcome \in [Runs -> [Steps -> Values \cup {None}]]
      /\ recovered \in [Runs -> [RequestIds -> Values \cup {None}]]
  BY DEF LInv, Tools, TextTypes
<1>3. ASSUME NEW s \in Steps, outcome'[r][s] # None
      PROVE  /\ decision'[r][s] \in Calls
             /\ decision'[r][s].body \in Mutations =>
                  /\ effect'[decision'[r][s].rid] = "COMMITTED"
                  /\ outcome'[r][s] = result'[decision'[r][s].rid]
  <2> DEFINE i == decision[r][s].rid
  <2>1. SUFFICES /\ decision[r][s] \in Calls
                 /\ decision[r][s].body \in Mutations =>
                      effect[i] = "COMMITTED" /\ outcome'[r][s] = result[i]
    <3>1. decision[r][s] \in Calls => decision'[r][s] = decision[r][s] /\ i \in RequestIds
      BY <1>1 DEF Grown, Calls
    <3> QED BY <3>1 DEF CommittedStays
  <2>2. CASE outcome[r][s] # None BY <1>1, <2>2 DEF Grown, TextInv
  <2>3. CASE outcome[r][s] = None
    <3>1. PICK w \in Workers :
            /\ job[w].pc = "tool" /\ call[w].at = "returned"
            /\ job[w].run \in Runs /\ job[w].step \in Steps
            /\ outcome' = [outcome EXCEPT ![job[w].run][job[w].step] = call[w].reply]
      BY <1>3, <2>3, TextMoves
    <3>2. job[w].run = r /\ job[w].step = s
      <4>1. CASE job[w].run # r BY <1>2, <1>3, <2>3, <3>1, <4>1
      <4>2. CASE job[w].run = r /\ job[w].step # s BY <1>2, <1>3, <2>3, <3>1, <4>2
      <4> QED BY <4>1, <4>2
    <3>3. outcome'[r][s] = call[w].reply BY <1>2, <3>1, <3>2
    <3>4. w \in Callers /\ job[w].plan = decision[r][s] /\ job[w].plan \in Calls
      BY <3>1, <3>2, WorkerAt DEF Acting, Calling
    <3>5. call[w].rid = i /\ call[w].body = decision[r][s].body
      BY <3>1, <3>4 DEF LInv, Tools, ToolInv
    <3> QED BY <1>1, <3>1, <3>3, <3>4, <3>5 DEF SP!AnswerIsReplayable, SP!At
  <2> QED BY <2>2, <2>3
<1>4. ASSUME NEW i \in RequestIds, recovered'[r][i] # None
      PROVE  effect'[i] = "COMMITTED" /\ recovered'[r][i] = result'[i]
  <2>1. SUFFICES effect[i] = "COMMITTED" /\ recovered'[r][i] = result[i]
    BY DEF CommittedStays
  <2>2. CASE recovered[r][i] # None BY <1>1, <2>2 DEF Grown, TextInv
  <2>3. CASE recovered[r][i] = None
    <3>1. PICK h \in Hosts :
            /\ job[h].pc = "tool" /\ call[h].at = "returned"
            /\ job[h].run \in Runs /\ job[h].plan.rid \in RequestIds
            /\ recovered' = [recovered EXCEPT ![job[h].run][job[h].plan.rid] = call[h].reply]
      BY <1>4, <2>3, TextMoves
    <3>2. job[h].run = r /\ job[h].plan.rid = i
      <4>1. CASE job[h].run # r BY <1>2, <1>4, <2>3, <3>1, <4>1
      <4>2. CASE job[h].run = r /\ job[h].plan.rid # i BY <1>2, <1>4, <2>3, <3>1, <4>2
      <4> QED BY <4>1, <4>2
    <3>3. recovered'[r][i] = call[h].reply BY <1>2, <3>1, <3>2
    <3>4. h \in Callers /\ call[h].rid = i /\ call[h].body \in Mutations
      BY <3>1, <3>2, Kinds DEF LInv, HostInv, Tools, ToolInv
    <3> QED BY <1>1, <3>1, <3>3, <3>4 DEF SP!AnswerIsReplayable, SP!At
  <2> QED BY <2>2, <2>3
<1> QED BY <1>3, <1>4 DEF TextInv

(* How the row of a run moves.                                              *)
RunStep(r) ==
  \/ SameRow(r)
  \/ run[r].status = "NONE" /\ run'[r].status = "RUNNING" /\ run'[r].step = run[r].step
  \/ \E w \in Workers :
       /\ job[w].run = r /\ run[r].status = "RUNNING" /\ run[r].step = job[w].step
       /\ \/ /\ job[w].pc = "maxed" /\ run'[r].status = "FAILED" /\ run'[r].step = run[r].step
          \/ /\ job[w].pc = "fail" /\ run'[r].status = "FAILED" /\ run'[r].step = run[r].step
          \/ /\ job[w].pc = "block" /\ run'[r].status = "BLOCKED_EFFECT"
             /\ run'[r].step = run[r].step /\ run'[r].blockedOn = job[w].plan.rid
          \/ /\ job[w].pc = "advance" /\ run'[r].status = "RUNNING"
             /\ run'[r].step = run[r].step + 1
          \/ /\ job[w].pc = "complete" /\ run'[r].status = "COMPLETED"
             /\ run'[r].step = run[r].step + 1
  \/ \E h \in Hosts :
       /\ job[h].pc = "resume" /\ job[h].run = r /\ run[r].status = "BLOCKED_EFFECT"
       /\ run'[r].status = "RUNNING" /\ run'[r].step = run[r].step + 1

(* A step moves one row, or none; the ledger stays when a row moves.        *)
LEMMA RowMoves ==
  ASSUME LInv, [Next]_vars
  PROVE  \/ \A r \in Runs : SameRow(r)
         \/ \E r \in Runs :
              /\ RunStep(r) /\ \A q \in Runs \ {r} : run'[q] = run[q]
              /\ UNCHANGED <<effect, decision>>
<1> DEFINE Moved == \E r \in Runs :
              /\ RunStep(r) /\ \A q \in Runs \ {r} : run'[q] = run[q]
              /\ UNCHANGED <<effect, decision>>
<1>1. run \in [Runs -> Row] BY DEF LInv, Tools, Inv, Types
<1>2. UNCHANGED run => \A r \in Runs : SameRow(r) BY DEF SameRow
<1>3. ASSUME NEW w \in Workers,
             MaxedOut(w) \/ Fail(w) \/ Block(w) \/ Advance(w) \/ Complete(w), ~UNCHANGED run
      PROVE  Moved
  <2> DEFINE r == job[w].run
  <2>1. job[w].pc \in {"maxed", "fail", "block", "advance", "complete"} /\ UNCHANGED <<effect, decision>>
    BY <1>3 DEF MaxedOut, Fail, Block, Advance, Complete, At, textVars, toolVars
  <2>2. r \in Runs /\ run[r].status = "RUNNING" /\ run[r].step = job[w].step
    BY <2>1, WorkerAt, BoundPoints
  <2>3. \A q \in Runs \ {r} : run'[q] = run[q]
    BY <1>1, <1>3 DEF MaxedOut, Fail, Block, Advance, Complete
  <2>4. RunStep(r)
    <3>1. CASE MaxedOut(w) BY <1>1, <2>2, <3>1 DEF MaxedOut, At, RunStep, Row
    <3>2. CASE Fail(w) BY <1>1, <2>2, <3>2 DEF Fail, At, RunStep, Row
    <3>3. CASE Block(w)
      <4>1. /\ job[w].pc = "block" /\ run'[r].status = "BLOCKED_EFFECT"
            /\ run'[r].step = run[r].step /\ run'[r].blockedOn = job[w].plan.rid
        BY <1>1, <1>3, <2>2, <3>3 DEF Block, At, Row
      <4> QED BY <2>2, <4>1 DEF RunStep
    <3>4. CASE Advance(w)
      <4>1. /\ job[w].pc = "advance" /\ run'[r].status = "RUNNING"
            /\ run'[r].step = run[r].step + 1
        BY <1>1, <1>3, <2>2, <3>4 DEF Advance, At, Row
      <4> QED BY <2>2, <4>1 DEF RunStep
    <3>5. CASE Complete(w) BY <1>1, <2>2, <3>5 DEF Complete, At, RunStep, Row
    <3> QED BY <1>3, <3>1, <3>2, <3>3, <3>4, <3>5
  <2> QED BY <2>1, <2>2, <2>3, <2>4
<1>4. ASSUME NEW w \in Workers, Blame(w) PROVE \A r \in Runs : SameRow(r)
  BY <1>1, <1>4 DEF Blame, SameRow, Row
<1>5. ASSUME NEW w \in Workers, Work(w),
             ~(MaxedOut(w) \/ Fail(w) \/ Block(w) \/ Advance(w) \/ Complete(w) \/ Blame(w))
      PROVE  UNCHANGED run
  BY <1>5 DEF Work, Load, Drop, Decide, Ask, Admit, Say, Tool, ToolReturned, ToolRaised,
              Conclude, Ack, Requeue
<1>6. ASSUME NEW h \in Hosts, Resume(h), ~UNCHANGED run PROVE Moved
  <2> DEFINE r == job[h].run
  <2>1. job[h].pc = "resume" /\ UNCHANGED <<effect, decision>>
    BY <1>6 DEF Resume, At, textVars, toolVars
  <2>2. r \in Runs /\ run[r].status = "BLOCKED_EFFECT" BY <2>1, HostAt
  <2>3. \A q \in Runs \ {r} : run'[q] = run[q] BY <1>1, <1>6 DEF Resume
  <2>4. run'[r].status = "RUNNING" /\ run'[r].step = run[r].step + 1
    <3>1. run[r] \in Row BY <1>1, <2>2
    <3>2. run' = [run EXCEPT ![r].status = "RUNNING", ![r].blockedOn = None,
                             ![r].error = FALSE, ![r].step = @ + 1]
      BY <1>6 DEF Resume
    <3>3. run'[r] = [run[r] EXCEPT !.status = "RUNNING", !.blockedOn = None,
                                   !.error = FALSE, !.step = @ + 1]
      BY <1>1, <2>2, <3>2
    <3> QED BY <3>1, <3>3 DEF Row
  <2>5. RunStep(r) BY <2>1, <2>2, <2>4 DEF RunStep
  <2> QED BY <2>1, <2>2, <2>3, <2>5
<1>7. ASSUME NEW h \in Hosts, HostWork(h), ~Resume(h) PROVE UNCHANGED run
  BY <1>7 DEF HostWork, Recover, Tool, Recovered
<1>8. ASSUME NEW r \in Runs, Submit(r) PROVE Moved
  <2>1. RunStep(r) /\ \A q \in Runs \ {r} : run'[q] = run[q]
    BY <1>1, <1>8 DEF Submit, RunStep, Row
  <2> QED BY <1>8, <2>1 DEF Submit, textVars, toolVars
<1>9. CASE (\E w \in Workers : Work(w)) \/ (\E h \in Hosts : HostWork(h))
  BY <1>2, <1>3, <1>4, <1>5, <1>6, <1>7, <1>9
<1>10. CASE ~(\E w \in Workers : Work(w)) /\ ~(\E h \in Hosts : HostWork(h))
  BY <1>2, <1>8, <1>10 DEF Next, vars, Claim, ResumeBlocked, Reconcile, Break, Crash, Lapse
<1> QED BY <1>9, <1>10

LEMMA LeftStays ==
  ASSUME LInv, Grown, NEW r \in Runs, NEW s \in Steps, Left(r, s)
  PROVE  Left(r, s)'
<1>1. s \in said'[r] BY DEF Left, Grown
<1>2. decision[r][s] # None /\ (decision[r][s] \in Calls => decision[r][s].rid \in RequestIds)
  BY PlansAre DEF Left, Plans, Calls
<1>3. decision'[r][s] = decision[r][s] BY <1>2 DEF Grown
<1> QED BY <1>1, <1>2, <1>3 DEF Left, Grown

LEMMA RunsKept ==
  ASSUME LInv, Leased, [Next]_vars, Grown, RowsStay, NEW r \in Runs
  PROVE  RunInv(r)'
<1>1. RunInv(r) /\ run[r].step \in Steps /\ run[r].step \in Nat /\ Steps \subseteq Nat
  BY StepsAreNumbers DEF LInv, Tools, Inv, Types, Row
<1> PICK n \in Steps : n = run[r].step BY <1>1
<1>2. ASSUME run'[r].step = run[r].step
      PROVE  \A s \in Steps : s < run'[r].step => Left(r, s)'
  BY <1>1, <1>2, LeftStays DEF RunInv
<1>3. ASSUME run'[r].step = run[r].step + 1, Left(r, n)'
      PROVE  \A s \in Steps : s < run'[r].step => Left(r, s)'
  <2> SUFFICES ASSUME NEW s \in Steps, s < run[r].step + 1 PROVE Left(r, s)' BY <1>3
  <2>1. s < run[r].step \/ s = run[r].step BY <1>1
  <2>2. CASE s < run[r].step BY <1>1, <2>2, LeftStays DEF RunInv
  <2>3. CASE s = run[r].step BY <1>3, <2>3 DEF Left
  <2> QED BY <2>1, <2>2, <2>3
<1>4. CASE SameRow(r)
  <2> DEFINE plan == decision[r][run[r].step]
  <2>1. ASSUME run[r].status = "BLOCKED_EFFECT"
        PROVE  /\ decision'[r][run[r].step] = plan /\ run[r].step \in said'[r]
               /\ effect'[plan.rid] # "NONE" /\ plan \in Calls /\ plan.rid = run[r].blockedOn
    <3>1. plan \in Calls /\ plan.rid = run[r].blockedOn /\ run[r].step \in said[r]
          /\ effect[plan.rid] # "NONE"
      BY <1>1, <2>1 DEF RunInv
    <3>2. plan # None /\ plan.rid \in RequestIds BY <3>1, PlansAre DEF Calls
    <3> QED BY <1>1, <3>1, <3>2 DEF Grown, RowsStay
  <2> QED BY <1>2, <1>4, <2>1 DEF SameRow, RunInv
<1>5. CASE RunStep(r) /\ UNCHANGED <<effect, decision>> /\ ~SameRow(r)
  <2>1. CASE run[r].status = "NONE" /\ run'[r].status = "RUNNING" /\ run'[r].step = run[r].step
    BY <1>2, <2>1 DEF RunInv
  <2>2. ASSUME NEW w \in Workers,
               job[w].run = r, run[r].status = "RUNNING", run[r].step = job[w].step,
               job[w].pc \in {"maxed", "fail"}, run'[r].status = "FAILED", run'[r].step = run[r].step
        PROVE  RunInv(r)'
    BY <1>2, <2>2 DEF RunInv
  <2>3. ASSUME NEW w \in Workers,
               job[w].run = r, run[r].step = job[w].step, job[w].pc = "block",
               run'[r].step = run[r].step, run'[r].blockedOn = job[w].plan.rid
        PROVE  RunInv(r)'
    <3>1. WorkerInv(w) BY DEF LInv
    <3>2. job[w].plan = decision[r][run[r].step] /\ job[w].plan \in Calls
      BY <2>3, WorkerAt DEF Acting, Calling
    <3>3. run[r].step \in said[r] /\ effect[job[w].plan.rid] # "NONE"
      BY <2>3, <3>1 DEF WorkerInv
    <3>4. run[r].step \in said'[r] BY <3>3 DEF Grown
    <3> QED BY <1>2, <1>5, <2>3, <3>2, <3>3, <3>4 DEF RunInv
  <2>4. ASSUME NEW w \in Workers,
               job[w].run = r, run[r].step = job[w].step, job[w].pc = "advance",
               run'[r].step = run[r].step + 1, run'[r].status = "RUNNING"
        PROVE  RunInv(r)'
    <3>1. job[w].plan = decision[r][run[r].step] /\ job[w].plan \in Calls
      BY <2>4, WorkerAt DEF Acting, Calling
    <3>2. run[r].step \in said[r] /\ outcome[r][run[r].step] # None
      BY <2>4 DEF LInv, WorkerInv
    <3>3. Left(r, n)' BY <1>1, <3>1, <3>2, LeftStays DEF Left
    <3> QED BY <1>3, <2>4, <3>3 DEF RunInv
  <2>5. ASSUME NEW w \in Workers,
               job[w].run = r, run[r].step = job[w].step, job[w].pc = "complete",
               run'[r].step = run[r].step + 1, run'[r].status = "COMPLETED"
        PROVE  RunInv(r)'
    <3>1. job[w].plan = decision[r][run[r].step] BY <2>5, WorkerAt DEF Acting
    <3>2. run[r].step \in said[r] /\ job[w].plan = Final BY <2>5 DEF LInv, WorkerInv
    <3>3. Left(r, n)' BY <1>1, <3>1, <3>2, LeftStays DEF Left
    <3> QED BY <1>3, <2>5, <3>3 DEF RunInv
  <2>6. ASSUME NEW h \in Hosts,
               job[h].pc = "resume", job[h].run = r, run[r].status = "BLOCKED_EFFECT",
               run'[r].status = "RUNNING", run'[r].step = run[r].step + 1
        PROVE  RunInv(r)'
    <3>1. decision[r][run[r].step] \in Calls /\ decision[r][run[r].step].rid = job[h].plan.rid
      BY <2>6, HostAt
    <3>2. recovered[r][job[h].plan.rid] # None BY <2>6 DEF LInv, HostInv
    <3>3. run[r].step \in said[r] BY <1>1, <2>6 DEF RunInv
    <3>4. Left(r, n)' BY <1>1, <3>1, <3>2, <3>3, LeftStays DEF Left
    <3> QED BY <1>3, <2>6, <3>4 DEF RunInv
  <2> QED BY <1>5, <2>1, <2>2, <2>3, <2>4, <2>5, <2>6 DEF RunStep
<1>6. SameRow(r) \/ (RunStep(r) /\ UNCHANGED <<effect, decision>>)
  BY RowMoves DEF SameRow
<1> QED BY <1>4, <1>5, <1>6

-----------------------------------------------------------------------------
(* The invariant, and what follows of it.                                   *)

LEMMA LInit == Init => LInv
<1> SUFFICES ASSUME Init PROVE LInv OBVIOUS
<1>1. Tools BY InitInv, ToolsInit
<1>2. L!Init BY DEF Init
<1>3. SP!TrustedInv
  <2>1. SP!Init BY <1>2 DEF L!Init, L!NoCall, SP!Init, SP!NoCall
  <2> QED BY <2>1, SerialConstants, SP!TrustedInit
<1>4. /\ \A p \in Callers : job[p] = NoJob
      /\ \A p \in Callers : call[p] = L!NoCall
      /\ \A r \in Runs : run[r] = NoRun
      /\ \A r \in Runs : \A s \in Steps : decision[r][s] = None /\ outcome[r][s] = None
      /\ \A r \in Runs : \A i \in RequestIds : recovered[r][i] = None
  BY <1>2 DEF Init, L!Init
<1>5. \A w \in Workers : WorkerInv(w) /\ Fresh(w)
  BY <1>4, Kinds DEF WorkerInv, Fresh, Minting, NoJob, Current
<1>6. \A h \in Hosts : HostInv(h) BY <1>4, Kinds DEF HostInv, NoJob
<1>7. Unique BY <1>4, PlansAre DEF Unique, Events
<1>8. ASSUME NEW r \in Runs PROVE RunInv(r) /\ TextInv(r)
  <2>1. \A s \in Steps : ~(s < 0) BY StepsAreNumbers
  <2> QED BY <1>4, <2>1 DEF RunInv, TextInv, NoRun
<1>9. \A p \in Callers : ReplyInv(p) BY <1>4 DEF ReplyInv, L!NoCall
<1> QED BY <1>1, <1>3, <1>5, <1>6, <1>7, <1>8, <1>9 DEF LInv

LEMMA LNext == ASSUME LInv, Leased, [Next]_vars, Inv' PROVE LInv'
<1>1. Tools' BY ToolsNext DEF LInv
<1>2. SP!TrustedInv' /\ RowsStay /\ CommittedStays BY <1>1, LedgerMoves DEF CommittedStays
<1>3. Grown BY TextsGrow DEF LInv
<1>4. (\A w \in Workers : WorkerInv(w)') /\ (\A h \in Hosts : HostInv(h)')
  BY <1>2, <1>3, KnowledgeKept
<1>5. Unique' /\ \A w \in Workers : Fresh(w)' BY IdsKept
<1>6. \A r \in Runs : RunInv(r)' /\ TextInv(r)' BY <1>2, <1>3, RunsKept, TextsKept
<1>7. \A p \in Callers : ReplyInv(p)' BY <1>2, RepliesAreValues
<1> QED BY <1>1, <1>2, <1>4, <1>5, <1>6, <1>7 DEF LInv

LEMMA LInvHolds == ASSUME Leased PROVE Spec => [](Inv /\ LInv)
<1>1. Init => Inv /\ LInv BY InitInv, LInit
<1>2. Inv /\ LInv /\ [Next]_vars => (Inv /\ LInv)' BY NextKeeps, LNext
<1> QED BY <1>1, <1>2, PTL DEF Spec

(* Whatever the run went through, every generation it left is told in its   *)
(* transcript: the assistant's message, and the tool's or the host's answer *)
(* (Engine.run_once, resume_blocked_effect, advance_run_step).              *)
THEOREM TranscriptIsComplete == ASSUME Leased PROVE Spec => []TranscriptComplete
<1>1. LInv => TranscriptComplete
  BY DEF LInv, RunInv, Left, TranscriptComplete
<1> QED BY <1>1, LInvHolds, PTL

(* A run that went past a mutation found its effect COMMITTED, and tells    *)
(* the model what the ledger holds of it.                                   *)
THEOREM StepsWaitForEffects == ASSUME Leased PROVE Spec => []NoStepPastOpenEffect
<1>1. LInv => NoStepPastOpenEffect
  <2> SUFFICES ASSUME LInv, NEW r \in Runs, NEW s \in Steps, s < run[r].step,
                      decision[r][s] \in Calls, decision[r][s].body \in Mutations
               PROVE  /\ effect[decision[r][s].rid] = "COMMITTED"
                      /\ {outcome[r][s], recovered[r][decision[r][s].rid]}
                           \subseteq {None, result[decision[r][s].rid]}
    BY DEF NoStepPastOpenEffect
  <2>1. RunInv(r) /\ TextInv(r) BY DEF LInv
  <2>2. decision[r][s].rid \in RequestIds /\ decision[r][s] # Final
    BY EngineAssumption DEF Calls, Final
  <2>3. Left(r, s) BY <2>1 DEF RunInv
  <2> QED BY <2>1, <2>2, <2>3 DEF Left, TextInv
<1> QED BY <1>1, LInvHolds, PTL

(* block_run_on_effect blocks a run on the request of its own step, and on  *)
(* one that has a row in tool_effects.                                      *)
THEOREM BlocksOnOwnStep == ASSUME Leased PROVE Spec => []BlockedOnOwnStep
<1>1. LInv => BlockedOnOwnStep
  BY DEF LInv, RunInv, BlockedOnOwnStep
<1> QED BY <1>1, LInvHolds, PTL

(* Redelivered events, crashes, retries, resumes and re-executions change   *)
(* the outside world at most once per request.                              *)
THEOREM EngineActsOnce == ASSUME Leased PROVE Spec => []AtMostOneEffect
<1>1. LInv => AtMostOneEffect
  BY DEF LInv, SP!TrustedInv, AtMostOneEffect, L!AtMostOneEffect
<1> QED BY <1>1, LInvHolds, PTL

(* The engine calls ToolRegistry.execute and recover_reconciled one at a    *)
(* time per request id: it uses the ledger as the serialised ledger's       *)
(* contract needs it to be used.                                            *)
THEOREM EngineUsesLedgerSerially == ASSUME Leased PROVE Spec => UsesLedgerSerially
<1>1. Init => SerialLedger!Init
  <2> SUFFICES ASSUME Init PROVE SerialLedger!Init OBVIOUS
  <2>1. SP!Init BY DEF Init, L!Init, L!NoCall, SP!Init, SP!NoCall
  <2> QED BY <2>1, SameSerial
<1>2. LInv /\ [Next]_vars => [SerialLedger!Next]_(SerialLedger!vars)
  <2> SUFFICES ASSUME LInv, [Next]_vars PROVE [SerialLedger!Next]_(SerialLedger!vars) OBVIOUS
  <2>1. [SP!Next]_(SP!vars) BY SerialNext
  <2> QED BY <2>1, SameSerial DEF SerialLedger!vars, SP!vars
<1> QED BY <1>1, <1>2, LInvHolds, PTL DEF Spec, UsesLedgerSerially, SerialLedger!Spec

(* So the contract of the ledger holds of the engine: under one request id  *)
(* the outside world changes once, and a recorded outcome stays.            *)
THEOREM EngineKeepsContract == ASSUME Leased PROVE Spec => SP!ImplementsContract
<1>1. Spec => SP!Spec
  <2>1. Init => SP!Init BY DEF Init, L!Init, L!NoCall, SP!Init, SP!NoCall
  <2>2. LInv /\ [Next]_vars => [SP!Next]_(SP!vars) BY SerialNext
  <2> QED BY <2>1, <2>2, LInvHolds, PTL DEF Spec, SP!Spec
<1>2. SP!Spec => SP!ImplementsContract BY SP!LedgerImplementsContract, SerialConstants
<1> QED BY <1>1, <1>2

-----------------------------------------------------------------------------
(* The rows of the table runs move as RunLifecycle allows.                  *)

Barred(r) == run[r].status = "BLOCKED_EFFECT" /\ effect[run[r].blockedOn] # "COMMITTED"

(* Two runs never wait for the same request.                                *)
LEMMA BarriersApart ==
  ASSUME LInv, NEW r \in Runs, NEW q \in Runs,
         run[r].status = "BLOCKED_EFFECT", run[q].status = "BLOCKED_EFFECT",
         run[r].blockedOn = run[q].blockedOn
  PROVE  r = q
<1>1. ASSUME NEW p \in Runs, run[p].status = "BLOCKED_EFFECT"
      PROVE  /\ <<p, run[p].step>> \in Events
             /\ decision[p][run[p].step] \in Calls
             /\ decision[p][run[p].step].rid = run[p].blockedOn
  <2>1. RunInv(p) /\ run[p].step \in Steps BY DEF LInv, Tools, Inv, Types, Row
  <2> QED BY <1>1, <2>1 DEF RunInv, Events
<1>2. <<r, run[r].step>> = <<q, run[q].step>>
  <2> DEFINE e == <<r, run[r].step>>
             f == <<q, run[q].step>>
  <2>1. e \in Events /\ f \in Events BY <1>1
  <2>2. decision[e[1]][e[2]] \in Calls /\ decision[f[1]][f[2]] \in Calls
        /\ decision[e[1]][e[2]].rid = decision[f[1]][f[2]].rid
    BY <1>1
  <2> HIDE DEF e, f
  <2>3. e = f BY <2>1, <2>2 DEF LInv, Unique
  <2> QED BY <2>3 DEF e, f
<1> QED BY <1>2

(* The barrier of a run goes when its effect is established, and in no      *)
(* other way while the rows stay.                                           *)
LEMMA BarriersMove ==
  ASSUME LInv, Leased, [Next]_vars, Tools', \A r \in Runs : SameRow(r)
  PROVE  \/ \A r \in Runs : Barred(r)' <=> Barred(r)
         \/ \E r \in Runs : /\ Barred(r) /\ ~Barred(r)'
                            /\ \A q \in Runs \ {r} : Barred(q)' <=> Barred(q)
<1>1. SP!Silent \/ \E i \in RequestIds : SP!Loud(i)
  <2>1. [SP!Next]_(SP!vars) BY SerialNext
  <2>2. SP!TypeInv /\ SP!TrustedInv BY SameTypes DEF LInv, Tools
  <2> QED BY <2>1, <2>2, SerialConstants, SP!TrustedSteps
<1>2. CASE SP!Silent
  BY <1>2 DEF SP!Silent, SP!ledger, SameRow, Barred
<1>3. ASSUME NEW i \in RequestIds, SP!Loud(i)
      PROVE  \A j \in RequestIds \ {i} : effect'[j] = effect[j]
  BY <1>3 DEF SP!Loud, LInv, Tools, LP!TypeInv, LP!TypeOK
<1>4. \A r \in Runs : run[r].status = "BLOCKED_EFFECT" => run[r].blockedOn \in RequestIds
  BY DEF LInv, Tools, BlockedInv
<1>5. ASSUME NEW i \in RequestIds, SP!Loud(i),
             NEW r \in Runs, ~(Barred(r)' <=> Barred(r))
      PROVE  /\ Barred(r) /\ ~Barred(r)'
             /\ \A q \in Runs \ {r} : Barred(q)' <=> Barred(q)
  <2>1. run[r].status = "BLOCKED_EFFECT" /\ run[r].blockedOn = i
    BY <1>3, <1>4, <1>5 DEF SameRow, Barred
  <2>2. effect[i] = "COMMITTED" => effect'[i] = "COMMITTED" BY LedgerMoves
  <2>3. Barred(r) /\ ~Barred(r)' BY <1>5, <2>1, <2>2 DEF SameRow, Barred
  <2>4. ASSUME NEW q \in Runs \ {r} PROVE Barred(q)' <=> Barred(q)
    <3>1. run[q].status = "BLOCKED_EFFECT" => run[q].blockedOn # i BY <2>1, BarriersApart
    <3> QED BY <1>3, <1>4, <1>5, <3>1 DEF SameRow, Barred
  <2> QED BY <2>3, <2>4
<1>6. ASSUME NEW i \in RequestIds, SP!Loud(i)
      PROVE  \/ \A r \in Runs : Barred(r)' <=> Barred(r)
             \/ \E r \in Runs : /\ Barred(r) /\ ~Barred(r)'
                                /\ \A q \in Runs \ {r} : Barred(q)' <=> Barred(q)
  BY <1>5, <1>6
<1> QED BY <1>1, <1>2, <1>6

(* The lifecycle's view of the table.                                       *)
Phase == [r \in Runs |-> run[r].status]
Generation == [r \in Runs |-> run[r].step]
Barrier == [r \in Runs |-> Barred(r)]

LEMMA LifecycleSteps ==
  /\ UNCHANGED <<Phase, Generation, Barrier>> => UNCHANGED Lifecycle!vars
  /\ \A r \in Runs :
       /\ /\ Phase[r] = "NONE" /\ Phase' = [Phase EXCEPT ![r] = "RUNNING"]
          /\ Generation' = Generation /\ Barrier' = Barrier
          => Lifecycle!Submit(r)
       /\ /\ Phase[r] = "RUNNING" /\ Generation' = [Generation EXCEPT ![r] = @ + 1]
          /\ Phase' = Phase /\ Barrier' = Barrier
          => Lifecycle!Advance(r)
       /\ /\ Phase[r] = "RUNNING" /\ Phase' = [Phase EXCEPT ![r] = "COMPLETED"]
          /\ Generation' = [Generation EXCEPT ![r] = @ + 1] /\ Barrier' = Barrier
          => Lifecycle!Complete(r)
       /\ /\ Phase[r] = "RUNNING" /\ Phase' = [Phase EXCEPT ![r] = "FAILED"]
          /\ Generation' = Generation /\ Barrier' = Barrier
          => Lifecycle!Fail(r)
       /\ /\ Phase[r] = "RUNNING" /\ Phase' = [Phase EXCEPT ![r] = "BLOCKED_EFFECT"]
          /\ \E open \in BOOLEAN : Barrier' = [Barrier EXCEPT ![r] = open]
          /\ Generation' = Generation
          => Lifecycle!Block(r)
       /\ /\ Barrier[r] /\ Barrier' = [Barrier EXCEPT ![r] = FALSE]
          /\ Phase' = Phase /\ Generation' = Generation
          => Lifecycle!Establish(r)
       /\ /\ ~Barrier[r]
          /\ Phase[r] = "BLOCKED_EFFECT" /\ Phase' = [Phase EXCEPT ![r] = "RUNNING"]
          /\ Generation' = [Generation EXCEPT ![r] = @ + 1] /\ Barrier' = Barrier
          => Lifecycle!Resume(r)
BY DEF Lifecycle!vars, Phase, Generation, Barrier, Barred, Lifecycle!Submit, Lifecycle!Advance,
       Lifecycle!Complete, Lifecycle!Fail, Lifecycle!Block, Lifecycle!Establish,
       Lifecycle!Resume, Lifecycle!Turn, Lifecycle!NextGeneration

LEMMA Updates ==
  ASSUME NEW r \in Runs, \A q \in Runs \ {r} : run'[q] = run[q], UNCHANGED effect
  PROVE  /\ Phase' = [Phase EXCEPT ![r] = run'[r].status]
         /\ Generation' = [Generation EXCEPT ![r] = run'[r].step]
         /\ Barrier' = [Barrier EXCEPT ![r] = Barred(r)']
         /\ (Barred(r)' <=> Barred(r)) => Barrier' = Barrier
         /\ run'[r].status = run[r].status => Phase' = Phase
         /\ run'[r].step = run[r].step => Generation' = Generation
<1>1. \A q \in Runs \ {r} : Barred(q)' = Barred(q) BY Zenon DEF Barred
<1>2. Phase' = [Phase EXCEPT ![r] = run'[r].status] BY DEF Phase
<1>3. Generation' = [Generation EXCEPT ![r] = run'[r].step] BY DEF Generation
<1>4. Barrier' = [Barrier EXCEPT ![r] = Barred(r)'] BY Zenon, <1>1 DEF Barrier
<1>5. (Barred(r)' <=> Barred(r)) => Barrier' = Barrier
  <2> SUFFICES ASSUME Barred(r)' <=> Barred(r) PROVE Barrier' = Barrier OBVIOUS
  <2>1. Barred(r)' = Barred(r) BY DEF Barred
  <2>2. \A q \in Runs : Barred(q)' = Barred(q) BY Zenon, <1>1, <2>1
  <2> QED BY Zenon, <2>2 DEF Barrier
<1>6. run'[r].status = run[r].status => Phase' = Phase BY DEF Phase
<1>7. run'[r].step = run[r].step => Generation' = Generation BY DEF Generation
<1> QED BY <1>2, <1>3, <1>4, <1>5, <1>6, <1>7

LEMMA LifecycleRow ==
  ASSUME LInv, NEW r \in Runs, RunStep(r), ~SameRow(r),
         \A q \in Runs \ {r} : run'[q] = run[q], UNCHANGED effect
  PROVE  Lifecycle!Next
<1> DEFINE from == run[r].status
           to == run'[r].status
<1>1. Phase[r] = from /\ Generation[r] = run[r].step /\ (Barrier[r] <=> Barred(r))
  BY DEF Phase, Generation, Barrier, Barred
<1>2. /\ Barred(r) => from = "BLOCKED_EFFECT"
      /\ Barred(r)' => to = "BLOCKED_EFFECT"
  BY DEF Barred
<1>3. /\ Phase' = [Phase EXCEPT ![r] = to]
      /\ Generation' = [Generation EXCEPT ![r] = run'[r].step]
      /\ Barrier' = [Barrier EXCEPT ![r] = Barred(r)']
      /\ (Barred(r)' <=> Barred(r)) => Barrier' = Barrier
      /\ to = from => Phase' = Phase
      /\ run'[r].step = run[r].step => Generation' = Generation
  BY Updates
<1>4. run'[r].step = run[r].step + 1 => Generation' = [Generation EXCEPT ![r] = @ + 1]
  BY <1>1, <1>3
<1>5. CASE from = "NONE" /\ to = "RUNNING" /\ run'[r].step = run[r].step
  <2>1. /\ Phase[r] = "NONE" /\ Phase' = [Phase EXCEPT ![r] = "RUNNING"]
        /\ Generation' = Generation /\ Barrier' = Barrier
    BY <1>1, <1>2, <1>3, <1>5
  <2>2. Lifecycle!Submit(r) BY <2>1, LifecycleSteps
  <2> QED BY <2>2 DEF Lifecycle!Next
<1>6. CASE from = "RUNNING" /\ to = "FAILED" /\ run'[r].step = run[r].step
  <2>1. /\ Phase[r] = "RUNNING" /\ Phase' = [Phase EXCEPT ![r] = "FAILED"]
        /\ Generation' = Generation /\ Barrier' = Barrier
    BY <1>1, <1>2, <1>3, <1>6
  <2>2. Lifecycle!Fail(r) BY <2>1, LifecycleSteps
  <2> QED BY <2>2 DEF Lifecycle!Next
<1>7. CASE from = "RUNNING" /\ to = "RUNNING" /\ run'[r].step = run[r].step + 1
  <2>1. /\ Phase[r] = "RUNNING" /\ Generation' = [Generation EXCEPT ![r] = @ + 1]
        /\ Phase' = Phase /\ Barrier' = Barrier
    BY <1>1, <1>2, <1>3, <1>4, <1>7
  <2>2. Lifecycle!Advance(r) BY <2>1, LifecycleSteps
  <2> QED BY <2>2 DEF Lifecycle!Next
<1>8. CASE from = "RUNNING" /\ to = "COMPLETED" /\ run'[r].step = run[r].step + 1
  <2>1. /\ Phase[r] = "RUNNING" /\ Phase' = [Phase EXCEPT ![r] = "COMPLETED"]
        /\ Generation' = [Generation EXCEPT ![r] = @ + 1] /\ Barrier' = Barrier
    BY <1>1, <1>2, <1>3, <1>4, <1>8
  <2>2. Lifecycle!Complete(r) BY <2>1, LifecycleSteps
  <2> QED BY <2>2 DEF Lifecycle!Next
<1>9. CASE from = "RUNNING" /\ to = "BLOCKED_EFFECT" /\ run'[r].step = run[r].step
  <2>1. Barred(r)' \in BOOLEAN BY DEF Barred
  <2>2. \E open \in BOOLEAN : Barrier' = [Barrier EXCEPT ![r] = open] BY Zenon, <1>3, <2>1
  <2>3. /\ Phase[r] = "RUNNING" /\ Phase' = [Phase EXCEPT ![r] = "BLOCKED_EFFECT"]
        /\ Generation' = Generation
    BY <1>1, <1>3, <1>9
  <2>4. Lifecycle!Block(r) BY <2>2, <2>3, LifecycleSteps
  <2> QED BY <2>4 DEF Lifecycle!Next
<1>10. ASSUME NEW h \in Hosts, job[h].pc = "resume", job[h].run = r,
              from = "BLOCKED_EFFECT", to = "RUNNING", run'[r].step = run[r].step + 1
       PROVE  Lifecycle!Next
  <2>1. /\ recovered[r][job[h].plan.rid] # None
        /\ job[h].plan.rid = run[r].blockedOn /\ job[h].plan.rid \in RequestIds
    BY <1>10, HostAt DEF LInv, HostInv
  <2>2. effect[run[r].blockedOn] = "COMMITTED" BY <2>1 DEF LInv, TextInv
  <2>3. ~Barred(r) BY <2>2 DEF Barred
  <2>4. /\ ~Barrier[r]
        /\ Phase[r] = "BLOCKED_EFFECT" /\ Phase' = [Phase EXCEPT ![r] = "RUNNING"]
        /\ Generation' = [Generation EXCEPT ![r] = @ + 1] /\ Barrier' = Barrier
    BY <1>1, <1>2, <1>3, <1>4, <1>10, <2>3
  <2>5. Lifecycle!Resume(r) BY <2>4, LifecycleSteps
  <2> QED BY <2>5 DEF Lifecycle!Next
<1> QED BY <1>5, <1>6, <1>7, <1>8, <1>9, <1>10 DEF RunStep

LEMMA LifecycleNext ==
  ASSUME LInv, Leased, [Next]_vars, Tools'
  PROVE  [Lifecycle!Next]_(Lifecycle!vars)
<1>1. CASE \A r \in Runs : SameRow(r)
  <2>1. UNCHANGED <<Phase, Generation>>
    <3>1. Phase' = Phase BY <1>1 DEF Phase, SameRow
    <3>2. Generation' = Generation BY <1>1 DEF Generation, SameRow
    <3> QED BY <3>1, <3>2
  <2>2. \A r \in Runs : Barred(r) \in BOOLEAN /\ Barred(r)' \in BOOLEAN BY DEF Barred
  <2>3. CASE \A r \in Runs : Barred(r)' <=> Barred(r)
    <3>1. \A r \in Runs : Barred(r)' = Barred(r) BY <2>2, <2>3
    <3>2. Barrier' = Barrier BY Zenon, <3>1 DEF Barrier
    <3>3. UNCHANGED Lifecycle!vars BY <2>1, <3>2, LifecycleSteps
    <3> QED BY <3>3
  <2>4. ASSUME NEW r \in Runs, Barred(r), ~Barred(r)',
               \A q \in Runs \ {r} : Barred(q)' <=> Barred(q)
        PROVE  Lifecycle!Next
    <3>1. \A q \in Runs \ {r} : Barred(q)' = Barred(q) BY <2>2, <2>4
    <3>2. Barred(r)' = FALSE BY <2>2, <2>4
    <3>3. Barrier' = [Barrier EXCEPT ![r] = Barred(r)'] BY Zenon, <3>1 DEF Barrier
    <3>4. Barrier' = [Barrier EXCEPT ![r] = FALSE] BY Zenon, <3>2, <3>3
    <3>5. Barrier[r] BY <2>4 DEF Barrier
    <3>6. Lifecycle!Establish(r) BY <2>1, <3>4, <3>5, LifecycleSteps
    <3> QED BY <3>6 DEF Lifecycle!Next
  <2> QED BY <1>1, <2>3, <2>4, BarriersMove
<1>2. ASSUME NEW r \in Runs, RunStep(r), \A q \in Runs \ {r} : run'[q] = run[q],
             UNCHANGED <<effect, decision>>
      PROVE  [Lifecycle!Next]_(Lifecycle!vars)
  <2>1. CASE SameRow(r) BY <1>1, <1>2, <2>1 DEF SameRow
  <2>2. CASE ~SameRow(r) BY <1>2, <2>2, LifecycleRow
  <2> QED BY <2>1, <2>2
<1> QED BY <1>1, <1>2, RowMoves

(* Step by step the rows move as RunLifecycle allows: one generation at a   *)
(* time, out of COMPLETED and FAILED never, and out of BLOCKED_EFFECT only  *)
(* when the effect is COMMITTED (advance_run_step, block_run_on_effect,     *)
(* resume_run_after_effect and update_run, whose guards do not say so).     *)
THEOREM EngineImplementsLifecycle == ASSUME Leased PROVE Spec => ImplementsLifecycle
<1>1. Init => Lifecycle!Init
  <2> SUFFICES ASSUME Init PROVE Lifecycle!Init OBVIOUS
  <2>1. \A r \in Runs : run[r] = NoRun BY DEF Init
  <2>2. \A r \in Runs : Barred(r) = FALSE BY <2>1 DEF Barred, NoRun
  <2>3. Phase = [r \in Runs |-> "NONE"] BY <2>1 DEF Phase, NoRun
  <2>4. Generation = [r \in Runs |-> 0] BY <2>1 DEF Generation, NoRun
  <2>5. Barrier = [r \in Runs |-> FALSE] BY Zenon, <2>2 DEF Barrier
  <2> QED BY <2>3, <2>4, <2>5 DEF Lifecycle!Init, Phase, Generation, Barrier, Barred
<1>2. LInv /\ Inv' /\ [Next]_vars => [Lifecycle!Next]_(Lifecycle!vars)
  BY ToolsNext, LifecycleNext DEF LInv
<1> QED BY <1>1, <1>2, LInvHolds, PTL DEF Spec, ImplementsLifecycle, Lifecycle!Spec

-----------------------------------------------------------------------------
(* Why a run fails, with a host that reconciles only what a run is blocked  *)
(* on: a mutation that raised a tool error is unresolved until its run is   *)
(* blocked, and then it is not the run's failure.                           *)

RaisedInv(w) ==
  job[w].pc = "tool" /\ call[w].at = "raised" /\ call[w].body \in Mutations
    /\ call[w].reply = "ToolError" => Unresolved(call[w].rid)

FailInv(w) == job[w].pc = "fail" => job[w].plan.body \notin Mutations

FailedInv(r) ==
  run[r].status = "FAILED" =>
    \/ run[r].step >= MaxSteps
    \/ /\ decision[r][run[r].step] \in Calls
       /\ decision[r][run[r].step].body \notin Mutations

CauseInv == (\A w \in Workers : RaisedInv(w) /\ FailInv(w)) /\ \A r \in Runs : FailedInv(r)

(* The row under a worker's call holds the mutation it calls for.           *)
LEMMA RowIsOwn ==
  ASSUME LInv, NEW w \in Workers, job[w].pc = "tool", effect[call[w].rid] # "NONE"
  PROVE  request[call[w].rid] = call[w].body
<1> DEFINE i == call[w].rid
<1>1. /\ w \in Callers /\ EventOf(w) \in Events /\ job[w].plan \in Calls
      /\ job[w].plan = decision[EventOf(w)[1]][EventOf(w)[2]]
  BY WorkerAt DEF Acting, Calling
<1>2. job[w].plan.rid = i /\ job[w].plan.body = call[w].body /\ i \in RequestIds
  BY <1>1 DEF LInv, Tools, ToolInv, Calls
<1>3. PICK e \in Events : decision[e[1]][e[2]] = [rid |-> i, body |-> request[i]]
  BY <1>2 DEF LInv, Tools, EffectsAreDecided
<1>4. request[i] \in Bodies BY <1>2 DEF LInv, Tools, LP!TypeInv, LP!Admitted, Bodies
<1>5. decision[e[1]][e[2]] \in Calls /\ decision[e[1]][e[2]].rid = i
  BY <1>2, <1>3, <1>4 DEF Calls
<1>6. e = EventOf(w) BY <1>1, <1>2, <1>5 DEF LInv, Unique
<1> QED BY <1>1, <1>2, <1>3, <1>6

(* Nobody settles what a worker at its call has left unresolved.            *)
LEMMA UnresolvedStays ==
  ASSUME LInv, Leased, HostWaits, [Next]_vars, NEW w \in Workers, job[w].pc = "tool",
         call'[w] = call[w], Unresolved(call[w].rid), call[w].at = "raised"
  PROVE  Unresolved(call[w].rid)'
<1> DEFINE i == call[w].rid
<1>1. /\ w \in Callers /\ EventOf(w) \in Events /\ job[w].plan \in Calls
      /\ job[w].plan = decision[EventOf(w)[1]][EventOf(w)[2]]
      /\ run[job[w].run].status = "RUNNING" /\ EventOf(w) = <<job[w].run, job[w].step>>
  BY WorkerAt DEF Acting, Calling, Current
<1>2. i = job[w].plan.rid /\ i \in RequestIds BY <1>1 DEF LInv, Tools, ToolInv, Calls
<1>3. effect'[i] = effect[i] => Unresolved(i)' BY DEF Unresolved
<1>4. ASSUME NEW p \in Callers, Tool(p) PROVE effect'[i] = effect[i]
  <2>1. SP!Step(p) BY <1>4, SameSteps DEF Tool
  <2>2. p # w \/ effect' = effect
    BY <1>4, <2>1 DEF SP!Step, SP!ReadOnly, SP!Lookup, SP!Insert, SP!Retry, SP!Apply,
       SP!HandlerReturns, SP!HandlerRaises, SP!Unknown, SP!Commit, SP!StatementFails, SP!At, SP!ledger
  <2>3. p # w => call[p].rid # i
    BY <1>1, <1>2, EngineAssumption DEF LInv, SP!TrustedInv
  <2>4. \A j \in RequestIds : j # call[p].rid => effect'[j] = effect[j]
    BY <2>1 DEF LInv, Tools, LP!TypeInv, LP!TypeOK,
       SP!Step, SP!ReadOnly, SP!Lookup, SP!Insert, SP!Retry, SP!Apply,
       SP!HandlerReturns, SP!HandlerRaises, SP!Unknown, SP!Commit, SP!StatementFails, SP!ledger
  <2> QED BY <1>2, <2>2, <2>3, <2>4
<1>5. ASSUME NEW j \in RequestIds, Reconcile(j) PROVE effect'[i] = effect[i]
  <2>1. PICK r \in Runs : run[r].status = "BLOCKED_EFFECT" /\ run[r].blockedOn = j
    BY <1>5 DEF Reconcile
  <2>2. RunInv(r) /\ run[r].step \in Steps BY DEF LInv, Tools, Inv, Types, Row
  <2>3. decision[r][run[r].step] \in Calls /\ decision[r][run[r].step].rid = j
    BY <2>1, <2>2 DEF RunInv
  <2>4. j # i
    <3> SUFFICES ASSUME j = i PROVE FALSE OBVIOUS
    <3>1. PICK e \in Events : e = <<r, run[r].step>> BY <2>2 DEF Events
    <3>2. decision[e[1]][e[2]] \in Calls /\ decision[e[1]][e[2]].rid = i BY <2>3, <3>1
    <3>3. e = EventOf(w) BY <1>1, <1>2, <3>2 DEF LInv, Unique
    <3> QED BY <1>1, <2>1, <3>1, <3>3
  <2>5. effect' = [effect EXCEPT ![j] = effect'[j]]
    BY <1>5 DEF Reconcile, L!Reconcile, L!Confirm, L!Deny, LInv, Tools, LP!TypeInv, LP!TypeOK
  <2> QED BY <1>2, <2>4, <2>5 DEF LInv, Tools, LP!TypeInv, LP!TypeOK
<1>6. ASSUME NEW p \in Workers, Work(p), ~Tool(p) PROVE effect' = effect
  BY <1>6 DEF Work, Load, MaxedOut, Drop, Decide, Ask, Admit, Say, ToolReturned, ToolRaised,
              Block, Fail, Advance, Conclude, Complete, Ack, Blame, Requeue, toolVars,
              L!Start, L!Finish, L!ledger
<1>7. ASSUME NEW h \in Hosts, HostWork(h), ~Tool(h) PROVE effect' = effect
  BY <1>7 DEF HostWork, Recover, Recovered, Resume, toolVars, L!Recover, L!Finish, L!ledger
<1> QED BY <1>3, <1>4, <1>5, <1>6, <1>7, Kinds
    DEF Next, vars, toolVars, Submit, Claim, ResumeBlocked, Break, Crash, Lapse

LEMMA RaisedKept ==
  ASSUME LInv, Leased, HostWaits, [Next]_vars, NEW w \in Workers, RaisedInv(w)
  PROVE  RaisedInv(w)'
<1> SUFFICES ASSUME job'[w].pc = "tool", call'[w].at = "raised", call'[w].body \in Mutations,
                    call'[w].reply = "ToolError"
             PROVE  Unresolved(call[w].rid)'
  BY DEF RaisedInv
<1>1. /\ w \in Callers /\ Inv /\ job \in [Callers -> Job] /\ ToolInv(w)
      /\ call \in [Callers -> SP!Call] /\ LP!TypeInv
  BY Kinds, SameTypes DEF LInv, Tools, Inv, Types, SP!TypeInv, SP!TypeOK
<1>2. CASE call'[w] = call[w]
  <2>1. job[w].pc = "tool" BY <1>1, <1>2 DEF ToolInv, L!NoCall
  <2>2. Unresolved(call[w].rid) BY <1>2, <2>1 DEF RaisedInv
  <2> QED BY <1>2, <2>1, <2>2, UnresolvedStays
<1>3. CASE Say(w)
  <2>1. /\ call'[w].at = L!Admission(job[w].plan.body)
        /\ call'[w].body = job[w].plan.body
    BY <1>1, <1>3 DEF Say, L!Start
  <2> QED BY <2>1 DEF L!Admission
<1>4. CASE Tool(w)
  <2>1. job[w].pc = "tool" /\ L!Step(w) BY <1>4 DEF Tool, At
  <2>2. /\ call'[w].body = call[w].body /\ call'[w].rid = call[w].rid
        /\ call[w].rid \in RequestIds
    BY <1>1, <2>1, StepMoves
  <2>3. effect[call[w].rid] # "NONE" => request[call[w].rid] = call[w].body
    BY <2>1, RowIsOwn
  <2>4. CASE SP!ReadOnly(w)
    BY <1>1, <2>2, <2>4 DEF SP!ReadOnly, SP!At, LInv, SP!TrustedInv
  <2>5. CASE SP!Lookup(w)
    <3>1. UNCHANGED effect BY <2>5 DEF SP!Lookup, SP!ledger
    <3>2. effect[call[w].rid] \in {"EXECUTING", "ATTEMPTED_UNKNOWN"}
      BY <1>1, <2>3, <2>5
         DEF SP!Lookup, SP!At, SP!SameRequest, SP!Goto, SP!Answer, SP!Raise, SP!MayRetry, SP!Call
    <3> QED BY <2>2, <3>1, <3>2 DEF Unresolved
  <2>6. CASE SP!Unknown(w)
    BY <1>1, <2>2, <2>6 DEF SP!Unknown, SP!AfterRaise, LP!TypeInv, LP!TypeOK, Unresolved
  <2>7. CASE \/ SP!Insert(w) \/ SP!Retry(w) \/ SP!Apply(w) \/ SP!HandlerReturns(w)
             \/ SP!HandlerRaises(w) \/ SP!Commit(w) \/ SP!StatementFails(w)
    BY <1>1, <2>7 DEF SP!Insert, SP!Retry, SP!Apply, SP!HandlerReturns, SP!HandlerRaises,
       SP!Commit, SP!StatementFails, SP!Raise, SP!Goto, SP!Call
  <2>8. SP!Step(w) BY <1>1, <2>1, SameSteps
  <2> QED BY <2>4, <2>5, <2>6, <2>7, <2>8 DEF SP!Step
<1>5. CASE QuietWork(w)
  <2>1. call'[w] = call[w] BY <1>5, QuietWorkJob DEF LInv, toolVars
  <2> QED BY <1>2, <2>1
<1>6. CASE ToolReturned(w) \/ ToolRaised(w)
  BY <1>1, <1>6 DEF ToolReturned, ToolRaised, L!Finish, L!NoCall
<1>7. ASSUME NEW e \in Events, Claim(w, e) PROVE call'[w] = call[w]
  BY <1>7 DEF Claim, toolVars
<1>8. CASE Break(w) \/ Crash(w) BY <1>1, <1>8 DEF Break, Crash, L!NoCall
<1> QED BY <1>2, <1>3, <1>4, <1>5, <1>6, <1>7, <1>8, Movers DEF Work, QuietWork

LEMMA FailKept ==
  ASSUME LInv, Leased, [Next]_vars, NEW w \in Workers, RaisedInv(w), FailInv(w)
  PROVE  FailInv(w)'
<1> SUFFICES ASSUME job'[w].pc = "fail" PROVE job'[w].plan.body \notin Mutations
  BY DEF FailInv
<1>1. CASE job'[w] = job[w] BY <1>1 DEF FailInv
<1>2. CASE ToolRaised(w)
  <2>1. w \in Callers /\ Inv /\ ToolInv(w) BY Kinds DEF LInv, Tools
  <2>2. /\ job[w].pc = "tool" /\ call[w].at = "raised"
        /\ Go(w, Verdict(job[w].plan.rid, call[w].reply))
    BY <1>2 DEF ToolRaised, At, L!At
  <2>3. Verdict(job[w].plan.rid, call[w].reply) \in Points
    BY DEF Verdict, Points, Attempt, Outside
  <2>4. /\ job'[w].pc = Verdict(job[w].plan.rid, call[w].reply)
        /\ job'[w].plan = job[w].plan
    BY <2>1, <2>2, <2>3, GoesFor
  <2>5. ~Unresolved(job[w].plan.rid) /\ call[w].reply = "ToolError"
    BY <2>4 DEF Verdict
  <2>6. call[w].rid = job[w].plan.rid /\ call[w].body = job[w].plan.body
    BY <2>1, <2>2 DEF ToolInv
  <2> QED BY <2>2, <2>4, <2>5, <2>6 DEF RaisedInv
<1> QED BY <1>1, <1>2, Arrivals

LEMMA FailedKept ==
  ASSUME LInv, Leased, [Next]_vars, Grown, CauseInv, NEW r \in Runs
  PROVE  FailedInv(r)'
<1>1. run[r].step \in Steps /\ None \notin Calls /\ FailedInv(r)
  BY PlansAre DEF LInv, Tools, Inv, Types, Row, CauseInv
<1>2. CASE SameRow(r)
  BY <1>1, <1>2 DEF SameRow, FailedInv, Grown
<1>3. CASE RunStep(r) /\ UNCHANGED decision /\ ~SameRow(r)
  <2>1. ASSUME NEW w \in Workers, job[w].run = r, run[r].step = job[w].step,
               job[w].pc = "maxed", run'[r].step = run[r].step
        PROVE  FailedInv(r)'
    BY <2>1 DEF LInv, WorkerInv, FailedInv
  <2>2. ASSUME NEW w \in Workers, job[w].run = r, run[r].step = job[w].step,
               job[w].pc = "fail", run'[r].step = run[r].step
        PROVE  FailedInv(r)'
    <3>1. job[w].plan = decision[r][run[r].step] /\ job[w].plan \in Calls
      BY <2>2, WorkerAt DEF Acting, Calling
    <3>2. job[w].plan.body \notin Mutations BY <2>2 DEF CauseInv, FailInv
    <3> QED BY <1>3, <2>2, <3>1, <3>2 DEF FailedInv
  <2>3. CASE run'[r].status # "FAILED" BY <2>3 DEF FailedInv
  <2> QED BY <1>3, <2>1, <2>2, <2>3 DEF RunStep
<1>4. SameRow(r) \/ (RunStep(r) /\ UNCHANGED decision) BY RowMoves DEF SameRow
<1> QED BY <1>2, <1>3, <1>4

(* A run is FAILED only for its step budget or for a step whose decision    *)
(* was no mutation: Engine.run_once blocks the run on a mutation that       *)
(* raised, and never fails it, as long as the host does not reconcile       *)
(* before the run is blocked.                                               *)
THEOREM FailuresHaveCause == ASSUME Leased, HostWaits PROVE Spec => []FailedHasCause
<1>1. Init => CauseInv
  <2> SUFFICES ASSUME Init PROVE CauseInv OBVIOUS
  <2>1. \A w \in Workers : job[w] = NoJob BY Kinds DEF Init
  <2>2. \A r \in Runs : run[r] = NoRun BY DEF Init
  <2> QED BY <2>1, <2>2 DEF CauseInv, RaisedInv, FailInv, FailedInv, NoJob, NoRun
<1>2. Inv /\ LInv /\ CauseInv /\ [Next]_vars => CauseInv'
  <2> SUFFICES ASSUME LInv, CauseInv, [Next]_vars PROVE CauseInv' OBVIOUS
  <2>1. Grown BY TextsGrow DEF LInv
  <2>2. ASSUME NEW w \in Workers PROVE RaisedInv(w)' /\ FailInv(w)'
    BY RaisedKept, FailKept DEF CauseInv
  <2>3. ASSUME NEW r \in Runs PROVE FailedInv(r)' BY <2>1, FailedKept
  <2> QED BY <2>2, <2>3 DEF CauseInv
<1>3. CauseInv => FailedHasCause
  BY DEF CauseInv, FailedInv, FailedHasCause
<1> QED BY <1>1, <1>2, <1>3, LInvHolds, PTL DEF Spec
=============================================================================
