-------------------------- MODULE SupervisionProofs --------------------------
(***************************************************************************)
(* What Supervision promises for every number of faults: where exceptions   *)
(* are in flight, and which of them end the daemon.                         *)
(***************************************************************************)
EXTENDS Supervision, TLAPS

(* The handlers that end a step normally are entered only in their case.    *)
HandlersApply ==
  /\ pc = "block" => effect \in Open
  /\ pc = "failrun" => exc = "tool"

IInv == TypeOK /\ HandlersApply

USE SupervisionAssumption DEF Statements, Outside, Guarded, Executing, Inner, Outer, Loop,
  Exceptions, Open, EffectStates, Spend, vars, daemonVars, endpointVars, allVars, Go, Flow

(* A step of the process itself.                                            *)
LEMMA ProcessStep ==
  ASSUME TypeOKProcess, HandlersApply, Done \/ Fails \/ Interrupt \/ Lapse \/ Kill \/ Launch
  PROVE  TypeOKProcess' /\ HandlersApply'
<1> USE DEF TypeOKProcess, HandlersApply
<1>1. CASE Done
  <2>1. CASE Started \/ Ticked \/ TakenIn \/ Decided \/ Said \/ ReadDone \/ Handled
             \/ Concluded \/ Reported
    BY <2>1 DEF Started, Ticked, TakenIn, Decided, Said, ReadDone, Handled, Concluded, Reported
  <2>2. CASE Claimed \/ Loaded BY <2>2 DEF Claimed, Loaded
  <2>3. CASE Dropped \/ Acked BY <2>3 DEF Dropped, Acked, Acks
  <2>4. CASE Execute \/ Committed BY <2>4 DEF Execute, Committed
  <2>5. CASE Marked \/ Blamed \/ Requeued BY <2>5 DEF Marked, Blamed, Requeued
  <2>6. CASE Judged BY <2>6 DEF Judged, Verdict
  <2>7. CASE Swallowed BY <2>7 DEF Swallowed, Acks
  <2>8. CASE Top BY <2>8 DEF Top, Caught
  <2>9. CASE Slept BY <2>9 DEF Slept
  <2> QED BY <1>1, <2>1, <2>2, <2>3, <2>4, <2>5, <2>6, <2>7, <2>8, <2>9 DEF Done
<1>2. ASSUME NEW e \in Exceptions, Raises(e)
      PROVE  TypeOKProcess' /\ HandlersApply'
  BY <1>2 DEF Raises, Lands
<1>3. CASE Fails \/ Interrupt BY <1>2, <1>3 DEF Fails, Interrupt
<1>4. CASE Lapse BY <1>4 DEF Lapse
<1>5. CASE Kill BY <1>5 DEF Kill
<1>6. CASE Launch BY <1>6 DEF Launch
<1> QED BY <1>1, <1>3, <1>4, <1>5, <1>6

(* The processes around it.                                                 *)
LEMMA InvStep ==
  ASSUME IInv, [Next]_allVars
  PROVE  IInv'
<1> USE DEF IInv, TypeOK
<1>1. CASE Keep
  <2>1. CASE Ready BY <1>1, <2>1, ProcessStep DEF Ready
  <2>2. CASE NotReady \/ DaemonExited \/ ProbeAgain
    BY <2>2 DEF NotReady, DaemonExited, ProbeAgain, TypeOKProcess, HandlersApply
  <2> QED BY <1>1, <2>1, <2>2 DEF Keep
<1>2. CASE Serve
  BY <1>2 DEF Serve, Check, Load, ServerExited, CheckAgain, TypeOKProcess, HandlersApply
<1>3. CASE Watchdog BY <1>3 DEF Watchdog, Restarted, TypeOKProcess, HandlersApply
<1>4. CASE KeeperDies
  <2>1. TypeOKProcess' /\ HandlersApply'
    BY <1>4, ProcessStep DEF KeeperDies, TypeOKProcess, HandlersApply
  <2> QED BY <1>4, <2>1 DEF KeeperDies
<1>5. CASE HostDies \/ ServerDies \/ GpuTaken \/ GpuFreed
  <2>1. UNCHANGED daemonVars /\ UNCHANGED keeper
    BY <1>5 DEF HostDies, ServerDies, GpuTaken, GpuFreed
  <2>2. TypeOKProcess' /\ HandlersApply' BY <2>1 DEF TypeOKProcess, HandlersApply
  <2>3. CASE HostDies BY <2>1, <2>2, <2>3 DEF HostDies
  <2>4. CASE ServerDies BY <2>1, <2>2, <2>4 DEF ServerDies
  <2>5. CASE GpuTaken \/ GpuFreed
    <3>1. gpu' \in BOOLEAN BY <2>5, Zenon DEF GpuTaken, GpuFreed
    <3>2. faults' \in 0..MaxFaults /\ UNCHANGED <<host, server>>
      BY <2>5 DEF GpuTaken, GpuFreed
    <3> QED BY <2>1, <2>2, <3>1, <3>2
  <2> QED BY <1>5, <2>3, <2>4, <2>5
<1>6. CASE DaemonSteps \/ DaemonFails \/ DaemonInterrupted \/ LeaseLapses \/ DaemonKilled
  <2>1. TypeOKProcess' /\ HandlersApply'
    BY <1>6, ProcessStep DEF DaemonSteps, DaemonFails, DaemonInterrupted, LeaseLapses, DaemonKilled
  <2> QED
    BY <1>6, <2>1 DEF DaemonSteps, DaemonFails, DaemonInterrupted, LeaseLapses, DaemonKilled
<1>7. CASE UNCHANGED allVars BY <1>7 DEF TypeOKProcess, HandlersApply
<1> QED BY <1>1, <1>2, <1>3, <1>4, <1>5, <1>6, <1>7 DEF Next

THEOREM InvHolds == Spec => []IInv
<1>1. InitAll => IInv BY DEF InitAll, Init, IInv, TypeOK, TypeOKProcess, HandlersApply
<1> QED BY <1>1, InvStep, PTL DEF Spec

(* Processes and scripts are where code can have them; an exception is in   *)
(* flight in the handlers of the cycle and nowhere else.                    *)
THEOREM TypeCorrect == Spec => []TypeOK
BY InvHolds, PTL DEF IInv

(* No ordinary exception ends the daemon.                                   *)
THEOREM ErrorsAreSurvived == Spec => OnlyInterruptsStop
<1>1. ASSUME IInv, [Next]_allVars, pc # "off", pc' = "off"
      PROVE  exc' = "interrupt" \/ pc = "report" \/ faults' # faults
  <2> USE <1>1 DEF IInv, TypeOK, TypeOKProcess
  <2>1. CASE DaemonSteps
    <3>1. Top BY <2>1 DEF DaemonSteps, Done, Started, Ticked, Claimed, TakenIn, Loaded, Dropped,
            Decided, Said, Execute, ReadDone, Handled, Committed, Concluded, Acked, Marked,
            Judged, Verdict, Swallowed, Blamed, Requeued, Reported, Slept
    <3> QED BY <3>1 DEF Top, Caught
  <2>2. CASE DaemonFails BY <2>2 DEF DaemonFails, Fails, Raises, Lands
  <2>3. CASE DaemonInterrupted \/ DaemonKilled \/ KeeperDies
    BY <2>3 DEF DaemonInterrupted, DaemonKilled, KeeperDies
  <2>4. CASE ~(DaemonSteps \/ DaemonFails \/ DaemonInterrupted \/ DaemonKilled \/ KeeperDies)
    BY <2>4 DEF Next, Keep, Ready, Launch, NotReady, DaemonExited, ProbeAgain, Serve, Check, Load,
       ServerExited, CheckAgain, Watchdog, HostDies, ServerDies, GpuTaken, GpuFreed,
       LeaseLapses, Lapse
  <2> QED BY <2>1, <2>2, <2>3, <2>4
<1> QED BY <1>1, InvHolds, PTL DEF Spec, OnlyInterruptsStop

(* An interrupt is lost in two places only.                                 *)
THEOREM InterruptsAreKept == Spec => InterruptIsKept
<1>1. ASSUME IInv, [Next]_allVars, exc = "interrupt", exc' # "interrupt"
      PROVE  exc' = "error" \/ (pc = "block" /\ effect \in Open) \/ pc = "off"
  <2> USE <1>1 DEF IInv, TypeOK, TypeOKProcess, HandlersApply
  <2>1. CASE DaemonSteps
    <3>1. Swallowed \/ Top
      BY <2>1 DEF DaemonSteps, Done, Started, Ticked, Claimed, TakenIn, Loaded, Dropped,
         Decided, Said, Execute, ReadDone, Handled, Committed, Concluded, Acked, Marked,
         Judged, Blamed, Requeued, Reported, Slept
    <3> QED BY <3>1 DEF Swallowed, Top, Caught
  <2>2. CASE DaemonFails BY <2>2 DEF DaemonFails, Fails, Raises
  <2>3. CASE DaemonInterrupted BY <2>3 DEF DaemonInterrupted, Interrupt, Raises
  <2>4. CASE ~(DaemonSteps \/ DaemonFails \/ DaemonInterrupted)
    BY <2>4 DEF Next, Keep, Ready, NotReady, DaemonExited, ProbeAgain, Serve, Check, Load,
       ServerExited, CheckAgain, Watchdog, HostDies, ServerDies, GpuTaken, GpuFreed,
       LeaseLapses, Lapse, DaemonKilled, Kill, KeeperDies, Launch
  <2> QED BY <2>1, <2>2, <2>3, <2>4
<1> QED BY <1>1, InvHolds, PTL DEF Spec, InterruptIsKept
=============================================================================
