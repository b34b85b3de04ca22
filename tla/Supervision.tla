----------------------------- MODULE Supervision -----------------------------
(***************************************************************************)
(* The Windows supervision (ops/windows) around the daemon and the local    *)
(* model endpoint: two supervisor tasks in endless loops, and the watchdog  *)
(* that starts a task which is not running.  Kills, interrupts, crashes and *)
(* a busy GPU are faults, of which there are finitely many; errors of the   *)
(* daemon's statements are not counted.                                     *)
(*                                                                          *)
(* A process whose supervisor dies goes with it, except a server that       *)
(* listens: that one may stay and hold the port.                            *)
(***************************************************************************)
EXTENDS Daemon

CONSTANT MaxFaults  \* bound

ASSUME SupervisionAssumption == MaxFaults \in Nat

VARIABLES
  keeper,   \* start-pre-active.ps1: "dead", "probe", "wait", "run" or "pause"
  host,     \* start-qwen.ps1: "dead", "check", "wait", "run" or "pause"
  server,   \* qwen_http.py: "off", "loading" or "up"
  gpu,      \* there is enough free memory for the model
  faults

daemonVars == vars
endpointVars == <<host, server, gpu>>
allVars == <<daemonVars, keeper, endpointVars, faults>>

(* register-tasks.ps1 starts both tasks. *)
InitAll ==
  /\ Init
  /\ keeper = "probe" /\ host = "check" /\ server = "off" /\ gpu = TRUE
  /\ faults = 0

Spend == faults < MaxFaults /\ faults' = faults + 1

-----------------------------------------------------------------------------
(* GET /v1/models names the model: the daemon is started, and waited for.   *)
Ready ==
  /\ keeper = "probe" /\ server = "up"
  /\ keeper' = "run" /\ Launch
  /\ UNCHANGED <<endpointVars, faults>>

(* Three minutes of probes without an answer.  A server that is up and does *)
(* not answer is a fault.                                                   *)
NotReady ==
  /\ keeper = "probe"
  /\ IF server = "up" THEN Spend ELSE UNCHANGED faults
  /\ keeper' = "wait"
  /\ UNCHANGED <<daemonVars, endpointVars>>

DaemonExited ==
  /\ keeper = "run" /\ pc = "off"
  /\ keeper' = "pause"
  /\ UNCHANGED <<daemonVars, endpointVars, faults>>

ProbeAgain ==
  /\ keeper \in {"wait", "pause"}
  /\ keeper' = "probe"
  /\ UNCHANGED <<daemonVars, endpointVars, faults>>

Keep == Ready \/ NotReady \/ DaemonExited \/ ProbeAgain

-----------------------------------------------------------------------------
(* The port is taken, or the GPU is; or the server is started. *)
Check ==
  /\ host = "check"
  /\ IF server = "up" \/ ~gpu
     THEN host' = "wait" /\ UNCHANGED server
     ELSE host' = "run" /\ server' = "loading"
  /\ UNCHANGED <<daemonVars, keeper, gpu, faults>>

(* The model is loaded, then the server listens. *)
Load ==
  /\ server = "loading" /\ server' = "up"
  /\ UNCHANGED <<daemonVars, keeper, host, gpu, faults>>

ServerExited ==
  /\ host = "run" /\ server = "off"
  /\ host' = "pause"
  /\ UNCHANGED <<daemonVars, keeper, server, gpu, faults>>

CheckAgain ==
  /\ host \in {"wait", "pause"}
  /\ host' = "check"
  /\ UNCHANGED <<daemonVars, keeper, server, gpu, faults>>

Serve == Check \/ Load \/ ServerExited \/ CheckAgain

-----------------------------------------------------------------------------
(* The watchdog, every minute, starts a task whose state is not Running.    *)
BugRestarted(task, first) == task
Restarted(task, first) == IF task = "dead" THEN first ELSE task

Watchdog ==
  /\ keeper = "dead" \/ host = "dead"
  /\ keeper' = Restarted(keeper, "probe")
  /\ host' = Restarted(host, "check")
  /\ UNCHANGED <<daemonVars, server, gpu, faults>>

KeeperDies ==
  /\ keeper # "dead" /\ keeper' = "dead"
  /\ IF pc = "off" THEN UNCHANGED daemonVars ELSE Kill
  /\ Spend /\ UNCHANGED endpointVars

HostDies ==
  /\ host # "dead" /\ host' = "dead"
  /\ server' \in {"off", IF server = "up" THEN "up" ELSE "off"}
  /\ Spend /\ UNCHANGED <<daemonVars, keeper, gpu>>

(* Running out of GPU memory, for one; load failures too. *)
ServerDies ==
  /\ server # "off" /\ server' = "off"
  /\ Spend /\ UNCHANGED <<daemonVars, keeper, host, gpu>>

(* Another program takes the GPU, for a while. *)
GpuTaken == gpu /\ gpu' = FALSE /\ Spend /\ UNCHANGED <<daemonVars, keeper, host, server>>
GpuFreed == ~gpu /\ gpu' = TRUE /\ UNCHANGED <<daemonVars, keeper, host, server, faults>>

(* What the daemon itself meets; a start that fails is a fault.             *)
DaemonSteps == Done /\ UNCHANGED <<keeper, endpointVars, faults>>
DaemonFails ==
  /\ Fails
  /\ IF pc = "start" THEN Spend ELSE UNCHANGED faults
  /\ UNCHANGED <<keeper, endpointVars>>
DaemonInterrupted == Interrupt /\ Spend /\ UNCHANGED <<keeper, endpointVars>>
LeaseLapses == Lapse /\ UNCHANGED <<keeper, endpointVars, faults>>
DaemonKilled == Kill /\ Spend /\ UNCHANGED <<keeper, endpointVars>>

Next ==
  \/ Keep \/ Serve \/ Watchdog \/ KeeperDies \/ HostDies \/ ServerDies
  \/ GpuTaken \/ GpuFreed
  \/ DaemonSteps \/ DaemonFails \/ DaemonInterrupted \/ LeaseLapses \/ DaemonKilled

Spec == InitAll /\ [][Next]_allVars

(* Every call returns or raises (the model call has a timeout, SQLite one   *)
(* for its lock), scripts and watchdog go on, a loading server ends loading *)
(* and who took the GPU gives it back.                                      *)
Fairness ==
  /\ WF_allVars(DaemonSteps \/ DaemonFails)
  /\ WF_allVars(Keep)
  /\ WF_allVars(Check \/ ServerExited \/ CheckAgain) /\ WF_allVars(Load)
  /\ WF_allVars(Watchdog)
  /\ WF_allVars(GpuFreed)

FairSpec == Spec /\ Fairness

-----------------------------------------------------------------------------
TypeOK ==
  /\ TypeOKProcess
  /\ keeper \in {"dead", "probe", "wait", "run", "pause"}
  /\ host \in {"dead", "check", "wait", "run", "pause"}
  /\ server \in {"off", "loading", "up"} /\ gpu \in BOOLEAN
  /\ faults \in 0..MaxFaults

(* "Daemon polling survives ordinary cycle exceptions" (README.md:32): the  *)
(* process ends by force, by an interrupt in flight, or because the error   *)
(* cannot even be printed.                                                  *)
OnlyInterruptsStop ==
  [][pc # "off" /\ pc' = "off" =>
       exc' = "interrupt" \/ pc = "report" \/ faults' # faults]_allVars

(* Whatever its statements raise, the daemon goes on polling; whatever ends *)
(* it, it is back: its cycle begins again and again.                        *)
KeepsPolling == []<>(pc = "tick")
=============================================================================
