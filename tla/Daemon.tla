------------------------------- MODULE Daemon -------------------------------
(***************************************************************************)
(* One daemon process (src/pre_active/daemon.py, engine.py, tools.py) as    *)
(* its exceptions see it: the statements of a cycle, the handlers around    *)
(* them, and what each does with an error or with an interrupt              *)
(* (KeyboardInterrupt, SystemExit), which may arrive at any statement.      *)
(* Data is left to the other modules; a statement is a call of the store,   *)
(* of the model or of a tool.                                               *)
(***************************************************************************)
EXTENDS Integers

VARIABLES
  pc,      \* the statement the process is at, or "off"
  exc,     \* the exception in flight, or "none"
  effect,  \* the state of the effect row of the step's request, or "none"
  event    \* the event of this cycle: "none", "held", "lapsed" (another
           \* worker may have it), "acked" or "requeued"

vars == <<pc, exc, effect, event>>

Outside == {"tick", "claim", "intake", "load", "drop"}  \* not in the try block
Guarded == {"decide", "say", "conclude", "ack"}         \* in it
Executing == {"execute", "read", "commit"}              \* in the inner one
Inner == {"judge", "block", "failrun"}                  \* the inner handler
Outer == {"blame", "requeue"}                           \* the outer handler
Loop == {"start", "top", "report", "sleep"}             \* run_forever

Statements == Outside \cup Guarded \cup Executing \cup {"handler", "mark"}
              \cup Inner \cup Outer \cup (Loop \ {"top"})
Exceptions == {"tool", "error", "interrupt"}  \* ToolError, any other, BaseException
Open == {"EXECUTING", "ATTEMPTED_UNKNOWN"}
EffectStates == Open \cup {"none", "COMMITTED", "RECONCILED_NO_EFFECT"}

Init ==
  /\ pc = "off" /\ exc = "none" /\ effect = "none" /\ event = "none"

Go(to) == pc' = to /\ UNCHANGED exc

(* Straight from one statement to the next; event and effect stay. *)
Flow(from, to) == pc = from /\ Go(to) /\ UNCHANGED <<effect, event>>

-----------------------------------------------------------------------------
(* main() opens the store; the loop begins. *)
Started == Flow("start", "tick")

Ticked == Flow("tick", "claim")

(* claim_event: nothing due, or an event of one kind or another. *)
Claimed ==
  /\ pc = "claim"
  /\ \/ Go("sleep") /\ event' = "none"
     \/ \E to \in {"intake", "load", "drop"} : Go(to) /\ event' = "held"
  /\ UNCHANGED effect

(* task.requested and events that have nothing to do: their work, then the  *)
(* acknowledgement in "drop".                                               *)
TakenIn == Flow("intake", "drop")

(* A run.step whose run is not there, not running, at another generation or *)
(* out of budget is dropped; the step's effect row may have any state.      *)
Loaded ==
  \/ Flow("load", "drop")
  \/ /\ pc = "load" /\ Go("decide")
     /\ effect' \in EffectStates
     /\ UNCHANGED event

(* ack_event raises when the lease is gone: the event is not done then. *)
Acks == event = "held" /\ event' = "acked"

Dropped == pc = "drop" /\ Acks /\ Go("sleep") /\ UNCHANGED effect
Decided == Flow("decide", "say") \/ Flow("decide", "conclude")
Said == Flow("say", "execute")

(* execute: replay, read-only tool, or dispatch of a mutation. *)
Execute ==
  \/ effect = "COMMITTED" /\ Flow("execute", "conclude")
  \/ effect = "none" /\ Flow("execute", "read")
  \/ /\ pc = "execute" /\ effect \in {"none", "RECONCILED_NO_EFFECT"}
     /\ Go("handler") /\ effect' = "EXECUTING"
     /\ UNCHANGED event

ReadDone == Flow("read", "conclude")
Handled == Flow("handler", "commit")
Committed == pc = "commit" /\ Go("conclude") /\ effect' = "COMMITTED" /\ UNCHANGED event
Concluded == Flow("conclude", "ack")
Acked == pc = "ack" /\ Acks /\ Go("sleep") /\ UNCHANGED effect

(* except BaseException around the handler *)
Marked ==
  /\ pc = "mark" /\ Go("judge")
  /\ effect' = "ATTEMPTED_UNKNOWN"
  /\ UNCHANGED event

-----------------------------------------------------------------------------
(* The inner handler asks for the effect's state before the exception's     *)
(* kind.                                                                    *)
Verdict == IF effect \in Open THEN "block" ELSE IF exc = "tool" THEN "failrun" ELSE "blame"

Judged == Flow("judge", Verdict)

(* block_run_on_effect or update_run, the acknowledgement, and a return:    *)
(* the exception, whatever it was, is gone.                                 *)
Swallowed ==
  /\ pc \in {"block", "failrun"}
  /\ Acks /\ pc' = "sleep" /\ exc' = "none"
  /\ UNCHANGED effect

Blamed == Flow("blame", "requeue")

(* fail_event and the raise at the end *)
Requeued ==
  /\ pc = "requeue"
  /\ event = "held" /\ event' = "requeued"
  /\ Go("top") /\ UNCHANGED effect

(* run_forever: except Exception; anything else ends the process. *)
BugCaughtAll(e) == TRUE
BugCaughtTool(e) == e = "tool"
Caught(e) == e # "interrupt"

Top ==
  /\ pc = "top"
  /\ IF Caught(exc) THEN pc' = "report" /\ exc' = "none" ELSE pc' = "off" /\ UNCHANGED exc
  /\ UNCHANGED <<effect, event>>

Reported == Flow("report", "sleep")

(* time.sleep, and the next cycle *)
Slept == pc = "sleep" /\ Go("tick") /\ effect' = "none" /\ event' = "none"

-----------------------------------------------------------------------------
(* Where an exception at a statement goes. *)
BugLands(p) ==
  CASE p \in Outside \cup Outer -> "top"
    [] p \in Guarded \cup Inner -> "blame"
    [] p \in Executing \cup {"mark"} -> "judge"
    [] p = "handler" -> "commit"
    [] p \in {"start", "report", "sleep"} -> "off"

Lands(p) ==
  CASE p \in Outside \cup Outer -> "top"
    [] p \in Guarded \cup Inner -> "blame"
    [] p \in Executing \cup {"mark"} -> "judge"
    [] p = "handler" -> "mark"
    [] p \in {"start", "report", "sleep"} -> "off"

(* A ToolError comes from the registry or a handler only, and always from   *)
(* an execution that meets an open effect; sleep raises nothing.            *)
Raises(e) ==
  /\ pc \in Statements
  /\ e = "tool" => pc \in {"execute", "read", "handler"}
  /\ e = "error" => pc # "sleep"
  /\ pc' = Lands(pc) /\ exc' = e
  /\ UNCHANGED <<effect, event>>

Fails == Raises("tool") \/ Raises("error")
Interrupt == Raises("interrupt")

(* The lease lapses and another worker takes the event. *)
Lapse == event = "held" /\ event' = "lapsed" /\ UNCHANGED <<pc, exc, effect>>

(* The process begins; it ends by force. *)
Launch ==
  /\ pc = "off"
  /\ pc' = "start" /\ exc' = "none" /\ effect' = "none" /\ event' = "none"
Kill == pc # "off" /\ pc' = "off" /\ UNCHANGED <<exc, effect, event>>

Done ==
  \/ Started \/ Ticked \/ Claimed \/ TakenIn \/ Loaded \/ Dropped \/ Decided \/ Said
  \/ Execute \/ ReadDone \/ Handled \/ Committed \/ Concluded \/ Acked \/ Marked
  \/ Judged \/ Swallowed \/ Blamed \/ Requeued \/ Top \/ Reported \/ Slept

-----------------------------------------------------------------------------
(* With it: an exception is in flight in the handlers and nowhere else.     *)
TypeOKProcess ==
  /\ pc \in Statements \cup {"top", "off"}
  /\ exc \in Exceptions \cup {"none"}
  /\ effect \in EffectStates
  /\ event \in {"none", "held", "lapsed", "acked", "requeued"}
  /\ pc # "off" => (exc # "none" <=> pc \in Inner \cup Outer \cup {"mark", "top"})

(* "process-control exceptions still stop it" (README.md:32), as far as it  *)
(* is so: an interrupt in flight reaches the loop's end, unless an error in *)
(* the clean-up replaces it or the step has an open effect to block on.     *)
InterruptIsKept ==
  [][exc = "interrupt" /\ exc' # "interrupt" =>
       \/ exc' = "error"
       \/ pc = "block" /\ effect \in Open
       \/ pc = "off"]_vars
=============================================================================
