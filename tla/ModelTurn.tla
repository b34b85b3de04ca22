------------------------------ MODULE ModelTurn ------------------------------
(***************************************************************************)
(* One turn of the model, from the run's context to the admission of the    *)
(* tool call it ends in: the context assembler, the adapter                 *)
(* (src/pre_active/providers/openai_compatible.py), the local endpoint or   *)
(* any other provider, the durable decision (src/pre_active/engine.py) and  *)
(* the checks of the registry (src/pre_active/tools.py).                    *)
(***************************************************************************)
EXTENDS ContextBudget, QwenProtocol, SchemaMeaning

CONSTANTS
  Prompts, Tasks,   \* lengths of system prompts and of tasks with transcript
  Memories,         \* sets of memories
  Schemas,          \* input schemas a host tries to register
  Generated,        \* what the local model may generate
  Payloads          \* what other providers may answer

(* Lengths are natural numbers; a generation is a sequence of pieces, and   *)
(* the type of a property one of names.                                     *)
ASSUME TurnAssumption ==
  /\ MaxChars \in Nat
  /\ Prompts \subseteq Nat /\ Tasks \subseteq Nat
  /\ \A generated \in Generated : generated \in Seq(ToSet(generated))
  /\ \A s \in Schemas : \A name \in DOMAIN Properties(s) :
       LET types == Declared(Properties(s)[name]) IN types \in Seq(ToSet(types))

(* A heading is not empty, and the order of memories is strict.             *)
ASSUME MemoryAssumption ==
  /\ Heading \in Nat \ {0} /\ MemoryLimit \in Nat
  /\ \A memories \in Memories :
       /\ IsFiniteSet(memories)
       /\ \A m \in memories : m.len \in Nat /\ {m.id, m.salience, m.matches} \subseteq Int
       /\ \A m, o \in memories : m.id = o.id => m = o

VARIABLES
  stage,     \* the step of the turn that comes next
  input,     \* what the context was built from, while it is looked at
  context,   \* the context, likewise
  tool,      \* the schema of the one registered tool, "t"
  granted,   \* whether the run has its capability
  raw,       \* what the local model generated
  reply,     \* the HTTP reply
  decision,  \* the decision of the step: none, final text, a call or an error
  outcome    \* "none", "denied", "invalid" or "admitted"

vars == <<stage, input, context, tool, granted, raw, reply, decision, outcome>>

NoInput == [system |-> 0, task |-> 0, memories |-> {}]
NoContext == [system |-> 0, task |-> 0, memory |-> <<>>]
NoReply == [status |-> 0]
NoDecision == [kind |-> "none"]
Error == [kind |-> "error"]

Init ==
  /\ stage = "context"
  /\ input = NoInput /\ context = NoContext
  /\ tool = <<>> /\ granted = FALSE
  /\ raw = <<>> /\ reply = NoReply /\ decision = NoDecision /\ outcome = "none"

-----------------------------------------------------------------------------
(* _messages_for_run: the task carries the transcript. *)
Assemble ==
  /\ stage = "context" /\ stage' = "offer"
  /\ \E system \in Prompts, task \in Tasks, memories \in Memories :
       /\ input' = [system |-> system, task |-> task, memories |-> memories]
       /\ context' = Build(system, task, memories)
  /\ UNCHANGED <<tool, granted, raw, reply, decision, outcome>>

(* The request is made.  The tool was registered long before, but nothing   *)
(* looked at it until here: register() raises on a schema it does not       *)
(* support wholly.                                                          *)
Offer ==
  /\ stage = "offer" /\ stage' = "ask"
  /\ tool' \in {s \in Schemas : Supported(s)}
  /\ granted' \in BOOLEAN
  /\ input' = NoInput /\ context' = NoContext
  /\ UNCHANGED <<raw, reply, decision, outcome>>

(* tools.specs(): only tools of granted capabilities are offered. *)
Offered == IF granted THEN [name \in {"t"} |-> tool] ELSE <<>>

(* The endpoint answers; build_payload is always well-formed. *)
AskLocal ==
  /\ stage = "ask" /\ stage' = "interpret"
  /\ \E generated \in Generated :
       /\ raw' = generated
       /\ reply' = Reply("/v1/chat/completions", TRUE, generated, Offered)
  /\ UNCHANGED <<input, context, tool, granted, decision, outcome>>

(* Another provider answers, or the call fails. *)
AskOther ==
  /\ stage = "ask" /\ stage' = "interpret"
  /\ reply' \in Payloads \cup {[status |-> 500]}
  /\ UNCHANGED <<input, context, tool, granted, raw, decision, outcome>>

(* json.loads of a call's arguments; none at all is an empty object. *)
DecodedArguments(arguments) == IF arguments.is = "empty" THEN <<>> ELSE arguments.fields

(* parse_response *)
Response(message) ==
  IF message.calls = <<>> THEN IF message.content = "text" THEN [kind |-> "final"] ELSE Error
  ELSE IF Len(message.calls) # 1 \/ Head(message.calls).arguments.is \notin {"object", "empty"}
       THEN Error
  ELSE [kind |-> "call", id |-> Head(message.calls).id, name |-> Head(message.calls).name,
        fields |-> DecodedArguments(Head(message.calls).arguments)]

(* respond(): a status of error raises, as does a reply without a choice.   *)
(* The decision is stored, and a retry of the step gets it from there: JSON *)
(* brings it back as it was.                                                *)
Interpret ==
  /\ stage = "interpret" /\ stage' = "execute"
  /\ decision' = IF reply.status # 200 \/ reply.choices = <<>> THEN Error
                 ELSE Response(Head(reply.choices))
  /\ UNCHANGED <<input, context, tool, granted, raw, reply, outcome>>

(* execute(), up to the ledger: a tool that is known, granted and given     *)
(* arguments that its schema accepts.                                       *)
Execute ==
  /\ stage = "execute" /\ decision.kind = "call" /\ stage' = "end"
  /\ outcome' = IF decision.name # "t" \/ ~granted THEN "denied"
                ELSE IF Accepts(tool, [type |-> "object", fields |-> decision.fields])
                THEN "admitted" ELSE "invalid"
  /\ UNCHANGED <<input, context, tool, granted, raw, reply, decision>>

Next == Assemble \/ Offer \/ AskLocal \/ AskOther \/ Interpret \/ Execute

Spec == Init /\ [][Next]_vars

-----------------------------------------------------------------------------
(* The arguments that the registry may be given for a tool.                 *)
Given(s) ==
  LET replies == {r \in Payloads : r.status = 200 /\ r.choices # <<>>}
      asked == {Head(r.choices).calls : r \in replies} \ {<<>>}
      taken == {c \in {Head(a) : a \in asked} : c.arguments.is \in {"object", "empty"}}
      matched == {generated \in Generated : Spans(generated) # {}}
      local == {Arguments(Body(generated), s) : generated \in matched} \ {Refused}
  IN [type : {"object"}, fields : {DecodedArguments(c.arguments) : c \in taken}
                                   \cup {arguments.fields : arguments \in local}]

(* The recursion of the registry, and of what its schemas mean: on all that *)
(* is judged, the calls inside return what the operators say.  Schemas are  *)
(* finite trees, arrays and alternatives sequences.                         *)
Recursive(s, v) ==
  /\ Registers(s) <=> Supported(s)
  /\ Admits(s, v) <=> Accepts(s, v)
  /\ Means(s, v) <=> Holds(s, v)
  /\ Nests(s) \in Nat /\ \A child \in Children(s) : Nests(child) < Nests(s)
  /\ Has(s, "oneOf") => s.oneOf \in Seq(ToSet(s.oneOf))
  /\ v.type = "array" => v.items \in Seq(ToSet(v.items))

ASSUME RegistryAssumption ==
  \A s \in Schemas : Supported(s) =>
    \A v \in Given(s) : \A p \in Judged(s, v) :
      Recursive(p[1], p[2]) /\ Inside(p[1], p[2]) \subseteq Judged(s, v)

-----------------------------------------------------------------------------
(* The budget holds, memory included: at most MaxChars characters, except   *)
(* that a system prompt which leaves no room is sent whole, alone.          *)
BudgetKept ==
  stage = "offer" =>
    IF context.system + 1 <= MaxChars THEN Total(context) <= MaxChars
    ELSE context.task = 0 /\ context.memory = <<>>

(* The task comes first: it is cut only if it does not fit without any      *)
(* memory, and then to the exact budget; to nothing only where the system   *)
(* prompt alone exceeds it.                                                 *)
TaskBeforeMemory ==
  stage = "offer" /\ context.task < input.task =>
    /\ context.memory = <<>>
    /\ \/ Total(context) = MaxChars
       \/ context.system + 1 > MaxChars /\ context.task = 0

(* Memory is taken by rank: a hit is left out only when it would not fit    *)
(* after the better ones, which come first in what was taken.               *)
BestMemoryFirst ==
  stage = "offer" /\ context.task = input.task =>
    \A m \in ToSet(SearchMemories(input.memories)) \ ToSet(context.memory) :
      \E n \in 0..Len(context.memory) :
        /\ \A i \in DOMAIN context.memory : i <= n <=> Ranked(context.memory[i], m)
        /\ Total([context EXCEPT !.memory = Append(SubSeq(@, 1, n), m)]) > MaxChars

(* What a generation g says, read without the parser.  A decision d answers *)
(* the call from i to j when that opens first, ends only there, has nothing *)
(* but text after it, and d names its tool and only parameters of its own.  *)
Parameters(g, i, j) == {k \in i + 2..j - 1 : g[k].kind = "parameter"}

Answers(g, d, i, j) ==
  /\ i + 2 <= j
  /\ \A k \in Openings(g) : i <= k
  /\ \A k \in Endings(g) : i < k => k = j
  /\ \A k \in Markup(g) : k <= j + 1
  /\ d.name = g[i + 1].name
  /\ DOMAIN d.fields \subseteq {g[k].name : k \in Parameters(g, i, j)}

(* The call is the only one, and none of its parameters is lost. *)
Whole(g, d, i, j) ==
  /\ Openings(g) = {i}
  /\ {g[k].name : k \in Parameters(g, i, j)} \subseteq DOMAIN d.fields

(* A parameter of the call is cut off by another start tag. *)
Unclosed(g, i, j) ==
  \E k \in Parameters(g, i, j), l \in i + 2..j - 1 :
    /\ k < l /\ g[l].kind \in {"tool_call", "function", "parameter"}
    /\ \A n \in k..l : ~IsEnd(g[n], "parameter")

(* Tool markup never ends a run as its final text; a call is never made up, *)
(* nor is anything lost beside it, unless a tag cut off a parameter of it.  *)
NoMarkupAsText ==
  stage = "execute" /\ raw # <<>> =>
    /\ decision.kind = "final" => Markup(raw) = {}
    /\ decision.kind = "call" =>
         \E i \in Openings(raw), j \in Endings(raw) :
           Answers(raw, decision, i, j) /\ (Whole(raw, decision, i, j) \/ Unclosed(raw, i, j))

(* Endpoint and registry agree: a call the endpoint lets through is refused *)
(* by the registry only over a keyword the endpoint does not look at.       *)
TypesOnly(s) ==
  /\ DOMAIN s \subseteq {"type", "properties", "required", "additionalProperties"}
  /\ Has(s, "type") => s.type = <<"object">>
  /\ Has(s, "additionalProperties") => s.additionalProperties.is # "schema"
  /\ \A k \in DOMAIN Properties(s) : DOMAIN Properties(s)[k] \subseteq {"type"}

CallsAreAdmissible ==
  stage = "end" /\ raw # <<>> /\ TypesOnly(tool) => outcome = "admitted"

(* The registry admits exactly what the tool's schema means, except where   *)
(* it compares otherwise than JSON does: true with 1, and 1 with 1.0.       *)
AdmittedIsValid ==
  LET arguments == [type |-> "object", fields |-> decision.fields] IN
  /\ outcome \in {"admitted", "invalid"}
  /\ \A p \in Judged(tool, arguments) : ~Confusing(p[1], p[2])
  => (outcome = "admitted" <=> Holds(tool, arguments))
=============================================================================
