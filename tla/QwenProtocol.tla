---------------------------- MODULE QwenProtocol ----------------------------
(***************************************************************************)
(* The local model endpoint (ops/windows/qwen_http.py) and the protocol of  *)
(* its answers (ops/windows/tool_protocol.py).                              *)
(*                                                                          *)
(* What the model generates is a sequence of pieces with whitespace around  *)
(* them: "text" without markup; the start tags "tool_call", "function" and  *)
(* "parameter", the latter two with a name; the "end" tag of one of them;   *)
(* or "torn", a marker that is no whole tag and ends its line.  A literal   *)
(* stands for a text: the type it reads as is all the protocol looks at.    *)
(***************************************************************************)
EXTENDS Integers, Sequences, FiniteSets

Refused == [kind |-> "refused"]  \* ToolProtocolError

(* The JSON types a literal can be read as; every literal is a string. *)
Readings(literal) ==
  CASE literal = "1" -> {"integer", "number"}
    [] literal = "2.5" -> {"number"}
    [] literal = "true" -> {"boolean"}
    [] literal = "null" -> {"null"}
    [] literal = "{}" -> {"object"}
    [] literal = "[]" -> {"array"}
    [] OTHER -> {}

Value(literal, type) ==
  CASE type \in {"integer", "number"} -> [type |-> type, n |-> IF literal = "1" THEN 2 ELSE 5]
    [] type = "boolean" -> [type |-> type, n |-> 2]
    [] type = "null" -> [type |-> type]
    [] type = "object" -> [type |-> type, fields |-> <<>>]
    [] type = "array" -> [type |-> type, items |-> <<>>]
    [] type = "string" -> [type |-> type, text |-> literal, len |-> IF literal = "" THEN 0 ELSE 1]

(* _coerce_parameter: the first declared type that reads the literal; none  *)
(* declared means string.                                                   *)
Declared(schema) == IF "type" \in DOMAIN schema THEN schema.type ELSE <<"string">>

Coercible(literal, schema) ==
  \E i \in DOMAIN Declared(schema) : Declared(schema)[i] \in Readings(literal) \cup {"string"}

Coerced(literal, schema) ==
  LET reads == {i \in DOMAIN Declared(schema) :
                  Declared(schema)[i] \in Readings(literal) \cup {"string"}}
  IN Value(literal, Declared(schema)[CHOOSE i \in reads : \A j \in reads : i <= j])

-----------------------------------------------------------------------------
IsEnd(piece, of) == piece.kind = "end" /\ piece.of = of
Markup(raw) == {i \in DOMAIN raw : raw[i].kind # "text"}

(* A call opens with two start tags and ends with two end tags.  The        *)
(* regular expression takes the first opening that an ending follows, up to *)
(* the first such ending; what is between them it does not look at.         *)
Openings(raw) ==
  {i \in DOMAIN raw :
     raw[i].kind = "tool_call" /\ i + 1 \in DOMAIN raw /\ raw[i + 1].kind = "function"}
Endings(raw) ==
  {i \in DOMAIN raw :
     IsEnd(raw[i], "function") /\ i + 1 \in DOMAIN raw /\ IsEnd(raw[i + 1], "tool_call")}
Spans(raw) == {c \in Openings(raw) \X Endings(raw) : c[1] + 2 <= c[2]}
Match(raw) == CHOOSE c \in Spans(raw) : \A d \in Spans(raw) : c[1] <= d[1] /\ c[2] <= d[2]

Name(raw) == raw[Match(raw)[1] + 1].name
Body(raw) == SubSeq(raw, Match(raw)[1] + 2, Match(raw)[2] - 1)

(* The next match would begin behind this one. *)
OneMatch(raw) == \A c \in Spans(raw) : c[1] < Match(raw)[2]

BugSuffixIsClean(raw) == TRUE
SuffixIsClean(raw) == \A i \in Markup(raw) : i <= Match(raw)[2] + 1

(* The parameters of a body.  A match begins at a start tag and goes up to  *)
(* the next end tag, over any other tags; nothing may be left between them. *)
Starts(body) == {k \in DOMAIN body : k = 1 \/ IsEnd(body[k - 1], "parameter")}

NoResidue(body) ==
  /\ \A k \in Starts(body) : body[k].kind = "parameter"
  /\ body # <<>> => IsEnd(body[Len(body)], "parameter")

(* The literal of the parameter at k.  One of several pieces is mixed: only *)
(* a string reads it.                                                       *)
Literal(body, k) ==
  IF IsEnd(body[k + 1], "parameter") THEN ""
  ELSE IF body[k + 1].kind = "text" /\ IsEnd(body[k + 2], "parameter") THEN body[k + 1].text
  ELSE "mixed"

Properties(schema) == IF "properties" \in DOMAIN schema THEN schema.properties ELSE <<>>
Closed(schema) ==
  "additionalProperties" \in DOMAIN schema /\ schema.additionalProperties.is = "false"
Required(schema) == IF "required" \in DOMAIN schema THEN schema.required ELSE {}

BugSchemaOf(schema, name) == [type |-> <<"string">>]
SchemaOf(schema, name) ==
  IF name \in DOMAIN Properties(schema) THEN Properties(schema)[name] ELSE [type |-> <<"string">>]

(* The arguments in a body, checked one after the other. *)
Arguments(body, schema) ==
  LET names == {body[k].name : k \in Starts(body)}
      begin(name) == CHOOSE k \in Starts(body) : body[k].name = name
  IN
  IF \/ ~NoResidue(body)
     \/ Cardinality(names) # Cardinality(Starts(body))
     \/ Closed(schema) /\ ~(names \subseteq DOMAIN Properties(schema))
     \/ \E k \in Starts(body) : ~Coercible(Literal(body, k), SchemaOf(schema, body[k].name))
     \/ ~(Required(schema) \subseteq names)
  THEN Refused
  ELSE [kind |-> "arguments",
        fields |-> [name \in names |->
                      Coerced(Literal(body, begin(name)), SchemaOf(schema, name))]]

(* parse_qwen_response, for tools: name -> schema of its parameters. *)
Parse(raw, tools) ==
  IF Spans(raw) = {}
  THEN IF Markup(raw) # {} \/ raw = <<>> THEN Refused ELSE [kind |-> "text"]
  ELSE IF ~OneMatch(raw) \/ ~SuffixIsClean(raw) \/ Name(raw) \notin DOMAIN tools
          \/ Arguments(Body(raw), tools[Name(raw)]) = Refused
  THEN Refused
  ELSE [kind |-> "call", id |-> "minted", name |-> Name(raw),
        fields |-> Arguments(Body(raw), tools[Name(raw)]).fields]

(* to_openai_message *)
Message(parsed) ==
  IF parsed.kind = "text"
  THEN [content |-> "text", calls |-> <<>>]
  ELSE [content |-> "null",
        calls |-> <<[id |-> parsed.id, name |-> parsed.name,
                     arguments |-> [is |-> "object", fields |-> parsed.fields]]>>]

(* do_POST: the reply to a request at a path, with its generated answer. *)
Reply(path, wellFormed, raw, tools) ==
  IF path # "/v1/chat/completions" THEN [status |-> 404]
  ELSE IF ~wellFormed THEN [status |-> 500]
  ELSE LET parsed == Parse(raw, tools) IN
       IF parsed = Refused THEN [status |-> 422]
       ELSE [status |-> 200, choices |-> <<Message(parsed)>>]
=============================================================================
