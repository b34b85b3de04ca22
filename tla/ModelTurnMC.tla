----------------------------- MODULE ModelTurnMC -----------------------------
(* Inputs of ModelTurn for TLC. *)
EXTENDS ModelTurn

MCPrompts == 1..13
MCTasks == 1..13

(* Five memories at most, two of them looked at, of one to three characters *)
(* under a heading of two.                                                  *)
Memory(id, len, salience, matches) ==
  [id |-> id, len |-> len, salience |-> salience, matches |-> matches]

MCMemories ==
  {{}} \cup
  {{Memory(1, a, 1, m), Memory(2, b, 2, 0), Memory(3, c, s, 1)} :
     a \in 1..2, b \in {1, 3}, c \in 1..2, s \in 1..2, m \in 0..1}
  \cup {{Memory(i, 1, i, IF i = 1 THEN 1 ELSE 0) : i \in 1..9}}

Typed(types) == [type |-> types]
Number(n) == [type |-> "integer", n |-> n]
True == [type |-> "boolean", n |-> 2]

(* One property "p" of one schema or another. *)
ObjectOf(schema, required, extra) ==
  [type |-> <<"object">>, properties |-> [p |-> schema], required |-> required,
   additionalProperties |-> extra]

Extras == {[is |-> "true"], [is |-> "false"]}

PropertySchemas ==
  {Typed(<<"string">>), Typed(<<"integer">>), Typed(<<"number">>), Typed(<<"boolean">>),
   Typed(<<"null", "integer">>), Typed(<<"number", "string">>), Typed(<<"array">>),
   [enum |-> {Number(2), Number(4)}], [const |-> Number(2)],
   [anyOf |-> <<Typed(<<"null">>), [type |-> <<"integer">>, minimum |-> 3]>>],
   [oneOf |-> <<Typed(<<"integer">>), Typed(<<"number">>)>>],
   [not |-> Typed(<<"string">>)],
   [type |-> <<"array">>, items |-> Typed(<<"integer">>)],
   [type |-> <<"number">>, minimum |-> 4, multipleOf |-> 4], [exclusiveMaximum |-> 5],
   [type |-> <<"string">>, minLength |-> 1, pattern |-> {"word"}],
   [maxItems |-> 1], [type |-> <<"array">>, uniqueItems |-> TRUE],
   [type |-> <<"array">>, items |-> [format |-> "date"]],
   [allOf |-> <<[maximum |-> 7], [exclusiveMinimum |-> 2]>>], [const |-> True],
   [enum |-> {[type |-> "array", items |-> <<Number(2)>>]}], [minItems |-> 1], [maxLength |-> 0],
   [type |-> <<"object">>, minProperties |-> 1, properties |-> [q |-> [const |-> Number(2)]]],
   [maxProperties |-> 0],
   [not |-> [additionalProperties |-> [is |-> "schema", of |-> Typed(<<"integer">>)]]]}

MCSchemas ==
  {ObjectOf(schema, required, extra) :
     schema \in PropertySchemas, required \in {{}, {"p"}}, extra \in Extras}
  \cup {ObjectOf(Typed(<<"string">>), {}, [is |-> "schema", of |-> Typed(<<"integer">>)]),
        [properties |-> <<>>], [type |-> <<"object">>]}

(* Generations of the local model, tag by tag. *)
Text(literal) == [kind |-> "text", text |-> literal]
End(of) == [kind |-> "end", of |-> of]
Torn == [kind |-> "torn"]
Param(name, literal) == <<[kind |-> "parameter", name |-> name], Text(literal), End("parameter")>>
Call(name, body) ==
  <<[kind |-> "tool_call"], [kind |-> "function", name |-> name]>> \o body
  \o <<End("function"), End("tool_call")>>

Literals == {"1", "2.5", "true", "null", "{}", "[]", "Infinity", "word"}
NoText == <<[kind |-> "parameter", name |-> "p"], End("parameter")>>
Bodies ==
  {<<>>, NoText} \cup {Param("p", l) : l \in Literals}
  \cup {Param("p", "1") \o Param(n, l) : n \in {"p", "x"}, l \in {"1", "word"}}
  \cup {Param("x", l) : l \in {"1", "word"}}

(* Complete calls, alone and with other pieces around them; one call cut    *)
(* off anywhere, alone and before a complete one; one that lacks a piece or *)
(* has one too many.                                                        *)
Pair == Param("p", "1") \o Param("x", "word")
Example == Call("t", Pair)
Cut == {SubSeq(Example, 1, n) : n \in 1..Len(Example) - 1}
Others ==
  {Text("word"), Torn, [kind |-> "tool_call"], [kind |-> "function", name |-> "t"],
   [kind |-> "parameter", name |-> "p"], End("parameter"), End("function"), End("tool_call")}

MCGenerated ==
  {<<>>} \cup {<<a>> : a \in Others} \cup {<<a, b>> : a, b \in {Text("word"), Torn}}
  \cup {Call("t", body) : body \in Bodies} \cup {Call("u", <<>>)}
  \cup Cut \cup {cut \o Call("t", Param("p", "1")) : cut \in Cut \cup {Example}}
  \cup {RemoveAt(Example, i) : i \in DOMAIN Example}
  \cup {InsertAt(Example, i, a) : i \in 1..Len(Example) + 1, a \in Others}

(* What a provider may send that is no ToolProtocol message: no choice, two *)
(* calls, text beside a call, arguments that are none or no object, JSON of *)
(* any type for "p".                                                        *)
Sent(arguments) == [id |-> "given", name |-> "t", arguments |-> arguments]
Fields(v) == [is |-> "object", fields |-> [p |-> v]]

Values ==
  {Number(2), Number(8), [type |-> "number", n |-> 2], [type |-> "number", n |-> 5],
   Number(-4), True, [type |-> "boolean", n |-> 0], [type |-> "null"],
   [type |-> "string", text |-> "word", len |-> 1],
   [type |-> "array", items |-> <<[type |-> "string", text |-> "word", len |-> 1]>>],
   [type |-> "array", items |-> <<Number(2), True>>],
   [type |-> "array", items |-> <<Number(2), [type |-> "number", n |-> 2]>>],
   [type |-> "array", items |-> <<Number(2), Number(2)>>],
   [type |-> "array", items |-> <<[type |-> "number", n |-> 2]>>],
   [type |-> "object", fields |-> [q |-> Number(2)]], [type |-> "object", fields |-> <<>>],
   [type |-> "object", fields |-> [q |-> [type |-> "null"]]]}

MCPayloads ==
  {[status |-> 200, choices |-> <<>>]} \cup
  {[status |-> 200, choices |-> <<[content |-> c, calls |-> s]>>] :
     c \in {"text", "null"},
     s \in {<<>>, <<Sent([is |-> "empty"])>>, <<Sent([is |-> "list"])>>,
            <<Sent([is |-> "broken"])>>,
            <<Sent([is |-> "empty"]), Sent([is |-> "empty"])>>}
           \cup {<<Sent(Fields(v))>> : v \in Values}}

(* The calls inside a schema are the operators themselves.  TLC's coverage  *)
(* statistics expand what a constant operator applies, but no LET: without  *)
(* it they would expand these for ever.                                     *)
MCRegisters(s) == LET supported == Supported(s) IN supported
MCAdmits(s, v) == LET accepted == Accepts(s, v) IN accepted
MCEquals(v, w) == LET equal == PyEqual(v, w) IN equal
MCMeans(s, v) == LET holds == Holds(s, v) IN holds
MCSame(v, w) == LET equal == JsonEqual(v, w) IN equal
MCJudges(s, v) == LET judged == Judged(s, v) IN judged
MCNests(s) == LET nesting == Nesting(s) IN nesting
=============================================================================
