---------------------------- MODULE SchemaSubset ----------------------------
(***************************************************************************)
(* The registry of tool schemas (src/pre_active/tools.py): which schemas it *)
(* supports and which values they accept.                                   *)
(*                                                                          *)
(* A JSON value is a record with its type: n of a boolean (0 or 2) or a     *)
(* number, doubled, text and len of a string, items of an array, fields of  *)
(* an object.  A schema maps the keywords it uses to their operands: a type *)
(* is a sequence of names, a pattern the set of texts it finds,             *)
(* additionalProperties is [is |-> "true"], "false" or "schema" with an of. *)
(*                                                                          *)
(* The code is recursive.  Each operator here says what one call does; what *)
(* the calls inside it return is a constant of its own, whose value is the  *)
(* operator itself.                                                         *)
(***************************************************************************)
EXTENDS Integers, Sequences, FiniteSets

CONSTANTS
  Registers(_),   \* Supported, of the schemas inside a schema
  Admits(_, _),   \* Accepts, of the schemas inside a schema
  Equals(_, _)    \* PyEqual, of the values inside two values

Has(s, keyword) == keyword \in DOMAIN s

IsNumber(v) == v.type \in {"integer", "number"}

(* A Python bool is no integer here. *)
JsonTypeMatches(v, declared) ==
  v.type = declared \/ (declared = "number" /\ v.type = "integer")

AcceptsString(s, v) ==
  /\ Has(s, "minLength") => v.len >= s.minLength
  /\ Has(s, "maxLength") => v.len <= s.maxLength
  /\ Has(s, "pattern") => v.text \in s.pattern

AcceptsNumber(s, n) ==
  /\ Has(s, "minimum") => n >= s.minimum
  /\ Has(s, "maximum") => n <= s.maximum
  /\ Has(s, "exclusiveMinimum") => n > s.exclusiveMinimum
  /\ Has(s, "exclusiveMaximum") => n < s.exclusiveMaximum
  /\ Has(s, "multipleOf") => n % s.multipleOf = 0

ExtraOf(s, fields) == DOMAIN fields \ (IF Has(s, "properties") THEN DOMAIN s.properties ELSE {})

AcceptsObject(s, fields) ==
  /\ Has(s, "required") => s.required \subseteq DOMAIN fields
  /\ Has(s, "minProperties") => Cardinality(DOMAIN fields) >= s.minProperties
  /\ Has(s, "maxProperties") => Cardinality(DOMAIN fields) <= s.maxProperties
  /\ Has(s, "properties") =>
       \A k \in DOMAIN s.properties \cap DOMAIN fields : Admits(s.properties[k], fields[k])
  /\ Has(s, "additionalProperties") =>
       LET extra == s.additionalProperties IN
       /\ extra.is = "false" => ExtraOf(s, fields) = {}
       /\ extra.is = "schema" => \A k \in ExtraOf(s, fields) : Admits(extra.of, fields[k])

(* uniqueItems compares canonical JSON, where 1, 1.0 and true differ. *)
AcceptsArray(s, items) ==
  /\ Has(s, "minItems") => Len(items) >= s.minItems
  /\ Has(s, "maxItems") => Len(items) <= s.maxItems
  /\ Has(s, "uniqueItems") /\ s.uniqueItems =>
       Cardinality({items[i] : i \in DOMAIN items}) = Len(items)
  /\ Has(s, "items") => \A i \in DOMAIN items : Admits(s.items, items[i])

(* enum and const compare with ==, for which True is 1. *)
PyEqual(v, w) ==
  \/ v.type \in {"boolean", "integer", "number"} /\ w.type \in {"boolean", "integer", "number"}
     /\ v.n = w.n
  \/ v.type = "string" /\ w.type = "string" /\ v.text = w.text
  \/ v.type = "null" /\ w.type = "null"
  \/ v.type = "array" /\ w.type = "array" /\ Len(v.items) = Len(w.items)
     /\ \A i \in DOMAIN v.items : Equals(v.items[i], w.items[i])
  \/ v.type = "object" /\ w.type = "object" /\ DOMAIN v.fields = DOMAIN w.fields
     /\ \A k \in DOMAIN v.fields : Equals(v.fields[k], w.fields[k])

(* _validate_schema_value: TRUE when it does not raise. *)
Accepts(s, v) ==
  /\ Has(s, "type") => \E i \in DOMAIN s.type : JsonTypeMatches(v, s.type[i])
  /\ Has(s, "enum") => \E w \in s.enum : PyEqual(v, w)
  /\ Has(s, "const") => PyEqual(v, s.const)
  /\ Has(s, "allOf") => \A i \in DOMAIN s.allOf : Admits(s.allOf[i], v)
  /\ Has(s, "anyOf") => \E i \in DOMAIN s.anyOf : Admits(s.anyOf[i], v)
  /\ Has(s, "oneOf") => Cardinality({i \in DOMAIN s.oneOf : Admits(s.oneOf[i], v)}) = 1
  /\ Has(s, "not") => ~Admits(s.not, v)
  /\ v.type = "object" => AcceptsObject(s, v.fields)
  /\ v.type = "array" => AcceptsArray(s, v.items)
  /\ v.type = "string" => AcceptsString(s, v)
  /\ IsNumber(v) => AcceptsNumber(s, v.n)

-----------------------------------------------------------------------------
JsonTypes == {"object", "array", "string", "integer", "number", "boolean", "null"}

SupportedKeys ==
  {"type", "enum", "const", "properties", "required", "additionalProperties",
   "minProperties", "maxProperties", "items", "minItems", "maxItems", "uniqueItems",
   "minLength", "maxLength", "pattern", "minimum", "maximum", "exclusiveMinimum",
   "exclusiveMaximum", "multipleOf", "allOf", "anyOf", "oneOf", "not"}

Counts == {"minProperties", "maxProperties", "minItems", "maxItems", "minLength", "maxLength"}

(* The schemas directly inside s. *)
BugChildren(s) ==
  (IF Has(s, "properties") THEN {s.properties[k] : k \in DOMAIN s.properties} ELSE {})
  \cup UNION {{s[key][i] : i \in DOMAIN s[key]} : key \in DOMAIN s \cap {"allOf", "anyOf", "oneOf"}}

Children(s) ==
  (IF Has(s, "properties") THEN {s.properties[k] : k \in DOMAIN s.properties} ELSE {})
  \cup (IF Has(s, "additionalProperties") /\ s.additionalProperties.is = "schema"
        THEN {s.additionalProperties.of} ELSE {})
  \cup {s[key] : key \in DOMAIN s \cap {"items", "not"}}
  \cup UNION {{s[key][i] : i \in DOMAIN s[key]} : key \in DOMAIN s \cap {"allOf", "anyOf", "oneOf"}}

(* _check_supported_schema: what register() admits. *)
Supported(s) ==
  /\ DOMAIN s \subseteq SupportedKeys
  /\ Has(s, "type") => s.type # <<>> /\ \A i \in DOMAIN s.type : s.type[i] \in JsonTypes
  /\ \A key \in DOMAIN s \cap Counts : s[key] >= 0
  /\ \A key \in DOMAIN s \cap {"allOf", "anyOf", "oneOf"} : s[key] # <<>>
  /\ Has(s, "multipleOf") => s.multipleOf > 0
  /\ Has(s, "enum") => s.enum # {}
  /\ \A child \in Children(s) : Registers(child)
=============================================================================
