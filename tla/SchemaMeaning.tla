---------------------------- MODULE SchemaMeaning ----------------------------
(***************************************************************************)
(* What the keywords that the registry supports mean in JSON Schema, as a   *)
(* specification of SchemaSubset: which values a schema describes.  An      *)
(* integer is a number written without a fraction (draft 4).                *)
(***************************************************************************)
EXTENDS SchemaSubset, FiniteSetsExt

CONSTANTS
  Means(_, _),    \* Holds, of the schemas inside a schema
  Same(_, _),     \* JsonEqual, of the values inside two values
  Judges(_, _),   \* Judged, of the schemas inside a schema
  Nests(_)        \* Nesting, of the schemas inside a schema

(* 1 and 1.0 are the same number, and true is none. *)
JsonEqual(v, w) ==
  \/ v = w
  \/ IsNumber(v) /\ IsNumber(w) /\ v.n = w.n
  \/ v.type = "array" /\ w.type = "array" /\ Len(v.items) = Len(w.items)
     /\ \A i \in DOMAIN v.items : Same(v.items[i], w.items[i])
  \/ v.type = "object" /\ w.type = "object" /\ DOMAIN v.fields = DOMAIN w.fields
     /\ \A k \in DOMAIN v.fields : Same(v.fields[k], w.fields[k])

(* The values of enum and const. *)
Operands(s) ==
  (IF Has(s, "enum") THEN s.enum ELSE {}) \cup (IF Has(s, "const") THEN {s.const} ELSE {})

(* The schema of a field, if there is one. *)
FieldSchemas(s, k) ==
  IF Has(s, "properties") /\ k \in DOMAIN s.properties THEN {s.properties[k]}
  ELSE IF Has(s, "additionalProperties") /\ s.additionalProperties.is = "schema"
       THEN {s.additionalProperties.of} ELSE {}

-----------------------------------------------------------------------------
(* Holds(s, v): v is what s describes.  It vouches for no other keyword.    *)
HoldsOfAny(s, v) ==
  /\ Has(s, "type") => \E i \in DOMAIN s.type : s.type[i] \in
       {v.type} \cup (IF v.type = "integer" THEN {"number"} ELSE {})
  /\ Has(s, "enum") => \E w \in s.enum : JsonEqual(v, w)
  /\ Has(s, "const") => JsonEqual(v, s.const)
  /\ Has(s, "allOf") => \A i \in DOMAIN s.allOf : Means(s.allOf[i], v)
  /\ Has(s, "anyOf") => \E i \in DOMAIN s.anyOf : Means(s.anyOf[i], v)
  /\ Has(s, "oneOf") => \E i \in DOMAIN s.oneOf : \A j \in DOMAIN s.oneOf :
                          Means(s.oneOf[j], v) <=> i = j
  /\ Has(s, "not") => ~Means(s.not, v)

HoldsOfNumber(s, v) ==
  IsNumber(v) =>
    /\ Has(s, "minimum") => v.n >= s.minimum
    /\ Has(s, "maximum") => v.n <= s.maximum
    /\ Has(s, "exclusiveMinimum") => v.n > s.exclusiveMinimum
    /\ Has(s, "exclusiveMaximum") => v.n < s.exclusiveMaximum
    /\ Has(s, "multipleOf") => v.n % s.multipleOf = 0

HoldsOfString(s, v) ==
  v.type = "string" =>
    /\ Has(s, "minLength") => v.len >= s.minLength
    /\ Has(s, "maxLength") => v.len <= s.maxLength
    /\ Has(s, "pattern") => v.text \in s.pattern

HoldsOfArray(s, v) ==
  v.type = "array" =>
    /\ Has(s, "minItems") => Len(v.items) >= s.minItems
    /\ Has(s, "maxItems") => Len(v.items) <= s.maxItems
    /\ Has(s, "items") => \A i \in DOMAIN v.items : Means(s.items, v.items[i])
    /\ Has(s, "uniqueItems") /\ s.uniqueItems =>
         \A i, j \in DOMAIN v.items : JsonEqual(v.items[i], v.items[j]) => i = j

HoldsOfObject(s, v) ==
  v.type = "object" =>
    /\ Has(s, "required") => s.required \ DOMAIN v.fields = {}
    /\ Has(s, "minProperties") => Cardinality(DOMAIN v.fields) >= s.minProperties
    /\ Has(s, "maxProperties") => Cardinality(DOMAIN v.fields) <= s.maxProperties
    /\ \A k \in DOMAIN v.fields : \A schema \in FieldSchemas(s, k) : Means(schema, v.fields[k])
    /\ Has(s, "additionalProperties") /\ s.additionalProperties.is = "false" =>
         \A k \in DOMAIN v.fields : FieldSchemas(s, k) # {}

Holds(s, v) ==
  /\ DOMAIN s \subseteq
       {"type", "enum", "const", "allOf", "anyOf", "oneOf", "not",
        "minimum", "maximum", "exclusiveMinimum", "exclusiveMaximum", "multipleOf",
        "minLength", "maxLength", "pattern", "minItems", "maxItems", "items", "uniqueItems",
        "required", "minProperties", "maxProperties", "properties", "additionalProperties"}
  /\ HoldsOfAny(s, v) /\ HoldsOfNumber(s, v) /\ HoldsOfString(s, v)
  /\ HoldsOfArray(s, v) /\ HoldsOfObject(s, v)

-----------------------------------------------------------------------------
(* The validation of a value by a schema judges parts of it by schemas      *)
(* inside that one.                                                         *)
Inside(s, v) ==
  (IF Has(s, "not") THEN {<<s.not, v>>} ELSE {})
  \cup (IF v.type = "array" /\ Has(s, "items")
        THEN {<<s.items, v.items[i]>> : i \in DOMAIN v.items} ELSE {})
  \cup (IF v.type = "object"
        THEN UNION {{<<schema, v.fields[k]>> : schema \in FieldSchemas(s, k)} :
                      k \in DOMAIN v.fields}
        ELSE {})
  \cup UNION {{<<s[key][i], v>> : i \in DOMAIN s[key]} :
                key \in DOMAIN s \cap {"allOf", "anyOf", "oneOf"}}

Judged(s, v) == {<<s, v>>} \cup UNION {Judges(p[1], p[2]) : p \in Inside(s, v)}

(* How deep schemas are nested in s. *)
Nesting(s) == 1 + Max({0} \cup {Nests(child) : child \in Children(s)})

(* Where the registry compares by another equality than JSON's.             *)
Confusing(s, v) ==
  \/ \E w \in Operands(s) : ~(PyEqual(v, w) <=> JsonEqual(v, w))
  \/ /\ v.type = "array" /\ Has(s, "uniqueItems") /\ s.uniqueItems
     /\ \E i, j \in DOMAIN v.items : v.items[i] # v.items[j] /\ JsonEqual(v.items[i], v.items[j])
=============================================================================
