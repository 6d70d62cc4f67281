------------------------------ MODULE UiState ------------------------------
(***************************************************************************)
(* The State of a widget: the JSON values it is made of, the schemas that  *)
(* bound them, the paths that bindings use and the merge patch a guest     *)
(* submits (floatile-ui-schema: schema.rs, path.rs, patch.rs).             *)
(*                                                                         *)
(* A JSON value is a record tagged by its JSON type.  A string is known by *)
(* its length in characters and by what it says ("plain" unless a rule of  *)
(* the registry or of the renderer looks at it), a number by its value and *)
(* by whether serde keeps it as an integer.  A path is the sequence of its *)
(* field names: "$" is the empty sequence.                                 *)
(***************************************************************************)
EXTENDS Naturals, Sequences, FiniteSets, TLC

CONSTANTS MaxStateDepth,    \* MAX_STATE_DEPTH, 16 in the code
          Unlimited,        \* a missing maxLength or maxItems
          \* The functions that walk trees; UiTrees has them.
          Conforms(_, _, _),    \* validate_value: schema, value, depth
          ShallowSchema(_, _),  \* check_schema_depth: schema, depth
          Resolve(_, _),        \* PathSegments::resolve: schema, path
          At(_, _),             \* the value at a path
          MergePatch(_, _),     \* merge_patch: target, patch
          Weight(_)             \* the size of a value

(* serde_json::Value.                                                      *)
Null == [is |-> "null"]
Bool(b) == [is |-> "boolean", bool |-> b]
Whole(n) == [is |-> "number", num |-> n, whole |-> TRUE]
Fraction(n) == [is |-> "number", num |-> n, whole |-> FALSE]
Chars(n) == [is |-> "string", chars |-> n, says |-> "plain"]
Word(w) == [is |-> "string", chars |-> 1, says |-> w]
Array(s) == [is |-> "array", items |-> s]
Object(f) == [is |-> "object", fields |-> f]

NoFields == [f \in {} |-> Null]

(* JsonSchema.                                                             *)
StringUpTo(n) == [is |-> "string", max |-> n]
Scalar(t) == [is |-> t]
ArrayOf(s, n) == [is |-> "array", of |-> s, max |-> n]
ObjectOf(required, properties, additional) ==
    [is |-> "object", required |-> required, properties |-> properties,
     additional |-> additional]

Within(n, max) == max # Unlimited => n <= max

(* One level of a walk.  Below is the walk itself, one level down.        *)

(* validate_value: does the value conform, at every level, and is it no    *)
(* deeper than the limit?                                                  *)
ConformsLevel(schema, value, depth, Below(_, _, _)) ==
    /\ depth <= MaxStateDepth
    /\ CASE schema.is \in {"null", "boolean", "number"} -> value.is = schema.is
         [] schema.is = "integer" -> value.is = "number" /\ value.whole
         [] schema.is = "string" -> value.is = "string" /\ Within(value.chars, schema.max)
         [] schema.is = "array" ->
              /\ value.is = "array"
              /\ Within(Len(value.items), schema.max)
              /\ \A i \in DOMAIN value.items : Below(schema.of, value.items[i], depth + 1)
         [] schema.is = "object" ->
              /\ value.is = "object"
              /\ schema.additional \/ DOMAIN value.fields \subseteq DOMAIN schema.properties
              /\ schema.required \subseteq DOMAIN value.fields
              /\ \A f \in DOMAIN value.fields :
                     IF f \in DOMAIN schema.properties
                     THEN Below(schema.properties[f], value.fields[f], depth + 1)
                     ELSE depth + 1 <= MaxStateDepth

(* path.rs: a path parses when none of its fields is empty; it resolves    *)
(* through declared properties only, never through an array or a field     *)
(* that only additionalProperties admits.                                  *)
Parses(path) == \A i \in DOMAIN path : path[i] # ""

NoSchema == [is |-> "unresolved"]

ResolveLevel(schema, path, Below(_, _)) ==
    IF path = << >> THEN schema
    ELSE IF schema.is = "object" /\ Head(path) \in DOMAIN schema.properties
         THEN Below(schema.properties[Head(path)], Tail(path))
         ELSE NoSchema

(* json_type: integers count as numbers here.                              *)
SchemaType(schema) == IF schema.is = "integer" THEN "number" ELSE schema.is

(* serde_json::Value::get along a path.                                    *)
Missing == [is |-> "missing"]

AtLevel(value, path, Below(_, _)) ==
    IF path = << >> THEN value
    ELSE IF value.is = "object" /\ Head(path) \in DOMAIN value.fields
         THEN Below(value.fields[Head(path)], Tail(path))
         ELSE Missing
=============================================================================
