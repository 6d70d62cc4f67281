------------------------------ MODULE UiTrees ------------------------------
(***************************************************************************)
(* The functions that walk documents, schemas and values, which the other  *)
(* modules take as parameters: what is said there of any walk can be       *)
(* proved, and here are the walks themselves (floatile-ui-schema:          *)
(* schema.rs, path.rs, patch.rs, validate.rs).                             *)
(***************************************************************************)
EXTENDS Documents

RECURSIVE validate_value(_, _, _)
validate_value(schema, value, depth) == ConformsLevel(schema, value, depth, validate_value)

(* check_schema_depth: the schema itself is no deeper than a value may be. *)
RECURSIVE check_schema_depth(_, _)
check_schema_depth(schema, depth) ==
    /\ depth <= MaxStateDepth
    /\ schema.is = "array" => check_schema_depth(schema.of, depth + 1)
    /\ schema.is = "object" =>
         \A f \in DOMAIN schema.properties : check_schema_depth(schema.properties[f], depth + 1)

RECURSIVE resolve(_, _)
resolve(schema, path) == ResolveLevel(schema, path, resolve)

RECURSIVE value_at(_, _)
value_at(value, path) == AtLevel(value, path, value_at)

(* merge_patch: objects merge field by field, null removes a field, and    *)
(* anything else replaces what was there.                                  *)
\* Mutant of merge_patch: null is kept as a value.
RECURSIVE MergeKeepingNull(_, _)
MergeKeepingNull(target, patch) ==
    IF patch.is # "object" THEN patch
    ELSE LET old == IF target.is = "object" THEN target.fields ELSE NoFields
         IN Object([f \in DOMAIN patch.fields |->
                      MergeKeepingNull(IF f \in DOMAIN old THEN old[f] ELSE Null,
                                       patch.fields[f])] @@ old)

RECURSIVE merge_patch(_, _)
merge_patch(target, patch) ==
    IF patch.is # "object" THEN patch
    ELSE LET old == IF target.is = "object" THEN target.fields ELSE NoFields
             removed == {f \in DOMAIN patch.fields : patch.fields[f] = Null}
             names == (DOMAIN old \cup DOMAIN patch.fields) \ removed
             entry(f) == IF f \in DOMAIN old THEN old[f] ELSE Null
         IN Object([f \in names |-> IF f \in DOMAIN patch.fields
                                    THEN merge_patch(entry(f), patch.fields[f])
                                    ELSE old[f]])

(* The weight of a value stands for the bytes of its text: one for every   *)
(* value and one for every field name.                                     *)
RECURSIVE weight(_)
weight(value) ==
    CASE value.is = "array" -> 1 + FoldLeft(LAMBDA n, v : n + weight(v), 0, value.items)
      [] value.is = "object" ->
           1 + FoldFunction(LAMBDA v, n : n + 1 + weight(v), 0, value.fields)
      [] value.is = "string" -> 1 + value.chars
      [] OTHER -> 1

(* Every component of the tree, in order, with its depth and the schema of *)
(* the item in scope: children keep the scope, branches of If lose it, the *)
(* template of ForEach has the item of its array.                          *)
ItemOf(node, schema) ==
    LET items == IF "items" \in DOMAIN node.control
                 THEN BindingTarget(node.control.items, schema, NoSchema)
                 ELSE NoSchema
    IN IF items.is = "array" THEN items.of ELSE NoSchema

Branches(node) ==
    SelectSeq(<<"then", "else", "template">>, LAMBDA b : b \in DOMAIN node.control)

RECURSIVE validate_component(_, _, _, _)
validate_component(node, schema, item, depth) ==
    LET below(child, scope) == validate_component(child, schema, scope, depth + 1)
        children == [i \in DOMAIN node.children |-> below(node.children[i], item)]
        branch(b) == below(node.control[b],
                           IF b = "template" THEN ItemOf(node, schema) ELSE NoSchema)
        branches == [i \in DOMAIN Branches(node) |-> branch(Branches(node)[i])]
    IN <<[node |-> node, item |-> item, depth |-> depth]>>
         \o FlattenSeq(children) \o FlattenSeq(branches)

-----------------------------------------------------------------------------
(* What RFC 7386 says of one path, without recursion: the longest prefix   *)
(* of it that the patch mentions decides.                                  *)
RECURSIVE PathsOf(_)
PathsOf(value) ==
    {<< >>} \cup (IF value.is # "object" THEN {}
                  ELSE UNION {{<<f>> \o q : q \in PathsOf(value.fields[f])} :
                                  f \in DOMAIN value.fields})

PatchedAt(old, patch, path, new) ==
    LET n == Max({k \in 0 .. Len(path) : At(patch, SubSeq(path, 1, k)) # Missing})
        said == At(patch, SubSeq(path, 1, n))
    IN IF said.is = "object"
       THEN IF n = Len(path) THEN new.is = "object" ELSE new = At(old, path)
       ELSE new = IF said # Null /\ n = Len(path) THEN said ELSE Missing

(* An accepted patch changes the paths it mentions and no other, and the   *)
(* same patch submitted again, as a guest does after a full queue, changes *)
(* nothing more (patch.rs).                                                *)
PatchesByPath ==
    [][\A p \in Patches(doc) :
         (Submit(p) /\ json' # json) =>
           /\ \A q \in PathsOf(json) \cup PathsOf(p) \cup PathsOf(json') :
                PatchedAt(json, p, q, At(json', q))
           /\ MergePatch(json', p) = json']_docVars
=============================================================================
