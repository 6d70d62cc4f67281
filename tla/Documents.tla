----------------------------- MODULE Documents -----------------------------
(***************************************************************************)
(* A widget's document on its way to the screen, and the State behind it.  *)
(*                                                                         *)
(* Three parts of the program must agree on what a document means.  The    *)
(* schema validation decides which documents and which States are legal,   *)
(* the renderer decides as which type each bound path is declared, and the *)
(* shell projects each State through those declarations.  They share no    *)
(* code for it, and a disagreement shows only as a property that silently  *)
(* keeps its old value.                                                    *)
(*                                                                         *)
(* The document is prepared on a thread of its own, compiled and opened on *)
(* the UI thread (floatile-shell: runtime_ui.rs); afterwards the guest     *)
(* submits patches (floatile-runtime: state.rs) and the worker projects    *)
(* the States that were queued for it.  The rest of the session's life is  *)
(* the subject of WidgetSession.                                           *)
(***************************************************************************)
EXTENDS Renderer, Functions

CONSTANTS Docs,             \* the documents
          Patches(_),       \* the patches that the guest of a document submits
          MaxPatch,         \* MAX_PATCH_BYTES, as a Weight
          MaxState,         \* MAX_STATE_BYTES, as a Weight
          UpdateRate,       \* MAX_UPDATE_RATE_PER_SEC
          UpdateCapacity    \* the capacity of the update channel

\* What the parsers guarantee: a path is a list of names, and the bound of an
\* array is a number.
Parsed(binding, schema) ==
    LET target == Resolve(schema, binding.path) IN
    /\ binding.path \in Seq(STRING)
    /\ target.is = "array" => target.max \in Nat \cup {Unlimited}

ASSUME DocumentsAssumption ==
    /\ {MaxListItems, MaxChartPoints} \subseteq Nat
    /\ \A d \in Docs : \A i \in DOMAIN Nodes(d) :
         LET node == Nodes(d)[i].node IN
         /\ \A p \in BoundProps(node) : Parsed(node.props[p].binding, d.schema)
         /\ "when" \in DOMAIN node.control => Parsed(node.control["when"], d.schema)

VARIABLES doc,      \* the document
          stage,    \* how far it came, or "refused"
          slots,    \* the slots the renderer declared for it
          json,     \* the authoritative State
          queued,   \* the States queued for the worker
          properties, \* [property of the window -> value]
          spent,    \* updates counted in the current second
          unsent    \* TRUE while the newest State was never queued (history)

docVars == <<doc, stage, slots, json, queued, properties, spent, unsent>>

Unset == [is |-> "default"]

DocumentInit ==
    /\ doc \in Docs
    /\ stage = "given"
    /\ slots = {}
    /\ json = Null
    /\ queued = << >>
    /\ properties = None
    /\ spent = 0
    /\ unsent = FALSE

(* prepare_runtime_ui: parse, validate and render on a thread of its own;  *)
(* the slots and the initial State are what it hands on.                   *)
Prepare ==
    /\ stage = "given"
    /\ IF doc.json /\ Renders(doc)
       THEN stage' = "prepared" /\ json' = doc.initial /\ slots' = Slots(Nodes(doc))
       ELSE stage' = "refused" /\ UNCHANGED <<json, slots>>
    /\ UNCHANGED <<doc, queued, properties, spent, unsent>>

(* The Slint compiler (not part of the repository).  It refuses a property *)
(* that is declared twice and a loop over a string.  A toggle is an open   *)
(* question: no test of the repository compiles one.                       *)
CompileOutcomes ==
    LET walk == Nodes(doc)
        uses(kind) == \E i \in DOMAIN walk : walk[i].node.kind = kind
        twice == \E s, t \in slots : s.path # t.path /\ PropName(s.path) = PropName(t.path)
    IN IF twice \/ uses("ForEach") THEN {FALSE}
       ELSE IF uses("Toggle") THEN BOOLEAN ELSE {TRUE}

Compile ==
    /\ stage = "prepared"
    /\ \E ok \in CompileOutcomes : stage' = IF ok THEN "compiled" ELSE "refused"
    /\ UNCHANGED <<doc, slots, json, queued, properties, spent, unsent>>

(* create_on_ui_thread, register_events and the start of the worker, any   *)
(* of which may fail.  The worker checks the initial State once more; it   *)
(* does not project it: the properties keep the defaults of their types.   *)
OpenWindow ==
    /\ stage = "compiled"
    /\ \/ /\ Conforms(doc.schema, json, 0)
          /\ stage' = "running"
          /\ properties' = [p \in {PropName(s.path) : s \in slots} |-> Unset]
          /\ unsent' = TRUE
       \/ stage' = "refused" /\ UNCHANGED <<properties, unsent>>
    /\ UNCHANGED <<doc, slots, json, queued, spent>>

(* host-ui.update-state.                                                   *)
Answer(patch) ==
    LET next == MergePatch(json, patch)
    IN IF spent >= UpdateRate THEN "update-rate-exceeded"
       ELSE IF Weight(patch) > MaxPatch THEN "patch-too-large"
       ELSE IF patch.is # "object" THEN "invalid-json"
       ELSE IF ~Conforms(doc.schema, next, 0) THEN "schema-mismatch"
       ELSE IF Weight(next) > MaxState THEN "state-too-large"
       ELSE IF Len(queued) >= UpdateCapacity THEN "queue-full" ELSE "ok"

Submit(patch) ==
    /\ stage = "running"
    /\ LET answer == Answer(patch)
           next == MergePatch(json, patch)
       IN /\ spent' = IF answer = "update-rate-exceeded" THEN spent ELSE spent + 1
          /\ json' = IF answer \in {"ok", "queue-full"} THEN next ELSE json
          /\ queued' = IF answer = "ok" THEN Append(queued, next) ELSE queued
          /\ unsent' = CASE answer = "ok" -> FALSE
                         [] answer = "queue-full" -> TRUE
                         [] OTHER -> unsent
    /\ UNCHANGED <<doc, stage, slots, properties>>

NextSecond ==
    /\ stage = "running"
    /\ spent > 0
    /\ spent' = 0
    /\ UNCHANGED <<doc, stage, slots, json, queued, properties, unsent>>

(* project_binding_value: the value at the path, if it is there and has    *)
(* the slot's type; the lists are checked for their length again.          *)
Projects(slot, value) ==
    LET v == At(value, slot.path)
        all(type) == \A i \in DOMAIN v.items : v.items[i].is = type
    IN CASE slot.type = "string_list" ->
              v.is = "array" /\ Len(v.items) <= MaxListItems /\ all("string")
         [] slot.type = "number_list" ->
              v.is = "array" /\ Len(v.items) <= MaxChartPoints /\ all("number")
         [] OTHER -> v.is = slot.type

\* Mutant of Projected: one slot that fails holds all of them back.
ProjectedTogether(value) ==
    IF \E s \in slots : ~Projects(s, value) THEN properties
    ELSE [p \in DOMAIN properties |->
            At(value, (CHOOSE s \in slots : PropName(s.path) = p).path)]

Projected(value) ==
    LET sets(p) == {s \in slots : PropName(s.path) = p /\ Projects(s, value)}
    IN [p \in DOMAIN properties |-> IF sets(p) = {} THEN properties[p]
                               ELSE At(value, (CHOOSE s \in sets(p) : TRUE).path)]

(* The worker takes the next State and sets every property whose slot      *)
(* projects; the others keep what they show.                               *)
ProjectNext ==
    /\ stage = "running"
    /\ queued # << >>
    /\ properties' = Projected(Head(queued))
    /\ queued' = Tail(queued)
    /\ UNCHANGED <<doc, stage, slots, json, spent, unsent>>

DocumentNext ==
    \/ Prepare \/ Compile \/ OpenWindow
    \/ \E p \in Patches(doc) : Submit(p)
    \/ NextSecond
    \/ ProjectNext

DocumentSpec == DocumentInit /\ [][DocumentNext]_docVars

-----------------------------------------------------------------------------
(* The schema requires every field of the path.                            *)
Required(schema, path) ==
    \A k \in DOMAIN path : path[k] \in Resolve(schema, SubSeq(path, 1, k - 1)).required

(* Validation, renderer and shell agree: once a document runs, every State *)
(* the host accepts can be projected through every slot whose path the     *)
(* schema requires (validate.rs, render.rs and runtime_ui.rs each have     *)
(* their own rules for types, lengths and paths).                          *)
ProjectsEveryState ==
    stage = "running" =>
        \A value \in {json} \cup Range(queued) : \A s \in slots :
            Required(doc.schema, s.path) => Projects(s, value)

(* A window that has caught up shows the newest State: a slot that cannot  *)
(* be projected does not hold back the others (runtime_ui.rs), and a State *)
(* that found the queue full is made up for by the next one, because every *)
(* update carries the whole State (state.rs).                              *)
ShownIsLatest ==
    (stage = "running" /\ queued = << >> /\ ~unsent) =>
        \A s \in slots : Projects(s, json) => properties[PropName(s.path)] = At(json, s.path)
=============================================================================
