------------------------------ MODULE UiSchema ------------------------------
(***************************************************************************)
(* The UI document of a package (widget.ftui) and the validation that the  *)
(* command line, the renderer and the runtime all repeat on it             *)
(* (floatile-ui-schema: ir.rs, registry.rs, validate.rs, theme.rs).        *)
(*                                                                         *)
(* A component has a kind, its props, its children, the events it emits    *)
(* and, in "control", those fields of If and ForEach that are present.  A  *)
(* prop is a literal value or a binding; a binding names a path of the     *)
(* State or, inside a ForEach template, a path of the current item.        *)
(***************************************************************************)
EXTENDS UiState, SequencesExt

CONSTANTS MaxIrBytes, MaxNodes, MaxTreeDepth, MaxBindings, MaxEventDecls,
          MaxAssetRefs, MaxListItems, MaxChartPoints,
          Walk(_, _, _, _)      \* validate_component: node, schema, item, depth; in UiTrees

Literal(value) == [literal |-> value]
StatePath(path) == [from |-> "state", path |-> path]
ItemPath(path) == [from |-> "item", path |-> path]
Bound(binding) == [binding |-> binding]
IsBound(prop) == "binding" \in DOMAIN prop

None == [n \in {} |-> Null]     \* no props, no events, no control fields

Component(kind, props, children, events) ==
    [kind |-> kind, props |-> props, children |-> children, events |-> events,
     control |-> None]
ControlNode(kind, control) ==
    [kind |-> kind, props |-> None, children |-> << >>, events |-> None, control |-> control]

-----------------------------------------------------------------------------
(* The registry of components.                                             *)

\* Both functions, the first where they have an argument in common.
f ++ g == [x \in DOMAIN f \cup DOMAIN g |-> IF x \in DOMAIN f THEN f[x] ELSE g[x]]

Prop(types, bindable, since, optional) ==
    [types |-> types, bindable |-> bindable, since |-> since, optional |-> optional]
Style(types, since) == Prop(types, FALSE, since, TRUE)
Content(type, since) == Prop({type}, TRUE, since, FALSE)

CommonProps ==
    [p \in {"padding", "gap", "width", "height", "opacity", "radius"} |-> Style({"number"}, 0)]
        ++ [p \in {"color", "border"} |-> Style({"string"}, 0)]

Element(since, children, props, inputs) ==
    [since |-> since, children |-> children, props |-> props ++ CommonProps,
     inputs |-> inputs, control |-> FALSE]

Spoken == [accessibilityLabel |-> Prop({"string"}, TRUE, 6, TRUE)]

Layouts ==
    [k \in {"Row", "Column", "Stack", "Scroll"} |-> Element(0, "many", None, {})]
    ++ [Grid |-> Element(0, "many", [columns |-> Style({"integer"}, 0)], {}),
        Responsive |-> Element(4, "many",
                               [breakpoint |-> Prop({"number"}, FALSE, 4, FALSE)], {})]

Contents ==
    [Text |-> Element(0, "forbidden",
                      [text |-> Content("string", 0), style |-> Style({"string"}, 0),
                       colorToken |-> Style({"string"}, 5)], {}),
     Icon |-> Element(0, "forbidden",
                      [name |-> Content("string", 0), size |-> Style({"number"}, 0)], {}),
     Image |-> Element(0, "forbidden", [asset |-> Prop({"string"}, FALSE, 0, FALSE)], {})]

Indicators ==
    [k \in {"Progress", "Gauge"} |->
        Element(0, "forbidden", [value |-> Content("number", 0)] ++ Spoken, {})]
    ++ [Button |-> Element(0, "forbidden", [label |-> Content("string", 0)], {"activate"}),
        Toggle |-> Element(0, "forbidden",
                           [checked |-> Content("boolean", 0)] ++ Spoken, {"toggle"}),
        Badge |-> Element(1, "forbidden",
                          [label |-> Content("string", 0), tone |-> Style({"string"}, 0)], {})]

Collections ==
    [List |-> Element(0, "many", [items |-> Prop({"array"}, TRUE, 2, TRUE)], {}),
     Sparkline |-> Element(3, "forbidden",
                           [values |-> Content("array", 3), label |-> Content("string", 3),
                            tone |-> Style({"string"}, 3)], {})]

Controls ==
    [k \in {"If", "ForEach"} |->
        [since |-> 0, children |-> "forbidden", props |-> None, inputs |-> {},
         control |-> TRUE]]

Registry == Layouts ++ Contents ++ Indicators ++ Collections ++ Controls

ColorTokens == {"foreground", "muted", "accent", "positive", "warning", "danger"}
BadgeTones == {"neutral", "info", "success", "warning", "danger"}

(* JsonType::matches and the rules of single props.                        *)
ValueMatches(type, value) ==
    IF type = "integer" THEN value.is = "number" /\ value.whole ELSE value.is = type

ValidLiteral(kind, name, value) ==
    /\ \E t \in Registry[kind].props[name].types : ValueMatches(t, value)
    /\ (kind = "Badge" /\ name = "tone") => value.says \in BadgeTones
    /\ (kind = "Sparkline" /\ name = "tone") => value.says \in BadgeTones \ {"neutral"}
    /\ (kind = "List" /\ name = "items") =>
         /\ Len(value.items) <= MaxListItems
         /\ \A i \in DOMAIN value.items : value.items[i].is = "string"
    /\ (kind = "Sparkline" /\ name = "values") =>
         /\ Len(value.items) <= MaxChartPoints
         /\ \A i \in DOMAIN value.items : value.items[i].is = "number"
    /\ (kind = "Grid" /\ name = "columns" /\ value.num >= 0) => value.num \in 1 .. 16
    /\ (kind = "Responsive" /\ name = "breakpoint") => value.num \in 240 .. 1920
    /\ name = "colorToken" => value.says \in ColorTokens

-----------------------------------------------------------------------------
(* The type that a binding finds: the item's own schema under "value", a   *)
(* property of the item otherwise, and nothing outside of a template.      *)
BindingTarget(binding, schema, item) ==
    IF ~Parses(binding.path) THEN NoSchema
    ELSE IF binding.from = "state" THEN Resolve(schema, binding.path)
    ELSE IF item = NoSchema THEN NoSchema
    ELSE IF binding.path = <<"value">> THEN item
    ELSE Resolve(item, binding.path)

\* Mutant of BoundedArray: any array of the type is taken.
AnyArray(target, types, most) == target.is = "array" /\ target.of.is \in types

BoundedArray(target, types, most) ==
    /\ target.is = "array"
    /\ target.max # Unlimited
    /\ target.max <= most
    /\ target.of.is \in types

ValidBinding(kind, name, binding, schema, item) ==
    LET target == BindingTarget(binding, schema, item)
    IN /\ target # NoSchema
       /\ (kind = "List" /\ name = "items") => BoundedArray(target, {"string"}, MaxListItems)
       /\ (kind = "Sparkline" /\ name = "values") =>
            BoundedArray(target, {"number", "integer"}, MaxChartPoints)
       /\ SchemaType(target) \in Registry[kind].props[name].types

(* Every component of the tree, in order, with its depth and the schema of *)
(* the item in scope.                                                      *)
Nodes(doc) == Walk(doc.root, doc.schema, NoSchema, 1)

AssetRefs(walk) == Len(SelectSeq(walk, LAMBDA w : w.node.kind = "Image"))
BoundProps(node) == {p \in DOMAIN node.props : IsBound(node.props[p])}

ValidProps(doc, node, item) ==
    LET spec == Registry[node.kind]
    IN /\ \A p \in DOMAIN node.props :
            /\ p \in DOMAIN spec.props
            /\ spec.props[p].since <= doc.minor
            /\ IF IsBound(node.props[p])
               THEN /\ spec.props[p].bindable
                    /\ ValidBinding(node.kind, p, node.props[p].binding, doc.schema, item)
               ELSE ValidLiteral(node.kind, p, node.props[p].literal)
       /\ {p \in DOMAIN spec.props : ~spec.props[p].optional} \subseteq DOMAIN node.props
       /\ (doc.minor >= 6 /\ node.kind \in {"Toggle", "Progress", "Gauge"}) =>
            "accessibilityLabel" \in DOMAIN node.props
       /\ ~({"color", "colorToken"} \subseteq DOMAIN node.props)

ValidChildren(node) ==
    /\ (node.kind = "List" /\ "items" \in DOMAIN node.props) => node.children = << >>
    /\ Registry[node.kind].children = "forbidden" => node.children = << >>

ValidEvents(doc, node) ==
    \A input \in DOMAIN node.events :
        LET emitted == node.events[input]
        IN /\ input \in Registry[node.kind].inputs
           /\ emitted.emit \in DOMAIN doc.events
           /\ Conforms(doc.events[emitted.emit], emitted.payload, 0)

ValidElement(doc, node, item) ==
    /\ node.control = None
    /\ ValidProps(doc, node, item)
    /\ ValidChildren(node)
    /\ ValidEvents(doc, node)

(* If takes a boolean of the State, ForEach an array of it, a key and a    *)
(* template; neither uses props, events or children.                       *)
ValidControl(doc, node) ==
    LET has(f) == f \in DOMAIN node.control
        source == IF node.kind = "If" THEN "when" ELSE "items"
        target == BindingTarget(node.control[source], doc.schema, NoSchema)
    IN /\ DOMAIN node.props = {} /\ DOMAIN node.events = {} /\ node.children = << >>
       /\ has(source) /\ node.control[source].from = "state"
       /\ IF node.kind = "If" THEN target.is = "boolean" /\ has("then")
          ELSE target.is = "array" /\ has("key") /\ has("template")

Bindings(walk) == FoldLeft(LAMBDA n, w : n + Cardinality(BoundProps(w.node)), 0, walk)

(* validate_document.                                                      *)
ValidDocument(doc) ==
    LET walk == Nodes(doc)
    IN /\ doc.major = 1
       /\ doc.bytes <= MaxIrBytes
       /\ Cardinality(DOMAIN doc.events) <= MaxEventDecls
       /\ \A e \in DOMAIN doc.events : e # "" /\ ShallowSchema(doc.events[e], 0)
       /\ Conforms(doc.schema, doc.initial, 0)
       /\ ShallowSchema(doc.schema, 0)
       /\ Len(walk) <= MaxNodes
       /\ Bindings(walk) <= MaxBindings
       /\ AssetRefs(walk) <= MaxAssetRefs
       /\ \A i \in DOMAIN walk :
            LET node == walk[i].node
            IN /\ walk[i].depth <= MaxTreeDepth
               /\ node.kind \in DOMAIN Registry
               /\ Registry[node.kind].since <= doc.minor
               /\ IF Registry[node.kind].control THEN ValidControl(doc, node)
                  ELSE ValidElement(doc, node, walk[i].item)
=============================================================================
