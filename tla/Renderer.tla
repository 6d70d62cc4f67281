------------------------------ MODULE Renderer ------------------------------
(***************************************************************************)
(* The translation of a valid document into a Slint component              *)
(* (floatile-renderer: render.rs).  Of the source text only what the shell *)
(* and the compiler depend on is kept: the slots (which State path is      *)
(* projected into which property, as which type), the events that have a   *)
(* callback, and whether the translation succeeds.                         *)
(***************************************************************************)
EXTENDS UiSchema

CONSTANT Words      \* [field name -> its parts between underscores]

(* binding_slot: a State binding is a slot of the window; a binding to the *)
(* current item is the loop's variable and needs none.                     *)
Slot(binding, type) ==
    IF binding.from = "state" THEN {[path |-> binding.path, type |-> type]} ELSE {}

FromItem(node, name) ==
    name \in BoundProps(node) /\ node.props[name].binding.from = "item"

(* encode_string refuses control characters.                               *)
Encodes(value) == value.is = "string" /\ value.says # "control"

(* render_string_prop: bound, or a literal that can be written.            *)
StringProp(node, name) == IsBound(node.props[name]) \/ Encodes(node.props[name].literal)

SpokenLabel(node) ==
    "accessibilityLabel" \in DOMAIN node.props => StringProp(node, "accessibilityLabel")

(* event_callback: a component that takes input emits an event for it.     *)
HasCallback(node, input) == input \in DOMAIN node.events

(* One operator for each kind of component: can it be translated?          *)
RenderText(node) ==
    /\ StringProp(node, "text")
    /\ "color" \in DOMAIN node.props => node.props.color.literal.says = "colour"

RenderButton(node) == StringProp(node, "label") /\ HasCallback(node, "activate")

RenderToggle(node) == SpokenLabel(node) /\ HasCallback(node, "toggle")

RenderMeter(node) == ~FromItem(node, "value") /\ SpokenLabel(node)

RenderBadge(node) == StringProp(node, "label")

RenderSparkline(node) ==
    /\ StringProp(node, "label") /\ ~FromItem(node, "label")
    /\ ~FromItem(node, "values")

RenderList(node) ==
    "items" \in DOMAIN node.props =>
      IF IsBound(node.props["items"]) THEN ~FromItem(node, "items")
      ELSE LET items == node.props["items"].literal.items
           IN \A i \in DOMAIN items : Encodes(items[i])

RenderForEach(node) == node.control.key # ""

(* render_node, without the children: layouts and If always can be, Scroll,*)
(* Icon and Image never.                                                   *)
RendersNode(node) ==
    CASE node.kind = "Text" -> RenderText(node)
      [] node.kind = "Button" -> RenderButton(node)
      [] node.kind = "Toggle" -> RenderToggle(node)
      [] node.kind \in {"Progress", "Gauge"} -> RenderMeter(node)
      [] node.kind = "Badge" -> RenderBadge(node)
      [] node.kind = "Sparkline" -> RenderSparkline(node)
      [] node.kind = "List" -> RenderList(node)
      [] node.kind = "ForEach" -> RenderForEach(node)
      [] OTHER -> node.kind \notin {"Scroll", "Icon", "Image"}

(* The type under which each bindable prop is projected.                   *)
SlotType(kind, name) ==
    CASE name \in {"text", "label", "accessibilityLabel"} -> "string"
      [] name = "checked" -> "boolean"
      [] name = "value" -> "number"
      [] kind = "List" /\ name = "items" -> "string_list"
      [] kind = "Sparkline" /\ name = "values" -> "number_list"

(* render_if, and render_foreach: the items are registered as a string,    *)
(* whatever the array holds.                                               *)
ControlSlots(node) ==
    IF node.kind = "If" THEN Slot(node.control.when, "boolean")
    ELSE Slot(node.control["items"], "string")

SlotsOf(node) ==
    IF Registry[node.kind].control THEN ControlSlots(node)
    ELSE UNION {Slot(node.props[p].binding, SlotType(node.kind, p)) : p \in BoundProps(node)}

Slots(walk) == UNION {SlotsOf(walk[i].node) : i \in DOMAIN walk}

(* render_component: the renderer validates again, translates every        *)
(* component, gives every path one type and keeps the number of paths      *)
(* within the budget.                                                      *)
Renders(doc) ==
    LET walk == Nodes(doc)
        slots == Slots(walk)
    IN /\ ValidDocument(doc)
       /\ \A i \in DOMAIN walk : RendersNode(walk[i].node)
       /\ \A s, t \in slots : s.path = t.path => s.type = t.type
       /\ Cardinality({s.path : s \in slots}) <= MaxBindings

(* path_prop_name: the fields of the path joined by underscores.           *)
PropName(path) ==
    IF path = << >> THEN <<"state">>
    ELSE FlattenSeq([i \in DOMAIN path |-> Words[path[i]]])
=============================================================================
