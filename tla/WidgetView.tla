----------------------------- MODULE WidgetView -----------------------------
(***************************************************************************)
(* How an author's widget becomes a document: the State that a Rust struct *)
(* stands for (floatile-sdk-macros), the view builders and the document    *)
(* they end up in (floatile-sdk: view.rs, build.rs).                       *)
(***************************************************************************)
EXTENDS UiSchema

CONSTANTS UiMinor,          \* the minor of UI_API_VERSION, 1.6.0
          DerivedMaxLength, \* the maxLength of a derived String, 64
          DerivedMaxItems   \* the maxItems of a derived Vec, 16

(* Rust types: [rust |-> name] with "of" for Vec and Option and "fields"   *)
(* for a nested State.                                                     *)
Rust(t) == [rust |-> t]
VecOf(t) == [rust |-> "Vec", of |-> t]
OptionOf(t) == [rust |-> "Option", of |-> t]
Struct(fields) == [rust |-> "struct", fields |-> fields]

RECURSIVE TypeToSchema(_)
TypeToSchema(type) ==
    CASE type.rust = "String" -> StringUpTo(DerivedMaxLength)
      [] type.rust = "bool" -> Scalar("boolean")
      [] type.rust = "i64" -> Scalar("integer")
      [] type.rust = "f64" -> Scalar("number")
      [] type.rust = "Vec" -> ArrayOf(TypeToSchema(type.of), DerivedMaxItems)
      [] type.rust = "Option" -> TypeToSchema(type.of)
      [] type.rust = "struct" ->
           ObjectOf({f \in DOMAIN type.fields : type.fields[f].rust # "Option"},
                    [f \in DOMAIN type.fields |-> TypeToSchema(type.fields[f])], FALSE)

(* The default of a type, as serde writes it: None is null, also where the *)
(* derived schema knows nothing of null.                                   *)
RECURSIVE TypeToDefault(_)
TypeToDefault(type) ==
    CASE type.rust = "String" -> Chars(0)
      [] type.rust = "bool" -> Bool(FALSE)
      [] type.rust = "i64" -> Whole(0)
      [] type.rust = "f64" -> Fraction(0)
      [] type.rust = "Vec" -> Array(<< >>)
      [] type.rust = "Option" -> Null
      [] type.rust = "struct" ->
           Object([f \in DOMAIN type.fields |-> TypeToDefault(type.fields[f])])

-----------------------------------------------------------------------------
Container(kind, children) == Component(kind, None, children, None)
Leaf(kind, props) == Component(kind, props, << >>, None)
Bind(path) == Bound(StatePath(path))
Says(word) == Literal(Word(word))

column(children) == Container("Column", children)
row(children) == Container("Row", children)
stack(children) == Container("Stack", children)
grid(columns, children) ==
    Component("Grid", [columns |-> Literal(Whole(columns))], children, None)
responsive(breakpoint, children) ==
    Component("Responsive", [breakpoint |-> Literal(Fraction(breakpoint))], children, None)
list(children) == Container("List", children)
list_bind(path) == Leaf("List", [items |-> Bind(path)])
text_bind(path) == Leaf("Text", [text |-> Bind(path)])
text_literal(s) == Leaf("Text", [text |-> Literal(s)])
button(label) == Leaf("Button", [label |-> Says(label)])
badge_bind(path, tone) == Leaf("Badge", [label |-> Bind(path), tone |-> Says(tone)])
progress_bind_labeled(path, label) ==
    Leaf("Progress", [value |-> Bind(path), accessibilityLabel |-> Says(label)])
sparkline_bind(path, label, tone) ==
    Leaf("Sparkline", [values |-> Bind(path), label |-> Says(label), tone |-> Says(tone)])
if_bind(path, then_view) == ControlNode("If", [when |-> StatePath(path), then |-> then_view])
if_else_bind(path, then_view, else_view) ==
    ControlNode("If", [when |-> StatePath(path), then |-> then_view, else |-> else_view])
page_state(loading_path, error_path, empty_path, loading, error, empty, content) ==
    if_else_bind(loading_path, loading,
                 if_else_bind(error_path, error,
                              if_else_bind(empty_path, empty, content)))

with_props(view, props) == [view EXCEPT !.props = props @@ @]
with_color_token(view, token) == with_props(view, [colorToken |-> Says(token)])

(* into_document: the newest UI API version and whatever else it is given. *)
into_document(root, schema, initial, events) ==
    [json |-> TRUE, bytes |-> 1, major |-> 1, minor |-> UiMinor,
     schema |-> schema, initial |-> initial, events |-> events, root |-> root]

(* build_ftui: schema and initial State come from the struct.              *)
build_ftui(struct, root, events) ==
    into_document(root, TypeToSchema(struct), TypeToDefault(struct), events)
=============================================================================
