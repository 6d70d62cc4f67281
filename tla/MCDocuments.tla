---------------------------- MODULE MCDocuments ----------------------------
EXTENDS UiTrees, WidgetView

(* A family of documents: a schema, an initial State and all pairs of the  *)
(* given widgets.                                                          *)
Go == [go |-> Scalar("null")]
Family(schema, initial, views, Root(_)) ==
    {into_document(Root(<<a, b>>), schema, initial, Go) : a \in views, b \in views}

Strings(n) == Array([i \in 1 .. n |-> Chars(1)])
Numbers(n) == Array([i \in 1 .. n |-> Whole(i)])

MCText == StringUpTo(2)
Emit(event) == [emit |-> event, payload |-> Null]

(* A derived struct: every field is required and bounded.                  *)
Clock == [time |-> Rust("String"), on |-> Rust("bool")]
ClockViews ==
    {text_bind(<<"time">>), badge_bind(<<"time">>, "info"), text_bind(<<"on">>),
     if_bind(<<"on">>, text_bind(<<"time">>)), button("plain"),
     [button("plain") EXCEPT !.events = [activate |-> Emit("go")]],
     [button("plain") EXCEPT !.events = [activate |-> Emit("other")]],
     Component("Toggle", [checked |-> Bind(<<"on">>), accessibilityLabel |-> Says("plain")],
               << >>, [toggle |-> Emit("go")]),
     page_state(<<"on">>, <<"on">>, <<"on">>, stack(<< >>), list(<< >>),
                text_literal(Word("control")), text_bind(<<"time">>)),
     page_state(<<"on">>, <<"on">>, <<"on">>, stack(<< >>), list(<< >>),
                text_literal(Chars(1)), text_bind(<<"time">>)),
     with_color_token(text_literal(Chars(1)), "accent"),
     with_color_token(text_literal(Chars(1)), "plain")}
ClockDocs ==
    {build_ftui(Struct(Clock), grid(2, <<a, row(<<b>>)>>), Go) : a \in ClockViews, b \in ClockViews}

(* An optional field of a derived struct starts as null.                   *)
OptionDocs ==
    {build_ftui(Struct([time |-> OptionOf(Rust("String")), trend |-> VecOf(Rust("f64"))]),
                 sparkline_bind(<<"trend">>, "plain", "info"), None)}

(* Lists with a bound, without one, with too large a one, and a list of    *)
(* the wrong type.                                                         *)
ListSchema ==
    ObjectOf({"short", "free", "long", "points"},
             [short |-> ArrayOf(MCText, 2), free |-> ArrayOf(MCText, Unlimited),
              long |-> ArrayOf(MCText, 3), points |-> ArrayOf(Scalar("integer"), 2)], FALSE)
ListInitial ==
    Object([short |-> Strings(0), free |-> Strings(0), long |-> Strings(0),
            points |-> Numbers(0)])
ListViews ==
    {list_bind(<<"short">>), list_bind(<<"free">>), list_bind(<<"long">>),
     list_bind(<<"points">>), sparkline_bind(<<"points">>, "plain", "danger"),
     sparkline_bind(<<"short">>, "plain", "danger"),
     ControlNode("ForEach", [items |-> StatePath(<<"free">>), key |-> "value",
                             template |-> Leaf("Text", [text |-> Bound(ItemPath(<<"value">>))])])}

(* Nested objects, optional fields and fields the schema does not name.    *)
DeepSchema ==
    ObjectOf({"in", "a_b"},
             [in |-> ObjectOf({"pct"}, [pct |-> Scalar("number"), note |-> MCText], FALSE),
              a_b |-> MCText, a |-> ObjectOf({}, [b |-> MCText], TRUE)], TRUE)
DeepInitial ==
    Object([in |-> Object([pct |-> Whole(0)]), a_b |-> Chars(0)])
DeepViews ==
    {progress_bind_labeled(<<"in", "pct">>, "plain"), text_bind(<<"in", "note">>),
     text_bind(<<"a_b">>), text_bind(<<"a", "b">>), text_bind(<<"in">>), text_bind(<<"free">>),
     Leaf("Icon", [name |-> Bind(<<"a_b">>)])}

MCDocs == ClockDocs \cup OptionDocs
            \cup Family(ListSchema, ListInitial, ListViews, column)
            \cup Family(DeepSchema, DeepInitial, DeepViews, LAMBDA kids : responsive(240, kids))

MCWords == [f \in {"time", "on", "trend", "short", "free", "long", "points", "in", "pct",
                   "note", "a", "b"} |-> <<f>>] @@ [a_b |-> <<"a", "b">>]

(* What the guests submit: values that fit and values that do not, fields  *)
(* that come and go, and a patch too large.                                *)
ClockPatches ==
    {Object([time |-> Chars(2)]), Object([time |-> Chars(3)]), Object([on |-> Bool(TRUE)]),
     Object([time |-> Null, on |-> Bool(FALSE)]), Chars(1)}
ListPatches ==
    {Object([short |-> Strings(2)]), Object([free |-> Strings(3)]), Object([long |-> Strings(3)]),
     Object([points |-> Numbers(2)]), Object([points |-> Array(<<Fraction(1)>>)]),
     Object([free |-> Numbers(12)])}
DeepPatches ==
    {Object([in |-> Object([pct |-> Fraction(1), note |-> Chars(1)])]),
     Object([in |-> Object([note |-> Null])]), Object([in |-> Null]),
     Object([a |-> Object([b |-> Chars(1)])]), Object([a |-> Object([b |-> Null])]),
     Object([a |-> Null]), Object([free |-> Object([x |-> Object([y |-> Null])])])}

MCPatches(d) ==
    CASE d.schema = ListSchema -> ListPatches
      [] d.schema = DeepSchema -> DeepPatches
      [] OTHER -> ClockPatches
=============================================================================
