------------------------------ MODULE MCLoading ------------------------------
(***************************************************************************)
(* One plugin in two versions, the first signed and the second in two      *)
(* contents, with packages the installer refuses, one that cannot be       *)
(* staged, and one with an install.json of its own.                        *)
(***************************************************************************)
EXTENDS Loading

CONSTANTS one, two, other, alien, folder, twins, bomb, bare, dotted, foreign, nested, huge, broad, unnamed,
          k1, k2, c0, c1, widget

Entry(path, content) == [path |-> path, kind |-> "file", size |-> 2, packed |-> 1,
                         content |-> content]

Ui    == <<"ui", "widget.ftui">>
Logic == <<"logic", "plugin.wasm">>
Config == <<"config.schema.json">>
Blob  == [role |-> "data"]

Size(n) == [width |-> n, height |-> n]

ManifestOf(v, config) ==
    [role |-> "manifest", manifestVersion |-> 1, id |-> <<"dev", "floatile", "clock">>,
     semver |-> TRUE, version |-> v, engineMajor |-> 1, uiMajor |-> 1, type |-> "widget",
     length |-> [id |-> 18, name |-> 5, description |-> 0, publisherId |-> 3, publisherName |-> 9],
     sizes |-> [min |-> Size(1), default |-> Size(2), max |-> Size(3)], permitted |-> TRUE,
     ui |-> Ui, logic |-> Logic, config |-> config]
Schema(accepts) == [role |-> "schema", size |-> 1, object |-> TRUE, depth |-> 1,
                    external |-> FALSE, compiles |-> TRUE, accepts |-> accepts]
Component(imports) == [role |-> "logic", imports |-> imports, exports |-> {Contract}]
Signed(b, keys) == Entry(Signature, [role |-> "signature", over |-> b, by |-> keys])

Basic(v, config) ==
    <<Entry(Manifest, ManifestOf(v, config)),
      Entry(Ui, [role |-> "ui", valid |-> TRUE]),
      Entry(Logic, Component({widget}))>>

Declaring(entries, manifest) == [entries EXCEPT ![1].content = manifest]

\* A workspace of two members, one of them the clock.
Project(v, sizes) ==
    [id |-> <<"dev", "floatile", "clock">>, semver |-> TRUE, version |-> v,
     length |-> [id |-> 18, name |-> 5], publisher |-> Unsaid, sizes |-> sizes,
     permitted |-> TRUE, described |-> TRUE, path |-> "clock/Cargo.toml",
     members |-> {[path |-> "clock/Cargo.toml", name |-> "clock"],
                  [path |-> "web/Cargo.toml", name |-> "web"]},
     artifacts |-> [n \in {"clock"} |-> Component({widget})],
     printed |-> [role |-> "ui", valid |-> TRUE]]
AnySizes == [z \in DOMAIN DefaultSizes |-> Unsaid]

Zipped(entries) == [bytes |-> Len(entries), entries |-> entries]

MCArchive == [b \in Bundles |-> IF b = other THEN Built(Project(2, AnySizes)) ELSE Zipped(
    CASE b = one     -> Basic(1, Config) \o <<Entry(Config, Schema({c0, c1})), Signed(b, {k1})>>
      [] b = two     -> Basic(2, Config) \o <<Entry(Config, Schema({c1}))>>
      [] b = alien   -> Append(Basic(2, Undeclared), Entry(Metadata, Blob))
      [] b = folder  -> Append(Basic(3, Undeclared), [Entry(<<"ui", "">>, Blob) EXCEPT !.kind = "directory"])
      [] b = twins   -> Append(Basic(3, Undeclared), Entry(<<"UI", "widget.ftui">>, Blob))
      [] b = bomb    -> Append(Basic(3, Undeclared), [Entry(<<"x">>, Blob) EXCEPT !.size = 4])
      [] b = bare    -> Basic(3, Config)
      [] b = dotted  -> Append(Basic(3, Undeclared), Entry(<<"x", "..">>, Blob))
      [] b = foreign -> [Basic(3, Undeclared) EXCEPT ![3].content = Component({"net"})]
      [] b = broad   -> Declaring(Basic(3, Undeclared),
                            [ManifestOf(3, Undeclared) EXCEPT !.sizes.default = Size(4)])
      [] b = unnamed -> Declaring(Basic(3, Undeclared),
                            [ManifestOf(3, Undeclared) EXCEPT !.id = <<"dev", "", "clock">>])
      [] b = nested  -> Append(Basic(3, Undeclared), Entry(<<"ui">>, Blob))
      [] b = huge    -> Append(Append(Basic(3, Config), Entry(Config, [Schema({}) EXCEPT !.depth = 3])),
                               Entry(<<"x">>, Blob)))]

MCVersions == {[number |-> MCArchive[b].entries[1].content.version, digest |-> b] :
                   b \in Valid}
MCLower == [s \in {"UI"} |-> "ui"]

Busy == {e \in Editors : edit[e] # None}
Moved == now > 0 \/ \E id \in Ids : record[id] # None /\ record[id].updated > 0

\* What is done to the host and around it, in all: less with two instances,
\* and less still while two commands are under way or after the clock has
\* moved.
Inputs ==
    /\ edits + changes + starts <= IF nextId > 2 THEN 4 ELSE 5
    /\ edits > 2 => starts + changes <= 1
    /\ Cardinality(Busy) = 2 => starts + changes = 0 /\ nextId <= 2
    /\ Moved => edits + starts <= 3 /\ changes = 0 /\ nextId <= 2

AnyEditor == Permutations(Editors)
=============================================================================
