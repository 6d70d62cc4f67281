------------------------------- MODULE Packages -------------------------------
(***************************************************************************)
(* A .floatile package and what becomes of it: the archive as              *)
(* floatile-cli package.rs validates it (with the rules of floatile-core   *)
(* manifest.rs), how build.rs makes one, the directory install.rs stages    *)
(* from it, and that directory as floatile-store installation.rs reads it. *)
(*                                                                         *)
(* A path is the sequence of its segments.  The content of a file is a     *)
(* record of what its readers tell apart; a digest identifies the content  *)
(* it was taken of, so a package stands for the digest of its files.       *)
(***************************************************************************)
EXTENDS Naturals, FiniteSets, SequencesExt

CONSTANTS
    Bundles,     \* package contents, each the digest of its files
    Archive,     \* the archive of each: its bytes and its entries in order
    Lower,       \* the lower case of the segments that have capitals
    Hidden,      \* segments that begin with a dot, other than . and ..
    Backslashed, \* segments with a backslash or a NUL
    UiNames,     \* segments that end in .ftui
    LogicNames,  \* segments that end in .wasm
    MaxArchive, MaxEntries, MaxEntry, MaxTotal, MaxRatio, \* PackageLimits
    MaxSchemaBytes, MaxSchemaDepth,
    Contract,    \* the world a component exports: widget-contract
    Host         \* the interfaces of floatile:widget and of WASI

Manifest   == <<"manifest.json">>
Metadata   == <<"install.json">>
Signature  == <<"signature.json">>
Undeclared == <<>>  \* a manifest without config

EngineMajor == 1
Longest == [id |-> 128, name |-> 256, description |-> 1024, publisherName |-> 256]

-----------------------------------------------------------------------------
(* Validating an archive.                                                  *)

ValidPath(path) ==
    /\ path # <<>>
    /\ path[1] \notin Hidden
    /\ \A i \in DOMAIN path : path[i] \notin {"", ".", ".."} \cup Backslashed

LowerPath(path) == [i \in DOMAIN path |->
    IF path[i] \in DOMAIN Lower THEN Lower[path[i]] ELSE path[i]]

\* A directory's name ends in a slash, so that its last segment is empty.
SafeEntry(e) ==
    /\ ValidPath(e.path)
    /\ e.kind # "special"
    /\ e.size <= MaxEntry
    /\ e.packed > 0 => e.size \div e.packed <= MaxRatio

SafeArchive(a) ==
    /\ a.bytes <= MaxArchive
    /\ Len(a.entries) <= MaxEntries
    /\ \A i \in DOMAIN a.entries :
        /\ SafeEntry(a.entries[i])
        /\ \A j \in DOMAIN a.entries :
            LowerPath(a.entries[i].path) = LowerPath(a.entries[j].path) => i = j
    /\ FoldSeq(LAMBDA e, total : total + e.size, 0, a.entries) <= MaxTotal

\* The files of an archive; its directories are not written.
Files(a) == {i \in DOMAIN a.entries : a.entries[i].kind = "file"}
PathsOf(a) == {a.entries[i].path : i \in Files(a)}
ContentOf(a, path) ==
    a.entries[CHOOSE i \in Files(a) : a.entries[i].path = path].content

Holds(a, path, role) == path \in PathsOf(a) /\ ContentOf(a, path).role = role

\* A plugin's name is the sequence of its parts between the dots.
ValidPluginId(id) ==
    /\ id # <<>>
    /\ \A i \in DOMAIN id : id[i] \notin {""} \cup DOMAIN Lower \cup Backslashed

ValidSizes(z) ==
    \A d \in {"width", "height"} :
        0 < z.min[d] /\ z.min[d] <= z.default[d] /\ z.default[d] <= z.max[d]

\* semver: the version is one; permitted: permissions and templates keep to
\* the rules, which are those of module Permissions.
ValidateManifest(m) ==
    /\ m.manifestVersion = 1
    /\ ValidPluginId(m.id) /\ m.semver
    /\ m.length["name"] > 0 /\ m.length["publisherId"] > 0
    /\ \A f \in DOMAIN Longest : m.length[f] <= Longest[f]
    /\ m.engineMajor = EngineMajor /\ m.uiMajor = 1
    /\ m.type = "widget"
    /\ ValidSizes(m.sizes)
    /\ m.permitted

ValidateEntrypoints(m) ==
    /\ ValidPath(m.ui) /\ ValidPath(m.logic)
    /\ Last(m.ui) \in UiNames /\ Last(m.logic) \in LogicNames

\* The schema is bounded and refers to nothing outside itself; whether it
\* compiles is found out when a configuration is held against it.
ValidateConfigSchema(s) ==
    /\ s.size <= MaxSchemaBytes
    /\ s.object
    /\ s.depth <= MaxSchemaDepth
    /\ ~s.external

ValidateWasm(w) == w.imports \subseteq Host /\ Contract \in w.exports

\* Mutant of ValidatePackage: the schema that is declared need not be there.
ValidatePackageAnySchema(a) ==
    /\ SafeArchive(a)
    /\ Holds(a, Manifest, "manifest") /\ ValidateManifest(ContentOf(a, Manifest))
    /\ LET m == ContentOf(a, Manifest) IN
       /\ ValidateEntrypoints(m)
       /\ Holds(a, m.ui, "ui") /\ ContentOf(a, m.ui).valid
       /\ Holds(a, m.logic, "logic") /\ ValidateWasm(ContentOf(a, m.logic))

ValidatePackage(a) ==
    /\ SafeArchive(a)
    /\ Holds(a, Manifest, "manifest") /\ ValidateManifest(ContentOf(a, Manifest))
    /\ LET m == ContentOf(a, Manifest) IN
       /\ ValidateEntrypoints(m)
       /\ Holds(a, m.ui, "ui") /\ ContentOf(a, m.ui).valid
       /\ Holds(a, m.logic, "logic") /\ ValidateWasm(ContentOf(a, m.logic))
       /\ m.config # Undeclared =>
            /\ ValidPath(m.config)
            /\ Holds(a, m.config, "schema") /\ ValidateConfigSchema(ContentOf(a, m.config))

-----------------------------------------------------------------------------
(* Building a package from a project (project.rs, build.rs).               *)

Unsaid   == "unsaid"
NotBuilt == [bytes |-> 0, entries |-> <<>>]

DefaultSizes == [default |-> [width |-> 240, height |-> 120],
                 min     |-> [width |-> 160, height |-> 80],
                 max     |-> [width |-> 800, height |-> 600]]

\* An author who names no publisher is one, under the plugin's id and name.
PublisherLengths(p) ==
    IF p.publisher = Unsaid THEN [id |-> p.length.id, name |-> p.length.name] ELSE p.publisher

\* generate_manifest; its permissions are those of module Permissions.
GeneratedManifest(p) ==
    [role |-> "manifest", manifestVersion |-> 1, id |-> p.id,
     semver |-> p.semver, version |-> p.version,
     engineMajor |-> EngineMajor, uiMajor |-> 1, type |-> "widget",
     length |-> [id |-> p.length.id, name |-> p.length.name, description |-> 0,
                 publisherId |-> PublisherLengths(p).id,
                 publisherName |-> PublisherLengths(p).name],
     sizes |-> [z \in DOMAIN DefaultSizes |->
                   IF p.sizes[z] = Unsaid THEN DefaultSizes[z] ELSE p.sizes[z]],
     permitted |-> p.permitted,
     ui |-> <<"ui", "widget.ftui">>, logic |-> <<"logic", "plugin.wasm">>,
     config |-> Undeclared]

\* cargo metadata lists the members of a workspace; the one whose Cargo.toml
\* this is gives the name of the compiled file.
PackageName(p) ==
    IF \E m \in p.members : m.path = p.path
    THEN (CHOOSE m \in p.members : m.path = p.path).name ELSE Unsaid

\* What cargo leaves under that name, and what build_ftui prints.
Compiled(p) == PackageName(p) \in DOMAIN p.artifacts
Drawn(p)    == p.printed.role = "ui"

Packed(manifest, ui, logic) ==
    LET entry(path, content) == [path |-> path, kind |-> "file", size |-> 2, packed |-> 1,
                                 content |-> content]
    IN [bytes |-> 3, entries |-> <<entry(Manifest, manifest), entry(manifest.ui, ui),
                                   entry(manifest.logic, logic)>>]

\* build_project, and package, which writes nothing that it would not accept.
Built(p) ==
    LET m == GeneratedManifest(p)
        a == Packed(m, p.printed, p.artifacts[PackageName(p)])
    IN IF Compiled(p) /\ Drawn(p) /\ p.described /\ ValidateManifest(m) /\ ValidatePackage(a)
       THEN a ELSE NotBuilt

-----------------------------------------------------------------------------
(* The directory of an installation.                                       *)

\* The files of each package, its paths and its manifest.
File == [b \in Bundles |-> [path \in PathsOf(Archive[b]) |-> ContentOf(Archive[b], path)]]
BundlePaths(b)    == DOMAIN File[b]
BundleManifest(b) == File[b][Manifest]
VersionOf(b)      == BundleManifest(b).version

\* What may be installed at all.
Valid == {b \in Bundles : ValidatePackage(Archive[b])}

\* write_staging creates the directories of a path: none of them may be a file.
Stageable(b) == \A p, q \in BundlePaths(b) : ~IsStrictPrefix(p, q)

\* Files are compared one by one and as a whole with install.json, which is
\* written after them, over a file of that name.
Staged(b, trust) == [bundle |-> b, trust |-> trust,
                     altered |-> BundlePaths(b) \cap {Metadata}, readable |-> TRUE]

LoadFromDir(d) ==
    /\ d.readable
    /\ d.altered = {}
    /\ ValidateManifest(BundleManifest(d.bundle))

\* list_highest passes over directories whose name has no dot.
ListedId(id) == ValidPluginId(id) /\ Len(id) > 1

\* InstalledInstallation::file, of an entry point or the schema.
HasEntrypoints(b) ==
    {BundleManifest(b).ui, BundleManifest(b).logic} \subseteq BundlePaths(b)

\* validate_config: without a schema only the empty configuration is taken.
AcceptsConfig(b, config, empty) ==
    LET path == BundleManifest(b).config IN
    IF path = Undeclared THEN config = empty
    ELSE /\ path \in BundlePaths(b)
         /\ LET s == File[b][path] IN
            ~s.external /\ s.compiles /\ config \in s.accepts

-----------------------------------------------------------------------------
(* Trust in a publisher, and in what it signed.                            *)

UnknownPublisher == [known |-> FALSE, active |-> FALSE, keys |-> {}, revoked |-> {}]

\* verify_signature_envelope against the publisher's verifier_binding.
Verifies(b, publisher) ==
    /\ publisher.known /\ publisher.active
    /\ Signature \in BundlePaths(b)
    /\ LET s == File[b][Signature] IN
       /\ s.over = b
       /\ s.by \cap publisher.revoked = {}
       /\ s.by \cap publisher.keys # {}
=============================================================================
