----------------------------- MODULE Permissions -----------------------------
(***************************************************************************)
(* What a widget may do: the permissions its author asks for, as the tools *)
(* write them into its manifest (floatile-cli project.rs), as they are     *)
(* parsed and validated (floatile-core capability.rs, manifest.rs),        *)
(* compared when a version is installed or an instance rolled back         *)
(* (distribution.rs, floatile-cli install.rs, instance.rs), turned into    *)
(* the grants of a session (floatile-shell runtime_ui.rs) and decided on   *)
(* by its broker, with the storage quota behind them (floatile-services    *)
(* broker.rs, storage.rs).                                                 *)
(*                                                                         *)
(* One plugin.  Its versions are numbers; storage keys and origins that    *)
(* keep to the rules are Names; quotas are small numbers.                  *)
(***************************************************************************)
EXTENDS Naturals, SequencesExt, FiniteSetsExt, Functions

CONSTANTS
    Packages,     \* manifests somebody may try to install
    Versions,     \* their versions: semver order is number order
    Instances,    \* rows of plugin_instances
    Names,        \* valid storage keys and HTTPS origins
    Default,      \* quota taken when params leave it out (by its name)
    Least, Most,  \* what the parser accepts for a quota (by its name)
    MaxOrigins,   \* origins of one declaration: 16
    OriginOf,     \* what the URL parser makes of an origin's text
    Sizes,        \* lengths of values a guest stores
    MaxInstalls,  \* installations (a bound on inputs)
    Omitted,      \* params or a field of them that is not there
    NoParams,     \* a capability without params
    Invalid       \* params, or an origin, that a parser refuses

Inherent == {"ui:update-state", "log:write", "clock:read"}
Declarable == {"storage:read", "storage:write", "timer:schedule",
               "theme:subscribe", "system:cpu", "system:memory", "network:https"}
Capabilities == Inherent \cup Declarable

\* CAPABILITY_REGISTRY: the family of params each capability takes.
KindOf(c) == CASE c \in {"storage:read", "storage:write"} -> "storage"
               [] c = "timer:schedule"                    -> "timer"
               [] c = "system:cpu"                        -> "metrics"
               [] c = "network:https"                     -> "network"
               [] OTHER                                   -> "none"

QuotasOf == [storage |-> {"maxBytes"},
             timer   |-> {"maxPerMinute", "maxActive"},
             metrics |-> {"sampleRateHz"},
             network |-> {"maxRequestsPerMinute", "maxResponseBytes", "maxTimeoutMs"}]
Kinds  == DOMAIN QuotasOf
Quotas == UNION {QuotasOf[k] : k \in Kinds}

ASSUME PermissionsAssumption ==
    /\ Versions \subseteq Nat \ {0} /\ Sizes \subseteq Nat
    /\ MaxOrigins \in Nat /\ MaxInstalls \in Nat
    /\ Default \in [Quotas -> Nat] /\ Least \in [Quotas -> Nat] /\ Most \in [Quotas -> Nat]
    /\ \A q \in Quotas : Least[q] <= Default[q]
    /\ Least["maxRequestsPerMinute"] >= 1
    /\ \A p \in Packages :
        /\ p.version \in Versions
        /\ DOMAIN p.permissions \subseteq Nat
        /\ \A i \in DOMAIN p.permissions :
                LET json == p.permissions[i].json IN
                json = Omitted \/ \A q \in DOMAIN json.quota : json.quota[q] \in Nat
        /\ \A t \in p.templates :
                t.quota["maxResponseBytes"] \in Nat /\ t.quota["maxTimeoutMs"] \in Nat

\* No rule of the manifest refuses a capability that is declared twice, but
\* the comparison of manifests then takes the last declaration and the broker
\* the first.  It is left out here.
ASSUME DeclaredOnce ==
    \A p \in Packages : \A i, j \in DOMAIN p.permissions :
        p.permissions[i].cap = p.permissions[j].cap => i = j

\* An origin is a text.  OriginOf is the origin() of the url crate written
\* out again: the host in lower case and no default port, so that two texts
\* may be one origin; Invalid where the crate cannot parse the URL.
ASSUME OriginAssumption ==
    /\ Invalid \notin Names
    /\ \A p \in Packages : \A t \in p.templates : t.origin \in DOMAIN OriginOf

\* CapabilityParams of a kind.  Metrics and timers have no scope: theirs is empty.
ParamsOf(k) == [kind : {k}, scope : SUBSET Names, quota : [QuotasOf[k] -> Nat]]

ASSUME NoParamsAssumption == \A k \in Kinds : NoParams \notin ParamsOf(k)

-----------------------------------------------------------------------------
(* Reading a manifest.                                                     *)

\* params as they are in the document: a scope that may be left out, quotas
\* of which any may be left out, and names nobody knows.
Field(json, q) == IF q \in DOMAIN json.quota THEN json.quota[q] ELSE Default[q]
Scope(json) == IF json.scope = Omitted THEN {} ELSE json.scope

\* Origins are named, each once, and neither none nor too many.
ValidOrigins(origins) ==
    origins \subseteq Names /\ Cardinality(origins) \in 1..MaxOrigins

WellFormed(c, json) ==
    LET k == KindOf(c) IN
    /\ DOMAIN json.quota \subseteq QuotasOf[k]
    /\ \A q \in DOMAIN json.quota : Least[q] <= json.quota[q] /\ json.quota[q] <= Most[q]
    /\ k \in {"timer", "metrics"} => json.scope = Omitted
    /\ k = "storage" => Scope(json) \subseteq Names
    /\ k = "network" => ValidOrigins(Scope(json))

DefaultParams(c) ==
    LET k == KindOf(c) IN
    CASE k = "none"    -> NoParams
      [] k = "network" -> Invalid
      [] OTHER -> [kind |-> k, scope |-> {}, quota |-> Restrict(Default, QuotasOf[k])]

ParseCapabilityParams(c, json) ==
    LET k == KindOf(c) IN
    CASE json = Omitted -> DefaultParams(c)
      [] json # Omitted /\ k = "none" -> Invalid
      [] json # Omitted /\ k # "none" ->
            IF WellFormed(c, json)
            THEN [kind |-> k, scope |-> Scope(json),
                  quota |-> [q \in QuotasOf[k] |-> Field(json, q)]]
            ELSE Invalid

\* The declarations of a capability, the first and the last of which are
\* what different readers take.
Declared(m) == {m.permissions[i].cap : i \in DOMAIN m.permissions}
Places(m, c) == {i \in DOMAIN m.permissions : m.permissions[i].cap = c}
ParamsAt(m, i) == ParseCapabilityParams(m.permissions[i].cap, m.permissions[i].json)
FirstPlace(m, c) == CHOOSE i \in Places(m, c) : \A j \in Places(m, c) : i <= j
LastPlace(m, c)  == CHOOSE i \in Places(m, c) : \A j \in Places(m, c) : j <= i

ValidatePermission(d) ==
    /\ d.cap \in Declarable
    /\ ParseCapabilityParams(d.cap, d.json) # Invalid

\* Mutant of TemplateFits: the origin alone is compared.
TemplateFitsOrigin(t, net) ==
    /\ t.origin \in net.scope
    /\ t.quota["maxResponseBytes"] \in 1..Most["maxResponseBytes"]
    /\ t.quota["maxTimeoutMs"] \in Least["maxTimeoutMs"]..Most["maxTimeoutMs"]

\* A template stays within the first declaration of network:https.
TemplateFits(t, net) ==
    /\ t.origin \in net.scope
    /\ t.quota["maxResponseBytes"] \in 1..net.quota["maxResponseBytes"]
    /\ t.quota["maxTimeoutMs"] \in Least["maxTimeoutMs"]..net.quota["maxTimeoutMs"]

ValidateHttpTemplates(m) ==
    m.templates # {} =>
        /\ "network:https" \in Declared(m)
        /\ \A t \in m.templates : TemplateFits(t, ParamsAt(m, FirstPlace(m, "network:https")))

\* sound: names, versions, entry points, sizes and the texts of templates
\* keep to their rules.
ValidateManifest(m) ==
    /\ m.sound
    /\ \A i \in DOMAIN m.permissions : ValidatePermission(m.permissions[i])
    /\ ValidateHttpTemplates(m)

-----------------------------------------------------------------------------
(* A manifest made from floatile.toml.  A project has settings for some    *)
(* sections: a scope that may be empty, and quotas that may be left out.   *)

Sections == [storage       |-> {"storage:read", "storage:write"},
             timer         |-> {"timer:schedule"},
             theme         |-> {"theme:subscribe"},
             metrics       |-> {"system:cpu", "system:memory"},
             httpTemplates |-> {"network:https"}]

SectionOf(c) == CHOOSE s \in DOMAIN Sections : c \in Sections[s]

\* Every capability takes the settings that are params of its own.
ParamsJson(c, settings) ==
    LET k == KindOf(c)
        scope == IF k \in {"storage", "network"} /\ settings.scope # {}
                 THEN settings.scope ELSE Omitted
        quotas == IF k = "none" THEN {} ELSE QuotasOf[k] \cap DOMAIN settings.quota
    IN  IF scope = Omitted /\ quotas = {} THEN Omitted
        ELSE [scope |-> scope, quota |-> Restrict(settings.quota, quotas)]

\* generate_manifest: a section nobody knows is refused.
GeneratedPermissions(project) ==
    IF ~(DOMAIN project \subseteq DOMAIN Sections) THEN Invalid
    ELSE LET asked == SetToSeq(UNION {Sections[s] : s \in DOMAIN project}) IN
         [i \in DOMAIN asked |->
            [cap |-> asked[i], json |-> ParamsJson(asked[i], project[SectionOf(asked[i])])]]

-----------------------------------------------------------------------------
(* Comparing two manifests.                                                *)

\* A BTreeMap is collected from the declarations: the last one stays.
ParsedPermissions(m) == [c \in Declared(m) |-> ParamsAt(m, LastPlace(m, c))]

QuotasWithin(p, q) == \A l \in DOMAIN q.quota : p.quota[l] <= q.quota[l]

\* Mutant of KeyScopeWithin: no keys taken for the narrowest scope.
KeyScopeEmptyIsNone(candidate, current) ==
    current = {} \/ candidate \subseteq current

\* No storage keys means every key.
KeyScopeWithin(candidate, current) ==
    current = {} \/ (candidate # {} /\ candidate \subseteq current)

ParamsWithin(candidate, current) ==
    \/ candidate = NoParams /\ current = NoParams
    \/ /\ candidate # NoParams /\ current # NoParams
       /\ candidate.kind = current.kind
       /\ IF current.kind = "storage"
          THEN KeyScopeWithin(candidate.scope, current.scope)
          ELSE candidate.scope \subseteq current.scope
       /\ QuotasWithin(candidate, current)

ChangeOf(current, candidate, c) ==
    CASE c \notin DOMAIN current                     -> "added"
      [] c \notin DOMAIN candidate                   -> "removed"
      [] c \in DOMAIN current \cap DOMAIN candidate ->
            IF current[c] = candidate[c] THEN "unchanged"
            ELSE IF ParamsWithin(candidate[c], current[c]) THEN "reduced" ELSE "expanded"

PermissionChanges(current, candidate) ==
    LET old == ParsedPermissions(current)
        new == ParsedPermissions(candidate)
    IN [c \in DOMAIN old \cup DOMAIN new |-> ChangeOf(old, new, c)]

Widens(current, candidate) ==
    \E c \in Declared(current) \cup Declared(candidate) :
        PermissionChanges(current, candidate)[c] \in {"added", "expanded"}

UpgradeFits(current, candidate) ==
    /\ current.publisher = candidate.publisher
    /\ current.version < candidate.version
    /\ current.migration <= candidate.migration

\* Mutant of RollbackFits: added capabilities are not looked at.
RollbackFitsWidening(current, target) ==
    /\ current.publisher = target.publisher
    /\ target.version < current.version
    /\ current.migration = target.migration
    /\ \A c \in Declared(current) : PermissionChanges(current, target)[c] # "expanded"

RollbackFits(current, target) ==
    /\ current.publisher = target.publisher
    /\ target.version < current.version
    /\ current.migration = target.migration
    /\ ~Widens(current, target)

-----------------------------------------------------------------------------
(* The grants of a session and the broker's decision.                      *)

\* Params of an instance under those of the plugin (capability.rs).
InstanceWithin(plugin, instance) ==
    \/ instance = NoParams
    \/ /\ plugin # NoParams
       /\ plugin.kind = instance.kind
       /\ \/ plugin.kind = "storage" /\ plugin.scope = {}
          \/ instance.scope \subseteq plugin.scope
       /\ QuotasWithin(instance, plugin)

\* The manifest's declarations narrowed to themselves: a later declaration
\* of a capability must be within the first.
NarrowInstance(m) ==
    \A i \in DOMAIN m.permissions :
        InstanceWithin(ParamsAt(m, FirstPlace(m, m.permissions[i].cap)), ParamsAt(m, i))

\* Broker::authorize finds the first grant of a capability.
GrantOf(m, c) == ParamsAt(m, FirstPlace(m, c))

Decide(granted, request) ==
    \/ granted = NoParams /\ request = NoParams
    \/ /\ granted # NoParams /\ request # NoParams
       /\ granted.kind = request.kind
       /\ \/ granted.kind = "storage" /\ granted.scope = {}
          \/ request.scope \subseteq granted.scope
       /\ QuotasWithin(request, granted)

Authorize(m, c, request) ==
    \/ c \in Inherent /\ request = NoParams
    \/ c \in Declared(m) /\ Decide(GrantOf(m, c), request)

\* Broker::new takes the quota of the last grant of storage:write.
StorageQuota(m) ==
    IF "storage:write" \in Declared(m)
    THEN ParamsAt(m, LastPlace(m, "storage:write")).quota["maxBytes"]
    ELSE Default["maxBytes"]

StorageRequest(k, n) == [kind |-> "storage", scope |-> {k}, quota |-> [maxBytes |-> n]]
TimerRequest  == [kind |-> "timer", scope |-> {},
                  quota |-> [maxPerMinute |-> 1, maxActive |-> 1]]
SampleRequest == [kind |-> "metrics", scope |-> {}, quota |-> [sampleRateHz |-> 1]]
\* The broker is asked with the origin of the parsed URL, not with the text
\* the manifest was validated by; a URL that does not parse is never asked for.
HttpsRequest(t) ==
    [kind |-> "network", scope |-> {OriginOf[t.origin]},
     quota |-> [maxRequestsPerMinute |-> 1,
                maxResponseBytes |-> t.quota["maxResponseBytes"],
                maxTimeoutMs |-> t.quota["maxTimeoutMs"]]]

Templates == UNION {p.templates : p \in Packages}
Askable == {t \in Templates : OriginOf[t.origin] # Invalid}

\* Every pair of a capability and the params a host import asks it with.
Requests ==
    (Inherent \cup {"theme:subscribe", "system:memory"}) \X {NoParams}
    \cup {"storage:read"} \X {StorageRequest(k, 0) : k \in Names}
    \cup {"storage:write"} \X {StorageRequest(k, n) : k \in Names, n \in Sizes \cup {0}}
    \cup {<<"timer:schedule", TimerRequest>>, <<"system:cpu", SampleRequest>>}
    \cup {"network:https"} \X {HttpsRequest(t) : t \in Askable}

\* What the broker of a session of m allows.
Powers(m) == {r \in Requests : Authorize(m, r[1], r[2])}

\* What a reader of the manifest learns that it asks for.
Asked(m) == {r \in Requests :
    \/ r[1] \in Inherent
    \/ \E i \in Places(m, r[1]) : Decide(ParamsAt(m, i), r[2])}

-----------------------------------------------------------------------------
VARIABLES
    installed,  \* the plugin's directory: version -> manifest
    mark,       \* highest version the trust store has accepted
    trusted,    \* versions installed with a signature that was verified
    active,     \* whether the publisher is trusted
    consent,    \* what the user has agreed a version may ask (history)
    bound,      \* the version each instance is bound to
    desired,    \* instances that shall run
    session,    \* the version each session was started with
    data,       \* its storage: lengths by key
    total       \* total_bytes: what the storage counts itself to hold

vars == <<installed, mark, trusted, active, consent, bound, desired, session, data, total>>
catalog  == <<installed, mark, trusted, active, consent>>
rows     == <<bound, desired>>
storage  == <<data, total>>

Absent == 0
Highest == Max(DOMAIN installed \cup {Absent})
Bytes(i) == FoldFunction(+, 0, data[i])

TypeOK ==
    /\ DOMAIN installed \subseteq Versions /\ DOMAIN consent = DOMAIN installed
    /\ \A v \in DOMAIN installed :
            installed[v] \in Packages /\ installed[v].version = v /\ consent[v] \subseteq Requests
    /\ mark \in Versions \cup {Absent}
    /\ trusted \subseteq DOMAIN installed /\ active \in BOOLEAN
    /\ bound \in [Instances -> DOMAIN installed \cup {Absent}]
    /\ session \in [Instances -> DOMAIN installed \cup {Absent}]
    /\ desired \subseteq Instances
    /\ \A i \in Instances : DOMAIN data[i] \subseteq Names /\ Range(data[i]) \subseteq Sizes
    /\ total \in [Instances -> Nat]

NoFunction == [x \in {} |-> x]

Init ==
    /\ installed = NoFunction /\ consent = NoFunction
    /\ mark = Absent /\ trusted = {} /\ active = TRUE
    /\ bound = [i \in Instances |-> Absent] /\ desired = {}
    /\ session = [i \in Instances |-> Absent] /\ data = [i \in Instances |-> NoFunction]
    /\ total = [i \in Instances |-> 0]

Place(p, agreed) ==
    /\ installed' = [v \in DOMAIN installed \cup {p.version} |->
                        IF v = p.version THEN p ELSE installed[v]]
    /\ consent' = [v \in DOMAIN installed \cup {p.version} |->
                        IF v = p.version THEN agreed ELSE consent[v]]

Candidate(p) ==
    /\ Cardinality(DOMAIN installed) < MaxInstalls
    /\ ValidateManifest(p)
    /\ p.version \notin DOMAIN installed

\* install_trusted_package.  A version below the highest one is compared
\* with nothing; whatever it asks counts as agreed to.
InstallTrusted(p, accept) ==
    /\ Candidate(p) /\ p.signed /\ active /\ mark <= p.version
    /\ LET compared == Highest # Absent /\ Highest < p.version
           widens   == compared /\ Widens(installed[Highest], p)
       IN /\ compared => UpgradeFits(installed[Highest], p)
          /\ widens => accept
          /\ Place(p, IF compared /\ ~accept THEN consent[Highest] \cap Asked(p) ELSE Asked(p))
    /\ mark' = p.version
    /\ trusted' = trusted \cup {p.version}
    /\ UNCHANGED <<active, rows, session, storage>>

\* install_package: the local developer's, without comparison.
InstallUnsigned(p) ==
    /\ Candidate(p)
    /\ Place(p, Asked(p))
    /\ UNCHANGED <<mark, trusted, active, rows, session, storage>>

RevokePublisher ==
    /\ active
    /\ active' = FALSE
    /\ UNCHANGED <<installed, mark, trusted, consent, rows, session, storage>>

CreateInstance(i, v) ==
    /\ bound[i] = Absent /\ v \in DOMAIN installed
    /\ bound' = [bound EXCEPT ![i] = v]
    /\ \E d \in BOOLEAN : desired' = IF d THEN desired \cup {i} ELSE desired
    /\ UNCHANGED <<catalog, session, storage>>

SetDesired(i) ==
    /\ bound[i] # Absent
    /\ desired' = IF i \in desired THEN desired \ {i} ELSE desired \cup {i}
    /\ UNCHANGED <<catalog, bound, session, storage>>

RollbackInstance(i, v) ==
    /\ bound[i] # Absent /\ i \notin desired
    /\ v \in DOMAIN installed
    /\ RollbackFits(installed[bound[i]], installed[v])
    /\ installed[v].signed /\ active
    /\ bound' = [bound EXCEPT ![i] = v]
    /\ UNCHANGED <<catalog, desired, session, storage>>

\* The supervisor starts a session of the version the row is bound to.
StartSession(i) ==
    /\ i \in desired /\ session[i] = Absent
    /\ NarrowInstance(installed[bound[i]])
    /\ session' = [session EXCEPT ![i] = bound[i]]
    /\ UNCHANGED <<catalog, rows, storage>>

\* The storage of a session goes with it.
EndSession(i) ==
    /\ session[i] # Absent
    /\ session' = [session EXCEPT ![i] = Absent]
    /\ data' = [data EXCEPT ![i] = NoFunction] /\ total' = [total EXCEPT ![i] = 0]
    /\ UNCHANGED <<catalog, rows>>

Manifest(i) == installed[session[i]]

\* The new total is computed from the running count, not from the entries.
StorageSet(i, k, n) ==
    /\ session[i] # Absent
    /\ Authorize(Manifest(i), "storage:write", StorageRequest(k, n))
    /\ LET old      == IF k \in DOMAIN data[i] THEN data[i][k] ELSE 0
           newTotal == (total[i] - old) + n
       IN /\ newTotal <= StorageQuota(Manifest(i))
          /\ total' = [total EXCEPT ![i] = newTotal]
    /\ data' = [data EXCEPT ![i] = [x \in DOMAIN @ \cup {k} |-> IF x = k THEN n ELSE @[x]]]
    /\ UNCHANGED <<catalog, rows, session>>

\* Mutant of StorageDelete: the entry goes, the count stays.
StorageDeleteKeepsCount(i, k) ==
    /\ session[i] # Absent
    /\ Authorize(Manifest(i), "storage:write", StorageRequest(k, 0))
    /\ k \in DOMAIN data[i]
    /\ data' = [data EXCEPT ![i] = Restrict(@, DOMAIN @ \ {k})]
    /\ UNCHANGED <<catalog, rows, session, total>>

StorageDelete(i, k) ==
    /\ session[i] # Absent
    /\ Authorize(Manifest(i), "storage:write", StorageRequest(k, 0))
    /\ k \in DOMAIN data[i]
    /\ total' = [total EXCEPT ![i] = @ - data[i][k]]
    /\ data' = [data EXCEPT ![i] = Restrict(@, DOMAIN @ \ {k})]
    /\ UNCHANGED <<catalog, rows, session>>

Next ==
    \/ \E p \in Packages : InstallUnsigned(p) \/ \E a \in BOOLEAN : InstallTrusted(p, a)
    \/ RevokePublisher
    \/ \E i \in Instances :
        \/ \E v \in Versions : CreateInstance(i, v) \/ RollbackInstance(i, v)
        \/ SetDesired(i) \/ StartSession(i) \/ EndSession(i)
        \/ \E k \in Names : StorageDelete(i, k) \/ \E n \in Sizes : StorageSet(i, k, n)

Spec == Init /\ [][Next]_vars

-----------------------------------------------------------------------------
(* Properties.                                                             *)

\* What the broker of a running session allows was agreed to when the
\* version was installed, or when the one it was compared with was
\* (distribution.rs permission_changes against broker.rs authorize).
AllowedWasApproved ==
    \A i \in Instances : session[i] # Absent => Powers(Manifest(i)) \subseteq consent[session[i]]

\* A rollback never gives an instance what the version it leaves did not
\* have (distribution.rs plan_rollback).
RollbackNarrows ==
    [][\A i \in Instances : bound[i] # Absent /\ bound'[i] # bound[i] =>
            Powers(installed[bound'[i]]) \subseteq Powers(installed[bound[i]])]_vars

\* What was installed also runs: its own grants narrow to themselves, and of
\* the templates that were validated the broker admits exactly those whose
\* origin, as the URL parser writes it, was declared.  No budget is ever in
\* the way; an origin declared in another spelling of itself always is
\* (manifest.rs validate_http_templates against http.rs prepare and
\* capability.rs decide).
AdmittedRuns ==
    \A v \in DOMAIN installed :
        /\ NarrowInstance(installed[v])
        /\ \A t \in installed[v].templates :
                <<"network:https", HttpsRequest(t)>> \in Powers(installed[v])
                    <=> OriginOf[t.origin] \in GrantOf(installed[v], "network:https").scope

\* However often keys are written, rewritten and deleted, the running count
\* of a session's storage is the sum of its entries, and within the quota of
\* its manifest: a count that drifted would let it store too much, or refuse
\* what fits (storage.rs set, delete).
QuotaHolds ==
    \A i \in Instances : session[i] # Absent =>
        total[i] = Bytes(i) /\ Bytes(i) <= StorageQuota(Manifest(i))
=============================================================================
