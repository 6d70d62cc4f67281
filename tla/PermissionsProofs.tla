--------------------------- MODULE PermissionsProofs ---------------------------
(***************************************************************************)
(* Theorems about Permissions, for any manifests that declare a capability *)
(* once, any quotas and any number of versions and instances.  They rest   *)
(* on one fact about the three functions that compare, narrow and decide:  *)
(* what the comparison calls no wider, the broker allows no more of        *)
(* (NotWidened).                                                           *)
(***************************************************************************)
EXTENDS Permissions, FiniteSetTheorems, TLAPS

\* Params as the parser returns them.
Typed(p) == p.kind \in Kinds /\ DOMAIN p.quota = QuotasOf[p.kind]
            /\ \A q \in QuotasOf[p.kind] : p.quota[q] \in Nat
Regular(p) == p = NoParams \/ Typed(p)

LEMMA KindFacts ==
    /\ Kinds = {"storage", "timer", "metrics", "network"}
    /\ \A k \in Kinds : QuotasOf[k] \subseteq Quotas
    /\ \A c \in Capabilities : KindOf(c) \in Kinds \cup {"none"}
    /\ KindOf("network:https") = "network"
<1>1. Kinds = {"storage", "timer", "metrics", "network"}
  BY DEF Kinds, QuotasOf
<1>2. \A k \in Kinds : QuotasOf[k] \subseteq Quotas
  BY DEF Quotas
<1>3. \A c \in Capabilities : KindOf(c) \in Kinds \cup {"none"}
  BY <1>1 DEF KindOf
<1>4. KindOf("network:https") = "network"
  BY DEF KindOf
<1> QED
  BY <1>1, <1>2, <1>3, <1>4

\* A declaration that was validated has params of its own kind.
LEMMA ParsedRegular ==
    ASSUME NEW p \in Packages, NEW i \in DOMAIN p.permissions,
           ValidatePermission(p.permissions[i])
    PROVE  /\ Regular(ParamsAt(p, i))
           /\ KindOf(p.permissions[i].cap) # "none" =>
                /\ Typed(ParamsAt(p, i)) /\ ParamsAt(p, i) \in ParamsOf(KindOf(p.permissions[i].cap))
                /\ ParamsAt(p, i).kind = KindOf(p.permissions[i].cap)
<1> DEFINE c == p.permissions[i].cap
           json == p.permissions[i].json
           k == KindOf(c)
<1>1. c \in Capabilities /\ ParseCapabilityParams(c, json) # Invalid
  BY DEF ValidatePermission, Capabilities
<1>2. k \in Kinds \cup {"none"} /\ "none" \notin Kinds
  BY <1>1, KindFacts
<1>3. ParamsAt(p, i) = ParseCapabilityParams(c, json)
  BY DEF ParamsAt
<1>4. \A q \in Quotas : Default[q] \in Nat
  BY PermissionsAssumption
<1>5. CASE json = Omitted
  <2>1. ParamsAt(p, i) = DefaultParams(c)
    BY <1>3, <1>5 DEF ParseCapabilityParams
  <2>2. k # "network"
    BY <2>1, <1>1, <1>3 DEF DefaultParams
  <2>3. k = "none" => ParamsAt(p, i) = NoParams
    BY <2>1 DEF DefaultParams
  <2>4. k # "none" => ParamsAt(p, i) =
            [kind |-> k, scope |-> {}, quota |-> Restrict(Default, QuotasOf[k])]
    BY <2>1, <2>2 DEF DefaultParams
  <2>5. k # "none" => \A q \in QuotasOf[k] : Default[q] \in Nat
    BY <1>2, <1>4, KindFacts
  <2>6. k # "none" => ParamsAt(p, i) \in ParamsOf(k)
    BY <1>2, <2>4, <2>5 DEF ParamsOf, Restrict
  <2> QED
    BY <1>2, <2>3, <2>4, <2>5, <2>6 DEF Regular, Typed, Restrict
<1>6. CASE json # Omitted
  <2>1. k # "none" /\ WellFormed(c, json)
    BY <1>6, <1>1 DEF ParseCapabilityParams
  <2>2. ParamsAt(p, i) = [kind |-> k, scope |-> Scope(json),
                          quota |-> [q \in QuotasOf[k] |-> Field(json, q)]]
    BY <1>3, <1>6, <2>1 DEF ParseCapabilityParams
  <2>3. \A q \in DOMAIN json.quota : json.quota[q] \in Nat
    BY <1>6, PermissionsAssumption
  <2>4. \A q \in QuotasOf[k] : Field(json, q) \in Nat
    BY <1>2, <1>4, <2>1, <2>3, KindFacts DEF Field
  <2>5. Scope(json) \subseteq Names
    BY <1>2, <2>1, KindFacts DEF WellFormed, ValidOrigins, Scope
  <2>6. ParamsAt(p, i) \in ParamsOf(k)
    BY <1>2, <2>1, <2>2, <2>4, <2>5 DEF ParamsOf
  <2>7. /\ ParamsAt(p, i).kind = k
        /\ ParamsAt(p, i).quota = [q \in QuotasOf[k] |-> Field(json, q)]
    BY <2>2
  <2>8. k \in Kinds
    BY <1>2, <2>1
  <2>9. Typed(ParamsAt(p, i))
    BY ONLY <2>4, <2>7, <2>8 DEF Typed
  <2> QED
    BY <2>1, <2>6, <2>7, <2>8, <2>9 DEF Regular
<1> QED
  BY <1>5, <1>6

\* The requests of the host imports are of that form too.
LEMMA RequestRegular == \A r \in Requests : Regular(r[2])
<1>1. \A k, n : n \in Nat => Typed(StorageRequest(k, n))
  BY KindFacts DEF Typed, StorageRequest, QuotasOf
<1>2. Typed(TimerRequest) /\ Typed(SampleRequest)
  BY KindFacts DEF Typed, TimerRequest, SampleRequest, QuotasOf
<1>3. \A t \in Askable : Typed(HttpsRequest(t))
  <2> TAKE t \in Askable
  <2>1. t.quota["maxResponseBytes"] \in Nat /\ t.quota["maxTimeoutMs"] \in Nat
    BY PermissionsAssumption DEF Templates, Askable
  <2> QED
    BY <2>1, KindFacts DEF Typed, HttpsRequest, QuotasOf
<1>4. Sizes \cup {0} \subseteq Nat
  BY PermissionsAssumption
<1> TAKE r \in Requests
<1>5. \/ r[2] = NoParams
      \/ \E k \in Names : r[2] = StorageRequest(k, 0)
      \/ \E k \in Names, n \in Sizes \cup {0} : r[2] = StorageRequest(k, n)
      \/ r[2] = TimerRequest \/ r[2] = SampleRequest
      \/ \E t \in Askable : r[2] = HttpsRequest(t)
  BY DEF Requests
<1> QED
  BY <1>1, <1>2, <1>3, <1>4, <1>5 DEF Regular

\* The heart of it: the comparison's order and the broker's agree.
LEMMA WithinDecides ==
    ASSUME NEW p, NEW q, NEW r, Regular(p), Regular(q), Regular(r),
           ParamsWithin(p, q), Decide(p, r)
    PROVE  Decide(q, r)
<1>1. CASE p = NoParams
  <2>1. q = NoParams /\ r = NoParams
    BY <1>1 DEF ParamsWithin, Decide
  <2> QED
    BY <2>1 DEF Decide
<1>2. CASE p # NoParams
  <2>1. q # NoParams /\ r # NoParams /\ p.kind = q.kind /\ p.kind = r.kind
    BY <1>2 DEF ParamsWithin, Decide
  <2>2. Typed(p) /\ Typed(q) /\ Typed(r)
    BY <1>2, <2>1 DEF Regular
  <2>3. QuotasWithin(p, q) /\ QuotasWithin(r, p)
    BY <1>2 DEF ParamsWithin, Decide
  <2>4. QuotasWithin(r, q)
    <3> SUFFICES ASSUME NEW l \in DOMAIN q.quota PROVE r.quota[l] <= q.quota[l]
      BY DEF QuotasWithin
    <3>1. p.quota[l] \in Nat /\ q.quota[l] \in Nat /\ r.quota[l] \in Nat
      BY <2>1, <2>2 DEF Typed
    <3>2. l \in DOMAIN p.quota
      BY <2>1, <2>2 DEF Typed
    <3>3. r.quota[l] <= p.quota[l] /\ p.quota[l] <= q.quota[l]
      BY <2>3, <3>2 DEF QuotasWithin
    <3> QED
      BY <3>1, <3>3
  <2>5. (q.kind = "storage" /\ q.scope = {}) \/ r.scope \subseteq q.scope
    <3>1. CASE p.kind = "storage"
      <4>1. KeyScopeWithin(p.scope, q.scope)
        BY <1>2, <2>1, <3>1 DEF ParamsWithin
      <4>2. p.scope = {} \/ r.scope \subseteq p.scope
        BY <1>2 DEF Decide
      <4> QED
        BY <2>1, <3>1, <4>1, <4>2 DEF KeyScopeWithin
    <3>2. CASE p.kind # "storage"
      <4>1. p.scope \subseteq q.scope
        BY <1>2, <2>1, <3>2 DEF ParamsWithin
      <4>2. r.scope \subseteq p.scope
        BY <1>2, <3>2 DEF Decide
      <4> QED
        BY <4>1, <4>2
    <3> QED
      BY <3>1, <3>2
  <2> QED
    BY <2>1, <2>4, <2>5 DEF Decide
<1> QED
  BY <1>1, <1>2

\* First and last declaration are one.
LEMMA OnePlace ==
    ASSUME NEW p \in Packages, NEW c \in Declared(p)
    PROVE  /\ FirstPlace(p, c) \in DOMAIN p.permissions
           /\ p.permissions[FirstPlace(p, c)].cap = c
           /\ FirstPlace(p, c) \in Places(p, c)
           /\ LastPlace(p, c) = FirstPlace(p, c)
           /\ \A i \in DOMAIN p.permissions : p.permissions[i].cap = c => i = FirstPlace(p, c)
<1>1. PICK i \in DOMAIN p.permissions : p.permissions[i].cap = c
  BY DEF Declared
<1>2. Places(p, c) = {i}
  BY <1>1, DeclaredOnce DEF Places
<1>3. i <= i
  BY PermissionsAssumption
<1>4. FirstPlace(p, c) = i
  BY <1>2, <1>3 DEF FirstPlace
<1>5. LastPlace(p, c) = i
  BY <1>2, <1>3 DEF LastPlace
<1>6. \A j \in DOMAIN p.permissions : p.permissions[j].cap = c => j = i
  BY <1>1, DeclaredOnce
<1> QED
  BY <1>1, <1>2, <1>4, <1>5, <1>6

LEMMA GrantRegular ==
    ASSUME NEW p \in Packages, ValidateManifest(p), NEW c \in Declared(p)
    PROVE  Regular(GrantOf(p, c)) /\ ParsedPermissions(p)[c] = GrantOf(p, c)
<1>1. ValidatePermission(p.permissions[FirstPlace(p, c)])
  BY OnePlace DEF ValidateManifest
<1>2. Regular(GrantOf(p, c))
  BY <1>1, OnePlace, ParsedRegular DEF GrantOf
<1>3. ParsedPermissions(p)[c] = GrantOf(p, c)
  BY OnePlace DEF ParsedPermissions, GrantOf
<1> QED
  BY <1>2, <1>3

\* What the comparison of two manifests calls no wider gives the broker no
\* request more to allow.
LEMMA NotWidened ==
    ASSUME NEW p \in Packages, NEW q \in Packages,
           ValidateManifest(p), ValidateManifest(q), ~Widens(q, p)
    PROVE  Powers(p) \subseteq Powers(q)
<1> SUFFICES ASSUME NEW r \in Requests, Authorize(p, r[1], r[2]),
                    ~(r[1] \in Inherent /\ r[2] = NoParams)
             PROVE  Authorize(q, r[1], r[2])
  BY DEF Powers, Authorize
<1> DEFINE c == r[1]
<1>1. c \in Declared(p) /\ Decide(GrantOf(p, c), r[2])
  BY DEF Authorize
<1> DEFINE change == ChangeOf(ParsedPermissions(q), ParsedPermissions(p), c)
<1>2. DOMAIN ParsedPermissions(p) = Declared(p) /\ DOMAIN ParsedPermissions(q) = Declared(q)
  BY DEF ParsedPermissions
<1>3. PermissionChanges(q, p)[c] = change
  BY <1>1, <1>2 DEF PermissionChanges
<1>4. change \notin {"added", "expanded"}
  BY <1>1, <1>3 DEF Widens
<1>5. c \in Declared(q)
  BY <1>1, <1>2, <1>4 DEF ChangeOf
<1>6. ParsedPermissions(q)[c] = ParsedPermissions(p)[c]
      \/ ParamsWithin(ParsedPermissions(p)[c], ParsedPermissions(q)[c])
  <2>1. change = IF ParsedPermissions(q)[c] = ParsedPermissions(p)[c] THEN "unchanged"
                 ELSE IF ParamsWithin(ParsedPermissions(p)[c], ParsedPermissions(q)[c])
                      THEN "reduced" ELSE "expanded"
    BY <1>1, <1>2, <1>5 DEF ChangeOf
  <2> QED
    BY <1>4, <2>1
<1>7. GrantOf(q, c) = GrantOf(p, c) \/ ParamsWithin(GrantOf(p, c), GrantOf(q, c))
  BY <1>1, <1>5, <1>6, GrantRegular
<1>8. Regular(GrantOf(p, c)) /\ Regular(GrantOf(q, c)) /\ Regular(r[2])
  BY <1>1, <1>5, GrantRegular, RequestRegular
<1>9. Decide(GrantOf(q, c), r[2])
  BY <1>1, <1>7, <1>8, WithinDecides
<1> QED
  BY <1>5, <1>9 DEF Authorize

\* The broker allows nothing the manifest does not ask for.
LEMMA PowersAsked ==
    ASSUME NEW p \in Packages
    PROVE  Powers(p) \subseteq Asked(p)
<1> SUFFICES ASSUME NEW r \in Requests, Authorize(p, r[1], r[2])
             PROVE  \/ r[1] \in Inherent
                    \/ \E i \in Places(p, r[1]) : Decide(ParamsAt(p, i), r[2])
  BY DEF Powers, Asked
<1> QED
  BY OnePlace DEF Authorize, GrantOf

-----------------------------------------------------------------------------
(* The invariant.                                                          *)

HasMax(S) == \E m \in S : \A x \in S : x <= m

Catalogued ==
    /\ DOMAIN installed \subseteq Versions /\ DOMAIN consent = DOMAIN installed
    /\ HasMax(DOMAIN installed \cup {Absent})
    /\ \A v \in DOMAIN installed :
          /\ installed[v] \in Packages /\ ValidateManifest(installed[v])
          /\ Powers(installed[v]) \subseteq consent[v]

Bound ==
    /\ bound \in [Instances -> DOMAIN installed \cup {Absent}]
    /\ session \in [Instances -> DOMAIN installed \cup {Absent}]

IInv == Catalogued /\ Bound

LEMMA HighestInstalled ==
    ASSUME Catalogued
    PROVE  Highest \in DOMAIN installed \cup {Absent}
<1> DEFINE S == DOMAIN installed \cup {Absent}
<1>1. S \subseteq Nat
  <2>1. Versions \subseteq Nat
    BY PermissionsAssumption
  <2>2. DOMAIN installed \subseteq Versions
    BY DEF Catalogued
  <2>3. Absent \in Nat
    BY DEF Absent
  <2> QED
    BY <2>1, <2>2, <2>3
<1>2. \E m \in S : \A x \in S : m >= x
  BY <1>1 DEF Catalogued, HasMax
<1> HIDE DEF S
<1>3. Max(S) \in S
  BY <1>2 DEF Max
<1> QED
  BY <1>3 DEF Highest, S

\* What Place leaves of the catalogue, when what the new version may do has
\* been agreed to.
LEMMA PlacedCatalogued ==
    ASSUME Catalogued, Bound, NEW p \in Packages, NEW agreed, Candidate(p), Place(p, agreed),
           Powers(p) \subseteq agreed, UNCHANGED <<bound, session>>
    PROVE  IInv'
<1> DEFINE v == p.version
           S == DOMAIN installed \cup {Absent}
           T == DOMAIN installed' \cup {Absent}
<1>1. ValidateManifest(p) /\ v \notin DOMAIN installed /\ v \in Versions
  BY PermissionsAssumption DEF Candidate
<1>2. /\ DOMAIN installed' = DOMAIN installed \cup {v}
      /\ DOMAIN consent' = DOMAIN installed \cup {v}
      /\ installed'[v] = p /\ consent'[v] = agreed
      /\ \A w \in DOMAIN installed : installed'[w] = installed[w] /\ consent'[w] = consent[w]
  BY <1>1 DEF Place
<1>3. HasMax(T)
  <2>1. T = S \cup {v} /\ S \subseteq Nat /\ v \in Nat
    BY <1>1, <1>2, PermissionsAssumption DEF Catalogued, Absent
  <2>2. PICK m \in S : \A x \in S : x <= m
    BY DEF Catalogued, HasMax
  <2> HIDE DEF S, T
  <2>3. CASE v <= m
    BY <2>1, <2>2, <2>3 DEF HasMax
  <2>4. CASE m <= v
    <3>1. \A x \in T : x <= v
      BY <2>1, <2>2, <2>4
    <3> QED
      BY <2>1, <3>1 DEF HasMax
  <2> QED
    BY <2>1, <2>2, <2>3, <2>4
<1>4. \A w \in DOMAIN installed' :
          /\ installed'[w] \in Packages /\ ValidateManifest(installed'[w])
          /\ Powers(installed'[w]) \subseteq consent'[w]
  BY <1>1, <1>2 DEF Catalogued
<1>5. Catalogued'
  BY <1>1, <1>2, <1>3, <1>4 DEF Catalogued, Absent
<1>6. Bound'
  BY <1>2 DEF Bound, Absent
<1> QED
  BY <1>5, <1>6 DEF IInv

\* An upgrade that was compared and needs no consent is covered by what the
\* version compared with was consented to.
LEMMA TrustedAgreed ==
    ASSUME IInv, NEW p \in Packages, NEW accept \in BOOLEAN, InstallTrusted(p, accept)
    PROVE  IInv'
<1> DEFINE compared == Highest # Absent /\ Highest < p.version
           agreed == IF compared /\ ~accept THEN consent[Highest] \cap Asked(p) ELSE Asked(p)
<1>1. /\ Candidate(p) /\ Place(p, agreed) /\ UNCHANGED <<bound, session>>
      /\ compared /\ Widens(installed[Highest], p) => accept
  BY DEF InstallTrusted, rows
<1>2. Powers(p) \subseteq agreed
  <2>1. Powers(p) \subseteq Asked(p)
    BY PowersAsked
  <2>2. CASE compared /\ ~accept
    <3>1. Highest \in DOMAIN installed /\ ~Widens(installed[Highest], p)
      BY <1>1, <2>2, HighestInstalled DEF IInv
    <3>2. /\ installed[Highest] \in Packages /\ ValidateManifest(installed[Highest])
          /\ Powers(installed[Highest]) \subseteq consent[Highest]
      BY <3>1 DEF IInv, Catalogued
    <3>3. ValidateManifest(p)
      BY <1>1 DEF Candidate
    <3>4. Powers(p) \subseteq Powers(installed[Highest])
      BY <3>1, <3>2, <3>3, NotWidened
    <3> QED
      BY <2>1, <2>2, <3>2, <3>4
  <2>3. CASE ~(compared /\ ~accept)
    BY <2>1, <2>3
  <2> QED
    BY <2>2, <2>3
<1> HIDE DEF agreed
<1> QED
  BY <1>1, <1>2, PlacedCatalogued DEF IInv

LEMMA UnsignedAgreed ==
    ASSUME IInv, NEW p \in Packages, InstallUnsigned(p)
    PROVE  IInv'
<1>1. Candidate(p) /\ Place(p, Asked(p)) /\ UNCHANGED <<bound, session>>
  BY DEF InstallUnsigned, rows
<1> QED
  BY <1>1, PowersAsked, PlacedCatalogued DEF IInv

LEMMA InitIInv == Init => IInv
<1> SUFFICES ASSUME Init PROVE IInv
  OBVIOUS
<1>1. DOMAIN installed = {} /\ DOMAIN consent = {}
  BY DEF Init, NoFunction
<1>2. HasMax({Absent})
  BY DEF HasMax, Absent
<1> QED
  BY <1>1, <1>2 DEF Init, IInv, Catalogued, Bound

\* Steps that leave the catalogue alone.
LEMMA RowsIInv ==
    ASSUME IInv, UNCHANGED <<installed, consent>>, Bound'
    PROVE  IInv'
<1>1. Catalogued'
  BY DEF IInv, Catalogued
<1> QED
  BY <1>1 DEF IInv

LEMMA StepIInv == IInv /\ [Next]_vars => IInv'
<1> SUFFICES ASSUME IInv, [Next]_vars PROVE IInv'
  OBVIOUS
<1>1. CASE \E p \in Packages : InstallUnsigned(p)
  BY <1>1, UnsignedAgreed
<1>2. CASE \E p \in Packages, a \in BOOLEAN : InstallTrusted(p, a)
  BY <1>2, TrustedAgreed
<1>3. CASE RevokePublisher
  <2>1. UNCHANGED <<installed, consent, bound, session>>
    BY <1>3 DEF RevokePublisher, rows
  <2> QED
    BY <2>1, RowsIInv DEF IInv, Bound
<1>4. CASE \E i \in Instances, v \in Versions : CreateInstance(i, v) \/ RollbackInstance(i, v)
  <2>1. PICK i \in Instances, v \in DOMAIN installed :
            bound' = [bound EXCEPT ![i] = v] /\ UNCHANGED <<installed, consent, session>>
    BY <1>4 DEF CreateInstance, RollbackInstance, catalog
  <2>2. Bound'
    BY <2>1 DEF IInv, Bound, Absent
  <2> QED
    BY <2>1, <2>2, RowsIInv
<1>5. CASE \E i \in Instances : SetDesired(i)
  <2>1. UNCHANGED <<installed, consent, bound, session>>
    BY <1>5 DEF SetDesired, catalog
  <2> QED
    BY <2>1, RowsIInv DEF IInv, Bound
<1>6. CASE \E i \in Instances : StartSession(i) \/ EndSession(i)
  <2>1. PICK i \in Instances, v \in DOMAIN installed \cup {Absent} :
            session' = [session EXCEPT ![i] = v] /\ UNCHANGED <<installed, consent, bound>>
    BY <1>6 DEF StartSession, EndSession, catalog, rows, IInv, Bound
  <2>2. Bound'
    BY <2>1 DEF IInv, Bound, Absent
  <2> QED
    BY <2>1, <2>2, RowsIInv
<1>7. CASE \E i \in Instances, k \in Names :
              StorageDelete(i, k) \/ \E n \in Sizes : StorageSet(i, k, n)
  <2>1. UNCHANGED <<installed, consent, bound, session>>
    BY <1>7 DEF StorageDelete, StorageSet, catalog, rows
  <2> QED
    BY <2>1, RowsIInv DEF IInv, Bound
<1>8. CASE UNCHANGED vars
  <2>1. UNCHANGED <<installed, consent, bound, session>>
    BY <1>8 DEF vars
  <2> QED
    BY <2>1, RowsIInv DEF IInv, Bound
<1> QED
  BY <1>1, <1>2, <1>3, <1>4, <1>5, <1>6, <1>7, <1>8 DEF Next

-----------------------------------------------------------------------------
(* The theorems.                                                           *)

\* The broker of a session allows nothing that was not agreed to when its
\* version, or the one that was compared with, was installed
\* (distribution.rs permission_changes, broker.rs authorize).
THEOREM AllowedApproved == Spec => []AllowedWasApproved
<1>1. IInv => AllowedWasApproved
  BY DEF IInv, Catalogued, Bound, AllowedWasApproved, Manifest
<1> QED
  BY InitIInv, StepIInv, <1>1, PTL DEF Spec

\* An instance moved back to an older version can do nothing it could not do
\* before (distribution.rs plan_rollback).
THEOREM RollbackNarrowed == Spec => RollbackNarrows
<1>1. IInv /\ [Next]_vars =>
        [\A i \in Instances : bound[i] # Absent /\ bound'[i] # bound[i] =>
            Powers(installed[bound'[i]]) \subseteq Powers(installed[bound[i]])]_vars
  <2> SUFFICES ASSUME IInv, Next, NEW i \in Instances, bound[i] # Absent, bound'[i] # bound[i]
               PROVE  Powers(installed[bound'[i]]) \subseteq Powers(installed[bound[i]])
    OBVIOUS
  <2>1. PICK j \in Instances, v \in Versions : CreateInstance(j, v) \/ RollbackInstance(j, v)
    BY DEF Next, InstallUnsigned, InstallTrusted, RevokePublisher, SetDesired, StartSession,
           EndSession, StorageSet, StorageDelete, catalog, rows
  <2>2. bound' = [bound EXCEPT ![j] = v] /\ bound \in [Instances -> DOMAIN installed \cup {Absent}]
    BY <2>1 DEF CreateInstance, RollbackInstance, IInv, Bound
  <2>3. j = i /\ bound'[i] = v
    BY <2>2
  <2>4. RollbackInstance(i, v)
    BY <2>1, <2>3 DEF CreateInstance
  <2>5. v \in DOMAIN installed /\ ~Widens(installed[bound[i]], installed[v])
    BY <2>4 DEF RollbackInstance, RollbackFits
  <2>6. bound[i] \in DOMAIN installed
    BY <2>2
  <2> QED
    BY <2>3, <2>5, <2>6, NotWidened DEF IInv, Catalogued
<1> QED
  BY InitIInv, StepIInv, <1>1, PTL DEF Spec, RollbackNarrows

\* What was installed starts, and of its templates exactly those are allowed
\* whose origin was declared as the URL parser writes it (manifest.rs
\* validate_http_templates, http.rs prepare, capability.rs decide).
THEOREM AdmittedRun == Spec => []AdmittedRuns
<1>1. IInv => AdmittedRuns
  <2> SUFFICES ASSUME IInv, NEW v \in DOMAIN installed
               PROVE  /\ NarrowInstance(installed[v])
                      /\ \A t \in installed[v].templates :
                            <<"network:https", HttpsRequest(t)>> \in Powers(installed[v])
                            <=> OriginOf[t.origin]
                                  \in GrantOf(installed[v], "network:https").scope
    BY DEF AdmittedRuns
  <2> DEFINE m == installed[v]
  <2>1. m \in Packages /\ ValidateManifest(m)
    BY DEF IInv, Catalogued
  <2> HIDE DEF m
  <2>2. NarrowInstance(m)
    <3> SUFFICES ASSUME NEW i \in DOMAIN m.permissions
                 PROVE  InstanceWithin(ParamsAt(m, i), ParamsAt(m, i))
      <4>1. \A i \in DOMAIN m.permissions :
                m.permissions[i].cap \in Declared(m)
                /\ FirstPlace(m, m.permissions[i].cap) = i
        BY <2>1, OnePlace DEF Declared
      <4> QED
        BY <4>1 DEF NarrowInstance
    <3>1. Regular(ParamsAt(m, i))
      BY <2>1, ParsedRegular DEF ValidateManifest
    <3>2. CASE ParamsAt(m, i) = NoParams
      BY <3>2 DEF InstanceWithin
    <3>3. CASE ParamsAt(m, i) # NoParams
      BY <3>1, <3>3 DEF Regular, Typed, InstanceWithin, QuotasWithin
    <3> QED
      BY <3>2, <3>3
  <2>3. ASSUME NEW t \in m.templates
        PROVE  <<"network:https", HttpsRequest(t)>> \in Powers(m)
               <=> OriginOf[t.origin] \in GrantOf(m, "network:https").scope
    <3> DEFINE net == GrantOf(m, "network:https")
               i == FirstPlace(m, "network:https")
    <3>1. "network:https" \in Declared(m) /\ TemplateFits(t, net)
      BY <2>1, <2>3 DEF ValidateManifest, ValidateHttpTemplates, GrantOf
    <3>2. /\ i \in DOMAIN m.permissions /\ m.permissions[i].cap = "network:https"
          /\ ValidatePermission(m.permissions[i])
      BY <2>1, <3>1, OnePlace DEF ValidateManifest
    <3>3. net = ParamsAt(m, i) /\ Typed(net) /\ net \in ParamsOf("network") /\ net.kind = "network"
      BY <2>1, <3>2, ParsedRegular, KindFacts DEF GrantOf
    <3>4. net.quota["maxRequestsPerMinute"] >= 1
      <4>1. net = ParseCapabilityParams("network:https", m.permissions[i].json)
        BY <3>2, <3>3 DEF ParamsAt
      <4> DEFINE json == m.permissions[i].json
      <4>2. json # Omitted /\ WellFormed("network:https", json)
        BY <3>2, KindFacts DEF ValidatePermission, ParseCapabilityParams, DefaultParams
      <4>3. net.quota["maxRequestsPerMinute"] = Field(json, "maxRequestsPerMinute")
        BY <4>1, <4>2, KindFacts DEF ParseCapabilityParams, QuotasOf
      <4>4. Field(json, "maxRequestsPerMinute") >= Least["maxRequestsPerMinute"]
        <5>1. "maxRequestsPerMinute" \in Quotas
          BY KindFacts DEF QuotasOf
        <5>2. CASE "maxRequestsPerMinute" \in DOMAIN json.quota
          <6>1. json.quota["maxRequestsPerMinute"] \in Nat
            BY <2>1, <3>2, <4>2, <5>2, PermissionsAssumption
          <6> QED
            BY <4>2, <5>1, <5>2, <6>1, PermissionsAssumption DEF WellFormed, Field
        <5>3. CASE "maxRequestsPerMinute" \notin DOMAIN json.quota
          BY <5>1, <5>3, PermissionsAssumption DEF Field
        <5> QED
          BY <5>2, <5>3
      <4>5. Least["maxRequestsPerMinute"] >= 1 /\ Least["maxRequestsPerMinute"] \in Nat
        <5>1. "maxRequestsPerMinute" \in Quotas
          BY KindFacts DEF QuotasOf
        <5> QED
          BY <5>1, PermissionsAssumption
      <4>6. net.quota["maxRequestsPerMinute"] \in Nat
        BY <3>3 DEF Typed, QuotasOf
      <4> QED
        BY <4>3, <4>4, <4>5, <4>6
    <3> DEFINE r == HttpsRequest(t)
               o == OriginOf[t.origin]
    <3>5. net.scope \subseteq Names
      BY <3>3 DEF ParamsOf
    <3>6. r.kind = "network" /\ r.scope = {o}
      BY DEF HttpsRequest
    <3>7. ASSUME o \in net.scope PROVE <<"network:https", r>> \in Powers(m)
      <4>1. /\ r.quota["maxRequestsPerMinute"] = 1
            /\ r.quota["maxResponseBytes"] = t.quota["maxResponseBytes"]
            /\ r.quota["maxTimeoutMs"] = t.quota["maxTimeoutMs"]
        BY DEF HttpsRequest
      <4>2. DOMAIN net.quota = {"maxRequestsPerMinute", "maxResponseBytes", "maxTimeoutMs"}
        BY <3>3 DEF Typed, QuotasOf
      <4>3. QuotasWithin(r, net)
        BY <3>1, <3>4, <4>1, <4>2 DEF QuotasWithin, TemplateFits
      <4>4. r \in ParamsOf("network")
        <5>1. t.quota["maxResponseBytes"] \in Nat /\ t.quota["maxTimeoutMs"] \in Nat
          BY <2>1, <2>3, PermissionsAssumption
        <5>2. o \in Names
          BY <3>5, <3>7
        <5> QED
          BY <5>1, <5>2, KindFacts DEF HttpsRequest, ParamsOf, QuotasOf
      <4>5. Decide(net, r)
        BY <3>3, <3>6, <3>7, <4>3, <4>4, NoParamsAssumption, KindFacts DEF Decide
      <4>6. <<"network:https", r>> \in Requests
        <5>1. t \in Templates
          BY <2>1, <2>3 DEF Templates
        <5>2. t \in Askable
          BY <3>5, <3>7, <5>1, OriginAssumption DEF Askable
        <5> QED
          BY <5>2 DEF Requests
      <4> QED
        BY <3>1, <4>5, <4>6 DEF Powers, Authorize
    <3>8. ASSUME <<"network:https", r>> \in Powers(m) PROVE o \in net.scope
      <4>1. Decide(net, r)
        BY <3>8 DEF Powers, Authorize, Inherent
      <4>2. net # NoParams /\ net.kind # "storage"
        BY <3>3, NoParamsAssumption, KindFacts
      <4>3. r.scope \subseteq net.scope
        BY <4>1, <4>2 DEF Decide
      <4> QED
        BY <3>6, <4>3
    <3> QED
      BY <3>7, <3>8
  <2> QED
    BY <2>2, <2>3 DEF m
<1> QED
  BY InitIInv, StepIInv, <1>1, PTL DEF Spec
-----------------------------------------------------------------------------
(***************************************************************************)
(* Sums.  The bytes of a session are a fold over the keys in an order      *)
(* nobody says; that the order does not matter is proved by the smallest   *)
(* set of keys for which it would.                                         *)
(***************************************************************************)
Pick(s) == CHOOSE x \in s : TRUE

\* One unfolding of the sum of f over the set s of its keys.
Unfolded(f, g, s) == IF s = {} THEN 0 ELSE f[Pick(s)] + g[s \ {Pick(s)}]

Total(f) == CHOOSE g : g = [s \in SUBSET DOMAIN f |-> Unfolded(f, g, s)]

LEMMA BytesTotal == \A i : Bytes(i) = Total(data[i])[DOMAIN data[i]]
  BY DEF Bytes, FoldFunction, FoldFunctionOnSet, MapThenFoldSet, Total, Unfolded, Pick

Lengths(f) == IsFiniteSet(DOMAIN f) /\ \A x \in DOMAIN f : f[x] \in Nat

LEMMA PickIn == ASSUME NEW s, s # {} PROVE Pick(s) \in s
  BY DEF Pick

LEMMA LeastNumber ==
    ASSUME NEW T \in SUBSET Nat, T # {} PROVE \E n \in T : \A m \in T : n <= m
<1>1. PICK R : R = OpToRel(<, Nat)
  OBVIOUS
<1>2. IsWellFoundedOn(R, Nat)
  BY <1>1, NatLessThanWellFounded
<1>3. PICK n \in T : \A m \in T : ~ (<<m, n>> \in R)
  BY <1>2, WFMin
<1>4. R = {ss \in Nat \X Nat : ss[1] < ss[2]}
  BY <1>1 DEF OpToRel
<1>5. \A a, b \in Nat : <<b, a>> \in R <=> b < a
  BY <1>4
<1>6. n \in Nat /\ \A m \in T : m \in Nat /\ ~(m < n)
  BY <1>3, <1>5
<1>7. \A m \in T : n <= m
  BY <1>6
<1> QED
  BY <1>7

\* Among sets of keys there is a smallest bad one, if there is any.
LEMMA SmallestBad ==
    ASSUME NEW S, IsFiniteSet(S), NEW Bad, \A s \in Bad : s \in SUBSET S, Bad # {}
    PROVE  \E s \in Bad : \A x \in s : s \ {x} \notin Bad
<1> DEFINE T == {Cardinality(s) : s \in Bad}
<1>1. \A s \in SUBSET S : IsFiniteSet(s) /\ Cardinality(s) \in Nat
  BY FS_Subset, FS_CardinalityType
<1>2. T \in SUBSET Nat /\ T # {}
  BY <1>1
<1>3. PICK n \in T : \A m \in T : n <= m
  BY <1>2, LeastNumber
<1>4. PICK s \in Bad : Cardinality(s) = n
  BY <1>3
<1>5. ASSUME NEW x \in s PROVE s \ {x} \notin Bad
  <2>1. IsFiniteSet(s) /\ Cardinality(s) \in Nat
    BY <1>1, <1>4
  <2>2. Cardinality(s \ {x}) = Cardinality(s) - 1
    BY <1>5, <2>1, FS_RemoveElement
  <2>3. s \ {x} \in Bad => n <= Cardinality(s \ {x})
    BY <1>3
  <2> QED
    BY <1>4, <2>1, <2>2, <2>3
<1> QED
  BY <1>4, <1>5

\* There is a function that satisfies the recursion: one for the sets of up to n keys
\* gives one for those of n + 1.
Upto(f, n) == {s \in SUBSET DOMAIN f : Cardinality(s) <= n}
Totals(f, n) == {g \in [Upto(f, n) -> Nat] : \A s \in Upto(f, n) : g[s] = Unfolded(f, g, s)}

LEMMA SmallerUpto ==
    ASSUME NEW f, Lengths(f), NEW n \in Nat, NEW s \in Upto(f, n + 1), s # {}
    PROVE  Pick(s) \in DOMAIN f /\ s \ {Pick(s)} \in Upto(f, n)
<1>1. s \in SUBSET DOMAIN f /\ IsFiniteSet(s) /\ Cardinality(s) \in Nat /\ Pick(s) \in s
  BY PickIn, FS_Subset, FS_CardinalityType DEF Upto, Lengths
<1>2. Cardinality(s \ {Pick(s)}) = Cardinality(s) - 1
  BY <1>1, FS_RemoveElement
<1>3. Cardinality(s) <= n + 1
  BY DEF Upto
<1> QED
  BY <1>1, <1>2, <1>3 DEF Upto

LEMMA TotalsGrow ==
    ASSUME NEW f, Lengths(f), NEW n \in Nat, Totals(f, n) # {}
    PROVE  Totals(f, n + 1) # {}
<1>1. PICK g \in Totals(f, n) : TRUE
  OBVIOUS
<1> DEFINE h == [s \in Upto(f, n + 1) |-> Unfolded(f, g, s)]
<1>2. g \in [Upto(f, n) -> Nat] /\ \A s \in Upto(f, n) : g[s] = Unfolded(f, g, s)
  BY <1>1 DEF Totals
<1>3. \A s \in Upto(f, n) : s \in Upto(f, n + 1) /\ h[s] = g[s]
  <2> TAKE s \in Upto(f, n)
  <2>1. s \in SUBSET DOMAIN f /\ Cardinality(s) \in Nat /\ Cardinality(s) <= n
    BY FS_Subset, FS_CardinalityType DEF Upto, Lengths
  <2>2. s \in Upto(f, n + 1)
    BY <2>1 DEF Upto
  <2> QED
    BY <1>2, <2>2
<1>4. ASSUME NEW s \in Upto(f, n + 1) PROVE h[s] \in Nat /\ h[s] = Unfolded(f, h, s)
  <2>1. CASE s = {}
    BY <2>1 DEF Unfolded
  <2>2. CASE s # {}
    <3>1. Pick(s) \in DOMAIN f /\ s \ {Pick(s)} \in Upto(f, n)
      BY <2>2, SmallerUpto
    <3>2. f[Pick(s)] \in Nat /\ g[s \ {Pick(s)}] \in Nat
      BY <1>2, <3>1 DEF Lengths
    <3>3. h[s] = f[Pick(s)] + g[s \ {Pick(s)}]
      BY <2>2 DEF Unfolded
    <3>4. h[s \ {Pick(s)}] = g[s \ {Pick(s)}]
      BY <1>3, <3>1
    <3> HIDE DEF h
    <3> QED
      BY <2>2, <3>2, <3>3, <3>4 DEF Unfolded
  <2> QED
    BY <2>1, <2>2
<1>5. h \in [Upto(f, n + 1) -> Nat]
  BY <1>4
<1> HIDE DEF h
<1> QED
  BY <1>4, <1>5 DEF Totals

LEMMA TotalsExist == ASSUME NEW f, Lengths(f), NEW n \in Nat PROVE Totals(f, n) # {}
<1> DEFINE T == {m \in Nat : Totals(f, m) = {}}
<1> SUFFICES ASSUME T # {} PROVE FALSE
  OBVIOUS
<1>1. PICK m \in T : \A k \in T : m <= k
  BY LeastNumber
<1>2. m # 0
  <2> DEFINE g == [s \in Upto(f, 0) |-> 0]
  <2>1. ASSUME NEW s \in Upto(f, 0) PROVE s = {}
    <3>1. IsFiniteSet(s) /\ Cardinality(s) \in Nat /\ Cardinality(s) <= 0
      BY FS_Subset, FS_CardinalityType DEF Upto, Lengths
    <3> QED
      BY <3>1, FS_EmptySet
  <2>2. g \in Totals(f, 0)
    BY <2>1 DEF Totals, Unfolded
  <2> QED
    BY <2>2
<1>3. m - 1 \in Nat /\ m - 1 \notin T
  BY <1>1, <1>2
<1>4. Totals(f, (m - 1) + 1) # {}
  BY <1>3, TotalsGrow
<1> QED
  BY <1>1, <1>4

\* Whatever satisfies the recursion is a number.
LEMMA UnfoldedIsNat ==
    ASSUME NEW f, Lengths(f), NEW g, \A s \in SUBSET DOMAIN f : g[s] = Unfolded(f, g, s)
    PROVE  \A s \in SUBSET DOMAIN f : g[s] \in Nat
<1> DEFINE Bad == {s \in SUBSET DOMAIN f : g[s] \notin Nat}
<1> SUFFICES ASSUME Bad # {} PROVE FALSE
  OBVIOUS
<1>1. IsFiniteSet(DOMAIN f) /\ \A s \in Bad : s \in SUBSET DOMAIN f
  BY DEF Lengths
<1>2. \E s \in Bad : \A x \in s : s \ {x} \notin Bad
  <2> HIDE DEF Bad
  <2> QED
    BY <1>1, SmallestBad
<1>3. PICK s \in Bad : \A x \in s : s \ {x} \notin Bad
  BY <1>2
<1>4. s \in SUBSET DOMAIN f /\ g[s] \notin Nat /\ g[s] = Unfolded(f, g, s)
  BY <1>3
<1>5. s # {}
  BY <1>4 DEF Unfolded
<1>6. Pick(s) \in s /\ Pick(s) \in DOMAIN f
  BY <1>4, <1>5, PickIn
<1>7. g[s \ {Pick(s)}] \in Nat
  BY <1>3, <1>4, <1>6
<1>8. f[Pick(s)] \in Nat
  BY <1>6 DEF Lengths
<1> QED
  BY <1>4, <1>5, <1>7, <1>8 DEF Unfolded

\* The sum over any set of keys is a number, and unfolds.
LEMMA TotalUnfolds ==
    ASSUME NEW f, Lengths(f), NEW s \in SUBSET DOMAIN f
    PROVE  Total(f)[s] \in Nat /\ Total(f)[s] = Unfolded(f, Total(f), s)
<1> DEFINE n == Cardinality(DOMAIN f)
           S == SUBSET DOMAIN f
<1>1. n \in Nat /\ Upto(f, n) = S
  BY FS_Subset, FS_CardinalityType DEF Upto, Lengths
<1>2. PICK g \in Totals(f, n) : TRUE
  BY <1>1, TotalsExist
<1>3. g \in [S -> Nat] /\ \A t \in S : g[t] = Unfolded(f, g, t)
  BY <1>1, <1>2 DEF Totals
<1>4. g = [t \in S |-> Unfolded(f, g, t)]
  BY <1>3
<1>5. Total(f) = [t \in S |-> Unfolded(f, Total(f), t)]
  BY <1>4 DEF Total
<1>6. \A t \in S : Total(f)[t] = Unfolded(f, Total(f), t)
  BY <1>5
<1>7. \A t \in S : Total(f)[t] \in Nat
  BY <1>6, UnfoldedIsNat
<1> QED
  BY <1>6, <1>7

\* Whichever key is taken first, the sum is the same.
LEMMA AnyFirst ==
    ASSUME NEW f, Lengths(f)
    PROVE  \A s \in SUBSET DOMAIN f : \A x \in s :
                Total(f)[s] = f[x] + Total(f)[s \ {x}]
<1> DEFINE g == Total(f)
           Bad == {s \in SUBSET DOMAIN f : \E x \in s : g[s] # f[x] + g[s \ {x}]}
<1> SUFFICES ASSUME Bad # {} PROVE FALSE
  OBVIOUS
<1>1. \A s \in SUBSET DOMAIN f : g[s] \in Nat /\ g[s] = Unfolded(f, g, s)
  BY TotalUnfolds
<1>2. IsFiniteSet(DOMAIN f) /\ \A s \in Bad : s \in SUBSET DOMAIN f
  BY DEF Lengths
<1>3. \E s \in Bad : \A x \in s : s \ {x} \notin Bad
  <2> HIDE DEF Bad
  <2> QED
    BY <1>2, SmallestBad
<1>4. PICK s \in Bad : \A x \in s : s \ {x} \notin Bad
  BY <1>3
<1> HIDE DEF g
<1>5. PICK x \in s : g[s] # f[x] + g[s \ {x}]
  BY <1>4
<1> DEFINE c == Pick(s)
<1>6. c \in s /\ s \in SUBSET DOMAIN f /\ c \in DOMAIN f /\ x \in DOMAIN f
  BY <1>4, <1>5, PickIn
<1>7. g[s] = f[c] + g[s \ {c}]
  BY <1>1, <1>6 DEF Unfolded
<1> HIDE DEF c
<1>8. c # x
  BY <1>5, <1>7
<1>9. g[s \ {c}] = f[x] + g[(s \ {c}) \ {x}]
  <2>1. x \in s \ {c} /\ s \ {c} \in SUBSET DOMAIN f /\ s \ {c} \notin Bad
    BY <1>4, <1>5, <1>6, <1>8
  <2> QED
    BY <2>1
<1>10. g[s \ {x}] = f[c] + g[(s \ {x}) \ {c}]
  <2>1. c \in s \ {x} /\ s \ {x} \in SUBSET DOMAIN f /\ s \ {x} \notin Bad
    BY <1>4, <1>5, <1>6, <1>8
  <2> QED
    BY <2>1
<1>11. (s \ {c}) \ {x} = (s \ {x}) \ {c} /\ (s \ {c}) \ {x} \in SUBSET DOMAIN f
  BY <1>6
<1> DEFINE rest == g[(s \ {c}) \ {x}]
           without(y) == g[s \ {y}]
<1>12. rest \in Nat /\ f[c] \in Nat /\ f[x] \in Nat
  BY <1>1, <1>6, <1>11 DEF Lengths
<1>13. without(c) = f[x] + rest /\ without(x) = f[c] + rest
  BY <1>9, <1>10, <1>11
<1>14. g[s] # f[x] + without(x) /\ g[s] = f[c] + without(c)
  BY <1>5, <1>7
<1> HIDE DEF Bad, rest, without
<1> QED
  BY ONLY <1>12, <1>13, <1>14

\* The sum depends on nothing but the values of the keys summed over.
LEMMA SameSum ==
    ASSUME NEW f, NEW h, Lengths(f), Lengths(h), NEW T \in SUBSET DOMAIN f, T \in SUBSET DOMAIN h,
           \A x \in T : f[x] = h[x]
    PROVE  Total(f)[T] = Total(h)[T]
<1> DEFINE Bad == {s \in SUBSET T : Total(f)[s] # Total(h)[s]}
<1> SUFFICES ASSUME Bad # {} PROVE FALSE
  OBVIOUS
<1>1. IsFiniteSet(T) /\ \A s \in Bad : s \in SUBSET T
  BY FS_Subset DEF Lengths
<1>2. \E s \in Bad : \A x \in s : s \ {x} \notin Bad
  <2> HIDE DEF Bad
  <2> QED
    BY <1>1, SmallestBad
<1>3. PICK s \in Bad : \A x \in s : s \ {x} \notin Bad
  BY <1>2
<1>4. s \in SUBSET T /\ Total(f)[s] # Total(h)[s]
  BY <1>3
<1>5. Total(f)[s] = Unfolded(f, Total(f), s) /\ Total(h)[s] = Unfolded(h, Total(h), s)
  <2>1. s \in SUBSET DOMAIN f /\ s \in SUBSET DOMAIN h
    BY <1>4
  <2> QED
    BY <2>1, TotalUnfolds
<1>6. s # {}
  BY <1>4, <1>5 DEF Unfolded
<1>7. Pick(s) \in s /\ f[Pick(s)] = h[Pick(s)]
  BY <1>4, <1>6, PickIn
<1>8. s \ {Pick(s)} \in SUBSET T /\ s \ {Pick(s)} \notin Bad
  BY <1>3, <1>4, <1>7
<1>9. Total(f)[s \ {Pick(s)}] = Total(h)[s \ {Pick(s)}]
  BY <1>8
<1> QED
  BY <1>4, <1>5, <1>6, <1>7, <1>9 DEF Unfolded

\* What setting a key to n does to the sum.
LEMMA SumAfterSet ==
    ASSUME NEW f, Lengths(f), NEW k, NEW n \in Nat,
           NEW h, h = [x \in DOMAIN f \cup {k} |-> IF x = k THEN n ELSE f[x]]
    PROVE  /\ Lengths(h) /\ Total(f)[DOMAIN f] \in Nat
           /\ LET old == IF k \in DOMAIN f THEN f[k] ELSE 0 IN
              old \in Nat /\ Total(h)[DOMAIN h] = (Total(f)[DOMAIN f] - old) + n
<1> DEFINE D == DOMAIN f
           old == IF k \in D THEN f[k] ELSE 0
<1>1. DOMAIN h = D \cup {k} /\ h[k] = n /\ \A x \in D : x # k => h[x] = f[x]
  OBVIOUS
<1>2. Lengths(h)
  BY <1>1, FS_AddElement DEF Lengths
<1>3. Total(h)[D \cup {k}] = n + Total(h)[(D \cup {k}) \ {k}]
  <2>1. D \cup {k} \in SUBSET DOMAIN h /\ k \in D \cup {k}
    BY <1>1
  <2> QED
    <3>1. Total(h)[D \cup {k}] = h[k] + Total(h)[(D \cup {k}) \ {k}]
      BY <1>2, <2>1, AnyFirst
    <3> QED
      BY <1>1, <3>1
<1>4. (D \cup {k}) \ {k} = D \ {k}
  OBVIOUS
<1>5. Total(h)[D \ {k}] = Total(f)[D \ {k}]
  <2>1. D \ {k} \in SUBSET DOMAIN f /\ D \ {k} \in SUBSET DOMAIN h
        /\ \A x \in D \ {k} : h[x] = f[x]
    BY <1>1
  <2> QED
    BY <1>2, <2>1, SameSum
<1>6. Total(f)[D] \in Nat /\ Total(f)[D \ {k}] \in Nat
  <2>1. D \in SUBSET DOMAIN f /\ D \ {k} \in SUBSET DOMAIN f
    OBVIOUS
  <2> QED
    BY <2>1, TotalUnfolds
<1>7. old \in Nat /\ Total(f)[D] = old + Total(f)[D \ {k}]
  <2>1. CASE k \in D
    <3>1. Total(f)[D] = f[k] + Total(f)[D \ {k}]
      BY <2>1, AnyFirst
    <3> QED
      BY <2>1, <3>1 DEF Lengths
  <2>2. CASE k \notin D
    <3>1. D \ {k} = D
      BY <2>2
    <3> QED
      BY <1>6, <2>2, <3>1
  <2> QED
    BY <2>1, <2>2
<1> HIDE DEF D, old
<1>8. Total(h)[D \cup {k}] = n + Total(f)[D \ {k}]
  BY <1>3, <1>4, <1>5
<1>9. Total(h)[D \cup {k}] = (Total(f)[D] - old) + n
  BY ONLY <1>6, <1>7, <1>8, n \in Nat
<1> QED
  BY <1>1, <1>2, <1>6, <1>7, <1>9 DEF D, old

\* What deleting a key does.
LEMMA SumAfterDelete ==
    ASSUME NEW f, Lengths(f), NEW k \in DOMAIN f, NEW h, h = Restrict(f, DOMAIN f \ {k})
    PROVE  /\ Lengths(h) /\ f[k] \in Nat
           /\ Total(f)[DOMAIN f] \in Nat /\ Total(h)[DOMAIN h] \in Nat
           /\ Total(h)[DOMAIN h] = Total(f)[DOMAIN f] - f[k]
<1> DEFINE D == DOMAIN f
<1>1. DOMAIN h = D \ {k} /\ \A x \in D \ {k} : h[x] = f[x]
  BY DEF Restrict
<1>2. Lengths(h)
  BY <1>1, FS_RemoveElement DEF Lengths
<1>3. D \in SUBSET DOMAIN f /\ D \ {k} \in SUBSET DOMAIN f /\ D \ {k} \in SUBSET DOMAIN h
  BY <1>1
<1>4. Total(f)[D] = f[k] + Total(f)[D \ {k}]
  BY <1>3, AnyFirst
<1>5. Total(h)[D \ {k}] = Total(f)[D \ {k}]
  <2>1. \A x \in D \ {k} : h[x] = f[x]
    BY <1>1
  <2> HIDE DEF D
  <2> QED
    BY ONLY <1>2, <1>3, <2>1, Lengths(f), SameSum
<1>6. Total(f)[D \ {k}] \in Nat /\ f[k] \in Nat
  BY <1>3, TotalUnfolds DEF Lengths
<1> HIDE DEF D
<1>7. /\ Total(h)[D \ {k}] = Total(f)[D] - f[k]
      /\ Total(h)[D \ {k}] \in Nat /\ Total(f)[D] \in Nat
  BY <1>4, <1>5, <1>6
<1> QED
  BY <1>1, <1>2, <1>6, <1>7 DEF D

LEMMA NothingStored == Lengths(NoFunction) /\ Total(NoFunction)[DOMAIN NoFunction] = 0
<1>1. DOMAIN NoFunction = {}
  BY DEF NoFunction
<1>2. Lengths(NoFunction)
  BY <1>1, FS_EmptySet DEF Lengths
<1>3. Total(NoFunction)[{}] = Unfolded(NoFunction, Total(NoFunction), {})
  <2>1. {} \in SUBSET DOMAIN NoFunction
    OBVIOUS
  <2> QED
    BY <1>2, <2>1, TotalUnfolds
<1> QED
  BY <1>1, <1>2, <1>3 DEF Unfolded
-----------------------------------------------------------------------------
(***************************************************************************)
(* The quota.  It is inductive once it is known that the running count is  *)
(* the sum of the entries, that what no session has is empty, and that a   *)
(* session's manifest stays what it was.                                   *)
(***************************************************************************)
Sum(i) == Total(data[i])[DOMAIN data[i]]

Stored ==
    /\ DOMAIN data = Instances /\ DOMAIN total = Instances
    /\ \A i \in Instances :
        /\ Lengths(data[i]) /\ total[i] = Sum(i)
        /\ session[i] = Absent => data[i] = NoFunction
        /\ session[i] # Absent => Sum(i) <= StorageQuota(Manifest(i))

LEMMA QuotaIsNat ==
    ASSUME Catalogued, NEW v \in DOMAIN installed PROVE StorageQuota(installed[v]) \in Nat
<1> DEFINE m == installed[v]
           c == "storage:write"
<1>1. m \in Packages /\ ValidateManifest(m)
  BY DEF Catalogued
<1> HIDE DEF m
<1>2. CASE c \in Declared(m)
  <2> DEFINE i == LastPlace(m, c)
  <2>1. i \in DOMAIN m.permissions /\ m.permissions[i].cap = c /\ KindOf(c) = "storage"
    BY <1>1, <1>2, OnePlace DEF KindOf
  <2>2. Typed(ParamsAt(m, i)) /\ ParamsAt(m, i).kind = "storage"
    BY <1>1, <2>1, ParsedRegular DEF ValidateManifest
  <2> HIDE DEF i
  <2>3. ParamsAt(m, i).quota["maxBytes"] \in Nat
    BY <2>2, KindFacts DEF Typed, QuotasOf
  <2> QED
    BY <1>2, <2>3 DEF StorageQuota, i, m
<1>3. CASE c \notin Declared(m)
  <2>1. "maxBytes" \in Quotas
    BY KindFacts DEF QuotasOf
  <2> QED
    BY <1>3, <2>1, PermissionsAssumption DEF StorageQuota, m
<1> QED
  BY <1>2, <1>3

LEMMA InitStored == Init => Stored
  BY NothingStored DEF Init, Stored, Sum

\* Steps that leave sessions and their storage alone, and the manifests that are installed.
LEMMA ElsewhereStored ==
    ASSUME IInv, Stored, UNCHANGED <<session, storage>>,
           \A v \in DOMAIN installed : installed'[v] = installed[v]
    PROVE  Stored'
<1>1. \A i \in Instances : session[i] # Absent => installed'[session[i]] = installed[session[i]]
  BY DEF IInv, Bound
<1> QED
  BY <1>1 DEF Stored, Sum, Manifest, storage

LEMMA StartStored == ASSUME IInv, Stored, NEW i \in Instances, StartSession(i) PROVE Stored'
<1>1. /\ session' = [session EXCEPT ![i] = bound[i]] /\ UNCHANGED <<data, total, installed>>
      /\ session[i] = Absent /\ bound[i] \in DOMAIN installed \cup {Absent}
      /\ session \in [Instances -> DOMAIN installed \cup {Absent}]
  BY DEF StartSession, catalog, storage, IInv, Bound
<1>2. \A j \in Instances : j # i => session'[j] = session[j]
  BY <1>1
<1>3. data[i] = NoFunction /\ Sum(i) = 0
  BY <1>1, NothingStored DEF Stored, Sum
<1>4. bound[i] # Absent => 0 <= StorageQuota(installed[bound[i]])
  BY <1>1, QuotaIsNat DEF IInv
<1>5. session'[i] = bound[i]
  BY <1>1
<1>6. ASSUME NEW j \in Instances
      PROVE  /\ Lengths(data[j]) /\ total[j] = Sum(j)
             /\ session'[j] = Absent => data[j] = NoFunction
             /\ session'[j] # Absent => Sum(j) <= StorageQuota(installed[session'[j]])
  BY <1>2, <1>3, <1>4, <1>5 DEF Stored, Manifest
<1> QED
  BY <1>1, <1>6 DEF Stored, Sum, Manifest

LEMMA EndStored == ASSUME IInv, Stored, NEW i \in Instances, EndSession(i) PROVE Stored'
<1>1. /\ session' = [session EXCEPT ![i] = Absent] /\ data' = [data EXCEPT ![i] = NoFunction]
      /\ total' = [total EXCEPT ![i] = 0] /\ UNCHANGED installed
      /\ session \in [Instances -> DOMAIN installed \cup {Absent}]
  BY DEF EndSession, catalog, IInv, Bound
<1>2. /\ DOMAIN data' = Instances /\ data'[i] = NoFunction /\ session'[i] = Absent
      /\ DOMAIN total' = Instances /\ total'[i] = 0
      /\ \A j \in Instances : j # i =>
            data'[j] = data[j] /\ total'[j] = total[j] /\ session'[j] = session[j]
  BY <1>1 DEF Stored
<1> QED
  BY <1>1, <1>2, NothingStored DEF Stored, Sum, Manifest

\* A session writes: its own sum is what matters.
LEMMA WriteStored ==
    ASSUME IInv, Stored, NEW i \in Instances, NEW h, data' = [data EXCEPT ![i] = h],
           total' = [total EXCEPT ![i] = Total(h)[DOMAIN h]],
           UNCHANGED <<installed, session>>, session[i] # Absent, Lengths(h),
           Total(h)[DOMAIN h] <= StorageQuota(Manifest(i))
    PROVE  Stored'
<1>1. /\ DOMAIN data' = Instances /\ data'[i] = h
      /\ DOMAIN total' = Instances /\ total'[i] = Total(h)[DOMAIN h]
      /\ \A j \in Instances : j # i => data'[j] = data[j] /\ total'[j] = total[j]
  BY DEF Stored
<1> QED
  BY <1>1 DEF Stored, Sum, Manifest

LEMMA SetStored ==
    ASSUME IInv, Stored, NEW i \in Instances, NEW k \in Names, NEW n \in Sizes, StorageSet(i, k, n)
    PROVE  Stored'
<1> DEFINE f == data[i]
           h == [x \in DOMAIN f \cup {k} |-> IF x = k THEN n ELSE f[x]]
           old == IF k \in DOMAIN f THEN f[k] ELSE 0
           new == (total[i] - old) + n
<1>1. /\ session[i] # Absent /\ new <= StorageQuota(Manifest(i))
      /\ UNCHANGED <<installed, session>>
      /\ data' = [data EXCEPT ![i] = h] /\ total' = [total EXCEPT ![i] = new]
  BY DEF StorageSet, catalog
<1>2. Lengths(f) /\ total[i] = Total(f)[DOMAIN f] /\ n \in Nat
  BY PermissionsAssumption DEF Stored, Sum
<1>3. Lengths(h) /\ Total(h)[DOMAIN h] = (Total(f)[DOMAIN f] - old) + n
  BY <1>2, SumAfterSet
<1>4. Total(h)[DOMAIN h] = new
  BY <1>2, <1>3
<1> HIDE DEF h, old, new
<1>5. /\ Total(h)[DOMAIN h] <= StorageQuota(Manifest(i))
      /\ total' = [total EXCEPT ![i] = Total(h)[DOMAIN h]]
  BY <1>1, <1>4
<1> QED
  BY <1>1, <1>3, <1>5, WriteStored

LEMMA DeleteStored ==
    ASSUME IInv, Stored, NEW i \in Instances, NEW k \in Names, StorageDelete(i, k)
    PROVE  Stored'
<1> DEFINE f == data[i]
           h == Restrict(f, DOMAIN f \ {k})
<1>1. /\ session[i] # Absent /\ k \in DOMAIN f /\ UNCHANGED <<installed, session>>
      /\ data' = [data EXCEPT ![i] = h] /\ total' = [total EXCEPT ![i] = @ - f[k]]
  BY DEF StorageDelete, catalog
<1>2. /\ Lengths(f) /\ Total(f)[DOMAIN f] <= StorageQuota(Manifest(i))
      /\ total[i] = Total(f)[DOMAIN f] /\ DOMAIN total = Instances
  BY <1>1 DEF Stored, Sum
<1>3. /\ Lengths(h) /\ f[k] \in Nat
      /\ Total(f)[DOMAIN f] \in Nat /\ Total(h)[DOMAIN h] \in Nat
      /\ Total(h)[DOMAIN h] = Total(f)[DOMAIN f] - f[k]
  BY <1>1, <1>2, SumAfterDelete
<1>4. StorageQuota(Manifest(i)) \in Nat
  BY <1>1, QuotaIsNat DEF IInv, Bound, Manifest
<1> HIDE DEF f, h
<1>5. /\ Total(h)[DOMAIN h] <= StorageQuota(Manifest(i))
      /\ total' = [total EXCEPT ![i] = Total(h)[DOMAIN h]]
  BY <1>1, <1>2, <1>3, <1>4
<1> QED
  BY <1>1, <1>3, <1>5, WriteStored

LEMMA StepStored == IInv /\ Stored /\ [Next]_vars => Stored'
<1> SUFFICES ASSUME IInv, Stored, [Next]_vars PROVE Stored'
  OBVIOUS
<1>1. CASE \/ \E p \in Packages : InstallUnsigned(p) \/ \E a \in BOOLEAN : InstallTrusted(p, a)
           \/ RevokePublisher
           \/ \E i \in Instances :
                \/ \E v \in Versions : CreateInstance(i, v) \/ RollbackInstance(i, v)
                \/ SetDesired(i)
           \/ UNCHANGED vars
  <2>1. UNCHANGED <<session, storage>> /\ \A v \in DOMAIN installed : installed'[v] = installed[v]
    BY <1>1 DEF InstallUnsigned, InstallTrusted, Candidate, Place, RevokePublisher, CreateInstance,
                RollbackInstance, SetDesired, catalog, rows, storage, vars
  <2> QED
    BY <2>1, ElsewhereStored
<1>2. CASE \E i \in Instances : StartSession(i) \/ EndSession(i)
  BY <1>2, StartStored, EndStored
<1>3. CASE \E i \in Instances, k \in Names :
              StorageDelete(i, k) \/ \E n \in Sizes : StorageSet(i, k, n)
  BY <1>3, SetStored, DeleteStored
<1> QED
  BY <1>1, <1>2, <1>3 DEF Next

\* However many keys of whatever lengths a session writes, rewrites and deletes, and in
\* whichever order they are added up, the running count of its storage is their sum and
\* keeps to its quota (storage.rs set, delete).
THEOREM QuotaIsKept == Spec => []QuotaHolds
<1>1. Stored => QuotaHolds
  BY BytesTotal DEF Stored, Sum, QuotaHolds
<1> QED
  BY InitIInv, StepIInv, InitStored, StepStored, <1>1, PTL DEF Spec
=============================================================================
