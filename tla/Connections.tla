----------------------------- MODULE Connections -----------------------------
(***************************************************************************)
(* Connections to outside services: the store's connections and grants     *)
(* (floatile-store), the credential vault, and per session the HTTPS       *)
(* service with its cache, its rate window and its requests                *)
(* (floatile-services/http.rs, broker.rs), composed by the supervisor      *)
(* before a session starts (compose_instance_https).                       *)
(*                                                                         *)
(* Templates, queries and bodies are abstract: a request is a member of    *)
(* Requests, and an answer is where it came from.  The registry that runs  *)
(* the requests is module Operations; here a request may be abandoned.     *)
(***************************************************************************)
EXTENDS Naturals

CONSTANTS
    MaxConns,    \* connection identities that may be allocated
    Instances,   \* rows of plugin_instances
    Refs,        \* credential references
    Requests,    \* a template with its query: one URL
    Probed,      \* health values the host may report
    Cached,      \* requests whose template has a cacheTtlMs
    Lenient,     \* requests whose template has a staleIfErrorMs
    MaxRetries,  \* maxRetries of the templates
    RateMax,     \* max_requests_per_minute of the grant
    MaxGen,      \* credential_generation: i64::MAX in the code
    MaxTime,     \* seconds of the clock
    MaxOps,      \* requests a session may submit (a bound on inputs)
    MaxEdits,    \* changes of the store and the vault (a bound on inputs)
    None

Healths == {"unknown", "healthy", "degraded", "unavailable", "revoked"}

ASSUME ConnectionsAssumption ==
    /\ MaxConns \in Nat /\ MaxRetries \in Nat /\ RateMax \in Nat
    /\ MaxGen \in Nat /\ MaxTime \in Nat /\ MaxOps \in Nat /\ MaxEdits \in Nat
    /\ Probed \subseteq Healths
    /\ Cached \subseteq Requests /\ Lenient \subseteq Requests

ConnIds == 1..MaxConns
Gens    == 0..MaxGen
Rows    == [ref : Refs, gen : Gens, health : Healths, updated : 0..MaxTime]

ASSUME NoneAssumption == None \notin Rows /\ None \notin Gens

VARIABLES
    conn,      \* table connections
    nextConn,  \* connection_id_allocator
    alive,     \* table plugin_instances
    grants,    \* table instance_connection_grants
    vault,     \* references the vault has a secret for
    edits,
    draft,     \* the service compose_instance_https is building, or has built
    running,   \* instances with a session
    copy,      \* the connections the service of the session holds
    floor,     \* generations in the store when its composition began (history)
    cache,     \* its cached responses
    used,      \* requests in the current rate window
    ops        \* requests the session has submitted

store       == <<conn, nextConn, alive, grants, vault>>
service     == <<copy, floor, running>>
sessionVars == <<draft, service, cache, used, ops>>
vars        == <<store, edits, sessionVars>>

\* The cache key has the URL, the connection and its generation.
Keys    == [conn : ConnIds, gen : Gens, req : Requests]
Ages    == {"fresh", "stale", "old"}
Entries == [from : Keys, age : Ages]

\* How a request ended: answered by the service, out of the cache, or not.
Endings == {"fetched", "fresh", "stale", "failed", "abandoned"}
Stages  == {"queued", "asking", "sleeping"} \cup Endings
\* A request: its key, and the key of the request whose answer it got.
Ops     == [key : Keys, stage : Stages, attempt : 0..MaxRetries, answer : Keys \cup {None}]

\* Granted connections still to be read, and those that have been.
Drafts  == [stage : {"none", "reading", "ready"}, picked : SUBSET ConnIds,
            copy : [ConnIds -> Rows \cup {None}], floor : [ConnIds -> Gens \cup {None}]]

TypeOK ==
    /\ conn \in [ConnIds -> Rows \cup {None}]
    /\ nextConn \in 1..MaxConns + 1
    /\ alive \subseteq Instances
    /\ grants \subseteq Instances \X ConnIds
    /\ vault \subseteq Refs
    /\ edits \in 0..MaxEdits
    /\ draft \in [Instances -> Drafts]
    /\ running \subseteq Instances
    /\ copy \in [Instances -> [ConnIds -> Rows \cup {None}]]
    /\ floor \in [Instances -> [ConnIds -> Gens \cup {None}]]
    /\ cache \in [Instances -> [Keys -> Entries \cup {None}]]
    /\ used \in [Instances -> 0..RateMax]
    /\ ops \in [Instances -> [1..MaxOps -> Ops \cup {None}]]

NoCopy  == [c \in ConnIds |-> None]
NoCache == [k \in Keys |-> None]
NoOps   == [n \in 1..MaxOps |-> None]
NoDraft == [stage |-> "none", picked |-> {}, copy |-> NoCopy, floor |-> NoCopy]

Init ==
    /\ conn = NoCopy /\ nextConn = 1
    /\ alive = Instances /\ grants = {} /\ vault = {} /\ edits = 0
    /\ draft = [i \in Instances |-> NoDraft]
    /\ running = {}
    /\ copy = [i \in Instances |-> NoCopy]
    /\ floor = [i \in Instances |-> NoCopy]
    /\ cache = [i \in Instances |-> NoCache]
    /\ used = [i \in Instances |-> 0]
    /\ ops = [i \in Instances |-> NoOps]
-----------------------------------------------------------------------------
(***************************************************************************)
(* The store: each operation is one statement or one transaction.          *)
(***************************************************************************)
Edit == edits < MaxEdits /\ edits' = edits + 1

\* UNIQUE (credential_ref).
Unused(ref) == \A c \in ConnIds : conn[c] # None => conn[c].ref # ref

CreateConnection(ref, t) ==
    /\ nextConn \in ConnIds /\ Unused(ref)
    /\ conn' = [conn EXCEPT ![nextConn] =
                   [ref |-> ref, gen |-> 0, health |-> "unknown", updated |-> t]]
    /\ nextConn' = nextConn + 1
    /\ UNCHANGED <<alive, grants, vault>>

GrantConnection(i, c) ==
    /\ i \in alive /\ conn[c] # None
    /\ grants' = grants \cup {<<i, c>>}
    /\ UNCHANGED <<conn, nextConn, alive, vault>>

RevokeConnection(i, c) ==
    /\ <<i, c>> \in grants
    /\ grants' = grants \ {<<i, c>>}
    /\ UNCHANGED <<conn, nextConn, alive, vault>>

\* Mutant of NotNewer: an older reading may be written over a newer one.
Whatever(c, t) == conn[c] # None

\* WHERE updated_at <= t.
NotNewer(c, t) == conn[c] # None /\ conn[c].updated <= t

RotateCredential(c, ref, t) ==
    /\ NotNewer(c, t) /\ conn[c].gen < MaxGen
    /\ Unused(ref) \/ conn[c].ref = ref
    /\ conn' = [conn EXCEPT ![c] = [ref |-> ref, gen |-> conn[c].gen + 1,
                                    health |-> "unknown", updated |-> t]]
    /\ UNCHANGED <<nextConn, alive, grants, vault>>

SetHealth(c, health, t) ==
    /\ NotNewer(c, t)
    /\ conn' = [conn EXCEPT ![c].health = health, ![c].updated = t]
    /\ UNCHANGED <<nextConn, alive, grants, vault>>

DeleteUnreferenced(c) ==
    /\ conn[c] # None /\ \A i \in Instances : <<i, c>> \notin grants
    /\ conn' = [conn EXCEPT ![c] = None]
    /\ UNCHANGED <<nextConn, alive, grants, vault>>

\* InstanceStore::delete: the grants go with the instance.
DeleteInstance(i) ==
    /\ i \in alive
    /\ alive' = alive \ {i}
    /\ grants' = {g \in grants : g[1] # i}
    /\ UNCHANGED <<conn, nextConn, vault>>

\* CredentialVault: put and delete.  A restart of the host empties it.
ChangeVault(refs) ==
    /\ vault' = refs
    /\ UNCHANGED <<conn, nextConn, alive, grants>>

Administer ==
    /\ Edit
    /\ \/ \E ref \in Refs, t \in 0..MaxTime : CreateConnection(ref, t)
       \/ \E i \in Instances, c \in ConnIds : GrantConnection(i, c) \/ RevokeConnection(i, c)
       \/ \E c \in ConnIds, ref \in Refs, t \in 0..MaxTime : RotateCredential(c, ref, t)
       \/ \E c \in ConnIds, h \in Probed, t \in 0..MaxTime : SetHealth(c, h, t)
       \/ \E c \in ConnIds : DeleteUnreferenced(c)
       \/ \E i \in Instances : DeleteInstance(i)
       \/ \E ref \in Refs : ChangeVault(vault \cup {ref}) \/ ChangeVault(vault \ {ref})
    /\ UNCHANGED sessionVars
-----------------------------------------------------------------------------
(***************************************************************************)
(* compose_instance_https, by the supervisor's worker, statement by        *)
(* statement; an older session of the instance may still run.              *)
(***************************************************************************)
\* grants_for_instance.
ReadGrants(i) ==
    /\ i \in alive
    /\ draft[i].stage = "none"
    /\ LET granted == {c \in ConnIds : <<i, c>> \in grants} IN
         draft' = [draft EXCEPT ![i] =
             [stage |-> IF granted = {} THEN "ready" ELSE "reading", picked |-> granted,
              copy |-> NoCopy,
              floor |-> [c \in ConnIds |-> IF conn[c] = None THEN None ELSE conn[c].gen]]]
    /\ UNCHANGED <<store, edits, service, cache, used, ops>>

\* ConnectionStore::get.  A connection that is gone fails the start.
ReadConnection(i, c) ==
    /\ draft[i].stage = "reading" /\ c \in draft[i].picked
    /\ draft' = [draft EXCEPT ![i] =
         IF conn[c] = None THEN NoDraft
         ELSE [draft[i] EXCEPT !.stage = IF draft[i].picked = {c} THEN "ready" ELSE "reading",
                               !.picked = draft[i].picked \ {c}, !.copy[c] = conn[c]]]
    /\ UNCHANGED <<store, edits, service, cache, used, ops>>

\* Mutant of StartSession: the service of the session it replaces is kept.
StartKeepsService(i) ==
    /\ draft[i].stage = "ready"
    /\ running' = running \cup {i}
    /\ copy' = IF i \in running THEN copy ELSE [copy EXCEPT ![i] = draft[i].copy]
    /\ floor' = [floor EXCEPT ![i] = draft[i].floor]
    /\ cache' = [cache EXCEPT ![i] = NoCache]
    /\ used' = [used EXCEPT ![i] = 0]
    /\ ops' = [ops EXCEPT ![i] = NoOps]
    /\ draft' = [draft EXCEPT ![i] = NoDraft]
    /\ UNCHANGED <<store, edits>>

\* The new session has a service, a broker and a registry of its own.
StartSession(i) ==
    /\ draft[i].stage = "ready"
    /\ running' = running \cup {i}
    /\ copy' = [copy EXCEPT ![i] = draft[i].copy]
    /\ floor' = [floor EXCEPT ![i] = draft[i].floor]
    /\ cache' = [cache EXCEPT ![i] = NoCache]
    /\ used' = [used EXCEPT ![i] = 0]
    /\ ops' = [ops EXCEPT ![i] = NoOps]
    /\ draft' = [draft EXCEPT ![i] = NoDraft]
    /\ UNCHANGED <<store, edits>>

EndSession(i) ==
    /\ i \in running
    /\ running' = running \ {i}
    /\ copy' = [copy EXCEPT ![i] = NoCopy]
    /\ floor' = [floor EXCEPT ![i] = NoCopy]
    /\ cache' = [cache EXCEPT ![i] = NoCache]
    /\ used' = [used EXCEPT ![i] = 0]
    /\ ops' = [ops EXCEPT ![i] = NoOps]
    /\ UNCHANGED <<store, edits, draft>>
-----------------------------------------------------------------------------
(***************************************************************************)
(* Broker::submit_https and HttpsService::prepare.  A refusal (unknown or  *)
(* unusable connection, no secret, rate) changes nothing; the registry may *)
(* still refuse what the rate has admitted.                                *)
(***************************************************************************)
Usable(row) == row # None /\ row.health \notin {"unavailable", "revoked"} /\ row.ref \in vault

Prepared(i, c, q) ==
    [key |-> [conn |-> c, gen |-> copy[i][c].gen, req |-> q],
     stage |-> "queued", attempt |-> 0, answer |-> None]

\* reserve_https_rate: sixty seconds after its start the window is a new one.
ReserveRate(i) ==
    \E elapsed \in BOOLEAN :
        LET already == IF elapsed THEN 0 ELSE used[i] IN
          already < RateMax /\ used' = [used EXCEPT ![i] = already + 1]

Vacant(i, n) == ops[i][n] = None /\ \A m \in 1..n - 1 : ops[i][m] # None

SubmitHttps(i, n, c, q) ==
    /\ i \in running /\ Usable(copy[i][c])
    /\ Vacant(i, n)
    /\ ReserveRate(i)
    /\ ops' \in {[ops EXCEPT ![i][n] = Prepared(i, c, q)], ops}
    /\ UNCHANGED <<store, edits, draft, service, cache>>
-----------------------------------------------------------------------------
(***************************************************************************)
(* The work of a request.                                                  *)
(***************************************************************************)
\* Mutant of CacheKey: the account and its credential, without the URL.
CacheKeyIsAccount(key) == [key EXCEPT !.req = CHOOSE q \in Requests : TRUE]

CacheKey(key) == key

\* What the cache has for the request, at most as old as one of ages.
Hit(i, n, ages) ==
    LET entry == cache[i][CacheKey(ops[i][n].key)] IN entry # None /\ entry.age \in ages

Ends(i, n, ending, answer) ==
    ops' = [ops EXCEPT ![i][n].stage = ending, ![i][n].answer = answer]

AnswersFromCache(i, n, ending) ==
    /\ Ends(i, n, ending, cache[i][CacheKey(ops[i][n].key)].from)
    /\ UNCHANGED cache

Asks(i, n) ==
    /\ ops' = [ops EXCEPT ![i][n].stage = "asking"]
    /\ UNCHANGED cache

\* First a look into the cache.
Begin(i, n) ==
    /\ ops[i][n] # None /\ ops[i][n].stage = "queued"
    /\ IF ops[i][n].key.req \in Cached /\ Hit(i, n, {"fresh"})
          THEN AnswersFromCache(i, n, "fresh")
          ELSE Asks(i, n)
    /\ UNCHANGED <<store, edits, draft, service, used>>

\* The service answered within the template; insert replaces what is there.
Fetched(i, n) ==
    /\ ops[i][n] # None /\ ops[i][n].stage = "asking"
    /\ Ends(i, n, "fetched", ops[i][n].key)
    /\ cache' = IF ops[i][n].key.req \in Cached \cup Lenient
                   THEN [cache EXCEPT ![i][CacheKey(ops[i][n].key)] =
                            [from |-> ops[i][n].key, age |-> "fresh"]]
                   ELSE cache
    /\ UNCHANGED <<store, edits, draft, service, used>>

Retryable(error) == error = "unavailable"

\* An attempt failed: sleep and try again, or fall back on the cache.
Fails(i, n, error) ==
    /\ ops[i][n] # None /\ ops[i][n].stage = "asking"
    /\ IF Retryable(error) /\ ops[i][n].attempt < MaxRetries
          THEN /\ ops' = [ops EXCEPT ![i][n].stage = "sleeping"]
               /\ UNCHANGED cache
          ELSE IF ops[i][n].key.req \in Lenient /\ Hit(i, n, {"fresh", "stale"})
                 THEN AnswersFromCache(i, n, "stale")
                 ELSE Ends(i, n, "failed", None) /\ UNCHANGED cache
    /\ UNCHANGED <<store, edits, draft, service, used>>

Retry(i, n) ==
    /\ ops[i][n] # None /\ ops[i][n].stage = "sleeping"
    /\ ops' = [ops EXCEPT ![i][n].stage = "asking", ![i][n].attempt = @ + 1]
    /\ UNCHANGED <<store, edits, draft, service, used, cache>>

\* The deadline or a cancellation of module Operations drops the work.
Abandon(i, n) ==
    /\ ops[i][n] # None /\ ops[i][n].stage \notin Endings
    /\ Ends(i, n, "abandoned", None)
    /\ UNCHANGED <<store, edits, draft, service, used, cache>>

\* An entry outlives cache_ttl, then cache_ttl + stale_if_error.
Ageing(i, k) ==
    /\ cache[i][k] # None
    /\ \/ cache[i][k].age = "fresh" /\ cache' = [cache EXCEPT ![i][k].age = "stale"]
       \/ cache[i][k].age = "stale" /\ cache' = [cache EXCEPT ![i][k].age = "old"]
    /\ UNCHANGED <<store, edits, draft, service, used, ops>>
-----------------------------------------------------------------------------
Work(i, n) == Begin(i, n) \/ Fetched(i, n) \/ Retry(i, n)
                  \/ \E error \in {"unavailable", "rejected"} : Fails(i, n, error)

Next ==
    \/ Administer
    \/ \E i \in Instances :
         \/ ReadGrants(i) \/ (\E c \in ConnIds : ReadConnection(i, c))
         \/ StartSession(i) \/ EndSession(i)
         \/ \E n \in 1..MaxOps, c \in ConnIds, q \in Requests : SubmitHttps(i, n, c, q)
         \/ \E n \in 1..MaxOps : Work(i, n) \/ Abandon(i, n)
         \/ \E k \in Keys : Ageing(i, k)

Spec == Init /\ [][Next]_vars
-----------------------------------------------------------------------------
(***************************************************************************)
(* Properties.                                                             *)
(***************************************************************************)
\* Grants are of instances and connections that exist: what is granted can be
\* resolved, and what is granted to nobody can be deleted.
GrantsAreLive ==
    \A i \in Instances, c \in ConnIds : <<i, c>> \in grants => i \in alive /\ conn[c] # None

\* A connection's time and generation never go back, whoever writes it with
\* whichever clock; its health and credential are of its newest change.
NeverRegresses ==
    [][\A c \in ConnIds : conn[c] # None /\ conn'[c] # None =>
          /\ conn'[c].updated >= conn[c].updated
          /\ conn'[c].gen >= conn[c].gen
          /\ conn'[c].ref # conn[c].ref => conn'[c].gen > conn[c].gen]_vars

\* A session never starts on connections older than its composition: what was
\* rotated before it is rotated in its copy.
CopyIsRecent ==
    \A i \in running, c \in ConnIds :
        copy[i][c] # None => floor[i][c] # None /\ copy[i][c].gen >= floor[i][c]

\* Whatever is fetched, cached, aged and asked again by several requests at
\* once, a request is answered for its own account, credential and URL.
AnswersOwnRequest ==
    \A i \in Instances, n \in 1..MaxOps :
        ops[i][n] # None /\ ops[i][n].answer # None => ops[i][n].answer = ops[i][n].key

\* What a session is composed of is there and is no older than its composition,
\* in any order of grants, rotations and deletions (store/lib.rs:420-530,
\* http.rs:187).
CompositionIsSound == GrantsAreLive /\ CopyIsRecent

=============================================================================
