--------------------------- MODULE ConnectionsProofs ---------------------------
(***************************************************************************)
(* Theorems about Connections, for any number of instances, connections,   *)
(* requests, retries and changes of the store.                             *)
(***************************************************************************)
EXTENDS Connections, TLAPS

USE DEF ConnIds

\* The allocator never gives an identity twice, so a generation read once bounds
\* those to come as long as the connection exists.
Allocated == \A c \in ConnIds : conn[c] # None => c < nextConn

FloorHolds ==
    \A i \in Instances, c \in ConnIds :
        draft[i].floor[c] # None =>
            c < nextConn /\ (conn[c] # None => conn[c].gen >= draft[i].floor[c])

\* What a composition still has to read was there when it began, and what it has
\* read is not older.
DraftIsRecent ==
    \A i \in Instances, c \in ConnIds :
        /\ c \in draft[i].picked => draft[i].floor[c] # None
        /\ draft[i].copy[c] # None =>
              draft[i].floor[c] # None /\ draft[i].copy[c].gen >= draft[i].floor[c]

\* An entry of the cache is under the key of the request it answered.
CacheIsKeyed ==
    \A i \in Instances, k \in Keys : cache[i][k] # None => cache[i][k].from = k

SleepersMayRetry ==
    \A i \in Instances, n \in 1..MaxOps :
        ops[i][n] # None /\ ops[i][n].stage = "sleeping" => ops[i][n].attempt < MaxRetries

(***************************************************************************)
(* The inductive invariant, by the state each part is about.               *)
(***************************************************************************)
StoreTyped ==
    /\ conn \in [ConnIds -> Rows \cup {None}]
    /\ nextConn \in 1..MaxConns + 1
    /\ alive \subseteq Instances
    /\ grants \subseteq Instances \X ConnIds
    /\ vault \subseteq Refs

StoreInv == StoreTyped /\ GrantsAreLive /\ Allocated

DraftInv == draft \in [Instances -> Drafts] /\ FloorHolds /\ DraftIsRecent

CopyInv ==
    /\ running \subseteq Instances
    /\ copy \in [Instances -> [ConnIds -> Rows \cup {None}]]
    /\ floor \in [Instances -> [ConnIds -> Gens \cup {None}]]
    /\ CopyIsRecent

CacheInv == cache \in [Instances -> [Keys -> Entries \cup {None}]] /\ CacheIsKeyed

OpsInv ==
    /\ ops \in [Instances -> [1..MaxOps -> Ops \cup {None}]]
    /\ SleepersMayRetry /\ AnswersOwnRequest

CountInv == used \in [Instances -> 0..RateMax] /\ edits \in 0..MaxEdits

IInv == StoreInv /\ DraftInv /\ CopyInv /\ CacheInv /\ OpsInv /\ CountInv

LEMMA IInvImplies ==
    IInv => TypeOK /\ GrantsAreLive /\ CopyIsRecent /\ AnswersOwnRequest
  BY DEF IInv, StoreInv, StoreTyped, DraftInv, CopyInv, CacheInv, OpsInv, CountInv, TypeOK

LEMMA InitInv == Init => IInv
<1> SUFFICES ASSUME Init PROVE IInv
  OBVIOUS
<1> USE DEF Init
<1>1. NoCopy \in [ConnIds -> Rows \cup {None}] /\ NoCopy \in [ConnIds -> Gens \cup {None}]
  BY DEF NoCopy
<1>2. NoDraft \in Drafts
  BY <1>1 DEF NoDraft, Drafts
<1>3. StoreInv
  BY <1>1, ConnectionsAssumption
     DEF StoreInv, StoreTyped, GrantsAreLive, Allocated, NoCopy
<1>4. DraftInv
  BY <1>2 DEF DraftInv, FloorHolds, DraftIsRecent, NoDraft, NoCopy
<1>5. CopyInv
  BY <1>1 DEF CopyInv, CopyIsRecent
<1>6. CacheInv
  BY DEF CacheInv, CacheIsKeyed, NoCache
<1>7. OpsInv
  BY DEF OpsInv, SleepersMayRetry, AnswersOwnRequest, NoOps
<1>8. CountInv
  BY ConnectionsAssumption DEF CountInv
<1> QED
  BY <1>3, <1>4, <1>5, <1>6, <1>7, <1>8 DEF IInv
-----------------------------------------------------------------------------
(***************************************************************************)
(* The store.  Its operations leave the sessions alone, and what a         *)
(* composition has noted of a connection stays a lower bound.              *)
(***************************************************************************)
\* What the store promises the compositions in one step: an identity noted keeps its
\* connection or loses it, and a connection that is there only gets newer generations.
Ascends ==
    /\ nextConn' >= nextConn
    /\ \A c \in ConnIds : c < nextConn /\ conn'[c] # None =>
           conn[c] # None /\ conn'[c].gen >= conn[c].gen

LEMMA RowFacts ==
    ASSUME NEW r \in Rows
    PROVE  /\ r # None /\ r.ref \in Refs /\ r.gen \in Gens /\ r.gen \in Nat
           /\ r.health \in Healths /\ r.updated \in 0..MaxTime
  BY NoneAssumption, ConnectionsAssumption DEF Rows, Gens

LEMMA StoreStep ==
    ASSUME StoreInv, Administer
    PROVE  StoreInv' /\ Ascends
<1> USE DEF StoreInv
<1>0. nextConn \in Nat /\ MaxConns \in Nat /\ \A c \in ConnIds : c \in Nat
  BY ConnectionsAssumption DEF StoreTyped
<1>1. ASSUME NEW ref \in Refs, NEW t \in 0..MaxTime, CreateConnection(ref, t)
      PROVE  StoreInv' /\ Ascends
  <2> DEFINE row == [ref |-> ref, gen |-> 0, health |-> "unknown", updated |-> t]
  <2>1. row \in Rows
    BY ConnectionsAssumption DEF Rows, Gens, Healths
  <2>2. row # None
    BY <2>1, NoneAssumption
  <2> HIDE DEF row
  <2>3. /\ nextConn \in ConnIds /\ conn' = [conn EXCEPT ![nextConn] = row]
        /\ nextConn' = nextConn + 1 /\ UNCHANGED <<alive, grants, vault>>
    BY <1>1 DEF CreateConnection, row
  <2>4. StoreTyped'
    BY <1>0, <2>1, <2>3 DEF StoreTyped
  <2>5. GrantsAreLive'
    BY <2>2, <2>3 DEF GrantsAreLive, StoreTyped
  <2>6. Allocated'
    BY <1>0, <2>3 DEF Allocated, StoreTyped
  <2>7. Ascends
    <3>1. nextConn' >= nextConn
      BY <1>0, <2>3
    <3>2. ASSUME NEW c \in ConnIds, c < nextConn, conn'[c] # None
          PROVE  conn[c] # None /\ conn'[c].gen >= conn[c].gen
      <4>1. conn'[c] = conn[c]
        BY <1>0, <2>3, <3>2 DEF StoreTyped
      <4>2. conn[c] \in Rows
        BY <3>2, <4>1 DEF StoreTyped
      <4> QED
        BY <3>2, <4>1, <4>2, RowFacts
    <3> QED
      BY <3>1, <3>2 DEF Ascends
  <2> QED
    BY <2>4, <2>5, <2>6, <2>7
<1>2. ASSUME NEW c \in ConnIds, NEW row \in Rows, conn[c] # None,
             row.gen >= conn[c].gen,
             conn' = [conn EXCEPT ![c] = row],
             UNCHANGED <<nextConn, alive, grants, vault>>
      PROVE  StoreInv' /\ Ascends
  <2>1. row # None
    BY NoneAssumption
  <2>2. StoreTyped'
    BY <1>2 DEF StoreTyped
  <2>3. GrantsAreLive' /\ Allocated'
    BY <1>2, <2>1 DEF GrantsAreLive, Allocated, StoreTyped
  <2>4. ASSUME NEW d \in ConnIds, conn'[d] # None
        PROVE  conn[d] # None /\ conn'[d].gen >= conn[d].gen
    <3>1. CASE d = c
      BY <1>2, <3>1 DEF StoreTyped
    <3>2. CASE d # c
      <4>1. conn'[d] = conn[d] /\ conn[d] \in Rows
        BY <1>2, <2>4, <3>2 DEF StoreTyped
      <4> QED
        BY <2>4, <4>1, RowFacts
    <3> QED
      BY <3>1, <3>2
  <2>5. Ascends
    BY <1>0, <1>2, <2>4 DEF Ascends
  <2> QED
    BY <2>2, <2>3, <2>5
<1>3. ASSUME NEW c \in ConnIds, NEW ref \in Refs, NEW t \in 0..MaxTime,
             RotateCredential(c, ref, t)
      PROVE  StoreInv' /\ Ascends
  <2> DEFINE row == [ref |-> ref, gen |-> conn[c].gen + 1, health |-> "unknown", updated |-> t]
  <2>1. conn[c] # None /\ conn[c] \in Rows /\ conn[c].gen < MaxGen
    BY <1>3 DEF RotateCredential, NotNewer, StoreTyped
  <2>2. conn[c].gen \in Nat
    BY <2>1, RowFacts
  <2>3. conn[c].gen + 1 \in Gens
    BY <2>1, <2>2, ConnectionsAssumption DEF Gens
  <2>4. row \in Rows
    BY <2>3 DEF Rows, Healths
  <2>5. row.gen >= conn[c].gen
    BY <2>2
  <2>6. conn' = [conn EXCEPT ![c] = row] /\ UNCHANGED <<nextConn, alive, grants, vault>>
    BY <1>3 DEF RotateCredential
  <2> HIDE DEF row
  <2> QED
    BY <1>2, <2>1, <2>4, <2>5, <2>6
<1>4. ASSUME NEW c \in ConnIds, NEW health \in Probed, NEW t \in 0..MaxTime,
             SetHealth(c, health, t)
      PROVE  StoreInv' /\ Ascends
  <2> DEFINE row == [conn[c] EXCEPT !.health = health, !.updated = t]
  <2>1. conn[c] # None /\ conn[c] \in Rows
    BY <1>4 DEF SetHealth, NotNewer, StoreTyped
  <2>2. row \in Rows /\ row.gen = conn[c].gen
    BY <2>1, ConnectionsAssumption DEF Rows
  <2>3. row.gen >= conn[c].gen
    BY <2>1, <2>2, RowFacts
  <2>4. conn' = [conn EXCEPT ![c] = row] /\ UNCHANGED <<nextConn, alive, grants, vault>>
    BY <1>4, <2>1 DEF SetHealth, StoreTyped
  <2> HIDE DEF row
  <2> QED
    BY <1>2, <2>1, <2>2, <2>3, <2>4
<1>5. ASSUME UNCHANGED <<conn, nextConn>>, StoreTyped', GrantsAreLive'
      PROVE  StoreInv' /\ Ascends
  <2>1. Allocated'
    BY <1>5 DEF Allocated
  <2>2. \A c \in ConnIds : conn[c] # None => conn[c].gen \in Nat
    BY RowFacts DEF StoreTyped
  <2>3. Ascends
    BY <1>0, <1>5, <2>2 DEF Ascends
  <2> QED
    BY <1>5, <2>1, <2>3
<1>6. ASSUME NEW i \in Instances, NEW c \in ConnIds, GrantConnection(i, c)
      PROVE  StoreInv' /\ Ascends
  BY <1>5, <1>6 DEF GrantConnection, StoreTyped, GrantsAreLive
<1>7. ASSUME NEW i \in Instances, NEW c \in ConnIds, RevokeConnection(i, c)
      PROVE  StoreInv' /\ Ascends
  BY <1>5, <1>7 DEF RevokeConnection, StoreTyped, GrantsAreLive
<1>8. ASSUME NEW c \in ConnIds, DeleteUnreferenced(c)
      PROVE  StoreInv' /\ Ascends
  <2>1. /\ \A i \in Instances : <<i, c>> \notin grants
        /\ conn' = [conn EXCEPT ![c] = None] /\ UNCHANGED <<nextConn, alive, grants, vault>>
    BY <1>8 DEF DeleteUnreferenced
  <2>2. StoreTyped'
    BY <2>1 DEF StoreTyped
  <2>3. GrantsAreLive' /\ Allocated'
    BY <2>1 DEF GrantsAreLive, Allocated, StoreTyped
  <2>4. ASSUME NEW d \in ConnIds, conn'[d] # None
        PROVE  conn[d] # None /\ conn'[d].gen >= conn[d].gen
    <3>1. conn'[d] = conn[d] /\ conn[d] \in Rows
      BY <2>1, <2>4 DEF StoreTyped
    <3> QED
      BY <2>4, <3>1, RowFacts
  <2>5. Ascends
    BY <1>0, <2>1, <2>4 DEF Ascends
  <2> QED
    BY <2>2, <2>3, <2>5
<1>9. ASSUME NEW i \in Instances, DeleteInstance(i)
      PROVE  StoreInv' /\ Ascends
  <2>1. StoreTyped'
    BY <1>9 DEF DeleteInstance, StoreTyped
  <2>2. GrantsAreLive'
    BY <1>9 DEF DeleteInstance, StoreTyped, GrantsAreLive
  <2> QED
    BY <1>5, <1>9, <2>1, <2>2 DEF DeleteInstance
<1>10. ASSUME NEW refs \in SUBSET Refs, ChangeVault(refs)
       PROVE  StoreInv' /\ Ascends
  BY <1>5, <1>10 DEF ChangeVault, StoreTyped, GrantsAreLive
<1>11. \A ref \in Refs : vault \cup {ref} \in SUBSET Refs /\ vault \ {ref} \in SUBSET Refs
  BY DEF StoreTyped
<1> QED
  BY <1>1, <1>3, <1>4, <1>6, <1>7, <1>8, <1>9, <1>10, <1>11 DEF Administer
-----------------------------------------------------------------------------
(***************************************************************************)
(* What each kind of step leaves alone, and what the others need.          *)
(***************************************************************************)
LEMMA DraftFacts ==
    ASSUME DraftInv, NEW i \in Instances, NEW c \in ConnIds
    PROVE  /\ draft[i] \in Drafts
           /\ draft[i].floor[c] # None => draft[i].floor[c] \in Nat
           /\ draft[i].copy[c] # None => draft[i].copy[c] \in Rows
<1>1. draft[i] \in Drafts
  BY DEF DraftInv
<1>2. draft[i].floor[c] \in Gens \cup {None} /\ draft[i].copy[c] \in Rows \cup {None}
  BY <1>1 DEF Drafts
<1> QED
  BY <1>1, <1>2, ConnectionsAssumption DEF Gens

\* The work of a request changes that request and at most one entry of the cache.
LEMMA OpsStep ==
    ASSUME OpsInv, NEW i \in Instances, NEW n \in 1..MaxOps, NEW op \in Ops,
           op.stage = "sleeping" => op.attempt < MaxRetries,
           op.answer # None => op.answer = op.key,
           ops' = [ops EXCEPT ![i][n] = op]
    PROVE  OpsInv'
<1>1. ops' \in [Instances -> [1..MaxOps -> Ops \cup {None}]]
  BY DEF OpsInv
<1>2. \A j \in Instances, m \in 1..MaxOps :
         ops'[j][m] = IF j = i /\ m = n THEN op ELSE ops[j][m]
  BY DEF OpsInv
<1>3. SleepersMayRetry'
  BY <1>2 DEF OpsInv, SleepersMayRetry
<1>4. AnswersOwnRequest'
  BY <1>2 DEF OpsInv, AnswersOwnRequest
<1> QED
  BY <1>1, <1>3, <1>4 DEF OpsInv

LEMMA CacheStep ==
    ASSUME CacheInv, NEW i \in Instances, NEW k \in Keys, NEW e \in Entries, e.from = k,
           cache' = [cache EXCEPT ![i][k] = e]
    PROVE  CacheInv'
<1>1. cache' \in [Instances -> [Keys -> Entries \cup {None}]]
  BY DEF CacheInv
<1>2. \A j \in Instances, l \in Keys :
         cache'[j][l] = IF j = i /\ l = k THEN e ELSE cache[j][l]
  BY DEF CacheInv
<1>3. CacheIsKeyed'
  BY <1>2 DEF CacheInv, CacheIsKeyed
<1> QED
  BY <1>1, <1>3 DEF CacheInv

LEMMA Unchanged ==
    /\ StoreInv /\ UNCHANGED store => StoreInv'
    /\ DraftInv /\ UNCHANGED <<store, draft>> => DraftInv'
    /\ CopyInv /\ UNCHANGED service => CopyInv'
    /\ CacheInv /\ UNCHANGED cache => CacheInv'
    /\ OpsInv /\ UNCHANGED ops => OpsInv'
    /\ CountInv /\ UNCHANGED <<used, edits>> => CountInv'
<1>1. StoreInv /\ UNCHANGED store => StoreInv'
  BY DEF StoreInv, StoreTyped, GrantsAreLive, Allocated, store
<1>2. DraftInv /\ UNCHANGED <<store, draft>> => DraftInv'
  BY DEF DraftInv, FloorHolds, DraftIsRecent, store
<1>3. CopyInv /\ UNCHANGED service => CopyInv'
  BY DEF CopyInv, CopyIsRecent, service
<1>4. CacheInv /\ UNCHANGED cache => CacheInv'
  BY DEF CacheInv, CacheIsKeyed
<1>5. OpsInv /\ UNCHANGED ops => OpsInv'
  BY DEF OpsInv, SleepersMayRetry, AnswersOwnRequest
<1>6. CountInv /\ UNCHANGED <<used, edits>> => CountInv'
  BY DEF CountInv
<1> QED
  BY <1>1, <1>2, <1>3, <1>4, <1>5, <1>6
-----------------------------------------------------------------------------
(***************************************************************************)
(* One lemma per action: it preserves the invariant.                       *)
(***************************************************************************)
LEMMA AdministerInv == IInv /\ Administer => IInv'
<1> SUFFICES ASSUME IInv, Administer PROVE IInv'
  OBVIOUS
<1> USE DEF IInv
<1>1. StoreInv' /\ Ascends
  BY StoreStep
<1>2. UNCHANGED sessionVars
  BY DEF Administer
<1>3. DraftInv'
  <2>1. ASSUME NEW i \in Instances, NEW c \in ConnIds, draft[i].floor[c] # None
        PROVE  c < nextConn' /\ (conn'[c] # None => conn'[c].gen >= draft[i].floor[c])
    <3>1. c < nextConn /\ (conn[c] # None => conn[c].gen >= draft[i].floor[c])
      BY <2>1 DEF DraftInv, FloorHolds
    <3>2. c \in Nat /\ nextConn \in Nat /\ nextConn' \in Nat /\ nextConn' >= nextConn
      BY <1>1, ConnectionsAssumption DEF StoreInv, StoreTyped, Ascends
    <3>3. draft[i].floor[c] \in Nat
      BY <2>1, DraftFacts
    <3>4. ASSUME conn'[c] # None PROVE conn'[c].gen >= draft[i].floor[c]
      <4>1. conn[c] # None /\ conn'[c].gen >= conn[c].gen
        BY <1>1, <3>1, <3>4 DEF Ascends
      <4>2. conn[c] \in Rows /\ conn'[c] \in Rows
        BY <1>1, <3>4, <4>1 DEF StoreInv, StoreTyped
      <4>3. conn[c].gen \in Nat /\ conn'[c].gen \in Nat
        BY <4>2, RowFacts
      <4> QED
        BY <3>1, <3>3, <4>1, <4>3
    <3> QED
      BY <3>1, <3>2, <3>4
  <2>2. FloorHolds'
    BY <1>2, <2>1 DEF FloorHolds, sessionVars
  <2>3. DraftIsRecent'
    BY <1>2 DEF DraftInv, DraftIsRecent, sessionVars
  <2> QED
    BY <1>2, <2>2, <2>3 DEF DraftInv, sessionVars
<1>4. CopyInv' /\ CacheInv' /\ OpsInv'
  BY <1>2, Unchanged DEF sessionVars
<1>5. CountInv'
  BY <1>2, ConnectionsAssumption DEF CountInv, Administer, Edit, sessionVars
<1> QED
  BY <1>1, <1>3, <1>4, <1>5

\* A draft replaced by one that is bounded and recent.
LEMMA DraftStep ==
    ASSUME IInv, NEW i \in Instances, NEW d \in Drafts,
           \A c \in ConnIds :
              /\ d.floor[c] # None =>
                    c < nextConn /\ (conn[c] # None => conn[c].gen >= d.floor[c])
              /\ c \in d.picked => d.floor[c] # None
              /\ d.copy[c] # None => d.floor[c] # None /\ d.copy[c].gen >= d.floor[c],
           draft' = [draft EXCEPT ![i] = d],
           UNCHANGED store
    PROVE  DraftInv'
<1> USE DEF IInv
<1>1. draft' \in [Instances -> Drafts]
  BY DEF DraftInv
<1>2. \A j \in Instances : draft'[j] = IF j = i THEN d ELSE draft[j]
  BY DEF DraftInv
<1>3. FloorHolds'
  BY <1>2 DEF DraftInv, FloorHolds, store
<1>4. DraftIsRecent'
  BY <1>2 DEF DraftInv, DraftIsRecent
<1> QED
  BY <1>1, <1>3, <1>4 DEF DraftInv

\* The empty draft is.
LEMMA NoDraftFacts ==
    /\ NoDraft \in Drafts
    /\ \A c \in ConnIds : c \notin NoDraft.picked /\ NoDraft.floor[c] = None /\ NoDraft.copy[c] = None
<1>1. NoCopy \in [ConnIds -> Rows \cup {None}] /\ NoCopy \in [ConnIds -> Gens \cup {None}]
  BY DEF NoCopy
<1> QED
  BY <1>1 DEF NoDraft, Drafts, NoCopy

LEMMA ReadGrantsInv ==
    ASSUME IInv, NEW i \in Instances, ReadGrants(i)
    PROVE  IInv'
<1> USE DEF IInv
<1> DEFINE granted == {c \in ConnIds : <<i, c>> \in grants}
           seen    == [c \in ConnIds |-> IF conn[c] = None THEN None ELSE conn[c].gen]
           d       == [stage |-> IF granted = {} THEN "ready" ELSE "reading", picked |-> granted,
                       copy |-> NoCopy, floor |-> seen]
<1>1. draft' = [draft EXCEPT ![i] = d] /\ UNCHANGED <<store, edits, service, cache, used, ops>>
  BY DEF ReadGrants
<1>2. \A c \in ConnIds : conn[c] # None =>
         conn[c].gen \in Gens /\ conn[c].gen \in Nat /\ conn[c].gen # None /\ c < nextConn
  BY RowFacts, NoneAssumption DEF StoreInv, StoreTyped, Allocated
<1>3. seen \in [ConnIds -> Gens \cup {None}] /\ NoCopy \in [ConnIds -> Rows \cup {None}]
  BY <1>2 DEF NoCopy
<1>4. d \in Drafts
  BY <1>3 DEF Drafts
<1>5. \A c \in ConnIds : seen[c] # None => conn[c] # None /\ seen[c] = conn[c].gen
  OBVIOUS
<1>6. \A c \in granted : seen[c] # None
  BY <1>2 DEF StoreInv, GrantsAreLive
<1>7. d.floor = seen /\ d.picked = granted /\ d.copy = NoCopy
  OBVIOUS
<1> HIDE DEF granted, seen, d
<1>8. ASSUME NEW c \in ConnIds
      PROVE  /\ d.floor[c] # None => c < nextConn /\ (conn[c] # None => conn[c].gen >= d.floor[c])
             /\ c \in d.picked => d.floor[c] # None
             /\ d.copy[c] # None => d.floor[c] # None /\ d.copy[c].gen >= d.floor[c]
  <2>1. d.floor[c] # None => c < nextConn /\ conn[c].gen >= d.floor[c]
    BY <1>2, <1>5, <1>7
  <2>2. c \in d.picked => d.floor[c] # None
    BY <1>6, <1>7
  <2>3. d.copy[c] = None
    BY <1>7 DEF NoCopy
  <2> QED
    BY <2>1, <2>2, <2>3
<1>9. DraftInv'
  BY <1>1, <1>4, <1>8, DraftStep
<1> QED
  BY <1>1, <1>9, Unchanged

LEMMA ReadConnectionInv ==
    ASSUME IInv, NEW i \in Instances, NEW c \in ConnIds, ReadConnection(i, c)
    PROVE  IInv'
<1> USE DEF IInv
<1> DEFINE d == [draft[i] EXCEPT !.stage = IF draft[i].picked = {c} THEN "ready" ELSE "reading",
                                 !.picked = draft[i].picked \ {c}, !.copy[c] = conn[c]]
<1>0. draft' = [draft EXCEPT ![i] = IF conn[c] = None THEN NoDraft ELSE d]
  BY DEF ReadConnection
<1>1. /\ c \in draft[i].picked /\ draft[i] \in Drafts
      /\ UNCHANGED <<store, edits, service, cache, used, ops>>
  BY DEF ReadConnection, DraftInv
<1>2. CASE conn[c] = None
  <2>1. draft' = [draft EXCEPT ![i] = NoDraft]
    BY <1>0, <1>2
  <2>2. DraftInv'
    BY <1>1, <2>1, NoDraftFacts, DraftStep
  <2> QED
    BY <1>1, <2>2, Unchanged
<1>3. CASE conn[c] # None
  <2>1. draft' = [draft EXCEPT ![i] = d]
    BY <1>0, <1>3
  <2>2. conn[c] \in Rows
    BY <1>3 DEF StoreInv, StoreTyped
  <2>3. d \in Drafts
    BY <1>1, <2>2 DEF Drafts
  <2>4. /\ d.floor = draft[i].floor /\ d.picked = draft[i].picked \ {c}
        /\ d.copy = [draft[i].copy EXCEPT ![c] = conn[c]]
    BY <1>1 DEF Drafts
  <2>5. draft[i].copy \in [ConnIds -> Rows \cup {None}]
    BY <1>1 DEF Drafts
  <2> HIDE DEF d
  <2>6. ASSUME NEW e \in ConnIds
        PROVE  /\ d.floor[e] # None => e < nextConn /\ (conn[e] # None => conn[e].gen >= d.floor[e])
               /\ e \in d.picked => d.floor[e] # None
               /\ d.copy[e] # None => d.floor[e] # None /\ d.copy[e].gen >= d.floor[e]
    <3>1. d.floor[e] # None => e < nextConn /\ (conn[e] # None => conn[e].gen >= d.floor[e])
      BY <2>4 DEF DraftInv, FloorHolds
    <3>2. e \in d.picked => d.floor[e] # None
      BY <2>4 DEF DraftInv, DraftIsRecent
    <3>3. CASE e = c
      <4>1. d.copy[e] = conn[c] /\ d.floor[e] # None
        BY <1>1, <2>4, <2>5, <3>3 DEF DraftInv, DraftIsRecent
      <4> QED
        BY <1>3, <3>1, <3>2, <3>3, <4>1
    <3>4. CASE e # c
      <4>1. d.copy[e] = draft[i].copy[e]
        BY <2>4, <2>5, <3>4
      <4>2. draft[i].copy[e] # None =>
               draft[i].floor[e] # None /\ draft[i].copy[e].gen >= draft[i].floor[e]
        BY DEF DraftInv, DraftIsRecent
      <4> QED
        BY <2>4, <3>1, <3>2, <4>1, <4>2
    <3> QED
      BY <3>3, <3>4
  <2>7. DraftInv'
    BY <1>1, <2>1, <2>3, <2>6, DraftStep
  <2> QED
    BY <1>1, <2>7, Unchanged
<1> QED
  BY <1>2, <1>3

LEMMA StartSessionInv ==
    ASSUME IInv, NEW i \in Instances, StartSession(i)
    PROVE  IInv'
<1> USE DEF IInv
<1>1. /\ running' = running \cup {i} /\ UNCHANGED <<store, edits>>
      /\ copy' = [copy EXCEPT ![i] = draft[i].copy] /\ floor' = [floor EXCEPT ![i] = draft[i].floor]
      /\ cache' = [cache EXCEPT ![i] = NoCache] /\ ops' = [ops EXCEPT ![i] = NoOps]
      /\ used' = [used EXCEPT ![i] = 0] /\ draft' = [draft EXCEPT ![i] = NoDraft]
  BY DEF StartSession
<1>2. StoreInv'
  BY <1>1, Unchanged
<1>3. DraftInv'
  BY <1>1, NoDraftFacts, DraftStep
<1>4. CopyInv'
  <2>1. /\ draft[i].copy \in [ConnIds -> Rows \cup {None}]
        /\ draft[i].floor \in [ConnIds -> Gens \cup {None}]
    BY DEF DraftInv, Drafts
  <2>2. CopyIsRecent'
    <3> SUFFICES ASSUME NEW j \in running', NEW c \in ConnIds, copy'[j][c] # None
                 PROVE  floor'[j][c] # None /\ copy'[j][c].gen >= floor'[j][c]
      BY DEF CopyIsRecent
    <3>1. CASE j = i
      <4>1. copy'[j] = draft[i].copy /\ floor'[j] = draft[i].floor
        BY <1>1, <3>1 DEF CopyInv
      <4> QED
        BY <4>1 DEF DraftInv, DraftIsRecent
    <3>2. CASE j # i
      <4>1. j \in running /\ copy'[j] = copy[j] /\ floor'[j] = floor[j]
        BY <1>1, <3>2 DEF CopyInv
      <4> QED
        BY <4>1 DEF CopyInv, CopyIsRecent
    <3> QED
      BY <3>1, <3>2
  <2>3. /\ running' \subseteq Instances
        /\ copy' \in [Instances -> [ConnIds -> Rows \cup {None}]]
        /\ floor' \in [Instances -> [ConnIds -> Gens \cup {None}]]
    BY <1>1, <2>1 DEF CopyInv
  <2> QED
    BY <2>2, <2>3 DEF CopyInv
<1>5. CacheInv'
  BY <1>1 DEF CacheInv, CacheIsKeyed, NoCache
<1>6. OpsInv'
  BY <1>1 DEF OpsInv, SleepersMayRetry, AnswersOwnRequest, NoOps
<1>7. CountInv'
  BY <1>1, ConnectionsAssumption DEF CountInv
<1> QED
  BY <1>2, <1>3, <1>4, <1>5, <1>6, <1>7

LEMMA EndSessionInv ==
    ASSUME IInv, NEW i \in Instances, EndSession(i)
    PROVE  IInv'
<1> USE DEF IInv
<1>1. /\ running' = running \ {i} /\ UNCHANGED <<store, edits, draft>>
      /\ copy' = [copy EXCEPT ![i] = NoCopy] /\ floor' = [floor EXCEPT ![i] = NoCopy]
      /\ cache' = [cache EXCEPT ![i] = NoCache] /\ ops' = [ops EXCEPT ![i] = NoOps]
      /\ used' = [used EXCEPT ![i] = 0]
  BY DEF EndSession
<1>2. StoreInv' /\ DraftInv'
  BY <1>1, Unchanged
<1>3. CopyInv'
  <2>1. NoCopy \in [ConnIds -> Rows \cup {None}] /\ NoCopy \in [ConnIds -> Gens \cup {None}]
    BY DEF NoCopy
  <2>2. CopyIsRecent'
    BY <1>1 DEF CopyInv, CopyIsRecent
  <2> QED
    BY <1>1, <2>1, <2>2 DEF CopyInv
<1>4. CacheInv'
  BY <1>1 DEF CacheInv, CacheIsKeyed, NoCache
<1>5. OpsInv'
  BY <1>1 DEF OpsInv, SleepersMayRetry, AnswersOwnRequest, NoOps
<1>6. CountInv'
  BY <1>1, ConnectionsAssumption DEF CountInv
<1> QED
  BY <1>2, <1>3, <1>4, <1>5, <1>6

LEMMA SubmitHttpsInv ==
    ASSUME IInv, NEW i \in Instances, NEW n \in 1..MaxOps, NEW c \in ConnIds, NEW q \in Requests,
           SubmitHttps(i, n, c, q)
    PROVE  IInv'
<1> USE DEF IInv
<1>1. /\ copy[i][c] # None /\ ReserveRate(i)
      /\ ops' = [ops EXCEPT ![i][n] = Prepared(i, c, q)] \/ ops' = ops
      /\ UNCHANGED <<store, edits, draft, service, cache>>
  BY DEF SubmitHttps, Usable
<1>2. copy[i][c].gen \in Gens
  BY <1>1, RowFacts DEF CopyInv
<1>3. [conn |-> c, gen |-> copy[i][c].gen, req |-> q] \in Keys
  BY <1>2 DEF Keys
<1>4. Prepared(i, c, q) \in Ops
  BY <1>3, ConnectionsAssumption DEF Prepared, Ops, Stages
<1>5. OpsInv'
  <2>1. CASE ops' = ops
    BY <2>1, Unchanged
  <2>2. CASE ops' = [ops EXCEPT ![i][n] = Prepared(i, c, q)]
    <3>1. Prepared(i, c, q).stage = "queued" /\ Prepared(i, c, q).answer = None
      BY DEF Prepared
    <3> QED
      BY <1>4, <2>2, <3>1, OpsStep
  <2> QED
    BY <1>1, <2>1, <2>2
<1>6. CountInv'
  BY <1>1, ConnectionsAssumption DEF CountInv, ReserveRate
<1> QED
  BY <1>1, <1>5, <1>6, Unchanged

\* A request that ends, is asked or sleeps keeps its key and the number of its attempts.
LEMMA OpFacts ==
    ASSUME OpsInv, NEW i \in Instances, NEW n \in 1..MaxOps, ops[i][n] # None
    PROVE  /\ ops[i][n] \in Ops /\ ops[i][n].key \in Keys
           /\ ops[i][n].attempt \in 0..MaxRetries
           /\ ops[i][n].answer # None => ops[i][n].answer = ops[i][n].key
<1>1. ops[i][n] \in Ops
  BY DEF OpsInv
<1> QED
  BY <1>1 DEF Ops, OpsInv, AnswersOwnRequest

LEMMA EndsStep ==
    ASSUME OpsInv, NEW i \in Instances, NEW n \in 1..MaxOps, ops[i][n] # None,
           NEW ending \in Endings, NEW answer, answer \in {None, ops[i][n].key},
           Ends(i, n, ending, answer)
    PROVE  OpsInv'
<1> DEFINE op == [ops[i][n] EXCEPT !.stage = ending, !.answer = answer]
<1>1. ops' = [ops EXCEPT ![i][n] = op]
  BY DEF Ends, OpsInv
<1>2. op \in Ops /\ op.key = ops[i][n].key /\ op.answer = answer /\ op.stage = ending
  BY OpFacts DEF Ops, Stages
<1>3. ending # "sleeping"
  BY DEF Endings
<1> HIDE DEF op
<1> QED
  BY <1>1, <1>2, <1>3, OpsStep

\* An entry found for a request has the answer to that request.
LEMMA HitAnswers ==
    ASSUME IInv, NEW i \in Instances, NEW n \in 1..MaxOps, ops[i][n] # None,
           NEW ages, Hit(i, n, ages)
    PROVE  cache[i][CacheKey(ops[i][n].key)].from = ops[i][n].key
<1>1. ops[i][n].key \in Keys
  BY OpFacts DEF IInv
<1> QED
  BY <1>1 DEF IInv, CacheInv, CacheIsKeyed, Hit, CacheKey

LEMMA AsksStep ==
    ASSUME OpsInv, NEW i \in Instances, NEW n \in 1..MaxOps, ops[i][n] # None, Asks(i, n)
    PROVE  OpsInv'
<1> DEFINE op == [ops[i][n] EXCEPT !.stage = "asking"]
<1>1. ops' = [ops EXCEPT ![i][n] = op]
  BY DEF Asks, OpsInv
<1>2. op \in Ops /\ op.key = ops[i][n].key /\ op.answer = ops[i][n].answer /\ op.stage = "asking"
  BY OpFacts DEF Ops, Stages
<1> HIDE DEF op
<1> QED
  BY <1>1, <1>2, OpFacts, OpsStep

LEMMA WorkInv ==
    ASSUME IInv, NEW i \in Instances, NEW n \in 1..MaxOps, Work(i, n) \/ Abandon(i, n)
    PROVE  IInv'
<1> USE DEF IInv
<1>1. ops[i][n] # None /\ UNCHANGED <<store, edits, draft, service, used>>
  BY DEF Work, Begin, Fetched, Fails, Retry, Abandon
<1>2. ASSUME OpsInv', CacheInv' PROVE IInv'
  BY <1>1, <1>2, Unchanged
<1>3. CASE Begin(i, n)
  <2>1. CASE Asks(i, n)
    <3>1. OpsInv'
      BY <1>1, <2>1, AsksStep
    <3> QED
      BY <1>2, <2>1, <3>1, Unchanged DEF Asks
  <2>2. CASE Hit(i, n, {"fresh"}) /\ AnswersFromCache(i, n, "fresh")
    <3>1. OpsInv'
      BY <1>1, <2>2, HitAnswers, EndsStep DEF AnswersFromCache, Endings
    <3> QED
      BY <1>2, <2>2, <3>1, Unchanged DEF AnswersFromCache
  <2> QED
    BY <1>3, <2>1, <2>2 DEF Begin
<1>4. CASE Fetched(i, n)
  <2>1. OpsInv'
    BY <1>1, <1>4, EndsStep DEF Fetched, Endings
  <2> DEFINE key == ops[i][n].key
             entry == [from |-> key, age |-> "fresh"]
  <2>2. key \in Keys /\ entry \in Entries /\ entry.from = key
    BY <1>1, OpFacts DEF Entries, Ages
  <2>3. cache' = [cache EXCEPT ![i][key] = entry] \/ cache' = cache
    BY <1>4 DEF Fetched, CacheKey
  <2> HIDE DEF key, entry
  <2>4. CacheInv'
    BY <2>2, <2>3, CacheStep, Unchanged
  <2> QED
    BY <1>2, <2>1, <2>4
<1>5. ASSUME NEW error \in {"unavailable", "rejected"}, Fails(i, n, error)
      PROVE  IInv'
  <2>1. cache' = cache
    BY <1>5 DEF Fails, AnswersFromCache
  <2>2. CASE ops' = [ops EXCEPT ![i][n].stage = "sleeping"] /\ ops[i][n].attempt < MaxRetries
    <3> DEFINE op == [ops[i][n] EXCEPT !.stage = "sleeping"]
    <3>1. ops' = [ops EXCEPT ![i][n] = op]
      BY <2>2 DEF OpsInv
    <3>2. /\ op \in Ops /\ op.key = ops[i][n].key /\ op.answer = ops[i][n].answer
          /\ op.attempt = ops[i][n].attempt
      BY <1>1, OpFacts DEF Ops, Stages
    <3> HIDE DEF op
    <3>3. OpsInv'
      <4>1. op.answer # None => op.answer = op.key
        BY <1>1, <3>2, OpFacts
      <4>2. op.attempt < MaxRetries
        BY <2>2, <3>2
      <4> QED
        BY <3>1, <3>2, <4>1, <4>2, OpsStep
    <3> QED
      BY <1>2, <2>1, <3>3, Unchanged
  <2>3. CASE Hit(i, n, {"fresh", "stale"}) /\ AnswersFromCache(i, n, "stale")
    <3>1. OpsInv'
      BY <1>1, <2>3, HitAnswers, EndsStep DEF AnswersFromCache, Endings
    <3> QED
      BY <1>2, <2>1, <3>1, Unchanged
  <2>4. CASE Ends(i, n, "failed", None)
    <3>1. OpsInv'
      BY <1>1, <2>4, EndsStep DEF Endings
    <3> QED
      BY <1>2, <2>1, <3>1, Unchanged
  <2> QED
    BY <1>5, <2>2, <2>3, <2>4 DEF Fails
<1>6. CASE Retry(i, n)
  <2> DEFINE op == [ops[i][n] EXCEPT !.stage = "asking", !.attempt = ops[i][n].attempt + 1]
  <2>1. ops' = [ops EXCEPT ![i][n] = op] /\ cache' = cache
    BY <1>6 DEF Retry, OpsInv
  <2>2. ops[i][n].attempt + 1 \in 0..MaxRetries
    <3>1. ops[i][n].attempt < MaxRetries
      BY <1>1, <1>6 DEF Retry, OpsInv, SleepersMayRetry
    <3> QED
      BY <1>1, <3>1, OpFacts, ConnectionsAssumption
  <2>3. op \in Ops /\ op.key = ops[i][n].key /\ op.answer = ops[i][n].answer /\ op.stage = "asking"
    BY <1>1, <2>2, OpFacts DEF Ops, Stages
  <2> HIDE DEF op
  <2>4. OpsInv'
    BY <1>1, <2>1, <2>3, OpFacts, OpsStep
  <2> QED
    BY <1>2, <2>1, <2>4, Unchanged
<1>7. CASE Abandon(i, n)
  <2>1. OpsInv'
    BY <1>1, <1>7, EndsStep DEF Abandon, Endings
  <2> QED
    BY <1>2, <1>7, <2>1, Unchanged DEF Abandon
<1> QED
  BY <1>3, <1>4, <1>5, <1>6, <1>7 DEF Work

LEMMA AgeingInv ==
    ASSUME IInv, NEW i \in Instances, NEW k \in Keys, Ageing(i, k)
    PROVE  IInv'
<1> USE DEF IInv
<1>1. cache[i][k] # None /\ UNCHANGED <<store, edits, draft, service, used, ops>>
  BY DEF Ageing
<1>2. cache[i][k] \in Entries /\ cache[i][k].from = k
  BY <1>1 DEF CacheInv, CacheIsKeyed
<1>3. ASSUME NEW age \in Ages, cache' = [cache EXCEPT ![i][k].age = age]
      PROVE  CacheInv'
  <2> DEFINE entry == [cache[i][k] EXCEPT !.age = age]
  <2>1. cache' = [cache EXCEPT ![i][k] = entry]
    BY <1>3 DEF CacheInv
  <2>2. entry \in Entries /\ entry.from = k
    BY <1>2 DEF Entries
  <2> HIDE DEF entry
  <2> QED
    BY <2>1, <2>2, CacheStep
<1>4. CacheInv'
  BY <1>3 DEF Ageing, Ages
<1> QED
  BY <1>1, <1>4, Unchanged
-----------------------------------------------------------------------------
LEMMA NextInv == IInv /\ [Next]_vars => IInv'
<1> SUFFICES ASSUME IInv, [Next]_vars PROVE IInv'
  OBVIOUS
<1>1. CASE Administer
  BY <1>1, AdministerInv
<1>2. ASSUME NEW i \in Instances,
             \/ ReadGrants(i) \/ (\E c \in ConnIds : ReadConnection(i, c))
             \/ StartSession(i) \/ EndSession(i)
             \/ \E n \in 1..MaxOps, c \in ConnIds, q \in Requests : SubmitHttps(i, n, c, q)
             \/ \E n \in 1..MaxOps : Work(i, n) \/ Abandon(i, n)
             \/ \E k \in Keys : Ageing(i, k)
      PROVE  IInv'
  BY <1>2, ReadGrantsInv, ReadConnectionInv, StartSessionInv, EndSessionInv,
     SubmitHttpsInv, WorkInv, AgeingInv
<1>3. CASE UNCHANGED vars
  BY <1>3, Unchanged DEF IInv, vars, sessionVars
<1> QED
  BY <1>1, <1>2, <1>3 DEF Next

\* The inductive invariant holds in every reachable state of the store, the cache and the sessions.
THEOREM Invariance == Spec => []IInv
  BY InitInv, NextInv, PTL DEF Spec

\* Types.
THEOREM TypeCorrect == Spec => []TypeOK
  BY Invariance, IInvImplies, PTL

\* Instance deletion, grant, revocation and the deletion of connections, in any
\* order: grants are of what exists.
THEOREM GrantsLive == Spec => []GrantsAreLive
  BY Invariance, IInvImplies, PTL

\* However many rotations happen while compose_instance_https reads, the session
\* is not older than the store was when it began.
THEOREM CopyRecent == Spec => []CopyIsRecent
  BY Invariance, IInvImplies, PTL

\* What a session is composed of is there and recent, in any order of grants,
\* rotations and deletions.
THEOREM CompositionSound == Spec => []CompositionIsSound
<1>1. GrantsAreLive /\ CopyIsRecent => CompositionIsSound
  BY DEF CompositionIsSound
<1> QED
  BY <1>1, GrantsLive, CopyRecent, PTL

\* Any number of requests over one cache, with retries and stale answers: each
\* gets the answer to its own account, credential and URL.
THEOREM OwnAnswers == Spec => []AnswersOwnRequest
  BY Invariance, IInvImplies, PTL
-----------------------------------------------------------------------------
(***************************************************************************)
(* Who writes a connection, and when it may.                               *)
(***************************************************************************)
\* Row d of the connection c is not a step back from row r.
NoStepBack(r, d) ==
    /\ d.updated >= r.updated
    /\ d.gen >= r.gen
    /\ d.ref # r.ref => d.gen > r.gen

LEMMA WritesForward ==
    ASSUME IInv, Administer, NEW c \in ConnIds, conn[c] # None, conn'[c] # None
    PROVE  NoStepBack(conn[c], conn'[c])
<1>1. conn \in [ConnIds -> Rows \cup {None}] /\ conn[c] \in Rows
  BY DEF IInv, StoreInv, StoreTyped
<1>2. conn[c].gen \in Nat /\ conn[c].updated \in Nat
  BY <1>1, RowFacts, ConnectionsAssumption
<1>3. CASE conn'[c] = conn[c]
  BY <1>2, <1>3 DEF NoStepBack
<1>4. ASSUME NEW ref \in Refs, NEW t \in 0..MaxTime, CreateConnection(ref, t)
      PROVE  conn'[c] = conn[c]
  <2>1. c < nextConn /\ nextConn \in Nat
    BY ConnectionsAssumption DEF IInv, StoreInv, StoreTyped, Allocated
  <2> QED
    BY <1>1, <1>4, <2>1 DEF CreateConnection
<1>5. ASSUME NEW d \in ConnIds, NEW ref \in Refs, NEW t \in 0..MaxTime, RotateCredential(d, ref, t)
      PROVE  NoStepBack(conn[c], conn'[c])
  <2>1. CASE d = c
    <3>1. conn'[c].gen = conn[c].gen + 1 /\ conn'[c].updated = t /\ conn[c].updated <= t
      BY <1>1, <1>5, <2>1 DEF RotateCredential, NotNewer
    <3> QED
      BY <1>2, <3>1 DEF NoStepBack
  <2>2. CASE d # c
    BY <1>1, <1>3, <1>5, <2>2 DEF RotateCredential
  <2> QED
    BY <2>1, <2>2
<1>6. ASSUME NEW d \in ConnIds, NEW health \in Probed, NEW t \in 0..MaxTime, SetHealth(d, health, t)
      PROVE  NoStepBack(conn[c], conn'[c])
  <2>1. CASE d = c
    <3>1. /\ conn'[c].gen = conn[c].gen /\ conn'[c].ref = conn[c].ref
          /\ conn'[c].updated = t /\ conn[c].updated <= t
      BY <1>1, <1>6, <2>1 DEF SetHealth, NotNewer, Rows
    <3> QED
      BY <1>2, <3>1 DEF NoStepBack
  <2>2. CASE d # c
    BY <1>1, <1>3, <1>6, <2>2 DEF SetHealth
  <2> QED
    BY <2>1, <2>2
<1>7. ASSUME NEW d \in ConnIds, DeleteUnreferenced(d)
      PROVE  conn'[c] = conn[c]
  BY <1>1, <1>7 DEF DeleteUnreferenced
<1> QED
  BY <1>3, <1>4, <1>5, <1>6, <1>7
     DEF Administer, GrantConnection, RevokeConnection, DeleteInstance, ChangeVault

\* Rotations and health reports with clocks of their own, in any order: a connection
\* never takes a step back.
THEOREM NoRegress == Spec => NeverRegresses
<1>1. ASSUME IInv, [Next]_vars
      PROVE  [\A c \in ConnIds : conn[c] # None /\ conn'[c] # None =>
                 /\ conn'[c].updated >= conn[c].updated
                 /\ conn'[c].gen >= conn[c].gen
                 /\ conn'[c].ref # conn[c].ref => conn'[c].gen > conn[c].gen]_vars
  <2>1. CASE Administer
    BY <1>1, <2>1, WritesForward DEF NoStepBack
  <2>2. ASSUME conn' = conn, NEW c \in ConnIds, conn[c] # None
        PROVE  NoStepBack(conn[c], conn'[c])
    <3>1. conn[c] \in Rows
      BY <1>1, <2>2 DEF IInv, StoreInv, StoreTyped
    <3>2. conn[c].gen \in Nat /\ conn[c].updated \in Nat
      BY <3>1, RowFacts, ConnectionsAssumption
    <3> QED
      BY <2>2, <3>2 DEF NoStepBack
  <2>3. ASSUME NEW i \in Instances
        PROVE  /\ ReadGrants(i) \/ StartSession(i) \/ EndSession(i) => conn' = conn
               /\ \A c \in ConnIds : ReadConnection(i, c) => conn' = conn
               /\ \A n \in 1..MaxOps, c \in ConnIds, q \in Requests :
                     SubmitHttps(i, n, c, q) => conn' = conn
               /\ \A n \in 1..MaxOps : Work(i, n) \/ Abandon(i, n) => conn' = conn
               /\ \A k \in Keys : Ageing(i, k) => conn' = conn
    <3>1. /\ ReadGrants(i) \/ StartSession(i) \/ EndSession(i) => conn' = conn
          /\ \A c \in ConnIds : ReadConnection(i, c) => conn' = conn
      BY DEF ReadGrants, ReadConnection, StartSession, EndSession, store
    <3>2. \A n \in 1..MaxOps, c \in ConnIds, q \in Requests :
             SubmitHttps(i, n, c, q) => conn' = conn
      BY DEF SubmitHttps, store
    <3>3. \A n \in 1..MaxOps : Work(i, n) \/ Abandon(i, n) => conn' = conn
      BY DEF Work, Begin, Fetched, Fails, Retry, Abandon, store
    <3>4. \A k \in Keys : Ageing(i, k) => conn' = conn
      BY DEF Ageing, store
    <3> QED
      BY <3>1, <3>2, <3>3, <3>4
  <2>4. Next => Administer \/ conn' = conn
    BY <2>3 DEF Next
  <2>5. CASE conn' = conn
    BY <2>2, <2>5 DEF NoStepBack
  <2>6. UNCHANGED vars => conn' = conn
    BY DEF vars, store
  <2> QED
    BY <1>1, <2>1, <2>4, <2>5, <2>6
<1> QED
  BY <1>1, Invariance, PTL DEF Spec, NeverRegresses
=============================================================================
