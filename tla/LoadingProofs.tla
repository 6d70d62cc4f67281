----------------------------- MODULE LoadingProofs -----------------------------
(***************************************************************************)
(* Theorems about Loading, for any packages, versions, instances, editors, *)
(* changes of directories and of trust, and starts of the host: what was   *)
(* accepted loads, what is ready is what its record refers to, one failure *)
(* is nobody else's, and generations only grow.                            *)
(***************************************************************************)
EXTENDS Loading, TLAPS, WellFoundedInduction

(***************************************************************************)
(* The inductive invariant.                                                *)
(***************************************************************************)
TypeOK ==
    /\ disk \in [Numbers -> InstalledInstallation \cup {None}]
    /\ phase \in {"off", "planning", "done"} /\ stamp \in 0..MaxTime
    /\ listed \in [Ids -> Record \cup {None}]
    /\ todo \subseteq Ids /\ failed \subseteq Ids /\ calm \subseteq Ids
    /\ vouched \subseteq Bundles
    /\ step \in {"advance", "get", "load", "trust"}
    /\ taken \in Record \cup {None} /\ loaded \in InstalledInstallation \cup {None}
    /\ ready \in [Ids -> RunnableInstance \cup {None}]
    /\ issued \in [Ids -> 0..MaxGen]

\* An installation is the content a record refers to, and takes its configuration.
Fits(d, row) ==
    d.bundle = row.version.digest /\ LoadFromDir(d) /\ Accepts(row.version, row.config)

\* What the host has in hand of the instance it deals with.
InHand ==
    /\ todo = {} => step = "advance"
    /\ step \in {"load", "trust"} => taken \in Record
    /\ step = "trust" => loaded \in InstalledInstallation /\ Fits(loaded, taken)

\* A host that does not run has nothing, and one that has planned nothing to do.
Idle ==
    /\ phase # "planning" => todo = {}
    /\ phase = "off" => listed = Nobody /\ ready = Nobody /\ failed = {} /\ calm = {}

\* Every signature that is good now was good during this start.
Vouching == phase # "off" => {b \in Bundles : Verifies(b, publisher)} \subseteq vouched

UnitsSound ==
    \A id \in Ids : ready[id] # None =>
        LET d == ready[id].installation IN
        /\ Fits(d, ready[id].row)
        /\ d.trust = "trusted" => d.bundle \in vouched

\* Each instance that was listed is to be dealt with, ready or failed: one of the three.
Sorted ==
    \A id \in Ids :
        /\ listed[id] = None => id \notin todo /\ id \notin failed /\ ready[id] = None
        /\ id \in todo => id \notin failed /\ ready[id] = None
        /\ listed[id] # None /\ id \notin todo => ((ready[id] # None) # (id \in failed))

\* The instance the host is in the middle of.
Begun(id) == id \in todo /\ step # "advance" /\ id = Current

\* All that makes an instance startable, but for its generation.
Runnable(id) ==
    /\ record[id] # None
    /\ Refers(record[id].version)
    /\ Accepts(record[id].version, record[id].config)
    /\ Trusted(disk[record[id].version.number])

\* An instance that nothing has touched passes every test that is still to come.
Untouched ==
    \A id \in calm :
        /\ id \in todo \/ ready[id] # None
        /\ Begun(id) =>
            /\ Runnable(id)
            /\ step \in {"load", "trust"} => taken = record[id]
            /\ step = "trust" => loaded = disk[taken.version.number]
        /\ id \in todo /\ ~Begun(id) => Startable(id) /\ record[id] = listed[id]

\* No unit was made with a generation its record has not reached, and the one the
\* host is in the middle of was advanced beyond it.
Newer ==
    \A id \in Ids :
        /\ id >= nextId => record[id] = None /\ issued[id] = 0 /\ id \notin todo
        /\ record[id] # None => issued[id] <= record[id].gen
        /\ Begun(id) =>
            /\ record[id] # None /\ step = "get" => issued[id] < record[id].gen
            /\ step \in {"load", "trust"} =>
                 /\ issued[id] < taken.gen
                 /\ record[id] # None => taken.gen <= record[id].gen

IInv ==
    /\ InstancesTypeOK /\ TypeOK
    /\ InHand /\ Idle /\ Vouching /\ UnitsSound /\ Sorted /\ Untouched /\ Newer
-----------------------------------------------------------------------------
(***************************************************************************)
(* The store: what a step of an editor does to the records.                *)
(***************************************************************************)
LEMMA LaterFacts ==
    ASSUME NEW s \in 0..MaxTime, NEW t \in 0..MaxTime
    PROVE  Later(s, t) \in 0..MaxTime /\ s <= Later(s, t) /\ t <= Later(s, t)
  BY InstancesAssumption DEF Later

\* What the conditional UPDATE of a command leaves of a record.
LEMMA WrittenKeepsGen ==
    ASSUME InstancesTypeOK, NEW w \in Edit, NEW t \in 0..MaxTime,
           record[w.id] # None, w.cmd # "delete"
    PROVE  Written(w, t) \in Record /\ Written(w, t).gen = record[w.id].gen
<1> DEFINE r == [record[w.id] EXCEPT !.updated = t]
<1>1. r \in Record /\ r.gen = record[w.id].gen
  BY DEF InstancesTypeOK, Edit, Record
<1>2. /\ w.config \in Configs /\ w.version \in Versions
      /\ w.cmd \in {"configure", "rollback", "start", "stop"}
  BY InstancesAssumption DEF Edit, AllCommands
<1>3. \/ Written(w, t) = [r EXCEPT !.config = w.config]
      \/ Written(w, t) = [r EXCEPT !.version = w.version]
      \/ Written(w, t) = [r EXCEPT !.desired = "running"]
      \/ Written(w, t) = [r EXCEPT !.desired = "stopped"]
  BY <1>2 DEF Written
<1> HIDE DEF r
<1>4. {"running", "stopped"} = Desired
  BY DEF Desired
<1> QED
  BY <1>1, <1>2, <1>3, <1>4 DEF Record

LEMMA StoreInit == InstancesInit => InstancesTypeOK
  BY InstancesAssumption DEF InstancesInit, InstancesTypeOK

\* An editor's step keeps the types, creates under the next identity only, and
\* changes no generation.
Edited ==
    /\ InstancesTypeOK'
    /\ nextId <= nextId'
    /\ \A id \in Ids :
        /\ record[id] = None /\ record'[id] # None => id = nextId /\ nextId' = nextId + 1
        /\ id < nextId /\ record[id] # None /\ record'[id] # None => record'[id].gen = record[id].gen

LEMMA CreateEdits == ASSUME InstancesTypeOK, NEW e \in Editors, Create(e) PROVE Edited
<1>1. PICK c \in Configs, v \in Versions, d \in Desired :
          record' = [record EXCEPT ![nextId] =
             [config |-> c, version |-> v, desired |-> d, gen |-> 0, updated |-> now]]
  BY DEF Create
<1> DEFINE r == [config |-> c, version |-> v, desired |-> d, gen |-> 0, updated |-> now]
<1>2. r \in Record /\ r.gen = 0
  BY InstancesAssumption DEF InstancesTypeOK, Record
<1> HIDE DEF r
<1>3. record' = [record EXCEPT ![nextId] = r] /\ record \in [Ids -> Record \cup {None}]
  BY <1>1 DEF r, InstancesTypeOK
<1>4. /\ nextId' \in 1..(MaxIds + 1) /\ edits' \in 0..MaxEdits /\ now' = now /\ edit' = edit
      /\ nextId' = nextId + 1 /\ nextId <= nextId'
  BY InstancesAssumption DEF Create, Ids, InstancesTypeOK
<1>5. InstancesTypeOK'
  BY <1>2, <1>3, <1>4 DEF InstancesTypeOK
<1>6. ASSUME NEW id \in Ids, id # nextId PROVE record'[id] = record[id]
  BY <1>3, <1>6
<1>7. \A id \in Ids : id < nextId => id # nextId
  BY InstancesAssumption DEF InstancesTypeOK, Ids
<1> QED
  BY <1>4, <1>5, <1>6, <1>7 DEF Edited

LEMMA ReadEdits ==
    ASSUME InstancesTypeOK, NEW e \in Editors, NEW cmd \in Commands, NEW id \in Ids,
           Read(e, cmd, id)
    PROVE  Edited
<1>1. record[id] \in Record /\ now \in 0..MaxTime /\ cmd \in Commands \ {"create"}
  BY DEF Read, InstancesTypeOK
<1>2. PICK c \in Configs, v \in Versions :
          edit' = [edit EXCEPT ![e] = [cmd |-> cmd, id |-> id, seen |-> record[id],
                                       began |-> now, config |-> c, version |-> v]]
  BY DEF Read
<1>3. [cmd |-> cmd, id |-> id, seen |-> record[id],
       began |-> now, config |-> c, version |-> v] \in Edit
  BY <1>1 DEF Edit
<1>4. edit' \in [Editors -> Edit \cup {None}]
  BY <1>2, <1>3 DEF InstancesTypeOK
<1>5. edits' \in 0..MaxEdits /\ UNCHANGED <<record, nextId, now>>
  BY InstancesAssumption DEF Read, InstancesTypeOK
<1>6. nextId <= nextId'
  BY <1>5, InstancesAssumption DEF InstancesTypeOK
<1> QED
  BY <1>4, <1>5, <1>6 DEF InstancesTypeOK, Edited

LEMMA WriteEdits == ASSUME InstancesTypeOK, NEW e \in Editors, Write(e) PROVE Edited
<1> DEFINE w == edit[e]
<1>1. /\ w \in Edit /\ w.id \in Ids /\ w.began \in 0..MaxTime /\ w.seen.updated \in 0..MaxTime
      /\ now \in 0..MaxTime /\ record \in [Ids -> Record \cup {None}]
  BY DEF Write, InstancesTypeOK, Edit, Record
<1>2. PICK clock \in {w.began, now} :
          LET t == Later(clock, w.seen.updated) IN
          record' = IF w.cmd = "delete"
                       THEN [record EXCEPT ![w.id] = None]
                    ELSE IF Fresh(w.id, t) /\ (w.cmd = "rollback" => SameInstallation(w))
                       THEN [record EXCEPT ![w.id] = Written(w, t)]
                    ELSE record
  BY DEF Write
<1> DEFINE t == Later(clock, w.seen.updated)
<1>3. t \in 0..MaxTime
  BY <1>1, LaterFacts
<1>4. \/ record' = [record EXCEPT ![w.id] = None]
      \/ record' = record
      \/ /\ record[w.id] # None /\ w.cmd # "delete"
         /\ record' = [record EXCEPT ![w.id] = Written(w, t)]
  BY <1>2 DEF Fresh
<1>5. record[w.id] # None /\ w.cmd # "delete" =>
          Written(w, t) \in Record /\ Written(w, t).gen = record[w.id].gen
  BY <1>1, <1>3, WrittenKeepsGen
<1>6. edit' \in [Editors -> Edit \cup {None}] /\ UNCHANGED <<nextId, now, edits>>
  BY DEF Write, InstancesTypeOK
<1> HIDE DEF w, t
<1>7. /\ record' \in [Ids -> Record \cup {None}]
      /\ \A id \in Ids :
          /\ record[id] = None => record'[id] = None
          /\ record'[id] # None => record'[id].gen = record[id].gen
  BY <1>1, <1>4, <1>5
<1>8. nextId <= nextId' /\ InstancesTypeOK'
  BY <1>6, <1>7, InstancesAssumption DEF InstancesTypeOK
<1> QED
  BY <1>7, <1>8 DEF Edited
-----------------------------------------------------------------------------
(***************************************************************************)
(* Packages.                                                               *)
(***************************************************************************)
\* What the validation of an archive leaves to be read (validate_package).
LEMMA ValidPackages ==
    ASSUME NEW b \in Valid
    PROVE  /\ ValidateManifest(BundleManifest(b)) /\ HasEntrypoints(b)
           /\ BundleManifest(b).config # Undeclared => BundleManifest(b).config \in BundlePaths(b)
<1>1. b \in Bundles /\ ValidatePackage(Archive[b])
  BY DEF Valid
<1>2. BundlePaths(b) = PathsOf(Archive[b])
  BY <1>1 DEF BundlePaths, File
<1>3. \A path \in PathsOf(Archive[b]) : File[b][path] = ContentOf(Archive[b], path)
  BY <1>1 DEF File
<1>4. Manifest \in PathsOf(Archive[b]) /\ ValidateManifest(ContentOf(Archive[b], Manifest))
  BY <1>1 DEF ValidatePackage, Holds
<1>5. BundleManifest(b) = ContentOf(Archive[b], Manifest)
  BY <1>3, <1>4 DEF BundleManifest
<1> QED
  BY <1>1, <1>2, <1>4, <1>5 DEF ValidatePackage, Holds, HasEntrypoints

\* A directory that is found sound, for a version that can be referred to.
LEMMA SoundDirectory ==
    ASSUME TypeOK, NEW v \in Versions, Refers(v)
    PROVE  /\ v.number \in Numbers /\ Sound(v.number)
           /\ disk[v.number] \in InstalledInstallation
           /\ disk[v.number].bundle = v.digest
<1>1. v.number \in Numbers
  BY DEF Numbers
<1> QED
  BY <1>1 DEF TypeOK, Refers, Sound

\* The first instance of those that are left.
LEMMA CurrentIsLeft == ASSUME todo \subseteq Ids, todo # {} PROVE Current \in todo
<1>1. todo \in SUBSET Nat
  BY InstancesAssumption DEF Ids
<1>2. PICK R : R = OpToRel(<, Nat)
  OBVIOUS
<1>3. IsWellFoundedOn(R, Nat)
  BY <1>2, NatLessThanWellFounded
<1>4. PICK x \in todo : \A y \in todo : ~ (<<y, x>> \in R)
  BY <1>1, <1>3, WFMin
<1>5. R = {ss \in Nat \X Nat : ss[1] < ss[2]}
  BY <1>2 DEF OpToRel
<1>6. \A a, b \in Nat : <<b, a>> \in R <=> b < a
  BY <1>5
<1>7. x \in Nat /\ \A y \in todo : y \in Nat /\ ~(y < x)
  BY <1>1, <1>4, <1>6
<1>8. \A y \in todo : x <= y
  BY <1>7
<1> QED
  BY <1>8 DEF Current, Min
-----------------------------------------------------------------------------
(***************************************************************************)
(* The invariant holds at the start, and directories, trust and editors    *)
(* keep it.                                                                *)
(***************************************************************************)
LEMMA InitHolds == Init => IInv
<1> SUFFICES ASSUME Init PROVE IInv
  OBVIOUS
<1>1. InstancesTypeOK
  BY StoreInit DEF Init
<1>2. TypeOK
  BY InstancesAssumption DEF Init, TypeOK, Nobody
<1>3. Newer
  BY InstancesAssumption DEF Init, InstancesInit, Newer, Begun, Ids
<1> QED
  BY <1>1, <1>2, <1>3
     DEF Init, IInv, InHand, Idle, Vouching, UnitsSound, Sorted, Untouched, Begun, Nobody

\* What installing, damage, removal and a change of trust have in common: a directory
\* that is sound before and after is the same one.
LEMMA DisturbHolds ==
    ASSUME IInv, Disturb, UNCHANGED <<instanceVars, planVars>>,
           disk' \in [Numbers -> InstalledInstallation \cup {None}],
           \A n \in Numbers : Sound(n) /\ Sound(n)' => disk'[n] = disk[n]
    PROVE  IInv'
<1>1. InstancesTypeOK'
  BY DEF IInv, InstancesTypeOK, instanceVars
<1>2. TypeOK'
  BY DEF IInv, TypeOK, Disturb, planVars
<1>3. InHand' /\ Idle'
  BY DEF IInv, InHand, Idle, Fits, Disturb, planVars
<1>4. Vouching'
  BY DEF IInv, TypeOK, Vouching, Disturb, planVars
<1>5. UnitsSound'
  <2>1. CASE phase = "off"
    BY <2>1, NoneAssumption DEF IInv, Idle, UnitsSound, Nobody, planVars
  <2>2. CASE phase # "off"
    <3>1. vouched \subseteq vouched'
      BY <2>2 DEF Disturb
    <3> QED
      BY <3>1 DEF IInv, UnitsSound, Fits, planVars
  <2> QED
    BY <2>1, <2>2
<1>6. Sorted'
  BY DEF IInv, Sorted, planVars
<1>7. Newer'
  BY DEF IInv, Newer, Begun, Current, planVars, instanceVars, Disturb
<1>8. Untouched'
  <2> SUFFICES ASSUME NEW id \in calm'
               PROVE  /\ (id \in todo \/ ready[id] # None)'
                      /\ Begun(id)' =>
                          /\ Runnable(id)'
                          /\ (step \in {"load", "trust"})' => (taken = record[id])'
                          /\ (step = "trust")' => (loaded = disk[taken.version.number])'
                      /\ (id \in todo /\ ~Begun(id))' => Startable(id)' /\ (record[id] = listed[id])'
    BY DEF Untouched
  <2>1. id \in calm /\ Startable(id)'
    BY DEF Disturb
  <2>2. Begun(id)' = Begun(id)
    BY DEF Begun, Current, planVars
  <2>3. Runnable(id)'
    BY <2>1 DEF Startable, Runnable
  <2>4. ASSUME Begun(id), step = "trust" PROVE loaded = disk'[taken.version.number]
    <3>1. Runnable(id) /\ taken = record[id] /\ loaded = disk[taken.version.number]
      BY <2>1, <2>4 DEF IInv, Untouched
    <3>2. taken \in Record /\ taken.version \in Versions
      BY <2>4 DEF IInv, InHand, Record
    <3>3. taken.version.number \in Numbers /\ Sound(taken.version.number)
      BY <3>1, <3>2, SoundDirectory DEF IInv, Runnable
    <3>4. Sound(taken.version.number)'
      BY <2>3, <3>1 DEF Runnable, Refers, planVars, instanceVars
    <3>5. taken' = taken
      BY DEF planVars
    <3> QED
      BY <3>1, <3>3, <3>4, <3>5 DEF Sound
  <2> QED
    BY <2>1, <2>2, <2>3, <2>4 DEF IInv, Untouched, planVars, instanceVars
<1> QED
  BY <1>1, <1>2, <1>3, <1>4, <1>5, <1>6, <1>7, <1>8 DEF IInv

LEMMA StagedTyped ==
    ASSUME NEW b \in Valid, NEW trust \in {"trusted", "unsigned"}
    PROVE  Staged(b, trust) \in InstalledInstallation
  BY DEF Staged, InstalledInstallation, InstalledFiles, Valid

LEMMA InstallHolds ==
    ASSUME IInv, NEW b \in Bundles, NEW trust \in {"trusted", "unsigned"}, Install(b, trust)
    PROVE  IInv'
<1> DEFINE n == VersionOf(b)
<1>1. b \in Valid /\ disk[n] = None /\ disk' = [disk EXCEPT ![n] = Staged(b, trust)]
  BY DEF Install
<1>2. Staged(b, trust) \in InstalledInstallation
  BY <1>1, StagedTyped
<1>3. disk \in [Numbers -> InstalledInstallation \cup {None}]
  BY DEF IInv, TypeOK
<1> HIDE DEF n
<1>4. disk' \in [Numbers -> InstalledInstallation \cup {None}]
  BY <1>1, <1>2, <1>3
<1>5. \A m \in Numbers : Sound(m) => disk'[m] = disk[m]
  BY <1>1, <1>3 DEF Sound
<1>6. Disturb /\ UNCHANGED <<instanceVars, planVars>>
  BY DEF Install
<1> QED
  BY <1>4, <1>5, <1>6, DisturbHolds

\* What was altered or cannot be read is not sound.
LEMMA DamageHolds ==
    ASSUME IInv, NEW n \in Numbers, NEW p \in {Manifest, Metadata}, Damage(n, p)
    PROVE  IInv'
<1>1. disk \in [Numbers -> InstalledInstallation \cup {None}] /\ disk[n] \in InstalledInstallation
  BY DEF IInv, TypeOK, Damage
<1>2. p \in InstalledFiles
  BY <1>1 DEF Damage, InstalledFiles, InstalledInstallation, Valid
<1> DEFINE d == IF p = Metadata THEN [disk[n] EXCEPT !.readable = FALSE]
                ELSE [disk[n] EXCEPT !.altered = disk[n].altered \cup {p}]
<1>3. disk' = [disk EXCEPT ![n] = d]
  BY DEF Damage
<1>4. d \in InstalledInstallation /\ ~LoadFromDir(d)
  BY <1>1, <1>2 DEF InstalledInstallation, LoadFromDir
<1> HIDE DEF d
<1>5. disk' \in [Numbers -> InstalledInstallation \cup {None}]
  BY <1>1, <1>3, <1>4
<1>6. \A m \in Numbers : Sound(m)' => disk'[m] = disk[m]
  BY <1>1, <1>3, <1>4 DEF Sound
<1>7. Disturb /\ UNCHANGED <<instanceVars, planVars>>
  BY DEF Damage, Change
<1> QED
  BY <1>5, <1>6, <1>7, DisturbHolds

LEMMA RemoveHolds == ASSUME IInv, NEW n \in Numbers, RemoveDirectory(n) PROVE IInv'
<1>1. disk \in [Numbers -> InstalledInstallation \cup {None}] /\ disk' = [disk EXCEPT ![n] = None]
  BY DEF IInv, TypeOK, RemoveDirectory
<1>2. \A m \in Numbers : Sound(m)' => disk'[m] = disk[m]
  BY <1>1 DEF Sound
<1>3. Disturb /\ UNCHANGED <<instanceVars, planVars>>
  BY DEF RemoveDirectory, Change
<1> QED
  BY <1>1, <1>2, <1>3, DisturbHolds

LEMMA TrustHolds ==
    ASSUME IInv, (\E k \in Keys, s \in {"active", "revoked"} : SetKey(k, s)) \/ SetPublisher
    PROVE  IInv'
<1>1. Disturb /\ UNCHANGED <<instanceVars, planVars>> /\ disk' = disk
  BY DEF SetKey, SetPublisher, Change
<1>2. disk' \in [Numbers -> InstalledInstallation \cup {None}]
  BY <1>1 DEF IInv, TypeOK
<1> QED
  BY <1>1, <1>2, DisturbHolds

LEMMA EditorEdits == ASSUME InstancesTypeOK, NEW e \in Editors, CommandLine(e) PROVE Edited
  BY CreateEdits, ReadEdits, WriteEdits DEF CommandLine, CreateChecked, ReadChecked

\* An instance whose record did not change is as it was.
LEMMA CommandLineHolds == ASSUME IInv, NEW e \in Editors, CommandLine(e) PROVE IInv'
<1>1. /\ Edited /\ UNCHANGED <<catalogVars, planVars, vouched, issued>>
      /\ calm' = {id \in calm : record'[id] = record[id]}
  BY EditorEdits DEF IInv, CommandLine
<1>2. TypeOK'
  BY <1>1 DEF IInv, TypeOK, catalogVars, planVars
<1>3. InHand' /\ Idle' /\ Vouching' /\ UnitsSound' /\ Sorted'
  BY <1>1 DEF IInv, InHand, Idle, Vouching, UnitsSound, Sorted, Fits, catalogVars, planVars
<1>4. Newer'
  <2>1. nextId \in Nat /\ nextId' \in Nat /\ nextId <= nextId' /\ InstancesTypeOK'
    BY <1>1, InstancesAssumption DEF IInv, InstancesTypeOK, Edited
  <2> SUFFICES ASSUME NEW id \in Ids
               PROVE  /\ id >= nextId' => record'[id] = None /\ issued[id] = 0 /\ id \notin todo
                      /\ record'[id] # None => issued[id] <= record'[id].gen
                      /\ Begun(id) =>
                          /\ record'[id] # None /\ step = "get" => issued[id] < record'[id].gen
                          /\ step \in {"load", "trust"} =>
                               /\ issued[id] < taken.gen
                               /\ record'[id] # None => taken.gen <= record'[id].gen
    BY <1>1 DEF Newer, Begun, Current, planVars
  <2>2. id \in Nat
    BY InstancesAssumption DEF Ids
  <2>3. CASE id < nextId
    <3>1. \/ record'[id] = None
          \/ record[id] # None /\ record'[id].gen = record[id].gen
      BY <1>1, <2>1, <2>2, <2>3 DEF Edited
    <3> QED
      BY <2>1, <2>2, <2>3, <3>1 DEF IInv, Newer
  <2>4. CASE id >= nextId
    <3>1. record[id] = None /\ issued[id] = 0 /\ id \notin todo
      BY <2>4 DEF IInv, Newer
    <3>2. record'[id] # None => id < nextId' /\ record'[id].gen \in Nat
      BY <1>1, <2>1, <2>2, <3>1, InstancesAssumption DEF Edited, InstancesTypeOK, Record
    <3> QED
      BY <2>1, <2>2, <3>1, <3>2 DEF Begun
  <2> QED
    BY <2>1, <2>2, <2>3, <2>4
<1>5. Untouched'
  <2> SUFFICES ASSUME NEW id \in calm'
               PROVE  /\ (id \in todo \/ ready[id] # None)'
                      /\ Begun(id)' =>
                          /\ Runnable(id)'
                          /\ (step \in {"load", "trust"})' => (taken = record[id])'
                          /\ (step = "trust")' => (loaded = disk[taken.version.number])'
                      /\ (id \in todo /\ ~Begun(id))' => Startable(id)' /\ (record[id] = listed[id])'
    BY DEF Untouched
  <2>1. id \in calm /\ record'[id] = record[id]
    BY <1>1
  <2>2. Begun(id)' = Begun(id)
    BY <1>1 DEF Begun, Current, planVars
  <2>3. Runnable(id)' = Runnable(id) /\ Startable(id)' = Startable(id)
    BY <1>1, <2>1 DEF Runnable, Startable, Refers, Sound, Trusted, catalogVars
  <2> QED
    BY <1>1, <2>1, <2>2, <2>3 DEF IInv, Untouched, planVars, catalogVars
<1> QED
  BY <1>1, <1>2, <1>3, <1>4, <1>5 DEF IInv, Edited
-----------------------------------------------------------------------------
(***************************************************************************)
(* The host keeps it.                                                      *)
(***************************************************************************)
LEMMA HostStartsHolds == ASSUME IInv, HostStarts PROVE IInv'
<1>1. /\ phase = "off" /\ todo = {} /\ step = "advance" /\ ready = Nobody /\ failed = {}
      /\ record \in [Ids -> Record \cup {None}]
  BY DEF IInv, HostStarts, Idle, InHand, InstancesTypeOK
<1>2. InstancesTypeOK'
  BY DEF IInv, HostStarts, InstancesTypeOK, instanceVars
<1>3. Running \subseteq Ids /\ \A id \in Running : record[id] # None
  BY DEF Running
<1>4. TypeOK'
  BY <1>1, <1>3 DEF IInv, TypeOK, HostStarts, InstancesTypeOK, catalogVars
<1>5. InHand' /\ Idle' /\ Vouching'
  BY <1>1 DEF HostStarts, InHand, Idle, Vouching, catalogVars
<1>6. UnitsSound'
  BY <1>1 DEF HostStarts, UnitsSound, Nobody
<1>7. Sorted'
  BY <1>1, <1>3 DEF HostStarts, Sorted, Nobody
<1>8. Newer'
  <2> SUFFICES ASSUME NEW id \in Ids
               PROVE  /\ id >= nextId => record[id] = None /\ issued[id] = 0 /\ id \notin Running
                      /\ record[id] # None => issued[id] <= record[id].gen
    BY <1>1 DEF HostStarts, Newer, Begun, instanceVars
  <2> QED
    BY <1>3 DEF IInv, Newer
<1>9. Untouched'
  <2> SUFFICES ASSUME NEW id \in Running, Startable(id)
               PROVE  id \in Running /\ Startable(id)' /\ (record[id] = listed[id])'
    BY <1>1 DEF HostStarts, Untouched, Begun
  <2>1. Startable(id)' = Startable(id)
    BY DEF HostStarts, Startable, Refers, Sound, Trusted, instanceVars, catalogVars
  <2>2. (record[id] = listed[id])'
    BY <1>3 DEF HostStarts, instanceVars
  <2> QED
    BY <2>1, <2>2
<1> QED
  BY <1>2, <1>4, <1>5, <1>6, <1>7, <1>8, <1>9 DEF IInv

LEMMA HostStopsHolds == ASSUME IInv, HostStops PROVE IInv'
<1>1. InstancesTypeOK'
  BY DEF IInv, HostStops, InstancesTypeOK, instanceVars
<1>2. TypeOK'
  BY InstancesAssumption DEF IInv, TypeOK, HostStops, Nobody, catalogVars
<1>3. InHand' /\ Idle' /\ Vouching' /\ UnitsSound' /\ Sorted' /\ Untouched'
  BY DEF HostStops, InHand, Idle, Vouching, UnitsSound, Sorted, Untouched, Nobody
<1>4. Newer'
  BY DEF IInv, HostStops, Newer, Begun, instanceVars
<1> QED
  BY <1>1, <1>2, <1>3, <1>4 DEF IInv

LEMMA PlannedHolds == ASSUME IInv, Planned PROVE IInv'
<1>1. InstancesTypeOK' /\ TypeOK'
  BY DEF IInv, Planned, InstancesTypeOK, TypeOK, instanceVars, catalogVars, history
<1>2. InHand' /\ Idle' /\ Vouching' /\ UnitsSound' /\ Sorted'
  BY DEF IInv, Planned, InHand, Idle, Vouching, UnitsSound, Sorted, Fits, catalogVars, history
<1>3. Newer'
  BY DEF IInv, Planned, Newer, Begun, Current, instanceVars, history
<1>4. Untouched'
  BY DEF IInv, Planned, Untouched, Begun, Current, Runnable, Startable, Refers, Sound, Trusted,
         instanceVars, catalogVars, history
<1> QED
  BY <1>1, <1>2, <1>3, <1>4 DEF IInv

\* An instance fails without harm to the others; it is none that nothing has touched.
LEMMA FailHolds ==
    ASSUME IInv, phase = "planning", todo # {}, Fail, PlanStep, Current \notin calm,
           UNCHANGED <<record, history>>
    PROVE  IInv'
<1>1. Current \in todo /\ todo \subseteq Ids /\ todo' = todo \ {Current}
  BY CurrentIsLeft DEF IInv, TypeOK, Fail
<1>2. InstancesTypeOK' /\ TypeOK'
  BY <1>1 DEF IInv, InstancesTypeOK, TypeOK, Fail, PlanStep, catalogVars, history
<1>3. InHand' /\ Idle' /\ Vouching' /\ UnitsSound'
  BY DEF IInv, InHand, Idle, Vouching, UnitsSound, Fits, Fail, PlanStep, catalogVars, history
<1>4. Sorted'
  BY <1>1 DEF IInv, Sorted, Fail, PlanStep
<1>5. Newer'
  BY <1>1 DEF IInv, Newer, Begun, Fail, PlanStep, history
<1>6. Untouched'
  <2> SUFFICES ASSUME NEW id \in calm
               PROVE  /\ id \in todo' \/ ready[id] # None
                      /\ id \in todo' => Startable(id)' /\ record[id] = listed[id]
    BY DEF Untouched, Begun, Fail, PlanStep, history
  <2>1. id # Current
    OBVIOUS
  <2>2. Startable(id)' = Startable(id)
    BY DEF PlanStep, Startable, Refers, Sound, Trusted, catalogVars
  <2> QED
    BY <1>1, <2>1, <2>2 DEF IInv, Untouched, Begun
<1> QED
  BY <1>2, <1>3, <1>4, <1>5, <1>6 DEF IInv

\* The time given is not before the one the record was listed with, so the
\* generation of an untouched instance can be advanced.
LEMMA AdvanceHolds == ASSUME IInv, Advance PROVE IInv'
<1> DEFINE t == Later(stamp, listed[Current].updated)
<1>1. /\ Current \in todo /\ Current \in Ids /\ todo # {} /\ phase = "planning"
      /\ step = "advance" /\ PlanStep /\ UNCHANGED history
  BY CurrentIsLeft DEF IInv, TypeOK, Advance, At
<1>2. listed[Current] \in Record
  BY <1>1 DEF IInv, TypeOK, Sorted
<1>3. t \in 0..MaxTime /\ listed[Current].updated <= t
  BY <1>2, LaterFacts DEF IInv, TypeOK, Record
<1>4. CASE ~CanAdvance(Current, t)
  <2>1. Fail /\ UNCHANGED record
    BY <1>4 DEF Advance
  <2>2. Current \notin calm
    <3> SUFFICES ASSUME Current \in calm PROVE FALSE
      OBVIOUS
    <3>1. Startable(Current) /\ record[Current] = listed[Current]
      BY <1>1 DEF IInv, Untouched, Begun
    <3> QED
      BY <1>3, <1>4, <3>1 DEF CanAdvance, Fresh, Startable
  <2> QED
    BY <1>1, <2>1, <2>2, FailHolds
<1>5. CASE CanAdvance(Current, t)
  <2> DEFINE r == Advanced(Current, t)
  <2>1. record[Current] \in Record /\ record[Current].gen < MaxGen /\ record[Current] # None
    BY <1>1, <1>5 DEF IInv, InstancesTypeOK, CanAdvance, Fresh
  <2>2. /\ r \in Record /\ r.gen = record[Current].gen + 1
        /\ r.version = record[Current].version /\ r.config = record[Current].config
    <3>1. record[Current].gen + 1 \in 0..MaxGen
      BY <2>1, InstancesAssumption DEF Record
    <3> QED
      BY <1>3, <2>1, <3>1 DEF Advanced, Record
  <2>3. /\ record' = [record EXCEPT ![Current] = r] /\ step' = "get"
        /\ UNCHANGED <<todo, ready, failed, taken, loaded>>
    BY <1>5 DEF Advance, AdvanceGeneration, Proceed
  <2> HIDE DEF r
  <2>4. /\ record \in [Ids -> Record \cup {None}] /\ r # None
        /\ record'[Current] = r /\ \A id \in Ids : id # Current => record'[id] = record[id]
    BY <1>1, <2>2, <2>3, NoneAssumption DEF IInv, InstancesTypeOK
  <2>5. InstancesTypeOK'
    BY <1>1, <2>2, <2>3 DEF IInv, InstancesTypeOK, PlanStep
  <2>6. TypeOK'
    BY <1>1, <2>3 DEF IInv, TypeOK, PlanStep, catalogVars, history
  <2>7. InHand' /\ Idle' /\ Vouching' /\ UnitsSound' /\ Sorted'
    BY <1>1, <2>3
       DEF IInv, InHand, Idle, Vouching, UnitsSound, Sorted, Fits, PlanStep, catalogVars, history
  <2>8. Newer'
    <3> SUFFICES ASSUME NEW id \in Ids
                 PROVE  /\ id >= nextId => record'[id] = None /\ issued[id] = 0 /\ id \notin todo
                        /\ record'[id] # None => issued[id] <= record'[id].gen
                        /\ Begun(id)' => issued[id] < record'[id].gen
      BY <1>1, <2>3 DEF Newer, PlanStep, history
    <3>1. CASE id # Current
      BY <2>3, <2>4, <3>1 DEF IInv, Newer, Begun, Current
    <3>2. CASE id = Current
      <4>1. ~(id >= nextId) /\ issued[id] <= record[id].gen
        BY <1>1, <2>1, <3>2 DEF IInv, Newer
      <4>2. issued[id] \in Nat /\ record[id].gen \in Nat
        BY <2>1, <3>2, InstancesAssumption DEF IInv, TypeOK, Record
      <4> QED
        BY <2>2, <2>4, <3>2, <4>1, <4>2
    <3> QED
      BY <3>1, <3>2
  <2>9. Untouched'
    <3> SUFFICES ASSUME NEW id \in calm
                 PROVE  /\ id \in todo \/ ready[id] # None
                        /\ Begun(id)' => Runnable(id)'
                        /\ id \in todo /\ ~Begun(id)' => Startable(id)' /\ record'[id] = listed[id]
      BY <1>1, <2>3 DEF Untouched, PlanStep, history
    <3>1. id \in Ids /\ (id \in todo \/ ready[id] # None)
      BY DEF IInv, TypeOK, Untouched
    <3>2. id \in todo => Startable(id) /\ record[id] = listed[id]
      BY <1>1 DEF IInv, Untouched, Begun
    <3>3. Begun(id)' <=> id = Current
      BY <1>1, <2>3 DEF Begun, Current
    <3>4. CASE id = Current
      <4>1. Startable(id)
        BY <1>1, <3>2, <3>4
      <4>2. Runnable(id)'
        BY <1>1, <2>2, <2>4, <3>4, <4>1
           DEF Startable, Runnable, Refers, Sound, Trusted, Accepts, PlanStep, catalogVars
      <4> QED
        BY <3>1, <3>3, <3>4, <4>2
    <3>5. CASE id # Current
      <4>1. record'[id] = record[id]
        BY <2>4, <3>1, <3>5
      <4>2. Startable(id)' = Startable(id)
        BY <1>1, <4>1 DEF Startable, Refers, Sound, Trusted, PlanStep, catalogVars
      <4> QED
        BY <3>1, <3>2, <3>3, <3>5, <4>1, <4>2
    <3> QED
      BY <3>4, <3>5
  <2> QED
    BY <2>5, <2>6, <2>7, <2>8, <2>9 DEF IInv
<1> QED
  BY <1>4, <1>5

\* What a step that leaves records, directories and trust alone keeps of an instance.
LEMMA SameInstance ==
    ASSUME PlanStep, UNCHANGED record, NEW id
    PROVE  Runnable(id)' = Runnable(id) /\ Startable(id)' = Startable(id)
  BY DEF PlanStep, Runnable, Startable, Refers, Sound, Trusted, catalogVars

LEMMA GetHolds == ASSUME IInv, Get PROVE IInv'
<1>1. /\ Current \in todo /\ Current \in Ids /\ todo # {} /\ phase = "planning"
      /\ step = "get" /\ PlanStep /\ UNCHANGED <<record, history>>
  BY CurrentIsLeft DEF IInv, TypeOK, Get, At
<1>2. CASE record[Current] = None
  <2>1. Current \notin calm
    BY <1>1, <1>2 DEF IInv, Untouched, Begun, Runnable
  <2> QED
    BY <1>1, <1>2, <2>1, FailHolds DEF Get
<1>3. CASE record[Current] # None
  <2>1. /\ taken' = record[Current] /\ step' = "load"
        /\ UNCHANGED <<todo, ready, failed, loaded>>
    BY <1>3 DEF Get, Proceed
  <2>2. record[Current] \in Record
    BY <1>1, <1>3 DEF IInv, InstancesTypeOK
  <2>3. InstancesTypeOK' /\ TypeOK'
    BY <1>1, <2>1, <2>2 DEF IInv, InstancesTypeOK, TypeOK, PlanStep, catalogVars, history
  <2>4. InHand' /\ Idle' /\ Vouching' /\ UnitsSound' /\ Sorted'
    BY <1>1, <2>1, <2>2
       DEF IInv, InHand, Idle, Vouching, UnitsSound, Sorted, Fits, PlanStep, catalogVars, history
  <2>5. Newer'
    <3>1. issued[Current] < record[Current].gen /\ record[Current].gen \in Nat
      BY <1>1, <1>3, <2>2, InstancesAssumption DEF IInv, Newer, Begun, Record
    <3> QED
      BY <1>1, <2>1, <3>1 DEF IInv, Newer, Begun, Current, PlanStep, history
  <2>6. Untouched'
    BY <1>1, <2>1, SameInstance DEF IInv, Untouched, Begun, Current, PlanStep, history
  <2> QED
    BY <2>3, <2>4, <2>5, <2>6 DEF IInv
<1> QED
  BY <1>2, <1>3

\* load_reference reads the content the record refers to, or fails.
LEMMA LoadHolds == ASSUME IInv, Load PROVE IInv'
<1> DEFINE n == taken.version.number
<1>1. /\ Current \in todo /\ Current \in Ids /\ todo # {} /\ phase = "planning"
      /\ step = "load" /\ PlanStep /\ UNCHANGED <<record, history>>
  BY CurrentIsLeft DEF IInv, TypeOK, Load, At
<1>2. taken \in Record /\ taken.version \in Versions
  BY <1>1 DEF IInv, InHand, Record
<1>3. CASE ~(Refers(taken.version) /\ Accepts(taken.version, taken.config))
  <2>1. Current \notin calm
    BY <1>1, <1>3 DEF IInv, Untouched, Begun, Runnable
  <2> QED
    BY <1>1, <1>3, <2>1, FailHolds DEF Load
<1>4. CASE Refers(taken.version) /\ Accepts(taken.version, taken.config)
  <2>1. /\ loaded' = disk[n] /\ step' = "trust"
        /\ UNCHANGED <<todo, ready, failed, taken>>
    BY <1>4 DEF Load, Proceed
  <2>2. disk[n] \in InstalledInstallation /\ Fits(disk[n], taken)
    BY <1>2, <1>4, SoundDirectory DEF IInv, Sound, Fits
  <2>3. InstancesTypeOK' /\ TypeOK'
    BY <1>1, <2>1, <2>2 DEF IInv, InstancesTypeOK, TypeOK, PlanStep, catalogVars, history
  <2>4. InHand'
    <3>1. taken' \in Record /\ loaded' \in InstalledInstallation /\ todo' # {}
      BY <1>1, <1>2, <2>1, <2>2
    <3>2. Fits(loaded', taken')
      BY <2>1, <2>2
    <3> QED
      BY <3>1, <3>2 DEF InHand, Fits
  <2>5. Idle' /\ Vouching' /\ UnitsSound' /\ Sorted'
    BY <1>1, <2>1
       DEF IInv, Idle, Vouching, UnitsSound, Sorted, Fits, PlanStep, catalogVars, history
  <2>6. Newer'
    BY <1>1, <2>1 DEF IInv, Newer, Begun, Current, PlanStep, history
  <2>7. Untouched'
    BY <1>1, <2>1, SameInstance DEF IInv, Untouched, Begun, Current, PlanStep, catalogVars, history
  <2> QED
    BY <2>3, <2>4, <2>5, <2>6, <2>7 DEF IInv
<1> QED
  BY <1>3, <1>4

\* The trust is that of this moment; an accepted package has its entry points.
LEMMA VerifyHolds == ASSUME IInv, Verify PROVE IInv'
<1>1. /\ Current \in todo /\ Current \in Ids /\ todo # {} /\ phase = "planning"
      /\ step = "trust" /\ PlanStep /\ UNCHANGED <<record, calm, vouched>>
  BY CurrentIsLeft DEF IInv, TypeOK, Verify, At
<1>2. taken \in Record /\ loaded \in InstalledInstallation /\ Fits(loaded, taken)
  BY <1>1 DEF IInv, InHand
<1>3. loaded.bundle \in Bundles /\ HasEntrypoints(loaded.bundle)
  <2>1. loaded.bundle \in Valid
    BY <1>2 DEF InstalledInstallation
  <2> QED
    BY <2>1, ValidPackages DEF Valid
<1>4. CASE ~Trusted(loaded)
  <2>1. Current \notin calm
    BY <1>1, <1>4 DEF IInv, Untouched, Begun, Runnable
  <2>2. Fail /\ UNCHANGED history
    BY <1>1, <1>4 DEF Verify, history
  <2> QED
    BY <1>1, <2>1, <2>2, FailHolds
<1>5. CASE Trusted(loaded)
  <2> DEFINE u == [row |-> taken, installation |-> loaded]
  <2>1. /\ ready' = [ready EXCEPT ![Current] = u]
        /\ issued' = [issued EXCEPT ![Current] = taken.gen]
        /\ todo' = todo \ {Current} /\ step' = "advance" /\ taken' = None /\ loaded' = None
        /\ UNCHANGED failed
    BY <1>3, <1>5 DEF Verify
  <2>2. u \in RunnableInstance /\ u # None /\ taken.gen \in 0..MaxGen
    BY <1>2, LoadingAssumption DEF RunnableInstance, Record
  <2>3. /\ ready \in [Ids -> RunnableInstance \cup {None}] /\ issued \in [Ids -> 0..MaxGen]
        /\ todo \subseteq Ids
    BY DEF IInv, TypeOK
  <2>4. /\ ready'[Current] = u /\ \A id \in Ids : id # Current => ready'[id] = ready[id]
        /\ issued'[Current] = taken.gen /\ \A id \in Ids : id # Current => issued'[id] = issued[id]
    BY <1>1, <2>1, <2>3
  <2>5. InstancesTypeOK' /\ TypeOK'
    BY <1>1, <2>1, <2>2, <2>3 DEF IInv, InstancesTypeOK, TypeOK, PlanStep, catalogVars
  <2>6. InHand' /\ Idle' /\ Vouching'
    BY <1>1, <2>1 DEF IInv, InHand, Idle, Vouching, PlanStep, catalogVars
  <2>7. UnitsSound'
    <3> SUFFICES ASSUME NEW id \in Ids, ready'[id] # None
                 PROVE  LET d == ready'[id].installation IN
                        /\ Fits(d, ready'[id].row)
                        /\ d.trust = "trusted" => d.bundle \in vouched
      BY <1>1 DEF UnitsSound, Fits
    <3>1. CASE id = Current
      BY <1>1, <1>2, <1>3, <1>5, <2>4, <3>1 DEF IInv, Vouching, Trusted
    <3>2. CASE id # Current
      BY <2>4, <3>2 DEF IInv, UnitsSound
    <3> QED
      BY <3>1, <3>2
  <2>8. Sorted'
    BY <1>1, <2>1, <2>2, <2>4 DEF IInv, Sorted, PlanStep
  <2>9. Newer'
    <3> SUFFICES ASSUME NEW id \in Ids
                 PROVE  /\ id >= nextId => record[id] = None /\ issued'[id] = 0 /\ id \notin todo
                        /\ record[id] # None => issued'[id] <= record[id].gen
      BY <1>1, <2>1 DEF Newer, Begun, PlanStep
    <3>1. CASE id = Current
      BY <1>1, <2>4, <3>1 DEF IInv, Newer, Begun
    <3>2. CASE id # Current
      BY <2>4, <3>2 DEF IInv, Newer
    <3> QED
      BY <3>1, <3>2
  <2>10. Untouched'
    <3> SUFFICES ASSUME NEW id \in calm
                 PROVE  /\ id \in todo' \/ ready'[id] # None
                        /\ id \in todo' => Startable(id)' /\ record[id] = listed[id]
      BY <1>1, <2>1 DEF Untouched, Begun, PlanStep
    <3>1. id \in Ids
      BY DEF IInv, TypeOK
    <3>2. CASE id = Current
      BY <2>1, <2>2, <2>4, <3>2
    <3>3. CASE id # Current
      BY <1>1, <2>1, <2>4, <3>1, <3>3, SameInstance DEF IInv, Untouched, Begun
    <3> QED
      BY <3>2, <3>3
  <2> QED
    BY <2>5, <2>6, <2>7, <2>8, <2>9, <2>10 DEF IInv
<1> QED
  BY <1>4, <1>5

LEMMA StepHolds == IInv /\ [Next]_vars => IInv'
<1> SUFFICES ASSUME IInv, [Next]_vars PROVE IInv'
  OBVIOUS
<1>1. CASE UNCHANGED vars
  <2>1. InstancesTypeOK' /\ TypeOK'
    BY <1>1 DEF IInv, InstancesTypeOK, TypeOK, vars, instanceVars, catalogVars, planVars, history
  <2>2. InHand' /\ Idle' /\ Vouching' /\ UnitsSound' /\ Sorted'
    BY <1>1 DEF IInv, InHand, Idle, Vouching, UnitsSound, Sorted, Fits, vars, catalogVars, planVars,
                history
  <2>3. Newer' /\ Untouched'
    BY <1>1 DEF IInv, Newer, Untouched, Begun, Current, Runnable, Startable, Refers, Sound, Trusted,
                vars, instanceVars, catalogVars, planVars, history
  <2> QED
    BY <2>1, <2>2, <2>3 DEF IInv
<1>2. CASE ClockMoves
  <2>1. /\ now' \in 0..MaxTime
        /\ UNCHANGED <<record, nextId, edit, edits, catalogVars, planVars, history>>
    BY <1>2 DEF ClockMoves, Tick
  <2>2. InstancesTypeOK' /\ TypeOK'
    BY <2>1 DEF IInv, InstancesTypeOK, TypeOK, catalogVars, planVars, history
  <2>3. InHand' /\ Idle' /\ Vouching' /\ UnitsSound' /\ Sorted'
    BY <2>1 DEF IInv, InHand, Idle, Vouching, UnitsSound, Sorted, Fits, catalogVars, planVars, history
  <2>4. Newer' /\ Untouched'
    BY <2>1 DEF IInv, Newer, Untouched, Begun, Current, Runnable, Startable, Refers, Sound, Trusted,
                catalogVars, planVars, history
  <2> QED
    BY <2>2, <2>3, <2>4 DEF IInv
<1>3. CASE Next /\ ~ClockMoves
  BY <1>3, InstallHolds, RemoveHolds, DamageHolds, TrustHolds, CommandLineHolds, HostStartsHolds,
     AdvanceHolds, GetHolds, LoadHolds, VerifyHolds, PlannedHolds, HostStopsHolds DEF Next
<1> QED
  BY <1>1, <1>2, <1>3

LEMMA InvariantHolds == Spec => []IInv
  BY InitHolds, StepHolds, PTL DEF Spec
-----------------------------------------------------------------------------
(***************************************************************************)
(* What follows.                                                           *)
(***************************************************************************)
\* Types of the directories, of the host and of what it has in hand, for any number of
\* instances, editors and starts.
THEOREM TypeCorrect == Spec => [](InstancesTypeOK /\ TypeOK)
<1>1. IInv => InstancesTypeOK /\ TypeOK
  BY DEF IInv
<1> QED
  BY <1>1, InvariantHolds, PTL

\* Whatever validate_package accepts is read back by installation.rs with all that it
\* declares, however it was staged and whatever became of other directories.
THEOREM AcceptedIsRead == Spec => []AcceptedLoads
<1>1. ASSUME TypeOK PROVE AcceptedLoads
  <2> SUFFICES ASSUME NEW n \in Present, disk[n] = Staged(disk[n].bundle, disk[n].trust),
                      Metadata \notin BundlePaths(disk[n].bundle)
               PROVE  LET d == disk[n] b == d.bundle IN
                      /\ LoadFromDir(d)
                      /\ HasEntrypoints(b)
                      /\ Len(BundleManifest(b).id) > 1 => ListedId(BundleManifest(b).id)
                      /\ BundleManifest(b).config # Undeclared =>
                            BundleManifest(b).config \in BundlePaths(b)
    BY DEF AcceptedLoads
  <2> DEFINE b == disk[n].bundle
  <2>1. b \in Valid
    BY <1>1 DEF TypeOK, Present, InstalledInstallation
  <2>2. disk[n].readable /\ disk[n].altered = {}
    BY DEF Staged
  <2> QED
    BY <2>1, <2>2, ValidPackages DEF LoadFromDir, ListedId, ValidateManifest
<1> QED
  BY <1>1, TypeCorrect, PTL

\* Directories, trust and records may change between any two of the host's steps; a unit
\* still runs what its record refers to (load_runnable_instance_with_trust).
THEOREM ReadyAreSound == Spec => []ReadyIsSound
<1>1. IInv => ReadyIsSound
  BY DEF IInv, UnitsSound, Fits, ReadyIsSound
<1> QED
  BY <1>1, InvariantHolds, PTL

\* Whichever instances fail, and at whichever step, one that nothing has touched since it
\* could run is ready when the plan is done (plan_running_instances).
THEOREM FailuresAreApart == Spec => []PlanIsolates
<1>1. IInv => PlanIsolates
  BY DEF IInv, TypeOK, Idle, Sorted, Untouched, PlanIsolates
<1> QED
  BY <1>1, InvariantHolds, PTL

\* However often the host dies and starts, and whatever the editors write meanwhile, no
\* generation is used for two units (advance_generation before each start).
THEOREM GenerationsAreNew == Spec => GenerationsGrow
<1>1. ASSUME IInv, Next, NEW id \in Ids, ready[id] = None, ready'[id] # None
      PROVE  ready'[id].row.gen > issued[id]
  <2>1. ready' # ready /\ ready' # Nobody
    BY <1>1 DEF Nobody
  <2>2. Verify
    BY <1>1, <2>1
       DEF Next, Install, RemoveDirectory, Damage, SetKey, SetPublisher, Change, CommandLine,
           ClockMoves, HostStarts, Advance, Get, Load, Planned, HostStops, Fail, Proceed,
           planVars
  <2>3. /\ ready' = [ready EXCEPT ![Current] = [row |-> taken, installation |-> loaded]]
        /\ todo # {} /\ step = "trust"
    BY <2>1, <2>2 DEF Verify, Fail, At
  <2>4. Current \in todo /\ ready \in [Ids -> RunnableInstance \cup {None}] /\ Current \in Ids
    BY <1>1, <2>3, CurrentIsLeft DEF IInv, TypeOK
  <2>5. id = Current /\ ready'[id].row = taken
    BY <1>1, <2>3, <2>4
  <2>6. issued[id] < taken.gen
    BY <1>1, <2>3, <2>4, <2>5 DEF IInv, Newer, Begun
  <2>7. taken.gen \in Nat /\ issued[id] \in Nat
    BY <1>1, <2>3, InstancesAssumption DEF IInv, InHand, TypeOK, Record
  <2> QED
    BY <2>5, <2>6, <2>7
<1>2. IInv /\ [Next]_vars =>
          [\A id \in Ids : ready[id] = None /\ ready'[id] # None =>
                ready'[id].row.gen > issued[id]]_vars
  BY <1>1
<1> QED
  BY <1>2, InvariantHolds, PTL DEF Spec, GenerationsGrow

\* The host that plans, and the command line beside it, write records only as the store
\* allows: the store's own theorems hold of them (plan_running_instances, floatile-cli
\* instance.rs).
THEOREM StoreIsRespected == Spec => InstancesSpec
<1>1. Init => InstancesInit
  BY DEF Init
<1>2. ASSUME IInv, Next PROVE [InstancesNext]_instanceVars
  <2>1. CASE Advance
    <3> DEFINE t == Later(stamp, listed[Current].updated)
    <3>1. Current \in todo /\ Current \in Ids
      BY <1>2, <2>1, CurrentIsLeft DEF IInv, TypeOK, Advance, At
    <3>2. listed[Current] \in Record
      BY <1>2, <3>1 DEF IInv, TypeOK, Sorted
    <3>3. t \in 0..MaxTime
      BY <1>2, <3>2, LaterFacts DEF IInv, TypeOK, Record
    <3>4. UNCHANGED <<nextId, now, edit, edits>>
      BY <2>1 DEF Advance, PlanStep
    <3>5. AdvanceGeneration(Current, t) \/ UNCHANGED record
      BY <2>1 DEF Advance
    <3> HIDE DEF t
    <3> QED
      BY <3>1, <3>3, <3>4, <3>5 DEF InstancesNext, SupervisorStarts, instanceVars
  <2>2. ASSUME NEW e \in Editors, CommandLine(e) PROVE InstancesNext
    BY <2>2 DEF CommandLine, CreateChecked, ReadChecked, InstancesNext, EditorStep
  <2>3. CASE Get \/ Load \/ Verify \/ Planned \/ HostStarts \/ HostStops
    BY <2>3 DEF Get, Load, Verify, Planned, HostStarts, HostStops, PlanStep, instanceVars
  <2>4. CASE \/ \E b \in Bundles, trust \in {"trusted", "unsigned"} : Install(b, trust)
             \/ \E n \in Numbers :
                 \/ RemoveDirectory(n)
                 \/ \E p \in {Manifest, Metadata} : Damage(n, p)
             \/ \E k \in Keys, s \in {"active", "revoked"} : SetKey(k, s)
             \/ SetPublisher
    BY <2>4 DEF Install, RemoveDirectory, Damage, SetKey, SetPublisher, Change, Disturb, instanceVars
  <2>5. CASE ClockMoves
    BY <2>5 DEF ClockMoves, InstancesNext
  <2> QED
    BY <1>2, <2>1, <2>2, <2>3, <2>4, <2>5 DEF Next
<1>3. IInv /\ [Next]_vars => [InstancesNext]_instanceVars
  BY <1>2 DEF vars
<1> QED
  BY <1>1, <1>3, InvariantHolds, PTL DEF Spec, InstancesSpec
=============================================================================
