------------------------- MODULE TrustedInstallProofs -------------------------
(***************************************************************************)
(* Theorems about TrustedInstall, for every number of processes, packages, *)
(* transactions and crashes.                                               *)
(***************************************************************************)
EXTENDS TrustedInstall, TLAPS

\* The places at which a process holds a row of the journal, or its own staging.
Holding == {"clear", "clearing", "abort", "inspect"} \cup Settling
Owning  == Installing \ {"check", "stage"}

\* Transactions are handed out once, and what they install does not change.
Identities ==
    /\ \A t \in Tx : t < nextTx => content[t] \in Packages
    /\ \A t \in journal : t < nextTx
    /\ \A p \in Procs : \A t \in todo[p] : t < nextTx
    /\ \A p \in Procs : pc[p] \in Holding => row[p] \in Tx /\ row[p] < nextTx
    /\ \A p \in Procs : pc[p] # "idle" => target[p] \in Packages
    /\ \A p \in Procs : tx[p] # 0 => tx[p] < nextTx
    /\ \A p \in Procs : pc[p] \in Owning => tx[p] \in Tx /\ content[tx[p]] = target[p]
    /\ \A p, q \in Procs : tx[p] = tx[q] /\ tx[p] # 0 => p = q
    /\ \A v \in Versions : final[v] # None =>
          final[v].tx < nextTx /\ VersionOf[content[final[v].tx]] = v

\* What is final is no longer staged, and what is staged is nobody else's final.
Placed ==
    /\ \A v \in Versions : final[v] # None => staging[final[v].tx] = "none"
    /\ \A p \in Procs, v \in Versions :
          pc[p] \in Owning /\ final[v] # None => final[v].tx # tx[p]
    /\ \A p \in Procs : pc[p] = "staging" =>
          /\ tx[p] \notin journal
          /\ \A q \in Procs : /\ tx[p] \notin todo[q]
                              /\ pc[q] \in Holding => row[q] # tx[p]
    /\ \A p \in Procs : pc[p] \in {"abort", "inspect"} \cup Settling => staging[row[p]] = "none"
    /\ \A p \in Procs, v \in Versions :
          pc[p] = "abort" /\ final[v] # None => final[v].tx # row[p]
    /\ \A p \in Procs : pc[p] = "inspect" => FinalOf(row[p]) # None
    /\ \A p \in Procs : pc[p] \in {"finalize", "accept"} =>
          FinalOf(row[p]) # None /\ content[FinalOf(row[p]).tx] = content[row[p]]
    /\ \A p \in Procs : pc[p] = "rename" /\ mode[p] = "trusted" /\ staging[tx[p]] # "none"
                           => tx[p] \in journal

\* The mark covers what is being deleted from the journal, and every trusted
\* directory whose own intent is gone.
Covered ==
    /\ \A p \in Procs : pc[p] = "delete" =>
          highest # None /\ VersionOf[highest] >= VersionOf[content[row[p]]]
    /\ \A v \in Versions : final[v] # None /\ final[v].trusted =>
          \/ highest # None /\ VersionOf[highest] >= v
          \/ final[v].tx \in journal

IInv == TypeOK /\ Identities /\ Placed /\ Covered /\ AcceptedIsInstalled

USE PackagesAssumption, ModesAssumption, BoundsAssumption

\* Facts about the data that every step needs.
LEMMA Basics ==
    ASSUME IInv
    PROVE  /\ \A k \in Packages : VersionOf[k] \in Versions /\ VersionOf[k] \in Nat
           /\ Versions \subseteq Nat
           /\ \A v \in Versions : final[v] # None => final[v] \in Installed /\ final[v].tx \in Tx
           /\ Tx \subseteq Nat \ {0} /\ nextTx \in Nat
           /\ \A t \in Tx : t < nextTx => VersionOf[content[t]] \in Versions
BY DEF IInv, TypeOK, Identities, Versions, Tx, Installed

-----------------------------------------------------------------------------
(***************************************************************************)
(* What a step of one process leaves alone.  Each conjunct of the          *)
(* invariant has a lemma that says what the step has to show of its own    *)
(* process for the conjunct to survive.                                    *)
(***************************************************************************)
\* The command of a process, as far as the invariant speaks of it.
ProcTypes ==
    /\ pc \in [Procs -> Places]
    /\ mode \in [Procs -> {"trusted", "unsigned"}]
    /\ target \in [Procs -> Packages \cup {None}]
    /\ todo \in [Procs -> SUBSET Tx]
    /\ tx \in [Procs -> Tx \cup {0}]
    /\ row \in [Procs -> Tx \cup {0}]

SameAt(p) ==
    /\ mode'[p] = mode[p]
    /\ target'[p] = target[p]
    /\ todo'[p] = todo[p]
    /\ tx'[p] = tx[p]
    /\ row'[p] = row[p]

Others(p) == \A q \in Procs : q # p => pc'[q] = pc[q] /\ SameAt(q)

GoneAt(p) ==
    pc'[p] = "idle" /\ mode'[p] = "trusted" /\ todo'[p] = {} /\ tx'[p] = 0 /\ row'[p] = 0

\* Going on moves the place of one process, and nothing else of any.
LEMMA GotoKeeps ==
    ASSUME ProcTypes, NEW p \in Procs, NEW place \in Places, Goto(p, place)
    PROVE  ProcTypes' /\ Others(p) /\ SameAt(p) /\ pc'[p] = place
BY DEF ProcTypes, Goto, Others, SameAt

\* Leaving forgets everything of one process, and nothing of the others.
LEMMA LeaveKeeps ==
    ASSUME ProcTypes, NEW p \in Procs, Leave(p)
    PROVE  ProcTypes' /\ Others(p) /\ GoneAt(p)
<1>1. "idle" \in Places BY DEF Places
<1> QED BY <1>1 DEF ProcTypes, Leave, Others, SameAt, GoneAt

\* Transactions keep their owners and contents in a step that hands out none.
LEMMA IdentitiesKept ==
    ASSUME TypeOK, Identities, NEW p \in Procs, Others(p),
           UNCHANGED <<content, final, nextTx>>,
           \A t \in journal' : t \in journal \/ (t = tx[p] /\ t # 0),
           \A t \in todo'[p] : t \in todo[p] \/ t \in journal,
           pc'[p] \in Holding => row'[p] \in Tx /\ row'[p] < nextTx,
           pc'[p] # "idle" => target'[p] \in Packages,
           tx'[p] \in {0, tx[p]},
           pc'[p] \in Owning => pc[p] \in Owning /\ SameAt(p)
    PROVE  Identities'
<1> USE DEF Others, SameAt
<1>1. (\A t \in Tx : t < nextTx => content[t] \in Packages)' BY DEF Identities
<1>2. (\A t \in journal : t < nextTx)' BY DEF Identities
<1>3. (\A q \in Procs : \A t \in todo[q] : t < nextTx)'
  <2> SUFFICES ASSUME NEW q \in Procs, NEW t \in todo'[q] PROVE t < nextTx
    OBVIOUS
  <2> QED BY DEF Identities
<1>4. (\A q \in Procs : pc[q] \in Holding => row[q] \in Tx /\ row[q] < nextTx)' BY DEF Identities
<1>5. (\A q \in Procs : pc[q] # "idle" => target[q] \in Packages)' BY DEF Identities
<1>6. (\A q \in Procs : tx[q] # 0 => tx[q] < nextTx)' BY DEF Identities
<1>7. (\A q \in Procs : pc[q] \in Owning => tx[q] \in Tx /\ content[tx[q]] = target[q])'
  BY DEF Identities
<1>8. (\A q, r \in Procs : tx[q] = tx[r] /\ tx[q] # 0 => q = r)'
  <2> SUFFICES ASSUME NEW q \in Procs, NEW r \in Procs, tx'[q] = tx'[r], tx'[q] # 0 PROVE q = r
    OBVIOUS
  <2>1. tx'[q] = tx[q] /\ tx'[r] = tx[r] OBVIOUS
  <2>2. tx[q] = tx[r] /\ tx[q] # 0 BY <2>1
  <2> QED BY ONLY <2>2, Identities DEF Identities
<1>9. (\A v \in Versions : final[v] # None =>
          final[v].tx < nextTx /\ VersionOf[content[final[v].tx]] = v)' BY DEF Identities
<1> QED BY <1>1, <1>2, <1>3, <1>4, <1>5, <1>6, <1>7, <1>8, <1>9 DEF Identities

\* What the place of a process says of the row and the staging it holds.
PlacedAt(p) ==
    /\ \A v \in Versions : pc[p] \in Owning /\ final[v] # None => final[v].tx # tx[p]
    /\ pc[p] \in {"abort", "inspect"} \cup Settling => staging[row[p]] = "none"
    /\ \A v \in Versions : pc[p] = "abort" /\ final[v] # None => final[v].tx # row[p]
    /\ pc[p] = "inspect" => FinalOf(row[p]) # None
    /\ pc[p] \in {"finalize", "accept"} =>
          FinalOf(row[p]) # None /\ content[FinalOf(row[p]).tx] = content[row[p]]
    /\ pc[p] = "rename" /\ mode[p] = "trusted" /\ staging[tx[p]] # "none" => tx[p] \in journal

\* Placed survives a step that changes no final, if it holds of its own process.
LEMMA PlacedKept ==
    ASSUME TypeOK, Identities, Placed, NEW p \in Procs, Others(p),
           UNCHANGED <<content, final>>,
           \A t \in Tx : staging[t] = "none" =>
              staging'[t] = "none" \/ (t = tx[p] /\ pc[p] = "staging"),
           \A t \in journal : t \in journal' \/ staging[t] = "none" \/ t = tx[p],
           \A t \in journal' : t \in journal \/ t = tx[p],
           \A t \in todo'[p] : t \in todo[p] \/ t \in journal,
           pc'[p] # "staging",
           pc'[p] \in Holding => row'[p] \in todo[p] \/ (pc[p] \in Holding /\ row'[p] = row[p]),
           PlacedAt(p)'
    PROVE  Placed'
<1> USE DEF Others, SameAt
<1>2. \A q \in Procs : pc[q] \in Owning => tx[q] \in Tx /\ tx[q] # 0 /\ (q # p => tx[q] # tx[p])
  BY DEF Identities, Tx
<1>3. \A q \in Procs : pc[q] \in Holding => row[q] \in Tx BY DEF Identities
<1>a. {"abort", "inspect"} \cup Settling \subseteq Holding BY DEF Holding, Settling
<1>b. {"staging", "rename"} \subseteq Owning BY DEF Owning, Installing
<1>4. (\A v \in Versions : final[v] # None => staging[final[v].tx] = "none")'
  <2> SUFFICES ASSUME NEW v \in Versions, final[v] # None PROVE staging'[final[v].tx] = "none"
    OBVIOUS
  <2>1. final[v].tx \in Tx BY DEF TypeOK, Installed
  <2>2. pc[p] = "staging" => final[v].tx # tx[p] BY <1>b DEF Placed
  <2> QED BY <2>1, <2>2 DEF Placed
<1>5. \A q \in Procs : q # p => PlacedAt(q)'
  <2> SUFFICES ASSUME NEW q \in Procs, q # p PROVE PlacedAt(q)'
    OBVIOUS
  <2> DEFINE there == FinalOf(row[q])
  <2>1. FinalOf(row[q])' = there BY DEF FinalOf
  <2>2. (\A v \in Versions : pc[q] \in Owning /\ final[v] # None => final[v].tx # tx[q])'
    BY DEF Placed
  <2>3. (pc[q] \in {"abort", "inspect"} \cup Settling => staging[row[q]] = "none")'
    <3>1. pc[q] \in Holding /\ pc[p] = "staging" => row[q] # tx[p] BY DEF Placed
    <3> QED BY <1>a, <1>3, <3>1 DEF Placed
  <2>4. (\A v \in Versions : pc[q] = "abort" /\ final[v] # None => final[v].tx # row[q])'
    BY DEF Placed
  <2>5. (pc[q] = "inspect" => FinalOf(row[q]) # None)' BY <2>1 DEF Placed
  <2>6. (pc[q] \in {"finalize", "accept"} =>
            FinalOf(row[q]) # None /\ content[FinalOf(row[q]).tx] = content[row[q]])'
    <3>1. pc'[q] \in {"finalize", "accept"} => there # None /\ content[there.tx] = content[row[q]]
      BY DEF Placed
    <3> QED BY <3>1, <2>1
  <2>7. (pc[q] = "rename" /\ mode[q] = "trusted" /\ staging[tx[q]] # "none" => tx[q] \in journal)'
    <3> SUFFICES ASSUME pc'[q] = "rename", mode'[q] = "trusted", staging'[tx'[q]] # "none"
                 PROVE  tx'[q] \in journal'
      OBVIOUS
    <3>1. pc[q] = "rename" /\ mode[q] = "trusted" /\ tx[q] \in Tx /\ tx[q] # tx[p] /\ tx'[q] = tx[q]
      BY <1>2, <1>b
    <3>2. staging[tx[q]] # "none" BY <3>1
    <3>3. tx[q] \in journal BY <3>1, <3>2 DEF Placed
    <3> QED BY <3>1, <3>2, <3>3
  <2> QED BY <2>2, <2>3, <2>4, <2>5, <2>6, <2>7 DEF PlacedAt
<1>6. \A q \in Procs : PlacedAt(q)' BY <1>5
<1>7. (\A q \in Procs : pc[q] = "staging" =>
          /\ tx[q] \notin journal
          /\ \A r \in Procs : /\ tx[q] \notin todo[r]
                              /\ pc[r] \in Holding => row[r] # tx[q])'
  <2> SUFFICES ASSUME NEW q \in Procs, pc'[q] = "staging"
               PROVE  /\ tx'[q] \notin journal'
                      /\ \A r \in Procs : /\ tx'[q] \notin todo'[r]
                                          /\ pc'[r] \in Holding => row'[r] # tx'[q]
    OBVIOUS
  <2>1. q # p /\ pc[q] = "staging" /\ tx'[q] = tx[q] OBVIOUS
  <2>2. /\ tx[q] \notin journal
        /\ \A r \in Procs : tx[q] \notin todo[r] /\ (pc[r] \in Holding => row[r] # tx[q])
    BY <2>1 DEF Placed
  <2>3. tx[q] # tx[p] BY <1>2, <1>b, <2>1
  <2>4. tx[q] \notin journal' BY <2>2, <2>3
  <2>5. ASSUME NEW r \in Procs PROVE tx[q] \notin todo'[r] /\ (pc'[r] \in Holding => row'[r] # tx[q])
    BY <2>2
  <2> QED BY <2>1, <2>4, <2>5
<1> QED
  BY ONLY <1>4, <1>6, <1>7 DEF Placed, PlacedAt

\* Covered survives a step that keeps the mark, if the rows it removes are covered.
LEMMA CoveredKept ==
    ASSUME TypeOK, Covered, NEW p \in Procs, Others(p),
           UNCHANGED <<content, final, highest>>,
           pc'[p] = "delete" => pc[p] = "delete" /\ row'[p] = row[p],
           \A t \in journal, v \in Versions :
              t \notin journal' /\ final[v] # None /\ final[v].tx = t =>
                 highest # None /\ VersionOf[highest] >= v
    PROVE  Covered'
BY DEF Covered, Others, SameAt

\* Without a change of the mark or the finals the mark stays installed.
LEMMA AcceptedKept ==
    ASSUME AcceptedIsInstalled, UNCHANGED <<content, final, highest>>
    PROVE  AcceptedIsInstalled'
BY DEF AcceptedIsInstalled

\* A step that leaves the finals and the mark alone keeps the invariant if the
\* place its process goes to fits the row and the staging it holds, and if the
\* rows that leave the journal have nothing final above the mark.
LEMMA StepKept ==
    ASSUME IInv, NEW p \in Procs, Others(p), ProcTypes',
           UNCHANGED <<publisher, key, highest, accepted, content, final, nextTx>>,
           crashes' \in 0..MaxCrashes,
           staging' \in [Tx -> {"none", "partial", "full"}],
           \A t \in Tx : staging[t] = "none" =>
              staging'[t] = "none" \/ (t = tx[p] /\ pc[p] = "staging"),
           \A t \in journal' : t \in journal \/ (t = tx[p] /\ t \in Tx),
           \A t \in journal : t \in journal' \/ staging[t] = "none" \/ t = tx[p],
           \A t \in journal, v \in Versions :
              t \notin journal' /\ final[v] # None /\ final[v].tx = t =>
                 highest # None /\ VersionOf[highest] >= v,
           \A t \in todo'[p] : t \in todo[p] \/ t \in journal,
           pc'[p] # "staging",
           pc'[p] # "idle" => target'[p] \in Packages,
           pc'[p] \in Holding => row'[p] \in todo[p] \/ (pc[p] \in Holding /\ row'[p] = row[p]),
           pc'[p] \in Owning => pc[p] \in Owning /\ SameAt(p),
           pc'[p] = "delete" => pc[p] = "delete" /\ row'[p] = row[p],
           tx'[p] \in {0, tx[p]},
           PlacedAt(p)'
    PROVE  IInv'
<1> USE DEF IInv
<1>1. TypeOK'
  <2>1. journal' \subseteq Tx BY DEF TypeOK
  <2> QED BY <2>1 DEF TypeOK, ProcTypes
<1>2. Identities'
  <2>1. pc'[p] \in Holding => row'[p] \in Tx /\ row'[p] < nextTx BY DEF Identities, TypeOK
  <2>2. \A t \in journal' : t \in journal \/ (t = tx[p] /\ t # 0) BY DEF Tx
  <2> QED BY <2>1, <2>2, IdentitiesKept
<1>3. Placed' BY PlacedKept
<1>4. Covered' BY CoveredKept
<1>5. AcceptedIsInstalled' BY AcceptedKept
<1> QED BY <1>1, <1>2, <1>3, <1>4, <1>5

\* A process may leave at any time, with its staging and the covered rows gone.
LEMMA LeaveStep ==
    ASSUME IInv, NEW p \in Procs, Leave(p),
           UNCHANGED <<publisher, key, highest, accepted, content, final, nextTx>>,
           crashes' \in 0..MaxCrashes,
           staging' \in [Tx -> {"none", "partial", "full"}],
           \A t \in Tx : staging[t] = "none" => staging'[t] = "none",
           journal' \subseteq journal,
           \A t \in journal : t \in journal' \/ staging[t] = "none" \/ t = tx[p],
           \A t \in journal, v \in Versions :
              t \notin journal' /\ final[v] # None /\ final[v].tx = t =>
                 highest # None /\ VersionOf[highest] >= v
    PROVE  IInv'
<1>1. ProcTypes BY DEF IInv, TypeOK, ProcTypes
<1>2. ProcTypes' /\ Others(p) /\ GoneAt(p) BY <1>1, LeaveKeeps
<1>3. pc'[p] = "idle" /\ todo'[p] = {} /\ tx'[p] = 0 BY <1>2 DEF GoneAt
<1>4. "idle" \notin Holding \cup Owning BY DEF Holding, Owning, Settling, Installing
<1>5. PlacedAt(p)' BY <1>3 DEF PlacedAt, Owning, Installing, Settling
<1> QED BY <1>2, <1>3, <1>4, <1>5, StepKept

\* A process may go on to a place that asks nothing new of what it holds.
LEMMA GotoStep ==
    ASSUME IInv, NEW p \in Procs, NEW place \in Places, Goto(p, place), pc[p] # "idle",
           UNCHANGED <<publisher, key, highest, accepted, content, final, nextTx, crashes>>,
           staging' \in [Tx -> {"none", "partial", "full"}],
           \A t \in Tx : staging[t] = "none" =>
              staging'[t] = "none" \/ (t = tx[p] /\ pc[p] = "staging"),
           \A t \in journal' : t \in journal \/ (t = tx[p] /\ t \in Tx),
           \A t \in journal : t \in journal' \/ staging[t] = "none" \/ t = tx[p],
           \A t \in journal, v \in Versions :
              t \notin journal' /\ final[v] # None /\ final[v].tx = t =>
                 highest # None /\ VersionOf[highest] >= v,
           place \notin {"staging", "inspect", "delete"},
           place \in Holding => pc[p] \in Holding,
           place \in Owning => pc[p] \in Owning,
           place \in {"abort", "inspect"} \cup Settling => staging'[row[p]] = "none",
           \A v \in Versions : place = "abort" /\ final[v] # None => final[v].tx # row[p],
           place \in {"finalize", "accept"} =>
              FinalOf(row[p]) # None /\ content[FinalOf(row[p]).tx] = content[row[p]],
           place = "rename" /\ mode[p] = "trusted" /\ staging'[tx[p]] # "none" => tx[p] \in journal'
    PROVE  IInv'
<1>1. ProcTypes BY DEF IInv, TypeOK, ProcTypes
<1>2. ProcTypes' /\ Others(p) /\ SameAt(p) /\ pc'[p] = place BY <1>1, GotoKeeps
<1>3. /\ row'[p] = row[p] /\ tx'[p] = tx[p] /\ todo'[p] = todo[p] /\ target'[p] = target[p]
      /\ mode'[p] = mode[p]
  BY <1>2 DEF SameAt
<1>4. target'[p] \in Packages BY <1>3 DEF IInv, Identities
<1>5. PlacedAt(p)'
  <2>1. FinalOf(row[p])' = FinalOf(row[p]) BY <1>3 DEF FinalOf
  <2>2. (\A v \in Versions : pc[p] \in Owning /\ final[v] # None => final[v].tx # tx[p])'
    BY <1>2, <1>3 DEF IInv, Placed
  <2> QED BY <1>2, <1>3, <2>1, <2>2 DEF PlacedAt
<1>6. crashes' \in 0..MaxCrashes BY DEF IInv, TypeOK
<1> QED BY <1>2, <1>3, <1>4, <1>5, <1>6, StepKept
-----------------------------------------------------------------------------
\* A new command reads the journal and knows nothing else.
LEMMA StartStep ==
    ASSUME IInv, NEW p \in Procs, NEW k \in Packages, NEW m \in Modes, Start(p, k, m)
    PROVE  IInv'
<1> USE DEF Start, trustVars, dbVars, diskVars
<1>1. /\ pc'[p] \in {"recover", "check"} /\ target'[p] = k /\ tx'[p] = tx[p] /\ row'[p] = row[p]
      /\ todo'[p] \in {journal, {}} /\ Others(p) /\ ProcTypes'
  BY DEF IInv, TypeOK, ProcTypes, Others, SameAt, Places, Recovering, Installing
<1>2. pc'[p] \notin Holding \cup Owning \cup {"staging", "delete", "idle"}
  BY <1>1 DEF Holding, Owning, Settling, Installing
<1>3. PlacedAt(p)' BY <1>1, <1>2 DEF PlacedAt, Settling
<1>4. journal' = journal /\ staging' = staging /\ crashes' = crashes OBVIOUS
<1>5. staging' \in [Tx -> {"none", "partial", "full"}] /\ crashes' \in 0..MaxCrashes
  BY <1>4 DEF IInv, TypeOK
<1> QED BY <1>1, <1>2, <1>3, <1>4, <1>5, StepKept

\* A row is aborted only if nothing of it is final.
LEMMA LookStep ==
    ASSUME IInv, NEW p \in Procs, Look(p)
    PROVE  IInv'
<1> USE DEF trustVars, dbVars, diskVars
<1>1. PICK t \in todo[p] :
         IF Branch(t) = "idle"
            THEN Leave(p)
            ELSE /\ pc' = [pc EXCEPT ![p] = Branch(t)]
                 /\ row' = [row EXCEPT ![p] = t]
                 /\ todo' = [todo EXCEPT ![p] = @ \ {t}]
                 /\ UNCHANGED <<mode, target, tx>>
  BY DEF Look
<1>2. /\ pc[p] = "recover"
      /\ UNCHANGED <<publisher, key, highest, journal, accepted, content, staging, final, nextTx,
                     crashes>>
  BY DEF Look
<1>3. staging' \in [Tx -> {"none", "partial", "full"}] /\ crashes' \in 0..MaxCrashes
  BY <1>2 DEF IInv, TypeOK
<1>4. CASE Branch(t) = "idle" BY <1>1, <1>2, <1>3, <1>4, LeaveStep
<1>5. CASE Branch(t) \in {"clear", "abort", "inspect"}
  <2>1. t \in Tx BY DEF IInv, TypeOK
  <2>2. /\ pc'[p] = Branch(t) /\ row'[p] = t /\ todo'[p] \subseteq todo[p] /\ tx'[p] = tx[p]
        /\ target'[p] = target[p] /\ Others(p) /\ ProcTypes'
    BY <1>1, <1>5, <2>1
    DEF IInv, TypeOK, ProcTypes, Others, SameAt, Places, Recovering
  <2>3. pc'[p] \notin Owning \cup {"staging", "delete", "idle"}
    BY <1>5, <2>2 DEF Owning, Installing
  <2>4. target'[p] \in Packages BY <1>2, <2>2 DEF IInv, Identities
  <2>5. FinalOf(row[p])' = FinalOf(t) BY <1>2, <2>2 DEF FinalOf
  <2>6. Branch(t) \in {"abort", "inspect"} => staging[t] = "none" BY DEF Branch
  <2>7. Branch(t) = "inspect" => FinalOf(t) # None BY DEF Branch
  <2>8. ASSUME NEW v \in Versions, Branch(t) = "abort", final[v] # None PROVE final[v].tx # t
    <3>1. FinalOf(t) = None BY <2>8 DEF Branch
    <3>2. VersionOf[content[final[v].tx]] = v BY <2>8 DEF IInv, Identities
    <3> QED BY <2>8, <3>1, <3>2 DEF FinalOf
  <2>9. PlacedAt(p)'
    BY <1>2, <1>5, <2>2, <2>3, <2>5, <2>6, <2>7, <2>8 DEF PlacedAt, Settling
  <2> QED BY <1>2, <1>3, <2>2, <2>3, <2>4, <2>9, StepKept
<1> QED BY <1>4, <1>5 DEF Branch

\* Reconciled: the install itself begins.
LEMMA RecoveredStep ==
    ASSUME IInv, NEW p \in Procs, Recovered(p)
    PROVE  IInv'
<1> USE DEF Recovered, trustVars, dbVars, diskVars
<1>1. "check" \in Places /\ "check" \notin Holding \cup Owning \cup Settling
  BY DEF Places, Holding, Owning, Settling, Installing
<1>2. staging' \in [Tx -> {"none", "partial", "full"}] BY DEF IInv, TypeOK
<1> QED BY <1>1, <1>2, GotoStep

\* Half a staging directory is still a staging directory.
LEMMA ClearFilesStep ==
    ASSUME IInv, NEW p \in Procs, ClearFiles(p)
    PROVE  IInv'
<1> USE DEF ClearFiles, trustVars, dbVars
<1>1. staging' \in [Tx -> {"none", "partial", "full"}] /\ crashes' \in 0..MaxCrashes
  BY DEF IInv, TypeOK
<1>2. CASE staging[row[p]] = "none" BY <1>1, <1>2, LeaveStep
<1>3. CASE staging[row[p]] # "none"
  <2>1. /\ "clearing" \in Places /\ "clearing" \in Holding /\ "clear" \in Holding
        /\ "clearing" \notin Owning \cup Settling
    BY DEF Places, Recovering, Holding, Owning, Settling, Installing
  <2>2. \A t \in Tx : staging[t] = "none" => staging'[t] = "none" BY <1>3 DEF IInv, TypeOK
  <2> QED BY <1>1, <1>3, <2>1, <2>2, GotoStep
<1> QED BY <1>2, <1>3

\* What was staged was not final.
LEMMA ClearDirectoryStep ==
    ASSUME IInv, NEW p \in Procs, ClearDirectory(p)
    PROVE  IInv'
<1> USE DEF ClearDirectory, trustVars, dbVars
<1>1. /\ staging' \in [Tx -> {"none", "partial", "full"}] /\ crashes' \in 0..MaxCrashes
      /\ \A t \in Tx : staging[t] = "none" => staging'[t] = "none"
  BY DEF IInv, TypeOK
<1>2. CASE staging[row[p]] = "none" BY <1>1, <1>2, LeaveStep
<1>3. CASE staging[row[p]] # "none"
  <2>1. /\ "abort" \in Places /\ "abort" \in Holding /\ "clearing" \in Holding
        /\ "abort" \notin Owning \cup Settling
    BY DEF Places, Recovering, Holding, Owning, Settling, Installing
  <2>2. row[p] \in Tx /\ staging'[row[p]] = "none" BY <2>1 DEF IInv, TypeOK, Identities
  <2>3. \A v \in Versions : final[v] # None => final[v].tx # row[p] BY <1>3 DEF IInv, Placed
  <2> QED BY <1>1, <1>3, <2>1, <2>2, <2>3, GotoStep
<1> QED BY <1>2, <1>3

\* The intent that goes has nothing final.
LEMMA AbortStep ==
    ASSUME IInv, NEW p \in Procs, Abort(p)
    PROVE  IInv'
<1> USE DEF Abort, trustVars, diskVars
<1>1. "recover" \in Places /\ "recover" \notin Holding \cup Owning \cup Settling
  BY DEF Places, Recovering, Holding, Owning, Settling, Installing
<1>2. staging' \in [Tx -> {"none", "partial", "full"}] BY DEF IInv, TypeOK
<1>3. staging[row[p]] = "none" /\ \A v \in Versions : final[v] # None => final[v].tx # row[p]
  BY DEF IInv, Placed
<1> QED BY <1>1, <1>2, <1>3, GotoStep

\* What passes inspection is the content of the row.
LEMMA InspectStep ==
    ASSUME IInv, NEW p \in Procs, Inspect(p)
    PROVE  IInv'
<1> USE DEF Inspect, trustVars, dbVars, diskVars
<1>1. staging' \in [Tx -> {"none", "partial", "full"}] /\ crashes' \in 0..MaxCrashes
  BY DEF IInv, TypeOK
<1>2. CASE Leave(p) BY <1>1, <1>2, LeaveStep
<1>3. CASE Goto(p, "finalize") /\ content[FinalOf(row[p]).tx] = content[row[p]]
  <2>1. /\ "finalize" \in Places /\ "finalize" \in Holding /\ "inspect" \in Holding
        /\ "finalize" \notin Owning
    BY DEF Places, Recovering, Holding, Owning, Settling, Installing
  <2>2. staging[row[p]] = "none" /\ FinalOf(row[p]) # None BY DEF IInv, Placed
  <2> QED BY <1>1, <1>3, <2>1, <2>2, GotoStep
<1> QED BY <1>2, <1>3

\* The row is still there.
LEMMA FinalizeStep ==
    ASSUME IInv, NEW p \in Procs, Finalize(p)
    PROVE  IInv'
<1> USE DEF Finalize, trustVars, dbVars, diskVars
<1>1. staging' \in [Tx -> {"none", "partial", "full"}] /\ crashes' \in 0..MaxCrashes
  BY DEF IInv, TypeOK
<1>2. CASE Leave(p) BY <1>1, <1>2, LeaveStep
<1>3. CASE Goto(p, "accept")
  <2>1. /\ "accept" \in Places /\ "accept" \in Holding /\ "finalize" \in Holding
        /\ "accept" \notin Owning
    BY DEF Places, Recovering, Holding, Owning, Settling, Installing
  <2>2. /\ staging[row[p]] = "none" /\ FinalOf(row[p]) # None
        /\ content[FinalOf(row[p]).tx] = content[row[p]]
    BY DEF IInv, Placed, Settling
  <2> QED BY <1>1, <1>3, <2>1, <2>2, GotoStep
<1> QED BY <1>2, <1>3

\* The mark rises to what is installed.
LEMMA AcceptPackageStep ==
    ASSUME IInv, NEW p \in Procs, AcceptPackage(p)
    PROVE  IInv'
<1> USE DEF AcceptPackage, trustVars, diskVars
<1>1. staging' \in [Tx -> {"none", "partial", "full"}] /\ crashes' \in 0..MaxCrashes
  BY DEF IInv, TypeOK
<1>2. CASE ~Acceptable(content[row[p]]) BY <1>1, <1>2, LeaveStep
<1>3. CASE Acceptable(content[row[p]])
  <2> DEFINE k == content[row[p]]
  <2>a. /\ "delete" \in Places /\ "delete" \in Holding /\ "accept" \in Holding
        /\ "delete" \notin Owning
    BY DEF Places, Holding, Owning, Settling, Installing
  <2>b. ProcTypes BY DEF IInv, TypeOK, ProcTypes
  <2>c. Goto(p, "delete") /\ UNCHANGED <<publisher, key, journal, content, staging, final, nextTx, crashes>>
    BY <1>3
  <2>d. ProcTypes' /\ Others(p) /\ SameAt(p) /\ pc'[p] = "delete" BY <2>a, <2>b, <2>c, GotoKeeps
  <2>e. /\ row'[p] = row[p] /\ tx'[p] = tx[p] /\ todo'[p] = todo[p] /\ target'[p] = target[p]
    BY <2>d DEF SameAt
  <2>f. /\ row[p] \in Tx /\ row[p] < nextTx /\ k \in Packages /\ target[p] \in Packages
        /\ staging[row[p]] = "none" /\ FinalOf(row[p]) # None /\ content[FinalOf(row[p]).tx] = k
    BY <2>a DEF IInv, Identities, Placed, Settling
  <2>g. /\ highest' = k /\ highest' # None /\ VersionOf[highest'] \in Nat
        /\ highest # None => VersionOf[highest'] >= VersionOf[highest] /\ VersionOf[highest] \in Nat
    BY <1>3, <2>f DEF Acceptable, IInv, TypeOK
  <2>1. TypeOK'
    <3>1. accepted' \subseteq Tx /\ highest' \in Packages BY <1>3, <2>f DEF IInv, TypeOK
    <3> QED BY <1>1, <2>c, <2>d, <3>1 DEF IInv, TypeOK, ProcTypes
  <2>2. Identities'
    BY <2>a, <2>c, <2>d, <2>e, <2>f, IdentitiesKept DEF IInv
  <2>3. Placed'
    <3>1. PlacedAt(p)' BY <2>a, <2>c, <2>d, <2>e, <2>f DEF PlacedAt
    <3> QED BY <2>a, <2>c, <2>d, <2>e, <3>1, PlacedKept DEF IInv
  <2>4. Covered'
    <3>1. ASSUME NEW q \in Procs, pc'[q] = "delete"
          PROVE  VersionOf[highest'] >= VersionOf[content'[row'[q]]]
      <4>1. CASE q = p BY <2>c, <2>e, <2>g, <4>1
      <4>2. CASE q # p
        <5>1. pc[q] = "delete" /\ row'[q] = row[q] /\ content' = content
          BY <2>c, <2>d, <3>1, <4>2 DEF Others, SameAt
        <5>2. /\ highest # None /\ VersionOf[highest] >= VersionOf[content[row[q]]]
              /\ content[row[q]] \in Packages
          BY <2>a, <5>1 DEF IInv, Covered, Identities
        <5>3. VersionOf[content[row[q]]] \in Nat BY <5>2
        <5> QED BY ONLY <2>g, <5>1, <5>2, <5>3
      <4> QED BY <4>1, <4>2
    <3>2. ASSUME NEW v \in Versions, highest # None, VersionOf[highest] >= v
          PROVE  VersionOf[highest'] >= v
      <4>1. v \in Nat BY DEF Versions
      <4> QED BY ONLY <2>g, <3>2, <4>1
    <3> QED BY <2>c, <2>g, <3>1, <3>2 DEF IInv, Covered
  <2>5. AcceptedIsInstalled'
    BY <2>c, <2>f, <2>g DEF AcceptedIsInstalled, FinalOf
  <2> QED BY <2>1, <2>2, <2>3, <2>4, <2>5 DEF IInv
<1> QED BY <1>2, <1>3

\* The mark covers what the intent stood for.
LEMMA DeleteIntentStep ==
    ASSUME IInv, NEW p \in Procs, DeleteIntent(p)
    PROVE  IInv'
<1> USE DEF DeleteIntent, trustVars, diskVars
<1>1. staging' \in [Tx -> {"none", "partial", "full"}] /\ crashes' \in 0..MaxCrashes
  BY DEF IInv, TypeOK
<1>2. /\ "recover" \in Places /\ "delete" \in Settling
      /\ "recover" \notin Holding \cup Owning \cup Settling
  BY DEF Places, Recovering, Holding, Owning, Settling, Installing
<1>3. staging[row[p]] = "none" BY <1>2 DEF IInv, Placed
<1>4. ASSUME NEW v \in Versions, final[v] # None, final[v].tx = row[p]
      PROVE  highest # None /\ VersionOf[highest] >= v
  BY <1>4 DEF IInv, Covered, Identities
<1>5. CASE Leave(p) BY <1>1, <1>3, <1>4, <1>5, LeaveStep
<1>6. CASE Goto(p, "recover") BY <1>1, <1>2, <1>3, <1>4, <1>6, GotoStep
<1> QED BY <1>5, <1>6

\* The checks change nothing.
LEMMA CheckStep ==
    ASSUME IInv, NEW p \in Procs, Check(p)
    PROVE  IInv'
<1>0. /\ pc[p] = "check"
      /\ UNCHANGED <<publisher, key, highest, journal, accepted, content, staging, final, nextTx,
                     crashes>>
  BY DEF Check, trustVars, dbVars, diskVars
<1>1. staging' \in [Tx -> {"none", "partial", "full"}] /\ crashes' \in 0..MaxCrashes
  BY <1>0 DEF IInv, TypeOK
<1>2. "stage" \in Places /\ "stage" \notin Holding \cup Owning \cup Settling
  BY DEF Places, Holding, Owning, Settling, Installing
<1>3. CASE Leave(p) BY <1>0, <1>1, <1>3, LeaveStep
<1>4. CASE Goto(p, "stage") BY <1>0, <1>1, <1>2, <1>4, GotoStep
<1> QED BY <1>3, <1>4 DEF Check

\* A new transaction is nobody else's.
LEMMA BeginStagingStep ==
    ASSUME IInv, NEW p \in Procs, BeginStaging(p)
    PROVE  IInv'
<1> USE Basics DEF BeginStaging, trustVars, dbVars, IInv
<1>0. /\ nextTx \in Tx /\ nextTx' \in 1..(MaxTx + 1) /\ target[p] \in Packages
      /\ nextTx' = nextTx + 1 /\ nextTx \in Nat
  BY DEF TypeOK, Tx, Identities
<1>a. /\ \A q \in Procs : q # p => pc'[q] = pc[q] /\ tx'[q] = tx[q]
      /\ pc'[p] = "staging" /\ tx'[p] = nextTx /\ pc[p] = "stage"
      /\ UNCHANGED <<publisher, key, highest, accepted, journal, final, mode, target, todo, row,
                     crashes>>
  BY DEF TypeOK
<1>b. /\ \A t \in Tx : t # nextTx => content'[t] = content[t] /\ staging'[t] = staging[t]
      /\ content'[nextTx] = target[p]
  BY <1>0 DEF TypeOK
<1>c. \A n \in Nat : (n < nextTx => n < nextTx' /\ n # nextTx)
                        /\ (n < nextTx' => n < nextTx \/ n = nextTx)
  BY ONLY <1>0
<1>d. /\ "staging" \in Places /\ "staging" \notin Holding /\ "stage" \notin Holding \cup Owning
      /\ "staging" \in Owning /\ Holding \cap Owning = {}
      /\ {"abort", "inspect"} \cup Settling \subseteq Holding /\ "rename" \in Owning
  BY DEF Places, Holding, Owning, Settling, Installing
<1>1. TypeOK'
  <2>1. /\ pc' \in [Procs -> Places] /\ tx' \in [Procs -> Tx \cup {0}]
        /\ content' \in [Tx -> Packages \cup {None}]
        /\ staging' \in [Tx -> {"none", "partial", "full"}]
    BY <1>0, <1>d DEF TypeOK
  <2> QED BY <1>0, <1>a, <2>1 DEF TypeOK
<1>2. Identities'
  <2>1. \A t \in Tx : t < nextTx => content'[t] = content[t] BY <1>b, <1>c
  <2>2. (\A t \in Tx : t < nextTx => content[t] \in Packages)'
    BY <1>0, <1>b, <1>c, <2>1 DEF Identities
  <2>3. (\A t \in journal : t < nextTx)'
    <3>1. \A t \in journal : t \in Nat BY DEF TypeOK
    <3> QED BY <1>a, <1>c, <3>1 DEF Identities
  <2>4. (\A q \in Procs : \A t \in todo[q] : t < nextTx)'
    <3>1. \A q \in Procs : \A t \in todo[q] : t \in Nat BY DEF TypeOK
    <3> QED BY <1>a, <1>c, <3>1 DEF Identities
  <2>5. (\A q \in Procs : pc[q] \in Holding => row[q] \in Tx /\ row[q] < nextTx)'
    BY <1>a, <1>c, <1>d DEF Identities
  <2>6. (\A q \in Procs : pc[q] # "idle" => target[q] \in Packages)'
    BY <1>a DEF Identities
  <2>7. (\A q \in Procs : tx[q] # 0 => tx[q] < nextTx)'
    <3> SUFFICES ASSUME NEW q \in Procs, tx'[q] # 0 PROVE tx'[q] < nextTx'
      OBVIOUS
    <3>1. CASE q = p BY ONLY <1>0, <1>a, <3>1
    <3>2. CASE q # p
      <4>1. tx'[q] = tx[q] /\ tx[q] \in Nat /\ tx[q] < nextTx BY <1>a, <3>2 DEF TypeOK, Identities
      <4> QED BY <1>c, <4>1
    <3> QED BY <3>1, <3>2
  <2>8. (\A q \in Procs : pc[q] \in Owning => tx[q] \in Tx /\ content[tx[q]] = target[q])'
    <3> SUFFICES ASSUME NEW q \in Procs, pc'[q] \in Owning
                 PROVE  tx'[q] \in Tx /\ content'[tx'[q]] = target[q]
      BY <1>a
    <3>1. CASE q = p BY <1>0, <1>a, <1>b, <3>1
    <3>2. CASE q # p
      <4>1. /\ tx'[q] = tx[q] /\ tx[q] \in Tx /\ content[tx[q]] = target[q] /\ tx[q] < nextTx
        BY <1>a, <3>2 DEF Identities, Tx
      <4> QED BY <2>1, <4>1
    <3> QED BY <3>1, <3>2
  <2>9. (\A q, r \in Procs : tx[q] = tx[r] /\ tx[q] # 0 => q = r)'
    <3> SUFFICES ASSUME NEW q \in Procs, NEW r \in Procs, tx'[q] = tx'[r], tx'[q] # 0 PROVE q = r
      OBVIOUS
    <3>1. \A s \in Procs : tx[s] # 0 => tx[s] # nextTx BY <1>c DEF TypeOK, Identities
    <3> QED BY <1>a, <3>1 DEF Identities
  <2>10. (\A v \in Versions : final[v] # None =>
             final[v].tx < nextTx /\ VersionOf[content[final[v].tx]] = v)'
    <3> SUFFICES ASSUME NEW v \in Versions, final[v] # None
                 PROVE  final[v].tx < nextTx' /\ VersionOf[content'[final[v].tx]] = v
      BY <1>a
    <3>1. final[v].tx \in Tx /\ final[v].tx < nextTx /\ VersionOf[content[final[v].tx]] = v
      BY DEF Identities
    <3> QED BY <1>c, <2>1, <3>1
  <2> QED BY <2>2, <2>3, <2>4, <2>5, <2>6, <2>7, <2>8, <2>9, <2>10 DEF Identities
<1>3. Placed'
  <2>1. \A v \in Versions : final[v] # None =>
           /\ final[v].tx \in Tx /\ final[v].tx # nextTx /\ staging[final[v].tx] = "none"
    BY <1>c DEF Identities, Placed
  <2>2. \A q \in Procs : pc[q] \in Holding =>
           /\ row[q] \in Tx /\ row[q] # nextTx
           /\ content'[row[q]] = content[row[q]] /\ staging'[row[q]] = staging[row[q]]
    BY <1>b, <1>c DEF Identities
  <2>3. \A q \in Procs : pc[q] \in Holding => FinalOf(row[q])' = FinalOf(row[q])
    BY <1>a, <2>2 DEF FinalOf
  <2>4. (\A v \in Versions : final[v] # None => staging[final[v].tx] = "none")'
    BY <1>a, <1>b, <2>1
  <2>5. (\A q \in Procs, v \in Versions :
            pc[q] \in Owning /\ final[v] # None => final[v].tx # tx[q])'
    BY <1>a, <2>1 DEF Placed
  <2>6. (\A q \in Procs : pc[q] = "staging" =>
            /\ tx[q] \notin journal
            /\ \A r \in Procs : /\ tx[q] \notin todo[r]
                                /\ pc[r] \in Holding => row[r] # tx[q])'
    <3> SUFFICES ASSUME NEW q \in Procs, pc'[q] = "staging"
                 PROVE  /\ tx'[q] \notin journal
                        /\ \A r \in Procs : /\ tx'[q] \notin todo[r]
                                            /\ pc'[r] \in Holding => row[r] # tx'[q]
      BY <1>a
    <3>1. CASE q = p
      <4>1. nextTx \notin journal /\ \A r \in Procs : nextTx \notin todo[r] BY <1>c DEF Identities
      <4> QED BY <1>a, <1>d, <2>2, <3>1, <4>1
    <3>2. CASE q # p
      <4>1. pc[q] = "staging" /\ tx'[q] = tx[q] BY <1>a, <3>2
      <4> QED BY <1>a, <1>d, <4>1 DEF Placed
    <3> QED BY <3>1, <3>2
  <2>7. (\A q \in Procs : pc[q] \in {"abort", "inspect"} \cup Settling => staging[row[q]] = "none")'
    <3> SUFFICES ASSUME NEW q \in Procs, pc'[q] \in {"abort", "inspect"} \cup Settling
                 PROVE  staging'[row[q]] = "none"
      BY <1>a
    <3>1. pc[q] = pc'[q] /\ pc[q] \in Holding BY <1>a, <1>d
    <3> QED BY <2>2, <3>1 DEF Placed
  <2>8. (\A q \in Procs, v \in Versions :
            pc[q] = "abort" /\ final[v] # None => final[v].tx # row[q])'
    BY <1>a DEF Placed
  <2>9. (\A q \in Procs : pc[q] = "inspect" => FinalOf(row[q]) # None)'
    BY <1>a, <1>d, <2>3 DEF Placed
  <2>10. (\A q \in Procs : pc[q] \in {"finalize", "accept"} =>
             FinalOf(row[q]) # None /\ content[FinalOf(row[q]).tx] = content[row[q]])'
    <3>1. ASSUME NEW q \in Procs, pc'[q] \in {"finalize", "accept"}
          PROVE  /\ FinalOf(row[q]) # None /\ FinalOf(row[q])' = FinalOf(row[q])
                 /\ content'[FinalOf(row[q]).tx] = content'[row[q]]
      <4>1. pc[q] \in {"finalize", "accept"} /\ pc[q] \in Holding
        BY <1>a, <3>1 DEF Holding, Settling
      <4>2. FinalOf(row[q]) # None /\ content[FinalOf(row[q]).tx] = content[row[q]]
        BY <4>1 DEF Placed
      <4>3. content[row[q]] \in Packages BY <4>1 DEF Identities
      <4>4. FinalOf(row[q]).tx \in Tx /\ FinalOf(row[q]).tx # nextTx
        BY <2>1, <4>2, <4>3 DEF FinalOf
      <4> QED BY <1>b, <2>2, <2>3, <4>1, <4>2, <4>4
    <3> QED BY <1>a, <3>1
  <2>11. (\A q \in Procs : pc[q] = "rename" /\ mode[q] = "trusted" /\ staging[tx[q]] # "none"
                              => tx[q] \in journal)'
    <3> SUFFICES ASSUME NEW q \in Procs, pc'[q] = "rename", mode[q] = "trusted",
                        staging'[tx'[q]] # "none"
                 PROVE  tx'[q] \in journal
      BY <1>a
    <3>1. pc[q] = "rename" /\ tx'[q] = tx[q] BY <1>a
    <3>2. tx[q] \in Tx /\ tx[q] # nextTx BY <1>c, <1>d, <3>1 DEF Identities, Tx
    <3> QED BY <1>b, <3>1, <3>2 DEF Placed
  <2> QED BY <2>4, <2>5, <2>6, <2>7, <2>8, <2>9, <2>10, <2>11 DEF Placed
<1>4. Covered'
  <2>1. \A q \in Procs : pc'[q] = "delete" => pc[q] = "delete" /\ content'[row[q]] = content[row[q]]
    BY <1>a, <1>b, <1>c DEF Identities, Holding, Settling
  <2> QED BY <1>a, <2>1 DEF Covered
<1>5. AcceptedIsInstalled'
  <2>1. \A v \in Versions : final[v] # None => content'[final[v].tx] = content[final[v].tx]
    BY <1>b, <1>c DEF Identities
  <2> QED BY <1>a, <2>1 DEF AcceptedIsInstalled, TypeOK
<1> QED BY <1>1, <1>2, <1>3, <1>4, <1>5

\* A directory being written is not in the journal yet.
LEMMA EndStagingStep ==
    ASSUME IInv, NEW p \in Procs, EndStaging(p)
    PROVE  IInv'
<1> DEFINE place == IF mode[p] = "trusted" THEN "prepare" ELSE "rename"
<1>1. /\ pc[p] = "staging" /\ Goto(p, place)
      /\ UNCHANGED <<publisher, key, highest, journal, accepted, content, final, nextTx, crashes>>
  BY DEF EndStaging, trustVars, dbVars
<1>2. /\ place \in Places /\ place \notin Holding /\ place \in Owning /\ "staging" \in Owning
      /\ place \notin {"staging", "inspect", "delete", "abort"} \cup Settling
      /\ ~(place = "rename" /\ mode[p] = "trusted")
  BY DEF Places, Holding, Owning, Settling, Installing
<1>3. /\ staging' \in [Tx -> {"none", "partial", "full"}]
      /\ \A t \in Tx : t # tx[p] => staging'[t] = staging[t]
  BY DEF EndStaging, IInv, TypeOK
<1> HIDE DEF place
<1> QED BY <1>1, <1>2, <1>3, GotoStep DEF Settling

\* A failed write changes nothing else.
LEMMA StagingFailsStep ==
    ASSUME IInv, NEW p \in Procs, StagingFails(p)
    PROVE  IInv'
<1>1. UNCHANGED <<publisher, key, highest, journal, accepted, content, staging, final, nextTx,
                  crashes>>
  BY DEF StagingFails, trustVars, dbVars, diskVars
<1>2. staging' \in [Tx -> {"none", "partial", "full"}] /\ crashes' \in 0..MaxCrashes
  BY <1>1 DEF IInv, TypeOK
<1>3. CASE Leave(p) BY <1>1, <1>2, <1>3, LeaveStep
<1>4. CASE pc[p] = "staging" /\ Goto(p, "discard")
  <2>1. /\ "discard" \in Places /\ {"discard", "staging"} \subseteq Owning
        /\ "discard" \notin Holding \cup Settling
    BY DEF Places, Holding, Owning, Settling, Installing
  <2> QED BY <1>1, <1>2, <1>4, <2>1, GotoStep
<1> QED BY <1>3, <1>4 DEF StagingFails

\* The early policy check changes nothing.
LEMMA PrepareStep ==
    ASSUME IInv, NEW p \in Procs, Prepare(p)
    PROVE  IInv'
<1> DEFINE place == IF Acceptable(target[p]) THEN "insert" ELSE "discard"
<1>1. /\ pc[p] = "prepare" /\ Goto(p, place)
      /\ UNCHANGED <<publisher, key, highest, journal, accepted, content, staging, final, nextTx,
                     crashes>>
  BY DEF Prepare, trustVars, dbVars, diskVars
<1>2. /\ place \in Places /\ place \notin Holding /\ place \in Owning /\ "prepare" \in Owning
      /\ place \notin {"staging", "inspect", "delete", "abort", "rename"} \cup Settling
  BY DEF Places, Holding, Owning, Settling, Installing
<1>3. staging' \in [Tx -> {"none", "partial", "full"}] BY <1>1 DEF IInv, TypeOK
<1> HIDE DEF place
<1> QED BY <1>1, <1>2, <1>3, GotoStep DEF Settling

\* The intent precedes the rename.
LEMMA InsertIntentStep ==
    ASSUME IInv, NEW p \in Procs, InsertIntent(p)
    PROVE  IInv'
<1>1. /\ pc[p] = "insert"
      /\ UNCHANGED <<publisher, key, highest, accepted, content, staging, final, nextTx, crashes>>
  BY DEF InsertIntent, trustVars, diskVars
<1>2. staging' \in [Tx -> {"none", "partial", "full"}] BY <1>1 DEF IInv, TypeOK
<1>3. /\ {"rename", "discard"} \subseteq Places /\ {"rename", "discard", "insert"} \subseteq Owning
      /\ {"rename", "discard"} \cap (Holding \cup Settling) = {}
  BY DEF Places, Holding, Owning, Settling, Installing
<1>4. CASE journal' = journal \cup {tx[p]} /\ Goto(p, "rename")
  <2>1. tx[p] \in Tx BY <1>1, <1>3 DEF IInv, Identities
  <2> QED BY <1>1, <1>2, <1>3, <1>4, <2>1, GotoStep
<1>5. CASE UNCHANGED journal /\ Goto(p, "discard") BY <1>1, <1>2, <1>3, <1>5, GotoStep
<1> QED BY <1>4, <1>5 DEF InsertIntent

\* What becomes final has its intent.
LEMMA RenameStep ==
    ASSUME IInv, NEW p \in Procs, Rename(p)
    PROVE  IInv'
<1> USE Basics DEF trustVars, dbVars, IInv
<1>a. pc[p] = "rename" /\ "rename" \in Owning BY DEF Rename, Owning, Installing
<1>1. CASE /\ Goto(p, IF mode[p] = "trusted" THEN "undo" ELSE "discard")
           /\ UNCHANGED <<final, staging>>
  <2> DEFINE place == IF mode[p] = "trusted" THEN "undo" ELSE "discard"
  <2>1. /\ Goto(p, place)
        /\ UNCHANGED <<publisher, key, highest, journal, accepted, content, staging, final, nextTx,
                       crashes>>
    BY <1>1 DEF Rename
  <2>2. /\ place \in Places /\ place \notin Holding /\ place \in Owning
        /\ place \notin {"staging", "inspect", "delete", "abort", "rename"} \cup Settling
    BY DEF Places, Holding, Owning, Settling, Installing
  <2>3. staging' \in [Tx -> {"none", "partial", "full"}] BY <2>1 DEF TypeOK
  <2> HIDE DEF place
  <2> QED BY <1>a, <2>1, <2>2, <2>3, GotoStep DEF Settling
<1>2. CASE /\ Vacant(p) /\ staging[tx[p]] # "none"
           /\ final' = [final EXCEPT ![VersionOf[target[p]]] =
                          [tx |-> tx[p], whole |-> staging[tx[p]] = "full",
                           trusted |-> mode[p] = "trusted"]]
           /\ staging' = [staging EXCEPT ![tx[p]] = "none"]
           /\ IF mode[p] = "trusted"
                 THEN /\ pc' = [pc EXCEPT ![p] = "finalize"]
                      /\ row' = [row EXCEPT ![p] = tx[p]]
                      /\ UNCHANGED <<mode, target, todo, tx>>
                 ELSE Leave(p)
  <2> DEFINE ver == VersionOf[target[p]]
             dir == [tx |-> tx[p], whole |-> staging[tx[p]] = "full",
                     trusted |-> mode[p] = "trusted"]
  <2>1. /\ tx[p] \in Tx /\ tx[p] # 0 /\ content[tx[p]] = target[p] /\ tx[p] < nextTx
        /\ target[p] \in Packages /\ ver \in Versions /\ final[ver] = None
    BY <1>2, <1>a DEF Identities, Vacant, Tx
  <2>2. UNCHANGED <<publisher, key, highest, journal, accepted, content, nextTx, crashes>>
    BY <1>2 DEF Rename
  <2>3. /\ staging' \in [Tx -> {"none", "partial", "full"}] /\ staging'[tx[p]] = "none"
        /\ \A t \in Tx : t # tx[p] => staging'[t] = staging[t]
        /\ \A t \in Tx : staging[t] = "none" => staging'[t] = "none"
    BY <1>2, <2>1 DEF TypeOK
  <2>4. /\ dir \in Installed /\ dir.tx = tx[p] /\ dir # None
        /\ dir.trusted => mode[p] = "trusted"
    <3>1. (staging[tx[p]] = "full") \in BOOLEAN /\ (mode[p] = "trusted") \in BOOLEAN OBVIOUS
    <3>2. dir \in Installed BY <2>1, <3>1, Zenon DEF Installed
    <3>3. dir # None BY <3>2 DEF Installed, Tx
    <3> QED BY <3>2, <3>3
  <2>5. /\ final' \in [Versions -> Installed \cup {None}] /\ final'[ver] = dir
        /\ \A v \in Versions : v # ver => final'[v] = final[v]
    <3> HIDE DEF dir, ver
    <3>1. final' = [final EXCEPT ![ver] = dir] BY <1>2 DEF dir, ver
    <3> QED BY <2>1, <2>4, <3>1 DEF TypeOK
  <2>6. /\ Others(p) /\ ProcTypes' /\ tx'[p] \in {0, tx[p]}
        /\ pc'[p] # "idle" => target'[p] = target[p]
        /\ todo'[p] \subseteq todo[p]
        /\ \/ pc'[p] = "idle" /\ mode[p] # "trusted"
           \/ pc'[p] = "finalize" /\ row'[p] = tx[p] /\ mode[p] = "trusted"
    <3>1. ProcTypes BY DEF TypeOK, ProcTypes
    <3>2. CASE mode[p] # "trusted"
      <4>1. Leave(p) BY <1>2, <3>2
      <4> QED BY <3>1, <3>2, <4>1, LeaveKeeps DEF GoneAt
    <3>3. CASE mode[p] = "trusted"
      BY <1>2, <2>1, <3>1, <3>3 DEF ProcTypes, Others, SameAt, Places, Settling
    <3> QED BY <3>2, <3>3
  <2> HIDE DEF dir
  <2>b. /\ "idle" \notin Holding \cup Owning /\ "finalize" \notin Owning
        /\ {"abort", "inspect"} \cup Settling \subseteq Holding /\ {"staging", "rename"} \subseteq Owning
    BY DEF Holding, Owning, Settling, Installing
  <2>c. \A q \in Procs : q # p => /\ pc'[q] = pc[q] /\ mode'[q] = mode[q] /\ target'[q] = target[q]
                                  /\ todo'[q] = todo[q] /\ tx'[q] = tx[q] /\ row'[q] = row[q]
    BY <2>6 DEF Others, SameAt
  <2>d. \A v \in Versions : final'[v] # None => (v # ver /\ final[v] # None /\ final'[v] = final[v])
                                                   \/ (v = ver /\ final'[v] = dir)
    BY <2>5
  <2>e. \A q \in Procs : q # p /\ pc[q] \in Owning => tx[q] \in Tx /\ tx[q] # tx[p]
    BY <2>1 DEF Identities
  <2>f. \A v \in Versions : final[v] # None => v # ver BY <2>1
  <2>g. mode[p] = "trusted" => tx[p] \in journal BY <1>2, <1>a DEF Placed
  <2>7. TypeOK' BY <2>2, <2>3, <2>5, <2>6 DEF TypeOK, ProcTypes
  <2>8. Identities'
    <3>1. (\A v \in Versions : final[v] # None =>
              final[v].tx < nextTx /\ VersionOf[content[final[v].tx]] = v)'
      BY <2>1, <2>2, <2>4, <2>d DEF Identities
    <3>2. (\A t \in Tx : t < nextTx => content[t] \in Packages)' BY <2>2 DEF Identities
    <3>3. (\A t \in journal : t < nextTx)' BY <2>2 DEF Identities
    <3>4. (\A q \in Procs : \A t \in todo[q] : t < nextTx)' BY <2>2, <2>6, <2>c DEF Identities
    <3>5. (\A q \in Procs : pc[q] \in Holding => row[q] \in Tx /\ row[q] < nextTx)'
      BY <2>1, <2>2, <2>6, <2>b, <2>c DEF Identities
    <3>6. (\A q \in Procs : pc[q] # "idle" => target[q] \in Packages)'
      BY <2>1, <2>6, <2>c DEF Identities
    <3>7. (\A q \in Procs : tx[q] # 0 => tx[q] < nextTx)'
      BY <2>1, <2>2, <2>6, <2>c DEF Identities
    <3>8. (\A q \in Procs : pc[q] \in Owning => tx[q] \in Tx /\ content[tx[q]] = target[q])'
      BY <2>2, <2>6, <2>b, <2>c DEF Identities
    <3>9. (\A q, r \in Procs : tx[q] = tx[r] /\ tx[q] # 0 => q = r)'
      BY <2>6, <2>c DEF Identities
    <3> QED BY <3>1, <3>2, <3>3, <3>4, <3>5, <3>6, <3>7, <3>8, <3>9 DEF Identities
  <2>9. Placed'
    <3>1. (\A v \in Versions : final[v] # None => staging[final[v].tx] = "none")'
      BY <2>3, <2>4, <2>d DEF Placed
    <3>2. (\A q \in Procs, v \in Versions :
              pc[q] \in Owning /\ final[v] # None => final[v].tx # tx[q])'
      BY <2>4, <2>6, <2>b, <2>c, <2>d, <2>e DEF Placed
    <3>3. (\A q \in Procs : pc[q] = "staging" =>
              /\ tx[q] \notin journal
              /\ \A r \in Procs : /\ tx[q] \notin todo[r]
                                  /\ pc[r] \in Holding => row[r] # tx[q])'
      <4> SUFFICES ASSUME NEW q \in Procs, pc'[q] = "staging"
                   PROVE  /\ tx'[q] \notin journal
                          /\ \A r \in Procs : /\ tx'[q] \notin todo'[r]
                                              /\ pc'[r] \in Holding => row'[r] # tx'[q]
        BY <2>2
      <4>1. q # p /\ pc[q] = "staging" /\ tx'[q] = tx[q] /\ tx[q] # tx[p] BY <2>6, <2>b, <2>c, <2>e
      <4>2. /\ tx[q] \notin journal
            /\ \A r \in Procs : tx[q] \notin todo[r] /\ (pc[r] \in Holding => row[r] # tx[q])
        BY <4>1 DEF Placed
      <4> QED BY <2>6, <2>b, <2>c, <4>1, <4>2
    <3>4. (\A q \in Procs : pc[q] \in {"abort", "inspect"} \cup Settling => staging[row[q]] = "none")'
      <4> SUFFICES ASSUME NEW q \in Procs, pc'[q] \in {"abort", "inspect"} \cup Settling
                   PROVE  staging'[row'[q]] = "none"
        OBVIOUS
      <4>1. CASE q = p BY <2>3, <2>6, <2>b, <4>1
      <4>2. CASE q # p
        <5>1. pc[q] = pc'[q] /\ row'[q] = row[q] /\ row[q] \in Tx
          BY <2>b, <2>c, <4>2 DEF Identities
        <5> QED BY <2>3, <5>1 DEF Placed
      <4> QED BY <4>1, <4>2
    <3>5. (\A q \in Procs, v \in Versions :
              pc[q] = "abort" /\ final[v] # None => final[v].tx # row[q])'
      <4> SUFFICES ASSUME NEW q \in Procs, NEW v \in Versions, pc'[q] = "abort", final'[v] # None
                   PROVE  final'[v].tx # row'[q]
        OBVIOUS
      <4>1. q # p /\ pc[q] = "abort" /\ row'[q] = row[q] BY <2>6, <2>c
      <4>2. row[q] # tx[p] BY <1>2, <2>1, <4>1 DEF Placed
      <4> QED BY <2>4, <2>d, <4>1, <4>2 DEF Placed
    <3>6. ASSUME NEW q \in Procs, pc[q] \in Holding, FinalOf(row[q]) # None
          PROVE  final'[VersionOf[content[row[q]]]] = FinalOf(row[q])
      <4>1. VersionOf[content[row[q]]] \in Versions BY <3>6 DEF Identities
      <4> QED BY <2>5, <2>f, <3>6, <4>1 DEF FinalOf
    <3>7. (\A q \in Procs : pc[q] = "inspect" => FinalOf(row[q]) # None)'
      <4> SUFFICES ASSUME NEW q \in Procs, pc'[q] = "inspect"
                   PROVE  final'[VersionOf[content[row'[q]]]] # None
        BY <2>2 DEF FinalOf
      <4>1. pc[q] = "inspect" /\ row'[q] = row[q] /\ pc[q] \in Holding BY <2>6, <2>b, <2>c
      <4>2. FinalOf(row[q]) # None BY <4>1 DEF Placed
      <4> QED BY <3>6, <4>1, <4>2
    <3>8. (\A q \in Procs : pc[q] \in {"finalize", "accept"} =>
              FinalOf(row[q]) # None /\ content[FinalOf(row[q]).tx] = content[row[q]])'
      <4> SUFFICES ASSUME NEW q \in Procs, pc'[q] \in {"finalize", "accept"}
                   PROVE  /\ final'[VersionOf[content[row'[q]]]] # None
                          /\ content[final'[VersionOf[content[row'[q]]]].tx] = content[row'[q]]
        BY <2>2 DEF FinalOf
      <4>1. CASE q = p BY <2>1, <2>4, <2>5, <2>6, <4>1
      <4>2. CASE q # p
        <5>1. pc[q] \in {"finalize", "accept"} /\ row'[q] = row[q] /\ pc[q] \in Holding
          BY <2>c, <4>2 DEF Holding, Settling
        <5>2. FinalOf(row[q]) # None /\ content[FinalOf(row[q]).tx] = content[row[q]]
          BY <5>1 DEF Placed
        <5> QED BY <3>6, <5>1, <5>2
      <4> QED BY <4>1, <4>2
    <3>9. (\A q \in Procs : pc[q] = "rename" /\ mode[q] = "trusted" /\ staging[tx[q]] # "none"
                               => tx[q] \in journal)'
      <4> SUFFICES ASSUME NEW q \in Procs, pc'[q] = "rename", mode'[q] = "trusted",
                          staging'[tx'[q]] # "none"
                   PROVE  tx'[q] \in journal
        BY <2>2
      <4>1. q # p /\ pc[q] = "rename" /\ mode[q] = "trusted" /\ tx'[q] = tx[q] BY <2>6, <2>c
      <4>2. tx[q] \in Tx BY <2>b, <2>e, <4>1
      <4> QED BY <2>3, <4>1, <4>2 DEF Placed
    <3> QED BY <3>1, <3>2, <3>3, <3>4, <3>5, <3>7, <3>8, <3>9 DEF Placed
  <2>10. Covered'
    <3>1. (\A q \in Procs : pc[q] = "delete" =>
              highest # None /\ VersionOf[highest] >= VersionOf[content[row[q]]])'
      BY <2>2, <2>6, <2>c DEF Covered
    <3>2. (\A v \in Versions : final[v] # None /\ final[v].trusted =>
              \/ highest # None /\ VersionOf[highest] >= v
              \/ final[v].tx \in journal)'
      BY <2>2, <2>4, <2>d, <2>g DEF Covered
    <3> QED BY <3>1, <3>2 DEF Covered
  <2>11. AcceptedIsInstalled' BY <2>2, <2>5, <2>f DEF AcceptedIsInstalled, TypeOK
  <2> QED BY <2>7, <2>8, <2>9, <2>10, <2>11
<1> QED BY <1>1, <1>2 DEF Rename

\* What is discarded was not final.
LEMMA DiscardStep ==
    ASSUME IInv, NEW p \in Procs, Discard(p)
    PROVE  IInv'
<1> USE DEF Discard, trustVars, dbVars
<1>1. /\ staging' \in [Tx -> {"none", "partial", "full"}] /\ crashes' \in 0..MaxCrashes
      /\ \A t \in Tx : staging[t] = "none" => staging'[t] = "none"
  BY DEF IInv, TypeOK
<1>2. CASE pc[p] = "undo"
  <2>1. "drop" \in Places /\ {"drop", "undo"} \subseteq Owning /\ "drop" \notin Holding \cup Settling
    BY DEF Places, Holding, Owning, Settling, Installing
  <2> QED BY <1>1, <1>2, <2>1, GotoStep
<1>3. CASE pc[p] # "undo" BY <1>1, <1>3, LeaveStep
<1> QED BY <1>2, <1>3

\* The intent that is dropped has nothing final.
LEMMA DropIntentStep ==
    ASSUME IInv, NEW p \in Procs, DropIntent(p)
    PROVE  IInv'
<1> USE DEF DropIntent, trustVars, diskVars
<1>1. staging' \in [Tx -> {"none", "partial", "full"}] /\ crashes' \in 0..MaxCrashes
  BY DEF IInv, TypeOK
<1>2. \A v \in Versions : final[v] # None => final[v].tx # tx[p]
  BY DEF IInv, Placed, Owning, Installing
<1> QED BY <1>1, <1>2, LeaveStep

\* A dead process holds nothing.
LEMMA CrashStep ==
    ASSUME IInv, NEW p \in Procs, Crash(p)
    PROVE  IInv'
<1> USE DEF Crash, trustVars, dbVars, diskVars
<1>1. staging' \in [Tx -> {"none", "partial", "full"}] /\ crashes' \in 0..MaxCrashes
  BY DEF IInv, TypeOK
<1> QED BY <1>1, LeaveStep

\* Changing trust leaves the store and the processes alone.
LEMMA TrustStep ==
    ASSUME IInv, RevokePublisher \/ \E state \in {"active", "revoked"} : SetKey(state)
    PROVE  IInv'
<1> USE DEF RevokePublisher, SetKey, dbVars, diskVars, procVars, IInv
<1>1. TypeOK' BY DEF TypeOK
<1>2. Identities' BY DEF Identities
<1>3. Placed' BY DEF Placed, FinalOf
<1>4. Covered' BY DEF Covered
<1>5. AcceptedIsInstalled' BY DEF AcceptedIsInstalled
<1> QED BY <1>1, <1>2, <1>3, <1>4, <1>5

-----------------------------------------------------------------------------
\* The inductive invariant holds of every reachable state.
THEOREM Inductive == Spec => []IInv
<1>1. Init => IInv
  <2> USE DEF Init, IInv
  <2>1. Init => TypeOK BY DEF TypeOK, Tx, Places, Installed
  <2>2. Init => Identities BY DEF Identities, Holding, Owning, Settling, Installing, Tx
  <2>3. Init => Placed BY DEF Placed, Owning, Installing, Settling
  <2>4. Init => Covered BY DEF Covered
  <2>5. Init => AcceptedIsInstalled BY DEF AcceptedIsInstalled
  <2> QED BY <2>1, <2>2, <2>3, <2>4, <2>5
<1>2. IInv /\ [Next]_vars => IInv'
  <2> SUFFICES ASSUME IInv, [Next]_vars PROVE IInv'
    OBVIOUS
  <2>1. CASE UNCHANGED vars
    <3> USE <2>1 DEF vars, IInv
    <3>1. TypeOK' BY DEF TypeOK
    <3>2. Identities' BY DEF Identities
    <3>3. Placed' BY DEF Placed, FinalOf
    <3>4. Covered' BY DEF Covered
    <3>5. AcceptedIsInstalled' BY DEF AcceptedIsInstalled
    <3> QED BY <3>1, <3>2, <3>3, <3>4, <3>5
  <2>2. ASSUME NEW p \in Procs, NEW k \in Packages, NEW m \in Modes, Start(p, k, m) PROVE IInv'
    BY <2>2, StartStep
  <2>3. ASSUME NEW p \in Procs, Recovery(p) PROVE IInv'
    BY <2>3, LookStep, RecoveredStep, ClearFilesStep, ClearDirectoryStep, AbortStep, InspectStep
    DEF Recovery
  <2>4. ASSUME NEW p \in Procs, Settle(p) PROVE IInv'
    BY <2>4, FinalizeStep, AcceptPackageStep, DeleteIntentStep DEF Settle
  <2>5. ASSUME NEW p \in Procs, Install(p) PROVE IInv'
    BY <2>5, CheckStep, BeginStagingStep, EndStagingStep, StagingFailsStep, PrepareStep,
       InsertIntentStep, RenameStep, DiscardStep, DropIntentStep DEF Install
  <2>6. ASSUME NEW p \in Procs, Crash(p) PROVE IInv'
    BY <2>6, CrashStep
  <2>7. ASSUME RevokePublisher \/ \E state \in {"active", "revoked"} : SetKey(state) PROVE IInv'
    BY <2>7, TrustStep
  <2> QED BY <2>1, <2>2, <2>3, <2>4, <2>5, <2>6, <2>7 DEF Next
<1> QED BY <1>1, <1>2, PTL DEF Spec

\* Every state of the store, the disk and the processes is well formed, with any
\* number of installers and crashes.
THEOREM TypeCorrect == Spec => []TypeOK
<1>1. IInv => TypeOK BY DEF IInv
<1> QED BY <1>1, Inductive, PTL

\* accept_package never runs ahead of the rename: the high-water mark names a
\* package that is installed, whoever finalizes or recovers.
THEOREM MarkIsInstalled == Spec => []AcceptedIsInstalled
<1>1. IInv => AcceptedIsInstalled BY DEF IInv
<1> QED BY <1>1, Inductive, PTL

\* Whatever a trusted install renamed is under the mark or still in the journal:
\* neither recovery nor abort_install forgets an installed version.
THEOREM NothingForgotten == Spec => []TrustedIsRecorded
<1>1. IInv => TrustedIsRecorded BY DEF IInv, Covered, TrustedIsRecorded
<1> QED BY <1>1, Inductive, PTL

\* The database and the directories tell the same story, with any number of
\* installers and crashes.
THEOREM MarkSound == Spec => []MarkIsSound
<1>1. AcceptedIsInstalled /\ TrustedIsRecorded => MarkIsSound BY DEF MarkIsSound
<1> QED BY <1>1, MarkIsInstalled, NothingForgotten, PTL

\* No interleaving of installs and recoveries lowers the mark: accept_package is
\* the only writer and compares in the same transaction.
THEOREM NoRollback == Spec => WatermarkRises
<1>1. [Next]_vars => [highest' # highest =>
                        highest = None \/ VersionOf[highest'] > VersionOf[highest]]_vars
  <2> SUFFICES ASSUME Next, highest' # highest
               PROVE  highest = None \/ VersionOf[highest'] > VersionOf[highest]
    OBVIOUS
  <2>1. PICK p \in Procs : AcceptPackage(p)
    <3>1. ASSUME NEW p \in Procs, Recovery(p) PROVE highest' = highest
      BY <3>1 DEF Recovery, Look, Recovered, ClearFiles, ClearDirectory, Abort, Inspect, dbVars
    <3>2. ASSUME NEW p \in Procs, Settle(p) PROVE highest' = highest \/ AcceptPackage(p)
      BY <3>2 DEF Settle, Finalize, DeleteIntent, dbVars
    <3>3. ASSUME NEW p \in Procs, Install(p) PROVE highest' = highest
      BY <3>3 DEF Install, Check, BeginStaging, EndStaging, StagingFails, Prepare, InsertIntent,
                  Rename, Discard, DropIntent, dbVars
    <3> QED BY <3>1, <3>2, <3>3 DEF Next, Start, Crash, SetKey, RevokePublisher, dbVars
  <2> QED BY <2>1 DEF AcceptPackage, Acceptable
<1> QED BY <1>1, PTL DEF Spec, WatermarkRises
-----------------------------------------------------------------------------
(***************************************************************************)
(* One trusted install at a time, among any number of unsigned ones, and   *)
(* any number of crashes: the journal then holds one transaction at most,  *)
(* and DirectoriesConsistent follows.  The inductive invariant Single adds *)
(* to IInv what the trusted command that runs knows of the journal.        *)
(***************************************************************************)
\* A trusted command is running in the process.
TrustedAt(p) == pc[p] # "idle" /\ mode[p] = "trusted"

OneTrusted == \A p, q \in Procs : TrustedAt(p) /\ TrustedAt(q) => p = q

\* Only trusted commands recover, prepare, journal and settle.
TrustedPlaces == Recovering \cup Settling \cup {"prepare", "insert", "undo", "drop"}

OnlyTrusted == \A p \in Procs : pc[p] \in TrustedPlaces => mode[p] = "trusted"

OneRow == \A t, u \in journal : t = u

\* What of the journal the running trusted command has yet to deal with.
KnowsJournal ==
    \A p \in Procs : TrustedAt(p) =>
        /\ pc[p] \in {"check", "stage", "staging", "prepare", "insert", "discard"} => journal = {}
        /\ pc[p] \in {"rename", "undo", "drop"} => journal \subseteq {tx[p]}
        /\ pc[p] = "recover" => journal \subseteq todo[p]
        /\ pc[p] \in Holding => journal \subseteq todo[p] \cup {row[p]}
        /\ pc[p] = "accept" => row[p] \in journal

\* What is about to be renamed is whole: nobody clears it.
WholeStaging ==
    \A p \in Procs : pc[p] \in {"prepare", "insert", "rename"} => staging[tx[p]] # "partial"

\* Recovery never touches the transaction of an unsigned install.
UnsignedApart ==
    \A p \in Procs : mode[p] # "trusted" /\ pc[p] \in Owning =>
        /\ tx[p] \notin journal
        /\ \A q \in Procs : /\ tx[p] \notin todo[q]
                            /\ pc[q] \in Holding => row[q] # tx[p]

\* A trusted directory at the place of a row is the one the row announced.
RowOwnsFinal ==
    /\ \A t \in journal : FinalOf(t) # None /\ FinalOf(t).trusted => FinalOf(t).tx = t
    /\ \A p \in Procs :
          /\ TrustedAt(p) /\ pc[p] \in {"stage", "staging", "prepare", "insert", "rename"}
          /\ final[VersionOf[target[p]]] # None
          => ~final[VersionOf[target[p]]].trusted

\* The mark has not passed what may still be accepted.
Above(k) == highest # None => VersionOf[k] > VersionOf[highest] \/ k = highest

RowsAbove ==
    /\ \A t \in journal : Above(content[t])
    /\ \A p \in Procs : TrustedAt(p) /\ pc[p] = "insert" => Above(target[p])

Single ==
    /\ OnlyTrusted /\ OneRow /\ KnowsJournal /\ NoHalfInstall /\ WholeStaging
    /\ UnsignedApart /\ RowOwnsFinal /\ RowsAbove

\* A process that leaves or goes on never takes up the transaction of an unsigned
\* install.
LEMMA LeaveApart ==
    ASSUME ProcTypes, UnsignedApart, NEW p \in Procs, Leave(p), journal' \subseteq journal
    PROVE  UnsignedApart'
<1>1. Others(p) /\ GoneAt(p) BY LeaveKeeps
<1>2. "idle" \notin Holding \cup Owning BY DEF Holding, Owning, Settling, Installing
<1> SUFFICES ASSUME NEW q \in Procs, mode'[q] # "trusted", pc'[q] \in Owning
             PROVE  /\ tx'[q] \notin journal'
                    /\ \A r \in Procs : /\ tx'[q] \notin todo'[r]
                                        /\ pc'[r] \in Holding => row'[r] # tx'[q]
  BY DEF UnsignedApart
<1>3. q # p /\ pc[q] \in Owning /\ mode[q] # "trusted" /\ tx'[q] = tx[q]
  BY <1>1, <1>2 DEF Others, SameAt, GoneAt
<1>4. tx[q] \notin journal' BY <1>3 DEF UnsignedApart
<1>5. ASSUME NEW r \in Procs PROVE tx[q] \notin todo'[r] /\ (pc'[r] \in Holding => row'[r] # tx[q])
  <2>1. CASE r = p BY <1>1, <1>2, <2>1 DEF GoneAt
  <2>2. CASE r # p BY <1>1, <1>3, <2>2 DEF Others, SameAt, UnsignedApart
  <2> QED BY <2>1, <2>2
<1> QED BY <1>3, <1>4, <1>5

\* The same of going on to another place.
LEMMA GotoApart ==
    ASSUME ProcTypes, UnsignedApart, NEW p \in Procs, NEW place \in Places, Goto(p, place),
           journal' \subseteq journal,
           place \in Holding => pc[p] \in Holding,
           place \in Owning => pc[p] \in Owning
    PROVE  UnsignedApart'
<1>1. Others(p) /\ SameAt(p) /\ pc'[p] = place BY GotoKeeps
<1> QED BY <1>1 DEF Others, SameAt, UnsignedApart

\* A trusted command starts only while no other runs, and reads every row.
LEMMA StartSingle ==
    ASSUME IInv, OneTrusted, OneTrusted', Single, NEW p \in Procs, NEW k \in Packages, NEW m \in Modes, Start(p, k, m)
    PROVE  Single'
<1> USE Basics DEF Start, Goto, Leave, trustVars, dbVars, diskVars, procVars,
       IInv, TypeOK, Identities, Single, OneTrusted, TrustedAt
<1>1. OnlyTrusted' BY SMTT(30) DEF OnlyTrusted, TrustedPlaces, Recovering, Settling
<1>2. OneRow' BY SMTT(30) DEF OneRow, KnowsJournal, OnlyTrusted, TrustedPlaces
<1>3. KnowsJournal'
  BY SMTT(30) DEF KnowsJournal, OnlyTrusted, TrustedPlaces, Recovering, Holding, Settling
<1>4. NoHalfInstall' BY SMTT(30) DEF NoHalfInstall, WholeStaging
<1>5. WholeStaging'
  BY SMTT(30) DEF WholeStaging, OnlyTrusted, TrustedPlaces, Recovering, UnsignedApart, Owning,
                  Holding, Settling, Installing
<1>6. UnsignedApart'
  BY SMTT(30) DEF UnsignedApart, OnlyTrusted, TrustedPlaces, Recovering, Owning, Holding, Settling,
                  Installing
<1>7. RowOwnsFinal'
  BY SMTT(30) DEF RowOwnsFinal, KnowsJournal, OnlyTrusted, TrustedPlaces, FinalOf, Owning,
                  Installing
<1>8. RowsAbove'
  BY SMTT(30) DEF RowsAbove, Above, OneRow, KnowsJournal, OnlyTrusted, TrustedPlaces, Owning,
                  Installing
<1> QED BY <1>1, <1>2, <1>3, <1>4, <1>5, <1>6, <1>7, <1>8 DEF Single

\* The row it takes up leaves its snapshot for its hands.
LEMMA LookSingle ==
    ASSUME IInv, OneTrusted, OneTrusted', Single, NEW p \in Procs, Look(p)
    PROVE  Single'
<1> USE Basics DEF Look, Branch, Goto, Leave, trustVars, dbVars, diskVars, procVars,
       IInv, TypeOK, Identities, Single, OneTrusted, TrustedAt
<1>1. OnlyTrusted' BY SMTT(30) DEF OnlyTrusted, TrustedPlaces, Recovering, Settling
<1>2. OneRow' BY SMTT(30) DEF OneRow, KnowsJournal, OnlyTrusted, TrustedPlaces
<1>3. KnowsJournal'
  BY SMTT(30) DEF KnowsJournal, OnlyTrusted, TrustedPlaces, Recovering, Holding, Settling
<1>4. NoHalfInstall' BY SMTT(30) DEF NoHalfInstall, WholeStaging
<1>5. WholeStaging'
  BY SMTT(30) DEF WholeStaging, OnlyTrusted, TrustedPlaces, Recovering, UnsignedApart, Owning,
                  Holding, Settling, Installing
<1>6. UnsignedApart'
  BY SMTT(30) DEF UnsignedApart, OnlyTrusted, TrustedPlaces, Recovering, Owning, Holding, Settling,
                  Installing
<1>7. RowOwnsFinal'
  BY SMTT(30) DEF RowOwnsFinal, KnowsJournal, OnlyTrusted, TrustedPlaces, FinalOf, Owning,
                  Installing
<1>8. RowsAbove'
  BY SMTT(30) DEF RowsAbove, Above, OneRow, KnowsJournal, OnlyTrusted, TrustedPlaces, Owning,
                  Installing
<1> QED BY <1>1, <1>2, <1>3, <1>4, <1>5, <1>6, <1>7, <1>8 DEF Single

\* With an empty snapshot there is no row left.
LEMMA RecoveredSingle ==
    ASSUME IInv, OneTrusted, OneTrusted', Single, NEW p \in Procs, Recovered(p)
    PROVE  Single'
<1> USE Basics DEF Recovered, Goto, Leave, trustVars, dbVars, diskVars, procVars,
       IInv, TypeOK, Identities, Single, OneTrusted, TrustedAt
<1>1. OnlyTrusted' BY SMTT(30) DEF OnlyTrusted, TrustedPlaces, Recovering, Settling
<1>2. OneRow' BY SMTT(30) DEF OneRow, KnowsJournal, OnlyTrusted, TrustedPlaces
<1>3. KnowsJournal'
  BY SMTT(30) DEF KnowsJournal, OnlyTrusted, TrustedPlaces, Recovering, Holding, Settling
<1>4. NoHalfInstall' BY SMTT(30) DEF NoHalfInstall, WholeStaging
<1>5. WholeStaging'
  BY SMTT(30) DEF WholeStaging, OnlyTrusted, TrustedPlaces, Recovering, UnsignedApart, Owning,
                  Holding, Settling, Installing
<1>6. UnsignedApart'
  BY SMTT(30) DEF UnsignedApart, OnlyTrusted, TrustedPlaces, Recovering, Owning, Holding, Settling,
                  Installing
<1>7. RowOwnsFinal'
  BY SMTT(30) DEF RowOwnsFinal, KnowsJournal, OnlyTrusted, TrustedPlaces, FinalOf, Owning,
                  Installing
<1>8. RowsAbove'
  BY SMTT(30) DEF RowsAbove, Above, OneRow, KnowsJournal, OnlyTrusted, TrustedPlaces, Owning,
                  Installing
<1> QED BY <1>1, <1>2, <1>3, <1>4, <1>5, <1>6, <1>7, <1>8 DEF Single

\* What is cleared belongs to a row, so to no unsigned install.
LEMMA ClearFilesSingle ==
    ASSUME IInv, OneTrusted, OneTrusted', Single, NEW p \in Procs, ClearFiles(p)
    PROVE  Single'
<1> USE Basics DEF ClearFiles, Goto, Leave, trustVars, dbVars, diskVars, procVars,
       IInv, TypeOK, Identities, Single, OneTrusted, TrustedAt
<1>1. OnlyTrusted' BY SMTT(30) DEF OnlyTrusted, TrustedPlaces, Recovering, Settling
<1>2. OneRow' BY SMTT(30) DEF OneRow, KnowsJournal, OnlyTrusted, TrustedPlaces
<1>3. KnowsJournal'
  BY SMTT(30) DEF KnowsJournal, OnlyTrusted, TrustedPlaces, Recovering, Holding, Settling
<1>4. NoHalfInstall' BY SMTT(30) DEF NoHalfInstall, WholeStaging
<1>5. WholeStaging'
  BY SMTT(30) DEF WholeStaging, OnlyTrusted, TrustedPlaces, Recovering, UnsignedApart, Owning,
                  Holding, Settling, Installing
<1>6. UnsignedApart'
  BY SMTT(30) DEF UnsignedApart, OnlyTrusted, TrustedPlaces, Recovering, Owning, Holding, Settling,
                  Installing
<1>7. RowOwnsFinal'
  BY SMTT(30) DEF RowOwnsFinal, KnowsJournal, OnlyTrusted, TrustedPlaces, FinalOf, Owning,
                  Installing
<1>8. RowsAbove'
  BY SMTT(30) DEF RowsAbove, Above, OneRow, KnowsJournal, OnlyTrusted, TrustedPlaces, Owning,
                  Installing
<1> QED BY <1>1, <1>2, <1>3, <1>4, <1>5, <1>6, <1>7, <1>8 DEF Single

\* The same of the directory.
LEMMA ClearDirectorySingle ==
    ASSUME IInv, OneTrusted, OneTrusted', Single, NEW p \in Procs, ClearDirectory(p)
    PROVE  Single'
<1> USE Basics DEF ClearDirectory, Goto, Leave, trustVars, dbVars, diskVars, procVars,
       IInv, TypeOK, Identities, Single, OneTrusted, TrustedAt
<1>1. OnlyTrusted' BY SMTT(30) DEF OnlyTrusted, TrustedPlaces, Recovering, Settling
<1>2. OneRow' BY SMTT(30) DEF OneRow, KnowsJournal, OnlyTrusted, TrustedPlaces
<1>3. KnowsJournal'
  BY SMTT(30) DEF KnowsJournal, OnlyTrusted, TrustedPlaces, Recovering, Holding, Settling
<1>4. NoHalfInstall' BY SMTT(30) DEF NoHalfInstall, WholeStaging
<1>5. WholeStaging'
  BY SMTT(30) DEF WholeStaging, OnlyTrusted, TrustedPlaces, Recovering, UnsignedApart, Owning,
                  Holding, Settling, Installing
<1>6. UnsignedApart'
  <2> HIDE DEF Leave, Goto
  <2>1. ProcTypes BY DEF ProcTypes
  <2>2. CASE Leave(p) BY <2>1, <2>2, LeaveApart
  <2>3. CASE Goto(p, "abort") /\ pc[p] = "clearing"
    <3>1. /\ "abort" \in Places
          /\ "abort" \in Holding => "clearing" \in Holding
          /\ "abort" \in Owning => "clearing" \in Owning
      BY DEF Places, Recovering, Holding, Owning, Settling, Installing
    <3> QED BY <2>1, <2>3, <3>1, GotoApart
  <2> QED BY <2>2, <2>3
<1>7. RowOwnsFinal'
  BY SMTT(30) DEF RowOwnsFinal, KnowsJournal, OnlyTrusted, TrustedPlaces, FinalOf, Owning,
                  Installing
<1>8. RowsAbove'
  BY SMTT(30) DEF RowsAbove, Above, OneRow, KnowsJournal, OnlyTrusted, TrustedPlaces, Owning,
                  Installing
<1> QED BY <1>1, <1>2, <1>3, <1>4, <1>5, <1>6, <1>7, <1>8 DEF Single

\* The only row goes.
LEMMA AbortSingle ==
    ASSUME IInv, OneTrusted, OneTrusted', Single, NEW p \in Procs, Abort(p)
    PROVE  Single'
<1> USE Basics DEF Abort, Goto, Leave, trustVars, dbVars, diskVars, procVars,
       IInv, TypeOK, Identities, Single, OneTrusted, TrustedAt
<1>1. OnlyTrusted' BY SMTT(30) DEF OnlyTrusted, TrustedPlaces, Recovering, Settling
<1>2. OneRow' BY SMTT(30) DEF OneRow, KnowsJournal, OnlyTrusted, TrustedPlaces
<1>3. KnowsJournal'
  BY SMTT(30) DEF KnowsJournal, OnlyTrusted, TrustedPlaces, Recovering, Holding, Settling
<1>4. NoHalfInstall' BY SMTT(30) DEF NoHalfInstall, WholeStaging
<1>5. WholeStaging'
  BY SMTT(30) DEF WholeStaging, OnlyTrusted, TrustedPlaces, Recovering, UnsignedApart, Owning,
                  Holding, Settling, Installing
<1>6. UnsignedApart'
  BY SMTT(30) DEF UnsignedApart, OnlyTrusted, TrustedPlaces, Recovering, Owning, Holding, Settling,
                  Installing
<1>7. RowOwnsFinal'
  BY SMTT(30) DEF RowOwnsFinal, KnowsJournal, OnlyTrusted, TrustedPlaces, FinalOf, Owning,
                  Installing
<1>8. RowsAbove'
  BY SMTT(30) DEF RowsAbove, Above, OneRow, KnowsJournal, OnlyTrusted, TrustedPlaces, Owning,
                  Installing
<1> QED BY <1>1, <1>2, <1>3, <1>4, <1>5, <1>6, <1>7, <1>8 DEF Single

\* Inspection changes nothing but the place.
LEMMA InspectSingle ==
    ASSUME IInv, OneTrusted, OneTrusted', Single, NEW p \in Procs, Inspect(p)
    PROVE  Single'
<1> USE Basics DEF Inspect, Goto, Leave, trustVars, dbVars, diskVars, procVars,
       IInv, TypeOK, Identities, Single, OneTrusted, TrustedAt
<1>1. OnlyTrusted' BY SMTT(30) DEF OnlyTrusted, TrustedPlaces, Recovering, Settling
<1>2. OneRow' BY SMTT(30) DEF OneRow, KnowsJournal, OnlyTrusted, TrustedPlaces
<1>3. KnowsJournal'
  BY SMTT(30) DEF KnowsJournal, OnlyTrusted, TrustedPlaces, Recovering, Holding, Settling
<1>4. NoHalfInstall' BY SMTT(30) DEF NoHalfInstall, WholeStaging
<1>5. WholeStaging'
  BY SMTT(30) DEF WholeStaging, OnlyTrusted, TrustedPlaces, Recovering, UnsignedApart, Owning,
                  Holding, Settling, Installing
<1>6. UnsignedApart'
  <2> HIDE DEF Leave, Goto
  <2>1. ProcTypes BY DEF ProcTypes
  <2>2. CASE Leave(p) BY <2>1, <2>2, LeaveApart
  <2>3. CASE Goto(p, "finalize") /\ pc[p] = "inspect"
    <3>1. /\ "finalize" \in Places
          /\ "finalize" \in Holding => "inspect" \in Holding
          /\ "finalize" \in Owning => "inspect" \in Owning
      BY DEF Places, Recovering, Holding, Owning, Settling, Installing
    <3> QED BY <2>1, <2>3, <3>1, GotoApart
  <2> QED BY <2>2, <2>3
<1>7. RowOwnsFinal'
  BY SMTT(30) DEF RowOwnsFinal, KnowsJournal, OnlyTrusted, TrustedPlaces, FinalOf, Owning,
                  Installing
<1>8. RowsAbove'
  BY SMTT(30) DEF RowsAbove, Above, OneRow, KnowsJournal, OnlyTrusted, TrustedPlaces, Owning,
                  Installing
<1> QED BY <1>1, <1>2, <1>3, <1>4, <1>5, <1>6, <1>7, <1>8 DEF Single

\* What goes on to be accepted is a row.
LEMMA FinalizeSingle ==
    ASSUME IInv, OneTrusted, OneTrusted', Single, NEW p \in Procs, Finalize(p)
    PROVE  Single'
<1> USE Basics DEF Finalize, Goto, Leave, trustVars, dbVars, diskVars, procVars,
       IInv, TypeOK, Identities, Single, OneTrusted, TrustedAt
<1>1. OnlyTrusted' BY SMTT(30) DEF OnlyTrusted, TrustedPlaces, Recovering, Settling
<1>2. OneRow' BY SMTT(30) DEF OneRow, KnowsJournal, OnlyTrusted, TrustedPlaces
<1>3. KnowsJournal'
  BY SMTT(30) DEF KnowsJournal, OnlyTrusted, TrustedPlaces, Recovering, Holding, Settling
<1>4. NoHalfInstall' BY SMTT(30) DEF NoHalfInstall, WholeStaging
<1>5. WholeStaging'
  BY SMTT(30) DEF WholeStaging, OnlyTrusted, TrustedPlaces, Recovering, UnsignedApart, Owning,
                  Holding, Settling, Installing
<1>6. UnsignedApart'
  <2> HIDE DEF Leave, Goto
  <2>1. ProcTypes BY DEF ProcTypes
  <2>2. CASE Leave(p) BY <2>1, <2>2, LeaveApart
  <2>3. CASE Goto(p, "accept") /\ pc[p] = "finalize"
    <3>1. /\ "accept" \in Places
          /\ "accept" \in Holding => "finalize" \in Holding
          /\ "accept" \in Owning => "finalize" \in Owning
      BY DEF Places, Recovering, Holding, Owning, Settling, Installing
    <3> QED BY <2>1, <2>3, <3>1, GotoApart
  <2> QED BY <2>2, <2>3
<1>7. RowOwnsFinal'
  BY SMTT(30) DEF RowOwnsFinal, KnowsJournal, OnlyTrusted, TrustedPlaces, FinalOf, Owning,
                  Installing
<1>8. RowsAbove'
  BY SMTT(30) DEF RowsAbove, Above, OneRow, KnowsJournal, OnlyTrusted, TrustedPlaces, Owning,
                  Installing
<1> QED BY <1>1, <1>2, <1>3, <1>4, <1>5, <1>6, <1>7, <1>8 DEF Single

\* The mark rises to the only row.
LEMMA AcceptPackageSingle ==
    ASSUME IInv, OneTrusted, OneTrusted', Single, NEW p \in Procs, AcceptPackage(p)
    PROVE  Single'
<1> USE Basics DEF AcceptPackage, Acceptable, Goto, Leave, trustVars, dbVars, diskVars, procVars,
       IInv, TypeOK, Identities, Single, OneTrusted, TrustedAt
<1>1. OnlyTrusted' BY SMTT(30) DEF OnlyTrusted, TrustedPlaces, Recovering, Settling
<1>2. OneRow' BY SMTT(30) DEF OneRow, KnowsJournal, OnlyTrusted, TrustedPlaces
<1>3. KnowsJournal'
  BY SMTT(30) DEF KnowsJournal, OnlyTrusted, TrustedPlaces, Recovering, Holding, Settling
<1>4. NoHalfInstall' BY SMTT(30) DEF NoHalfInstall, WholeStaging
<1>5. WholeStaging'
  BY SMTT(30) DEF WholeStaging, OnlyTrusted, TrustedPlaces, Recovering, UnsignedApart, Owning,
                  Holding, Settling, Installing
<1>6. UnsignedApart'
  <2> HIDE DEF Leave, Goto
  <2>1. ProcTypes BY DEF ProcTypes
  <2>2. CASE Leave(p) BY <2>1, <2>2, LeaveApart
  <2>3. CASE Goto(p, "delete") /\ pc[p] = "accept"
    <3>1. /\ "delete" \in Places
          /\ "delete" \in Holding => "accept" \in Holding
          /\ "delete" \in Owning => "accept" \in Owning
      BY DEF Places, Recovering, Holding, Owning, Settling, Installing
    <3> QED BY <2>1, <2>3, <3>1, GotoApart
  <2> QED BY <2>2, <2>3
<1>7. RowOwnsFinal'
  BY SMTT(30) DEF RowOwnsFinal, KnowsJournal, OnlyTrusted, TrustedPlaces, FinalOf, Owning,
                  Installing
<1>8. RowsAbove'
  <2>1. row[p] \in journal /\ TrustedAt(p)
    BY DEF KnowsJournal, OnlyTrusted, TrustedPlaces, Settling
  <2>2. CASE ~Acceptable(content[row[p]])
    <3>1. Leave(p) /\ UNCHANGED <<highest, journal, content, final>> BY <2>2
    <3> QED BY <3>1, SMTT(30) DEF RowsAbove, Above
  <2>3. CASE Acceptable(content[row[p]])
    <3>1. highest' = content[row[p]] /\ pc' = [pc EXCEPT ![p] = "delete"]
          /\ UNCHANGED <<journal, content, mode, target>>
      BY <2>3
    <3>2. \A t \in journal : t = row[p] BY <2>1 DEF OneRow
    <3>3. \A q \in Procs : ~(TrustedAt(q)' /\ pc'[q] = "insert") BY <2>1, <3>1
    <3>4. (\A t \in journal : Above(content[t]))' BY <3>1, <3>2 DEF Above
    <3> QED BY <3>3, <3>4 DEF RowsAbove
  <2> QED BY <2>2, <2>3
<1> QED BY <1>1, <1>2, <1>3, <1>4, <1>5, <1>6, <1>7, <1>8 DEF Single

\* The only row goes.
LEMMA DeleteIntentSingle ==
    ASSUME IInv, OneTrusted, OneTrusted', Single, NEW p \in Procs, DeleteIntent(p)
    PROVE  Single'
<1> USE Basics DEF DeleteIntent, Goto, Leave, trustVars, dbVars, diskVars, procVars,
       IInv, TypeOK, Identities, Single, OneTrusted, TrustedAt
<1>1. OnlyTrusted' BY SMTT(30) DEF OnlyTrusted, TrustedPlaces, Recovering, Settling
<1>2. OneRow' BY SMTT(30) DEF OneRow, KnowsJournal, OnlyTrusted, TrustedPlaces
<1>3. KnowsJournal'
  BY SMTT(30) DEF KnowsJournal, OnlyTrusted, TrustedPlaces, Recovering, Holding, Settling
<1>4. NoHalfInstall' BY SMTT(30) DEF NoHalfInstall, WholeStaging
<1>5. WholeStaging'
  BY SMTT(30) DEF WholeStaging, OnlyTrusted, TrustedPlaces, Recovering, UnsignedApart, Owning,
                  Holding, Settling, Installing
<1>6. UnsignedApart'
  <2> HIDE DEF Leave, Goto
  <2>1. ProcTypes BY DEF ProcTypes
  <2>2. CASE Leave(p) BY <2>1, <2>2, LeaveApart
  <2>3. CASE Goto(p, "recover") /\ pc[p] = "delete"
    <3>1. /\ "recover" \in Places
          /\ "recover" \in Holding => "delete" \in Holding
          /\ "recover" \in Owning => "delete" \in Owning
      BY DEF Places, Recovering, Holding, Owning, Settling, Installing
    <3> QED BY <2>1, <2>3, <3>1, GotoApart
  <2> QED BY <2>2, <2>3
<1>7. RowOwnsFinal'
  BY SMTT(30) DEF RowOwnsFinal, KnowsJournal, OnlyTrusted, TrustedPlaces, FinalOf, Owning,
                  Installing
<1>8. RowsAbove'
  BY SMTT(30) DEF RowsAbove, Above, OneRow, KnowsJournal, OnlyTrusted, TrustedPlaces, Owning,
                  Installing
<1> QED BY <1>1, <1>2, <1>3, <1>4, <1>5, <1>6, <1>7, <1>8 DEF Single

\* A vacant place holds no trusted directory.
LEMMA CheckSingle ==
    ASSUME IInv, OneTrusted, OneTrusted', Single, NEW p \in Procs, Check(p)
    PROVE  Single'
<1> USE Basics DEF Check, Vacant, Goto, Leave, trustVars, dbVars, diskVars, procVars,
       IInv, TypeOK, Identities, Single, OneTrusted, TrustedAt
<1>1. OnlyTrusted' BY SMTT(30) DEF OnlyTrusted, TrustedPlaces, Recovering, Settling
<1>2. OneRow' BY SMTT(30) DEF OneRow, KnowsJournal, OnlyTrusted, TrustedPlaces
<1>3. KnowsJournal'
  BY SMTT(30) DEF KnowsJournal, OnlyTrusted, TrustedPlaces, Recovering, Holding, Settling
<1>4. NoHalfInstall' BY SMTT(30) DEF NoHalfInstall, WholeStaging
<1>5. WholeStaging'
  BY SMTT(30) DEF WholeStaging, OnlyTrusted, TrustedPlaces, Recovering, UnsignedApart, Owning,
                  Holding, Settling, Installing
<1>6. UnsignedApart'
  <2> HIDE DEF Leave, Goto
  <2>1. ProcTypes BY DEF ProcTypes
  <2>2. CASE Leave(p) BY <2>1, <2>2, LeaveApart
  <2>3. CASE Goto(p, "stage") /\ pc[p] = "check"
    <3>1. /\ "stage" \in Places
          /\ "stage" \in Holding => "check" \in Holding
          /\ "stage" \in Owning => "check" \in Owning
      BY DEF Places, Recovering, Holding, Owning, Settling, Installing
    <3> QED BY <2>1, <2>3, <3>1, GotoApart
  <2> QED BY <2>2, <2>3
<1>7. RowOwnsFinal'
  BY SMTT(30) DEF RowOwnsFinal, KnowsJournal, OnlyTrusted, TrustedPlaces, FinalOf, Owning,
                  Installing
<1>8. RowsAbove'
  BY SMTT(30) DEF RowsAbove, Above, OneRow, KnowsJournal, OnlyTrusted, TrustedPlaces, Owning,
                  Installing
<1> QED BY <1>1, <1>2, <1>3, <1>4, <1>5, <1>6, <1>7, <1>8 DEF Single

\* A new transaction is no row and in no snapshot.
LEMMA BeginStagingSingle ==
    ASSUME IInv, OneTrusted, OneTrusted', Single, NEW p \in Procs, BeginStaging(p)
    PROVE  Single'
<1> USE Basics DEF BeginStaging, Goto, Leave, trustVars, dbVars, diskVars, procVars,
       IInv, TypeOK, Identities, Single, OneTrusted, TrustedAt
<1>1. OnlyTrusted' BY SMTT(30) DEF OnlyTrusted, TrustedPlaces, Recovering, Settling
<1>2. OneRow' BY SMTT(30) DEF OneRow, KnowsJournal, OnlyTrusted, TrustedPlaces
<1>3. KnowsJournal'
  BY SMTT(30) DEF KnowsJournal, OnlyTrusted, TrustedPlaces, Recovering, Holding, Settling
<1>4. NoHalfInstall' BY SMTT(30) DEF NoHalfInstall, WholeStaging
<1>5. WholeStaging'
  BY SMTT(30) DEF WholeStaging, OnlyTrusted, TrustedPlaces, Recovering, UnsignedApart, Owning,
                  Holding, Settling, Installing
<1>6. UnsignedApart'
  BY SMTT(30) DEF UnsignedApart, OnlyTrusted, TrustedPlaces, Recovering, Owning, Holding, Settling,
                  Installing
<1>7. RowOwnsFinal'
  BY SMTT(30) DEF RowOwnsFinal, KnowsJournal, OnlyTrusted, TrustedPlaces, FinalOf, Owning,
                  Installing
<1>8. RowsAbove'
  BY SMTT(30) DEF RowsAbove, Above, OneRow, KnowsJournal, OnlyTrusted, TrustedPlaces, Owning,
                  Installing
<1> QED BY <1>1, <1>2, <1>3, <1>4, <1>5, <1>6, <1>7, <1>8 DEF Single

\* Staging that ends is whole.
LEMMA EndStagingSingle ==
    ASSUME IInv, OneTrusted, OneTrusted', Single, NEW p \in Procs, EndStaging(p)
    PROVE  Single'
<1> USE Basics DEF EndStaging, Goto, Leave, trustVars, dbVars, diskVars, procVars,
       IInv, TypeOK, Identities, Single, OneTrusted, TrustedAt
<1>1. OnlyTrusted' BY SMTT(30) DEF OnlyTrusted, TrustedPlaces, Recovering, Settling
<1>2. OneRow' BY SMTT(30) DEF OneRow, KnowsJournal, OnlyTrusted, TrustedPlaces
<1>3. KnowsJournal'
  BY SMTT(30) DEF KnowsJournal, OnlyTrusted, TrustedPlaces, Recovering, Holding, Settling
<1>4. NoHalfInstall' BY SMTT(30) DEF NoHalfInstall, WholeStaging
<1>5. WholeStaging'
  BY SMTT(90) DEF WholeStaging, OnlyTrusted, TrustedPlaces, Recovering, UnsignedApart, Owning,
                  Holding, Settling, Installing
<1>6. UnsignedApart'
  BY SMTT(30) DEF UnsignedApart, OnlyTrusted, TrustedPlaces, Recovering, Owning, Holding, Settling,
                  Installing
<1>7. RowOwnsFinal'
  BY SMTT(30) DEF RowOwnsFinal, KnowsJournal, OnlyTrusted, TrustedPlaces, FinalOf, Owning,
                  Installing
<1>8. RowsAbove'
  BY SMTT(30) DEF RowsAbove, Above, OneRow, KnowsJournal, OnlyTrusted, TrustedPlaces, Owning,
                  Installing
<1> QED BY <1>1, <1>2, <1>3, <1>4, <1>5, <1>6, <1>7, <1>8 DEF Single

\* A failed write is discarded, never renamed.
LEMMA StagingFailsSingle ==
    ASSUME IInv, OneTrusted, OneTrusted', Single, NEW p \in Procs, StagingFails(p)
    PROVE  Single'
<1> USE Basics DEF StagingFails, Goto, Leave, trustVars, dbVars, diskVars, procVars,
       IInv, TypeOK, Identities, Single, OneTrusted, TrustedAt
<1>1. OnlyTrusted' BY SMTT(30) DEF OnlyTrusted, TrustedPlaces, Recovering, Settling
<1>2. OneRow' BY SMTT(30) DEF OneRow, KnowsJournal, OnlyTrusted, TrustedPlaces
<1>3. KnowsJournal'
  BY SMTT(30) DEF KnowsJournal, OnlyTrusted, TrustedPlaces, Recovering, Holding, Settling
<1>4. NoHalfInstall' BY SMTT(30) DEF NoHalfInstall, WholeStaging
<1>5. WholeStaging'
  BY SMTT(30) DEF WholeStaging, OnlyTrusted, TrustedPlaces, Recovering, UnsignedApart, Owning,
                  Holding, Settling, Installing
<1>6. UnsignedApart'
  <2> HIDE DEF Leave, Goto
  <2>1. ProcTypes BY DEF ProcTypes
  <2>2. CASE Leave(p) BY <2>1, <2>2, LeaveApart
  <2>3. CASE Goto(p, "discard") /\ pc[p] = "staging"
    <3>1. /\ "discard" \in Places
          /\ "discard" \in Holding => "staging" \in Holding
          /\ "discard" \in Owning => "staging" \in Owning
      BY DEF Places, Recovering, Holding, Owning, Settling, Installing
    <3> QED BY <2>1, <2>3, <3>1, GotoApart
  <2> QED BY <2>2, <2>3
<1>7. RowOwnsFinal'
  BY SMTT(30) DEF RowOwnsFinal, KnowsJournal, OnlyTrusted, TrustedPlaces, FinalOf, Owning,
                  Installing
<1>8. RowsAbove'
  BY SMTT(30) DEF RowsAbove, Above, OneRow, KnowsJournal, OnlyTrusted, TrustedPlaces, Owning,
                  Installing
<1> QED BY <1>1, <1>2, <1>3, <1>4, <1>5, <1>6, <1>7, <1>8 DEF Single

\* What is acceptable is above the mark.
LEMMA PrepareSingle ==
    ASSUME IInv, OneTrusted, OneTrusted', Single, NEW p \in Procs, Prepare(p)
    PROVE  Single'
<1> USE Basics DEF Prepare, Acceptable, Goto, Leave, trustVars, dbVars, diskVars, procVars,
       IInv, TypeOK, Identities, Single, OneTrusted, TrustedAt
<1>1. OnlyTrusted' BY SMTT(30) DEF OnlyTrusted, TrustedPlaces, Recovering, Settling
<1>2. OneRow' BY SMTT(30) DEF OneRow, KnowsJournal, OnlyTrusted, TrustedPlaces
<1>3. KnowsJournal'
  BY SMTT(30) DEF KnowsJournal, OnlyTrusted, TrustedPlaces, Recovering, Holding, Settling
<1>4. NoHalfInstall' BY SMTT(30) DEF NoHalfInstall, WholeStaging
<1>5. WholeStaging'
  BY SMTT(30) DEF WholeStaging, OnlyTrusted, TrustedPlaces, Recovering, UnsignedApart, Owning,
                  Holding, Settling, Installing
<1>6. UnsignedApart'
  BY SMTT(30) DEF UnsignedApart, OnlyTrusted, TrustedPlaces, Recovering, Owning, Holding, Settling,
                  Installing
<1>7. RowOwnsFinal'
  BY SMTT(30) DEF RowOwnsFinal, KnowsJournal, OnlyTrusted, TrustedPlaces, FinalOf, Owning,
                  Installing
<1>8. RowsAbove'
  BY SMTT(30) DEF RowsAbove, Above, OneRow, KnowsJournal, OnlyTrusted, TrustedPlaces, Owning,
                  Installing
<1> QED BY <1>1, <1>2, <1>3, <1>4, <1>5, <1>6, <1>7, <1>8 DEF Single

\* The new row is the only one, and still above the mark.
LEMMA InsertIntentSingle ==
    ASSUME IInv, OneTrusted, OneTrusted', Single, NEW p \in Procs, InsertIntent(p)
    PROVE  Single'
<1> USE Basics DEF InsertIntent, Goto, Leave, trustVars, dbVars, diskVars, procVars,
       IInv, TypeOK, Identities, Single, OneTrusted, TrustedAt
<1>1. OnlyTrusted' BY SMTT(30) DEF OnlyTrusted, TrustedPlaces, Recovering, Settling
<1>2. OneRow' BY SMTT(30) DEF OneRow, KnowsJournal, OnlyTrusted, TrustedPlaces
<1>3. KnowsJournal'
  BY SMTT(30) DEF KnowsJournal, OnlyTrusted, TrustedPlaces, Recovering, Holding, Settling
<1>4. NoHalfInstall' BY SMTT(30) DEF NoHalfInstall, WholeStaging
<1>5. WholeStaging'
  BY SMTT(30) DEF WholeStaging, OnlyTrusted, TrustedPlaces, Recovering, UnsignedApart, Owning,
                  Holding, Settling, Installing
<1>6. UnsignedApart'
  BY SMTT(30) DEF UnsignedApart, OnlyTrusted, TrustedPlaces, Recovering, Owning, Holding, Settling,
                  Installing
<1>7. RowOwnsFinal'
  BY SMTT(30) DEF RowOwnsFinal, KnowsJournal, OnlyTrusted, TrustedPlaces, FinalOf, Owning,
                  Installing
<1>8. RowsAbove'
  BY SMTT(30) DEF RowsAbove, Above, OneRow, KnowsJournal, OnlyTrusted, TrustedPlaces, Owning,
                  Installing
<1> QED BY <1>1, <1>2, <1>3, <1>4, <1>5, <1>6, <1>7, <1>8 DEF Single

\* The fields of what a rename leaves.
LEMMA Directory ==
    ASSUME NEW t, NEW w \in BOOLEAN, NEW s \in BOOLEAN, NEW dir,
           dir = [tx |-> t, whole |-> w, trusted |-> s]
    PROVE  dir.tx = t /\ (dir.whole <=> w) /\ (dir.trusted <=> s)
OBVIOUS

\* What is renamed is whole, and of the row that announced it.
LEMMA RenameSingle ==
    ASSUME IInv, OneTrusted, OneTrusted', Single, NEW p \in Procs, Rename(p)
    PROVE  Single'
<1> USE Basics DEF Rename, Vacant, Goto, Leave, trustVars, dbVars, diskVars, procVars,
       IInv, TypeOK, Identities, Single, OneTrusted, TrustedAt
<1>1. OnlyTrusted' BY SMTT(30) DEF OnlyTrusted, TrustedPlaces, Recovering, Settling
<1>2. OneRow' BY SMTT(30) DEF OneRow, KnowsJournal, OnlyTrusted, TrustedPlaces
<1>3. KnowsJournal'
  BY SMTT(30) DEF KnowsJournal, OnlyTrusted, TrustedPlaces, Recovering, Holding, Settling
<1>a. \/ UNCHANGED final
      \/ /\ final[VersionOf[target[p]]] = None
         /\ final' = [final EXCEPT ![VersionOf[target[p]]] =
                        [tx |-> tx[p], whole |-> staging[tx[p]] = "full",
                         trusted |-> mode[p] = "trusted"]]
         /\ staging[tx[p]] # "none"
  OBVIOUS
<1>b. \A v \in Versions : \/ final'[v] = final[v]
                          \/ /\ v = VersionOf[target[p]] /\ final[v] = None
                             /\ final'[v].tx = tx[p] /\ (final'[v].whole <=> staging[tx[p]] = "full")
                             /\ (final'[v].trusted <=> mode[p] = "trusted")
                             /\ staging[tx[p]] # "none"
  <2> SUFFICES ASSUME NEW v \in Versions, v = VersionOf[target[p]], final'[v] # final[v]
               PROVE  /\ final[v] = None
                      /\ final'[v].tx = tx[p] /\ (final'[v].whole <=> staging[tx[p]] = "full")
                      /\ (final'[v].trusted <=> mode[p] = "trusted")
                      /\ staging[tx[p]] # "none"
    BY <1>a
  <2>1. /\ final[v] = None /\ staging[tx[p]] # "none"
        /\ final'[v] = [tx |-> tx[p], whole |-> staging[tx[p]] = "full",
                        trusted |-> mode[p] = "trusted"]
    BY ONLY <1>a, TypeOK, v \in Versions, v = VersionOf[target[p]], final'[v] # final[v] DEF TypeOK
  <2> DEFINE w == staging[tx[p]] = "full"
             u == mode[p] = "trusted"
             t == tx[p]
             dir == final'[v]
  <2>2. w \in BOOLEAN /\ u \in BOOLEAN /\ dir = [tx |-> t, whole |-> w, trusted |-> u]
    BY <2>1
  <2>3. dir.tx = t /\ (dir.whole <=> w) /\ (dir.trusted <=> u)
    <3> HIDE DEF w, u, t, dir
    <3> QED BY ONLY <2>2, Directory
  <2> QED BY ONLY <2>1, <2>3
<1>c. /\ pc[p] = "rename" /\ tx[p] \in Tx /\ target[p] \in Packages
      /\ content[tx[p]] = target[p] /\ UNCHANGED <<journal, content, highest>>
  BY DEF Owning, Installing
<1>4. NoHalfInstall'
  <2>1. staging[tx[p]] # "none" => staging[tx[p]] = "full"
    BY <1>c DEF WholeStaging
  <2> QED BY ONLY <1>b, <2>1, NoHalfInstall DEF NoHalfInstall
<1>5. WholeStaging'
  BY SMTT(90) DEF WholeStaging, OnlyTrusted, TrustedPlaces, Recovering, UnsignedApart, Owning,
                  Holding, Settling, Installing
<1>6. UnsignedApart'
  BY SMTT(90) DEF UnsignedApart, OnlyTrusted, TrustedPlaces, Recovering, Owning, Holding, Settling,
                  Installing
<1>7. RowOwnsFinal'
  <2>1. \A q \in Procs : q # p => pc'[q] = pc[q] /\ mode'[q] = mode[q] /\ target'[q] = target[q]
    OBVIOUS
  <2>2. TrustedAt(p) => journal \subseteq {tx[p]}
    BY <1>c DEF KnowsJournal
  <2>3. (\A t \in journal : FinalOf(t) # None /\ FinalOf(t).trusted => FinalOf(t).tx = t)'
    <3> SUFFICES ASSUME NEW t \in journal, FinalOf(t)' # None, FinalOf(t)'.trusted
                 PROVE  FinalOf(t)'.tx = t
      BY <1>c
    <3> DEFINE v == VersionOf[content[t]]
    <3>1. v \in Versions /\ FinalOf(t) = final[v] /\ FinalOf(t)' = final'[v]
      BY <1>c DEF FinalOf
    <3> HIDE DEF v
    <3> QED BY <1>b, <1>c, <2>2, <3>1 DEF RowOwnsFinal
  <2>4. ASSUME NEW q \in Procs, TrustedAt(q)',
               pc'[q] \in {"stage", "staging", "prepare", "insert", "rename"},
               final'[VersionOf[target'[q]]] # None
        PROVE  ~final'[VersionOf[target'[q]]].trusted
    <3>1. q # p BY <2>4
    <3>2. TrustedAt(q) /\ mode[p] # "trusted" BY <1>c, <2>1, <2>4, <3>1
    <3>3. VersionOf[target[q]] \in Versions /\ target'[q] = target[q] BY <2>1, <3>1, <3>2
    <3> DEFINE v == VersionOf[target[q]]
    <3>4. final[v] # None => ~final[v].trusted BY <2>1, <2>4, <3>1, <3>2 DEF RowOwnsFinal
    <3>5. v \in Versions /\ final'[v] # None BY <2>4, <3>3
    <3> HIDE DEF v
    <3>6. ~final'[v].trusted BY <1>b, <3>2, <3>4, <3>5
    <3> QED BY <3>3, <3>6 DEF v
  <2> QED BY <2>3, <2>4 DEF RowOwnsFinal
<1>8. RowsAbove'
  BY SMTT(30) DEF RowsAbove, Above, OneRow, KnowsJournal, OnlyTrusted, TrustedPlaces, Owning,
                  Installing
<1> QED BY <1>1, <1>2, <1>3, <1>4, <1>5, <1>6, <1>7, <1>8 DEF Single

\* Nobody else's staging goes.
LEMMA DiscardSingle ==
    ASSUME IInv, OneTrusted, OneTrusted', Single, NEW p \in Procs, Discard(p)
    PROVE  Single'
<1> USE Basics DEF Discard, Goto, Leave, trustVars, dbVars, diskVars, procVars,
       IInv, TypeOK, Identities, Single, OneTrusted, TrustedAt
<1>1. OnlyTrusted' BY SMTT(30) DEF OnlyTrusted, TrustedPlaces, Recovering, Settling
<1>2. OneRow' BY SMTT(30) DEF OneRow, KnowsJournal, OnlyTrusted, TrustedPlaces
<1>3. KnowsJournal'
  BY SMTT(30) DEF KnowsJournal, OnlyTrusted, TrustedPlaces, Recovering, Holding, Settling
<1>4. NoHalfInstall' BY SMTT(30) DEF NoHalfInstall, WholeStaging
<1>5. WholeStaging'
  BY SMTT(30) DEF WholeStaging, OnlyTrusted, TrustedPlaces, Recovering, UnsignedApart, Owning,
                  Holding, Settling, Installing
<1>6. UnsignedApart'
  <2> HIDE DEF Leave, Goto
  <2>1. ProcTypes BY DEF ProcTypes
  <2>2. CASE Leave(p) BY <2>1, <2>2, LeaveApart
  <2>3. CASE Goto(p, "drop") /\ pc[p] = "undo"
    <3>1. /\ "drop" \in Places
          /\ "drop" \in Holding => "undo" \in Holding
          /\ "drop" \in Owning => "undo" \in Owning
      BY DEF Places, Recovering, Holding, Owning, Settling, Installing
    <3> QED BY <2>1, <2>3, <3>1, GotoApart
  <2> QED BY <2>2, <2>3
<1>7. RowOwnsFinal'
  BY SMTT(30) DEF RowOwnsFinal, KnowsJournal, OnlyTrusted, TrustedPlaces, FinalOf, Owning,
                  Installing
<1>8. RowsAbove'
  BY SMTT(30) DEF RowsAbove, Above, OneRow, KnowsJournal, OnlyTrusted, TrustedPlaces, Owning,
                  Installing
<1> QED BY <1>1, <1>2, <1>3, <1>4, <1>5, <1>6, <1>7, <1>8 DEF Single

\* The only row goes.
LEMMA DropIntentSingle ==
    ASSUME IInv, OneTrusted, OneTrusted', Single, NEW p \in Procs, DropIntent(p)
    PROVE  Single'
<1> USE Basics DEF DropIntent, Goto, Leave, trustVars, dbVars, diskVars, procVars,
       IInv, TypeOK, Identities, Single, OneTrusted, TrustedAt
<1>1. OnlyTrusted' BY SMTT(30) DEF OnlyTrusted, TrustedPlaces, Recovering, Settling
<1>2. OneRow' BY SMTT(30) DEF OneRow, KnowsJournal, OnlyTrusted, TrustedPlaces
<1>3. KnowsJournal'
  BY SMTT(30) DEF KnowsJournal, OnlyTrusted, TrustedPlaces, Recovering, Holding, Settling
<1>4. NoHalfInstall' BY SMTT(30) DEF NoHalfInstall, WholeStaging
<1>5. WholeStaging'
  BY SMTT(30) DEF WholeStaging, OnlyTrusted, TrustedPlaces, Recovering, UnsignedApart, Owning,
                  Holding, Settling, Installing
<1>6. UnsignedApart'
  BY SMTT(30) DEF UnsignedApart, OnlyTrusted, TrustedPlaces, Recovering, Owning, Holding, Settling,
                  Installing
<1>7. RowOwnsFinal'
  BY SMTT(30) DEF RowOwnsFinal, KnowsJournal, OnlyTrusted, TrustedPlaces, FinalOf, Owning,
                  Installing
<1>8. RowsAbove'
  BY SMTT(30) DEF RowsAbove, Above, OneRow, KnowsJournal, OnlyTrusted, TrustedPlaces, Owning,
                  Installing
<1> QED BY <1>1, <1>2, <1>3, <1>4, <1>5, <1>6, <1>7, <1>8 DEF Single

\* A dead command leaves its rows behind, one at most.
LEMMA CrashSingle ==
    ASSUME IInv, OneTrusted, OneTrusted', Single, NEW p \in Procs, Crash(p)
    PROVE  Single'
<1> USE Basics DEF Crash, Goto, Leave, trustVars, dbVars, diskVars, procVars,
       IInv, TypeOK, Identities, Single, OneTrusted, TrustedAt
<1>1. OnlyTrusted' BY SMTT(30) DEF OnlyTrusted, TrustedPlaces, Recovering, Settling
<1>2. OneRow' BY SMTT(30) DEF OneRow, KnowsJournal, OnlyTrusted, TrustedPlaces
<1>3. KnowsJournal'
  BY SMTT(30) DEF KnowsJournal, OnlyTrusted, TrustedPlaces, Recovering, Holding, Settling
<1>4. NoHalfInstall' BY SMTT(30) DEF NoHalfInstall, WholeStaging
<1>5. WholeStaging'
  BY SMTT(30) DEF WholeStaging, OnlyTrusted, TrustedPlaces, Recovering, UnsignedApart, Owning,
                  Holding, Settling, Installing
<1>6. UnsignedApart'
  BY SMTT(30) DEF UnsignedApart, OnlyTrusted, TrustedPlaces, Recovering, Owning, Holding, Settling,
                  Installing
<1>7. RowOwnsFinal'
  BY SMTT(30) DEF RowOwnsFinal, KnowsJournal, OnlyTrusted, TrustedPlaces, FinalOf, Owning,
                  Installing
<1>8. RowsAbove'
  BY SMTT(30) DEF RowsAbove, Above, OneRow, KnowsJournal, OnlyTrusted, TrustedPlaces, Owning,
                  Installing
<1> QED BY <1>1, <1>2, <1>3, <1>4, <1>5, <1>6, <1>7, <1>8 DEF Single

\* Trust commands touch neither journal, disk nor process.
LEMMA TrustSingle ==
    ASSUME Single, RevokePublisher \/ \E state \in {"active", "revoked"} : SetKey(state)
    PROVE  Single'
BY DEF RevokePublisher, SetKey, dbVars, diskVars, procVars, Single, OnlyTrusted, OneRow,
       KnowsJournal, NoHalfInstall, WholeStaging, UnsignedApart, RowOwnsFinal, RowsAbove,
       TrustedAt, FinalOf, Above

\* While trusted commands run one at a time, what a step does to the journal is
\* what the running command knows of it.
LEMMA SingleStep ==
    ASSUME IInv, Single, OneTrusted, OneTrusted', [Next]_vars
    PROVE  Single'
<1>1. CASE UNCHANGED vars
  BY <1>1 DEF vars, Single, OnlyTrusted, OneRow, KnowsJournal, NoHalfInstall, WholeStaging,
              UnsignedApart, RowOwnsFinal, RowsAbove, TrustedAt, FinalOf, Above
<1>2. ASSUME NEW p \in Procs, NEW k \in Packages, NEW m \in Modes, Start(p, k, m) PROVE Single'
  BY <1>2, StartSingle
<1>3. ASSUME NEW p \in Procs, Recovery(p) PROVE Single'
  BY <1>3, LookSingle, RecoveredSingle, ClearFilesSingle, ClearDirectorySingle, AbortSingle,
     InspectSingle DEF Recovery
<1>4. ASSUME NEW p \in Procs, Settle(p) PROVE Single'
  BY <1>4, FinalizeSingle, AcceptPackageSingle, DeleteIntentSingle DEF Settle
<1>5. ASSUME NEW p \in Procs, Install(p) PROVE Single'
  BY <1>5, CheckSingle, BeginStagingSingle, EndStagingSingle, StagingFailsSingle, PrepareSingle,
     InsertIntentSingle, RenameSingle, DiscardSingle, DropIntentSingle DEF Install
<1>6. ASSUME NEW p \in Procs, Crash(p) PROVE Single'
  BY <1>6, CrashSingle
<1>7. ASSUME RevokePublisher \/ \E state \in {"active", "revoked"} : SetKey(state) PROVE Single'
  BY <1>7, TrustSingle
<1> QED BY <1>1, <1>2, <1>3, <1>4, <1>5, <1>6, <1>7 DEF Next

\* A row that nobody works on is one the next recovery can settle: its directory,
\* if there is one, is its own, is whole, and is above the mark.
LEMMA SettleableRows ==
    ASSUME IInv, Single
    PROVE  InterruptedIsRecoverable
<1> SUFFICES ASSUME NEW t \in journal, ~Displaced(t)
             PROVE  /\ Branch(t) # "idle"
                    /\ Branch(t) = "inspect" =>
                          /\ FinalOf(t).whole
                          /\ content[FinalOf(t).tx] = content[t]
                          /\ publisher = "active" => Acceptable(content[t])
  BY DEF InterruptedIsRecoverable
<1>1. t \in Tx /\ VersionOf[content[t]] \in Versions
  BY Basics DEF IInv, TypeOK, Identities
<1>2. FinalOf(t) # None => FinalOf(t).trusted /\ FinalOf(t).tx = t /\ FinalOf(t).whole
  BY <1>1 DEF Displaced, Single, RowOwnsFinal, NoHalfInstall, FinalOf
<1>3. FinalOf(t) # None => staging[t] = "none"
  BY <1>1, <1>2 DEF IInv, Placed, FinalOf
<1>4. Branch(t) # "idle"
  BY <1>3 DEF Branch
<1>5. Branch(t) = "inspect" => FinalOf(t) # None
  BY DEF Branch
<1>6. publisher = "active" => Acceptable(content[t])
  BY DEF Single, RowsAbove, Above, Acceptable
<1> QED BY <1>2, <1>4, <1>5, <1>6

\* What a killed installer leaves, as long as trusted installs run one at a time:
\* no version is half installed, and every interrupted transaction is one that
\* recover_trusted_installs settles, whatever unsigned installs run meanwhile.
THEOREM KilledInstallsRecover == Spec /\ []OneTrusted => []DirectoriesConsistent
<1>1. Init => Single
  BY DEF Init, Single, OnlyTrusted, TrustedPlaces, Recovering, Settling, OneRow, KnowsJournal,
         NoHalfInstall, WholeStaging, UnsignedApart, RowOwnsFinal, RowsAbove, TrustedAt,
         Owning, Installing
<1>2. IInv /\ Single /\ OneTrusted /\ OneTrusted' /\ [Next]_vars => Single'
  BY SingleStep
<1>3. IInv /\ Single => DirectoriesConsistent
  BY SettleableRows DEF DirectoriesConsistent, Single
<1> QED BY <1>1, <1>2, <1>3, Inductive, PTL DEF Spec

\* The guard of the theorem is met by construction where only one process runs.
COROLLARY LoneInstallerRecovers ==
    ASSUME \A p, q \in Procs : p = q
    PROVE  Spec => []DirectoriesConsistent
<1>1. OneTrusted BY DEF OneTrusted
<1> QED BY <1>1, KilledInstallsRecover, PTL
=============================================================================
