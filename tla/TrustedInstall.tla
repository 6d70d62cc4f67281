---------------------------- MODULE TrustedInstall ----------------------------
(***************************************************************************)
(* Installing packages of one plugin of one publisher: `floatile-cli       *)
(* install`, with and without --require-trusted (floatile-cli/install.rs), *)
(* the trust database it journals in (floatile-store/trust.rs) and the     *)
(* plugin directory.  Several command-line processes may run at once, each *)
(* may die between any two steps, and nothing locks the store as a whole.  *)
(* SQL statements, transactions and rename(2) are atomic; directory        *)
(* removal and staging are not.                                            *)
(***************************************************************************)
EXTENDS Naturals, FiniteSets

CONSTANTS
    Procs,      \* command-line processes
    Packages,   \* package contents; a digest identifies its content
    VersionOf,  \* semantic version of a package
    Modes,      \* which install commands run: "trusted", "unsigned"
    MaxTx,      \* bound on transaction ids (nonce())
    MaxCrashes, \* bound on crashes
    None        \* no package

ASSUME PackagesAssumption ==
    /\ VersionOf \in [Packages -> Nat]
    /\ None \notin Packages
    /\ None \notin [tx : Nat, whole : BOOLEAN, trusted : BOOLEAN]

ASSUME ModesAssumption == Modes \subseteq {"trusted", "unsigned"}

ASSUME BoundsAssumption == MaxTx \in Nat \ {0} /\ MaxCrashes \in Nat

Tx       == 1..MaxTx
Versions == {VersionOf[k] : k \in Packages}

VARIABLES
    publisher,  \* publisher_trust.state: "active" or "revoked"
    key,        \* publisher_keys.state of the signing key
    highest,    \* accepted_packages: the package at the high-water mark, or None
    journal,    \* transactions with a row in pending_installations
    content,    \* the package a transaction installs (row, staging and final)
    staging,    \* .staging-<tx>: "none", "partial" or "full"
    final,      \* <id>/<version>: None, or what was renamed there
    pc,         \* where each process is
    mode,       \* which command it runs
    target,     \* the package it installs
    todo,       \* rows of its recovery snapshot it has yet to reconcile
    tx,         \* its own transaction, 0 before it has one
    row,        \* the transaction it is reconciling or finalizing
    nextTx,
    crashes,
    accepted    \* history: transactions whose acceptance was committed

vars == <<publisher, key, highest, journal, content, staging, final, pc, mode, target,
          todo, tx, row, nextTx, crashes, accepted>>

trustVars == <<publisher, key>>
diskVars  == <<content, staging, final, nextTx>>
dbVars    == <<highest, journal, accepted>>
procVars  == <<pc, mode, target, todo, tx, row>>

Recovering == {"recover", "clear", "clearing", "abort", "inspect"}
Installing == {"check", "stage", "staging", "prepare", "insert", "rename", "discard",
               "undo", "drop"}
Settling   == {"finalize", "accept", "delete"}
Places     == {"idle"} \cup Recovering \cup Installing \cup Settling

Installed == [tx : Tx, whole : BOOLEAN, trusted : BOOLEAN]

TypeOK ==
    /\ publisher \in {"active", "revoked"}
    /\ key \in {"active", "revoked"}
    /\ highest \in Packages \cup {None}
    /\ journal \subseteq Tx
    /\ content \in [Tx -> Packages \cup {None}]
    /\ staging \in [Tx -> {"none", "partial", "full"}]
    /\ final \in [Versions -> Installed \cup {None}]
    /\ pc \in [Procs -> Places]
    /\ mode \in [Procs -> {"trusted", "unsigned"}]
    /\ target \in [Procs -> Packages \cup {None}]
    /\ todo \in [Procs -> SUBSET Tx]
    /\ tx \in [Procs -> Tx \cup {0}]
    /\ row \in [Procs -> Tx \cup {0}]
    /\ nextTx \in 1..(MaxTx + 1)
    /\ crashes \in 0..MaxCrashes
    /\ accepted \subseteq Tx

Init ==
    /\ publisher = "active"
    /\ key = "active"
    /\ highest = None
    /\ journal = {}
    /\ content = [t \in Tx |-> None]
    /\ staging = [t \in Tx |-> "none"]
    /\ final = [v \in Versions |-> None]
    /\ pc = [p \in Procs |-> "idle"]
    /\ mode = [p \in Procs |-> "trusted"]
    /\ target = [p \in Procs |-> None]
    /\ todo = [p \in Procs |-> {}]
    /\ tx = [p \in Procs |-> 0]
    /\ row = [p \in Procs |-> 0]
    /\ nextTx = 1
    /\ crashes = 0
    /\ accepted = {}
-----------------------------------------------------------------------------
\* What a process forgets when it returns or dies: everything but the disk.
Leave(p) ==
    /\ pc' = [pc EXCEPT ![p] = "idle"]
    /\ mode' = [mode EXCEPT ![p] = "trusted"]
    /\ target' = [target EXCEPT ![p] = None]
    /\ todo' = [todo EXCEPT ![p] = {}]
    /\ tx' = [tx EXCEPT ![p] = 0]
    /\ row' = [row EXCEPT ![p] = 0]

Goto(p, place) ==
    /\ pc' = [pc EXCEPT ![p] = place]
    /\ UNCHANGED <<mode, target, todo, tx, row>>

Crash(p) ==
    /\ pc[p] # "idle"
    /\ crashes < MaxCrashes
    /\ crashes' = crashes + 1
    /\ Leave(p)
    /\ UNCHANGED <<trustVars, dbVars, diskVars>>

\* `trust add-key`, `revoke-key` and `revoke-publisher`; no command reactivates
\* a revoked publisher.
SetKey(state) ==
    /\ key # state
    /\ key' = state
    /\ UNCHANGED <<publisher, dbVars, diskVars, procVars, crashes>>

RevokePublisher ==
    /\ publisher = "active"
    /\ publisher' = "revoked"
    /\ UNCHANGED <<key, dbVars, diskVars, procVars, crashes>>

\* verify_signature_envelope: an active publisher and an active signing key.
SignatureTrusted == publisher = "active" /\ key = "active"

\* Mutant of Acceptable: the anti-rollback comparison is dropped.
AcceptsOlder(k) == publisher = "active"

\* The policy of accept_package and check_candidate: not below the high-water
\* mark, and the same version only with the same digest.
Acceptable(k) ==
    /\ publisher = "active"
    /\ highest # None => \/ VersionOf[k] > VersionOf[highest]
                         \/ k = highest

\* cmd_install: a trusted install reconciles the journal first.
Start(p, k, m) ==
    /\ pc[p] = "idle"
    /\ m \in Modes
    /\ pc' = [pc EXCEPT ![p] = IF m = "trusted" THEN "recover" ELSE "check"]
    /\ mode' = [mode EXCEPT ![p] = m]
    /\ target' = [target EXCEPT ![p] = k]
    /\ todo' = [todo EXCEPT ![p] = IF m = "trusted" THEN journal ELSE {}]
    /\ UNCHANGED <<trustVars, dbVars, diskVars, tx, row, crashes>>
-----------------------------------------------------------------------------
(***************************************************************************)
(* recover_trusted_installs, over the rows read at the start.  Any error   *)
(* ends the whole recovery, and with it the command.                       *)
(***************************************************************************)
FinalOf(t) == final[VersionOf[content[t]]]

\* Mutant of Branch: a finished rename is aborted like an unfinished one.
BranchAborts(t) ==
    CASE staging[t] # "none" /\ FinalOf(t) # None -> "idle"
      [] staging[t] # "none" /\ FinalOf(t) = None -> "clear"
      [] OTHER -> "abort"

\* Where a row goes, from the existence of its staging and final directories.
Branch(t) ==
    CASE staging[t] # "none" /\ FinalOf(t) # None -> "idle"
      [] staging[t] # "none" /\ FinalOf(t) = None -> "clear"
      [] staging[t] = "none" /\ FinalOf(t) = None -> "abort"
      [] OTHER -> "inspect"

Look(p) ==
    /\ pc[p] = "recover"
    /\ \E t \in todo[p] :
         IF Branch(t) = "idle"
            THEN Leave(p)
            ELSE /\ pc' = [pc EXCEPT ![p] = Branch(t)]
                 /\ row' = [row EXCEPT ![p] = t]
                 /\ todo' = [todo EXCEPT ![p] = @ \ {t}]
                 /\ UNCHANGED <<mode, target, tx>>
    /\ UNCHANGED <<trustVars, dbVars, diskVars, crashes>>

Recovered(p) ==
    /\ pc[p] = "recover"
    /\ todo[p] = {}
    /\ Goto(p, "check")
    /\ UNCHANGED <<trustVars, dbVars, diskVars, crashes>>

\* remove_dir_all deletes the files of the staging directory ...
ClearFiles(p) ==
    /\ pc[p] = "clear"
    /\ IF staging[row[p]] = "none"
          THEN Leave(p) /\ UNCHANGED staging
          ELSE /\ staging' = [staging EXCEPT ![row[p]] = "partial"]
               /\ Goto(p, "clearing")
    /\ UNCHANGED <<trustVars, dbVars, content, final, nextTx, crashes>>

\* ... and then the directory, unless its owner has renamed it meanwhile.
ClearDirectory(p) ==
    /\ pc[p] = "clearing"
    /\ IF staging[row[p]] = "none" THEN Leave(p) ELSE Goto(p, "abort")
    /\ staging' = [staging EXCEPT ![row[p]] = "none"]
    /\ UNCHANGED <<trustVars, dbVars, content, final, nextTx, crashes>>

\* Mutant of Abort: the row stays.
AbortKeepsRow(p) ==
    /\ pc[p] = "abort"
    /\ Goto(p, "recover")
    /\ UNCHANGED <<trustVars, dbVars, diskVars, crashes>>

\* abort_install of the reconciled row.
Abort(p) ==
    /\ pc[p] = "abort"
    /\ journal' = journal \ {row[p]}
    /\ Goto(p, "recover")
    /\ UNCHANGED <<trustVars, highest, accepted, diskVars, crashes>>

\* load_exact, the digests of the journal, and the signature once more.
Inspect(p) ==
    /\ pc[p] = "inspect"
    /\ IF /\ FinalOf(row[p]).whole
          /\ content[FinalOf(row[p]).tx] = content[row[p]]
          /\ SignatureTrusted
          THEN Goto(p, "finalize")
          ELSE Leave(p)
    /\ UNCHANGED <<trustVars, dbVars, diskVars, crashes>>
-----------------------------------------------------------------------------
(***************************************************************************)
(* finalize_install: the row is read, the acceptance is a transaction of   *)
(* its own, the row is deleted after it.                                   *)
(***************************************************************************)
Finalize(p) ==
    /\ pc[p] = "finalize"
    /\ IF row[p] \in journal THEN Goto(p, "accept") ELSE Leave(p)
    /\ UNCHANGED <<trustVars, dbVars, diskVars, crashes>>

AcceptPackage(p) ==
    /\ pc[p] = "accept"
    /\ IF Acceptable(content[row[p]])
          THEN /\ highest' = content[row[p]]
               /\ accepted' = accepted \cup {row[p]}
               /\ Goto(p, "delete")
          ELSE Leave(p) /\ UNCHANGED <<highest, accepted>>
    /\ UNCHANGED <<trustVars, journal, diskVars, crashes>>

DeleteIntent(p) ==
    /\ pc[p] = "delete"
    /\ journal' = journal \ {row[p]}
    /\ IF row[p] = tx[p] THEN Leave(p) ELSE Goto(p, "recover")
    /\ UNCHANGED <<trustVars, highest, accepted, diskVars, crashes>>
-----------------------------------------------------------------------------
(***************************************************************************)
(* install_trusted_package and install_validated.                          *)
(***************************************************************************)
Vacant(p) == final[VersionOf[target[p]]] = None

\* load_highest: the directory of the highest installed version.
Current == {v \in Versions : final[v] # None
                               /\ \A w \in Versions : final[w] # None => w <= v}

\* The signature, the final directory, the integrity of the current version, and
\* an unconfirmed permission expansion over it.
Check(p) ==
    /\ pc[p] = "check"
    /\ \/ /\ Vacant(p)
          /\ mode[p] = "trusted" => SignatureTrusted /\ \A v \in Current : final[v].whole
          /\ Goto(p, "stage")
       \/ /\ \/ ~Vacant(p)
             \/ mode[p] = "trusted" /\ ~SignatureTrusted
             \/ /\ mode[p] = "trusted"
                /\ \E v \in Current : ~final[v].whole \/ v < VersionOf[target[p]]
          /\ Leave(p)
    /\ UNCHANGED <<trustVars, dbVars, diskVars, crashes>>

\* write_staging creates the directory and writes file after file.
BeginStaging(p) ==
    /\ pc[p] = "stage"
    /\ nextTx <= MaxTx
    /\ nextTx' = nextTx + 1
    /\ tx' = [tx EXCEPT ![p] = nextTx]
    /\ content' = [content EXCEPT ![nextTx] = target[p]]
    /\ staging' = [staging EXCEPT ![nextTx] = "partial"]
    /\ pc' = [pc EXCEPT ![p] = "staging"]
    /\ UNCHANGED <<trustVars, dbVars, final, mode, target, todo, row, crashes>>

EndStaging(p) ==
    /\ pc[p] = "staging"
    /\ staging' = [staging EXCEPT ![tx[p]] = "full"]
    /\ Goto(p, IF mode[p] = "trusted" THEN "prepare" ELSE "rename")
    /\ UNCHANGED <<trustVars, dbVars, content, final, nextTx, crashes>>

\* Mutant of StagingFails: a failed write goes unnoticed.
StagingIgnoresError(p) ==
    /\ pc[p] = "staging"
    /\ Goto(p, "prepare")
    /\ UNCHANGED <<trustVars, dbVars, diskVars, crashes>>

\* The parent directory cannot be created; a write fails.
StagingFails(p) ==
    /\ \/ pc[p] = "stage" /\ Leave(p)
       \/ pc[p] = "staging" /\ Goto(p, "discard")
    /\ UNCHANGED <<trustVars, dbVars, diskVars, crashes>>

\* check_candidate of prepare_install.
Prepare(p) ==
    /\ pc[p] = "prepare"
    /\ Goto(p, IF Acceptable(target[p]) THEN "insert" ELSE "discard")
    /\ UNCHANGED <<trustVars, dbVars, diskVars, crashes>>

\* INSERT of the intent, or a busy database.
InsertIntent(p) ==
    /\ pc[p] = "insert"
    /\ \/ journal' = journal \cup {tx[p]} /\ Goto(p, "rename")
       \/ UNCHANGED journal /\ Goto(p, "discard")
    /\ UNCHANGED <<trustVars, highest, accepted, diskVars, crashes>>

\* rename(staging, final) fails if the target exists, if staging was cleared,
\* or by an error of the file system.
Rename(p) ==
    /\ pc[p] = "rename"
    /\ \/ /\ Vacant(p) /\ staging[tx[p]] # "none"
          /\ final' = [final EXCEPT ![VersionOf[target[p]]] =
                         [tx |-> tx[p], whole |-> staging[tx[p]] = "full",
                          trusted |-> mode[p] = "trusted"]]
          /\ staging' = [staging EXCEPT ![tx[p]] = "none"]
          /\ IF mode[p] = "trusted"
                THEN /\ pc' = [pc EXCEPT ![p] = "finalize"]
                     /\ row' = [row EXCEPT ![p] = tx[p]]
                     /\ UNCHANGED <<mode, target, todo, tx>>
                ELSE Leave(p)
       \/ /\ Goto(p, IF mode[p] = "trusted" THEN "undo" ELSE "discard")
          /\ UNCHANGED <<final, staging>>
    /\ UNCHANGED <<trustVars, dbVars, content, nextTx, crashes>>

\* Removing the own staging directory; after a failed rename the intent follows.
Discard(p) ==
    /\ pc[p] \in {"discard", "undo"}
    /\ staging' = [staging EXCEPT ![tx[p]] = "none"]
    /\ IF pc[p] = "undo" THEN Goto(p, "drop") ELSE Leave(p)
    /\ UNCHANGED <<trustVars, dbVars, content, final, nextTx, crashes>>

DropIntent(p) ==
    /\ pc[p] = "drop"
    /\ journal' = journal \ {tx[p]}
    /\ Leave(p)
    /\ UNCHANGED <<trustVars, highest, accepted, diskVars, crashes>>
-----------------------------------------------------------------------------
Recovery(p) ==
    \/ Look(p) \/ Recovered(p) \/ ClearFiles(p) \/ ClearDirectory(p) \/ Abort(p) \/ Inspect(p)

Settle(p) == Finalize(p) \/ AcceptPackage(p) \/ DeleteIntent(p)

Install(p) ==
    \/ Check(p) \/ BeginStaging(p) \/ EndStaging(p) \/ StagingFails(p) \/ Prepare(p)
    \/ InsertIntent(p) \/ Rename(p) \/ Discard(p) \/ DropIntent(p)

Next ==
    \/ \E p \in Procs : \/ \E k \in Packages, m \in Modes : Start(p, k, m)
                        \/ Recovery(p) \/ Settle(p) \/ Install(p) \/ Crash(p)
    \/ \E state \in {"active", "revoked"} : SetKey(state)
    \/ RevokePublisher

Spec == Init /\ [][Next]_vars

(***************************************************************************)
(* A process that runs keeps running, and a trusted package is installed   *)
(* again and again, whatever else is.                                      *)
(***************************************************************************)
FairSpec ==
    /\ Spec
    /\ \A p \in Procs : WF_vars(Recovery(p) \/ Settle(p) \/ Install(p))
    /\ \A p \in Procs : SF_vars(\E k \in Packages : Start(p, k, "trusted"))
-----------------------------------------------------------------------------
(***************************************************************************)
(* Safety.                                                                 *)
(***************************************************************************)
\* No process works on the transaction any more.
Orphaned(t) == \A p \in Procs : tx[p] # t /\ row[p] # t

\* The high-water mark points at a package that is really installed, by a
\* trusted install or under the same content: acceptance never runs ahead of
\* the rename, in the installer or in recovery.
AcceptedIsInstalled ==
    highest # None =>
        LET dir == final[VersionOf[highest]] IN
        dir # None /\ content[dir.tx] = highest

\* A trusted directory is covered by the high-water mark or by an intent that
\* will raise it: recovery never forgets an installed version.
TrustedIsRecorded ==
    \A v \in Versions :
        final[v] # None /\ final[v].trusted =>
            \/ highest # None /\ VersionOf[highest] >= v
            \/ \E t \in journal : content[t] = content[final[v].tx]

\* The high-water mark only moves to a higher version (anti-rollback), whoever
\* finalizes which intent in which order.
WatermarkRises ==
    [][highest' # highest =>
          highest = None \/ VersionOf[highest'] > VersionOf[highest]]_vars

\* What install.rs says of rename: there is never a half-installed directory.
NoHalfInstall == \A v \in Versions : final[v] # None => final[v].whole

\* An unsigned install, which looks at no journal, has placed the version that
\* an interrupted transaction was about to place: recovery has no rule for it.
Displaced(t) == FinalOf(t) # None /\ ~FinalOf(t).trusted

\* What the SDK guide says of the journal: the next trusted install reconciles
\* an interrupted transaction.  Its recovery never meets a state it gives up on
\* while trust is unchanged and no unsigned install took the place.
InterruptedIsRecoverable ==
    \A t \in journal : Orphaned(t) /\ ~Displaced(t) =>
        /\ Branch(t) # "idle"
        /\ Branch(t) = "inspect" =>
              /\ FinalOf(t).whole
              /\ content[FinalOf(t).tx] = content[t]
              /\ publisher = "active" => Acceptable(content[t])

\* Whatever a killed installer leaves, no version is half installed and no
\* interrupted transaction is beyond recovery (install.rs:322-400).
DirectoriesConsistent == NoHalfInstall /\ InterruptedIsRecoverable

\* The database and the directories never tell different stories: the mark is
\* installed, and what is installed as trusted is accepted or journalled
\* (install.rs:255-300, trust.rs:424-446).
MarkIsSound == AcceptedIsInstalled /\ TrustedIsRecorded

(***************************************************************************)
(* Liveness: while publisher and key stay trusted and no unsigned install  *)
(* takes a place, installing again empties the journal, whatever crashed   *)
(* before.                                                                 *)
(***************************************************************************)
JournalDrains ==
    [](SignatureTrusted /\ \A t \in journal : ~Displaced(t)) => []<>(journal = {})
=============================================================================
