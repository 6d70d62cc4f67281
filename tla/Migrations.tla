------------------------------ MODULE Migrations ------------------------------
(***************************************************************************)
(* Opening the database (floatile-store/lib.rs: open, migrate).  A process *)
(* reads user_version once and then runs, each in a transaction of its     *)
(* own, the migrations above what it read.  All but those that alter a     *)
(* table may run again.  A process may die between two of them.            *)
(***************************************************************************)
EXTENDS Naturals

CONSTANTS
    Openers,       \* processes that open the database
    SchemaVersion, \* SCHEMA_VERSION, 8 in the code
    Alters,        \* the migrations that add columns: {2}
    Found,         \* versions the database may have at first
    MaxOpens       \* times the database is opened (a bound on inputs)

ASSUME MigrationsAssumption ==
    /\ SchemaVersion \in Nat \ {0}
    /\ Alters \subseteq 1..SchemaVersion
    /\ Found \subseteq 0..(SchemaVersion + 1)
    /\ MaxOpens \in Nat \ {0}

VARIABLES
    schema, \* user_version, and the migrations whose tables and columns exist
    opener, \* per process: where it is in open, and the next migration
    opens   \* times the database was opened

storeVars == <<schema, opener, opens>>

SchemaAt(v) == [version |-> v, made |-> 1..v]
Closed == [pc |-> "closed", next |-> 0]

\* A new file, one of an older host, or one of a newer host.
MigrationsInit ==
    /\ schema \in {SchemaAt(v) : v \in Found}
    /\ opener = [p \in Openers |-> Closed]
    /\ opens = 0

\* The migrations still to run are chosen here, from one read.
Open(p) ==
    /\ opener[p].pc = "closed"
    /\ opens < MaxOpens
    /\ opens' = opens + 1
    /\ opener' = [opener EXCEPT ![p] =
          CASE schema.version > SchemaVersion -> [pc |-> "failed", next |-> 0]
            [] schema.version = SchemaVersion -> [pc |-> "open", next |-> 0]
            [] OTHER -> [pc |-> "migrating", next |-> schema.version + 1]]
    /\ UNCHANGED schema

\* Mutant of Migrated: the version is not part of the transaction.
MigratedTablesFirst(n) == [schema EXCEPT !.made = @ \cup {n}]

\* What the transaction of migration n leaves.
Migrated(n) == [version |-> n, made |-> schema.made \cup {n}]

Migrate(p) ==
    LET n == opener[p].next IN
    /\ opener[p].pc = "migrating"
    /\ IF n \in Alters \cap schema.made  \* a column that exists: rolled back
       THEN /\ opener' = [opener EXCEPT ![p] = [pc |-> "failed", next |-> 0]]
            /\ UNCHANGED schema
       ELSE /\ schema' = Migrated(n)
            /\ opener' = [opener EXCEPT ![p] =
                  IF n = SchemaVersion THEN [pc |-> "open", next |-> 0]
                  ELSE [pc |-> "migrating", next |-> n + 1]]
    /\ UNCHANGED opens

\* The process ends, in the middle of open or later.
LeaveStore(p) ==
    /\ opener[p].pc # "closed"
    /\ opener' = [opener EXCEPT ![p] = Closed]
    /\ UNCHANGED <<schema, opens>>

MigrationStep(p) == Open(p) \/ Migrate(p)

MigrationsSpec ==
    MigrationsInit /\ [][\E p \in Openers : MigrationStep(p) \/ LeaveStore(p)]_storeVars

-----------------------------------------------------------------------------
\* A database that is not of a newer host can always be opened, wherever an
\* earlier process died in its migrations.
OpensUnlessNewer ==
    \A p \in Openers : opener[p].pc = "failed" => schema.version > SchemaVersion

\* Migrations only go forward ("只追加前向迁移", lib.rs:50).
VersionNeverFalls == [][schema'.version >= schema.version]_storeVars
=============================================================================
