------------------------------ MODULE Migrations ------------------------------
(***************************************************************************)
(* MigrationManager (shared/src/db/migrations.ts) in every process that    *)
(* runs it: both services call migrate() when they have connected, and     *)
(* nothing keeps them from doing so at the same time.                      *)
(*                                                                         *)
(* A version and its record are two statements.  A statement takes effect  *)
(* at once for the server, and its answer may be lost; a process may crash *)
(* at any moment, with its statement running.                              *)
(***************************************************************************)
EXTENDS Naturals, FiniteSets, FiniteSetsExt

CONSTANTS Procs,         \* processes that migrate
          Operators,     \* those from which rollback() is called
          MaxFaults,     \* bound: statements that fail without a reason of their own
          MaxCrashes,    \* bound: crashes in the middle of a migration
          MaxRollbacks   \* bound: calls of rollback()

ASSUME ProcsAssumption == Operators \subseteq Procs
ASSUME BoundsAssumption == {MaxFaults, MaxCrashes, MaxRollbacks} \subseteq Nat

\* The list MIGRATIONS: a version is its place in it.
Last == 6
Versions == 1 .. Last

\* What the SQL of a version refers to: 003 and 006 use the trigger function of 002, 004 and
\* 005 alter what 003 has made, 006 uses its enum.
Needs == <<{}, {}, {2}, {3}, {3}, {2, 3}>>

\* What down takes away with it: the table and the enum of 003 carry 004 and 005. The down of
\* 005 does nothing: its values stay in the enum, and its up is content with that.
Drops == <<{1}, {2}, {3, 4, 5}, {4}, {5}, {6}>>

\* What keeps down from working: domain_cache has a column of the enum.
HeldBy == <<{}, {}, {6}, {}, {}, {}>>

VARIABLES
    present,     \* the versions whose effect is in the schema; 1 is the table of records
    ledger,      \* the rows of that table
    mig,         \* where the call of migrate() or rollback() of each process is
    dir,         \* "up" or "down"
    todo,        \* the versions it has left
    raced,       \* another process has committed the same statement meanwhile
    clean,       \* no rollback began on a half migrated schema or was cut short
    faults, crashes, rollbacks
migVars == <<present, ledger, mig, dir, todo, raced, clean, faults, crashes, rollbacks>>

Resting == {"idle", "done", "failed"}
Working(p) == mig[p] \notin Resting

MigTypeOK ==
    /\ present \subseteq Versions /\ ledger \subseteq Versions
    /\ mig \in [Procs -> Resting \cup {"init", "read", "sql", "record"}]
    /\ dir \in [Procs -> {"up", "down"}]
    /\ todo \in [Procs -> SUBSET Versions]
    /\ raced \in [Procs -> BOOLEAN] /\ clean \in BOOLEAN
    /\ faults \in Nat /\ crashes \in Nat /\ rollbacks \in Nat

MigInit ==
    /\ present = {} /\ ledger = {}
    /\ mig = [p \in Procs |-> "idle"] /\ dir = [p \in Procs |-> "up"]
    /\ todo = [p \in Procs |-> {}]
    /\ raced = [p \in Procs |-> FALSE]
    /\ clean = TRUE /\ faults = 0 /\ crashes = 0 /\ rollbacks = 0

\* executedMigrations.slice(-steps), the rows being in the order of their versions
Newest(S, steps) == {v \in S : Cardinality({w \in S : w > v}) < steps}

\* mutant: what slice() takes is not reversed
TurnInOrder(p) == Min(todo[p])

\* mutant: the newest version first
TurnNewestFirst(p) == Max(todo[p])

\* The loops take the versions in the order of MIGRATIONS, or in that of reverse().
Turn(p) == IF dir[p] = "up" THEN Min(todo[p]) ELSE Max(todo[p])

-----------------------------------------------------------------------------

Moves(p, s) == mig' = [mig EXCEPT ![p] = s]

\* Who runs the same statement when p commits: CREATE ... IF NOT EXISTS of two sessions may
\* both find nothing, and the second then violates a unique constraint of the catalogue.
Commits(p) ==
    raced' = [q \in Procs |->
        IF q = p THEN FALSE
        ELSE raced[q] \/ (mig[q] = mig[p] /\ mig[p] \in {"init", "sql"}
                          /\ (mig[p] = "sql" => Turn(q) = Turn(p) /\ dir[q] = dir[p]))]

\* The error leaves migrate() or rollback(); what the process has begun stays.
GivesUp(p) ==
    /\ Moves(p, "failed")
    /\ todo' = [todo EXCEPT ![p] = {}] /\ raced' = [raced EXCEPT ![p] = FALSE]
    /\ UNCHANGED <<dir, rollbacks, crashes>>

\* A statement fails because another process was first, or because the connection breaks.
Fault(p) == \/ raced[p] /\ UNCHANGED faults
            \/ faults < MaxFaults /\ faults' = faults + 1

\* A rollback that ends here may have left a version recorded that is not there any more.
CutShort(p) == clean' = (clean /\ (dir[p] = "down" => ledger' \subseteq present'))

Migrate(p) ==
    /\ ~Working(p)
    /\ \A q \in Procs : Working(q) => dir[q] = "up"
    /\ Moves(p, "init")
    /\ dir' = [dir EXCEPT ![p] = "up"] /\ raced' = [raced EXCEPT ![p] = FALSE]
    /\ UNCHANGED <<present, ledger, todo, clean, faults, crashes, rollbacks>>

\* No code of the repository calls rollback(): an operator would, with the services stopped.
Rollback(p) ==
    /\ rollbacks < MaxRollbacks /\ rollbacks' = rollbacks + 1
    /\ \A q \in Procs : ~Working(q)
    /\ Moves(p, "init")
    /\ dir' = [dir EXCEPT ![p] = "down"] /\ raced' = [raced EXCEPT ![p] = FALSE]
    /\ clean' = (clean /\ present = ledger)
    /\ UNCHANGED <<present, ledger, todo, faults, crashes>>

InitializeMigrationsTable(p) ==
    /\ mig[p] = "init"
    /\ \/ /\ present' = present \cup {1} /\ Commits(p) /\ Moves(p, "read")
          /\ UNCHANGED <<dir, todo, faults, crashes, rollbacks>>
       \/ /\ Fault(p) /\ GivesUp(p)
          /\ present' \in {present, present \cup {1}}
    /\ UNCHANGED <<ledger, clean>>

\* mutant: an error reads as if nothing were left to do
ExecutedMigrationsTrusted(p) ==
    /\ mig[p] = "read"
    /\ \/ todo' = [todo EXCEPT ![p] = IF dir[p] = "up" THEN Versions \ ledger ELSE Newest(ledger, 1)]
          /\ Moves(p, IF todo'[p] = {} THEN "done" ELSE "sql") /\ UNCHANGED faults
       \/ faults < MaxFaults /\ faults' = faults + 1 /\ Moves(p, "done") /\ UNCHANGED todo
    /\ raced' = [raced EXCEPT ![p] = FALSE]
    /\ UNCHANGED <<present, ledger, dir, clean, crashes, rollbacks>>

\* getExecutedMigrations(): an error reads as an empty list.
GetExecutedMigrations(p) ==
    /\ mig[p] = "read"
    /\ \E rows \in {ledger, {}} :
          /\ rows = {} /\ ledger # {} => faults < MaxFaults
          /\ faults' = IF rows = {} /\ ledger # {} THEN faults + 1 ELSE faults
          /\ \/ dir[p] = "up" /\ todo' = [todo EXCEPT ![p] = Versions \ rows]
             \/ dir[p] = "down" /\ \E steps \in Versions : todo' = [todo EXCEPT ![p] = Newest(rows, steps)]
    /\ Moves(p, IF todo'[p] = {} THEN "done" ELSE "sql")
    /\ raced' = [raced EXCEPT ![p] = FALSE]
    /\ UNCHANGED <<present, ledger, dir, clean, crashes, rollbacks>>

\* The statements of one version run as one transaction.
Possible(p) ==
    LET v == Turn(p)
    IN  IF dir[p] = "up" THEN Needs[v] \subseteq present ELSE HeldBy[v] \cap present = {}

Effect(p) ==
    LET v == Turn(p)
    IN  IF dir[p] = "up"
        THEN present' = present \cup {v} /\ UNCHANGED ledger
        ELSE /\ present' = present \ Drops[v]
             /\ ledger' = IF v = 1 THEN {} ELSE ledger

\* mutant: an error of the statements is logged and the version recorded
ExecuteMigrationRegardless(p) ==
    /\ mig[p] = "sql"
    /\ \/ Possible(p) /\ Effect(p) /\ Commits(p)
       \/ UNCHANGED <<present, ledger, raced>>
    /\ Moves(p, "record")
    /\ UNCHANGED <<dir, todo, clean, faults, crashes, rollbacks>>

ExecuteMigration(p) ==
    /\ mig[p] = "sql"
    /\ \/ /\ Possible(p) /\ Effect(p) /\ Commits(p) /\ Moves(p, "record")
          /\ UNCHANGED <<dir, todo, clean, faults, crashes, rollbacks>>
       \/ /\ \/ ~Possible(p) /\ UNCHANGED <<present, ledger, faults>>
             \/ Fault(p) /\ UNCHANGED <<present, ledger>>
             \/ Possible(p) /\ faults < MaxFaults /\ faults' = faults + 1 /\ Effect(p)
          /\ CutShort(p) /\ GivesUp(p)

\* mutant: the row of the version after
RowAfter(p) == ledger' = IF dir[p] = "up" THEN ledger \cup {Turn(p) + 1} ELSE ledger \ {Turn(p) + 1}

\* INSERT or DELETE of the version's row; both need the table, the insert a version that is not there.
Row(p) == LET v == Turn(p)
          IN  ledger' = IF dir[p] = "up" THEN ledger \cup {v} ELSE ledger \ {v}

RecordPossible(p) == 1 \in present /\ (dir[p] = "up" => Turn(p) \notin ledger)

RecordMigration(p) ==
    /\ mig[p] = "record" /\ UNCHANGED present
    /\ \/ /\ RecordPossible(p) /\ Row(p)
          /\ todo' = [todo EXCEPT ![p] = @ \ {Turn(p)}]
          /\ Moves(p, IF todo'[p] = {} THEN "done" ELSE "sql")
          /\ raced' = [raced EXCEPT ![p] = FALSE]
          /\ UNCHANGED <<dir, clean, faults, crashes, rollbacks>>
       \/ /\ \/ ~RecordPossible(p) /\ UNCHANGED <<ledger, faults>>
             \/ faults < MaxFaults /\ faults' = faults + 1 /\ (UNCHANGED ledger \/ (RecordPossible(p) /\ Row(p)))
          /\ CutShort(p) /\ GivesUp(p)

\* The process dies; the server may still carry out the statement it has been sent.
Dies(p) ==
    /\ Working(p) /\ crashes' = crashes + 1
    /\ \/ mig[p] = "sql" /\ Possible(p) /\ Effect(p)
       \/ mig[p] = "record" /\ RecordPossible(p) /\ Row(p) /\ UNCHANGED present
       \/ UNCHANGED <<present, ledger>>
    /\ CutShort(p)
    /\ Moves(p, "idle")
    /\ todo' = [todo EXCEPT ![p] = {}] /\ raced' = [raced EXCEPT ![p] = FALSE]
    /\ UNCHANGED <<dir, faults, rollbacks>>

Crash(p) == crashes < MaxCrashes /\ Dies(p)

MigStep(p) ==
    InitializeMigrationsTable(p) \/ GetExecutedMigrations(p) \/ ExecuteMigration(p) \/ RecordMigration(p)

MigNext ==
    \/ \E p \in Procs : Migrate(p) \/ MigStep(p) \/ Crash(p)
    \/ \E p \in Operators : Rollback(p)

MigSpec == MigInit /\ [][MigNext]_migVars

-----------------------------------------------------------------------------

\* A version that is recorded is in the schema, unless a rollback is taking it away or has been cut
\* short: a process that finds it recorded (the filter of pendingMigrations) never applies it.
RecordedIsPresent ==
    clean /\ (\A p \in Procs : Working(p) => dir[p] = "up") => ledger \subseteq present

\* Processes that migrate at the same time stop one another, by the primary key of the record
\* or in the catalogue, but never all of them: if no statement failed for another reason and
\* nobody crashed, whoever comes last has brought the schema to the newest version.
OneGetsThrough ==
    /\ faults = 0 /\ crashes = 0
    /\ \A p \in Procs : ~Working(p) /\ dir[p] = "up"
    /\ \E p \in Procs : mig[p] # "idle"
    => ledger = Versions /\ present = Versions

\* A migrate() that resolves has found or left every version recorded and present, whatever
\* was lost or repeated before ("All migrations completed successfully").
DoneIsDone ==
    [][\A p \in Procs :
         clean' /\ dir[p] = "up" /\ Working(p) /\ mig'[p] = "done"
            => ledger' = Versions /\ present' = Versions]_migVars

\* Every process and crash together move schema and records as SchemaUpgrade says.
Upgrade == INSTANCE SchemaUpgrade WITH
    applied <- Cardinality(present), recorded <- Cardinality(ledger), trusted <- clean
UpgradeSpec == Upgrade!Spec
=============================================================================
