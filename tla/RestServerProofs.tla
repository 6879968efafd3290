---------------------------- MODULE RestServerProofs ----------------------------
(* The REST service's process and the migrations it runs, for every number *)
(* of processes, rollbacks, faults, crashes, requests and signals.         *)
(*                                                                         *)
(* The migrations come first, by themselves; then the end of the process;  *)
(* then the migrations again as steps of the process and of the others.    *)
EXTENDS RestServer, FiniteSetTheorems, TLAPS

-----------------------------------------------------------------------------
(* Migrations: what holds of records and schema.                           *)

Faultless == faults = 0 /\ crashes = 0
Sound == clean \/ Faultless
Up(p) == Working(p) /\ dir[p] = "up"
Down(p) == Working(p) /\ dir[p] = "down"

\* Whoever rolls back does so alone.
Alone == \A p, q \in Procs : Down(p) /\ Working(q) => q = p

\* Records and schema are each the first versions of the list.
Stands(n, m) == ledger = 1 .. n /\ present = 1 .. m

\* Where an operator may roll back: nothing is executed and not recorded, but for the table of records.
Even(n, m) == m = n \/ (n = 0 /\ m = 1)

\* Whatever it has read, a process that migrates has left all from some version on, and
\* those before it are recorded.
Climbing(p, n, m) ==
    mig[p] \in {"sql", "record"} =>
        \E v \in Versions : /\ todo[p] = v .. Last /\ v <= n + 1
                            /\ mig[p] = "record" => v <= m

\* A process that rolls back takes the newest records, the last first, each after its version.
Descending(p, n, m) ==
    /\ mig[p] \in {"init", "read"} => Even(n, m)
    /\ mig[p] = "sql" => m = n /\ \E w \in 1 .. n : todo[p] = w .. n
    /\ mig[p] = "record" =>
         \/ n >= 2 /\ m = n - 1 /\ \E w \in 1 .. n : todo[p] = w .. n
         \/ n = 0 /\ m = 0 /\ todo[p] = {1}

\* With nobody rolling back, at most one version is executed and not recorded.
At(n, m) ==
    /\ Stands(n, m)
    /\ \A p \in Procs : (Up(p) => Climbing(p, n, m)) /\ (Down(p) => Descending(p, n, m))
    /\ (\A p \in Procs : ~Down(p)) => m \in {n, n + 1}

-----------------------------------------------------------------------------
LEMMA TurnUp ==
    ASSUME NEW p, dir[p] = "up", NEW v \in Versions, todo[p] = v .. Last
    PROVE  Turn(p) = v /\ todo[p] \ {v} = (v + 1) .. Last
<1>1. v \in v .. Last /\ \A w \in v .. Last : v <= w
  BY DEF Versions, Last
<1>2. Min(v .. Last) = v
  BY <1>1 DEF Min, Versions, Last
<1>. QED BY <1>2 DEF Turn, Versions, Last

LEMMA TurnDown ==
    ASSUME NEW p, dir[p] = "down", NEW n \in Versions, NEW w \in 1 .. n, todo[p] = w .. n
    PROVE  Turn(p) = n /\ todo[p] \ {n} = w .. (n - 1)
<1>1. n \in w .. n /\ \A v \in w .. n : n >= v
  BY DEF Versions, Last
<1>2. Max(w .. n) = n
  BY <1>1 DEF Max, Versions, Last
<1>. QED BY <1>2 DEF Turn, Versions, Last

\* What the SQL of a version refers to is in the schema when the versions before it are.
LEMMA NeedsHolds ==
    ASSUME NEW v \in Versions, NEW m \in 0 .. Last, v <= m + 1 PROVE Needs[v] \subseteq 1 .. m
<1>1. v \in {1, 2, 3, 4, 5, 6}
  BY DEF Versions, Last
<1>. QED BY <1>1 DEF Needs, Last

\* The down of the newest version can be done and takes away that version alone.
LEMMA DropsHolds ==
    ASSUME NEW n \in Versions
    PROVE  HeldBy[n] \cap (1 .. n) = {} /\ (1 .. n) \ Drops[n] = 1 .. (n - 1)
<1>1. n \in {1, 2, 3, 4, 5, 6}
  BY DEF Versions, Last
<1>2. HeldBy[n] \cap (1 .. n) = {}
  BY <1>1 DEF HeldBy
<1>3. n \in Drops[n] /\ \A v \in Drops[n] : v \in Nat /\ v >= n
  BY <1>1 DEF Drops
<1>4. (1 .. n) \ Drops[n] = 1 .. (n - 1)
  BY <1>1, <1>3
<1>. QED BY <1>2, <1>4

\* slice(-steps)
LEMMA NewestHolds ==
    ASSUME NEW n \in Versions, NEW steps \in Versions
    PROVE  \E w \in 1 .. n : Newest(1 .. n, steps) = w .. n
<1>1. ASSUME NEW v \in 1 .. n PROVE Cardinality({w \in 1 .. n : w > v}) = n - v
  <2>1. {w \in 1 .. n : w > v} = (v + 1) .. n
    BY DEF Versions, Last
  <2>2. Cardinality((v + 1) .. n) = IF v + 1 > n THEN 0 ELSE n - (v + 1) + 1
    <3>1. v + 1 \in Int /\ n \in Int
      BY DEF Versions, Last
    <3>. QED BY <3>1, FS_Interval
  <2>3. Cardinality((v + 1) .. n) = n - v
    BY <2>2 DEF Versions, Last
  <2>. QED BY <2>1, <2>3
<1>2. Newest(1 .. n, steps) = {v \in 1 .. n : n - v < steps}
  BY <1>1 DEF Newest
<1>. DEFINE w == IF n < steps THEN 1 ELSE n - steps + 1
<1>3. w \in 1 .. n /\ {v \in 1 .. n : n - v < steps} = w .. n
  BY DEF Versions, Last
<1>. QED BY <1>2, <1>3

LEMMA NewestEmpty == ASSUME NEW steps PROVE Newest({}, steps) = {}
BY DEF Newest
-----------------------------------------------------------------------------
\* Without faults there is always a process that nothing can refuse: its version is not recorded yet
\* and it is not second to one that commits the same; or all is done, or has not begun.
Leads(p) ==
    /\ Up(p)
    /\ mig[p] \in {"init", "sql"} => ~raced[p]
    /\ mig[p] \in {"sql", "record"} => Turn(p) \notin ledger

Complete == ledger = Versions /\ present = Versions /\ \A p \in Procs : ~Down(p)

Fresh ==
    /\ \A p \in Procs : ~Up(p)
    /\ (\A p \in Procs : ~Working(p)) => \E n, m \in 0 .. Last : Stands(n, m) /\ Even(n, m)
    /\ (\A p \in Procs : mig[p] = "idle") \/ \E p \in Procs : dir[p] = "down"

Driven == Complete \/ Fresh \/ \E p \in Procs : Leads(p)

\* Who executes or records has a version to do it with.
Listed == \A p \in Procs : mig[p] \in {"sql", "record"} => todo[p] # {}

MigInv ==
    /\ MigTypeOK /\ Listed /\ Alone
    /\ Sound => \E n, m \in 0 .. Last : At(n, m)
    /\ Faultless => Driven

LEMMA MigInitHolds == MigInit => MigInv
<1>. SUFFICES ASSUME MigInit PROVE MigInv
  OBVIOUS
<1>1. MigTypeOK /\ Listed /\ Alone
  BY DEF MigInit, MigTypeOK, Listed, Alone, Down, Working, Resting
<1>2. Stands(0, 0) /\ At(0, 0)
  BY DEF MigInit, At, Stands, Up, Down, Working, Resting
<1>3. Fresh
  BY <1>2 DEF MigInit, Fresh, Up, Working, Resting, Even, Last
<1>. QED BY <1>1, <1>2, <1>3 DEF MigInv, Driven, Last

\* Migrating processes leave one another's place in the list alone, and what they have in
\* the schema and among the records stays.
LEMMA ClimbOn ==
    ASSUME NEW p \in Procs, NEW n \in 0 .. Last, NEW m \in 0 .. Last, At(n, m),
           \A q \in Procs : ~Down(q),
           NEW n1 \in 0 .. Last, NEW m1 \in 0 .. Last, n <= n1, m <= m1, m1 \in {n1, n1 + 1},
           Stands(n1, m1)', Climbing(p, n1, m1)', dir'[p] = "up",
           \A q \in Procs \ {p} : mig'[q] = mig[q] /\ dir'[q] = dir[q] /\ todo'[q] = todo[q]
    PROVE  At(n1, m1)' /\ \A q \in Procs : ~Down(q)'
<1>1. ASSUME NEW q \in Procs PROVE ~Down(q)' /\ (Up(q)' => Climbing(q, n1, m1)')
  <2>1. CASE q = p
    BY <2>1 DEF Down
  <2>2. CASE q # p
    <3>1. mig'[q] = mig[q] /\ dir'[q] = dir[q] /\ todo'[q] = todo[q]
      BY <2>2
    <3>2. ~Down(q) /\ (Up(q) => Climbing(q, n, m))
      BY DEF At
    <3>3. ~Down(q)' /\ Up(q)' = Up(q)
      BY <3>1, <3>2 DEF Down, Up, Working
    <3>4. Climbing(q, n, m) => Climbing(q, n1, m1)'
      BY <3>1 DEF Climbing, Versions, Last
    <3>. QED BY <3>2, <3>3, <3>4
  <2>. QED BY <2>1, <2>2
<1>. QED BY <1>1 DEF At

\* Beside a rollback nobody works.
LEMMA DescendOn ==
    ASSUME NEW p \in Procs, Alone, Down(p),
           NEW n1 \in 0 .. Last, NEW m1 \in 0 .. Last,
           Stands(n1, m1)', dir'[p] = dir[p],
           Working(p)' => Descending(p, n1, m1)', ~Working(p)' => Even(n1, m1),
           \A q \in Procs \ {p} : mig'[q] = mig[q] /\ dir'[q] = dir[q]
    PROVE  At(n1, m1)' /\ Alone' /\ Fresh'
<1>1. ASSUME NEW q \in Procs, q # p PROVE ~Working(q)'
  BY <1>1 DEF Alone, Working
<1>2. ~Up(p)' /\ (Down(p)' => Descending(p, n1, m1)') /\ (~Down(p)' => ~Working(p)')
  BY DEF Down, Up
<1>3. \A q \in Procs : ~Up(q)' /\ (q # p => ~Down(q)')
  BY <1>1, <1>2 DEF Up, Down
<1>4. At(n1, m1)'
  BY <1>2, <1>3 DEF At, Even
<1>5. Alone'
  BY <1>1, <1>3 DEF Alone
<1>6. Fresh'
  BY <1>3, <1>2, <1>1 DEF Fresh, Down
<1>. QED BY <1>4, <1>5, <1>6
-----------------------------------------------------------------------------
(* How a step moves records and schema.                                    *)

Move(n, m, n1, m1) ==
    \/ n1 = n /\ m1 = m
    \/ m = n /\ n1 = n /\ m1 \in {n - 1, n + 1}
    \/ m1 = m /\ n1 = m /\ n \in {m - 1, m + 1}
    \/ m = 1 /\ n <= 1 /\ n1 = 0 /\ m1 = 0

Follows(n, m) == \E n1, m1 \in 0 .. Last : At(n1, m1)' /\ Move(n, m, n1, m1)

LEMMA SoundBefore ==
    ASSUME MigTypeOK, clean' => clean, faults' \in {faults, faults + 1}, crashes' \in {crashes, crashes + 1}
    PROVE  (Sound' => Sound) /\ (Faultless' => Faultless /\ faults' = faults /\ crashes' = crashes)
BY DEF MigTypeOK, Sound, Faultless

LEMMA StandsOnce ==
    ASSUME NEW n \in 0 .. Last, NEW m \in 0 .. Last, NEW n1 \in 0 .. Last, NEW m1 \in 0 .. Last,
           Stands(n, m), Stands(n1, m1)
    PROVE  n = n1 /\ m = m1
<1>1. ASSUME NEW a \in 0 .. Last, NEW b \in 0 .. Last, 1 .. a = 1 .. b PROVE a = b
  <2>1. CASE a < b
    <3>1. b \in 1 .. b /\ b \notin 1 .. a
      BY <2>1 DEF Last
    <3>. QED BY <1>1, <3>1
  <2>2. CASE b < a
    <3>1. a \in 1 .. a /\ a \notin 1 .. b
      BY <2>2 DEF Last
    <3>. QED BY <1>1, <3>1
  <2>. QED BY <2>1, <2>2 DEF Last
<1>. QED BY <1>1 DEF Stands

\* A process that works forwards has no rollback beside it.
LEMMA NoneDown == ASSUME Alone, NEW p \in Procs, Up(p) PROVE \A q \in Procs : ~Down(q)
BY DEF Alone, Up, Down

LEMMA UpOrDown == ASSUME MigTypeOK, NEW p \in Procs, Working(p) PROVE Up(p) \/ Down(p)
BY DEF MigTypeOK, Up, Down

LEMMA EffectUp ==
    ASSUME NEW p \in Procs, Up(p), mig[p] = "sql", NEW n \in 0 .. Last, NEW m \in 0 .. Last, At(n, m),
           m \in {n, n + 1}
    PROVE  /\ Possible(p) /\ Turn(p) \in Versions /\ Turn(p) <= n + 1
           /\ todo[p] = Turn(p) .. Last
           /\ Effect(p) => \E m1 \in 0 .. Last :
                 m <= m1 /\ m1 \in {n, n + 1} /\ Stands(n, m1)' /\ Turn(p) <= m1
<1>1. PICK v \in Versions : todo[p] = v .. Last /\ v <= n + 1
  BY DEF At, Climbing
<1>2. Turn(p) = v
  BY <1>1, TurnUp DEF Up
<1>3. v <= m + 1
  BY <1>1 DEF Versions, Last
<1>4. Possible(p)
  BY <1>2, <1>3, NeedsHolds DEF Possible, Up, At, Stands
<1>5. ASSUME Effect(p)
      PROVE \E m1 \in 0 .. Last : m <= m1 /\ m1 \in {n, n + 1} /\ Stands(n, m1)' /\ v <= m1
  <2>1. present' = (1 .. m) \cup {v} /\ ledger' = 1 .. n
    BY <1>2, <1>5 DEF Effect, Up, At, Stands
  <2>2. CASE v <= m
    <3>1. present' = 1 .. m
      BY <2>1, <2>2 DEF Versions, Last
    <3>. QED BY <2>1, <2>2, <3>1 DEF Stands, Last
  <2>3. CASE v = m + 1
    <3>1. present' = 1 .. v
      BY <2>1, <2>3 DEF Versions, Last
    <3>. QED BY <1>1, <2>1, <2>3, <3>1 DEF Stands, Versions, Last
  <2>. QED BY <1>3, <2>2, <2>3 DEF Versions, Last
<1>. QED BY <1>1, <1>2, <1>4, <1>5

LEMMA EffectDown ==
    ASSUME NEW p \in Procs, Down(p), mig[p] = "sql", NEW n \in 0 .. Last, NEW m \in 0 .. Last, At(n, m)
    PROVE  /\ Possible(p) /\ m = n /\ n \in Versions /\ \E w \in 1 .. n : todo[p] = w .. n
           /\ Effect(p) => \/ n = 1 /\ Stands(0, 0)'
                           \/ n >= 2 /\ Stands(n, n - 1)'
<1>1. PICK w \in 1 .. n : todo[p] = w .. n
  BY DEF At, Descending
<1>2. m = n /\ n \in Versions
  BY <1>1 DEF At, Descending, Versions, Last
<1>3. Turn(p) = n
  BY <1>1, <1>2, TurnDown DEF Down
<1>4. Possible(p)
  <2>1. present = 1 .. n
    BY <1>2 DEF At, Stands
  <2>. QED BY <1>2, <1>3, <2>1, DropsHolds DEF Possible, Down
<1>5. ASSUME Effect(p) PROVE \/ n = 1 /\ Stands(0, 0)'
                             \/ n >= 2 /\ Stands(n, n - 1)'
  <2>1. present' = present \ Drops[n] /\ ledger' = IF n = 1 THEN {} ELSE ledger
    BY <1>3, <1>5 DEF Effect, Down
  <2>2. present' = 1 .. (n - 1)
    <3>1. present' = (1 .. n) \ Drops[n]
      BY <1>2, <2>1 DEF At, Stands
    <3>. QED BY <1>2, <3>1, DropsHolds
  <2>3. CASE n = 1
    <3>1. 1 .. 0 = {} /\ n - 1 = 0
      BY <2>3
    <3>2. ledger' = 1 .. 0 /\ present' = 1 .. 0
      BY <2>1, <2>2, <2>3, <3>1
    <3>. QED BY <2>3, <3>2 DEF Stands
  <2>4. CASE n >= 2
    BY <2>1, <2>2, <2>4 DEF Stands, At
  <2>. QED BY <1>2, <2>3, <2>4 DEF Versions, Last
<1>. QED BY <1>1, <1>2, <1>4, <1>5

LEMMA RowUp ==
    ASSUME NEW p \in Procs, Up(p), mig[p] = "record", NEW n \in 0 .. Last, NEW m \in 0 .. Last,
           At(n, m), m \in {n, n + 1}, UNCHANGED present
    PROVE  /\ 1 \in present /\ Turn(p) \in Versions /\ todo[p] = Turn(p) .. Last
           /\ RecordPossible(p) /\ Row(p) => /\ n < Last /\ m = n + 1 /\ Turn(p) = n + 1
                                            /\ Stands(n + 1, n + 1)'
<1>1. PICK v \in Versions : todo[p] = v .. Last /\ v <= n + 1 /\ v <= m
  BY DEF At, Climbing
<1>2. Turn(p) = v
  BY <1>1, TurnUp DEF Up
<1>3. 1 \in present
  BY <1>1 DEF At, Stands, Versions, Last
<1>4. ASSUME RecordPossible(p), Row(p)
      PROVE  n < Last /\ m = n + 1 /\ v = n + 1 /\ Stands(n + 1, n + 1)'
  <2>1. v \notin 1 .. n /\ ledger' = (1 .. n) \cup {v}
    BY <1>2, <1>4 DEF RecordPossible, Row, Up, At, Stands
  <2>2. v = n + 1 /\ m = n + 1 /\ n < Last
    BY <1>1, <2>1 DEF Versions, Last
  <2>3. ledger' = 1 .. (n + 1)
    BY <2>1, <2>2 DEF Last
  <2>. QED BY <2>2, <2>3 DEF Stands, At
<1>. QED BY <1>1, <1>2, <1>3, <1>4

LEMMA RowDown ==
    ASSUME NEW p \in Procs, Down(p), mig[p] = "record", NEW n \in 0 .. Last, NEW m \in 0 .. Last,
           At(n, m), UNCHANGED present
    PROVE  \/ n = 0 /\ m = 0 /\ ~RecordPossible(p)
           \/ /\ n >= 2 /\ m = n - 1 /\ RecordPossible(p)
              /\ \E w \in 1 .. n : todo[p] = w .. n /\ todo[p] \ {Turn(p)} = w .. (n - 1)
              /\ Row(p) => Stands(n - 1, n - 1)'
<1>1. CASE n = 0 /\ m = 0
  BY <1>1 DEF At, Stands, RecordPossible
<1>2. CASE n >= 2 /\ m = n - 1 /\ \E w \in 1 .. n : todo[p] = w .. n
  <2>1. PICK w \in 1 .. n : todo[p] = w .. n
    BY <1>2
  <2>2. n \in Versions
    BY <1>2 DEF Versions
  <2>3. Turn(p) = n /\ todo[p] \ {n} = w .. (n - 1)
    BY <2>1, <2>2, TurnDown DEF Down
  <2>4. RecordPossible(p)
    BY <1>2 DEF RecordPossible, At, Stands, Down
  <2>5. Row(p) => ledger' = (1 .. n) \ {n}
    BY <2>3 DEF Row, Down, At, Stands
  <2>6. (1 .. n) \ {n} = 1 .. (n - 1)
    BY <2>2 DEF Versions, Last
  <2>. QED BY <1>2, <2>1, <2>3, <2>4, <2>5, <2>6 DEF At, Stands
<1>. QED BY <1>1, <1>2 DEF At, Descending
-----------------------------------------------------------------------------
LEMMA EndsOf == ASSUME NEW S \in SUBSET Versions, S # {} PROVE Min(S) \in S /\ Max(S) \in S
<1>1. \A v \in S : v \in {1, 2, 3, 4, 5, 6}
  BY DEF Versions, Last
<1>2. \E v \in S : \A w \in S : v <= w
  BY <1>1
<1>3. \E v \in S : \A w \in S : v >= w
  BY <1>1
<1>. QED BY <1>2, <1>3 DEF Min, Max

LEMMA TurnTyped ==
    ASSUME MigTypeOK, Listed, NEW p \in Procs, mig[p] \in {"sql", "record"}
    PROVE  Turn(p) \in todo[p] /\ Turn(p) \in Versions
<1>1. todo[p] \in SUBSET Versions /\ todo[p] # {}
  BY DEF MigTypeOK, Listed
<1>. QED BY <1>1, EndsOf DEF Turn

\* What every statement leaves to the other processes.
LEMMA StepApart ==
    ASSUME MigTypeOK, NEW p \in Procs, MigStep(p) \/ Dies(p)
    PROVE  /\ Working(p) /\ dir' = dir
           /\ \A q \in Procs \ {p} : mig'[q] = mig[q] /\ todo'[q] = todo[q]
           /\ mig'[p] \in {"read", "sql", "record", "done", "failed", "idle"}
<1>1. CASE InitializeMigrationsTable(p)
  BY <1>1 DEF InitializeMigrationsTable, MigTypeOK, Moves, GivesUp, Working, Resting
<1>2. CASE GetExecutedMigrations(p)
  BY <1>2 DEF GetExecutedMigrations, MigTypeOK, Moves, Working, Resting
<1>3. CASE ExecuteMigration(p)
  BY <1>3 DEF ExecuteMigration, MigTypeOK, Moves, GivesUp, Working, Resting
<1>4. CASE RecordMigration(p)
  BY <1>4 DEF RecordMigration, MigTypeOK, Moves, GivesUp, Working, Resting
<1>5. CASE Dies(p)
  BY <1>5 DEF Dies, MigTypeOK, Moves
<1>. QED BY <1>1, <1>2, <1>3, <1>4, <1>5 DEF MigStep

Onward == /\ MigTypeOK' /\ Listed'
          /\ clean' => clean
          /\ faults' \in {faults, faults + 1} /\ crashes' \in {crashes, crashes + 1}

LEMMA StoppedTyped ==
    ASSUME MigTypeOK, Listed, NEW p \in Procs, NEW s \in {"failed", "idle"}, Moves(p, s),
           todo' = [todo EXCEPT ![p] = {}], raced' = [raced EXCEPT ![p] = FALSE], dir' = dir,
           present' \subseteq Versions, ledger' \subseteq Versions, clean' \in BOOLEAN,
           faults' \in Nat, crashes' \in Nat, rollbacks' \in Nat
    PROVE  MigTypeOK' /\ Listed'
<1>1. MigTypeOK'
  BY DEF MigTypeOK, Moves, Resting
<1>2. Listed'
  BY DEF MigTypeOK, Moves, Listed
<1>. QED BY <1>1, <1>2

LEMMA CutTyped == ASSUME NEW p, CutShort(p) PROVE clean' \in BOOLEAN /\ (clean' => clean)
<1>1. clean' \in BOOLEAN
  BY Zenon DEF CutShort
<1>2. clean' => clean
  BY Zenon DEF CutShort
<1>. QED BY <1>1, <1>2

LEMMA FailureTyped ==
    ASSUME MigTypeOK, Listed, NEW p \in Procs, GivesUp(p), CutShort(p) \/ clean' = clean,
           faults' \in {faults, faults + 1},
           present' \subseteq Versions, ledger' \subseteq Versions
    PROVE  Onward
<1>1. /\ Moves(p, "failed") /\ dir' = dir /\ rollbacks' = rollbacks /\ crashes' = crashes
      /\ todo' = [todo EXCEPT ![p] = {}] /\ raced' = [raced EXCEPT ![p] = FALSE]
  BY DEF GivesUp
<1>2. clean' \in BOOLEAN /\ (clean' => clean)
  BY CutTyped DEF MigTypeOK
<1>3. faults' \in Nat /\ crashes' \in Nat /\ rollbacks' \in Nat
  BY <1>1 DEF MigTypeOK
<1>4. MigTypeOK' /\ Listed'
  BY <1>1, <1>2, <1>3, StoppedTyped
<1>. QED BY <1>1, <1>2, <1>4 DEF Onward

LEMMA EffectTyped ==
    ASSUME MigTypeOK, Listed, NEW p \in Procs, mig[p] = "sql", Effect(p)
    PROVE  present' \subseteq Versions /\ ledger' \subseteq Versions
BY TurnTyped DEF Effect, MigTypeOK

LEMMA RowTyped ==
    ASSUME MigTypeOK, Listed, NEW p \in Procs, mig[p] = "record", Row(p)
    PROVE  ledger' \subseteq Versions
BY TurnTyped DEF Row, MigTypeOK

LEMMA CallTyped ==
    ASSUME MigTypeOK, Listed, NEW p \in Procs, Migrate(p) \/ Rollback(p) PROVE Onward
<1>1. CASE Migrate(p)
  <2>1. MigTypeOK'
    BY <1>1 DEF Migrate, MigTypeOK, Moves, Resting
  <2>2. Listed'
    BY <1>1 DEF Migrate, MigTypeOK, Moves, Listed
  <2>. QED BY <1>1, <2>1, <2>2 DEF Migrate, Onward
<1>2. CASE Rollback(p)
  <2>1. MigTypeOK'
    BY <1>2 DEF Rollback, MigTypeOK, Moves, Resting
  <2>2. Listed'
    BY <1>2 DEF Rollback, MigTypeOK, Moves, Listed
  <2>. QED BY <1>2, <2>1, <2>2 DEF Rollback, Onward
<1>. QED BY <1>1, <1>2

LEMMA InitTyped ==
    ASSUME MigTypeOK, Listed, NEW p \in Procs, InitializeMigrationsTable(p) PROVE Onward
<1>. 1 \in Versions
  BY DEF Versions, Last
<1>1. present' \subseteq Versions /\ ledger' = ledger /\ clean' = clean
  BY DEF InitializeMigrationsTable, MigTypeOK
<1>2. CASE GivesUp(p) /\ Fault(p)
  <2>1. faults' \in {faults, faults + 1} /\ ledger' \subseteq Versions
    BY <1>1, <1>2 DEF Fault, MigTypeOK
  <2>. QED BY <1>1, <1>2, <2>1, FailureTyped
<1>3. CASE Commits(p) /\ Moves(p, "read") /\ UNCHANGED <<dir, todo, faults, crashes, rollbacks>>
  <2>1. MigTypeOK'
    BY <1>1, <1>3 DEF MigTypeOK, Moves, Commits, Resting
  <2>2. Listed'
    BY <1>3 DEF Listed, Moves, MigTypeOK
  <2>. QED BY <1>1, <1>3, <2>1, <2>2 DEF Onward
<1>. QED BY <1>2, <1>3 DEF InitializeMigrationsTable

LEMMA ReadTyped ==
    ASSUME MigTypeOK, Listed, NEW p \in Procs, GetExecutedMigrations(p) PROVE Onward
<1>1. /\ faults' \in {faults, faults + 1}
      /\ Moves(p, IF todo'[p] = {} THEN "done" ELSE "sql")
      /\ raced' = [raced EXCEPT ![p] = FALSE]
      /\ UNCHANGED <<present, ledger, dir, clean, crashes, rollbacks>>
  BY DEF GetExecutedMigrations
<1>2. \E S \in SUBSET Versions : todo' = [todo EXCEPT ![p] = S]
  <2>1. \A rows \in {ledger, {}} : rows \in SUBSET Versions
    BY DEF MigTypeOK
  <2>2. \A S \in SUBSET Versions, steps \in Versions : Newest(S, steps) \in SUBSET Versions
    BY DEF Newest
  <2>. QED BY <2>1, <2>2 DEF GetExecutedMigrations
<1>3. MigTypeOK'
  BY <1>1, <1>2 DEF MigTypeOK, Moves, Resting
<1>4. Listed'
  BY <1>1, <1>2 DEF MigTypeOK, Moves, Listed
<1>. QED BY <1>1, <1>3, <1>4 DEF Onward

LEMMA ExecuteTyped ==
    ASSUME MigTypeOK, Listed, NEW p \in Procs, ExecuteMigration(p) PROVE Onward
<1>1. mig[p] = "sql" /\ present' \subseteq Versions /\ ledger' \subseteq Versions
  BY EffectTyped DEF ExecuteMigration, MigTypeOK
<1>2. CASE GivesUp(p)
  <2>1. CutShort(p) /\ faults' \in {faults, faults + 1}
    BY <1>2 DEF ExecuteMigration, Fault, GivesUp, Moves, MigTypeOK
  <2>. QED BY <1>1, <1>2, <2>1, FailureTyped
<1>3. CASE Commits(p) /\ Moves(p, "record") /\ UNCHANGED <<dir, todo, clean, faults, crashes, rollbacks>>
  <2>1. MigTypeOK'
    BY <1>1, <1>3 DEF MigTypeOK, Moves, Commits, Resting
  <2>2. Listed'
    BY <1>1, <1>3 DEF Listed, Moves, MigTypeOK
  <2>. QED BY <1>3, <2>1, <2>2 DEF Onward
<1>. QED BY <1>2, <1>3 DEF ExecuteMigration

LEMMA RecordTyped ==
    ASSUME MigTypeOK, Listed, NEW p \in Procs, RecordMigration(p) PROVE Onward
<1>1. mig[p] = "record" /\ present' = present /\ ledger' \subseteq Versions
  BY RowTyped DEF RecordMigration, MigTypeOK
<1>2. CASE GivesUp(p)
  <2>1. present' \subseteq Versions /\ CutShort(p) /\ faults' \in {faults, faults + 1}
    BY <1>1, <1>2 DEF RecordMigration, GivesUp, Moves, MigTypeOK
  <2>. QED BY <1>1, <1>2, <2>1, FailureTyped
<1>3. CASE /\ todo' = [todo EXCEPT ![p] = @ \ {Turn(p)}]
           /\ Moves(p, IF todo'[p] = {} THEN "done" ELSE "sql")
           /\ raced' = [raced EXCEPT ![p] = FALSE]
           /\ UNCHANGED <<dir, clean, faults, crashes, rollbacks>>
  <2>1. MigTypeOK'
    BY <1>1, <1>3 DEF MigTypeOK, Moves, Resting
  <2>2. Listed'
    BY <1>1, <1>3 DEF Listed, Moves, MigTypeOK
  <2>. QED BY <1>3, <2>1, <2>2 DEF Onward
<1>. QED BY <1>2, <1>3 DEF RecordMigration

LEMMA DiesTyped ==
    ASSUME MigTypeOK, Listed, NEW p \in Procs, Dies(p) PROVE Onward
<1>1. present' \subseteq Versions /\ ledger' \subseteq Versions
  BY EffectTyped, RowTyped DEF Dies, MigTypeOK
<1>2. clean' \in BOOLEAN /\ (clean' => clean)
  BY CutTyped DEF Dies
<1>3. /\ Moves(p, "idle") /\ dir' = dir /\ rollbacks' = rollbacks /\ faults' = faults
      /\ crashes' = crashes + 1
      /\ todo' = [todo EXCEPT ![p] = {}] /\ raced' = [raced EXCEPT ![p] = FALSE]
  BY DEF Dies
<1>4. faults' \in Nat /\ crashes' \in Nat /\ rollbacks' \in Nat
  BY <1>3 DEF MigTypeOK
<1>5. MigTypeOK' /\ Listed'
  BY <1>1, <1>2, <1>3, <1>4, StoppedTyped
<1>. QED BY <1>2, <1>3, <1>5 DEF Onward

LEMMA TypeHolds ==
    ASSUME MigTypeOK, Listed, NEW p \in Procs, Migrate(p) \/ Rollback(p) \/ MigStep(p) \/ Dies(p)
    PROVE  Onward
BY CallTyped, InitTyped, ReadTyped, ExecuteTyped, RecordTyped, DiesTyped DEF MigStep
-----------------------------------------------------------------------------
(* A process that migrates. *)

Advances(n, m) ==
    \E n1, m1 \in 0 .. Last : n <= n1 /\ m <= m1 /\ At(n1, m1)' /\ Move(n, m, n1, m1)

\* A step of a process that migrates, from what it does to the records, the schema and itself.
LEMMA AdvancesBy ==
    ASSUME MigTypeOK, Alone, NEW p \in Procs, Up(p), MigStep(p) \/ Dies(p),
           NEW n \in 0 .. Last, NEW m \in 0 .. Last, At(n, m),
           NEW n1 \in 0 .. Last, NEW m1 \in 0 .. Last, n <= n1, m <= m1, m1 \in {n1, n1 + 1},
           Stands(n1, m1)', Climbing(p, n1, m1)', Move(n, m, n1, m1)
    PROVE  Advances(n, m)
<1>1. dir' = dir /\ \A q \in Procs \ {p} : mig'[q] = mig[q] /\ todo'[q] = todo[q]
  BY StepApart
<1>2. \A q \in Procs : ~Down(q)
  BY NoneDown
<1>3. At(n1, m1)'
  <2>1. dir'[p] = "up" /\ \A q \in Procs \ {p} : dir'[q] = dir[q]
    BY <1>1 DEF Up
  <2>. QED BY <1>1, <1>2, <2>1, ClimbOn
<1>. QED BY <1>3 DEF Advances

LEMMA AloneHolds ==
    ASSUME MigTypeOK, Alone, NEW p \in Procs, Migrate(p) \/ Rollback(p) \/ MigStep(p) \/ Dies(p)
    PROVE  Alone'
<1>1. CASE Migrate(p)
  <2>1. \A q \in Procs : (Working(q) => dir[q] = "up") /\ dir'[q] = (IF q = p THEN "up" ELSE dir[q])
                         /\ mig'[q] = (IF q = p THEN "init" ELSE mig[q])
    BY <1>1 DEF Migrate, Moves, MigTypeOK
  <2>2. \A q \in Procs : ~Down(q)'
    BY <2>1 DEF Down, Working
  <2>. QED BY <2>2 DEF Alone
<1>2. CASE Rollback(p)
  <2>1. \A q \in Procs \ {p} : ~Working(q) /\ mig'[q] = mig[q]
    BY <1>2 DEF Rollback, Moves, MigTypeOK
  <2>2. \A q \in Procs \ {p} : ~Working(q)' /\ ~Down(q)'
    BY <2>1 DEF Working, Down
  <2>. QED BY <2>2 DEF Alone
<1>3. CASE MigStep(p) \/ Dies(p)
  <2>1. Working(p) /\ \A q \in Procs : dir'[q] = dir[q] /\ (Working(q)' => Working(q))
    BY <1>3, StepApart DEF Working
  <2>2. \A q \in Procs : Down(q)' => Down(q)
    BY <2>1 DEF Down
  <2>. QED BY <2>1, <2>2 DEF Alone
<1>. QED BY <1>1, <1>2, <1>3

\* Making the table of records is the effect of the first version, if the schema has none yet.
LEMMA InitAdvances ==
    ASSUME MigTypeOK, Alone, NEW p \in Procs, Up(p), InitializeMigrationsTable(p),
           NEW n \in 0 .. Last, NEW m \in 0 .. Last, At(n, m)
    PROVE  Advances(n, m)
<1>1. m \in {n, n + 1}
  BY NoneDown DEF At
<1>2. mig'[p] \in {"read", "failed"} /\ ledger' = ledger /\ present' \in {present, present \cup {1}}
  BY DEF InitializeMigrationsTable, Moves, GivesUp, MigTypeOK
<1>3. Climbing(p, n, m)' /\ \A k \in 0 .. Last : Climbing(p, n, k)'
  BY <1>2 DEF Climbing
<1>4. CASE present' = present
  BY <1>1, <1>2, <1>3, <1>4, AdvancesBy DEF MigStep, At, Stands, Move
<1>5. CASE present' = present \cup {1}
  <2>. DEFINE m1 == IF m = 0 THEN 1 ELSE m
  <2>1. present' = 1 .. m1
    BY <1>5 DEF At, Stands, Last
  <2>2. m1 \in 0 .. Last /\ m <= m1 /\ m1 \in {n, n + 1} /\ Move(n, m, n, m1)
    BY <1>1 DEF Move, Last
  <2>3. Stands(n, m1)'
    BY <1>2, <2>1 DEF At, Stands
  <2>4. n <= n
    BY DEF Last
  <2>. HIDE DEF m1
  <2>. QED BY <1>3, <2>2, <2>3, <2>4, AdvancesBy DEF MigStep
<1>. QED BY <1>2, <1>4, <1>5

LEMMA ReadAdvances ==
    ASSUME MigTypeOK, Alone, NEW p \in Procs, Up(p), GetExecutedMigrations(p),
           NEW n \in 0 .. Last, NEW m \in 0 .. Last, At(n, m)
    PROVE  Advances(n, m)
<1>1. m \in {n, n + 1} /\ n <= n /\ m <= m /\ Move(n, m, n, m)
  BY NoneDown DEF At, Move, Last
<1>2. Stands(n, m)'
  BY DEF GetExecutedMigrations, At, Stands
<1>3. Climbing(p, n, m)'
  <2>1. PICK rows \in {ledger, {}} : todo'[p] = Versions \ rows
    BY DEF GetExecutedMigrations, MigTypeOK, Up
  <2>2. mig'[p] = IF todo'[p] = {} THEN "done" ELSE "sql"
    BY DEF GetExecutedMigrations, MigTypeOK, Moves
  <2>3. CASE rows = {}
    <3>1. todo'[p] = 1 .. Last /\ 1 \in Versions /\ 1 <= n + 1
      BY <2>1, <2>3 DEF Versions, Last
    <3>. QED BY <2>2, <3>1 DEF Climbing
  <2>4. CASE rows = 1 .. n
    <3>1. todo'[p] = (n + 1) .. Last
      BY <2>1, <2>4 DEF Versions, Last
    <3>2. (n + 1) .. Last # {} => n + 1 \in Versions /\ n + 1 <= n + 1
      BY DEF Versions, Last
    <3>. QED BY <2>2, <3>1, <3>2 DEF Climbing
  <2>. QED BY <2>1, <2>3, <2>4 DEF At, Stands
<1>. QED BY <1>1, <1>2, <1>3, AdvancesBy DEF MigStep

LEMMA ExecuteAdvances ==
    ASSUME MigTypeOK, Alone, NEW p \in Procs, Up(p), mig[p] = "sql",
           ExecuteMigration(p) \/ Dies(p),
           NEW n \in 0 .. Last, NEW m \in 0 .. Last, At(n, m)
    PROVE  Advances(n, m)
<1>1. m \in {n, n + 1} /\ n <= n /\ m <= m /\ Move(n, m, n, m)
  BY NoneDown DEF At, Move, Last
<1>2. /\ mig'[p] = "record" => todo'[p] = todo[p] /\ Effect(p)
      /\ mig'[p] \in {"record", "failed", "idle"}
      /\ Effect(p) \/ UNCHANGED <<present, ledger>>
  BY DEF ExecuteMigration, Dies, Moves, GivesUp, MigTypeOK
<1>3. CASE Effect(p)
  <2>1. PICK m1 \in 0 .. Last : m <= m1 /\ m1 \in {n, n + 1} /\ Stands(n, m1)' /\ Turn(p) <= m1
    BY <1>1, <1>3, EffectUp
  <2>2. Climbing(p, n, m1)'
    BY <1>1, <1>2, <2>1, EffectUp DEF Climbing
  <2>3. Move(n, m, n, m1)
    BY <1>1, <2>1 DEF Move, Last
  <2>. QED BY <1>1, <2>1, <2>2, <2>3, AdvancesBy DEF MigStep
<1>4. CASE UNCHANGED <<present, ledger>> /\ mig'[p] # "record"
  <2>1. Climbing(p, n, m)'
    BY <1>2, <1>4 DEF Climbing
  <2>2. Stands(n, m)'
    BY <1>4 DEF At, Stands
  <2>. QED BY <1>1, <2>1, <2>2, AdvancesBy DEF MigStep
<1>. QED BY <1>2, <1>3, <1>4

LEMMA RecordAdvances ==
    ASSUME MigTypeOK, Alone, NEW p \in Procs, Up(p), mig[p] = "record",
           RecordMigration(p) \/ Dies(p),
           NEW n \in 0 .. Last, NEW m \in 0 .. Last, At(n, m)
    PROVE  Advances(n, m)
<1>1. m \in {n, n + 1} /\ n <= n /\ m <= m /\ Move(n, m, n, m)
  BY NoneDown DEF At, Move, Last
<1>2. /\ UNCHANGED present
      /\ \/ UNCHANGED ledger
         \/ RecordPossible(p) /\ Row(p)
      /\ \/ mig'[p] \in {"failed", "idle"}
         \/ /\ RecordPossible(p) /\ Row(p) /\ todo'[p] = todo[p] \ {Turn(p)}
            /\ mig'[p] = IF todo'[p] = {} THEN "done" ELSE "sql"
  BY DEF RecordMigration, Dies, Moves, GivesUp, MigTypeOK, Effect
<1>3. CASE RecordPossible(p) /\ Row(p)
  <2>1. /\ n < Last /\ m = n + 1 /\ Turn(p) = n + 1 /\ Stands(n + 1, n + 1)'
        /\ todo[p] = (n + 1) .. Last
    BY <1>1, <1>2, <1>3, RowUp
  <2>2. todo[p] \ {n + 1} = (n + 2) .. Last /\ n + 1 \in 0 .. Last /\ n <= n + 1 /\ m <= n + 1
    BY <2>1 DEF Last
  <2>3. Climbing(p, n + 1, n + 1)'
    <3>1. CASE mig'[p] = "sql"
      <4>1. todo'[p] = (n + 2) .. Last /\ todo'[p] # {}
        BY <1>2, <2>1, <2>2, <3>1
      <4>2. n + 2 \in Versions /\ n + 2 <= (n + 1) + 1
        BY <4>1 DEF Versions, Last
      <4>. QED BY <3>1, <4>1, <4>2 DEF Climbing
    <3>. QED BY <1>2, <3>1 DEF Climbing
  <2>4. Move(n, m, n + 1, n + 1)
    BY <2>1 DEF Move, Last
  <2>. QED BY <2>1, <2>2, <2>3, <2>4, AdvancesBy DEF MigStep
<1>4. CASE UNCHANGED ledger /\ mig'[p] \in {"failed", "idle"}
  <2>1. Climbing(p, n, m)'
    BY <1>4 DEF Climbing
  <2>2. Stands(n, m)'
    BY <1>2, <1>4 DEF At, Stands
  <2>. QED BY <1>1, <2>1, <2>2, AdvancesBy DEF MigStep
<1>. QED BY <1>2, <1>3, <1>4

LEMMA UpAdvances ==
    ASSUME MigTypeOK, Alone, NEW p \in Procs, Up(p), MigStep(p) \/ Dies(p),
           NEW n \in 0 .. Last, NEW m \in 0 .. Last, At(n, m)
    PROVE  Advances(n, m)
<1>1. CASE Dies(p) /\ mig[p] \notin {"sql", "record"}
  <2>1. UNCHANGED <<present, ledger>> /\ mig'[p] = "idle"
    BY <1>1 DEF Dies, Moves, MigTypeOK
  <2>2. Stands(n, m)' /\ Climbing(p, n, m)'
    BY <2>1 DEF At, Stands, Climbing
  <2>3. m \in {n, n + 1} /\ n <= n /\ m <= m /\ Move(n, m, n, m)
    BY NoneDown DEF At, Move, Last
  <2>. QED BY <1>1, <2>2, <2>3, AdvancesBy
<1>2. CASE Dies(p) /\ mig[p] \in {"sql", "record"}
  BY <1>2, ExecuteAdvances, RecordAdvances
<1>. QED BY <1>1, <1>2, InitAdvances, ReadAdvances, ExecuteAdvances, RecordAdvances
         DEF MigStep, ExecuteMigration, RecordMigration
-----------------------------------------------------------------------------
(* A rollback. *)

Reverts(n, m) == Follows(n, m) /\ Fresh'

LEMMA RevertsBy ==
    ASSUME MigTypeOK, Alone, NEW p \in Procs, Down(p), MigStep(p) \/ Dies(p),
           NEW n \in 0 .. Last, NEW m \in 0 .. Last,
           NEW n1 \in 0 .. Last, NEW m1 \in 0 .. Last,
           Stands(n1, m1)', Working(p)' => Descending(p, n1, m1)', ~Working(p)' => Even(n1, m1),
           Move(n, m, n1, m1)
    PROVE  Reverts(n, m)
<1>1. dir' = dir /\ \A q \in Procs \ {p} : mig'[q] = mig[q]
  BY StepApart
<1>2. At(n1, m1)' /\ Fresh'
  BY <1>1, DescendOn
<1>. QED BY <1>2 DEF Reverts, Follows

LEMMA InitReverts ==
    ASSUME MigTypeOK, Alone, NEW p \in Procs, Down(p), InitializeMigrationsTable(p),
           NEW n \in 0 .. Last, NEW m \in 0 .. Last, At(n, m)
    PROVE  Reverts(n, m)
<1>1. Even(n, m) /\ mig'[p] \in {"read", "failed"} /\ ledger' = ledger
      /\ present' \in {present, present \cup {1}}
  BY DEF InitializeMigrationsTable, Moves, GivesUp, MigTypeOK, At, Descending
<1>2. ASSUME NEW m1 \in 0 .. Last, Even(n, m1), Stands(n, m1)', Move(n, m, n, m1) PROVE Reverts(n, m)
  <2>1. Descending(p, n, m1)'
    BY <1>1, <1>2 DEF Descending, Even
  <2>. QED BY <1>2, <2>1, RevertsBy DEF MigStep
<1>3. CASE present' = present
  BY <1>1, <1>2, <1>3 DEF At, Stands, Move
<1>4. CASE present' = present \cup {1}
  <2>. DEFINE m1 == IF m = 0 THEN 1 ELSE m
  <2>1. present' = 1 .. m1
    BY <1>4 DEF At, Stands, Last
  <2>2. m1 \in 0 .. Last /\ Even(n, m1) /\ Move(n, m, n, m1)
    BY <1>1 DEF Move, Even, Last
  <2>3. Stands(n, m1)'
    BY <1>1, <2>1 DEF At, Stands
  <2>. HIDE DEF m1
  <2>. QED BY <1>2, <2>2, <2>3
<1>. QED BY <1>1, <1>3, <1>4

LEMMA ReadReverts ==
    ASSUME MigTypeOK, Alone, NEW p \in Procs, Down(p), GetExecutedMigrations(p),
           NEW n \in 0 .. Last, NEW m \in 0 .. Last, At(n, m)
    PROVE  Reverts(n, m)
<1>1. Even(n, m) /\ Move(n, m, n, m)
  BY DEF GetExecutedMigrations, At, Descending, Move
<1>2. Stands(n, m)'
  BY DEF GetExecutedMigrations, At, Stands
<1>3. PICK rows \in {ledger, {}}, steps \in Versions : todo'[p] = Newest(rows, steps)
  BY DEF GetExecutedMigrations, MigTypeOK, Down
<1>4. mig'[p] = IF todo'[p] = {} THEN "done" ELSE "sql"
  BY DEF GetExecutedMigrations, MigTypeOK, Moves
<1>5. CASE todo'[p] = {}
  <2>1. ~Working(p)'
    BY <1>4, <1>5 DEF Working, Resting
  <2>. QED BY <1>1, <1>2, <2>1, RevertsBy DEF MigStep
<1>6. CASE todo'[p] # {}
  <2>1. rows = 1 .. n
    BY <1>3, <1>6, NewestEmpty DEF At, Stands
  <2>2. n # 0
    <3>1. ASSUME n = 0 PROVE rows = {}
      BY <2>1, <3>1
    <3>. QED BY <1>3, <1>6, <3>1, NewestEmpty
  <2>3. n \in Versions
    BY <2>2 DEF Versions, Last
  <2>4. \E w \in 1 .. n : todo'[p] = w .. n
    BY <1>3, <2>1, <2>3, NewestHolds
  <2>5. Descending(p, n, m)'
    BY <1>1, <1>4, <1>6, <2>2, <2>4 DEF Descending, Even
  <2>6. Working(p)'
    BY <1>4, <1>6 DEF Working, Resting
  <2>. QED BY <1>1, <1>2, <2>5, <2>6, RevertsBy DEF MigStep
<1>. QED BY <1>5, <1>6

\* A rollback that stops in the middle of a version has been cut short, and that not without a
\* fault or a crash.
LEMMA ExecuteReverts ==
    ASSUME MigTypeOK, Listed, Alone, NEW p \in Procs, Down(p), mig[p] = "sql",
           ExecuteMigration(p) \/ Dies(p), Sound',
           NEW n \in 0 .. Last, NEW m \in 0 .. Last, At(n, m)
    PROVE  Reverts(n, m)
<1>1. m = n /\ n \in Versions /\ \E w \in 1 .. n : todo[p] = w .. n
  BY EffectDown
<1>2. /\ Effect(p) \/ UNCHANGED <<present, ledger>>
      /\ \/ mig'[p] = "record" /\ Effect(p) /\ todo'[p] = todo[p]
         \/ mig'[p] \in {"failed", "idle"} /\ CutShort(p)
            /\ (UNCHANGED <<present, ledger>> \/ faults' = faults + 1 \/ crashes' = crashes + 1)
  BY DEF ExecuteMigration, Dies, Moves, GivesUp, MigTypeOK
<1>3. ASSUME mig'[p] \in {"failed", "idle"} PROVE ~Working(p)'
  BY <1>3 DEF Working, Resting
<1>4. CASE UNCHANGED <<present, ledger>> /\ mig'[p] # "record"
  <2>1. Stands(n, n)' /\ Even(n, n) /\ Move(n, m, n, n)
    BY <1>1, <1>4 DEF At, Stands, Even, Move
  <2>. QED BY <1>2, <1>3, <1>4, <2>1, RevertsBy DEF MigStep
<1>5. CASE Effect(p) /\ mig'[p] = "record"
  <2>1. CASE n = 1 /\ Stands(0, 0)'
    <3>1. todo[p] = {1}
      BY <1>1, <2>1
    <3>2. Descending(p, 0, 0)'
      BY <1>2, <1>5, <2>1, <3>1 DEF Descending
    <3>3. Move(n, m, 0, 0) /\ 0 \in 0 .. Last
      BY <1>1, <2>1 DEF Move, Last
    <3>4. Working(p)'
      BY <1>5 DEF Working, Resting
    <3>. QED BY <2>1, <3>2, <3>3, <3>4, RevertsBy DEF MigStep
  <2>2. CASE n >= 2 /\ Stands(n, n - 1)'
    <3>1. Descending(p, n, n - 1)'
      BY <1>1, <1>2, <1>5, <2>2 DEF Descending
    <3>2. Move(n, m, n, n - 1) /\ n - 1 \in 0 .. Last
      BY <1>1, <2>2 DEF Move, Versions, Last
    <3>3. Working(p)'
      BY <1>5 DEF Working, Resting
    <3>. QED BY <2>2, <3>1, <3>2, <3>3, RevertsBy DEF MigStep
  <2>. QED BY <1>5, <2>1, <2>2, EffectDown
<1>6. CASE Effect(p) /\ mig'[p] # "record" /\ ~UNCHANGED <<present, ledger>>
  <2>1. ~Faultless'
    BY <1>2, <1>6 DEF Faultless, MigTypeOK
  <2>2. clean' /\ CutShort(p)
    BY <1>2, <1>6, <2>1 DEF Sound
  <2>3. ledger' \subseteq present'
    BY <2>2, Zenon DEF CutShort, Down
  <2>4. CASE n = 1 /\ Stands(0, 0)'
    <3>1. Even(0, 0) /\ Move(n, m, 0, 0) /\ 0 \in 0 .. Last
      BY <1>1, <2>4 DEF Move, Even, Last
    <3>. QED BY <1>2, <1>3, <1>6, <2>4, <3>1, RevertsBy DEF MigStep
  <2>5. CASE n >= 2 /\ Stands(n, n - 1)'
    <3>1. ledger' = 1 .. n /\ present' = 1 .. (n - 1)
      BY <2>5 DEF Stands
    <3>2. n \in 1 .. n /\ n \notin 1 .. (n - 1)
      BY <2>5
    <3>. QED BY <2>3, <3>1, <3>2
  <2>. QED BY <1>6, <2>4, <2>5, EffectDown
<1>. QED BY <1>2, <1>4, <1>5, <1>6

LEMMA RecordReverts ==
    ASSUME MigTypeOK, Listed, Alone, NEW p \in Procs, Down(p), mig[p] = "record",
           RecordMigration(p) \/ Dies(p), Sound',
           NEW n \in 0 .. Last, NEW m \in 0 .. Last, At(n, m)
    PROVE  Reverts(n, m)
<1>1. /\ UNCHANGED present
      /\ \/ UNCHANGED ledger
         \/ RecordPossible(p) /\ Row(p)
      /\ \/ mig'[p] \in {"failed", "idle"} /\ CutShort(p)
            /\ (~RecordPossible(p) \/ faults' = faults + 1 \/ crashes' = crashes + 1)
         \/ /\ RecordPossible(p) /\ Row(p) /\ todo'[p] = todo[p] \ {Turn(p)}
            /\ mig'[p] = IF todo'[p] = {} THEN "done" ELSE "sql"
  BY DEF RecordMigration, Dies, Moves, GivesUp, MigTypeOK, Effect
<1>2. CASE n = 0 /\ m = 0 /\ ~RecordPossible(p)
  <2>1. ~Working(p)' /\ Stands(0, 0)'
    BY <1>1, <1>2 DEF Working, Resting, At, Stands
  <2>2. Even(0, 0) /\ Move(n, m, 0, 0) /\ 0 \in 0 .. Last
    BY <1>2 DEF Move, Even, Last
  <2>. QED BY <2>1, <2>2, RevertsBy DEF MigStep
<1>3. CASE /\ n >= 2 /\ m = n - 1 /\ RecordPossible(p)
           /\ \E w \in 1 .. n : todo[p] = w .. n /\ todo[p] \ {Turn(p)} = w .. (n - 1)
           /\ Row(p) => Stands(n - 1, n - 1)'
  <2>1. CASE Row(p)
    <3>1. Stands(n - 1, n - 1)' /\ Even(n - 1, n - 1) /\ n - 1 \in 0 .. Last
          /\ Move(n, m, n - 1, n - 1)
      BY <1>3, <2>1 DEF Even, Move, Last
    <3>2. Working(p)' => Descending(p, n - 1, n - 1)'
      <4>1. CASE mig'[p] = "sql"
        <5>1. PICK w \in 1 .. n : todo'[p] = w .. (n - 1)
          BY <1>1, <1>3, <4>1
        <5>2. w \in 1 .. (n - 1)
          BY <1>1, <4>1, <5>1
        <5>. QED BY <4>1, <5>1, <5>2 DEF Descending
      <4>. QED BY <1>1, <4>1 DEF Working, Resting
    <3>. QED BY <3>1, <3>2, RevertsBy DEF MigStep
  <2>2. CASE ~Row(p)
    <3>1. mig'[p] \in {"failed", "idle"} /\ CutShort(p) /\ UNCHANGED <<present, ledger>> /\ ~Faultless'
      BY <1>1, <1>3, <2>2 DEF Faultless, MigTypeOK
    <3>2. ledger' \subseteq present'
      BY <3>1, Zenon DEF CutShort, Down, Sound
    <3>3. n \in 1 .. n /\ n \notin 1 .. (n - 1)
      BY <1>3
    <3>. QED BY <1>3, <3>1, <3>2, <3>3 DEF At, Stands
  <2>. QED BY <2>1, <2>2
<1>. QED BY <1>1, <1>2, <1>3, RowDown

LEMMA DownReverts ==
    ASSUME MigTypeOK, Listed, Alone, NEW p \in Procs, Down(p), MigStep(p) \/ Dies(p), Sound',
           NEW n \in 0 .. Last, NEW m \in 0 .. Last, At(n, m)
    PROVE  Reverts(n, m)
<1>1. CASE Dies(p) /\ mig[p] \notin {"sql", "record"}
  <2>1. UNCHANGED <<present, ledger>> /\ mig'[p] = "idle"
    BY <1>1 DEF Dies, Moves, MigTypeOK
  <2>2. mig[p] \in {"init", "read"}
    BY <1>1 DEF Down, Working, MigTypeOK
  <2>3. Stands(n, m)' /\ ~Working(p)' /\ Even(n, m) /\ Move(n, m, n, m)
    BY <2>1, <2>2 DEF At, Stands, Working, Resting, Descending, Move
  <2>. QED BY <1>1, <2>3, RevertsBy
<1>2. CASE Dies(p) /\ mig[p] \in {"sql", "record"}
  BY <1>2, ExecuteReverts, RecordReverts
<1>. QED BY <1>1, <1>2, InitReverts, ReadReverts, ExecuteReverts, RecordReverts
         DEF MigStep, ExecuteMigration, RecordMigration
-----------------------------------------------------------------------------
(* Who gets through. *)

\* A leader stays one while another process does what does not concern it.
LEMMA LeadsOn ==
    ASSUME MigTypeOK, NEW p \in Procs, NEW q \in Procs \ {p}, Leads(q), MigStep(p),
           ledger' = ledger, mig[q] \in {"init", "sql"} => ~raced'[q]
    PROVE  Leads(q)'
<1>1. dir' = dir /\ mig'[q] = mig[q] /\ todo'[q] = todo[q]
  BY StepApart
<1>2. Turn(q)' = Turn(q)
  BY <1>1 DEF Turn
<1>. QED BY <1>1, <1>2 DEF Leads, Up, Working

LEMMA InitLeads ==
    ASSUME MigTypeOK, NEW p \in Procs, Up(p), InitializeMigrationsTable(p), faults' = faults,
           NEW q \in Procs, Leads(q)
    PROVE  \E r \in Procs : Leads(r)'
<1>1. CASE mig'[p] = "read"
  <2>1. dir'[p] = "up"
    BY DEF InitializeMigrationsTable, GivesUp, Up
  <2>2. Leads(p)'
    BY <1>1, <2>1 DEF Leads, Up, Working, Resting
  <2>. QED BY <2>2
<1>2. CASE mig'[p] # "read"
  <2>1. Fault(p) /\ GivesUp(p) /\ mig[p] = "init" /\ ledger' = ledger
    BY <1>2 DEF InitializeMigrationsTable, Moves, MigTypeOK
  <2>2. raced[p] /\ raced' = [raced EXCEPT ![p] = FALSE]
    BY <2>1 DEF Fault, GivesUp, MigTypeOK
  <2>3. q # p
    BY <2>1, <2>2 DEF Leads
  <2>4. mig[q] \in {"init", "sql"} => ~raced'[q]
    BY <2>2, <2>3 DEF Leads, MigTypeOK
  <2>. QED BY <2>1, <2>3, <2>4, LeadsOn DEF MigStep
<1>. QED BY <1>1, <1>2

LEMMA CompleteBy ==
    ASSUME MigTypeOK, Alone, NEW p \in Procs, Up(p), MigStep(p), Stands(Last, Last)' PROVE Complete'
<1>1. \A q \in Procs : ~Down(q)
  BY NoneDown
<1>2. dir' = dir /\ \A q \in Procs \ {p} : mig'[q] = mig[q]
  BY StepApart
<1>3. \A q \in Procs : ~Down(q)'
  BY <1>1, <1>2 DEF Down, Working, Up
<1>. QED BY <1>3 DEF Complete, Stands, Versions

LEMMA ReadLeads ==
    ASSUME MigTypeOK, Alone, NEW p \in Procs, Up(p), GetExecutedMigrations(p), faults' = faults,
           NEW n \in 0 .. Last, NEW m \in 0 .. Last, At(n, m)
    PROVE  Complete' \/ Leads(p)'
<1>1. /\ mig'[p] = (IF todo'[p] = {} THEN "done" ELSE "sql")
      /\ todo'[p] = Versions \ ledger /\ raced'[p] = FALSE
      /\ UNCHANGED <<present, ledger, dir>>
  BY DEF GetExecutedMigrations, MigTypeOK, Moves, Up
<1>2. CASE todo'[p] = {}
  <2>1. Versions \subseteq ledger
    BY <1>1, <1>2
  <2>2. n = Last
    BY <2>1 DEF At, Stands, Versions, Last
  <2>3. m = Last
    BY <2>2, NoneDown DEF At, Last
  <2>. QED BY <1>1, <2>2, <2>3, CompleteBy DEF MigStep, At, Stands
<1>3. CASE todo'[p] # {}
  <2>1. Turn(p)' \in todo'[p]
    BY <1>1, <1>3, EndsOf DEF Turn
  <2>. QED BY <1>1, <1>3, <2>1 DEF Leads, Up, Working, Resting
<1>. QED BY <1>2, <1>3

LEMMA ExecuteLeads ==
    ASSUME MigTypeOK, Alone, NEW p \in Procs, Up(p), ExecuteMigration(p), faults' = faults,
           NEW n \in 0 .. Last, NEW m \in 0 .. Last, At(n, m), NEW q \in Procs, Leads(q)
    PROVE  \E r \in Procs : Leads(r)'
<1>1. mig[p] = "sql" /\ Possible(p)
  <2>1. mig[p] = "sql"
    BY DEF ExecuteMigration
  <2>2. m \in {n, n + 1}
    BY NoneDown DEF At
  <2>. QED BY <2>1, <2>2, EffectUp
<1>2. CASE Effect(p) /\ Commits(p) /\ Moves(p, "record") /\ UNCHANGED <<dir, todo>>
  <2>1. /\ ledger' = ledger /\ Turn(p)' = Turn(p) /\ mig'[p] = "record" /\ dir'[p] = "up"
    BY <1>2 DEF Effect, Up, Turn, Moves, MigTypeOK
  <2>2. Turn(p) \notin ledger => Leads(p)'
    BY <2>1 DEF Leads, Up, Working, Resting
  <2>3. CASE q = p
    BY <1>1, <2>2, <2>3 DEF Leads
  <2>4. CASE q # p /\ (mig[q] \in {"init", "sql"} => ~raced'[q])
    BY <2>1, <2>4, LeadsOn DEF MigStep
  <2>5. CASE q # p /\ mig[q] \in {"init", "sql"} /\ raced'[q]
    <3>1. mig[q] = "sql" /\ Turn(q) = Turn(p)
      BY <1>1, <1>2, <2>5 DEF Commits, Leads
    <3>. QED BY <2>2, <3>1 DEF Leads
  <2>. QED BY <2>3, <2>4, <2>5
<1>3. CASE Fault(p) /\ UNCHANGED <<present, ledger>> /\ GivesUp(p)
  <2>1. raced[p] /\ raced' = [raced EXCEPT ![p] = FALSE]
    BY <1>3 DEF Fault, GivesUp, MigTypeOK
  <2>2. q # p
    BY <1>1, <2>1 DEF Leads
  <2>3. mig[q] \in {"init", "sql"} => ~raced'[q]
    BY <2>1, <2>2 DEF Leads, MigTypeOK
  <2>. QED BY <1>3, <2>2, <2>3, LeadsOn DEF MigStep
<1>4. faults + 1 # faults
  BY DEF MigTypeOK
<1>. QED BY <1>1, <1>2, <1>3, <1>4 DEF ExecuteMigration

LEMMA RecordLeads ==
    ASSUME MigTypeOK, Alone, NEW p \in Procs, Up(p), RecordMigration(p), faults' = faults,
           NEW n \in 0 .. Last, NEW m \in 0 .. Last, At(n, m), NEW q \in Procs, Leads(q)
    PROVE  Complete' \/ \E r \in Procs : Leads(r)'
<1>1. mig[p] = "record" /\ UNCHANGED present /\ m \in {n, n + 1}
  BY NoneDown DEF RecordMigration, At
<1>2. CASE /\ RecordPossible(p) /\ Row(p)
           /\ todo' = [todo EXCEPT ![p] = @ \ {Turn(p)}]
           /\ Moves(p, IF todo'[p] = {} THEN "done" ELSE "sql")
           /\ raced' = [raced EXCEPT ![p] = FALSE] /\ UNCHANGED dir
  <2>1. n < Last /\ Stands(n + 1, n + 1)' /\ Turn(p) = n + 1 /\ todo[p] = (n + 1) .. Last
    BY <1>1, <1>2, RowUp
  <2>2. /\ todo'[p] = todo[p] \ {Turn(p)} /\ raced'[p] = FALSE /\ dir'[p] = "up"
        /\ mig'[p] = IF todo'[p] = {} THEN "done" ELSE "sql"
    BY <1>2 DEF MigTypeOK, Moves, Up
  <2>3. todo'[p] = (n + 2) .. Last
    BY <2>1, <2>2 DEF Last
  <2>4. CASE todo'[p] = {}
    <3>1. ~(n + 2 <= Last)
      <4>1. ASSUME n + 2 <= Last PROVE n + 2 \in (n + 2) .. Last
        BY <4>1 DEF Last
      <4>. QED BY <2>3, <2>4, <4>1
    <3>2. n + 1 = Last
      BY <2>1, <3>1 DEF Last
    <3>. QED BY <2>1, <3>2, CompleteBy DEF MigStep
  <2>5. CASE todo'[p] # {}
    <3>1. todo'[p] \in SUBSET Versions
      BY <2>3 DEF Versions, Last
    <3>2. Turn(p)' \in todo'[p]
      BY <2>5, <3>1, EndsOf DEF Turn
    <3>3. Turn(p)' \notin ledger'
      BY <2>1, <2>3, <3>2 DEF Stands, Last
    <3>4. Leads(p)'
      BY <2>2, <2>5, <3>3 DEF Leads, Up, Working, Resting
    <3>. QED BY <3>4
  <2>. QED BY <2>4, <2>5
<1>3. CASE ~RecordPossible(p) /\ UNCHANGED <<ledger, faults>> /\ GivesUp(p)
  <2>1. Turn(p) \in ledger
    BY <1>1, <1>3, RowUp DEF RecordPossible
  <2>2. q # p
    BY <1>1, <2>1 DEF Leads
  <2>3. mig[q] \in {"init", "sql"} => ~raced'[q]
    BY <1>3, <2>2 DEF Leads, GivesUp, MigTypeOK
  <2>. QED BY <1>3, <2>2, <2>3, LeadsOn DEF MigStep
<1>4. faults + 1 # faults
  BY DEF MigTypeOK
<1>. QED BY <1>1, <1>2, <1>3, <1>4 DEF RecordMigration

\* What is complete stays complete, and until then one process leads.
LEMMA UpDriven ==
    ASSUME MigTypeOK, Alone, NEW p \in Procs, Up(p), MigStep(p), faults' = faults,
           NEW n \in 0 .. Last, NEW m \in 0 .. Last, At(n, m), Driven
    PROVE  Driven'
<1>1. CASE Complete
  <2>1. n = Last /\ m = Last
    <3>1. Stands(Last, Last) /\ Last \in 0 .. Last
      BY <1>1 DEF Complete, Stands, Versions, Last
    <3>. QED BY <3>1, StandsOnce DEF At
  <2>2. PICK n1 \in 0 .. Last, m1 \in 0 .. Last : n <= n1 /\ m <= m1 /\ At(n1, m1)'
    BY UpAdvances DEF Advances
  <2>3. n1 = Last /\ m1 = Last
    BY <2>1, <2>2 DEF Last
  <2>. QED BY <2>2, <2>3, CompleteBy DEF At, Driven
<1>2. CASE \E q \in Procs : Leads(q)
  <2>. PICK q \in Procs : Leads(q)
    BY <1>2
  <2>1. CASE InitializeMigrationsTable(p)
    BY <2>1, InitLeads DEF Driven
  <2>2. CASE GetExecutedMigrations(p)
    BY <2>2, ReadLeads DEF Driven
  <2>3. CASE ExecuteMigration(p)
    BY <2>3, ExecuteLeads DEF Driven
  <2>4. CASE RecordMigration(p)
    BY <2>4, RecordLeads DEF Driven
  <2>. QED BY <2>1, <2>2, <2>3, <2>4 DEF MigStep
<1>3. ~Fresh
  BY DEF Fresh
<1>. QED BY <1>1, <1>2, <1>3 DEF Driven
-----------------------------------------------------------------------------
(* The calls themselves. *)

LEMMA MigrateHolds ==
    ASSUME MigInv, NEW p \in Procs, Migrate(p)
    PROVE  Driven' /\ \A n, m \in 0 .. Last : At(n, m) => Follows(n, m)
<1>1. /\ ~Working(p) /\ \A q \in Procs : ~Down(q)
      /\ mig'[p] = "init" /\ dir'[p] = "up" /\ raced'[p] = FALSE
      /\ UNCHANGED <<present, ledger>>
      /\ \A q \in Procs \ {p} : mig'[q] = mig[q] /\ dir'[q] = dir[q] /\ todo'[q] = todo[q]
  BY DEF MigInv, Migrate, Moves, MigTypeOK, Down
<1>2. Leads(p)'
  BY <1>1 DEF Leads, Up, Working, Resting
<1>3. ASSUME NEW n \in 0 .. Last, NEW m \in 0 .. Last, At(n, m) PROVE Follows(n, m)
  <2>1. m \in {n, n + 1} /\ n <= n /\ m <= m
    BY <1>1, <1>3 DEF At, Last
  <2>2. Stands(n, m)' /\ Climbing(p, n, m)'
    BY <1>1, <1>3 DEF At, Stands, Climbing
  <2>3. At(n, m)'
    BY <1>1, <1>3, <2>1, <2>2, ClimbOn
  <2>. QED BY <2>3 DEF Follows, Move
<1>. QED BY <1>2, <1>3 DEF Driven

LEMMA RollbackHolds ==
    ASSUME MigInv, NEW p \in Procs, Rollback(p), Sound', NEW n \in 0 .. Last, NEW m \in 0 .. Last, At(n, m)
    PROVE  Fresh' /\ Follows(n, m)
<1>1. /\ \A q \in Procs : ~Working(q)
      /\ mig'[p] = "init" /\ dir'[p] = "down" /\ UNCHANGED <<present, ledger, faults, crashes>>
      /\ \A q \in Procs \ {p} : mig'[q] = mig[q]
  BY DEF MigInv, Rollback, Moves, MigTypeOK
<1>2. Even(n, m)
  <2>1. CASE clean'
    <3>1. present = ledger
      BY <2>1, Zenon DEF Rollback
    <3>2. Stands(n, m) /\ Stands(m, n)
      BY <3>1 DEF At, Stands
    <3>. QED BY <3>2, StandsOnce DEF Even
  <2>2. CASE Faultless'
    <3>1. Complete \/ Fresh
      <4>1. Driven
        BY <1>1, <2>2 DEF MigInv, Faultless
      <4>. QED BY <1>1, <4>1 DEF Driven, Leads, Up
    <3>2. CASE Complete
      <4>1. Stands(Last, Last) /\ Last \in 0 .. Last
        BY <3>2 DEF Complete, Stands, Versions, Last
      <4>. QED BY <4>1, StandsOnce DEF At, Even
    <3>3. CASE Fresh
      BY <1>1, <3>3, StandsOnce DEF Fresh, At
    <3>. QED BY <3>1, <3>2, <3>3
  <2>. QED BY <2>1, <2>2 DEF Sound
<1>3. \A q \in Procs : ~Up(q)' /\ (Down(q)' => q = p)
  BY <1>1 DEF Up, Down, Working
<1>4. Working(p)' /\ Down(p)' /\ Descending(p, n, m)'
  BY <1>1, <1>2 DEF Working, Resting, Down, Descending
<1>5. At(n, m)' /\ Fresh'
  BY <1>1, <1>3, <1>4 DEF At, Stands, Fresh
<1>. QED BY <1>5 DEF Follows, Move
-----------------------------------------------------------------------------
Step(p) == Migrate(p) \/ Rollback(p) \/ MigStep(p) \/ Dies(p)

\* A step keeps the invariant and, as long as records and schema can be trusted, moves them by
\* one version at most.
LEMMA StepFollows ==
    ASSUME MigInv, NEW p \in Procs, Step(p), Sound', NEW n \in 0 .. Last, NEW m \in 0 .. Last, At(n, m)
    PROVE  Follows(n, m)
<1>. USE DEF MigInv
<1>1. CASE Migrate(p)
  BY <1>1, MigrateHolds
<1>2. CASE Rollback(p)
  BY <1>2, RollbackHolds
<1>3. CASE MigStep(p) \/ Dies(p)
  <2>1. Up(p) \/ Down(p)
    BY <1>3, StepApart, UpOrDown
  <2>2. CASE Up(p)
    BY <1>3, <2>2, UpAdvances DEF Advances, Follows
  <2>3. CASE Down(p)
    BY <1>3, <2>3, DownReverts DEF Reverts
  <2>. QED BY <2>1, <2>2, <2>3
<1>. QED BY <1>1, <1>2, <1>3 DEF Step

LEMMA StepHolds == ASSUME MigInv, NEW p \in Procs, Step(p) PROVE MigInv'
<1>1. Onward /\ Alone'
  BY TypeHolds, AloneHolds DEF MigInv, Step
<1>2. /\ Sound' => Sound
      /\ Faultless' => Faultless /\ faults' = faults /\ crashes' = crashes
  BY <1>1, SoundBefore DEF MigInv, Onward
<1>3. Sound' => \E n, m \in 0 .. Last : At(n, m)'
  BY <1>2, StepFollows DEF MigInv, Follows
<1>4. ASSUME Faultless' PROVE Driven'
  <2>1. PICK n \in 0 .. Last, m \in 0 .. Last : At(n, m)
    BY <1>2, <1>4 DEF MigInv, Sound
  <2>2. Sound' /\ Driven /\ faults' = faults /\ crashes' = crashes
    BY <1>2, <1>4 DEF MigInv, Sound
  <2>3. ~Dies(p)
    BY <2>2 DEF Dies, MigInv, MigTypeOK
  <2>4. CASE MigStep(p)
    <3>1. Up(p) \/ Down(p)
      BY <2>4, StepApart, UpOrDown DEF MigInv
    <3>2. CASE Up(p)
      BY <2>1, <2>2, <2>4, <3>2, UpDriven DEF MigInv
    <3>3. CASE Down(p)
      BY <2>1, <2>2, <2>4, <3>3, DownReverts DEF MigInv, Reverts, Driven
    <3>. QED BY <3>1, <3>2, <3>3
  <2>. QED BY <2>1, <2>2, <2>3, <2>4, MigrateHolds, RollbackHolds DEF Step, Driven
<1>. QED BY <1>1, <1>3, <1>4 DEF MigInv, Onward

LEMMA StutterHolds == ASSUME MigInv, UNCHANGED migVars PROVE MigInv'
<1>1. MigTypeOK' /\ Listed' /\ Alone'
  BY DEF MigInv, migVars, MigTypeOK, Listed, Alone, Down, Working
<1>2. Sound' = Sound /\ Faultless' = Faultless
  BY DEF migVars, Sound, Faultless
<1>3. ASSUME NEW n \in 0 .. Last, NEW m \in 0 .. Last, At(n, m) PROVE At(n, m)'
  BY <1>3 DEF migVars, At, Stands, Up, Down, Working, Climbing, Descending
<1>4. Driven => Driven'
  BY DEF migVars, Driven, Complete, Fresh, Stands, Leads, Up, Down, Working, Turn
<1>. QED BY <1>1, <1>2, <1>3, <1>4 DEF MigInv

LEMMA MigNextHolds == MigInv /\ [MigNext]_migVars => MigInv'
<1>. SUFFICES ASSUME MigInv, [MigNext]_migVars PROVE MigInv'
  OBVIOUS
<1>1. CASE MigNext
  <2>1. \E p \in Procs : Step(p)
    BY <1>1, ProcsAssumption DEF MigNext, Step, Crash
  <2>. QED BY <2>1, StepHolds
<1>. QED BY <1>1, StutterHolds
-----------------------------------------------------------------------------
\* Whatever is lost, repeated or crashes, types and the order of the statements hold, records and
\* schema stay the first versions of the list while they can be trusted, and a process leads.
THEOREM MigInvHolds == MigSpec => []MigInv
<1>. QED BY MigInitHolds, MigNextHolds, PTL DEF MigSpec

LEMMA SoundIsPresent == MigInv => RecordedIsPresent
<1>. SUFFICES ASSUME MigInv, clean, \A p \in Procs : Working(p) => dir[p] = "up"
              PROVE  ledger \subseteq present
  BY DEF RecordedIsPresent
<1>1. PICK n \in 0 .. Last, m \in 0 .. Last : At(n, m)
  BY DEF MigInv, Sound
<1>2. m \in {n, n + 1}
  BY <1>1 DEF At, Down
<1>. QED BY <1>1, <1>2 DEF At, Stands, Last

LEMMA DrivenGetsThrough == MigInv => OneGetsThrough
<1>. SUFFICES ASSUME MigInv, Faultless, \A p \in Procs : ~Working(p) /\ dir[p] = "up",
                     \E p \in Procs : mig[p] # "idle"
              PROVE  ledger = Versions /\ present = Versions
  BY DEF OneGetsThrough, Faultless
<1>1. ~Fresh /\ ~\E p \in Procs : Leads(p)
  BY DEF Fresh, Leads, Up
<1>. QED BY <1>1 DEF MigInv, Driven, Complete

\* Whatever fails, crashes or is repeated, a version that is recorded is in the schema, unless a
\* rollback is taking it away or has been cut short.
THEOREM RecordedIsPresentHolds == MigSpec => []RecordedIsPresent
BY MigInvHolds, SoundIsPresent, PTL

\* Processes may refuse one another's statements, but without faults not all of them: when all have
\* ended, schema and records are complete.
THEOREM OneGetsThroughHolds == MigSpec => []OneGetsThrough
BY MigInvHolds, DrivenGetsThrough, PTL

\* Only an answer of the table of records, or the last record, makes a call resolve.
LEMMA StepIsDone ==
    ASSUME MigInv, NEW r \in Procs, Step(r), NEW p \in Procs,
           clean', dir[p] = "up", Working(p), mig'[p] = "done"
    PROVE  ledger' = Versions /\ present' = Versions
<1>1. ~Migrate(r) /\ ~Rollback(r) /\ ~Dies(r)
  BY DEF Migrate, Rollback, Dies, Moves, MigInv, MigTypeOK, Working, Resting
<1>2. r = p /\ MigStep(p)
  BY <1>1, StepApart DEF Step, MigInv, Working, Resting
<1>3. Up(p) /\ ~InitializeMigrationsTable(p) /\ ~ExecuteMigration(p)
  BY DEF Up, InitializeMigrationsTable, ExecuteMigration, GivesUp, Moves, MigInv, MigTypeOK
<1>4. PICK n \in 0 .. Last, m \in 0 .. Last : At(n, m)
  <2>1. Onward
    BY <1>2, TypeHolds DEF MigInv
  <2>. QED BY <2>1 DEF MigInv, Sound, Onward
<1>5. m \in {n, n + 1}
  BY <1>3, <1>4, NoneDown DEF MigInv, At
<1>6. CASE GetExecutedMigrations(p)
  <2>1. PICK rows \in {ledger, {}} : todo'[p] = Versions \ rows
    BY <1>6 DEF GetExecutedMigrations, MigInv, MigTypeOK
  <2>2. UNCHANGED <<present, ledger>> /\ todo'[p] = {}
    BY <1>6 DEF GetExecutedMigrations, MigInv, MigTypeOK, Moves
  <2>3. Versions \subseteq rows
    BY <2>1, <2>2
  <2>4. Versions # {} /\ Last \in Versions
    BY DEF Versions, Last
  <2>5. Last \in 1 .. n
    BY <1>4, <2>1, <2>3, <2>4 DEF At, Stands
  <2>6. n = Last /\ m = Last
    BY <1>5, <2>5 DEF Last
  <2>. QED BY <1>4, <2>2, <2>6 DEF At, Stands, Versions
<1>7. CASE RecordMigration(p)
  <2>1. /\ RecordPossible(p) /\ Row(p) /\ UNCHANGED present /\ mig[p] = "record"
        /\ todo'[p] = todo[p] \ {Turn(p)} /\ todo'[p] = {}
    BY <1>7 DEF RecordMigration, GivesUp, MigInv, MigTypeOK, Moves
  <2>2. n < Last /\ Turn(p) = n + 1 /\ todo[p] = (n + 1) .. Last /\ Stands(n + 1, n + 1)'
    BY <1>3, <1>4, <1>5, <2>1, RowUp
  <2>3. Last \in (n + 1) .. Last
    BY <2>2 DEF Last
  <2>4. Last = n + 1
    BY <2>1, <2>2, <2>3
  <2>. QED BY <2>2, <2>4 DEF Stands, Versions
<1>. QED BY <1>2, <1>3, <1>6, <1>7 DEF MigStep

\* A call of migrate() that resolves leaves every version recorded and present, whatever was lost or
\* repeated before.
THEOREM DoneIsDoneHolds == MigSpec => DoneIsDone
<1>1. MigInv /\ [MigNext]_migVars =>
        [\A p \in Procs :
            clean' /\ dir[p] = "up" /\ Working(p) /\ mig'[p] = "done"
               => ledger' = Versions /\ present' = Versions]_migVars
  <2>. SUFFICES ASSUME MigInv, MigNext, NEW p \in Procs,
                       clean', dir[p] = "up", Working(p), mig'[p] = "done"
                PROVE  ledger' = Versions /\ present' = Versions
    OBVIOUS
  <2>1. \E r \in Procs : Step(r)
    BY ProcsAssumption DEF MigNext, Step, Crash
  <2>. QED BY <2>1, StepIsDone
<1>. QED BY <1>1, MigInvHolds, PTL DEF MigSpec, DoneIsDone
-----------------------------------------------------------------------------
(* Records and schema, counted. *)

LEMMA Counted ==
    ASSUME NEW S \in SUBSET Versions
    PROVE  Cardinality(S) \in 0 .. Last /\ \A n \in 0 .. Last : S = 1 .. n => Cardinality(S) = n
<1>1. IsFiniteSet(Versions) /\ \A n \in 0 .. Last : Cardinality(1 .. n) = n
  <2>1. ASSUME NEW n \in 0 .. Last PROVE Cardinality(1 .. n) = n
    <3>1. 1 \in Int /\ n \in Int
      BY DEF Last
    <3>2. Cardinality(1 .. n) = IF 1 > n THEN 0 ELSE n - 1 + 1
      BY <3>1, FS_Interval
    <3>. QED BY <3>2 DEF Last
  <2>2. IsFiniteSet(1 .. Last)
    <3>1. 1 \in Int /\ Last \in Int
      BY DEF Last
    <3>. QED BY <3>1, FS_Interval
  <2>. QED BY <2>1, <2>2 DEF Versions
<1>2. IsFiniteSet(S) /\ Cardinality(S) <= Cardinality(Versions)
  BY <1>1, FS_Subset
<1>3. Cardinality(Versions) = Last
  BY <1>1 DEF Versions, Last
<1>4. Cardinality(S) \in Nat
  BY <1>2, FS_CardinalityType
<1>. QED BY <1>1, <1>2, <1>3, <1>4 DEF Last

LEMMA StandsCounted ==
    ASSUME MigTypeOK, NEW n \in 0 .. Last, NEW m \in 0 .. Last, Stands(n, m)
    PROVE  Cardinality(ledger) = n /\ Cardinality(present) = m
BY Counted DEF MigTypeOK, Stands

LEMMA StepUpgrades == ASSUME MigInv, NEW p \in Procs, Step(p) PROVE [Upgrade!Next]_(Upgrade!vars)
<1>1. MigInv'
  BY StepHolds
<1>2. Onward
  BY TypeHolds DEF MigInv, Step
<1>3. CASE ~clean'
  <2>1. Cardinality(present') \in 0 .. Last /\ Cardinality(ledger') \in 0 .. Last
    BY <1>1, Counted DEF MigInv, MigTypeOK
  <2>. QED BY <1>3, <2>1 DEF Upgrade!Next, Upgrade!Lost
<1>4. CASE clean'
  <2>1. clean /\ Sound /\ Sound'
    BY <1>2, <1>4 DEF Onward, Sound
  <2>2. PICK n \in 0 .. Last, m \in 0 .. Last : At(n, m)
    BY <2>1 DEF MigInv
  <2>3. PICK n1 \in 0 .. Last, m1 \in 0 .. Last : At(n1, m1)' /\ Move(n, m, n1, m1)
    BY <2>1, <2>2, StepFollows DEF Follows
  <2>4. Cardinality(ledger) = n /\ Cardinality(present) = m
    BY <2>2, StandsCounted DEF MigInv, At
  <2>5. Cardinality(ledger') = n1 /\ Cardinality(present') = m1
    BY <1>1, <2>3, Counted DEF MigInv, MigTypeOK, At, Stands
  <2>6. CASE n1 = n /\ m1 = m
    BY <1>1, <1>4, <2>1, <2>4, <2>5, <2>6 DEF Upgrade!vars, MigInv, MigTypeOK
  <2>7. CASE m = n /\ n1 = n /\ m1 = n - 1
    <3>1. Upgrade!Revert
      BY <2>4, <2>5, <2>7 DEF Upgrade!Revert, Last
    <3>. QED BY <1>4, <2>1, <3>1 DEF Upgrade!Next, Upgrade!Trusted
  <2>8. CASE m = n /\ n1 = n /\ m1 = n + 1
    <3>1. Upgrade!Apply
      BY <2>4, <2>5, <2>8 DEF Upgrade!Apply, Last
    <3>. QED BY <1>4, <2>1, <3>1 DEF Upgrade!Next, Upgrade!Trusted
  <2>9. CASE m1 = m /\ n1 = m /\ n = m - 1
    <3>1. Upgrade!Record
      BY <2>4, <2>5, <2>9 DEF Upgrade!Record, Last
    <3>. QED BY <1>4, <2>1, <3>1 DEF Upgrade!Next, Upgrade!Trusted
  <2>10. CASE m1 = m /\ n1 = m /\ n = m + 1
    <3>1. Upgrade!Forget
      BY <2>4, <2>5, <2>10 DEF Upgrade!Forget, Last
    <3>. QED BY <1>4, <2>1, <3>1 DEF Upgrade!Next, Upgrade!Trusted
  <2>11. CASE m = 1 /\ n <= 1 /\ n1 = 0 /\ m1 = 0
    <3>1. Upgrade!DropLedger
      BY <2>4, <2>5, <2>11 DEF Upgrade!DropLedger
    <3>. QED BY <1>4, <2>1, <3>1 DEF Upgrade!Next, Upgrade!Trusted
  <2>. QED BY <2>3, <2>6, <2>7, <2>8, <2>9, <2>10, <2>11 DEF Move
<1>. QED BY <1>2, <1>3, <1>4 DEF Onward, MigTypeOK

LEMMA InitUpgrades == MigInit => Upgrade!Init
BY FS_EmptySet DEF MigInit, Upgrade!Init

LEMMA NextUpgrades == MigInv /\ [MigNext]_migVars => [Upgrade!Next]_(Upgrade!vars)
<1>1. CASE UNCHANGED migVars
  BY <1>1 DEF migVars, Upgrade!vars
<1>2. ASSUME MigInv, MigNext PROVE [Upgrade!Next]_(Upgrade!vars)
  <2>1. \E p \in Procs : Step(p)
    BY <1>2, ProcsAssumption DEF MigNext, Step, Crash
  <2>. QED BY <1>2, <2>1, StepUpgrades
<1>. QED BY <1>1, <1>2

\* However many processes migrate, crash and roll back, statement by statement, together they do
\* what SchemaUpgrade says: schema and records move by one version, in order.
THEOREM MigrationsUpgrade == MigSpec => UpgradeSpec
BY MigInvHolds, InitUpgrades, NextUpgrades, PTL DEF MigSpec, UpgradeSpec, Upgrade!Spec
-----------------------------------------------------------------------------
(* The end of the process.                                                 *)

Typed ==
    /\ stop \in [Signals -> {"none", "queued", "quit", "end", "close"}]
    /\ req \in [Reqs -> {"none", "handling", "waiting", "querying"}]

\* What is closed has nothing to answer and takes nothing any more.
Quiet == fastify = "closed" => \A r \in Reqs : req[r] = "none"

\* Somebody has asked for the end of the pool, and is past that.
PoolStopped == pool # "open" => \E s \in Signals : stop[s] \in {"end", "close"}

\* A call of stop() is past the pool when it has ended, or when another call is ending it.
PastThePool ==
    \A s \in Signals : stop[s] = "close" =>
        pool = "ended" \/ \E t \in Signals \ {s} : stop[t] # "none"

\* A pool that has ended has waited for the statement that was running.
NothingRuns == pool = "ended" => ~statement

IInv == Typed /\ Quiet /\ PoolStopped /\ PastThePool /\ NothingRuns
-----------------------------------------------------------------------------
LEMMA InitHolds == Init => IInv
BY DEF Init, IInv, Typed, Quiet, PoolStopped, PastThePool, NothingRuns

LEMMA ExitHolds == ASSUME IInv, NEW code, Exit(code) PROVE IInv'
BY DEF Exit, pgVars, IInv, Typed, Quiet, PoolStopped, PastThePool, NothingRuns

LEMMA BootHolds == ASSUME IInv, Boot \/ BootFails \/ UncaughtError PROVE IInv'
<1>1. CASE Boot
  <2>1. UNCHANGED <<pool, statement, req, stop>> /\ (fastify' = "closed" => fastify = "closed")
    BY <1>1 DEF Boot, RegisterPlugins, RedisDecided, PostgresDecided, Listen, RunQueued, pgVars
  <2>. QED BY <2>1 DEF IInv, Typed, Quiet, PoolStopped, PastThePool, NothingRuns
<1>2. CASE BootFails \/ UncaughtError
  BY <1>2, ExitHolds DEF BootFails, UncaughtError
<1>. QED BY <1>1, <1>2

\* The pool ends only when no statement is on its way.
LEMMA StoresHolds == ASSUME IInv, Stores PROVE IInv'
<1>1. UNCHANGED <<fastify, req, stop>>
  BY DEF Stores, PostgresConnects, SelectEnds, MigrationStep, PostgresInitialized,
         PoolEnds, JobQueries, JobQueryEnds
<1>2. CASE PoolEnds
  <2>1. pool # "open" /\ pool' = "ended" /\ ~statement /\ statement' = statement
    BY <1>2 DEF PoolEnds, AllBack
  <2>. QED BY <1>1, <2>1 DEF IInv, Typed, Quiet, PoolStopped, PastThePool, NothingRuns
<1>3. CASE ~PoolEnds
  <2>1. pool' = pool /\ (statement' = statement \/ ~statement')
    BY <1>3 DEF Stores, PostgresConnects, SelectEnds, MigrationStep,
                PostgresInitialized, JobQueries, JobQueryEnds, pgVars
  <2>. QED BY <1>1, <2>1 DEF IInv, Typed, Quiet, PoolStopped, PastThePool, NothingRuns
<1>. QED BY <1>2, <1>3

LEMMA RequestsHold ==
    ASSUME IInv, NEW r \in Reqs, Request(r) \/ Closes PROVE IInv'
<1>1. CASE Closes
  BY <1>1 DEF Closes, pgVars, IInv, Typed, Quiet, PoolStopped, PastThePool, NothingRuns
<1>2. CASE Request(r)
  <2>1. /\ fastify = "listening" \/ req[r] # "none"
        /\ \E q \in {"none", "handling", "waiting", "querying"} : req' = [req EXCEPT ![r] = q]
    BY <1>2 DEF Request, Accept, Queries, QueryEnds, Answer
  <2>2. UNCHANGED <<pool, statement, fastify, stop>>
    BY <1>2 DEF Request, Accept, Queries, QueryEnds, Answer, pgVars
  <2>3. Typed'
    BY <2>1, <2>2 DEF IInv, Typed
  <2>4. Quiet'
    BY <2>1, <2>2 DEF IInv, Quiet
  <2>. QED BY <2>2, <2>3, <2>4 DEF IInv, PoolStopped, PastThePool, NothingRuns
<1>. QED BY <1>1, <1>2

LEMMA SignalHolds == ASSUME IInv, NEW s \in Signals, Signal(s) \/ QuitFlushed(s) PROVE IInv'
<1>1. /\ stop[s] \notin {"end", "close"}
      /\ \E w \in {"queued", "quit"} : stop' = [stop EXCEPT ![s] = w]
      /\ UNCHANGED <<pool, statement, fastify, req>>
  BY DEF Signal, QuitFlushed, pgVars
<1>2. PICK w \in {"queued", "quit"} : \A t \in Signals : stop'[t] = IF t = s THEN w ELSE stop[t]
  BY <1>1 DEF IInv, Typed
<1>3. Typed' /\ Quiet' /\ NothingRuns'
  BY <1>1 DEF IInv, Typed, Quiet, NothingRuns
<1>4. PoolStopped'
  BY <1>1, <1>2 DEF IInv, PoolStopped
<1>5. PastThePool'
  BY <1>1, <1>2 DEF IInv, PastThePool
<1>. QED BY <1>3, <1>4, <1>5 DEF IInv

LEMMA RedisQuitsHolds == ASSUME IInv, NEW s \in Signals, RedisQuits(s) PROVE IInv'
<1>1. stop[s] = "quit" /\ UNCHANGED req /\ (fastify' = "closed" => fastify = "closed")
  BY DEF RedisQuits
<1>2. CASE pool = "open" /\ pool' = "ending" /\ stop' = [stop EXCEPT ![s] = "end"]
  <2>1. \A t \in Signals : stop'[t] = IF t = s THEN "end" ELSE stop[t]
    BY <1>2 DEF IInv, Typed
  <2>2. PastThePool'
    BY <1>2, <2>1 DEF IInv, PastThePool
  <2>3. PoolStopped'
    BY <2>1 DEF PoolStopped
  <2>. QED BY <1>1, <1>2, <2>2, <2>3 DEF IInv, Typed, Quiet, NothingRuns
<1>3. CASE pool # "open" /\ stop' = [stop EXCEPT ![s] = "close"] /\ UNCHANGED <<pool, statement>>
  <2>1. \A t \in Signals : stop'[t] = IF t = s THEN "close" ELSE stop[t]
    BY <1>3 DEF IInv, Typed
  <2>2. PICK t \in Signals : stop[t] \in {"end", "close"}
    BY <1>3 DEF IInv, PoolStopped
  <2>3. t # s /\ stop'[t] # "none"
    BY <1>1, <2>1, <2>2
  <2>4. PastThePool'
    BY <1>3, <2>1, <2>3 DEF IInv, PastThePool
  <2>5. PoolStopped'
    BY <2>1 DEF PoolStopped
  <2>. QED BY <1>1, <1>3, <2>4, <2>5 DEF IInv, Typed, Quiet, NothingRuns
<1>. QED BY <1>2, <1>3 DEF RedisQuits

LEMMA PostgresEndedHolds == ASSUME IInv, NEW s \in Signals, PostgresEnded(s) PROVE IInv'
<1>1. /\ pool = "ended" /\ stop' = [stop EXCEPT ![s] = "close"]
      /\ UNCHANGED <<pool, statement, req>> /\ (fastify' = "closed" => fastify = "closed")
  BY DEF PostgresEnded, pgVars
<1>2. Typed' /\ Quiet'
  BY <1>1 DEF IInv, Typed, Quiet
<1>3. stop'[s] = "close"
  BY <1>1 DEF IInv, Typed
<1>. QED BY <1>1, <1>2, <1>3 DEF IInv, PoolStopped, PastThePool, NothingRuns

LEMMA NextHolds == IInv /\ [Next]_vars => IInv'
<1>. SUFFICES ASSUME IInv, [Next]_vars PROVE IInv'
  OBVIOUS
<1>1. CASE UNCHANGED restVars
  BY <1>1 DEF restVars, pgVars, IInv, Typed, Quiet, PoolStopped, PastThePool, NothingRuns
<1>2. CASE Closes
  BY <1>2 DEF Closes, pgVars, IInv, Typed, Quiet, PoolStopped, PastThePool, NothingRuns
<1>3. CASE \E s \in Signals : Signal(s) \/ QuitFlushed(s) \/ Stop(s)
  <2>. PICK s \in Signals : Signal(s) \/ QuitFlushed(s) \/ Stop(s)
    BY <1>3
  <2>1. CASE ExitsGracefully(s)
    BY <2>1, ExitHolds DEF ExitsGracefully
  <2>. QED BY <2>1, SignalHolds, RedisQuitsHolds, PostgresEndedHolds DEF Stop
<1>. QED BY <1>1, <1>2, <1>3, BootHolds, StoresHolds, RequestsHold DEF Next, Others, vars

\* The exit itself: the one who is alone has waited for the end of the pool.
LEMMA ExitIsClean ==
    ASSUME IInv, Next, exit = "none", exit' = "0"
    PROVE  /\ \A r \in Reqs : req[r] = "none"
           /\ Cardinality({s \in Signals : stop[s] # "none"}) = 1 =>
                 pool = "ended" /\ UNCHANGED <<present, ledger>>
<1>1. PICK s \in Signals : ExitsGracefully(s)
  <2>1. ~UNCHANGED exit
    OBVIOUS
  <2>2. ~Others
    BY <2>1 DEF Others, restVars
  <2>3. ~(Boot \/ Stores \/ Closes)
    BY <2>1 DEF Boot, RegisterPlugins, RedisDecided, PostgresDecided, Listen, RunQueued, Stores,
                PostgresConnects, SelectEnds, MigrationStep, PostgresInitialized,
                PoolEnds, JobQueries, JobQueryEnds, Closes
  <2>4. ~BootFails /\ ~UncaughtError
    BY DEF BootFails, UncaughtError, Exit
  <2>5. ~\E r \in Reqs : Request(r)
    BY <2>1 DEF Request, Accept, Queries, QueryEnds, Answer
  <2>6. ~\E t \in Signals : Signal(t) \/ QuitFlushed(t) \/ RedisQuits(t) \/ PostgresEnded(t)
    BY <2>1 DEF Signal, QuitFlushed, RedisQuits, PostgresEnded
  <2>. QED BY <2>2, <2>3, <2>4, <2>5, <2>6 DEF Next, Stop
<1>2. stop[s] = "close" /\ fastify = "closed" /\ Exit("0")
  BY <1>1 DEF ExitsGracefully
<1>3. ASSUME Cardinality({t \in Signals : stop[t] # "none"}) = 1
      PROVE  pool = "ended" /\ UNCHANGED <<present, ledger>>
  <2>. DEFINE S == {t \in Signals : stop[t] # "none"}
  <2>1. IsFiniteSet(S)
    BY SignalsAssumption, FS_Subset
  <2>2. PICK x : S = {x}
    BY <1>3, <2>1, FS_Singleton
  <2>3. s \in S
    BY <1>2
  <2>4. ~\E t \in Signals \ {s} : stop[t] # "none"
    BY <2>2, <2>3
  <2>5. pool = "ended"
    BY <1>2, <2>4 DEF IInv, PastThePool
  <2>6. ~OnItsWay
    BY <2>5 DEF IInv, NothingRuns, OnItsWay
  <2>. QED BY <1>2, <2>5, <2>6 DEF Exit, Refused, migVars
<1>. QED BY <1>2, <1>3 DEF IInv, Quiet

\* Exit code 0 cuts no request short and, for a single signal, no statement either, whenever the
\* signal comes and however many requests are being served.
THEOREM CleanExitHolds == Spec => CleanExit
<1>1. IInv /\ [Next]_vars =>
        [exit = "none" /\ exit' = "0" =>
             /\ \A r \in Reqs : req[r] = "none"
             /\ Cardinality({s \in Signals : stop[s] # "none"}) = 1 =>
                   pool = "ended" /\ UNCHANGED <<present, ledger>>]_vars
  BY ExitIsClean
<1>. QED BY InitHolds, NextHolds, <1>1, PTL DEF Spec, CleanExit
-----------------------------------------------------------------------------
(* The migrations of the REST service's process, which its pool refuses    *)
(* when it has ended.                                                      *)

LEMMA RefusedFollows ==
    ASSUME MigInv, dir[Rest] = "up", Working(Rest), Refused,
           NEW n \in 0 .. Last, NEW m \in 0 .. Last, At(n, m)
    PROVE  At(n, m)'
<1>1. Up(Rest) /\ \A q \in Procs : ~Down(q)
  BY RestAssumption, NoneDown DEF Up, MigInv
<1>2. /\ mig'[Rest] = "failed" /\ UNCHANGED <<present, ledger, dir>>
      /\ \A q \in Procs \ {Rest} : mig'[q] = mig[q] /\ todo'[q] = todo[q]
  BY RestAssumption DEF Refused, GivesUp, Moves, MigInv, MigTypeOK
<1>3. Stands(n, m)' /\ Climbing(Rest, n, m)'
  BY <1>2 DEF At, Stands, Climbing
<1>4. m \in {n, n + 1} /\ n <= n /\ m <= m
  BY <1>1 DEF At, Last
<1>5. dir'[Rest] = "up" /\ \A q \in Procs \ {Rest} : dir'[q] = dir[q]
  BY <1>2
<1>. QED BY RestAssumption, <1>1, <1>2, <1>3, <1>4, <1>5, ClimbOn

LEMMA RefusedHolds == ASSUME MigInv, dir[Rest] = "up", Working(Rest), Refused PROVE MigInv'
<1>1. Onward
  BY RestAssumption, FailureTyped DEF Refused, MigInv, MigTypeOK
<1>2. Alone'
  <2>1. /\ mig'[Rest] = "failed" /\ dir' = dir /\ \A q \in Procs \ {Rest} : mig'[q] = mig[q]
    BY RestAssumption DEF Refused, GivesUp, Moves, MigInv, MigTypeOK
  <2>2. \A q \in Procs : (Down(q)' => Down(q)) /\ (Working(q)' => Working(q))
    BY <2>1 DEF Down, Working
  <2>. QED BY <2>2 DEF Alone, MigInv
<1>3. ~Faultless'
  BY DEF Refused, Faultless, MigInv, MigTypeOK
<1>4. Sound' => \E n, m \in 0 .. Last : At(n, m)'
  BY <1>1, <1>3, RefusedFollows DEF Sound, MigInv, Onward
<1>. QED BY <1>1, <1>2, <1>3, <1>4 DEF MigInv, Onward

LEMMA Migrates ==
    ASSUME Next
    PROVE  \/ \E p \in Procs : Step(p)
           \/ Working(Rest) /\ Refused
           \/ UNCHANGED migVars
<1>1. ASSUME NEW code, Exit(code)
      PROVE  Step(Rest) \/ (Working(Rest) /\ Refused) \/ UNCHANGED migVars
  BY <1>1 DEF Exit, Step
<1>2. CASE BootFails \/ UncaughtError \/ \E s \in Signals : ExitsGracefully(s)
  BY <1>1, <1>2, RestAssumption DEF BootFails, UncaughtError, ExitsGracefully
<1>3. CASE Boot
  BY <1>3 DEF Boot, RegisterPlugins, RedisDecided, PostgresDecided, Listen, RunQueued
<1>4. CASE Stores
  BY <1>4, RestAssumption DEF Stores, PostgresConnects, SelectEnds, MigrationStep,
            PostgresInitialized, PoolEnds, JobQueries, JobQueryEnds, Step
<1>5. CASE Others
  BY <1>5, ProcsAssumption DEF Others, Step, Crash
<1>6. CASE Closes \/ \E r \in Reqs : Request(r)
  BY <1>6 DEF Closes, Request, Accept, Queries, QueryEnds, Answer
<1>7. CASE \E s \in Signals : Signal(s) \/ QuitFlushed(s) \/ RedisQuits(s) \/ PostgresEnded(s)
  BY <1>7 DEF Signal, QuitFlushed, RedisQuits, PostgresEnded
<1>. QED BY <1>2, <1>3, <1>4, <1>5, <1>6, <1>7 DEF Next, Stop
-----------------------------------------------------------------------------
\* Postgres is awaited before it is in time, and migrates in between.
Awaited ==
    /\ boot \in {"plugins", "redis"} => postgres = "none"
    /\ inTime => postgres = "over"
    /\ Working(Rest) => postgres = "migrating"
    /\ dir \in [Procs -> {"up", "down"}] /\ mig \in [Procs -> Resting \cup {"init", "read", "sql", "record"}]
    /\ dir[Rest] = "up" /\ rollbacks \in Nat
    /\ rollbacks = 0 => \A p \in Procs : dir[p] = "up"

LEMMA InitAwaited == Init => Awaited
BY RestAssumption DEF Init, MigInit, Awaited, Working, Resting

\* A step of another process leaves this one where it is.
LEMMA OthersAwaited == ASSUME MigInv, Awaited, Others PROVE Awaited'
<1>1. UNCHANGED <<boot, postgres, inTime>>
  BY DEF Others, restVars, pgVars
<1>2. CASE \E p \in Operators \ {Rest} : Rollback(p)
  BY <1>1, <1>2, ProcsAssumption, RestAssumption
     DEF Awaited, Rollback, Moves, Working, Resting
<1>3. CASE \E p \in Procs \ {Rest} : Migrate(p)
  BY <1>1, <1>3, RestAssumption DEF Awaited, Migrate, Moves, Working, Resting
<1>4. CASE \E p \in Procs \ {Rest} : MigStep(p) \/ Dies(p)
  <2>. PICK p \in Procs \ {Rest} : MigStep(p) \/ Dies(p)
    BY <1>4
  <2>1. dir' = dir /\ mig'[Rest] = mig[Rest] /\ MigTypeOK'
    BY RestAssumption, StepApart, TypeHolds DEF MigInv, Onward
  <2>2. rollbacks' = rollbacks
    BY DEF MigStep, Dies, InitializeMigrationsTable, GetExecutedMigrations, ExecuteMigration,
           RecordMigration, GivesUp
  <2>. QED BY <1>1, <2>1, <2>2 DEF Awaited, Working, MigTypeOK
<1>. QED BY <1>2, <1>3, <1>4 DEF Others, Crash

\* What a step of its own migrations leaves as it is, also the last one.
LEMMA RestMoves ==
    ASSUME MigInv, Awaited, MigStep(Rest) \/ Dies(Rest) \/ (Working(Rest) /\ Refused)
    PROVE  Working(Rest) /\ dir' = dir /\ rollbacks' = rollbacks /\ MigTypeOK'
<1>1. dir' = dir /\ MigTypeOK' /\ Working(Rest)
  <2>1. CASE MigStep(Rest) \/ Dies(Rest)
    BY <2>1, RestAssumption, StepApart, TypeHolds DEF MigInv, Onward
  <2>2. CASE Working(Rest) /\ Refused
    BY <2>2, RefusedHolds DEF MigInv, Refused, GivesUp, Awaited
  <2>. QED BY <2>1, <2>2
<1>2. rollbacks' = rollbacks
  BY DEF MigStep, Dies, InitializeMigrationsTable, GetExecutedMigrations, ExecuteMigration,
         RecordMigration, GivesUp, Refused
<1>. QED BY <1>1, <1>2

LEMMA RestStepAwaited ==
    ASSUME MigInv, Awaited, MigStep(Rest) \/ (Working(Rest) /\ Refused),
           UNCHANGED <<boot, postgres, inTime>>
    PROVE  Awaited'
BY RestMoves DEF Awaited, MigTypeOK

\* A process that has gone does not migrate.
LEMMA ExitRests ==
    ASSUME MigInv, Awaited, NEW code, Exit(code)
    PROVE  ~Working(Rest)'
BY RestAssumption DEF Exit, Dies, Refused, GivesUp, Moves, Working, Resting, Awaited, migVars

LEMMA NextAwaited == ASSUME MigInv, Awaited, Next PROVE Awaited'
<1>1. CASE Boot
  <2>1. UNCHANGED migVars
    BY <1>1 DEF Boot, RegisterPlugins, RedisDecided, PostgresDecided, Listen, RunQueued
  <2>2. /\ boot' \in {"plugins", "redis"} => postgres' = "none"
        /\ inTime' => postgres' = "over"
        /\ postgres = "migrating" => postgres' = "migrating"
    <3>1. CASE PostgresDecided
      <4>1. boot' = "listen" /\ postgres' = postgres
        BY <3>1 DEF PostgresDecided, pgVars
      <4>2. inTime' => postgres = "over"
        BY <3>1, Zenon DEF PostgresDecided
      <4>. QED BY <4>1, <4>2
    <3>. QED BY <1>1, <3>1 DEF Boot, RegisterPlugins, RedisDecided, Listen, RunQueued, pgVars, Awaited
  <2>. QED BY <2>1, <2>2 DEF Awaited, migVars, Working
<1>2. CASE \E code : Exit(code)
  <2>1. boot' = "plugins" /\ postgres' = "none" /\ ~inTime' /\ ~Working(Rest)'
    BY <1>2, ExitRests DEF Exit
  <2>2. CASE UNCHANGED migVars
    BY <2>1, <2>2 DEF migVars, Awaited
  <2>3. CASE Dies(Rest) \/ (Working(Rest) /\ Refused)
    BY <2>1, <2>3, RestMoves DEF Awaited, MigTypeOK
  <2>. QED BY <1>2, <2>2, <2>3 DEF Exit
<1>3. CASE SelectEnds
  <2>1. CASE Migrate(Rest) /\ postgres' = "migrating"
    BY <1>3, <2>1, RestAssumption DEF SelectEnds, Awaited, Migrate, Moves, Working, Resting
  <2>2. CASE UNCHANGED migVars
    BY <1>3, <2>2 DEF SelectEnds, migVars, Awaited, Working
  <2>. QED BY <1>3, <2>1, <2>2 DEF SelectEnds
<1>4. CASE MigrationStep
  BY <1>4, RestStepAwaited DEF MigrationStep
<1>5. CASE PostgresConnects \/ PostgresInitialized \/ PoolEnds \/ JobQueries \/ JobQueryEnds
  <2>1. UNCHANGED <<migVars, boot, inTime>>
    BY <1>5 DEF PostgresConnects, PostgresInitialized, PoolEnds, JobQueries, JobQueryEnds
  <2>2. \/ postgres' = postgres
        \/ postgres = "connecting"
        \/ ~Working(Rest) /\ postgres = "migrating" /\ postgres' = "over"
    BY <1>5 DEF PostgresConnects, PostgresInitialized, PoolEnds, JobQueries,
                JobQueryEnds, pgVars
  <2>. QED BY <2>1, <2>2 DEF migVars, Awaited, Working
<1>6. CASE Others
  BY <1>6, OthersAwaited
<1>7. CASE \/ Closes \/ \E r \in Reqs : Request(r)
           \/ \E s \in Signals : Signal(s) \/ QuitFlushed(s) \/ RedisQuits(s) \/ PostgresEnded(s)
  <2>1. UNCHANGED <<migVars, boot, postgres, inTime>>
    BY <1>7 DEF Closes, Request, Accept, Queries, QueryEnds, Answer, Signal, QuitFlushed, RedisQuits,
                PostgresEnded, pgVars
  <2>. QED BY <2>1 DEF migVars, Awaited, Working
<1>. QED BY <1>1, <1>2, <1>3, <1>4, <1>5, <1>6, <1>7
         DEF Next, Stores, Stop, BootFails, UncaughtError, ExitsGracefully

RestInv == MigInv /\ Awaited

LEMMA RestInvNext == RestInv /\ [Next]_vars => RestInv'
<1>. SUFFICES ASSUME RestInv, [Next]_vars PROVE RestInv'
  OBVIOUS
<1>1. CASE UNCHANGED vars
  <2>1. UNCHANGED migVars /\ UNCHANGED <<boot, postgres, inTime>>
    BY <1>1 DEF vars, restVars, pgVars
  <2>2. Awaited'
    BY <2>1 DEF migVars, Awaited, Working, RestInv
  <2>. QED BY <2>1, <2>2, StutterHolds DEF RestInv
<1>2. CASE Next
  BY <1>2, Migrates, StepHolds, RefusedHolds, StutterHolds, NextAwaited DEF RestInv, Awaited
<1>. QED BY <1>1, <1>2

LEMMA RestInvInit == Init => RestInv
BY MigInitHolds, InitAwaited DEF Init, RestInv

LEMMA Serves == RestInv => ServedSchema
<1>. SUFFICES ASSUME RestInv, inTime, mig[Rest] # "idle", Faultless, rollbacks = 0
              PROVE  present = Versions \/ \E p \in Procs \ {Rest} : Working(p)
  BY DEF ServedSchema, Faultless
<1>1. ~Working(Rest) /\ Driven /\ ~\E p \in Procs : dir[p] = "down"
  BY RestAssumption DEF RestInv, MigInv, Awaited
<1>2. ~Fresh
  BY <1>1, RestAssumption DEF Fresh
<1>3. ASSUME NEW p \in Procs, Leads(p) PROVE p # Rest /\ Working(p)
  BY <1>1, <1>3 DEF Leads, Up
<1>. QED BY <1>1, <1>2, <1>3 DEF Driven, Complete

\* When Postgres was in time and nothing failed, crashed or was rolled back, requests meet a complete
\* schema, or one that another process is still completing.
THEOREM ServedSchemaHolds == Spec => []ServedSchema
BY RestInvInit, RestInvNext, Serves, PTL DEF Spec

LEMMA RestUpgrades == RestInv /\ [Next]_vars => [Upgrade!Next]_(Upgrade!vars)
<1>. SUFFICES ASSUME RestInv, [Next]_vars PROVE [Upgrade!Next]_(Upgrade!vars)
  OBVIOUS
<1>1. CASE UNCHANGED migVars
  BY <1>1 DEF migVars, Upgrade!vars
<1>2. CASE Refused
  BY <1>2 DEF Refused, Upgrade!vars
<1>3. CASE \E p \in Procs : Step(p)
  BY <1>3, StepUpgrades DEF RestInv
<1>. QED BY <1>1, <1>2, <1>3, Migrates DEF vars

\* The REST server, whatever becomes of its boot and its exit, keeps to it as well.
THEOREM RestServerUpgrades == Spec => UpgradeSpec
<1>1. Init => Upgrade!Init
  BY InitUpgrades DEF Init
<1>. QED BY <1>1, RestInvInit, RestInvNext, RestUpgrades, PTL DEF Spec, UpgradeSpec, Upgrade!Spec
=============================================================================
