----------------------------- MODULE Migrations -----------------------------
(***************************************************************************)
(* The shared database as it is opened (storage/db.ts): processes of any   *)
(* age open the same file, and each brings its schema up to the migrations *)
(* it knows.  The version is read outside the transactions, no statement   *)
(* waits for a lock, and a process may die anywhere.                       *)
(***************************************************************************)
EXTENDS Naturals, Sequences

CONSTANTS
  Programs, \* the processes that open the database
  Kinds,    \* what each migration does, see Succeeds and Effect
  Knows     \* how many migrations each process was built with

ASSUME KindsAssumption == Kinds \in Seq({"create", "add", "rebuild", "clear"})
ASSUME KnowsAssumption == Knows \in [Programs -> 1..Len(Kinds)]

VARIABLES
  table,    \* there is a table schema_version
  versions, \* its rows
  schema,   \* the migrations whose effect is in the database
  step,     \* what each process does
  current,  \* how many migrations it takes to be done
  company    \* history: another process ran while it was opening

dbVars == <<table, versions, schema, step, current, company>>

Versions == 1..Len(Kinds)
Steps == {"out", "versions", "read", "migrate", "record", "tighten", "open", "failed"}

-----------------------------------------------------------------------------
(* A migration creates tables and columns, which fails the second time;    *)
(* adds columns to a table that an earlier one rebuilds, and which a       *)
(* rebuild afterwards would lose; rebuilds that table; or clears values,   *)
(* which may be repeated.                                                  *)

Succeeds(i, s) == Kinds[i] \in {"create", "add"} => i \notin s

Effect(i, s) ==
  {j \in s : ~(Kinds[i] = "rebuild" /\ Kinds[j] = "add" /\ j > i)} \cup {i}

(* Mutant of Latest: the row read is not the newest. *)
Oldest(vs) == IF vs = {} THEN 0 ELSE CHOOSE v \in vs : \A w \in vs : v <= w

(* SELECT MAX(version), 0 for NULL *)
Latest(vs) == IF vs = {} THEN 0 ELSE CHOOSE v \in vs : \A w \in vs : w <= v

(* Mutant of Clashes: INSERT OR REPLACE. *)
Replaces(v) == FALSE

(* The version is the primary key. *)
Clashes(v) == v \in versions

-----------------------------------------------------------------------------
Opening(p) == step[p] \in {"versions", "read", "migrate", "record", "tighten"}
Lives(p) == Opening(p) \/ step[p] = "open"
Locked == \E p \in Programs : step[p] = "record"

Moves(p, from, to) == step[p] = from /\ step' = [step EXCEPT ![p] = to]

(* openDb throws, its transaction is rolled back and the process ends. *)
OpenFails(p, from) ==
  /\ Moves(p, from, "failed")
  /\ UNCHANGED <<table, versions, schema, current, company>>

(* SQLITE_BUSY: a migration of another process holds the lock, or a        *)
(* statement of one that runs does for a moment.                           *)
Busy(p, from) ==
  /\ \E q \in Programs \ {p} : step[q] \in {"record", "open"}
  /\ OpenFails(p, from)

(* openDb *)
Start(p) ==
  /\ step[p] \in {"out", "failed"}
  /\ step' = [step EXCEPT ![p] = "versions"]
  /\ company' = [q \in Programs |->
       IF q = p THEN \E r \in Programs \ {p} : Lives(r) ELSE company[q] \/ Opening(q)]
  /\ UNCHANGED <<table, versions, schema, current>>

(* PRAGMA journal_mode and CREATE TABLE IF NOT EXISTS write a new file     *)
(* only, and two that do so at once may be in each other's way.            *)
CreateVersions(p) ==
  /\ Moves(p, "versions", "read") /\ table' = TRUE
  /\ UNCHANGED <<versions, schema, current, company>>

Collide(p) ==
  /\ ~table /\ \E q \in Programs \ {p} : step[q] = "versions"
  /\ OpenFails(p, "versions")

ReadVersion(p) ==
  /\ Moves(p, "read", "migrate")
  /\ current' = [current EXCEPT ![p] = Latest(versions)]
  /\ UNCHANGED <<table, versions, schema, company>>

(* BEGIN is deferred: the first statement of the migration takes the lock. *)
Migrate(p) ==
  LET i == current[p] + 1 IN
  /\ current[p] < Knows[p] /\ ~Locked
  /\ IF Succeeds(i, schema)
       THEN /\ Moves(p, "migrate", "record")
            /\ UNCHANGED <<table, versions, schema, current, company>>
       ELSE OpenFails(p, "migrate")

MigrateBusy(p) == current[p] < Knows[p] /\ Busy(p, "migrate")

(* INSERT INTO schema_version and COMMIT, which is when others see the     *)
(* effect; the lock has kept the schema as it was.                         *)
Record(p) ==
  LET i == current[p] + 1 IN
  IF Clashes(i)
    THEN OpenFails(p, "record")
    ELSE /\ Moves(p, "record", "migrate")
         /\ versions' = versions \cup {i} /\ schema' = Effect(i, schema)
         /\ current' = [current EXCEPT ![p] = i]
         /\ UNCHANGED <<table, company>>

(* The file is of a newer program or the loop is over. *)
Done(p) ==
  /\ current[p] >= Knows[p] /\ Moves(p, "migrate", "tighten")
  /\ UNCHANGED <<table, versions, schema, current, company>>

(* A chmod of the files that are there, which no one removes. *)
TightenDbFiles(p) ==
  /\ Moves(p, "tighten", "open")
  /\ UNCHANGED <<table, versions, schema, current, company>>

(* The process ends, or dies while it opens. *)
End(p) ==
  /\ Lives(p) /\ step' = [step EXCEPT ![p] = "out"]
  /\ UNCHANGED <<table, versions, schema, current, company>>

-----------------------------------------------------------------------------
(* A new file, or one some program left at any version. *)
DbInit ==
  /\ \E n \in 0..Len(Kinds) : versions = 1..n /\ schema = 1..n /\ table = (n > 0)
  /\ step = [p \in Programs |-> "out"]
  /\ current = [p \in Programs |-> 0]
  /\ company = [p \in Programs |-> FALSE]

DbNext ==
  \E p \in Programs :
    \/ Start(p) \/ CreateVersions(p) \/ Collide(p) \/ ReadVersion(p)
    \/ Migrate(p) \/ MigrateBusy(p) \/ Record(p) \/ Done(p)
    \/ TightenDbFiles(p) \/ End(p)

DbSpec == DbInit /\ [][DbNext]_dbVars

-----------------------------------------------------------------------------
(* Properties *)

(* Whoever opens the file beside whom and dies where, the database holds   *)
(* each migration up to its version, once and with nothing it made lost,   *)
(* and no program runs on a version older than its own.  The version is    *)
(* read before the lock is taken; that a rebuild is not done again over    *)
(* the columns later ones added is left to the key of the version's table  *)
(* (migrate, db.ts:292-301).                                               *)
SchemaIsWhole ==
  /\ versions = 1..Latest(versions) /\ schema = versions
  /\ \A p \in Programs : step[p] = "open" => Knows[p] <= Latest(versions)

(* No death, age or failed start leaves a file behind on which a program   *)
(* that starts with none beside it fails (migrate).                        *)
FailsOnlyBeside == \A p \in Programs : step[p] = "failed" => company[p]
=============================================================================
