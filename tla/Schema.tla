------------------------------- MODULE Schema -------------------------------
(***************************************************************************)
(* The database a deployment is given, the commands that make it ready     *)
(* (`robinauts db init`) and the check a server makes before it serves. A  *)
(* command writes in one transaction, under an advisory lock, only in a    *)
(* database that holds nothing of ours. Builds are told apart by the hash  *)
(* of their schema. The engines' own tables, which the command sets up     *)
(* next, are not modelled.                                                 *)
(***************************************************************************)
EXTENDS Naturals, FiniteSets

CONSTANTS
  Builds,       \* the edits of schema.sql
  Tables,       \* the tables the file makes
  Databases,    \* those an operator may point Robinauts at
  Commands,     \* the runs of `db init`
  None

Rows == {None} \union [version : Nat, hash : Builds \union {None}]

ASSUME SchemaAssumption ==
  /\ "schema_version" \in Tables
  /\ None \notin Builds \union Commands
  /\ None \notin [version : Nat, hash : Builds \union {None}]
  /\ Databases \subseteq
       [utf8 : BOOLEAN, tables : SUBSET Tables, row : Rows, front : SUBSET Tables]

SchemaVersion == 1

VARIABLES
  database,     \* what is committed
  locked,       \* the command that holds the schema's lock
  command       \* each command's progress

schemaVars == <<database, locked, command>>

-----------------------------------------------------------------------------
(* What is found                                                           *)

\* `row` is schema_version's, `front` the names a schema ahead on the path answers to.
Found(db) == IF "schema_version" \in db.tables THEN db.row ELSE None

IsEmpty(db) == Found(db) = None /\ db.tables = {}

Unobstructed(db) == db.front = {}

IsOfBuild(db, build) ==
  /\ Found(db) # None
  /\ db.row.version = SchemaVersion
  /\ db.row.hash = build

IsWhole(db) == Tables \subseteq db.tables /\ Unobstructed(db)

CheckPasses(db, build) == db.utf8 /\ IsOfBuild(db, build) /\ IsWhole(db)

\* CREATE TABLE IF NOT EXISTS, the version's row if there is none, then its hash.
Made(db, build) ==
  [db EXCEPT !.tables = db.tables \union Tables,
             !.row = IF Found(db) = None THEN [version |-> SchemaVersion, hash |-> build]
                                         ELSE [db.row EXCEPT !.hash = build]]

-----------------------------------------------------------------------------
(* The command                                                             *)

NoCommand(pc) == [pc |-> pc, build |-> None]

Over(c) == command' = [command EXCEPT ![c] = NoCommand("over")]

Creates(c) == command' = [command EXCEPT ![c].pc = "creating"]

InitBegin(c, build) ==
  /\ command[c].pc = "idle"
  /\ database.utf8
  /\ command' = [command EXCEPT ![c] = [pc |-> "locking", build |-> build]]
  /\ UNCHANGED <<database, locked>>

MayCreate == IsEmpty(database) /\ Unobstructed(database)

\* Mistaken: no lock is waited for.
LookAtOnce(c) ==
  /\ command[c].pc = "locking"
  /\ IF MayCreate THEN Creates(c) ELSE Over(c)
  /\ UNCHANGED <<database, locked>>

\* pg_advisory_xact_lock, held until the transaction ends; then what is there is looked at. A
\* database of this build is left alone, any other is refused.
LockAndLook(c) ==
  /\ command[c].pc = "locking"
  /\ locked = None
  /\ IF MayCreate
     THEN Creates(c) /\ locked' = c
     ELSE Over(c) /\ UNCHANGED locked
  /\ UNCHANGED database

Unlocked(c) == locked' = IF locked = c THEN None ELSE locked

CommitSchema(c) ==
  /\ command[c].pc = "creating"
  /\ database' = Made(database, command[c].build)
  /\ Over(c)
  /\ Unlocked(c)

\* Killed, or its connection lost: the transaction is undone.
InitDies(c) ==
  /\ command[c].pc \in {"locking", "creating"}
  /\ Over(c)
  /\ Unlocked(c)
  /\ UNCHANGED database

SchemaInit ==
  /\ database \in Databases
  /\ locked = None
  /\ command = [c \in Commands |-> NoCommand("idle")]

InitSteps ==
  \E c \in Commands :
    \/ LockAndLook(c)
    \/ CommitSchema(c)
    \/ InitDies(c)

-----------------------------------------------------------------------------
(* What holds                                                              *)

SchemaTypeOK ==
  /\ database.tables \subseteq Tables /\ database.front \subseteq Tables
  /\ database.row \in Rows
  /\ database.utf8 \in BOOLEAN
  /\ locked \in Commands \union {None}
  /\ \A c \in Commands :
       /\ command[c].pc \in {"idle", "locking", "creating", "over"}
       /\ command[c].build \in Builds \union {None}

\* `db init` never changes a database it did not make: the core's tables are made in a
\* database with none of them, and what they are recorded as never changes after that,
\* whatever commands of whatever builds run at once.
NeverRelabels ==
  [][ LET core(db) == <<db.tables, db.row>>
      IN  core(database') # core(database) =>
            /\ IsEmpty(database)
            /\ \E build \in Builds : CheckPasses(database', build) ]_schemaVars
=============================================================================
