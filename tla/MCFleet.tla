------------------------------- MODULE MCFleet -------------------------------
(***************************************************************************)
(* A deployment of two workers for TLC, started on an empty database, one  *)
(* made by another build, and one whose tables have no version.            *)
(***************************************************************************)
EXTENDS Fleet

MCTables == {"schema_version", "sessions"}

Empty == [utf8 |-> TRUE, tables |-> {}, row |-> None, front |-> {}]

MCDatabases ==
  {Empty,
   [Empty EXCEPT !.tables = MCTables, !.row = [version |-> 1, hash |-> "old"]],
   [Empty EXCEPT !.tables = {"sessions"}],
   [Empty EXCEPT !.front = {"sessions"}]}

CONSTANTS w1, w2

MCConfigurations == {{w1, w2}, {w1}}
=============================================================================
