----------------------------- MODULE MCSessions -----------------------------
(***************************************************************************)
(* Four sessions, for TLC: three of the agent that searches, the one the   *)
(* search is made in among them, and one of another agent, which may have  *)
(* left the configuration.                                                 *)
(***************************************************************************)
EXTENDS Sessions

MCAgentOf == [s \in Sessions |-> IF s = 3 THEN "other" ELSE "searching"]

MCWhere == [s \in Sessions |-> CASE s \in {1, 4} -> {"user"}[] s = 2 -> {"title", "tool"}
                                 [] OTHER -> {"tool"}]

MCConfigurations == {{"searching"}, {"searching", "other"}}

MCToolsOf == [a \in {"searching", "other"} |->
                IF a = "searching" THEN {"search_sessions", "elsewhere"} ELSE {}]

Call(unknown, query, limit) == [unknown |-> unknown, query |-> query, limit |-> limit]

MCArguments ==
  {Call(FALSE, "words", None), Call(FALSE, "words", 1), Call(FALSE, "words", 3),
   Call(FALSE, "blank", 1), Call(FALSE, "too long", 1), Call(TRUE, "words", 1)}
=============================================================================
