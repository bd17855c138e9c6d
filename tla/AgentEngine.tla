----------------------------- MODULE AgentEngine -----------------------------
(***************************************************************************)
(* What an agent engine keeps of one conversation: whether it has the      *)
(* session, and the history at each checkpoint, in the order they were     *)
(* saved. A history is what the model said and was told: each question     *)
(* asked, with the failed answers its prompt told of, each finished round  *)
(* of tool calls, each answer.                                             *)
(*                                                                         *)
(* Pydantic AI's engine saves a turn under one checkpoint, again after     *)
(* every round; LangChain's under a new one each time, the question before *)
(* anything else. The frameworks that call the model are not modelled: a   *)
(* turn does any rounds, answers, or raises.                               *)
(***************************************************************************)
EXTENDS Naturals, Sequences

None == 0       \* no checkpoint, no message, no turn

Engines == {"pydantic-ai", "langchain"}

VARIABLES
  engine,       \* the session's engine
  known,        \* whether it has the session
  saved,        \* the history at each of its checkpoints
  latest        \* the checkpoint saved last

engineVars == <<engine, known, saved, latest>>

-----------------------------------------------------------------------------

Entry(what, question, told) == [what |-> what, question |-> question, told |-> told]

Holds(checkpoint) == checkpoint \in DOMAIN saved \cup {None}

HistoryAt(checkpoint) == IF checkpoint = None THEN <<>> ELSE saved[checkpoint]

Extends(after, before) ==
  Len(after) > Len(before) /\ SubSeq(after, 1, Len(before)) = before

AskedLast(history) ==
  LET asked == {i \in DOMAIN history : history[i].what = "asked"}
  IN  history[CHOOSE i \in asked : \A j \in asked : j <= i].question

HasFinished(history) == history[Len(history)].what = "answer"

-----------------------------------------------------------------------------

\* A session that is there already is refused.
CreateSession == ~known /\ known' = TRUE /\ UNCHANGED <<engine, saved, latest>>

\* Kept under the turn's own checkpoint, in place of what it held, or under a new one; either
\* way it is the one saved last.
SavedUnder(own) == IF engine = "langchain" THEN latest + 1 ELSE own

Save(own, history) ==
  /\ latest' = SavedUnder(own)
  /\ saved' = [c \in DOMAIN saved \cup {SavedUnder(own)} |->
                 IF c = SavedUnder(own) THEN history ELSE saved[c]]
  /\ UNCHANGED <<engine, known>>

\* Mistaken: whatever was saved last is the turn to continue.
AnyPartial(checkpoint) == {latest} \ {None}

\* The checkpoint saved last, if its history goes on from this one with a question: the turn a
\* resume continues, finished or not. The questions are not compared.
PartialTurn(checkpoint) ==
  LET before == HistoryAt(checkpoint)
  IN  {c \in {latest} \ {None} : /\ Extends(saved[c], before)
                                 /\ saved[c][Len(before) + 1].what = "asked"}

EngineInit ==
  /\ engine \in Engines /\ known = FALSE
  /\ saved = [c \in {} |-> <<>>] /\ latest = None
=============================================================================
