---------------------------- MODULE TurnContract ----------------------------
(***************************************************************************)
(* What the controller's store promises of turns, to every reader: a       *)
(* conversation is answered by one turn at a time; a turn tells its story  *)
(* while it is open; it ends once, and its last events, its outcome and    *)
(* its answer appear in the same step; afterwards nothing about it moves.  *)
(* There are no leases, workers, tasks or times here: TurnStore and        *)
(* TurnSystem are shown to implement this.                                 *)
(***************************************************************************)
EXTENDS Naturals

CONSTANTS
  Sessions,   \* the conversations
  Turns,      \* the turns' ids, each used once
  NoSession   \* the session of a turn that has not begun

VARIABLES
  shown,      \* the sessions their owner may still open
  gone,       \* the sessions deleted with everything in them
  turn,       \* by turn: its session and "none", "active" or how it ended
  story,      \* by turn: the events told so far
  answers     \* by turn: the answers kept of it, {}, {"answer"} or {"failed"}

contractVars == <<shown, gone, turn, story, answers>>

Outcomes == {"finished", "failed", "cancelled", "interrupted"}

NoTurn == [state |-> "none", session |-> NoSession]

Init ==
  /\ shown = {}
  /\ gone = {}
  /\ turn = [t \in Turns |-> NoTurn]
  /\ story = [t \in Turns |-> {}]
  /\ answers = [t \in Turns |-> {}]

Show(s) ==
  /\ s \notin shown \cup gone
  /\ shown' = shown \cup {s}
  /\ UNCHANGED <<gone, turn, story, answers>>

Hide(s) ==
  /\ s \in shown
  /\ shown' = shown \ {s}
  /\ UNCHANGED <<gone, turn, story, answers>>

\* A turn opens in a session where none is open.
Begin(s, t) ==
  /\ s \in shown
  /\ \A u \in Turns : ~(turn[u].state = "active" /\ turn[u].session = s)
  /\ turn[t] = NoTurn
  /\ turn' = [turn EXCEPT ![t] = [state |-> "active", session |-> s]]
  /\ UNCHANGED <<shown, gone, story, answers>>

\* Only the story of t goes on, by events that are not in it yet, at positions of their own.
Continues(t) ==
  /\ \A u \in Turns \ {t} : story'[u] = story[u]
  /\ story[t] \subseteq story'[t]
  /\ \A e \in story'[t] \ story[t], told \in story[t] : e.position > told.position

\* An open turn tells one event more.
Tell(t) ==
  /\ turn[t].state = "active"
  /\ turn[t].session \in shown
  /\ Continues(t)
  /\ \E e \in story'[t] : story'[t] \ story[t] = {e}
  /\ UNCHANGED <<shown, gone, turn, answers>>

\* It ends: its outcome, its last events and its one answer, if any, together. One that
\* finished keeps an answer, and only that one keeps an answer not marked failed.
Conclude(t, outcome, kept) ==
  /\ turn[t].state = "active"
  /\ turn[t].session \in shown
  /\ (outcome = "finished") <=> (kept = {"answer"})
  /\ turn' = [turn EXCEPT ![t].state = outcome]
  /\ Continues(t)
  /\ answers' = [answers EXCEPT ![t] = kept]
  /\ UNCHANGED <<shown, gone>>

\* The session goes, with its turns, their events and their answers.
Forget(s) ==
  LET kept(f, x) == [t \in Turns |-> IF turn[t].session = s THEN x ELSE f[t]]
  IN  /\ gone' = gone \cup {s}
      /\ shown' = shown \ {s}
      /\ turn' = kept(turn, NoTurn)
      /\ story' = kept(story, {})
      /\ answers' = kept(answers, {})

Next ==
  \/ \E s \in Sessions : Show(s) \/ Hide(s) \/ Forget(s)
  \/ \E s \in Sessions, t \in Turns : Begin(s, t)
  \/ \E t \in Turns : Tell(t)
  \/ \E t \in Turns, outcome \in Outcomes, kept \in {{}, {"answer"}, {"failed"}} :
       Conclude(t, outcome, kept)

Spec == Init /\ [][Next]_contractVars
=============================================================================
