------------------------------ MODULE TurnStore ------------------------------
(***************************************************************************)
(* The controller's store of sessions, turns, tasks, events and messages,  *)
(* the one piece of state the web server, the sweep and every worker       *)
(* share. Each operation is one atomic step: in memory it does not await   *)
(* before it has written, on PostgreSQL it is one transaction under row    *)
(* locks. Every time is the caller's, none is read here, so the free       *)
(* running specification below lets each call bring any time at all.       *)
(*                                                                         *)
(* A call the store refuses changes nothing and is a stuttering step.      *)
(* A turn and its task are made together and name each other, so a task    *)
(* is known by its turn.                                                   *)
(***************************************************************************)
EXTENDS Integers, Sequences, FiniteSets

CONSTANTS
  Sessions,     \* the sessions' ids
  Turns,        \* the turns' ids, each used once
  Workers,      \* the workers' names
  WorkerOf,     \* by session: the worker its agent's configuration names
  Times,        \* the times a caller may bring
  LeaseTime,    \* how long a claim or a renewal holds a task
  QueuedTime,   \* how long a task may wait queued, written as its first lease
  Positions,    \* the positions a writer may number its events with
  Pieces,       \* the documents a runner appends while its turn runs
  NoSession     \* the session of a turn that does not exist

ASSUME StoreAssumption ==
  /\ WorkerOf \in [Sessions -> Workers]
  /\ Times \subseteq Int
  /\ LeaseTime \in Nat
  /\ QueuedTime \in Nat
  /\ Positions \subseteq Nat
  /\ "turn_ended" \notin Pieces
  /\ NoSession \notin Sessions

VARIABLES
  session,      \* by session: "unknown", "visible", "hidden" or "purged"
  turn,         \* by turn: its state and its session
  task,         \* by turn: its task's state and the time its lease holds until
  asked,        \* the running tasks asked to stop
  events,       \* by turn: the set of its stored events
  messages      \* by session: the stored messages, in the order they were stored

storeVars == <<session, turn, task, asked, events, messages>>

-----------------------------------------------------------------------------
(* Values                                                                  *)

Outcomes == {"finished", "failed", "cancelled", "interrupted"}

Documents == Pieces \cup {"message_completed", "turn_ended"}

StoredEvent == [position : Nat, document : Documents]

AnswerKinds == {"answer", "failed"}

StoredMessage == [turn : Turns, kind : AnswerKinds \cup {"question"}]

NoTurn == [state |-> "none", session |-> NoSession]

NoTask == [state |-> "none", lease |-> 0]

-----------------------------------------------------------------------------
(* What an operation reads                                                 *)

Visible(s) == session[s] = "visible"

OfVisible(t) == turn[t].state # "none" /\ Visible(turn[t].session)

ActiveTurns(s) == {t \in Turns : turn[t].state = "active" /\ turn[t].session = s}

\* Mistaken: the lease alone, without asking whether the turn has ended.
HoldsByLease(t, at) == task[t].lease > at

\* The turn is active and its task runs with a lease not passed `at`.
Holds(t, at) ==
  /\ turn[t].state = "active"
  /\ task[t].state = "running"
  /\ task[t].lease > at

\* Mistaken: a task a worker claimed is left to that worker.
LapsedUnclaimed(t, now) == task[t].state = "queued" /\ task[t].lease < now

Lapsed(t, now) == task[t].state \in {"queued", "running"} /\ task[t].lease < now

Live(s, now) == \E t \in ActiveTurns(s) : task[t].lease > now

Claimable(w, now) ==
  {t \in Turns : /\ task[t].state = "queued"
                 /\ task[t].lease > now
                 /\ WorkerOf[turn[t].session] = w}

\* The tasks one claim takes: the oldest, as many as its limit allows. A queued task's lease
\* is its creation plus QueuedTime, so the oldest is the one whose lease ends first.
ClaimBatches(w, now, limit) ==
  LET queued == Claimable(w, now)
  IN  {batch \in SUBSET queued :
         /\ Cardinality(batch) <= limit
         /\ Cardinality(batch) = limit \/ batch = queued
         /\ \A t \in batch, u \in queued \ batch : task[t].lease <= task[u].lease}

Taken(t, n) == \E e \in events[t] : e.position = n

\* Mistaken: the event next to the position asked for is taken as seen.
EventsAfterNext(t, n) == {e \in events[t] : e.position > n + 1}

EventsAfter(t, n) == {e \in events[t] : e.position > n}

-----------------------------------------------------------------------------
(* The operations                                                          *)

AddSession(s) ==
  /\ session[s] = "unknown"
  /\ session' = [session EXCEPT ![s] = "visible"]
  /\ UNCHANGED <<turn, task, asked, events, messages>>

HideSession(s) ==
  /\ Visible(s)
  /\ session' = [session EXCEPT ![s] = "hidden"]
  /\ UNCHANGED <<turn, task, asked, events, messages>>

\* Mistaken: the session and its messages go, its turns, tasks and events stay.
PurgeSessionAlone(s, now) ==
  /\ session[s] \in {"visible", "hidden"}
  /\ ~Live(s, now)
  /\ session' = [session EXCEPT ![s] = "purged"]
  /\ messages' = [messages EXCEPT ![s] = <<>>]
  /\ UNCHANGED <<turn, task, asked, events>>

PurgeSession(s, now) ==
  LET kept(f, x) == [t \in Turns |-> IF turn[t].session = s THEN x ELSE f[t]]
  IN  /\ session[s] \in {"visible", "hidden"}
      /\ ~Live(s, now)
      /\ session' = [session EXCEPT ![s] = "purged"]
      /\ turn' = kept(turn, NoTurn)
      /\ task' = kept(task, NoTask)
      /\ asked' = {t \in asked : turn[t].session # s}
      /\ events' = kept(events, {})
      /\ messages' = [messages EXCEPT ![s] = <<>>]

\* Mistaken: the session's active turn is not looked for first.
QueueTurnBlindly(s, t, newQuestion, until) ==
  /\ Visible(s)
  /\ turn[t] = NoTurn
  /\ messages' = IF newQuestion
                 THEN [messages EXCEPT ![s] = Append(@, [turn |-> t, kind |-> "question"])]
                 ELSE messages
  /\ task' = [task EXCEPT ![t] = [state |-> "queued", lease |-> until]]
  /\ turn' = [turn EXCEPT ![t] = [state |-> "active", session |-> s]]
  /\ events' = [events EXCEPT ![t] = {}]
  /\ UNCHANGED <<session, asked>>

\* The question, when it is new, the task and the turn, or none of them.
QueueTurn(s, t, newQuestion, until) ==
  /\ Visible(s)
  /\ ActiveTurns(s) = {}
  /\ turn[t] = NoTurn
  /\ messages' = IF newQuestion
                 THEN [messages EXCEPT ![s] = Append(@, [turn |-> t, kind |-> "question"])]
                 ELSE messages
  /\ task' = [task EXCEPT ![t] = [state |-> "queued", lease |-> until]]
  /\ turn' = [turn EXCEPT ![t] = [state |-> "active", session |-> s]]
  /\ events' = [events EXCEPT ![t] = {}]
  /\ UNCHANGED <<session, asked>>

ClaimTasks(batch, until) ==
  /\ batch # {}
  /\ task' = [t \in Turns |-> IF t \in batch
                              THEN [state |-> "running", lease |-> until]
                              ELSE task[t]]
  /\ UNCHANGED <<session, turn, asked, events, messages>>

\* The same document again at a position it has is accepted and changes nothing.
AppendEvent(t, n, document, writtenAt) ==
  /\ OfVisible(t)
  /\ Holds(t, writtenAt)
  /\ ~Taken(t, n)
  /\ events' = [events EXCEPT ![t] = @ \cup {[position |-> n, document |-> document]}]
  /\ UNCHANGED <<session, turn, task, asked, messages>>

\* The answer, the last events, the turn's state and its task done, or none of them.
FinishTurn(t, state, endedAt, kept, last) ==
  /\ OfVisible(t)
  /\ Holds(t, endedAt)
  /\ \A e \in last : ~Taken(t, e.position)
  /\ task' = [task EXCEPT ![t].state = "done"]
  /\ messages' = [messages EXCEPT ![turn[t].session] =
                    @ \o [i \in 1..Len(kept) |-> [turn |-> t, kind |-> kept[i]]]]
  /\ events' = [events EXCEPT ![t] = @ \cup last]
  /\ turn' = [turn EXCEPT ![t].state = state]
  /\ UNCHANGED <<session, asked>>

\* A reader's end of a turn whose task nobody holds any more: with an answer, and no event.
EndExpiredTurn(t, now) ==
  /\ OfVisible(t)
  /\ turn[t].state = "active"
  /\ Lapsed(t, now)
  /\ turn' = [turn EXCEPT ![t].state = "interrupted"]
  /\ task' = [task EXCEPT ![t].state = "done"]
  /\ messages' = [messages EXCEPT ![turn[t].session] =
                    Append(@, [turn |-> t, kind |-> "failed"])]
  /\ UNCHANGED <<session, asked, events>>

\* Mistaken: only a task still queued is ended, as if a worker would see to the others.
EndExpiredTaskQueued(t, now) ==
  /\ Lapsed(t, now)
  /\ task[t].state = "queued"
  /\ task' = [task EXCEPT ![t].state = "done"]
  /\ UNCHANGED <<session, turn, asked, events, messages>>

EndExpiredTask(t, now) ==
  /\ Lapsed(t, now)
  /\ task' = [task EXCEPT ![t].state = "done"]
  /\ UNCHANGED <<session, turn, asked, events, messages>>

Renewed(batch, now) == {t \in batch : task[t].state = "running" /\ task[t].lease > now}

\* Mistaken: the renewed leases are worked out and not written.
RenewLeasesUnwritten(batch, now, until) == UNCHANGED storeVars

RenewLeases(batch, now, until) ==
  /\ task' = [t \in Turns |-> IF t \in Renewed(batch, now)
                              THEN [task[t] EXCEPT !.lease = until]
                              ELSE task[t]]
  /\ UNCHANGED <<session, turn, asked, events, messages>>

\* Mistaken: a renewal answers nothing of the stops asked.
StopsMissedUntold(batch, now) == {}

\* What a renewal answers: the renewed tasks a stop was asked of.
StopsMissed(batch, now) == Renewed(batch, now) \cap asked

\* No worker holds a queued task: it and its turn end here. A running one is only marked.
RequestCancel(t) ==
  /\ OfVisible(t)
  /\ turn[t].state = "active"
  /\ \/ /\ task[t].state = "queued"
        /\ task' = [task EXCEPT ![t].state = "done"]
        /\ turn' = [turn EXCEPT ![t].state = "cancelled"]
        /\ UNCHANGED asked
     \/ /\ task[t].state = "running"
        /\ asked' = asked \cup {t}
        /\ UNCHANGED <<turn, task>>
  /\ UNCHANGED <<session, events, messages>>

-----------------------------------------------------------------------------
(* The calls the program makes, each with any time                         *)

Init ==
  /\ session = [s \in Sessions |-> "unknown"]
  /\ turn = [t \in Turns |-> NoTurn]
  /\ task = [t \in Turns |-> NoTask]
  /\ asked = {}
  /\ events = [t \in Turns |-> {}]
  /\ messages = [s \in Sessions |-> <<>>]

\* How a worker ends a turn: finished with the answer; failed, stalled or shut down with what
\* it had streamed; cancelled with nothing kept; or, before its first event, with nothing told.
Endings ==
  [state : {"finished"}, kept : {<<"answer">>}, last : {<<"message_completed", "turn_ended">>}]
  \cup [state : {"failed", "interrupted"}, kept : {<<"failed">>}, last : {<<"turn_ended">>}]
  \cup [state : {"cancelled"}, kept : {<<>>}, last : {<<"turn_ended">>}]
  \cup [state : {"failed", "interrupted", "cancelled"}, kept : {<<>>}, last : {<<>>}]

\* The documents numbered upward from n.
Numbered(n, documents) ==
  {[position |-> n + i - 1, document |-> documents[i]] : i \in DOMAIN documents}

\* A turn has one writer, which numbers its events upward and writes them one at a time.
Write(t, n, document, writtenAt) ==
  /\ \A told \in events[t] : told.position < n
  /\ AppendEvent(t, n, document, writtenAt)

End(t, how, n, endedAt) ==
  /\ \A told \in events[t], e \in Numbered(n, how.last) : told.position < e.position
  /\ FinishTurn(t, how.state, endedAt, how.kept, Numbered(n, how.last))

\* The sweep ends a task by itself only once it finds its session hidden.
SweepHidden(t, now) ==
  /\ turn[t].state # "none"
  /\ session[turn[t].session] = "hidden"
  /\ EndExpiredTask(t, now)

\* A renewal leaves the tasks it does not renew alone, so it is enough to renew those it does.
Next ==
  \/ \E s \in Sessions : AddSession(s) \/ HideSession(s)
  \/ \E s \in Sessions, now \in Times : PurgeSession(s, now)
  \/ \E s \in Sessions, t \in Turns, newQuestion \in BOOLEAN, now \in Times :
       QueueTurn(s, t, newQuestion, now + QueuedTime)
  \/ \E w \in Workers, now \in Times, limit \in 1..Cardinality(Turns) :
       \E batch \in ClaimBatches(w, now, limit) : ClaimTasks(batch, now + LeaseTime)
  \/ \E t \in Turns, n \in Positions, document \in Pieces, writtenAt \in Times :
       Write(t, n, document, writtenAt)
  \/ \E t \in Turns, how \in Endings, n \in Positions, endedAt \in Times :
       End(t, how, n, endedAt)
  \/ \E t \in Turns, now \in Times : EndExpiredTurn(t, now) \/ SweepHidden(t, now)
  \/ \E batch \in SUBSET Turns, now \in Times :
       batch # {} /\ Renewed(batch, now) = batch /\ RenewLeases(batch, now, now + LeaseTime)
  \/ \E t \in Turns : RequestCancel(t)

Spec == Init /\ [][Next]_storeVars

-----------------------------------------------------------------------------
(* Properties                                                              *)

\* Every piece of the store's state holds what its column may hold.
TypeOK ==
  /\ session \in [Sessions -> {"unknown", "visible", "hidden", "purged"}]
  /\ turn \in [Turns -> [state : {"none", "active"} \cup Outcomes,
                         session : Sessions \cup {NoSession}]]
  /\ task \in [Turns -> [state : {"none", "queued", "running", "done"}, lease : Int]]
  /\ asked \subseteq Turns
  /\ events \in [Turns -> SUBSET StoredEvent]
  /\ messages \in [Sessions -> Seq(StoredMessage)]

\* A session has at most one active turn, however the askers race: queue_turn refuses a second
\* and only queue_turn makes a turn active.
OneActiveTurn ==
  \A t, u \in Turns :
    (turn[t].state = "active" /\ turn[u].state = "active" /\ turn[t].session = turn[u].session)
      => t = u

\* A turn and its task never disagree: a task still queued or running has an active turn, and
\* a session's owner never sees an active turn whose task is done, which nobody would ever end.
TaskFollowsTurn ==
  \A t \in Turns :
    /\ task[t].state \in {"queued", "running"} => turn[t].state = "active"
    /\ (turn[t].state = "active" /\ OfVisible(t)) => task[t].state # "done"
    /\ (turn[t].state = "none") <=> (task[t].state = "none")

\* Every turn there is belongs to a session that is kept, hidden or not, and one there is not
\* left nothing: what the two above need to be inductive.
TurnsOfKeptSessions ==
  \A t \in Turns :
    /\ turn[t].state = "none" => turn[t] = NoTurn
    /\ turn[t].state # "none" => /\ turn[t].session \in Sessions
                                 /\ session[turn[t].session] \in {"visible", "hidden"}

\* What holds between any two of the store's calls, in one inductive whole: the types, one active
\* turn a session, turns and tasks that agree, and after a purge nothing of what it removed.
StoreInv == TypeOK /\ OneActiveTurn /\ TaskFollowsTurn /\ TurnsOfKeptSessions

IsAnswerOf(s, i, t) == messages[s][i].turn = t /\ messages[s][i].kind \in AnswerKinds

\* An answer and its turn's end are one: no answer is stored of a turn that has not ended, a
\* finished turn has an answer not marked failed and no other turn has one, and however many
\* parties try to end a turn, a late runner, a reader, the sweep, it never gets a second answer.
AnswerWithItsEnd ==
  /\ \A s \in Sessions : \A i \in DOMAIN messages[s] : \A t \in Turns :
       IsAnswerOf(s, i, t) =>
         /\ turn[t].state \in Outcomes
         /\ turn[t].session = s
         /\ (turn[t].state = "finished") <=> (messages[s][i].kind = "answer")
         /\ \A j \in DOMAIN messages[s] : IsAnswerOf(s, j, t) => i = j
  /\ \A t \in Turns : turn[t].state = "finished" =>
       \E i \in DOMAIN messages[turn[t].session] : IsAnswerOf(turn[t].session, i, t)

\* The event that says a turn ended is stored only with the end itself, and no event, from a
\* writer that lost the turn or answers late, ever comes after it.
TurnEndedIsLast ==
  \A t \in Turns : \A e \in events[t] : e.document = "turn_ended" =>
    /\ turn[t].state \in Outcomes
    /\ \A f \in events[t] : f.position <= e.position

\* What those two need to be inductive: no event is left of a turn there is not, ...
NothingToldOfNone == \A t \in Turns : turn[t].state = "none" => events[t] = {}

\* ... and a message is stored in its turn's session.
MessagesOfTheirSession ==
  \A s \in Sessions : \A i \in DOMAIN messages[s] :
    messages[s][i].turn \in Turns /\ turn[messages[s][i].turn].session = s

\* The answers stored of a turn, by kind.
AnswersOf(t) ==
  {kind \in AnswerKinds : \E s \in Sessions : \E i \in DOMAIN messages[s] :
     messages[s][i] = [turn |-> t, kind |-> kind]}

EndedStays(t) ==
  \/ session'[turn[t].session] = "purged"
  \/ /\ turn'[t] = turn[t]
     /\ events'[t] = events[t]
     /\ AnswersOf(t)' = AnswersOf(t)
     /\ task'[t].state = "done"

\* A turn that has ended keeps its outcome, its events and its answer for as long as its
\* session is kept: every later write of a runner, a reader or the sweep is refused.
EndIsFinal == [][\A t \in Turns : turn[t].state \in Outcomes => EndedStays(t)]_storeVars

Contract == INSTANCE TurnContract WITH
  shown <- {s \in Sessions : Visible(s)},
  gone <- {s \in Sessions : session[s] = "purged"},
  story <- events,
  answers <- [t \in Turns |-> AnswersOf(t)]

\* The store keeps the contract its callers rely on (TurnContract), step for step.
KeepsContract == Contract!Spec
=============================================================================
