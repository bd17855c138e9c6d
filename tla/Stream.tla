------------------------------- MODULE Stream -------------------------------
(***************************************************************************)
(* One turn on its way to the page: the runner writes what the engine      *)
(* streams as events and keeps the parts of the answer; the server reads   *)
(* the events and sends them over a connection that may be cut; the page's *)
(* client carries on where it left off. The runner may fail, be stopped or *)
(* be lost, and a reader then ends the turn with what its events held.     *)
(*                                                                         *)
(* Leases and claims are the store's own (TurnStore, TurnSystem): here a   *)
(* reader may end the turn of a runner that is gone, or of one so slow     *)
(* that its lease has passed. The one write that such a runner may still   *)
(* have under way may come between the reader's two calls.                 *)
(***************************************************************************)
EXTENDS Page, FiniteSets

CONSTANTS
  Texts,        \* what a piece of the engine's text may be
  Arguments,    \* what a call's arguments may be
  MaxEvents,    \* a bound on the events of a turn, in which a call counts once
  Retries       \* how often a stream that brings nothing is opened again

ASSUME RetriesAssumption == Retries \in Nat /\ MaxEvents \in Nat

ASSUME TextsAssumption == Texts \subseteq Seq(STRING)

VARIABLES
  log,          \* the documents of the turn's events, by position
  parts,        \* the parts of the answer, as the runner holds them
  runner,       \* where the runner is, the call it is on and the position it last used
  turn,         \* "active", or how the turn ended
  answer,       \* the answer the turn keeps: none, or one message
  seen,         \* how many of the events a reader that comes to end the turn has read
  conn,         \* the stream that is open, as the server holds it, and what is on its way
  client,       \* where the client is, the position it has, the tries it has made
  read,         \* the events the client gave the page, but the one that opens a stream
  page          \* what the page shows of them

vars == <<log, parts, runner, turn, answer, seen, conn, client, read, page>>

runnerVars == <<log, parts, runner, turn, answer, seen>>
clientVars == <<conn, client, read, page>>

None == [none |-> TRUE]

Kept(document) == [none |-> FALSE, document |-> document]

Closed == [open |-> FALSE, after |-> 0, thinking |-> 0, quiet |-> FALSE, queue |-> <<>>]

Init ==
  /\ log = <<>> /\ parts = <<>>
  /\ runner = [pc |-> "starting", call |-> 0, arguments |-> "plain", position |-> 0]
  /\ turn = "active" /\ answer = None /\ seen = 0
  /\ conn = [Closed EXCEPT !.open = TRUE, !.queue = <<RunStarted>>]
  /\ client = [pc |-> "reading", position |-> 0, tries |-> 0, carried |-> FALSE]
  /\ read = <<>> /\ page = NothingShown

-----------------------------------------------------------------------------
(* The runner                                                              *)

Document(n, event) == EventToDocument(n, event)

\* What a reader has read is of no more use once the turn has ended, or more than the one event
\* was written since that was under way when the lease passed: to write another the runner has
\* renewed it, and the reader's own call is refused.
StillHeld ==
  seen' = IF turn' = "active" /\ Len(log') <= seen + 1 THEN seen ELSE 0

\* An event is written at the next position; the store refuses it once the turn has ended.
Writes(event, from, next) ==
  /\ runner.pc = from /\ turn = "active"
  /\ log' = Append(log, Document(runner.position + 1, event))
  /\ runner' = [next EXCEPT !.position = @ + 1]

Calls == {log[i].body.call : i \in {j \in DOMAIN log : log[j].kind = "call_completed"}}

Results == {log[i].body.call : i \in {j \in DOMAIN log : log[j].kind = "result_landed"}}

Begin ==
  /\ Writes(MessageStarted, "starting", [runner EXCEPT !.pc = "streaming"])
  /\ UNCHANGED <<parts, turn, answer, clientVars>> /\ StillHeld

Streamed ==
  LET counted == {"message_started", "text_piece", "reasoning_piece", "call_started"}
  IN  Cardinality({i \in DOMAIN log : log[i].kind \in counted}) < MaxEvents

Say(text) ==
  /\ Streamed
  /\ Writes(TextPiece(text), "streaming", runner)
  /\ parts' = WithText(parts, text)
  /\ UNCHANGED <<turn, answer, clientVars>> /\ StillHeld

Think(text) ==
  /\ Streamed
  /\ Writes(ReasoningPiece(text), "streaming", runner)
  /\ UNCHANGED <<parts, turn, answer, clientVars>> /\ StillHeld

\* A call is three events, each written on its own.
Call(arguments) ==
  /\ Streamed
  /\ LET call == runner.call + 1
     IN  Writes(CallStarted(call), "streaming",
                [runner EXCEPT !.pc = "called", !.call = call, !.arguments = arguments])
  /\ UNCHANGED <<parts, turn, answer, clientVars>> /\ StillHeld

GiveArguments ==
  /\ Writes(ArgumentsPiece(runner.call, runner.arguments), "called",
            [runner EXCEPT !.pc = "argued"])
  /\ UNCHANGED <<parts, turn, answer, clientVars>> /\ StillHeld

CompleteCall ==
  /\ Writes(CallCompleted(runner.call), "argued", [runner EXCEPT !.pc = "streaming"])
  /\ parts' = Append(parts, ToolCallPart(runner.call, runner.arguments))
  /\ UNCHANGED <<turn, answer, clientVars>> /\ StillHeld

Result(call, text) ==
  /\ call \in Calls \ Results
  /\ Writes(ResultLanded(call, text), "streaming", runner)
  /\ parts' = Append(parts, ToolResultPart(call, text))
  /\ UNCHANGED <<turn, answer, clientVars>> /\ StillHeld

\* What the runner may be writing.
Writing(text) ==
  CASE runner.pc = "starting" -> {MessageStarted}
    [] runner.pc = "streaming" ->
         {TextPiece(text), ReasoningPiece(text), CallStarted(runner.call + 1)} \cup
         {ResultLanded(call, text) : call \in Calls \ Results}
    [] runner.pc = "called" -> {ArgumentsPiece(runner.call, runner.arguments)}
    [] runner.pc = "argued" -> {CallCompleted(runner.call)}

\* A write fails, or a closing worker cuts it short, whether the store had kept it or not. The
\* first one's exception leaves the runner.
WriteFails(text) ==
  /\ runner.pc \in {"starting", "streaming", "called", "argued"} /\ turn = "active" /\ Streamed
  /\ \E event \in Writing(text) :
       log' \in {log, Append(log, Document(runner.position + 1, event))}
  /\ \E pc \in IF runner.pc = "starting" THEN {"gone"} ELSE {"breaking", "closing"} :
       runner' = [runner EXCEPT !.pc = pc, !.position = @ + 1]
  /\ UNCHANGED <<parts, turn, answer, clientVars>> /\ StillHeld

\* The turn's record, its answer and its last events are one write.
EndTurn(state, message, events) ==
  /\ turn = "active"
  /\ turn' = state
  /\ answer' = message
  /\ log' = log \o [i \in DOMAIN events |-> Document(runner.position + i, events[i])]

\* The answer is handed over: its text too, when the engine streamed none. What cannot be
\* stored is an exception, and so is a call that fails: the positions of the last events were
\* used by then, and the parts have the text.
Finish(text) ==
  /\ runner.pc = "streaming" /\ turn = "active"
  /\ parts' = IF text # <<>> /\ \A i \in DOMAIN parts : parts[i].kind # "text"
              THEN Append(parts, TextPart(text)) ELSE parts
  /\ \/ /\ CanStore(parts')
        /\ EndTurn("finished", Kept(StoredMessage(parts', FALSE)),
                   <<MessageCompleted, TurnEnded("finished")>>)
        /\ runner' = [runner EXCEPT !.pc = "gone"]
     \/ /\ runner' = [runner EXCEPT !.pc = "breaking", !.position = @ + 2]
        /\ UNCHANGED <<log, turn, answer>>
  /\ UNCHANGED clientVars /\ StillHeld

\* The engine fails, or is past the deadline.
EngineFails ==
  /\ runner.pc = "streaming"
  /\ runner' = [runner EXCEPT !.pc = "breaking"]
  /\ UNCHANGED <<log, parts, turn, answer, clientVars>> /\ StillHeld

\* Ended badly, with what was built as its answer marked failed. When that cannot be stored,
\* or the call fails, the exception leaves the runner and nothing is ended.
EndsBadly(state) ==
  /\ \/ UNCHANGED <<log, turn, answer>>
     \/ EndTurn(state, Kept(StoredMessage(parts, TRUE)), <<TurnEnded(state)>>) /\ CanStore(parts)
  /\ runner' = [runner EXCEPT !.pc = "gone"]
  /\ UNCHANGED <<parts, clientVars>> /\ StillHeld

Breaks ==
  \/ runner.pc = "breaking" /\ EndsBadly("failed")
  \/ runner.pc = "closing" /\ EndsBadly("interrupted")

\* The worker closes, or has heard nothing from the engine for too long.
Stopped(state) ==
  /\ runner.pc \in {"streaming", "called", "argued"}
  /\ EndsBadly(state)

\* A cancellation keeps nothing.
Cancelled ==
  /\ runner.pc \in {"streaming", "called", "argued"}
  /\ EndTurn("cancelled", None, <<TurnEnded("cancelled")>>)
  /\ runner' = [runner EXCEPT !.pc = "gone"]
  /\ UNCHANGED <<parts, clientVars>> /\ StillHeld

\* The process dies, or the turn is no longer the runner's and its next write is refused.
RunnerLost ==
  /\ runner.pc # "gone"
  /\ runner' = [runner EXCEPT !.pc = "gone"]
  /\ UNCHANGED <<log, parts, turn, answer, clientVars>> /\ StillHeld

\* Ended by its record alone, with no event and no answer: cancelled while it is queued or once
\* its runner is done, or as the coroutine was told to end, when the runner was stopped before
\* it could, or again while it did.
EndsBare(state) ==
  /\ turn = "active" /\ turn' = state
  /\ runner.pc # "gone" \/ state = "cancelled"
  /\ runner' = [runner EXCEPT !.pc = "gone"]
  /\ UNCHANGED <<log, parts, answer, clientVars>> /\ StillHeld

\* A reader that finds the lease passed reads the events.
ReaderReads ==
  /\ turn = "active" /\ seen # Len(log)
  /\ seen' = Len(log)
  /\ UNCHANGED <<log, parts, runner, turn, answer, clientVars>>

\* In a call of its own it ends the turn as interrupted, with no event of its own, and keeps what
\* the events it has read held. An answer that cannot be stored is an exception, and the turn is
\* left as it is.
ReaderEnds ==
  /\ turn = "active" /\ turn' = "interrupted"
  /\ Len(log) \in {seen, seen + 1}
  /\ \E held \in {PartialAnswer(SubSeq(log, 1, seen))} :
       /\ CanStore(held)
       /\ answer' = Kept(StoredMessage(held, TRUE))
  /\ UNCHANGED <<log, parts, runner, clientVars>> /\ StillHeld

-----------------------------------------------------------------------------
(* The server's stream                                                     *)

After(position) == {i \in DOMAIN log : log[i].position > position}

Sends(event, position) ==
  conn' = [conn EXCEPT !.after = position, !.quiet = FALSE,
                       !.thinking = ThinkingAfter(@, event, position),
                       !.queue = Derived(conn.thinking, event, position)]

\* The next event that is stored, as the wire events derived from it.
SendNext ==
  /\ conn.open /\ ~conn.quiet /\ conn.queue = <<>>
  /\ After(conn.after) # {}
  /\ \E i \in After(conn.after) :
       /\ \A j \in After(conn.after) : i <= j
       /\ Reads(log[i]) /\ Sends(EventFromDocument(log[i]), log[i].position)
  /\ UNCHANGED <<runnerVars, client, read, page>>

\* The wait is over and nothing is stored past what was sent: the record is read next.
FindNothing ==
  /\ conn.open /\ ~conn.quiet /\ conn.queue = <<>>
  /\ After(conn.after) = {}
  /\ conn' = [conn EXCEPT !.quiet = TRUE]
  /\ UNCHANGED <<runnerVars, client, read, page>>

\* Mistaken: a turn that ended with nothing stored past what was sent was ended by a reader.
TellsInterrupted ==
  /\ conn.open /\ conn.quiet
  /\ IF turn = "active" THEN conn' = [conn EXCEPT !.quiet = FALSE]
     ELSE Sends(TurnEnded("interrupted"), conn.after)
  /\ UNCHANGED <<runnerVars, client, read, page>>

\* A turn that has ended is told from its record, under the position last sent.
ReadRecord ==
  /\ conn.open /\ conn.quiet
  /\ IF turn = "active" THEN conn' = [conn EXCEPT !.quiet = FALSE]
     ELSE Sends(TurnEnded(turn), conn.after)
  /\ UNCHANGED <<runnerVars, client, read, page>>

-----------------------------------------------------------------------------
(* The client                                                              *)

\* The connection is cut: what was on its way is lost.
Cut ==
  /\ conn.open /\ client.pc = "reading"
  /\ conn' = Closed
  /\ UNCHANGED <<runnerVars, client, read, page>>

\* An event the client has had in full, from something that replays: never an ending.
Skips(sent, position) == sent.id # 0 /\ sent.id <= position /\ ~IsTerminal(sent)

\* Mistaken: whatever arrives is a connection that works.
AnyEventCarries(sent, position) == TRUE

\* The event moves the position forward.
Carries(sent, position) == sent.id > position

Deliver ==
  LET sent == Head(conn.queue)
  IN  /\ client.pc = "reading" /\ conn.open /\ conn.queue # <<>>
      /\ conn' = IF IsTerminal(sent) THEN Closed ELSE [conn EXCEPT !.queue = Tail(@)]
      /\ IF Skips(sent, client.position) THEN UNCHANGED <<client, read, page>>
         ELSE /\ read' = IF sent = RunStarted THEN read ELSE Append(read, sent)
              /\ page' = Applied(page, sent)
              /\ client' = [client EXCEPT
                   !.position = IF sent.id > @ THEN sent.id ELSE @,
                   !.carried = @ \/ Carries(sent, client.position),
                   !.pc = IF IsTerminal(sent) THEN "over" ELSE @]
      /\ UNCHANGED runnerVars

\* The body ended with no ending in it, or the stream could not be opened: a try, unless they
\* are used up. Tries are counted since the last event that moved the position.
Retry ==
  /\ client.pc = "reading" /\ ~conn.open
  /\ LET tries == IF client.carried THEN 0 ELSE client.tries
     IN  client' = IF tries >= Retries THEN [client EXCEPT !.pc = "lost", !.tries = tries]
                   ELSE [client EXCEPT !.pc = "opening", !.tries = tries + 1, !.carried = FALSE]
  /\ UNCHANGED <<runnerVars, conn, read, page>>

\* Something between the two may send again a numbered event that went by before.
Replayed == {<<>>} \cup
  {<<[Mapped(EventFromDocument(log[i])) EXCEPT !.id = log[i].position]>> :
     i \in {j \in DOMAIN log : /\ log[j].position <= client.position
                               /\ log[j].kind \notin {"reasoning_piece", "turn_ended"}}}

\* Opened again after the last position; the server answers once there is an event to send.
Reopen(replayed) ==
  /\ client.pc = "opening"
  /\ client' = [client EXCEPT !.pc = "reading"]
  /\ conn' = [Closed EXCEPT !.open = TRUE, !.after = client.position,
                            !.queue = <<RunStarted>> \o replayed]
  /\ UNCHANGED <<runnerVars, read, page>>

\* The request does not arrive.
ReopenFails ==
  /\ client.pc = "opening"
  /\ client' = [client EXCEPT !.pc = "reading"]
  /\ UNCHANGED <<runnerVars, conn, read, page>>

-----------------------------------------------------------------------------

RunnerStreams ==
  \/ Begin
  \/ \E text \in Texts : Say(text) \/ Think(text) \/ WriteFails(text)
  \/ \E arguments \in Arguments : Call(arguments)
  \/ GiveArguments \/ CompleteCall
  \/ \E call \in Calls, text \in Texts : Result(call, text)

RunnerEnds ==
  \/ \E text \in Texts \cup {<<>>} : Finish(text)
  \/ Breaks
  \/ \E state \in {"interrupted", "failed"} : Stopped(state)

Next ==
  \/ RunnerStreams \/ RunnerEnds \/ EngineFails \/ Cancelled \/ RunnerLost
  \/ \E state \in {"interrupted", "failed", "cancelled"} : EndsBare(state)
  \/ ReaderReads \/ ReaderEnds
  \/ SendNext \/ FindNothing \/ ReadRecord
  \/ Cut \/ Deliver \/ Retry \/ ReopenFails
  \/ \E replayed \in Replayed : Reopen(replayed)

Spec == Init /\ [][Next]_vars

\* A turn runs to its deadline and no further, a reader comes by once its runner is gone, and
\* the server and the client go on. Nothing is asked of the network: it may cut for ever.
Fairness ==
  /\ WF_vars(EngineFails \/ Begin \/ GiveArguments \/ CompleteCall \/ RunnerEnds)
  /\ WF_vars(runner.pc = "gone" /\ ReaderReads)
  /\ WF_vars(runner.pc = "gone" /\ ReaderEnds)
  /\ WF_vars(SendNext) /\ WF_vars(FindNothing) /\ WF_vars(ReadRecord)
  /\ WF_vars(Deliver) /\ WF_vars(Retry)
  /\ WF_vars(ReopenFails \/ \E replayed \in Replayed : Reopen(replayed))

FairSpec == Spec /\ Fairness

-----------------------------------------------------------------------------
(* Properties                                                              *)

\* Every variable is what its fields may hold.
StreamTypeOK ==
  /\ \A i \in DOMAIN log : Reads(log[i]) /\ (i > 1 => log[i - 1].position < log[i].position)
  /\ runner.pc \in {"starting", "streaming", "called", "argued", "breaking", "closing", "gone"}
  /\ turn \in {"active", "finished", "failed", "cancelled", "interrupted"}
  /\ conn.open \in BOOLEAN /\ conn.quiet \in BOOLEAN /\ conn.after \in Nat
  /\ client.pc \in {"reading", "opening", "over", "lost"}
  /\ client.tries \in 0..Retries /\ client.position \in Nat
  /\ seen \in Nat
  /\ turn \in {"active", "cancelled"} => answer.none
  /\ turn = "finished" => ~answer.none

\* Half a character at the edge of a piece was replaced in an event.
Cleaned ==
  \E i \in DOMAIN log : "text" \in DOMAIN log[i].body /\ Contains(log[i].body.text, "replacement")

\* What the events of a turn but its end say, as the parts a message keeps.
Told == IF log # <<>> /\ Last(log).kind = "turn_ended" THEN Front(log) ELSE log

AsKept(events) == StoredMessage(PartialAnswer(events), TRUE).parts

\* The only text of the parts is the last of them.
HandedOver(kept) ==
  kept # <<>> /\ \A i \in DOMAIN kept : kept[i].kind = "text" <=> i = Len(kept)

\* The answer that is kept says what the turn's events said, whoever ended the turn: the runner
\* from the parts it held, a reader from the events. It may have on top the one text of an
\* engine that streamed none and handed it over at the end. A turn that did not finish may miss
\* its last event, the one whose write failed or was under way when a reader came, and no other:
\* that one the reader's answer leaves out, where data-model.md has it rebuilt from the events.
\* Half a character at a piece's edge is replaced in the events and whole in the answer.
StoredAsStreamed ==
  LET kept == MessageFromDocument(answer.document).parts
  IN  ~answer.none =>
        \/ kept = AsKept(Told)
        \/ HandedOver(kept) /\ Front(kept) = AsKept(Told)
        \/ turn # "finished" /\ Told # <<>> /\ kept = AsKept(Front(Told))
        \/ Cleaned

\* Every event up to the client's position was given to the page once, in order, whatever was
\* cut, opened again or replayed: no delta is repeated and none is lost.
ReadsOnce ==
  LET derived == {"REASONING_MESSAGE_START", "REASONING_MESSAGE_END"}
      content == {i \in DOMAIN read : read[i].type \notin derived /\ ~IsTerminal(read[i])}
      had == {i \in DOMAIN log : log[i].position <= client.position /\ log[i].kind # "turn_ended"}
  IN  /\ \A i, j \in content : i < j => read[i].id < read[j].id
      /\ \A j \in had : \E i \in content : read[i].id = log[j].position
      /\ \A i \in content : \E j \in had :
           /\ read[i].id = log[j].position
           /\ \A key \in DOMAIN log[j].body : read[i].body[key] = log[j].body[key]

\* What the client is told of the end is how the turn ended.
EndsAsItEnded ==
  client.pc = "over" =>
    LET told == Last(read) IN  IsTerminal(told) /\ told.body.state = turn

\* The page that was told the end shows no answer as still running, and no text that opening the
\* conversation again, which can read the answer, would contradict: what it has shown is how the
\* stored answer begins, or goes on from it when a write failed that the store had kept. Half a
\* character at a piece's edge aside.
ShowsTheAnswer ==
  LET shown == TextOf(page.parts)
      message == MessageFromDocument(answer.document)
      kept == TextOf(MessageView(message).parts)
  IN  client.pc = "over" =>
        /\ page.state # "running" /\ page.thinking = 0
        /\ answer.none \/ MessageReads(answer.document)
        /\ \/ answer.none \/ Cleaned
           \/ IsPrefix(shown, kept)
           \/ message.failed /\ IsPrefix(kept, shown)

\* What a client that is told the end is told and shows.
EndIsShown == EndsAsItEnded /\ ShowsTheAnswer

\* A client stops: the turn's end reaches it, or it gives up after as many tries in a row that
\* brought nothing as it may make. It never opens the stream again for ever.
ClientIsDone == <>(client.pc \in {"over", "lost"})

\* What holds at every moment of the stream and its reader: the types, and that a stream cut and
\* opened again at any event gives each piece of the answer to the page once.
StreamInv == StreamTypeOK /\ ReadsOnce
=============================================================================
