------------------------------- MODULE Watcher -------------------------------
(***************************************************************************)
(* One client that follows a turn: the generator watch_turn on the server, *)
(* by the store call it is at, and what the client has been given, over as *)
(* many attachments as it makes. The writers of the turn are Writers.      *)
(*                                                                         *)
(*   reading    events_after its position                                  *)
(*   giving     the events it read are yielded one by one                  *)
(*   waiting    wait_for_events, which returns for an event or on timeout  *)
(*   checking   the second events_after                                    *)
(*   expiring   get_session, and _end_expired's look at the task           *)
(*   ending     _end_expired's end of a lapsed turn                        *)
(*   asking     get_turn: did it end without an event that says so?        *)
(*   over       the client was told the end; "refused": the conversation   *)
(*              is gone; "away": no attachment                             *)
(***************************************************************************)
EXTENDS Writers

CONSTANTS
  Watched,      \* the turns a client may follow
  NoTurnYet     \* the turn of a client that has not attached

ASSUME WatchAssumption == Watched \subseteq Turns

VARIABLES
  watch,        \* the generator: its place, its turn, what it read and still holds
  seen,         \* the position of the last event the client was given
  given         \* every event the client was given of its turn

watchVars == <<watch, seen, given>>

watcherVars == <<writersVars, watchVars>>

-----------------------------------------------------------------------------

Place(pc, t) == [pc |-> pc, turn |-> t, batch |-> {}, age |-> 0]

Attached == watch.pc \notin {"away", "over", "refused"}

Sees == OfVisible(watch.turn)

\* One store call of the generator's: it goes on to pc, or is refused when the session is hidden.
Calls(pc, next) ==
  /\ watch.pc = pc
  /\ watch' = IF Sees THEN next ELSE Place("refused", watch.turn)
  /\ UNCHANGED <<writersVars, seen, given>>

\* A client attaches to a turn it just asked for or found running, from its start, ...
Attach(t) ==
  /\ t \in Watched
  /\ watch.turn \in {NoTurnYet, t}
  /\ ~Attached
  /\ turn[t].state # "none"
  /\ watch' = Place("reading", t)
  /\ seen' = 0
  /\ given' = {}
  /\ UNCHANGED writersVars

\* ... or again, after the last event it saw.
Reattach ==
  /\ watch.pc = "away"
  /\ watch.turn # NoTurnYet
  /\ watch' = Place("reading", watch.turn)
  /\ UNCHANGED <<writersVars, seen, given>>

\* The connection closes, wherever the generator is.
Leave ==
  /\ Attached
  /\ watch' = Place("away", watch.turn)
  /\ UNCHANGED <<writersVars, seen, given>>

Read ==
  LET batch == EventsAfter(watch.turn, seen)
  IN  Calls("reading", IF batch = {} THEN Place("waiting", watch.turn)
                       ELSE [Place("giving", watch.turn) EXCEPT !.batch = batch])

\* The next event of the batch; the one that says the turn ended is the last.
Give ==
  LET e == CHOOSE e \in watch.batch : \A f \in watch.batch : e.position <= f.position
      rest == watch.batch \ {e}
  IN  /\ watch.pc = "giving"
      /\ given' = given \cup {e}
      /\ seen' = e.position
      /\ watch' = CASE e.document = "turn_ended" -> Place("over", watch.turn)
                    [] e.document # "turn_ended" /\ rest # {} -> [watch EXCEPT !.batch = rest]
                    [] OTHER -> Place("waiting", watch.turn)
      /\ UNCHANGED writersVars

\* wait_for_events: for the turn's end or an event, and no longer than its timeout.
Wait ==
  /\ watch.pc = "waiting"
  /\ watch' = Place("checking", watch.turn)
  /\ UNCHANGED <<writersVars, seen, given>>

Check ==
  Calls("checking", IF EventsAfter(watch.turn, seen) # {} THEN Place("reading", watch.turn)
                    ELSE Place("expiring", watch.turn))

\* _end_expired looks at the session's active turn, whichever that is by now.
LookForLapsed ==
  Calls("expiring", IF \E t \in ActiveTurns(turn[watch.turn].session) : Lapsed(t, 0)
                    THEN Place("ending", watch.turn)
                    ELSE Place("asking", watch.turn))

\* It ends the turn it looked at, unless that ended or another began meanwhile.
EndLapsed ==
  LET lapsed == {t \in ActiveTurns(turn[watch.turn].session) : Lapsed(t, -watch.age)}
  IN  /\ watch.pc = "ending"
      /\ UNCHANGED <<up, seen, given>>
      /\ watch' = Place(IF Sees THEN "asking" ELSE "refused", watch.turn)
      /\ IF Sees /\ lapsed # {} THEN \E t \in lapsed : EndExpiredTurn(t, -watch.age)
         ELSE UNCHANGED storeVars

\* Mistaken: the record is not asked, the wait's silence is taken for the end.
GetNothing == Calls("asking", Place("over", watch.turn))

\* The record says whether it goes on; when it does not, the client is told the end.
GetTurn ==
  Calls("asking", IF turn[watch.turn].state = "active" THEN Place("reading", watch.turn)
                  ELSE Place("over", watch.turn))

-----------------------------------------------------------------------------

Starts(s) == AddSession(s) /\ UNCHANGED <<up, watchVars>>

Asks(s, t) == QueueTurn(s, t, TRUE, QueuedTime) /\ UNCHANGED <<up, watchVars>>

WatchTick ==
  /\ watch.age < MaxAge
  /\ UNCHANGED <<session, turn, asked, events, messages, up, seen, given>>
  /\ watch' = [watch EXCEPT !.age = IF watch.pc = "ending" THEN @ + 1 ELSE @]
  /\ LeasesAge

WatchInit ==
  /\ WritersInit
  /\ watch = Place("away", NoTurnYet)
  /\ seen = 0
  /\ given = {}

Generates == Read \/ Give \/ Wait \/ Check \/ LookForLapsed \/ EndLapsed \/ GetTurn

WatchNext ==
  \/ \E s \in Sessions : Starts(s)
  \/ \E s \in Sessions, t \in Turns : Asks(s, t)
  \/ WritersNext /\ UNCHANGED watchVars
  \/ \E t \in Turns : Attach(t)
  \/ Reattach \/ Leave
  \/ Read \/ Give \/ Wait \/ Check \/ LookForLapsed \/ EndLapsed \/ GetTurn
  \/ WatchTick

WatchSpec == WatchInit /\ [][WatchNext]_watcherVars

\* The event loop runs the generator, whose wait has a timeout and whose client reads what it is
\* sent; time passes. Nothing is asked of the worker or of another reader.
FairWatchSpec == WatchSpec /\ WF_watcherVars(Generates) /\ WF_watcherVars(WatchTick)

-----------------------------------------------------------------------------
(* Properties                                                              *)

\* The generator is at a place it has, and holds events to give exactly while it gives them:
\* stored events of its own turn, all after the last one the client was given.
WatchTypeOK ==
  /\ watch.pc \in {"away", "reading", "giving", "waiting", "checking", "expiring", "ending",
                   "asking", "over", "refused"}
  /\ watch.turn \in Turns \cup {NoTurnYet}
  /\ watch.pc = "giving" <=> watch.batch # {}
  /\ \A e \in watch.batch : e \in events[watch.turn] /\ e.position > seen
  /\ given \subseteq StoredEvent
  /\ up \in BOOLEAN

\* However often it leaves and attaches again after the last event it saw, a client is given
\* every event up to that one: none is skipped by a read that overlaps a write.
NothingSkipped ==
  watch.turn \in Turns /\ turn[watch.turn].state # "none"
    => given = {e \in events[watch.turn] : e.position <= seen}

\* A client is told of an end only when the turn has ended: never by a wait that timed out, by a
\* slow engine, or by the end of another turn of the conversation.
ToldOnlyTheEnd == watch.pc = "over" => turn[watch.turn].state \in Outcomes

\* What holds at every moment of watch_turn's generator: the types, and that it returns only
\* once its turn has ended.
WatchInv == WatchTypeOK /\ ToldOnlyTheEnd

\* A client that stays is told the end of its turn, or that the conversation is gone: once the
\* turn has ended, by whichever party, and once its worker has died, though nobody else looks:
\* the watch itself then ends the turn.
WatchEnds ==
  (Attached /\ (~up \/ turn[watch.turn].state # "active")) ~> ~Attached
=============================================================================
