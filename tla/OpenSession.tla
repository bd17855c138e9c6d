----------------------------- MODULE OpenSession -----------------------------
(***************************************************************************)
(* open_session, one store call at a time, while Writers go on: what a     *)
(* client is shown of its conversation is put together from five reads.    *)
(*                                                                         *)
(*   expiring   get_session done; _end_expired looked, and ends the turn   *)
(*   thread     messages_of: the newest message is the thread's end        *)
(*   running    active_turn                                                *)
(*   counting   events_after of the active turn                            *)
(*   latest     latest_turn, for how the last one ended                    *)
(*   opened     the view is on its way to the client                       *)
(*   failed     the conversation has no message: messages[-1] raises       *)
(***************************************************************************)
EXTENDS Writers

CONSTANT
  Nobody        \* no turn, in a view

ASSUME OpenAssumption == Nobody \notin Turns

VARIABLES
  started,      \* by session: its turns, oldest first
  open,         \* the handler: its place, its session, its age, the turn it means to end
  view,         \* what it has put together
  moments,      \* the views every moment since it began would have given
  lapsed        \* the turns whose lease had lapsed for good when it began

handlerVars == <<open, view, moments, lapsed>>

openVars == <<writersVars, started, handlerVars>>

-----------------------------------------------------------------------------

\* The thread ends at the newest message; Nobody's when there is none.
Newest(s) ==
  IF messages[s] = <<>> THEN [turn |-> Nobody, kind |-> "none"]
  ELSE messages[s][Len(messages[s])]

LatestTurn(s) == IF started[s] = <<>> THEN Nobody ELSE started[s][Len(started[s])]

\* Mistaken: a turn its user stopped is not counted among those that ended badly.
EndedByItself == {"failed", "interrupted"}

EndedBadly == {"failed", "cancelled", "interrupted"}

RunningTurn(s) == IF ActiveTurns(s) = {} THEN Nobody ELSE CHOOSE t \in ActiveTurns(s) : TRUE

BadTurn(s) ==
  LET t == LatestTurn(s)
  IN  IF t = Nobody THEN Nobody ELSE IF turn[t].state \in EndedBadly THEN t ELSE Nobody

Told(t) == IF t = Nobody THEN 0 ELSE Cardinality(events[t])

Nothing == [end |-> [turn |-> Nobody, kind |-> "none"], active |-> Nobody,
            position |-> 0, bad |-> Nobody]

\* What one moment of the session would show.
Moment(s) ==
  [end |-> Newest(s), active |-> RunningTurn(s), position |-> Told(RunningTurn(s)),
   bad |-> BadTurn(s)]

-----------------------------------------------------------------------------
(* The handler                                                             *)

At(pc, s) == [pc |-> pc, session |-> s, age |-> 0, ends |-> Nobody]

\* No call still to come can renew the lease of t: none was sent before it lapsed.
ForGood(t) == ~up \/ task[t].lease <= -MaxAge

Open(s) ==
  LET found == {t \in ActiveTurns(s) : Lapsed(t, 0)}
  IN  /\ open.pc = "none"
      /\ Visible(s)
      /\ open' = IF found = {} THEN At("thread", s)
                 ELSE [At("expiring", s) EXCEPT !.ends = CHOOSE t \in found : TRUE]
      /\ view' = Nothing
      /\ lapsed' = {t \in found : ForGood(t)}
      /\ UNCHANGED <<writersVars, started>>

\* One read of the handler's: a hidden session refuses it.
Reads(pc, got, next) ==
  /\ open.pc = pc
  /\ IF Visible(open.session)
     THEN view' = got /\ open' = At(next, open.session)
     ELSE view' = view /\ open' = At("refused", open.session)
  /\ UNCHANGED <<writersVars, started, lapsed>>

\* Mistaken: the lapsed turn is left for the sweep.
ExpireLater ==
  /\ open.pc = "expiring"
  /\ open' = At("thread", open.session)
  /\ UNCHANGED <<storeVars, up, started, view, lapsed>>

Expire ==
  /\ open.pc = "expiring"
  /\ IF OfVisible(open.ends) /\ turn[open.ends].state = "active" /\ Lapsed(open.ends, -open.age)
     THEN EndExpiredTurn(open.ends, -open.age)
     ELSE UNCHANGED storeVars
  /\ open' = At(IF Visible(open.session) THEN "thread" ELSE "refused", open.session)
  /\ UNCHANGED <<up, started, view, lapsed>>

ReadThread ==
  Reads("thread", [view EXCEPT !.end = Newest(open.session)],
        IF messages[open.session] = <<>> THEN "failed" ELSE "running")

ReadActive ==
  Reads("running", [view EXCEPT !.active = RunningTurn(open.session)],
        IF ActiveTurns(open.session) = {} THEN "latest" ELSE "counting")

CountEvents == Reads("counting", [view EXCEPT !.position = Told(view.active)], "latest")

ReadLatest == Reads("latest", [view EXCEPT !.bad = BadTurn(open.session)], "opened")

Return ==
  /\ open.pc \in {"opened", "refused", "failed"}
  /\ open' = At("none", open.session)
  /\ view' = Nothing
  /\ lapsed' = {}
  /\ UNCHANGED <<writersVars, started>>

\* What the client is sent of it: the thread's end, the running turn and where its events are to
\* be followed from, which is their beginning whatever was counted, and how the last turn ended.
OpenedView(got) ==
  [end |-> got.end, bad |-> got.bad, run |-> got.active,
   after |-> IF got.active = Nobody THEN Nobody ELSE 0]

\* What every moment would have shown, while the handler is at it.
Witnessed ==
  \/ open'.pc = "none" /\ moments' = {}
  \/ \E s \in Sessions :
       /\ open'.pc # "none"
       /\ open'.session = s
       /\ moments' = (IF open.pc = "none" THEN {} ELSE moments) \cup {Moment(s)'}

-----------------------------------------------------------------------------
(* The users                                                               *)

StartSession(s) == AddSession(s) /\ UNCHANGED <<up, started, open, view, lapsed>>

\* A new question, or another answer to one asked before: regenerate, retry, resume.
Ask(s, t, newQuestion) ==
  /\ newQuestion \/ messages[s] # <<>>
  /\ QueueTurn(s, t, newQuestion, QueuedTime)
  /\ started' = [started EXCEPT ![s] = Append(@, t)]
  /\ UNCHANGED <<up, open, view, lapsed>>

OpenTick ==
  /\ open.age < MaxAge
  /\ LeasesAge
  /\ open' = [open EXCEPT !.age = IF open.pc = "expiring" THEN @ + 1 ELSE @]
  /\ UNCHANGED <<session, turn, asked, events, messages, up, started, view, lapsed>>

OpenInit ==
  /\ WritersInit
  /\ started = [s \in Sessions |-> <<>>]
  /\ open = [pc |-> "none", session |-> NoSession, age |-> 0, ends |-> Nobody]
  /\ view = Nothing
  /\ moments = {}
  /\ lapsed = {}

OpenNext ==
  /\ \/ \E s \in Sessions : StartSession(s) \/ Open(s)
     \/ \E s \in Sessions, t \in Turns, newQuestion \in BOOLEAN : Ask(s, t, newQuestion)
     \/ Expire \/ ReadThread \/ ReadActive \/ CountEvents \/ ReadLatest \/ Return
     \/ WritersNext /\ UNCHANGED <<started, open, view, lapsed>>
     \/ OpenTick
  /\ Witnessed

OpenSpec == OpenInit /\ [][OpenNext]_openVars

-----------------------------------------------------------------------------
(* Properties                                                              *)

\* A conversation opened after its worker was gone is never shown as still running: a turn whose
\* lease had lapsed before the request came, past what a late renewal takes up again, is ended
\* before the view is read.
NothingLapsedShown == open.pc = "opened" => OpenedView(view).run \notin lapsed

\* A conversation that shows no answer under its question shows why: a turn at work on it, or
\* one that ended badly, unless, while the view was put together, the answer was stored, or
\* another turn was begun after one that had ended badly.
ShowsWhatRuns ==
  LET shown == OpenedView(view)
  IN  open.pc = "opened" /\ shown.end.kind = "question"
        => \/ shown.run # Nobody \/ shown.bad # Nobody
           \/ \E m \in moments : m.end # shown.end
           \/ \E m, n \in moments : m.bad # Nobody /\ n.active \notin {Nobody, m.bad}
=============================================================================
