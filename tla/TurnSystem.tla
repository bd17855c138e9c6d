----------------------------- MODULE TurnSystem -----------------------------
(***************************************************************************)
(* The server and one worker together, over the store they share: users    *)
(* who ask, cancel and delete; readers, which end a turn whose lease has   *)
(* lapsed before they read on (the sweep, and every handler that opens,    *)
(* cancels, deletes, resumes or asks); the worker; and time.               *)
(*                                                                         *)
(* The reader's end is three calls with room between them: it looks at the *)
(* turn's task, reads the turn's events, of which the failed answer is     *)
(* made, and ends the turn, by the time it was when it first looked.       *)
(***************************************************************************)
EXTENDS Worker, ServerTime

CONSTANT
  Readers       \* the handlers and sweeps that may end a lapsed turn at one time

VARIABLES
  reader,       \* by reader: its place, its turn and its age
  grantAge,     \* how long the claim's answer has been on its way
  unheard       \* by turn: for how long its runner went on after it was asked to stop

systemVars == <<storeVars, workerVars, reader, grantAge, unheard>>

clocks == <<grantAge, unheard>>

-----------------------------------------------------------------------------
(* The users                                                               *)

UserAsks(s, t, newQuestion) ==
  /\ QueueTurn(s, t, newQuestion, QueuedTime)
  /\ UNCHANGED <<workerVars, reader, clocks>>

\* The store ends a queued turn; a running one is announced to the worker.
UserCancels(t) ==
  /\ RequestCancel(t)
  /\ announced' = IF task[t].state = "running" THEN announced \cup {t} ELSE announced
  /\ UNCHANGED <<mode, runner, granted, cancelling, requests, beat, reader, clocks>>

UserStarts(s) ==
  /\ AddSession(s)
  /\ UNCHANGED <<workerVars, reader, clocks>>

UserDeletes(s) ==
  /\ HideSession(s)
  /\ UNCHANGED <<workerVars, reader, clocks>>

-----------------------------------------------------------------------------
(* The readers                                                             *)

Idle == [pc |-> "idle"]

Reads(r, next) ==
  /\ reader' = [reader EXCEPT ![r] = next]
  /\ UNCHANGED <<storeVars, workerVars, clocks>>

\* The active turn's task has lapsed: it is to be ended.
Look(r, t) ==
  /\ reader[r].pc = "idle"
  /\ OfVisible(t)
  /\ turn[t].state = "active"
  /\ Lapsed(t, 0)
  /\ Reads(r, [pc |-> "looked", turn |-> t, age |-> 0])

ReadEvents(r) ==
  /\ reader[r].pc = "looked"
  /\ LET t == reader[r].turn
     IN  Reads(r, IF OfVisible(t) THEN [pc |-> "read", turn |-> t, age |-> reader[r].age] ELSE Idle)

\* The store checks again; a turn ended or renewed meanwhile is left as it is.
EndTurn(r) ==
  LET t == reader[r].turn
  IN  /\ reader[r].pc = "read"
      /\ \/ EndExpiredTurn(t, -reader[r].age)
         \/ /\ ~(OfVisible(t) /\ turn[t].state = "active" /\ Lapsed(t, -reader[r].age))
            /\ UNCHANGED storeVars
      /\ reader' = [reader EXCEPT ![r] = Idle]
      /\ UNCHANGED <<workerVars, clocks>>

\* The sweep finds no turn of a lapsed task, its session being hidden: the task alone ends.
SweepLooks(r, t) ==
  /\ reader[r].pc = "idle"
  /\ Lapsed(t, 0)
  /\ ~OfVisible(t)
  /\ Reads(r, [pc |-> "orphan", turn |-> t, age |-> 0])

SweepEnds(r) ==
  LET t == reader[r].turn
  IN  /\ reader[r].pc = "orphan"
      /\ IF Lapsed(t, -reader[r].age) THEN EndExpiredTask(t, -reader[r].age)
         ELSE UNCHANGED storeVars
      /\ reader' = [reader EXCEPT ![r] = Idle]
      /\ UNCHANGED <<workerVars, clocks>>

-----------------------------------------------------------------------------
(* Time                                                                    *)

\* A tick passes. Nothing under way outlasts MaxAge, and a worker that is up and can reach its
\* server beats on time.
Tick ==
  /\ \A q \in requests : q.age < MaxAge
  /\ \A r \in Readers : reader[r].pc # "idle" => reader[r].age < MaxAge
  /\ beat.tasks # {} => beat.age < MaxAge
  /\ granted # {} => grantAge < MaxAge
  /\ ~BeatDue \/ Unreliable
  /\ LeasesAge
  /\ requests' = {[q EXCEPT !.age = @ + 1] : q \in requests}
  /\ reader' = [r \in Readers |-> IF reader[r].pc = "idle" THEN Idle
                                  ELSE [reader[r] EXCEPT !.age = @ + 1]]
  /\ runner' = [t \in Turns |-> IF Alive(t) /\ runner[t].quiet <= Stalled
                                THEN [runner[t] EXCEPT !.quiet = @ + 1] ELSE runner[t]]
  /\ beat' = IF beat.tasks # {} THEN [beat EXCEPT !.age = @ + 1]
             ELSE IF mode # "down" /\ beat.since < Heartbeat THEN [beat EXCEPT !.since = @ + 1]
             ELSE beat
  /\ grantAge' = IF granted # {} THEN grantAge + 1 ELSE 0
  /\ unheard' = [t \in Turns |-> IF Alive(t) /\ t \in asked /\ unheard[t] <= Heartbeat + 2 * MaxAge
                                 THEN unheard[t] + 1 ELSE unheard[t]]
  /\ UNCHANGED <<session, turn, asked, events, messages, mode, granted, cancelling, announced>>

-----------------------------------------------------------------------------

SystemInit ==
  /\ Init
  /\ WorkerInit
  /\ reader = [r \in Readers |-> Idle]
  /\ grantAge = 0
  /\ unheard = [t \in Turns |-> 0]

\* A step of the worker's is the system's, nothing of the server's moving.
ByWorker(step) ==
  /\ step
  /\ grantAge' = IF granted' # {} THEN grantAge ELSE 0
  /\ unheard' = [t \in Turns |-> IF Alive(t)' /\ t \in asked THEN unheard[t] ELSE 0]
  /\ UNCHANGED reader

SystemNext ==
  \/ \E s \in Sessions : UserStarts(s) \/ UserDeletes(s)
  \/ \E s \in Sessions, t \in Turns, newQuestion \in BOOLEAN : UserAsks(s, t, newQuestion)
  \/ \E t \in Turns : UserCancels(t)
  \/ \E r \in Readers, t \in Turns : Look(r, t) \/ SweepLooks(r, t)
  \/ \E r \in Readers : ReadEvents(r) \/ EndTurn(r) \/ SweepEnds(r)
  \/ ByWorker(WorkerNext)
  \/ Tick

SystemSpec == SystemInit /\ [][SystemNext]_systemVars

\* What the program's schedule grants. Time passes; a request is answered, fails or is lost; the
\* event loop runs what is ready; the heartbeat and the sweep come round. Nothing is asked of
\* the users, of a crash or a restart, of the announcements, nor of an engine: it may be silent
\* for ever.
Fairness ==
  /\ WF_systemVars(Tick)
  /\ WF_systemVars(\E q \in requests : ByWorker(Execute(q) \/ TimeOut(q) \/ Lose(q)))
  /\ WF_systemVars(ByWorker(Dispatch \/ LoseClaim))
  /\ WF_systemVars(ByWorker(Beat))
  /\ WF_systemVars(ByWorker(Renew \/ LoseRenewal))
  /\ WF_systemVars(\E t \in Turns : ByWorker(EndCancelled(t)))
  /\ \A r \in Readers :
       /\ WF_systemVars(\E t \in Turns : Look(r, t) \/ SweepLooks(r, t))
       /\ WF_systemVars(ReadEvents(r) \/ EndTurn(r) \/ SweepEnds(r))

FairSpec == SystemSpec /\ Fairness

-----------------------------------------------------------------------------
(* Properties                                                              *)

\* The store's state, the worker's and the readers' are what their fields may hold.
SystemTypeOK ==
  /\ TypeOK
  /\ mode \in {"up", "draining", "closing", "down"}
  /\ runner \in [Turns ->
       [pc : {"idle", "finding", "starting", "claiming", "streaming", "appending", "finishing",
              "handing", "ending", "closing", "over"},
        position : Nat, why : Reasons \cup {"none"}, stopped : BOOLEAN, quiet : 0..Stalled + 1]]
  /\ granted \subseteq Turns
  /\ cancelling \in [Turns -> {"none", "waiting", "ending"}]
  /\ announced \subseteq Turns
  /\ beat.since \in 0..Heartbeat /\ beat.tasks \subseteq Turns /\ beat.age \in 0..MaxAge
  /\ \A q \in requests : q.turn \in Turns /\ q.age \in 0..MaxAge

\* While requests are answered in time, a runner that is alive holds its turn: the heartbeat
\* renews the lease before it lapses, so no reader and no sweep ends a turn under its runner,
\* and none of its writes is refused, unless the turn was deleted.
RunnerHoldsItsTurn ==
  \A t \in Turns :
    runner[t].pc \in {"starting", "claiming", "streaming", "appending", "finishing"}
      => ~OfVisible(t) \/ Holds(t, 0)

\* What holds at every moment of the server and its worker: the types, and that run_task's runner
\* is never left writing on a lease that the heartbeat let lapse, unless its session is hidden.
SystemInv == SystemTypeOK /\ RunnerHoldsItsTurn

\* An active turn's events are numbered 1, 2, 3 without a gap, whatever was lost, repeated or
\* late on the way: open_session counts them and calls the count the last position.
EventsAreContiguous ==
  \A t \in Turns : turn[t].state = "active" =>
    {e.position : e \in events[t]} = 1..Cardinality(events[t])

\* What a renewal costs a missed cancel: a turn asked to stop whose announcement was lost is
\* streaming no longer once a heartbeat has come round and been answered.
CancelHeardInTime ==
  \A t \in Turns :
    runner[t].pc \in {"finding", "starting", "claiming", "streaming", "appending"}
      => unheard[t] <= Heartbeat + 2 * MaxAge

\* Every turn ends, or its session is deleted: whether its worker claims it or not, crashes, is
\* stopped, loses its requests, or has an engine that never says another word.
EveryTurnEnds ==
  \A t \in Turns : turn[t].state = "active" ~> (turn[t].state # "active" \/ ~OfVisible(t))

\* Every task ends too, that of a deleted session by the sweep alone: none is left for a sweep to
\* find for ever.
EveryTaskEnds == \A t \in Turns : task[t].state = "running" ~> task[t].state = "done"
=============================================================================
