------------------------------- MODULE Worker -------------------------------
(***************************************************************************)
(* A worker process: the coroutines that run its turns, the ones that      *)
(* cancel them, its heartbeat and its orderly stop, over the store's       *)
(* operations, which it reaches by requests that may be answered late,     *)
(* time out while the server still executes them, or be lost.              *)
(*                                                                         *)
(* A coroutine is its place in the code, by the await it is at:            *)
(*   finding    run_task reads the turn; nothing catches a cancellation    *)
(*   starting   _run_turn reads the session and readies the engine         *)
(*   claiming   the runner's first append, its claim on the turn           *)
(*   streaming  the engine is asked for its next event                     *)
(*   appending  an event of the engine's is appended                       *)
(*   finishing  the answer's finish, shielded from cancellation            *)
(*   handing    cancelled meanwhile: that finish is waited for             *)
(*   ending     the runner's _end: failed, interrupted or cancelled        *)
(*   closing    run_task's end_if_running, after a cancellation            *)
(*   over       done; "idle" is no coroutine yet                           *)
(*                                                                         *)
(* Times are relative, as in ServerTime.                                   *)
(***************************************************************************)
EXTENDS TurnStore

CONSTANTS
  Worker,       \* this worker's name
  MaxRunning,   \* max_running_tasks_per_worker
  Heartbeat,    \* heartbeat_seconds, in ticks
  Stalled,      \* stalled_after_seconds, in ticks
  Unreliable    \* whether requests may time out and a claim's answer be lost

ASSUME WorkerAssumption ==
  /\ Worker \in Workers
  /\ MaxRunning \in Nat \ {0}
  /\ Heartbeat \in Nat \ {0}
  /\ 2 * Heartbeat <= LeaseTime
  /\ Stalled \in Nat
  /\ Unreliable \in BOOLEAN
  /\ {"message_started", "piece"} \subseteq Pieces

VARIABLES
  mode,         \* the process: "up", "draining", "closing" or "down"
  runner,       \* by turn: its coroutine
  granted,      \* the tasks a claim took whose answer is on its way
  cancelling,   \* by turn: its _cancel coroutine, "none", "waiting" or "ending"
  requests,     \* the writes on their way to the server, the abandoned ones too
  announced,    \* the cancels announced that the worker has not heard yet
  beat          \* the heartbeat: ticks since the last, or the renewal under way

workerVars == <<mode, runner, granted, cancelling, requests, announced, beat>>

-----------------------------------------------------------------------------
(* Coroutines and their requests                                           *)

Reasons == {"cancel", "close", "stalled"}

\* `position` is the last the writer numbered, `why` the cancellation under way, `stopped`
\* whether the worker's _stop cancelled it already, `quiet` for how long its engine was silent.
NoRunner == [pc |-> "idle", position |-> 0, why |-> "none", stopped |-> FALSE, quiet |-> 0]

Alive(t) == runner[t].pc \notin {"idle", "over"}

Running == {t \in Turns : Alive(t)}

\* A coroutine that is over is forgotten: _forget_task.
Over == [NoRunner EXCEPT !.pc = "over"]

Request(t, from, n, what) == [turn |-> t, from |-> from, position |-> n, what |-> what, age |-> 0]

\* How the runner ends a turn that was cancelled for this reason, and after an error.
RunnerEnds(why) ==
  CASE why = "close"   -> [state |-> "interrupted", kept |-> <<"failed">>, last |-> <<"turn_ended">>]
    [] why = "cancel"  -> [state |-> "cancelled", kept |-> <<>>, last |-> <<"turn_ended">>]
    [] OTHER           -> [state |-> "failed", kept |-> <<"failed">>, last |-> <<"turn_ended">>]

\* How run_task, or _cancel, ends one with end_if_running: no answer and no event.
TaskEnds(why) == [RunnerEnds(why) EXCEPT !.kept = <<>>, !.last = <<>>]

Finishes ==
  [state |-> "finished", kept |-> <<"answer">>, last |-> <<"message_completed", "turn_ended">>]

\* The coroutine goes on to its _end, which numbers its event before it writes.
ToEnd(r, why) == [r EXCEPT !.pc = "ending", !.why = why, !.position = @ + 1]

\* A CancelledError at the await a coroutine is at: where it goes on.
Interrupted(r, why) ==
  CASE r.pc \in {"finding", "closing"}                          -> Over
    [] r.pc \in {"streaming", "appending"}                      -> ToEnd(r, why)
    [] r.pc = "finishing"                       -> [r EXCEPT !.pc = "handing", !.why = why]
    [] r.pc \in {"starting", "claiming", "handing", "ending"}
                                                -> [r EXCEPT !.pc = "closing", !.why = why]
    [] OTHER                                                    -> r

\* The write it is then at, if it just came to one.
Sent(t, before, after) ==
  IF after.pc = before.pc THEN {}
  ELSE CASE after.pc = "ending"  -> {Request(t, "ending", after.position, RunnerEnds(after.why))}
         [] after.pc = "closing" -> {Request(t, "closing", 0, TaskEnds(after.why))}
         [] OTHER                -> {}

\* The coroutines of `whom` are cancelled for `why`, those of the rest go on.
Interrupt(whom, why) ==
  /\ runner' = [t \in Turns |->
       IF t \in whom
       THEN Interrupted([runner[t] EXCEPT !.stopped = (why # "close") \/ @], why)
       ELSE runner[t]]
  /\ requests' = requests \cup UNION {Sent(t, runner[t], runner'[t]) : t \in whom}

\* Whether the coroutine that sent the request still waits for its answer.
Awaited(q) ==
  \/ runner[q.turn].pc = q.from
  \/ q.from = "finishing" /\ runner[q.turn].pc = "handing"
  \/ q.from = "cancelling" /\ cancelling[q.turn] = "ending"

\* Cancelled or not, where a coroutine goes once its last write is behind it.
Raised(r) == IF r.why = "none" THEN Over ELSE [r EXCEPT !.pc = "closing"]

\* Where an answer takes the coroutine. TurnLostError ends it; SessionNotFoundError, past the
\* first append, is an error like any other and goes to its _end, which the store refuses too.
Answered(t, accepted) ==
  LET r == runner[t]
  IN  CASE r.pc \in {"claiming", "appending"} /\ accepted -> [r EXCEPT !.pc = "streaming"]
        [] r.pc \in {"appending", "finishing"} /\ ~accepted /\ ~OfVisible(t) -> ToEnd(r, "none")
        [] r.pc \in {"handing", "ending"} -> Raised(r)
        [] OTHER -> Over

\* Mistaken: an append that failed, the first too, is let go and the stream goes on.
FailedQuietly(r) ==
  CASE r.pc \in {"claiming", "appending"} -> [r EXCEPT !.pc = "streaming"]
    [] r.pc = "finishing" -> ToEnd(r, "none")
    [] r.pc = "handing"   -> Raised(r)
    [] OTHER              -> Over

\* Where a request that failed takes it: an error of the first append is nobody's to catch, one
\* in the stream ends the turn as failed, one of an end leaves the turn to its lease.
Failed(r) ==
  CASE r.pc \in {"appending", "finishing"} -> ToEnd(r, "none")
    [] r.pc = "handing"                    -> Raised(r)
    [] OTHER                               -> Over

\* The coroutine that waits for q goes on as `next` says, q itself gone or left behind.
GoOn(q, next, left) ==
  IF q.from = "cancelling"
  THEN /\ cancelling' = [cancelling EXCEPT ![q.turn] = "none"]
       /\ requests' = left
       /\ UNCHANGED runner
  ELSE /\ runner' = [runner EXCEPT ![q.turn] = next]
       /\ requests' = left \cup Sent(q.turn, runner[q.turn], next)
       /\ UNCHANGED cancelling

-----------------------------------------------------------------------------
(* The requests                                                            *)

IsAppend(q) == q.from \in {"claiming", "appending"}

\* What the server does with a write, at the time its sender gave it.
Accepts(q) ==
  IF IsAppend(q) THEN AppendEvent(q.turn, q.position, q.what, -q.age)
  ELSE FinishTurn(q.turn, q.what.state, -q.age, q.what.kept,
                  Numbered(q.position, q.what.last))

WouldAccept(q) ==
  /\ OfVisible(q.turn)
  /\ Holds(q.turn, -q.age)
  /\ IF IsAppend(q) THEN ~Taken(q.turn, q.position)
     ELSE \A e \in Numbered(q.position, q.what.last) : ~Taken(q.turn, e.position)

\* The server executes a request; its sender, if it still waits, hears how.
Execute(q) ==
  /\ IF WouldAccept(q) THEN Accepts(q) ELSE UNCHANGED storeVars
  /\ IF Awaited(q) THEN GoOn(q, Answered(q.turn, WouldAccept(q)), requests \ {q})
     ELSE requests' = requests \ {q} /\ UNCHANGED <<runner, cancelling>>
  /\ UNCHANGED <<mode, granted, announced, beat>>

\* Its sender gives up, and the server may execute it all the same.
TimeOut(q) ==
  /\ Unreliable
  /\ Awaited(q)
  /\ GoOn(q, Failed(runner[q.turn]), requests)
  /\ UNCHANGED <<storeVars, mode, granted, announced, beat>>

\* A request nobody waits for never reaches the server.
Lose(q) ==
  /\ ~Awaited(q)
  /\ requests' = requests \ {q}
  /\ UNCHANGED <<storeVars, mode, runner, granted, cancelling, announced, beat>>

-----------------------------------------------------------------------------
(* Claiming                                                                *)

\* dispatch_queued: as many tasks as there is room for; one claim at a time.
Claim ==
  /\ mode = "up"
  /\ granted = {}
  /\ MaxRunning > Cardinality(Running)
  /\ \E batch \in ClaimBatches(Worker, 0, MaxRunning - Cardinality(Running)) :
       /\ ClaimTasks(batch, LeaseTime)
       /\ granted' = batch
  /\ UNCHANGED <<mode, runner, cancelling, requests, announced, beat>>

Dispatch ==
  /\ mode = "up"
  /\ granted # {}
  /\ runner' = [t \in Turns |-> IF t \in granted THEN [NoRunner EXCEPT !.pc = "finding"]
                                ELSE runner[t]]
  /\ granted' = {}
  /\ UNCHANGED <<storeVars, mode, cancelling, requests, announced, beat>>

\* The claim's answer is lost: its tasks are running in the store, and nowhere else.
LoseClaim ==
  /\ Unreliable
  /\ granted # {}
  /\ granted' = {}
  /\ UNCHANGED <<storeVars, mode, runner, cancelling, requests, announced, beat>>

-----------------------------------------------------------------------------
(* Running a turn                                                          *)

Step(t, next, sent) ==
  /\ runner' = [runner EXCEPT ![t] = next]
  /\ requests' = requests \cup sent
  /\ UNCHANGED <<storeVars, mode, granted, cancelling, announced, beat>>

\* run_task finds its turn, or finds that its session is gone.
FindTurn(t) ==
  /\ runner[t].pc = "finding"
  /\ Step(t, IF OfVisible(t) THEN [runner[t] EXCEPT !.pc = "starting"] ELSE Over, {})

\* The session is read, the engine ready, the deadline ahead: the runner claims the turn.
StartTurn(t) ==
  /\ runner[t].pc = "starting"
  /\ Step(t, [runner[t] EXCEPT !.pc = "claiming", !.position = 1],
          {Request(t, "claiming", 1, "message_started")})

\* An error, or a deadline passed, before the runner's claim: logged, and no end is written.
StartFails(t) ==
  /\ runner[t].pc = "starting"
  /\ Step(t, Over, {})

\* The engine says something: progress, and an event more.
EngineSays(t) ==
  LET n == runner[t].position + 1
  IN  /\ runner[t].pc = "streaming"
      /\ n \in Positions
      /\ Step(t, [runner[t] EXCEPT !.pc = "appending", !.position = n, !.quiet = 0],
              {Request(t, "appending", n, "piece")})

\* The engine hands its answer over.
EngineDone(t) ==
  /\ runner[t].pc = "streaming"
  /\ Step(t, [runner[t] EXCEPT !.pc = "finishing", !.position = @ + 2, !.quiet = 0],
          {Request(t, "finishing", runner[t].position + 1, Finishes)})

\* The engine fails, by its deadline too.
EngineFails(t) ==
  LET next == ToEnd(runner[t], "none")
  IN  /\ runner[t].pc = "streaming"
      /\ Step(t, next, Sent(t, runner[t], next))

-----------------------------------------------------------------------------
(* Cancelling                                                              *)

\* _cancel of each of these that runs here: stopped once, however often it is asked.
Stop(whom) ==
  LET here == whom \cap Running
  IN  /\ cancelling' = [t \in Turns |-> IF t \in here /\ cancelling[t] = "none" THEN "waiting"
                                        ELSE cancelling[t]]
      /\ Interrupt({t \in here : ~runner[t].stopped}, "cancel")

\* The announcement of a cancel arrives. One for a task not dispatched yet is ignored.
HearCancel(t) ==
  /\ mode # "down"
  /\ t \in announced
  /\ announced' = announced \ {t}
  /\ Stop({t})
  /\ UNCHANGED <<storeVars, mode, granted, beat>>

MissCancel(t) ==
  /\ t \in announced
  /\ announced' = announced \ {t}
  /\ UNCHANGED <<storeVars, mode, runner, granted, cancelling, requests, beat>>

\* The coroutine stopped is over: _cancel ends its turn, in case it did not.
EndCancelled(t) ==
  /\ cancelling[t] = "waiting"
  /\ ~Alive(t)
  /\ IF OfVisible(t)
     THEN /\ cancelling' = [cancelling EXCEPT ![t] = "ending"]
          /\ requests' = requests \cup {Request(t, "cancelling", 0, TaskEnds("cancel"))}
     ELSE /\ cancelling' = [cancelling EXCEPT ![t] = "none"]
          /\ UNCHANGED requests
  /\ UNCHANGED <<storeVars, mode, runner, granted, announced, beat>>

-----------------------------------------------------------------------------
(* The heartbeat                                                           *)

Resting(n) == [since |-> n, tasks |-> {}, age |-> 0]

BeatDue == mode # "down" /\ beat.tasks = {} /\ beat.since >= Heartbeat

\* Mistaken: a runner whose engine is silent is renewed like any other.
BeatPatiently ==
  /\ BeatDue
  /\ beat' = IF Running = {} THEN Resting(0) ELSE [since |-> 0, tasks |-> Running, age |-> 0]
  /\ UNCHANGED <<storeVars, mode, runner, granted, cancelling, requests, announced>>

\* renew_leases: the tasks that run here, those stalled stopped first.
Beat ==
  /\ BeatDue
  /\ Interrupt({t \in Running : runner[t].quiet > Stalled /\ ~runner[t].stopped}, "stalled")
  /\ beat' = IF Running = {} THEN Resting(0) ELSE [since |-> 0, tasks |-> Running, age |-> 0]
  /\ UNCHANGED <<storeVars, mode, granted, cancelling, announced>>

\* The server renews them, and answers with the cancels the worker missed.
Renew ==
  /\ beat.tasks # {}
  /\ RenewLeases(beat.tasks, -beat.age, LeaseTime - beat.age)
  /\ Stop(StopsMissed(beat.tasks, -beat.age))
  /\ beat' = Resting(0)
  /\ UNCHANGED <<mode, granted, announced>>

LoseRenewal ==
  /\ Unreliable
  /\ beat.tasks # {}
  /\ beat' = Resting(0)
  /\ UNCHANGED <<storeVars, mode, runner, granted, cancelling, requests, announced>>

-----------------------------------------------------------------------------
(* Stopping, crashing and starting again                                   *)

\* stop: no more claims, the one under way given up, and a wait for what runs.
BeginStop ==
  /\ mode = "up"
  /\ mode' = "draining"
  /\ granted' = {}
  /\ UNCHANGED <<storeVars, runner, cancelling, requests, announced, beat>>

\* close_timeout is over: what still runs is cancelled, past _stop's once.
DrainOver ==
  /\ mode = "draining"
  /\ Running # {}
  /\ mode' = "closing"
  /\ Interrupt(Running, "close")
  /\ UNCHANGED <<storeVars, granted, cancelling, announced, beat>>

\* The coroutines are over, those of _cancel too: the heartbeat ends, the process goes.
EndStop ==
  /\ mode \in {"draining", "closing"}
  /\ Running = {}
  /\ \A t \in Turns : cancelling[t] = "none"
  /\ mode' = "down"
  /\ beat' = Resting(0)
  /\ UNCHANGED <<storeVars, runner, granted, cancelling, requests, announced>>

\* The process dies where it stands; what it had sent may still arrive.
Crash ==
  /\ mode # "down"
  /\ mode' = "down"
  /\ runner' = [t \in Turns |-> IF Alive(t) THEN Over ELSE runner[t]]
  /\ granted' = {}
  /\ cancelling' = [t \in Turns |-> "none"]
  /\ beat' = Resting(0)
  /\ UNCHANGED <<storeVars, requests, announced>>

Start ==
  /\ mode = "down"
  /\ mode' = "up"
  /\ announced' = {}
  /\ UNCHANGED <<storeVars, runner, granted, cancelling, requests, beat>>

-----------------------------------------------------------------------------

WorkerInit ==
  /\ mode = "up"
  /\ runner = [t \in Turns |-> NoRunner]
  /\ granted = {}
  /\ cancelling = [t \in Turns |-> "none"]
  /\ requests = {}
  /\ announced = {}
  /\ beat = Resting(0)

WorkerNext ==
  \/ \E q \in requests : Execute(q) \/ TimeOut(q) \/ Lose(q)
  \/ Claim \/ Dispatch \/ LoseClaim
  \/ \E t \in Turns :
       \/ FindTurn(t) \/ StartTurn(t) \/ StartFails(t)
       \/ EngineSays(t) \/ EngineDone(t) \/ EngineFails(t)
       \/ HearCancel(t) \/ MissCancel(t) \/ EndCancelled(t)
  \/ Beat \/ Renew \/ LoseRenewal
  \/ BeginStop \/ DrainOver \/ EndStop \/ Crash \/ Start
=============================================================================
