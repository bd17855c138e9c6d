-------------------------------- MODULE Fleet --------------------------------
(***************************************************************************)
(* A deployment: the server, started, stopped and killed, and the worker   *)
(* processes it spawns, each of which claims and ends the turns of its own *)
(* agents through the server's API. The server checks the database, spawns *)
(* its workers side by side and waits for each to be ready, and only then  *)
(* listens; it stops them while it still listens, so that they end their   *)
(* turns, and lets nobody in after that. A worker is not started again     *)
(* when it dies.                                                           *)
(*                                                                         *)
(* The server's `pc` is what it awaits:                                    *)
(*   opening    the database's check, then the cancels' listener           *)
(*   spawning   every worker's start                                       *)
(*   binding    uvicorn's start                                            *)
(*   up         a request, or a signal                                     *)
(*   stopping   its workers' ends                                          *)
(*   closing    uvicorn's shutdown, then the controller's close            *)
(* A process's is:                                                         *)
(*   forked     before it asks the system for its parent's end             *)
(*   booting    before it handles signals                                  *)
(*   starting   its engines are built                                      *)
(*   running    it claims                                                  *)
(*   draining   asked to stop, it waits for the turns it runs              *)
(*   ending     it interrupts them                                         *)
(***************************************************************************)
EXTENDS WorkerApi

CONSTANTS
  EndsWithParent, \* whether the system tells a process that its parent ended: Linux
  Configurations, \* the workers a server may be configured with, one set a start
  MaxOrders,      \* bound: the commands and the starts an operator asks for
  MaxFaults       \* bound: the kills, deaths and hangs, and what is too slow or fails

ASSUME FleetAssumption ==
  /\ EndsWithParent \in BOOLEAN
  /\ Configurations \subseteq SUBSET Workers \ {{}}
  /\ {MaxOrders, MaxFaults} \subseteq Nat

VARIABLES
  server,       \* the server's process
  spawn,        \* by worker: how its start goes, in the server
  process,      \* every worker process
  turn,         \* every turn's task
  starts,       \* the starts of the server so far
  faults,       \* the faults so far
  cut           \* the processes of this start that were killed or died

fleetVars == <<server, spawn, process, turn, starts, faults, cut>>

vars == <<schemaVars, apiVars, fleetVars>>

-----------------------------------------------------------------------------

\* `asked` is a signal received, `failed` a start that failed.
Off == [pc |-> "off", build |-> None, workers |-> {}, asked |-> FALSE, failed |-> FALSE,
        listening |-> FALSE]

NotSpawned == "none"

\* `ready` is its line, which its pipe holds once it is written, `runs` the turns it runs and
\* `claimed` those an answer on its way names.
NoProcess ==
  [pc |-> "none", term |-> FALSE, stuck |-> FALSE, ready |-> FALSE, runs |-> {}, claimed |-> {}]

Gone(p) == [NoProcess EXCEPT !.pc = "gone", !.ready = process[p].ready]

\* `dispatched` is a turn its worker knew of, `lost` one whose end failed at a server that listens.
NoTurn == [state |-> "none", worker |-> None, by |-> None, dispatched |-> FALSE, lost |-> FALSE]

At(pc) == server.pc = pc

Go(pc) == server' = [server EXCEPT !.pc = pc]

\* The process this server spawned for the worker.
Mine(w) == <<starts, w>>

Lives(p) == process[p].pc \notin {"none", "gone"}

Is(p, pc) == process[p].pc = pc /\ ~process[p].stuck

\* The store is open: turns are queued, stopped and swept.
Serving == server.pc \in {"up", "stopping"} /\ server.listening

Reaches(p) == server.listening /\ Admitted(p) # {}

Fault == faults < MaxFaults /\ faults' = faults + 1

\* What a wait's limit may find: a process that hangs, or, a fault, one that is only slow.
Outwaited(p) == Lives(p) /\ IF process[p].stuck THEN UNCHANGED faults ELSE Fault

\* Sent a SIGTERM, which ends it until it handles signals.
Terminated(p) ==
  IF process[p].pc \in {"forked", "booting"} THEN Gone(p)
  ELSE IF Lives(p) THEN [process[p] EXCEPT !.term = TRUE]
  ELSE process[p]

ForgetPoll(p) == poll' = [poll EXCEPT ![p] = NoPoll]

-----------------------------------------------------------------------------
(* The server's start                                                      *)

Orders == starts + Cardinality({c \in Commands : command[c].pc # "idle"})

Start(build, workers) ==
  /\ At("off")
  /\ starts < MaxStarts /\ Orders < MaxOrders
  /\ starts' = starts + 1
  /\ server' = [Off EXCEPT !.pc = "opening", !.build = build, !.workers = workers]
  /\ process' = [p \in Processes |-> IF Lives(p) THEN process[p] ELSE NoProcess]
  /\ cut' = {}
  /\ UNCHANGED <<schemaVars, apiVars, spawn, turn, faults>>

\* controller.open, then listen_for_cancels. A start that fails stops what it had started.
Opens ==
  /\ At("opening")
  /\ \/ /\ CheckPasses(database, server.build)
        /\ Go("spawning")
     \/ server' = Off   \* refused, or the database does not answer
  /\ UNCHANGED <<schemaVars, apiVars, spawn, process, turn, starts, faults, cut>>

\* The secret is let in, then the process is made; making it may fail.
Spawn(w) ==
  /\ At("spawning")
  /\ w \in server.workers
  /\ spawn[w] = NotSpawned
  /\ Open(w, Mine(w))
  /\ \/ /\ spawn' = [spawn EXCEPT ![w] = "waiting"]
        /\ process' = [process EXCEPT ![Mine(w)] = [NoProcess EXCEPT !.pc = "forked"]]
        /\ UNCHANGED faults
     \/ /\ Fault
        /\ spawn' = [spawn EXCEPT ![w] = "failed"]
        /\ UNCHANGED process
  /\ UNCHANGED <<schemaVars, last, kept, poll, server, turn, starts, cut>>

\* The line on its pipe, whether its process still lives or not; or the pipe's end without it.
SpawnAnswered(w) ==
  /\ At("spawning")
  /\ spawn[w] = "waiting"
  /\ \/ /\ process[Mine(w)].ready
        /\ spawn' = [spawn EXCEPT ![w] = "ready"]
     \/ /\ process[Mine(w)].pc = "gone" /\ ~process[Mine(w)].ready
        /\ spawn' = [spawn EXCEPT ![w] = "failed"]
  /\ UNCHANGED <<schemaVars, apiVars, server, process, turn, starts, faults, cut>>

\* WORKER_START_SECONDS passed, for one that hangs or is slow: _stop_process sends it a SIGTERM
\* and waits, as a stop does. It may still start, and then stops by itself.
SpawnTimesOut(w) ==
  /\ At("spawning")
  /\ spawn[w] = "waiting"
  /\ Outwaited(Mine(w))
  /\ spawn' = [spawn EXCEPT ![w] = "stopping"]
  /\ process' = [process EXCEPT ![Mine(w)] = Terminated(Mine(w))]
  /\ UNCHANGED <<schemaVars, apiVars, server, turn, starts, cut>>

SpawnStopped(w) ==
  /\ At("spawning")
  /\ spawn[w] = "stopping"
  /\ process[Mine(w)].pc = "gone"
  /\ spawn' = [spawn EXCEPT ![w] = "failed"]
  /\ UNCHANGED <<schemaVars, apiVars, server, process, turn, starts, faults, cut>>

\* Every worker of this server is told to stop: what stop_worker does first.
TerminateAll == process' = [p \in Processes |-> IF p[1] = starts THEN Terminated(p) ELSE process[p]]

\* Mistaken: the first worker that is ready is enough.
OneIsEnough ==
  /\ At("spawning")
  /\ \A w \in server.workers : spawn[w] # NotSpawned
  /\ \E w \in server.workers : spawn[w] = "ready"
  /\ Go("binding")
  /\ UNCHANGED <<schemaVars, apiVars, spawn, process, turn, starts, faults, cut>>

\* gather: once every worker's start has ended, well or badly.
SpawnedAll ==
  /\ At("spawning")
  /\ \A w \in server.workers : spawn[w] \in {"ready", "failed"}
  /\ \/ /\ \A w \in server.workers : spawn[w] = "ready"
        /\ Go("binding")
        /\ UNCHANGED process
     \/ /\ \E w \in server.workers : spawn[w] = "failed"
        /\ server' = [server EXCEPT !.pc = "stopping", !.failed = TRUE]
        /\ TerminateAll
  /\ UNCHANGED <<schemaVars, apiVars, spawn, turn, starts, faults, cut>>

\* uvicorn listens, or its port is taken and it exits: serve's `finally` stops the lifecycle.
Bind ==
  /\ At("binding")
  /\ \/ /\ server' = [server EXCEPT !.pc = "up", !.listening = TRUE]
        /\ UNCHANGED <<process, faults>>
     \/ /\ Fault
        /\ server' = [server EXCEPT !.pc = "stopping", !.failed = TRUE]
        /\ TerminateAll
  /\ UNCHANGED <<schemaVars, apiVars, spawn, turn, starts, cut>>

-----------------------------------------------------------------------------
(* The server's stop                                                       *)

Signal ==
  /\ ~At("off")
  /\ ~server.asked
  /\ server' = [server EXCEPT !.asked = TRUE]
  /\ UNCHANGED <<schemaVars, apiVars, spawn, process, turn, starts, faults, cut>>

\* Mistaken: it stops listening first, as uvicorn alone would.
StopListensNot ==
  /\ At("up") /\ server.asked
  /\ server' = [server EXCEPT !.pc = "stopping", !.listening = FALSE]
  /\ TerminateAll
  /\ UNCHANGED <<schemaVars, apiVars, spawn, turn, starts, faults, cut>>

\* Server.shutdown: the workers first, while it listens.
StopWorkers ==
  /\ At("up") /\ server.asked
  /\ Go("stopping")
  /\ TerminateAll
  /\ UNCHANGED <<schemaVars, apiVars, spawn, turn, starts, faults, cut>>

\* WORKER_STOP_SECONDS passed: killed, whatever it still does.
KillsWorker(w) ==
  LET p == Mine(w)
  IN  /\ At("stopping") \/ spawn[w] = "stopping"
      /\ Outwaited(p)
      /\ process' = [process EXCEPT ![p] = Gone(p)]
      /\ ForgetPoll(p)
      /\ cut' = cut \union {p}
      /\ UNCHANGED <<schemaVars, secrets, last, kept, server, spawn, turn, starts>>

\* Every worker has ended: nobody is let in any more, and uvicorn shuts down.
WorkersStopped ==
  /\ At("stopping")
  /\ \A w \in Workers : spawn[w] # NotSpawned => process[Mine(w)].pc \in {"none", "gone"}
  /\ Close
  /\ server' = [server EXCEPT !.pc = "closing", !.listening = FALSE]
  /\ spawn' = [w \in Workers |-> NotSpawned]
  /\ UNCHANGED <<schemaVars, last, kept, poll, process, turn, starts, faults, cut>>

Closes ==
  /\ At("closing")
  /\ server' = Off
  /\ CancelsForgotten
  /\ UNCHANGED <<schemaVars, secrets, poll, spawn, process, turn, starts, faults, cut>>

\* Killed: its workers that asked are told, where the system tells them.
ServerDies ==
  /\ ~At("off")
  /\ Fault
  /\ server' = Off
  /\ Close
  /\ spawn' = [w \in Workers |-> NotSpawned]
  /\ CancelsForgotten
  /\ process' = [p \in Processes |->
                   IF EndsWithParent /\ p[1] = starts /\ process[p].pc # "forked"
                   THEN Terminated(p) ELSE process[p]]
  /\ UNCHANGED <<schemaVars, poll, turn, starts, cut>>

-----------------------------------------------------------------------------
(* A worker process                                                        *)

Become(p, pc) == process' = [process EXCEPT ![p].pc = pc]

\* Mistaken: it asks, and does not look whether its parent ended before it did.
AsksOnly(p) ==
  /\ Is(p, "forked")
  /\ Become(p, "booting")
  /\ UNCHANGED <<schemaVars, apiVars, server, spawn, turn, starts, faults, cut>>

\* _end_with_parent: it asks to be told of its parent's end, then looks whether that was before.
AsksParent(p) ==
  /\ Is(p, "forked")
  /\ \/ EndsWithParent /\ (At("off") \/ p[1] < starts) /\ process' = [process EXCEPT ![p] = Gone(p)]
     \/ ~(EndsWithParent /\ (At("off") \/ p[1] < starts)) /\ Become(p, "booting")
  /\ UNCHANGED <<schemaVars, apiVars, server, spawn, turn, starts, faults, cut>>

\* _run: the signals are handled, then the worker starts.
Boots(p) ==
  /\ Is(p, "booting")
  /\ Become(p, "starting")
  /\ UNCHANGED <<schemaVars, apiVars, server, spawn, turn, starts, faults, cut>>

\* Mistaken: it waits for its first poll to be answered.
StartsOnceHeard(p) ==
  /\ Is(p, "starting")
  /\ Reaches(p)
  /\ process' = [process EXCEPT ![p].pc = "running", ![p].ready = TRUE]
  /\ UNCHANGED <<schemaVars, apiVars, server, spawn, turn, starts, faults, cut>>

\* Worker.start needs no answer of the server's: it listens only once its workers are ready.
\* The line is written then.
Starts(p) ==
  /\ Is(p, "starting")
  /\ process' = [process EXCEPT ![p].pc = "running", ![p].ready = TRUE]
  /\ UNCHANGED <<schemaVars, apiVars, server, spawn, turn, starts, faults, cut>>

\* An engine this build lacks, a provider it cannot reach, its own database not open.
FailsToStart(p) ==
  /\ Is(p, "booting") \/ Is(p, "starting")
  /\ Fault
  /\ process' = [process EXCEPT ![p] = Gone(p)]
  /\ UNCHANGED <<schemaVars, apiVars, server, spawn, turn, starts, cut>>

Hangs(p) ==
  /\ Lives(p) /\ ~process[p].stuck
  /\ Fault
  /\ process' = [process EXCEPT ![p].stuck = TRUE]
  /\ UNCHANGED <<schemaVars, apiVars, server, spawn, turn, starts, cut>>

Dies(p) ==
  /\ Lives(p)
  /\ Fault
  /\ process' = [process EXCEPT ![p] = Gone(p)]
  /\ ForgetPoll(p)
  /\ cut' = cut \union {p}
  /\ UNCHANGED <<schemaVars, secrets, last, kept, server, spawn, turn, starts>>

\* The tasks of the worker whose secret was presented, whatever the request says.
Claimable(p) ==
  {t \in Turns : turn[t].state = "queued" /\ turn[t].worker \in Admitted(p)}

\* The server takes the tasks; its answer is on its way, or is nobody's when the worker stopped,
\* hung or ended after it asked.
Claims(p) ==
  /\ process[p].ready
  /\ Reaches(p)
  /\ process[p].claimed = {}
  /\ Claimable(p) # {}
  /\ turn' = [t \in Turns |-> IF t \in Claimable(p)
                              THEN [turn[t] EXCEPT !.state = "running", !.by = p]
                              ELSE turn[t]]
  /\ process' = IF Is(p, "running") THEN [process EXCEPT ![p].claimed = Claimable(p)]
                ELSE process
  /\ UNCHANGED <<schemaVars, apiVars, server, spawn, starts, faults, cut>>

Dispatches(p) ==
  /\ Is(p, "running")
  /\ process[p].claimed # {}
  /\ process' = [process EXCEPT ![p].runs = @ \union process[p].claimed, ![p].claimed = {}]
  /\ turn' = [t \in Turns |-> IF t \in process[p].claimed
                              THEN [turn[t] EXCEPT !.dispatched = turn[t].state = "running"]
                              ELSE turn[t]]
  /\ UNCHANGED <<schemaVars, apiVars, server, spawn, starts, faults, cut>>

\* The turns the answer names are stopped, as a cancel stops them: Ends.
PollsCancels(p) ==
  /\ process[p].pc \in {"running", "draining", "ending"} /\ ~process[p].stuck
  /\ Reaches(p)
  /\ Polls(p)
  /\ UNCHANGED <<schemaVars, secrets, last, kept, fleetVars>>

\* A turn's end: its answer, a failure, a cancel, or the worker's stop. The server keeps it.
Ends(p, t) ==
  /\ process[p].pc \in {"running", "draining", "ending"} /\ ~process[p].stuck
  /\ t \in process[p].runs
  /\ Reaches(p)
  /\ process' = [process EXCEPT ![p].runs = @ \ {t}]
  /\ turn' = [turn EXCEPT ![t] = [NoTurn EXCEPT !.state = "ended"]]
  /\ UNCHANGED <<schemaVars, apiVars, server, spawn, starts, faults, cut>>

\* Nobody listens for CONNECT_PATIENCE, or the server that listens refuses it; or, a fault, it
\* lets the worker in and the request fails.
LosesTurn(p, t) ==
  /\ process[p].pc \in {"running", "draining", "ending"} /\ ~process[p].stuck
  /\ t \in process[p].runs
  /\ process' = [process EXCEPT ![p].runs = @ \ {t}]
  /\ \/ ~Reaches(p) /\ UNCHANGED <<turn, faults>>
     \/ Reaches(p) /\ Fault /\ turn' = [turn EXCEPT ![t].lost = TRUE]
  /\ UNCHANGED <<schemaVars, apiVars, server, spawn, starts, cut>>

\* Worker.stop: the claim under way is cancelled, whatever it was answered.
Drains(p) ==
  /\ Is(p, "running") /\ process[p].term
  /\ process' = [process EXCEPT ![p].pc = "draining", ![p].claimed = {}]
  /\ UNCHANGED <<schemaVars, apiVars, server, spawn, turn, starts, faults, cut>>

\* CLOSE_TIMEOUT: the turns still running are interrupted.
Interrupts(p) ==
  /\ Is(p, "draining")
  /\ process[p].runs # {}
  /\ Become(p, "ending")
  /\ UNCHANGED <<schemaVars, apiVars, server, spawn, turn, starts, faults, cut>>

Leaves(p) ==
  /\ process[p].pc \in {"draining", "ending"} /\ ~process[p].stuck
  /\ process[p].runs = {}
  /\ process' = [process EXCEPT ![p] = Gone(p)]
  /\ ForgetPoll(p)
  /\ UNCHANGED <<schemaVars, secrets, last, kept, server, spawn, turn, starts, faults, cut>>

-----------------------------------------------------------------------------
(* The turns                                                               *)

Queue(t, w) ==
  /\ Serving
  /\ turn[t].state = "none"
  /\ w \in server.workers
  /\ turn' = [turn EXCEPT ![t] = [NoTurn EXCEPT !.state = "queued", !.worker = w]]
  /\ UNCHANGED <<schemaVars, apiVars, server, spawn, process, starts, faults, cut>>

\* Announced to this server's listener, as to every one on the database.
Cancel(t) ==
  /\ Serving
  /\ turn[t].state = "running"
  /\ last < MaxCancels
  /\ StopRequested(t)
  /\ UNCHANGED <<schemaVars, secrets, poll, fleetVars>>

\* Its heartbeat renews the lease of each turn it runs.
Renewed(t) ==
  LET p == turn[t].by
  IN  Reaches(p) /\ Lives(p) /\ ~process[p].stuck /\ t \in process[p].runs \union process[p].claimed

\* The sweep: queued too long, or running under a lease that was not renewed.
Sweep(t) ==
  /\ Serving
  /\ \/ turn[t].state = "queued"
     \/ turn[t].state = "running" /\ ~Renewed(t)
  /\ turn' = [turn EXCEPT ![t] = [NoTurn EXCEPT !.state = "ended"]]
  /\ UNCHANGED <<schemaVars, apiVars, server, spawn, process, starts, faults, cut>>

-----------------------------------------------------------------------------

FleetInit ==
  /\ SchemaInit
  /\ secrets = NoSecrets /\ last = 0 /\ kept = <<>>
  /\ poll = [p \in Processes |-> NoPoll]
  /\ server = Off
  /\ spawn = [w \in Workers |-> NotSpawned]
  /\ process = [p \in Processes |-> NoProcess]
  /\ turn = [t \in Turns |-> NoTurn]
  /\ starts = 0 /\ faults = 0 /\ cut = {}

OrderInit == Orders < MaxOrders /\ \E c \in Commands, build \in Builds : InitBegin(c, build)

InitDatabase == (OrderInit \/ InitSteps) /\ UNCHANGED <<apiVars, fleetVars>>

StartSteps ==
  \/ Opens
  \/ \E w \in Workers :
       Spawn(w) \/ SpawnAnswered(w) \/ SpawnTimesOut(w) \/ SpawnStopped(w)
  \/ SpawnedAll
  \/ Bind

StopSteps ==
  \/ StopWorkers
  \/ WorkersStopped
  \/ Closes

WorkerSteps(p) ==
  \/ AsksParent(p)
  \/ Boots(p)
  \/ Starts(p)
  \/ Drains(p)
  \/ Interrupts(p)
  \/ Leaves(p)

TurnSteps(p) == \E t \in Turns : Ends(p, t) \/ LosesTurn(p, t)

Progress ==
  \/ StartSteps
  \/ StopSteps
  \/ \E w \in Workers : KillsWorker(w)
  \/ \E p \in Processes : WorkerSteps(p) \/ TurnSteps(p)

FleetNext ==
  \/ InitDatabase
  \/ \E build \in Builds, workers \in Configurations : Start(build, workers)
  \/ Signal
  \/ Progress
  \/ ServerDies
  \/ \E p \in Processes :
       \/ FailsToStart(p)
       \/ Hangs(p)
       \/ Dies(p)
       \/ Claims(p)
       \/ Dispatches(p)
       \/ PollsCancels(p)
  \/ \E t \in Turns :
       \/ \E w \in Workers : Queue(t, w)
       \/ Cancel(t)
       \/ Sweep(t)

\* While the server's start or stop can go on, its timeouts included, or a process that does
\* not hang can, or a turn it runs can end, one of them does: each takes finitely many steps.
FleetFairness == WF_vars(Progress)

FleetSpec == FleetInit /\ [][FleetNext]_vars /\ FleetFairness

-----------------------------------------------------------------------------
(* What holds                                                              *)

FleetTypeOK ==
  /\ SchemaTypeOK
  /\ \A w \in Workers : secrets[w] \in {None, Mine(w)}
  /\ last \in 0..MaxCancels /\ Len(kept) <= Kept
  /\ server.pc \in {"off", "opening", "spawning", "binding", "up", "stopping", "closing"}
  /\ spawn \in [Workers -> {NotSpawned, "waiting", "ready", "stopping", "failed"}]
  /\ \A p \in Processes :
       /\ process[p].pc \in {"none", "forked", "booting", "starting", "running", "draining",
                             "ending", "gone"}
       /\ process[p].runs \union process[p].claimed \subseteq Turns
  /\ \A t \in Turns : turn[t].state \in {"none", "queued", "running", "ended"}
  /\ starts \in 0..MaxStarts /\ faults \in 0..MaxFaults /\ cut \subseteq Processes

\* A server that spawns workers or serves does so over a database of its own build, checked
\* once at its start, whatever `db init` runs meanwhile.
ServesItsBuild ==
  server.pc \notin {"off", "opening"} =>
    /\ database.tables = Tables /\ database.front = {}
    /\ database.row = [version |-> SchemaVersion, hash |-> server.build]

\* A server says it is up only when every worker it is configured with runs, but for one that
\* died since.
UpIsReady ==
  At("up") =>
    \A w \in server.workers :
      Mine(w) \in cut \/ process[Mine(w)].pc \in {"running", "draining", "ending"}

\* The API hands a turn to the worker its agent names, in the process this server spawned for
\* it, and takes a turn's end from no process of an earlier server.
HandsItsOwn ==
  [][ \A t \in Turns :
        /\ turn[t].state = "queued" /\ turn'[t].state = "running"
             => turn'[t].by = Mine(turn[t].worker)
        /\ turn[t].state = "running" /\ turn'[t].state = "ended" /\ process' # process
             => turn[t].by[1] = starts ]_vars

\* A server that stops, or fails to start, leaves no process of its own behind, not even one
\* whose start was under way when another's failed.
NoWorkerOutlives == At("closing") => \A w \in Workers : ~Lives(Mine(w))

\* A server that stops leaves no turn running that a worker of its knew of, unless the worker
\* died or was killed, or the request that was to end it failed: each is ended through the API,
\* which is served until then.
NothingLeftBehind ==
  At("closing") =>
    \A t \in Turns : turn[t].state = "running" /\ turn[t].dispatched /\ turn[t].by[1] = starts
                       => turn[t].by \in cut \/ turn[t].lost

\* A worker that is let in hears every cancel asked since its first poll, up to its cursor,
\* whatever answers were lost, except those too many to keep.
HearsEveryCancel ==
  \A p \in Processes :
    Admitted(p) # {} /\ poll[p].cursor # None =>
      \A n \in poll[p].first + 1 .. poll[p].cursor :
        n > last - Kept => \E c \in poll[p].heard : c.number = n

\* A start ends, up or not, and a stop that was asked for ends: no worker waits for a server
\* that waits for it.
StartAndStopEnd ==
  /\ server.pc \in {"opening", "spawning", "binding"} ~> server.pc \in {"up", "off"}
  /\ server.asked ~> At("off")

\* Where the system tells a process that its parent ended, no worker outlives its server
\* untold, whenever in its start the server was killed: before it asked, it looks.
EndsWithServer ==
  EndsWithParent =>
    \A p \in Processes :
      Lives(p) /\ (At("off") \/ p[1] < starts) => process[p].term \/ process[p].pc = "forked"

\* What holds at every moment of the server and its processes: the types, a server up only on a
\* database of its build and with its workers ready, and closed with none of them left.
FleetInv == FleetTypeOK /\ ServesItsBuild /\ UpIsReady /\ NoWorkerOutlives
=============================================================================
