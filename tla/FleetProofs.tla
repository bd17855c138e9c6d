----------------------------- MODULE FleetProofs -----------------------------
(***************************************************************************)
(* What holds of a deployment for any workers, turns, databases, builds    *)
(* and numbers of starts, faults and cancels, proved: a server serves a    *)
(* database of its build with its workers ready and outlives none of them  *)
(* untold, a turn it hands out is ended in its own process or left by one  *)
(* that was cut off, and a worker hears the cancels.                       *)
(***************************************************************************)
EXTENDS Fleet, TLAPS

-----------------------------------------------------------------------------
(* The types, of every field                                               *)

DatabaseShape == [utf8 : BOOLEAN, tables : SUBSET Tables, row : Rows, front : SUBSET Tables]

SchemaShape ==
  /\ database \in DatabaseShape
  /\ locked \in Commands \union {None}
  /\ command \in [Commands -> [pc : {"idle", "locking", "creating", "over"},
                               build : Builds \union {None}]]

Cancels == [number : Nat, turn : Turns]

Polling == [cursor : Nat \union {None}, first : Nat \union {None}, heard : SUBSET Cancels]

ApiShape ==
  /\ secrets \in [Workers -> Processes \union {None}]
  /\ last \in 0..MaxCancels
  /\ kept \in Seq(Cancels)
  /\ poll \in [Processes -> Polling]

Server ==
  [pc : {"off", "opening", "spawning", "binding", "up", "stopping", "closing"},
   build : Builds \union {None}, workers : SUBSET Workers, asked : BOOLEAN, failed : BOOLEAN,
   listening : BOOLEAN]

Process ==
  [pc : {"none", "forked", "booting", "starting", "running", "draining", "ending", "gone"},
   term : BOOLEAN, stuck : BOOLEAN, ready : BOOLEAN, runs : SUBSET Turns,
   claimed : SUBSET Turns]

Task ==
  [state : {"none", "queued", "running", "ended"}, worker : Workers \union {None},
   by : Processes \union {None}, dispatched : BOOLEAN, lost : BOOLEAN]

FleetShape ==
  /\ server \in Server
  /\ spawn \in [Workers -> {NotSpawned, "waiting", "ready", "stopping", "failed"}]
  /\ process \in [Processes -> Process]
  /\ turn \in [Turns -> Task]
  /\ starts \in 0..MaxStarts
  /\ faults \in 0..MaxFaults
  /\ cut \subseteq Processes

Shape == SchemaShape /\ ApiShape /\ FleetShape

-----------------------------------------------------------------------------
(* The database                                                            *)

\* A command that has looked and is to create holds the lock, over a database still empty.
CommandsInv ==
  \A c \in Commands :
    /\ command[c].pc \in {"locking", "creating"} => database.utf8 /\ command[c].build \in Builds
    /\ command[c].pc = "creating" => locked = c /\ MayCreate

SchemaInv == CommandsInv /\ ServesItsBuild

-----------------------------------------------------------------------------
(* The server and its processes                                            *)

\* The secrets and the spawns are this server's, while it has any.
ServerInv ==
  /\ ~At("off") => starts \in 1..MaxStarts
  /\ server.listening => server.pc \in {"up", "stopping"}
  /\ server.pc \in {"binding", "up"} => \A w \in server.workers : spawn[w] = "ready"
  /\ \A w \in Workers :
       /\ secrets[w] # None => secrets[w] = Mine(w)
       /\ spawn[w] # NotSpawned => secrets[w] = Mine(w)
       /\ server.pc \in {"off", "opening", "closing"}
            => secrets[w] = None /\ spawn[w] = NotSpawned

\* What is known of a process whose start is awaited, those of `over` being cut off: it never
\* was ready, or it runs, or was cut off since; and nobody told it to stop.
Unready(p, proc, over) ==
  \/ proc.pc = "gone" /\ (proc.ready => p \in over)
  \/ proc.pc \in {"forked", "booting", "starting"} /\ ~proc.term /\ ~proc.ready
  \/ proc.pc = "running" /\ ~proc.term

\* Its server ended, and the system would have told it.
Orphan(p) == EndsWithParent /\ (At("off") \/ p[1] < starts)

\* The processes are of the starts so far, this server's of its spawns, and those spawned and
\* ready run until the server stops.
ProcessesInv ==
  /\ \A p \in Processes : p[1] > starts => process[p].pc = "none"
  /\ server.pc \notin {"off", "closing"} =>
       \A w \in Workers : spawn[w] = NotSpawned => process[Mine(w)].pc = "none"
  /\ server.pc \in {"spawning", "binding", "up"} =>
       \A w \in Workers :
         /\ spawn[w] = "waiting" => Unready(Mine(w), process[Mine(w)], cut)
         /\ spawn[w] = "ready" =>
              Mine(w) \in cut \/ (process[Mine(w)].pc = "running" /\ ~process[Mine(w)].term)

LifeInv == ServerInv /\ ProcessesInv /\ NoWorkerOutlives /\ EndsWithServer

-----------------------------------------------------------------------------
(* The turns                                                               *)

\* A process runs turns, and polls, only between its start and its end, and only turns it claimed.
RunsInv ==
  \A p \in Processes :
    /\ process[p].pc \in {"none", "forked", "booting", "starting", "gone"} =>
         process[p].runs = {} /\ process[p].claimed = {} /\ poll[p] = NoPoll
    /\ \A t \in process[p].runs \union process[p].claimed :
         turn[t].state = "ended" \/ (turn[t].state = "running" /\ turn[t].by = p)

\* A turn runs in a process of a server that listened, and if this server's knew of it, it is
\* there still, unless it was cut off or the turn's end failed.
TurnsInv ==
  \A t \in Turns :
    /\ turn[t].state # "running" => ~turn[t].dispatched
    /\ turn[t].state = "running" =>
         /\ turn[t].by \in Processes
         /\ turn[t].by[1] <= starts
         /\ server.pc \notin {"off", "closing"} /\ ~server.listening => turn[t].by[1] # starts
         /\ ~At("off") /\ turn[t].dispatched /\ turn[t].by[1] = starts
              => turn[t].by \in cut \/ turn[t].lost \/ t \in process[turn[t].by].runs

WorkInv == RunsInv /\ TurnsInv

-----------------------------------------------------------------------------
(* The cancels                                                             *)

\* What is kept are the latest, numbered one after another, ...
KeptInv ==
  /\ Len(kept) = IF last < Kept THEN last ELSE Kept
  /\ \A i \in 1..Len(kept) : kept[i].number = last - Len(kept) + i

\* ... and a worker's cursor is of the server that lets it in.
PollsInv ==
  \A p \in Processes :
    /\ poll[p].cursor = None <=> poll[p].first = None
    /\ Admitted(p) # {} /\ poll[p].cursor # None =>
         /\ poll[p].cursor <= last
         /\ \A n \in poll[p].first + 1 .. poll[p].cursor :
              n > last - Kept => \E c \in poll[p].heard : c.number = n

CancelsInv == KeptInv /\ PollsInv

FleetInvs == Shape /\ SchemaInv /\ LifeInv /\ WorkInv /\ CancelsInv

-----------------------------------------------------------------------------
(* Processes and what they are named by                                    *)

LEMMA MineIsMine ==
  ASSUME starts \in 1..MaxStarts
  PROVE  /\ \A w \in Workers : Mine(w) \in Processes /\ Mine(w)[1] = starts /\ Mine(w)[2] = w
         /\ \A p \in Processes : p[1] = starts => p[2] \in Workers /\ p = Mine(p[2])
  BY DEF Mine, Processes

LEMMA NoProcessType ==
  /\ NoProcess \in Process /\ NoProcess.pc = "none" /\ NoProcess.runs = {}
  /\ NoProcess.claimed = {}
  /\ NoPoll \in Polling /\ NoPoll.cursor = None /\ NoPoll.first = None
  BY DEF NoProcess, Process, NoPoll, Polling

LEMMA GoneType ==
  ASSUME FleetShape, NEW p \in Processes
  PROVE  /\ Gone(p) \in Process /\ Gone(p).pc = "gone" /\ Gone(p).runs = {}
         /\ Gone(p).claimed = {} /\ Gone(p).ready = process[p].ready
<1>1. process[p] \in Process
  BY DEF FleetShape
<1> QED
  BY <1>1 DEF Gone, NoProcess, Process

\* What a SIGTERM makes of a process: it ends, if it does not handle it yet, or is told.
LEMMA TerminatedType ==
  ASSUME FleetShape, NEW p \in Processes
  PROVE  /\ Terminated(p) \in Process
         /\ \/ process[p].pc \in {"forked", "booting"} /\ Terminated(p) = Gone(p)
            \/ /\ Lives(p) /\ Terminated(p).term
               /\ process[p].pc \notin {"forked", "booting"}
               /\ Terminated(p).pc = process[p].pc
               /\ Terminated(p).runs = process[p].runs
               /\ Terminated(p).claimed = process[p].claimed
            \/ ~Lives(p) /\ Terminated(p) = process[p]
<1>1. process[p] \in Process
  BY DEF FleetShape
<1>2. CASE process[p].pc \in {"forked", "booting"}
  BY <1>2, GoneType DEF Terminated
<1>3. CASE process[p].pc \notin {"forked", "booting"} /\ Lives(p)
  BY <1>1, <1>3 DEF Terminated, Process
<1>4. CASE process[p].pc \notin {"forked", "booting"} /\ ~Lives(p)
  BY <1>1, <1>4 DEF Terminated
<1> QED
  BY <1>2, <1>3, <1>4

-----------------------------------------------------------------------------
(* The steps of processes and turns, their server standing still           *)

\* The server is as it was.
ServerStays == UNCHANGED <<server, spawn, starts, secrets>>

\* A process stays at its place, or goes on: it leaves its run only when told, and ends there
\* only cut off.
ProcessesMove ==
  /\ cut \subseteq cut'
  /\ \A p \in Processes :
       \/ /\ process'[p].pc = process[p].pc /\ process'[p].term = process[p].term
          /\ process'[p].ready = process[p].ready
       \/ /\ Lives(p) /\ process'[p].pc \notin {"none", "gone"}
          /\ process'[p].term = process[p].term
          /\ process[p].pc # "running" \/ process[p].term
          /\ process[p].pc = "forked" => ~Orphan(p)
          /\ Unready(p, process[p], cut) => Unready(p, process'[p], cut')
       \/ /\ Lives(p) /\ process'[p].pc = "gone" /\ process'[p].ready = process[p].ready
          /\ process[p].pc # "running" \/ p \in cut'

LEMMA MovesLife ==
  ASSUME Shape, LifeInv, ServerStays, ProcessesMove
  PROVE  LifeInv'
<1> USE DEF Lives, At
<1>1. ServerInv'
  BY DEF LifeInv, ServerInv, ServerStays, Mine
<1>2. ~At("off") => \A w \in Workers : Mine(w) \in Processes
  BY MineIsMine DEF LifeInv, ServerInv
<1>3. ProcessesInv'
  <2>1. \A p \in Processes : p[1] > starts' => process'[p].pc = "none"
    BY DEF LifeInv, ProcessesInv, ServerStays, ProcessesMove
  <2>2. ASSUME server'.pc \notin {"off", "closing"}, NEW w \in Workers, spawn'[w] = NotSpawned
        PROVE  process'[Mine(w)'].pc = "none"
    BY <1>2, <2>2 DEF LifeInv, ProcessesInv, ServerStays, ProcessesMove, Mine
  <2>3. ASSUME server'.pc \in {"spawning", "binding", "up"}, NEW w \in Workers
        PROVE  /\ spawn'[w] = "waiting" => Unready(Mine(w)', process'[Mine(w)'], cut')
               /\ spawn'[w] = "ready" =>
                    \/ Mine(w)' \in cut'
                    \/ process'[Mine(w)'].pc = "running" /\ ~process'[Mine(w)'].term
    <3>1. Mine(w)' = Mine(w) /\ Mine(w) \in Processes
      BY <1>2, <2>3 DEF ServerStays, Mine
    <3>2. /\ spawn[w] = "waiting" => Unready(Mine(w), process[Mine(w)], cut)
          /\ spawn[w] = "ready" =>
               Mine(w) \in cut \/ (process[Mine(w)].pc = "running" /\ ~process[Mine(w)].term)
      BY <2>3 DEF LifeInv, ProcessesInv, ServerStays
    <3> QED
      BY <3>1, <3>2 DEF ProcessesMove, ServerStays, Unready
  <2> QED
    BY <2>1, <2>2, <2>3 DEF ProcessesInv, Unready
<1>4. NoWorkerOutlives'
  BY <1>2 DEF LifeInv, NoWorkerOutlives, ServerStays, ProcessesMove, Mine
<1>5. EndsWithServer'
  BY DEF LifeInv, EndsWithServer, ServerStays, ProcessesMove, Orphan
<1> QED
  BY <1>1, <1>3, <1>4, <1>5 DEF LifeInv

\* What is not of the database.
Deployed == ApiShape /\ FleetShape /\ LifeInv /\ WorkInv /\ CancelsInv

\* One process moves, or ends: it keeps the turns it runs, or is cut off, or had none.
LEMMA OneProcess ==
  ASSUME Shape, Deployed, NEW p \in Processes, Lives(p), NEW next \in Process,
         ServerStays, UNCHANGED <<turn, last, kept>>, faults' \in 0..MaxFaults,
         cut' \in {cut, cut \union {p}},
         process' = [process EXCEPT ![p] = next],
         \/ /\ next.pc = process[p].pc /\ next.term = process[p].term
            /\ next.ready = process[p].ready
         \/ /\ next.pc \notin {"none", "gone"} /\ next.term = process[p].term
            /\ process[p].pc # "running" \/ process[p].term
            /\ process[p].pc = "forked" => ~Orphan(p)
            /\ Unready(p, process[p], cut) => Unready(p, next, cut)
         \/ /\ next.pc = "gone" /\ next.ready = process[p].ready
            /\ process[p].pc # "running" \/ p \in cut',
         next.runs \subseteq process[p].runs, next.claimed \subseteq process[p].claimed,
         next.runs = process[p].runs \/ p \in cut',
         next.pc \in {"none", "forked", "booting", "starting", "gone"}
           => next.runs = {} /\ next.claimed = {} /\ poll'[p] = NoPoll,
         poll' \in {poll, [poll EXCEPT ![p] = NoPoll]}
  PROVE  Deployed'
<1>1. /\ process'[p] = next /\ \A q \in Processes : q # p => process'[q] = process[q]
      /\ process' \in [Processes -> Process]
  BY DEF Shape, FleetShape
<1>2. /\ \A q \in Processes : q # p => poll'[q] = poll[q]
      /\ poll'[p] \in {poll[p], NoPoll}
      /\ poll' \in [Processes -> Polling]
  BY NoProcessType DEF Shape, ApiShape
<1>3. ApiShape' /\ FleetShape'
  BY <1>1, <1>2 DEF Shape, ApiShape, FleetShape, ServerStays
<1>4. ProcessesMove
  BY <1>1 DEF ProcessesMove, Unready
<1>5. LifeInv'
  BY <1>4, MovesLife DEF Deployed
<1>6. RunsInv'
  <2> SUFFICES ASSUME NEW q \in Processes
               PROVE  /\ process'[q].pc \in {"none", "forked", "booting", "starting", "gone"} =>
                           /\ process'[q].runs = {} /\ process'[q].claimed = {}
                           /\ poll'[q] = NoPoll
                      /\ \A t \in process'[q].runs \union process'[q].claimed :
                           \/ turn'[t].state = "ended"
                           \/ turn'[t].state = "running" /\ turn'[t].by = q
    BY DEF RunsInv
  <2>1. CASE q = p
    BY <1>1, <2>1 DEF Deployed, WorkInv, RunsInv
  <2>2. CASE q # p
    BY <1>1, <1>2, <2>2 DEF Deployed, WorkInv, RunsInv
  <2> QED
    BY <2>1, <2>2
<1>7. TurnsInv'
  <2> SUFFICES ASSUME NEW t \in Turns, turn[t].state = "running"
               PROVE  /\ turn[t].by \in Processes
                      /\ turn[t].by[1] <= starts
                      /\ server.pc \notin {"off", "closing"} /\ ~server.listening
                           => turn[t].by[1] # starts
                      /\ ~At("off") /\ turn[t].dispatched /\ turn[t].by[1] = starts
                           => turn[t].by \in cut' \/ turn[t].lost \/ t \in process'[turn[t].by].runs
    BY DEF TurnsInv, Deployed, WorkInv, ServerStays, At
  <2>1. /\ turn[t].by \in Processes
        /\ turn[t].by[1] <= starts
        /\ server.pc \notin {"off", "closing"} /\ ~server.listening => turn[t].by[1] # starts
        /\ ~At("off") /\ turn[t].dispatched /\ turn[t].by[1] = starts
             => turn[t].by \in cut \/ turn[t].lost \/ t \in process[turn[t].by].runs
    BY DEF Deployed, WorkInv, TurnsInv
  <2>2. CASE turn[t].by = p
    BY <1>1, <2>1, <2>2
  <2>3. CASE turn[t].by # p
    BY <1>1, <2>1, <2>3
  <2> QED
    BY <2>1, <2>2, <2>3
<1>8. CancelsInv'
  <2>1. KeptInv'
    BY DEF Deployed, CancelsInv, KeptInv
  <2>2. \A q \in Processes : Admitted(q)' = Admitted(q)
    BY DEF Admitted, ServerStays
  <2>3. PollsInv'
    BY <1>2, <2>2, NoProcessType DEF Deployed, CancelsInv, PollsInv
  <2> QED
    BY <2>1, <2>3 DEF CancelsInv
<1> QED
  BY <1>3, <1>5, <1>6, <1>7, <1>8 DEF Deployed, WorkInv

\* A process boots, starts, fails, hangs, dies, is told to stop, leaves or is killed.
LEMMA ProcessStep ==
  ASSUME Shape, Deployed,
         \/ \E p \in Processes : WorkerSteps(p) \/ FailsToStart(p) \/ Hangs(p) \/ Dies(p)
         \/ \E w \in Workers : KillsWorker(w)
  PROVE  Deployed'
<1>1. ASSUME NEW p \in Processes,
             WorkerSteps(p) \/ FailsToStart(p) \/ Hangs(p) \/ Dies(p)
      PROVE  Deployed'
  <2>1. /\ process[p] \in Process
        /\ ServerStays /\ UNCHANGED <<turn, last, kept>>
        /\ faults' \in 0..MaxFaults
    BY <1>1, FleetAssumption
    DEF WorkerSteps, AsksParent, Boots, Starts, FailsToStart, Hangs, Dies, Drains, Interrupts,
        Leaves, Become, Fault, ServerStays, apiVars, Shape, FleetShape
  <2>2. /\ process[p].pc \in {"forked", "booting", "starting"}
             => process[p].runs = {} /\ process[p].claimed = {} /\ poll[p] = NoPoll
    BY DEF Deployed, WorkInv, RunsInv
  <2>3. [poll EXCEPT ![p] = NoPoll][p] = NoPoll
    BY DEF Shape, ApiShape
  <2>4. \A pc : process' = [process EXCEPT ![p].pc = pc]
          => process' = [process EXCEPT ![p] = [process[p] EXCEPT !.pc = pc]]
    OBVIOUS
  <2>13. CASE AsksParent(p)
    <3> DEFINE next == [process[p] EXCEPT !.pc = "booting"]
    <3>1. /\ next \in Process /\ next.pc = "booting" /\ next.term = process[p].term
          /\ next.ready = process[p].ready
          /\ next.runs = process[p].runs /\ next.claimed = process[p].claimed
      BY <2>1 DEF Process
    <3>2. /\ Lives(p) /\ process[p].pc = "forked" /\ UNCHANGED <<cut, poll>>
          /\ \/ process' = [process EXCEPT ![p] = Gone(p)]
             \/ ~Orphan(p) /\ process' = [process EXCEPT ![p] = next]
      BY <2>4, <2>13 DEF AsksParent, Is, Become, Lives, Orphan, apiVars
    <3> HIDE DEF next
    <3>3. CASE process' = [process EXCEPT ![p] = Gone(p)]
      BY <2>1, <2>2, <3>2, <3>3, GoneType, OneProcess DEF Shape
    <3>4. CASE ~Orphan(p) /\ process' = [process EXCEPT ![p] = next]
      BY <2>1, <2>2, <3>1, <3>2, <3>4, OneProcess DEF Unready
    <3> QED
      BY <3>2, <3>3, <3>4
  <2>5. CASE Boots(p)
    <3> DEFINE next == [process[p] EXCEPT !.pc = "starting"]
    <3>1. /\ next \in Process /\ next.pc = "starting" /\ next.term = process[p].term
          /\ next.ready = process[p].ready
          /\ next.runs = process[p].runs /\ next.claimed = process[p].claimed
      BY <2>1 DEF Process
    <3>2. /\ Lives(p) /\ process[p].pc = "booting" /\ UNCHANGED <<cut, poll>>
          /\ process' = [process EXCEPT ![p] = next]
      BY <2>4, <2>5 DEF Boots, Is, Become, Lives, apiVars
    <3> HIDE DEF next
    <3> QED
      BY <2>1, <2>2, <3>1, <3>2, OneProcess DEF Unready
  <2>6. CASE Starts(p)
    <3> DEFINE next == [process[p] EXCEPT !.pc = "running", !.ready = TRUE]
    <3>1. /\ next \in Process /\ next.pc = "running" /\ next.term = process[p].term
          /\ next.runs = process[p].runs /\ next.claimed = process[p].claimed
      BY <2>1 DEF Process
    <3>2. /\ Lives(p) /\ process[p].pc = "starting" /\ UNCHANGED <<cut, poll>>
          /\ process' = [process EXCEPT ![p] = next]
      BY <2>6 DEF Starts, Is, Lives, apiVars
    <3> HIDE DEF next
    <3> QED
      BY <2>1, <3>1, <3>2, OneProcess DEF Unready
  <2>7. CASE Drains(p)
    <3> DEFINE next == [process[p] EXCEPT !.pc = "draining", !.claimed = {}]
    <3>1. /\ next \in Process /\ next.pc = "draining" /\ next.term = process[p].term
          /\ next.runs = process[p].runs /\ next.claimed = {}
      BY <2>1 DEF Process
    <3>2. /\ Lives(p) /\ process[p].pc = "running" /\ process[p].term
          /\ UNCHANGED <<cut, poll>>
          /\ process' = [process EXCEPT ![p] = next]
      BY <2>7 DEF Drains, Is, Lives, apiVars
    <3> HIDE DEF next
    <3> QED
      BY <2>1, <3>1, <3>2, OneProcess DEF Unready
  <2>8. CASE Interrupts(p)
    <3> DEFINE next == [process[p] EXCEPT !.pc = "ending"]
    <3>1. /\ next \in Process /\ next.pc = "ending" /\ next.term = process[p].term
          /\ next.ready = process[p].ready
          /\ next.runs = process[p].runs /\ next.claimed = process[p].claimed
      BY <2>1 DEF Process
    <3>2. /\ Lives(p) /\ process[p].pc = "draining" /\ UNCHANGED <<cut, poll>>
          /\ process' = [process EXCEPT ![p] = next]
      BY <2>4, <2>8 DEF Interrupts, Is, Become, Lives, apiVars
    <3> HIDE DEF next
    <3> QED
      BY <2>1, <3>1, <3>2, OneProcess DEF Unready
  <2>9. CASE Hangs(p)
    <3> DEFINE next == [process[p] EXCEPT !.stuck = TRUE]
    <3>1. /\ next \in Process /\ next.pc = process[p].pc /\ next.term = process[p].term
          /\ next.ready = process[p].ready
          /\ next.runs = process[p].runs /\ next.claimed = process[p].claimed
      BY <2>1 DEF Process
    <3>2. /\ Lives(p) /\ UNCHANGED <<cut, poll>>
          /\ process' = [process EXCEPT ![p] = next]
      BY <2>9 DEF Hangs, apiVars
    <3> HIDE DEF next
    <3> QED
      BY <2>1, <2>2, <3>1, <3>2, OneProcess DEF Lives
  <2>10. CASE FailsToStart(p)
    <3>1. /\ Lives(p) /\ process[p].pc \in {"booting", "starting"} /\ UNCHANGED <<cut, poll>>
          /\ process' = [process EXCEPT ![p] = Gone(p)]
      BY <2>10 DEF FailsToStart, Is, Lives, apiVars
    <3> QED
      BY <2>1, <2>2, <3>1, GoneType, OneProcess DEF Shape
  <2>11. CASE Leaves(p)
    <3>1. /\ Lives(p) /\ process[p].pc # "running" /\ process[p].runs = {}
          /\ cut' = cut /\ poll' = [poll EXCEPT ![p] = NoPoll]
          /\ process' = [process EXCEPT ![p] = Gone(p)]
      BY <2>11 DEF Leaves, Lives, ForgetPoll
    <3> QED
      BY <2>1, <2>3, <3>1, GoneType, OneProcess DEF Shape
  <2>12. CASE Dies(p)
    <3>1. /\ Lives(p) /\ cut' = cut \union {p} /\ poll' = [poll EXCEPT ![p] = NoPoll]
          /\ process' = [process EXCEPT ![p] = Gone(p)]
      BY <2>12 DEF Dies, ForgetPoll
    <3> QED
      BY <2>1, <2>3, <3>1, GoneType, OneProcess DEF Shape
  <2> QED
    BY <1>1, <2>13, <2>5, <2>6, <2>7, <2>8, <2>9, <2>10, <2>11, <2>12 DEF WorkerSteps
<1>2. ASSUME NEW w \in Workers, KillsWorker(w)
      PROVE  Deployed'
  <2> DEFINE p == Mine(w)
  <2>1. p \in Processes
    <3>1. ~At("off")
      BY <1>2 DEF KillsWorker, At, Deployed, LifeInv, ServerInv, NotSpawned
    <3> QED
      BY <3>1, MineIsMine DEF Deployed, LifeInv, ServerInv
  <2>2. /\ Lives(p) /\ ServerStays /\ UNCHANGED <<turn, last, kept>> /\ faults' \in 0..MaxFaults
        /\ cut' = cut \union {p} /\ poll' = [poll EXCEPT ![p] = NoPoll]
        /\ process' = [process EXCEPT ![p] = Gone(p)]
    BY <1>2, FleetAssumption
    DEF KillsWorker, Outwaited, Fault, ForgetPoll, ServerStays, Shape, FleetShape
  <2> HIDE DEF p
  <2>3. poll'[p] = NoPoll
    BY <2>1, <2>2 DEF Shape, ApiShape
  <2> QED
    BY <2>1, <2>2, <2>3, GoneType, OneProcess DEF Shape
<1> QED
  BY <1>1, <1>2
-----------------------------------------------------------------------------
(* The steps of turns                                                      *)

\* Turns and what the processes run of them change, and nothing else.
TurnsMove ==
  /\ ServerStays
  /\ UNCHANGED <<poll, last, kept, cut>> /\ faults' \in 0..MaxFaults
  /\ process' \in [Processes -> Process]
  /\ turn' \in [Turns -> Task]
  /\ \A p \in Processes :
       /\ process'[p].pc = process[p].pc /\ process'[p].term = process[p].term
       /\ process'[p].ready = process[p].ready

LEMMA TurnsMoved ==
  ASSUME Shape, Deployed, TurnsMove, WorkInv'
  PROVE  Deployed'
<1>1. ApiShape' /\ FleetShape'
  BY DEF Shape, ApiShape, FleetShape, ServerStays, TurnsMove
<1>2. ProcessesMove
  BY DEF ProcessesMove, TurnsMove
<1>3. LifeInv'
  BY <1>2, MovesLife DEF Deployed, TurnsMove
<1>4. CancelsInv'
  <2>1. KeptInv'
    BY DEF Deployed, CancelsInv, KeptInv, TurnsMove
  <2>2. PollsInv'
    BY DEF Deployed, CancelsInv, PollsInv, TurnsMove, ServerStays, Admitted
  <2> QED
    BY <2>1, <2>2 DEF CancelsInv
<1> QED
  BY <1>1, <1>3, <1>4 DEF Deployed

\* Who is let in is a process of this server, which listens.
LEMMA ReachesOwn ==
  ASSUME Shape, Deployed, NEW p \in Processes
  PROVE  /\ Admitted(p) # {} => At("off") \/ (p = Mine(p[2]) /\ p[1] = starts)
         /\ Reaches(p) => /\ p = Mine(p[2]) /\ p[1] = starts /\ p[2] \in Workers
                          /\ Admitted(p) = {p[2]}
                          /\ server.pc \in {"up", "stopping"}
<1>1. \A w \in Workers : secrets[w] = p => p = Mine(w)
  <2>1. p # None
    BY WorkerApiAssumption DEF Processes
  <2> QED
    BY <2>1 DEF Deployed, LifeInv, ServerInv
<1>2. \A w \in Admitted(p) : w \in Workers /\ p = Mine(w) /\ p[2] = w /\ p[1] = starts
  BY <1>1 DEF Admitted, Mine
<1>3. Reaches(p) => server.pc \in {"up", "stopping"} /\ Admitted(p) # {}
  BY DEF Reaches, Deployed, LifeInv, ServerInv
<1> QED
  BY <1>2, <1>3

\* The tasks a process claims are its worker's, and no process runs one of them.
LEMMA ClaimableOwn ==
  ASSUME Shape, Deployed, NEW p \in Processes, Reaches(p)
  PROVE  /\ Claimable(p) \subseteq Turns
         /\ \A t \in Claimable(p) :
              /\ turn[t].state = "queued" /\ ~turn[t].dispatched
              /\ turn[t].worker \in Workers /\ p = Mine(turn[t].worker)
              /\ \A q \in Processes : t \notin process[q].runs \union process[q].claimed
<1>1. \A t \in Claimable(p) :
        /\ t \in Turns /\ turn[t].state = "queued"
        /\ turn[t].worker \in Workers /\ p = Mine(turn[t].worker)
  BY ReachesOwn DEF Claimable
<1>2. \A t \in Claimable(p) : ~turn[t].dispatched
  BY <1>1 DEF Deployed, WorkInv, TurnsInv
<1>3. \A t \in Claimable(p), q \in Processes : t \notin process[q].runs \union process[q].claimed
  BY <1>1 DEF Deployed, WorkInv, RunsInv
<1> QED
  BY <1>1, <1>2, <1>3 DEF Claimable

LEMMA ClaimsStep ==
  ASSUME Shape, Deployed, NEW p \in Processes, Claims(p)
  PROVE  Deployed'
<1> DEFINE new == Claimable(p)
           taken(t) == [turn[t] EXCEPT !.state = "running", !.by = p]
           next == [process[p] EXCEPT !.claimed = new]
<1>1. /\ new \subseteq Turns
      /\ \A t \in new : /\ turn[t].state = "queued" /\ ~turn[t].dispatched
                        /\ \A q \in Processes : t \notin process[q].runs \union process[q].claimed
  BY ClaimableOwn DEF Claims
<1>2. /\ turn' = [t \in Turns |-> IF t \in new THEN taken(t) ELSE turn[t]]
      /\ \/ process' = [process EXCEPT ![p] = next] /\ process[p].pc = "running"
         \/ process' = process
      /\ ServerStays /\ UNCHANGED <<poll, last, kept, cut, faults>>
      /\ server.listening /\ p[1] = starts
  BY ReachesOwn DEF Claims, ServerStays, apiVars, Is, Reaches
<1>3. /\ process[p] \in Process
      /\ \A t \in Turns : turn[t] \in Task
  BY DEF Shape, FleetShape
<1>4. \A t \in Turns : /\ taken(t) \in Task /\ taken(t).state = "running" /\ taken(t).by = p
                       /\ taken(t).dispatched = turn[t].dispatched
  BY <1>3 DEF Task
<1>5. /\ next \in Process /\ next.pc = process[p].pc /\ next.term = process[p].term
      /\ next.ready = process[p].ready
      /\ next.runs = process[p].runs /\ next.claimed = new
  BY <1>1, <1>3 DEF Process
<1> HIDE DEF new, taken, next
<1>6. /\ \/ process'[p] = next /\ process[p].pc = "running"
         \/ process'[p] = process[p]
      /\ \A q \in Processes : q # p => process'[q] = process[q]
      /\ process' \in [Processes -> Process]
  BY <1>2, <1>5 DEF Shape, FleetShape
<1>7. /\ turn' \in [Turns -> Task]
      /\ \A t \in Turns : turn'[t] = IF t \in new THEN taken(t) ELSE turn[t]
  BY <1>2, <1>3, <1>4
<1>8. TurnsMove
  BY <1>2, <1>5, <1>6, <1>7 DEF TurnsMove, Shape, FleetShape
<1>9. RunsInv'
  <2> SUFFICES ASSUME NEW q \in Processes
               PROVE  /\ process'[q].pc \in {"none", "forked", "booting", "starting", "gone"} =>
                           /\ process'[q].runs = {} /\ process'[q].claimed = {}
                           /\ poll'[q] = NoPoll
                      /\ \A t \in process'[q].runs \union process'[q].claimed :
                           \/ turn'[t].state = "ended"
                           \/ turn'[t].state = "running" /\ turn'[t].by = q
    BY DEF RunsInv
  <2>1. /\ process[q].pc \in {"none", "forked", "booting", "starting", "gone"} =>
             process[q].runs = {} /\ process[q].claimed = {} /\ poll[q] = NoPoll
        /\ \A t \in process[q].runs \union process[q].claimed :
             turn[t].state = "ended" \/ (turn[t].state = "running" /\ turn[t].by = q)
    BY DEF Deployed, WorkInv, RunsInv
  <2>2. \A t \in process[q].runs \union process[q].claimed : t \in Turns /\ turn'[t] = turn[t]
    BY <1>1, <1>7 DEF Shape, FleetShape, Process
  <2>3. CASE q = p
    BY <1>1, <1>2, <1>4, <1>5, <1>6, <1>7, <2>1, <2>2, <2>3
  <2>4. CASE q # p
    BY <1>2, <1>6, <2>1, <2>2, <2>4
  <2> QED
    BY <2>3, <2>4
<1>10. TurnsInv'
  <2> SUFFICES ASSUME NEW t \in Turns
               PROVE  /\ turn'[t].state # "running" => ~turn'[t].dispatched
                      /\ turn'[t].state = "running" =>
                           /\ turn'[t].by \in Processes
                           /\ turn'[t].by[1] <= starts
                           /\ server.pc \notin {"off", "closing"} /\ ~server.listening
                                => turn'[t].by[1] # starts
                           /\ ~At("off") /\ turn'[t].dispatched /\ turn'[t].by[1] = starts
                                => \/ turn'[t].by \in cut \/ turn'[t].lost
                                   \/ t \in process'[turn'[t].by].runs
    BY <1>2 DEF TurnsInv, ServerStays, At
  <2>1. CASE t \in new
    <3>1. turn'[t].by = p /\ turn'[t].state = "running" /\ ~turn'[t].dispatched
      BY <1>1, <1>4, <1>7, <2>1
    <3> QED
      BY <1>2, <3>1 DEF Shape, FleetShape
  <2>2. CASE t \notin new
    <3>1. turn'[t] = turn[t]
      BY <1>7, <2>2
    <3>2. \A q \in Processes : process'[q].runs = process[q].runs
      BY <1>5, <1>6
    <3> QED
      BY <3>1, <3>2 DEF Deployed, WorkInv, TurnsInv
  <2> QED
    BY <2>1, <2>2
<1> QED
  BY <1>8, <1>9, <1>10, TurnsMoved DEF WorkInv
LEMMA DispatchesStep ==
  ASSUME Shape, Deployed, NEW p \in Processes, Dispatches(p)
  PROVE  Deployed'
<1> DEFINE new == process[p].claimed
           told(t) == [turn[t] EXCEPT !.dispatched = turn[t].state = "running"]
           next == [process[p] EXCEPT !.runs = process[p].runs \union new, !.claimed = {}]
<1>1. /\ process[p] \in Process
      /\ \A t \in Turns : turn[t] \in Task
  BY DEF Shape, FleetShape
<1>2. /\ new \subseteq Turns
      /\ \A t \in new : turn[t].state = "ended" \/ (turn[t].state = "running" /\ turn[t].by = p)
  BY <1>1 DEF Deployed, WorkInv, RunsInv, Process
<1>3. /\ turn' = [t \in Turns |-> IF t \in new THEN told(t) ELSE turn[t]]
      /\ process' = [process EXCEPT ![p] = next]
      /\ ServerStays /\ UNCHANGED <<poll, last, kept, cut, faults>>
      /\ process[p].pc = "running"
  BY DEF Dispatches, ServerStays, apiVars, Is
<1>4. \A t \in Turns :
        /\ told(t) \in Task /\ told(t).state = turn[t].state /\ told(t).by = turn[t].by
        /\ told(t).lost = turn[t].lost
        /\ told(t).dispatched => turn[t].state = "running"
  BY <1>1 DEF Task
<1>5. /\ next \in Process /\ next.pc = process[p].pc /\ next.term = process[p].term
      /\ next.ready = process[p].ready
      /\ next.runs = process[p].runs \union new /\ next.claimed = {}
  BY <1>1, <1>2 DEF Process
<1> HIDE DEF told, next
<1>6. /\ process'[p] = next /\ \A q \in Processes : q # p => process'[q] = process[q]
      /\ process' \in [Processes -> Process]
  BY <1>3, <1>5 DEF Shape, FleetShape
<1>7. /\ turn' \in [Turns -> Task]
      /\ \A t \in Turns : /\ turn'[t].state = turn[t].state /\ turn'[t].by = turn[t].by
                          /\ t \notin new => turn'[t] = turn[t]
                          /\ t \in new => turn'[t] = told(t)
  BY <1>1, <1>3, <1>4
<1>8. TurnsMove
  BY <1>3, <1>5, <1>6, <1>7 DEF TurnsMove, Shape, FleetShape
<1>9. RunsInv'
  <2> SUFFICES ASSUME NEW q \in Processes
               PROVE  /\ process'[q].pc \in {"none", "forked", "booting", "starting", "gone"} =>
                           /\ process'[q].runs = {} /\ process'[q].claimed = {}
                           /\ poll'[q] = NoPoll
                      /\ \A t \in process'[q].runs \union process'[q].claimed :
                           \/ turn'[t].state = "ended"
                           \/ turn'[t].state = "running" /\ turn'[t].by = q
    BY DEF RunsInv
  <2>1. /\ process[q].pc \in {"none", "forked", "booting", "starting", "gone"} =>
             process[q].runs = {} /\ process[q].claimed = {} /\ poll[q] = NoPoll
        /\ \A t \in process[q].runs \union process[q].claimed :
             turn[t].state = "ended" \/ (turn[t].state = "running" /\ turn[t].by = q)
    BY DEF Deployed, WorkInv, RunsInv
  <2>2. \A t \in process[q].runs \union process[q].claimed : t \in Turns
    BY DEF Shape, FleetShape, Process
  <2>3. CASE q = p
    BY <1>3, <1>5, <1>6, <1>7, <2>1, <2>2, <2>3
  <2>4. CASE q # p
    BY <1>3, <1>6, <1>7, <2>1, <2>2, <2>4
  <2> QED
    BY <2>3, <2>4
<1>10. TurnsInv'
  <2> SUFFICES ASSUME NEW t \in Turns
               PROVE  /\ turn'[t].state # "running" => ~turn'[t].dispatched
                      /\ turn'[t].state = "running" =>
                           /\ turn'[t].by \in Processes
                           /\ turn'[t].by[1] <= starts
                           /\ server.pc \notin {"off", "closing"} /\ ~server.listening
                                => turn'[t].by[1] # starts
                           /\ ~At("off") /\ turn'[t].dispatched /\ turn'[t].by[1] = starts
                                => \/ turn'[t].by \in cut \/ turn'[t].lost
                                   \/ t \in process'[turn'[t].by].runs
    BY <1>3 DEF TurnsInv, ServerStays, At
  <2>1. /\ turn[t].state # "running" => ~turn[t].dispatched
        /\ turn[t].state = "running" =>
             /\ turn[t].by \in Processes
             /\ turn[t].by[1] <= starts
             /\ server.pc \notin {"off", "closing"} /\ ~server.listening => turn[t].by[1] # starts
             /\ ~At("off") /\ turn[t].dispatched /\ turn[t].by[1] = starts
                  => turn[t].by \in cut \/ turn[t].lost \/ t \in process[turn[t].by].runs
    BY DEF Deployed, WorkInv, TurnsInv
  <2>2. \A q \in Processes : process[q].runs \subseteq process'[q].runs
    BY <1>5, <1>6
  <2>3. CASE t \in new
    <3>1. turn[t].state = "running" => turn[t].by = p /\ t \in process'[p].runs
      BY <1>2, <1>5, <1>6, <2>3
    <3> QED
      BY <1>4, <1>7, <2>1, <2>3, <3>1
  <2>4. CASE t \notin new
    BY <1>7, <2>1, <2>2, <2>4
  <2> QED
    BY <2>3, <2>4
<1> QED
  BY <1>8, <1>9, <1>10, TurnsMoved DEF WorkInv

\* A turn is queued, ended or swept, or its process lets go of it: it is run no more, or it ended.
LEMMA OneTurn ==
  ASSUME Shape, Deployed, NEW t \in Turns, NEW next \in Task,
         ServerStays, UNCHANGED <<poll, last, kept, cut, faults>>,
         next.state # "running", ~next.dispatched, turn' = [turn EXCEPT ![t] = next],
         next.state = "ended" \/ (\A q \in Processes :
                                    t \notin process[q].runs \union process[q].claimed),
         process' \in [Processes -> Process],
         \A q \in Processes :
           /\ process'[q].pc = process[q].pc /\ process'[q].term = process[q].term
           /\ process'[q].ready = process[q].ready
           /\ process[q].runs \ {t} \subseteq process'[q].runs
           /\ process'[q].runs \subseteq process[q].runs
           /\ process'[q].claimed = process[q].claimed
  PROVE  Deployed'
<1>1. /\ turn'[t] = next /\ \A u \in Turns : u # t => turn'[u] = turn[u]
      /\ turn' \in [Turns -> Task]
  BY DEF Shape, FleetShape
<1>2. TurnsMove
  BY <1>1 DEF TurnsMove, Shape, FleetShape
<1>3. RunsInv'
  <2> SUFFICES ASSUME NEW q \in Processes
               PROVE  /\ process'[q].pc \in {"none", "forked", "booting", "starting", "gone"} =>
                           /\ process'[q].runs = {} /\ process'[q].claimed = {}
                           /\ poll'[q] = NoPoll
                      /\ \A u \in process'[q].runs \union process'[q].claimed :
                           \/ turn'[u].state = "ended"
                           \/ turn'[u].state = "running" /\ turn'[u].by = q
    BY DEF RunsInv
  <2>1. /\ process[q].pc \in {"none", "forked", "booting", "starting", "gone"} =>
             process[q].runs = {} /\ process[q].claimed = {} /\ poll[q] = NoPoll
        /\ \A u \in process[q].runs \union process[q].claimed :
             turn[u].state = "ended" \/ (turn[u].state = "running" /\ turn[u].by = q)
    BY DEF Deployed, WorkInv, RunsInv
  <2>2. \A u \in process[q].runs \union process[q].claimed : u \in Turns
    BY DEF Shape, FleetShape, Process
  <2> QED
    BY <1>1, <2>1, <2>2
<1>4. TurnsInv'
  <2> SUFFICES ASSUME NEW u \in Turns
               PROVE  /\ turn'[u].state # "running" => ~turn'[u].dispatched
                      /\ turn'[u].state = "running" =>
                           /\ turn'[u].by \in Processes
                           /\ turn'[u].by[1] <= starts
                           /\ server.pc \notin {"off", "closing"} /\ ~server.listening
                                => turn'[u].by[1] # starts
                           /\ ~At("off") /\ turn'[u].dispatched /\ turn'[u].by[1] = starts
                                => \/ turn'[u].by \in cut \/ turn'[u].lost
                                   \/ u \in process'[turn'[u].by].runs
    BY DEF TurnsInv, ServerStays, At
  <2>1. CASE u = t
    BY <1>1, <2>1
  <2>2. CASE u # t
    BY <1>1, <2>2 DEF Deployed, WorkInv, TurnsInv
  <2> QED
    BY <2>1, <2>2
<1> QED
  BY <1>2, <1>3, <1>4, TurnsMoved DEF WorkInv

LEMMA EndsStep ==
  ASSUME Shape, Deployed, NEW p \in Processes, NEW t \in Turns, Ends(p, t)
  PROVE  Deployed'
<1> DEFINE over == [NoTurn EXCEPT !.state = "ended"]
           next == [process[p] EXCEPT !.runs = process[p].runs \ {t}]
<1>1. over \in Task /\ over.state = "ended" /\ ~over.dispatched
  BY DEF NoTurn, Task
<1>2. /\ turn' = [turn EXCEPT ![t] = over]
      /\ process' = [process EXCEPT ![p] = next]
      /\ ServerStays /\ UNCHANGED <<poll, last, kept, cut, faults>>
  BY DEF Ends, ServerStays, apiVars
<1>3. /\ next \in Process /\ next.pc = process[p].pc /\ next.term = process[p].term
      /\ next.ready = process[p].ready
      /\ next.runs = process[p].runs \ {t} /\ next.claimed = process[p].claimed
  BY DEF Shape, FleetShape, Process
<1> HIDE DEF over, next
<1>4. /\ process'[p] = next /\ \A q \in Processes : q # p => process'[q] = process[q]
      /\ process' \in [Processes -> Process]
  BY <1>2, <1>3 DEF Shape, FleetShape
<1>5. \A q \in Processes :
        /\ process'[q].pc = process[q].pc /\ process'[q].term = process[q].term
        /\ process'[q].ready = process[q].ready
        /\ process[q].runs \ {t} \subseteq process'[q].runs
        /\ process'[q].runs \subseteq process[q].runs
        /\ process'[q].claimed = process[q].claimed
  BY <1>3, <1>4
<1> QED
  BY <1>1, <1>2, <1>4, <1>5, OneTurn

LEMMA QueueStep ==
  ASSUME Shape, Deployed, NEW t \in Turns, NEW w \in Workers, Queue(t, w)
  PROVE  Deployed'
<1> DEFINE next == [NoTurn EXCEPT !.state = "queued", !.worker = w]
<1>1. next \in Task /\ next.state = "queued" /\ ~next.dispatched
  BY DEF NoTurn, Task
<1>2. /\ turn' = [turn EXCEPT ![t] = next] /\ turn[t].state = "none"
      /\ ServerStays /\ UNCHANGED <<process, poll, last, kept, cut, faults>>
  BY DEF Queue, ServerStays, apiVars
<1> HIDE DEF next
<1>3. \A q \in Processes : t \notin process[q].runs \union process[q].claimed
  BY <1>2 DEF Deployed, WorkInv, RunsInv
<1> QED
  BY <1>1, <1>2, <1>3, OneTurn DEF Shape, FleetShape

LEMMA SweepStep ==
  ASSUME Shape, Deployed, NEW t \in Turns, Sweep(t)
  PROVE  Deployed'
<1> DEFINE over == [NoTurn EXCEPT !.state = "ended"]
<1>1. over \in Task /\ over.state = "ended" /\ ~over.dispatched
  BY DEF NoTurn, Task
<1>2. /\ turn' = [turn EXCEPT ![t] = over]
      /\ ServerStays /\ UNCHANGED <<process, poll, last, kept, cut, faults>>
  BY DEF Sweep, ServerStays, apiVars
<1> HIDE DEF over
<1> QED
  BY <1>1, <1>2, OneTurn DEF Shape, FleetShape

\* A process of a server that listens reaches it, so that a turn lost by one that does not is
\* of an earlier server; one lost by a process that does is known to be.
LEMMA LosesTurnStep ==
  ASSUME Shape, Deployed, NEW p \in Processes, NEW t \in Turns, LosesTurn(p, t)
  PROVE  Deployed'
<1> DEFINE next == [process[p] EXCEPT !.runs = process[p].runs \ {t}]
           left == [turn[t] EXCEPT !.lost = TRUE]
<1>1. /\ process' = [process EXCEPT ![p] = next]
      /\ process[p].pc \in {"running", "draining", "ending"}
      /\ \/ ~Reaches(p) /\ turn' = turn
         \/ turn' = [turn EXCEPT ![t] = left]
      /\ ServerStays /\ UNCHANGED <<poll, last, kept, cut>> /\ faults' \in 0..MaxFaults
  BY FleetAssumption DEF LosesTurn, Fault, ServerStays, apiVars, Shape, FleetShape
<1>10. /\ left \in Task /\ left.state = turn[t].state /\ left.by = turn[t].by /\ left.lost
       /\ left.dispatched = turn[t].dispatched
  BY DEF Shape, FleetShape, Task
<1>2. /\ next \in Process /\ next.pc = process[p].pc /\ next.term = process[p].term
      /\ next.ready = process[p].ready
      /\ next.runs = process[p].runs \ {t} /\ next.claimed = process[p].claimed
  BY DEF Shape, FleetShape, Process
<1> HIDE DEF next, left
<1>11. /\ turn' \in [Turns -> Task]
       /\ \A u \in Turns : /\ turn'[u].state = turn[u].state /\ turn'[u].by = turn[u].by
                           /\ turn'[u].dispatched = turn[u].dispatched
                           /\ turn'[u].lost = turn[u].lost \/ (u = t /\ turn'[u].lost)
       /\ Reaches(p) => turn'[t].lost
  BY <1>1, <1>10 DEF Shape, FleetShape
<1>3. /\ process'[p] = next /\ \A q \in Processes : q # p => process'[q] = process[q]
      /\ process' \in [Processes -> Process]
  BY <1>1, <1>2 DEF Shape, FleetShape
<1>4. /\ TurnsMove
      /\ \A q \in Processes : /\ process'[q].runs \subseteq process[q].runs
                              /\ process'[q].claimed = process[q].claimed
  BY <1>1, <1>2, <1>3, <1>11 DEF TurnsMove, Shape, FleetShape
<1>5. RunsInv'
  <2> SUFFICES ASSUME NEW q \in Processes
               PROVE  /\ process'[q].pc \in {"none", "forked", "booting", "starting", "gone"} =>
                           /\ process'[q].runs = {} /\ process'[q].claimed = {}
                           /\ poll'[q] = NoPoll
                      /\ \A u \in process'[q].runs \union process'[q].claimed :
                           \/ turn'[u].state = "ended"
                           \/ turn'[u].state = "running" /\ turn'[u].by = q
    BY DEF RunsInv
  <2>1. \A u \in process[q].runs \union process[q].claimed : u \in Turns
    BY DEF Shape, FleetShape, Process
  <2> QED
    BY <1>1, <1>4, <1>11, <2>1 DEF Deployed, WorkInv, RunsInv, TurnsMove
<1>6. ~Reaches(p) /\ ~At("off") /\ server.listening => p[1] # starts
  <2> SUFFICES ASSUME ~Reaches(p), ~At("off"), server.listening, p[1] = starts
               PROVE  FALSE
    OBVIOUS
  <2>1. server.pc \in {"up", "stopping"} /\ starts \in 1..MaxStarts
    BY DEF Deployed, LifeInv, ServerInv
  <2>2. p[2] \in Workers /\ p = Mine(p[2])
    BY <2>1, MineIsMine
  <2>3. spawn[p[2]] # NotSpawned
    BY <1>1, <2>1, <2>2 DEF Deployed, LifeInv, ProcessesInv
  <2>4. secrets[p[2]] = p
    BY <2>2, <2>3 DEF Deployed, LifeInv, ServerInv
  <2> QED
    BY <1>1, <2>2, <2>4 DEF Reaches, Admitted
<1>7. At("closing") => p[1] # starts
  <2> SUFFICES ASSUME At("closing"), p[1] = starts
               PROVE  FALSE
    OBVIOUS
  <2>1. p[2] \in Workers /\ p = Mine(p[2])
    BY MineIsMine DEF At, Deployed, LifeInv, ServerInv
  <2> QED
    BY <1>1, <2>1 DEF Deployed, LifeInv, NoWorkerOutlives, Lives
<1>8. TurnsInv'
  <2> SUFFICES ASSUME NEW u \in Turns, turn[u].state = "running"
               PROVE  ~At("off") /\ turn[u].dispatched /\ turn[u].by[1] = starts
                        => \/ turn[u].by \in cut \/ turn'[u].lost
                           \/ u \in process'[turn[u].by].runs
    BY <1>1, <1>11 DEF Deployed, WorkInv, TurnsInv, ServerStays, At
  <2>1. /\ turn[u].by \in Processes
        /\ server.pc \notin {"off", "closing"} /\ ~server.listening => turn[u].by[1] # starts
        /\ ~At("off") /\ turn[u].dispatched /\ turn[u].by[1] = starts
             => turn[u].by \in cut \/ turn[u].lost \/ u \in process[turn[u].by].runs
    BY DEF Deployed, WorkInv, TurnsInv
  <2>2. turn[u].lost => turn'[u].lost
    BY <1>11
  <2>3. CASE turn[u].by = p /\ (u # t \/ Reaches(p))
    BY <1>2, <1>3, <1>11, <2>1, <2>2, <2>3
  <2>4. CASE turn[u].by = p /\ ~Reaches(p)
    BY <1>6, <1>7, <2>1, <2>4 DEF At
  <2>5. CASE turn[u].by # p
    BY <1>3, <2>1, <2>2, <2>5
  <2> QED
    BY <2>3, <2>4, <2>5
<1> QED
  BY <1>4, <1>5, <1>8, TurnsMoved DEF WorkInv
-----------------------------------------------------------------------------
(* The steps of cancels                                                    *)

LEMMA CancelStep ==
  ASSUME Shape, Deployed, NEW t \in Turns, Cancel(t)
  PROVE  Deployed'
<1> DEFINE new == [number |-> last + 1, turn |-> t]
           all == Append(kept, new)
           from == IF Len(all) > Kept THEN 2 ELSE 1
<1>1. /\ last \in Nat /\ last < MaxCancels /\ last' = last + 1
      /\ kept' = SubSeq(all, from, Len(all))
      /\ UNCHANGED <<secrets, poll, fleetVars>>
      /\ Kept \in Nat /\ MaxCancels \in Nat
  BY WorkerApiAssumption DEF Cancel, StopRequested, Shape, ApiShape
<1>2. kept \in Seq(Cancels) /\ new \in Cancels /\ new.number = last + 1
  BY <1>1 DEF Shape, ApiShape, Cancels
<1> HIDE DEF new
<1>3. /\ all \in Seq(Cancels) /\ Len(all) = Len(kept) + 1 /\ Len(kept) \in Nat
      /\ \A i \in 1..Len(kept) : all[i] = kept[i]
      /\ all[Len(kept) + 1] = new
  BY <1>2
<1>4. /\ Len(kept) = IF last < Kept THEN last ELSE Kept
      /\ \A i \in 1..Len(kept) : kept[i].number = last - Len(kept) + i
  BY DEF Deployed, CancelsInv, KeptInv
<1>5. \A i \in 1..Len(all) : all[i] \in Cancels /\ all[i].number = last - Len(kept) + i
  BY <1>1, <1>2, <1>3, <1>4
<1> HIDE DEF all
<1>6. /\ from \in 1..Len(all) + 1 /\ from \in {1, 2}
      /\ kept' \in Seq(Cancels)
      /\ Len(kept') = Len(all) - from + 1
      /\ \A i \in 1..Len(kept') : kept'[i] = all[from + i - 1]
  <2>1. Len(all) \in Nat /\ from \in 1..Len(all) + 1 /\ from \in {1, 2}
    BY <1>1, <1>3
  <2> HIDE DEF from
  <2>2. ASSUME NEW s \in Seq(Cancels), NEW m \in 1..Len(s) + 1, m \in {1, 2}
        PROVE  /\ SubSeq(s, m, Len(s)) \in Seq(Cancels)
               /\ Len(SubSeq(s, m, Len(s))) = Len(s) - m + 1
               /\ \A i \in 1..Len(s) - m + 1 : SubSeq(s, m, Len(s))[i] = s[m + i - 1]
    BY <2>2
  <2> QED
    BY <1>1, <1>3, <2>1, <2>2
<1>7. Len(kept') = IF last' < Kept THEN last' ELSE Kept
  BY <1>1, <1>3, <1>4, <1>6
<1>8. KeptInv'
  <2>1. \A i \in 1..Len(kept') : from + i - 1 \in 1..Len(all)
    BY <1>3, <1>6
  <2>2. \A i \in 1..Len(kept') : kept'[i].number = last - Len(kept) + (from + i - 1)
    BY <1>5, <1>6, <2>1
  <2> QED
    <3>1. \A i \in 1..Len(kept') : kept'[i].number = last' - Len(kept') + i
      <4>1. Len(kept') = Len(kept) + 2 - from /\ from \in Nat
        BY <1>3, <1>6
      <4> HIDE DEF from
      <4> SUFFICES ASSUME NEW i \in 1..Len(kept')
                   PROVE  kept'[i].number = last' - Len(kept') + i
        OBVIOUS
      <4>2. kept'[i].number = last - Len(kept) + (from + i - 1)
        BY <2>2
      <4> QED
        <5>1. last \in Nat /\ last' = last + 1 /\ Len(kept) \in Nat
          BY <1>1, <1>3
        <5>2. \A l, a, b, m, j \in Nat : b = a + 2 - m => l - a + (m + j - 1) = l + 1 - b + j
          OBVIOUS
        <5>3. Len(kept') \in Nat /\ i \in Nat
          BY <1>6
        <5> QED
          BY <4>1, <4>2, <5>1, <5>2, <5>3
    <3> QED
      BY <1>7, <3>1 DEF KeptInv
<1>9. PollsInv'
  BY <1>1 DEF Deployed, CancelsInv, PollsInv, Admitted, Shape, ApiShape, Polling
<1>10. ApiShape' /\ FleetShape'
  BY <1>1, <1>6 DEF Shape, ApiShape, FleetShape, fleetVars
<1>11. WorkInv'
  BY <1>1 DEF Deployed, WorkInv, RunsInv, TurnsInv, fleetVars, At
<1>12. LifeInv'
  <2>1. ServerStays /\ ProcessesMove
    BY <1>1 DEF ServerStays, ProcessesMove, fleetVars
  <2> QED
    BY <2>1, MovesLife DEF Deployed
<1> QED
  BY <1>8, <1>9, <1>10, <1>11, <1>12 DEF Deployed, CancelsInv

LEMMA PollsStep ==
  ASSUME Shape, Deployed, NEW p \in Processes, PollsCancels(p)
  PROVE  Deployed'
<1> DEFINE after == poll[p].cursor
           tasks == CancelsAfter(after).tasks
           first == IF poll[p].first = None THEN last ELSE poll[p].first
           next == [poll[p] EXCEPT !.cursor = last, !.first = first,
                                   !.heard = poll[p].heard \union tasks]
<1>1. /\ poll' = [poll EXCEPT ![p] = next]
      /\ UNCHANGED <<secrets, last, kept, fleetVars>>
      /\ process[p].pc \notin {"none", "forked", "booting", "starting", "gone"}
      /\ Admitted(p) # {}
  BY DEF PollsCancels, Polls, CancelsAfter, Reaches
<1>2. /\ last \in Nat /\ kept \in Seq(Cancels) /\ poll[p] \in Polling /\ Kept \in Nat
      /\ None \notin Nat
  BY WorkerApiAssumption DEF Shape, ApiShape
<1>3. tasks = IF after = None \/ after > last THEN {}
              ELSE {kept[i] : i \in {j \in DOMAIN kept : kept[j].number > after}}
  BY DEF CancelsAfter
<1>4. tasks \subseteq Cancels
  BY <1>2, <1>3
<1> HIDE DEF tasks
<1>5. first \in Nat /\ (poll[p].first # None => first = poll[p].first)
  BY <1>2 DEF Polling
<1>6. /\ next \in Polling /\ next.cursor = last /\ next.first = first
      /\ next.heard = poll[p].heard \union tasks
  BY <1>2, <1>4, <1>5 DEF Polling
<1>7. /\ poll[p].cursor = None <=> poll[p].first = None
      /\ poll[p].cursor # None =>
           /\ poll[p].cursor <= last
           /\ \A n \in poll[p].first + 1 .. poll[p].cursor :
                n > last - Kept => \E c \in poll[p].heard : c.number = n
  BY <1>1 DEF Deployed, CancelsInv, PollsInv
<1>8. ASSUME NEW n \in first + 1 .. last, n > last - Kept
      PROVE  \E c \in next.heard : c.number = n
  <2>1. poll[p].first # None /\ poll[p].cursor # None /\ after \in Nat /\ after <= last
    BY <1>2, <1>5, <1>7, <1>8 DEF Polling
  <2>2. CASE n <= after
    BY <1>2, <1>5, <1>6, <1>7, <1>8, <2>1, <2>2
  <2>3. CASE n > after
    <3> DEFINE i == n - last + Len(kept)
    <3>1. /\ Len(kept) = IF last < Kept THEN last ELSE Kept
          /\ \A j \in 1..Len(kept) : kept[j].number = last - Len(kept) + j
      BY DEF Deployed, CancelsInv, KeptInv
    <3>2. i \in 1..Len(kept)
      BY <1>2, <1>5, <1>8, <3>1
    <3>3. kept[i].number = n
      <4>1. Len(kept) \in Nat /\ n \in Nat
        BY <1>2, <1>5, <1>8
      <4>2. kept[i].number = last - Len(kept) + i
        BY <3>1, <3>2
      <4> QED
        BY <1>2, <4>1, <4>2
    <3>4. kept[i] \in tasks
      BY <1>2, <1>3, <2>1, <2>3, <3>2, <3>3
    <3> QED
      BY <1>6, <3>3, <3>4
  <2> QED
    BY <1>5, <1>8, <2>1, <2>2, <2>3
<1> HIDE DEF next, first
<1>9. /\ poll'[p] = next /\ \A q \in Processes : q # p => poll'[q] = poll[q]
      /\ poll' \in [Processes -> Polling]
  BY <1>1, <1>6 DEF Shape, ApiShape
<1>10. PollsInv'
  <2> SUFFICES ASSUME NEW q \in Processes
               PROVE  /\ poll'[q].cursor = None <=> poll'[q].first = None
                      /\ Admitted(q) # {} /\ poll'[q].cursor # None =>
                           /\ poll'[q].cursor <= last
                           /\ \A n \in poll'[q].first + 1 .. poll'[q].cursor :
                                n > last - Kept => \E c \in poll'[q].heard : c.number = n
    BY <1>1 DEF PollsInv, Admitted
  <2>1. CASE q = p
    <3>1. /\ next.cursor # None /\ next.first # None /\ next.cursor <= last
          /\ \A n \in next.first + 1 .. next.cursor :
               n > last - Kept => \E c \in next.heard : c.number = n
      BY <1>2, <1>5, <1>6, <1>8
    <3> QED
      BY <1>9, <2>1, <3>1
  <2>2. CASE q # p
    BY <1>9, <2>2 DEF Deployed, CancelsInv, PollsInv
  <2> QED
    BY <2>1, <2>2
<1>11. KeptInv'
  BY <1>1 DEF Deployed, CancelsInv, KeptInv
<1>12. ApiShape' /\ FleetShape'
  BY <1>1, <1>9 DEF Shape, ApiShape, FleetShape, fleetVars
<1>13. WorkInv'
  <2>1. TurnsInv'
    BY <1>1 DEF Deployed, WorkInv, TurnsInv, fleetVars, At
  <2>2. RunsInv'
    BY <1>1, <1>9 DEF Deployed, WorkInv, RunsInv, fleetVars
  <2> QED
    BY <2>1, <2>2 DEF WorkInv
<1>14. LifeInv'
  <2>1. ServerStays /\ ProcessesMove
    BY <1>1 DEF ServerStays, ProcessesMove, fleetVars
  <2> QED
    BY <2>1, MovesLife DEF Deployed
<1> QED
  BY <1>10, <1>11, <1>12, <1>13, <1>14 DEF Deployed, CancelsInv
-----------------------------------------------------------------------------
(* The steps of the server                                                 *)

\* Of the processes, some are told to end, and nothing else of them changes.
Told ==
  /\ UNCHANGED <<turn, poll, starts, cut>>
  /\ process' \in [Processes -> Process]
  /\ \A p \in Processes : process'[p] = process[p] \/ process'[p] = Terminated(p)

LEMMA ToldWork ==
  ASSUME Shape, Deployed, Told,
         server'.pc \notin {"off", "closing"} /\ ~server'.listening
           => server.pc \notin {"off", "closing"} /\ ~server.listening,
         server'.pc # "off" => ~At("off")
  PROVE  WorkInv'
<1>1. \A p \in Processes :
        \/ /\ process'[p].pc = process[p].pc
           /\ process'[p].runs = process[p].runs /\ process'[p].claimed = process[p].claimed
        \/ process[p].pc \in {"forked", "booting"} /\ process'[p] = Gone(p)
  BY TerminatedType DEF Told, Shape
<1>2. \A p \in Processes : process[p].pc \in {"forked", "booting"} =>
        process[p].runs = {} /\ process[p].claimed = {} /\ poll[p] = NoPoll
  BY DEF Deployed, WorkInv, RunsInv
<1>3. \A p \in Processes :
        /\ process'[p].runs = process[p].runs /\ process'[p].claimed = process[p].claimed
  BY <1>1, <1>2, GoneType DEF Shape
<1>4. RunsInv'
  BY <1>1, <1>2, <1>3, GoneType DEF Told, Deployed, WorkInv, RunsInv, Shape
<1>5. TurnsInv'
  <2> SUFFICES ASSUME NEW t \in Turns, turn[t].state = "running"
               PROVE  /\ turn[t].by \in Processes
                      /\ turn[t].by[1] <= starts
                      /\ server'.pc \notin {"off", "closing"} /\ ~server'.listening
                           => turn[t].by[1] # starts
                      /\ server'.pc # "off" /\ turn[t].dispatched /\ turn[t].by[1] = starts
                           => turn[t].by \in cut \/ turn[t].lost \/ t \in process'[turn[t].by].runs
    BY DEF TurnsInv, Told, Deployed, WorkInv, At
  <2> QED
    BY <1>3 DEF Deployed, WorkInv, TurnsInv
<1> QED
  BY <1>4, <1>5 DEF WorkInv

\* All of this server's, and none of another's.
LEMMA AllTold ==
  ASSUME Shape, UNCHANGED <<turn, poll, starts, cut>>, TerminateAll
  PROVE  /\ Told
         /\ \A p \in Processes : p[1] # starts => process'[p] = process[p]
         /\ \A p \in Processes : p[1] = starts => process'[p] = Terminated(p)
<1>1. \A p \in Processes : process'[p] = IF p[1] = starts THEN Terminated(p) ELSE process[p]
  BY DEF TerminateAll
<1>2. process' \in [Processes -> Process]
  BY TerminatedType DEF TerminateAll, Shape, FleetShape
<1> QED
  BY <1>1, <1>2 DEF Told

LEMMA NoneTold ==
  ASSUME Shape, UNCHANGED <<turn, poll, starts, cut, process>>
  PROVE  Told
BY DEF Told, Shape, FleetShape

\* A secret let in or let go leaves what the others heard as it was.
LEMMA SecretsCancels ==
  ASSUME Shape, Deployed,
         \/ UNCHANGED <<poll, secrets, last, kept>>
         \/ UNCHANGED <<poll, last, kept>> /\ Close
         \/ UNCHANGED poll /\ Close /\ CancelsForgotten
         \/ UNCHANGED <<poll, secrets>> /\ CancelsForgotten /\ At("closing")
  PROVE  CancelsInv'
<1>1. Close \/ (At("closing") /\ secrets' = secrets) =>
        \A p \in Processes : Admitted(p)' = {}
  <2>1. \A p \in Processes : p # None
    BY WorkerApiAssumption DEF Processes
  <2>2. At("closing") => \A w \in Workers : secrets[w] = None
    BY DEF Deployed, LifeInv, ServerInv, At
  <2>3. Close => \A w \in Workers : secrets'[w] = None
    BY DEF Close, NoSecrets
  <2> QED
    BY <2>1, <2>2, <2>3 DEF Admitted
<1>2. KeptInv'
  <2>1. CASE CancelsForgotten
    BY <2>1, WorkerApiAssumption DEF CancelsForgotten, KeptInv
  <2>2. CASE UNCHANGED <<last, kept>>
    BY <2>2 DEF Deployed, CancelsInv, KeptInv
  <2> QED
    BY <2>1, <2>2
<1>3. PollsInv'
  <2>1. CASE UNCHANGED <<poll, secrets, last>>
    BY <2>1 DEF Deployed, CancelsInv, PollsInv, Admitted
  <2>2. CASE UNCHANGED poll /\ (\A p \in Processes : Admitted(p)' = {})
    BY <2>2 DEF Deployed, CancelsInv, PollsInv
  <2> QED
    BY <1>1, <2>1, <2>2
<1> QED
  BY <1>2, <1>3 DEF CancelsInv

LEMMA ServerShape ==
  ASSUME Shape
  PROVE  /\ Off \in Server /\ Off.pc = "off" /\ ~Off.listening
         /\ \A pc \in {"spawning", "binding", "up", "stopping"} :
              /\ [server EXCEPT !.pc = pc] \in Server
              /\ [server EXCEPT !.pc = pc].pc = pc
              /\ [server EXCEPT !.pc = pc].listening = server.listening
              /\ [server EXCEPT !.pc = pc].workers = server.workers
              /\ [server EXCEPT !.pc = pc].build = server.build
<1>1. Off \in Server /\ Off.pc = "off" /\ ~Off.listening
  BY DEF Off, Server
<1>2. server \in Server
  BY DEF Shape, FleetShape
<1> QED
  BY <1>1, <1>2 DEF Server

LEMMA StartStep ==
  ASSUME Shape, Deployed, NEW build \in Builds, NEW workers \in Configurations,
         Start(build, workers)
  PROVE  Deployed'
<1>1. /\ starts \in Nat /\ MaxStarts \in Nat /\ starts' = starts + 1 /\ starts' \in 1..MaxStarts
      /\ process' = [p \in Processes |-> IF Lives(p) THEN process[p] ELSE NoProcess]
      /\ cut' = {} /\ UNCHANGED <<secrets, last, kept, poll, spawn, turn, faults>>
      /\ At("off")
  BY WorkerApiAssumption DEF Start, Shape, FleetShape, apiVars
<1>2. server' \in Server /\ server'.pc = "opening" /\ ~server'.listening
  BY FleetAssumption DEF Start, Off, Server
<1>3. \A p \in Processes :
        /\ p[1] \in Nat
        /\ Lives(p) => process'[p] = process[p]
        /\ ~Lives(p) => /\ process'[p].pc = "none" /\ process'[p].runs = {}
                        /\ process'[p].claimed = {}
                        /\ process[p].runs = {} /\ process[p].claimed = {} /\ poll[p] = NoPoll
  BY <1>1, NoProcessType DEF Processes, Lives, Deployed, WorkInv, RunsInv
<1>4. ApiShape' /\ FleetShape'
  BY <1>1, <1>2, NoProcessType DEF Shape, ApiShape, FleetShape
<1>5. WorkInv'
  <2>1. RunsInv'
    BY <1>1, <1>3 DEF Deployed, WorkInv, RunsInv
  <2>2. TurnsInv'
    <3> SUFFICES ASSUME NEW t \in Turns
                 PROVE  /\ turn[t].state # "running" => ~turn[t].dispatched
                        /\ turn[t].state = "running" =>
                             /\ turn[t].by \in Processes
                             /\ turn[t].by[1] <= starts' /\ turn[t].by[1] # starts'
      BY <1>1 DEF TurnsInv
    <3> QED
      BY <1>1, <1>3 DEF Deployed, WorkInv, TurnsInv
  <2> QED
    BY <2>1, <2>2 DEF WorkInv
<1>6. LifeInv'
  <2>1. \A p \in Processes : p[1] > starts => ~Lives(p)
    BY DEF Deployed, LifeInv, ProcessesInv, Lives
  <2>2. \A w \in Workers : secrets[w] = None /\ spawn[w] = NotSpawned
    BY <1>1 DEF Deployed, LifeInv, ServerInv, At
  <2>3. ServerInv'
    BY <1>1, <1>2, <2>2 DEF ServerInv, At
  <2>4. /\ \A w \in Workers : Mine(w)' \in Processes /\ Mine(w)'[1] > starts
    BY <1>1 DEF Mine, Processes
  <2>5. ProcessesInv'
    BY <1>1, <1>2, <1>3, <2>1, <2>2, <2>4 DEF ProcessesInv
  <2>6. EndsWithServer'
    BY <1>1, <1>3 DEF Deployed, LifeInv, EndsWithServer, Lives, At
  <2>7. NoWorkerOutlives'
    BY <1>2 DEF NoWorkerOutlives, At
  <2> QED
    BY <2>3, <2>5, <2>6, <2>7 DEF LifeInv
<1>7. CancelsInv'
  BY <1>1, SecretsCancels
<1> QED
  BY <1>4, <1>5, <1>6, <1>7 DEF Deployed
LEMMA ToldLife ==
  ASSUME Shape, Deployed, Told
  PROVE  /\ \A p \in Processes : process[p].pc = "none" <=> process'[p].pc = "none"
         /\ \A p \in Processes : process'[p].pc \notin {"none", "gone"} =>
              /\ Lives(p) /\ (process[p].term => process'[p].term)
              /\ process[p].pc = "forked" => process'[p].pc = "forked"
         /\ \A p \in Processes : p[1] > starts' => process'[p].pc = "none"
         /\ ~At("off") /\ server'.pc # "off" => EndsWithServer'
<1>1. \A p \in Processes :
        /\ process[p].pc = "none" <=> process'[p].pc = "none"
        /\ process'[p].pc \notin {"none", "gone"} =>
             /\ Lives(p) /\ (process[p].term => process'[p].term)
             /\ process[p].pc = "forked" => process'[p].pc = "forked"
  BY TerminatedType, GoneType DEF Told, Lives, Shape
<1>2. \A p \in Processes : p[1] > starts' => process'[p].pc = "none"
  BY <1>1 DEF Told, Deployed, LifeInv, ProcessesInv
<1>3. ~At("off") /\ server'.pc # "off" => EndsWithServer'
  BY <1>1 DEF Told, Deployed, LifeInv, EndsWithServer, At, Lives
<1> QED
  BY <1>1, <1>2, <1>3

LEMMA ServerMoved ==
  ASSUME Shape, Deployed, Told, LifeInv',
         server' \in Server, spawn' \in [Workers -> {NotSpawned, "waiting", "ready", "stopping",
                                                     "failed"}],
         faults' \in 0..MaxFaults,
         server'.pc \notin {"off", "closing"} /\ ~server'.listening
           => server.pc \notin {"off", "closing"} /\ ~server.listening,
         server'.pc # "off" => ~At("off"),
         \/ UNCHANGED <<secrets, last, kept>>
         \/ UNCHANGED <<last, kept>> /\ Close
         \/ Close /\ CancelsForgotten
         \/ UNCHANGED secrets /\ CancelsForgotten /\ At("closing")
  PROVE  Deployed'
<1>1. FleetShape'
  BY DEF Shape, FleetShape, Told
<1>2. ApiShape'
  <2>1. NoSecrets \in [Workers -> Processes \union {None}]
    BY DEF NoSecrets
  <2>2. 0 \in 0..MaxCancels /\ << >> \in Seq(Cancels)
    BY WorkerApiAssumption
  <2> QED
    BY <2>1, <2>2 DEF Shape, ApiShape, Told, Close, CancelsForgotten
<1>3. WorkInv'
  BY ToldWork
<1>4. CancelsInv'
  <2>1. UNCHANGED poll
    BY DEF Told
  <2> QED
    BY <2>1, SecretsCancels
<1> QED
  BY <1>1, <1>2, <1>3, <1>4 DEF Deployed

LEMMA OpensStep ==
  ASSUME Shape, Deployed, Opens
  PROVE  Deployed'
<1>1. /\ At("opening") /\ UNCHANGED <<secrets, last, kept, poll, spawn, process, turn, starts,
                                      faults, cut>>
      /\ \/ server' = [server EXCEPT !.pc = "spawning"]
         \/ server' = Off
  BY DEF Opens, Go, apiVars
<1>2. /\ server' \in Server /\ server'.pc \in {"spawning", "off"} /\ ~server'.listening
  BY <1>1, ServerShape DEF Deployed, LifeInv, ServerInv, At
<1>3. /\ ~server.listening /\ server.pc = "opening" /\ starts \in 1..MaxStarts
      /\ \A w \in Workers : secrets[w] = None /\ spawn[w] = NotSpawned
  BY <1>1 DEF Deployed, LifeInv, ServerInv, At
<1>4. Told
  BY <1>1, NoneTold
<1>5. ServerInv'
  BY <1>1, <1>2, <1>3 DEF ServerInv, At
<1>6. \A w \in Workers : Mine(w) \in Processes /\ Mine(w)' = Mine(w) /\ process[Mine(w)].pc = "none"
  BY <1>1, <1>3, MineIsMine DEF Mine, Deployed, LifeInv, ProcessesInv
<1>7. ProcessesInv'
  <2>1. \A p \in Processes : p[1] > starts' => process'[p].pc = "none"
    BY <1>4, ToldLife
  <2> QED
    BY <1>1, <1>3, <1>6, <2>1 DEF ProcessesInv, NotSpawned
<1>8. EndsWithServer'
  <2>1. ASSUME NEW p \in Processes, p[1] = starts
        PROVE  ~Lives(p)
    BY <1>3, <1>6, <2>1, MineIsMine DEF Lives
  <2>2. ASSUME NEW p \in Processes, Lives(p)
        PROVE  p[1] < starts
    <3>1. p[1] \in Nat /\ starts \in Nat
      BY <1>3, WorkerApiAssumption DEF Processes
    <3>2. ~(p[1] > starts)
      BY <2>2 DEF Lives, Deployed, LifeInv, ProcessesInv
    <3> QED
      BY <2>1, <2>2, <3>1, <3>2
  <2> QED
    BY <1>1, <2>2 DEF Deployed, LifeInv, EndsWithServer, Lives
<1>9. NoWorkerOutlives'
  BY <1>2 DEF NoWorkerOutlives, At
<1>10. LifeInv'
  BY <1>5, <1>7, <1>8, <1>9 DEF LifeInv
<1> QED
  BY <1>1, <1>2, <1>3, <1>4, <1>10, ServerMoved DEF Shape, FleetShape, At

\* The process that is made was none: it never ran, polled or was told anything.
LEMMA SpawnStep ==
  ASSUME Shape, Deployed, NEW w \in Workers, Spawn(w)
  PROVE  Deployed'
<1> DEFINE p == Mine(w)
           made == [NoProcess EXCEPT !.pc = "forked"]
<1>1. /\ server.pc = "spawning" /\ spawn[w] = NotSpawned /\ secrets' = [secrets EXCEPT ![w] = p]
      /\ UNCHANGED <<last, kept, poll, server, turn, starts, cut>>
      /\ faults' \in 0..MaxFaults
      /\ \/ /\ spawn' = [spawn EXCEPT ![w] = "waiting"]
            /\ process' = [process EXCEPT ![p] = made]
         \/ /\ spawn' = [spawn EXCEPT ![w] = "failed"]
            /\ UNCHANGED process
  BY FleetAssumption DEF Spawn, At, Open, Fault, Shape, FleetShape
<1>2. /\ starts \in 1..MaxStarts /\ ~server.listening
      /\ p \in Processes /\ p[1] = starts /\ process[p].pc = "none"
      /\ \A v \in Workers : Mine(v) \in Processes /\ Mine(v)' = Mine(v)
                            /\ (v # w => Mine(v) # p)
  <2>1. starts \in 1..MaxStarts /\ ~server.listening
    BY <1>1 DEF Deployed, LifeInv, ServerInv, At
  <2> QED
    BY <1>1, <2>1, MineIsMine DEF Deployed, LifeInv, ProcessesInv, Mine
<1>3. /\ made \in Process /\ made.pc = "forked" /\ made.runs = {} /\ made.claimed = {}
      /\ ~made.term /\ ~made.ready
  BY DEF NoProcess, Process
<1> HIDE DEF p, made
<1>4. /\ process' \in [Processes -> Process]
      /\ \A q \in Processes : q # p => process'[q] = process[q]
      /\ process'[p] \in {process[p], made}
  BY <1>1, <1>2, <1>3 DEF Shape, FleetShape
<1>5. /\ secrets'[w] = p /\ \A v \in Workers : v # w => secrets'[v] = secrets[v]
      /\ secrets' \in [Workers -> Processes \union {None}]
      /\ \A v \in Workers : v # w => spawn'[v] = spawn[v]
      /\ spawn' \in [Workers -> {NotSpawned, "waiting", "ready", "stopping", "failed"}]
      /\ \/ spawn'[w] = "waiting" /\ process'[p] = made
         \/ spawn'[w] = "failed" /\ process'[p] = process[p]
  BY <1>1, <1>2 DEF Shape, FleetShape, ApiShape
<1>6. process[p].runs = {} /\ process[p].claimed = {} /\ poll[p] = NoPoll
  BY <1>2 DEF Deployed, WorkInv, RunsInv
<1>7. ApiShape' /\ FleetShape'
  BY <1>1, <1>4, <1>5 DEF Shape, ApiShape, FleetShape
<1>8. WorkInv'
  <2>1. RunsInv'
    <3> SUFFICES ASSUME NEW q \in Processes
                 PROVE  /\ process'[q].pc \in {"none", "forked", "booting", "starting", "gone"} =>
                             /\ process'[q].runs = {} /\ process'[q].claimed = {}
                             /\ poll[q] = NoPoll
                        /\ \A t \in process'[q].runs \union process'[q].claimed :
                             \/ turn[t].state = "ended"
                             \/ turn[t].state = "running" /\ turn[t].by = q
      BY <1>1 DEF RunsInv
    <3>1. CASE q = p
      BY <1>3, <1>4, <1>6, <3>1
    <3>2. CASE q # p
      BY <1>4, <3>2 DEF Deployed, WorkInv, RunsInv
    <3> QED
      BY <3>1, <3>2
  <2>2. TurnsInv'
    <3> SUFFICES ASSUME NEW t \in Turns
                 PROVE  /\ turn[t].state # "running" => ~turn[t].dispatched
                        /\ turn[t].state = "running" =>
                             /\ turn[t].by \in Processes
                             /\ turn[t].by[1] <= starts /\ turn[t].by[1] # starts
      BY <1>1 DEF TurnsInv
    <3> QED
      BY <1>1, <1>2 DEF Deployed, WorkInv, TurnsInv
  <2> QED
    BY <2>1, <2>2 DEF WorkInv
<1>9. CancelsInv'
  <2>1. KeptInv'
    BY <1>1 DEF Deployed, CancelsInv, KeptInv
  <2>2. \A q \in Processes : q # p /\ Admitted(q)' # {} => Admitted(q) # {}
    BY <1>5 DEF Admitted
  <2>3. PollsInv'
    <3> SUFFICES ASSUME NEW q \in Processes
                 PROVE  /\ poll[q].cursor = None <=> poll[q].first = None
                        /\ Admitted(q)' # {} /\ poll[q].cursor # None =>
                             /\ poll[q].cursor <= last
                             /\ \A n \in poll[q].first + 1 .. poll[q].cursor :
                                  n > last - Kept => \E c \in poll[q].heard : c.number = n
      BY <1>1 DEF PollsInv
    <3>1. CASE q = p
      BY <1>6, <3>1, NoProcessType
    <3>2. CASE q # p
      BY <2>2, <3>2 DEF Deployed, CancelsInv, PollsInv
    <3> QED
      BY <3>1, <3>2
  <2> QED
    BY <2>1, <2>3 DEF CancelsInv
<1>10. LifeInv'
  <2>1. ServerInv'
    BY <1>1, <1>2, <1>5 DEF Deployed, LifeInv, ServerInv, At, p
  <2>2. \A q \in Processes : q[1] > starts => process'[q].pc = "none"
    <3>1. \A q \in Processes : q[1] > starts => q # p
      BY <1>2
    <3> QED
      BY <1>4, <3>1 DEF Deployed, LifeInv, ProcessesInv
  <2>3. ASSUME NEW v \in Workers
        PROVE  /\ spawn'[v] = NotSpawned => process'[Mine(v)].pc = "none"
               /\ spawn'[v] = "waiting" => Unready(Mine(v), process'[Mine(v)], cut)
               /\ spawn'[v] = "ready" =>
                    \/ Mine(v) \in cut
                    \/ process'[Mine(v)].pc = "running" /\ ~process'[Mine(v)].term
    <3>1. CASE v = w
      BY <1>3, <1>5, <3>1 DEF NotSpawned, Unready, p
    <3>2. CASE v # w
      BY <1>1, <1>2, <1>4, <1>5, <3>2 DEF Deployed, LifeInv, ProcessesInv
    <3> QED
      BY <3>1, <3>2
  <2>4. ProcessesInv'
    BY <1>1, <1>2, <2>2, <2>3 DEF ProcessesInv, Unready
  <2>5. EndsWithServer'
    <3>1. ~(p[1] < starts)
      BY <1>2
    <3> QED
      BY <1>1, <1>4, <3>1 DEF Deployed, LifeInv, EndsWithServer, At, Lives
  <2>6. NoWorkerOutlives'
    BY <1>1 DEF NoWorkerOutlives, At
  <2> QED
    BY <2>1, <2>4, <2>5, <2>6 DEF LifeInv
<1> QED
  BY <1>7, <1>8, <1>9, <1>10 DEF Deployed
\* A worker's start is answered, given up or over: what its server keeps of it is true of it.
LEMMA SpawnEndsStep ==
  ASSUME Shape, Deployed, NEW w \in Workers,
         SpawnAnswered(w) \/ SpawnTimesOut(w) \/ SpawnStopped(w)
  PROVE  Deployed'
<1> DEFINE p == Mine(w)
<1>1. /\ server.pc = "spawning" /\ spawn[w] \in {"waiting", "stopping"}
      /\ UNCHANGED <<secrets, last, kept, poll, server, turn, starts, cut>>
      /\ faults' \in 0..MaxFaults
  BY FleetAssumption
  DEF SpawnAnswered, SpawnTimesOut, SpawnStopped, Outwaited, Fault, At, apiVars, Shape, FleetShape
<1>2. \/ /\ spawn[w] = "waiting" /\ process[p].ready
         /\ spawn' = [spawn EXCEPT ![w] = "ready"] /\ UNCHANGED process
      \/ /\ spawn' = [spawn EXCEPT ![w] = "failed"] /\ UNCHANGED process
      \/ /\ spawn' = [spawn EXCEPT ![w] = "stopping"]
         /\ process' = [process EXCEPT ![p] = Terminated(p)]
  BY DEF SpawnAnswered, SpawnTimesOut, SpawnStopped
<1>3. /\ starts \in 1..MaxStarts /\ ~server.listening /\ secrets[w] = p
  BY <1>1 DEF Deployed, LifeInv, ServerInv, At, NotSpawned
<1>4. /\ p \in Processes /\ p[1] = starts
      /\ \A v \in Workers : Mine(v) \in Processes /\ Mine(v)' = Mine(v)
                            /\ (v # w => Mine(v) # p)
  BY <1>1, <1>3, MineIsMine DEF Mine
<1>5. spawn[w] = "waiting" => Unready(p, process[p], cut)
  BY <1>1 DEF Deployed, LifeInv, ProcessesInv
<1> HIDE DEF p
<1>6. Told /\ \A q \in Processes : q # p => process'[q] = process[q]
  <2>1. Terminated(p) \in Process
    BY <1>4, TerminatedType DEF Shape
  <2>2. /\ process' \in [Processes -> Process]
        /\ \A q \in Processes : q # p => process'[q] = process[q]
        /\ process'[p] \in {process[p], Terminated(p)}
    BY <1>2, <1>4, <2>1 DEF Shape, FleetShape
  <2> QED
    BY <1>1, <2>2 DEF Told
<1>7. /\ spawn' \in [Workers -> {NotSpawned, "waiting", "ready", "stopping", "failed"}]
      /\ \A v \in Workers : v # w => spawn'[v] = spawn[v]
      /\ \/ /\ spawn[w] = "waiting" /\ process[p].ready
            /\ spawn'[w] = "ready" /\ process'[p] = process[p]
         \/ spawn'[w] \in {"failed", "stopping"}
  BY <1>2 DEF Shape, FleetShape
<1>8. ServerInv'
  BY <1>1, <1>3, <1>7 DEF Deployed, LifeInv, ServerInv, At, Mine, p
<1>9. ProcessesInv'
  <2>1. \A q \in Processes : q[1] > starts' => process'[q].pc = "none"
    BY <1>6, ToldLife
  <2>2. ASSUME NEW v \in Workers
        PROVE  /\ spawn'[v] = NotSpawned => process'[Mine(v)].pc = "none"
               /\ spawn'[v] = "waiting" => Unready(Mine(v), process'[Mine(v)], cut)
               /\ spawn'[v] = "ready" =>
                    \/ Mine(v) \in cut
                    \/ process'[Mine(v)].pc = "running" /\ ~process'[Mine(v)].term
    <3>1. CASE v = w
      BY <1>5, <1>7, <3>1 DEF NotSpawned, Unready, p
    <3>2. CASE v # w
      BY <1>1, <1>4, <1>6, <1>7, <3>2 DEF Deployed, LifeInv, ProcessesInv
    <3> QED
      BY <3>1, <3>2
  <2> QED
    BY <1>1, <1>4, <2>1, <2>2 DEF ProcessesInv, Unready
<1>10. EndsWithServer' /\ NoWorkerOutlives'
  BY <1>1, <1>6, ToldLife DEF NoWorkerOutlives, At
<1>11. LifeInv'
  BY <1>8, <1>9, <1>10 DEF LifeInv
<1> QED
  BY <1>1, <1>6, <1>7, <1>11, ServerMoved DEF Shape, FleetShape, At

\* The server goes on, up to its workers' stop: its workers are all ready, or are told.
LEMMA GoesOnStep ==
  ASSUME Shape, Deployed, SpawnedAll \/ Bind \/ Signal \/ StopWorkers
  PROVE  Deployed'
<1>1. /\ UNCHANGED <<secrets, last, kept, poll, spawn, turn, starts, cut>>
      /\ faults' \in 0..MaxFaults
      /\ ~At("off")
  BY FleetAssumption
  DEF SpawnedAll, Bind, Signal, StopWorkers, At, apiVars, Fault, Shape, FleetShape
<1>2. /\ server' \in Server
      /\ \/ /\ server'.pc = "binding" /\ ~server'.listening /\ server.pc = "spawning"
            /\ server'.workers = server.workers
            /\ \A w \in server.workers : spawn[w] = "ready"
            /\ UNCHANGED process
         \/ /\ server'.pc = "up" /\ server.pc = "binding" /\ UNCHANGED process
            /\ server'.workers = server.workers
         \/ /\ server'.pc = server.pc /\ server'.listening = server.listening
            /\ UNCHANGED process /\ server'.workers = server.workers
         \/ /\ server'.pc = "stopping" /\ server'.listening = server.listening
            /\ server.pc \in {"spawning", "binding", "up"} /\ TerminateAll
  <2> server \in Server /\ (server.listening => server.pc \in {"up", "stopping"})
    BY DEF Shape, FleetShape, Deployed, LifeInv, ServerInv
  <2>1. CASE SpawnedAll
    BY <2>1 DEF SpawnedAll, At, Go, Server
  <2>2. CASE Bind
    BY <2>2 DEF Bind, At, Server
  <2>3. CASE Signal
    BY <2>3 DEF Signal, Server
  <2>4. CASE StopWorkers
    BY <2>4 DEF StopWorkers, At, Go, Server
  <2> QED
    BY <2>1, <2>2, <2>3, <2>4
<1>3. Told
  BY <1>1, <1>2, AllTold, NoneTold
<1>4. /\ starts \in 1..MaxStarts /\ (server.listening => server.pc \in {"up", "stopping"})
      /\ server'.pc # "off"
      /\ server'.listening => server'.pc \in {"up", "stopping"}
      /\ server'.pc = "closing" => server.pc = "closing" /\ UNCHANGED process
      /\ server'.pc \in {"opening", "closing"} => server.pc = server'.pc
  BY <1>1, <1>2 DEF Deployed, LifeInv, ServerInv, At
<1>5. ServerInv'
  BY <1>1, <1>2, <1>4 DEF Deployed, LifeInv, ServerInv, At, Mine
<1>6. \A w \in Workers : Mine(w) \in Processes /\ Mine(w)' = Mine(w)
  BY <1>1, <1>4, MineIsMine DEF Mine
<1>7. ProcessesInv'
  <2>1. /\ \A p \in Processes : p[1] > starts' => process'[p].pc = "none"
        /\ \A p \in Processes : process[p].pc = "none" <=> process'[p].pc = "none"
    BY <1>3, ToldLife
  <2>2. server'.pc \in {"spawning", "binding", "up"} =>
          server.pc \in {"spawning", "binding", "up"} /\ UNCHANGED process
    BY <1>2
  <2> QED
    BY <1>1, <1>2, <1>6, <2>1, <2>2 DEF Deployed, LifeInv, ProcessesInv, Unready, At
<1>8. EndsWithServer'
  BY <1>1, <1>3, <1>4, ToldLife
<1>9. NoWorkerOutlives'
  BY <1>4, <1>6 DEF Deployed, LifeInv, NoWorkerOutlives, At, Lives
<1>10. LifeInv'
  BY <1>5, <1>7, <1>8, <1>9 DEF LifeInv
<1> QED
  BY <1>1, <1>2, <1>3, <1>4, <1>10, ServerMoved DEF Shape, FleetShape, At

\* The processes spawned have ended, and the others were never made.
LEMMA WorkersStoppedStep ==
  ASSUME Shape, Deployed, WorkersStopped
  PROVE  Deployed'
<1>1. /\ server.pc = "stopping" /\ Close /\ spawn' = [w \in Workers |-> NotSpawned]
      /\ server' = [server EXCEPT !.pc = "closing", !.listening = FALSE]
      /\ UNCHANGED <<last, kept, poll, process, turn, starts, faults, cut>>
      /\ \A w \in Workers : spawn[w] # NotSpawned => process[Mine(w)].pc \in {"none", "gone"}
  BY DEF WorkersStopped, At
<1>2. server' \in Server /\ server'.pc = "closing" /\ ~server'.listening
  BY <1>1 DEF Shape, FleetShape, Server
<1>3. Told
  BY <1>1, NoneTold
<1>4. starts \in 1..MaxStarts
  BY <1>1 DEF Deployed, LifeInv, ServerInv, At
<1>5. \A w \in Workers : /\ secrets'[w] = None /\ spawn'[w] = NotSpawned
                         /\ Mine(w)' = Mine(w) /\ ~Lives(Mine(w))
  BY <1>1 DEF Close, NoSecrets, Mine, Lives, Deployed, LifeInv, ProcessesInv
<1>6. ServerInv'
  BY <1>1, <1>2, <1>4, <1>5 DEF ServerInv, At
<1>7. ProcessesInv'
  BY <1>1, <1>2, <1>3, ToldLife DEF ProcessesInv
<1>8. EndsWithServer' /\ NoWorkerOutlives'
  BY <1>1, <1>2, <1>3, <1>5, ToldLife DEF NoWorkerOutlives, At, Lives
<1>9. LifeInv'
  BY <1>6, <1>7, <1>8 DEF LifeInv
<1>10. spawn' \in [Workers -> {NotSpawned, "waiting", "ready", "stopping", "failed"}]
  BY <1>1
<1> QED
  BY <1>1, <1>2, <1>3, <1>9, <1>10, ServerMoved DEF Shape, FleetShape, At

\* It is off: of its processes none live that were not told, where the system tells them.
LEMMA OffStep ==
  ASSUME Shape, Deployed, Closes \/ ServerDies
  PROVE  Deployed'
<1>1. /\ server' = Off /\ ~At("off") /\ CancelsForgotten
      /\ UNCHANGED <<poll, turn, starts, cut>> /\ faults' \in 0..MaxFaults
      /\ \/ /\ At("closing") /\ UNCHANGED <<secrets, spawn, process>>
         \/ /\ Close /\ spawn' = [w \in Workers |-> NotSpawned]
            /\ process' = [p \in Processes |->
                             IF EndsWithParent /\ p[1] = starts /\ process[p].pc # "forked"
                             THEN Terminated(p) ELSE process[p]]
  BY FleetAssumption DEF Closes, ServerDies, At, Fault, Shape, FleetShape
<1>2. server' \in Server /\ server'.pc = "off" /\ ~server'.listening
  BY <1>1, ServerShape
<1>3. Told
  <2>1. CASE UNCHANGED process
    BY <1>1, <2>1, NoneTold
  <2>2. CASE process' = [p \in Processes |->
                           IF EndsWithParent /\ p[1] = starts /\ process[p].pc # "forked"
                           THEN Terminated(p) ELSE process[p]]
    BY <1>1, <2>2, TerminatedType DEF Told, Shape, FleetShape
  <2> QED
    BY <1>1, <2>1, <2>2
<1>4. starts \in 1..MaxStarts
  BY <1>1 DEF Deployed, LifeInv, ServerInv
<1>5. \A w \in Workers : secrets'[w] = None /\ spawn'[w] = NotSpawned
  BY <1>1 DEF Close, NoSecrets, Deployed, LifeInv, ServerInv, At
<1>6. ServerInv'
  BY <1>1, <1>2, <1>5 DEF ServerInv, At
<1>7. ProcessesInv'
  BY <1>2, <1>3, ToldLife DEF ProcessesInv
<1>8. NoWorkerOutlives'
  BY <1>2 DEF NoWorkerOutlives, At
<1>9. EndsWithServer'
  <2> SUFFICES ASSUME EndsWithParent, NEW p \in Processes,
                      process'[p].pc \notin {"none", "gone"}
               PROVE  process'[p].term \/ process'[p].pc = "forked"
    BY DEF EndsWithServer, Lives
  <2>1. /\ Lives(p) /\ (process[p].term => process'[p].term)
        /\ process[p].pc = "forked" => process'[p].pc = "forked"
    BY <1>3, ToldLife
  <2>2. p[1] \in Nat /\ ~(p[1] > starts)
    BY <2>1, WorkerApiAssumption DEF Lives, Deployed, LifeInv, ProcessesInv, Processes
  <2>3. CASE p[1] < starts
    BY <2>1, <2>3 DEF Deployed, LifeInv, EndsWithServer
  <2>4. CASE p[1] = starts
    <3>1. p[2] \in Workers /\ p = Mine(p[2])
      BY <1>4, <2>4, MineIsMine
    <3>2. ~At("closing")
      BY <2>1, <3>1 DEF Deployed, LifeInv, NoWorkerOutlives
    <3>3. process[p].pc = "forked" \/ process'[p] = Terminated(p)
      BY <1>1, <2>4, <3>2
    <3> QED
      BY <2>1, <3>3, TerminatedType, GoneType DEF Shape
  <2> QED
    BY <1>4, <2>2, <2>3, <2>4
<1>10. LifeInv'
  BY <1>6, <1>7, <1>8, <1>9 DEF LifeInv
<1>11. spawn' \in [Workers -> {NotSpawned, "waiting", "ready", "stopping", "failed"}]
  BY <1>1 DEF Shape, FleetShape
<1> QED
  BY <1>1, <1>2, <1>3, <1>10, <1>11, ServerMoved
-----------------------------------------------------------------------------
(* The steps of the database                                               *)

\* One command creates at a time, in a database that is still empty when it commits.
LEMMA SchemaStep ==
  ASSUME SchemaShape, SchemaInv, InitDatabase
  PROVE  /\ SchemaShape' /\ CommandsInv'
         /\ database' # database =>
              /\ IsEmpty(database)
              /\ \E build \in Builds :
                   CheckPasses(database', build) /\ database' = Made(database, build)
<1>1. ASSUME NEW c \in Commands, NEW build \in Builds, InitBegin(c, build)
      PROVE  SchemaShape' /\ CommandsInv' /\ database' = database
  <2>1. /\ command' = [command EXCEPT ![c] = [pc |-> "locking", build |-> build]]
        /\ database.utf8 /\ UNCHANGED <<database, locked>>
    BY <1>1 DEF InitBegin
  <2>2. /\ command'[c] = [pc |-> "locking", build |-> build]
        /\ \A d \in Commands : d # c => command'[d] = command[d]
    BY <2>1 DEF SchemaShape
  <2>3. SchemaShape'
    BY <2>1 DEF SchemaShape
  <2>4. MayCreate' = MayCreate
    BY <2>1 DEF MayCreate, IsEmpty, Found, Unobstructed
  <2> QED
    BY <2>1, <2>2, <2>3, <2>4 DEF SchemaInv, CommandsInv
<1>2. ASSUME NEW c \in Commands, LockAndLook(c)
      PROVE  SchemaShape' /\ CommandsInv' /\ database' = database
  <2>1. /\ command[c].pc = "locking" /\ locked = None /\ database' = database
        /\ \/ /\ MayCreate /\ locked' = c
              /\ command' = [command EXCEPT ![c] = [command[c] EXCEPT !.pc = "creating"]]
           \/ /\ locked' = locked
              /\ command' = [command EXCEPT ![c] = NoCommand("over")]
    BY <1>2 DEF LockAndLook, Creates, Over
  <2>2. NoCommand("over") \in [pc : {"idle", "locking", "creating", "over"},
                               build : Builds \union {None}]
    BY DEF NoCommand
  <2>3. \A d \in Commands : d # c => command'[d] = command[d]
    BY <2>1 DEF SchemaShape
  <2>4. /\ \/ /\ MayCreate /\ locked' = c
              /\ command'[c].pc = "creating" /\ command'[c].build = command[c].build
           \/ locked' = locked /\ command'[c].pc = "over"
        /\ SchemaShape'
    BY <2>1, <2>2 DEF SchemaShape, NoCommand
  <2>5. \A d \in Commands : command[d].pc # "creating"
    BY <2>1, SchemaAssumption DEF SchemaInv, CommandsInv
  <2>6. MayCreate' = MayCreate
    BY <2>1 DEF MayCreate, IsEmpty, Found, Unobstructed
  <2> QED
    BY <2>1, <2>3, <2>4, <2>5, <2>6 DEF SchemaInv, CommandsInv
<1>3. ASSUME NEW c \in Commands, InitDies(c) \/ CommitSchema(c)
      PROVE  /\ command' \in [Commands -> [pc : {"idle", "locking", "creating", "over"},
                                           build : Builds \union {None}]]
             /\ locked' \in Commands \union {None}
             /\ command'[c].pc = "over"
             /\ \A d \in Commands : d # c => command'[d] = command[d]
             /\ locked' = IF locked = c THEN None ELSE locked
  <2>1. NoCommand("over") \in [pc : {"idle", "locking", "creating", "over"},
                               build : Builds \union {None}]
        /\ NoCommand("over").pc = "over"
    BY DEF NoCommand
  <2> QED
    BY <1>3, <2>1 DEF InitDies, CommitSchema, Over, Unlocked, SchemaShape
<1>4. ASSUME NEW c \in Commands, InitDies(c)
      PROVE  SchemaShape' /\ CommandsInv' /\ database' = database
  <2>1. database' = database
    BY <1>4 DEF InitDies
  <2>2. MayCreate' = MayCreate
    BY <2>1 DEF MayCreate, IsEmpty, Found, Unobstructed
  <2> QED
    BY <1>3, <1>4, <2>1, <2>2 DEF SchemaShape, SchemaInv, CommandsInv
<1>5. ASSUME NEW c \in Commands, CommitSchema(c)
      PROVE  /\ SchemaShape' /\ CommandsInv'
             /\ IsEmpty(database)
             /\ \E build \in Builds :
                  CheckPasses(database', build) /\ database' = Made(database, build)
  <2> DEFINE build == command[c].build
             row == [version |-> SchemaVersion, hash |-> build]
  <2>1. /\ command[c].pc = "creating" /\ database' = Made(database, build)
        /\ locked = c /\ MayCreate /\ database.utf8 /\ build \in Builds
        /\ database \in DatabaseShape
    BY <1>5 DEF CommitSchema, SchemaInv, CommandsInv, SchemaShape
  <2> HIDE DEF build
  <2>2. /\ IsEmpty(database) /\ Found(database) = None /\ database.tables = {}
        /\ database.front = {}
    BY <2>1 DEF MayCreate, IsEmpty, Unobstructed
  <2>3. row \in [version : Nat, hash : Builds \union {None}]
    BY <2>1 DEF SchemaVersion
  <2>4. row # None /\ row \in Rows
    BY <2>3, SchemaAssumption DEF Rows
  <2>5. /\ database' \in DatabaseShape
        /\ database'.tables = Tables /\ database'.row = row /\ database'.front = {}
        /\ database'.utf8
    <3>1. database' = [database EXCEPT !.tables = database.tables \union Tables, !.row = row]
      BY <2>1, <2>2 DEF Made
    <3> HIDE DEF row
    <3> QED
      BY <2>1, <2>2, <2>4, <3>1 DEF DatabaseShape
  <2>6. row.version = SchemaVersion /\ row.hash = build
    OBVIOUS
  <2> HIDE DEF row
  <2>7. CheckPasses(database', build)
    BY <2>4, <2>5, <2>6, SchemaAssumption
    DEF CheckPasses, IsOfBuild, IsWhole, Unobstructed, Found
  <2>8. \A d \in Commands : command'[d].pc # "creating"
    BY <1>3, <1>5, <2>1 DEF SchemaInv, CommandsInv
  <2>9. CommandsInv'
    BY <1>3, <1>5, <2>5, <2>8 DEF SchemaInv, CommandsInv
  <2> QED
    BY <1>3, <1>5, <2>1, <2>2, <2>5, <2>7, <2>9 DEF SchemaShape
<1>6. \/ \E c \in Commands, build \in Builds : InitBegin(c, build)
      \/ \E c \in Commands : LockAndLook(c)
      \/ \E c \in Commands : CommitSchema(c)
      \/ \E c \in Commands : InitDies(c)
  BY DEF InitDatabase, OrderInit, InitSteps
<1> QED
  BY <1>1, <1>2, <1>4, <1>5, <1>6

LEMMA InitDatabaseStep ==
  ASSUME FleetInvs, InitDatabase
  PROVE  FleetInvs'
<1>1. UNCHANGED <<secrets, last, kept, poll, server, spawn, process, turn, starts, faults, cut>>
  BY DEF InitDatabase, apiVars, fleetVars
<1>2. SchemaShape' /\ CommandsInv' /\ (database' # database => IsEmpty(database))
  BY SchemaStep DEF FleetInvs, Shape
<1>3. ServesItsBuild'
  <2>1. server.pc \notin {"off", "opening"} => database' = database
    BY <1>2, SchemaAssumption DEF FleetInvs, SchemaInv, ServesItsBuild, IsEmpty
  <2> QED
    BY <1>1, <2>1 DEF FleetInvs, SchemaInv, ServesItsBuild
<1>4. ApiShape' /\ FleetShape'
  BY <1>1 DEF FleetInvs, Shape, ApiShape, FleetShape
<1>5. LifeInv'
  BY <1>1 DEF FleetInvs, LifeInv, ServerInv, ProcessesInv, NoWorkerOutlives, EndsWithServer, At,
              Mine, Lives, Unready
<1>6. WorkInv'
  BY <1>1 DEF FleetInvs, WorkInv, RunsInv, TurnsInv, At
<1>7. CancelsInv'
  BY <1>1 DEF FleetInvs, CancelsInv, KeptInv, PollsInv, Admitted
<1> QED
  BY <1>2, <1>3, <1>4, <1>5, <1>6, <1>7 DEF FleetInvs, Shape, SchemaInv

\* No other step writes the database, and only one that was checked is served.
LEMMA DatabaseStands ==
  ASSUME SchemaShape, SchemaInv, UNCHANGED schemaVars,
         \/ server'.pc \in {"off", "opening"}
         \/ server.pc \notin {"off", "opening"} /\ server'.build = server.build
         \/ CheckPasses(database, server'.build)
  PROVE  SchemaShape' /\ SchemaInv'
<1>1. UNCHANGED <<database, locked, command>>
  BY DEF schemaVars
<1>2. SchemaShape'
  BY <1>1 DEF SchemaShape
<1>3. CommandsInv'
  BY <1>1 DEF SchemaInv, CommandsInv, MayCreate, IsEmpty, Found, Unobstructed
<1>4. CASE CheckPasses(database, server'.build)
  <2>1. database.row \in [version : Nat, hash : Builds \union {None}]
    BY <1>4 DEF CheckPasses, IsOfBuild, Found, SchemaShape, DatabaseShape, Rows
  <2>2. database.row = [version |-> database.row.version, hash |-> database.row.hash]
    BY <2>1
  <2>3. database.tables = Tables /\ database.front = {}
    BY <1>4 DEF CheckPasses, IsWhole, Unobstructed, SchemaShape, DatabaseShape
  <2>4. ServesItsBuild'
    BY <1>1, <1>4, <2>2, <2>3 DEF ServesItsBuild, CheckPasses, IsOfBuild
  <2> QED
    BY <1>2, <1>3, <2>4 DEF SchemaInv
<1>5. CASE server'.pc \in {"off", "opening"}
  BY <1>2, <1>3, <1>5 DEF SchemaInv, ServesItsBuild
<1>6. CASE server.pc \notin {"off", "opening"} /\ server'.build = server.build
  BY <1>1, <1>2, <1>3, <1>6 DEF SchemaInv, ServesItsBuild
<1> QED
  BY <1>4, <1>5, <1>6
-----------------------------------------------------------------------------
(* Every step                                                              *)

\* The steps of a process, a turn or a cancel, which leave the server and the database alone.
WorkSteps ==
  \/ \E w \in Workers : KillsWorker(w)
  \/ \E p \in Processes :
       \/ WorkerSteps(p) \/ FailsToStart(p) \/ Hangs(p) \/ Dies(p)
       \/ Claims(p) \/ Dispatches(p) \/ PollsCancels(p)
       \/ TurnSteps(p)
  \/ \E t \in Turns :
       \/ \E w \in Workers : Queue(t, w)
       \/ Cancel(t)
       \/ Sweep(t)

\* Those of the server.
ServerSteps ==
  \/ \E build \in Builds, workers \in Configurations : Start(build, workers)
  \/ StartSteps \/ Signal \/ StopSteps \/ ServerDies

LEMMA NextIsSteps == FleetNext => InitDatabase \/ ServerSteps \/ WorkSteps
BY DEF FleetNext, Progress, ServerSteps, WorkSteps

LEMMA WorkStep ==
  ASSUME FleetInvs, WorkSteps
  PROVE  FleetInvs'
<1> Shape /\ Deployed /\ SchemaShape
  BY DEF FleetInvs, Shape, Deployed
<1>1. Deployed'
  <2>1. \A t \in Turns : (\E w \in Workers : Queue(t, w)) \/ Cancel(t) \/ Sweep(t) => Deployed'
    BY QueueStep, CancelStep, SweepStep
  <2>2. \A p \in Processes : Claims(p) \/ Dispatches(p) \/ PollsCancels(p) => Deployed'
    BY ClaimsStep, DispatchesStep, PollsStep
  <2>3. \A p \in Processes : TurnSteps(p) => Deployed'
    BY EndsStep, LosesTurnStep DEF TurnSteps
  <2>4. \A p \in Processes : WorkerSteps(p) \/ FailsToStart(p) \/ Hangs(p) \/ Dies(p) => Deployed'
    BY ProcessStep
  <2>5. \A w \in Workers : KillsWorker(w) => Deployed'
    BY ProcessStep
  <2> QED
    BY <2>1, <2>2, <2>3, <2>4, <2>5 DEF WorkSteps
<1>2. UNCHANGED <<database, locked, command, server>>
  <2>1. \A t \in Turns : (\E w \in Workers : Queue(t, w)) \/ Cancel(t) \/ Sweep(t)
                           => UNCHANGED <<database, locked, command, server>>
    BY DEF Queue, Cancel, Sweep, schemaVars, fleetVars
  <2>2. \A p \in Processes : Claims(p) \/ Dispatches(p) \/ PollsCancels(p) \/ TurnSteps(p)
                               => UNCHANGED <<database, locked, command, server>>
    BY DEF Claims, Dispatches, PollsCancels, TurnSteps, Ends, LosesTurn, schemaVars, fleetVars
  <2>3. \A p \in Processes : WorkerSteps(p) \/ FailsToStart(p) \/ Hangs(p) \/ Dies(p)
                               => UNCHANGED <<database, locked, command, server>>
    BY DEF WorkerSteps, AsksParent, Boots, Starts, Drains, Interrupts, Leaves, FailsToStart, Hangs,
           Dies, schemaVars
  <2>4. \A w \in Workers : KillsWorker(w) => UNCHANGED <<database, locked, command, server>>
    BY DEF KillsWorker, schemaVars
  <2> QED
    BY <2>1, <2>2, <2>3, <2>4 DEF WorkSteps
<1>3. SchemaShape' /\ SchemaInv'
  BY <1>2, DatabaseStands DEF FleetInvs, schemaVars
<1> QED
  BY <1>1, <1>3 DEF FleetInvs, Shape, Deployed

LEMMA ServerStep ==
  ASSUME FleetInvs, ServerSteps
  PROVE  FleetInvs' /\ UNCHANGED <<database, locked, command>>
<1> Shape /\ Deployed /\ SchemaShape
  BY DEF FleetInvs, Shape, Deployed
<1>1. Deployed'
  BY StartStep, OpensStep, SpawnStep, SpawnEndsStep, GoesOnStep, WorkersStoppedStep, OffStep
  DEF ServerSteps, StartSteps, StopSteps
<1>2. UNCHANGED schemaVars
  BY DEF ServerSteps, StartSteps, StopSteps, Start, Opens, Spawn, SpawnAnswered, SpawnTimesOut,
         SpawnStopped, SpawnedAll, Bind, Signal, StopWorkers, WorkersStopped, Closes, ServerDies
<1>3. \/ server'.pc \in {"off", "opening"}
      \/ server.pc \notin {"off", "opening"} /\ server'.build = server.build
      \/ CheckPasses(database, server'.build)
  <2> server \in Server
    BY DEF Shape, FleetShape
  <2>1. CASE \E build \in Builds, workers \in Configurations : Start(build, workers)
    BY <2>1 DEF Start, Off
  <2>2. CASE Opens
    BY <2>2 DEF Opens, Go, Server, Off
  <2>3. CASE Closes \/ ServerDies
    BY <2>3 DEF Closes, ServerDies, Off
  <2>4. CASE Signal
    BY <2>4 DEF Signal, Server
  <2>5. CASE SpawnedAll \/ Bind \/ StopWorkers \/ WorkersStopped
    BY <2>5 DEF SpawnedAll, Bind, StopWorkers, WorkersStopped, At, Go, Server
  <2>6. CASE \E w \in Workers : Spawn(w) \/ SpawnAnswered(w) \/ SpawnTimesOut(w) \/ SpawnStopped(w)
    BY <2>6 DEF Spawn, SpawnAnswered, SpawnTimesOut, SpawnStopped, At
  <2> QED
    BY <2>1, <2>2, <2>3, <2>4, <2>5, <2>6 DEF ServerSteps, StartSteps, StopSteps
<1>4. SchemaShape' /\ SchemaInv'
  BY <1>2, <1>3, DatabaseStands DEF FleetInvs
<1> QED
  BY <1>1, <1>2, <1>4 DEF FleetInvs, Shape, Deployed, schemaVars

LEMMA StandsStill ==
  ASSUME FleetInvs, UNCHANGED vars
  PROVE  FleetInvs'
<1>1. UNCHANGED <<database, locked, command, secrets, last, kept, poll, server, spawn, process,
                  turn, starts, faults, cut>>
  BY DEF vars, schemaVars, apiVars, fleetVars
<1>2. SchemaShape' /\ SchemaInv'
  BY <1>1 DEF FleetInvs, Shape, SchemaShape, SchemaInv, CommandsInv, MayCreate, IsEmpty, Found,
              Unobstructed, ServesItsBuild
<1>3. ApiShape' /\ FleetShape'
  BY <1>1 DEF FleetInvs, Shape, ApiShape, FleetShape
<1>4. LifeInv'
  BY <1>1 DEF FleetInvs, LifeInv, ServerInv, ProcessesInv, NoWorkerOutlives, EndsWithServer, At,
              Mine, Lives, Unready
<1>5. WorkInv'
  BY <1>1 DEF FleetInvs, WorkInv, RunsInv, TurnsInv, At
<1>6. CancelsInv'
  BY <1>1 DEF FleetInvs, CancelsInv, KeptInv, PollsInv, Admitted
<1> QED
  BY <1>2, <1>3, <1>4, <1>5, <1>6 DEF FleetInvs, Shape

LEMMA Begins == FleetInit => FleetInvs
<1> SUFFICES ASSUME FleetInit
             PROVE  FleetInvs
  OBVIOUS
<1>1. SchemaShape
  BY SchemaAssumption DEF FleetInit, SchemaInit, SchemaShape, DatabaseShape, NoCommand
<1>2. server = Off /\ Off.pc = "off" /\ Off \in Server /\ ~Off.listening
  BY DEF FleetInit, Off, Server
<1>3. SchemaInv
  BY <1>2 DEF FleetInit, SchemaInit, SchemaInv, CommandsInv, ServesItsBuild, NoCommand
<1>4. ApiShape
  BY WorkerApiAssumption, NoProcessType DEF FleetInit, ApiShape, NoSecrets
<1>5. FleetShape
  <2>1. NoTurn \in Task
    BY DEF NoTurn, Task
  <2> QED
    BY <1>2, <2>1, WorkerApiAssumption, FleetAssumption, NoProcessType DEF FleetInit, FleetShape
<1>6. LifeInv
  BY <1>2, NoProcessType
  DEF FleetInit, LifeInv, ServerInv, ProcessesInv, NoWorkerOutlives, EndsWithServer, At, Lives,
      NoSecrets
<1>7. WorkInv
  BY NoProcessType DEF FleetInit, WorkInv, RunsInv, TurnsInv, NoTurn
<1>8. CancelsInv
  <2>1. KeptInv
    BY WorkerApiAssumption DEF FleetInit, KeptInv
  <2>2. PollsInv
    BY NoProcessType DEF FleetInit, PollsInv
  <2> QED
    BY <2>1, <2>2 DEF CancelsInv
<1> QED
  BY <1>1, <1>3, <1>4, <1>5, <1>6, <1>7, <1>8 DEF FleetInvs, Shape

LEMMA FleetInvsAlways == FleetSpec => []FleetInvs
<1>1. FleetInvs /\ [FleetNext]_vars => FleetInvs'
  BY NextIsSteps, InitDatabaseStep, ServerStep, WorkStep, StandsStill
<1> QED
  BY <1>1, Begins, PTL DEF FleetSpec

-----------------------------------------------------------------------------
(* What follows                                                            *)

\* Whatever is started, stopped, killed or hung, and whatever `db init` runs meanwhile: a server
\* serves a database of its own build with its workers ready, and closes with none of them left.
THEOREM FleetInvAlways == FleetSpec => []FleetInv
<1>1. FleetInvs => FleetInv
  <2> SUFFICES ASSUME FleetInvs
               PROVE  FleetInv
    OBVIOUS
  <2>1. FleetTypeOK
    <3>1. SchemaTypeOK
      BY DEF FleetInvs, Shape, SchemaShape, DatabaseShape, SchemaTypeOK
    <3>2. Len(kept) <= Kept
      BY WorkerApiAssumption DEF FleetInvs, Shape, ApiShape, CancelsInv, KeptInv
    <3> QED
      BY <3>1, <3>2
      DEF FleetInvs, Shape, ApiShape, FleetShape, Server, Process, Task, FleetTypeOK, LifeInv,
          ServerInv
  <2>2. UpIsReady
    BY DEF FleetInvs, UpIsReady, LifeInv, ServerInv, ProcessesInv, At, Shape, FleetShape, Server
  <2> QED
    BY <2>1, <2>2 DEF FleetInvs, FleetInv, SchemaInv, LifeInv
<1> QED
  BY <1>1, FleetInvsAlways, PTL

\* Where the system tells a process of its parent's end, none outlives its server untold: one that
\* had not asked yet when the server died looks once it has.
THEOREM EndsWithServerAlways == FleetSpec => []EndsWithServer
  BY FleetInvsAlways, PTL DEF FleetInvs, LifeInv

\* A server that stops leaves running no turn a worker of its own knew of, but a dead one's and
\* one whose end the server was asked for and failed.
THEOREM NothingLeftBehindAlways == FleetSpec => []NothingLeftBehind
<1>1. FleetInvs => NothingLeftBehind
  <2> SUFFICES ASSUME FleetInvs, server.pc = "closing", NEW t \in Turns,
                      turn[t].state = "running", turn[t].dispatched, turn[t].by[1] = starts
               PROVE  turn[t].by \in cut \/ turn[t].lost
    BY DEF NothingLeftBehind, At
  <2>1. /\ turn[t].by \in Processes
        /\ turn[t].by \in cut \/ turn[t].lost \/ t \in process[turn[t].by].runs
    BY DEF FleetInvs, WorkInv, TurnsInv, At
  <2>2. turn[t].by[2] \in Workers /\ turn[t].by = Mine(turn[t].by[2])
    BY <2>1, MineIsMine DEF FleetInvs, LifeInv, ServerInv, At
  <2>3. process[turn[t].by].runs = {}
    BY <2>1, <2>2 DEF FleetInvs, LifeInv, NoWorkerOutlives, WorkInv, RunsInv, At, Lives
  <2> QED
    BY <2>1, <2>3
<1> QED
  BY <1>1, FleetInvsAlways, PTL

\* A worker that is let in has heard every cancel up to its cursor, but those too many to keep.
THEOREM HearsEveryCancelAlways == FleetSpec => []HearsEveryCancel
<1>1. FleetInvs => HearsEveryCancel
  BY DEF FleetInvs, CancelsInv, PollsInv, HearsEveryCancel
<1> QED
  BY <1>1, FleetInvsAlways, PTL

\* A turn is handed to its own worker's process of this server, and ended by no other server's.
THEOREM HandsItsOwnAlways == FleetSpec => HandsItsOwn
<1> DEFINE Own == \A t \in Turns :
                    /\ turn[t].state = "queued" /\ turn'[t].state = "running"
                         => turn'[t].by = Mine(turn[t].worker)
                    /\ turn[t].state = "running" /\ turn'[t].state = "ended" /\ process' # process
                         => turn[t].by[1] = starts
<1>1. ASSUME FleetInvs, FleetNext
      PROVE  Own
  <2> Shape /\ Deployed /\ turn \in [Turns -> Task]
    BY <1>1 DEF FleetInvs, Shape, Deployed, FleetShape
  <2>1. CASE turn' = turn
    BY <2>1
  <2>2. ASSUME NEW p \in Processes, Claims(p)
        PROVE  Own
    <3>1. \A t \in Claimable(p) : turn[t].state = "queued" /\ p = Mine(turn[t].worker)
      BY <2>2, ClaimableOwn DEF Claims
    <3>2. \A t \in Turns : /\ t \in Claimable(p) => turn'[t].by = p /\ turn'[t].state = "running"
                           /\ t \notin Claimable(p) => turn'[t] = turn[t]
      BY <2>2 DEF Claims, Task
    <3> QED
      BY <3>1, <3>2
  <2>3. ASSUME NEW p \in Processes, Dispatches(p)
        PROVE  Own
    <3>1. \A t \in Turns : turn'[t].state = turn[t].state
      BY <2>3 DEF Dispatches, Task
    <3> QED
      BY <3>1
  <2>4. ASSUME NEW p \in Processes, NEW t \in Turns, Ends(p, t)
        PROVE  Own
    <3>1. p[1] = starts
      BY <2>4, ReachesOwn DEF Ends
    <3>2. turn[t].state = "running" => turn[t].by = p
      BY <2>4 DEF Ends, Deployed, WorkInv, RunsInv
    <3>3. /\ turn'[t].state = "ended" /\ \A u \in Turns : u # t => turn'[u] = turn[u]
      BY <2>4 DEF Ends, NoTurn
    <3> QED
      BY <3>1, <3>2, <3>3
  <2>5. ASSUME NEW t \in Turns, (\E w \in Workers : Queue(t, w)) \/ Sweep(t)
        PROVE  Own
    <3>1. /\ turn'[t].state \in {"queued", "ended"} /\ process' = process
          /\ \A u \in Turns : u # t => turn'[u] = turn[u]
      BY <2>5 DEF Queue, Sweep, NoTurn
    <3> QED
      BY <3>1
  <2>6. InitDatabase \/ ServerSteps => turn' = turn
    BY DEF InitDatabase, fleetVars, ServerSteps, StartSteps, StopSteps, Start, Opens, Spawn,
           SpawnAnswered, SpawnTimesOut, SpawnStopped, SpawnedAll, Bind, Signal, StopWorkers,
           WorkersStopped, Closes, ServerDies
  <2>7. \A t \in Turns : Cancel(t) => turn' = turn
    BY DEF Cancel, fleetVars
  <2>8. \A p \in Processes : WorkerSteps(p) \/ FailsToStart(p) \/ Hangs(p) \/ Dies(p)
                             \/ PollsCancels(p) => turn' = turn
    BY DEF WorkerSteps, AsksParent, Boots, Starts, Drains, Interrupts, Leaves, FailsToStart, Hangs,
           Dies, PollsCancels, fleetVars
  <2>9. ASSUME NEW p \in Processes, NEW t \in Turns, LosesTurn(p, t)
        PROVE  Own
    <3>1. \A u \in Turns : turn'[u].state = turn[u].state
      BY <2>9 DEF LosesTurn, Task
    <3> QED
      BY <3>1
  <2>10. \A w \in Workers : KillsWorker(w) => turn' = turn
    BY DEF KillsWorker
  <2> HIDE DEF Own
  <2> QED
    BY <1>1, <2>1, <2>2, <2>3, <2>4, <2>5, <2>6, <2>7, <2>8, <2>9, <2>10, NextIsSteps
    DEF WorkSteps, TurnSteps
<1>2. FleetInvs /\ [FleetNext]_vars => [Own]_vars
  BY <1>1
<1>3. FleetSpec => [][Own]_vars
  BY <1>2, FleetInvsAlways, PTL DEF FleetSpec
<1> QED
  BY <1>3 DEF HandsItsOwn

\* `db init` changes no database but an empty one, which it makes one of its build.
THEOREM NeverRelabelsAlways == FleetSpec => NeverRelabels
<1> DEFINE Relabels == LET core(db) == <<db.tables, db.row>>
                       IN  core(database') # core(database) =>
                             /\ IsEmpty(database)
                             /\ \E build \in Builds : CheckPasses(database', build)
<1>1. ASSUME FleetInvs, FleetNext
      PROVE  Relabels
  <2>1. CASE database' = database
    BY <2>1
  <2>2. CASE InitDatabase
    BY <1>1, <2>1, <2>2, SchemaStep DEF FleetInvs, Shape
  <2>3. WorkSteps => database' = database
    BY DEF WorkSteps, KillsWorker, WorkerSteps, TurnSteps, AsksParent, Boots, Starts, Drains,
           Interrupts, Leaves, FailsToStart, Hangs, Dies, Claims, Dispatches, PollsCancels, Ends,
           LosesTurn, Queue, Cancel, Sweep, schemaVars
  <2>4. ServerSteps => database' = database
    BY <1>1, ServerStep
  <2> HIDE DEF Relabels
  <2> QED
    BY <1>1, <2>1, <2>2, <2>3, <2>4, NextIsSteps
<1>2. FleetInvs /\ [FleetNext]_vars => [Relabels]_schemaVars
  BY <1>1 DEF vars
<1>3. FleetSpec => [][Relabels]_schemaVars
  BY <1>2, FleetInvsAlways, PTL DEF FleetSpec
<1> QED
  BY <1>3 DEF NeverRelabels
=============================================================================
