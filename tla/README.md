# A verification of Robinauts

TLA+ models of Robinauts, a chat service whose agents run in worker processes: the store of
sessions and turns, the worker that runs turns and the requests between them, the handlers of the
web server that show and follow a conversation, the thread an agent is told of, the way of an
answer to the page, device pairing, sign-in, the life of the processes and of the database, and
the listing and search of sessions. TLC checks them on small instances; TLAPS proves every
safety property the runs check for instances of any size. What is left to TLC is liveness.

Paths below are under `src/backend/src/robinauts/` unless they start with `src/`.

## 1. The system

A person's browser talks to the **web server**. The web server owns the **controller** and its
**store** (PostgreSQL, or memory in development). **Worker** processes run the agents: each polls
the server over HTTP for tasks, runs a turn's engine, writes the turn's events and its end back,
and keeps its tasks' leases by a heartbeat. Nothing is pushed to a worker; everything a worker
knows of a turn it asked for, and everything it does to one the store may refuse. The server spawns
its workers, and stops them through the same API.

| Component | State | Operations | Talks to | What must hold |
|---|---|---|---|---|
| **Turn store** `controller/ports/store.py`, `controller/adapters/*/store.py` | sessions (visible, hidden, purged), messages, turns, tasks with leases, cancel marks, events | add, hide, purge a session; queue, claim, append, finish, renew, cancel, end expired | everybody; atomic calls | one active turn a session; a turn and its task agree; one end, final, with its answer |
| **Controller** `controller/application/controller.py` | none of its own, except the sweep | start, ask, regenerate, retry, resume, open, watch, cancel, delete, list, rename, sweep | store, by several calls a handler | what a handler read and acts on is still so, or the store refuses; what is shown is true |
| **Worker** `worker/worker.py`, `worker/turns.py` | a coroutine a turn, cancels under way, the heartbeat, the claim loop | claim, run, cancel, renew, drain, close | turn broker; engines | a live runner keeps its lease; every turn ends; cancels are heard |
| **Turn broker** `worker/http_turn_broker.py`, `controller/application/turn_broker.py`, `web/worker_api.py` | requests on their way; the cancels' cursor; the workers' secrets | each store call a worker may make, and the poll for cancels | worker and controller, over HTTP | a request late, repeated or given up on does no harm; a kept cancel is heard |
| **Partial answers, documents** `controller/contract/broker/` | none | clean, write and read a document; make a failed answer of a turn's events | runner and controller | the two agree on the answer |
| **Thread, prompt, resume** `worker/worker.py`, `worker/failures.py`, `controller.py` | messages' parents and checkpoints | what a turn goes on from, and what its prompt tells | store, engines | the thread above the question, each exchange once |
| **Agent engines** `agent_engines/` | a framework's own session | create, prompt, resume, save | worker | a finished answer can be gone on from |
| **Web and AG-UI** `web/app.py`, `web/agui.py` | event streams | routes, SSE, the events' mapping | browser, controller | each event once and in order |
| **Frontend** `src/frontend/src/chat` | the chat shown, its streams | attach, fold, retry | web | what it shows is what is stored |
| **Device pairing** `controller/adapters/*/credentials.py`, `web/pairing.py`, `src/frontend/src/devices/LinkDialog.tsx` | the rows of pairings and of devices; what the dialog shows, the code it holds, its polls | mint, claim, poll, approve, refuse, expire, remove a device | browser, phone, server | a code links at most the phone it was approved for, and none once it ended; dialog and phone learn what became of it |
| **Sign-in, sessions, tokens** `web/sign_in.py`, `web/oidc.py`, `web/credentials.py` | pending logins, sessions, tokens, the passes of each process | sign in, resolve a request, revoke | browser, provider | each login taken once, in its browser, by somebody the list means; a revoked list stops a request within a minute |
| **Process lifecycle** `cli/` | the server and its worker processes | start, fail to start, stop, die | operating system | nothing outlives its server untold, no start or stop hangs |
| **Database schema** `controller/adapters/postgres/schema.py` | version and hash, tables | `db init`, the check of a start | server, command line | no database is taken for another build's |
| **Listing and search** `controller.py`, `tools/sessions/search.py`, `worker/tools.py` | none | a page of sessions, a search over pages | browser, a turn's tool | nothing missed, nothing twice |
| **Configuration, titles; Android client; scripts** | none; a second client; build scripts | | | not modelled: section 6 |

What is hard here: four parties may end one turn (its runner, a cancel, a reader that finds its
lease lapsed, the sweep), each by several store calls; leases compare the clocks of different
processes; a coroutine may be cancelled at any await, twice; a request given up on may still be
executed. An answer is built twice, by its runner and from its events, and shown a third time by a
page whose connection is cut anywhere. What the model is told of a thread comes from two places. A
dialog goes through codes while the answers about earlier ones are still to come. A refusal deletes
what a sign-in is just making. A server waits for workers that wait for it. `PROJECT.json` lists
these as hazards, each at its line with the properties that watch it.

## 2. The modules

```
TurnContract                 what the store promises (abstract)
   ^ implemented by
TurnStore                    the store, one action an operation
   |-- Worker                a worker's coroutines, requests, heartbeat, stop, crash
   |-- ServerTime            leases and the passing of time
        |-- TurnSystem       users, readers, the sweep, the worker and time (with Worker)
        |-- Writers          anything the other parties may do to a conversation
             |-- Watcher     watch_turn, await by await
             |-- OpenSession open_session, read by read

AgentEngine                  what an engine saves of a session
   |-- Thread                messages, turns and prompts of one conversation

Documents                    events and parts as the store keeps them
   |-- Page                  their AG-UI events and the page's fold
        |-- Stream           runner, server, connection and client of one turn

Pairings                     the rows of pairings and devices, one action an operation
   |-- LinkPhone             the browser's dialog, the phone and the network
   |-- Credentials           logins, sessions, tokens (with AllowList)
        |-- Access           browsers, callbacks, requests, processes

Schema                       a database, `db init` and the check
   |-- WorkerApi             secrets, cancels and their cursor
        |-- Fleet            the server and its worker processes

Sessions                     listing and search, page by page

MC*                          values of the constants for TLC, and nothing else
*Proofs                      theorems: section 4
```

**TurnStore** is `Store` of `controller/ports/store.py`, read in both adapters. An operation is
an action of the same name: its guard is what the code checks, and a call the store refuses
changes nothing. A turn and its task are made together and name each other, so `task` is indexed
by turn. An event is a position and a kind of document; a message is a turn and whether it is the
question, an answer, or an answer marked failed. `events` is a set, since the adapters refuse a
position taken. The store reads no clock, so in `Spec` each call brings any time in `Times`, in
any order: what is shown of `Spec` does not depend on anybody's clock. `Endings` are the ways
the code ends a turn, and `Write` and `End` add what every caller guarantees: a turn has one
writer, which numbers upward.

**TurnContract** is the same without leases, tasks, workers and times: a conversation is answered
by one turn at a time, a turn's story only grows while it is open, and its last events, its
outcome and its one answer appear in a single step. Everything that reads the store relies on that
and on no more. `KeepsContract` is the refinement, with the mapping written in `TurnStore`.

**Worker** is one worker process. `runner[t].pc` is the await a turn's coroutine is at, and
`Interrupted` is what a cancellation does there: `_run_turn` catches it in the stream and not
before, shields the finish, and `run_task` calls `end_if_running` on the way out. Writes are
requests in `requests`. One is executed by the server at some later moment with the time its
sender gave it; its sender then goes on (`Answered`), unless it gave up (`TimeOut`) or was
cancelled, in which case the request may still be executed or lost. `Claim`, `Dispatch` and
`LoseClaim` are the claim loop, whose answer is on its way in `granted`; `Beat` and `Renew` are
the heartbeat; `BeginStop`, `DrainOver`, `EndStop`, `Crash` and `Start` are the process.

**TurnSystem** adds the server: users, the readers and the sweep (three calls each, with room in
between), and time. Now is always 0: a call that read the clock `n` ticks ago brings `-n`, and a
tick takes one from every lease, which keeps the state space finite without stopping the clock.
`grantAge` and `unheard` measure how long the claim's answer is under way and how long a runner
went on after it was asked to stop.

**Watcher** and **OpenSession** are one handler each, await by await, over `Writers`: a worker, a
user in another window and another reader. `Writers` allows all that `Worker` does to the store and asks
less of it, so what holds there does not rest on the worker: its calls come in any order, each with
the time it was sent. A renewal that comes late may so take up a lease that has lapsed since, and an end
may be numbered past documents that were given up on and never stored (`GivenUp`), which leaves a gap.
`up` is whether such calls may still come.

**AgentEngine** and **Thread**: a history is a sequence of what the model said and was told; an
engine saves it under one checkpoint a turn (Pydantic AI) or under a new one each time (LangChain).
`Thread` keeps messages with parents and checkpoints, and the turns that answer them. A client's
call checks what it read and queues later; a runner walks up to the nearest checkpoint its engine
still holds, quotes the failed answers below it, and saves round by round; `overlapped` marks that a
runner which had lost its turn saved over a checkpoint a resume took.

**Documents**, **Page**, **Stream**: texts are sequences over four kinds of code point, and a document
is written, cleaned and read back as `documents.py` does. `Page` is `agui.py` from an event to the
wire and `state.ts` from the wire to what is shown. `Stream` runs one turn through both, with the
attach, replay and retries of `client.ts`. Any append may fail, and so may the last call, after which
the runner ends the turn as failed with the parts it has by then (`Finish`, `EndsBadly`); a turn may end by
its record alone, with no event and no answer (`EndsBare`: `end_if_running`, a cancel of a queued turn). A
reader ends a turn in two calls, with `partial.py` in between: `ReaderReads` keeps in `seen` how many events
it read, and one append may land before `ReaderEnds`. No more than one: a runner writes one event at a
time, and to write another it must have renewed the lease, which makes the reader's end refused (`StillHeld`).
`read` is the events the client gave the page and `page` what the page made of them, one at a time.

**Pairings** is the credentials port's operations on one user's pairings and the devices they
linked. A claim is made once for a code, so its secret, and the device that secret becomes, are
named by the pairing: `claimed` is that the row holds the claim's hash. `Live` rows are those
before their expiry; `left` is what is left of it. `_ADD_PAIRING` is one statement and reads before
it writes, so mints at one instant do not see each other: `DeleteExpired` and `UnderTheCap` are its
reads, `InsertPairing` its write. The other operations find their row by the statement that
changes it, and are one step each. `Approval` is what an approve is answered.

**LinkPhone** adds the dialog of `LinkDialog.tsx`: `stage` is its `Stage`, `held`, `busy` and
`renewals` are its refs and state of these names, and `round` its round, which numbers the
pairings. Each call is a request and an answer that comes later, if it comes. An effect's clean-up
drops a poll when what is shown changes (`Displays`) and a mint when its round is over
(`MintDropped`); nothing drops an approve's answer, which therefore meets whatever the dialog shows
by then. A call that failed for the browser may have been executed, or be executed later (`late`).
The phone (external: its code is not in the repository) scans, claims and polls; another phone may
claim its code first. Its poll is the session route, with its two reads as two actions.

**AllowList**, **Credentials**, **Access**: the entries of the file, what makes the file refused, and
how an entry is matched with an account; the tables; and the handlers over them. A callback and a
request go through their awaits (`callback[c].pc`, `request[r].pc`), each at a process that serves
the file it read at its start, with the passes it keeps (`passed`, `RecentChecks`). The provider is
an account that says what its owner lets it say (`Accounts`). A refusal reads what to delete, and
deletes it, in two steps, as its statement's snapshot and its row locks do.

**Schema**, **WorkerApi**, **Fleet**: a database is its tables and its row of version and hash;
`db init` looks and writes under a lock. The API numbers cancels and keeps the latest `Kept`; a
process polls with a cursor. `Fleet` is the server's start (`asyncio.gather` over its workers'
starts, undone when one fails), its stop (workers first, listening still), and every worker
process's life, with signals, kills, hangs and the parent's death told by the system where it does. A
process is `forked` before it asks for that (`AsksParent`), and what its server's death finds there is not
told; `ready` is the line on its pipe, which is read though its process died since. A limit that runs
out on a worker that hangs is no fault, and on one that is only slow it is (`Outwaited`): told to stop, such
a one may still start, and stops by itself. A request that fails at a server which listens is a
fault too (`LosesTurn`, `lost`); a worker's request is otherwise answered while the server listens.

**Sessions**: each session's `updated_at` and the writes on their way with the moment they bring; a
list that pages by (`updated_at`, id) with a cursor; a search that pages through a broker whose
pages hold every agent's sessions (`OwnedData`), reading each session's messages in a later call. At
the start there may be sessions of an agent that has left the configuration since, for which a list fails.

## 3. The runs

| Run | Question | Bounds |
|---|---|---|
| `store` | Does the store keep its invariants and its contract, whatever calls come with whatever times? | 2 turns over 2 sessions of 2 workers, times 0 and 2 in any order, a lease of 1 running and 2 queued, events at 1 and 2 (an end adds one or two); symmetry |
| `system` | Does the heartbeat keep a live runner's turn its own; is a missed cancel heard; does every turn and task end? | 1 session, turn, worker and reader; lease 5, queued 2, heartbeat 1, stall 2, a call up to 1 tick under way |
| `unreliable` | And when requests time out, claims' answers and renewals are lost: are events contiguous, does a turn end? | lease 2, queued 1, no age needed: a request lost lasts as long as it likes |
| `watch` | Is a client given each event, told of an end only when there is one, and told it though nobody else looks? | 2 turns in 1 session, of which one is watched, 1 streamed event each, ends with a gap of 1 before them, calls late by up to 1 tick, re-attaching any number of times |
| `open_session` | Does a view say what runs, and never what no longer does? | 2 turns in 1 session, nothing streamed, calls late by up to 1 tick |
| `link_phone` | Does a dialog always hold the code it shows, and come to an end with it; is a phone told; do rows stay bounded; does an ended pairing link nobody? | 2 codes, cap 1, 2 wrong numbers, a life of 1 tick, 1 renewal by itself, 1 lost call, mints counted one at a time |
| `sign_in` | Does a login end in one session, in its browser, for its person, and only for one the list means? | 2 people, 2 logins, 2 callbacks, 2 browsers, 1 request, a token, a pairing, 1 process, every file of three; symmetry |
| `access` | Is nobody let in a minute after the list stopped to? | 1 person, 2 processes with two files and one restart, requests up to 1 tick long, a minute of 2 ticks |
| `thread` | Is the model told each exchange above the question once; can every finished answer be gone on from? | 3 questions, 3 turns, 1 round of tools a turn, either engine, no runner paused past its lease |
| `stream` | Does the page show what is stored, through cuts and replays; does the stored answer say what the events said, but for the last of a turn that broke; does the client stop? | 3 events before the end, where a call counts once and its result is beside, 1 retry, one kind of text |
| `fleet` | Does the fleet start and stop whole, serve only its own database, end with its server, hear cancels, hand and end turns rightly? | 2 builds, 2 commands, 2 workers, 1 turn, 2 starts, 1 fault, 2 orders, 1 cancel, 1 kept; four databases |
| `sessions` | Does a list or a search miss nothing that stood still, and is a search answered? | 4 sessions, of which one of another agent and one the search's own, pages of 2, 3 read at most, limits 0 and 2, 2 writes late by 1 |

Why the bounds are enough. Two turns are what the store's invariants relate: at most one active,
and an old turn's writer against a new turn. Two sessions and two workers are what a claim and a
purge can confuse. The lease compares by `>` and `<` only, so times before, at and past it are all
there are: 0 and 2 against leases of 1 and 2 in `store`, and every age from 0 to `MaxAge` in the
others. A turn streams one or two events; the hazards are between one event and the next and
between the last event and the end. Positions are only compared, so a gap of 1 is every gap. `MaxRunning` is 1 and there is one turn, so the limit of a
worker is met and a queue behind it is not; the theorems of section 4 are for any of both.

In `link_phone` the wrong numbers are 2 where the code has 3 and the cap 1 where it has 3: one wrong
number that is counted and one that ends the pairing, and one code in the way of the next. Two codes
are an earlier one, whose answers are late, and the one shown. `Concurrent` is 1 in the run, so the
cap is kept exactly there; the theorem is for any number of mints at once. In `sign_in` two logins
and two callbacks are every race for a login and every mix-up of two; `access` needs no second
person, but a second process and a restart with the other file. In `thread` three turns are an
answer to go on from, a failure in between, and the turn that must be told of both; in `stream` three
events are the answer's start and a text beside a call, or two texts, with the call's three events, its
result and the end on top; the theorems are for any number. `fleet` has two workers because a
failed start undoes another's, one cancel and room for one: that more cancels than are kept may go
unheard, which `HearsEveryCancel` excepts, is not reached by the run, and is covered by the theorem. In `sessions` a page of two of four sessions has a session before,
at and past each page's edge.

Deadlock is checked in `sessions`. The other configurations say `CHECK_DEADLOCK FALSE`: turns, codes,
logins and starts are used once, so an instance really runs out of things to do.

**Fairness.** `TurnSystem!Fairness`: a tick (clocks run); some request under way being executed,
timed out or lost (`REQUEST_SECONDS`); the claim's answer, the heartbeat, the renewal's answer, the
worker's `_cancel` (asyncio runs what is ready); and, of the server, the sweep that comes round and
goes on once it looked (`run_at_intervals` survives a failure). `FairWatchSpec`: the generator is run, its
wait having a timeout, and time passes; nothing is asked of the worker, another reader or the sweep.
`FairLinkSpec`: time passes, the phone polls, and the dialog polls while it shows a code, as its
timer does on a tab that is visible (`LinkDialog.tsx:295` polls on no other, so `CodeIsOver` is of a tab
somebody looks at). `Stream!Fairness`: an engine that began an answer goes on with it or fails, a
runner ends, a reader ends a gone runner's turn, the server sends what it read, the client reads
and tries again. `FleetFairness`: the awaits of the server's start and stop and of the processes
return, each having a timeout. `Sessions!Fairness`: the search's next read is answered. Nowhere is
anything asked of users, crashes, restarts, faults, the announcement of a cancel, or the claim loop; nor,
in the system of turns, of an engine, which may be silent for ever.

Every property of a run has a mutant in `PROJECT.json`: a definition headed "Mistaken" in the
modules, a plausible slip in one operation, under which TLC finds that property violated.

## 4. What is proved

Eight modules hold the theorems; `PROJECT.json` lists them. Each is of the specification TLC runs,
for any sets of sessions, turns, workers, people, processes, codes and builds, and any bounds.

**The store** (`TurnStoreProofs`), of `TurnStore!Spec`. The lemmas are about `StoreCalls`, the store's
operations at any integer time, with any lease and number: `NextCalls` is that each step of `Spec` is one, and
so are those of the modules that put callers around the store, which take the theorems from here.

- `TypeCorrect`, `StoreInvariant`, and with it `TaskFollowsTurnAlways`.
  `StoreInv` is the inductive invariant. Neither one active turn a session (`OneActiveTurn`) nor the
  agreement of turns and tasks is inductive alone: that a turn's
  session is kept (`TurnsOfKeptSessions`) is needed for a purge, which removes the turns of the
  session and must not meet a turn of no session, and types for every step.
- `TurnEndedIsLastAlways`, by `EventInv`: no event is left of a turn there is not, so a turn
  queued starts with none, and an append needs its turn active, which an ended one is not.
- `AnswerWithItsEndAlways`, by `AnswerInv`: a message is stored in its turn's session, so a purge
  removes exactly the answers of the turns it removes.
- `StoreKeepsContract`: the refinement. There is one lemma a contract action (`ShowStep`, ...,
  `ConcludeStep`), and `CallsStep` maps each store operation to one of them or to a stutter: claims,
  renewals, cancel marks and the sweep's end of a hidden session's task are invisible. What takes
  work is `answers`, a function in the contract and a sequence of messages in the store.
- `EndIsFinalAlways`, from `StoreKeepsContract` and `StoreInvariant`.

The store's safety rests on no timing: lengths may be 0 and leases shorter than heartbeats.

**The worker and the server** (`TurnSystemProofs`), of `TurnSystem!SystemSpec`:

- `EventsAreContiguousAlways`, `SystemTypesAlways`: with requests lost, late, or executed after their
  sender gave them up, an active turn's events have no gap. The invariant is `SystemShape /\ Core`: an append is under
  way only from a coroutine that sent one and has not heard, with the last number it gave
  (`PlacesInv`), and the numbers stored are those before it (`NumbersInv`).
- `SystemKeepsContract`, `SystemEndIsFinal`, `SystemStoreAlways`: the contract and the store's invariants
  hold with the callers the program has. Two things had to be shown of them, or a request executed late
  would write where the contract lets nobody write. An end is numbered past what is stored and past the one append of its turn
  that may still be under way (`LastInv`), so an append given up on cannot come after it. And a task
  that the sweep ends by itself is of a turn whose session was hidden when it looked (`OrphanInv`) and cannot
  be shown again, so that no turn somebody follows loses its task. `SystemCalls` then maps every step of users, readers,
  sweep, worker and clock to a `StoreCalls` or a stutter.
- `SystemInvAlways`, `CancelHeardInTimeAlways`: if `~Unreliable` and
  `LeaseTime > Heartbeat + 3 * MaxAge`, a live runner's lease never lapses under it, and a turn asked
  to stop streams no longer after a heartbeat and two of the longest calls. `LeaseInv` says, of each turn
  held, that its lease outlasts `Due`, the time before which it is renewed whatever is under way: one call if the
  renewal on its way names it, one call, a heartbeat and one call if that one was sent before it was
  dispatched. `HeardInv` says the same of a cancel. Run `system` satisfies both hypotheses, as the
  defaults do: a lease of 90 s, a heartbeat of 30 s, calls of 15 s at most. The bound is tight: with
  two turns, a heartbeat and calls of 1 and a lease of 4, TLC finds a runner without its lease, which
  was dispatched while a renewal of the other's was under way. `controller/core/config.py:99` asks for less (section 5).

**The client** (`ReadersProofs`), of `Watcher!WatchSpec`: `NothingSkippedAlways`, `WatchInvAlways`,
`WatchKeepsContract`.
`StoryInv` is that a turn's events have a position each, without a gap while it is active, and that its end is among
them only once it ended; `ClientInv`, that what the generator holds is the next of them. `WritersStory` shows that no writer breaks
the first, `KeepsItsPast` that none changes what was stored or adds below it, and so the client stays where it
was. That a batch has a first event, wherever the gaps are, is the least-number principle
(`LeastPosition`, by the library's `WFMin`).

**A conversation opened** (`ReadersProofs`), of `OpenSession!OpenSpec`: `NothingLapsedShownAlways`,
`ShowsWhatRunsAlways`, `OpenKeepsContract`. `OpenInv` has the store's invariant with `LatestInv`, that a session's turn at work is the
latest it began and a finished one left no question at the thread's end; `LapsedInv`, that a turn
found lapsed for good is, until it was looked at again, the one the handler means to end, and after that
ended or its session hidden; and `MomentsInv`, that where nothing was found to run under a question,
the moment of that read shows why. `Onward` and `LapsedStay` are all the proof needs of the others' steps.

**Listing and search** (`SessionsProofs`), of `Sessions!SessionsSpec`: `ListsWholeAlways`,
`FindsTheNewestAlways`, `SessionsInvAlways`, for any sizes of page and search, writes and moments.

- `PageIsFirst`: a page is the first of the sessions past its cursor, in order, and leaves out only what is below
  it. `Ranks` is that the sessions of a set are ranked from 0 without a gap, since as many are above one as
  there are ranks (an injection into a set of the same size).
- `KeptInOrder`: what a filter keeps of a page. `Kept` is a recursive function, and this is an induction over its
  argument, by a least counterexample (`LeastNumber`, `KeptExists`).
- The invariant is `ReadInv`. `Went` says of every key in hand where its session is now: where it was
  read unless it was written, not below it unless it went back, and twice in hand only then. `Behind`, that the next page begins
  below all that is in hand; and `Left`, that each session which stood still is in hand or past that
  place. `WriteKeeps` is that no write breaks `Went` or `Left`, whichever session it is of; `PageJoins` that a page joins
  what is in hand below it. A search has both of what it found, what it still has to read and the page it gathers,
  for its own agent's sessions alone; `SearchedAfterPage` is that a page's cursor, the last of all agents', and a
  search's, the last it kept, leave none of them out.

**Threads** (`ThreadProofs`), of `Thread!ThreadSpec`, for any clients, turns, questions, rounds of tool calls and
pauses of a runner: `ThreadInvAlways`, `RemembersAboveAlways`, `ConversationInvAlways`.

- The thread above a question, the nearest checkpoint the engine holds, the note of what failed below it and what
  was told are walks from a message to its parent. `WalkExists` shows that such a function exists and
  satisfies its equation, by a least counterexample; `ThreadUnfolds`, `NearestUnfolds`, `EarlierUnfolds` and `ToldUnfolds`
  are the equations, and `WalksStay` that what a walk finds depends only on what stands above, so that a new
  message, or a save under a checkpoint no answer above names, changes nothing.
- `ConversationInv` is the inductive invariant, in three layers that need each other in turn. `PlainInv` holds whatever
  happens: types, a message's parent is older and of the other role, what a call read is still so (a
  question stays a question, a failed answer that may be retried stays one), a runner asked its engine with the checkpoint and
  the note of its turn's own question. `MemoryInv`, while no runner has saved after its turn ended: every finished answer's checkpoint
  is kept, ended by that answer; of the active turn, that its checkpoint is no finished answer's, and what its runner
  holds goes on from where it began. `ShapesInv`, while moreover no resume went on with another question's turn: every history kept, and
  the one in hand, is (`Shaped`) the exchanges above a question, each once, in the thread's order. `ThreadInv` needs it of every history and not
  only of those the answers name, as a resume may go on from any that was saved last.
- The step that is hard is a resume: it takes over the history saved last, and that it is the thread above its own question,
  with an open round at the end, is `Shaped` of that history under the `mixed` mark that the model sets where it is not.

**An answer on its way to the page** (`StreamProofs`), of `Stream!Spec`, for any texts, any number of events and
tries, and any moments of failure, cuts and replays: `StoredAsStreamedAlways`, `StreamInvAlways`, `EndIsShownAlways`.

- `FoldExists`, `FoldIsOne` and `FoldAppends` are of any function that folds a step over a sequence: there is one, it is the
  only one, and what it does with an element more. `JoinedMore`, `BuiltMore` and `TextOfMore` are they of a text cleaned,
  an answer rebuilt and the text of parts.
- `RunnerInv` is of the runner and the turn. `SaysInv`: where no half of a pair was replaced, the runner's parts, cleaned, are what
  `partial_answer` builds of the log, but for the event whose write failed, the text handed over to a
  finish that failed, or parts that cannot be stored. The heart
  is `CleanedWithText`: two pieces cleaned and joined are the pieces joined and cleaned, unless an edge cuts a pair,
  and then `CleanText` leaves its mark in the log. `CallsInv` is that the call the runner is on stands open in what is
  rebuilt, with its arguments once they were written; `LogInv`, that positions grow, that an active turn's
  next one is free, and that an end in the log is the last event and the turn's; `AnswerInv`, that the answer is made of parts that say
  the log, or a text more, or all of it but the last event, whose write failed or came between a reader's
  two calls. Of `seen` nothing is needed but that it is a number.
- `ClientInv` is of the connection, the client and the page. `QueueInv` says of each event on its way which of four it is
  (`MayWait`): one end of a stretch or the stream's start, one the client had that is sent again, the document that is next after
  those it had, or the end told from the record under the position it has; at most one other stands before it. So the position at any
  moment is the last one's of the documents read (`Had`), through any cut, and `Once` is `ReadsOnce`. `PageInv` is that the
  page shows what those documents said: the whole text while the answer may grow, and how it begins after
  (`ShowsMore`, by what each kind of event does to the page). `OverInv` is of a client that was told the end.
- `ShownAndKept` puts the two together: what is shown is how the text of the log begins, and what is kept is that text, or goes on
  from it, or, of a failed answer, is a shorter beginning of it.

TLC checked `ClientInv` on every state of the run's instance before it was proved.

**Pairing** (`CredentialsProofs`: what each operation of the port does to the rows and the devices, then the dialog), of `LinkPhone!LinkSpec`, for any number of codes:

- `TableBoundedAlways`: a user's rows stay below the cap plus the mints counted for at once. The
  inductive invariant, `TableInv`, adds the rows' constraints and the type of `mint`; `CountKeepsBound`
  and `InsertKeepsBound` are the two steps of a mint, and every other step only shrinks the sum.
- `PairingsTypeOKAlways`: a claim's hash is with its pairing exactly while it is claimed, and no
  pairing is approved without its device.
- `EndedNeverLinksAlways`: `LinksOnlyLive` shows step by step that a device is made of a live pairing.
- `LinkInvAlways`, by `DialogInv`: a mint whose answer has come is over for good (`OverStays`), so no
  row is made anew under a code the dialog knows; the wrong numbers it shows, with the one whose
  answer has not come yet (`Unheard`), are at most those in the row (`TriesInv`); and an approve, a mint
  or a poll on its way belongs to the code it was asked of, so a late answer never lets go of another.

**Sign-in and access** (`CredentialsProofs`), of `Access!AccessSpec`, for any people, browsers, callbacks,
processes, files and restarts:

- `LandsWhereBegunAlways`, `SignedInOnceAlways`, by `SignInInv`: a callback past the state's check works on a
  login its own browser began (`TakenRightly`), a login is taken by one callback (`TakenOnce`), a
  cookie is of a session so made (`OwnCookies`), and a refusal saw only sessions that there were.
- `OnlyThoseMeantAlways`, by `MeantInv`: past the list there is nobody it does not mean, whatever the
  provider says of an account and whatever file the process serves.
- `WithinAMinuteAlways`, by `PassInv`: each pass a process keeps is no younger than the last moment
  its list let the user in, through ticks, restarts, sign-ins and refusals; a pass is not renewed by use.
- `AccessInvAlways`, by `TablesInv` beside those three: `TablesMove` says what a step may do to each table,
  and one lemma a table that it stays well formed. That nobody has a credential before what their sign-in
  said is kept (`RowsSaid`) needs the callbacks past the list to have claims, those past the upsert to have them
  kept, and each request to be of somebody who has (`CallsSaid`, `RequestsSaid`).

**The fleet** (`FleetProofs`), of `Fleet!FleetSpec`: `FleetInvAlways`, `EndsWithServerAlways`, `NothingLeftBehindAlways`,
`HearsEveryCancelAlways`, `HandsItsOwnAlways`, `NeverRelabelsAlways`. The invariant, `FleetInvs`, has five
parts: shapes; who holds the schema's lock, and that what it wrote is all or nothing; that the
secrets and the spawns are this start's, a worker awaited is unready or was never told to stop, and
what lives past its server was told or has not asked yet (`Orphan`: it will look); that a running turn a worker knows of is with a
live process of its start, or that process was cut, or the turn's end was asked for and failed; and that the kept cancels are the last, numbered without a gap, with what each poll heard of them.
`OneProcess` and `ProcessStep` reduce each step of a process to what it may change of one record.
TLC checked `FleetInvs` on every state of the run's instance, with two cancels, before it was proved.

**Assumptions.** Each is an `ASSUME` in the module that declares the constants, which TLC evaluates in a run.
`StoreAssumption`: `WorkerOf` is total, times are integers and lengths naturals, "turn_ended" is not a
document an engine says. `TimeAssumption`: a call brings a time at most `MaxAge` old.
`WorkerAssumption`: the heartbeat is positive and at most half the lease, as the configuration demands.
`WatchAssumption`: a turn watched is a turn; `OpenAssumption`: `Nobody` is none; `WritersAssumption`: `GivenUp` are numbers. `PairingsAssumption`, `LinkAssumption`: finitely many codes, numbered from
1, and bounds that are naturals, positive but for the renewals and the losses.
`CredentialsAssumption`, `AccessAssumption`, `AccountsAssumption`: lives are positive, a credential has one
owner, the codes are all one person's (as in `Pairings`), an account has the claims that are read and
speaks of its owner's subject, what is read of it is not `None`, and a file with known keys has entries of known matchers.
`ThreadAssumption`: the bounds are naturals. `TextsAssumption`: a text is a sequence of characters; `RetriesAssumption`:
the tries and the events are counted.
`SessionsAssumption`: the sessions are finitely many and ordered, pages and limits are positive, and `None`
is neither a key nor a cursor. `SchemaAssumption`, `WorkerApiAssumption`, `FleetAssumption`: the bounds are naturals, `None` is none of
the things it stands beside, a database is tables and a row, a configuration has a worker.

**What the proofs found.** `HearsEveryCancel` as it first stood is false once a server has died: the
numbers start again at 1, and an old process's cursor is past them. It is about the processes the
present server lets in, which is what the code promises, and says so now. The lease must
outlast a heartbeat and three calls, where two had seemed enough. To take the store's contract to
`Writers` it had to be compared with `Worker` call by call, and was narrower: its renewals were never late and
its ends never left a gap. With late renewals `NothingLapsedShown` is false of a lease
that had only just lapsed (TLC finds it with a lease of 3 and calls late by 2): the handler looks, a renewal
sent before the lapse is executed, the second look finds nothing to end, and the turn, taken up again, is rightly shown as running.
The property is about turns lapsed for good (`ForGood`): their worker is gone, or their lease
lapsed longer ago than a renewal may be under way.

**Only model-checked.** Liveness (`EveryTurnEnds`, `EveryTaskEnds`, `WatchEnds`, `LinkingEnds`, `ClientIsDone`,
`StartAndStopEnd`, `SearchAnswers`): fairness and ENABLED are beyond the prover. Every invariant and every
action property of the runs is a theorem. What a recursive function computes (a page's filter, a walk up a thread,
a text cleaned, an answer rebuilt of its events, the text of a page's parts) is proved by an
induction of its own, by a least counterexample, as the library's induction theorems take an operator and no
backend can be given one.

## 5. Where the code and its documents differ

Met while modelling; the models are of the code.

*Turns.*
- `worker/turns.py:238` says a cancellation must not lose an answer the engine handed over. After
  the first cancellation the runner waits for its finish by a bare `asyncio.wait` (`:248`); the second,
  of `Worker._drain`, leaves that wait, and `run_task`'s `end_if_running` may reach the server first.
- `src/docs/architecture/data-model.md:69` says that after a crash whoever ends the turn rebuilds its
  answer from its events. An append written while the lease held may be executed between that
  reader's two calls (`controller.py:421` and `:425`), and is then in the events and not in the answer. So
  the answer does not always say what all the events do; `StoredAsStreamed` is what is left: at most that one is missed.
- A finish that fails after the text handed over was added to the parts (`worker/turns.py:243`) is followed by an end
  as failed that keeps that text, which no event said.
- `src/docs/specs/wire.md:129` says no delta is lost. What is stored, with the runner's end, between
  `watch_turn`'s second `events_after` and its `get_turn` (`controller.py:384`) is never given to that client.
- `src/docs/architecture/controller.md:75` calls `open_session` one moment of a session. It is five
  reads (`controller.py:127` and after); `ShowsWhatRuns` is what is left of that.
- `src/docs/deployment.md:279` and `controller/core/config.py:99` ask that a heartbeat be at most half
  the lease. With a lease of 90 s, a heartbeat of 45 s and requests of 15 s that is not enough for a live
  runner to keep its turn; the shipped 30 s are.
- An engine's call with NaN among its arguments is stored and cannot be read back
  (`controller/contract/broker/documents.py:118`): no reader can then end the turn, where
  `data-model.md:122` says the next one does. `data-model.md` has a reader skip a document it cannot
  read; `load_messages` raises.
- A worker that dies before `engine.create` (`worker/worker.py:267`) leaves a session whose engine
  answers SessionNotFound from then on. An unknown model is refused after the session was added
  (`controller.py:187`) and leaves it empty.

*Threads.*
- `src/docs/specs/ui.md:107` and `agent-engines.md:181` have resume continue the answer's own turn.
  Pydantic AI's engine finds the last turn saved (`agent_engines/pydantic_ai_engine/engine.py:151`), which may be another branch's.
- A runner that lost its turn may save over the checkpoint a resume took; `overlapped` marks it.
- `worker/failures.py` says the prompt tells of every failed exchange since the last answer; a
  question with no answer, cancelled before it began, hides those above it.
- `wire.md:28` has a view's messages end at `follows`; after a regenerate or a retry they do not.

*The page.*
- `src/frontend/src/chat/state.ts:738` ends an answer once its last call is answered, and `:582` drops the
  text that the backend goes on with after it; `wire.md:56` has one message hold all, in order.
  `:635` splits a stretch of text that a replay cut.
- Text handed over only at the end of a stream is stored and not streamed. Half a surrogate at a piece's
  edge is replaced in the events and whole in the answer.

*Pairing and sign-in.*
- `src/docs/architecture/device-pairing.md:222`: a phone told of neither a user nor a pairing is one whose pairing
  is gone. The session route looks for a device first and for a claim after it (`web/app.py:802`); an
  approve between the two moves the hash, and the phone, just linked, is told its pairing is gone.
- `device-pairing.md:529` has the allow list read every minute. It is read at a start only; what is
  done every minute is the check against it.
- `device-pairing.md:515`: one refused at a sign-in loses every credential at once. The deletion's
  statement sees the rows of its snapshot (`controller/adapters/postgres/credentials.py:153`); a session made meanwhile stays, until
  its next check.
- `src/docs/specs/sign-in.md:225` says the number of pending sign-ins is capped. Nothing caps it, and
  `SignInErrorCode.BUSY` is used nowhere.

*Sessions.*
- A list fails (`web/app.py:994`) for a session whose agent left the configuration, for which
  `shared_domain/domain.py:140` otherwise provides.
- `controller/contract/ports.py:59` promises InvalidValueError for a limit out of range: 0 raises
  IndexError (`controller.py:121`) and a negative one the database's error. `rename_session` never raises it.
- `tools/sessions/search.py:10` says MAX_SESSIONS bounds what a call costs. It bounds the agent's own
  sessions; the pages gone through on the way to them are bounded by nothing. A session deleted
  between its page and its messages fails the whole search.
- A rename at the moment of a turn's end may move `updated_at` back; `NoneTwice` excepts those.

## 6. What is not modelled

- Inside a PostgreSQL transaction: statements under READ COMMITTED with row locks, the purge's
  among them. An operation is one step, but for the mints and the refusals, whose reads are apart.
  LISTEN and its wake-ups: a wait returns at any time, as its timeout allows.
- Who purges: `purge_session` is an operation of the port, and of `TurnStore`, that nothing in the program calls yet.
- A claim slow on its way to the server: it is executed when it is sent, and its answer is slow.
- Clocks that disagree: calls bring any time in `store` and late moments in `sessions`; in `system` all
  clocks are one. The order of messages by such clocks (`store.py:164`).
- What an engine does inside a turn; LangChain's summarising; `fork_session`, which answers 501.
- The worker in the server's own process; health and activity files; Ctrl-C by process group; the engines'
  own tables, which `db init` sets up after the core's (a crash in between leaves a database the server accepts).
- Same origin and local host (`Guard`), local development's mode, the prefixes of credentials, cookie
  attributes, signatures, the pruning of `RecentChecks`, the drawing of a code.
- Keep-alives of a stream; history, composer and rendering; excerpts and their wording.
- Configuration and titles, which are pure functions of a text (`titles.py` splits flags and skin
  tones, though its comment says it does not); the Android client, whose part of a pairing is in
  `LinkPhone`; scripts and deployment.

Hazards known and not watched by a property, beside those of section 5: a cancellation that comes
while a runner ends its turn by itself (`worker/worker.py:245`) is in `Worker` with no property of its own; a worker at
its maximum with more waiting (`worker.py:167`); a save lost over a resume's checkpoint
(`session_store.py:91`); `follows` against the newest message (`controller.py:129`).

## 7. Plan

1. **PostgresTurns**: `queue_turn`, `claim_tasks`, `append_event`, `finish_turn`, `end_expired_turn` and
   `purge_session` statement by statement with their row locks, implementing `TurnStore`'s actions.
2. The hazards of section 6 that no property watches, of which the worker at its maximum is the first.
