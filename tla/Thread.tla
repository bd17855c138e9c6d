------------------------------- MODULE Thread -------------------------------
(***************************************************************************)
(* One conversation: its messages, each under the one it answers, the      *)
(* turns that answer its questions, and the engine's memory of it. A       *)
(* question is sent under any message, edited, answered again, retried     *)
(* when its answer failed, or its turn resumed. The model must see the     *)
(* thread above the question: the engine remembers the turns that          *)
(* finished, and the prompt carries the ones that failed.                  *)
(*                                                                         *)
(* A client's call checks the messages it read and queues its turn later,  *)
(* when others may have run. A runner whose lease lapsed is stopped at its *)
(* next write to the store, and may still save to the engine before it.    *)
(* A message is known by its place, a turn by its.                         *)
(***************************************************************************)
EXTENDS AgentEngine, FiniteSets

CONSTANTS
  Clients,      \* the calls that may be in progress at one time
  MaxTurns,     \* bound: the turns of the conversation
  MaxQuestions, \* bound: its questions
  MaxRounds,    \* bound: the rounds of tool calls of one turn
  Pauses        \* bound: the runners that outlive their lease

ASSUME ThreadAssumption == {MaxTurns, MaxQuestions, MaxRounds, Pauses} \subseteq Nat

VARIABLES
  messages,     \* the conversation's, as they were stored
  turns,        \* its turns, as they were queued
  call,         \* each client's call: what it checked and means to queue
  runner,       \* each turn's runner
  pauses,       \* the runners that outlived their lease so far
  overlapped,   \* whether a runner saved after its turn had ended
  mixed         \* whether a resume continued the turn of another question

historyVars == <<pauses, overlapped, mixed>>

vars == <<engineVars, messages, turns, call, runner, historyVars>>

-----------------------------------------------------------------------------
(* The thread                                                              *)

NoCall == [op |-> "none", question |-> None, parent |-> None, retries |-> None, resume |-> FALSE]

NoRunner == [pc |-> "none", base |-> None, quoted |-> {}, own |-> None, history |-> <<>>]

Question(parent) ==
  [role |-> "user", parent |-> parent, failed |-> FALSE, checkpoint |-> None, turn |-> None]

Answer(t, failed, checkpoint) ==
  [role |-> "assistant", parent |-> turns[t].follows, failed |-> failed,
   checkpoint |-> checkpoint, turn |-> t]

\* A message and those above it, which are all earlier ones.
ThreadTo(m) ==
  LET thread[n \in 0..Len(messages)] ==
        IF n = None THEN {} ELSE thread[messages[n].parent] \cup {n}
  IN  thread[m]

Above(m) == ThreadTo(messages[m].parent)

\* open_session's: up from the newest message.
Shown == ThreadTo(Len(messages))

IsActive(t) == turns[t].state \in {"queued", "running"}

\* The nearest answer above that has a checkpoint: a failed one has none.
NearestCheckpoint(q) ==
  LET walk[m \in 0..Len(messages)] ==
        IF m = None THEN None
        ELSE IF messages[m].checkpoint # None THEN messages[m].checkpoint
        ELSE walk[messages[m].parent]
  IN  walk[messages[q].parent]

\* Mistaken: the failed answer above alone.
EarlierOne(q) == {m \in {messages[q].parent} \ {None} : messages[m].failed}

\* The failed answers since the last one that finished: as long as what is above is one.
Earlier(q) ==
  LET walk[m \in 0..Len(messages)] ==
        IF m # None /\ messages[m].failed THEN walk[messages[messages[m].parent].parent] \cup {m}
        ELSE {}
  IN  walk[messages[q].parent]

-----------------------------------------------------------------------------
(* The clients                                                             *)

Calls(c, made) == call' = [call EXCEPT ![c] = made]

\* start_session adds the session first, which nobody knows of yet.
StartSession(c) ==
  /\ turns = <<>> /\ call[c] = NoCall
  /\ \A d \in Clients : call[d].op # "start"
  /\ Calls(c, [NoCall EXCEPT !.op = "start"])
  /\ UNCHANGED <<engineVars, messages, turns, runner, historyVars>>

SendMessage(c, parent) == Calls(c, [NoCall EXCEPT !.op = "ask", !.parent = parent])

EditMessage(c, edited) ==
  /\ messages[edited].role = "user"
  /\ Calls(c, [NoCall EXCEPT !.op = "ask", !.parent = messages[edited].parent])

\* The route names a message of the thread shown, and means the question at or above it.
RegenerateAnswer(c, m) ==
  LET questions == {q \in Shown : q <= m /\ messages[q].role = "user"}
  IN  /\ m \in Shown
      /\ \E q \in questions :
           /\ \A other \in questions : other <= q
           /\ Calls(c, [NoCall EXCEPT !.op = "again", !.question = q])

RetryAnswer(c, m) ==
  /\ messages[m].failed
  /\ Calls(c, [NoCall EXCEPT !.op = "again", !.question = messages[m].parent, !.retries = m])

\* Only the failed answer of the latest turn.
ResumeAnswer(c, m) ==
  /\ messages[m].failed /\ messages[m].turn = Len(turns)
  /\ Calls(c, [NoCall EXCEPT !.op = "again", !.question = messages[m].parent, !.resume = TRUE])

\* A call reads the messages, and checks what it names against them.
Read(c, m) ==
  /\ call[c] = NoCall
  /\ \/ SendMessage(c, m) \/ EditMessage(c, m) \/ RegenerateAnswer(c, m)
     \/ RetryAnswer(c, m) \/ ResumeAnswer(c, m)
  /\ UNCHANGED <<engineVars, messages, turns, runner, historyVars>>

\* It queues its turn, with its question when that is new.
QueueTurn(c) ==
  LET k == call[c]
      asks == k.op \in {"start", "ask"}
  IN  /\ k # NoCall /\ Len(turns) < MaxTurns
      /\ \A t \in DOMAIN turns : ~IsActive(t)
      /\ asks => Cardinality({m \in DOMAIN messages : messages[m].role = "user"}) < MaxQuestions
      /\ messages' = IF asks THEN Append(messages, Question(k.parent)) ELSE messages
      /\ turns' = Append(turns, [state |-> "queued", create |-> k.op = "start",
                                 follows |-> IF asks THEN Len(messages) + 1 ELSE k.question,
                                 retries |-> k.retries, resume |-> k.resume])
      /\ Calls(c, NoCall)
      /\ UNCHANGED <<engineVars, runner, historyVars>>

\* It is refused: a model that is not configured, or a turn that runs. A session just added
\* stays without a message, and no other call can give it one.
Refused(c) ==
  /\ call[c].op \in {"ask", "again"}
  /\ Calls(c, NoCall)
  /\ UNCHANGED <<engineVars, messages, turns, runner, historyVars>>

-----------------------------------------------------------------------------
(* How a turn ends                                                         *)

Ends(t, answers) ==
  /\ turns' = [turns EXCEPT ![t].state = "ended"]
  /\ messages' = messages \o answers

Becomes(t, pc) == runner' = [runner EXCEPT ![t].pc = pc]

Gone(t) == runner' = [runner EXCEPT ![t] = [NoRunner EXCEPT !.pc = "gone"]]

Alive(t) == runner[t].pc \notin {"none", "gone"}

\* The user stops it: it has no answer. One that was handed over is kept.
Cancel(t) ==
  /\ IsActive(t) /\ runner[t].pc # "done"
  /\ Ends(t, <<>>)
  /\ Gone(t)
  /\ UNCHANGED <<engineVars, call, historyVars>>

\* The sweep ends it when its lease has lapsed: it waited too long, its process died, or it is
\* so slow that it does not know yet.
Lapse(t) ==
  /\ IsActive(t)
  /\ Alive(t) => pauses < Pauses
  /\ Ends(t, <<Answer(t, TRUE, None)>>)
  /\ pauses' = IF Alive(t) THEN pauses + 1 ELSE pauses
  /\ UNCHANGED <<engineVars, call, runner, overlapped, mixed>>

\* The process dies.
Crash(t) ==
  /\ Alive(t)
  /\ Gone(t)
  /\ UNCHANGED <<engineVars, messages, turns, call, historyVars>>

-----------------------------------------------------------------------------
(* The runner                                                              *)

Claim(t) ==
  /\ turns[t].state = "queued"
  /\ turns' = [turns EXCEPT ![t].state = "running"]
  /\ Becomes(t, "claimed")
  /\ UNCHANGED <<engineVars, messages, call, historyVars>>

\* The conversation's first turn makes the engine's session.
Create(t) ==
  /\ runner[t].pc = "claimed" /\ turns[t].create
  /\ CreateSession
  /\ Becomes(t, "created")
  /\ UNCHANGED <<messages, turns, call, historyVars>>

\* It reads the messages: where the engine is to continue from, and what the prompt must tell.
\* Its first write, which a turn that is over refuses, is its claim on the turn. The messages
\* stay as they are between the two.
StartMessage(t) ==
  /\ runner[t].pc = IF turns[t].create THEN "created" ELSE "claimed"
  /\ IF IsActive(t)
     THEN runner' = [runner EXCEPT ![t] = [NoRunner EXCEPT !.pc = "asked", !.own = t,
                       !.base = NearestCheckpoint(turns[t].follows),
                       !.quoted = Earlier(turns[t].follows)]]
     ELSE Gone(t)
  /\ UNCHANGED <<engineVars, messages, turns, call, historyVars>>

Saves(t, history) ==
  /\ Save(runner[t].own, history)
  /\ overlapped' = (overlapped \/ ~IsActive(t))

\* What the model is asked: the question, after the failed exchanges above it and with the
\* failed answer that is retried. Which failed answers are told of is all that is kept of it.
PromptAfterFailures(question, earlier, retried) ==
  Entry("asked", question, earlier \cup ({retried} \ {None}))

\* The engine has the session, and the checkpoint it is to begin from.
Ready(t) == runner[t].pc = "asked" /\ known /\ Holds(runner[t].base)

Partial(t) == IF turns[t].resume THEN PartialTurn(runner[t].base) ELSE {}

\* The engine begins from the checkpoint with the prompt: from nothing, when there is none.
Begin(t) ==
  LET prompt == PromptAfterFailures(turns[t].follows, runner[t].quoted, turns[t].retries)
      fresh == Append(HistoryAt(runner[t].base), prompt)
  IN  /\ Ready(t) /\ Partial(t) = {}
      /\ runner' = [runner EXCEPT ![t].pc = "streaming", ![t].history = fresh]
      /\ IF engine = "langchain" THEN Saves(t, fresh) ELSE UNCHANGED <<engineVars, overlapped>>
      /\ UNCHANGED <<messages, turns, call, pauses, mixed>>

\* On a resume it goes on with the turn it saved last; one that had finished answers again.
GoOn(t) ==
  /\ Ready(t)
  /\ \E p \in Partial(t) :
       /\ runner' = [runner EXCEPT ![t].own = p, ![t].history = saved[p],
                       ![t].pc = IF HasFinished(saved[p]) THEN "done" ELSE "streaming"]
       /\ mixed' = (mixed \/ AskedLast(saved[p]) # turns[t].follows)
  /\ UNCHANGED <<engineVars, messages, turns, call, pauses, overlapped>>

\* It tells the store of a round's calls and results, or of the answer's text, which a turn
\* that is over refuses; and saves after.
Tells(t, what, pc) ==
  /\ runner[t].pc = "streaming" /\ IsActive(t)
  /\ runner' = [runner EXCEPT ![t].pc = pc,
                  ![t].history = Append(@, Entry(what, AskedLast(runner[t].history), {}))]
  /\ UNCHANGED <<engineVars, messages, turns, call, historyVars>>

Round(t) ==
  /\ Cardinality({i \in DOMAIN runner[t].history : runner[t].history[i].what = "round"}) < MaxRounds
  /\ Tells(t, "round", "saving")

SaveRound(t) ==
  /\ runner[t].pc = "saving"
  /\ Saves(t, runner[t].history)
  /\ Becomes(t, "streaming")
  /\ UNCHANGED <<messages, turns, call, pauses, mixed>>

SaveAnswer(t) ==
  /\ runner[t].pc = "answering"
  /\ Saves(t, runner[t].history)
  /\ Becomes(t, IF engine = "langchain" THEN "answered" ELSE "done")
  /\ UNCHANGED <<messages, turns, call, pauses, mixed>>

\* LangChain's hands over the thread's latest state, whoever saved it.
Hand(t) ==
  /\ runner[t].pc = "answered"
  /\ runner' = [runner EXCEPT ![t].pc = "done", ![t].own = latest]
  /\ UNCHANGED <<engineVars, messages, turns, call, historyVars>>

\* The answer is stored with the turn's end, unless the turn is over.
Finish(t) ==
  /\ runner[t].pc = "done"
  /\ IF IsActive(t) THEN Ends(t, <<Answer(t, FALSE, runner[t].own)>>)
     ELSE UNCHANGED <<messages, turns>>
  /\ Gone(t)
  /\ UNCHANGED <<engineVars, call, historyVars>>

\* The engine raises, or refuses, or the turn is over at its next write.
Fail(t) ==
  /\ runner[t].pc \in {"asked", "streaming"}
  /\ IF IsActive(t) THEN Ends(t, <<Answer(t, TRUE, None)>>)
     ELSE UNCHANGED <<messages, turns>>
  /\ Gone(t)
  /\ UNCHANGED <<engineVars, call, historyVars>>

-----------------------------------------------------------------------------

Init ==
  /\ EngineInit
  /\ messages = <<>> /\ turns = <<>>
  /\ call = [c \in Clients |-> NoCall]
  /\ runner = [t \in 1..MaxTurns |-> NoRunner]
  /\ pauses = 0 /\ overlapped = FALSE /\ mixed = FALSE

Asking ==
  \E c \in Clients :
    \/ StartSession(c)
    \/ \E m \in DOMAIN messages : Read(c, m)
    \/ QueueTurn(c)
    \/ Refused(c)

Running ==
  \E t \in DOMAIN turns :
    \/ Cancel(t) \/ Lapse(t) \/ Crash(t)
    \/ Claim(t) \/ Create(t) \/ StartMessage(t) \/ Begin(t) \/ GoOn(t)
    \/ Round(t) \/ SaveRound(t) \/ Tells(t, "answer", "answering") \/ SaveAnswer(t) \/ Hand(t)
    \/ Finish(t) \/ Fail(t)

Next == Asking \/ Running

ThreadSpec == Init /\ [][Next]_vars

-----------------------------------------------------------------------------
(* Properties                                                              *)

\* The variables hold what they should: a message hangs under an earlier one, questions and
\* answers alternate unless a question has no answer, and only a finished answer has a
\* checkpoint.
ThreadTypeOK ==
  /\ engine \in Engines /\ known \in BOOLEAN
  /\ \A m \in DOMAIN messages :
       /\ messages[m].parent \in 0..(m - 1)
       /\ messages[m].role = "assistant" => /\ messages[messages[m].parent].role = "user"
                                           /\ messages[m].turn \in DOMAIN turns
                                           /\ messages[m].failed <=> messages[m].checkpoint = None
  /\ \A t \in DOMAIN turns : messages[turns[t].follows].role = "user"
  /\ Cardinality({t \in DOMAIN turns : IsActive(t)}) <= 1
  /\ DOMAIN call = Clients /\ pauses \in 0..Pauses

\* The answers above a message, up to the first question that got none.
Told(q) ==
  LET walk[m \in 0..Len(messages)] ==
        IF m # None /\ messages[m].role = "assistant"
        THEN walk[messages[messages[m].parent].parent] \cup {m} ELSE {}
  IN  walk[messages[q].parent]

TimesTold(a, history) ==
  Cardinality({i \in DOMAIN history :
    \/ a \in history[i].told
    \/ history[i].what = "answer" /\ history[i].question = messages[a].parent})

\* Every finished answer can be gone on from: the engine holds its checkpoint, whose history
\* ends with an answer and goes on from that of every finished answer above, whatever runs
\* failed, were cancelled or were resumed in between, on this branch or another.
\* (worker.py _run_turn's walk, the engines' partial_turn)
RemembersAbove ==
  overlapped \/
  \A a \in DOMAIN messages :
    messages[a].checkpoint # None =>
      /\ Holds(messages[a].checkpoint)
      /\ HasFinished(HistoryAt(messages[a].checkpoint))
      /\ \A b \in Above(a) : messages[b].checkpoint # None =>
           Extends(HistoryAt(messages[a].checkpoint), HistoryAt(messages[b].checkpoint))

\* The model is told of every exchange above its question once: it is in the history it goes
\* on from, or in the prompt, never in both and never in neither, whatever mix of finished and
\* failed answers the thread has, up to the first question that was cancelled.
\* (worker.py _run_turn, failures.py)
ToldOnce ==
  overlapped \/ mixed \/
  \A t \in DOMAIN turns :
    runner[t].pc = "asked" =>
      \A a \in Told(turns[t].follows) :
        /\ a # turns[t].retries
        /\ TimesTold(a, HistoryAt(runner[t].base)) + Cardinality(runner[t].quoted \cap {a}) = 1

\* What holds whenever a turn's engine has been asked: the types, and that history and note
\* together tell the exchanges above the question once each.
ThreadInv == ThreadTypeOK /\ ToldOnce
=============================================================================
