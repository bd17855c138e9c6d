-------------------------- MODULE TurnSystemProofs --------------------------
(***************************************************************************)
(* What holds of the server and its worker for any sessions, turns,        *)
(* readers, times and limits, proved: the types, that an active turn's     *)
(* events are numbered without a gap and the store's contract is kept      *)
(* whatever requests are lost or late, and, when requests are answered in  *)
(* time, that a live runner holds its turn and that a cancel is heard.     *)
(***************************************************************************)
EXTENDS TurnSystem, TurnStoreProofs

-----------------------------------------------------------------------------
(* The types, of every field                                               *)

Asking ==
  [turn : Turns, from : {"claiming", "appending"}, position : Nat,
   what : {"message_started", "piece"}, age : 0..MaxAge]

Closing ==
  [turn : Turns, from : {"finishing", "ending", "closing", "cancelling"}, position : Nat,
   what : Endings, age : 0..MaxAge]

Coroutine ==
  [pc : {"idle", "finding", "starting", "claiming", "streaming", "appending", "finishing",
         "handing", "ending", "closing", "over"},
   position : Nat, why : Reasons \cup {"none"}, stopped : BOOLEAN, quiet : 0..Stalled + 1]

WorkerShape ==
  /\ mode \in {"up", "draining", "closing", "down"}
  /\ runner \in [Turns -> Coroutine]
  /\ granted \subseteq Turns
  /\ cancelling \in [Turns -> {"none", "waiting", "ending"}]
  /\ requests \subseteq Asking \cup Closing
  /\ announced \subseteq Turns
  /\ beat \in [since : 0..Heartbeat, tasks : SUBSET Turns, age : 0..MaxAge]

Looking == [pc : {"looked", "read", "orphan"}, turn : Turns, age : 0..MaxAge]

ClockShape ==
  /\ reader \in [Readers -> {Idle} \cup Looking]
  /\ grantAge \in 0..MaxAge
  /\ unheard \in [Turns -> Nat]

SystemShape == TypeOK /\ WorkerShape /\ ClockShape

-----------------------------------------------------------------------------
(* The coroutines and their requests                                       *)

\* The places of a coroutine past all it streamed and past its finish.
Late == {"handing", "ending", "closing", "over"}

\* An append is on its way only from a coroutine that sent one and has not heard: it bears the
\* last number given. There is one of a turn at most.
AppendsOfWriters ==
  \A q \in requests : IsAppend(q) =>
    /\ runner[q.turn].pc \notin {"idle", "finding", "starting", "streaming"}
    /\ runner[q.turn].pc \in {"claiming", "appending"} => q.position = runner[q.turn].position

OneAppend ==
  \A p, q \in requests : IsAppend(p) /\ IsAppend(q) /\ p.turn = q.turn => p = q

\* An end is on its way only from a coroutine that has come to its end.
EndsOfEnders ==
  \A q \in requests : ~IsAppend(q) =>
    /\ runner[q.turn].pc \in Late \cup {"finishing"}
    /\ runner[q.turn].pc = "finishing" => q.from = "finishing"

\* A task has a coroutine only once it was claimed and dispatched, and one ever.
OneCoroutine ==
  \A t \in Turns :
    /\ turn[t].state = "none" => task[t].state = "none"
    /\ task[t].state \in {"none", "queued"} => runner[t].pc = "idle" /\ t \notin granted
    /\ t \in granted => runner[t].pc = "idle" /\ mode = "up"
    /\ mode = "down" => runner[t].pc \in {"idle", "over"}
    /\ runner[t].pc \notin Late => ~runner[t].stopped /\ cancelling[t] = "none"

PlacesInv == AppendsOfWriters /\ OneAppend /\ EndsOfEnders /\ OneCoroutine

-----------------------------------------------------------------------------
(* The numbers of an active turn's events                                  *)

NumbersInv ==
  /\ \A t \in Turns : turn[t].state = "active" =>
       /\ Contiguous(events[t])
       /\ runner[t].pc \in {"idle", "finding", "starting"} => events[t] = {}
       /\ runner[t].pc = "streaming" => Cardinality(events[t]) = runner[t].position
  /\ \A q \in requests : IsAppend(q) /\ turn[q.turn].state = "active" =>
       q.position = Cardinality(events[q.turn]) + 1

-----------------------------------------------------------------------------
(* The numbers of an end                                                   *)

\* The places from which a coroutine may come to an end that it numbers.
Ahead == {"streaming", "appending", "finishing"}

\* There it knows the last number given to what is told of its turn, or on its way to be.
GivesLast ==
  \A t \in Turns : turn[t].state = "active" /\ runner[t].pc \in Ahead =>
    /\ Cardinality(events[t]) <= runner[t].position
    /\ \A p \in requests : IsAppend(p) /\ p.turn = t => p.position <= runner[t].position

\* An end numbers its documents past all that is told and past the append still on its way.
EndsAfter ==
  \A q \in requests : ~IsAppend(q) /\ q.what.last # <<>> /\ turn[q.turn].state = "active" =>
    /\ Cardinality(events[q.turn]) < q.position
    /\ \A p \in requests : IsAppend(p) /\ p.turn = q.turn => p.position < q.position

LastInv == GivesLast /\ EndsAfter

\* A coroutine that comes to its end numbers it next to the last number it gave.
EndsNext(before, after) ==
  after.pc = "ending" /\ before.pc # "ending"
    => before.pc \in Ahead /\ after.position = before.position + 1

-----------------------------------------------------------------------------
(* Leases and cancels, while requests are answered in time                 *)

Holders == {"finding", "starting", "claiming", "streaming", "appending", "finishing"}

\* Before this the lease of t is renewed.
Due(t) ==
  IF beat.tasks = {} THEN Heartbeat - beat.since + MaxAge
  ELSE IF t \in beat.tasks THEN MaxAge - beat.age
  ELSE MaxAge - beat.age + Heartbeat + MaxAge

LeaseInv ==
  /\ \A t \in Turns : task[t].state \in {"queued", "running"} => turn[t].state = "active"
  /\ \A t \in beat.tasks : runner[t].pc # "idle"
  /\ granted = {} => grantAge = 0
  /\ \A t \in granted : Holds(t, 0) /\ task[t].lease >= LeaseTime - grantAge
  /\ \A t \in Turns : runner[t].pc \in Holders => Holds(t, 0) /\ task[t].lease > Due(t)

\* For how long the runner of t, asked to stop, may not have heard.
Unheard(t) ==
  IF beat.tasks = {} THEN MaxAge + beat.since
  ELSE IF t \in beat.tasks THEN MaxAge + Heartbeat + beat.age
  ELSE beat.age

HeardInv ==
  \A t \in Turns :
    /\ ~Alive(t) \/ t \notin asked => unheard[t] = 0
    /\ runner[t].pc \in Holders \ {"finishing"} => unheard[t] <= Unheard(t)

-----------------------------------------------------------------------------
(* What the helpers return                                                 *)

LEMMA EndsType ==
  ASSUME NEW why
  PROVE  /\ RunnerEnds(why) \in Endings /\ TaskEnds(why) \in Endings /\ Finishes \in Endings
         /\ TaskEnds(why).last = <<>>
<1>1. RunnerEnds(why) \in
        {[state |-> "interrupted", kept |-> <<"failed">>, last |-> <<"turn_ended">>],
         [state |-> "cancelled", kept |-> <<>>, last |-> <<"turn_ended">>],
         [state |-> "failed", kept |-> <<"failed">>, last |-> <<"turn_ended">>]}
  BY DEF RunnerEnds
<1>2. RunnerEnds(why) \in Endings
  BY <1>1 DEF Endings
<1>3. RunnerEnds(why) \in [state : {"interrupted", "cancelled", "failed"},
                           kept : {<<>>, <<"failed">>}, last : {<<"turn_ended">>}]
  BY <1>1
<1>4. TaskEnds(why) \in Endings /\ TaskEnds(why).last = <<>>
  BY <1>3 DEF TaskEnds, Endings
<1> QED
  BY <1>2, <1>4 DEF Finishes, Endings

LEMMA OverType == Over \in Coroutine /\ Over.pc = "over" /\ NoRunner \in Coroutine
<1>1. 0 \in 0..Stalled + 1 /\ 0 \in Nat
  BY WorkerAssumption
<1>2. NoRunner \in Coroutine
  BY <1>1 DEF NoRunner, Coroutine
<1> QED
  BY <1>2 DEF Over, Coroutine

LEMMA ToEndType ==
  ASSUME NEW r \in Coroutine, NEW why \in Reasons \cup {"none"}
  PROVE  /\ ToEnd(r, why) \in Coroutine /\ ToEnd(r, why).pc = "ending"
         /\ r.pc \in Ahead => EndsNext(r, ToEnd(r, why))
<1>1. r.position + 1 \in Nat
  BY DEF Coroutine
<1>2. ToEnd(r, why) = [r EXCEPT !.pc = "ending", !.why = why, !.position = r.position + 1]
  BY DEF ToEnd
<1> QED
  BY <1>1, <1>2 DEF Coroutine, EndsNext

LEMMA RaisedType ==
  ASSUME NEW r \in Coroutine
  PROVE  Raised(r) \in Coroutine /\ Raised(r).pc \in {"over", "closing"}
  BY OverType DEF Raised, Coroutine

\* A cancellation takes a coroutine that is alive to an end of its own.
LEMMA InterruptedType ==
  ASSUME NEW r \in Coroutine, NEW why \in Reasons
  PROVE  /\ Interrupted(r, why) \in Coroutine
         /\ r.pc \notin {"idle", "over"} => Interrupted(r, why).pc \in Late
         /\ EndsNext(r, Interrupted(r, why))
<1>1. CASE r.pc \in {"finding", "closing"}
  BY <1>1, OverType DEF Interrupted, Late, EndsNext
<1>2. CASE r.pc \in {"streaming", "appending"}
  <2>1. Interrupted(r, why) = ToEnd(r, why) /\ r.pc \in Ahead
    BY <1>2 DEF Interrupted, Ahead
  <2> QED
    BY <2>1, ToEndType DEF Late
<1>3. CASE r.pc = "finishing"
  BY <1>3 DEF Interrupted, Late, Coroutine, EndsNext
<1>4. CASE r.pc \in {"starting", "claiming", "handing", "ending"}
  BY <1>4 DEF Interrupted, Late, Coroutine, EndsNext
<1>5. CASE r.pc \in {"idle", "over"}
  BY <1>5 DEF Interrupted, EndsNext
<1> QED
  BY <1>1, <1>2, <1>3, <1>4, <1>5 DEF Coroutine

\* What it then sends is an end of its turn, from where it is.
LEMMA SentType ==
  ASSUME NEW t \in Turns, NEW before, NEW after \in Coroutine
  PROVE  /\ Sent(t, before, after) \subseteq Closing
         /\ \A q \in Sent(t, before, after) : q.turn = t /\ q.from = after.pc
         /\ Sent(t, before, after) # {} => after.pc \in {"ending", "closing"}
         /\ EndsNext(before, after) =>
              \A q \in Sent(t, before, after) : q.what.last # <<>> =>
                before.pc \in Ahead /\ q.position = before.position + 1
<1> USE TimeAssumption
<1>1. CASE after.pc = before.pc \/ after.pc \notin {"ending", "closing"}
  BY <1>1 DEF Sent
<1>2. CASE after.pc # before.pc /\ after.pc = "ending"
  <2>1. Sent(t, before, after) = {Request(t, "ending", after.position, RunnerEnds(after.why))}
    BY <1>2 DEF Sent
  <2>2. RunnerEnds(after.why) \in Endings /\ after.position \in Nat
    BY EndsType DEF Coroutine
  <2>3. Request(t, "ending", after.position, RunnerEnds(after.why)) \in Closing
    BY <2>2 DEF Request, Closing
  <2> QED
    BY <1>2, <2>1, <2>3 DEF Request, EndsNext
<1>3. CASE after.pc # before.pc /\ after.pc = "closing"
  <2>1. Sent(t, before, after) = {Request(t, "closing", 0, TaskEnds(after.why))}
    BY <1>3 DEF Sent
  <2>2. TaskEnds(after.why) \in Endings /\ TaskEnds(after.why).last = <<>>
    BY EndsType
  <2>3. Request(t, "closing", 0, TaskEnds(after.why)) \in Closing
    BY <2>2 DEF Request, Closing
  <2> QED
    BY <1>3, <2>1, <2>2, <2>3 DEF Request
<1> QED
  BY <1>1, <1>2, <1>3

\* An answer takes the coroutine on to the engine, when it is an append accepted, or to an end.
LEMMA AnsweredType ==
  ASSUME WorkerShape, NEW t \in Turns, NEW accepted \in BOOLEAN
  PROVE  /\ Answered(t, accepted) \in Coroutine
         /\ accepted /\ runner[t].pc \in {"claiming", "appending"}
              => Answered(t, accepted) = [runner[t] EXCEPT !.pc = "streaming"]
         /\ ~(accepted /\ runner[t].pc \in {"claiming", "appending"})
              => Answered(t, accepted).pc \in Late
         /\ EndsNext(runner[t], Answered(t, accepted))
<1> DEFINE r == runner[t]
<1>1. r \in Coroutine
  BY DEF WorkerShape
<1>2. CASE r.pc \in {"claiming", "appending"} /\ accepted
  BY <1>1, <1>2 DEF Answered, Coroutine, EndsNext
<1>3. CASE r.pc \in {"appending", "finishing"} /\ ~accepted /\ ~OfVisible(t)
  <2>1. Answered(t, accepted) = ToEnd(r, "none") /\ r.pc \in Ahead
    BY <1>3 DEF Answered, Ahead
  <2> QED
    BY <1>1, <1>3, <2>1, ToEndType DEF Late
<1>4. CASE r.pc \in {"handing", "ending"}
  <2>1. Answered(t, accepted) = Raised(r)
    BY <1>4 DEF Answered
  <2> QED
    BY <1>1, <1>4, <2>1, RaisedType DEF Late, EndsNext
<1>5. CASE /\ ~(r.pc \in {"claiming", "appending"} /\ accepted)
           /\ ~(r.pc \in {"appending", "finishing"} /\ ~accepted /\ ~OfVisible(t))
           /\ r.pc \notin {"handing", "ending"}
  <2>1. Answered(t, accepted) = Over
    BY <1>5 DEF Answered
  <2> QED
    BY <1>5, <2>1, OverType DEF Late, EndsNext
<1> QED
  BY <1>2, <1>3, <1>4, <1>5

LEMMA FailedType ==
  ASSUME NEW r \in Coroutine
  PROVE  Failed(r) \in Coroutine /\ Failed(r).pc \in Late /\ EndsNext(r, Failed(r))
<1>1. CASE r.pc \in {"appending", "finishing"}
  <2>1. Failed(r) = ToEnd(r, "none") /\ r.pc \in Ahead
    BY <1>1 DEF Failed, Ahead
  <2> QED
    BY <2>1, ToEndType DEF Late
<1>2. CASE r.pc = "handing"
  BY <1>2, RaisedType DEF Failed, Late, EndsNext
<1>3. CASE r.pc \notin {"appending", "finishing", "handing"}
  BY <1>3, OverType DEF Failed, Late, EndsNext
<1> QED
  BY <1>1, <1>2, <1>3

-----------------------------------------------------------------------------
(* Steps that take coroutines to their ends                                *)

\* Every coroutine stays where it is or goes to an end, its finish too, and what is sent is the
\* end of a turn whose coroutine is at its end.
Goes ==
  /\ \A t \in Turns :
       \/ /\ runner'[t].pc = runner[t].pc
          /\ runner'[t].position = runner[t].position
          /\ runner'[t].stopped = runner[t].stopped
       \/ /\ runner[t].pc \notin {"idle", "over"}
          /\ runner'[t].pc \in Late
       \/ /\ runner[t].pc = "streaming" /\ runner'[t].pc = "finishing"
          /\ runner'[t].stopped = runner[t].stopped
          /\ runner'[t].position >= runner[t].position
  /\ \A q \in requests' :
       \/ q \in requests
       \/ /\ q \in Closing
          /\ \/ runner'[q.turn].pc \in Late
             \/ runner'[q.turn].pc = "finishing" /\ q.from = "finishing"
          /\ q.what.last # <<>>
               => runner[q.turn].pc \in Ahead /\ q.position = runner[q.turn].position + 1

RunnersShape ==
  /\ runner' \in [Turns -> Coroutine]
  /\ requests' \subseteq Asking \cup Closing

LEMMA NothingGoes ==
  ASSUME WorkerShape, runner' = runner, requests' \subseteq requests
  PROVE  Goes /\ RunnersShape
  BY DEF Goes, RunnersShape, WorkerShape

\* One coroutine goes to an end.
LEMMA OneGoes ==
  ASSUME WorkerShape, NEW t \in Turns, runner[t].pc \notin {"idle", "over"},
         NEW next \in Coroutine, next.pc \in Late, EndsNext(runner[t], next),
         NEW left, left \subseteq requests,
         runner' = [runner EXCEPT ![t] = next],
         requests' = left \cup Sent(t, runner[t], next)
  PROVE  Goes /\ RunnersShape
<1>1. /\ runner'[t] = next
      /\ \A u \in Turns : u # t => runner'[u] = runner[u]
      /\ runner' \in [Turns -> Coroutine]
  BY DEF WorkerShape
<1>2. /\ Sent(t, runner[t], next) \subseteq Closing
      /\ \A q \in Sent(t, runner[t], next) :
           /\ q.turn = t
           /\ q.what.last # <<>>
                => runner[t].pc \in Ahead /\ q.position = runner[t].position + 1
  BY SentType
<1> QED
  BY <1>1, <1>2 DEF Goes, RunnersShape, WorkerShape

LEMMA InterruptGoes ==
  ASSUME WorkerShape, NEW whom, whom \subseteq Running, NEW why \in Reasons, Interrupt(whom, why)
  PROVE  /\ Goes /\ RunnersShape
         /\ \A t \in whom : runner'[t].pc \in Late
         /\ \A t \in Turns \ whom : runner'[t] = runner[t]
<1> DEFINE hit(t) == [runner[t] EXCEPT !.stopped = (why # "close") \/ @]
<1>1. \A t \in Turns : runner'[t] = IF t \in whom THEN Interrupted(hit(t), why) ELSE runner[t]
  BY DEF Interrupt
<1>2. \A t \in whom : t \in Turns /\ runner[t].pc \notin {"idle", "over"}
  BY DEF Running, Alive
<1>3. ASSUME NEW t \in whom
      PROVE  /\ runner'[t] \in Coroutine /\ runner'[t].pc \in Late
             /\ EndsNext(runner[t], runner'[t])
  <2>1. runner[t] \in Coroutine
    BY <1>2 DEF WorkerShape
  <2>2. hit(t) \in Coroutine /\ hit(t).pc = runner[t].pc /\ hit(t).position = runner[t].position
    <3>1. ((why # "close") \/ runner[t].stopped) \in BOOLEAN
      OBVIOUS
    <3> QED
      BY <2>1, <3>1 DEF Coroutine
  <2> HIDE DEF hit
  <2>3. /\ Interrupted(hit(t), why) \in Coroutine /\ Interrupted(hit(t), why).pc \in Late
        /\ EndsNext(hit(t), Interrupted(hit(t), why))
    BY <1>2, <2>2, InterruptedType
  <2>4. EndsNext(runner[t], Interrupted(hit(t), why))
    BY <2>2, <2>3 DEF EndsNext
  <2> QED
    BY <1>1, <1>2, <2>3, <2>4
<1> HIDE DEF hit
<1>4. runner' \in [Turns -> Coroutine]
  <2>1. \A t \in Turns : runner'[t] \in Coroutine
    BY <1>1, <1>3 DEF WorkerShape
  <2>2. runner' = [t \in Turns |-> runner'[t]]
    BY DEF Interrupt
  <2> QED
    BY <2>1, <2>2
<1>5. requests' = requests \cup UNION {Sent(t, runner[t], runner'[t]) : t \in whom}
  BY DEF Interrupt
<1>6. ASSUME NEW q \in requests', q \notin requests
      PROVE  /\ q \in Closing /\ runner'[q.turn].pc \in Late
             /\ q.what.last # <<>>
                  => runner[q.turn].pc \in Ahead /\ q.position = runner[q.turn].position + 1
  <2>1. PICK t \in whom : q \in Sent(t, runner[t], runner'[t])
    BY <1>5, <1>6
  <2>2. /\ q \in Closing /\ q.turn = t
        /\ q.what.last # <<>>
             => runner[t].pc \in Ahead /\ q.position = runner[t].position + 1
    BY <1>2, <1>3, <2>1, SentType
  <2> QED
    BY <1>3, <2>2
<1>7. \A t \in Turns \ whom : runner'[t] = runner[t]
  BY <1>1
<1> QED
  BY <1>2, <1>3, <1>4, <1>6, <1>7 DEF Goes, RunnersShape, WorkerShape

\* The coroutine that waited for a request goes to an end, or the one that cancels is done.
LEMMA GoOnGoes ==
  ASSUME WorkerShape, NEW q \in requests, Awaited(q), NEW next,
         q.from # "cancelling"
           => next \in Coroutine /\ next.pc \in Late /\ EndsNext(runner[q.turn], next),
         NEW left, left \subseteq requests, GoOn(q, next, left)
  PROVE  /\ Goes /\ RunnersShape
         /\ \A t \in Turns : cancelling'[t] \in {cancelling[t], "none"}
         /\ cancelling' \in [Turns -> {"none", "waiting", "ending"}]
<1>1. q.turn \in Turns
  BY DEF WorkerShape, Asking, Closing
<1>2. CASE q.from = "cancelling"
  BY <1>1, <1>2, NothingGoes DEF GoOn, WorkerShape
<1>3. CASE q.from # "cancelling"
  <2>1. runner[q.turn].pc \notin {"idle", "over"}
    BY <1>3 DEF Awaited, WorkerShape, Asking, Closing
  <2> QED
    BY <1>1, <1>3, <2>1, OneGoes DEF GoOn, WorkerShape
<1> QED
  BY <1>2, <1>3

\* An append the server accepts: its coroutine, if it still waits, goes on to stream.
LEMMA ExecuteTold ==
  ASSUME SystemShape, NEW q \in requests, Execute(q), IsAppend(q), WouldAccept(q)
  PROVE  /\ AppendEvent(q.turn, q.position, q.what, -q.age)
         /\ requests' = requests \ {q}
         /\ UNCHANGED cancelling
         /\ \/ runner[q.turn].pc # q.from /\ UNCHANGED runner
            \/ /\ runner[q.turn].pc = q.from
               /\ runner' = [runner EXCEPT ![q.turn] = [runner[q.turn] EXCEPT !.pc = "streaming"]]
<1>1. q.turn \in Turns /\ q.from \in {"claiming", "appending"}
  BY DEF SystemShape, WorkerShape, Asking, Closing, IsAppend
<1>2. AppendEvent(q.turn, q.position, q.what, -q.age)
  BY DEF Execute, Accepts
<1>3. CASE runner[q.turn].pc = q.from
  <2>1. Awaited(q)
    BY <1>3 DEF Awaited
  <2>2. Answered(q.turn, TRUE) = [runner[q.turn] EXCEPT !.pc = "streaming"]
    BY <1>1, <1>3, AnsweredType DEF SystemShape
  <2>3. GoOn(q, [runner[q.turn] EXCEPT !.pc = "streaming"], requests \ {q})
    <3>1. WouldAccept(q) = TRUE
      BY DEF WouldAccept, Accepts
    <3> QED
      BY <2>1, <2>2, <3>1 DEF Execute
  <2>4. [runner[q.turn] EXCEPT !.pc = "streaming"].pc = "streaming"
    BY <1>1 DEF SystemShape, WorkerShape, Coroutine
  <2>5. Sent(q.turn, runner[q.turn], [runner[q.turn] EXCEPT !.pc = "streaming"]) = {}
    BY <2>4 DEF Sent
  <2> QED
    BY <1>1, <1>2, <1>3, <2>3, <2>5 DEF GoOn
<1>4. CASE runner[q.turn].pc # q.from
  <2>1. ~Awaited(q)
    BY <1>1, <1>4 DEF Awaited
  <2> QED
    BY <1>2, <1>4, <2>1 DEF Execute
<1> QED
  BY <1>3, <1>4

\* Any other answer: a write refused, which changes nothing, or the end of a turn.
LEMMA ExecuteGoes ==
  ASSUME SystemShape, NEW q \in requests, Execute(q), ~(IsAppend(q) /\ WouldAccept(q))
  PROVE  /\ Goes /\ RunnersShape
         /\ \A t \in Turns : cancelling'[t] \in {cancelling[t], "none"}
         /\ cancelling' \in [Turns -> {"none", "waiting", "ending"}]
         /\ \/ UNCHANGED storeVars
            \/ /\ q \in Closing
               /\ FinishTurn(q.turn, q.what.state, -q.age, q.what.kept,
                             Numbered(q.position, q.what.last))
<1> DEFINE next == Answered(q.turn, WouldAccept(q))
<1>1. q.turn \in Turns /\ WorkerShape
  BY DEF SystemShape, WorkerShape, Asking, Closing
<1>2. WouldAccept(q) \in BOOLEAN
  BY DEF WouldAccept
<1>3. \/ UNCHANGED storeVars
      \/ /\ q \in Closing
         /\ FinishTurn(q.turn, q.what.state, -q.age, q.what.kept,
                       Numbered(q.position, q.what.last))
  BY DEF Execute, Accepts, IsAppend, SystemShape, WorkerShape, Asking
<1>4. CASE Awaited(q)
  <2>1. q.from # "cancelling"
          => ~(WouldAccept(q) /\ runner[q.turn].pc \in {"claiming", "appending"})
    <3>1. CASE IsAppend(q)
      BY <3>1
    <3>2. CASE ~IsAppend(q)
      BY <1>4, <3>2 DEF Awaited, IsAppend, SystemShape, WorkerShape, Asking, Closing
    <3> QED
      BY <3>1, <3>2
  <2>2. q.from # "cancelling"
          => next \in Coroutine /\ next.pc \in Late /\ EndsNext(runner[q.turn], next)
    BY <1>1, <1>2, <2>1, AnsweredType
  <2>3. GoOn(q, next, requests \ {q})
    BY <1>4 DEF Execute
  <2> HIDE DEF next
  <2> QED
    BY <1>1, <1>3, <1>4, <2>2, <2>3, GoOnGoes
<1>5. CASE ~Awaited(q)
  <2>1. UNCHANGED <<runner, cancelling>> /\ requests' \subseteq requests
    BY <1>5 DEF Execute
  <2> QED
    BY <1>1, <1>3, <2>1, NothingGoes DEF WorkerShape
<1> QED
  BY <1>4, <1>5

\* A step that begins nothing: coroutines go to their ends, turns and tasks to theirs.
Settles ==
  /\ Goes
  /\ \A t \in Turns :
       /\ cancelling'[t] # "none" => cancelling[t] # "none" \/ runner'[t].pc \in Late
       /\ (turn'[t].state = "none") <=> (turn[t].state = "none")
       /\ turn'[t].state = "active" => turn[t].state = "active" /\ events'[t] = events[t]
       /\ \/ task'[t].state = task[t].state
          \/ task[t].state \in {"queued", "running"} /\ task'[t].state = "done"
  /\ granted' \subseteq granted
  /\ granted' # {} => mode' = "up"
  /\ mode' = "down" => \A t \in Turns : runner'[t].pc \in {"idle", "over"}

Settled == Settles /\ TypeOK' /\ WorkerShape'

LEMMA GivenUp ==
  ASSUME SystemShape, PlacesInv, NEW q \in requests, TimeOut(q) \/ Lose(q)
  PROVE  Settled
<1>1. WorkerShape /\ TypeOK /\ q.turn \in Turns
  BY DEF SystemShape, WorkerShape, Asking, Closing
<1>2. UNCHANGED <<session, turn, task, asked, events, messages, mode, granted, announced, beat>>
  BY DEF TimeOut, Lose, storeVars
<1>3. /\ Goes /\ RunnersShape
      /\ \A t \in Turns : cancelling'[t] \in {cancelling[t], "none"}
      /\ cancelling' \in [Turns -> {"none", "waiting", "ending"}]
      /\ mode = "down" => UNCHANGED runner \/ \A t \in Turns : runner'[t].pc \in {"idle", "over"}
  <2>1. CASE TimeOut(q)
    <3>1. /\ Failed(runner[q.turn]) \in Coroutine /\ Failed(runner[q.turn]).pc \in Late
          /\ EndsNext(runner[q.turn], Failed(runner[q.turn]))
      BY <1>1, FailedType DEF WorkerShape
    <3>2. /\ Goes /\ RunnersShape
          /\ \A t \in Turns : cancelling'[t] \in {cancelling[t], "none"}
          /\ cancelling' \in [Turns -> {"none", "waiting", "ending"}]
      BY <1>1, <2>1, <3>1, GoOnGoes DEF TimeOut
    <3>3. mode = "down" => UNCHANGED runner
      <4>1. mode = "down" => runner[q.turn].pc \in {"idle", "over"}
        BY <1>1 DEF PlacesInv, OneCoroutine
      <4> QED
        BY <1>1, <2>1, <4>1 DEF TimeOut, Awaited, GoOn, WorkerShape, Asking, Closing
    <3> QED
      BY <3>2, <3>3
  <2>2. CASE Lose(q)
    BY <1>1, <2>2, NothingGoes DEF Lose, WorkerShape
  <2> QED
    BY <2>1, <2>2
<1>4. mode' = "down" => \A t \in Turns : runner'[t].pc \in {"idle", "over"}
  BY <1>2, <1>3 DEF PlacesInv, OneCoroutine
<1>5. granted' # {} => mode' = "up"
  BY <1>1, <1>2 DEF PlacesInv, OneCoroutine, WorkerShape
<1>6. TypeOK' /\ WorkerShape'
  BY <1>1, <1>2, <1>3 DEF TypeOK, WorkerShape, RunnersShape
<1>7. Settles
  BY <1>1, <1>2, <1>3, <1>4, <1>5 DEF Settles, WorkerShape
<1> QED
  BY <1>6, <1>7 DEF Settled

\* Nothing is sent and no coroutine moves.
LEMMA NobodyMoves ==
  ASSUME SystemShape, PlacesInv,
         \/ LoseClaim \/ LoseRenewal \/ BeginStop \/ EndStop \/ Start
         \/ \E t \in Turns : MissCancel(t)
  PROVE  Settled
<1>1. WorkerShape /\ TypeOK
  BY DEF SystemShape
<1>2. UNCHANGED <<session, turn, task, asked, events, messages, runner, cancelling, requests>>
  BY DEF LoseClaim, MissCancel, LoseRenewal, BeginStop, EndStop, Start, storeVars
<1>3. Goes /\ RunnersShape
  BY <1>1, <1>2, NothingGoes
<1>4. Resting(0) \in [since : 0..Heartbeat, tasks : SUBSET Turns, age : 0..MaxAge]
  BY WorkerAssumption, TimeAssumption DEF Resting
<1>5. /\ granted' \in {granted, {}}
      /\ announced' \subseteq announced
      /\ beat' \in {beat, Resting(0)}
      /\ mode' \in {mode, "draining", "down", "up"}
  BY DEF LoseClaim, MissCancel, LoseRenewal, BeginStop, EndStop, Start
<1>6. granted' # {} => mode' = "up"
  <2>1. granted # {} => mode = "up"
    BY <1>1 DEF PlacesInv, OneCoroutine, WorkerShape
  <2> QED
    BY <1>5, <2>1 DEF LoseClaim, MissCancel, LoseRenewal, BeginStop, EndStop, Start
<1>7. mode' = "down" => \A t \in Turns : runner'[t].pc \in {"idle", "over"}
  <2>1. CASE EndStop
    BY <1>2, <2>1 DEF EndStop, Running, Alive
  <2>2. CASE LoseClaim \/ (\E t \in Turns : MissCancel(t)) \/ LoseRenewal \/ BeginStop \/ Start
    <3>1. mode' = "down" => mode = "down"
      BY <2>2 DEF LoseClaim, MissCancel, LoseRenewal, BeginStop, Start
    <3> QED
      BY <1>2, <3>1 DEF PlacesInv, OneCoroutine
  <2> QED
    BY <2>1, <2>2
<1>8. TypeOK' /\ WorkerShape'
  BY <1>1, <1>2, <1>4, <1>5 DEF TypeOK, WorkerShape
<1>9. Settles
  BY <1>1, <1>2, <1>3, <1>5, <1>6, <1>7 DEF Settles, WorkerShape
<1> QED
  BY <1>8, <1>9 DEF Settled

\* A coroutine that comes to an end by itself.
LEMMA OneEnds ==
  ASSUME SystemShape, PlacesInv, NEW t \in Turns, runner[t].pc \notin {"idle", "over"},
         NEW next \in Coroutine,
         \/ next.pc \in Late
         \/ /\ runner[t].pc = "streaming" /\ next.pc = "finishing"
            /\ next.stopped = runner[t].stopped /\ next.position >= runner[t].position,
         NEW sent, sent \subseteq Closing,
         \A q \in sent :
           /\ q.turn = t /\ q.from = next.pc
           /\ q.what.last # <<>>
                => runner[t].pc \in Ahead /\ q.position = runner[t].position + 1,
         Step(t, next, sent)
  PROVE  Settled
<1>1. WorkerShape /\ TypeOK
  BY DEF SystemShape
<1>2. UNCHANGED <<session, turn, task, asked, events, messages, mode, granted, announced, beat,
                  cancelling>>
  BY DEF Step, storeVars
<1>3. /\ runner'[t] = next
      /\ \A u \in Turns : u # t => runner'[u] = runner[u]
      /\ runner' \in [Turns -> Coroutine]
      /\ requests' = requests \cup sent
  BY <1>1 DEF Step, WorkerShape
<1>4. Goes
  BY <1>3 DEF Goes
<1>5. mode # "down"
  BY DEF PlacesInv, OneCoroutine
<1>6. granted' # {} => mode' = "up"
  BY <1>1, <1>2 DEF PlacesInv, OneCoroutine, WorkerShape
<1>7. TypeOK' /\ WorkerShape'
  BY <1>1, <1>2, <1>3 DEF TypeOK, WorkerShape
<1>8. Settles
  BY <1>2, <1>4, <1>5, <1>6 DEF Settles
<1> QED
  BY <1>7, <1>8 DEF Settled

LEMMA EndsByItself ==
  ASSUME SystemShape, PlacesInv, NEW t \in Turns,
         StartFails(t) \/ EngineDone(t) \/ EngineFails(t) \/ (FindTurn(t) /\ ~OfVisible(t))
  PROVE  Settled
<1>1. runner[t] \in Coroutine
  BY DEF SystemShape, WorkerShape
<1>2. CASE StartFails(t) \/ (FindTurn(t) /\ ~OfVisible(t))
  <2>1. Step(t, Over, {}) /\ runner[t].pc \in {"starting", "finding"}
    BY <1>2 DEF StartFails, FindTurn
  <2>2. Over \in Coroutine /\ Over.pc \in Late
    BY OverType DEF Late
  <2> QED
    BY <2>1, <2>2, OneEnds
<1>3. CASE EngineFails(t)
  <2> DEFINE next == ToEnd(runner[t], "none")
             sent == Sent(t, runner[t], next)
  <2>1. Step(t, next, sent) /\ runner[t].pc = "streaming"
    BY <1>3 DEF EngineFails
  <2>2. next \in Coroutine /\ next.pc \in Late /\ EndsNext(runner[t], next)
    BY <1>1, <2>1, ToEndType DEF Late, Ahead
  <2> HIDE DEF next
  <2>3. /\ sent \subseteq Closing
        /\ \A q \in sent :
             /\ q.turn = t /\ q.from = next.pc
             /\ q.what.last # <<>>
                  => runner[t].pc \in Ahead /\ q.position = runner[t].position + 1
    BY <1>1, <2>2, SentType
  <2> HIDE DEF sent
  <2> QED
    BY <2>1, <2>2, <2>3, OneEnds
<1>4. CASE EngineDone(t)
  <2> DEFINE past == runner[t].position + 2
             next == [runner[t] EXCEPT !.pc = "finishing", !.position = past, !.quiet = 0]
             q == Request(t, "finishing", runner[t].position + 1, Finishes)
  <2>1. /\ 0 \in 0..Stalled + 1 /\ runner[t].position + 1 \in Nat
        /\ past \in Nat /\ past >= runner[t].position
    BY <1>1, WorkerAssumption DEF Coroutine
  <2> HIDE DEF past
  <2>2. /\ next \in Coroutine /\ next.pc = "finishing" /\ next.stopped = runner[t].stopped
        /\ next.position >= runner[t].position
    BY <1>1, <2>1 DEF Coroutine
  <2>3. /\ q \in Closing /\ q.turn = t /\ q.from = "finishing"
        /\ q.position = runner[t].position + 1
    BY <2>1, EndsType, TimeAssumption DEF Request, Closing
  <2>4. Step(t, next, {q}) /\ runner[t].pc = "streaming" /\ runner[t].pc \in Ahead
    BY <1>4 DEF EngineDone, Ahead, past
  <2> HIDE DEF next, q
  <2> QED
    BY <2>2, <2>3, <2>4, OneEnds
<1> QED
  BY <1>2, <1>3, <1>4

\* Those that are stopped go to their ends; one stopped before is at its end already.
LEMMA StopGoes ==
  ASSUME SystemShape, PlacesInv, NEW whom, Stop(whom)
  PROVE  /\ Goes /\ RunnersShape
         /\ \A t \in Turns : cancelling'[t] # "none"
              => cancelling[t] # "none" \/ runner'[t].pc \in Late
         /\ cancelling' \in [Turns -> {"none", "waiting", "ending"}]
         /\ \A t \in whom \cap Running : runner'[t].pc \in Late
<1> DEFINE here == whom \cap Running
           hit == {t \in here : ~runner[t].stopped}
<1>1. WorkerShape /\ here \subseteq Turns /\ hit \subseteq Running
  BY DEF SystemShape, Running
<1>2. Interrupt(hit, "cancel") /\ "cancel" \in Reasons
  BY DEF Stop, Reasons
<1>3. cancelling' = [t \in Turns |-> IF t \in here /\ cancelling[t] = "none" THEN "waiting"
                                     ELSE cancelling[t]]
  BY DEF Stop
<1>4. \A t \in here : runner[t].stopped => runner[t].pc \in Late
  BY <1>1 DEF PlacesInv, OneCoroutine
<1> HIDE DEF here
<1> DEFINE struck == hit
<1>5. /\ Goes /\ RunnersShape
      /\ \A t \in struck : runner'[t].pc \in Late
      /\ \A t \in Turns \ struck : runner'[t] = runner[t]
  BY <1>1, <1>2, InterruptGoes
<1>6. \A t \in here : runner'[t].pc \in Late
  BY <1>1, <1>4, <1>5
<1>7. \A t \in Turns : cancelling'[t] # "none" => cancelling[t] # "none" \/ runner'[t].pc \in Late
  BY <1>3, <1>6
<1>8. cancelling' \in [Turns -> {"none", "waiting", "ending"}]
  BY <1>1, <1>3 DEF WorkerShape
<1> QED
  BY <1>5, <1>6, <1>7, <1>8 DEF here

\* The heartbeat, and the process as it stops, interrupt those that run.
LEMMA SomeInterrupted ==
  ASSUME SystemShape, PlacesInv, Beat \/ DrainOver
  PROVE  Settled
<1>1. WorkerShape /\ TypeOK
  BY DEF SystemShape
<1>2. UNCHANGED <<session, turn, task, asked, events, messages, granted, cancelling, announced>>
  BY DEF Beat, DrainOver, storeVars
<1>3. ASSUME Beat PROVE Goes /\ RunnersShape
  <2> DEFINE whom == {t \in Running : runner[t].quiet > Stalled /\ ~runner[t].stopped}
  <2>1. whom \subseteq Running /\ Interrupt(whom, "stalled") /\ "stalled" \in Reasons
    BY <1>3 DEF Beat, Reasons
  <2> HIDE DEF whom
  <2> QED
    BY <1>1, <2>1, InterruptGoes
<1>4. ASSUME DrainOver PROVE Goes /\ RunnersShape
  <2>1. Interrupt(Running, "close") /\ "close" \in Reasons
    BY <1>4 DEF DrainOver, Reasons
  <2> QED
    BY <1>1, <2>1, InterruptGoes
<1>5. /\ mode' \in {mode, "closing"} /\ mode # "down"
      /\ beat' \in [since : 0..Heartbeat, tasks : SUBSET Turns, age : 0..MaxAge]
  BY <1>1, WorkerAssumption, TimeAssumption
  DEF Beat, BeatDue, DrainOver, Resting, Running, WorkerShape
<1>6. granted # {} => mode = "up"
  BY <1>1 DEF PlacesInv, OneCoroutine, WorkerShape
<1>7. granted' # {} => mode' = "up"
  BY <1>2, <1>6 DEF Beat, DrainOver
<1>8. mode' # "down"
  BY <1>5
<1>9. TypeOK' /\ WorkerShape'
  BY <1>1, <1>2, <1>3, <1>4, <1>5 DEF TypeOK, WorkerShape, RunnersShape
<1>10. Settles
  BY <1>2, <1>3, <1>4, <1>7, <1>8 DEF Settles
<1> QED
  BY <1>9, <1>10 DEF Settled

\* A cancel is heard, from its announcement or from a renewal.
LEMMA SomeStopped ==
  ASSUME SystemShape, PlacesInv, Renew \/ \E t \in Turns : HearCancel(t)
  PROVE  Settled
<1>1. WorkerShape /\ TypeOK
  BY DEF SystemShape
<1>2. PICK whom : Stop(whom)
  BY DEF Renew, HearCancel
<1>3. /\ Goes /\ RunnersShape
      /\ \A t \in Turns : cancelling'[t] # "none"
           => cancelling[t] # "none" \/ runner'[t].pc \in Late
      /\ cancelling' \in [Turns -> {"none", "waiting", "ending"}]
  BY <1>2, StopGoes
<1>4. UNCHANGED <<session, turn, asked, events, messages, mode, granted>>
  BY DEF Renew, HearCancel, RenewLeases, storeVars
<1>5. announced' \subseteq Turns
  BY <1>1 DEF Renew, HearCancel, WorkerShape
<1>6. TypeOK' /\ \A t \in Turns : task'[t].state = task[t].state
  <2>1. CASE Renew
    <3>1. /\ LeaseTime - beat.age \in Int
          /\ RenewLeases(beat.tasks, -beat.age, LeaseTime - beat.age)
      BY <1>1, <2>1, StoreAssumption, TimeAssumption DEF Renew, WorkerShape
    <3>2. TypeOK'
      BY <1>1, <3>1, RenewType
    <3>3. \A t \in Turns : task'[t].state = task[t].state
      BY <1>1, <3>1 DEF RenewLeases, TypeOK
    <3> QED
      BY <3>2, <3>3
  <2>2. CASE \E t \in Turns : HearCancel(t)
    BY <1>1, <2>2 DEF HearCancel, storeVars, TypeOK
  <2> QED
    BY <2>1, <2>2
<1>7. beat' \in [since : 0..Heartbeat, tasks : SUBSET Turns, age : 0..MaxAge]
  <2>1. Resting(0) \in [since : 0..Heartbeat, tasks : SUBSET Turns, age : 0..MaxAge]
    BY WorkerAssumption, TimeAssumption DEF Resting
  <2>2. beat' \in {beat, Resting(0)}
    BY DEF Renew, HearCancel
  <2> QED
    BY <1>1, <2>1, <2>2 DEF WorkerShape
<1>8. granted' # {} => mode' = "up"
  BY <1>1, <1>4 DEF PlacesInv, OneCoroutine, WorkerShape
<1>9. mode' = "down" => \A t \in Turns : runner'[t].pc \in {"idle", "over"}
  <2>1. ASSUME mode' = "down", NEW t \in Turns
        PROVE  runner'[t].pc \in {"idle", "over"}
    <3>1. runner[t].pc \in {"idle", "over"}
      BY <1>4, <2>1 DEF PlacesInv, OneCoroutine
    <3> QED
      BY <1>3, <3>1 DEF Goes
  <2> QED
    BY <2>1
<1>10. WorkerShape'
  BY <1>1, <1>3, <1>4, <1>5, <1>7 DEF WorkerShape, RunnersShape
<1>11. Settles
  BY <1>3, <1>4, <1>6, <1>8, <1>9 DEF Settles
<1> QED
  BY <1>6, <1>10, <1>11 DEF Settled

LEMMA CancelEnds ==
  ASSUME SystemShape, PlacesInv, NEW t \in Turns, EndCancelled(t)
  PROVE  Settled
<1> DEFINE q == Request(t, "cancelling", 0, TaskEnds("cancel"))
<1>1. WorkerShape /\ TypeOK
  BY DEF SystemShape
<1>2. UNCHANGED <<session, turn, task, asked, events, messages, mode, runner, granted, announced,
                  beat>>
  BY DEF EndCancelled, storeVars
<1>3. /\ requests' \subseteq requests \cup {q}
      /\ cancelling[t] # "none"
      /\ \A u \in Turns : cancelling'[u] # "none" => cancelling[u] # "none"
      /\ cancelling' \in [Turns -> {"none", "waiting", "ending"}]
  BY <1>1 DEF EndCancelled, WorkerShape
<1>4. q \in Closing /\ q.turn = t /\ q.what.last = <<>>
  BY EndsType, TimeAssumption DEF Request, Closing
<1> HIDE DEF q
<1>5. runner[t].pc \in Late
  BY <1>3 DEF PlacesInv, OneCoroutine
<1>6. Goes
  BY <1>2, <1>3, <1>4, <1>5 DEF Goes
<1>7. granted' # {} => mode' = "up"
  BY <1>1, <1>2 DEF PlacesInv, OneCoroutine, WorkerShape
<1>8. mode' = "down" => \A u \in Turns : runner'[u].pc \in {"idle", "over"}
  BY <1>2 DEF PlacesInv, OneCoroutine
<1>9. TypeOK' /\ WorkerShape'
  BY <1>1, <1>2, <1>3, <1>4 DEF TypeOK, WorkerShape
<1>10. Settles
  BY <1>2, <1>3, <1>6, <1>7, <1>8 DEF Settles
<1> QED
  BY <1>9, <1>10 DEF Settled

LEMMA AllDie ==
  ASSUME SystemShape, PlacesInv, Crash
  PROVE  Settled
<1>1. WorkerShape /\ TypeOK
  BY DEF SystemShape
<1>2. UNCHANGED <<session, turn, task, asked, events, messages, requests, announced>>
  BY DEF Crash, storeVars
<1>3. /\ \A t \in Turns : runner'[t] = IF Alive(t) THEN Over ELSE runner[t]
      /\ runner' \in [Turns -> Coroutine]
  BY <1>1, OverType DEF Crash, WorkerShape
<1>4. Goes /\ \A t \in Turns : runner'[t].pc \in {"idle", "over"}
  BY <1>2, <1>3, OverType DEF Goes, Alive, Late
<1>5. Resting(0) \in [since : 0..Heartbeat, tasks : SUBSET Turns, age : 0..MaxAge]
  BY WorkerAssumption, TimeAssumption DEF Resting
<1>6. TypeOK' /\ WorkerShape'
  BY <1>1, <1>2, <1>3, <1>5 DEF Crash, TypeOK, WorkerShape
<1>7. Settles
  BY <1>2, <1>4 DEF Crash, Settles
<1> QED
  BY <1>6, <1>7 DEF Settled

\* A write that is refused, or the end of a turn.
LEMMA Executed ==
  ASSUME SystemShape, PlacesInv, NEW q \in requests, Execute(q), ~(IsAppend(q) /\ WouldAccept(q))
  PROVE  Settled
<1>1. WorkerShape /\ TypeOK /\ q.turn \in Turns
  BY DEF SystemShape, WorkerShape, Asking, Closing
<1>2. UNCHANGED <<mode, granted, announced, beat>>
  BY DEF Execute
<1>3. /\ Goes /\ RunnersShape
      /\ \A t \in Turns : cancelling'[t] \in {cancelling[t], "none"}
      /\ cancelling' \in [Turns -> {"none", "waiting", "ending"}]
      /\ \/ UNCHANGED storeVars
         \/ /\ q \in Closing
            /\ FinishTurn(q.turn, q.what.state, -q.age, q.what.kept,
                          Numbered(q.position, q.what.last))
  BY ExecuteGoes
<1>4. /\ TypeOK'
      /\ \A t \in Turns :
           /\ (turn'[t].state = "none") <=> (turn[t].state = "none")
           /\ turn'[t].state = "active" => turn[t].state = "active" /\ events'[t] = events[t]
           /\ \/ task'[t].state = task[t].state
              \/ task[t].state \in {"queued", "running"} /\ task'[t].state = "done"
  <2>1. CASE UNCHANGED storeVars
    BY <1>1, <2>1 DEF storeVars, TypeOK
  <2>2. CASE /\ q \in Closing
             /\ FinishTurn(q.turn, q.what.state, -q.age, q.what.kept,
                           Numbered(q.position, q.what.last))
    <3>1. q.what \in Endings /\ q.position \in Nat
      BY <2>2 DEF Closing
    <3>2. TypeOK'
      BY <1>1, <2>2, <3>1, FinishType
    <3>3. q.what.state \notin {"none", "active"}
      BY <3>1, EndingState DEF Outcomes
    <3>4. /\ turn[q.turn].state = "active" /\ task[q.turn].state = "running"
          /\ turn' = [turn EXCEPT ![q.turn].state = q.what.state]
          /\ task' = [task EXCEPT ![q.turn].state = "done"]
          /\ \A t \in Turns : t # q.turn => events'[t] = events[t]
      BY <1>1, <2>2 DEF FinishTurn, Holds, TypeOK
    <3>5. /\ turn'[q.turn].state = q.what.state /\ task'[q.turn].state = "done"
          /\ \A t \in Turns : t # q.turn => turn'[t] = turn[t] /\ task'[t] = task[t]
      BY <1>1, <3>4 DEF TypeOK
    <3> QED
      BY <3>2, <3>3, <3>4, <3>5
  <2> QED
    BY <1>3, <2>1, <2>2
<1>5. granted' # {} => mode' = "up"
  BY <1>1, <1>2 DEF PlacesInv, OneCoroutine, WorkerShape
<1>6. mode' = "down" => \A t \in Turns : runner'[t].pc \in {"idle", "over"}
  <2>1. ASSUME mode' = "down", NEW t \in Turns
        PROVE  runner'[t].pc \in {"idle", "over"}
    <3>1. runner[t].pc \in {"idle", "over"}
      BY <1>2, <2>1 DEF PlacesInv, OneCoroutine
    <3> QED
      BY <1>3, <3>1 DEF Goes
  <2> QED
    BY <2>1
<1>7. WorkerShape'
  BY <1>1, <1>2, <1>3 DEF WorkerShape, RunnersShape
<1>8. Settles
  BY <1>2, <1>3, <1>4, <1>5, <1>6 DEF Settles
<1> QED
  BY <1>4, <1>7, <1>8 DEF Settled

\* The server's steps but the one that begins a turn: the worker's state is as it was.
LEMMA ServerSettles ==
  ASSUME SystemShape, PlacesInv,
         \/ \E s \in Sessions : UserStarts(s) \/ UserDeletes(s)
         \/ \E t \in Turns : UserCancels(t)
         \/ \E r \in Readers, t \in Turns : Look(r, t) \/ SweepLooks(r, t)
         \/ \E r \in Readers : ReadEvents(r) \/ EndTurn(r) \/ SweepEnds(r)
         \/ UNCHANGED systemVars
  PROVE  Settled
<1>1. WorkerShape /\ TypeOK /\ reader \in [Readers -> {Idle} \cup Looking]
  BY DEF SystemShape, ClockShape
<1> DEFINE WorkersSame == UNCHANGED <<mode, runner, granted, cancelling, requests, beat>>
           StoreSettles ==
             /\ TypeOK'
             /\ \A t \in Turns :
                  /\ (turn'[t].state = "none") <=> (turn[t].state = "none")
                  /\ turn'[t].state = "active"
                       => turn[t].state = "active" /\ events'[t] = events[t]
                  /\ \/ task'[t].state = task[t].state
                     \/ task[t].state \in {"queued", "running"} /\ task'[t].state = "done"
           Done == WorkersSame /\ announced' \subseteq Turns /\ StoreSettles
<1>2. ASSUME NEW s \in Sessions, UserStarts(s) \/ UserDeletes(s)
      PROVE  Done
  BY <1>1, <1>2
  DEF UserStarts, UserDeletes, AddSession, HideSession, workerVars, TypeOK, WorkerShape
<1>3. ASSUME NEW t \in Turns, UserCancels(t)
      PROVE  Done
  <2>1. RequestCancel(t) /\ WorkersSame /\ announced' \subseteq Turns
    BY <1>1, <1>3 DEF UserCancels, WorkerShape
  <2>2. TypeOK'
    BY <1>1, <2>1, CancelType
  <2>3. \/ /\ turn[t].state = "active" /\ task[t].state = "queued"
           /\ turn' = [turn EXCEPT ![t].state = "cancelled"]
           /\ task' = [task EXCEPT ![t].state = "done"] /\ events' = events
        \/ UNCHANGED <<turn, task, events>>
    BY <2>1 DEF RequestCancel
  <2>4. StoreSettles
    BY <1>1, <2>2, <2>3 DEF TypeOK
  <2> QED
    BY <2>1, <2>4
<1>4. ASSUME NEW r \in Readers,
             ReadEvents(r) \/ (\E t \in Turns : Look(r, t) \/ SweepLooks(r, t))
      PROVE  Done
  BY <1>1, <1>4 DEF ReadEvents, Look, SweepLooks, Reads, storeVars, workerVars, TypeOK, WorkerShape
<1>5. ASSUME NEW r \in Readers, EndTurn(r) \/ SweepEnds(r)
      PROVE  Done
  <2> DEFINE t == reader[r].turn
  <2>1. reader[r].pc # "idle" /\ WorkersSame /\ announced' \subseteq Turns
    BY <1>1, <1>5 DEF EndTurn, SweepEnds, workerVars, WorkerShape
  <2>2. t \in Turns
    BY <1>1, <2>1 DEF Looking, Idle
  <2>3. CASE UNCHANGED storeVars
    BY <1>1, <2>1, <2>3 DEF storeVars, TypeOK
  <2>4. CASE EndExpiredTurn(t, -reader[r].age)
    <3>1. TypeOK'
      BY <1>1, <2>2, <2>4, ExpiredType
    <3>2. /\ turn[t].state = "active" /\ task[t].state \in {"queued", "running"}
          /\ turn' = [turn EXCEPT ![t].state = "interrupted"]
          /\ task' = [task EXCEPT ![t].state = "done"] /\ events' = events
      BY <2>4 DEF EndExpiredTurn, Lapsed
    <3>3. StoreSettles
      BY <1>1, <2>2, <3>1, <3>2 DEF TypeOK
    <3> QED
      BY <2>1, <3>3
  <2>5. CASE EndExpiredTask(t, -reader[r].age)
    <3>1. /\ task[t].state \in {"queued", "running"}
          /\ task' = [task EXCEPT ![t].state = "done"]
          /\ UNCHANGED <<session, turn, asked, events, messages>>
      BY <2>5 DEF EndExpiredTask, Lapsed
    <3> QED
      BY <1>1, <2>1, <2>2, <3>1 DEF TypeOK
  <2> QED
    BY <1>5, <2>3, <2>4, <2>5 DEF EndTurn, SweepEnds
<1>6. ASSUME UNCHANGED systemVars PROVE Done
  <2>1. UNCHANGED <<session, turn, task, asked, events, messages>>
    BY <1>6 DEF systemVars, storeVars
  <2>2. WorkersSame /\ announced' = announced
    BY <1>6 DEF systemVars, workerVars
  <2> QED
    BY <1>1, <2>1, <2>2 DEF TypeOK, WorkerShape
<1> HIDE DEF Done
<1>7. Done
  BY <1>2, <1>3, <1>4, <1>5, <1>6
<1> USE DEF Done
<1>8. Goes
  BY <1>1, <1>7, NothingGoes
<1>9. granted' # {} => mode' = "up"
  BY <1>1, <1>7 DEF PlacesInv, OneCoroutine, WorkerShape
<1>10. mode' = "down" => \A t \in Turns : runner'[t].pc \in {"idle", "over"}
  BY <1>7 DEF PlacesInv, OneCoroutine
<1>11. WorkerShape'
  BY <1>1, <1>7 DEF WorkerShape
<1>12. Settles
  BY <1>7, <1>8, <1>9, <1>10 DEF Settles
<1> QED
  BY <1>7, <1>11, <1>12 DEF Settled

-----------------------------------------------------------------------------
(* What such steps keep                                                    *)

LEMMA RequestKinds ==
  \A q \in Asking \cup Closing :
    /\ q.turn \in Turns /\ q.position \in Nat
    /\ IsAppend(q) <=> q \notin Closing
    /\ IsAppend(q) <=> q \in Asking
  BY DEF Asking, Closing, IsAppend

LEMMA SettlesPlaces ==
  ASSUME SystemShape, PlacesInv, Settled
  PROVE  PlacesInv'
<1>1. /\ Settles /\ Goes
      /\ requests \subseteq Asking \cup Closing /\ requests' \subseteq Asking \cup Closing
      /\ runner' \in [Turns -> Coroutine]
      /\ cancelling \in [Turns -> {"none", "waiting", "ending"}]
  BY DEF Settled, Settles, WorkerShape, SystemShape
<1>2. \A q \in Asking \cup Closing : q.turn \in Turns /\ (IsAppend(q) <=> q \notin Closing)
  BY DEF Asking, Closing, IsAppend
<1>3. \A q \in requests' : IsAppend(q) => q \in requests
  BY <1>1, <1>2 DEF Goes
<1>4. AppendsOfWriters'
  <2> SUFFICES ASSUME NEW q \in requests', IsAppend(q)
               PROVE  /\ runner'[q.turn].pc \notin {"idle", "finding", "starting", "streaming"}
                      /\ runner'[q.turn].pc \in {"claiming", "appending"}
                           => q.position = runner'[q.turn].position
    BY DEF AppendsOfWriters
  <2>1. /\ q.turn \in Turns
        /\ runner[q.turn].pc \notin {"idle", "finding", "starting", "streaming"}
        /\ runner[q.turn].pc \in {"claiming", "appending"} => q.position = runner[q.turn].position
    BY <1>1, <1>2, <1>3 DEF PlacesInv, AppendsOfWriters
  <2> QED
    BY <1>1, <2>1 DEF Goes, Late
<1>5. OneAppend'
  BY <1>3 DEF PlacesInv, OneAppend
<1>6. EndsOfEnders'
  <2> SUFFICES ASSUME NEW q \in requests', ~IsAppend(q)
               PROVE  /\ runner'[q.turn].pc \in Late \cup {"finishing"}
                      /\ runner'[q.turn].pc = "finishing" => q.from = "finishing"
    BY DEF EndsOfEnders
  <2>1. CASE q \in requests
    <3>1. /\ q.turn \in Turns
          /\ runner[q.turn].pc \in Late \cup {"finishing"}
          /\ runner[q.turn].pc = "finishing" => q.from = "finishing"
      BY <1>1, <1>2, <2>1 DEF PlacesInv, EndsOfEnders
    <3> QED
      BY <1>1, <3>1 DEF Goes, Late
  <2>2. CASE q \notin requests
    BY <1>1, <2>2 DEF Goes, Late
  <2> QED
    BY <2>1, <2>2
<1>7. OneCoroutine'
  <2> SUFFICES ASSUME NEW t \in Turns
               PROVE  /\ turn'[t].state = "none" => task'[t].state = "none"
                      /\ task'[t].state \in {"none", "queued"}
                           => runner'[t].pc = "idle" /\ t \notin granted'
                      /\ t \in granted' => runner'[t].pc = "idle" /\ mode' = "up"
                      /\ mode' = "down" => runner'[t].pc \in {"idle", "over"}
                      /\ runner'[t].pc \notin Late => ~runner'[t].stopped /\ cancelling'[t] = "none"
    BY DEF OneCoroutine
  <2>1. /\ turn[t].state = "none" => task[t].state = "none"
        /\ task[t].state \in {"none", "queued"} => runner[t].pc = "idle" /\ t \notin granted
        /\ t \in granted => runner[t].pc = "idle" /\ mode = "up"
        /\ runner[t].pc \notin Late => ~runner[t].stopped /\ cancelling[t] = "none"
    BY DEF PlacesInv, OneCoroutine
  <2>2. \/ runner'[t].pc = runner[t].pc /\ runner'[t].stopped = runner[t].stopped
        \/ runner[t].pc \notin {"idle", "over"} /\ runner'[t].pc \in Late
        \/ /\ runner[t].pc = "streaming" /\ runner'[t].pc = "finishing"
           /\ runner'[t].stopped = runner[t].stopped
    BY <1>1 DEF Goes
  <2>3. /\ cancelling'[t] # "none" => cancelling[t] # "none" \/ runner'[t].pc \in Late
        /\ (turn'[t].state = "none") <=> (turn[t].state = "none")
        /\ \/ task'[t].state = task[t].state
           \/ task[t].state \in {"queued", "running"} /\ task'[t].state = "done"
        /\ t \in granted' => t \in granted /\ mode' = "up"
        /\ mode' = "down" => runner'[t].pc \in {"idle", "over"}
    BY <1>1 DEF Settles
  <2> QED
    BY <2>1, <2>2, <2>3 DEF Late
<1> QED
  BY <1>4, <1>5, <1>6, <1>7 DEF PlacesInv

LEMMA SettlesNumbers ==
  ASSUME SystemShape, NumbersInv, Settled
  PROVE  NumbersInv'
<1>1. /\ Settles /\ Goes
      /\ requests' \subseteq Asking \cup Closing
  BY DEF Settled, Settles, WorkerShape
<1>2. \A q \in Asking \cup Closing : q.turn \in Turns /\ (IsAppend(q) <=> q \notin Closing)
  BY DEF Asking, Closing, IsAppend
<1>3. \A q \in requests' : IsAppend(q) => q \in requests
  BY <1>1, <1>2 DEF Goes
<1>4. ASSUME NEW t \in Turns, turn'[t].state = "active"
      PROVE  /\ Contiguous(events'[t])
             /\ runner'[t].pc \in {"idle", "finding", "starting"} => events'[t] = {}
             /\ runner'[t].pc = "streaming" => Cardinality(events'[t]) = runner'[t].position
  <2>1. turn[t].state = "active" /\ events'[t] = events[t]
    BY <1>1, <1>4 DEF Settles
  <2>2. \/ runner'[t].pc = runner[t].pc /\ runner'[t].position = runner[t].position
        \/ runner'[t].pc \in Late \cup {"finishing"}
    BY <1>1 DEF Goes
  <2> QED
    BY <2>1, <2>2 DEF NumbersInv, Late
<1>5. ASSUME NEW q \in requests', IsAppend(q), turn'[q.turn].state = "active"
      PROVE  q.position = Cardinality(events'[q.turn]) + 1
  <2>1. q \in requests /\ q.turn \in Turns
    BY <1>1, <1>2, <1>3, <1>5
  <2>2. turn[q.turn].state = "active" /\ events'[q.turn] = events[q.turn]
    BY <1>1, <1>5, <2>1 DEF Settles
  <2> QED
    BY <1>5, <2>1, <2>2 DEF NumbersInv
<1> QED
  BY <1>4, <1>5 DEF NumbersInv

LEMMA SettlesLast ==
  ASSUME SystemShape, NumbersInv, LastInv, Settled
  PROVE  LastInv'
<1>1. /\ Settles /\ Goes
      /\ requests \subseteq Asking \cup Closing /\ requests' \subseteq Asking \cup Closing
      /\ runner \in [Turns -> Coroutine] /\ runner' \in [Turns -> Coroutine]
  BY DEF Settled, Settles, WorkerShape, SystemShape
<1>2. \A q \in requests' : IsAppend(q) => q \in requests
  BY <1>1, RequestKinds DEF Goes
<1>3. ASSUME NEW t \in Turns, turn'[t].state = "active"
      PROVE  /\ turn[t].state = "active" /\ events'[t] = events[t]
             /\ Cardinality(events[t]) \in Nat
             /\ runner[t].position \in Nat /\ runner'[t].position \in Nat
  BY <1>1, <1>3, FS_CardinalityType DEF Settles, NumbersInv, Contiguous, Coroutine
<1>4. GivesLast'
  <2> SUFFICES ASSUME NEW t \in Turns, turn'[t].state = "active", runner'[t].pc \in Ahead
               PROVE  /\ Cardinality(events'[t]) <= runner'[t].position
                      /\ \A p \in requests' :
                           IsAppend(p) /\ p.turn = t => p.position <= runner'[t].position
    BY DEF GivesLast
  <2>1. runner[t].pc \in Ahead /\ runner'[t].position >= runner[t].position
    BY <1>1, <1>3 DEF Goes, Ahead, Late
  <2>2. /\ Cardinality(events[t]) <= runner[t].position
        /\ \A p \in requests : IsAppend(p) /\ p.turn = t => p.position <= runner[t].position
    BY <1>3, <2>1 DEF LastInv, GivesLast
  <2>3. Cardinality(events'[t]) <= runner'[t].position
    BY <1>3, <2>1, <2>2
  <2>4. ASSUME NEW p \in requests', IsAppend(p), p.turn = t
        PROVE  p.position <= runner'[t].position
    <3>1. p.position <= runner[t].position /\ p.position \in Nat
      BY <1>1, <1>2, <2>2, <2>4, RequestKinds
    <3> QED
      BY <1>3, <2>1, <3>1
  <2> QED
    BY <2>3, <2>4
<1>5. EndsAfter'
  <2> SUFFICES ASSUME NEW q \in requests', ~IsAppend(q), q.what.last # <<>>,
                      turn'[q.turn].state = "active"
               PROVE  /\ Cardinality(events'[q.turn]) < q.position
                      /\ \A p \in requests' :
                           IsAppend(p) /\ p.turn = q.turn => p.position < q.position
    BY DEF EndsAfter
  <2>1. q.turn \in Turns
    BY <1>1, RequestKinds
  <2>2. CASE q \in requests
    BY <1>2, <1>3, <2>1, <2>2 DEF LastInv, EndsAfter
  <2>3. CASE q \notin requests
    <3>1. runner[q.turn].pc \in Ahead /\ q.position = runner[q.turn].position + 1
      BY <1>1, <2>3 DEF Goes
    <3>2. /\ Cardinality(events[q.turn]) <= runner[q.turn].position
          /\ \A p \in requests : IsAppend(p) /\ p.turn = q.turn
                => p.position <= runner[q.turn].position
      BY <1>3, <2>1, <3>1 DEF LastInv, GivesLast
    <3>3. Cardinality(events'[q.turn]) < q.position
      BY <1>3, <2>1, <3>1, <3>2
    <3>4. ASSUME NEW p \in requests', IsAppend(p), p.turn = q.turn
          PROVE  p.position < q.position
      <4>1. p.position <= runner[q.turn].position /\ p.position \in Nat
        BY <1>1, <1>2, <3>2, <3>4, RequestKinds
      <4> QED
        BY <1>3, <2>1, <3>1, <4>1
    <3> QED
      BY <3>3, <3>4
  <2> QED
    BY <2>2, <2>3
<1> QED
  BY <1>4, <1>5 DEF LastInv

-----------------------------------------------------------------------------
(* The steps that begin something                                          *)

Core == TypeOK /\ WorkerShape /\ PlacesInv /\ NumbersInv /\ LastInv

LEMMA AskCore ==
  ASSUME SystemShape, Core, NEW s \in Sessions, NEW t \in Turns, NEW newQuestion \in BOOLEAN,
         UserAsks(s, t, newQuestion)
  PROVE  Core'
<1>1. QueueTurn(s, t, newQuestion, QueuedTime) /\ QueuedTime \in Int
  BY StoreAssumption DEF UserAsks
<1>2. TypeOK'
  BY <1>1, QueueType DEF Core
<1>3. UNCHANGED <<mode, runner, granted, cancelling, requests, announced, beat>>
  BY DEF UserAsks, workerVars
<1>4. WorkerShape'
  BY <1>3 DEF Core, WorkerShape
<1>5. /\ turn[t].state = "none" /\ turn'[t].state = "active" /\ task'[t].state = "queued"
      /\ events'[t] = {}
      /\ \A u \in Turns : u # t => /\ turn'[u] = turn[u] /\ task'[u] = task[u]
                                   /\ events'[u] = events[u]
  BY <1>1 DEF QueueTurn, NoTurn, Core, TypeOK
<1>6. runner[t].pc = "idle" /\ t \notin granted
  BY <1>5 DEF Core, PlacesInv, OneCoroutine
<1>7. PlacesInv'
  <2>1. AppendsOfWriters' /\ OneAppend' /\ EndsOfEnders'
    BY <1>3 DEF Core, PlacesInv, AppendsOfWriters, OneAppend, EndsOfEnders
  <2>2. OneCoroutine'
    BY <1>3, <1>5, <1>6 DEF Core, PlacesInv, OneCoroutine
  <2> QED
    BY <2>1, <2>2 DEF PlacesInv
<1>8. NumbersInv'
  <2>1. \A q \in requests : IsAppend(q) => q.turn \in Turns /\ q.turn # t
    BY <1>6, RequestKinds DEF Core, WorkerShape, PlacesInv, AppendsOfWriters
  <2> QED
    BY <1>3, <1>5, <1>6, <2>1, NothingIsContiguous DEF Core, NumbersInv
<1>9. LastInv'
  <2>1. \A q \in requests : q.turn \in Turns /\ q.turn # t
    BY <1>6, RequestKinds
    DEF Core, WorkerShape, PlacesInv, AppendsOfWriters, EndsOfEnders, Late
  <2>2. GivesLast'
    BY <1>3, <1>5, <1>6 DEF Core, LastInv, GivesLast, Ahead
  <2>3. EndsAfter'
    BY <1>3, <1>5, <2>1 DEF Core, LastInv, EndsAfter
  <2> QED
    BY <2>2, <2>3 DEF LastInv
<1> QED
  BY <1>2, <1>4, <1>7, <1>8, <1>9 DEF Core

LEMMA ClaimCore ==
  ASSUME SystemShape, Core, Claim
  PROVE  Core'
<1>1. PICK batch \in ClaimBatches(Worker, 0, MaxRunning - Cardinality(Running)) :
        ClaimTasks(batch, LeaseTime) /\ granted' = batch
  BY DEF Claim
<1>2. batch \subseteq Turns /\ \A t \in batch : task[t].state = "queued"
  BY <1>1 DEF ClaimBatches, Claimable
<1>3. TypeOK'
  BY <1>1, ClaimType, StoreAssumption DEF Core
<1>4. UNCHANGED <<turn, events, mode, runner, cancelling, requests, announced, beat>> /\ mode = "up"
  BY <1>1 DEF Claim, ClaimTasks
<1>5. WorkerShape'
  BY <1>1, <1>2, <1>4 DEF Core, WorkerShape
<1>6. \A t \in Turns : task'[t].state = IF t \in batch THEN "running" ELSE task[t].state
  BY <1>1 DEF ClaimTasks
<1>7. PlacesInv'
  <2>1. AppendsOfWriters' /\ OneAppend' /\ EndsOfEnders'
    BY <1>4 DEF Core, PlacesInv, AppendsOfWriters, OneAppend, EndsOfEnders
  <2>2. OneCoroutine'
    BY <1>1, <1>2, <1>4, <1>6 DEF Core, PlacesInv, OneCoroutine
  <2> QED
    BY <2>1, <2>2 DEF PlacesInv
<1>8. NumbersInv' /\ LastInv'
  BY <1>4 DEF Core, NumbersInv, LastInv, GivesLast, EndsAfter
<1> QED
  BY <1>3, <1>5, <1>7, <1>8 DEF Core

LEMMA DispatchCore ==
  ASSUME SystemShape, Core, Dispatch
  PROVE  Core'
<1>1. /\ UNCHANGED <<session, turn, task, asked, events, messages, mode, cancelling, requests,
                     announced, beat>>
      /\ mode = "up" /\ granted' = {}
  BY DEF Dispatch, storeVars
<1> DEFINE found == [NoRunner EXCEPT !.pc = "finding"]
<1>2. found \in Coroutine /\ found.pc = "finding" /\ ~found.stopped
  BY OverType DEF Coroutine, NoRunner
<1> HIDE DEF found
<1>3. runner' = [t \in Turns |-> IF t \in granted THEN found ELSE runner[t]]
  BY DEF Dispatch, found
<1>4. TypeOK' /\ WorkerShape'
  BY <1>1, <1>2, <1>3 DEF Core, TypeOK, WorkerShape
<1>5. \A t \in granted :
        t \in Turns /\ runner[t].pc = "idle" /\ task[t].state \notin {"none", "queued"}
  BY DEF Core, PlacesInv, OneCoroutine, WorkerShape
<1>6. \A q \in requests : q.turn \in Turns /\ q.turn \notin granted
  <2>1. \A q \in requests : q.turn \in Turns /\ runner[q.turn].pc # "idle"
    BY RequestKinds
    DEF Core, WorkerShape, PlacesInv, AppendsOfWriters, EndsOfEnders, Late
  <2> QED
    BY <1>5, <2>1
<1>7. \A t \in Turns \ granted : runner'[t] = runner[t]
  BY <1>3
<1>8. \A t \in granted : runner'[t] = found
  BY <1>3, <1>5
<1>9. PlacesInv'
  <2>1. AppendsOfWriters' /\ OneAppend' /\ EndsOfEnders'
    BY <1>1, <1>6, <1>7 DEF Core, PlacesInv, AppendsOfWriters, OneAppend, EndsOfEnders
  <2>2. \A t \in granted : cancelling[t] = "none"
    BY <1>5 DEF Core, PlacesInv, OneCoroutine, Late
  <2>3. OneCoroutine'
    BY <1>1, <1>2, <1>5, <1>7, <1>8, <2>2 DEF Core, PlacesInv, OneCoroutine
  <2> QED
    BY <2>1, <2>3 DEF PlacesInv
<1>10. NumbersInv'
  BY <1>1, <1>2, <1>5, <1>6, <1>7, <1>8 DEF Core, NumbersInv
<1>11. LastInv'
  <2>1. GivesLast'
    BY <1>1, <1>2, <1>7, <1>8 DEF Core, LastInv, GivesLast, Ahead
  <2>2. EndsAfter'
    BY <1>1 DEF Core, LastInv, EndsAfter
  <2> QED
    BY <2>1, <2>2 DEF LastInv
<1> QED
  BY <1>4, <1>9, <1>10, <1>11 DEF Core

\* A coroutine goes on towards its stream, or in it, by an append of the next number.
LEMMA OneGoesOn ==
  ASSUME SystemShape, Core, NEW t \in Turns, NEW next \in Coroutine, ~next.stopped, NEW sent,
         \/ runner[t].pc = "finding" /\ next.pc = "starting" /\ sent = {}
         \/ /\ \/ runner[t].pc = "starting" /\ next.position = 1
               \/ runner[t].pc = "streaming" /\ next.position = runner[t].position + 1
            /\ next.pc \in {"claiming", "appending"}
            /\ \E q \in Asking : sent = {q} /\ q.turn = t /\ q.position = next.position,
         Step(t, next, sent)
  PROVE  Core'
<1>1. UNCHANGED <<session, turn, task, asked, events, messages, mode, granted, announced, beat,
                  cancelling>>
  BY DEF Step, storeVars
<1>2. /\ runner'[t] = next
      /\ \A u \in Turns : u # t => runner'[u] = runner[u]
      /\ runner' \in [Turns -> Coroutine]
      /\ requests' = requests \cup sent
  BY DEF Step, Core, WorkerShape
<1>3. sent \subseteq Asking /\ \A q \in sent : q.turn = t /\ q.position = next.position
  OBVIOUS
<1>4. TypeOK' /\ WorkerShape'
  BY <1>1, <1>2, <1>3 DEF Core, TypeOK, WorkerShape
<1>5. \A q \in requests : q.turn \in Turns /\ q.turn # t
  BY RequestKinds DEF Core, WorkerShape, PlacesInv, AppendsOfWriters, EndsOfEnders, Late
<1>6. \A q \in sent : IsAppend(q) /\ next.pc \in {"claiming", "appending"}
  BY <1>3, RequestKinds
<1>7. AppendsOfWriters'
  BY <1>2, <1>3, <1>5, <1>6 DEF Core, PlacesInv, AppendsOfWriters
<1>8. OneAppend'
  BY <1>2, <1>3, <1>5 DEF Core, PlacesInv, OneAppend
<1>9. EndsOfEnders'
  BY <1>2, <1>5, <1>6 DEF Core, PlacesInv, EndsOfEnders
<1>10. OneCoroutine'
  <2>1. /\ task[t].state \notin {"none", "queued"} /\ t \notin granted /\ mode # "down"
        /\ cancelling[t] = "none"
    BY DEF Core, PlacesInv, OneCoroutine, Late
  <2> QED
    BY <1>1, <1>2, <2>1 DEF Core, PlacesInv, OneCoroutine
<1>11. NumbersInv'
  <2>1. turn[t].state = "active" =>
          /\ Contiguous(events[t])
          /\ next.pc = "starting" => events[t] = {}
          /\ next.pc # "starting" => next.position = Cardinality(events[t]) + 1
    <3> SUFFICES ASSUME turn[t].state = "active"
                 PROVE  /\ Contiguous(events[t])
                        /\ next.pc = "starting" => events[t] = {}
                        /\ next.pc # "starting" => next.position = Cardinality(events[t]) + 1
      OBVIOUS
    <3>1. /\ Contiguous(events[t])
          /\ runner[t].pc \in {"finding", "starting"} => events[t] = {}
          /\ runner[t].pc = "streaming" => Cardinality(events[t]) = runner[t].position
      BY DEF Core, NumbersInv
    <3>2. events[t] = {} => Cardinality(events[t]) = 0
      BY NothingIsContiguous
    <3>3. CASE runner[t].pc = "finding" /\ next.pc = "starting"
      BY <3>1, <3>3
    <3>4. CASE runner[t].pc = "starting" /\ next.position = 1 /\ next.pc # "starting"
      BY <3>1, <3>2, <3>4
    <3>5. CASE /\ runner[t].pc = "streaming" /\ next.position = runner[t].position + 1
               /\ next.pc # "starting"
      BY <3>1, <3>5
    <3> QED
      BY <3>3, <3>4, <3>5
  <2> QED
    BY <1>1, <1>2, <1>3, <1>5, <1>6, <2>1 DEF Core, NumbersInv
<1>12. LastInv'
  <2>1. ASSUME turn[t].state = "active", next.pc \in Ahead
        PROVE  Cardinality(events[t]) <= next.position
    <3>1. Cardinality(events[t]) \in Nat /\ (events[t] = {} => Cardinality(events[t]) = 0)
      BY <2>1, FS_CardinalityType, NothingIsContiguous DEF Core, NumbersInv, Contiguous
    <3>2. CASE runner[t].pc = "starting" /\ next.position = 1
      BY <2>1, <3>1, <3>2 DEF Core, NumbersInv
    <3>3. CASE runner[t].pc = "streaming" /\ next.position = runner[t].position + 1
      <4>1. Cardinality(events[t]) = runner[t].position
        BY <2>1, <3>3 DEF Core, NumbersInv
      <4> QED
        BY <3>1, <3>3, <4>1
    <3> QED
      BY <2>1, <3>2, <3>3 DEF Ahead
  <2>2. next.position \in Nat
    BY DEF Coroutine
  <2>3. GivesLast'
    <3> SUFFICES ASSUME NEW u \in Turns, turn'[u].state = "active", runner'[u].pc \in Ahead
                 PROVE  /\ Cardinality(events'[u]) <= runner'[u].position
                        /\ \A p \in requests' :
                             IsAppend(p) /\ p.turn = u => p.position <= runner'[u].position
      BY DEF GivesLast
    <3>1. CASE u = t
      BY <1>1, <1>2, <1>3, <1>5, <2>1, <2>2, <3>1
    <3>2. CASE u # t
      BY <1>1, <1>2, <1>3, <3>2 DEF Core, LastInv, GivesLast
    <3> QED
      BY <3>1, <3>2
  <2>4. EndsAfter'
    BY <1>1, <1>2, <1>3, <1>5, <1>6 DEF Core, LastInv, EndsAfter
  <2> QED
    BY <2>3, <2>4 DEF LastInv
<1> QED
  BY <1>4, <1>7, <1>8, <1>9, <1>10, <1>11, <1>12 DEF Core, PlacesInv

LEMMA GoesOnCore ==
  ASSUME SystemShape, Core, NEW t \in Turns,
         (FindTurn(t) /\ OfVisible(t)) \/ StartTurn(t) \/ EngineSays(t)
  PROVE  Core'
<1>1. runner[t] \in Coroutine
  BY DEF Core, WorkerShape
<1>2. runner[t].pc \notin Late => ~runner[t].stopped
  BY DEF Core, PlacesInv, OneCoroutine
<1>3. CASE FindTurn(t) /\ OfVisible(t)
  <2> DEFINE next == [runner[t] EXCEPT !.pc = "starting"]
  <2>1. Step(t, next, {}) /\ runner[t].pc = "finding"
    BY <1>3 DEF FindTurn
  <2>2. next \in Coroutine /\ next.pc = "starting" /\ ~next.stopped
    BY <1>1, <1>2, <2>1 DEF Coroutine, Late
  <2> HIDE DEF next
  <2> QED
    BY <2>1, <2>2, OneGoesOn
<1>4. CASE StartTurn(t)
  <2> DEFINE next == [runner[t] EXCEPT !.pc = "claiming", !.position = 1]
             q == Request(t, "claiming", 1, "message_started")
  <2>1. Step(t, next, {q}) /\ runner[t].pc = "starting"
    BY <1>4 DEF StartTurn
  <2>2. next \in Coroutine /\ next.pc = "claiming" /\ ~next.stopped /\ next.position = 1
    BY <1>1, <1>2, <2>1 DEF Coroutine, Late
  <2>3. q \in Asking /\ q.turn = t /\ q.position = 1
    BY TimeAssumption DEF Request, Asking
  <2> HIDE DEF next, q
  <2> QED
    BY <2>1, <2>2, <2>3, OneGoesOn
<1>5. CASE EngineSays(t)
  <2> DEFINE n == runner[t].position + 1
             next == [runner[t] EXCEPT !.pc = "appending", !.position = n, !.quiet = 0]
             q == Request(t, "appending", n, "piece")
  <2>1. Step(t, next, {q}) /\ runner[t].pc = "streaming"
    BY <1>5 DEF EngineSays
  <2>2. n \in Nat /\ 0 \in 0..Stalled + 1
    BY <1>1, WorkerAssumption DEF Coroutine
  <2> HIDE DEF n
  <2>3. next \in Coroutine /\ next.pc = "appending" /\ ~next.stopped /\ next.position = n
    BY <1>1, <1>2, <2>1, <2>2 DEF Coroutine, Late
  <2>4. q \in Asking /\ q.turn = t /\ q.position = n
    BY <2>2, TimeAssumption DEF Request, Asking
  <2> HIDE DEF next, q
  <2> QED
    BY <2>1, <2>3, <2>4, OneGoesOn DEF n
<1> QED
  BY <1>3, <1>4, <1>5

\* The number of an accepted append is the next, so its turn's events stay without a gap.
LEMMA ToldCore ==
  ASSUME SystemShape, Core, NEW q \in requests, Execute(q), IsAppend(q), WouldAccept(q)
  PROVE  Core'
<1> DEFINE t == q.turn
           e == [position |-> q.position, document |-> q.what]
<1>1. /\ AppendEvent(t, q.position, q.what, -q.age)
      /\ requests' = requests \ {q}
      /\ UNCHANGED cancelling
      /\ \/ runner[t].pc # q.from /\ UNCHANGED runner
         \/ /\ runner[t].pc = q.from
            /\ runner' = [runner EXCEPT ![t] = [runner[t] EXCEPT !.pc = "streaming"]]
  BY ExecuteTold
<1>2. UNCHANGED <<mode, granted, announced, beat>>
  BY DEF Execute
<1>3. q \in Asking /\ t \in Turns /\ q.position \in Nat /\ q.what \in Documents
  BY RequestKinds, WorkerAssumption DEF Core, WorkerShape, Asking, Documents
<1>4. TypeOK'
  BY <1>1, <1>3, AppendType DEF Core
<1>5. /\ turn[t].state = "active" /\ UNCHANGED <<turn, task>>
      /\ events'[t] = events[t] \cup {e}
      /\ \A u \in Turns : u # t => events'[u] = events[u]
  BY <1>1, <1>3 DEF AppendEvent, Holds, Core, TypeOK
<1>6. /\ runner' \in [Turns -> Coroutine]
      /\ \A u \in Turns : u # t => runner'[u] = runner[u]
      /\ \/ runner'[t] = runner[t] /\ runner[t].pc # q.from
         \/ /\ runner[t].pc \in {"claiming", "appending"}
            /\ runner'[t].pc = "streaming" /\ runner'[t].position = runner[t].position
            /\ runner'[t].stopped = runner[t].stopped
  BY <1>1, <1>3 DEF Core, WorkerShape, Coroutine, Asking
<1>7. WorkerShape'
  BY <1>1, <1>2, <1>6 DEF Core, WorkerShape
<1>8. \A p \in requests' : p \in requests /\ p.turn \in Turns /\ (IsAppend(p) => p.turn # t)
  BY <1>1, RequestKinds DEF Core, WorkerShape, PlacesInv, OneAppend
<1>9. \A p \in requests :
        ~IsAppend(p) /\ p.turn = t => runner[t].pc \notin {"claiming", "appending"}
  BY DEF Core, PlacesInv, EndsOfEnders, Late
<1>10. AppendsOfWriters'
  BY <1>6, <1>8 DEF Core, PlacesInv, AppendsOfWriters
<1>11. OneAppend'
  BY <1>8 DEF Core, PlacesInv, OneAppend
<1>12. EndsOfEnders'
  BY <1>6, <1>8, <1>9 DEF Core, PlacesInv, EndsOfEnders
<1>13. OneCoroutine'
  BY <1>1, <1>2, <1>5, <1>6 DEF Core, PlacesInv, OneCoroutine, Late
<1>14. NumbersInv' /\ Cardinality(events'[t]) = q.position
  <2>1. /\ Contiguous(events[t]) /\ q.position = Cardinality(events[t]) + 1
        /\ runner[t].pc \in {"claiming", "appending"} => q.position = runner[t].position
        /\ runner[t].pc \notin {"idle", "finding", "starting", "streaming"}
    BY <1>3, <1>5 DEF Core, NumbersInv, PlacesInv, AppendsOfWriters
  <2>2. Contiguous(events'[t]) /\ Cardinality(events'[t]) = q.position
    <3>1. e = [position |-> Cardinality(events[t]) + 1, document |-> q.what]
      BY <2>1
    <3> HIDE DEF e
    <3>2. Contiguous(events[t] \cup {e}) /\ Cardinality(events[t] \cup {e}) = q.position
      BY <2>1, <3>1, NextIsContiguous
    <3> QED
      BY <1>5, <3>2
  <2>3. ASSUME NEW u \in Turns, turn'[u].state = "active"
        PROVE  /\ Contiguous(events'[u])
               /\ runner'[u].pc \in {"idle", "finding", "starting"} => events'[u] = {}
               /\ runner'[u].pc = "streaming" => Cardinality(events'[u]) = runner'[u].position
    <3>1. CASE u = t
      BY <1>6, <2>1, <2>2, <3>1
    <3>2. CASE u # t
      BY <1>5, <1>6, <2>3, <3>2 DEF Core, NumbersInv
    <3> QED
      BY <3>1, <3>2
  <2>4. ASSUME NEW p \in requests', IsAppend(p), turn'[p.turn].state = "active"
        PROVE  p.position = Cardinality(events'[p.turn]) + 1
    BY <1>5, <1>8, <2>4 DEF Core, NumbersInv
  <2>5. NumbersInv'
    BY <2>3, <2>4 DEF NumbersInv
  <2> QED
    BY <2>2, <2>5
<1>15. LastInv'
  <2>1. \A p \in requests' : IsAppend(p) => p.turn # t
    BY <1>8
  <2>2. GivesLast'
    <3> SUFFICES ASSUME NEW u \in Turns, turn'[u].state = "active", runner'[u].pc \in Ahead
                 PROVE  /\ Cardinality(events'[u]) <= runner'[u].position
                        /\ \A p \in requests' :
                             IsAppend(p) /\ p.turn = u => p.position <= runner'[u].position
      BY DEF GivesLast
    <3>1. CASE u = t
      <4>1. q.position <= runner'[t].position
        <5>1. CASE runner'[t] = runner[t]
          BY <1>5, <3>1, <5>1 DEF Core, LastInv, GivesLast
        <5>2. CASE /\ runner[t].pc \in {"claiming", "appending"}
                   /\ runner'[t].position = runner[t].position
          <6>1. q.position = runner[t].position
            BY <5>2 DEF Core, PlacesInv, AppendsOfWriters
          <6> QED
            BY <1>3, <5>2, <6>1
        <5> QED
          BY <1>6, <5>1, <5>2
      <4> QED
        BY <1>14, <2>1, <3>1, <4>1
    <3>2. CASE u # t
      BY <1>5, <1>6, <1>8, <3>2 DEF Core, LastInv, GivesLast
    <3> QED
      BY <3>1, <3>2
  <2>3. EndsAfter'
    <3> SUFFICES ASSUME NEW p \in requests', ~IsAppend(p), p.what.last # <<>>,
                        turn'[p.turn].state = "active"
                 PROVE  /\ Cardinality(events'[p.turn]) < p.position
                        /\ \A o \in requests' :
                             IsAppend(o) /\ o.turn = p.turn => o.position < p.position
      BY DEF EndsAfter
    <3>1. /\ p \in requests /\ p.turn \in Turns
          /\ Cardinality(events[p.turn]) < p.position
          /\ \A o \in requests : IsAppend(o) /\ o.turn = p.turn => o.position < p.position
      BY <1>5, <1>8 DEF Core, LastInv, EndsAfter
    <3>2. CASE p.turn = t
      BY <1>14, <2>1, <3>1, <3>2
    <3>3. CASE p.turn # t
      BY <1>5, <1>8, <3>1, <3>3
    <3> QED
      BY <3>2, <3>3
  <2> QED
    BY <2>2, <2>3 DEF LastInv
<1> QED
  BY <1>4, <1>7, <1>10, <1>11, <1>12, <1>13, <1>14, <1>15 DEF Core, PlacesInv

\* Time passes: the requests grow older, one by one, and nothing else of theirs changes.
LEMMA TickRequests ==
  ASSUME WorkerShape, \A q \in requests : q.age < MaxAge,
         requests' = {[q EXCEPT !.age = @ + 1] : q \in requests}
  PROVE  /\ requests' \subseteq Asking \cup Closing
         /\ \A p \in requests' : \E q \in requests :
              /\ p = [q EXCEPT !.age = q.age + 1]
              /\ p.turn = q.turn /\ p.from = q.from /\ p.position = q.position
              /\ p.what = q.what /\ (IsAppend(p) <=> IsAppend(q))
<1> SUFFICES ASSUME NEW p \in requests'
             PROVE  /\ p \in Asking \cup Closing
                    /\ \E q \in requests :
                         /\ p = [q EXCEPT !.age = q.age + 1]
                         /\ p.turn = q.turn /\ p.from = q.from /\ p.position = q.position
                         /\ p.what = q.what /\ (IsAppend(p) <=> IsAppend(q))
  OBVIOUS
<1>1. PICK q \in requests : p = [q EXCEPT !.age = q.age + 1]
  OBVIOUS
<1>2. q \in Asking \cup Closing /\ q.age + 1 \in 0..MaxAge
  BY TimeAssumption DEF WorkerShape, Asking, Closing
<1>3. p.turn = q.turn /\ p.from = q.from /\ p.position = q.position /\ p.what = q.what
  BY <1>1, <1>2 DEF Asking, Closing
<1>4. CASE q \in Asking
  <2>1. p \in Asking
    BY <1>1, <1>2, <1>4 DEF Asking
  <2> QED
    BY <1>1, <1>3, <2>1 DEF IsAppend
<1>5. CASE q \in Closing
  <2>1. p \in Closing
    BY <1>1, <1>2, <1>5 DEF Closing
  <2> QED
    BY <1>1, <1>3, <2>1 DEF IsAppend
<1> QED
  BY <1>2, <1>4, <1>5

LEMMA TickRunners ==
  ASSUME WorkerShape, Tick
  PROVE  /\ runner' \in [Turns -> Coroutine]
         /\ \A t \in Turns : /\ runner'[t].pc = runner[t].pc
                             /\ runner'[t].position = runner[t].position
                             /\ runner'[t].stopped = runner[t].stopped
<1>1. \A t \in Turns :
        runner'[t] = IF Alive(t) /\ runner[t].quiet <= Stalled
                     THEN [runner[t] EXCEPT !.quiet = runner[t].quiet + 1] ELSE runner[t]
  BY DEF Tick
<1>2. ASSUME NEW t \in Turns
      PROVE  /\ runner'[t] \in Coroutine
             /\ runner'[t].pc = runner[t].pc
             /\ runner'[t].position = runner[t].position
             /\ runner'[t].stopped = runner[t].stopped
  <2>1. runner[t] \in Coroutine
    BY DEF WorkerShape
  <2>2. CASE Alive(t) /\ runner[t].quiet <= Stalled
    <3>1. runner[t].quiet + 1 \in 0..Stalled + 1
      BY <2>1, <2>2, WorkerAssumption DEF Coroutine
    <3>2. runner'[t] = [runner[t] EXCEPT !.quiet = runner[t].quiet + 1]
      BY <1>1, <2>2
    <3> QED
      BY <2>1, <3>1, <3>2 DEF Coroutine
  <2>3. CASE ~(Alive(t) /\ runner[t].quiet <= Stalled)
    BY <1>1, <2>1, <2>3
  <2> QED
    BY <2>2, <2>3
<1>3. runner' = [t \in Turns |-> runner'[t]]
  BY DEF Tick
<1> QED
  BY <1>2, <1>3

LEMMA TickShape ==
  ASSUME SystemShape, Tick
  PROVE  SystemShape'
<1>1. WorkerShape /\ TypeOK /\ ClockShape
  BY DEF SystemShape
<1>2. TypeOK'
  <2>1. \A t \in Turns : task'[t] =
          CASE task[t].state \in {"queued", "running"} ->
                 [task[t] EXCEPT !.lease = Aged(task[t].lease)]
            [] task[t].state = "done" -> [task[t] EXCEPT !.lease = Forgotten]
            [] OTHER -> task[t]
    BY DEF Tick, LeasesAge
  <2>2. ASSUME NEW t \in Turns
        PROVE  task'[t] \in [state : {"none", "queued", "running", "done"}, lease : Int]
    <3>1. /\ task[t] \in [state : {"none", "queued", "running", "done"}, lease : Int]
          /\ Aged(task[t].lease) \in Int /\ Forgotten \in Int
      BY <1>1, TimeAssumption DEF TypeOK, Aged, Forgotten
    <3> QED
      BY <2>1, <3>1
  <2>3. task' = [t \in Turns |-> task'[t]]
    BY DEF Tick, LeasesAge
  <2>4. task' \in [Turns -> [state : {"none", "queued", "running", "done"}, lease : Int]]
    BY <2>2, <2>3
  <2> QED
    BY <1>1, <2>4 DEF Tick, TypeOK
<1>3. beat' \in [since : 0..Heartbeat, tasks : SUBSET Turns, age : 0..MaxAge]
  <2>1. beat \in [since : 0..Heartbeat, tasks : SUBSET Turns, age : 0..MaxAge]
    BY <1>1 DEF WorkerShape
  <2>2. CASE beat.tasks # {}
    <3>1. beat.age + 1 \in 0..MaxAge /\ beat' = [beat EXCEPT !.age = beat.age + 1]
      BY <2>1, <2>2, TimeAssumption DEF Tick
    <3> QED
      BY <2>1, <3>1
  <2>3. CASE beat.tasks = {} /\ mode # "down" /\ beat.since < Heartbeat
    <3>1. beat.since + 1 \in 0..Heartbeat /\ beat' = [beat EXCEPT !.since = beat.since + 1]
      BY <2>1, <2>3, WorkerAssumption DEF Tick
    <3> QED
      BY <2>1, <3>1
  <2>4. CASE beat.tasks = {} /\ ~(mode # "down" /\ beat.since < Heartbeat)
    BY <2>1, <2>4 DEF Tick
  <2> QED
    BY <2>2, <2>3, <2>4
<1>4. WorkerShape'
  <2>1. requests' \subseteq Asking \cup Closing
    BY <1>1, TickRequests DEF Tick
  <2>2. runner' \in [Turns -> Coroutine]
    BY <1>1, TickRunners
  <2> QED
    BY <1>1, <1>3, <2>1, <2>2 DEF Tick, WorkerShape
<1>5. ClockShape'
  <2>1. \A r \in Readers : reader'[r] \in {Idle} \cup Looking
    <3> SUFFICES ASSUME NEW r \in Readers PROVE reader'[r] \in {Idle} \cup Looking
      OBVIOUS
    <3>1. CASE reader[r].pc = "idle"
      BY <3>1 DEF Tick
    <3>2. CASE reader[r].pc # "idle"
      <4>1. reader[r] \in Looking
        BY <1>1, <3>2 DEF ClockShape, Idle
      <4>2. reader[r].age + 1 \in 0..MaxAge
        BY <3>2, <4>1, TimeAssumption DEF Tick, Looking
      <4>3. reader'[r] = [reader[r] EXCEPT !.age = reader[r].age + 1]
        BY <3>2 DEF Tick
      <4> QED
        BY <4>1, <4>2, <4>3 DEF Looking
    <3> QED
      BY <3>1, <3>2
  <2>2. reader' = [r \in Readers |-> reader'[r]]
    BY DEF Tick
  <2>3. grantAge' \in 0..MaxAge
    BY <1>1, TimeAssumption DEF Tick, ClockShape
  <2>4. unheard' \in [Turns -> Nat]
    BY <1>1 DEF Tick, ClockShape
  <2> QED
    BY <2>1, <2>2, <2>3, <2>4 DEF ClockShape
<1> QED
  BY <1>2, <1>4, <1>5 DEF SystemShape

LEMMA TickCore ==
  ASSUME SystemShape, Core, Tick
  PROVE  Core'
<1>1. TypeOK' /\ WorkerShape'
  BY TickShape DEF SystemShape
<1>2. \A t \in Turns : /\ runner'[t].pc = runner[t].pc
                       /\ runner'[t].position = runner[t].position
                       /\ runner'[t].stopped = runner[t].stopped
  BY TickRunners DEF Core
<1>3. \A p \in requests' : \E q \in requests :
        /\ p = [q EXCEPT !.age = q.age + 1]
        /\ p.turn = q.turn /\ p.from = q.from /\ p.position = q.position
        /\ p.what = q.what /\ (IsAppend(p) <=> IsAppend(q))
  BY TickRequests DEF Tick, Core
<1>4. \A q \in requests : q.turn \in Turns
  BY RequestKinds DEF Core, WorkerShape
<1>5. UNCHANGED <<turn, events, mode, granted, cancelling>>
  BY DEF Tick
<1>6. \A t \in Turns : task'[t].state = task[t].state
  BY DEF Tick, LeasesAge, Core, TypeOK
<1>7. AppendsOfWriters'
  BY <1>2, <1>3, <1>4 DEF Core, PlacesInv, AppendsOfWriters
<1>8. OneAppend'
  <2> SUFFICES ASSUME NEW p1 \in requests', NEW p2 \in requests', IsAppend(p1), IsAppend(p2),
                      p1.turn = p2.turn
               PROVE  p1 = p2
    BY DEF OneAppend
  <2>1. PICK q1 \in requests : /\ p1 = [q1 EXCEPT !.age = q1.age + 1]
                               /\ p1.turn = q1.turn /\ IsAppend(q1)
    BY <1>3
  <2>2. PICK q2 \in requests : /\ p2 = [q2 EXCEPT !.age = q2.age + 1]
                               /\ p2.turn = q2.turn /\ IsAppend(q2)
    BY <1>3
  <2>3. q1 = q2
    BY <2>1, <2>2 DEF Core, PlacesInv, OneAppend
  <2> QED
    BY <2>1, <2>2, <2>3
<1>9. EndsOfEnders'
  BY <1>2, <1>3, <1>4 DEF Core, PlacesInv, EndsOfEnders
<1>10. OneCoroutine'
  BY <1>2, <1>5, <1>6 DEF Core, PlacesInv, OneCoroutine
<1>11. NumbersInv'
  BY <1>2, <1>3, <1>5 DEF Core, NumbersInv
<1>12. LastInv'
  <2>1. GivesLast'
    BY <1>2, <1>3, <1>5 DEF Core, LastInv, GivesLast
  <2>2. EndsAfter'
    <3> SUFFICES ASSUME NEW q \in requests', ~IsAppend(q), q.what.last # <<>>,
                        turn'[q.turn].state = "active"
                 PROVE  /\ Cardinality(events'[q.turn]) < q.position
                        /\ \A p \in requests' :
                             IsAppend(p) /\ p.turn = q.turn => p.position < q.position
      BY DEF EndsAfter
    <3>1. PICK o \in requests : /\ q.turn = o.turn /\ q.position = o.position
                                /\ q.what = o.what /\ ~IsAppend(o)
      BY <1>3
    <3>2. /\ Cardinality(events[o.turn]) < o.position
          /\ \A p \in requests : IsAppend(p) /\ p.turn = o.turn => p.position < o.position
      BY <1>5, <3>1 DEF Core, LastInv, EndsAfter
    <3>3. ASSUME NEW p \in requests', IsAppend(p), p.turn = q.turn
          PROVE  p.position < q.position
      BY <1>3, <3>1, <3>2, <3>3
    <3> QED
      BY <1>5, <3>1, <3>2, <3>3
  <2> QED
    BY <2>1, <2>2 DEF LastInv
<1> QED
  BY <1>1, <1>7, <1>8, <1>9, <1>10, <1>11, <1>12 DEF Core, PlacesInv

-----------------------------------------------------------------------------
(* Every step                                                              *)

LEMMA SettledCore ==
  ASSUME SystemShape, Core, Settled
  PROVE  Core'
<1>1. PlacesInv' /\ NumbersInv' /\ LastInv'
  BY SettlesPlaces, SettlesNumbers, SettlesLast DEF Core
<1> QED
  BY <1>1 DEF Core, Settled

\* Whatever the worker does.
LEMMA WorkerCore ==
  ASSUME SystemShape, Core, WorkerNext
  PROVE  Core'
<1> PlacesInv
  BY DEF Core
<1>1. ASSUME NEW q \in requests, Execute(q) \/ TimeOut(q) \/ Lose(q)
      PROVE  Core'
  <2>1. CASE Execute(q) /\ IsAppend(q) /\ WouldAccept(q)
    BY <2>1, ToldCore
  <2>2. CASE Execute(q) /\ ~(IsAppend(q) /\ WouldAccept(q))
    BY <2>2, Executed, SettledCore
  <2>3. CASE TimeOut(q) \/ Lose(q)
    BY <2>3, GivenUp, SettledCore
  <2> QED
    BY <1>1, <2>1, <2>2, <2>3
<1>2. ASSUME NEW t \in Turns,
             \/ FindTurn(t) \/ StartTurn(t) \/ StartFails(t)
             \/ EngineSays(t) \/ EngineDone(t) \/ EngineFails(t)
      PROVE  Core'
  <2>1. CASE (FindTurn(t) /\ OfVisible(t)) \/ StartTurn(t) \/ EngineSays(t)
    BY <2>1, GoesOnCore
  <2>2. CASE StartFails(t) \/ EngineDone(t) \/ EngineFails(t) \/ (FindTurn(t) /\ ~OfVisible(t))
    BY <2>2, EndsByItself, SettledCore
  <2> QED
    BY <1>2, <2>1, <2>2
<1>3. ASSUME NEW t \in Turns, HearCancel(t) \/ MissCancel(t) \/ EndCancelled(t)
      PROVE  Core'
  BY <1>3, SomeStopped, NobodyMoves, CancelEnds, SettledCore
<1>4. CASE Claim \/ Dispatch
  BY <1>4, ClaimCore, DispatchCore
<1>5. CASE LoseClaim \/ LoseRenewal \/ BeginStop \/ EndStop \/ Start
  BY <1>5, NobodyMoves, SettledCore
<1>6. CASE Beat \/ DrainOver \/ Renew \/ Crash
  BY <1>6, SomeInterrupted, SomeStopped, AllDie, SettledCore
<1> QED
  BY <1>1, <1>2, <1>3, <1>4, <1>5, <1>6 DEF WorkerNext

\* The readers' places and the clocks.
LEMMA ClocksStep ==
  ASSUME SystemShape, [SystemNext]_systemVars
  PROVE  ClockShape'
<1>1. ClockShape
  BY DEF SystemShape
<1>2. CASE ByWorker(WorkerNext)
  <2>1. UNCHANGED reader /\ grantAge' \in {0, grantAge}
    BY <1>2 DEF ByWorker
  <2>2. unheard' \in [Turns -> Nat]
    BY <1>1, <1>2 DEF ByWorker, ClockShape
  <2> QED
    BY <1>1, <2>1, <2>2, TimeAssumption DEF ClockShape
<1>3. CASE Tick
  BY <1>3, TickShape DEF SystemShape
<1>4. ASSUME UNCHANGED reader, UNCHANGED clocks
      PROVE  ClockShape'
  BY <1>1, <1>4 DEF ClockShape, clocks
<1>5. CASE \/ \E s \in Sessions : UserStarts(s) \/ UserDeletes(s)
           \/ \E s \in Sessions, t \in Turns, newQuestion \in BOOLEAN : UserAsks(s, t, newQuestion)
           \/ \E t \in Turns : UserCancels(t)
           \/ UNCHANGED systemVars
  BY <1>4, <1>5 DEF UserStarts, UserDeletes, UserAsks, UserCancels, systemVars, clocks
<1>6. ASSUME NEW r \in Readers, NEW next \in {Idle} \cup Looking,
             reader' = [reader EXCEPT ![r] = next], UNCHANGED clocks
      PROVE  ClockShape'
  BY <1>1, <1>6 DEF ClockShape, clocks
<1>7. ASSUME NEW r \in Readers, NEW t \in Turns, Look(r, t) \/ SweepLooks(r, t)
      PROVE  ClockShape'
  <2>1. PICK pc \in {"looked", "orphan"} :
          reader' = [reader EXCEPT ![r] = [pc |-> pc, turn |-> t, age |-> 0]]
    BY <1>7 DEF Look, SweepLooks, Reads
  <2>2. [pc |-> pc, turn |-> t, age |-> 0] \in Looking /\ UNCHANGED clocks
    BY <1>7, TimeAssumption DEF Looking, Look, SweepLooks, Reads
  <2> QED
    BY <1>6, <2>1, <2>2
<1>8. ASSUME NEW r \in Readers, EndTurn(r) \/ SweepEnds(r)
      PROVE  ClockShape'
  BY <1>6, <1>8 DEF EndTurn, SweepEnds
<1>9. ASSUME NEW r \in Readers, ReadEvents(r)
      PROVE  ClockShape'
  <2>1. reader[r] \in Looking /\ UNCHANGED clocks
    BY <1>1, <1>9 DEF ReadEvents, ClockShape, Idle, Reads
  <2>2. [pc |-> "read", turn |-> reader[r].turn, age |-> reader[r].age] \in Looking
    BY <2>1 DEF Looking
  <2> DEFINE next == IF OfVisible(reader[r].turn)
                     THEN [pc |-> "read", turn |-> reader[r].turn, age |-> reader[r].age]
                     ELSE Idle
  <2>3. reader' = [reader EXCEPT ![r] = next] /\ next \in {Idle} \cup Looking
    BY <1>9, <2>2 DEF ReadEvents, Reads
  <2> HIDE DEF next
  <2> QED
    BY <1>6, <2>1, <2>3
<1> QED
  BY <1>2, <1>3, <1>5, <1>7, <1>8, <1>9 DEF SystemNext

LEMMA SystemStep ==
  ASSUME SystemShape, Core, [SystemNext]_systemVars
  PROVE  SystemShape' /\ Core'
<1> PlacesInv
  BY DEF Core
<1>1. Core'
  <2>1. CASE ByWorker(WorkerNext)
    BY <2>1, WorkerCore DEF ByWorker
  <2>2. ASSUME NEW s \in Sessions, NEW t \in Turns, NEW newQuestion \in BOOLEAN,
               UserAsks(s, t, newQuestion)
        PROVE  Core'
    BY <2>2, AskCore
  <2>3. CASE \/ \E s \in Sessions : UserStarts(s) \/ UserDeletes(s)
             \/ \E t \in Turns : UserCancels(t)
             \/ \E r \in Readers, t \in Turns : Look(r, t) \/ SweepLooks(r, t)
             \/ \E r \in Readers : ReadEvents(r) \/ EndTurn(r) \/ SweepEnds(r)
             \/ UNCHANGED systemVars
    BY <2>3, ServerSettles, SettledCore
  <2>4. CASE Tick
    BY <2>4, TickCore
  <2> QED
    BY <2>1, <2>2, <2>3, <2>4 DEF SystemNext
<1> QED
  BY <1>1, ClocksStep DEF Core, SystemShape

LEMMA SystemBegins == SystemInit => SystemShape /\ Core
<1> SUFFICES ASSUME SystemInit PROVE SystemShape /\ Core
  OBVIOUS
<1>1. TypeOK
  BY InitType DEF SystemInit
<1>2. Resting(0) \in [since : 0..Heartbeat, tasks : SUBSET Turns, age : 0..MaxAge]
  BY WorkerAssumption, TimeAssumption DEF Resting
<1>3. WorkerShape
  BY <1>2, OverType DEF SystemInit, WorkerInit, WorkerShape
<1>4. ClockShape
  BY TimeAssumption DEF SystemInit, ClockShape
<1>5. PlacesInv
  BY DEF SystemInit, Init, WorkerInit, PlacesInv, AppendsOfWriters, OneAppend, EndsOfEnders,
         OneCoroutine, NoRunner, NoTurn, NoTask
<1>6. NumbersInv
  BY DEF SystemInit, Init, WorkerInit, NumbersInv, NoTurn
<1>7. LastInv
  BY DEF SystemInit, Init, WorkerInit, LastInv, GivesLast, EndsAfter, NoTurn
<1> QED
  BY <1>1, <1>3, <1>4, <1>5, <1>6, <1>7 DEF Core, SystemShape

LEMMA SystemInvariants == SystemSpec => [](SystemShape /\ Core)
<1>1. SystemShape /\ Core /\ [SystemNext]_systemVars => (SystemShape /\ Core)'
  BY SystemStep
<1> QED
  BY <1>1, SystemBegins, PTL DEF SystemSpec

\* However requests are lost, late or executed after their sender gave them up, whoever ends the
\* turn and whenever the worker dies, the events stored of a turn that is active are numbered
\* from 1 without a gap: the count of them, which open_session takes for the last position, is it.
THEOREM EventsAreContiguousAlways == SystemSpec => []EventsAreContiguous
<1>1. SystemShape /\ Core => EventsAreContiguous
  <2> SUFFICES ASSUME Core, NEW t \in Turns, turn[t].state = "active"
               PROVE  {e.position : e \in events[t]} = 1..Cardinality(events[t])
    BY DEF EventsAreContiguous
  <2>1. Contiguous(events[t])
    BY DEF Core, NumbersInv
  <2> QED
    BY <2>1 DEF Contiguous
<1> QED
  BY <1>1, SystemInvariants, PTL

\* The records of the store, the worker and the readers keep their types whatever is lost.
THEOREM SystemTypesAlways == SystemSpec => []SystemTypeOK
<1>1. SystemShape => SystemTypeOK
  <2> SUFFICES ASSUME SystemShape PROVE SystemTypeOK
    OBVIOUS
  <2>1. \A q \in requests : q.turn \in Turns /\ q.age \in 0..MaxAge
    BY DEF SystemShape, WorkerShape, Asking, Closing
  <2>2. runner \in [Turns -> Coroutine]
    BY DEF SystemShape, WorkerShape
  <2> QED
    BY <2>1, <2>2 DEF SystemShape, WorkerShape, SystemTypeOK, Coroutine
<1> QED
  BY <1>1, SystemInvariants, PTL

-----------------------------------------------------------------------------
(* The store's contract                                                    *)

\* A task that the sweep is about to end by itself is that of a turn of a hidden session: it
\* was when the sweep looked, and no session is shown again.
OrphanInv ==
  \A r \in Readers : reader[r].pc = "orphan" =>
    /\ turn[reader[r].turn].state # "none"
    /\ session[turn[reader[r].turn].session] = "hidden"

ContractInv == SystemShape /\ Core /\ StoreInv /\ OrphanInv

\* A write that the store accepts numbers its event past all it holds.
LEMMA WriteCalls ==
  ASSUME SystemShape, Core, NEW q \in requests, IsAppend(q),
         AppendEvent(q.turn, q.position, q.what, -q.age)
  PROVE  StoreCalls
<1>1. /\ q.turn \in Turns /\ q.position \in Nat /\ q.what \in Pieces /\ -q.age \in Int
  BY RequestKinds, WorkerAssumption, TimeAssumption DEF Core, WorkerShape, Asking
<1>2. turn[q.turn].state = "active"
  BY DEF AppendEvent, Holds
<1>3. Contiguous(events[q.turn]) /\ q.position = Cardinality(events[q.turn]) + 1
  BY <1>1, <1>2 DEF Core, NumbersInv
<1>4. \A told \in events[q.turn] : told.position < q.position
  <2>1. Cardinality(events[q.turn]) \in Nat
    BY <1>3, FS_CardinalityType DEF Contiguous
  <2> QED
    BY <1>3, <2>1 DEF Contiguous
<1>5. Write(q.turn, q.position, q.what, -q.age)
  BY <1>4 DEF Write
<1> QED
  BY <1>1, <1>5 DEF StoreCalls

\* So does an end.
LEMMA EndCalls ==
  ASSUME SystemShape, Core, NEW q \in requests, q \in Closing,
         FinishTurn(q.turn, q.what.state, -q.age, q.what.kept, Numbered(q.position, q.what.last))
  PROVE  StoreCalls
<1>1. /\ q.turn \in Turns /\ q.position \in Nat /\ q.what \in Endings /\ -q.age \in Int
      /\ ~IsAppend(q)
  BY RequestKinds, TimeAssumption DEF Core, WorkerShape, Closing
<1>2. turn[q.turn].state = "active"
  BY DEF FinishTurn, Holds
<1>3. Contiguous(events[q.turn])
  BY <1>1, <1>2 DEF Core, NumbersInv
<1>4. ASSUME NEW told \in events[q.turn], NEW e \in Numbered(q.position, q.what.last)
      PROVE  told.position < e.position
  <2>1. PICK i \in DOMAIN q.what.last :
          e = [position |-> q.position + i - 1, document |-> q.what.last[i]]
    BY <1>4 DEF Numbered
  <2>2. i \in Nat \ {0} /\ q.what.last # <<>>
    BY <1>1, <2>1 DEF Endings
  <2>3. Cardinality(events[q.turn]) < q.position
    BY <1>1, <1>2, <2>2 DEF Core, LastInv, EndsAfter
  <2>4. Cardinality(events[q.turn]) \in Nat /\ told.position \in 1..Cardinality(events[q.turn])
    BY <1>3, <1>4, FS_CardinalityType DEF Contiguous
  <2>5. e.position = q.position + i - 1
    BY <2>1
  <2> QED
    BY <1>1, <2>2, <2>3, <2>4, <2>5
<1>5. End(q.turn, q.what, q.position, -q.age)
  BY <1>4 DEF End
<1> QED
  BY <1>1, <1>5 DEF StoreCalls

\* Whatever the worker does, however late, is a call of the store's.
LEMMA WorkerCalls ==
  ASSUME SystemShape, Core, WorkerNext
  PROVE  [StoreCalls]_storeVars /\ UNCHANGED session
<1>1. ASSUME NEW q \in requests, Execute(q)
      PROVE  [StoreCalls]_storeVars /\ UNCHANGED session
  <2>1. CASE IsAppend(q) /\ WouldAccept(q)
    <3>1. AppendEvent(q.turn, q.position, q.what, -q.age)
      BY <1>1, <2>1, ExecuteTold
    <3> QED
      BY <2>1, <3>1, WriteCalls DEF AppendEvent
  <2>2. CASE ~(IsAppend(q) /\ WouldAccept(q))
    <3>1. \/ UNCHANGED storeVars
          \/ /\ q \in Closing
             /\ FinishTurn(q.turn, q.what.state, -q.age, q.what.kept,
                           Numbered(q.position, q.what.last))
      BY <1>1, <2>2, ExecuteGoes
    <3> QED
      BY <3>1, EndCalls DEF FinishTurn, storeVars
  <2> QED
    BY <2>1, <2>2
<1>2. ASSUME Claim PROVE StoreCalls /\ UNCHANGED session
  <2>1. PICK batch \in ClaimBatches(Worker, 0, MaxRunning - Cardinality(Running)) :
          ClaimTasks(batch, LeaseTime)
    BY <1>2 DEF Claim
  <2>2. batch \in SUBSET Turns /\ (\A t \in batch : task[t].state = "queued") /\ LeaseTime \in Int
    BY StoreAssumption DEF ClaimBatches, Claimable
  <2> QED
    BY <2>1, <2>2 DEF StoreCalls, ClaimTasks
<1>3. ASSUME Renew PROVE StoreCalls /\ UNCHANGED session
  <2>1. LeaseTime - beat.age \in Int /\ TypeOK
    BY StoreAssumption, TimeAssumption DEF SystemShape, WorkerShape
  <2>2. RenewLeases(beat.tasks, -beat.age, LeaseTime - beat.age)
    BY <1>3 DEF Renew
  <2>3. LeasesMove
    BY <2>1, <2>2, RenewMoves
  <2> QED
    BY <2>3 DEF StoreCalls, LeasesMove
<1>4. ASSUME \/ \E q \in requests : TimeOut(q) \/ Lose(q)
             \/ Dispatch \/ LoseClaim \/ Beat \/ LoseRenewal
             \/ BeginStop \/ DrainOver \/ EndStop \/ Crash \/ Start
             \/ \E t \in Turns :
                  \/ FindTurn(t) \/ StartTurn(t) \/ StartFails(t)
                  \/ EngineSays(t) \/ EngineDone(t) \/ EngineFails(t)
                  \/ HearCancel(t) \/ MissCancel(t) \/ EndCancelled(t)
      PROVE  UNCHANGED storeVars
  BY <1>4
  DEF TimeOut, Lose, Dispatch, LoseClaim, Beat, LoseRenewal, BeginStop, DrainOver, EndStop, Crash,
      Start, FindTurn, StartTurn, StartFails, EngineSays, EngineDone, EngineFails, Step, HearCancel,
      MissCancel, EndCancelled
<1> QED
  BY <1>1, <1>2, <1>3, <1>4 DEF WorkerNext, storeVars

\* So is what the users and the readers do, and time only moves the leases.
LEMMA SystemCalls ==
  ASSUME ContractInv, SystemShape', [SystemNext]_systemVars
  PROVE  /\ [StoreCalls]_storeVars
         /\ \A s \in Sessions : session'[s] # "purged" \/ session[s] = "purged"
<1> DEFINE Called == /\ [StoreCalls]_storeVars
                     /\ \A s \in Sessions : session'[s] # "purged" \/ session[s] = "purged"
<1>0. SystemShape /\ Core /\ TypeOK
  BY DEF ContractInv, SystemShape
<1>1. CASE ByWorker(WorkerNext)
  BY <1>0, <1>1, WorkerCalls DEF ByWorker
<1>2. ASSUME NEW s \in Sessions, UserStarts(s) \/ UserDeletes(s)
      PROVE  Called
  <2>1. AddSession(s) \/ HideSession(s)
    BY <1>2 DEF UserStarts, UserDeletes
  <2>2. StoreCalls
    BY <2>1 DEF StoreCalls
  <2>3. \A z \in Sessions : session'[z] # "purged" \/ session[z] = "purged"
    BY <1>0, <2>1 DEF AddSession, HideSession, TypeOK
  <2> QED
    BY <2>2, <2>3
<1>3. ASSUME NEW s \in Sessions, NEW t \in Turns, NEW newQuestion \in BOOLEAN,
             UserAsks(s, t, newQuestion)
      PROVE  Called
  <2>1. QueueTurn(s, t, newQuestion, QueuedTime) /\ QueuedTime \in Int
    BY <1>3, StoreAssumption DEF UserAsks
  <2>2. StoreCalls
    BY <2>1 DEF StoreCalls
  <2> QED
    BY <2>1, <2>2 DEF QueueTurn
<1>4. ASSUME NEW t \in Turns, UserCancels(t) PROVE Called
  <2>1. RequestCancel(t)
    BY <1>4 DEF UserCancels
  <2>2. StoreCalls
    BY <2>1 DEF StoreCalls
  <2> QED
    BY <2>1, <2>2 DEF RequestCancel
<1>5. ASSUME NEW r \in Readers,
             ReadEvents(r) \/ (\E t \in Turns : Look(r, t) \/ SweepLooks(r, t))
      PROVE  Called
  <2>1. UNCHANGED storeVars
    BY <1>5 DEF ReadEvents, Look, SweepLooks, Reads
  <2> QED
    BY <2>1 DEF storeVars
<1>6. ASSUME NEW r \in Readers, EndTurn(r) \/ SweepEnds(r)
      PROVE  Called
  <2>1. reader[r].pc # "idle" /\ reader[r] \in {Idle} \cup Looking
    BY <1>0, <1>6 DEF EndTurn, SweepEnds, SystemShape, ClockShape
  <2>2. reader[r].turn \in Turns /\ -reader[r].age \in Int
    BY <2>1, TimeAssumption DEF Idle, Looking
  <2>3. CASE UNCHANGED storeVars
    BY <2>3 DEF storeVars
  <2>4. CASE EndExpiredTurn(reader[r].turn, -reader[r].age)
    <3>1. StoreCalls
      BY <2>2, <2>4 DEF StoreCalls
    <3> QED
      BY <2>4, <3>1 DEF EndExpiredTurn
  <2>5. CASE reader[r].pc = "orphan" /\ EndExpiredTask(reader[r].turn, -reader[r].age)
    <3>1. SweepHidden(reader[r].turn, -reader[r].age)
      BY <2>5 DEF SweepHidden, ContractInv, OrphanInv
    <3>2. StoreCalls
      BY <2>2, <3>1 DEF StoreCalls
    <3> QED
      BY <2>5, <3>2 DEF EndExpiredTask
  <2> QED
    BY <1>6, <2>3, <2>4, <2>5 DEF EndTurn, SweepEnds
<1>7. ASSUME Tick PROVE Called
  <2>1. \A t \in Turns : task'[t].state = task[t].state
    BY <1>0, <1>7 DEF Tick, LeasesAge, TypeOK
  <2>2. UNCHANGED <<session, turn, asked, events, messages>>
    BY <1>7 DEF Tick
  <2>3. LeasesMove
    BY <2>1, <2>2 DEF LeasesMove, SystemShape, TypeOK
  <2> QED
    BY <2>2, <2>3 DEF StoreCalls
<1>8. ASSUME UNCHANGED systemVars PROVE Called
  <2>1. UNCHANGED storeVars
    BY <1>8 DEF systemVars
  <2> QED
    BY <2>1 DEF storeVars
<1> HIDE DEF Called
<1>9. Called
  BY <1>1, <1>2, <1>3, <1>4, <1>5, <1>6, <1>7, <1>8 DEF SystemNext, Called
<1> QED
  BY <1>9 DEF Called

\* While no session is purged, turns keep their sessions and what is hidden stays hidden.
LEMMA NothingForgotten ==
  ASSUME TypeOK, [StoreCalls]_storeVars,
         \A s \in Sessions : session'[s] # "purged" \/ session[s] = "purged"
  PROVE  /\ \A t \in Turns : turn[t].state # "none" =>
              turn'[t].state # "none" /\ turn'[t].session = turn[t].session
         /\ \A s \in Sessions : session[s] = "hidden" => session'[s] = "hidden"
<1> DEFINE Held ==
             /\ \A t \in Turns : turn[t].state # "none" =>
                  turn'[t].state # "none" /\ turn'[t].session = turn[t].session
             /\ \A s \in Sessions : session[s] = "hidden" => session'[s] = "hidden"
<1>1. ASSUME NEW s \in Sessions, AddSession(s) \/ HideSession(s) PROVE Held
  BY <1>1 DEF AddSession, HideSession, Visible, TypeOK
<1>2. ASSUME NEW s \in Sessions, NEW now \in Int, PurgeSession(s, now) PROVE Held
  BY <1>2 DEF PurgeSession, TypeOK
<1>3. ASSUME NEW s \in Sessions, NEW t \in Turns, NEW newQuestion \in BOOLEAN, NEW until \in Int,
             QueueTurn(s, t, newQuestion, until)
      PROVE  Held
  BY <1>3 DEF QueueTurn, NoTurn, TypeOK
<1>4. ASSUME NEW t \in Turns, UNCHANGED session,
             \E state \in Outcomes : turn' = [turn EXCEPT ![t].state = state]
      PROVE  Held
  BY <1>4 DEF TypeOK, Outcomes
<1>5. ASSUME UNCHANGED <<session, turn>> PROVE Held
  BY <1>5
<1>6. ASSUME NEW t \in Turns, NEW how \in Endings, NEW n \in Nat, NEW endedAt \in Int,
             End(t, how, n, endedAt)
      PROVE  Held
  BY <1>4, <1>6, EndingState DEF End, FinishTurn
<1>7. ASSUME NEW t \in Turns, NEW now \in Int, EndExpiredTurn(t, now) PROVE Held
  BY <1>4, <1>7 DEF EndExpiredTurn, Outcomes
<1>8. ASSUME NEW t \in Turns, RequestCancel(t) PROVE Held
  <2>1. "cancelled" \in Outcomes
    BY DEF Outcomes
  <2> QED
    BY <1>4, <1>5, <1>8, <2>1 DEF RequestCancel
<1>9. ASSUME NEW batch \in SUBSET Turns, NEW until \in Int, ClaimTasks(batch, until) PROVE Held
  BY <1>5, <1>9 DEF ClaimTasks
<1>10. ASSUME NEW t \in Turns, NEW n \in Nat, NEW document \in Pieces, NEW writtenAt \in Int,
              Write(t, n, document, writtenAt)
       PROVE  Held
  BY <1>5, <1>10 DEF Write, AppendEvent
<1>11. ASSUME NEW t \in Turns, NEW now \in Int, SweepHidden(t, now) PROVE Held
  BY <1>5, <1>11 DEF SweepHidden, EndExpiredTask
<1>12. ASSUME LeasesMove \/ UNCHANGED storeVars PROVE Held
  BY <1>5, <1>12 DEF LeasesMove, storeVars
<1> HIDE DEF Held
<1>13. Held
  BY <1>1, <1>2, <1>3, <1>6, <1>7, <1>8, <1>9, <1>10, <1>11, <1>12 DEF StoreCalls
<1> QED
  BY <1>13 DEF Held

LEMMA OrphansStay ==
  ASSUME ContractInv, [SystemNext]_systemVars, [StoreCalls]_storeVars,
         \A s \in Sessions : session'[s] # "purged" \/ session[s] = "purged"
  PROVE  OrphanInv'
<1>1. SystemShape /\ StoreInv /\ TypeOK /\ OrphanInv
  BY DEF ContractInv, SystemShape
<1>2. /\ \A t \in Turns : turn[t].state # "none" =>
           /\ turn[t].session \in Sessions
           /\ turn'[t].state # "none" /\ turn'[t].session = turn[t].session
      /\ \A s \in Sessions : session[s] = "hidden" => session'[s] = "hidden"
  BY <1>1, NothingForgotten DEF StoreInv, TurnsOfKeptSessions
<1> SUFFICES ASSUME NEW r \in Readers, reader'[r].pc = "orphan"
             PROVE  /\ turn'[reader'[r].turn].state # "none"
                    /\ session'[turn'[reader'[r].turn].session] = "hidden"
  BY DEF OrphanInv
<1>3. CASE reader[r].pc = "orphan" /\ reader'[r].turn = reader[r].turn
  <2>1. reader[r].turn \in Turns
    BY <1>1, <1>3 DEF SystemShape, ClockShape, Looking, Idle
  <2> QED
    BY <1>1, <1>2, <1>3, <2>1 DEF OrphanInv
<1>4. ASSUME NEW t \in Turns, SweepLooks(r, t)
      PROVE  /\ turn'[reader'[r].turn].state # "none"
             /\ session'[turn'[reader'[r].turn].session] = "hidden"
  <2>1. reader'[r].turn = t /\ UNCHANGED <<session, turn>>
    BY <1>1, <1>4 DEF SweepLooks, Reads, storeVars, SystemShape, ClockShape
  <2>2. turn[t].state # "none"
    BY <1>1, <1>4 DEF SweepLooks, Lapsed, ContractInv, Core, PlacesInv, OneCoroutine
  <2>3. session[turn[t].session] = "hidden"
    BY <1>1, <1>4, <2>2 DEF SweepLooks, OfVisible, Visible, StoreInv, TurnsOfKeptSessions
  <2> QED
    BY <2>1, <2>2, <2>3
<1>5. \/ reader[r].pc = "orphan" /\ reader'[r].turn = reader[r].turn
      \/ \E t \in Turns : SweepLooks(r, t)
  <2>1. CASE \/ ByWorker(WorkerNext)
             \/ \E s \in Sessions : UserStarts(s) \/ UserDeletes(s)
             \/ \E s \in Sessions, t \in Turns, newQuestion \in BOOLEAN :
                  UserAsks(s, t, newQuestion)
             \/ \E t \in Turns : UserCancels(t)
             \/ UNCHANGED systemVars
    BY <2>1 DEF ByWorker, UserStarts, UserDeletes, UserAsks, UserCancels, systemVars
  <2>2. CASE Tick
    <3>1. reader'[r] = IF reader[r].pc = "idle" THEN Idle
                       ELSE [reader[r] EXCEPT !.age = reader[r].age + 1]
      BY <2>2 DEF Tick
    <3>2. reader[r] \in {Idle} \cup Looking
      BY <1>1 DEF SystemShape, ClockShape
    <3>3. reader[r] \in Looking
      BY <3>1, <3>2 DEF Idle
    <3>4. reader[r].pc # "idle"
      BY <3>3 DEF Looking
    <3> QED
      BY <3>1, <3>3, <3>4 DEF Looking
  <2>3. ASSUME NEW x \in Readers, NEW t \in Turns, Look(x, t) \/ SweepLooks(x, t)
        PROVE  \/ reader[r].pc = "orphan" /\ reader'[r].turn = reader[r].turn
               \/ SweepLooks(r, t)
    BY <1>1, <2>3 DEF Look, SweepLooks, Reads, SystemShape, ClockShape
  <2>4. ASSUME NEW x \in Readers, ReadEvents(x) \/ EndTurn(x) \/ SweepEnds(x)
        PROVE  reader[r].pc = "orphan" /\ reader'[r].turn = reader[r].turn
    <3> DEFINE read == [pc |-> "read", turn |-> reader[x].turn, age |-> reader[x].age]
    <3>1. PICK next \in {Idle, read} : reader' = [reader EXCEPT ![x] = next]
      BY <2>4 DEF ReadEvents, EndTurn, SweepEnds, Reads
    <3>2. next.pc # "orphan"
      BY DEF Idle
    <3> HIDE DEF read
    <3> QED
      BY <1>1, <3>1, <3>2 DEF SystemShape, ClockShape
  <2> QED
    BY <2>1, <2>2, <2>3, <2>4 DEF SystemNext
<1> QED
  BY <1>3, <1>4, <1>5

LEMMA ContractStep ==
  ASSUME ContractInv, [SystemNext]_systemVars
  PROVE  ContractInv' /\ [StoreCalls]_storeVars
<1>1. SystemShape' /\ Core'
  BY SystemStep DEF ContractInv
<1>2. /\ [StoreCalls]_storeVars
      /\ \A s \in Sessions : session'[s] # "purged" \/ session[s] = "purged"
  BY <1>1, SystemCalls
<1>3. StoreInv'
  BY <1>2, CallsInv DEF ContractInv
<1>4. OrphanInv'
  BY <1>2, OrphansStay
<1> QED
  BY <1>1, <1>2, <1>3, <1>4 DEF ContractInv

\* To the store, the server and its worker are callers like any other.
LEMMA SystemSpecCalls == SystemSpec => Init /\ [][StoreCalls]_storeVars
<1>1. SystemInit => Init /\ ContractInv
  <2> SUFFICES ASSUME SystemInit PROVE Init /\ ContractInv
    OBVIOUS
  <2>1. Init
    BY DEF SystemInit
  <2>2. StoreInv
    BY <2>1, InitInv
  <2>3. OrphanInv
    BY DEF SystemInit, OrphanInv, Idle
  <2> QED
    BY <2>1, <2>2, <2>3, SystemBegins DEF ContractInv
<1>2. ContractInv /\ [SystemNext]_systemVars => ContractInv' /\ [StoreCalls]_storeVars
  BY ContractStep
<1> QED
  BY <1>1, <1>2, PTL DEF SystemSpec

\* A server and a worker whose requests are lost, late, given up or executed after their sender
\* is gone keep the store's contract: every step of theirs tells the story of a turn further,
\* opens or ends one, shows or hides a session, or changes nothing the contract speaks of.
THEOREM SystemKeepsContract == SystemSpec => KeepsContract
  BY SystemSpecCalls, CallsKeepContract, PTL

\* And between any two of their requests the store is as it is under calls in order: a session has
\* one active turn and a task with it, an end is the last of a turn's events, and a turn's one
\* answer came with its end, though its runner's finish may arrive after another party's.
THEOREM SystemStoreAlways ==
  SystemSpec => [](StoreInv /\ TurnEndedIsLast /\ AnswerWithItsEnd)
  BY SystemSpecCalls, CallsKeepStories, PTL

\* Under them too a turn that ended stays as it ended: a worker's end that comes late, its turn
\* having been ended for it, adds no event and no answer.
THEOREM SystemEndIsFinal == SystemSpec => EndIsFinal
  BY SystemSpecCalls, CallsKeepEnds, PTL

-----------------------------------------------------------------------------
(* While requests are answered in time                                     *)

\* Requests do not time out, and a lease outlasts a heartbeat and three of the longest requests:
\* a claim's answer, the renewal under way as it comes, and the renewal after that.
InTime == ~Unreliable /\ LeaseTime > Heartbeat + 3 * MaxAge

\* The clocks of a worker's step.
ClocksFollow ==
  /\ grantAge' = IF granted' # {} THEN grantAge ELSE 0
  /\ unheard' = [t \in Turns |-> IF Alive(t)' /\ t \in asked THEN unheard[t] ELSE 0]
  /\ asked' = asked

LEMMA AgesAreSmall ==
  ASSUME SystemShape
  PROVE  /\ MaxAge \in Nat /\ Heartbeat \in Nat /\ LeaseTime \in Nat
         /\ beat.since \in 0..Heartbeat /\ beat.age \in 0..MaxAge /\ beat.tasks \subseteq Turns
         /\ grantAge \in 0..MaxAge
         /\ \A t \in Turns : task[t].lease \in Int /\ unheard[t] \in Nat
         /\ \A q \in requests : q.turn \in Turns /\ q.age \in 0..MaxAge
  BY TimeAssumption, WorkerAssumption, StoreAssumption
  DEF SystemShape, TypeOK, WorkerShape, ClockShape, Asking, Closing

\* The time to the next renewal, whether a turn is in the one under way or not.
LEMMA DueBounds ==
  ASSUME SystemShape, NEW t \in Turns
  PROVE  Due(t) \in 0..Heartbeat + 2 * MaxAge /\ Unheard(t) \in 0..Heartbeat + 2 * MaxAge
  BY AgesAreSmall DEF Due, Unheard

LEMMA UnheardLater ==
  ASSUME SystemShape'
  PROVE  \A t \in Turns : 0 <= Unheard(t)'
<1>1. beat' \in [since : 0..Heartbeat, tasks : SUBSET Turns, age : 0..MaxAge]
  BY DEF SystemShape, WorkerShape
<1> QED
  BY <1>1, TimeAssumption, WorkerAssumption DEF Unheard

\* Goes takes no coroutine back to where it holds its turn.
LEMMA GoesHolds ==
  ASSUME Goes, NEW t \in Turns
  PROVE  /\ runner'[t].pc \in Holders => runner[t].pc \in Holders
         /\ runner'[t].pc \in Holders \ {"finishing"} => runner[t].pc \in Holders \ {"finishing"}
         /\ runner[t].pc # "idle" => runner'[t].pc # "idle"
  BY DEF Goes, Holders, Late

\* A step that moves no lease of a turn that is held, and begins none, keeps every lease ahead of
\* its renewal.
LEMMA LeasesStay ==
  ASSUME SystemShape, LeaseInv, UNCHANGED beat, granted' \subseteq granted,
         grantAge' = (IF granted' # {} THEN grantAge ELSE 0),
         \A t \in Turns : task'[t].state \in {"queued", "running"} => turn'[t].state = "active",
         \A t \in Turns : runner[t].pc # "idle" => runner'[t].pc # "idle",
         \A t \in Turns : runner'[t].pc \in Holders => runner[t].pc \in Holders,
         \A t \in Turns : runner'[t].pc \in Holders \/ t \in granted'
           => task'[t] = task[t] /\ turn'[t].state = turn[t].state
  PROVE  LeaseInv'
<1>1. granted \subseteq Turns /\ beat.tasks \subseteq Turns
  BY DEF SystemShape, WorkerShape
<1>2. \A t \in granted' : /\ turn'[t].state = "active" /\ task'[t].state = "running"
                          /\ task'[t].lease > 0 /\ task'[t].lease >= LeaseTime - grantAge'
  BY <1>1 DEF LeaseInv, Holds
<1>3. \A t \in Turns : runner'[t].pc \in Holders =>
        /\ turn'[t].state = "active" /\ task'[t].state = "running"
        /\ task'[t].lease > 0 /\ task'[t].lease > Due(t)'
  BY DEF LeaseInv, Holds, Due
<1>4. \A t \in beat'.tasks : runner'[t].pc # "idle"
  BY <1>1 DEF LeaseInv
<1> QED
  BY <1>2, <1>3, <1>4 DEF LeaseInv, Holds

\* And one of the worker's that makes nothing stream keeps what was heard.
LEMMA HeardStays ==
  ASSUME SystemShape, SystemShape', HeardInv, ClocksFollow,
         \A t \in Turns : runner'[t].pc \in Holders \ {"finishing"}
           => \/ ~Alive(t)
              \/ runner[t].pc \in Holders \ {"finishing"} /\ beat' = beat
  PROVE  HeardInv'
<1> SUFFICES ASSUME NEW t \in Turns
             PROVE  /\ ~Alive(t)' \/ t \notin asked' => unheard'[t] = 0
                    /\ runner'[t].pc \in Holders \ {"finishing"} => unheard'[t] <= Unheard(t)'
  BY DEF HeardInv
<1>1. unheard'[t] = IF Alive(t)' /\ t \in asked THEN unheard[t] ELSE 0
  BY DEF ClocksFollow
<1>2. ~Alive(t)' \/ t \notin asked' => unheard'[t] = 0
  BY <1>1 DEF ClocksFollow
<1>3. ASSUME runner'[t].pc \in Holders \ {"finishing"}
      PROVE  unheard'[t] <= Unheard(t)'
  <2>1. CASE ~Alive(t)
    <3>1. unheard[t] = 0
      BY <2>1 DEF HeardInv
    <3> QED
      BY <1>1, <3>1, UnheardLater
  <2>2. CASE runner[t].pc \in Holders \ {"finishing"} /\ beat' = beat
    <3>1. unheard[t] \in Nat /\ unheard[t] <= Unheard(t)
      BY <2>2, AgesAreSmall DEF HeardInv
    <3>2. Unheard(t)' = Unheard(t)
      BY <2>2 DEF Unheard
    <3>3. 0 <= Unheard(t)'
      BY UnheardLater
    <3> QED
      BY <1>1, <3>1, <3>2, <3>3
  <2> QED
    BY <1>3, <2>1, <2>2
<1> QED
  BY <1>2, <1>3

\* The server's steps leave a turn alone while it is held: a reader ends only what has lapsed, a
\* cancel only what nobody claimed.
LEMMA ServerLeavesHeld ==
  ASSUME SystemShape, Core, LeaseInv,
         \/ \E s \in Sessions : UserStarts(s) \/ UserDeletes(s)
         \/ \E s \in Sessions, t \in Turns, newQuestion \in BOOLEAN : UserAsks(s, t, newQuestion)
         \/ \E t \in Turns : UserCancels(t)
         \/ \E r \in Readers, t \in Turns : Look(r, t) \/ SweepLooks(r, t)
         \/ \E r \in Readers : ReadEvents(r) \/ EndTurn(r) \/ SweepEnds(r)
         \/ UNCHANGED systemVars
  PROVE  /\ UNCHANGED <<runner, granted, beat, grantAge, unheard>>
         /\ asked \subseteq asked'
         /\ \A t \in Turns : Holds(t, 0) => task'[t] = task[t] /\ turn'[t].state = turn[t].state
         /\ \A t \in Turns : task'[t].state \in {"queued", "running"} => turn'[t].state = "active"
<1> DEFINE Same == UNCHANGED <<runner, granted, beat, grantAge, unheard>> /\ asked \subseteq asked'
           HeldKept == \A t \in Turns :
             Holds(t, 0) => task'[t] = task[t] /\ turn'[t].state = turn[t].state
           Active == \A t \in Turns :
             task'[t].state \in {"queued", "running"} => turn'[t].state = "active"
           Kept == Same /\ HeldKept /\ Active
<1>1. /\ TypeOK /\ reader \in [Readers -> {Idle} \cup Looking]
      /\ \A t \in Turns : task[t].state \in {"queued", "running"} => turn[t].state = "active"
  BY DEF SystemShape, ClockShape, LeaseInv
<1>2. ASSUME UNCHANGED <<turn, task>> PROVE HeldKept /\ Active
  BY <1>1, <1>2
<1>3. ASSUME NEW s \in Sessions, UserStarts(s) \/ UserDeletes(s)
      PROVE  Kept
  BY <1>2, <1>3 DEF UserStarts, UserDeletes, AddSession, HideSession, workerVars, clocks
<1>4. ASSUME NEW s \in Sessions, NEW t \in Turns, NEW newQuestion \in BOOLEAN,
             UserAsks(s, t, newQuestion)
      PROVE  Kept
  <2>1. QueueTurn(s, t, newQuestion, QueuedTime) /\ Same
    BY <1>4 DEF UserAsks, QueueTurn, workerVars, clocks
  <2>2. /\ turn[t].state = "none" /\ turn'[t].state = "active"
        /\ \A u \in Turns : u # t => turn'[u] = turn[u] /\ task'[u] = task[u]
    BY <1>1, <2>1 DEF QueueTurn, NoTurn, TypeOK
  <2> QED
    BY <1>1, <2>1, <2>2 DEF Holds
<1>5. ASSUME NEW t \in Turns, UserCancels(t)
      PROVE  Kept
  <2>1. RequestCancel(t) /\ Same
    BY <1>5 DEF UserCancels, RequestCancel, clocks
  <2>2. CASE UNCHANGED <<turn, task>>
    BY <1>2, <2>1, <2>2
  <2>3. CASE /\ task[t].state = "queued"
             /\ task' = [task EXCEPT ![t].state = "done"]
             /\ turn' = [turn EXCEPT ![t].state = "cancelled"]
    BY <1>1, <2>1, <2>3 DEF Holds, TypeOK
  <2> QED
    BY <2>1, <2>2, <2>3 DEF RequestCancel
<1>6. ASSUME NEW r \in Readers,
             ReadEvents(r) \/ (\E t \in Turns : Look(r, t) \/ SweepLooks(r, t))
      PROVE  Kept
  BY <1>2, <1>6 DEF ReadEvents, Look, SweepLooks, Reads, storeVars, workerVars, clocks
<1>7. ASSUME NEW r \in Readers, EndTurn(r) \/ SweepEnds(r)
      PROVE  Kept
  <2> DEFINE t == reader[r].turn
             now == -reader[r].age
  <2>1. reader[r] \in Looking /\ t \in Turns /\ now <= 0 /\ now \in Int
    BY <1>1, <1>7, TimeAssumption DEF EndTurn, SweepEnds, Looking, Idle
  <2>2. Same /\ (UNCHANGED storeVars \/ EndExpiredTurn(t, now) \/ EndExpiredTask(t, now))
    BY <1>7
    DEF EndTurn, SweepEnds, EndExpiredTurn, EndExpiredTask, storeVars, workerVars, clocks
  <2> HIDE DEF now, t
  <2>3. CASE UNCHANGED storeVars
    BY <1>2, <2>2, <2>3 DEF storeVars
  <2>4. CASE EndExpiredTurn(t, now) \/ EndExpiredTask(t, now)
    <3>1. /\ Lapsed(t, now) /\ task' = [task EXCEPT ![t].state = "done"]
          /\ turn' = turn \/ turn' = [turn EXCEPT ![t].state = "interrupted"]
      BY <2>4 DEF EndExpiredTurn, EndExpiredTask
    <3>2. ~Holds(t, 0) /\ task'[t].state = "done"
      BY <1>1, <2>1, <3>1 DEF Lapsed, Holds, TypeOK
    <3>3. \A u \in Turns : u # t => turn'[u] = turn[u] /\ task'[u] = task[u]
      BY <1>1, <2>1, <3>1 DEF TypeOK
    <3> QED
      BY <1>1, <2>2, <3>2, <3>3
  <2> QED
    BY <2>2, <2>3, <2>4
<1>8. ASSUME UNCHANGED systemVars PROVE Kept
  <2>1. UNCHANGED <<turn, task, asked>>
    BY <1>8 DEF systemVars, storeVars
  <2>2. UNCHANGED <<runner, granted, beat>>
    BY <1>8 DEF systemVars, workerVars
  <2> QED
    BY <1>2, <1>8, <2>1, <2>2 DEF systemVars
<1> HIDE DEF Kept
<1>9. Kept
  BY <1>3, <1>4, <1>5, <1>6, <1>7, <1>8
<1> QED
  BY <1>9 DEF Kept

LEMMA ServerInTime ==
  ASSUME SystemShape, Core, LeaseInv, HeardInv,
         \/ \E s \in Sessions : UserStarts(s) \/ UserDeletes(s)
         \/ \E s \in Sessions, t \in Turns, newQuestion \in BOOLEAN : UserAsks(s, t, newQuestion)
         \/ \E t \in Turns : UserCancels(t)
         \/ \E r \in Readers, t \in Turns : Look(r, t) \/ SweepLooks(r, t)
         \/ \E r \in Readers : ReadEvents(r) \/ EndTurn(r) \/ SweepEnds(r)
         \/ UNCHANGED systemVars
  PROVE  LeaseInv' /\ HeardInv'
<1>1. /\ UNCHANGED <<runner, granted, beat, grantAge, unheard>>
      /\ asked \subseteq asked'
      /\ \A t \in Turns : Holds(t, 0) => task'[t] = task[t] /\ turn'[t].state = turn[t].state
      /\ \A t \in Turns : task'[t].state \in {"queued", "running"} => turn'[t].state = "active"
  BY ServerLeavesHeld
<1>2. \A t \in Turns : runner[t].pc \in Holders \/ t \in granted => Holds(t, 0)
  BY DEF LeaseInv
<1>3. grantAge' = IF granted' # {} THEN grantAge ELSE 0
  BY <1>1 DEF LeaseInv
<1>4. LeaseInv'
  BY <1>1, <1>2, <1>3, LeasesStay
<1>5. HeardInv'
  BY <1>1 DEF HeardInv, Unheard, Alive
<1> QED
  BY <1>4, <1>5

\* A tick brings the next renewal as much nearer as the end of the lease.
LEMMA TickInTime ==
  ASSUME InTime, SystemShape, Core, LeaseInv, HeardInv, Tick
  PROVE  LeaseInv' /\ HeardInv'
<1> USE AgesAreSmall
<1>1. /\ UNCHANGED <<turn, asked, mode, granted>>
      /\ \A t \in Turns : runner'[t].pc = runner[t].pc
  BY TickRunners DEF Tick, Core
<1>2. ASSUME NEW t \in Turns, task[t].state = "running", task[t].lease > 0
      PROVE  task'[t].state = "running" /\ task'[t].lease = task[t].lease - 1
  <2>1. task'[t] = [task[t] EXCEPT !.lease = Aged(task[t].lease)]
    BY <1>2 DEF Tick, LeasesAge
  <2>2. Aged(task[t].lease) = task[t].lease - 1
    BY <1>2 DEF Aged
  <2> QED
    BY <1>2, <2>1, <2>2 DEF SystemShape, TypeOK
<1>3. \A t \in Turns : task'[t].state = task[t].state
  BY DEF Tick, LeasesAge, SystemShape, TypeOK
<1>4. ASSUME NEW t \in Turns, mode # "down"
      PROVE  Due(t)' = Due(t) - 1 /\ Unheard(t)' = Unheard(t) + 1
  <2>1. beat \in [since : 0..Heartbeat, tasks : SUBSET Turns, age : 0..MaxAge]
    BY DEF SystemShape, WorkerShape
  <2>2. CASE beat.tasks # {}
    <3>1. beat'.tasks = beat.tasks /\ beat'.age = beat.age + 1
      BY <2>1, <2>2 DEF Tick
    <3> QED
      BY <2>2, <3>1 DEF Due, Unheard
  <2>3. CASE beat.tasks = {}
    <3>1. beat.since < Heartbeat
      BY <1>4, <2>3 DEF Tick, InTime, BeatDue
    <3>2. beat' = [beat EXCEPT !.since = @ + 1]
      BY <1>4, <2>3, <3>1 DEF Tick
    <3>3. beat'.tasks = {} /\ beat'.since = beat.since + 1
      BY <2>1, <2>3, <3>2
    <3> QED
      BY <2>3, <3>3 DEF Due, Unheard
  <2> QED
    BY <2>2, <2>3
<1>5. \A t \in Turns : runner[t].pc \in Holders => mode # "down"
  BY DEF Core, PlacesInv, OneCoroutine, Holders
<1>6. LeaseInv'
  <2>1. granted' = {} => grantAge' = 0
    BY <1>1 DEF Tick
  <2>2. beat'.tasks = beat.tasks
    BY DEF Tick, SystemShape, WorkerShape
  <2>3. ASSUME NEW t \in granted
        PROVE  /\ turn'[t].state = "active" /\ task'[t].state = "running"
               /\ task'[t].lease > 0 /\ task'[t].lease >= LeaseTime - grantAge'
    <3>1. /\ t \in Turns /\ turn[t].state = "active" /\ task[t].state = "running"
          /\ task[t].lease > 0 /\ task[t].lease >= LeaseTime - grantAge
      BY DEF LeaseInv, Holds, SystemShape, WorkerShape
    <3>2. grantAge' = grantAge + 1 /\ grantAge < MaxAge
      BY DEF Tick
    <3>3. task'[t].state = "running" /\ task'[t].lease = task[t].lease - 1
      BY <1>2, <3>1
    <3> QED
      BY <1>1, <3>1, <3>2, <3>3 DEF InTime
  <2>4. ASSUME NEW t \in Turns, runner'[t].pc \in Holders
        PROVE  /\ turn'[t].state = "active" /\ task'[t].state = "running"
               /\ task'[t].lease > 0 /\ task'[t].lease > Due(t)'
    <3>1. /\ turn[t].state = "active" /\ task[t].state = "running"
          /\ task[t].lease > 0 /\ task[t].lease > Due(t)
      BY <1>1, <2>4 DEF LeaseInv, Holds
    <3>2. task'[t].state = "running" /\ task'[t].lease = task[t].lease - 1
      BY <1>2, <3>1
    <3>3. Due(t)' = Due(t) - 1 /\ Due(t) \in Int
      BY <1>1, <1>4, <1>5, <2>4, DueBounds
    <3>4. 0 <= Due(t)'
      <4>1. beat' \in [since : 0..Heartbeat, tasks : SUBSET Turns, age : 0..MaxAge]
        BY TickShape DEF SystemShape, WorkerShape
      <4> QED
        BY <4>1 DEF Due
    <3> QED
      BY <1>1, <3>1, <3>2, <3>3, <3>4
  <2> QED
    BY <1>1, <1>3, <2>1, <2>2, <2>3, <2>4 DEF LeaseInv, Holds
<1>7. HeardInv'
  <2> SUFFICES ASSUME NEW t \in Turns
               PROVE  /\ ~Alive(t)' \/ t \notin asked' => unheard'[t] = 0
                      /\ runner'[t].pc \in Holders \ {"finishing"} => unheard'[t] <= Unheard(t)'
    BY DEF HeardInv
  <2>1. Alive(t)' = Alive(t) /\ asked' = asked
    BY <1>1 DEF Alive
  <2>2. unheard'[t] = IF Alive(t) /\ t \in asked /\ unheard[t] <= Heartbeat + 2 * MaxAge
                      THEN unheard[t] + 1 ELSE unheard[t]
    BY DEF Tick
  <2>3. ~Alive(t)' \/ t \notin asked' => unheard'[t] = 0
    BY <2>1, <2>2 DEF HeardInv
  <2>4. ASSUME runner'[t].pc \in Holders \ {"finishing"}
        PROVE  unheard'[t] <= Unheard(t)'
    <3>1. unheard[t] <= Unheard(t) /\ Unheard(t)' = Unheard(t) + 1 /\ Unheard(t) \in Int
      BY <1>1, <1>4, <1>5, <2>4, DueBounds DEF HeardInv
    <3> QED
      BY <2>2, <3>1
  <2> QED
    BY <2>3, <2>4
<1> QED
  BY <1>6, <1>7

\* A step of the worker's that lets its coroutines go to their ends and leaves the leases alone.
LEMMA GoesInTime ==
  ASSUME SystemShape, SystemShape', LeaseInv, HeardInv, ClocksFollow, Goes,
         UNCHANGED <<turn, task, beat>>, granted' \subseteq granted
  PROVE  LeaseInv' /\ HeardInv'
<1>1. LeaseInv'
  <2>1. \A t \in Turns : task'[t].state \in {"queued", "running"} => turn'[t].state = "active"
    BY DEF LeaseInv
  <2>2. /\ \A t \in Turns : runner[t].pc # "idle" => runner'[t].pc # "idle"
        /\ \A t \in Turns : runner'[t].pc \in Holders => runner[t].pc \in Holders
    BY GoesHolds
  <2> QED
    BY <2>1, <2>2, LeasesStay DEF ClocksFollow
<1>2. HeardInv'
  BY GoesHolds, HeardStays
<1> QED
  BY <1>1, <1>2

\* The process ends, or dies: none of its coroutines holds a turn.
LEMMA EndsInTime ==
  ASSUME SystemShape, SystemShape', Core, LeaseInv, HeardInv, ClocksFollow, EndStop \/ Crash
  PROVE  LeaseInv' /\ HeardInv'
<1>1. UNCHANGED <<turn, task>> /\ granted' \subseteq granted /\ beat'.tasks = {}
  BY DEF EndStop, Crash, storeVars, Resting
<1>2. ASSUME NEW t \in Turns PROVE runner'[t].pc \notin Holders
  <2>1. CASE EndStop
    BY <2>1 DEF EndStop, Running, Alive, Holders
  <2>2. CASE Crash
    <3>1. runner'[t] = IF Alive(t) THEN Over ELSE runner[t]
      BY <2>2 DEF Crash
    <3> QED
      BY <3>1, OverType DEF Alive, Holders
  <2> QED
    BY <2>1, <2>2
<1>3. LeaseInv'
  <2>1. granted' = {} => grantAge' = 0
    BY DEF ClocksFollow
  <2>2. ASSUME NEW t \in granted'
        PROVE  /\ turn'[t].state = "active" /\ task'[t].state = "running"
               /\ task'[t].lease > 0 /\ task'[t].lease >= LeaseTime - grantAge'
    BY <1>1, <2>2 DEF LeaseInv, Holds, ClocksFollow
  <2> QED
    BY <1>1, <1>2, <2>1, <2>2 DEF LeaseInv, Holds
<1>4. HeardInv'
  BY <1>2, HeardStays
<1> QED
  BY <1>3, <1>4

\* The server answers, and ends a turn only for the coroutine that asked it to.
LEMMA ExecuteInTime ==
  ASSUME SystemShape, SystemShape', Core, LeaseInv, HeardInv, ClocksFollow,
         NEW q \in requests, Execute(q)
  PROVE  LeaseInv' /\ HeardInv'
<1> DEFINE t == q.turn
<1>1. UNCHANGED <<granted, beat>> /\ t \in Turns /\ TypeOK
  BY RequestKinds DEF Execute, SystemShape, WorkerShape
<1>2. CASE IsAppend(q) /\ WouldAccept(q)
  <2>1. /\ AppendEvent(t, q.position, q.what, -q.age)
        /\ \/ runner[t].pc # q.from /\ UNCHANGED runner
           \/ /\ runner[t].pc = q.from
              /\ runner' = [runner EXCEPT ![t] = [runner[t] EXCEPT !.pc = "streaming"]]
    BY <1>2, ExecuteTold
  <2>2. UNCHANGED <<turn, task>>
    BY <2>1 DEF AppendEvent
  <2>3. \A u \in Turns : \/ runner'[u] = runner[u]
                         \/ /\ runner[u].pc \in {"claiming", "appending"}
                            /\ runner'[u].pc = "streaming"
    BY <1>1, <1>2, <2>1 DEF IsAppend, SystemShape, WorkerShape, Coroutine
  <2>4. LeaseInv'
    <3>1. \A u \in Turns : task'[u].state \in {"queued", "running"} => turn'[u].state = "active"
      BY <2>2 DEF LeaseInv
    <3>2. /\ \A u \in Turns : runner[u].pc # "idle" => runner'[u].pc # "idle"
          /\ \A u \in Turns : runner'[u].pc \in Holders => runner[u].pc \in Holders
      BY <2>3 DEF Holders
    <3> QED
      BY <1>1, <2>2, <3>1, <3>2, LeasesStay DEF ClocksFollow
  <2>5. HeardInv'
    <3>1. \A u \in Turns : runner'[u].pc \in Holders \ {"finishing"}
            => runner[u].pc \in Holders \ {"finishing"}
      BY <2>3 DEF Holders
    <3> QED
      BY <1>1, <3>1, HeardStays
  <2> QED
    BY <2>4, <2>5
<1>3. CASE ~(IsAppend(q) /\ WouldAccept(q))
  <2>1. /\ Goes
        /\ \/ UNCHANGED storeVars
           \/ /\ q \in Closing
              /\ FinishTurn(t, q.what.state, -q.age, q.what.kept,
                            Numbered(q.position, q.what.last))
    BY <1>3, ExecuteGoes
  <2>2. CASE UNCHANGED storeVars
    BY <1>1, <2>1, <2>2, GoesInTime DEF storeVars
  <2>3. CASE /\ q \in Closing
             /\ FinishTurn(t, q.what.state, -q.age, q.what.kept,
                           Numbered(q.position, q.what.last))
    <3>1. /\ task'[t].state = "done"
          /\ \A u \in Turns : u # t => turn'[u] = turn[u] /\ task'[u] = task[u]
      BY <1>1, <2>3 DEF FinishTurn, TypeOK
    <3>2. /\ ~IsAppend(q)
          /\ runner[t].pc \in Late \cup {"finishing"}
          /\ runner[t].pc = "finishing" => q.from = "finishing"
      BY <2>3, RequestKinds DEF Core, PlacesInv, EndsOfEnders, Closing, IsAppend
    <3>3. runner'[t].pc \notin Holders
      <4>1. CASE runner[t].pc \in Late
        BY <1>1, <2>1, <4>1 DEF Goes, Late, Holders
      <4>2. CASE runner[t].pc = "finishing"
        <5>1. Awaited(q) /\ q.from # "cancelling"
          BY <3>2, <4>2 DEF Awaited
        <5>2. GoOn(q, Answered(t, WouldAccept(q)), requests \ {q})
          BY <5>1 DEF Execute
        <5>3. Answered(t, WouldAccept(q)).pc \in Late
          BY <1>1, <4>2, AnsweredType DEF SystemShape, WouldAccept
        <5>4. runner'[t] = Answered(t, WouldAccept(q))
          BY <1>1, <5>1, <5>2 DEF GoOn, SystemShape, WorkerShape
        <5> QED
          BY <5>3, <5>4 DEF Late, Holders
      <4> QED
        BY <3>2, <4>1, <4>2
    <3>4. t \notin granted
      BY <1>1, <3>2 DEF Core, PlacesInv, OneCoroutine, Late
    <3>5. LeaseInv'
      <4>1. \A u \in Turns :
              task'[u].state \in {"queued", "running"} => turn'[u].state = "active"
        BY <3>1 DEF LeaseInv
      <4>2. /\ \A u \in Turns : runner[u].pc # "idle" => runner'[u].pc # "idle"
            /\ \A u \in Turns : runner'[u].pc \in Holders => runner[u].pc \in Holders
        BY <2>1, GoesHolds
      <4>3. \A u \in Turns : runner'[u].pc \in Holders \/ u \in granted'
              => task'[u] = task[u] /\ turn'[u].state = turn[u].state
        BY <1>1, <3>1, <3>3, <3>4
      <4> HIDE DEF t
      <4> QED
        BY <1>1, <4>1, <4>2, <4>3, LeasesStay DEF ClocksFollow
    <3>6. HeardInv'
      BY <1>1, <2>1, GoesHolds, HeardStays
    <3> QED
      BY <3>5, <3>6
  <2> QED
    BY <2>1, <2>2, <2>3
<1> QED
  BY <1>2, <1>3

\* A coroutine goes on towards its stream, or in it.
LEMMA GoesOnInTime ==
  ASSUME SystemShape, SystemShape', Core, LeaseInv, HeardInv, ClocksFollow, NEW t \in Turns,
         (FindTurn(t) /\ OfVisible(t)) \/ StartTurn(t) \/ EngineSays(t)
  PROVE  LeaseInv' /\ HeardInv'
<1>1. UNCHANGED <<turn, task, granted, beat>>
  BY DEF FindTurn, StartTurn, EngineSays, Step, storeVars
<1>2. /\ \A u \in Turns : u # t => runner'[u] = runner[u]
      /\ runner[t].pc \in {"finding", "starting", "streaming"}
      /\ runner'[t].pc \in {"starting", "claiming", "appending"}
  <2>1. runner \in [Turns -> Coroutine] /\ runner[t] \in Coroutine
    BY DEF SystemShape, WorkerShape
  <2>2. \A next : /\ runner[t].pc \in {"finding", "starting", "streaming"}
                  /\ next.pc \in {"starting", "claiming", "appending"}
                  /\ runner' = [runner EXCEPT ![t] = next]
          => /\ \A u \in Turns : u # t => runner'[u] = runner[u]
             /\ runner[t].pc \in {"finding", "starting", "streaming"}
             /\ runner'[t].pc \in {"starting", "claiming", "appending"}
    BY <2>1
  <2>3. CASE FindTurn(t) /\ OfVisible(t)
    <3>1. [runner[t] EXCEPT !.pc = "starting"].pc = "starting"
      BY <2>1 DEF Coroutine
    <3> QED
      BY <2>2, <2>3, <3>1 DEF FindTurn, Step
  <2>4. CASE StartTurn(t)
    <3>1. [runner[t] EXCEPT !.pc = "claiming", !.position = 1].pc = "claiming"
      BY <2>1 DEF Coroutine
    <3> QED
      BY <2>2, <2>4, <3>1 DEF StartTurn, Step
  <2>5. CASE EngineSays(t)
    <3> DEFINE n == runner[t].position + 1
               next == [runner[t] EXCEPT !.pc = "appending", !.position = n, !.quiet = 0]
    <3>1. next.pc = "appending"
      BY <2>1 DEF Coroutine
    <3>2. runner[t].pc = "streaming" /\ runner' = [runner EXCEPT ![t] = next]
      BY <2>5 DEF EngineSays, Step
    <3> HIDE DEF next
    <3> QED
      BY <2>2, <3>1, <3>2
  <2> QED
    BY <2>3, <2>4, <2>5
<1>3. LeaseInv'
  <2>1. \A u \in Turns : task'[u].state \in {"queued", "running"} => turn'[u].state = "active"
    BY <1>1 DEF LeaseInv
  <2>2. /\ \A u \in Turns : runner[u].pc # "idle" => runner'[u].pc # "idle"
        /\ \A u \in Turns : runner'[u].pc \in Holders => runner[u].pc \in Holders
    BY <1>2 DEF Holders
  <2> QED
    BY <1>1, <2>1, <2>2, LeasesStay DEF ClocksFollow
<1>4. HeardInv'
  <2>1. \A u \in Turns : runner'[u].pc \in Holders \ {"finishing"}
          => runner[u].pc \in Holders \ {"finishing"}
    BY <1>2 DEF Holders
  <2> QED
    BY <1>1, <2>1, HeardStays
<1> QED
  BY <1>3, <1>4

LEMMA ClaimInTime ==
  ASSUME InTime, SystemShape, SystemShape', Core, LeaseInv, HeardInv, ClocksFollow, Claim
  PROVE  LeaseInv' /\ HeardInv'
<1>1. PICK batch \in ClaimBatches(Worker, 0, MaxRunning - Cardinality(Running)) :
        ClaimTasks(batch, LeaseTime) /\ granted' = batch
  BY DEF Claim
<1>2. batch \subseteq Turns /\ \A t \in batch : task[t].state = "queued"
  BY <1>1 DEF ClaimBatches, Claimable
<1>3. UNCHANGED <<turn, runner, beat>> /\ granted = {}
  BY DEF Claim, ClaimTasks
<1>4. /\ \A t \in batch : task'[t] = [state |-> "running", lease |-> LeaseTime]
      /\ \A t \in Turns \ batch : task'[t] = task[t]
  BY <1>1, <1>2 DEF ClaimTasks
<1>5. grantAge' = 0
  BY <1>3 DEF ClocksFollow, LeaseInv
<1>6. \A t \in batch : turn[t].state = "active" /\ runner[t].pc \notin Holders
  BY <1>2 DEF LeaseInv, Core, PlacesInv, OneCoroutine, Holders
<1>7. LeaseInv'
  <2>1. LeaseTime > 0 /\ LeaseTime >= LeaseTime - 0
    BY AgesAreSmall DEF InTime
  <2>2. \A t \in granted' : /\ turn'[t].state = "active" /\ task'[t].state = "running"
                            /\ task'[t].lease > 0 /\ task'[t].lease >= LeaseTime - grantAge'
    BY <1>1, <1>3, <1>4, <1>5, <1>6, <2>1
  <2>3. \A t \in Turns : runner'[t].pc \in Holders =>
          /\ turn'[t].state = "active" /\ task'[t].state = "running"
          /\ task'[t].lease > 0 /\ task'[t].lease > Due(t)'
    BY <1>3, <1>4, <1>6 DEF LeaseInv, Holds, Due
  <2>4. \A t \in Turns : task'[t].state \in {"queued", "running"} => turn'[t].state = "active"
    BY <1>3, <1>4, <1>6 DEF LeaseInv
  <2> QED
    BY <1>3, <1>5, <2>2, <2>3, <2>4 DEF LeaseInv, Holds
<1>8. HeardInv'
  <2>1. \A t \in Turns : runner'[t].pc \in Holders \ {"finishing"}
          => runner[t].pc \in Holders \ {"finishing"}
    BY <1>3
  <2> QED
    BY <1>3, <2>1, HeardStays
<1> QED
  BY <1>7, <1>8

\* A task dispatched late has still its lease for the renewal under way, which leaves it out, and
\* for the next.
LEMMA DispatchInTime ==
  ASSUME InTime, SystemShape, SystemShape', Core, LeaseInv, HeardInv, ClocksFollow, Dispatch
  PROVE  LeaseInv' /\ HeardInv'
<1>1. UNCHANGED <<turn, task, beat>> /\ granted' = {}
  BY DEF Dispatch, storeVars
<1>2. \A t \in granted : /\ t \in Turns /\ runner[t].pc = "idle" /\ runner'[t].pc = "finding"
                         /\ Holds(t, 0) /\ task[t].lease >= LeaseTime - grantAge
  BY DEF Dispatch, LeaseInv, SystemShape, WorkerShape, NoRunner, Core, PlacesInv, OneCoroutine
<1>3. \A t \in Turns \ granted : runner'[t] = runner[t]
  BY DEF Dispatch
<1>4. \A t \in Turns : Due(t)' = Due(t)
  BY <1>1 DEF Due
<1>5. LeaseInv'
  <2>1. \A t \in granted : task[t].lease > Due(t)
    <3> SUFFICES ASSUME NEW t \in granted PROVE task[t].lease > Due(t)
      OBVIOUS
    <3>1. t \in Turns /\ task[t].lease >= LeaseTime - grantAge /\ task[t].lease \in Int
      BY <1>2, AgesAreSmall
    <3>2. Due(t) \in 0..Heartbeat + 2 * MaxAge
      BY <3>1, DueBounds
    <3> QED
      BY <3>1, <3>2, AgesAreSmall DEF InTime
  <2>2. ASSUME NEW t \in Turns, runner'[t].pc \in Holders
        PROVE  /\ turn'[t].state = "active" /\ task'[t].state = "running"
               /\ task'[t].lease > 0 /\ task'[t].lease > Due(t)'
    BY <1>1, <1>2, <1>3, <1>4, <2>1, <2>2 DEF LeaseInv, Holds
  <2>3. \A t \in beat'.tasks : runner'[t].pc # "idle"
    BY <1>1, <1>2, <1>3, AgesAreSmall DEF LeaseInv
  <2> QED
    BY <1>1, <2>2, <2>3 DEF LeaseInv, Holds, ClocksFollow
<1>6. HeardInv'
  <2>1. \A t \in granted : ~Alive(t)
    BY <1>2 DEF Alive
  <2>2. \A t \in Turns : runner'[t].pc \in Holders \ {"finishing"}
          => ~Alive(t) \/ (runner[t].pc \in Holders \ {"finishing"} /\ beat' = beat)
    BY <1>1, <1>3, <2>1
  <2> QED
    BY <2>2, HeardStays
<1> QED
  BY <1>5, <1>6

\* The heartbeat takes all that run along, so each is renewed within the age of this request.
LEMMA BeatInTime ==
  ASSUME InTime, SystemShape, SystemShape', Core, LeaseInv, HeardInv, ClocksFollow, Goes, Beat
  PROVE  LeaseInv' /\ HeardInv'
<1>1. UNCHANGED <<turn, task, granted>>
  BY DEF Beat, storeVars
<1>2. /\ beat.tasks = {} /\ beat.since = Heartbeat
      /\ beat'.age = 0 /\ beat'.tasks = Running /\ beat'.since = 0
  BY AgesAreSmall DEF Beat, BeatDue, Resting
<1>3. \A t \in Turns : runner'[t].pc \in Holders =>
        /\ runner[t].pc \in Holders /\ t \in beat'.tasks /\ beat'.tasks # {}
        /\ Due(t)' = Due(t) /\ Unheard(t)' = Unheard(t)
  <2> SUFFICES ASSUME NEW t \in Turns, runner'[t].pc \in Holders
               PROVE  /\ runner[t].pc \in Holders /\ t \in beat'.tasks /\ beat'.tasks # {}
                      /\ Due(t)' = Due(t) /\ Unheard(t)' = Unheard(t)
    OBVIOUS
  <2>1. runner[t].pc \in Holders
    BY GoesHolds
  <2>2. t \in beat'.tasks
    BY <1>2, <2>1 DEF Running, Alive, Holders
  <2> QED
    BY <1>2, <2>1, <2>2, AgesAreSmall DEF Due, Unheard
<1>4. LeaseInv'
  <2>1. \A t \in beat'.tasks : runner'[t].pc # "idle"
    BY <1>2, GoesHolds DEF Running, Alive
  <2>2. \A t \in granted' : /\ turn'[t].state = "active" /\ task'[t].state = "running"
                            /\ task'[t].lease > 0 /\ task'[t].lease >= LeaseTime - grantAge'
    BY <1>1 DEF LeaseInv, Holds, ClocksFollow
  <2> QED
    BY <1>1, <1>3, <2>1, <2>2 DEF LeaseInv, Holds, ClocksFollow
<1>5. HeardInv'
  <2> SUFFICES ASSUME NEW t \in Turns
               PROVE  /\ ~Alive(t)' \/ t \notin asked' => unheard'[t] = 0
                      /\ runner'[t].pc \in Holders \ {"finishing"} => unheard'[t] <= Unheard(t)'
    BY DEF HeardInv
  <2>1. unheard'[t] = IF Alive(t)' /\ t \in asked THEN unheard[t] ELSE 0
    BY DEF ClocksFollow
  <2>2. ASSUME runner'[t].pc \in Holders \ {"finishing"}
        PROVE  unheard[t] <= Unheard(t)' /\ 0 <= Unheard(t)'
    <3>1. runner[t].pc \in Holders \ {"finishing"}
      BY <2>2, GoesHolds
    <3> QED
      BY <1>3, <2>2, <3>1, UnheardLater DEF HeardInv
  <2> QED
    BY <2>1, <2>2 DEF ClocksFollow
<1> QED
  BY <1>4, <1>5

\* A renewal answered renews every runner it took along, and stops those it was asked to; the
\* rest wait for the next.
LEMMA RenewInTime ==
  ASSUME InTime, SystemShape, SystemShape', Core, LeaseInv, HeardInv, ClocksFollow, Goes, Renew
  PROVE  LeaseInv' /\ HeardInv'
<1> USE AgesAreSmall
<1>1. /\ UNCHANGED <<turn, granted>> /\ TypeOK
      /\ beat.tasks # {} /\ beat'.tasks = {} /\ beat'.since = 0 /\ beat'.age = 0
  BY DEF Renew, RenewLeases, Resting, SystemShape
<1>2. \A t \in Turns :
        task'[t] = IF t \in Renewed(beat.tasks, -beat.age)
                   THEN [task[t] EXCEPT !.lease = LeaseTime - beat.age] ELSE task[t]
  BY DEF Renew, RenewLeases
<1>3. ASSUME NEW t \in beat.tasks, runner[t].pc \in Holders
      PROVE  t \in Renewed(beat.tasks, -beat.age)
  <2>1. task[t].state = "running" /\ task[t].lease > 0 /\ task[t].lease \in Int
    BY <1>3 DEF LeaseInv, Holds
  <2> QED
    BY <2>1 DEF Renewed
<1>4. \A t \in Turns : task'[t].state = task[t].state
  BY <1>1, <1>2 DEF TypeOK
<1>5. \A t \in granted : t \in Turns /\ task'[t] = task[t]
  <2>1. \A t \in granted : t \in Turns /\ runner[t].pc = "idle"
    BY DEF Core, PlacesInv, OneCoroutine, WorkerShape
  <2> QED
    BY <1>2, <2>1 DEF LeaseInv, Renewed
<1>6. ASSUME NEW t \in Turns, runner[t].pc \in Holders
      PROVE  /\ turn'[t].state = "active" /\ task'[t].state = "running"
             /\ task'[t].lease > 0 /\ task'[t].lease > Due(t)'
  <2>1. /\ turn[t].state = "active" /\ task[t].state = "running"
        /\ task[t].lease > 0 /\ task[t].lease > Due(t) /\ task[t].lease \in Int
    BY <1>6 DEF LeaseInv, Holds
  <2>2. Due(t)' = Heartbeat + MaxAge
    BY <1>1 DEF Due
  <2>3. CASE t \in beat.tasks
    <3>1. task'[t].lease = LeaseTime - beat.age
      BY <1>1, <1>2, <1>3, <1>6, <2>3 DEF TypeOK
    <3> QED
      BY <1>1, <1>4, <2>1, <2>2, <3>1 DEF InTime
  <2>4. CASE t \notin beat.tasks
    <3>1. task'[t] = task[t]
      BY <1>2, <2>4 DEF Renewed
    <3>2. Due(t) = MaxAge - beat.age + Heartbeat + MaxAge
      BY <1>1, <2>4 DEF Due
    <3> QED
      BY <1>1, <2>1, <2>2, <3>1, <3>2
  <2> QED
    BY <2>3, <2>4
<1>7. LeaseInv'
  <2>1. \A t \in granted' : /\ turn'[t].state = "active" /\ task'[t].state = "running"
                            /\ task'[t].lease > 0 /\ task'[t].lease >= LeaseTime - grantAge'
    BY <1>1, <1>5 DEF LeaseInv, Holds, ClocksFollow
  <2>2. \A t \in Turns : runner'[t].pc \in Holders => runner[t].pc \in Holders
    BY GoesHolds
  <2> QED
    BY <1>1, <1>4, <1>6, <2>1, <2>2 DEF LeaseInv, Holds, ClocksFollow
<1>8. HeardInv'
  <2> SUFFICES ASSUME NEW t \in Turns
               PROVE  /\ ~Alive(t)' \/ t \notin asked' => unheard'[t] = 0
                      /\ runner'[t].pc \in Holders \ {"finishing"} => unheard'[t] <= Unheard(t)'
    BY DEF HeardInv
  <2>1. unheard'[t] = IF Alive(t)' /\ t \in asked THEN unheard[t] ELSE 0
    BY DEF ClocksFollow
  <2>2. ASSUME runner'[t].pc \in Holders \ {"finishing"}
        PROVE  unheard'[t] <= Unheard(t)'
    <3>1. runner[t].pc \in Holders \ {"finishing"} /\ unheard[t] <= Unheard(t)
      BY <2>2, GoesHolds DEF HeardInv
    <3>2. Unheard(t)' = MaxAge
      BY <1>1 DEF Unheard
    <3>3. CASE t \in beat.tasks
      <4>1. t \in Renewed(beat.tasks, -beat.age) /\ t \in Running
        BY <1>3, <3>1, <3>3 DEF Running, Alive, Holders
      <4>2. Stop(StopsMissed(beat.tasks, -beat.age)) /\ PlacesInv
        BY DEF Renew, Core
      <4>3. t \in StopsMissed(beat.tasks, -beat.age) => runner'[t].pc \in Late
        BY <4>1, <4>2, StopGoes
      <4>4. t \notin asked
        BY <2>2, <4>1, <4>3 DEF StopsMissed, Late, Holders
      <4> QED
        BY <2>1, <3>2, <4>4
    <3>4. CASE t \notin beat.tasks
      <4>1. Unheard(t) = beat.age
        BY <1>1, <3>4 DEF Unheard
      <4> QED
        BY <2>1, <3>1, <3>2, <4>1
    <3> QED
      BY <3>3, <3>4
  <2> QED
    BY <2>1, <2>2 DEF ClocksFollow
<1> QED
  BY <1>7, <1>8

\* Every step of the worker's.
LEMMA WorkerInTime ==
  ASSUME InTime, SystemShape, SystemShape', Core, LeaseInv, HeardInv, ByWorker(WorkerNext)
  PROVE  LeaseInv' /\ HeardInv'
<1> PlacesInv
  BY DEF Core
<1>1. WorkerNext /\ (asked' = asked => ClocksFollow)
  BY DEF ByWorker, ClocksFollow
<1> DEFINE Kept == LeaseInv' /\ HeardInv'
<1>2. ASSUME Settled, UNCHANGED <<turn, task, asked, beat>>, granted' \subseteq granted
      PROVE  Kept
  BY <1>1, <1>2, GoesInTime DEF Settled, Settles
<1>3. ASSUME NEW q \in requests, Execute(q) \/ TimeOut(q) \/ Lose(q)
      PROVE  Kept
  <2>1. CASE Execute(q)
    <3>1. asked' = asked
      BY <2>1 DEF Execute, Accepts, AppendEvent, FinishTurn, storeVars
    <3> QED
      BY <1>1, <2>1, <3>1, ExecuteInTime
  <2>2. CASE TimeOut(q)
    BY <2>2 DEF TimeOut, InTime
  <2>3. CASE Lose(q)
    BY <1>2, <2>3, GivenUp DEF Lose, storeVars
  <2> QED
    BY <1>3, <2>1, <2>2, <2>3
<1>4. ASSUME NEW t \in Turns,
             \/ FindTurn(t) \/ StartTurn(t) \/ StartFails(t)
             \/ EngineSays(t) \/ EngineDone(t) \/ EngineFails(t)
      PROVE  Kept
  <2>1. UNCHANGED <<turn, task, asked, granted, beat>>
    BY <1>4
    DEF FindTurn, StartTurn, StartFails, EngineSays, EngineDone, EngineFails, Step, storeVars
  <2>2. CASE (FindTurn(t) /\ OfVisible(t)) \/ StartTurn(t) \/ EngineSays(t)
    BY <1>1, <2>1, <2>2, GoesOnInTime
  <2>3. CASE StartFails(t) \/ EngineDone(t) \/ EngineFails(t) \/ (FindTurn(t) /\ ~OfVisible(t))
    BY <1>2, <2>1, <2>3, EndsByItself
  <2> QED
    BY <1>4, <2>2, <2>3
<1>5. ASSUME NEW t \in Turns, HearCancel(t) \/ MissCancel(t) \/ EndCancelled(t)
      PROVE  Kept
  <2>1. UNCHANGED <<turn, task, asked, granted, beat>>
    BY <1>5 DEF HearCancel, MissCancel, EndCancelled, storeVars
  <2>2. Settled
    BY <1>5, SomeStopped, NobodyMoves, CancelEnds
  <2> QED
    BY <1>2, <2>1, <2>2
<1>6. ASSUME Claim PROVE Kept
  <2>1. asked' = asked
    BY <1>6 DEF Claim, ClaimTasks
  <2> QED
    BY <1>1, <1>6, <2>1, ClaimInTime
<1>7. ASSUME Dispatch PROVE Kept
  BY <1>1, <1>7, DispatchInTime DEF Dispatch, storeVars
<1>8. ASSUME LoseClaim \/ LoseRenewal PROVE Kept
  BY <1>8 DEF LoseClaim, LoseRenewal, InTime
<1>9. ASSUME Beat PROVE Kept
  <2>1. Goes /\ asked' = asked
    BY <1>9, SomeInterrupted DEF Settled, Settles, Beat, storeVars
  <2> QED
    BY <1>1, <1>9, <2>1, BeatInTime
<1>10. ASSUME Renew PROVE Kept
  <2>1. Goes /\ asked' = asked
    BY <1>10, SomeStopped DEF Settled, Settles, Renew, RenewLeases
  <2> QED
    BY <1>1, <1>10, <2>1, RenewInTime
<1>11. ASSUME BeginStop \/ DrainOver \/ Start PROVE Kept
  <2>1. UNCHANGED <<turn, task, asked, beat>> /\ granted' \subseteq granted
    BY <1>11 DEF BeginStop, DrainOver, Start, storeVars
  <2>2. Settled
    BY <1>11, SomeInterrupted, NobodyMoves
  <2> QED
    BY <1>2, <2>1, <2>2
<1>12. ASSUME EndStop \/ Crash PROVE Kept
  <2>1. asked' = asked
    BY <1>12 DEF EndStop, Crash, storeVars
  <2> QED
    BY <1>1, <1>12, <2>1, EndsInTime
<1> HIDE DEF Kept
<1>13. \/ \E q \in requests : Execute(q) \/ TimeOut(q) \/ Lose(q)
       \/ \E t \in Turns : \/ FindTurn(t) \/ StartTurn(t) \/ StartFails(t)
                          \/ EngineSays(t) \/ EngineDone(t) \/ EngineFails(t)
       \/ \E t \in Turns : HearCancel(t) \/ MissCancel(t) \/ EndCancelled(t)
       \/ Claim \/ Dispatch \/ LoseClaim \/ LoseRenewal \/ Beat \/ Renew
       \/ BeginStop \/ DrainOver \/ Start \/ EndStop \/ Crash
  BY <1>1 DEF WorkerNext
<1>14. Kept
  BY <1>3, <1>4, <1>5, <1>6, <1>7, <1>8, <1>9, <1>10, <1>11, <1>12, <1>13
<1> QED
  BY <1>14 DEF Kept

LEMMA InTimeStep ==
  ASSUME InTime, SystemShape, Core, LeaseInv, HeardInv, [SystemNext]_systemVars
  PROVE  LeaseInv' /\ HeardInv'
<1>1. SystemShape'
  BY SystemStep
<1>2. CASE ByWorker(WorkerNext)
  BY <1>1, <1>2, WorkerInTime
<1>3. CASE Tick
  BY <1>3, TickInTime
<1>4. CASE \/ \E s \in Sessions : UserStarts(s) \/ UserDeletes(s)
           \/ \E s \in Sessions, t \in Turns, newQuestion \in BOOLEAN : UserAsks(s, t, newQuestion)
           \/ \E t \in Turns : UserCancels(t)
           \/ \E r \in Readers, t \in Turns : Look(r, t) \/ SweepLooks(r, t)
           \/ \E r \in Readers : ReadEvents(r) \/ EndTurn(r) \/ SweepEnds(r)
           \/ UNCHANGED systemVars
  BY <1>4, ServerInTime
<1> QED
  BY <1>2, <1>3, <1>4 DEF SystemNext

LEMMA InTimeInvariants ==
  ASSUME InTime
  PROVE  SystemSpec => [](SystemShape /\ Core /\ LeaseInv /\ HeardInv)
<1>1. SystemInit => LeaseInv /\ HeardInv
  BY DEF SystemInit, Init, WorkerInit, LeaseInv, HeardInv, Holders, NoRunner, NoTask, NoTurn,
         Resting
<1>2. SystemShape /\ Core /\ LeaseInv /\ HeardInv /\ [SystemNext]_systemVars
        => (SystemShape /\ Core /\ LeaseInv /\ HeardInv)'
  BY SystemStep, InTimeStep
<1> QED
  BY <1>1, <1>2, SystemBegins, PTL DEF SystemSpec

\* A live runner never loses its turn to a reader or to the sweep, and no write of its is refused
\* but of a deleted session's, if requests do not time out and the lease outlasts a heartbeat and
\* three of the longest requests: whatever number of turns and readers there are, and whenever
\* the worker is told to stop or dies.
THEOREM SystemInvAlways ==
  ASSUME ~Unreliable, LeaseTime > Heartbeat + 3 * MaxAge
  PROVE  SystemSpec => []SystemInv
<1>1. LeaseInv => RunnerHoldsItsTurn
  BY DEF LeaseInv, Holders, RunnerHoldsItsTurn
<1>2. InTime
  BY DEF InTime
<1>3. SystemSpec => []LeaseInv
  BY <1>2, InTimeInvariants, PTL
<1> QED
  BY <1>1, <1>3, SystemTypesAlways, PTL DEF SystemInv

\* Under the same timing a cancel whose announcement was lost is heard: the runner streams for at
\* most a heartbeat and two of the longest requests after the user asked it to stop.
THEOREM CancelHeardInTimeAlways ==
  ASSUME ~Unreliable, LeaseTime > Heartbeat + 3 * MaxAge
  PROVE  SystemSpec => []CancelHeardInTime
<1>1. SystemShape /\ HeardInv => CancelHeardInTime
  <2> SUFFICES ASSUME SystemShape, HeardInv, NEW t \in Turns,
                      runner[t].pc \in {"finding", "starting", "claiming", "streaming", "appending"}
               PROVE  unheard[t] <= Heartbeat + 2 * MaxAge
    BY DEF CancelHeardInTime
  <2>1. unheard[t] <= Unheard(t)
    BY DEF HeardInv, Holders
  <2> QED
    BY <2>1, AgesAreSmall, DueBounds
<1>2. InTime
  BY DEF InTime
<1> QED
  BY <1>1, <1>2, InTimeInvariants, PTL

=============================================================================
