--------------------------- MODULE TurnStoreProofs ---------------------------
(***************************************************************************)
(* What holds of the store for any sessions, turns, workers, times and     *)
(* documents, proved: its invariant, and then its contract. Each turn gets *)
(* one answer at most, stored with its end, every step of TurnStore is a   *)
(* step of TurnContract or leaves what it speaks of alone, and what has    *)
(* ended stays as it ended.                                                *)
(***************************************************************************)
EXTENDS TurnStore, FiniteSetTheorems, TLAPS

-----------------------------------------------------------------------------
(* The documents a turn ends with                                          *)

\* The last documents of an end are numbered upward from where the writer is: they are events
\* of the store's.
LEMMA NumberedType ==
  ASSUME NEW how \in Endings, NEW n \in Nat
  PROVE  Numbered(n, how.last) \subseteq StoredEvent
<1>1. /\ DOMAIN how.last \subseteq Nat \ {0}
      /\ \A i \in DOMAIN how.last : how.last[i] \in {"message_completed", "turn_ended"}
  BY DEF Endings
<1>2. SUFFICES ASSUME NEW i \in DOMAIN how.last
               PROVE  [position |-> n + i - 1, document |-> how.last[i]] \in StoredEvent
  BY DEF Numbered
<1>3. n + i - 1 \in Nat
  BY <1>1
<1> QED
  BY <1>1, <1>3 DEF StoredEvent, Documents

\* What an end keeps of its turn is a sequence of answers.
LEMMA KeptType ==
  ASSUME NEW how \in Endings, NEW t \in Turns
  PROVE  [i \in 1..Len(how.kept) |-> [turn |-> t, kind |-> how.kept[i]]] \in Seq(StoredMessage)
<1>1. how.kept \in {<<>>, <<"answer">>, <<"failed">>}
  BY DEF Endings
<1>2. /\ Len(how.kept) \in Nat
      /\ \A i \in 1..Len(how.kept) : how.kept[i] \in AnswerKinds
  BY <1>1 DEF AnswerKinds
<1> QED
  BY <1>2 DEF StoredMessage

\* An end leaves the turn in one of the four states a turn may end in.
LEMMA EndingState ==
  ASSUME NEW how \in Endings
  PROVE  how.state \in Outcomes
  BY DEF Endings, Outcomes

-----------------------------------------------------------------------------
(* Events numbered 1, 2, 3 and so on                                       *)

Contiguous(story) ==
  /\ IsFiniteSet(story)
  /\ \A e \in story : e.position \in 1..Cardinality(story)
  /\ \A n \in 1..Cardinality(story) : \E e \in story : e.position = n
  /\ \A e, f \in story : e.position = f.position => e = f

LEMMA NothingIsContiguous == Contiguous({}) /\ Cardinality({}) = 0
  BY FS_EmptySet DEF Contiguous

\* The next number.
LEMMA NextIsContiguous ==
  ASSUME NEW story, Contiguous(story), NEW document
  PROVE  LET e == [position |-> Cardinality(story) + 1, document |-> document]
         IN  /\ Contiguous(story \cup {e})
             /\ Cardinality(story \cup {e}) = Cardinality(story) + 1
<1> DEFINE e == [position |-> Cardinality(story) + 1, document |-> document]
           told == story \cup {e}
<1>1. Cardinality(story) \in Nat
  BY FS_CardinalityType DEF Contiguous
<1>2. e \notin story
  BY <1>1 DEF Contiguous
<1>3. IsFiniteSet(told) /\ Cardinality(told) = Cardinality(story) + 1
  BY <1>2, FS_AddElement DEF Contiguous
<1>4. \A f \in told : f.position \in 1..Cardinality(told)
  BY <1>1, <1>3 DEF Contiguous
<1>5. \A n \in 1..Cardinality(told) : \E f \in told : f.position = n
  <2> SUFFICES ASSUME NEW n \in 1..Cardinality(story) + 1
               PROVE  \E f \in told : f.position = n
    BY <1>3
  <2>1. CASE n = Cardinality(story) + 1
    <3>1. e \in told /\ e.position = n
      BY <2>1
    <3> QED
      BY <3>1
  <2>2. CASE n \in 1..Cardinality(story)
    BY <2>2 DEF Contiguous
  <2> QED
    BY <1>1, <2>1, <2>2
<1>6. \A f, g \in told : f.position = g.position => f = g
  BY <1>1 DEF Contiguous
<1> QED
  BY <1>3, <1>4, <1>5, <1>6 DEF Contiguous

-----------------------------------------------------------------------------
(* What anybody may call                                                   *)

\* The leases move, and nothing else: they are renewed, or time passes.
LeasesMove ==
  /\ task' \in [Turns -> [state : {"none", "queued", "running", "done"}, lease : Int]]
  /\ \A t \in Turns : task'[t].state = task[t].state
  /\ UNCHANGED <<session, turn, asked, events, messages>>

\* The store's operations at any time whatever and with any lease, by a writer that got to any
\* number: the modules in which time passes take no other steps either.
StoreCalls ==
  \/ \E s \in Sessions : AddSession(s) \/ HideSession(s)
  \/ \E s \in Sessions, now \in Int : PurgeSession(s, now)
  \/ \E s \in Sessions, t \in Turns, newQuestion \in BOOLEAN, until \in Int :
       QueueTurn(s, t, newQuestion, until)
  \/ \E batch \in SUBSET Turns, until \in Int :
       (\A t \in batch : task[t].state = "queued") /\ ClaimTasks(batch, until)
  \/ \E t \in Turns, n \in Nat, document \in Pieces, writtenAt \in Int :
       Write(t, n, document, writtenAt)
  \/ \E t \in Turns, how \in Endings, n \in Nat, endedAt \in Int : End(t, how, n, endedAt)
  \/ \E t \in Turns, now \in Int : EndExpiredTurn(t, now) \/ SweepHidden(t, now)
  \/ \E t \in Turns : RequestCancel(t)
  \/ LeasesMove

LEMMA RenewMoves ==
  ASSUME TypeOK, NEW batch, NEW now, NEW until \in Int, RenewLeases(batch, now, until)
  PROVE  LeasesMove
<1>1. \A t \in Turns : /\ task'[t].state = task[t].state
                       /\ task'[t] \in [state : {"none", "queued", "running", "done"}, lease : Int]
  BY DEF TypeOK, RenewLeases
<1>2. task' = [t \in Turns |-> task'[t]]
  BY DEF RenewLeases
<1>3. task' \in [Turns -> [state : {"none", "queued", "running", "done"}, lease : Int]]
  BY <1>1, <1>2
<1> QED
  BY <1>1, <1>3 DEF LeasesMove, RenewLeases

LEMMA NextCalls == TypeOK /\ [Next]_storeVars => [StoreCalls]_storeVars
<1> SUFFICES ASSUME TypeOK, Next
             PROVE  StoreCalls
  BY DEF storeVars
<1>0. \A now \in Times : now \in Int /\ now + QueuedTime \in Int /\ now + LeaseTime \in Int
  BY StoreAssumption
<1>1. CASE \E s \in Sessions : AddSession(s) \/ HideSession(s)
  BY <1>1 DEF StoreCalls
<1>2. CASE \E s \in Sessions, now \in Times : PurgeSession(s, now)
  BY <1>0, <1>2 DEF StoreCalls
<1>3. ASSUME NEW s \in Sessions, NEW t \in Turns, NEW newQuestion \in BOOLEAN, NEW now \in Times,
             QueueTurn(s, t, newQuestion, now + QueuedTime)
      PROVE  StoreCalls
  BY <1>0, <1>3 DEF StoreCalls
<1>4. ASSUME NEW w \in Workers, NEW now \in Times, NEW limit,
             NEW batch \in ClaimBatches(w, now, limit), ClaimTasks(batch, now + LeaseTime)
      PROVE  StoreCalls
  <2>1. batch \in SUBSET Turns /\ \A t \in batch : task[t].state = "queued"
    BY DEF ClaimBatches, Claimable
  <2> QED
    BY <1>0, <1>4, <2>1 DEF StoreCalls
<1>5. CASE \E t \in Turns, n \in Positions, document \in Pieces, writtenAt \in Times :
             Write(t, n, document, writtenAt)
  BY <1>0, <1>5, StoreAssumption DEF StoreCalls
<1>6. CASE \E t \in Turns, how \in Endings, n \in Positions, endedAt \in Times :
             End(t, how, n, endedAt)
  BY <1>0, <1>6, StoreAssumption DEF StoreCalls
<1>7. CASE \E t \in Turns, now \in Times : EndExpiredTurn(t, now) \/ SweepHidden(t, now)
  BY <1>0, <1>7 DEF StoreCalls
<1>8. ASSUME NEW batch \in SUBSET Turns, NEW now \in Times, RenewLeases(batch, now, now + LeaseTime)
      PROVE  StoreCalls
  <2>1. LeasesMove
    BY <1>0, <1>8, RenewMoves
  <2> QED
    BY <2>1 DEF StoreCalls
<1>9. CASE \E t \in Turns : RequestCancel(t)
  BY <1>9 DEF StoreCalls
<1> QED
  BY <1>1, <1>2, <1>3, <1>4, <1>5, <1>6, <1>7, <1>8, <1>9 DEF Next

-----------------------------------------------------------------------------
(* Type correctness                                                        *)

LEMMA InitType == Init => TypeOK
  BY StoreAssumption DEF Init, TypeOK, NoTurn, NoTask, Outcomes

\* What is stored of a session, one that is kept or not, being messages, messages are stored.
LEMMA MessagesType ==
  ASSUME NEW s, NEW stored, TypeOK,
         s \in Sessions => stored \in Seq(StoredMessage),
         messages' = [messages EXCEPT ![s] = stored]
  PROVE  messages' \in [Sessions -> Seq(StoredMessage)]
<1>1. messages \in [Sessions -> Seq(StoredMessage)]
  BY DEF TypeOK
<1>2. CASE s \in Sessions
  BY <1>1, <1>2
<1>3. CASE s \notin Sessions
  <2>1. messages' = messages
    BY <1>1, <1>3
  <2> QED
    BY <1>1, <2>1
<1> QED
  BY <1>2, <1>3

LEMMA QueueType ==
  ASSUME TypeOK, NEW s \in Sessions, NEW t \in Turns, NEW newQuestion \in BOOLEAN,
         NEW until \in Int, QueueTurn(s, t, newQuestion, until)
  PROVE  TypeOK'
<1>1. [turn |-> t, kind |-> "question"] \in StoredMessage
  BY DEF StoredMessage
<1>2. messages' \in [Sessions -> Seq(StoredMessage)]
  BY <1>1 DEF TypeOK, QueueTurn
<1> QED
  BY <1>2 DEF TypeOK, QueueTurn

LEMMA ClaimType ==
  ASSUME TypeOK, NEW batch, NEW until \in Int, ClaimTasks(batch, until)
  PROVE  TypeOK'
  BY DEF TypeOK, ClaimTasks

LEMMA AppendType ==
  ASSUME TypeOK, NEW t \in Turns, NEW n \in Nat, NEW document \in Documents, NEW writtenAt,
         AppendEvent(t, n, document, writtenAt)
  PROVE  TypeOK'
<1>1. [position |-> n, document |-> document] \in StoredEvent
  BY DEF StoredEvent
<1> QED
  BY <1>1 DEF TypeOK, AppendEvent

LEMMA FinishType ==
  ASSUME TypeOK, NEW t \in Turns, NEW how \in Endings, NEW n \in Nat, NEW endedAt,
         FinishTurn(t, how.state, endedAt, how.kept, Numbered(n, how.last))
  PROVE  TypeOK'
<1> DEFINE last == Numbered(n, how.last)
           kept == [i \in 1..Len(how.kept) |-> [turn |-> t, kind |-> how.kept[i]]]
<1>1. last \subseteq StoredEvent
  BY NumberedType
<1>2. kept \in Seq(StoredMessage)
  BY KeptType
<1>3. how.state \in Outcomes
  BY EndingState
<1> HIDE DEF last, kept
<1>4. FinishTurn(t, how.state, endedAt, how.kept, last)
  BY DEF last
<1>5. /\ session' = session /\ asked' = asked
      /\ task' = [task EXCEPT ![t].state = "done"]
      /\ messages' = [messages EXCEPT ![turn[t].session] = messages[turn[t].session] \o kept]
      /\ events' = [events EXCEPT ![t] = @ \cup last]
      /\ turn' = [turn EXCEPT ![t].state = how.state]
  BY <1>4 DEF FinishTurn, kept
<1>6. messages' \in [Sessions -> Seq(StoredMessage)]
  <2>1. turn[t].session \in Sessions => messages[turn[t].session] \o kept \in Seq(StoredMessage)
    BY <1>2 DEF TypeOK
  <2> QED
    BY <1>5, <2>1, MessagesType
<1>7. events' \in [Turns -> SUBSET StoredEvent]
  BY <1>1, <1>5 DEF TypeOK
<1>8. turn' \in [Turns -> [state : {"none", "active"} \cup Outcomes,
                           session : Sessions \cup {NoSession}]]
  BY <1>3, <1>5 DEF TypeOK
<1>9. task' \in [Turns -> [state : {"none", "queued", "running", "done"}, lease : Int]]
  BY <1>5 DEF TypeOK
<1> QED
  BY <1>5, <1>6, <1>7, <1>8, <1>9 DEF TypeOK

LEMMA ExpiredType ==
  ASSUME TypeOK, NEW t \in Turns, NEW now, EndExpiredTurn(t, now)
  PROVE  TypeOK'
<1> DEFINE answer == [turn |-> t, kind |-> "failed"]
<1>1. turn[t].session \in Sessions
        => Append(messages[turn[t].session], answer) \in Seq(StoredMessage)
  <2>1. answer \in StoredMessage
    BY DEF StoredMessage, AnswerKinds
  <2> QED
    BY <2>1 DEF TypeOK
<1>2. messages' = [messages EXCEPT ![turn[t].session] = Append(messages[turn[t].session], answer)]
  BY DEF EndExpiredTurn
<1>3. messages' \in [Sessions -> Seq(StoredMessage)]
  BY <1>1, <1>2, MessagesType
<1>4. turn' = [turn EXCEPT ![t].state = "interrupted"] /\ "interrupted" \in Outcomes
  BY DEF EndExpiredTurn, Outcomes
<1>5. turn' \in [Turns -> [state : {"none", "active"} \cup Outcomes,
                           session : Sessions \cup {NoSession}]]
  BY <1>4 DEF TypeOK
<1>6. task' = [task EXCEPT ![t].state = "done"] /\ UNCHANGED <<session, asked, events>>
  BY DEF EndExpiredTurn
<1>7. task' \in [Turns -> [state : {"none", "queued", "running", "done"}, lease : Int]]
  BY <1>6 DEF TypeOK
<1> QED
  BY <1>3, <1>5, <1>6, <1>7 DEF TypeOK

LEMMA RenewType ==
  ASSUME TypeOK, NEW batch, NEW now, NEW until \in Int, RenewLeases(batch, now, until)
  PROVE  TypeOK'
  BY DEF TypeOK, RenewLeases

LEMMA CancelType ==
  ASSUME TypeOK, NEW t \in Turns, RequestCancel(t)
  PROVE  TypeOK'
<1>1. CASE task[t].state = "queued"
  <2>1. /\ turn' = [turn EXCEPT ![t].state = "cancelled"] /\ "cancelled" \in Outcomes
        /\ task' = [task EXCEPT ![t].state = "done"]
        /\ UNCHANGED <<session, asked, events, messages>>
    BY <1>1 DEF RequestCancel, Outcomes
  <2>2. turn' \in [Turns -> [state : {"none", "active"} \cup Outcomes,
                             session : Sessions \cup {NoSession}]]
    BY <2>1 DEF TypeOK
  <2>3. task' \in [Turns -> [state : {"none", "queued", "running", "done"}, lease : Int]]
    BY <2>1 DEF TypeOK
  <2> QED
    BY <2>1, <2>2, <2>3 DEF TypeOK
<1>2. CASE task[t].state = "running"
  BY <1>2 DEF TypeOK, RequestCancel
<1> QED
  BY <1>1, <1>2 DEF RequestCancel

LEMMA CallsType == TypeOK /\ [StoreCalls]_storeVars => TypeOK'
<1> SUFFICES ASSUME TypeOK, [StoreCalls]_storeVars
             PROVE  TypeOK'
  OBVIOUS
<1> USE StoreAssumption
<1>1. ASSUME NEW s \in Sessions, AddSession(s) \/ HideSession(s)
      PROVE  TypeOK'
  BY <1>1 DEF TypeOK, AddSession, HideSession
<1>2. ASSUME NEW s \in Sessions, NEW now \in Int, PurgeSession(s, now)
      PROVE  TypeOK'
  <2>1. /\ session' = [session EXCEPT ![s] = "purged"]
        /\ turn' = [t \in Turns |-> IF turn[t].session = s THEN NoTurn ELSE turn[t]]
        /\ task' = [t \in Turns |-> IF turn[t].session = s THEN NoTask ELSE task[t]]
        /\ asked' \subseteq asked
        /\ events' = [t \in Turns |-> IF turn[t].session = s THEN {} ELSE events[t]]
        /\ messages' = [messages EXCEPT ![s] = <<>>]
    BY <1>2 DEF PurgeSession
  <2>2. messages' \in [Sessions -> Seq(StoredMessage)]
    BY <2>1 DEF TypeOK
  <2> QED
    BY <2>1, <2>2 DEF TypeOK, NoTurn, NoTask
<1>3. ASSUME NEW s \in Sessions, NEW t \in Turns, NEW newQuestion \in BOOLEAN, NEW until \in Int,
             QueueTurn(s, t, newQuestion, until)
      PROVE  TypeOK'
  BY <1>3, QueueType
<1>4. ASSUME NEW batch, NEW until \in Int, ClaimTasks(batch, until)
      PROVE  TypeOK'
  BY <1>4, ClaimType
<1>5. ASSUME NEW t \in Turns, NEW n \in Nat, NEW document \in Pieces, NEW writtenAt \in Int,
             Write(t, n, document, writtenAt)
      PROVE  TypeOK'
  <2>1. document \in Documents
    BY DEF Documents
  <2> QED
    BY <1>5, <2>1, AppendType DEF Write
<1>6. ASSUME NEW t \in Turns, NEW how \in Endings, NEW n \in Nat, NEW endedAt \in Int,
             End(t, how, n, endedAt)
      PROVE  TypeOK'
  BY <1>6, FinishType DEF End
<1>7. ASSUME NEW t \in Turns, NEW now \in Int, EndExpiredTurn(t, now)
      PROVE  TypeOK'
  BY <1>7, ExpiredType
<1>8. ASSUME NEW t \in Turns, NEW now \in Int, SweepHidden(t, now)
      PROVE  TypeOK'
  BY <1>8 DEF TypeOK, SweepHidden, EndExpiredTask
<1>9. CASE LeasesMove
  BY <1>9 DEF TypeOK, LeasesMove
<1>10. ASSUME NEW t \in Turns, RequestCancel(t)
       PROVE  TypeOK'
  BY <1>10, CancelType
<1>11. CASE UNCHANGED storeVars
  BY <1>11 DEF TypeOK, storeVars
<1> QED
  BY <1>1, <1>2, <1>3, <1>4, <1>5, <1>6, <1>7, <1>8, <1>9, <1>10, <1>11 DEF StoreCalls

\* The store's records keep their types whatever is called, in whatever order and at whatever
\* time.
THEOREM TypeCorrect == Spec => []TypeOK
  BY InitType, CallsType, NextCalls, PTL DEF Spec

-----------------------------------------------------------------------------
(* One active turn, and a task for it                                      *)

LEMMA InitInv == Init => StoreInv
  BY InitType, StoreAssumption
  DEF Init, StoreInv, OneActiveTurn, TaskFollowsTurn, TurnsOfKeptSessions, NoTurn, NoTask

\* A step that ends the active turn t, in a session that is visible, and its task with it.
LEMMA EndingInv ==
  ASSUME StoreInv, TypeOK', NEW t \in Turns, NEW state \in Outcomes,
         session' = session,
         turn' = [turn EXCEPT ![t].state = state],
         task' = [task EXCEPT ![t].state = "done"],
         turn[t].state # "none"
  PROVE  StoreInv'
<1> USE DEF StoreInv, TypeOK
<1>1. \A u \in Turns :
        /\ turn'[u].session = turn[u].session
        /\ u # t => turn'[u] = turn[u] /\ task'[u] = task[u]
  OBVIOUS
<1>2. turn'[t].state = state /\ task'[t].state = "done" /\ state \notin {"none", "active"}
  BY DEF Outcomes
<1>3. OneActiveTurn'
  BY <1>1, <1>2 DEF OneActiveTurn
<1>4. TaskFollowsTurn'
  BY <1>1, <1>2 DEF TaskFollowsTurn, OfVisible, Visible
<1>5. TurnsOfKeptSessions'
  BY <1>1, <1>2 DEF TurnsOfKeptSessions
<1> QED
  BY <1>3, <1>4, <1>5

\* A step that gives tasks other leases, or marks queued ones as running.
LEMMA LeasingInv ==
  ASSUME StoreInv, TypeOK', session' = session, turn' = turn,
         \A t \in Turns : \/ task'[t].state = task[t].state
                          \/ task[t].state = "queued" /\ task'[t].state = "running"
  PROVE  StoreInv'
<1>1. OneActiveTurn'
  BY DEF StoreInv, OneActiveTurn
<1>2. TaskFollowsTurn'
  BY DEF StoreInv, TaskFollowsTurn, OfVisible, Visible
<1>3. TurnsOfKeptSessions'
  BY DEF StoreInv, TurnsOfKeptSessions
<1> QED
  BY <1>1, <1>2, <1>3 DEF StoreInv

LEMMA CallsInv == StoreInv /\ [StoreCalls]_storeVars => StoreInv'
<1> SUFFICES ASSUME StoreInv, [StoreCalls]_storeVars
             PROVE  StoreInv'
  OBVIOUS
<1>0. TypeOK /\ TypeOK'
  BY CallsType DEF StoreInv
<1>1. ASSUME NEW s \in Sessions, AddSession(s) \/ HideSession(s)
      PROVE  StoreInv'
  <2>1. /\ UNCHANGED <<turn, task>>
        /\ \A x \in Sessions : x # s => session'[x] = session[x]
        /\ \/ session[s] = "unknown" /\ session'[s] = "visible"
           \/ session[s] = "visible" /\ session'[s] = "hidden"
    BY <1>0, <1>1 DEF AddSession, HideSession, Visible, TypeOK
  <2>2. TaskFollowsTurn'
    BY <2>1 DEF StoreInv, TaskFollowsTurn, TurnsOfKeptSessions, OfVisible, Visible
  <2>3. TurnsOfKeptSessions'
    BY <2>1 DEF StoreInv, TurnsOfKeptSessions
  <2> QED
    BY <1>0, <2>1, <2>2, <2>3 DEF StoreInv, OneActiveTurn
<1>2. ASSUME NEW s \in Sessions, NEW now \in Int, PurgeSession(s, now)
      PROVE  StoreInv'
  <2>1. /\ \A x \in Sessions : x # s => session'[x] = session[x]
        /\ \A t \in Turns : turn[t].session = s => turn'[t] = NoTurn /\ task'[t] = NoTask
        /\ \A t \in Turns : turn[t].session # s => turn'[t] = turn[t] /\ task'[t] = task[t]
    BY <1>0, <1>2 DEF PurgeSession, TypeOK
  <2>2. OneActiveTurn'
    BY <2>1 DEF StoreInv, OneActiveTurn, NoTurn
  <2>3. TaskFollowsTurn'
    BY <2>1 DEF StoreInv, TaskFollowsTurn, TurnsOfKeptSessions, OfVisible, Visible, NoTurn, NoTask
  <2>4. TurnsOfKeptSessions'
    BY <2>1 DEF StoreInv, TurnsOfKeptSessions, NoTurn
  <2> QED
    BY <1>0, <2>2, <2>3, <2>4 DEF StoreInv
<1>3. ASSUME NEW s \in Sessions, NEW t \in Turns, NEW newQuestion \in BOOLEAN, NEW until \in Int,
             QueueTurn(s, t, newQuestion, until)
      PROVE  StoreInv'
  <2>1. /\ session' = session /\ session[s] = "visible"
        /\ turn'[t] = [state |-> "active", session |-> s]
        /\ task'[t].state = "queued"
        /\ \A u \in Turns : u # t => turn'[u] = turn[u] /\ task'[u] = task[u]
        /\ \A u \in Turns : ~(turn[u].state = "active" /\ turn[u].session = s)
    BY <1>0, <1>3 DEF QueueTurn, ActiveTurns, Visible, TypeOK
  <2>2. OneActiveTurn'
    BY <2>1 DEF StoreInv, OneActiveTurn
  <2>3. TaskFollowsTurn'
    BY <2>1 DEF StoreInv, TaskFollowsTurn, OfVisible, Visible
  <2>4. TurnsOfKeptSessions'
    BY <2>1 DEF StoreInv, TurnsOfKeptSessions
  <2> QED
    BY <1>0, <2>2, <2>3, <2>4 DEF StoreInv
<1>4. ASSUME NEW batch \in SUBSET Turns, \A t \in batch : task[t].state = "queued",
             NEW until \in Int, ClaimTasks(batch, until)
      PROVE  StoreInv'
  <2>1. \A t \in batch : task[t].state = "queued"
    BY <1>4
  <2>2. \A t \in Turns : \/ task'[t].state = task[t].state
                         \/ task[t].state = "queued" /\ task'[t].state = "running"
    <3> SUFFICES ASSUME NEW t \in Turns
                 PROVE  \/ task'[t].state = task[t].state
                        \/ task[t].state = "queued" /\ task'[t].state = "running"
      OBVIOUS
    <3>1. CASE t \in batch
      BY <1>4, <2>1, <3>1 DEF ClaimTasks
    <3>2. CASE t \notin batch
      BY <1>4, <3>2 DEF ClaimTasks
    <3> QED
      BY <3>1, <3>2
  <2>3. session' = session /\ turn' = turn
    BY <1>4 DEF ClaimTasks
  <2> QED
    BY <1>0, <2>2, <2>3, LeasingInv
<1>5. ASSUME NEW t \in Turns, NEW n \in Nat, NEW document \in Pieces, NEW writtenAt \in Int,
             Write(t, n, document, writtenAt)
      PROVE  StoreInv'
  <2>1. session' = session /\ turn' = turn /\ task' = task
    BY <1>5 DEF Write, AppendEvent
  <2> QED
    BY <1>0, <2>1, LeasingInv
<1>6. ASSUME NEW t \in Turns, NEW how \in Endings, NEW n \in Nat, NEW endedAt \in Int,
             End(t, how, n, endedAt)
      PROVE  StoreInv'
  <2>1. /\ session' = session
        /\ turn' = [turn EXCEPT ![t].state = how.state]
        /\ task' = [task EXCEPT ![t].state = "done"]
        /\ turn[t].state # "none"
    BY <1>6 DEF End, FinishTurn, OfVisible
  <2> QED
    BY <1>0, <2>1, EndingState, EndingInv
<1>7. ASSUME NEW t \in Turns, NEW now \in Int, EndExpiredTurn(t, now)
      PROVE  StoreInv'
  <2>1. /\ session' = session
        /\ turn' = [turn EXCEPT ![t].state = "interrupted"]
        /\ task' = [task EXCEPT ![t].state = "done"]
        /\ turn[t].state # "none"
    BY <1>7 DEF EndExpiredTurn, OfVisible
  <2>2. "interrupted" \in Outcomes
    BY DEF Outcomes
  <2> QED
    BY <1>0, <2>1, <2>2, EndingInv
<1>8. ASSUME NEW t \in Turns, NEW now \in Int, SweepHidden(t, now)
      PROVE  StoreInv'
  <2>1. /\ UNCHANGED <<session, turn>>
        /\ turn[t].state # "none" /\ session[turn[t].session] = "hidden"
        /\ task'[t].state = "done"
        /\ \A u \in Turns : u # t => task'[u] = task[u]
    BY <1>0, <1>8 DEF SweepHidden, EndExpiredTask, TypeOK
  <2>2. TaskFollowsTurn'
    BY <2>1 DEF StoreInv, TaskFollowsTurn, OfVisible, Visible
  <2> QED
    BY <1>0, <2>1, <2>2 DEF StoreInv, OneActiveTurn, TurnsOfKeptSessions
<1>9. CASE LeasesMove
  BY <1>0, <1>9, LeasingInv DEF LeasesMove
<1>10. ASSUME NEW t \in Turns, RequestCancel(t)
       PROVE  StoreInv'
  <2>1. CASE task[t].state = "queued"
    <3>1. /\ session' = session
          /\ turn' = [turn EXCEPT ![t].state = "cancelled"] /\ "cancelled" \in Outcomes
          /\ task' = [task EXCEPT ![t].state = "done"]
          /\ turn[t].state # "none"
      BY <1>10, <2>1 DEF RequestCancel, OfVisible, Outcomes
    <3> QED
      BY <1>0, <3>1, EndingInv
  <2>2. CASE task[t].state = "running"
    <3>1. session' = session /\ turn' = turn /\ task' = task
      BY <1>10, <2>2 DEF RequestCancel
    <3> QED
      BY <1>0, <3>1, LeasingInv
  <2> QED
    BY <1>10, <2>1, <2>2 DEF RequestCancel
<1>11. CASE UNCHANGED storeVars
  <2>1. session' = session /\ turn' = turn /\ task' = task
    BY <1>11 DEF storeVars
  <2> QED
    BY <1>0, <2>1, LeasingInv
<1> QED
  BY <1>1, <1>2, <1>3, <1>4, <1>5, <1>6, <1>7, <1>8, <1>9, <1>10, <1>11 DEF StoreCalls

\* The store's own steps are calls.
LEMMA SpecCalls == Spec => Init /\ [][StoreCalls]_storeVars
  BY TypeCorrect, NextCalls, PTL DEF Spec

THEOREM StoreInvariant == Spec => []StoreInv
  BY SpecCalls, InitInv, CallsInv, PTL

\* A task that waits or runs always has an active turn, and a turn a user can see active always has
\* a task that waits or runs, whose lease can lapse: it can always be ended.
THEOREM TaskFollowsTurnAlways == Spec => []TaskFollowsTurn
  BY StoreInvariant, PTL DEF StoreInv

-----------------------------------------------------------------------------
(* The events of a turn, and the one that ends it                          *)

EventInv == StoreInv /\ NothingToldOfNone /\ TurnEndedIsLast

\* The last documents of an end: the one that says the turn ended has the last position.
LEMMA NumberedLast ==
  ASSUME NEW how \in Endings, NEW n \in Nat
  PROVE  \A e, f \in Numbered(n, how.last) :
           e.document = "turn_ended" => f.position <= e.position
<1>1. how.last \in {<<>>, <<"turn_ended">>, <<"message_completed", "turn_ended">>}
  BY DEF Endings
<1>2. \A i, j \in DOMAIN how.last : how.last[i] = "turn_ended" => j <= i
  BY <1>1
<1>3. DOMAIN how.last \subseteq Nat
  BY <1>1
<1> QED
  BY <1>2, <1>3 DEF Numbered

\* Events that stay as they are, of turns that stay as they are or end.
LEMMA SameEvents ==
  ASSUME EventInv, StoreInv', events' = events,
         \A t \in Turns : turn'[t] = turn[t] \/ turn'[t].state \in Outcomes
  PROVE  EventInv'
<1>1. NothingToldOfNone'
  BY DEF EventInv, NothingToldOfNone, Outcomes
<1>2. TurnEndedIsLast'
  BY DEF EventInv, TurnEndedIsLast
<1> QED
  BY <1>1, <1>2 DEF EventInv

LEMMA EndEvents ==
  ASSUME EventInv, StoreInv', NEW t \in Turns, NEW how \in Endings, NEW n \in Nat,
         NEW endedAt \in Int, End(t, how, n, endedAt)
  PROVE  EventInv'
<1> DEFINE last == Numbered(n, how.last)
<1>0. n \in Nat /\ TypeOK
  BY StoreAssumption DEF EventInv, StoreInv
<1>1. /\ turn[t].state = "active"
      /\ turn'[t].state \in Outcomes
      /\ events'[t] = events[t] \cup last
      /\ \A u \in Turns : u # t => turn'[u] = turn[u] /\ events'[u] = events[u]
  <2>1. FinishTurn(t, how.state, endedAt, how.kept, last)
    BY DEF End
  <2>2. turn[t].state = "active"
    BY <2>1 DEF FinishTurn, Holds
  <2>3. turn' = [turn EXCEPT ![t].state = how.state]
    BY <2>1 DEF FinishTurn
  <2>4. events' = [events EXCEPT ![t] = @ \cup last]
    BY <2>1 DEF FinishTurn
  <2> HIDE DEF last
  <2> QED
    BY <1>0, <2>2, <2>3, <2>4, EndingState DEF TypeOK
<1>2. \A told \in events[t], e \in last : told.position < e.position
  BY DEF End
<1>3. /\ last \subseteq StoredEvent
      /\ \A e, f \in last : e.document = "turn_ended" => f.position <= e.position
  BY <1>0, NumberedType, NumberedLast
<1>4. events[t] \subseteq StoredEvent
  BY <1>0 DEF TypeOK
<1>5. \A e \in events[t] : e.document # "turn_ended"
  BY <1>1 DEF EventInv, TurnEndedIsLast, Outcomes
<1> HIDE DEF last
<1>6. \A e, f \in events'[t] : e.document = "turn_ended" => f.position <= e.position
  BY <1>1, <1>2, <1>3, <1>4, <1>5 DEF StoredEvent
<1>7. TurnEndedIsLast'
  BY <1>1, <1>6 DEF EventInv, TurnEndedIsLast
<1>8. NothingToldOfNone'
  BY <1>1 DEF EventInv, NothingToldOfNone, Outcomes
<1> QED
  BY <1>7, <1>8 DEF EventInv

LEMMA CallsEvents == EventInv /\ [StoreCalls]_storeVars => EventInv'
<1> SUFFICES ASSUME EventInv, [StoreCalls]_storeVars
             PROVE  EventInv'
  OBVIOUS
<1>0. StoreInv' /\ TypeOK
  BY CallsInv DEF EventInv, StoreInv
<1>1. CASE UNCHANGED <<events, turn>>
  BY <1>0, <1>1, SameEvents
<1>2. ASSUME NEW s \in Sessions, NEW now \in Int, PurgeSession(s, now)
      PROVE  EventInv'
  <2>1. \A t \in Turns :
          /\ turn[t].session = s => turn'[t] = NoTurn /\ events'[t] = {}
          /\ turn[t].session # s => turn'[t] = turn[t] /\ events'[t] = events[t]
    BY <1>2 DEF PurgeSession
  <2>2. TurnEndedIsLast'
    BY <2>1 DEF EventInv, TurnEndedIsLast
  <2> QED
    BY <1>0, <2>1, <2>2 DEF EventInv, NothingToldOfNone
<1>3. ASSUME NEW s \in Sessions, NEW t \in Turns, NEW newQuestion \in BOOLEAN, NEW until \in Int,
             QueueTurn(s, t, newQuestion, until)
      PROVE  EventInv'
  <2>1. /\ turn'[t].state = "active"
        /\ events'[t] = {}
        /\ \A u \in Turns : u # t => turn'[u] = turn[u] /\ events'[u] = events[u]
    BY <1>0, <1>3 DEF QueueTurn, TypeOK
  <2>2. TurnEndedIsLast'
    BY <2>1 DEF EventInv, TurnEndedIsLast
  <2> QED
    BY <1>0, <2>1, <2>2 DEF EventInv, NothingToldOfNone
<1>4. ASSUME NEW t \in Turns, NEW n \in Nat, NEW document \in Pieces, NEW writtenAt \in Int,
             Write(t, n, document, writtenAt)
      PROVE  EventInv'
  <2>1. /\ turn' = turn /\ turn[t].state = "active"
        /\ events'[t] = events[t] \cup {[position |-> n, document |-> document]}
        /\ \A u \in Turns : u # t => events'[u] = events[u]
    BY <1>0, <1>4 DEF Write, AppendEvent, Holds, TypeOK
  <2>2. document # "turn_ended"
    BY StoreAssumption
  <2>3. \A e \in events'[t] : e.document # "turn_ended"
    BY <2>1, <2>2 DEF EventInv, TurnEndedIsLast, Outcomes
  <2>4. TurnEndedIsLast'
    BY <2>1, <2>3 DEF EventInv, TurnEndedIsLast
  <2> QED
    BY <1>0, <2>1, <2>4 DEF EventInv, NothingToldOfNone
<1>5. ASSUME NEW t \in Turns, NEW how \in Endings, NEW n \in Nat, NEW endedAt \in Int,
             End(t, how, n, endedAt)
      PROVE  EventInv'
  BY <1>0, <1>5, EndEvents
<1>6. ASSUME NEW t \in Turns, NEW now \in Int, EndExpiredTurn(t, now)
      PROVE  EventInv'
  <2>1. events' = events /\ turn' = [turn EXCEPT ![t].state = "interrupted"]
    BY <1>6 DEF EndExpiredTurn
  <2>2. \A u \in Turns : turn'[u] = turn[u] \/ turn'[u].state \in Outcomes
    BY <1>0, <2>1 DEF TypeOK, Outcomes
  <2> QED
    BY <1>0, <2>1, <2>2, SameEvents
<1>7. ASSUME NEW t \in Turns, RequestCancel(t)
      PROVE  EventInv'
  <2>1. events' = events /\ (turn' = turn \/ turn' = [turn EXCEPT ![t].state = "cancelled"])
    BY <1>7 DEF RequestCancel
  <2>2. \A u \in Turns : turn'[u] = turn[u] \/ turn'[u].state \in Outcomes
    BY <1>0, <2>1 DEF TypeOK, Outcomes
  <2> QED
    BY <1>0, <2>1, <2>2, SameEvents
<1> QED
  BY <1>1, <1>2, <1>3, <1>4, <1>5, <1>6, <1>7
  DEF StoreCalls, storeVars, AddSession, HideSession, ClaimTasks, SweepHidden, EndExpiredTask,
      LeasesMove

LEMMA InitEvents == Init => EventInv
  BY InitInv DEF Init, EventInv, NothingToldOfNone, TurnEndedIsLast

\* The event that ends a turn is stored with the end, and nothing is ever stored after it.
THEOREM TurnEndedIsLastAlways == Spec => []TurnEndedIsLast
<1>1. EventInv => TurnEndedIsLast
  BY DEF EventInv
<1> QED
  BY <1>1, SpecCalls, InitEvents, CallsEvents, PTL

-----------------------------------------------------------------------------
(* Messages stored after others                                            *)

\* What a session's messages are once some more are stored after them.
LEMMA StoredAfter ==
  ASSUME NEW s \in Sessions, NEW more \in Seq(StoredMessage), TypeOK,
         messages' = [messages EXCEPT ![s] = messages[s] \o more]
  PROVE  /\ \A x \in Sessions : x # s => messages'[x] = messages[x]
         /\ DOMAIN messages[s] \subseteq DOMAIN messages'[s]
         /\ \A i \in DOMAIN messages[s] : messages'[s][i] = messages[s][i]
         /\ \A i \in DOMAIN messages'[s] \ DOMAIN messages[s] :
              /\ i - Len(messages[s]) \in DOMAIN more
              /\ messages'[s][i] = more[i - Len(messages[s])]
         /\ \A j \in DOMAIN more :
              /\ Len(messages[s]) + j \in DOMAIN messages'[s] \ DOMAIN messages[s]
              /\ messages'[s][Len(messages[s]) + j] = more[j]
<1>1. messages[s] \in Seq(StoredMessage) /\ messages \in [Sessions -> Seq(StoredMessage)]
  BY DEF TypeOK
<1>2. messages'[s] = messages[s] \o more
  BY <1>1
<1>3. Len(messages[s]) \in Nat /\ Len(more) \in Nat
  BY <1>1
<1>4. /\ DOMAIN messages[s] = 1..Len(messages[s])
      /\ DOMAIN more = 1..Len(more)
      /\ DOMAIN messages'[s] = 1..Len(messages[s]) + Len(more)
  BY <1>1, <1>2
<1>5. \A i \in 1..Len(messages[s]) + Len(more) :
        messages'[s][i] = IF i <= Len(messages[s]) THEN messages[s][i]
                          ELSE more[i - Len(messages[s])]
  BY <1>1, <1>2
<1> QED
  BY <1>1, <1>3, <1>4, <1>5

\* One message more, by Append.
LEMMA StoredOne ==
  ASSUME NEW s \in Sessions, NEW message \in StoredMessage, TypeOK,
         messages' = [messages EXCEPT ![s] = Append(messages[s], message)]
  PROVE  messages' = [messages EXCEPT ![s] = messages[s] \o <<message>>]
<1>1. messages[s] \in Seq(StoredMessage)
  BY DEF TypeOK
<1>2. Append(messages[s], message) = messages[s] \o <<message>>
  BY <1>1
<1> QED
  BY <1>2

-----------------------------------------------------------------------------
(* The answers of a turn                                                   *)

AnswerInv == StoreInv /\ MessagesOfTheirSession /\ AnswerWithItsEnd

\* What a turn's end stores of it: nothing, or the one message.
KeptOf(t, kept) == IF kept = <<>> THEN <<>> ELSE <<[turn |-> t, kind |-> kept[1]]>>

KeptKinds == {<<>>, <<"answer">>, <<"failed">>}

\* What FinishTurn stores of an end is that message or nothing, an unmarked answer of a
\* finished turn alone.
LEMMA KeptOfEnding ==
  ASSUME NEW how \in Endings, NEW t \in Turns
  PROVE  /\ how.kept \in KeptKinds
         /\ how.state = "finished" <=> how.kept = <<"answer">>
         /\ [i \in 1..Len(how.kept) |-> [turn |-> t, kind |-> how.kept[i]]] = KeptOf(t, how.kept)
<1>1. how.kept \in KeptKinds /\ (how.state = "finished" <=> how.kept = <<"answer">>)
  BY DEF Endings, KeptKinds
<1>2. CASE how.kept = <<>>
  BY <1>1, <1>2 DEF KeptOf
<1>3. CASE how.kept # <<>>
  <2>1. Len(how.kept) = 1
    BY <1>1, <1>3 DEF KeptKinds
  <2>2. [i \in 1..1 |-> [turn |-> t, kind |-> how.kept[i]]] = <<[turn |-> t, kind |-> how.kept[1]]>>
    OBVIOUS
  <2>3. [i \in 1..Len(how.kept) |-> [turn |-> t, kind |-> how.kept[i]]]
          = [i \in 1..1 |-> [turn |-> t, kind |-> how.kept[i]]]
    BY <2>1
  <2>4. [i \in 1..Len(how.kept) |-> [turn |-> t, kind |-> how.kept[i]]]
          = <<[turn |-> t, kind |-> how.kept[1]]>>
    BY <2>2, <2>3
  <2>5. KeptOf(t, how.kept) = <<[turn |-> t, kind |-> how.kept[1]]>>
    BY <1>3 DEF KeptOf
  <2> QED
    BY <1>1, <2>4, <2>5
<1> QED
  BY <1>1, <1>2, <1>3

LEMMA KeptMessage ==
  ASSUME NEW t \in Turns, NEW kept \in KeptKinds
  PROVE  /\ KeptOf(t, kept) \in Seq(StoredMessage)
         /\ kept = <<>> => DOMAIN KeptOf(t, kept) = {}
         /\ kept # <<>> => /\ DOMAIN KeptOf(t, kept) = {1}
                           /\ KeptOf(t, kept)[1].turn = t
                           /\ KeptOf(t, kept)[1].kind \in AnswerKinds
                           /\ KeptOf(t, kept)[1].kind = "answer" <=> kept = <<"answer">>
<1>1. CASE kept = <<>>
  BY <1>1 DEF KeptOf
<1>2. CASE kept # <<>>
  <2>1. kept[1] \in AnswerKinds /\ (kept[1] = "answer" <=> kept = <<"answer">>)
    BY <1>2 DEF KeptKinds, AnswerKinds
  <2>2. [turn |-> t, kind |-> kept[1]] \in StoredMessage
    BY <2>1 DEF StoredMessage
  <2> QED
    BY <1>2, <2>1, <2>2 DEF KeptOf
<1> QED
  BY <1>1, <1>2

\* The end of an active turn, by whichever operation, and what it leaves of the answers.
LEMMA EndingAnswers ==
  ASSUME AnswerInv, StoreInv', NEW t \in Turns, NEW state \in Outcomes, NEW kept \in KeptKinds,
         turn[t].state = "active",
         turn'[t].state = state, turn'[t].session = turn[t].session,
         \A u \in Turns : u # t => turn'[u] = turn[u],
         messages' = [messages EXCEPT ![turn[t].session] =
                        messages[turn[t].session] \o KeptOf(t, kept)],
         state = "finished" <=> kept = <<"answer">>
  PROVE  AnswerInv'
<1> DEFINE s == turn[t].session
           more == KeptOf(t, kept)
<1>0. TypeOK /\ TypeOK'
  BY DEF AnswerInv, StoreInv
<1>1. s \in Sessions
  BY DEF AnswerInv, StoreInv, TurnsOfKeptSessions
<1>2. /\ more \in Seq(StoredMessage)
      /\ kept = <<>> => DOMAIN more = {}
      /\ kept # <<>> => /\ DOMAIN more = {1}
                        /\ more[1].turn = t
                        /\ more[1].kind \in AnswerKinds
                        /\ more[1].kind = "answer" <=> kept = <<"answer">>
  BY KeptMessage
<1>3. /\ \A x \in Sessions : x # s => messages'[x] = messages[x]
      /\ DOMAIN messages[s] \subseteq DOMAIN messages'[s]
      /\ \A i \in DOMAIN messages[s] : messages'[s][i] = messages[s][i]
      /\ \A i \in DOMAIN messages'[s] \ DOMAIN messages[s] :
           /\ i - Len(messages[s]) \in DOMAIN more
           /\ messages'[s][i] = more[i - Len(messages[s])]
      /\ \A j \in DOMAIN more :
           /\ Len(messages[s]) + j \in DOMAIN messages'[s] \ DOMAIN messages[s]
           /\ messages'[s][Len(messages[s]) + j] = more[j]
  <2> HIDE DEF s, more
  <2>1. messages' = [messages EXCEPT ![s] = messages[s] \o more]
    BY DEF s, more
  <2> QED
    BY <1>0, <1>1, <1>2, <2>1, StoredAfter
<1>4. /\ turn'[t].state = state /\ turn'[t].session = s
      /\ \A u \in Turns : u # t => turn'[u] = turn[u]
  OBVIOUS
<1> HIDE DEF s, more
<1>5. \A x \in Sessions : \A i \in DOMAIN messages[x] : ~IsAnswerOf(x, i, t)
  BY DEF AnswerInv, AnswerWithItsEnd, Outcomes
\* A message of these was stored before, or is the one just stored of t.
<1>6. ASSUME NEW x \in Sessions, NEW i \in DOMAIN messages'[x]
      PROVE  \/ i \in DOMAIN messages[x] /\ messages'[x][i] = messages[x][i]
             \/ /\ x = s /\ kept # <<>> /\ i = Len(messages[s]) + 1
                /\ messages'[x][i] = more[1]
  <2>1. CASE x = s /\ i \notin DOMAIN messages[s]
    <3>1. /\ i - Len(messages[s]) \in DOMAIN more
          /\ messages'[x][i] = more[i - Len(messages[s])]
      BY <1>3, <2>1
    <3>2. kept # <<>>
      BY <1>2, <3>1
    <3>3. DOMAIN more = {1}
      BY <1>2, <3>2
    <3>4. i - Len(messages[s]) = 1
      BY <3>1, <3>3
    <3>5. messages'[s] \in Seq(StoredMessage) /\ messages[s] \in Seq(StoredMessage)
      BY <1>0, <1>1 DEF TypeOK
    <3>6. Len(messages[s]) \in Nat /\ i \in Nat
      BY <2>1, <3>5
    <3>7. i = Len(messages[s]) + 1
      BY <3>4, <3>6
    <3> QED
      BY <2>1, <3>1, <3>2, <3>3, <3>4, <3>7
  <2> QED
    BY <1>3, <2>1
<1>7. MessagesOfTheirSession'
  <2> SUFFICES ASSUME NEW x \in Sessions, NEW i \in DOMAIN messages'[x]
               PROVE  messages'[x][i].turn \in Turns /\ turn'[messages'[x][i].turn].session = x
    BY DEF MessagesOfTheirSession
  <2>1. CASE i \in DOMAIN messages[x] /\ messages'[x][i] = messages[x][i]
    BY <1>4, <2>1 DEF AnswerInv, MessagesOfTheirSession, s
  <2> QED
    BY <1>2, <1>4, <1>6, <2>1
<1>8. ASSUME NEW x \in Sessions, NEW i \in DOMAIN messages'[x], NEW u \in Turns,
             IsAnswerOf(x, i, u)'
      PROVE  /\ turn'[u].state \in Outcomes
             /\ turn'[u].session = x
             /\ (turn'[u].state = "finished") <=> (messages'[x][i].kind = "answer")
             /\ \A j \in DOMAIN messages'[x] : IsAnswerOf(x, j, u)' => i = j
  <2>1. CASE u = t
    <3>1. \A j \in DOMAIN messages'[x] : IsAnswerOf(x, j, t)' =>
            /\ x = s /\ kept # <<>> /\ j = Len(messages[s]) + 1
            /\ messages'[x][j] = more[1]
      BY <1>5, <1>6 DEF IsAnswerOf
    <3>2. /\ x = s /\ kept # <<>>
          /\ messages'[x][i] = more[1]
          /\ i = Len(messages[s]) + 1
      BY <1>8, <2>1, <3>1
    <3>3. (state = "finished") <=> (messages'[x][i].kind = "answer")
      BY <1>2, <3>2
    <3> QED
      BY <1>4, <2>1, <3>1, <3>2, <3>3
  <2>2. CASE u # t
    <3>1. \A j \in DOMAIN messages'[x] : IsAnswerOf(x, j, u)' =>
            /\ j \in DOMAIN messages[x] /\ messages'[x][j] = messages[x][j]
            /\ IsAnswerOf(x, j, u)
      BY <1>2, <1>6, <2>2 DEF IsAnswerOf
    <3>2. /\ turn[u].state \in Outcomes
          /\ turn[u].session = x
          /\ (turn[u].state = "finished") <=> (messages[x][i].kind = "answer")
          /\ \A j \in DOMAIN messages[x] : IsAnswerOf(x, j, u) => i = j
      BY <1>8, <3>1 DEF AnswerInv, AnswerWithItsEnd
    <3> QED
      BY <1>4, <1>8, <2>2, <3>1, <3>2
  <2> QED
    BY <2>1, <2>2
<1>9. ASSUME NEW u \in Turns, turn'[u].state = "finished"
      PROVE  \E i \in DOMAIN messages'[turn'[u].session] :
               /\ messages'[turn'[u].session][i].turn = u
               /\ messages'[turn'[u].session][i].kind \in AnswerKinds
  <2>1. CASE u = t
    <3>1. kept = <<"answer">> /\ kept # <<>>
      BY <1>4, <1>9, <2>1
    <3>2. /\ Len(messages[s]) + 1 \in DOMAIN messages'[s]
          /\ messages'[s][Len(messages[s]) + 1] = more[1]
      BY <1>2, <1>3, <3>1
    <3>3. /\ messages'[s][Len(messages[s]) + 1].turn = t
          /\ messages'[s][Len(messages[s]) + 1].kind \in AnswerKinds
      BY <1>2, <3>1, <3>2
    <3>4. turn'[u].session = s
      BY <1>4, <2>1
    <3> QED
      BY <2>1, <3>2, <3>3, <3>4
  <2>2. CASE u # t
    <3>1. turn'[u] = turn[u] /\ turn[u].session \in Sessions
      BY <1>4, <1>9, <2>2 DEF AnswerInv, StoreInv, TurnsOfKeptSessions
    <3>2. PICK i \in DOMAIN messages[turn[u].session] : IsAnswerOf(turn[u].session, i, u)
      BY <1>9, <3>1 DEF AnswerInv, AnswerWithItsEnd
    <3>3. /\ i \in DOMAIN messages'[turn[u].session]
          /\ messages'[turn[u].session][i] = messages[turn[u].session][i]
      BY <1>3, <3>1
    <3> QED
      BY <3>1, <3>2, <3>3 DEF IsAnswerOf
  <2> QED
    BY <2>1, <2>2
<1>10. \A u \in Turns : turn'[u].session = turn[u].session
  BY <1>4 DEF s
<1>11. AnswerWithItsEnd'
  BY <1>8, <1>9, <1>10 DEF AnswerWithItsEnd, IsAnswerOf
<1> QED
  BY <1>7, <1>11 DEF AnswerInv

LEMMA PurgeAnswers ==
  ASSUME AnswerInv, StoreInv', NEW s \in Sessions, NEW now \in Int, PurgeSession(s, now)
  PROVE  AnswerInv'
<1>1. /\ \A t \in Turns : turn[t].session = s => turn'[t] = NoTurn
      /\ \A t \in Turns : turn[t].session # s => turn'[t] = turn[t]
  BY DEF PurgeSession
<1>2. /\ \A x \in Sessions : x # s => messages'[x] = messages[x]
      /\ messages'[s] = <<>>
  BY DEF PurgeSession, AnswerInv, StoreInv, TypeOK
<1>3. DOMAIN messages'[s] = {}
  BY <1>2
<1>4. MessagesOfTheirSession'
  BY <1>1, <1>2, <1>3 DEF AnswerInv, MessagesOfTheirSession
<1>5. ASSUME NEW x \in Sessions, NEW i \in DOMAIN messages'[x], NEW u \in Turns,
             IsAnswerOf(x, i, u)'
      PROVE  /\ x # s
             /\ turn'[u] = turn[u]
             /\ IsAnswerOf(x, i, u)
             /\ i \in DOMAIN messages[x]
  <2>1. x # s /\ messages'[x] = messages[x]
    BY <1>2, <1>3
  <2>2. IsAnswerOf(x, i, u) /\ turn[u].session = x
    BY <1>5, <2>1 DEF IsAnswerOf, AnswerInv, MessagesOfTheirSession
  <2> QED
    BY <1>1, <2>1, <2>2
<1>6. ASSUME NEW u \in Turns, turn'[u].state = "finished"
      PROVE  turn'[u] = turn[u] /\ turn[u].session \in Sessions /\ turn[u].session # s
  BY <1>1, <1>6 DEF NoTurn, AnswerInv, StoreInv, TurnsOfKeptSessions
<1>7. ASSUME NEW x \in Sessions, NEW i \in DOMAIN messages'[x], NEW u \in Turns,
             IsAnswerOf(x, i, u)'
      PROVE  /\ turn'[u].state \in Outcomes
             /\ turn'[u].session = x
             /\ (turn'[u].state = "finished") <=> (messages'[x][i].kind = "answer")
             /\ \A j \in DOMAIN messages'[x] : IsAnswerOf(x, j, u)' => i = j
  <2>1. x # s /\ turn'[u] = turn[u] /\ IsAnswerOf(x, i, u) /\ i \in DOMAIN messages[x]
    BY <1>5, <1>7
  <2>2. messages'[x] = messages[x]
    BY <1>2, <2>1
  <2> QED
    BY <1>5, <2>1, <2>2 DEF AnswerInv, AnswerWithItsEnd
<1>8. ASSUME NEW u \in Turns, turn'[u].state = "finished"
      PROVE  \E i \in DOMAIN messages'[turn'[u].session] : IsAnswerOf(turn[u].session, i, u)'
  <2>1. turn'[u] = turn[u] /\ messages'[turn[u].session] = messages[turn[u].session]
    BY <1>2, <1>6, <1>8
  <2> QED
    BY <1>8, <2>1 DEF AnswerInv, AnswerWithItsEnd, IsAnswerOf
<1>9. AnswerWithItsEnd'
  BY <1>7, <1>8 DEF AnswerWithItsEnd
<1> QED
  BY <1>4, <1>9 DEF AnswerInv

LEMMA QueueAnswers ==
  ASSUME AnswerInv, StoreInv', NEW s \in Sessions, NEW t \in Turns, NEW newQuestion \in BOOLEAN,
         NEW until, QueueTurn(s, t, newQuestion, until)
  PROVE  AnswerInv'
<1> DEFINE question == [turn |-> t, kind |-> "question"]
<1>0. TypeOK
  BY DEF AnswerInv, StoreInv
<1>1. /\ turn[t] = NoTurn
      /\ turn'[t].session = s /\ turn'[t].state = "active"
      /\ \A u \in Turns : u # t => turn'[u] = turn[u]
  BY <1>0 DEF QueueTurn, TypeOK
<1>2. \A x \in Sessions : \A i \in DOMAIN messages[x] : messages[x][i].turn # t
  BY <1>1, StoreAssumption DEF AnswerInv, MessagesOfTheirSession, NoTurn
<1>3. CASE newQuestion
  <2>1. question \in StoredMessage /\ question.turn = t /\ question.kind \notin AnswerKinds
    BY DEF StoredMessage, AnswerKinds
  <2>2. messages' = [messages EXCEPT ![s] = Append(messages[s], question)]
    BY <1>3 DEF QueueTurn
  <2> HIDE DEF question
  <2>3. messages' = [messages EXCEPT ![s] = messages[s] \o <<question>>]
    BY <1>0, <2>1, <2>2, StoredOne
  <2>4. /\ <<question>> \in Seq(StoredMessage) /\ DOMAIN <<question>> = {1}
        /\ <<question>>[1] = question
    BY <2>1
  <2>5. /\ \A x \in Sessions : x # s => messages'[x] = messages[x]
        /\ DOMAIN messages[s] \subseteq DOMAIN messages'[s]
        /\ \A i \in DOMAIN messages[s] : messages'[s][i] = messages[s][i]
        /\ \A i \in DOMAIN messages'[s] \ DOMAIN messages[s] : messages'[s][i] = question
    BY <1>0, <2>3, <2>4, StoredAfter
  <2>6. ASSUME NEW x \in Sessions, NEW i \in DOMAIN messages'[x]
        PROVE  \/ i \in DOMAIN messages[x] /\ messages'[x][i] = messages[x][i]
               \/ x = s /\ messages'[x][i] = question
    BY <2>5
  <2>7. MessagesOfTheirSession'
    BY <1>1, <1>2, <2>1, <2>6 DEF AnswerInv, MessagesOfTheirSession
  <2>8. ASSUME NEW x \in Sessions, NEW i \in DOMAIN messages'[x], NEW u \in Turns,
               IsAnswerOf(x, i, u)'
        PROVE  /\ u # t
               /\ i \in DOMAIN messages[x]
               /\ IsAnswerOf(x, i, u)
    BY <1>2, <2>1, <2>6, <2>8 DEF IsAnswerOf
  <2>9. ASSUME NEW x \in Sessions, NEW i \in DOMAIN messages[x], NEW u \in Turns,
               IsAnswerOf(x, i, u)
        PROVE  i \in DOMAIN messages'[x] /\ IsAnswerOf(x, i, u)'
    BY <2>5, <2>9 DEF IsAnswerOf
  <2>10. AnswerWithItsEnd'
    <3>1. ASSUME NEW x \in Sessions, NEW i \in DOMAIN messages'[x], NEW u \in Turns,
                 IsAnswerOf(x, i, u)'
          PROVE  /\ turn'[u].state \in Outcomes
                 /\ turn'[u].session = x
                 /\ (turn'[u].state = "finished") <=> (messages'[x][i].kind = "answer")
                 /\ \A j \in DOMAIN messages'[x] : IsAnswerOf(x, j, u)' => i = j
      <4>1. u # t /\ i \in DOMAIN messages[x] /\ IsAnswerOf(x, i, u)
        BY <2>8, <3>1
      <4>2. messages'[x][i].kind = messages[x][i].kind /\ turn'[u] = turn[u]
        BY <1>1, <2>5, <4>1
      <4> QED
        BY <2>8, <4>1, <4>2 DEF AnswerInv, AnswerWithItsEnd
    <3>2. ASSUME NEW u \in Turns, turn'[u].state = "finished"
          PROVE  \E i \in DOMAIN messages'[turn'[u].session] : IsAnswerOf(turn[u].session, i, u)'
      <4>1. u # t /\ turn'[u] = turn[u] /\ turn[u].session \in Sessions
        BY <1>1, <3>2 DEF AnswerInv, StoreInv, TurnsOfKeptSessions
      <4> QED
        BY <2>5, <3>2, <4>1 DEF AnswerInv, AnswerWithItsEnd, IsAnswerOf
    <3> QED
      BY <3>1, <3>2 DEF AnswerWithItsEnd
  <2> QED
    BY <2>7, <2>10 DEF AnswerInv
<1>4. CASE ~newQuestion
  <2>1. messages' = messages
    BY <1>4 DEF QueueTurn
  <2>2. MessagesOfTheirSession'
    BY <1>1, <1>2, <2>1 DEF AnswerInv, MessagesOfTheirSession
  <2>3. AnswerWithItsEnd'
    BY <1>1, <1>2, <2>1 DEF AnswerInv, AnswerWithItsEnd, IsAnswerOf
  <2> QED
    BY <2>2, <2>3 DEF AnswerInv
<1> QED
  BY <1>3, <1>4

LEMMA CallsAnswers == AnswerInv /\ [StoreCalls]_storeVars => AnswerInv'
<1> SUFFICES ASSUME AnswerInv, [StoreCalls]_storeVars
             PROVE  AnswerInv'
  OBVIOUS
<1>0. StoreInv' /\ TypeOK
  BY CallsInv DEF AnswerInv, StoreInv
<1>1. CASE UNCHANGED <<messages, turn>>
  BY <1>0, <1>1 DEF AnswerInv, MessagesOfTheirSession, AnswerWithItsEnd, IsAnswerOf
<1>2. ASSUME NEW s \in Sessions, NEW now \in Int, PurgeSession(s, now)
      PROVE  AnswerInv'
  BY <1>0, <1>2, PurgeAnswers
<1>3. ASSUME NEW s \in Sessions, NEW t \in Turns, NEW newQuestion \in BOOLEAN, NEW until \in Int,
             QueueTurn(s, t, newQuestion, until)
      PROVE  AnswerInv'
  BY <1>0, <1>3, QueueAnswers
<1>4. ASSUME NEW t \in Turns, NEW how \in Endings, NEW n \in Nat, NEW endedAt \in Int,
             End(t, how, n, endedAt)
      PROVE  AnswerInv'
  <2>1. FinishTurn(t, how.state, endedAt, how.kept, Numbered(n, how.last))
    BY <1>4 DEF End
  <2>2. turn[t].state = "active"
    BY <2>1 DEF FinishTurn, Holds
  <2>3. /\ turn'[t].state = how.state /\ turn'[t].session = turn[t].session
        /\ \A u \in Turns : u # t => turn'[u] = turn[u]
    <3>1. turn' = [turn EXCEPT ![t].state = how.state]
      BY <2>1 DEF FinishTurn
    <3> QED
      BY <1>0, <3>1 DEF TypeOK
  <2>4. /\ how.kept \in KeptKinds
        /\ how.state = "finished" <=> how.kept = <<"answer">>
        /\ [i \in 1..Len(how.kept) |-> [turn |-> t, kind |-> how.kept[i]]] = KeptOf(t, how.kept)
    BY KeptOfEnding
  <2>5. messages' = [messages EXCEPT ![turn[t].session] =
                       messages[turn[t].session] \o KeptOf(t, how.kept)]
    BY <2>1, <2>4 DEF FinishTurn
  <2> QED
    BY <1>0, <2>2, <2>3, <2>4, <2>5, EndingState, EndingAnswers
<1>5. ASSUME NEW t \in Turns, NEW now \in Int, EndExpiredTurn(t, now)
      PROVE  AnswerInv'
  <2> DEFINE kept == <<"failed">>
  <2>1. turn[t].state = "active" /\ turn[t].session \in Sessions
    BY <1>5 DEF EndExpiredTurn, AnswerInv, StoreInv, TurnsOfKeptSessions
  <2>2. /\ turn'[t].state = "interrupted" /\ turn'[t].session = turn[t].session
        /\ \A u \in Turns : u # t => turn'[u] = turn[u]
    <3>1. turn' = [turn EXCEPT ![t].state = "interrupted"]
      BY <1>5 DEF EndExpiredTurn
    <3> QED
      BY <1>0, <3>1 DEF TypeOK
  <2>3. [turn |-> t, kind |-> "failed"] \in StoredMessage
    BY DEF StoredMessage, AnswerKinds
  <2>4. messages' = [messages EXCEPT ![turn[t].session] =
                       messages[turn[t].session] \o <<[turn |-> t, kind |-> "failed"]>>]
    <3>1. messages' = [messages EXCEPT ![turn[t].session] =
                         Append(messages[turn[t].session], [turn |-> t, kind |-> "failed"])]
      BY <1>5 DEF EndExpiredTurn
    <3> QED
      BY <1>0, <2>1, <2>3, <3>1, StoredOne
  <2>5. KeptOf(t, kept) = <<[turn |-> t, kind |-> "failed"]>>
    BY DEF KeptOf
  <2>6. kept \in KeptKinds /\ "interrupted" \in Outcomes /\ kept # <<"answer">>
    BY DEF KeptKinds, Outcomes
  <2> QED
    BY <1>0, <2>1, <2>2, <2>4, <2>5, <2>6, EndingAnswers
<1>6. ASSUME NEW t \in Turns, RequestCancel(t)
      PROVE  AnswerInv'
  <2>1. CASE task[t].state = "queued"
    <3>1. turn[t].state = "active" /\ turn[t].session \in Sessions /\ messages' = messages
      BY <1>6 DEF RequestCancel, AnswerInv, StoreInv, TurnsOfKeptSessions
    <3>2. /\ turn'[t].state = "cancelled" /\ turn'[t].session = turn[t].session
          /\ \A u \in Turns : u # t => turn'[u] = turn[u]
      <4>1. turn' = [turn EXCEPT ![t].state = "cancelled"]
        BY <1>6, <2>1 DEF RequestCancel
      <4> QED
        BY <1>0, <4>1 DEF TypeOK
    <3>3. messages' = [messages EXCEPT ![turn[t].session] =
                         messages[turn[t].session] \o KeptOf(t, <<>>)]
      <4>1. messages[turn[t].session] \in Seq(StoredMessage)
        BY <1>0, <3>1 DEF TypeOK
      <4>2. messages[turn[t].session] \o KeptOf(t, <<>>) = messages[turn[t].session]
        BY <4>1 DEF KeptOf
      <4> QED
        BY <1>0, <3>1, <4>2 DEF TypeOK
    <3>4. <<>> \in KeptKinds /\ "cancelled" \in Outcomes /\ <<>> # <<"answer">>
      BY DEF KeptKinds, Outcomes
    <3> QED
      BY <1>0, <3>1, <3>2, <3>3, <3>4, EndingAnswers
  <2>2. CASE task[t].state = "running"
    BY <1>1, <1>6, <2>2 DEF RequestCancel
  <2> QED
    BY <1>6, <2>1, <2>2 DEF RequestCancel
<1> QED
  BY <1>1, <1>2, <1>3, <1>4, <1>5, <1>6
  DEF StoreCalls, storeVars, AddSession, HideSession, ClaimTasks, Write, AppendEvent, SweepHidden,
      EndExpiredTask, LeasesMove

LEMMA InitAnswers == Init => AnswerInv
<1> SUFFICES ASSUME Init
             PROVE  AnswerInv
  OBVIOUS
<1>1. \A s \in Sessions : DOMAIN messages[s] = {}
  BY DEF Init
<1>2. \A t \in Turns : turn[t].state = "none"
  BY DEF Init, NoTurn
<1> QED
  BY <1>1, <1>2, InitInv DEF AnswerInv, MessagesOfTheirSession, AnswerWithItsEnd

\* However a turn ends, and however many try to end it, it gets one answer at most, with its end;
\* it has one that is not marked failed exactly when it finished.
THEOREM AnswerWithItsEndAlways == Spec => []AnswerWithItsEnd
<1>1. AnswerInv => AnswerWithItsEnd
  BY DEF AnswerInv
<1> QED
  BY <1>1, SpecCalls, InitAnswers, CallsAnswers, PTL

-----------------------------------------------------------------------------
(* Both invariants                                                         *)

Inv == AnswerInv /\ EventInv

LEMMA InitBoth == Init => Inv
  BY InitEvents, InitAnswers DEF Inv

LEMMA CallsBoth == Inv /\ [StoreCalls]_storeVars => Inv'
  BY CallsAnswers, CallsEvents DEF Inv

\* Between any two calls, whoever makes them: one active turn a session and its task with it, an
\* end that nothing follows, and an answer exactly with the end that gives one.
LEMMA CallsKeepStories ==
  Init /\ [][StoreCalls]_storeVars => [](StoreInv /\ TurnEndedIsLast /\ AnswerWithItsEnd)
<1>1. Inv => StoreInv /\ TurnEndedIsLast /\ AnswerWithItsEnd
  BY DEF Inv, AnswerInv, EventInv
<1> QED
  BY <1>1, InitBoth, CallsBoth, PTL

-----------------------------------------------------------------------------
(* What each operation does to the answers the contract speaks of          *)

\* The kinds a turn's end keeps, as the contract names them.
KindsOf(kept) == {kept[i] : i \in DOMAIN kept}

LEMMA SameAnswers ==
  ASSUME messages' = messages
  PROVE  \A t \in Turns : AnswersOf(t)' = AnswersOf(t)
  BY DEF AnswersOf

LEMMA NoAnswerYet ==
  ASSUME AnswerInv, NEW t \in Turns, turn[t].state \notin Outcomes
  PROVE  AnswersOf(t) = {}
<1>1. \A s \in Sessions : \A i \in DOMAIN messages[s] : ~IsAnswerOf(s, i, t)
  BY DEF AnswerInv, AnswerWithItsEnd
<1>2. \A s \in Sessions : \A i \in DOMAIN messages[s] : \A kind \in AnswerKinds :
        messages[s][i] # [turn |-> t, kind |-> kind]
  BY <1>1 DEF IsAnswerOf
<1> QED
  BY <1>2 DEF AnswersOf

\* An end gives its turn the answer it keeps, and no other turn anything.
LEMMA GainedAnswers ==
  ASSUME AnswerInv, NEW t \in Turns, NEW kept \in KeptKinds, turn[t].state = "active",
         messages' = [messages EXCEPT ![turn[t].session] =
                        messages[turn[t].session] \o KeptOf(t, kept)]
  PROVE  \A u \in Turns : AnswersOf(u)' = IF u = t THEN KindsOf(kept) ELSE AnswersOf(u)
<1> DEFINE s == turn[t].session
           more == KeptOf(t, kept)
<1>0. TypeOK /\ s \in Sessions
  BY DEF AnswerInv, StoreInv, TurnsOfKeptSessions
<1>1. more \in Seq(StoredMessage)
  BY KeptMessage
<1>2. /\ \A x \in Sessions : x # s => messages'[x] = messages[x]
      /\ DOMAIN messages[s] \subseteq DOMAIN messages'[s]
      /\ \A i \in DOMAIN messages[s] : messages'[s][i] = messages[s][i]
      /\ \A i \in DOMAIN messages'[s] \ DOMAIN messages[s] :
           /\ i - Len(messages[s]) \in DOMAIN more
           /\ messages'[s][i] = more[i - Len(messages[s])]
      /\ \A j \in DOMAIN more :
           /\ Len(messages[s]) + j \in DOMAIN messages'[s] \ DOMAIN messages[s]
           /\ messages'[s][Len(messages[s]) + j] = more[j]
  <2> HIDE DEF s, more
  <2>1. messages' = [messages EXCEPT ![s] = messages[s] \o more]
    BY DEF s, more
  <2> QED
    BY <1>0, <1>1, <2>1, StoredAfter
<1>3. /\ kept = <<>> => DOMAIN more = {} /\ KindsOf(kept) = {}
      /\ kept # <<>> => /\ DOMAIN more = {1}
                        /\ more[1] = [turn |-> t, kind |-> kept[1]]
                        /\ KindsOf(kept) = {kept[1]}
                        /\ kept[1] \in AnswerKinds
  BY DEF KeptOf, KindsOf, KeptKinds, AnswerKinds
<1> HIDE DEF s, more
<1>4. ASSUME NEW u \in Turns, u # t, NEW kind \in AnswerKinds
      PROVE  (\E x \in Sessions : \E i \in DOMAIN messages'[x] :
                messages'[x][i] = [turn |-> u, kind |-> kind])
             <=> (\E x \in Sessions : \E i \in DOMAIN messages[x] :
                    messages[x][i] = [turn |-> u, kind |-> kind])
  <2>1. ASSUME NEW x \in Sessions, NEW i \in DOMAIN messages'[x],
               messages'[x][i] = [turn |-> u, kind |-> kind]
        PROVE  i \in DOMAIN messages[x] /\ messages[x][i] = [turn |-> u, kind |-> kind]
    <3>1. CASE x = s /\ i \notin DOMAIN messages[s]
      <4>1. /\ i - Len(messages[s]) \in DOMAIN more
            /\ messages'[s][i] = more[i - Len(messages[s])]
        BY <1>2, <2>1, <3>1
      <4>2. messages'[s][i] = [turn |-> t, kind |-> kept[1]]
        BY <1>3, <4>1
      <4>3. [turn |-> t, kind |-> kept[1]].turn # [turn |-> u, kind |-> kind].turn
        BY <1>4
      <4> QED
        BY <2>1, <3>1, <4>2, <4>3
    <3> QED
      BY <1>2, <2>1, <3>1
  <2>2. ASSUME NEW x \in Sessions, NEW i \in DOMAIN messages[x],
               messages[x][i] = [turn |-> u, kind |-> kind]
        PROVE  i \in DOMAIN messages'[x] /\ messages'[x][i] = [turn |-> u, kind |-> kind]
    BY <1>2, <2>2
  <2> QED
    BY <2>1, <2>2
<1>5. AnswersOf(t)' = KindsOf(kept)
  <2>1. AnswersOf(t) = {}
    BY NoAnswerYet DEF Outcomes
  <2>2. ASSUME NEW kind \in AnswerKinds, NEW x \in Sessions, NEW i \in DOMAIN messages'[x],
               messages'[x][i] = [turn |-> t, kind |-> kind]
        PROVE  kind \in KindsOf(kept)
    <3>1. ~(i \in DOMAIN messages[x] /\ messages[x][i] = [turn |-> t, kind |-> kind])
      BY <2>1 DEF AnswersOf
    <3>2. i - Len(messages[s]) \in DOMAIN more /\ messages'[x][i] = more[i - Len(messages[s])]
      BY <1>2, <2>2, <3>1
    <3> QED
      BY <1>3, <2>2, <3>2
  <2>3. ASSUME NEW kind \in KindsOf(kept)
        PROVE  /\ kind \in AnswerKinds
               /\ \E x \in Sessions : \E i \in DOMAIN messages'[x] :
                    messages'[x][i] = [turn |-> t, kind |-> kind]
    <3>1. kind \in AnswerKinds /\ 1 \in DOMAIN more /\ more[1] = [turn |-> t, kind |-> kind]
      BY <1>3, <2>3
    <3>2. /\ Len(messages[s]) + 1 \in DOMAIN messages'[s]
          /\ messages'[s][Len(messages[s]) + 1] = [turn |-> t, kind |-> kind]
      BY <1>2, <3>1
    <3> QED
      BY <1>0, <3>1, <3>2
  <2> QED
    BY <2>2, <2>3 DEF AnswersOf
<1>6. ASSUME NEW u \in Turns, u # t
      PROVE  AnswersOf(u)' = AnswersOf(u)
  BY <1>4, <1>6 DEF AnswersOf
<1> QED
  BY <1>5, <1>6

LEMMA PurgedAnswers ==
  ASSUME AnswerInv, NEW s \in Sessions, NEW now \in Int, PurgeSession(s, now)
  PROVE  \A t \in Turns : AnswersOf(t)' = IF turn[t].session = s THEN {} ELSE AnswersOf(t)
<1>1. \A x \in Sessions : messages'[x] = IF x = s THEN <<>> ELSE messages[x]
  BY DEF PurgeSession, AnswerInv, StoreInv, TypeOK
<1>2. \A t \in Turns, kind \in AnswerKinds, x \in Sessions : \A i \in DOMAIN messages[x] :
        messages[x][i] = [turn |-> t, kind |-> kind] => turn[t].session = x
  BY DEF AnswerInv, MessagesOfTheirSession
<1>3. ASSUME NEW t \in Turns, NEW kind \in AnswerKinds
      PROVE  (\E x \in Sessions : \E i \in DOMAIN messages'[x] :
                messages'[x][i] = [turn |-> t, kind |-> kind])
             <=> /\ turn[t].session # s
                 /\ \E x \in Sessions : \E i \in DOMAIN messages[x] :
                      messages[x][i] = [turn |-> t, kind |-> kind]
  BY <1>1, <1>2
<1> QED
  BY <1>3 DEF AnswersOf

\* A question stored is no answer.
LEMMA AskedAnswers ==
  ASSUME AnswerInv, NEW s \in Sessions, NEW t \in Turns,
         messages' = [messages EXCEPT ![s] = Append(messages[s], [turn |-> t, kind |-> "question"])]
  PROVE  \A u \in Turns : AnswersOf(u)' = AnswersOf(u)
<1> DEFINE asks == [turn |-> t, kind |-> "question"]
<1>0. TypeOK /\ asks \in StoredMessage
  BY DEF AnswerInv, StoreInv, StoredMessage
<1>1. messages' = [messages EXCEPT ![s] = messages[s] \o <<asks>>]
  BY <1>0, StoredOne
<1>2. <<asks>> \in Seq(StoredMessage) /\ DOMAIN <<asks>> = {1} /\ <<asks>>[1].kind = "question"
  BY <1>0
<1> HIDE DEF asks
<1>3. /\ \A x \in Sessions : x # s => messages'[x] = messages[x]
      /\ DOMAIN messages[s] \subseteq DOMAIN messages'[s]
      /\ \A i \in DOMAIN messages[s] : messages'[s][i] = messages[s][i]
      /\ \A i \in DOMAIN messages'[s] \ DOMAIN messages[s] :
           /\ i - Len(messages[s]) \in DOMAIN <<asks>>
           /\ messages'[s][i] = <<asks>>[i - Len(messages[s])]
  BY <1>0, <1>1, <1>2, StoredAfter
<1>4. ASSUME NEW u \in Turns, NEW kind \in AnswerKinds
      PROVE  (\E x \in Sessions : \E i \in DOMAIN messages'[x] :
                messages'[x][i] = [turn |-> u, kind |-> kind])
             <=> (\E x \in Sessions : \E i \in DOMAIN messages[x] :
                    messages[x][i] = [turn |-> u, kind |-> kind])
  <2>1. kind # "question"
    BY DEF AnswerKinds
  <2>2. ASSUME NEW x \in Sessions, NEW i \in DOMAIN messages'[x],
               messages'[x][i] = [turn |-> u, kind |-> kind]
        PROVE  i \in DOMAIN messages[x] /\ messages[x][i] = [turn |-> u, kind |-> kind]
    BY <1>2, <1>3, <2>1, <2>2
  <2>3. ASSUME NEW x \in Sessions, NEW i \in DOMAIN messages[x],
               messages[x][i] = [turn |-> u, kind |-> kind]
        PROVE  i \in DOMAIN messages'[x] /\ messages'[x][i] = [turn |-> u, kind |-> kind]
    BY <1>3, <2>3
  <2> QED
    BY <2>2, <2>3
<1> QED
  BY <1>4 DEF AnswersOf

-----------------------------------------------------------------------------
(* Each operation is a step of the contract                                *)

AllAnswers == [t \in Turns |-> AnswersOf(t)]

LEMMA SameAllAnswers ==
  ASSUME \A t \in Turns : AnswersOf(t)' = AnswersOf(t)
  PROVE  AllAnswers' = AllAnswers
  BY DEF AllAnswers

\* The sessions the contract speaks of, by what they were and are.
LEMMA ShowStep ==
  ASSUME Inv, NEW s \in Sessions, AddSession(s)
  PROVE  Contract!Show(s)
<1>1. session \in [Sessions -> {"unknown", "visible", "hidden", "purged"}]
  BY DEF Inv, AnswerInv, StoreInv, TypeOK
<1>2. /\ session[s] = "unknown" /\ session' = [session EXCEPT ![s] = "visible"]
      /\ turn' = turn /\ events' = events /\ messages' = messages
  BY DEF AddSession
<1>3. AllAnswers' = AllAnswers
  BY <1>2, SameAnswers, SameAllAnswers
<1>4. /\ {x \in Sessions : session'[x] = "visible"}
           = {x \in Sessions : session[x] = "visible"} \cup {s}
      /\ {x \in Sessions : session'[x] = "purged"} = {x \in Sessions : session[x] = "purged"}
  BY <1>1, <1>2
<1> QED
  BY <1>2, <1>3, <1>4 DEF Contract!Show, Visible, AllAnswers

LEMMA HideStep ==
  ASSUME Inv, NEW s \in Sessions, HideSession(s)
  PROVE  Contract!Hide(s)
<1>1. session \in [Sessions -> {"unknown", "visible", "hidden", "purged"}]
  BY DEF Inv, AnswerInv, StoreInv, TypeOK
<1>2. /\ session[s] = "visible" /\ session' = [session EXCEPT ![s] = "hidden"]
      /\ turn' = turn /\ events' = events /\ messages' = messages
  BY DEF HideSession, Visible
<1>3. AllAnswers' = AllAnswers
  BY <1>2, SameAnswers, SameAllAnswers
<1>4. /\ {x \in Sessions : session'[x] = "visible"}
           = {x \in Sessions : session[x] = "visible"} \ {s}
      /\ {x \in Sessions : session'[x] = "purged"} = {x \in Sessions : session[x] = "purged"}
  BY <1>1, <1>2
<1> QED
  BY <1>2, <1>3, <1>4 DEF Contract!Hide, Visible, AllAnswers

LEMMA ForgetStep ==
  ASSUME Inv, NEW s \in Sessions, NEW now \in Int, PurgeSession(s, now)
  PROVE  Contract!Forget(s)
<1>1. session \in [Sessions -> {"unknown", "visible", "hidden", "purged"}] /\ AnswerInv
  BY DEF Inv, AnswerInv, StoreInv, TypeOK
<1>2. /\ session' = [session EXCEPT ![s] = "purged"]
      /\ turn' = [t \in Turns |-> IF turn[t].session = s THEN NoTurn ELSE turn[t]]
      /\ events' = [t \in Turns |-> IF turn[t].session = s THEN {} ELSE events[t]]
  BY DEF PurgeSession
<1>3. AllAnswers' = [t \in Turns |-> IF turn[t].session = s THEN {} ELSE AllAnswers[t]]
  BY <1>1, PurgedAnswers DEF AllAnswers
<1>4. /\ {x \in Sessions : session'[x] = "visible"}
           = {x \in Sessions : session[x] = "visible"} \ {s}
      /\ {x \in Sessions : session'[x] = "purged"}
           = {x \in Sessions : session[x] = "purged"} \cup {s}
  BY <1>1, <1>2
<1> QED
  BY <1>2, <1>3, <1>4 DEF Contract!Forget, Contract!NoTurn, NoTurn, Visible, AllAnswers

LEMMA BeginStep ==
  ASSUME Inv, NEW s \in Sessions, NEW t \in Turns, NEW newQuestion \in BOOLEAN,
         NEW until \in Int, QueueTurn(s, t, newQuestion, until)
  PROVE  Contract!Begin(s, t)
<1>1. AnswerInv /\ TypeOK /\ events[t] = {}
  BY DEF Inv, AnswerInv, StoreInv, EventInv, NothingToldOfNone, QueueTurn, NoTurn
<1>2. /\ session' = session /\ Visible(s) /\ turn[t] = NoTurn
      /\ \A u \in Turns : ~(turn[u].state = "active" /\ turn[u].session = s)
      /\ turn' = [turn EXCEPT ![t] = [state |-> "active", session |-> s]]
  BY DEF QueueTurn, ActiveTurns
<1>3. events' = events
  BY <1>1 DEF QueueTurn, TypeOK
<1>4. AllAnswers' = AllAnswers
  <2>1. CASE newQuestion
    BY <1>1, <2>1, AskedAnswers, SameAllAnswers DEF QueueTurn
  <2>2. CASE ~newQuestion
    BY <2>2, SameAnswers, SameAllAnswers DEF QueueTurn
  <2> QED
    BY <2>1, <2>2
<1> QED
  BY <1>2, <1>3, <1>4 DEF Contract!Begin, Contract!NoTurn, NoTurn, Visible, AllAnswers

LEMMA TellStep ==
  ASSUME Inv, NEW t \in Turns, NEW n \in Nat, NEW document \in Pieces,
         NEW writtenAt \in Int, Write(t, n, document, writtenAt)
  PROVE  Contract!Tell(t)
<1> DEFINE e == [position |-> n, document |-> document]
<1>1. TypeOK /\ n \in Nat
  BY StoreAssumption DEF Inv, AnswerInv, StoreInv
<1>2. /\ turn[t].state = "active" /\ OfVisible(t)
      /\ session' = session /\ turn' = turn /\ messages' = messages
      /\ events' = [events EXCEPT ![t] = events[t] \cup {e}]
      /\ \A told \in events[t] : told.position < n
  BY DEF Write, AppendEvent, Holds
<1>3. AllAnswers' = AllAnswers
  BY <1>2, SameAnswers, SameAllAnswers
<1>4. /\ events'[t] = events[t] \cup {e}
      /\ \A u \in Turns \ {t} : events'[u] = events[u]
      /\ events[t] \subseteq StoredEvent
  BY <1>1, <1>2 DEF TypeOK
<1>5. e \notin events[t] /\ e.position = n
  BY <1>1, <1>2
<1>6. events'[t] \ events[t] = {e}
  BY <1>4, <1>5
<1>7. \E f \in events'[t] : events'[t] \ events[t] = {f}
  BY <1>4, <1>6
<1>8. Contract!Continues(t)
  BY <1>1, <1>2, <1>4, <1>5, <1>6 DEF Contract!Continues, StoredEvent
<1>9. turn[t].session \in {s \in Sessions : Visible(s)}
  BY <1>2 DEF OfVisible, Inv, AnswerInv, StoreInv, TurnsOfKeptSessions
<1> QED
  BY <1>2, <1>3, <1>7, <1>8, <1>9 DEF Contract!Tell, Visible, AllAnswers

\* However a turn ends, the contract sees it conclude.
LEMMA ConcludeStep ==
  ASSUME Inv, NEW t \in Turns, NEW outcome \in Outcomes, NEW kept \in KeptKinds,
         OfVisible(t), turn[t].state = "active", session' = session,
         turn' = [turn EXCEPT ![t].state = outcome],
         Contract!Continues(t),
         messages' = [messages EXCEPT ![turn[t].session] =
                        messages[turn[t].session] \o KeptOf(t, kept)],
         outcome = "finished" <=> kept = <<"answer">>
  PROVE  Contract!Conclude(t, outcome, KindsOf(kept))
<1>1. AllAnswers' = [AllAnswers EXCEPT ![t] = KindsOf(kept)]
  BY GainedAnswers DEF AllAnswers, Inv
<1>2. turn[t].session \in {s \in Sessions : Visible(s)}
  BY DEF OfVisible, Inv, AnswerInv, StoreInv, TurnsOfKeptSessions
<1>3. kept = <<"answer">> <=> KindsOf(kept) = {"answer"}
  BY DEF KeptKinds, KindsOf
<1> QED
  BY <1>1, <1>2, <1>3 DEF Contract!Conclude, Visible, AllAnswers

LEMMA KindsKept ==
  ASSUME NEW kept \in KeptKinds
  PROVE  KindsOf(kept) \in {{}, {"answer"}, {"failed"}}
  BY DEF KeptKinds, KindsOf

LEMMA EndImplements ==
  ASSUME Inv, NEW t \in Turns, NEW how \in Endings, NEW n \in Nat, NEW endedAt \in Int,
         End(t, how, n, endedAt)
  PROVE  Contract!Conclude(t, how.state, KindsOf(how.kept))
<1> DEFINE last == Numbered(n, how.last)
<1>1. TypeOK /\ n \in Nat
  BY StoreAssumption DEF Inv, AnswerInv, StoreInv
<1>2. FinishTurn(t, how.state, endedAt, how.kept, last)
  BY DEF End
<1>3. /\ how.kept \in KeptKinds
      /\ how.state = "finished" <=> how.kept = <<"answer">>
      /\ [i \in 1..Len(how.kept) |-> [turn |-> t, kind |-> how.kept[i]]] = KeptOf(t, how.kept)
  BY KeptOfEnding
<1>4. /\ OfVisible(t) /\ turn[t].state = "active" /\ session' = session
      /\ turn' = [turn EXCEPT ![t].state = how.state]
  BY <1>2 DEF FinishTurn, Holds
<1>5. messages' = [messages EXCEPT ![turn[t].session] =
                     messages[turn[t].session] \o KeptOf(t, how.kept)]
  BY <1>2, <1>3 DEF FinishTurn
<1>6. last \subseteq StoredEvent /\ \A told \in events[t], e \in last : told.position < e.position
  BY <1>1, NumberedType DEF End
<1>7. events' = [events EXCEPT ![t] = events[t] \cup last]
  BY <1>2 DEF FinishTurn
<1> HIDE DEF last
<1>8. events[t] \subseteq StoredEvent /\ events'[t] = events[t] \cup last
      /\ \A u \in Turns \ {t} : events'[u] = events[u]
  BY <1>1, <1>7 DEF TypeOK
<1>9. Contract!Continues(t)
  BY <1>6, <1>8 DEF Contract!Continues, StoredEvent
<1>10. how.state \in Outcomes
  BY EndingState
<1> QED
  BY <1>3, <1>4, <1>5, <1>9, <1>10, ConcludeStep

LEMMA EndExpiredStep ==
  ASSUME Inv, NEW t \in Turns, NEW now \in Int, EndExpiredTurn(t, now)
  PROVE  Contract!Conclude(t, "interrupted", KindsOf(<<"failed">>))
<1>1. TypeOK /\ turn[t].session \in Sessions
  BY DEF Inv, AnswerInv, StoreInv, TurnsOfKeptSessions, EndExpiredTurn
<1>2. /\ OfVisible(t) /\ turn[t].state = "active" /\ session' = session /\ events' = events
      /\ turn' = [turn EXCEPT ![t].state = "interrupted"]
      /\ messages' = [messages EXCEPT ![turn[t].session] =
                        Append(messages[turn[t].session], [turn |-> t, kind |-> "failed"])]
  BY DEF EndExpiredTurn
<1>3. [turn |-> t, kind |-> "failed"] \in StoredMessage
  BY DEF StoredMessage, AnswerKinds
<1>4. messages' = [messages EXCEPT ![turn[t].session] =
                     messages[turn[t].session] \o <<[turn |-> t, kind |-> "failed"]>>]
  BY <1>1, <1>2, <1>3, StoredOne
<1>5. KeptOf(t, <<"failed">>) = <<[turn |-> t, kind |-> "failed"]>>
  BY DEF KeptOf
<1>6. <<"failed">> \in KeptKinds /\ "interrupted" \in Outcomes /\ <<"failed">> # <<"answer">>
  BY DEF KeptKinds, Outcomes
<1>7. Contract!Continues(t)
  BY <1>2 DEF Contract!Continues
<1> QED
  BY <1>2, <1>4, <1>5, <1>6, <1>7, ConcludeStep

LEMMA CancelQueuedStep ==
  ASSUME Inv, NEW t \in Turns, RequestCancel(t), task[t].state = "queued"
  PROVE  Contract!Conclude(t, "cancelled", KindsOf(<<>>))
<1>1. TypeOK /\ turn[t].session \in Sessions
  BY DEF Inv, AnswerInv, StoreInv, TurnsOfKeptSessions, RequestCancel
<1>2. /\ OfVisible(t) /\ turn[t].state = "active" /\ session' = session /\ events' = events
      /\ turn' = [turn EXCEPT ![t].state = "cancelled"]
      /\ messages' = messages
  BY DEF RequestCancel
<1>3. messages' = [messages EXCEPT ![turn[t].session] =
                     messages[turn[t].session] \o KeptOf(t, <<>>)]
  <2>1. messages[turn[t].session] \in Seq(StoredMessage)
    BY <1>1 DEF TypeOK
  <2>2. messages[turn[t].session] \o KeptOf(t, <<>>) = messages[turn[t].session]
    BY <2>1 DEF KeptOf
  <2> QED
    BY <1>1, <1>2, <2>2 DEF TypeOK
<1>4. <<>> \in KeptKinds /\ "cancelled" \in Outcomes /\ <<>> # <<"answer">>
  BY DEF KeptKinds, Outcomes
<1>5. Contract!Continues(t)
  BY <1>2 DEF Contract!Continues
<1> QED
  BY <1>2, <1>3, <1>4, <1>5, ConcludeStep

\* A step that moves nothing the contract speaks of.
LEMMA StutterStep ==
  ASSUME session' = session, turn' = turn, events' = events, messages' = messages
  PROVE  UNCHANGED Contract!contractVars
<1>1. AllAnswers' = AllAnswers
  BY SameAnswers, SameAllAnswers
<1> QED
  BY <1>1 DEF Contract!contractVars, Visible, AllAnswers

LEMMA CallsStep ==
  ASSUME Inv, [StoreCalls]_storeVars
  PROVE  [Contract!Next]_(Contract!contractVars)
<1>1. CASE UNCHANGED storeVars
  BY <1>1, StutterStep DEF storeVars
<1>2. ASSUME NEW s \in Sessions, AddSession(s) \/ HideSession(s)
      PROVE  Contract!Next
  BY <1>2, ShowStep, HideStep DEF Contract!Next
<1>3. ASSUME NEW s \in Sessions, NEW now \in Int, PurgeSession(s, now)
      PROVE  Contract!Next
  BY <1>3, ForgetStep DEF Contract!Next
<1>4. ASSUME NEW s \in Sessions, NEW t \in Turns, NEW newQuestion \in BOOLEAN, NEW until \in Int,
             QueueTurn(s, t, newQuestion, until)
      PROVE  Contract!Next
  BY <1>4, BeginStep DEF Contract!Next
<1>5. ASSUME NEW t \in Turns, NEW n \in Nat, NEW document \in Pieces, NEW writtenAt \in Int,
             Write(t, n, document, writtenAt)
      PROVE  Contract!Next
  BY <1>5, TellStep DEF Contract!Next
<1>6. ASSUME NEW t \in Turns, NEW outcome \in Outcomes, NEW kept \in KeptKinds,
             Contract!Conclude(t, outcome, KindsOf(kept))
      PROVE  Contract!Next
  BY <1>6, KindsKept DEF Contract!Next, Contract!Outcomes, Outcomes
<1>7. ASSUME NEW t \in Turns, NEW how \in Endings, NEW n \in Nat, NEW endedAt \in Int,
             End(t, how, n, endedAt)
      PROVE  Contract!Next
  BY <1>6, <1>7, EndImplements, EndingState, KeptOfEnding
<1>8. ASSUME NEW t \in Turns, NEW now \in Int, EndExpiredTurn(t, now)
      PROVE  Contract!Next
  <2>1. "interrupted" \in Outcomes /\ <<"failed">> \in KeptKinds
    BY DEF Outcomes, KeptKinds
  <2> QED
    BY <1>6, <1>8, <2>1, EndExpiredStep
<1>9. ASSUME NEW t \in Turns, RequestCancel(t)
      PROVE  Contract!Next \/ UNCHANGED Contract!contractVars
  <2>1. CASE task[t].state = "queued"
    <3>1. "cancelled" \in Outcomes /\ <<>> \in KeptKinds
      BY DEF Outcomes, KeptKinds
    <3> QED
      BY <1>6, <1>9, <2>1, <3>1, CancelQueuedStep
  <2>2. CASE task[t].state = "running"
    BY <1>9, <2>2, StutterStep DEF RequestCancel
  <2> QED
    BY <1>9, <2>1, <2>2 DEF RequestCancel
<1>10. ASSUME \/ \E batch, until : ClaimTasks(batch, until)
              \/ LeasesMove
              \/ \E t, now : SweepHidden(t, now)
       PROVE  UNCHANGED Contract!contractVars
  <2>1. session' = session /\ turn' = turn /\ events' = events /\ messages' = messages
    BY <1>10 DEF ClaimTasks, LeasesMove, SweepHidden, EndExpiredTask
  <2> QED
    BY <2>1, StutterStep
<1> QED
  BY <1>1, <1>2, <1>3, <1>4, <1>5, <1>7, <1>8, <1>9, <1>10 DEF StoreCalls

LEMMA InitStep == Init => Contract!Init
<1> SUFFICES ASSUME Init
             PROVE  Contract!Init
  OBVIOUS
<1>1. \A t \in Turns : AnswersOf(t) = {}
  BY DEF Init, AnswersOf
<1>2. AllAnswers = [t \in Turns |-> {}]
  BY <1>1 DEF AllAnswers
<1>3. {s \in Sessions : Visible(s)} = {} /\ {s \in Sessions : session[s] = "purged"} = {}
  BY DEF Init, Visible
<1> QED
  BY <1>2, <1>3 DEF Contract!Init, Contract!NoTurn, NoTurn, Init, AllAnswers

\* Whoever makes such calls and no others keeps the contract.
LEMMA CallsKeepContract == Init /\ [][StoreCalls]_storeVars => KeepsContract
  BY InitBoth, CallsBoth, InitStep, CallsStep, PTL DEF KeepsContract, Contract!Spec

\* The store implements its contract: whatever its callers do, in whatever order and at whatever
\* times they bring, a reader sees turns that open one at a time, tell their story while open,
\* end once with outcome, last events and answer together, and move no more.
THEOREM StoreKeepsContract == Spec => KeepsContract
  BY SpecCalls, CallsKeepContract, PTL

-----------------------------------------------------------------------------
(* What has ended stays                                                    *)

\* The contract leaves an ended turn alone, until it forgets the turn's session.
LEMMA ContractEnded ==
  ASSUME Inv, Contract!Next, NEW t \in Turns, turn[t].state \in Outcomes
  PROVE  \/ session'[turn[t].session] = "purged"
         \/ turn'[t] = turn[t] /\ events'[t] = events[t] /\ AnswersOf(t)' = AnswersOf(t)
<1>0. /\ TypeOK /\ turn[t].state # "active" /\ turn[t] # NoTurn
      /\ turn[t].session \in Sessions
      /\ AllAnswers[t] = AnswersOf(t) /\ AllAnswers'[t] = AnswersOf(t)'
  BY DEF Inv, AnswerInv, StoreInv, TurnsOfKeptSessions, Outcomes, NoTurn, AllAnswers
<1>1. ASSUME NEW s \in Sessions, Contract!Show(s) \/ Contract!Hide(s)
      PROVE  turn'[t] = turn[t] /\ events'[t] = events[t] /\ AllAnswers'[t] = AllAnswers[t]
  BY <1>1 DEF Contract!Show, Contract!Hide, AllAnswers
<1>2. ASSUME NEW s \in Sessions, Contract!Forget(s)
      PROVE  \/ session'[turn[t].session] = "purged"
             \/ turn'[t] = turn[t] /\ events'[t] = events[t] /\ AllAnswers'[t] = AllAnswers[t]
  <2>1. CASE turn[t].session = s
    <3>1. s \in {x \in Sessions : session'[x] = "purged"}
      BY <1>2 DEF Contract!Forget
    <3> QED
      BY <2>1, <3>1
  <2>2. CASE turn[t].session # s
    BY <1>2, <2>2 DEF Contract!Forget, AllAnswers
  <2> QED
    BY <2>1, <2>2
<1>3. ASSUME NEW s \in Sessions, NEW u \in Turns, Contract!Begin(s, u)
      PROVE  turn'[t] = turn[t] /\ events'[t] = events[t] /\ AllAnswers'[t] = AllAnswers[t]
  BY <1>0, <1>3 DEF Contract!Begin, Contract!NoTurn, NoTurn, AllAnswers, TypeOK
<1>4. ASSUME NEW u \in Turns, Contract!Tell(u)
      PROVE  turn'[t] = turn[t] /\ events'[t] = events[t] /\ AllAnswers'[t] = AllAnswers[t]
  BY <1>0, <1>4 DEF Contract!Tell, Contract!Continues, AllAnswers
<1>5. ASSUME NEW u \in Turns, NEW outcome, NEW kept, Contract!Conclude(u, outcome, kept)
      PROVE  turn'[t] = turn[t] /\ events'[t] = events[t] /\ AllAnswers'[t] = AllAnswers[t]
  BY <1>0, <1>5 DEF Contract!Conclude, Contract!Continues, AllAnswers, TypeOK
<1> QED
  BY <1>0, <1>1, <1>2, <1>3, <1>4, <1>5 DEF Contract!Next

LEMMA CallsKeepEnds == Init /\ [][StoreCalls]_storeVars => EndIsFinal
<1>1. ASSUME Inv, [StoreCalls]_storeVars, NEW t \in Turns, turn[t].state \in Outcomes
      PROVE  EndedStays(t) \/ UNCHANGED storeVars
  <2>1. CASE UNCHANGED storeVars
    BY <2>1
  <2>2. CASE UNCHANGED Contract!contractVars
    <3>1. turn' = turn /\ events' = events /\ AllAnswers' = AllAnswers
      BY <2>2 DEF Contract!contractVars, AllAnswers
    <3>2. AnswersOf(t)' = AllAnswers'[t] /\ AnswersOf(t) = AllAnswers[t]
      BY DEF AllAnswers
    <3> QED
      BY <1>1, <3>1, <3>2, CallsBoth
      DEF EndedStays, Inv, AnswerInv, StoreInv, TypeOK, TaskFollowsTurn, Outcomes
  <2>3. CASE Contract!Next
    <3>1. Inv' /\ turn[t].state # "active" /\ turn[t].state # "none"
      BY <1>1, CallsBoth DEF Outcomes
    <3>2. turn'[t] = turn[t] => task'[t].state = "done"
      BY <3>1 DEF Inv, AnswerInv, StoreInv, TypeOK, TaskFollowsTurn
    <3> QED
      BY <1>1, <2>3, <3>2, ContractEnded DEF EndedStays
  <2> QED
    BY <1>1, <2>1, <2>2, <2>3, CallsStep
<1>2. Inv /\ [StoreCalls]_storeVars
        => [\A t \in Turns : turn[t].state \in Outcomes => EndedStays(t)]_storeVars
  BY <1>1
<1> QED
  BY <1>2, InitBoth, CallsBoth, PTL DEF EndIsFinal

\* A turn that has ended keeps its outcome, its events and its answer, and its task is done, for
\* as long as its session is kept.
THEOREM EndIsFinalAlways == Spec => EndIsFinal
  BY SpecCalls, CallsKeepEnds, PTL
=============================================================================
