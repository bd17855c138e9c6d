---------------------------- MODULE ReadersProofs ----------------------------
(***************************************************************************)
(* The two readers of a conversation's turns, proved for any sessions,     *)
(* turns, workers, times and documents, and any writers as Writers lets    *)
(* them be. A client that follows a turn, over any number of attachments,  *)
(* is given every event and told only of an end there was; and one that    *)
(* opens a conversation is shown no turn as running whose lease had        *)
(* lapsed, nor a question without what became of it.                       *)
(***************************************************************************)
EXTENDS Watcher, OpenSession, TurnStoreProofs, WellFoundedInduction

-----------------------------------------------------------------------------
(* The invariant                                                           *)

\* A turn's events have positions of their own, which leave no gap before it ends, and the one
\* that says it ended is there only once it has.
StoryInv ==
  /\ turn \in [Turns -> [state : {"none", "active"} \cup Outcomes,
                         session : Sessions \cup {NoSession}]]
  /\ events \in [Turns -> SUBSET StoredEvent]
  /\ \A t \in Turns : \A e \in events[t] : e.position > 0
  /\ \A t \in Turns : \A e, f \in events[t] : e.position = f.position => e = f
  /\ \A t \in Turns : turn[t].state = "active" => Contiguous(events[t])
  /\ \A t \in Turns : turn[t].state = "none" => events[t] = {}
  /\ \A t \in Turns : \A e \in events[t] : e.document = "turn_ended" => turn[t].state \in Outcomes
  /\ up \in BOOLEAN

Places == {"away", "reading", "giving", "waiting", "checking", "expiring", "ending", "asking",
           "over", "refused"}

\* The client follows a turn there is and has its events up to one, or follows none yet.
Following ==
  \/ /\ watch.turn \in Turns /\ turn[watch.turn].state # "none"
     /\ seen = 0 \/ \E e \in events[watch.turn] : e.position = seen
     /\ given = {e \in events[watch.turn] : e.position <= seen}
  \/ /\ watch.turn = NoTurnYet /\ watch.pc = "away"
     /\ seen = 0 /\ given = {}

\* What the generator holds is the next events, up to one.
Holding ==
  IF watch.pc = "giving"
  THEN /\ watch.batch # {}
       /\ \A e \in watch.batch : e \in events[watch.turn] /\ e.position > seen
       /\ \A f \in watch.batch : \A e \in events[watch.turn] :
            e.position > seen /\ e.position <= f.position => e \in watch.batch
  ELSE watch.batch = {}

ClientInv ==
  /\ DOMAIN watch = {"pc", "turn", "batch", "age"}
  /\ watch.pc \in Places
  /\ Following
  /\ Holding
  /\ watch.pc = "over" => turn[watch.turn].state \in Outcomes

LEMMA InitWatch == WatchInit => StoryInv /\ ClientInv
<1> SUFFICES ASSUME WatchInit PROVE StoryInv /\ ClientInv
  OBVIOUS
<1>1. StoryInv
  BY DEF WatchInit, WritersInit, Init, StoryInv, NoTurn
<1>2. ClientInv
  BY DEF WatchInit, Place, ClientInv, Following, Holding, Places
<1> QED
  BY <1>1, <1>2

-----------------------------------------------------------------------------
(* The writers' steps                                                      *)

\* A turn there is stays, ended once it has; its events are kept, and those that come have higher
\* numbers.
GoesOn ==
  \A t \in Turns : turn[t].state # "none" =>
    /\ turn'[t].state # "none"
    /\ turn[t].state \in Outcomes => turn'[t].state \in Outcomes
    /\ events[t] \subseteq events'[t]
    /\ \A e \in events'[t] \ events[t], f \in events[t] : e.position > f.position

\* Positions are numbers of their own.
ToldSoFar(story) ==
  /\ story \subseteq StoredEvent
  /\ \A e \in story : e.position > 0
  /\ \A e, f \in story : e.position = f.position => e = f

LEMMA ToldOn ==
  ASSUME NEW story, NEW more, Contiguous(story), story \subseteq StoredEvent,
         more \subseteq StoredEvent, \A e \in more : e.position > Cardinality(story),
         \A e, f \in more : e.position = f.position => e = f
  PROVE  ToldSoFar(story \cup more) /\ \A e \in more, f \in story : e.position > f.position
<1>1. Cardinality(story) \in Nat
  BY FS_CardinalityType DEF Contiguous
<1>2. \A e \in story \cup more : e.position \in Nat
  BY DEF StoredEvent
<1> QED
  BY <1>1, <1>2 DEF Contiguous, ToldSoFar

\* One turn's state and events change: the others' stay.
LEMMA OneTurn ==
  ASSUME StoryInv, up' \in BOOLEAN, NEW t \in Turns, NEW state \in {"active"} \cup Outcomes,
         NEW story,
         turn' = [turn EXCEPT ![t].state = state], events' = [events EXCEPT ![t] = story],
         ToldSoFar(story), state = "active" => Contiguous(story), events[t] \subseteq story,
         \A e \in story \ events[t], f \in events[t] : e.position > f.position,
         turn[t].state \in Outcomes => state \in Outcomes,
         \A e \in story : e.document = "turn_ended" => state \in Outcomes
  PROVE  StoryInv' /\ GoesOn
<1>1. /\ turn'[t].state = state
      /\ \A u \in Turns : u # t => turn'[u] = turn[u]
      /\ turn' \in [Turns -> [state : {"none", "active"} \cup Outcomes,
                              session : Sessions \cup {NoSession}]]
  BY DEF StoryInv
<1>2. /\ events'[t] = story
      /\ \A u \in Turns : u # t => events'[u] = events[u]
      /\ events' \in [Turns -> SUBSET StoredEvent]
  BY DEF StoryInv, ToldSoFar
<1>3. state # "none"
  BY DEF Outcomes
<1>4. StoryInv'
  BY <1>1, <1>2, <1>3 DEF StoryInv, ToldSoFar
<1>5. GoesOn
  BY <1>1, <1>2, <1>3 DEF GoesOn
<1> QED
  BY <1>4, <1>5

\* No turn changes.
LEMMA NoTurnChanges ==
  ASSUME StoryInv, up' \in BOOLEAN, UNCHANGED <<turn, events>>
  PROVE  StoryInv' /\ GoesOn
  BY DEF StoryInv, GoesOn

LEMMA ExpiredStory ==
  ASSUME StoryInv, NEW t \in Turns, NEW now, EndExpiredTurn(t, now), up' = up
  PROVE  StoryInv' /\ GoesOn
<1>1. /\ turn[t].state = "active" /\ events' = [events EXCEPT ![t] = events[t]]
      /\ turn' = [turn EXCEPT ![t].state = "interrupted"]
  BY DEF EndExpiredTurn, StoryInv
<1>2. /\ ToldSoFar(events[t]) /\ "interrupted" \in Outcomes /\ "interrupted" # "active"
      /\ up' \in BOOLEAN
  BY DEF StoryInv, ToldSoFar, Outcomes
<1> QED
  BY <1>1, <1>2, OneTurn

LEMMA QueueStory ==
  ASSUME StoryInv, NEW s \in Sessions, NEW t \in Turns, NEW new, NEW until,
         QueueTurn(s, t, new, until), up' = up
  PROVE  StoryInv' /\ GoesOn
<1>1. /\ turn[t].state = "none" /\ events[t] = {}
      /\ events' = events
      /\ turn' = [turn EXCEPT ![t] = [state |-> "active", session |-> s]]
  BY DEF QueueTurn, NoTurn, StoryInv
<1>2. /\ turn'[t].state = "active"
      /\ \A u \in Turns : u # t => turn'[u] = turn[u]
      /\ turn' \in [Turns -> [state : {"none", "active"} \cup Outcomes,
                              session : Sessions \cup {NoSession}]]
  BY <1>1 DEF StoryInv
<1>3. StoryInv'
  BY <1>1, <1>2, NothingIsContiguous DEF StoryInv
<1> QED
  BY <1>1, <1>2, <1>3 DEF GoesOn

LEMMA CancelStory ==
  ASSUME StoryInv, NEW t \in Turns, RequestCancel(t), up' = up
  PROVE  StoryInv' /\ GoesOn
<1>1. up' \in BOOLEAN
  BY DEF StoryInv
<1>2. CASE turn' = turn
  BY <1>1, <1>2, NoTurnChanges DEF RequestCancel
<1>3. CASE turn' = [turn EXCEPT ![t].state = "cancelled"]
  <2>1. events' = [events EXCEPT ![t] = events[t]] /\ turn[t].state = "active"
    BY DEF RequestCancel, StoryInv
  <2>2. ToldSoFar(events[t]) /\ "cancelled" \in Outcomes /\ "cancelled" # "active"
    BY DEF StoryInv, ToldSoFar, Outcomes
  <2> QED
    BY <1>1, <1>3, <2>1, <2>2, OneTurn
<1> QED
  BY <1>2, <1>3 DEF RequestCancel

LEMMA WritesStory ==
  ASSUME StoryInv, NEW t \in Turns, NEW document \in Pieces, NEW at,
         WorkerWrites(t, document, at)
  PROVE  StoryInv' /\ GoesOn
<1> DEFINE e == [position |-> Cardinality(events[t]) + 1, document |-> document]
           story == events[t] \cup {e}
<1>1. /\ up' \in BOOLEAN
      /\ turn[t].state = "active" /\ turn' = turn
      /\ events' = [events EXCEPT ![t] = story]
  BY DEF WorkerWrites, Write, AppendEvent, Holds, StoryInv
<1>2. turn' = [turn EXCEPT ![t].state = "active"]
  BY <1>1 DEF StoryInv
<1>3. Contiguous(events[t]) /\ events[t] \subseteq StoredEvent
  BY <1>1 DEF StoryInv
<1>4. Cardinality(events[t]) \in Nat
  BY <1>3, FS_CardinalityType DEF Contiguous
<1>5. /\ {e} \subseteq StoredEvent
      /\ \A f \in {e} : f.position > Cardinality(events[t])
      /\ \A f, g \in {e} : f.position = g.position => f = g
  BY <1>4 DEF StoredEvent, Documents
<1>6. ToldSoFar(story) /\ \A f \in {e}, g \in events[t] : f.position > g.position
  BY <1>3, <1>5, ToldOn
<1>7. Contiguous(story)
  BY <1>3, NextIsContiguous
<1>8. \A f \in story : f.document # "turn_ended"
  BY <1>1, StoreAssumption DEF StoryInv, Outcomes
<1>9. /\ events[t] \subseteq story
      /\ \A f \in story \ events[t], g \in events[t] : f.position > g.position
  BY <1>6
<1> HIDE DEF story
<1>10. /\ "active" \in {"active"} \cup Outcomes
       /\ turn[t].state \in Outcomes => "active" \in Outcomes
       /\ \A f \in story : f.document = "turn_ended" => "active" \in Outcomes
  BY <1>1, <1>8 DEF Outcomes
<1> QED
  BY <1>1, <1>2, <1>6, <1>7, <1>9, <1>10, OneTurn

\* Documents numbered upward have numbers of their own, from the first on.
LEMMA NumberedOnce ==
  ASSUME NEW how \in Endings, NEW n \in Nat
  PROVE  /\ \A e \in Numbered(n, how.last) : e.position >= n
         /\ \A e, f \in Numbered(n, how.last) : e.position = f.position => e = f
<1>1. DOMAIN how.last \subseteq Nat \ {0}
  BY DEF Endings
<1> QED
  BY <1>1 DEF Numbered

LEMMA EndsStory ==
  ASSUME StoryInv, NEW t \in Turns, NEW how \in Endings, NEW givenUp \in GivenUp, NEW at,
         WorkerEnds(t, how, givenUp, at)
  PROVE  StoryInv' /\ GoesOn
<1> DEFINE n == Cardinality(events[t]) + 1 + givenUp
           last == Numbered(n, how.last)
           story == events[t] \cup last
<1>1. /\ up' \in BOOLEAN
      /\ turn[t].state = "active" /\ turn' = [turn EXCEPT ![t].state = how.state]
      /\ events' = [events EXCEPT ![t] = story]
  BY DEF WorkerEnds, End, FinishTurn, Holds, StoryInv
<1>2. how.state \in Outcomes /\ how.state # "active"
  BY EndingState DEF Outcomes
<1>3. Contiguous(events[t]) /\ events[t] \subseteq StoredEvent
  BY <1>1 DEF StoryInv
<1>4. Cardinality(events[t]) \in Nat /\ n \in Nat /\ n > Cardinality(events[t])
  BY <1>3, FS_CardinalityType, WritersAssumption DEF Contiguous
<1> HIDE DEF n
<1>5. last \subseteq StoredEvent
  BY <1>4, NumberedType
<1>6. /\ \A e \in last : e.position > Cardinality(events[t])
      /\ \A e, f \in last : e.position = f.position => e = f
  <2>1. \A e \in last : e.position \in Nat /\ e.position >= n
    BY <1>4, <1>5, NumberedOnce DEF StoredEvent
  <2>2. \A e, f \in last : e.position = f.position => e = f
    BY <1>4, NumberedOnce
  <2> QED
    BY <1>4, <2>1, <2>2
<1> HIDE DEF last
<1>7. ToldSoFar(story) /\ \A e \in last, f \in events[t] : e.position > f.position
  BY <1>3, <1>5, <1>6, ToldOn
<1>8. /\ events[t] \subseteq story
      /\ \A e \in story \ events[t], f \in events[t] : e.position > f.position
  BY <1>7
<1> HIDE DEF story
<1> QED
  BY <1>1, <1>2, <1>7, <1>8, OneTurn

\* Whatever the writers do.
LEMMA WritersStory ==
  ASSUME StoryInv, WritersNext
  PROVE  StoryInv' /\ GoesOn
<1>1. ASSUME NEW t \in Turns, NEW sentAt \in Times,
             WorkerClaims(t, sentAt) \/ WorkerRenews(t, sentAt)
      PROVE  StoryInv' /\ GoesOn
  BY <1>1, NoTurnChanges DEF WorkerClaims, WorkerRenews, ClaimTasks, RenewLeases, StoryInv
<1>2. ASSUME NEW t \in Turns, SomeoneCancels(t)
      PROVE  StoryInv' /\ GoesOn
  BY <1>2, CancelStory DEF SomeoneCancels
<1>3. ASSUME NEW t \in Turns, NEW document \in Pieces, NEW at, WorkerWrites(t, document, at)
      PROVE  StoryInv' /\ GoesOn
  BY <1>3, WritesStory
<1>4. ASSUME NEW t \in Turns, NEW how \in Endings, NEW givenUp \in GivenUp, NEW at,
             WorkerEnds(t, how, givenUp, at)
      PROVE  StoryInv' /\ GoesOn
  BY <1>4, EndsStory
<1>5. CASE WorkerDies \/ \E s \in Sessions : SomeoneDeletes(s)
  BY <1>5, NoTurnChanges DEF WorkerDies, SomeoneDeletes, HideSession, storeVars, StoryInv
<1>6. ASSUME NEW t \in Turns, NEW now, SomeoneEnds(t, now)
      PROVE  StoryInv' /\ GoesOn
  BY <1>6, ExpiredStory DEF SomeoneEnds
<1> QED
  BY <1>1, <1>2, <1>3, <1>4, <1>5, <1>6 DEF WritersNext

-----------------------------------------------------------------------------
(* The client                                                              *)

\* A turn that goes on keeps what it had, up to the beginning or to any of its events.
LEMMA KeepsItsPast ==
  ASSUME StoryInv, StoryInv', GoesOn, NEW t \in Turns, turn[t].state # "none",
         NEW p, p = 0 \/ \E f \in events[t] : f.position = p
  PROVE  /\ p \in Nat
         /\ events[t] \subseteq events'[t]
         /\ \A e \in events'[t] : e.position \in Nat
         /\ \A e \in events'[t] : e.position <= p => e \in events[t]
<1>1. /\ events[t] \subseteq events'[t]
      /\ \A e \in events'[t] \ events[t], f \in events[t] : e.position > f.position
  BY DEF GoesOn
<1>2. \A e \in events'[t] : e.position \in Nat /\ e.position > 0
  BY DEF StoryInv, StoredEvent
<1>3. p \in Nat
  BY <1>1, <1>2
<1> QED
  BY <1>1, <1>2, <1>3

LEMMA FollowsOn ==
  ASSUME StoryInv, StoryInv', GoesOn, Following, watch'.turn = watch.turn,
         watch.pc = "away" /\ watch.turn = NoTurnYet => watch'.pc = "away",
         UNCHANGED <<seen, given>>
  PROVE  Following'
<1> DEFINE t == watch.turn
<1>1. CASE /\ t \in Turns /\ turn[t].state # "none"
           /\ seen = 0 \/ \E e \in events[t] : e.position = seen
           /\ given = {e \in events[t] : e.position <= seen}
  <2>1. turn'[t].state # "none"
    BY <1>1 DEF GoesOn
  <2>2. /\ events[t] \subseteq events'[t]
        /\ \A e \in events'[t] : e.position <= seen => e \in events[t]
    BY <1>1, KeepsItsPast
  <2>3. seen = 0 \/ \E e \in events'[t] : e.position = seen
    BY <1>1, <2>2
  <2>4. given = {e \in events'[t] : e.position <= seen}
    BY <1>1, <2>2
  <2> QED
    BY <1>1, <2>1, <2>3, <2>4 DEF Following
<1>2. CASE t = NoTurnYet /\ watch.pc = "away" /\ seen = 0 /\ given = {}
  BY <1>2 DEF Following
<1> QED
  BY <1>1, <1>2 DEF Following

\* The client does nothing while the turns go on: what it holds is still what comes next.
LEMMA ClientStays ==
  ASSUME StoryInv, StoryInv', ClientInv, GoesOn, DOMAIN watch' = DOMAIN watch,
         watch'.pc = watch.pc, watch'.turn = watch.turn, watch'.batch = watch.batch,
         UNCHANGED <<seen, given>>
  PROVE  ClientInv'
<1> DEFINE t == watch.turn
<1>1. Following'
  BY FollowsOn DEF ClientInv
<1>2. CASE watch.pc \notin {"giving", "over"}
  BY <1>1, <1>2 DEF ClientInv, Holding
<1>3. CASE watch.pc \in {"giving", "over"}
  <2>1. /\ t \in Turns /\ turn[t].state # "none"
        /\ seen = 0 \/ \E e \in events[t] : e.position = seen
    BY <1>3 DEF ClientInv, Following
  <2>2. events[t] \subseteq events'[t]
    BY <2>1 DEF GoesOn
  <2>3. watch.pc = "over" => turn'[t].state \in Outcomes
    BY <2>1 DEF ClientInv, GoesOn
  <2>4. Holding'
    <3>1. CASE watch.pc = "over"
      BY <3>1 DEF ClientInv, Holding
    <3>2. CASE watch.pc = "giving"
      <4>1. /\ watch.batch # {}
            /\ \A e \in watch.batch : e \in events[t] /\ e.position > seen
            /\ \A f \in watch.batch : \A e \in events[t] :
                 e.position > seen /\ e.position <= f.position => e \in watch.batch
        BY <3>2 DEF ClientInv, Holding
      <4>2. ASSUME NEW f \in watch.batch, NEW e \in events'[t],
                   e.position > seen, e.position <= f.position
            PROVE  e \in watch.batch
        <5>1. f \in events[t]
          BY <4>1
        <5>2. e \in events[t]
          BY <2>1, <4>2, <5>1, KeepsItsPast
        <5> QED
          BY <4>1, <4>2, <5>2
      <4> QED
        BY <2>2, <3>2, <4>1, <4>2 DEF Holding
    <3> QED
      BY <1>3, <3>1, <3>2
  <2> QED
    BY <1>1, <2>3, <2>4 DEF ClientInv
<1> QED
  BY <1>2, <1>3

\* It goes to another place, and holds nothing there.
LEMMA ClientMoves ==
  ASSUME StoryInv, StoryInv', ClientInv, GoesOn, NEW pc \in Places \ {"giving"},
         watch' = Place(pc, watch.turn),
         watch.pc = "away" => watch.turn # NoTurnYet,
         pc = "over" => turn'[watch.turn].state \in Outcomes,
         UNCHANGED <<seen, given>>
  PROVE  ClientInv'
<1>1. /\ watch'.pc = pc /\ watch'.turn = watch.turn /\ watch'.batch = {}
      /\ DOMAIN watch' = {"pc", "turn", "batch", "age"}
  BY DEF Place
<1>2. Following'
  BY <1>1, FollowsOn DEF ClientInv
<1> QED
  BY <1>1, <1>2 DEF ClientInv, Holding

\* A client that is somewhere follows a turn there is.
LEMMA FollowsATurn ==
  ASSUME ClientInv, watch.pc # "away" \/ watch.turn # NoTurnYet
  PROVE  /\ watch.turn \in Turns /\ turn[watch.turn].state # "none"
         /\ seen = 0 \/ \E e \in events[watch.turn] : e.position = seen
         /\ given = {e \in events[watch.turn] : e.position <= seen}
  BY DEF ClientInv, Following

\* One call of the generator's, which takes it to a place where it holds nothing.
LEMMA ClientCalls ==
  ASSUME StoryInv, ClientInv, NEW at, NEW next, Calls(at, next), at # "away",
         NEW pc \in Places \ {"giving"}, next = Place(pc, watch.turn),
         pc = "over" => turn[watch.turn].state \in Outcomes
  PROVE  ClientInv'
<1>1. UNCHANGED <<turn, events, up, seen, given>> /\ watch.pc # "away"
  BY DEF Calls, writersVars, storeVars
<1>2. StoryInv' /\ GoesOn
  BY <1>1, NoTurnChanges DEF StoryInv
<1>3. CASE Sees
  BY <1>1, <1>2, <1>3, ClientMoves DEF Calls
<1>4. CASE ~Sees
  <2>1. watch' = Place("refused", watch.turn) /\ "refused" \in Places \ {"giving"}
    BY <1>4 DEF Calls, Places
  <2> QED
    BY <1>1, <1>2, <2>1, ClientMoves
<1> QED
  BY <1>3, <1>4

\* What it reads is what comes next, all of it.
LEMMA BatchStep ==
  ASSUME StoryInv, ClientInv, Read
  PROVE  ClientInv'
<1> DEFINE t == watch.turn
           batch == EventsAfter(t, seen)
<1>1. watch.pc = "reading"
  BY DEF Read, Calls
<1>2. t \in Turns
  BY <1>1, FollowsATurn
<1>3. UNCHANGED <<turn, events, up, seen, given>>
  BY DEF Read, Calls, writersVars, storeVars
<1>4. StoryInv' /\ GoesOn
  BY <1>3, NoTurnChanges DEF StoryInv
<1>5. CASE batch = {} \/ ~Sees
  <2>1. PICK pc \in {"waiting", "refused"} : watch' = Place(pc, t)
    BY <1>5 DEF Read, Calls
  <2>2. pc \in Places \ {"giving"} /\ pc # "over"
    BY <2>1 DEF Places
  <2> QED
    BY <1>1, <1>3, <1>4, <2>1, <2>2, ClientMoves
<1>6. CASE batch # {} /\ Sees
  <2>1. /\ watch'.pc = "giving" /\ watch'.turn = t /\ watch'.batch = batch
        /\ DOMAIN watch' = {"pc", "turn", "batch", "age"}
    BY <1>6 DEF Read, Calls, Place
  <2>2. Following'
    BY <1>1, <1>3, <1>4, <2>1, FollowsOn DEF ClientInv
  <2>3. /\ \A e \in batch : e \in events[t] /\ e.position > seen
        /\ \A e \in events[t] : e.position > seen => e \in batch
    BY <1>2 DEF EventsAfter
  <2> HIDE DEF batch
  <2>6. Holding'
    BY <1>3, <1>6, <2>1, <2>3 DEF Holding
  <2>7. watch'.pc \in Places /\ watch'.pc # "over"
    BY <2>1 DEF Places
  <2> QED
    BY <2>1, <2>2, <2>6, <2>7 DEF ClientInv
<1> QED
  BY <1>5, <1>6

\* There is a first among events.
Below == {p \in Nat \X Nat : p[1] < p[2]}

LEMMA LeastPosition ==
  ASSUME NEW batch, batch # {}, \A e \in batch : e.position \in Nat
  PROVE  \E e \in batch : \A f \in batch : e.position <= f.position
<1> DEFINE positions == {e.position : e \in batch}
<1>1. IsWellFoundedOn(Below, Nat)
  BY NatLessThanWellFounded DEF OpToRel, Below
<1>2. positions \subseteq Nat /\ positions # {}
  OBVIOUS
<1> HIDE DEF positions
<1>3. PICK n \in positions : \A m \in positions : <<m, n>> \notin Below
  BY <1>1, <1>2, WFMin
<1>4. ASSUME NEW m \in positions PROVE n <= m
  <2>1. <<m, n>> \notin Below /\ <<m, n>> \in Nat \X Nat
    BY <1>2, <1>3
  <2>2. ~(<<m, n>>[1] < <<m, n>>[2])
    BY ONLY <2>1 DEF Below
  <2> QED
    BY <1>2, <2>2
<1> QED
  BY <1>4 DEF positions

\* The event it gives is the first of those it holds, and the next after the last it gave.
LEMMA GiveStep ==
  ASSUME StoryInv, ClientInv, Give
  PROVE  ClientInv'
<1> DEFINE t == watch.turn
           first == CHOOSE e \in watch.batch : \A f \in watch.batch : e.position <= f.position
           rest == watch.batch \ {first}
<1>1. watch.pc = "giving"
  BY DEF Give
<1>2. /\ t \in Turns /\ turn[t].state # "none"
      /\ seen = 0 \/ \E e \in events[t] : e.position = seen
      /\ given = {e \in events[t] : e.position <= seen}
  BY <1>1, FollowsATurn
<1>3. UNCHANGED <<turn, events, up>>
  BY DEF Give, writersVars, storeVars
<1>4. /\ \A e \in events[t] : e.position \in Nat /\ e.position > 0
      /\ \A e, f \in events[t] : e.position = f.position => e = f
      /\ seen \in Nat
  BY <1>2 DEF StoryInv, StoredEvent
<1>5. /\ watch.batch # {}
      /\ \A e \in watch.batch : e \in events[t] /\ e.position > seen
      /\ \A f \in watch.batch : \A e \in events[t] :
           e.position > seen /\ e.position <= f.position => e \in watch.batch
  BY <1>1 DEF ClientInv, Holding
<1>6. \E e \in watch.batch : \A f \in watch.batch : e.position <= f.position
  BY <1>4, <1>5, LeastPosition
<1>7. first \in watch.batch /\ \A f \in watch.batch : first.position <= f.position
  BY <1>6
<1>8. /\ given' = given \cup {first} /\ seen' = first.position
      /\ watch' = CASE first.document = "turn_ended" -> Place("over", t)
                    [] first.document # "turn_ended" /\ rest # {}
                         -> [watch EXCEPT !.batch = rest]
                    [] OTHER -> Place("waiting", t)
  BY DEF Give
<1>9. rest \subseteq watch.batch /\ \A f \in watch.batch : f # first => f \in rest
  OBVIOUS
<1>10. first \notin rest
  OBVIOUS
<1> HIDE DEF first, rest
<1>11. first \in events[t] /\ first.position > seen /\ first.position \in Nat
  BY <1>4, <1>5, <1>7
<1>12. \A e \in events[t] : e.position <= first.position => e.position <= seen \/ e = first
  <2> SUFFICES ASSUME NEW e \in events[t], e.position <= first.position, ~(e.position <= seen)
               PROVE  e = first
    OBVIOUS
  <2>1. e.position \in Nat /\ e.position > seen
    BY <1>4
  <2>2. e \in watch.batch
    BY <1>5, <1>7, <2>1
  <2>3. e.position = first.position
    BY <1>7, <1>11, <2>1, <2>2
  <2> QED
    BY <1>4, <1>11, <2>3
<1>13. watch'.turn = t
  BY <1>8 DEF Place, ClientInv
<1>14. Following'
  <2>1. given' = {f \in events[t] : f.position <= seen'}
    BY <1>2, <1>4, <1>8, <1>11, <1>12
  <2> QED
    BY <1>2, <1>3, <1>8, <1>11, <1>13, <2>1 DEF Following
<1>15. CASE first.document = "turn_ended"
  <2>1. turn'[t].state \in Outcomes
    BY <1>2, <1>3, <1>11, <1>15 DEF StoryInv
  <2>2. watch' = Place("over", t)
    BY <1>8, <1>15
  <2>3. /\ watch'.pc = "over" /\ watch'.batch = {}
        /\ DOMAIN watch' = {"pc", "turn", "batch", "age"}
    BY <2>2 DEF Place
  <2> QED
    BY <1>13, <1>14, <2>1, <2>3 DEF ClientInv, Holding, Places
<1>16. CASE first.document # "turn_ended" /\ rest # {}
  <2>1. watch' = [watch EXCEPT !.batch = rest]
    BY <1>8, <1>16
  <2>2. /\ watch'.pc = "giving" /\ watch'.batch = rest
        /\ DOMAIN watch' = {"pc", "turn", "batch", "age"}
    BY <1>1, <2>1 DEF ClientInv
  <2>3. \A e \in rest : e \in events[t] /\ e.position > seen'
    <3> SUFFICES ASSUME NEW e \in rest PROVE e \in events[t] /\ e.position > seen'
      OBVIOUS
    <3>1. e \in events[t] /\ first.position <= e.position /\ e # first
      BY <1>5, <1>7, <1>9, <1>10
    <3>2. e.position # first.position /\ e.position \in Nat
      BY <1>4, <1>11, <3>1
    <3> QED
      BY <1>8, <1>11, <3>1, <3>2
  <2>4. ASSUME NEW f \in rest, NEW e \in events[t],
               e.position > seen', e.position <= f.position
        PROVE  e \in rest
    <3>1. e.position > seen /\ e # first
      BY <1>4, <1>8, <1>11, <2>4
    <3>2. e \in watch.batch
      BY <1>5, <1>9, <2>4, <3>1
    <3> QED
      BY <1>9, <3>1, <3>2
  <2>5. Holding'
    BY <1>3, <1>13, <1>16, <2>2, <2>3, <2>4 DEF Holding
  <2> QED
    BY <1>14, <2>2, <2>5 DEF ClientInv, Places
<1>17. CASE first.document # "turn_ended" /\ rest = {}
  <2>1. watch' = Place("waiting", t)
    BY <1>8, <1>17
  <2>2. /\ watch'.pc = "waiting" /\ watch'.batch = {}
        /\ DOMAIN watch' = {"pc", "turn", "batch", "age"}
    BY <2>1 DEF Place
  <2> QED
    BY <1>14, <2>2 DEF ClientInv, Holding, Places
<1> QED
  BY <1>15, <1>16, <1>17

\* The calls that hand it no event.
LEMMA CheckStep ==
  ASSUME StoryInv, ClientInv, Check
  PROVE  ClientInv'
<1> DEFINE next == IF EventsAfter(watch.turn, seen) # {} THEN Place("reading", watch.turn)
                   ELSE Place("expiring", watch.turn)
<1>1. PICK pc \in {"reading", "expiring"} : next = Place(pc, watch.turn)
  OBVIOUS
<1>2. pc \in Places \ {"giving"} /\ pc # "over"
  BY <1>1 DEF Places
<1>3. Calls("checking", next)
  BY DEF Check
<1> HIDE DEF next
<1> QED
  BY <1>1, <1>2, <1>3, ClientCalls

LEMMA LookStep ==
  ASSUME StoryInv, ClientInv, LookForLapsed
  PROVE  ClientInv'
<1> DEFINE next == IF \E t \in ActiveTurns(turn[watch.turn].session) : Lapsed(t, 0)
                   THEN Place("ending", watch.turn)
                   ELSE Place("asking", watch.turn)
<1>1. PICK pc \in {"ending", "asking"} : next = Place(pc, watch.turn)
  OBVIOUS
<1>2. pc \in Places \ {"giving"} /\ pc # "over"
  BY <1>1 DEF Places
<1>3. Calls("expiring", next)
  BY DEF LookForLapsed
<1> HIDE DEF next
<1> QED
  BY <1>1, <1>2, <1>3, ClientCalls

\* A turn that is none any more was asked, so the record that does not say "active" says an end.
LEMMA GetTurnStep ==
  ASSUME StoryInv, ClientInv, GetTurn
  PROVE  ClientInv'
<1> DEFINE t == watch.turn
           next == IF turn[t].state = "active" THEN Place("reading", t) ELSE Place("over", t)
<1>1. Calls("asking", next)
  BY DEF GetTurn
<1>2. t \in Turns /\ turn[t].state # "none"
  BY <1>1, FollowsATurn DEF Calls
<1>3. turn[t].state # "active" => turn[t].state \in Outcomes
  BY <1>2 DEF StoryInv
<1>4. PICK pc \in {"reading", "over"} :
        next = Place(pc, t) /\ (pc = "over" => turn[t].state \in Outcomes)
  BY <1>3
<1>5. pc \in Places \ {"giving"}
  BY <1>4 DEF Places
<1> HIDE DEF next
<1> QED
  BY <1>1, <1>4, <1>5, ClientCalls

\* It may end a turn itself: its own, or one that began since.
LEMMA EndLapsedStep ==
  ASSUME StoryInv, ClientInv, EndLapsed
  PROVE  StoryInv' /\ ClientInv'
<1>1. watch.pc = "ending" /\ UNCHANGED <<up, seen, given>>
  BY DEF EndLapsed
<1>2. StoryInv' /\ GoesOn
  <2>1. CASE UNCHANGED storeVars
    BY <1>1, <2>1, NoTurnChanges DEF storeVars, StoryInv
  <2>2. ASSUME NEW t \in Turns, EndExpiredTurn(t, -watch.age)
        PROVE  StoryInv' /\ GoesOn
    BY <1>1, <2>2, ExpiredStory
  <2> QED
    BY <2>1, <2>2 DEF EndLapsed, ActiveTurns
<1>3. PICK pc \in {"asking", "refused"} : watch' = Place(pc, watch.turn)
  BY DEF EndLapsed
<1>4. pc \in Places \ {"giving"} /\ pc # "over"
  BY <1>3 DEF Places
<1> QED
  BY <1>1, <1>2, <1>3, <1>4, ClientMoves

\* It attaches, from the start or after the last it saw, waits, or leaves.
LEMMA AttachStep ==
  ASSUME StoryInv, ClientInv, NEW t \in Turns, Attach(t)
  PROVE  ClientInv'
<1>1. /\ watch' = Place("reading", t) /\ seen' = 0 /\ given' = {}
      /\ UNCHANGED <<turn, events>> /\ turn[t].state # "none"
  BY DEF Attach, writersVars, storeVars
<1>2. /\ watch'.pc = "reading" /\ watch'.turn = t /\ watch'.batch = {}
      /\ DOMAIN watch' = {"pc", "turn", "batch", "age"}
  BY <1>1 DEF Place
<1>3. \A e \in events[t] : e.position \in Nat /\ e.position > 0
  BY DEF StoryInv, StoredEvent
<1>4. {} = {e \in events[t] : e.position <= 0}
  BY <1>3
<1>5. Following'
  BY <1>1, <1>2, <1>4 DEF Following
<1> QED
  BY <1>2, <1>5 DEF ClientInv, Holding, Places

LEMMA ComesAndGoes ==
  ASSUME StoryInv, ClientInv, Reattach \/ Leave \/ Wait
  PROVE  ClientInv'
<1>1. UNCHANGED <<turn, events, up, seen, given>>
  BY DEF Reattach, Leave, Wait, writersVars, storeVars
<1>2. StoryInv' /\ GoesOn
  BY <1>1, NoTurnChanges DEF StoryInv
<1>3. PICK pc \in {"reading", "away", "checking"} : watch' = Place(pc, watch.turn)
  BY DEF Reattach, Leave, Wait
<1>4. pc \in Places \ {"giving"} /\ pc # "over"
  BY <1>3 DEF Places
<1>5. watch.pc = "away" => watch.turn # NoTurnYet
  BY DEF Reattach, Leave, Wait, Attached
<1> QED
  BY <1>1, <1>2, <1>3, <1>4, <1>5, ClientMoves

\* The handlers that begin a conversation and a turn, the writers, and time: the client does
\* nothing.
LEMMA BesideWatch ==
  ASSUME StoryInv, ClientInv,
         \/ \E s \in Sessions : Starts(s)
         \/ \E s \in Sessions, t \in Turns : Asks(s, t)
         \/ WritersNext /\ UNCHANGED watchVars
         \/ WatchTick
  PROVE  StoryInv' /\ ClientInv'
<1>1. ASSUME NEW s \in Sessions, Starts(s)
      PROVE  StoryInv' /\ GoesOn /\ UNCHANGED watchVars
  BY <1>1, NoTurnChanges DEF Starts, AddSession, StoryInv
<1>2. ASSUME NEW s \in Sessions, NEW t \in Turns, Asks(s, t)
      PROVE  StoryInv' /\ GoesOn /\ UNCHANGED watchVars
  BY <1>2, QueueStory DEF Asks
<1>3. ASSUME WritersNext, UNCHANGED watchVars
      PROVE  StoryInv' /\ GoesOn /\ UNCHANGED watchVars
  BY <1>3, WritersStory
<1>4. CASE StoryInv' /\ GoesOn /\ UNCHANGED watchVars
  BY <1>4, ClientStays DEF watchVars
<1>5. CASE WatchTick
  <2>1. UNCHANGED <<turn, events, up, seen, given>>
    BY <1>5 DEF WatchTick
  <2>2. StoryInv' /\ GoesOn
    BY <2>1, NoTurnChanges DEF StoryInv
  <2>3. /\ DOMAIN watch' = DOMAIN watch
        /\ watch'.pc = watch.pc /\ watch'.turn = watch.turn /\ watch'.batch = watch.batch
    BY <1>5 DEF WatchTick, ClientInv
  <2> QED
    BY <2>1, <2>2, <2>3, ClientStays
<1> QED
  BY <1>1, <1>2, <1>3, <1>4, <1>5

-----------------------------------------------------------------------------
(* The theorems                                                            *)

LEMMA WatchStep ==
  ASSUME StoryInv, ClientInv, [WatchNext]_watcherVars
  PROVE  StoryInv' /\ ClientInv'
<1>1. CASE UNCHANGED watcherVars
  <2>1. UNCHANGED <<turn, events, up, watch, seen, given>>
    BY <1>1 DEF watcherVars, writersVars, storeVars, watchVars
  <2> QED
    BY <2>1, NoTurnChanges, ClientStays DEF StoryInv
<1>2. CASE \/ \E s \in Sessions : Starts(s)
           \/ \E s \in Sessions, t \in Turns : Asks(s, t)
           \/ WritersNext /\ UNCHANGED watchVars
           \/ WatchTick
  BY <1>2, BesideWatch
<1>3. CASE EndLapsed
  BY <1>3, EndLapsedStep
<1>4. CASE \/ \E t \in Turns : Attach(t)
           \/ Reattach \/ Leave \/ Wait
           \/ Read \/ Give \/ Check \/ LookForLapsed \/ GetTurn
  <2>1. UNCHANGED writersVars
    BY <1>4 DEF Attach, Reattach, Leave, Wait, Read, Give, Check, LookForLapsed, GetTurn, Calls
  <2>2. StoryInv'
    BY <2>1, NoTurnChanges DEF writersVars, storeVars, StoryInv
  <2>3. ClientInv'
    BY <1>4, AttachStep, ComesAndGoes, BatchStep, GiveStep, CheckStep, LookStep, GetTurnStep
  <2> QED
    BY <2>2, <2>3
<1> QED
  BY <1>1, <1>2, <1>3, <1>4 DEF WatchNext

LEMMA WatchInvariants == WatchSpec => [](StoryInv /\ ClientInv)
<1>1. WatchInit => StoryInv /\ ClientInv
  BY InitWatch
<1>2. StoryInv /\ ClientInv /\ [WatchNext]_watcherVars => (StoryInv /\ ClientInv)'
  BY WatchStep
<1> QED
  BY <1>1, <1>2, PTL DEF WatchSpec

\* A client of watch_turn is given every event up to the last it saw, over any number of
\* attachments and whatever is written, ended or hidden between two of its reads.
THEOREM NothingSkippedAlways == WatchSpec => []NothingSkipped
<1>1. StoryInv /\ ClientInv => NothingSkipped
  <2> SUFFICES ASSUME StoryInv, ClientInv, watch.turn \in Turns, turn[watch.turn].state # "none"
               PROVE  given = {e \in events[watch.turn] : e.position <= seen}
    BY DEF NothingSkipped
  <2>1. CASE watch.pc # "away" \/ watch.turn # NoTurnYet
    BY <2>1, FollowsATurn
  <2>2. CASE seen = 0 /\ given = {}
    <3>1. \A e \in events[watch.turn] : e.position \in Nat /\ e.position > 0
      BY DEF StoryInv, StoredEvent
    <3> QED
      BY <2>2, <3>1
  <2> QED
    BY <2>1, <2>2 DEF ClientInv, Following
<1> QED
  BY <1>1, WatchInvariants, PTL

\* At every moment of watch_turn's generator it holds only stored events of its own turn that
\* come after the last it gave, and it returns only once the turn has ended.
THEOREM WatchInvAlways == WatchSpec => []WatchInv
<1>1. StoryInv /\ ClientInv => WatchInv
  <2> SUFFICES ASSUME StoryInv, ClientInv PROVE WatchInv
    OBVIOUS
  <2>1. watch.pc = "giving" <=> watch.batch # {}
    BY DEF ClientInv, Holding
  <2>2. \A e \in watch.batch : e \in events[watch.turn] /\ e.position > seen
    BY DEF ClientInv, Holding
  <2>3. watch.turn \in Turns \cup {NoTurnYet} /\ given \subseteq StoredEvent
    BY DEF ClientInv, Following, StoryInv
  <2>4. WatchTypeOK
    BY <2>1, <2>2, <2>3 DEF WatchTypeOK, ClientInv, Places, StoryInv
  <2> QED
    BY <2>4 DEF WatchInv, ToldOnlyTheEnd, ClientInv
<1> QED
  BY <1>1, WatchInvariants, PTL

-----------------------------------------------------------------------------
(* The invariants                                                          *)

\* A session's turn at work is the latest it began; when that one finished, the newest message is
\* no question.
LatestInv ==
  /\ started \in [Sessions -> Seq(Turns)]
  /\ \A t \in Turns : turn[t].state = "active" => LatestTurn(turn[t].session) = t
  /\ \A s \in Sessions : messages[s] # <<>> => started[s] # <<>>
  /\ \A s \in Sessions : started[s] # <<>> =>
       /\ turn[LatestTurn(s)].state # "none" /\ turn[LatestTurn(s)].session = s
       /\ turn[LatestTurn(s)].state = "finished" => Newest(s).kind # "question"

HandlerShape ==
  /\ open \in [pc : {"none", "expiring", "thread", "running", "counting", "latest", "opened",
                     "refused", "failed"},
               session : Sessions \cup {NoSession}, age : 0..MaxAge, ends : Turns \cup {Nobody}]
  /\ open.pc # "none" => open.session \in Sessions
  /\ open.pc = "expiring" => open.ends \in Turns
  /\ DOMAIN view = {"end", "active", "position", "bad"}

\* A turn found lapsed for good stays so until it is ended, or its session hidden, and the view
\* is read after that.
LapsedInv ==
  /\ lapsed \subseteq Turns
  /\ open.pc = "none" => lapsed = {}
  /\ \A t \in lapsed :
       /\ turn[t].state # "none" /\ turn[t].session = open.session
       /\ turn[t].state = "active" =>
            IF open.pc = "expiring"
            THEN t = open.ends /\ task[t].lease < -open.age /\ ForGood(t)
            ELSE session[open.session] = "hidden"
  /\ open.pc \in {"counting", "latest", "opened"} => view.active \notin lapsed

\* The moments hold the present one. Where nothing ran under a question, the moment at which that
\* was read shows a turn that had ended badly, or another end of the thread.
MomentsInv ==
  /\ \A s \in Sessions : open.pc # "none" /\ open.session = s => Moment(s) \in moments
  /\ open.pc = "counting" => view.active # Nobody
  /\ open.pc = "latest" /\ view.active = Nobody /\ view.end.kind = "question" =>
       \E m \in moments : \/ m.end # view.end
                          \/ m.bad \in Turns /\ turn[m.bad].state \in EndedBadly

\* The events of a turn at work are numbered on from 1, so there is a next number.
NumberedInv == \A t \in Turns : turn[t].state = "active" => Contiguous(events[t])

StoreSide == StoreInv /\ LatestInv /\ NumberedInv

OpenInv == StoreSide /\ HandlerShape /\ LapsedInv /\ MomentsInv /\ ShowsWhatRuns

-----------------------------------------------------------------------------
(* What the store's steps leave as it is                                   *)

\* A turn there is stays in its session, as it ended once it has; what is hidden stays hidden.
Onward ==
  /\ \A t \in Turns : turn[t].state # "none" =>
       /\ turn'[t].state # "none" /\ turn'[t].session = turn[t].session
       /\ turn[t].state \in Outcomes => turn'[t].state = turn[t].state
  /\ \A s \in Sessions : session[s] = "hidden" => session'[s] = "hidden"

\* Nobody takes up again a task whose lease has lapsed for good.
LapsedStay ==
  \A t \in Turns : turn[t].state = "active" /\ task[t].lease < 0 /\ ForGood(t) =>
    task'[t].lease = task[t].lease

LEMMA LatestIsTurn ==
  ASSUME LatestInv, NEW s \in Sessions
  PROVE  /\ started[s] = <<>> => LatestTurn(s) = Nobody
         /\ started[s] # <<>> => LatestTurn(s) \in Turns
<1>1. started[s] \in Seq(Turns)
  BY DEF LatestInv
<1>2. CASE started[s] = <<>>
  BY <1>2 DEF LatestTurn
<1>3. CASE started[s] # <<>>
  <2>1. Len(started[s]) \in DOMAIN started[s]
    BY <1>1, <1>3
  <2> QED
    BY <1>1, <1>3, <2>1 DEF LatestTurn
<1> QED
  BY <1>2, <1>3

LEMMA InitOpen == OpenInit => OpenInv
<1> SUFFICES ASSUME OpenInit PROVE OpenInv
  OBVIOUS
<1>1. StoreInv
  BY InitInv DEF OpenInit, WritersInit
<1>2. LatestInv
  BY DEF OpenInit, WritersInit, Init, LatestInv, NoTurn
<1>3. HandlerShape /\ LapsedInv /\ MomentsInv /\ ShowsWhatRuns
  BY TimeAssumption
  DEF OpenInit, HandlerShape, LapsedInv, MomentsInv, ShowsWhatRuns, Nothing, OpenedView
<1>4. NumberedInv
  BY NothingIsContiguous DEF OpenInit, WritersInit, Init, NumberedInv
<1> QED
  BY <1>1, <1>2, <1>3, <1>4 DEF OpenInv, StoreSide

-----------------------------------------------------------------------------
(* The writers, the users and time                                         *)

\* Neither turns nor messages change.
LEMMA QuietStep ==
  ASSUME LatestInv, UNCHANGED <<turn, messages, started>>,
         \A s \in Sessions : session[s] = "hidden" => session'[s] = "hidden"
  PROVE  LatestInv' /\ Onward
<1>1. \A s \in Sessions : LatestTurn(s)' = LatestTurn(s) /\ Newest(s)' = Newest(s)
  BY DEF LatestTurn, Newest
<1>2. \A t \in Turns : LatestTurn(turn[t].session)' = LatestTurn(turn[t].session)
  BY DEF LatestTurn
<1> QED
  BY <1>1, <1>2 DEF LatestInv, Onward

\* The active turn t ends, and its messages are stored.
LEMMA EndStep ==
  ASSUME StoreInv, LatestInv, NEW t \in Turns, NEW state \in Outcomes, NEW more,
         turn[t].state = "active", started' = started, session' = session,
         turn' = [turn EXCEPT ![t].state = state],
         messages' = [messages EXCEPT ![turn[t].session] = messages[turn[t].session] \o more],
         more \in Seq(StoredMessage),
         state = "finished" => more # <<>> /\ more[Len(more)].kind # "question"
  PROVE  LatestInv' /\ Onward
<1> DEFINE s == turn[t].session
<1>1. /\ s \in Sessions /\ LatestTurn(s) = t
      /\ messages \in [Sessions -> Seq(StoredMessage)]
      /\ state # "none" /\ state # "active"
  BY DEF StoreInv, TypeOK, TurnsOfKeptSessions, LatestInv, Outcomes
<1>2. /\ turn'[t].state = state /\ turn'[t].session = s
      /\ \A u \in Turns : u # t => turn'[u] = turn[u]
      /\ \A u \in Turns : turn'[u].session = turn[u].session
  BY DEF StoreInv, TypeOK
<1>3. \A z \in Sessions : LatestTurn(z)' = LatestTurn(z)
  BY DEF LatestTurn
<1>4. (\A u \in Turns : turn[u].state = "active" => LatestTurn(turn[u].session) = u)'
  <2>1. \A u \in Turns : turn'[u].state = "active" =>
           turn[u].state = "active" /\ turn'[u].session = turn[u].session
    BY <1>1, <1>2
  <2>2. \A u \in Turns : turn'[u].state = "active" => LatestTurn(turn[u].session) = u
    BY <2>1 DEF LatestInv
  <2> QED
    BY <2>1, <2>2 DEF LatestTurn
<1>5. started[s] # <<>>
  BY <1>1, OpenAssumption DEF LatestTurn
<1>6. \A z \in Sessions : z # s => messages'[z] = messages[z]
  OBVIOUS
<1>7. messages'[s] = messages[s] \o more
  BY <1>1
<1>8. state = "finished" => Newest(s)'.kind # "question"
  <2>1. SUFFICES ASSUME state = "finished" PROVE Newest(s)'.kind # "question"
    OBVIOUS
  <2>2. /\ messages[s] \in Seq(StoredMessage) /\ more # <<>>
        /\ more[Len(more)].kind # "question"
    BY <1>1, <2>1
  <2>3. /\ messages'[s] # <<>>
        /\ messages'[s][Len(messages'[s])] = more[Len(more)]
    BY <1>7, <2>2
  <2> QED
    BY <2>2, <2>3 DEF Newest
<1>9. \A z \in Sessions : z # s => Newest(z)' = Newest(z)
  BY <1>6 DEF Newest
<1>10. \A z \in Sessions : started[z] # <<>> =>
        /\ turn'[LatestTurn(z)].state # "none" /\ turn'[LatestTurn(z)].session = z
        /\ turn'[LatestTurn(z)].state = "finished" => Newest(z)'.kind # "question"
  <2>1. SUFFICES ASSUME NEW z \in Sessions, started[z] # <<>>
                 PROVE  /\ turn'[LatestTurn(z)].state # "none"
                        /\ turn'[LatestTurn(z)].session = z
                        /\ turn'[LatestTurn(z)].state = "finished" =>
                             Newest(z)'.kind # "question"
    OBVIOUS
  <2>2. LatestTurn(z) \in Turns
    BY <2>1, LatestIsTurn
  <2>3. CASE z = s
    BY <1>1, <1>2, <1>8, <2>3
  <2>4. CASE z # s
    <3>1. /\ turn[LatestTurn(z)].state # "none" /\ turn[LatestTurn(z)].session = z
          /\ turn[LatestTurn(z)].state = "finished" => Newest(z).kind # "question"
      BY <2>1 DEF LatestInv
    <3>2. turn'[LatestTurn(z)] = turn[LatestTurn(z)]
      BY <1>2, <2>2, <2>4, <3>1
    <3> QED
      BY <1>9, <2>4, <3>1, <3>2
  <2> QED
    BY <2>3, <2>4
<1>11. \A z \in Sessions : messages'[z] # <<>> => started[z] # <<>>
  BY <1>5, <1>6 DEF LatestInv
<1>12. LatestInv'
  <2>1. (\A z \in Sessions : started[z] # <<>> =>
          /\ turn[LatestTurn(z)].state # "none" /\ turn[LatestTurn(z)].session = z
          /\ turn[LatestTurn(z)].state = "finished" => Newest(z).kind # "question")'
    BY <1>3, <1>10
  <2>2. (started \in [Sessions -> Seq(Turns)])'
    BY DEF LatestInv
  <2>3. (\A z \in Sessions : messages[z] # <<>> => started[z] # <<>>)'
    BY <1>11
  <2> QED
    BY <1>4, <2>1, <2>2, <2>3 DEF LatestInv
<1>13. Onward
  BY <1>1, <1>2 DEF Onward, Outcomes
<1> QED
  BY <1>12, <1>13

\* A call was sent MaxAge ticks ago at the most.
LEMMA SentWithinMaxAge ==
  ASSUME NEW sentAt \in Times
  PROVE  MaxAge \in Nat /\ sentAt \in Int /\ -MaxAge <= sentAt
  BY TimeAssumption

LEMMA ClaimStep ==
  ASSUME StoreSide, NEW t \in Turns, NEW sentAt \in Times, WorkerClaims(t, sentAt),
         started' = started
  PROVE  StoreSide' /\ Onward /\ LapsedStay
<1> USE DEF StoreSide
<1>1. /\ TypeOK /\ sentAt + LeaseTime \in Int
      /\ ClaimTasks({t}, sentAt + LeaseTime) /\ up
      /\ task[t].state = "queued" /\ task[t].lease > sentAt
  BY SentWithinMaxAge, StoreAssumption DEF StoreInv, WorkerClaims, Claimable
<1>2. TypeOK'
  BY <1>1, ClaimType
<1>3. /\ UNCHANGED <<session, turn, messages>>
      /\ \A u \in Turns : u # t => task'[u] = task[u]
      /\ task'[t].state = "running" /\ NumberedInv'
  BY <1>1 DEF ClaimTasks, NumberedInv
<1>4. StoreInv'
  BY <1>1, <1>2, <1>3, LeasingInv
<1>5. LatestInv' /\ Onward
  BY <1>3, QuietStep
<1>6. LapsedStay
  <2>1. task[t].lease \in Int
    BY <1>1 DEF TypeOK
  <2>2. ~ForGood(t)
    BY <1>1, <2>1, SentWithinMaxAge DEF ForGood
  <2> QED
    BY <1>3, <2>2 DEF LapsedStay
<1> QED
  BY <1>3, <1>4, <1>5, <1>6

LEMMA RenewStep ==
  ASSUME StoreSide, NEW t \in Turns, NEW sentAt \in Times, WorkerRenews(t, sentAt),
         started' = started
  PROVE  StoreSide' /\ Onward /\ LapsedStay
<1> USE DEF StoreSide
<1>1. /\ TypeOK /\ sentAt + LeaseTime \in Int
      /\ RenewLeases({t}, sentAt, sentAt + LeaseTime) /\ up
  BY SentWithinMaxAge, StoreAssumption DEF StoreInv, WorkerRenews
<1>2. TypeOK'
  BY <1>1, RenewType
<1>3. /\ UNCHANGED <<session, turn, messages>>
      /\ \A u \in Turns : \/ task'[u] = task[u]
                          \/ task[u].lease > sentAt /\ task'[u].state = task[u].state
      /\ NumberedInv'
  BY <1>1 DEF RenewLeases, Renewed, TypeOK, NumberedInv
<1>4. StoreInv'
  BY <1>1, <1>2, <1>3, LeasingInv
<1>5. LatestInv' /\ Onward
  BY <1>3, QuietStep
<1>6. LapsedStay
  <2>1. \A u \in Turns : task[u].lease \in Int
    BY <1>1 DEF TypeOK
  <2>2. \A u \in Turns : ForGood(u) => task'[u] = task[u]
    BY <1>1, <1>3, <2>1, SentWithinMaxAge DEF ForGood
  <2> QED
    BY <2>2 DEF LapsedStay
<1> QED
  BY <1>3, <1>4, <1>5, <1>6

LEMMA WriteStep ==
  ASSUME StoreSide, NEW t \in Turns, NEW document \in Pieces, NEW at,
         WorkerWrites(t, document, at), started' = started
  PROVE  StoreSide' /\ Onward /\ LapsedStay
<1> USE DEF StoreSide
<1> DEFINE n == Cardinality(events[t]) + 1
<1>1. /\ TypeOK /\ document \in Documents
      /\ AppendEvent(t, n, document, at) /\ turn[t].state = "active"
      /\ events' = [events EXCEPT ![t] = events[t] \cup {[position |-> n, document |-> document]}]
  BY DEF StoreInv, WorkerWrites, Write, Documents, AppendEvent, Holds
<1>7. /\ n \in Nat
      /\ Contiguous(events[t] \cup {[position |-> n, document |-> document]})
  <2>1. Contiguous(events[t])
    BY <1>1 DEF NumberedInv
  <2>2. Cardinality(events[t]) \in Nat
    BY <2>1, FS_CardinalityType DEF Contiguous
  <2>3. Contiguous(events[t] \cup {[position |-> Cardinality(events[t]) + 1,
                                    document |-> document]})
    BY <2>1, NextIsContiguous
  <2> QED
    BY <2>2, <2>3
<1>8. NumberedInv'
  BY <1>1, <1>7 DEF NumberedInv, TypeOK, AppendEvent
<1> HIDE DEF n
<1>2. TypeOK'
  BY <1>1, <1>7, AppendType
<1>3. UNCHANGED <<session, turn, task, messages>>
  BY <1>1 DEF AppendEvent
<1>4. StoreInv'
  BY <1>1, <1>2, <1>3, LeasingInv
<1>5. LatestInv' /\ Onward
  BY <1>3, QuietStep
<1>6. LapsedStay
  BY <1>3 DEF LapsedStay
<1> QED
  BY <1>4, <1>5, <1>6, <1>8

LEMMA WorkerEndStep ==
  ASSUME StoreSide, NEW t \in Turns, NEW how \in Endings, NEW givenUp \in GivenUp, NEW at,
         WorkerEnds(t, how, givenUp, at), started' = started
  PROVE  StoreSide' /\ Onward /\ LapsedStay
<1> USE DEF StoreSide
<1> DEFINE n == Cardinality(events[t]) + 1 + givenUp
           more == [i \in 1..Len(how.kept) |-> [turn |-> t, kind |-> how.kept[i]]]
<1>1. /\ TypeOK
      /\ FinishTurn(t, how.state, at, how.kept, Numbered(n, how.last))
      /\ events' = [events EXCEPT ![t] = events[t] \cup Numbered(n, how.last)]
  BY DEF StoreInv, WorkerEnds, End, FinishTurn
<1>9. n \in Nat
  <2>1. Contiguous(events[t])
    BY <1>1 DEF NumberedInv, FinishTurn, Holds
  <2>2. Cardinality(events[t]) \in Nat /\ givenUp \in Nat
    BY <2>1, FS_CardinalityType, WritersAssumption DEF Contiguous
  <2> QED
    BY <2>2
<1> HIDE DEF n
<1>2. TypeOK'
  BY <1>1, <1>9, FinishType
<1>3. /\ UNCHANGED session /\ turn[t].state = "active"
      /\ turn' = [turn EXCEPT ![t].state = how.state]
      /\ task' = [task EXCEPT ![t].state = "done"]
      /\ messages' = [messages EXCEPT ![turn[t].session] = messages[turn[t].session] \o more]
  BY <1>1 DEF FinishTurn, Holds
<1>4. how.state \in Outcomes /\ more \in Seq(StoredMessage)
  BY EndingState, KeptType
<1>5. how.state = "finished" => more # <<>> /\ more[Len(more)].kind # "question"
  <2>1. SUFFICES ASSUME how.state = "finished"
                 PROVE  more # <<>> /\ more[Len(more)].kind # "question"
    OBVIOUS
  <2>2. how.kept = <<"answer">>
    BY <2>1 DEF Endings
  <2>3. Len(more) = 1 /\ more[1].kind = "answer"
    BY <2>2
  <2> HIDE DEF more
  <2>4. more # <<>>
    BY <2>3
  <2> QED
    BY <2>3, <2>4
<1> HIDE DEF more
<1>6. StoreInv'
  BY <1>2, <1>3, <1>4, EndingInv
<1>7. LatestInv' /\ Onward
  BY <1>3, <1>4, <1>5, EndStep
<1>8. LapsedStay
  BY <1>1, <1>3 DEF LapsedStay, TypeOK
<1>10. NumberedInv'
  BY <1>1, <1>3, <1>4 DEF NumberedInv, TypeOK, Outcomes
<1> QED
  BY <1>6, <1>7, <1>8, <1>10

LEMMA ExpiredStep ==
  ASSUME StoreSide, NEW t \in Turns, NEW now, EndExpiredTurn(t, now),
         started' = started
  PROVE  StoreSide' /\ Onward /\ LapsedStay
<1> USE DEF StoreSide
<1> DEFINE answer == [turn |-> t, kind |-> "failed"]
           more == <<answer>>
<1>1. /\ UNCHANGED session /\ turn[t].state = "active" /\ TypeOK
      /\ turn' = [turn EXCEPT ![t].state = "interrupted"]
      /\ task' = [task EXCEPT ![t].state = "done"]
      /\ messages' = [messages EXCEPT ![turn[t].session] =
                        Append(messages[turn[t].session], answer)]
      /\ NumberedInv'
  BY DEF EndExpiredTurn, StoreInv, NumberedInv
<1>2. TypeOK'
  BY <1>1, ExpiredType
<1>3. turn[t].session \in Sessions /\ messages[turn[t].session] \in Seq(StoredMessage)
  BY <1>1 DEF StoreInv, TurnsOfKeptSessions, TypeOK
<1>4. answer \in StoredMessage
  BY DEF StoredMessage, AnswerKinds
<1>5. Append(messages[turn[t].session], answer) = messages[turn[t].session] \o more
  BY <1>3, <1>4
<1>6. /\ "interrupted" \in Outcomes /\ more \in Seq(StoredMessage)
      /\ "interrupted" # "finished"
  BY <1>4 DEF Outcomes
<1> HIDE DEF more
<1>7. StoreInv'
  BY <1>1, <1>2, <1>6, EndingInv
<1>8. LatestInv' /\ Onward
  BY <1>1, <1>5, <1>6, EndStep
<1>9. LapsedStay
  BY <1>1 DEF LapsedStay, TypeOK
<1> QED
  BY <1>1, <1>7, <1>8, <1>9

LEMMA CancelStep ==
  ASSUME StoreSide, NEW t \in Turns, RequestCancel(t), started' = started
  PROVE  StoreSide' /\ Onward /\ LapsedStay
<1> USE DEF StoreSide
<1>0. UNCHANGED <<session, events, messages>> /\ turn[t].state = "active" /\ TypeOK
  BY DEF RequestCancel, StoreInv
<1>1. NumberedInv' /\ UNCHANGED <<session, messages>> /\ turn[t].state = "active" /\ TypeOK
  BY <1>0 DEF RequestCancel, NumberedInv, TypeOK
<1>2. TypeOK'
  BY <1>1, CancelType
<1>3. CASE /\ task' = [task EXCEPT ![t].state = "done"]
           /\ turn' = [turn EXCEPT ![t].state = "cancelled"]
  <2>1. /\ "cancelled" \in Outcomes /\ "cancelled" # "finished"
        /\ <<>> \in Seq(StoredMessage)
    BY DEF Outcomes
  <2>2. /\ turn[t].session \in Sessions /\ messages[turn[t].session] \in Seq(StoredMessage)
        /\ messages \in [Sessions -> Seq(StoredMessage)]
    BY <1>1 DEF StoreInv, TurnsOfKeptSessions, TypeOK
  <2>3. messages[turn[t].session] \o <<>> = messages[turn[t].session]
    BY <2>2
  <2>4. messages' = [messages EXCEPT ![turn[t].session] = messages[turn[t].session] \o <<>>]
    BY <1>1, <2>2, <2>3
  <2>5. StoreInv'
    BY <1>1, <1>2, <1>3, <2>1, EndingInv
  <2>6. LatestInv' /\ Onward
    BY <1>1, <1>3, <2>1, <2>4, EndStep
  <2>7. LapsedStay
    BY <1>1, <1>3 DEF LapsedStay, TypeOK
  <2> QED
    BY <1>1, <2>5, <2>6, <2>7
<1>4. CASE UNCHANGED <<turn, task>>
  <2>1. StoreInv'
    BY <1>1, <1>2, <1>4, LeasingInv
  <2>2. LatestInv' /\ Onward
    BY <1>1, <1>4, QuietStep
  <2> QED
    BY <1>1, <1>4, <2>1, <2>2 DEF LapsedStay
<1> QED
  BY <1>3, <1>4 DEF RequestCancel

\* Sessions are begun and hidden.
LEMMA SessionStep ==
  ASSUME StoreSide, NEW s \in Sessions, AddSession(s) \/ HideSession(s), started' = started
  PROVE  StoreSide' /\ Onward /\ LapsedStay
<1> USE DEF StoreSide
<1>1. StoreInv'
  BY CallsInv DEF StoreCalls
<1>2. /\ UNCHANGED <<turn, task, events, messages>>
      /\ \A z \in Sessions : session[z] = "hidden" => session'[z] = "hidden"
  BY DEF AddSession, HideSession, Visible, StoreInv, TypeOK
<1>3. LatestInv' /\ Onward
  BY <1>2, QuietStep
<1> QED
  BY <1>1, <1>2, <1>3 DEF NumberedInv, LapsedStay

LEMMA AskStep ==
  ASSUME StoreSide, NEW s \in Sessions, NEW t \in Turns, NEW newQuestion \in BOOLEAN,
         Ask(s, t, newQuestion)
  PROVE  StoreSide' /\ Onward /\ LapsedStay
<1> USE DEF StoreSide
<1>1. /\ QueueTurn(s, t, newQuestion, QueuedTime)
      /\ newQuestion \/ messages[s] # <<>>
      /\ started' = [started EXCEPT ![s] = Append(started[s], t)]
  BY DEF Ask
<1>2. StoreInv'
  <2>1. QueuedTime \in Int
    BY StoreAssumption
  <2> QED
    BY <1>1, <2>1, CallsInv DEF StoreCalls
<1>3. /\ turn[t].state = "none" /\ ActiveTurns(s) = {}
      /\ turn'[t].state = "active" /\ turn'[t].session = s
      /\ \A u \in Turns : u # t => turn'[u] = turn[u] /\ task'[u] = task[u]
      /\ events' = [events EXCEPT ![t] = {}]
      /\ \A z \in Sessions : z # s => messages'[z] = messages[z]
      /\ UNCHANGED session
  BY <1>1 DEF QueueTurn, NoTurn, StoreInv, TypeOK
<1>4. NumberedInv'
  BY <1>3, NothingIsContiguous DEF NumberedInv, StoreInv, TypeOK
<1>5. Onward /\ LapsedStay
  BY <1>3 DEF Onward, LapsedStay
<1>6. /\ started' \in [Sessions -> Seq(Turns)]
      /\ started'[s] # <<>> /\ LatestTurn(s)' = t
      /\ \A z \in Sessions : z # s => started'[z] = started[z]
  BY <1>1 DEF LatestInv, LatestTurn
<1>7. /\ \A z \in Sessions : z # s => LatestTurn(z)' = LatestTurn(z) /\ Newest(z)' = Newest(z)
  BY <1>3, <1>6 DEF LatestTurn, Newest
<1>8. (\A u \in Turns : turn[u].state = "active" => LatestTurn(turn[u].session) = u)'
  <2>1. SUFFICES ASSUME NEW u \in Turns, turn'[u].state = "active"
                 PROVE  LatestTurn(turn[u].session)' = u
    OBVIOUS
  <2>2. CASE u = t
    BY <1>3, <1>6, <2>2 DEF LatestTurn
  <2>3. CASE u # t
    <3>1. turn[u].state = "active" /\ turn'[u] = turn[u] /\ turn[u].session # s
      BY <1>3, <2>1, <2>3 DEF ActiveTurns
    <3>2. turn[u].session \in Sessions /\ LatestTurn(turn[u].session) = u
      BY <3>1 DEF StoreInv, TurnsOfKeptSessions, LatestInv
    <3>3. started'[turn[u].session] = started[turn[u].session]
      BY <1>6, <3>1, <3>2
    <3> QED
      BY <3>1, <3>2, <3>3 DEF LatestTurn
  <2> QED
    BY <2>2, <2>3
<1>9. (\A z \in Sessions : messages[z] # <<>> => started[z] # <<>>)'
  BY <1>3, <1>6 DEF LatestInv
<1>10. (\A z \in Sessions : started[z] # <<>> =>
          /\ turn[LatestTurn(z)].state # "none" /\ turn[LatestTurn(z)].session = z
          /\ turn[LatestTurn(z)].state = "finished" => Newest(z).kind # "question")'
  <2>1. SUFFICES ASSUME NEW z \in Sessions, started'[z] # <<>>
                 PROVE  /\ turn'[LatestTurn(z)'].state # "none"
                        /\ turn'[LatestTurn(z)'].session = z
                        /\ turn'[LatestTurn(z)'].state = "finished" =>
                             Newest(z)'.kind # "question"
    OBVIOUS
  <2>2. CASE z = s
    BY <1>3, <1>6, <2>2
  <2>3. CASE z # s
    <3>1. /\ started[z] # <<>> /\ LatestTurn(z)' = LatestTurn(z) /\ Newest(z)' = Newest(z)
      BY <1>6, <1>7, <2>1, <2>3
    <3>2. /\ turn[LatestTurn(z)].state # "none" /\ turn[LatestTurn(z)].session = z
          /\ turn[LatestTurn(z)].state = "finished" => Newest(z).kind # "question"
      BY <3>1 DEF LatestInv
    <3>3. LatestTurn(z) \in Turns
      BY <3>1, LatestIsTurn
    <3>4. turn'[LatestTurn(z)] = turn[LatestTurn(z)]
      BY <1>3, <3>2, <3>3
    <3> QED
      BY <3>1, <3>2, <3>4
  <2> QED
    BY <2>2, <2>3
<1>11. LatestInv'
  BY <1>6, <1>8, <1>9, <1>10 DEF LatestInv
<1> QED
  BY <1>2, <1>4, <1>5, <1>11

\* A lease that had lapsed for a call has lapsed for it a tick later.
LEMMA TickStep ==
  ASSUME StoreSide, HandlerShape, OpenTick
  PROVE  /\ StoreSide' /\ Onward
         /\ open.age + 1 \in 0..MaxAge
         /\ \A t \in Turns : task[t].state # "none" /\ task[t].lease < -open.age =>
              task'[t].lease < -open.age /\ task'[t].lease < -(open.age + 1)
         /\ \A t \in Turns : task[t].state # "none" /\ ForGood(t) => ForGood(t)'
         /\ \A t \in Turns : task'[t].state = task[t].state
<1> USE DEF StoreSide
<1>1. /\ TypeOK /\ MaxAge \in Nat /\ open.age \in 0..MaxAge /\ open.age < MaxAge
      /\ LeasesAge
      /\ UNCHANGED <<session, turn, asked, events, messages, up, started, view, lapsed>>
  BY TimeAssumption DEF OpenTick, StoreInv, HandlerShape
<1>2. \A t \in Turns : task[t].lease \in Int /\ Aged(task[t].lease) \in Int /\ Forgotten \in Int
  BY <1>1 DEF TypeOK, Aged, Forgotten
<1>3. \A t \in Turns :
        /\ task'[t].state = task[t].state
        /\ task'[t] \in [state : {"none", "queued", "running", "done"}, lease : Int]
        /\ task[t].state \in {"queued", "running"} => task'[t].lease = Aged(task[t].lease)
        /\ task[t].state = "done" => task'[t].lease = Forgotten
  <2>1. SUFFICES ASSUME NEW t \in Turns
        PROVE  /\ task'[t].state = task[t].state
               /\ task'[t] \in [state : {"none", "queued", "running", "done"}, lease : Int]
               /\ task[t].state \in {"queued", "running"} => task'[t].lease = Aged(task[t].lease)
               /\ task[t].state = "done" => task'[t].lease = Forgotten
    OBVIOUS
  <2>2. task[t] \in [state : {"none", "queued", "running", "done"}, lease : Int]
    BY <1>1 DEF TypeOK
  <2>3. CASE task[t].state \in {"queued", "running"}
    <3>1. task'[t] = [task[t] EXCEPT !.lease = Aged(task[t].lease)]
      BY <1>1, <2>3 DEF LeasesAge
    <3> QED
      BY <1>2, <2>2, <2>3, <3>1
  <2>4. CASE task[t].state = "done"
    <3>1. task'[t] = [task[t] EXCEPT !.lease = Forgotten]
      BY <1>1, <2>4 DEF LeasesAge
    <3> QED
      BY <1>2, <2>2, <2>4, <3>1
  <2>5. CASE task[t].state = "none"
    <3>1. task'[t] = task[t]
      BY <1>1, <2>5 DEF LeasesAge
    <3> QED
      BY <1>2, <2>2, <2>5, <3>1
  <2> QED
    BY <2>2, <2>3, <2>4, <2>5
<1>4. task' \in [Turns -> [state : {"none", "queued", "running", "done"}, lease : Int]]
  BY <1>1, <1>3 DEF LeasesAge
<1>5. TypeOK'
  BY <1>1, <1>4 DEF TypeOK
<1>6. StoreInv'
  BY <1>1, <1>3, <1>5, LeasingInv
<1>7. LatestInv' /\ Onward
  BY <1>1, QuietStep
<1>8. \A age \in 0..MaxAge, lease \in Int :
        age < MaxAge /\ lease < -age =>
          /\ Aged(lease) < -age /\ Aged(lease) < -(age + 1)
          /\ Forgotten < -age /\ Forgotten < -(age + 1)
  BY <1>1 DEF Aged, Forgotten
<1>9. \A t \in Turns : task[t].state # "none" /\ task[t].lease < -open.age =>
        task'[t].lease < -open.age /\ task'[t].lease < -(open.age + 1)
  <2>1. \A t \in Turns : task[t].state \in {"none", "queued", "running", "done"}
    BY <1>1 DEF TypeOK
  <2> QED
    BY <1>1, <1>2, <1>3, <1>8, <2>1
<1>10. \A t \in Turns : task[t].state # "none" /\ ForGood(t) => ForGood(t)'
  <2>1. \A lease \in Int : lease <= -MaxAge => Aged(lease) <= -MaxAge /\ Forgotten <= -MaxAge
    BY <1>1 DEF Aged, Forgotten
  <2>2. \A t \in Turns : task[t].state \in {"none", "queued", "running", "done"}
    BY <1>1 DEF TypeOK
  <2>3. \A t \in Turns : task[t].state # "none" /\ task[t].lease <= -MaxAge =>
          task'[t].lease <= -MaxAge
    BY <1>2, <1>3, <2>1, <2>2
  <2> QED
    BY <1>1, <2>3 DEF ForGood
<1> QED
  BY <1>1, <1>3, <1>6, <1>7, <1>9, <1>10 DEF NumberedInv

LEMMA WritersStep ==
  ASSUME StoreSide, WritersNext, started' = started
  PROVE  StoreSide' /\ Onward /\ LapsedStay
<1>1. ASSUME NEW t \in Turns, NEW sentAt \in Times, WorkerClaims(t, sentAt)
      PROVE  StoreSide' /\ Onward /\ LapsedStay
  BY <1>1, ClaimStep
<1>2. ASSUME NEW t \in Turns, NEW sentAt \in Times, WorkerRenews(t, sentAt)
      PROVE  StoreSide' /\ Onward /\ LapsedStay
  BY <1>2, RenewStep
<1>3. ASSUME NEW t \in Turns, SomeoneCancels(t) PROVE StoreSide' /\ Onward /\ LapsedStay
  BY <1>3, CancelStep DEF SomeoneCancels
<1>4. ASSUME NEW t \in Turns, NEW document \in Pieces, NEW at, WorkerWrites(t, document, at)
      PROVE  StoreSide' /\ Onward /\ LapsedStay
  BY <1>4, WriteStep
<1>5. ASSUME NEW t \in Turns, NEW how \in Endings, NEW givenUp \in GivenUp, NEW at,
             WorkerEnds(t, how, givenUp, at)
      PROVE  StoreSide' /\ Onward /\ LapsedStay
  BY <1>5, WorkerEndStep
<1>6. CASE WorkerDies
  <2>1. UNCHANGED storeVars
    BY <1>6 DEF WorkerDies
  <2>2. StoreInv'
    BY <2>1, CallsInv DEF StoreSide
  <2>3. LatestInv' /\ Onward
    BY <2>1, QuietStep DEF StoreSide, storeVars
  <2> QED
    BY <2>1, <2>2, <2>3 DEF StoreSide, NumberedInv, LapsedStay, storeVars
<1>7. ASSUME NEW s \in Sessions, SomeoneDeletes(s) PROVE StoreSide' /\ Onward /\ LapsedStay
  BY <1>7, SessionStep DEF SomeoneDeletes
<1>8. ASSUME NEW t \in Turns, NEW now, SomeoneEnds(t, now)
      PROVE  StoreSide' /\ Onward /\ LapsedStay
  BY <1>8, ExpiredStep DEF SomeoneEnds
<1> QED
  BY <1>1, <1>2, <1>3, <1>4, <1>5, <1>6, <1>7, <1>8 DEF WritersNext

-----------------------------------------------------------------------------
(* The handler                                                             *)

\* While the handler is at it, the moments grow by each one.
LEMMA MomentsGrow ==
  ASSUME Witnessed, HandlerShape'
  PROVE  /\ \A s \in Sessions : open'.pc # "none" /\ open'.session = s => Moment(s)' \in moments'
         /\ open.pc # "none" /\ open'.pc # "none" => moments \subseteq moments'
<1>1. CASE open'.pc = "none"
  BY <1>1
<1>2. CASE open'.pc # "none"
  <2>1. PICK s \in Sessions :
          /\ open'.session = s
          /\ moments' = (IF open.pc = "none" THEN {} ELSE moments) \cup {Moment(s)'}
    BY <1>2 DEF Witnessed
  <2> QED
    BY <2>1
<1> QED
  BY <1>1, <1>2

\* The others take a step, or time passes.
LEMMA OthersStep ==
  ASSUME OpenInv, StoreSide', Onward, Witnessed, HandlerShape', UNCHANGED <<view, lapsed>>,
         open'.pc = open.pc, open'.session = open.session, open'.ends = open.ends,
         open.pc = "expiring" =>
           \A t \in Turns :
             turn[t].state = "active" /\ task[t].lease < -open.age /\ ForGood(t) =>
               task'[t].lease < -open'.age /\ ForGood(t)'
  PROVE  OpenInv'
<1>1. \A t \in Turns :
        turn'[t].state = "active" /\ turn[t].state # "none" => turn[t].state = "active"
  BY DEF Onward, OpenInv, StoreSide, StoreInv, TypeOK, Outcomes
<1>2. LapsedInv'
  <2>1. SUFFICES ASSUME NEW t \in lapsed
                 PROVE  /\ turn'[t].state # "none" /\ turn'[t].session = open.session
                        /\ turn'[t].state = "active" =>
                             IF open.pc = "expiring"
                             THEN /\ t = open.ends /\ task'[t].lease < -open'.age
                                  /\ ForGood(t)'
                             ELSE session'[open.session] = "hidden"
    BY DEF OpenInv, LapsedInv
  <2>2. /\ t \in Turns /\ open.pc # "none" /\ open.session \in Sessions
        /\ turn[t].state # "none" /\ turn[t].session = open.session
        /\ turn[t].state = "active" =>
             IF open.pc = "expiring"
             THEN t = open.ends /\ task[t].lease < -open.age /\ ForGood(t)
             ELSE session[open.session] = "hidden"
    BY DEF OpenInv, LapsedInv, HandlerShape
  <2>3. turn'[t].state # "none" /\ turn'[t].session = open.session
    BY <2>2 DEF Onward
  <2>4. ASSUME turn'[t].state = "active"
        PROVE  IF open.pc = "expiring"
               THEN t = open.ends /\ task'[t].lease < -open'.age /\ ForGood(t)'
               ELSE session'[open.session] = "hidden"
    <3>1. turn[t].state = "active"
      BY <1>1, <2>2, <2>4
    <3> QED
      BY <2>2, <3>1 DEF Onward
  <2> QED
    BY <2>3, <2>4
<1>3. /\ \A s \in Sessions : open'.pc # "none" /\ open'.session = s => Moment(s)' \in moments'
      /\ open.pc # "none" => moments \subseteq moments'
  BY MomentsGrow
<1>4. ASSUME open.pc = "latest", view.active = Nobody, view.end.kind = "question"
      PROVE  \E m \in moments' : \/ m.end # view.end
                                 \/ m.bad \in Turns /\ turn'[m.bad].state \in EndedBadly
  <2>1. PICK m \in moments : \/ m.end # view.end
                             \/ m.bad \in Turns /\ turn[m.bad].state \in EndedBadly
    BY <1>4 DEF OpenInv, MomentsInv
  <2>2. m \in moments'
    BY <1>3, <1>4, <2>1
  <2>3. m.bad \in Turns /\ turn[m.bad].state \in EndedBadly => turn'[m.bad].state \in EndedBadly
    BY DEF Onward, EndedBadly, Outcomes
  <2> QED
    BY <2>1, <2>2, <2>3
<1>5. MomentsInv'
  BY <1>3, <1>4 DEF OpenInv, MomentsInv
<1>6. ShowsWhatRuns'
  BY <1>3 DEF OpenInv, ShowsWhatRuns, OpenedView
<1> QED
  BY <1>2, <1>5, <1>6 DEF OpenInv

LEMMA StoreStands ==
  ASSUME StoreSide, UNCHANGED <<storeVars, started>>
  PROVE  StoreSide'
<1>1. StoreInv'
  BY CallsInv DEF StoreSide
<1>2. LatestInv'
  BY QuietStep DEF StoreSide, storeVars
<1> QED
  BY <1>1, <1>2 DEF StoreSide, NumberedInv, storeVars

LEMMA OpenStep ==
  ASSUME OpenInv, NEW s \in Sessions, Open(s), Witnessed
  PROVE  OpenInv'
<1> DEFINE found == {t \in ActiveTurns(s) : Lapsed(t, 0)}
           good == {t \in found : ForGood(t)}
<1>1. /\ UNCHANGED <<storeVars, up, started, turn, task>> /\ lapsed' = good /\ view' = Nothing
      /\ open' = IF found = {} THEN At("thread", s)
                 ELSE [At("expiring", s) EXCEPT !.ends = CHOOSE t \in found : TRUE]
  BY DEF Open, writersVars, storeVars
<1>2. found \subseteq Turns /\ (found # {} => (CHOOSE t \in found : TRUE) \in found)
  BY DEF ActiveTurns
<1>3. HandlerShape'
  BY <1>1, <1>2, TimeAssumption DEF HandlerShape, At, Nothing
<1>4. StoreSide'
  BY <1>1, StoreStands DEF OpenInv
<1>5. /\ open'.session = s /\ open'.age = 0
      /\ found # {} => open'.pc = "expiring" /\ open'.ends \in found
      /\ found = {} => open'.pc = "thread"
  BY <1>1, <1>2 DEF At
<1>6. \A t \in found : /\ turn[t].state = "active" /\ turn[t].session = s
                       /\ task[t].lease < 0 /\ t = open'.ends
  <2>1. \A t \in found : /\ t \in Turns /\ turn[t].state = "active" /\ turn[t].session = s
                         /\ task[t].lease < 0
    BY DEF ActiveTurns, Lapsed
  <2> QED
    BY <1>5, <2>1 DEF OpenInv, StoreSide, StoreInv, OneActiveTurn
<1>10. good \subseteq found /\ \A t \in good : ForGood(t)'
  BY <1>1 DEF ForGood
<1> HIDE DEF found, good
<1>7. LapsedInv'
  BY <1>1, <1>2, <1>5, <1>6, <1>10 DEF LapsedInv
<1>8. MomentsInv'
  BY <1>3, <1>5, MomentsGrow DEF MomentsInv
<1>9. ShowsWhatRuns'
  BY <1>5 DEF ShowsWhatRuns
<1> QED
  BY <1>3, <1>4, <1>7, <1>8, <1>9 DEF OpenInv

\* The turn at work is one, when there is any.
LEMMA RunningIsTurn ==
  ASSUME NEW s \in Sessions
  PROVE  /\ ActiveTurns(s) = {} => RunningTurn(s) = Nobody
         /\ ActiveTurns(s) # {} => RunningTurn(s) \in ActiveTurns(s)
         /\ RunningTurn(s) \in Turns => RunningTurn(s) \in ActiveTurns(s)
         /\ RunningTurn(s) = Nobody => ActiveTurns(s) = {}
<1>1. ActiveTurns(s) \subseteq Turns
  BY DEF ActiveTurns
<1>2. ActiveTurns(s) # {} => RunningTurn(s) \in ActiveTurns(s)
  BY DEF RunningTurn
<1>3. ActiveTurns(s) = {} => RunningTurn(s) = Nobody
  BY DEF RunningTurn
<1> QED
  BY <1>1, <1>2, <1>3, OpenAssumption

\* Under a question, a turn is at work, or the latest ended badly.
LEMMA QuestionHasTurn ==
  ASSUME StoreSide, NEW s \in Sessions, Newest(s).kind = "question"
  PROVE  \/ ActiveTurns(s) # {}
         \/ BadTurn(s) \in Turns /\ turn[BadTurn(s)].state \in EndedBadly
<1> DEFINE l == LatestTurn(s)
<1>1. messages[s] # <<>> /\ started[s] # <<>>
  BY DEF Newest, StoreSide, LatestInv
<1>2. /\ l \in Turns /\ turn[l].session = s
      /\ turn[l].state # "none" /\ turn[l].state # "finished"
  BY <1>1, LatestIsTurn DEF StoreSide, LatestInv
<1>3. turn[l].state \in {"none", "active"} \cup Outcomes
  BY <1>2 DEF StoreSide, StoreInv, TypeOK
<1>4. CASE turn[l].state = "active"
  BY <1>2, <1>4 DEF ActiveTurns
<1>5. CASE turn[l].state \in EndedBadly
  <2>1. l # Nobody
    BY <1>2, OpenAssumption
  <2>2. BadTurn(s) = l
    BY <1>5, <2>1 DEF BadTurn
  <2> QED
    BY <1>2, <1>5, <2>2
<1> QED
  BY <1>2, <1>3, <1>4, <1>5 DEF Outcomes, EndedBadly

\* What ShowsWhatRuns asks of a view.
ShownWell(got) ==
  got.end.kind = "question"
    => \/ got.active # Nobody \/ got.bad # Nobody
       \/ \E m \in moments : m.end # got.end
       \/ \E m, n \in moments : m.bad # Nobody /\ n.active \notin {Nobody, m.bad}

\* A read takes the handler on to next, with what it has seen, or is refused.
LEMMA ReadStep ==
  ASSUME OpenInv, Witnessed, NEW pc \in {"thread", "running", "counting", "latest"},
         NEW next \in {"failed", "running", "counting", "latest", "opened"},
         NEW got, DOMAIN got = {"end", "active", "position", "bad"},
         Reads(pc, got, next),
         Visible(open.session) =>
           /\ next \in {"counting", "latest", "opened"} => got.active \notin lapsed
           /\ next = "counting" => got.active # Nobody
           /\ next = "latest" /\ got.active = Nobody /\ got.end.kind = "question" =>
                \E m \in moments : \/ m.end # got.end
                                   \/ m.bad \in Turns /\ turn[m.bad].state \in EndedBadly
           /\ next = "opened" => ShownWell(got)
  PROVE  OpenInv'
<1>1. /\ UNCHANGED <<storeVars, session, turn, task, started, lapsed>>
      /\ open.pc = pc /\ open.session \in Sessions
  BY DEF Reads, writersVars, storeVars, OpenInv, HandlerShape
<1>2. /\ open' \in {At(next, open.session), At("refused", open.session)}
      /\ open'.pc # "refused" =>
           Visible(open.session) /\ open' = At(next, open.session) /\ view' = got
      /\ view' \in {view, got}
  BY DEF Reads, At
<1>3. HandlerShape'
  BY <1>1, <1>2, TimeAssumption DEF OpenInv, HandlerShape, At
<1>4. StoreSide'
  BY <1>1, StoreStands DEF OpenInv
<1>5. /\ open'.session = open.session /\ open'.pc \in {next, "refused"}
  BY <1>2 DEF At
<1>6. /\ \A s \in Sessions : open'.pc # "none" /\ open'.session = s => Moment(s)' \in moments'
      /\ moments \subseteq moments'
  BY <1>1, <1>3, <1>5, MomentsGrow
<1>7. LapsedInv'
  <2>1. \A t \in lapsed : /\ t \in Turns /\ turn'[t].state # "none"
                          /\ turn'[t].session = open.session
                          /\ turn'[t].state = "active" => session'[open.session] = "hidden"
    BY <1>1 DEF OpenInv, LapsedInv
  <2>2. open'.pc \in {"counting", "latest", "opened"} => view'.active \notin lapsed
    BY <1>2, <1>5
  <2> QED
    BY <1>1, <1>5, <2>1, <2>2 DEF LapsedInv
<1>8. MomentsInv'
  <2>1. open'.pc = "counting" => view'.active # Nobody
    BY <1>2, <1>5
  <2>2. ASSUME open'.pc = "latest", view'.active = Nobody, view'.end.kind = "question"
        PROVE  \E m \in moments' : \/ m.end # view'.end
                                   \/ m.bad \in Turns /\ turn'[m.bad].state \in EndedBadly
    <3>1. view' = got /\ next = "latest" /\ Visible(open.session)
      BY <1>2, <1>5, <2>2
    <3> QED
      BY <1>1, <1>6, <2>2, <3>1
  <2> QED
    BY <1>6, <2>1, <2>2 DEF MomentsInv
<1>9. ShowsWhatRuns'
  <2>1. SUFFICES ASSUME open'.pc = "opened", view'.end.kind = "question"
                 PROVE  \/ view'.active # Nobody \/ view'.bad # Nobody
                        \/ \E m \in moments' : m.end # view'.end
                        \/ \E m, n \in moments' : m.bad # Nobody /\ n.active \notin {Nobody, m.bad}
    BY DEF ShowsWhatRuns, OpenedView
  <2>2. view' = got /\ ShownWell(got)
    BY <1>2, <1>5, <2>1
  <2> QED
    BY <1>6, <2>1, <2>2 DEF ShownWell
<1> QED
  BY <1>3, <1>4, <1>7, <1>8, <1>9 DEF OpenInv

LEMMA ReadThreadStep ==
  ASSUME OpenInv, Witnessed, ReadThread
  PROVE  OpenInv'
<1> DEFINE got == [view EXCEPT !.end = Newest(open.session)]
           next == IF messages[open.session] = <<>> THEN "failed" ELSE "running"
<1>1. DOMAIN got = {"end", "active", "position", "bad"} /\ next \in {"failed", "running"}
  BY DEF OpenInv, HandlerShape
<1>2. Reads("thread", got, next)
  BY DEF ReadThread
<1> HIDE DEF got, next
<1> QED
  BY <1>1, <1>2, ReadStep

LEMMA ReadActiveStep ==
  ASSUME OpenInv, Witnessed, ReadActive
  PROVE  OpenInv'
<1> DEFINE s == open.session
           got == [view EXCEPT !.active = RunningTurn(s)]
           next == IF ActiveTurns(s) = {} THEN "latest" ELSE "counting"
<1>1. /\ DOMAIN got = {"end", "active", "position", "bad"}
      /\ next \in {"latest", "counting"}
      /\ got.active = RunningTurn(s) /\ got.end = view.end
  BY DEF OpenInv, HandlerShape
<1>2. Reads("running", got, next)
  BY DEF ReadActive
<1>3. open.pc = "running" /\ s \in Sessions /\ Moment(s) \in moments
  BY DEF ReadActive, Reads, OpenInv, HandlerShape, MomentsInv
<1>4. Visible(s) => RunningTurn(s) \notin lapsed
  <2>1. SUFFICES ASSUME Visible(s), RunningTurn(s) \in lapsed PROVE FALSE
    OBVIOUS
  <2>2. RunningTurn(s) \in ActiveTurns(s)
    BY <1>3, <2>1, RunningIsTurn DEF OpenInv, LapsedInv
  <2>3. turn[RunningTurn(s)].state = "active"
    BY <2>2 DEF ActiveTurns
  <2> QED
    BY <1>3, <2>1, <2>3 DEF OpenInv, LapsedInv, Visible
<1>5. next = "counting" => RunningTurn(s) # Nobody
  BY <1>3, RunningIsTurn
<1>6. RunningTurn(s) = Nobody /\ view.end.kind = "question" =>
        \E m \in moments : \/ m.end # view.end
                           \/ m.bad \in Turns /\ turn[m.bad].state \in EndedBadly
  <2>1. SUFFICES ASSUME RunningTurn(s) = Nobody, view.end.kind = "question"
                 PROVE  \/ Moment(s).end # view.end
                        \/ Moment(s).bad \in Turns /\ turn[Moment(s).bad].state \in EndedBadly
    BY <1>3
  <2>2. ActiveTurns(s) = {}
    BY <1>3, <2>1, RunningIsTurn
  <2>3. Moment(s).end = Newest(s) /\ Moment(s).bad = BadTurn(s)
    BY DEF Moment
  <2> QED
    BY <1>3, <2>1, <2>2, <2>3, QuestionHasTurn DEF OpenInv
<1> HIDE DEF got, next
<1> QED
  BY <1>1, <1>2, <1>4, <1>5, <1>6, ReadStep

LEMMA CountEventsStep ==
  ASSUME OpenInv, Witnessed, CountEvents
  PROVE  OpenInv'
<1> DEFINE got == [view EXCEPT !.position = Told(view.active)]
<1>1. /\ DOMAIN got = {"end", "active", "position", "bad"} /\ got.active = view.active
  BY DEF OpenInv, HandlerShape
<1>2. Reads("counting", got, "latest")
  BY DEF CountEvents
<1>3. view.active \notin lapsed /\ view.active # Nobody
  BY <1>2 DEF Reads, OpenInv, LapsedInv, MomentsInv
<1> HIDE DEF got
<1> QED
  BY <1>1, <1>2, <1>3, ReadStep

LEMMA ReadLatestStep ==
  ASSUME OpenInv, Witnessed, ReadLatest
  PROVE  OpenInv'
<1> DEFINE s == open.session
           got == [view EXCEPT !.bad = BadTurn(s)]
<1>1. /\ DOMAIN got = {"end", "active", "position", "bad"}
      /\ got.active = view.active /\ got.end = view.end /\ got.bad = BadTurn(s)
  BY DEF OpenInv, HandlerShape
<1>2. Reads("latest", got, "opened")
  BY DEF ReadLatest
<1>3. /\ open.pc = "latest" /\ s \in Sessions /\ Moment(s) \in moments
      /\ view.active \notin lapsed
  BY DEF ReadLatest, Reads, OpenInv, HandlerShape, MomentsInv, LapsedInv
<1>4. ShownWell(got)
  <2>1. SUFFICES ASSUME view.end.kind = "question", view.active = Nobody, BadTurn(s) = Nobody,
                        Newest(s) = view.end
                 PROVE  \/ \E m \in moments : m.end # view.end
                        \/ \E m, n \in moments : m.bad # Nobody /\ n.active \notin {Nobody, m.bad}
    <3>1. Moment(s).end = Newest(s)
      BY DEF Moment
    <3> QED
      BY <1>1, <1>3, <3>1 DEF ShownWell
  <2>2. PICK m \in moments : \/ m.end # view.end
                             \/ m.bad \in Turns /\ turn[m.bad].state \in EndedBadly
    BY <1>3, <2>1 DEF OpenInv, MomentsInv
  <2>3. CASE m.end # view.end
    BY <2>3
  <2>4. CASE m.bad \in Turns /\ turn[m.bad].state \in EndedBadly
    <3>1. ActiveTurns(s) # {}
      BY <1>3, <2>1, QuestionHasTurn, OpenAssumption DEF OpenInv
    <3>2. RunningTurn(s) \in Turns /\ turn[RunningTurn(s)].state = "active"
      BY <1>3, <3>1, RunningIsTurn DEF ActiveTurns
    <3>3. RunningTurn(s) \notin {Nobody, m.bad} /\ m.bad # Nobody
      BY <2>4, <3>2, OpenAssumption DEF EndedBadly
    <3>4. Moment(s).active = RunningTurn(s)
      BY DEF Moment
    <3> QED
      BY <1>3, <3>3, <3>4
  <2> QED
    BY <2>2, <2>3, <2>4
<1> HIDE DEF got
<1> QED
  BY <1>1, <1>2, <1>3, <1>4, ReadStep

\* The lapsed turn is ended, unless it has been or its session is hidden.
LEMMA ExpireStep ==
  ASSUME OpenInv, Witnessed, Expire
  PROVE  OpenInv'
<1> DEFINE ends == OfVisible(open.ends) /\ turn[open.ends].state = "active"
                     /\ Lapsed(open.ends, -open.age)
<1>1. /\ open.pc = "expiring" /\ open.session \in Sessions
      /\ UNCHANGED <<started, view, lapsed>>
      /\ open' = At(IF Visible(open.session) THEN "thread" ELSE "refused", open.session)
      /\ ends => EndExpiredTurn(open.ends, -open.age)
      /\ ~ends => UNCHANGED storeVars
  BY DEF Expire, OpenInv, HandlerShape
<1>2. open'.pc \in {"thread", "refused"} /\ open'.session = open.session
  BY <1>1 DEF At
<1>3. HandlerShape'
  BY <1>1, TimeAssumption DEF OpenInv, HandlerShape, At
<1>4. StoreSide' /\ Onward
  <2>1. CASE ends
    <3>1. open.ends \in Turns
      BY <1>1 DEF OpenInv, HandlerShape
    <3> QED
      BY <1>1, <2>1, <3>1, ExpiredStep DEF OpenInv
  <2>2. CASE ~ends
    <3>1. UNCHANGED storeVars /\ StoreSide'
      BY <1>1, <2>2, StoreStands DEF OpenInv
    <3> QED
      BY <3>1 DEF Onward, storeVars
  <2> QED
    BY <2>1, <2>2
<1>5. LapsedInv'
  <2>1. SUFFICES ASSUME NEW t \in lapsed
                 PROVE  /\ turn'[t].state # "none" /\ turn'[t].session = open.session
                        /\ turn'[t].state = "active" => session'[open.session] = "hidden"
    BY <1>1, <1>2 DEF OpenInv, LapsedInv
  <2>2. /\ t \in Turns /\ turn[t].state # "none" /\ turn[t].session = open.session
        /\ turn[t].state = "active" => t = open.ends /\ task[t].lease < -open.age
    BY <1>1 DEF OpenInv, LapsedInv
  <2>3. turn'[t].state # "none" /\ turn'[t].session = open.session
    BY <1>4, <2>2 DEF Onward
  <2>4. ASSUME turn'[t].state = "active" PROVE session'[open.session] = "hidden"
    <3>1. turn[t].state = "active"
      BY <1>4, <2>2, <2>4 DEF Onward, OpenInv, StoreSide, StoreInv, TypeOK, Outcomes
    <3>2. t = open.ends /\ task[t].lease < -open.age
      BY <2>2, <3>1
    <3>3. ~ends
      BY <1>1, <2>2, <2>4, <3>2 DEF EndExpiredTurn, OpenInv, StoreSide, StoreInv, TypeOK
    <3>4. ~Visible(open.session)
      <4>1. SUFFICES ASSUME Visible(open.session) PROVE FALSE
        OBVIOUS
      <4>2. OfVisible(t)
        BY <2>2, <4>1 DEF OfVisible
      <4>3. task[t].state \in {"queued", "running"}
        BY <2>2, <3>1, <4>2 DEF OpenInv, StoreSide, StoreInv, TaskFollowsTurn, TypeOK
      <4> QED
        BY <3>1, <3>2, <3>3, <4>2, <4>3 DEF Lapsed
    <3>5. session[open.session] = "hidden"
      BY <2>2, <3>4 DEF OpenInv, StoreSide, StoreInv, TurnsOfKeptSessions, Visible
    <3> QED
      BY <1>1, <1>4, <3>5 DEF Onward
  <2> QED
    BY <2>3, <2>4
<1>6. MomentsInv'
  BY <1>2, <1>3, MomentsGrow DEF MomentsInv
<1>7. ShowsWhatRuns'
  BY <1>2 DEF ShowsWhatRuns
<1> QED
  BY <1>3, <1>4, <1>5, <1>6, <1>7 DEF OpenInv

LEMMA ReturnStep ==
  ASSUME OpenInv, Witnessed, Return
  PROVE  OpenInv'
<1>1. /\ open' = At("none", open.session) /\ open'.pc = "none"
      /\ view' = Nothing /\ lapsed' = {} /\ open.session \in Sessions
      /\ UNCHANGED <<storeVars, started>>
  BY DEF Return, At, writersVars, OpenInv, HandlerShape
<1>2. HandlerShape'
  BY <1>1, TimeAssumption DEF HandlerShape, At, Nothing
<1>3. StoreSide'
  BY <1>1, StoreStands DEF OpenInv
<1> QED
  BY <1>1, <1>2, <1>3 DEF OpenInv, LapsedInv, MomentsInv, ShowsWhatRuns

-----------------------------------------------------------------------------
(* Every step                                                              *)

\* A step of the others that leaves the handler where it is.
LEMMA BesideStep ==
  ASSUME OpenInv, Witnessed, StoreSide', Onward, LapsedStay, up' => up,
         UNCHANGED <<open, view, lapsed>>
  PROVE  OpenInv'
<1>1. HandlerShape'
  BY DEF OpenInv, HandlerShape
<1>2. \A t \in Turns : turn[t].state = "active" /\ task[t].lease < -open.age /\ ForGood(t) =>
        task'[t].lease < -open'.age /\ ForGood(t)'
  <2>1. open.age \in Nat /\ \A t \in Turns : task[t].lease \in Int
    BY DEF OpenInv, HandlerShape, StoreSide, StoreInv, TypeOK
  <2>2. \A t \in Turns : task[t].lease < -open.age => task[t].lease < 0
    BY <2>1
  <2> QED
    BY <2>2 DEF LapsedStay, ForGood
<1> QED
  BY <1>1, <1>2, OthersStep

LEMMA TimeStep ==
  ASSUME OpenInv, Witnessed, OpenTick
  PROVE  OpenInv'
<1>1. StoreSide /\ HandlerShape
  BY DEF OpenInv
<1>2. /\ StoreSide' /\ Onward
      /\ open.age + 1 \in 0..MaxAge
      /\ \A t \in Turns : task[t].state # "none" /\ task[t].lease < -open.age =>
           task'[t].lease < -open.age /\ task'[t].lease < -(open.age + 1)
      /\ \A t \in Turns : task[t].state # "none" /\ ForGood(t) => ForGood(t)'
  BY <1>1, TickStep
<1>3. /\ open' = [open EXCEPT !.age = IF open.pc = "expiring" THEN open.age + 1 ELSE open.age]
      /\ UNCHANGED <<view, lapsed>>
  BY DEF OpenTick
<1>4. /\ open'.pc = open.pc /\ open'.session = open.session /\ open'.ends = open.ends
      /\ open'.age \in {open.age, open.age + 1}
  BY <1>1, <1>3 DEF HandlerShape
<1>5. HandlerShape'
  BY <1>1, <1>2, <1>3 DEF HandlerShape
<1>6. \A t \in Turns : turn[t].state = "active" => task[t].state # "none"
  BY <1>1 DEF StoreSide, StoreInv, TaskFollowsTurn
<1>7. \A t \in Turns : turn[t].state = "active" /\ task[t].lease < -open.age /\ ForGood(t) =>
        task'[t].lease < -open'.age /\ ForGood(t)'
  BY <1>2, <1>4, <1>6
<1> QED
  BY <1>2, <1>3, <1>4, <1>5, <1>7, OthersStep

LEMMA StandsStill == OpenInv /\ UNCHANGED openVars => OpenInv'
<1> SUFFICES ASSUME OpenInv, UNCHANGED openVars PROVE OpenInv'
  OBVIOUS
<1>1. UNCHANGED <<storeVars, up, started, open, view, moments, lapsed, session, turn, task>>
  BY DEF openVars, writersVars, handlerVars, storeVars
<1>2. StoreSide'
  BY <1>1, StoreStands DEF OpenInv
<1>3. \A s \in Sessions : Moment(s)' = Moment(s)
  BY <1>1 DEF Moment, Newest, RunningTurn, ActiveTurns, Told, BadTurn, LatestTurn, storeVars
<1>4. HandlerShape' /\ LapsedInv' /\ ShowsWhatRuns'
  BY <1>1 DEF OpenInv, HandlerShape, LapsedInv, ForGood, ShowsWhatRuns, OpenedView
<1>5. MomentsInv'
  BY <1>1, <1>3 DEF OpenInv, MomentsInv
<1> QED
  BY <1>2, <1>4, <1>5 DEF OpenInv

LEMMA NextOpen == OpenInv /\ [OpenNext]_openVars => OpenInv'
<1> SUFFICES ASSUME OpenInv, OpenNext PROVE OpenInv'
  BY StandsStill
<1>1. Witnessed /\ StoreSide
  BY DEF OpenNext, OpenInv
<1>2. ASSUME NEW s \in Sessions, StartSession(s) PROVE OpenInv'
  <2>1. AddSession(s) /\ UNCHANGED <<up, started, open, view, lapsed>>
    BY <1>2 DEF StartSession
  <2>2. StoreSide' /\ Onward /\ LapsedStay
    BY <1>1, <2>1, SessionStep
  <2> QED
    BY <1>1, <2>1, <2>2, BesideStep
<1>3. ASSUME NEW s \in Sessions, NEW t \in Turns, NEW newQuestion \in BOOLEAN,
             Ask(s, t, newQuestion)
      PROVE  OpenInv'
  <2>1. UNCHANGED <<up, open, view, lapsed>>
    BY <1>3 DEF Ask
  <2>2. StoreSide' /\ Onward /\ LapsedStay
    BY <1>1, <1>3, AskStep
  <2> QED
    BY <1>1, <2>1, <2>2, BesideStep
<1>4. ASSUME WritersNext, UNCHANGED <<started, open, view, lapsed>> PROVE OpenInv'
  <2>1. StoreSide' /\ Onward /\ LapsedStay
    BY <1>1, <1>4, WritersStep
  <2>2. up' => up
    BY <1>4
    DEF WritersNext, WorkerClaims, WorkerWrites, WorkerEnds, WorkerRenews, WorkerDies,
        SomeoneCancels, SomeoneDeletes, SomeoneEnds
  <2> QED
    BY <1>1, <1>4, <2>1, <2>2, BesideStep
<1>5. ASSUME NEW s \in Sessions, Open(s) PROVE OpenInv'
  BY <1>1, <1>5, OpenStep
<1>6. ASSUME Expire \/ ReadThread \/ ReadActive \/ CountEvents \/ ReadLatest \/ Return
      PROVE  OpenInv'
  BY <1>1, <1>6, ExpireStep, ReadThreadStep, ReadActiveStep, CountEventsStep, ReadLatestStep,
     ReturnStep
<1>7. ASSUME OpenTick PROVE OpenInv'
  BY <1>1, <1>7, TimeStep
<1> QED
  BY <1>2, <1>3, <1>4, <1>5, <1>6, <1>7 DEF OpenNext

LEMMA OpenInvAlways == OpenSpec => []OpenInv
<1> QED
  BY InitOpen, NextOpen, PTL DEF OpenSpec

-----------------------------------------------------------------------------
(* The store's contract                                                    *)

\* The writers only call the store, and number on.
LEMMA WritersCall ==
  ASSUME TypeOK, NumberedInv, WritersNext
  PROVE  [StoreCalls]_storeVars
<1>0. TypeOK /\ LeaseTime \in Int /\ Times \subseteq Int
  BY StoreAssumption
<1>1. ASSUME NEW t \in Turns, NEW sentAt \in Times, WorkerClaims(t, sentAt) PROVE StoreCalls
  <2>1. /\ \A u \in {t} : task[u].state = "queued"
        /\ ClaimTasks({t}, sentAt + LeaseTime) /\ {t} \in SUBSET Turns
        /\ sentAt + LeaseTime \in Int
    BY <1>0, <1>1 DEF WorkerClaims, Claimable
  <2> QED
    BY <2>1 DEF StoreCalls
<1>2. ASSUME NEW t \in Turns, NEW sentAt \in Times, WorkerRenews(t, sentAt) PROVE StoreCalls
  <2>1. RenewLeases({t}, sentAt, sentAt + LeaseTime) /\ sentAt + LeaseTime \in Int
    BY <1>0, <1>2 DEF WorkerRenews
  <2> QED
    BY <1>0, <2>1, RenewMoves DEF StoreCalls
<1>3. ASSUME NEW t \in Turns, SomeoneCancels(t) PROVE StoreCalls
  BY <1>3 DEF SomeoneCancels, StoreCalls
<1>4. ASSUME NEW t \in Turns, turn[t].state = "active" PROVE Cardinality(events[t]) \in Nat
  BY <1>4, FS_CardinalityType DEF NumberedInv, Contiguous
<1>5. ASSUME NEW t \in Turns, NEW document \in Pieces, NEW at \in Times,
             WorkerWrites(t, document, at)
      PROVE  StoreCalls
  <2>1. turn[t].state = "active" /\ Write(t, Cardinality(events[t]) + 1, document, at)
    BY <1>5 DEF WorkerWrites, Write, AppendEvent, Holds
  <2>2. Cardinality(events[t]) + 1 \in Nat
    BY <1>4, <2>1
  <2> QED
    BY <1>0, <2>1, <2>2 DEF StoreCalls
<1>6. ASSUME NEW t \in Turns, NEW how \in Endings, NEW givenUp \in GivenUp, NEW at \in Times,
             WorkerEnds(t, how, givenUp, at)
      PROVE  StoreCalls
  <2>1. turn[t].state = "active" /\ End(t, how, Cardinality(events[t]) + 1 + givenUp, at)
    BY <1>6 DEF WorkerEnds, End, FinishTurn, Holds
  <2>2. Cardinality(events[t]) + 1 + givenUp \in Nat
    BY <1>4, <2>1, WritersAssumption
  <2> QED
    BY <1>0, <2>1, <2>2 DEF StoreCalls
<1>7. ASSUME NEW s \in Sessions, SomeoneDeletes(s) PROVE StoreCalls
  BY <1>7 DEF SomeoneDeletes, StoreCalls
<1>8. ASSUME NEW t \in Turns, NEW now \in Times, SomeoneEnds(t, now) PROVE StoreCalls
  BY <1>0, <1>8 DEF SomeoneEnds, StoreCalls
<1>9. WorkerDies => UNCHANGED storeVars
  BY DEF WorkerDies
<1> QED
  BY <1>1, <1>2, <1>3, <1>5, <1>6, <1>7, <1>8, <1>9 DEF WritersNext

\* And so does open_session, which ends the lapsed turn it looked at.
LEMMA OpenCalls ==
  ASSUME OpenInv, [OpenNext]_openVars
  PROVE  [StoreCalls]_storeVars
<1>0. StoreSide /\ HandlerShape
  BY DEF OpenInv
<1>1. ASSUME NEW s \in Sessions, StartSession(s) PROVE StoreCalls
  BY <1>1 DEF StartSession, StoreCalls
<1>2. ASSUME NEW s \in Sessions, NEW t \in Turns, NEW newQuestion \in BOOLEAN,
             Ask(s, t, newQuestion)
      PROVE  StoreCalls
  BY <1>2, StoreAssumption DEF Ask, StoreCalls
<1>3. ASSUME Expire PROVE [StoreCalls]_storeVars
  <2>1. open.ends \in Turns /\ -open.age \in Int
    BY <1>0, <1>3, TimeAssumption DEF Expire, HandlerShape
  <2>2. EndExpiredTurn(open.ends, -open.age) \/ UNCHANGED storeVars
    BY <1>3 DEF Expire
  <2> QED
    BY <2>1, <2>2 DEF StoreCalls
<1>4. ASSUME \/ \E s \in Sessions : Open(s)
             \/ ReadThread \/ ReadActive \/ CountEvents \/ ReadLatest \/ Return
             \/ UNCHANGED openVars
      PROVE  UNCHANGED storeVars
  BY <1>4
  DEF Open, ReadThread, ReadActive, CountEvents, ReadLatest, Return, Reads, openVars, writersVars
<1>5. ASSUME OpenTick PROVE StoreCalls
  <2>1. /\ \A t \in Turns : task'[t].state = task[t].state
        /\ StoreInv'
    BY <1>0, <1>5, TickStep DEF StoreSide
  <2>2. LeasesMove
    BY <1>5, <2>1 DEF OpenTick, LeasesMove, StoreInv, TypeOK
  <2> QED
    BY <2>2 DEF StoreCalls
<1>6. WritersNext => [StoreCalls]_storeVars
  BY <1>0, WritersCall DEF StoreSide, StoreInv
<1> QED
  BY <1>1, <1>2, <1>3, <1>4, <1>5, <1>6 DEF OpenNext

\* Opening a conversation, with its end of a lapsed turn between two of its reads, and all that
\* the other parties do meanwhile, keep the store's contract: no turn that has
\* ended is at work or written to again, and what one read has seen of its story a later one sees.
THEOREM OpenKeepsContract == OpenSpec => KeepsContract
<1>1. OpenInit => Init
  BY DEF OpenInit, WritersInit
<1>2. OpenInv /\ [OpenNext]_openVars => [StoreCalls]_storeVars
  BY OpenCalls
<1>3. OpenSpec => Init /\ [][StoreCalls]_storeVars
  BY <1>1, <1>2, OpenInvAlways, PTL DEF OpenSpec
<1> QED
  BY <1>3, CallsKeepContract, PTL

LEMMA AgeMoves ==
  ASSUME TypeOK, LeasesAge, UNCHANGED <<session, turn, asked, events, messages>>
  PROVE  LeasesMove
<1>1. \A t \in Turns : /\ task[t] \in [state : {"none", "queued", "running", "done"}, lease : Int]
                       /\ Aged(task[t].lease) \in Int /\ Forgotten \in Int
  BY TimeAssumption DEF TypeOK, Aged, Forgotten
<1>2. \A t \in Turns : /\ task'[t].state = task[t].state
                       /\ task'[t] \in [state : {"none", "queued", "running", "done"}, lease : Int]
  BY <1>1 DEF LeasesAge
<1>3. task' = [t \in Turns |-> task'[t]]
  BY DEF LeasesAge
<1>4. task' \in [Turns -> [state : {"none", "queued", "running", "done"}, lease : Int]]
  BY <1>2, <1>3
<1> QED
  BY <1>2, <1>4 DEF LeasesMove

\* The generator's look at the task is no older than a store call may be.
WatchAge == watch.age \in 0..MaxAge

WatchSide == StoryInv /\ ClientInv /\ StoreInv /\ WatchAge

LEMMA WatchAges ==
  ASSUME ClientInv, WatchAge, [WatchNext]_watcherVars
  PROVE  WatchAge'
<1>1. MaxAge \in Nat /\ watch.age \in 0..MaxAge /\ 0 \in 0..MaxAge
  BY TimeAssumption DEF WatchAge
<1>2. \A pc, t : Place(pc, t).age = 0
  BY DEF Place
<1>3. CASE UNCHANGED watch
  BY <1>1, <1>3 DEF WatchAge
<1>4. CASE \E t \in Turns : Attach(t)
  BY <1>1, <1>2, <1>4 DEF WatchAge, Attach
<1>5. CASE Reattach \/ Leave \/ Wait \/ EndLapsed
  BY <1>1, <1>2, <1>5 DEF WatchAge, Reattach, Leave, Wait, EndLapsed
<1>6. CASE Read
  <2>1. \A batch : [Place("giving", watch.turn) EXCEPT !.batch = batch].age = 0
    BY DEF Place
  <2> QED
    BY <1>1, <1>2, <1>6, <2>1 DEF WatchAge, Read, Calls
<1>7. CASE Check \/ LookForLapsed \/ GetTurn
  BY <1>1, <1>2, <1>7 DEF WatchAge, Check, LookForLapsed, GetTurn, Calls
<1>8. CASE Give
  <2>1. \A batch : [watch EXCEPT !.batch = batch].age = watch.age
    OBVIOUS
  <2>2. \/ watch'.age = 0 \/ watch'.age = watch.age
    BY <1>2, <1>8, <2>1 DEF Give
  <2> QED
    BY <1>1, <2>2 DEF WatchAge
<1>9. CASE WatchTick
  <2>1. DOMAIN watch = {"pc", "turn", "batch", "age"}
    BY DEF ClientInv
  <2>2. watch.age + 1 \in 0..MaxAge
    BY <1>1, <1>9 DEF WatchTick
  <2>3. watch'.age \in {watch.age, watch.age + 1}
    BY <1>9, <2>1 DEF WatchTick
  <2> QED
    BY <1>1, <2>2, <2>3 DEF WatchAge
<1> QED
  BY <1>3, <1>4, <1>5, <1>6, <1>7, <1>8, <1>9
  DEF WatchNext, watcherVars, watchVars, Starts, Asks

\* The generator reads, and ends the lapsed turn it looked at.
LEMMA WatchCalls ==
  ASSUME WatchSide, [WatchNext]_watcherVars
  PROVE  [StoreCalls]_storeVars
<1>0. TypeOK /\ NumberedInv /\ StoryInv /\ ClientInv /\ watch.age \in 0..MaxAge /\ MaxAge \in Nat
  BY TimeAssumption DEF WatchSide, StoreInv, StoryInv, NumberedInv, WatchAge
<1>1. ASSUME NEW s \in Sessions, Starts(s) PROVE StoreCalls
  BY <1>1 DEF Starts, StoreCalls
<1>2. ASSUME NEW s \in Sessions, NEW t \in Turns, Asks(s, t) PROVE StoreCalls
  <2>1. QueueTurn(s, t, TRUE, QueuedTime)
    BY ONLY <1>2 DEF Asks
  <2>2. QueuedTime \in Int
    BY StoreAssumption
  <2>3. TRUE \in BOOLEAN
    OBVIOUS
  <2> QED
    BY <2>1, <2>2, <2>3, Zenon DEF StoreCalls
<1>3. ASSUME EndLapsed PROVE [StoreCalls]_storeVars
  <2>1. -watch.age \in Int
    BY <1>0
  <2>2. (\E t \in Turns : EndExpiredTurn(t, -watch.age)) \/ UNCHANGED storeVars
    BY <1>3 DEF EndLapsed, ActiveTurns
  <2> QED
    BY <2>1, <2>2 DEF StoreCalls
<1>4. ASSUME \/ \E t \in Turns : Attach(t)
             \/ Reattach \/ Leave \/ Wait
             \/ Read \/ Give \/ Check \/ LookForLapsed \/ GetTurn
             \/ UNCHANGED watcherVars
      PROVE  UNCHANGED storeVars
  BY <1>4
  DEF Attach, Reattach, Leave, Wait, Read, Give, Check, LookForLapsed, GetTurn, Calls,
      watcherVars, writersVars
<1>5. ASSUME WatchTick PROVE StoreCalls
  BY <1>0, <1>5, AgeMoves DEF WatchTick, StoreCalls
<1>6. WritersNext => [StoreCalls]_storeVars
  BY <1>0, WritersCall
<1> QED
  BY <1>1, <1>2, <1>3, <1>4, <1>5, <1>6 DEF WatchNext

\* Following a turn, with its end of a lapsed one in between, keeps the store's contract too.
THEOREM WatchKeepsContract == WatchSpec => KeepsContract
<1>1. WatchInit => Init /\ WatchSide
  <2>1. WatchInit => Init /\ WatchAge
    BY TimeAssumption DEF WatchInit, WritersInit, WatchAge, Place
  <2> QED
    BY <2>1, InitWatch, InitInv DEF WatchSide
<1>2. WatchSide /\ [WatchNext]_watcherVars => WatchSide' /\ [StoreCalls]_storeVars
  BY WatchStep, WatchAges, WatchCalls, CallsInv DEF WatchSide
<1>3. WatchSpec => Init /\ [][StoreCalls]_storeVars
  BY <1>1, <1>2, PTL DEF WatchSpec
<1> QED
  BY <1>3, CallsKeepContract, PTL

-----------------------------------------------------------------------------
(* What is shown                                                           *)

LEMMA InvShowsNothingLapsed == OpenInv => NothingLapsedShown
  BY OpenAssumption DEF OpenInv, LapsedInv, NothingLapsedShown, OpenedView

\* A conversation opened after its worker was gone is never shown as still running, whatever the
\* worker, the sweep, other readers and the user do between the reads the view is made of.
THEOREM NothingLapsedShownAlways == OpenSpec => []NothingLapsedShown
  BY OpenInvAlways, InvShowsNothingLapsed, PTL

LEMMA InvShowsWhatRuns == OpenInv => ShowsWhatRuns
  BY DEF OpenInv

\* A question without an answer is shown with the turn at work on it or with how the last one
\* ended, unless the conversation moved on while the view was read.
THEOREM ShowsWhatRunsAlways == OpenSpec => []ShowsWhatRuns
  BY OpenInvAlways, InvShowsWhatRuns, PTL
=============================================================================
