------------------------------- MODULE Writers -------------------------------
(***************************************************************************)
(* What the other parties may do to a conversation while one handler of    *)
(* the web server reads it: a worker that claims, writes, renews and ends, *)
(* by calls that come in any order, each with the time it was sent, until  *)
(* the last has come; a user who cancels or deletes in another window;     *)
(* another reader that ends a lapsed turn. Less is asked of them than      *)
(* Worker and TurnSystem do. What the sweep does to a session once it is   *)
(* hidden is left out: a handler is refused by then.                       *)
(***************************************************************************)
EXTENDS ServerTime

CONSTANT
  GivenUp       \* how many documents a worker may have numbered and given up on, by its end

ASSUME WritersAssumption == GivenUp \subseteq Nat

VARIABLE
  up            \* whether there may be calls of the worker's still to come

writersVars == <<storeVars, up>>

WorkerClaims(t, sentAt) ==
  /\ up
  /\ \E w \in Workers : t \in Claimable(w, sentAt)
  /\ ClaimTasks({t}, sentAt + LeaseTime)
  /\ UNCHANGED up

\* The runner's one writer numbers its events from 1 and waits for each to be stored: none comes
\* after one it gave up on.
WorkerWrites(t, document, writtenAt) ==
  /\ up
  /\ Write(t, Cardinality(events[t]) + 1, document, writtenAt)
  /\ Cardinality(events[t]) + 1 \in Positions
  /\ UNCHANGED up

\* Its end is numbered on from them, though they may never be stored: an append, or the two of a
\* finish.
WorkerEnds(t, how, givenUp, endedAt) ==
  /\ up
  /\ End(t, how, Cardinality(events[t]) + 1 + givenUp, endedAt)
  /\ UNCHANGED up

\* A renewal compares with the time it was sent: late, it may take up a lease that lapsed since.
WorkerRenews(t, sentAt) ==
  /\ up
  /\ t \in Renewed({t}, sentAt)
  /\ RenewLeases({t}, sentAt, sentAt + LeaseTime)
  /\ UNCHANGED up

WorkerDies ==
  /\ up
  /\ up' = FALSE
  /\ UNCHANGED storeVars

SomeoneCancels(t) == RequestCancel(t) /\ UNCHANGED up

SomeoneDeletes(s) == HideSession(s) /\ UNCHANGED up

SomeoneEnds(t, now) == EndExpiredTurn(t, now) /\ UNCHANGED up

WritersInit == Init /\ up = TRUE

WritersNext ==
  \/ \E t \in Turns, sentAt \in Times : WorkerClaims(t, sentAt) \/ WorkerRenews(t, sentAt)
  \/ \E t \in Turns : SomeoneCancels(t)
  \/ \E t \in Turns, document \in Pieces, writtenAt \in Times :
       WorkerWrites(t, document, writtenAt)
  \/ \E t \in Turns, how \in Endings, givenUp \in GivenUp, endedAt \in Times :
       WorkerEnds(t, how, givenUp, endedAt)
  \/ WorkerDies
  \/ \E s \in Sessions : SomeoneDeletes(s)
  \/ \E t \in Turns, now \in Times : SomeoneEnds(t, now)
=============================================================================
