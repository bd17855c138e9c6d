------------------------------ MODULE WorkerApi ------------------------------
(***************************************************************************)
(* How a worker in a process of its own reaches the core: the routes of    *)
(* its server, who they let in, and the poll by which it hears of the      *)
(* turns asked to stop. A server numbers the cancels it hears from 1 and   *)
(* keeps the latest; a worker asks for those past the last it heard. An    *)
(* answer may be lost on its way.                                          *)
(***************************************************************************)
EXTENDS Schema, Sequences

CONSTANTS
  Workers,      \* the names the agents give
  Turns,
  MaxStarts,    \* bound: the starts of the server
  Kept,         \* KEPT_CANCELS
  MaxCancels    \* bound: the cancels asked

ASSUME WorkerApiAssumption ==
  /\ {MaxStarts, Kept, MaxCancels} \subseteq Nat
  /\ None \notin Workers \union Nat
  /\ \A start \in 1..MaxStarts, w \in Workers : None # <<start, w>>

\* A process: the start of the server that spawned it, and its worker. Its secret is its own.
Processes == (1..MaxStarts) \X Workers

VARIABLES
  secrets,      \* by worker, the process whose secret the routes take
  last,         \* the number of the last cancel the server heard
  kept,         \* the latest cancels, each with its number
  poll          \* by process: its cursor, the first it was given, what it heard

apiVars == <<secrets, last, kept, poll>>

-----------------------------------------------------------------------------
(* Who is let in                                                           *)

NoSecrets == [w \in Workers |-> None]

IsOpen == secrets # NoSecrets

\* Mistaken: a secret once handed out is good for ever.
AdmittedEver(p) == IF IsOpen THEN {p[2]} ELSE {}

\* The worker whose secret is presented, if any.
Admitted(p) == {w \in Workers : secrets[w] = p}

Open(w, p) == secrets' = [secrets EXCEPT ![w] = p]

Close == secrets' = NoSecrets

-----------------------------------------------------------------------------
(* The cancels                                                             *)

NoPoll == [cursor |-> None, first |-> None, heard |-> {}]

\* The core's listener: a turn was asked to stop.
StopRequested(t) ==
  /\ last' = last + 1
  /\ kept' = LET all == Append(kept, [number |-> last + 1, turn |-> t])
             IN  SubSeq(all, IF Len(all) > Kept THEN 2 ELSE 1, Len(all))

CancelsForgotten == last' = 0 /\ kept' = <<>>

\* What the server answers a poll with; one with nothing past its cursor waits for more.
Waits(after) == after = last

CancelsAfter(after) ==
  [cursor |-> last,
   tasks |-> IF after = None \/ after > last THEN {}
             ELSE {kept[i] : i \in {j \in DOMAIN kept : kept[j].number > after}}]

\* Mistaken: the cursor moves on, heard or not.
PollsMovingOn(p) ==
  LET answer == CancelsAfter(poll[p].cursor)
  IN  /\ ~Waits(poll[p].cursor)
      /\ \E tasks \in {answer.tasks, {}} :
           poll' = [poll EXCEPT ![p].cursor = answer.cursor,
                                ![p].first = IF @ = None THEN answer.cursor ELSE @,
                                ![p].heard = @ \union tasks]

\* An answer that is lost changes nothing: the worker asks again from where it was.
Polls(p) ==
  LET answer == CancelsAfter(poll[p].cursor)
  IN  /\ ~Waits(poll[p].cursor)
      /\ poll' = [poll EXCEPT ![p].cursor = answer.cursor,
                              ![p].first = IF @ = None THEN answer.cursor ELSE @,
                              ![p].heard = @ \union answer.tasks]

=============================================================================
