------------------------------ MODULE Pairings ------------------------------
(***************************************************************************)
(* The pairings of one user and the devices they linked, as the server     *)
(* keeps them: the operations of the credentials port, over PostgreSQL,    *)
(* that web/pairing.py and the session route are built from. A claim is    *)
(* made once for a code, so its secret is named by its pairing, and so is  *)
(* the device that secret becomes. Time is what is left of a row's life.   *)
(***************************************************************************)
EXTENDS Integers, FiniteSets

CONSTANTS
  Codes,        \* the pairings, each with the code in its QR
  AtMost,       \* PAIRINGS_PER_USER
  WrongTries,   \* PAIRING_WRONG_TRIES
  Life          \* PAIRING_LIFE, in ticks

ASSUME PairingsAssumption ==
  /\ IsFiniteSet(Codes)
  /\ AtMost \in Nat \ {0}
  /\ WrongTries \in Nat \ {0}
  /\ Life \in Nat \ {0}

VARIABLES
  pairing,      \* the row of each pairing: "none" before it is minted, "gone" once deleted
  device        \* the device session whose secret a pairing's claim secret became

pairingVars == <<pairing, device>>

-----------------------------------------------------------------------------

Row(state) == [state |-> state, left |-> 0, claimed |-> FALSE, wrong |-> 0]

Rows == {p \in Codes : pairing[p].state \in {"waiting", "claimed", "approved"}}

Live == {p \in Rows : pairing[p].left > 0}

WithoutExpired == [p \in Codes |-> IF p \in Rows \ Live THEN Row("gone") ELSE pairing[p]]

\* What the owner's poll is answered of a pairing: its state, or 404.
StateOf(p) == IF p \in Live THEN pairing[p].state ELSE "gone"

ResolvesDevice(p) == device[p] = "linked"

\* Mistaken: the claim's row is looked up without its expiry.
ResolvesExpired(p) == pairing[p].claimed

ResolvesClaim(p) == p \in Live /\ pairing[p].claimed

-----------------------------------------------------------------------------

\* Mistaken: the expired rows stay until they are asked for.
KeepExpired == UNCHANGED pairingVars

\* add_pairing is one statement, but reads before it writes: this is the count, with the
\* deletion of the expired rows, which no other statement finds anyway, ...
UnderTheCap == Cardinality(Live) < AtMost

DeleteExpired ==
  /\ pairing' = WithoutExpired
  /\ UNCHANGED device

\* ... and this the row of a mint that passed.
InsertPairing(p) ==
  /\ pairing[p].state = "none"
  /\ pairing' = [pairing EXCEPT ![p] = [Row("waiting") EXCEPT !.left = Life]]
  /\ UNCHANGED device

Claimable(p) == p \in Live /\ pairing[p].state = "waiting"

ClaimPairing(p) ==
  /\ Claimable(p)
  /\ pairing' = [pairing EXCEPT ![p] = [@ EXCEPT !.state = "claimed", !.claimed = TRUE,
                                                 !.left = Life]]
  /\ UNCHANGED device

\* Mistaken: an approve does not look at the expiry.
LateApproval(p, right) ==
  CASE p \notin Rows -> "gone"
    [] p \in Rows /\ pairing[p].state # "claimed" -> "not_claimed"
    [] p \in Rows /\ pairing[p].state = "claimed" /\ right -> "approved"
    [] OTHER -> IF pairing[p].wrong + 1 < WrongTries THEN "wrong_number" ELSE "gone"

\* What an approve is answered: the last wrong number finds the pairing gone.
Approval(p, right) ==
  CASE p \notin Live -> "gone"
    [] p \in Live /\ pairing[p].state # "claimed" -> "not_claimed"
    [] p \in Live /\ pairing[p].state = "claimed" /\ right -> "approved"
    [] OTHER -> IF pairing[p].wrong + 1 < WrongTries THEN "wrong_number" ELSE "gone"

\* Mistaken: the claim's hash is copied, and stays with the pairing too.
CopiesClaim(p) == [pairing EXCEPT ![p].state = "approved"]

MovesClaim(p) == [pairing EXCEPT ![p].state = "approved", ![p].claimed = FALSE]

\* The right number moves the claim's hash from the pairing to a device; a wrong one is counted,
\* and the last of them deletes the pairing.
ApprovePairing(p, right) ==
  LET outcome == Approval(p, right)
      ends == outcome = "gone" /\ p \in Live
  IN  /\ device' = IF outcome = "approved" THEN [device EXCEPT ![p] = "linked"] ELSE device
      /\ pairing' = CASE outcome = "approved" -> MovesClaim(p)
                      [] outcome = "wrong_number" -> [pairing EXCEPT ![p].wrong = @ + 1]
                      [] ends -> [pairing EXCEPT ![p] = Row("gone")]
                      [] OTHER -> pairing

\* The row goes, whether or not it has expired; a device it linked stays.
DeletePairing(p) ==
  /\ pairing' = IF p \in Rows THEN [pairing EXCEPT ![p] = Row("gone")] ELSE pairing
  /\ UNCHANGED device

\* "Linked devices", the phone's own sign-out or the operator: a device that is removed never
\* comes back.
RemoveDevice(p) ==
  /\ ResolvesDevice(p)
  /\ device' = [device EXCEPT ![p] = "removed"]
  /\ UNCHANGED pairing

RowsAge ==
  /\ pairing' = [p \in Codes |-> IF p \in Live THEN [pairing[p] EXCEPT !.left = @ - 1]
                                 ELSE pairing[p]]
  /\ UNCHANGED device

PairingsInit ==
  /\ pairing = [p \in Codes |-> Row("none")]
  /\ device = [p \in Codes |-> "none"]

-----------------------------------------------------------------------------
(* Properties                                                              *)

\* Every row is one the table's constraints allow: a claim's hash is there exactly while the
\* pairing is claimed, and there is a device exactly for a pairing that was approved.
PairingsTypeOK ==
  /\ pairing \in [Codes -> [state : {"none", "waiting", "claimed", "approved", "gone"},
                            left : 0..Life, claimed : BOOLEAN, wrong : 0..WrongTries - 1]]
  /\ device \in [Codes -> {"none", "linked", "removed"}]
  /\ \A p \in Codes : /\ pairing[p].claimed <=> pairing[p].state = "claimed"
                      /\ pairing[p].state = "approved" => device[p] # "none"

\* A pairing that expired, was refused, was cancelled or took its last wrong number links no
\* phone, however late an approve of it arrives: its claim's secret resolves to nothing, ever.
EndedNeverLinks ==
  [][\A p \in Codes :
       p \notin Live /\ pairing[p].state # "none" /\ device[p] = "none"
         => device'[p] = "none"]_pairingVars
=============================================================================
