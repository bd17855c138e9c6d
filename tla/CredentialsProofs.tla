------------------------- MODULE CredentialsProofs -------------------------
(***************************************************************************)
(* Proofs about the credentials port and those who call it: the rows of    *)
(* pairings and devices (Pairings), the dialog that links a phone          *)
(* (LinkPhone), and sign-in with its sessions and tokens (Access).         *)
(*                                                                         *)
(* Of the rows: what each operation of the port does to them (RowsStep)    *)
(* and to the devices (DeviceStep), once for whoever calls it. Of the      *)
(* dialog, for any number of codes and any bounds: the table keeps its     *)
(* bound however mints overlap, an ended pairing links nobody, and a code  *)
(* the dialog shows is held by the server with its tries left. Of sign-in, *)
(* for any people, browsers, redirects and processes: a sign-in makes one  *)
(* session at most, in the browser that began it, nobody has one whom no   *)
(* entry means, and a pass is a minute old at most.                        *)
(***************************************************************************)
EXTENDS Access, LinkPhone, FiniteSetTheorems, TLAPS

-----------------------------------------------------------------------------
(* The rows of pairings and devices                                        *)

RowType == [state : {"none", "waiting", "claimed", "approved", "gone"},
            left : 0..Life, claimed : BOOLEAN, wrong : 0..WrongTries - 1]

\* What any step of the server's but an insert may do to the rows.
RowsStep == PairingsTypeOK' /\ Rows' \subseteq Rows

-----------------------------------------------------------------------------

\* A row may be replaced by any that is well formed by itself.
LEMMA OneRow ==
  ASSUME PairingsTypeOK, NEW p \in Codes, NEW row \in RowType, row.state # "approved",
         row.claimed <=> row.state = "claimed",
         pairing' = [pairing EXCEPT ![p] = row], UNCHANGED device
  PROVE  PairingsTypeOK'
<1>1. pairing' \in [Codes -> RowType]
  BY DEF PairingsTypeOK, RowType
<1>2. \A q \in Codes : IF q = p THEN pairing'[q] = row ELSE pairing'[q] = pairing[q]
  BY DEF PairingsTypeOK
<1> QED
  BY <1>1, <1>2 DEF PairingsTypeOK, RowType

LEMMA ApproveRows ==
  ASSUME PairingsTypeOK, NEW p, NEW right, ApprovePairing(p, right)
  PROVE  RowsStep
<1> USE PairingsAssumption DEF PairingsAssumption
<1> DEFINE outcome == Approval(p, right)
<1>1. CASE outcome = "approved"
  <2>1. p \in Live /\ pairing[p].state = "claimed"
    BY <1>1 DEF Approval
  <2>2. p \in Codes
    BY <2>1 DEF Live, Rows
  <2>3. pairing' = MovesClaim(p) /\ device' = [device EXCEPT ![p] = "linked"]
    BY <1>1 DEF ApprovePairing
  <2> QED
    BY <2>1, <2>2, <2>3 DEF MovesClaim, PairingsTypeOK, RowsStep, Rows
<1>2. CASE outcome = "wrong_number"
  <2>1. p \in Live /\ pairing[p].state = "claimed" /\ pairing[p].wrong + 1 < WrongTries
    BY <1>2 DEF Approval
  <2>2. p \in Codes
    BY <2>1 DEF Live, Rows
  <2>3. pairing' = [pairing EXCEPT ![p].wrong = @ + 1] /\ device' = device
    BY <1>2 DEF ApprovePairing
  <2> QED
    BY <2>1, <2>2, <2>3 DEF PairingsTypeOK, RowsStep, Rows
<1>3. CASE outcome \notin {"approved", "wrong_number"}
  <2>1. device' = device
    BY <1>3 DEF ApprovePairing
  <2>2. \/ pairing' = pairing
        \/ p \in Live /\ pairing' = [pairing EXCEPT ![p] = Row("gone")]
    BY <1>3 DEF ApprovePairing
  <2>3. CASE pairing' = pairing
    BY <2>1, <2>3 DEF PairingsTypeOK, RowsStep, Rows
  <2>4. CASE p \in Live /\ pairing' = [pairing EXCEPT ![p] = Row("gone")]
    <3>1. p \in Rows
      BY <2>4 DEF Live
    <3>2. PairingsTypeOK'
      BY <2>1, <2>4, <3>1 DEF PairingsTypeOK, Row, Rows
    <3>3. Rows' \subseteq Rows
      BY <2>4, <3>1 DEF PairingsTypeOK, Row, Rows
    <3> QED
      BY <3>2, <3>3 DEF RowsStep
  <2> QED
    BY <2>2, <2>3, <2>4
<1> QED
  BY <1>1, <1>2, <1>3

LEMMA DeleteRows ==
  ASSUME PairingsTypeOK, NEW p, DeletePairing(p)
  PROVE  RowsStep
<1> USE PairingsAssumption DEF PairingsAssumption
<1>1. CASE p \in Rows
  BY <1>1 DEF DeletePairing, PairingsTypeOK, RowsStep, Row, Rows
<1>2. CASE p \notin Rows
  BY <1>2 DEF DeletePairing, PairingsTypeOK, RowsStep, Rows
<1> QED
  BY <1>1, <1>2

LEMMA ClaimRows ==
  ASSUME PairingsTypeOK, NEW p, ClaimPairing(p)
  PROVE  RowsStep
<1> USE PairingsAssumption DEF PairingsAssumption
<1>1. p \in Codes /\ pairing[p].state = "waiting"
  BY DEF ClaimPairing, Claimable, Live, Rows
<1> DEFINE row == [pairing[p] EXCEPT !.state = "claimed", !.claimed = TRUE, !.left = Life]
<1>2. PairingsTypeOK'
  <2>1. row.state = "claimed" /\ row.state # "approved" /\ row.claimed
    BY <1>1 DEF PairingsTypeOK
  <2>3. row \in RowType
    <3>1. pairing[p] \in RowType /\ Life \in 0..Life
      BY <1>1 DEF PairingsTypeOK, RowType
    <3> QED
      BY <3>1 DEF RowType
  <2>2. pairing' = [pairing EXCEPT ![p] = row] /\ UNCHANGED device
    BY DEF ClaimPairing
  <2> HIDE DEF row
  <2> QED
    BY <1>1, <2>1, <2>2, <2>3, OneRow
<1>3. \A q \in Codes : q # p => pairing'[q] = pairing[q]
  BY DEF ClaimPairing, PairingsTypeOK
<1>4. Rows' \subseteq Rows
  BY <1>1, <1>3 DEF Rows
<1> QED
  BY <1>2, <1>4 DEF RowsStep

LEMMA RemoveRows ==
  ASSUME PairingsTypeOK, NEW p \in Codes, RemoveDevice(p)
  PROVE  RowsStep
BY DEF RemoveDevice, PairingsTypeOK, RowsStep, Rows

LEMMA AgeRows ==
  ASSUME PairingsTypeOK, RowsAge
  PROVE  RowsStep
<1> USE PairingsAssumption DEF PairingsAssumption
<1>1. \A q \in Codes : /\ pairing'[q].state = pairing[q].state
                       /\ pairing'[q].claimed = pairing[q].claimed
                       /\ pairing'[q].wrong = pairing[q].wrong
                       /\ pairing'[q].left \in 0..Life
  BY DEF RowsAge, PairingsTypeOK, Live
<1>2. pairing' \in [Codes -> RowType]
  BY DEF RowsAge, PairingsTypeOK, Live, RowType
<1> QED
  BY <1>1, <1>2 DEF RowsAge, PairingsTypeOK, RowsStep, Rows, RowType

\* Once the expired rows are gone, those that are left are the ones that were live.
LEMMA ExpiredRows ==
  ASSUME PairingsTypeOK, DeleteExpired
  PROVE  RowsStep /\ Rows' = Live
<1> USE PairingsAssumption DEF PairingsAssumption
<1>1. pairing' \in [Codes -> RowType]
  BY DEF DeleteExpired, WithoutExpired, Row, PairingsTypeOK, RowType
<1>2. \A q \in Codes : pairing'[q] = IF q \in Rows \ Live THEN Row("gone") ELSE pairing[q]
  BY DEF DeleteExpired, WithoutExpired
<1>3. \A q \in Codes : q \in Rows' <=> q \in Live
  BY <1>2 DEF Rows, Live, Row
<1>4. Rows' = Live /\ Live \subseteq Rows
  BY <1>3 DEF Rows, Live
<1> QED
  BY <1>1, <1>2, <1>4 DEF DeleteExpired, PairingsTypeOK, RowsStep, Row, RowType

LEMMA InsertRows ==
  ASSUME PairingsTypeOK, NEW p \in Codes, InsertPairing(p)
  PROVE  PairingsTypeOK' /\ Rows' = Rows \cup {p}
<1> USE PairingsAssumption DEF PairingsAssumption
<1> DEFINE row == [Row("waiting") EXCEPT !.left = Life]
<1>1. PairingsTypeOK'
  <2>1. row.state = "waiting" /\ row.state \notin {"claimed", "approved"} /\ ~row.claimed
    BY DEF Row
  <2>3. row \in RowType
    <3>1. Row("waiting") \in RowType /\ Life \in 0..Life
      BY DEF Row, RowType
    <3> QED
      BY <3>1 DEF RowType
  <2>2. pairing' = [pairing EXCEPT ![p] = row] /\ UNCHANGED device
    BY DEF InsertPairing
  <2> HIDE DEF row
  <2> QED
    BY <2>1, <2>2, <2>3, OneRow
<1>2. /\ \A q \in Codes : q # p => pairing'[q] = pairing[q]
      /\ pairing'[p].state = "waiting"
  BY DEF InsertPairing, PairingsTypeOK, Row
<1>3. \A q \in Codes : q \in Rows' <=> q \in Rows \cup {p}
  BY <1>2 DEF Rows
<1> QED
  BY <1>1, <1>3 DEF Rows

LEMMA SameRows ==
  ASSUME PairingsTypeOK, UNCHANGED pairingVars
  PROVE  RowsStep
BY DEF pairingVars, PairingsTypeOK, RowsStep, Rows

-----------------------------------------------------------------------------
(* The devices                                                             *)

\* What a step may do to the devices: only a live pairing's is made.
DeviceStep ==
  \A p \in Codes : p \notin Live /\ device[p] = "none" => device'[p] = "none"

LEMMA SameDevices ==
  ASSUME UNCHANGED device
  PROVE  DeviceStep
BY DEF DeviceStep

\* The right number is for the pairing that is live when it comes.
LEMMA ApproveDevices ==
  ASSUME PairingsTypeOK, NEW p, NEW right, ApprovePairing(p, right)
  PROVE  DeviceStep
<1>1. CASE Approval(p, right) = "approved"
  <2>1. p \in Live
    BY <1>1 DEF Approval
  <2>2. device' = [device EXCEPT ![p] = "linked"]
    BY <1>1 DEF ApprovePairing
  <2> QED
    BY <2>1, <2>2 DEF DeviceStep, PairingsTypeOK
<1>2. CASE Approval(p, right) # "approved"
  BY <1>2, SameDevices DEF ApprovePairing
<1> QED
  BY <1>1, <1>2

-----------------------------------------------------------------------------
(* Linking a phone                                                         *)

MintsCounted == {r \in Codes : mint[r] = "counted"}

MintStates == {"unasked", "asked", "counted", "minted", "fresh", "refused", "over"}

\* The bound is inductive with the type of what it counts.
TableInv ==
  /\ PairingsTypeOK
  /\ mint \in [Codes -> MintStates]
  /\ TableBounded

-----------------------------------------------------------------------------
(* The bound of the table                                                  *)

LEMMA RowsAreFinite ==
  /\ IsFiniteSet(Rows) /\ Cardinality(Rows) \in Nat
  /\ IsFiniteSet(Live) /\ Cardinality(Live) \in Nat
  /\ IsFiniteSet(MintsCounted) /\ Cardinality(MintsCounted) \in Nat
<1>1. Rows \in SUBSET Codes /\ Live \in SUBSET Codes /\ MintsCounted \in SUBSET Codes
  BY DEF Rows, Live, MintsCounted
<1> QED
  BY <1>1, FS_Subset, FS_CardinalityType, PairingsAssumption DEF PairingsAssumption

LEMMA Fewer ==
  ASSUME NEW S, NEW T, IsFiniteSet(S), T \subseteq S
  PROVE  /\ IsFiniteSet(T)
         /\ Cardinality(T) \in Nat /\ Cardinality(S) \in Nat
         /\ Cardinality(T) <= Cardinality(S)
<1>1. T \in SUBSET S
  OBVIOUS
<1> QED
  BY <1>1, FS_Subset, FS_CardinalityType

LEMMA OneMoreCounted ==
  ASSUME NEW S, NEW x, IsFiniteSet(S)
  PROVE  /\ Cardinality(S \cup {x}) \in Nat /\ Cardinality(S) \in Nat
         /\ Cardinality(S \cup {x}) <= Cardinality(S) + 1
<1>1. /\ IsFiniteSet(S \cup {x})
      /\ Cardinality(S \cup {x}) = IF x \in S THEN Cardinality(S) ELSE Cardinality(S) + 1
  BY FS_AddElement
<1>2. Cardinality(S \cup {x}) \in Nat /\ Cardinality(S) \in Nat
  BY <1>1, FS_CardinalityType
<1> QED
  BY <1>1, <1>2

\* A mint that comes to any place but the count keeps what is counted for.
LEMMA MintMoves ==
  ASSUME mint \in [Codes -> MintStates], NEW r \in Codes,
         NEW place \in MintStates, place # "counted",
         mint' = [mint EXCEPT ![r] = place]
  PROVE  mint' \in [Codes -> MintStates] /\ MintsCounted' \subseteq MintsCounted
BY DEF MintsCounted

LEMMA MintsMove ==
  ASSUME mint \in [Codes -> MintStates], Mints
  PROVE  mint' \in [Codes -> MintStates] /\ MintsCounted' \subseteq MintsCounted
<1>1. round + 1 \in Codes /\ "asked" \in MintStates /\ mint' = [mint EXCEPT ![round + 1] = "asked"]
  BY DEF Mints, CanMint, MintStates
<1> QED
  BY <1>1, MintMoves

\* A step that adds no row and counts for no mint keeps the invariant.
LEMMA Shrinks ==
  ASSUME TableInv, RowsStep, mint' \in [Codes -> MintStates], MintsCounted' \subseteq MintsCounted
  PROVE  TableInv'
<1> USE PairingsAssumption, LinkAssumption DEF PairingsAssumption, LinkAssumption
<1>1. /\ Cardinality(Rows') \in Nat /\ Cardinality(Rows) \in Nat
      /\ Cardinality(Rows') <= Cardinality(Rows)
  BY RowsAreFinite, Fewer DEF RowsStep
<1>2. /\ Cardinality(MintsCounted') \in Nat /\ Cardinality(MintsCounted) \in Nat
      /\ Cardinality(MintsCounted') <= Cardinality(MintsCounted)
  BY RowsAreFinite, Fewer
<1>3. Cardinality(Rows) + Cardinality(MintsCounted) <= AtMost - 1 + Concurrent
  BY DEF TableInv, TableBounded, MintsCounted
<1>4. Cardinality(Rows') + Cardinality(MintsCounted') <= AtMost - 1 + Concurrent
  BY <1>1, <1>2, <1>3
<1> QED
  BY <1>4 DEF TableInv, TableBounded, MintsCounted, RowsStep

\* The count lets a mint pass while fewer than Concurrent others are counted for, and leaves fewer
\* rows than the cap.
LEMMA CountKeepsBound ==
  ASSUME TableInv, NEW r \in Codes, MintCounts(r)
  PROVE  TableInv'
<1> USE PairingsAssumption, LinkAssumption DEF PairingsAssumption, LinkAssumption
<1>1. mint \in [Codes -> MintStates] /\ PairingsTypeOK
  BY DEF TableInv
<1>2. RowsStep /\ Rows' = Live
  BY <1>1, ExpiredRows DEF MintCounts
<1>3. CASE ~UnderTheCap
  <2>1. mint' = [mint EXCEPT ![r] = "refused"] /\ "refused" \in MintStates
    BY <1>3 DEF MintCounts, MintAfter, MintStates
  <2>2. mint' \in [Codes -> MintStates] /\ MintsCounted' \subseteq MintsCounted
    BY <1>1, <2>1, MintMoves
  <2> QED
    BY <1>2, <2>2, Shrinks
<1>4. CASE UnderTheCap
  <2>1. mint' = [mint EXCEPT ![r] = "counted"] /\ "counted" \in MintStates
    BY <1>4 DEF MintCounts, MintAfter, MintStates
  <2>2. mint' \in [Codes -> MintStates]
    BY <1>1, <2>1
  <2>3. \A q \in Codes : q \in MintsCounted' <=> q \in MintsCounted \cup {r}
    BY <1>1, <2>1 DEF MintsCounted
  <2>4. MintsCounted' = MintsCounted \cup {r}
    BY <2>3 DEF MintsCounted
  <2>5. /\ Cardinality(MintsCounted') \in Nat /\ Cardinality(MintsCounted) \in Nat
        /\ Cardinality(MintsCounted') <= Cardinality(MintsCounted) + 1
    BY <2>4, RowsAreFinite, OneMoreCounted
  <2>6. Cardinality(MintsCounted) < Concurrent
    BY DEF MintCounts, MintsCounted
  <2>7. Cardinality(Rows') \in Nat /\ Cardinality(Rows') < AtMost
    BY <1>2, <1>4, RowsAreFinite DEF UnderTheCap
  <2>8. Cardinality(Rows') + Cardinality(MintsCounted') <= AtMost - 1 + Concurrent
    BY <2>5, <2>6, <2>7
  <2> QED
    BY <1>2, <2>2, <2>8 DEF TableInv, TableBounded, MintsCounted, RowsStep
<1> QED
  BY <1>3, <1>4

\* The row of a mint that was counted for takes its place.
LEMMA InsertKeepsBound ==
  ASSUME TableInv, NEW r \in Codes, MintInserts(r)
  PROVE  TableInv'
<1> USE PairingsAssumption, LinkAssumption DEF PairingsAssumption, LinkAssumption
<1>1. mint \in [Codes -> MintStates] /\ PairingsTypeOK
  BY DEF TableInv
<1>2. PairingsTypeOK' /\ Rows' = Rows \cup {r}
  BY <1>1, InsertRows DEF MintInserts
<1>3. mint' = [mint EXCEPT ![r] = "minted"] /\ r \in MintsCounted
  BY DEF MintInserts, MintAfter, MintsCounted
<1>4. mint' \in [Codes -> MintStates]
  BY <1>1, <1>3 DEF MintStates
<1>5. \A q \in Codes : q \in MintsCounted' <=> q \in MintsCounted \ {r}
  BY <1>1, <1>3 DEF MintsCounted
<1>6. MintsCounted' = MintsCounted \ {r}
  BY <1>5 DEF MintsCounted
<1>7. /\ Cardinality(MintsCounted') \in Nat /\ Cardinality(MintsCounted) \in Nat
      /\ Cardinality(MintsCounted') = Cardinality(MintsCounted) - 1
  BY <1>3, <1>6, RowsAreFinite, FS_RemoveElement, FS_CardinalityType
<1>8. /\ Cardinality(Rows') \in Nat /\ Cardinality(Rows) \in Nat
      /\ Cardinality(Rows') <= Cardinality(Rows) + 1
  BY <1>2, RowsAreFinite, OneMoreCounted
<1>9. Cardinality(Rows) + Cardinality(MintsCounted) <= AtMost - 1 + Concurrent
  BY DEF TableInv, TableBounded, MintsCounted
<1>10. Cardinality(Rows') + Cardinality(MintsCounted') <= AtMost - 1 + Concurrent
  BY <1>7, <1>8, <1>9
<1> QED
  BY <1>2, <1>4, <1>10 DEF TableInv, TableBounded, MintsCounted

LEMMA TableInit == LinkInit => TableInv
<1> USE PairingsAssumption, LinkAssumption DEF PairingsAssumption, LinkAssumption
<1> SUFFICES ASSUME LinkInit
             PROVE  TableInv
  OBVIOUS
<1>1. PairingsTypeOK
  BY DEF LinkInit, PairingsInit, PairingsTypeOK, Row
<1>2. mint \in [Codes -> MintStates]
  BY DEF LinkInit, MintStates
<1>3. Rows = {} /\ MintsCounted = {}
  BY DEF LinkInit, PairingsInit, Rows, Row, MintsCounted
<1>4. Cardinality(Rows) = 0 /\ Cardinality(MintsCounted) = 0
  BY <1>3, FS_EmptySet
<1> QED
  BY <1>1, <1>2, <1>4 DEF TableInv, TableBounded, MintsCounted

\* A step of the dialog's or the phone's that leaves the rows, or does one of their operations.
LEMMA MintsApart ==
  ASSUME TableInv, RowsStep, UNCHANGED mint
  PROVE  TableInv'
BY Shrinks DEF TableInv, MintsCounted

LEMMA TableStep == TableInv /\ [LinkNext]_linkVars => TableInv'
<1> SUFFICES ASSUME TableInv, [LinkNext]_linkVars
             PROVE  TableInv'
  OBVIOUS
<1> USE DEF dialogVars, pairingVars
<1>0. PairingsTypeOK /\ mint \in [Codes -> MintStates]
  BY DEF TableInv
<1>1. ASSUME UNCHANGED pairingVars
      PROVE  RowsStep
  BY <1>0, <1>1, SameRows
<1>2. ASSUME UNCHANGED pairingVars, UNCHANGED mint
      PROVE  TableInv'
  BY <1>1, <1>2, MintsApart
<1>3. ASSUME UNCHANGED pairingVars, Mints
      PROVE  TableInv'
  BY <1>0, <1>1, <1>3, MintsMove, Shrinks
<1>4. ASSUME UNCHANGED pairingVars, NEW r \in Codes, NEW place \in MintStates,
             place # "counted", mint' = [mint EXCEPT ![r] = place]
      PROVE  TableInv'
  BY <1>0, <1>1, <1>4, MintMoves, Shrinks
<1>5. CASE Open \/ ShowNew
  BY <1>5, <1>3 DEF Open, ShowNew
<1>6. CASE Close \/ PollReads \/ ApproveAnswered \/ ApproveFails \/ Refuse
  BY <1>6, <1>2 DEF Close, PollReads, ApproveAnswered, ApproveFails, Refuse
<1>7. ASSUME NEW r \in Codes, MintRefused(r) \/ MintFails(r) \/ MintDropped(r) \/ MintAnswered(r)
      PROVE  TableInv'
  <2>1. PICK place \in {"fresh", "refused", "over"} : mint' = [mint EXCEPT ![r] = place]
    BY <1>7 DEF MintRefused, MintFails, MintDropped, MintAnswered, MintAfter
  <2>2. UNCHANGED pairingVars
    BY <1>7 DEF MintRefused, MintFails, MintDropped, MintAnswered
  <2> QED
    BY <2>1, <2>2, <1>4 DEF MintStates
<1>8. ASSUME NEW r \in Codes, MintCounts(r) \/ MintInserts(r)
      PROVE  TableInv'
  BY <1>8, CountKeepsBound, InsertKeepsBound
<1>9. CASE PollAnswered
  <2>1. UNCHANGED pairingVars
    BY <1>9 DEF PollAnswered
  <2>2. Mints \/ UNCHANGED mint
    BY <1>9 DEF PollAnswered, Expires
  <2> QED
    BY <2>1, <2>2, <1>2, <1>3
<1>10. ASSUME NEW right \in BOOLEAN, Link(right)
       PROVE  TableInv'
  BY <1>10, <1>2 DEF Link
<1>11. CASE ApproveReached
  BY <1>11, <1>0, ApproveRows, MintsApart DEF ApproveReached
<1>12. ASSUME NEW m \in late, LateReached(m)
       PROVE  TableInv'
  BY <1>12, <1>0, ApproveRows, MintsApart DEF LateReached
<1>13. ASSUME NEW c \in rechecks, RecheckReads(c) \/ RecheckAnswered(c)
       PROVE  TableInv'
  BY <1>13, <1>2 DEF RecheckReads, RecheckAnswered
<1>14. ASSUME NEW p \in deletes, DeleteReached(p) \/ DeleteFails(p)
       PROVE  TableInv'
  <2>1. UNCHANGED mint
    BY <1>14 DEF DeleteReached, DeleteFails, DeleteOver
  <2>2. RowsStep
    BY <1>14, <1>0, <1>1, DeleteRows DEF DeleteReached, DeleteFails
  <2> QED
    BY <2>1, <2>2, MintsApart
<1>15. CASE Scan \/ ClaimRefused \/ PhoneAsks \/ PhoneAnswered
  BY <1>15, <1>2 DEF Scan, ClaimRefused, PhoneAsks, PhoneAnswered, PhoneDoes
<1>16. ASSUME NEW mine \in BOOLEAN, PhoneClaims(mine)
       PROVE  TableInv'
  <2>1. ClaimPairing(phone.of) /\ UNCHANGED mint
    BY <1>16 DEF PhoneClaims, PhoneDoes
  <2> QED
    BY <2>1, <1>0, ClaimRows, MintsApart
<1>17. ASSUME NEW p \in Codes, Remove(p)
       PROVE  TableInv'
  BY <1>17, <1>0, RemoveRows, MintsApart DEF Remove
<1>18. CASE RowsTick
  BY <1>18, <1>0, AgeRows, MintsApart DEF RowsTick
<1>19. CASE UNCHANGED linkVars
  BY <1>19, <1>2 DEF linkVars
<1> QED
  BY <1>5, <1>6, <1>7, <1>8, <1>9, <1>10, <1>11, <1>12, <1>13, <1>14, <1>15, <1>16, <1>17,
     <1>18, <1>19 DEF LinkNext

LEMMA TableInvAlways == LinkSpec => []TableInv
<1> QED
  BY TableInit, TableStep, PTL DEF LinkSpec

\* However many mints the server counts for at once, and whatever the dialogs, the phones and the
\* clock do between them, a user's rows stay within the cap and one less than that many (the count
\* and the insert of _ADD_PAIRING, and its deletion of what has expired).
THEOREM TableBoundedAlways == LinkSpec => []TableBounded
BY TableInvAlways, PTL DEF TableInv

\* The rows are those the table's constraints allow: a claim's hash is there exactly while the
\* pairing is claimed, and an approved one has its device.
THEOREM PairingsTypeOKAlways == LinkSpec => []PairingsTypeOK
BY TableInvAlways, PTL DEF TableInv

-----------------------------------------------------------------------------
(* Who is linked                                                           *)

LEMMA LinksOnlyLive ==
  ASSUME PairingsTypeOK, LinkNext
  PROVE  DeviceStep
<1> USE DEF dialogVars, pairingVars
<1>1. CASE ApproveReached
  BY <1>1, ApproveDevices DEF ApproveReached
<1>2. ASSUME NEW m \in late, LateReached(m)
      PROVE  DeviceStep
  BY <1>2, ApproveDevices DEF LateReached
<1>3. ASSUME NEW p \in Codes, Remove(p)
      PROVE  DeviceStep
  BY <1>3 DEF Remove, RemoveDevice, ResolvesDevice, DeviceStep, PairingsTypeOK
<1>4. CASE Open \/ Close \/ ShowNew \/ PollReads \/ PollAnswered \/ ApproveAnswered
           \/ ApproveFails \/ Refuse
  BY <1>4, SameDevices
     DEF Open, Close, ShowNew, PollReads, PollAnswered, ApproveAnswered, ApproveFails, Refuse
<1>5. ASSUME NEW r \in Codes, \/ MintRefused(r) \/ MintCounts(r) \/ MintInserts(r)
                              \/ MintFails(r) \/ MintDropped(r) \/ MintAnswered(r)
      PROVE  DeviceStep
  BY <1>5, SameDevices
     DEF MintRefused, MintCounts, DeleteExpired, MintInserts, InsertPairing, MintFails,
         MintDropped, MintAnswered
<1>6. ASSUME NEW right \in BOOLEAN, Link(right)
      PROVE  DeviceStep
  BY <1>6, SameDevices DEF Link
<1>7. ASSUME NEW c \in rechecks, RecheckReads(c) \/ RecheckAnswered(c)
      PROVE  DeviceStep
  BY <1>7, SameDevices DEF RecheckReads, RecheckAnswered
<1>8. ASSUME NEW p \in deletes, DeleteReached(p) \/ DeleteFails(p)
      PROVE  DeviceStep
  BY <1>8, SameDevices DEF DeleteReached, DeletePairing, DeleteFails
<1>9. CASE Scan \/ ClaimRefused \/ PhoneAsks \/ PhoneAnswered
  BY <1>9, SameDevices DEF Scan, ClaimRefused, PhoneAsks, PhoneAnswered
<1>10. ASSUME NEW mine \in BOOLEAN, PhoneClaims(mine)
       PROVE  DeviceStep
  BY <1>10, SameDevices DEF PhoneClaims, ClaimPairing
<1>11. CASE RowsTick
  BY <1>11, SameDevices DEF RowsTick, RowsAge
<1> QED
  BY <1>1, <1>2, <1>3, <1>4, <1>5, <1>6, <1>7, <1>8, <1>9, <1>10, <1>11 DEF LinkNext

\* A pairing that expired, was refused, cancelled or guessed at too often links no phone, for any
\* number of codes and whenever an approve of it arrives (_APPROVE_PAIRING finds live rows alone).
THEOREM EndedNeverLinksAlways == LinkSpec => EndedNeverLinks
<1> DEFINE Keeps == \A p \in Codes :
                      p \notin Live /\ pairing[p].state # "none" /\ device[p] = "none"
                        => device'[p] = "none"
<1>1. TableInv /\ [LinkNext]_linkVars => [Keeps]_pairingVars
  <2> SUFFICES ASSUME TableInv, [LinkNext]_linkVars
               PROVE  Keeps \/ UNCHANGED pairingVars
    OBVIOUS
  <2>1. CASE LinkNext
    BY <2>1, LinksOnlyLive DEF TableInv, DeviceStep
  <2>2. CASE UNCHANGED linkVars
    BY <2>2 DEF linkVars
  <2> QED
    BY <2>1, <2>2
<1> QED
  BY <1>1, TableInvAlways, PTL DEF LinkSpec, EndedNeverLinks

-----------------------------------------------------------------------------
(* What the dialog shows                                                   *)

Kinds == {"closed", "minting", "shown", "linked", "expired", "gone", "refused", "fresh"}

PollStates == {"none", "waiting", "claimed", "approved", "gone"}

Approvals == {"none", "approved", "wrong_number", "gone", "not_claimed"}

\* The codes of rounds to come are not asked for.
RoundInv ==
  /\ mint \in [Codes -> MintStates]
  /\ round \in Nat
  /\ \A r \in Codes : r > round => mint[r] = "unasked"

\* The code shown, as the one of a Link, is of a mint whose answer has come.
StageShape ==
  /\ stage \in [kind : Kinds, of : Codes \cup {0}, state : {"none", "waiting", "claimed"},
                wrong : Nat]
  /\ stage.kind = "shown" <=> stage.state \in {"waiting", "claimed"}
  /\ stage.kind = "shown" => stage.of \in Codes /\ mint[stage.of] = "over"
  /\ held \in Codes \cup {0}
  /\ poll \in PollStates

AnswersShape ==
  /\ approve \in [of : Codes \cup {0}, right : BOOLEAN, answer : Approvals]
  /\ approve.of # 0 => busy /\ mint[approve.of] = "over"
  /\ approve.answer # "none" => approve.of # 0
  /\ late \subseteq [of : Codes, right : BOOLEAN]
  /\ rechecks \subseteq [of : Codes, answer : PollStates]
  /\ refusals \subseteq deletes

\* The wrong number the shown code was answered, and the dialog has not heard of yet.
Unheard == IF approve.of = stage.of /\ approve.answer = "wrong_number" THEN 1 ELSE 0

TriesInv ==
  stage.kind = "shown" /\ stage.of \in Live => stage.wrong + Unheard <= pairing[stage.of].wrong

StageInv == StageShape /\ ShownIsHeld /\ TriesInv

DialogInv == PairingsTypeOK /\ RoundInv /\ StageInv /\ AnswersShape

\* A mint whose answer has come is over for good; its row, while it lives, has ever more wrong
\* numbers, and one that died is no more.
OverStays ==
  \A p \in Codes : mint[p] = "over" =>
    /\ mint'[p] = "over"
    /\ p \in Live' => p \in Live /\ pairing[p].wrong <= pairing'[p].wrong

RowsKeep == \A p \in Codes : p \in Live' => p \in Live /\ pairing[p].wrong <= pairing'[p].wrong

LEMMA ApproveKeeps ==
  ASSUME PairingsTypeOK, NEW p, NEW right, ApprovePairing(p, right)
  PROVE  RowsKeep
<1> USE PairingsAssumption DEF PairingsAssumption
<1>0. \A q \in Codes : pairing[q].wrong \in Nat
  BY DEF PairingsTypeOK
<1>1. CASE Approval(p, right) = "approved"
  <2>1. p \in Codes /\ p \in Live
    BY <1>1 DEF Approval, Live, Rows
  <2>2. pairing' = MovesClaim(p)
    BY <1>1 DEF ApprovePairing
  <2> QED
    BY <1>0, <2>1, <2>2 DEF MovesClaim, PairingsTypeOK, RowsKeep, Live, Rows
<1>2. CASE Approval(p, right) = "wrong_number"
  <2>1. p \in Codes /\ p \in Live
    BY <1>2 DEF Approval, Live, Rows
  <2>2. pairing' = [pairing EXCEPT ![p].wrong = @ + 1]
    BY <1>2 DEF ApprovePairing
  <2> QED
    BY <1>0, <2>1, <2>2 DEF PairingsTypeOK, RowsKeep, Live, Rows
<1>3. CASE Approval(p, right) \notin {"approved", "wrong_number"}
  <2>1. \/ pairing' = pairing
        \/ p \in Live /\ pairing' = [pairing EXCEPT ![p] = Row("gone")]
    BY <1>3 DEF ApprovePairing
  <2>2. CASE pairing' = pairing
    BY <1>0, <2>2 DEF RowsKeep, Live, Rows
  <2>3. CASE p \in Live /\ pairing' = [pairing EXCEPT ![p] = Row("gone")]
    BY <1>0, <2>3 DEF PairingsTypeOK, RowsKeep, Live, Rows, Row
  <2> QED
    BY <2>1, <2>2, <2>3
<1> QED
  BY <1>1, <1>2, <1>3

LEMMA OthersKeep ==
  ASSUME PairingsTypeOK,
         \/ UNCHANGED pairing \/ DeleteExpired \/ RowsAge
         \/ \E p : DeletePairing(p) \/ ClaimPairing(p) \/ RemoveDevice(p)
  PROVE  RowsKeep
<1> USE PairingsAssumption DEF PairingsAssumption
<1>1. \A q \in Codes : pairing[q].wrong \in Nat /\ pairing[q].left \in Nat
  BY DEF PairingsTypeOK
<1>2. CASE UNCHANGED pairing
  BY <1>1, <1>2 DEF RowsKeep, Live, Rows
<1>3. CASE DeleteExpired
  BY <1>1, <1>3 DEF DeleteExpired, WithoutExpired, RowsKeep, Live, Rows, Row
<1>4. CASE RowsAge
  <2>1. \A q \in Codes : /\ pairing'[q].state = pairing[q].state
                         /\ pairing'[q].wrong = pairing[q].wrong
                         /\ pairing'[q].left <= pairing[q].left /\ pairing'[q].left \in Int
    BY <1>4 DEF RowsAge, PairingsTypeOK, Live
  <2> QED
    BY <1>1, <2>1 DEF RowsKeep, Live, Rows
<1>5. ASSUME NEW p, DeletePairing(p) PROVE RowsKeep
  BY <1>1, <1>5 DEF DeletePairing, PairingsTypeOK, RowsKeep, Live, Rows, Row
<1>6. ASSUME NEW p, ClaimPairing(p) PROVE RowsKeep
  <2>1. p \in Codes /\ p \in Live
    BY <1>6 DEF ClaimPairing, Claimable, Live, Rows
  <2>2. pairing' = [pairing EXCEPT ![p] = [pairing[p] EXCEPT !.state = "claimed",
                                                             !.claimed = TRUE, !.left = Life]]
    BY <1>6 DEF ClaimPairing
  <2>3. pairing'[p].wrong = pairing[p].wrong /\ \A q \in Codes : q # p => pairing'[q] = pairing[q]
    BY <2>1, <2>2 DEF PairingsTypeOK
  <2> QED
    BY <1>1, <2>1, <2>3 DEF RowsKeep, Live, Rows
<1>7. ASSUME NEW p, RemoveDevice(p) PROVE RowsKeep
  BY <1>1, <1>7 DEF RemoveDevice, RowsKeep, Live, Rows
<1> QED
  BY <1>2, <1>3, <1>4, <1>5, <1>6, <1>7

LEMMA MintsOver ==
  ASSUME RoundInv, Mints, RowsKeep
  PROVE  RoundInv' /\ OverStays
<1>1. /\ round + 1 \in Codes /\ round' = round + 1
      /\ mint' = [mint EXCEPT ![round + 1] = "asked"]
  BY DEF Mints, CanMint
<1>2. mint[round + 1] = "unasked"
  BY <1>1 DEF RoundInv
<1>3. \A r \in Codes : mint'[r] = IF r = round + 1 THEN "asked" ELSE mint[r]
  BY <1>1 DEF RoundInv
<1>4. Codes \subseteq Int
  BY PairingsAssumption, LinkAssumption, FS_CardinalityType
  DEF PairingsAssumption, LinkAssumption
<1>5. mint' \in [Codes -> MintStates]
  BY <1>1 DEF RoundInv, MintStates
<1>6. round' \in Nat /\ \A r \in Codes : r > round' => mint'[r] = "unasked"
  BY <1>1, <1>3, <1>4 DEF RoundInv
<1>7. OverStays
  BY <1>2, <1>3 DEF OverStays, RowsKeep
<1> QED
  BY <1>5, <1>6, <1>7 DEF RoundInv

LEMMA PlaceOver ==
  ASSUME RoundInv, NEW r \in Codes, NEW place \in MintStates,
         mint[r] \notin {"unasked", "over"}, mint' = [mint EXCEPT ![r] = place],
         round' = round,
         \A p \in Codes : p # r /\ p \in Live'
                         => p \in Live /\ pairing[p].wrong <= pairing'[p].wrong
  PROVE  RoundInv' /\ OverStays
<1>1. \A q \in Codes : mint'[q] = IF q = r THEN place ELSE mint[q]
  BY DEF RoundInv
<1>2. mint' \in [Codes -> MintStates]
  BY DEF RoundInv
<1>3. OverStays
  BY <1>1 DEF OverStays
<1> QED
  BY <1>1, <1>2, <1>3 DEF RoundInv

LEMMA RestOver ==
  ASSUME RoundInv, UNCHANGED <<mint, round>>, RowsKeep
  PROVE  RoundInv' /\ OverStays
BY DEF RoundInv, OverStays, RowsKeep

LEMMA OverStep ==
  ASSUME PairingsTypeOK, RoundInv, LinkNext
  PROVE  RoundInv' /\ OverStays
<1> USE DEF dialogVars, pairingVars
<1>1. ASSUME UNCHANGED <<pairing, mint, round>>
      PROVE  RoundInv' /\ OverStays
  BY <1>1, OthersKeep, RestOver
<1>2. ASSUME UNCHANGED pairing, Mints
      PROVE  RoundInv' /\ OverStays
  BY <1>2, OthersKeep, MintsOver
<1>3. CASE Open \/ ShowNew
  BY <1>3, <1>2 DEF Open, ShowNew
<1>4. CASE Close \/ PollReads \/ ApproveAnswered \/ ApproveFails \/ Refuse
  BY <1>4, <1>1 DEF Close, PollReads, ApproveAnswered, ApproveFails, Refuse
<1>5. ASSUME NEW r \in Codes,
             MintRefused(r) \/ MintCounts(r) \/ MintFails(r) \/ MintDropped(r) \/ MintAnswered(r)
      PROVE  RoundInv' /\ OverStays
  <2>1. PICK place \in MintStates : mint' = [mint EXCEPT ![r] = place]
    BY <1>5 DEF MintRefused, MintCounts, MintFails, MintDropped, MintAnswered, MintAfter, MintStates
  <2>2. mint[r] \notin {"unasked", "over"} /\ round' = round
    BY <1>5 DEF MintRefused, MintCounts, MintFails, MintDropped, MintAnswered, MintAfter
  <2>3. UNCHANGED pairing \/ DeleteExpired
    BY <1>5 DEF MintRefused, MintCounts, MintFails, MintDropped, MintAnswered
  <2>4. RowsKeep
    BY <2>3, OthersKeep
  <2> QED
    BY <2>1, <2>2, <2>4, PlaceOver DEF RowsKeep
<1>6. ASSUME NEW r \in Codes, MintInserts(r)
      PROVE  RoundInv' /\ OverStays
  <2>1. mint' = [mint EXCEPT ![r] = "minted"] /\ mint[r] = "counted" /\ round' = round
    BY <1>6 DEF MintInserts, MintAfter
  <2>2. "minted" \in MintStates
    BY DEF MintStates
  <2>3. \A p \in Codes : p # r => pairing'[p] = pairing[p] /\ pairing[p].wrong \in Nat
    BY <1>6 DEF MintInserts, InsertPairing, PairingsTypeOK
  <2>4. \A p \in Codes : p # r /\ p \in Live' => p \in Live /\ pairing[p].wrong <= pairing'[p].wrong
    BY <2>3 DEF Live, Rows
  <2> QED
    BY <2>1, <2>2, <2>4, PlaceOver
<1>7. CASE PollAnswered
  <2>1. UNCHANGED pairing /\ (Mints \/ UNCHANGED <<mint, round>>)
    BY <1>7 DEF PollAnswered, Expires
  <2> QED
    BY <2>1, <1>1, <1>2
<1>8. ASSUME NEW right \in BOOLEAN, Link(right)
      PROVE  RoundInv' /\ OverStays
  BY <1>8, <1>1 DEF Link
<1>9. CASE ApproveReached
  BY <1>9, ApproveKeeps, RestOver DEF ApproveReached
<1>10. ASSUME NEW m \in late, LateReached(m)
       PROVE  RoundInv' /\ OverStays
  BY <1>10, ApproveKeeps, RestOver DEF LateReached
<1>11. ASSUME NEW c \in rechecks, RecheckReads(c) \/ RecheckAnswered(c)
       PROVE  RoundInv' /\ OverStays
  BY <1>11, <1>1 DEF RecheckReads, RecheckAnswered
<1>12. ASSUME NEW p \in deletes, DeleteReached(p) \/ DeleteFails(p)
       PROVE  RoundInv' /\ OverStays
  <2>1. UNCHANGED <<mint, round>>
    BY <1>12 DEF DeleteReached, DeleteFails, DeleteOver
  <2>2. DeletePairing(p) \/ UNCHANGED pairing
    BY <1>12 DEF DeleteReached, DeleteFails
  <2> QED
    BY <2>1, <2>2, OthersKeep, RestOver
<1>13. CASE Scan \/ ClaimRefused \/ PhoneAsks \/ PhoneAnswered
  BY <1>13, <1>1 DEF Scan, ClaimRefused, PhoneAsks, PhoneAnswered, PhoneDoes
<1>14. ASSUME NEW mine \in BOOLEAN, PhoneClaims(mine)
       PROVE  RoundInv' /\ OverStays
  <2>1. ClaimPairing(phone.of) /\ UNCHANGED <<mint, round>>
    BY <1>14 DEF PhoneClaims, PhoneDoes
  <2> QED
    BY <2>1, OthersKeep, RestOver
<1>15. ASSUME NEW p \in Codes, Remove(p)
       PROVE  RoundInv' /\ OverStays
  BY <1>15, OthersKeep, RestOver DEF Remove
<1>16. CASE RowsTick
  BY <1>16, OthersKeep, RestOver DEF RowsTick
<1> QED
  BY <1>3, <1>4, <1>5, <1>6, <1>7, <1>8, <1>9, <1>10, <1>11, <1>12, <1>13, <1>14, <1>15, <1>16
     DEF LinkNext

\* The dialog shows no code.
LEMMA StageAway ==
  ASSUME NEW k \in Kinds, k # "shown", NEW h \in Codes \cup {0}, Displays(Shows(k), h)
  PROVE  StageInv'
<1>1. stage' = Shows(k) /\ held' = h /\ poll' = "none"
  BY DEF Displays
<1>2. /\ stage'.kind = k /\ stage'.of = 0 /\ stage'.state = "none" /\ stage'.wrong = 0
      /\ stage' \in [kind : Kinds, of : Codes \cup {0}, state : {"none", "waiting", "claimed"},
                     wrong : Nat]
  BY <1>1 DEF Shows
<1> QED
  BY <1>1, <1>2 DEF StageInv, StageShape, ShownIsHeld, TriesInv, PollStates

\* It shows what it showed, with no more wrong numbers than it has been answered.
LEMMA StageStays ==
  ASSUME StageInv, PairingsTypeOK, PairingsTypeOK', OverStays, NEW state, NEW wrong \in Nat,
         stage' = [stage EXCEPT !.state = state, !.wrong = wrong],
         stage.kind = "shown" => state \in {"waiting", "claimed"},
         stage.kind # "shown" => state = "none",
         held' \in Codes \cup {0}, poll' \in PollStates,
         stage.kind = "shown" => held' = stage.of \/ stage.of \in refusals',
         wrong + Unheard' <= stage.wrong + Unheard
  PROVE  StageInv'
<1>1. /\ stage' \in [kind : Kinds, of : Codes \cup {0}, state : {"none", "waiting", "claimed"},
                     wrong : Nat]
      /\ stage'.kind = stage.kind /\ stage'.of = stage.of /\ stage'.state = state
      /\ stage'.wrong = wrong /\ stage.wrong \in Nat
  BY DEF StageInv, StageShape
<1>2. ASSUME stage.kind = "shown"
      PROVE  stage.of \in Codes /\ mint[stage.of] = "over" /\ mint'[stage.of] = "over"
  BY <1>2 DEF StageInv, StageShape, OverStays
<1>3. StageShape'
  BY <1>1, <1>2 DEF StageShape
<1>4. ShownIsHeld'
  BY <1>1 DEF ShownIsHeld
<1>5. TriesInv'
  <2>1. SUFFICES ASSUME stage.kind = "shown", stage.of \in Live'
                 PROVE  wrong + Unheard' <= pairing'[stage.of].wrong
    BY <1>1 DEF TriesInv
  <2>2. stage.of \in Live /\ pairing[stage.of].wrong <= pairing'[stage.of].wrong
    BY <1>2, <2>1 DEF OverStays
  <2>3. stage.wrong + Unheard <= pairing[stage.of].wrong
    BY <2>1, <2>2 DEF StageInv, TriesInv
  <2>4. /\ pairing[stage.of].wrong \in Int /\ pairing'[stage.of].wrong \in Int
        /\ Unheard \in Int /\ Unheard' \in Int
    BY <1>2, <2>1, PairingsAssumption DEF PairingsTypeOK, Unheard, PairingsAssumption
  <2> HIDE DEF Unheard
  <2> QED
    BY <1>1, <2>2, <2>3, <2>4
<1> QED
  BY <1>3, <1>4, <1>5 DEF StageInv

LEMMA StageRests ==
  ASSUME StageInv, PairingsTypeOK, PairingsTypeOK', OverStays,
         UNCHANGED <<stage, held, approve, refusals>>, poll' \in PollStates
  PROVE  StageInv'
<1>1. /\ stage' = [stage EXCEPT !.state = stage.state, !.wrong = stage.wrong]
      /\ stage.wrong \in Nat /\ held \in Codes \cup {0}
      /\ stage.kind = "shown" <=> stage.state \in {"waiting", "claimed"}
      /\ stage.state \in {"none", "waiting", "claimed"}
      /\ stage.kind = "shown" => held = stage.of \/ stage.of \in refusals
  BY DEF StageInv, StageShape, ShownIsHeld
<1>2. Unheard' = Unheard /\ Unheard \in Int
  BY DEF Unheard
<1>3. stage.wrong + Unheard' <= stage.wrong + Unheard
  BY <1>1, <1>2
<1> QED
  BY <1>1, <1>3, StageStays

\* A Link pressed, answered or given up takes nothing from what was heard.
LEMMA StageHears ==
  ASSUME StageInv, PairingsTypeOK, PairingsTypeOK', OverStays,
         UNCHANGED <<stage, held, poll, refusals>>, approve'.answer # "wrong_number"
  PROVE  StageInv'
<1>1. /\ stage' = [stage EXCEPT !.state = stage.state, !.wrong = stage.wrong]
      /\ stage.wrong \in Nat /\ held \in Codes \cup {0} /\ poll \in PollStates
      /\ stage.kind = "shown" <=> stage.state \in {"waiting", "claimed"}
      /\ stage.state \in {"none", "waiting", "claimed"}
      /\ stage.kind = "shown" => held = stage.of \/ stage.of \in refusals
  BY DEF StageInv, StageShape, ShownIsHeld
<1>2. Unheard' = 0 /\ Unheard \in Nat
  BY DEF Unheard
<1>3. stage.wrong + Unheard' <= stage.wrong + Unheard
  BY <1>1, <1>2
<1> QED
  BY <1>1, <1>3, StageStays

LEMMA SeenStage ==
  ASSUME StageInv, PairingsTypeOK, PairingsTypeOK', OverStays, NEW p,
         NEW state \in {"waiting", "claimed", "approved"},
         Seen(p, state), UNCHANGED <<approve, refusals>>
  PROVE  StageInv'
<1>1. CASE state = "approved"
  <2>1. Displays(Shows("linked"), 0) /\ "linked" \in Kinds
    BY <1>1 DEF Seen, Kinds
  <2> QED
    BY <2>1, StageAway
<1>2. CASE state # "approved" /\ IsShown(p)
  <2>1. /\ stage' = [stage EXCEPT !.state = state, !.wrong = stage.wrong]
        /\ held' = held /\ poll' = "none" /\ stage.kind = "shown"
        /\ stage.wrong \in Nat /\ held \in Codes \cup {0} /\ "none" \in PollStates
        /\ held = stage.of \/ stage.of \in refusals
    BY <1>2 DEF Seen, Displays, IsShown, StageInv, StageShape, ShownIsHeld, PollStates
  <2>2. Unheard' = Unheard /\ Unheard \in Int
    BY <2>1 DEF Unheard, StageInv, StageShape
  <2>3. stage.wrong + Unheard' <= stage.wrong + Unheard
    BY <2>1, <2>2
  <2> QED
    BY <1>2, <2>1, <2>3, StageStays
<1>3. CASE state # "approved" /\ ~IsShown(p)
  <2>1. UNCHANGED <<stage, held>> /\ poll' \in PollStates
    BY <1>3 DEF Seen, Displays, PollStates
  <2> QED
    BY <2>1, StageRests
<1> QED
  BY <1>1, <1>2, <1>3

\* A round's code is shown, of which no Link was answered.
LEMMA MintedStage ==
  ASSUME DialogInv, OverStays, PairingsTypeOK', NEW r \in Codes, mint[r] = "minted",
         mint'[r] = "over", Displays(Shown(r), r), approve' = approve
  PROVE  StageInv'
<1>1. /\ stage'.kind = "shown" /\ stage'.of = r /\ stage'.state = "waiting" /\ stage'.wrong = 0
      /\ stage' \in [kind : Kinds, of : Codes \cup {0}, state : {"none", "waiting", "claimed"},
                     wrong : Nat]
      /\ held' = r /\ poll' = "none"
  BY DEF Displays, Shown, Kinds
<1>2. approve.of # r
  BY LinkAssumption, PairingsAssumption, FS_CardinalityType
  DEF DialogInv, AnswersShape, LinkAssumption, PairingsAssumption
<1>3. Unheard' = 0
  BY <1>1, <1>2 DEF Unheard
<1>4. pairing'[r].wrong \in Nat
  BY PairingsAssumption DEF PairingsTypeOK, PairingsAssumption
<1>5. TriesInv'
  BY <1>1, <1>3, <1>4 DEF TriesInv
<1> QED
  BY <1>1, <1>5 DEF StageInv, StageShape, ShownIsHeld, PollStates

\* A wrong number the server takes is counted in its row, before the dialog hears of it.
LEMMA ReachedStage ==
  ASSUME DialogInv, OverStays, PairingsTypeOK', ApproveReached
  PROVE  StageInv'
<1> DEFINE p == approve.of
           outcome == Approval(p, approve.right)
<1>1. /\ UNCHANGED <<stage, held, poll, refusals, mint>>
      /\ approve.answer = "none" /\ approve'.of = p /\ approve'.answer = outcome
      /\ ApprovePairing(p, approve.right)
  BY DEF ApproveReached, DialogInv, AnswersShape
<1>2. StageInv /\ PairingsTypeOK
  BY DEF DialogInv
<1>3. CASE outcome # "wrong_number"
  BY <1>1, <1>2, <1>3, StageHears
<1>4. CASE outcome = "wrong_number" /\ ~IsShown(p)
  <2>1. stage.kind # "shown" \/ p # stage.of
    BY <1>4 DEF IsShown
  <2>2. CASE stage.kind # "shown"
    BY <1>1, <1>2, <2>2 DEF StageInv, StageShape, ShownIsHeld, TriesInv
  <2>3. CASE p # stage.of
    <3>1. Unheard' = 0 /\ Unheard = 0
      BY <1>1, <2>3 DEF Unheard
    <3>2. /\ stage' = [stage EXCEPT !.state = stage.state, !.wrong = stage.wrong]
          /\ stage.wrong \in Nat /\ held \in Codes \cup {0} /\ poll \in PollStates
          /\ stage.kind = "shown" <=> stage.state \in {"waiting", "claimed"}
          /\ stage.state \in {"none", "waiting", "claimed"}
          /\ stage.kind = "shown" => held = stage.of \/ stage.of \in refusals
      BY <1>1, <1>2 DEF StageInv, StageShape, ShownIsHeld
    <3>3. stage.wrong + Unheard' <= stage.wrong + Unheard
      BY <3>1, <3>2
    <3> QED
      BY <1>1, <1>2, <3>2, <3>3, StageStays
  <2> QED
    BY <2>1, <2>2, <2>3
<1>5. CASE outcome = "wrong_number" /\ IsShown(p)
  <2>1. p \in Live /\ p \in Codes /\ stage.kind = "shown" /\ stage.of = p
    BY <1>5 DEF Approval, Live, Rows, IsShown
  <2>2. pairing' = [pairing EXCEPT ![p].wrong = pairing[p].wrong + 1]
    BY <1>1, <1>5 DEF ApprovePairing
  <2>3. pairing'[p].wrong = pairing[p].wrong + 1 /\ pairing[p].wrong \in Nat
    BY <1>2, <2>1, <2>2, PairingsAssumption DEF PairingsTypeOK, PairingsAssumption
  <2>4. Unheard = 0 /\ Unheard' = 1
    BY <1>1, <1>5, <2>1 DEF Unheard
  <2>5. stage.wrong \in Nat /\ stage.wrong <= pairing[p].wrong
    BY <1>2, <2>1, <2>4 DEF StageInv, StageShape, TriesInv
  <2>6. TriesInv'
    BY <1>1, <2>1, <2>3, <2>4, <2>5 DEF TriesInv
  <2> QED
    BY <1>1, <1>2, <2>6 DEF StageInv, StageShape, ShownIsHeld
<1> QED
  BY <1>3, <1>4, <1>5

\* What a Link was answered.
LEMMA AnsweredStage ==
  ASSUME DialogInv, OverStays, PairingsTypeOK', ApproveAnswered
  PROVE  StageInv'
<1> DEFINE p == approve.of
<1>1. /\ StageInv /\ PairingsTypeOK /\ UNCHANGED refusals
      /\ approve.answer \in {"approved", "wrong_number", "gone", "not_claimed"}
      /\ approve' = NoApprove
  BY DEF DialogInv, AnswersShape, Approvals, ApproveAnswered
<1>2. CASE approve.answer \in {"approved", "gone"}
  <2>1. PICK k \in {"linked", "gone"} : Displays(Shows(k), 0)
    BY <1>2 DEF ApproveAnswered, Gone
  <2>2. k \in Kinds /\ k # "shown"
    BY DEF Kinds
  <2> QED
    BY <2>1, <2>2, StageAway
<1>3. CASE approve.answer = "not_claimed"
  BY <1>1, <1>3, StageHears DEF ApproveAnswered, NoApprove
<1>4. CASE approve.answer = "wrong_number" /\ ~IsShown(p)
  BY <1>1, <1>4, StageHears DEF ApproveAnswered, CountWrong, NoApprove
<1>5. CASE approve.answer = "wrong_number" /\ IsShown(p)
  <2>1. /\ stage' = [stage EXCEPT !.wrong = stage.wrong + 1]
        /\ UNCHANGED <<held, poll>>
    BY <1>5 DEF ApproveAnswered, CountWrong
  <2>2. stage' = [stage EXCEPT !.state = stage.state, !.wrong = stage.wrong + 1]
    BY <1>1, <2>1 DEF StageInv, StageShape
  <2>3. /\ stage.wrong + 1 \in Nat /\ held \in Codes \cup {0} /\ poll \in PollStates
        /\ stage.kind = "shown" /\ stage.state \in {"waiting", "claimed"} /\ stage.of = p
        /\ held = stage.of \/ stage.of \in refusals
    BY <1>1, <1>5 DEF StageInv, StageShape, ShownIsHeld, IsShown
  <2>4. Unheard = 1 /\ Unheard' = 0
    BY <1>1, <1>5, <2>3 DEF Unheard, NoApprove
  <2>5. stage.wrong + 1 + Unheard' <= stage.wrong + Unheard
    BY <1>1, <2>4 DEF StageInv, StageShape
  <2> QED
    BY <1>1, <2>1, <2>2, <2>3, <2>5, StageStays
<1> QED
  BY <1>1, <1>2, <1>3, <1>4, <1>5

LEMMA StageStep ==
  ASSUME DialogInv, OverStays, PairingsTypeOK', LinkNext
  PROVE  StageInv'
<1> USE DEF dialogVars
<1>0. /\ StageInv /\ PairingsTypeOK /\ AnswersShape
      /\ held \in Codes \cup {0} /\ poll \in PollStates
      /\ {"closed", "minting", "linked", "expired", "gone", "refused", "fresh"} \subseteq Kinds
  BY DEF DialogInv, StageInv, StageShape, Kinds
<1>1. ASSUME UNCHANGED <<stage, held, approve, refusals, poll>>
      PROVE  StageInv'
  BY <1>0, <1>1, StageRests
<1>2. ASSUME NEW k \in Kinds, k # "shown", NEW h \in Codes \cup {0}, Displays(Shows(k), h)
      PROVE  StageInv'
  BY <1>2, StageAway
<1>3. CASE Open \/ ShowNew
  <2>1. Displays(Shows("minting"), 0)
    BY <1>3 DEF Open, ShowNew
  <2> QED
    BY <2>1, <1>0, <1>2
<1>4. ASSUME Closes
      PROVE  StageInv'
  <2>1. Displays(Shows("closed"), 0)
    BY <1>4 DEF Closes
  <2> QED
    BY <2>1, <1>0, <1>2
<1>5. CASE Close
  BY <1>5, <1>4 DEF Close
<1>6. ASSUME NEW r \in Codes,
             \/ MintRefused(r) \/ MintCounts(r) \/ MintInserts(r) \/ MintFails(r) \/ MintDropped(r)
      PROVE  StageInv'
  BY <1>6, <1>1 DEF MintRefused, MintCounts, MintInserts, MintFails, MintDropped, MintAfter
<1>7. ASSUME NEW r \in Codes, MintAnswered(r)
      PROVE  StageInv'
  <2>1. CASE mint[r] = "minted"
    <3>1. mint'[r] = "over" /\ Displays(Shown(r), r) /\ approve' = approve
      BY <1>7, <2>1 DEF MintAnswered, DialogInv, RoundInv
    <3> QED
      BY <2>1, <3>1, MintedStage
  <2>2. CASE mint[r] = "fresh"
    <3>1. Displays(Shows("fresh"), held)
      BY <1>7, <2>2 DEF MintAnswered
    <3> QED
      BY <3>1, <1>0, <1>2
  <2>3. CASE mint[r] = "refused"
    <3>1. Displays(Shows("refused"), held)
      BY <1>7, <2>3 DEF MintAnswered
    <3> QED
      BY <3>1, <1>0, <1>2
  <2> QED
    BY <1>7, <2>1, <2>2, <2>3 DEF MintAnswered
<1>8. CASE PollReads
  <2>1. UNCHANGED <<stage, held, approve, refusals>> /\ poll' = StateOf(stage.of)
    BY <1>8 DEF PollReads
  <2>2. StateOf(stage.of) \in PollStates
    BY DEF StateOf, Live, Rows, PollStates
  <2> QED
    BY <1>0, <2>1, <2>2, StageRests
<1>9. CASE PollAnswered
  <2>1. UNCHANGED <<approve, refusals>>
    BY <1>9 DEF PollAnswered
  <2>2. CASE poll = "gone"
    <3>1. Displays(Shows("minting"), 0) \/ Displays(Shows("expired"), 0)
      BY <1>9, <2>2 DEF PollAnswered, Expires
    <3> QED
      BY <3>1, <1>0, <1>2
  <2>3. CASE poll # "gone"
    <3>1. Seen(stage.of, poll) /\ poll \in {"waiting", "claimed", "approved"}
      BY <1>0, <1>9, <2>3 DEF PollAnswered, PollStates
    <3> QED
      BY <1>0, <2>1, <3>1, SeenStage
  <2> QED
    BY <2>2, <2>3
<1>10. ASSUME NEW right \in BOOLEAN, Link(right)
       PROVE  StageInv'
  <2>1. UNCHANGED <<stage, held, poll, refusals>> /\ approve'.answer # "wrong_number"
    BY <1>10 DEF Link
  <2> QED
    BY <1>0, <2>1, StageHears
<1>11. CASE ApproveReached
  BY <1>11, ReachedStage
<1>12. CASE ApproveAnswered
  BY <1>12, AnsweredStage
<1>13. CASE ApproveFails
  <2>1. UNCHANGED <<stage, held, poll, refusals>> /\ approve'.answer # "wrong_number"
    BY <1>13 DEF ApproveFails, NoApprove
  <2> QED
    BY <1>0, <2>1, StageHears
<1>14. ASSUME NEW m \in late, LateReached(m)
       PROVE  StageInv'
  BY <1>14, <1>1 DEF LateReached
<1>15. ASSUME NEW c \in rechecks, RecheckReads(c)
       PROVE  StageInv'
  BY <1>15, <1>1 DEF RecheckReads
<1>16. ASSUME NEW c \in rechecks, RecheckAnswered(c)
       PROVE  StageInv'
  <2>1. UNCHANGED <<approve, refusals>> /\ c.answer \in PollStates /\ c.answer # "none"
    BY <1>0, <1>16 DEF RecheckAnswered, AnswersShape
  <2>2. CASE c.answer = "gone"
    <3>1. Displays(Shows("gone"), 0)
      BY <1>16, <2>2 DEF RecheckAnswered, Gone
    <3> QED
      BY <3>1, <1>0, <1>2
  <2>3. CASE c.answer # "gone"
    <3>1. Seen(c.of, c.answer) /\ c.answer \in {"waiting", "claimed", "approved"}
      BY <1>16, <2>1, <2>3 DEF RecheckAnswered, PollStates
    <3> QED
      BY <1>0, <2>1, <3>1, SeenStage
  <2> QED
    BY <2>2, <2>3
<1>17. CASE Refuse
  <2>1. /\ stage' = [stage EXCEPT !.state = stage.state, !.wrong = stage.wrong]
        /\ held' = 0 /\ poll' = poll /\ approve' = approve /\ stage.of \in refusals'
        /\ stage.wrong \in Nat /\ stage.kind = "shown" /\ stage.state = "claimed"
    BY <1>0, <1>17 DEF Refuse, StageInv, StageShape
  <2>2. Unheard' = Unheard /\ Unheard \in Int
    BY <1>17 DEF Refuse, Unheard
  <2>3. stage.wrong + Unheard' <= stage.wrong + Unheard
    BY <2>1, <2>2
  <2> QED
    BY <1>0, <2>1, <2>3, StageStays
<1>18. ASSUME NEW p \in deletes, DeleteReached(p) \/ DeleteFails(p)
       PROVE  StageInv'
  <2>1. DeleteOver(p)
    BY <1>18 DEF DeleteReached, DeleteFails
  <2>2. CASE p \in refusals /\ IsOpen
    BY <2>1, <2>2, <1>4 DEF DeleteOver
  <2>3. CASE p \notin refusals
    BY <2>1, <2>3, <1>1 DEF DeleteOver
  <2>4. CASE ~IsOpen
    <3>1. UNCHANGED <<stage, held, poll>> /\ stage.kind # "shown"
      BY <2>1, <2>4 DEF DeleteOver, IsOpen
    <3> QED
      BY <1>0, <3>1 DEF StageInv, StageShape, ShownIsHeld, TriesInv
  <2> QED
    BY <2>2, <2>3, <2>4
<1>19. CASE Scan \/ ClaimRefused \/ PhoneAsks \/ PhoneAnswered
  BY <1>19, <1>1 DEF Scan, ClaimRefused, PhoneAsks, PhoneAnswered, PhoneDoes
<1>20. ASSUME NEW mine \in BOOLEAN, PhoneClaims(mine)
       PROVE  StageInv'
  BY <1>20, <1>1 DEF PhoneClaims, PhoneDoes
<1>21. ASSUME NEW p \in Codes, Remove(p)
       PROVE  StageInv'
  BY <1>21, <1>1 DEF Remove
<1>22. CASE RowsTick
  BY <1>22, <1>1 DEF RowsTick
<1> QED
  BY <1>3, <1>5, <1>6, <1>7, <1>8, <1>9, <1>10, <1>11, <1>12, <1>13, <1>14, <1>15, <1>16, <1>17,
     <1>18, <1>19, <1>20, <1>21, <1>22 DEF LinkNext

\* What is on its way stays well formed while no Link is pressed.
LEMMA AnswersRest ==
  ASSUME AnswersShape, OverStays,
         \/ approve' = approve /\ busy' = busy
         \/ approve' = NoApprove,
         late' \subseteq [of : Codes, right : BOOLEAN],
         rechecks' \subseteq [of : Codes, answer : PollStates],
         refusals' \subseteq deletes'
  PROVE  AnswersShape'
<1>1. CASE approve' = NoApprove
  BY <1>1 DEF AnswersShape, NoApprove, Approvals
<1>2. CASE approve' = approve /\ busy' = busy
  BY <1>2 DEF AnswersShape, OverStays
<1> QED
  BY <1>1, <1>2

LEMMA AnswersStep ==
  ASSUME DialogInv, OverStays, LinkNext
  PROVE  AnswersShape'
<1> USE DEF dialogVars
<1>0. /\ AnswersShape
      /\ late \subseteq [of : Codes, right : BOOLEAN]
      /\ rechecks \subseteq [of : Codes, answer : PollStates]
      /\ refusals \subseteq deletes
  BY DEF DialogInv, AnswersShape
<1>1. ASSUME UNCHANGED <<approve, busy, late, rechecks, refusals>>, deletes \subseteq deletes'
      PROVE  AnswersShape'
  BY <1>0, <1>1, AnswersRest
<1>2. ASSUME approve.of # 0
      PROVE  [of |-> approve.of, right |-> approve.right] \in [of : Codes, right : BOOLEAN]
  BY <1>0, <1>2 DEF AnswersShape
<1>3. ASSUME Closes, refusals' \subseteq deletes'
      PROVE  AnswersShape'
  <2>1. /\ approve' = NoApprove /\ rechecks' = {}
        /\ late' \subseteq [of : Codes, right : BOOLEAN]
    BY <1>0, <1>2, <1>3 DEF Closes
  <2> QED
    BY <1>0, <1>3, <2>1, AnswersRest
<1>4. CASE Open \/ ShowNew \/ PollReads \/ PollAnswered
  BY <1>4, <1>1 DEF Open, ShowNew, PollReads, PollAnswered
<1>5. CASE Close
  <2>1. Closes /\ refusals' = refusals /\ deletes \subseteq deletes'
    BY <1>5 DEF Close
  <2> QED
    BY <1>0, <1>3, <2>1
<1>6. ASSUME NEW r \in Codes, \/ MintRefused(r) \/ MintCounts(r) \/ MintInserts(r)
                              \/ MintFails(r) \/ MintDropped(r) \/ MintAnswered(r)
      PROVE  AnswersShape'
  <2>1. UNCHANGED <<approve, busy, late, rechecks, refusals>>
    BY <1>6 DEF MintRefused, MintCounts, MintInserts, MintFails, MintDropped, MintAnswered,
                MintAfter
  <2>2. deletes \subseteq deletes'
    BY <1>6 DEF MintRefused, MintCounts, MintInserts, MintFails, MintDropped, MintAnswered,
                MintAfter
  <2> QED
    BY <2>1, <2>2, <1>1
<1>7. ASSUME NEW right \in BOOLEAN, Link(right)
      PROVE  AnswersShape'
  <2>1. /\ stage.of \in Codes /\ mint[stage.of] = "over"
    BY <1>7 DEF Link, DialogInv, StageInv, StageShape
  <2>2. /\ approve' = [of |-> stage.of, right |-> right, answer |-> "none"]
        /\ busy' = TRUE /\ UNCHANGED <<late, rechecks, refusals, deletes, mint>>
    BY <1>7 DEF Link
  <2>3. approve' \in [of : Codes \cup {0}, right : BOOLEAN, answer : Approvals]
    BY <2>1, <2>2 DEF Approvals
  <2> QED
    BY <1>0, <2>1, <2>2, <2>3 DEF AnswersShape
<1>8. CASE ApproveReached
  <2>1. Approval(approve.of, approve.right) \in Approvals
    BY DEF Approval, Approvals
  <2>2. /\ approve' = [approve EXCEPT !.right = FALSE,
                                      !.answer = Approval(approve.of, approve.right)]
        /\ approve.of # 0 /\ UNCHANGED <<busy, late, rechecks, refusals, deletes, mint>>
    BY <1>8 DEF ApproveReached
  <2>3. /\ approve' \in [of : Codes \cup {0}, right : BOOLEAN, answer : Approvals]
        /\ approve'.of = approve.of
    BY <1>0, <2>1, <2>2 DEF AnswersShape
  <2> QED
    BY <1>0, <2>2, <2>3 DEF AnswersShape
<1>9. CASE ApproveAnswered
  <2>1. approve.of \in Codes
    BY <1>0, <1>9 DEF ApproveAnswered, AnswersShape
  <2>2. /\ approve' = NoApprove /\ UNCHANGED <<late, refusals, deletes>>
        /\ rechecks' \subseteq rechecks \cup {[of |-> approve.of, answer |-> "none"]}
    BY <1>9 DEF ApproveAnswered
  <2>3. rechecks' \subseteq [of : Codes, answer : PollStates]
    BY <1>0, <2>1, <2>2 DEF PollStates
  <2> QED
    BY <1>0, <2>2, <2>3, AnswersRest
<1>10. CASE ApproveFails
  <2>1. /\ approve' = NoApprove /\ UNCHANGED <<rechecks, refusals, deletes>>
        /\ late' \subseteq [of : Codes, right : BOOLEAN]
    BY <1>0, <1>2, <1>10 DEF ApproveFails
  <2> QED
    BY <1>0, <2>1, AnswersRest
<1>11. ASSUME NEW m \in late, LateReached(m)
       PROVE  AnswersShape'
  <2>1. UNCHANGED <<approve, busy, rechecks, refusals, deletes>> /\ late' \subseteq late
    BY <1>11 DEF LateReached
  <2> QED
    BY <1>0, <2>1, AnswersRest
<1>12. ASSUME NEW c \in rechecks, RecheckReads(c)
       PROVE  AnswersShape'
  <2>1. StateOf(c.of) \in PollStates
    BY DEF StateOf, Live, Rows, PollStates
  <2>2. c \in [of : Codes, answer : PollStates]
    BY <1>0
  <2>3. [c EXCEPT !.answer = StateOf(c.of)] \in [of : Codes, answer : PollStates]
    BY <2>1, <2>2
  <2>4. /\ UNCHANGED <<approve, busy, late, refusals, deletes>>
        /\ rechecks' = (rechecks \ {c}) \cup {[c EXCEPT !.answer = StateOf(c.of)]}
    BY <1>12 DEF RecheckReads
  <2>5. rechecks' \subseteq [of : Codes, answer : PollStates]
    BY <1>0, <2>3, <2>4
  <2> QED
    BY <1>0, <2>4, <2>5, AnswersRest
<1>13. ASSUME NEW c \in rechecks, RecheckAnswered(c)
       PROVE  AnswersShape'
  <2>1. UNCHANGED <<approve, busy, late, refusals, deletes>> /\ rechecks' \subseteq rechecks
    BY <1>13 DEF RecheckAnswered
  <2> QED
    BY <1>0, <2>1, AnswersRest
<1>14. CASE Refuse
  <2>1. /\ stage.kind = "shown" /\ ~busy
    BY <1>14 DEF Refuse
  <2>2. /\ approve' = approve /\ busy' = TRUE /\ UNCHANGED <<late, rechecks, mint>>
        /\ refusals' = refusals \cup {stage.of} /\ deletes' = deletes \cup {stage.of}
    BY <1>14 DEF Refuse
  <2> QED
    BY <1>0, <2>2 DEF AnswersShape
<1>15. ASSUME NEW p \in deletes, DeleteReached(p) \/ DeleteFails(p)
       PROVE  AnswersShape'
  <2>1. DeleteOver(p)
    BY <1>15 DEF DeleteReached, DeleteFails
  <2>2. refusals' \subseteq deletes'
    BY <1>0, <2>1 DEF DeleteOver
  <2>3. CASE p \in refusals /\ IsOpen
    BY <2>1, <2>2, <2>3, <1>3 DEF DeleteOver
  <2>4. CASE ~(p \in refusals /\ IsOpen)
    <3>1. UNCHANGED <<approve, busy, late, rechecks>>
      BY <2>1, <2>4 DEF DeleteOver
    <3> QED
      BY <1>0, <2>2, <3>1, AnswersRest
  <2> QED
    BY <2>3, <2>4
<1>16. CASE Scan \/ ClaimRefused \/ PhoneAsks \/ PhoneAnswered
  BY <1>16, <1>1 DEF Scan, ClaimRefused, PhoneAsks, PhoneAnswered, PhoneDoes
<1>17. ASSUME NEW mine \in BOOLEAN, PhoneClaims(mine)
       PROVE  AnswersShape'
  BY <1>17, <1>1 DEF PhoneClaims, PhoneDoes
<1>18. ASSUME NEW p \in Codes, Remove(p)
       PROVE  AnswersShape'
  BY <1>18, <1>1 DEF Remove
<1>19. CASE RowsTick
  BY <1>19, <1>1 DEF RowsTick
<1> QED
  BY <1>4, <1>5, <1>6, <1>7, <1>8, <1>9, <1>10, <1>11, <1>12, <1>13, <1>14, <1>15, <1>16, <1>17,
     <1>18, <1>19 DEF LinkNext

LEMMA DialogInit == LinkInit => DialogInv
<1> SUFFICES ASSUME LinkInit PROVE DialogInv
  OBVIOUS
<1>1. PairingsTypeOK
  BY TableInit DEF TableInv
<1>2. RoundInv
  BY DEF LinkInit, RoundInv, MintStates
<1>3. StageInv
  BY DEF LinkInit, StageInv, StageShape, ShownIsHeld, TriesInv, Shows, Kinds, PollStates
<1>4. AnswersShape
  BY DEF LinkInit, AnswersShape, NoApprove, Approvals
<1> QED
  BY <1>1, <1>2, <1>3, <1>4 DEF DialogInv

LEMMA DialogStep == TableInv /\ DialogInv /\ [LinkNext]_linkVars => DialogInv'
<1> SUFFICES ASSUME TableInv, DialogInv, [LinkNext]_linkVars PROVE DialogInv'
  OBVIOUS
<1>1. PairingsTypeOK /\ RoundInv /\ PairingsTypeOK'
  BY TableStep DEF DialogInv, TableInv
<1>2. CASE LinkNext
  <2>1. RoundInv' /\ OverStays
    BY <1>1, <1>2, OverStep
  <2> QED
    BY <1>1, <1>2, <2>1, StageStep, AnswersStep DEF DialogInv
<1>3. CASE UNCHANGED linkVars
  <2>1. UNCHANGED <<pairing, mint, round, stage, held, poll, approve, busy, late, rechecks,
                    refusals, deletes>>
    BY <1>3 DEF linkVars, pairingVars, dialogVars
  <2> QED
    BY <1>1, <2>1 DEF DialogInv, RoundInv, StageInv, StageShape, ShownIsHeld, TriesInv, Unheard,
                      AnswersShape, Live, Rows
<1> QED
  BY <1>2, <1>3

LEMMA InvOfLink == DialogInv => LinkInv
<1> SUFFICES ASSUME DialogInv PROVE LinkInv
  OBVIOUS
<1>1. LinkTypeOK
  BY DEF DialogInv, StageInv, StageShape, AnswersShape, Kinds, LinkTypeOK
<1>2. TriesAreLeft
  <2>1. SUFFICES ASSUME NEW p \in Live, stage.kind = "shown", stage.of = p
                 PROVE  stage.wrong <= pairing[p].wrong
    BY DEF TriesAreLeft, IsShown
  <2>2. stage.wrong + Unheard <= pairing[p].wrong
    BY <2>1 DEF DialogInv, StageInv, TriesInv
  <2>3. Unheard \in Nat /\ stage.wrong \in Nat /\ pairing[p].wrong \in Int
    BY PairingsAssumption
    DEF Unheard, DialogInv, StageInv, StageShape, PairingsTypeOK, PairingsAssumption, Live, Rows
  <2> HIDE DEF Unheard
  <2> QED
    BY <2>2, <2>3
<1> QED
  BY <1>1, <1>2 DEF DialogInv, StageInv, LinkInv

\* A dialog that shows a code holds it, so that closing it deletes the code, unless a No is deleting
\* it; and it never says fewer tries are left than the server still takes: whatever polls, links,
\* mints and deletes of this code and of earlier ones are on their way (LinkDialog.tsx).
THEOREM LinkInvAlways == LinkSpec => []LinkInv
<1>1. LinkInit => TableInv /\ DialogInv
  BY TableInit, DialogInit
<1>2. TableInv /\ DialogInv /\ [LinkNext]_linkVars => (TableInv /\ DialogInv)'
  BY TableStep, DialogStep
<1> QED
  BY <1>1, <1>2, InvOfLink, PTL DEF LinkSpec

-----------------------------------------------------------------------------
(* Signing in                                                              *)

-----------------------------------------------------------------------------
(* The invariant                                                           *)

\* The columns, the cookies and the fields each row has.
Shapes ==
  /\ DOMAIN login = Logins
  /\ \A l \in Logins : DOMAIN login[l] = {"state", "provider", "browser", "who", "left"}
  /\ DOMAIN session = Callbacks
  /\ \A c \in Callbacks : DOMAIN session[c] = {"state", "user", "left", "young"}
  /\ DOMAIN jar = Browsers
  /\ \A b \in Browsers : DOMAIN jar[b] = {"login", "session"}
  /\ DOMAIN callback = Callbacks
  /\ \A c \in Callbacks :
       DOMAIN callback[c] = {"pc", "at", "browser", "login", "age", "user", "claims", "saw"}
  /\ DOMAIN request = Requests
  /\ \A r \in Requests :
       DOMAIN request[r] = {"pc", "at", "by", "user", "claims", "age", "young", "saw"}

\* A callback that has taken its sign-in, before its session is made and once it is.
Working == {"took", "vouched", "known", "refusing", "deleting"}

HasSession(c) == session[c].state # "none"

Holds(c) == callback[c].pc \in Working \/ HasSession(c)

\* Whoever took a sign-in took it from the table, in the browser and for the person it has.
TakenRightly ==
  \A c \in Callbacks :
    /\ callback[c].pc \in Working \cup {"idle", "made", "over"}
    /\ Holds(c) => callback[c].login \in Logins /\ login[callback[c].login].state = "gone"
    /\ HasSession(c) => callback[c].pc \in {"made", "over"}
    /\ callback[c].pc = "made" => HasSession(c)
    /\ callback[c].pc \in Working \cup {"made"} =>
         /\ callback[c].browser = login[callback[c].login].browser
         /\ callback[c].user = login[callback[c].login].who
    /\ session[c].state = "live" => session[c].user = login[callback[c].login].who

TakenOnce ==
  \A c, d \in Callbacks : Holds(c) /\ Holds(d) /\ callback[c].login = callback[d].login => c = d

\* A browser's cookies are of sign-ins it began.
OwnCookies ==
  \A b \in Browsers :
    /\ jar[b].login # None => /\ jar[b].login \in Logins
                              /\ login[jar[b].login].state # "none"
                              /\ login[jar[b].login].browser = b
    /\ jar[b].session # None => /\ jar[b].session \in Callbacks
                                /\ HasSession(jar[b].session)
                                /\ login[callback[jar[b].session].login].browser = b

\* A refusal deletes what it saw, and it saw sessions that were made.
SawSessions(saw) == \A c \in Callbacks : <<"session", c>> \in saw => HasSession(c)

Sightings ==
  /\ \A c \in Callbacks : SawSessions(callback[c].saw)
  /\ \A r \in Requests : SawSessions(request[r].saw)

SignInInv == Shapes /\ TakenRightly /\ TakenOnce /\ OwnCookies /\ Sightings

LEMMA InitSignIn == Init => SignInInv
  BY CredentialsAssumption
  DEF Init, TablesInit, NoLogin, NoSession, NotAnswering, NotAsking, SignInInv, Shapes,
      TakenRightly, TakenOnce, OwnCookies, Sightings, SawSessions, Holds, HasSession, Working

-----------------------------------------------------------------------------
(* The steps that begin no sign-in, take none and make no session          *)

\* The sign-ins stay whose they are, or end.
LoginsStay ==
  \A l \in Logins :
    /\ login'[l].browser = login[l].browser
    /\ login'[l].who = login[l].who
    /\ \/ login'[l].state = login[l].state
       \/ login[l].state = "pending" /\ login'[l].state = "gone"

\* The sessions stay whose they are, or end.
SessionsStay ==
  \A c \in Callbacks :
    /\ (session'[c].state = "none") <=> (session[c].state = "none")
    /\ session'[c].state = "live" => /\ session[c].state = "live"
                                     /\ session'[c].user = session[c].user

\* A callback goes on with what it took, or is over.
CallbacksStay ==
  \A c \in Callbacks :
    /\ callback'[c].login = callback[c].login
    /\ \/ callback'[c].pc = "over"
       \/ /\ callback'[c].browser = callback[c].browser
          /\ callback'[c].user = callback[c].user
          /\ \/ callback'[c].pc = callback[c].pc
             \/ callback[c].pc \in Working /\ callback'[c].pc \in Working

\* A browser's cookies stay, or are cleared.
CookiesStay ==
  \A b \in Browsers :
    /\ jar'[b].login \in {None, jar[b].login}
    /\ jar'[b].session \in {None, jar[b].session}

LEMMA StaysRight ==
  ASSUME SignInInv, Shapes', Sightings', LoginsStay, SessionsStay, CallbacksStay, CookiesStay
  PROVE  SignInInv'
<1> USE DEF SignInInv
<1>1. \A c \in Callbacks : Holds(c)' => Holds(c)
  BY DEF Holds, HasSession, SessionsStay, CallbacksStay, Working
<1>2. TakenRightly'
  <2> SUFFICES ASSUME NEW c \in Callbacks
               PROVE  /\ callback'[c].pc \in Working \cup {"idle", "made", "over"}
                      /\ Holds(c)' => /\ callback'[c].login \in Logins
                                      /\ login'[callback'[c].login].state = "gone"
                      /\ HasSession(c)' => callback'[c].pc \in {"made", "over"}
                      /\ callback'[c].pc = "made" => HasSession(c)'
                      /\ callback'[c].pc \in Working \cup {"made"} =>
                           /\ callback'[c].browser = login'[callback'[c].login].browser
                           /\ callback'[c].user = login'[callback'[c].login].who
                      /\ session'[c].state = "live" =>
                           session'[c].user = login'[callback'[c].login].who
    BY DEF TakenRightly, HasSession
  <2>1. /\ callback'[c].pc \in Working \cup {"idle", "made", "over"}
        /\ HasSession(c)' => callback'[c].pc \in {"made", "over"}
        /\ callback'[c].pc = "made" => HasSession(c)'
    BY DEF TakenRightly, SessionsStay, CallbacksStay, Working, HasSession
  <2>2. Holds(c)' => /\ callback'[c].login \in Logins
                     /\ login'[callback'[c].login].state = "gone"
    BY <1>1 DEF TakenRightly, CallbacksStay, LoginsStay
  <2>3. callback'[c].pc \in Working \cup {"made"} =>
          /\ callback'[c].browser = login'[callback'[c].login].browser
          /\ callback'[c].user = login'[callback'[c].login].who
    BY DEF TakenRightly, CallbacksStay, LoginsStay, Holds, Working
  <2>4. session'[c].state = "live" => session'[c].user = login'[callback'[c].login].who
    BY DEF TakenRightly, SessionsStay, CallbacksStay, LoginsStay, Holds, HasSession
  <2> QED
    BY <2>1, <2>2, <2>3, <2>4
<1>3. TakenOnce'
  BY <1>1 DEF TakenOnce, CallbacksStay
<1>4. OwnCookies'
  <2> SUFFICES ASSUME NEW b \in Browsers
               PROVE  /\ jar'[b].login # None => /\ jar'[b].login \in Logins
                                                 /\ login'[jar'[b].login].state # "none"
                                                 /\ login'[jar'[b].login].browser = b
                      /\ jar'[b].session # None =>
                           /\ jar'[b].session \in Callbacks
                           /\ session'[jar'[b].session].state # "none"
                           /\ login'[callback'[jar'[b].session].login].browser = b
    BY DEF OwnCookies, HasSession
  <2>1. jar'[b].login # None => /\ jar'[b].login \in Logins
                                /\ login'[jar'[b].login].state # "none"
                                /\ login'[jar'[b].login].browser = b
    BY DEF OwnCookies, CookiesStay, LoginsStay
  <2>2. jar'[b].session # None =>
          /\ jar'[b].session \in Callbacks
          /\ session'[jar'[b].session].state # "none"
          /\ login'[callback'[jar'[b].session].login].browser = b
    BY DEF OwnCookies, CookiesStay, LoginsStay, CallbacksStay, SessionsStay, TakenRightly, Holds,
           HasSession
  <2> QED
    BY <2>1, <2>2
<1> QED
  BY <1>2, <1>3, <1>4

\* A step of the tables' other rows, of the requests and of the deployment.
LEMMA RequestStep ==
  ASSUME SignInInv, UNCHANGED <<login, session, jar, callback>>, NEW r \in Requests,
         \/ UNCHANGED request
         \/ \E pc : request' = [request EXCEPT ![r].pc = pc]
         \/ request' = [request EXCEPT ![r] = NotAsking]
  PROVE  SignInInv'
<1>1. Shapes'
  BY DEF SignInInv, Shapes, NotAsking
<1>2. Sightings'
  BY DEF SignInInv, Shapes, Sightings, SawSessions, HasSession, NotAsking
<1>3. LoginsStay /\ SessionsStay /\ CallbacksStay /\ CookiesStay
  BY DEF LoginsStay, SessionsStay, CallbacksStay, CookiesStay, HasSession
<1> QED
  BY <1>1, <1>2, <1>3, StaysRight

\* What a refusal's statement sees of the sessions.
LEMMA RowsSeen == \A user : SawSessions(RowsOf(user))
  BY DEF SawSessions, RowsOf, Exists, HasSession

\* What its deletes do to the sessions, when it saw those that were made.
LEMMA DeletesStay ==
  ASSUME SignInInv, NEW rows, SawSessions(rows), DeleteCredentials(rows)
  PROVE  /\ SessionsStay
         /\ DOMAIN session' = Callbacks
         /\ \A c \in Callbacks : DOMAIN session'[c] = {"state", "user", "left", "young"}
<1>1. \A c \in Callbacks : session'[c] = IF <<"session", c>> \in rows THEN NoSession("gone")
                                         ELSE session[c]
  BY DEF DeleteCredentials
<1>2. DOMAIN session' = Callbacks
  BY DEF DeleteCredentials
<1>3. SessionsStay
  <2> SUFFICES ASSUME NEW c \in Callbacks
               PROVE  /\ (session'[c].state = "none") <=> (session[c].state = "none")
                      /\ session'[c].state = "live" => /\ session[c].state = "live"
                                                       /\ session'[c].user = session[c].user
    BY DEF SessionsStay
  <2>1. CASE <<"session", c>> \in rows
    <3>1. session[c].state # "none"
      BY <2>1 DEF SawSessions, HasSession
    <3>2. session'[c].state = "gone"
      BY <1>1, <2>1 DEF NoSession
    <3> QED
      BY <3>1, <3>2
  <2>2. CASE <<"session", c>> \notin rows
    BY <1>1, <2>2
  <2> QED
    BY <2>1, <2>2
<1> QED
  BY <1>1, <1>2, <1>3 DEF SignInInv, Shapes, NoSession

\* Refusals seen are of sessions that were made, as long as no session is unmade.
LEMMA SightingsStay ==
  ASSUME Sightings, SessionsStay,
         \A c \in Callbacks : callback'[c].saw \in {{}, callback[c].saw},
         \A r \in Requests : request'[r].saw \in {{}, request[r].saw}
  PROVE  Sightings'
  BY DEF Sightings, SawSessions, SessionsStay, HasSession

LEMMA RefusalSeesInv ==
  ASSUME SignInInv, NEW c \in Callbacks, RefusalSees(c)
  PROVE  SignInInv'
<1>1. /\ UNCHANGED <<login, session, jar, request>>
      /\ callback[c].pc = "refusing"
      /\ DOMAIN callback' = Callbacks
      /\ DOMAIN callback'[c] = DOMAIN callback[c]
      /\ callback'[c].pc = "deleting" /\ callback'[c].saw = RowsOf(callback[c].user)
      /\ callback'[c].login = callback[c].login /\ callback'[c].browser = callback[c].browser
      /\ callback'[c].user = callback[c].user
      /\ \A d \in Callbacks : d # c => callback'[d] = callback[d]
  BY DEF RefusalSees, SignInInv, Shapes, tableVars
<1>2. Shapes'
  BY <1>1 DEF SignInInv, Shapes
<1>3. Sightings'
  BY <1>1, RowsSeen DEF SignInInv, Sightings, SawSessions, HasSession
<1>4. LoginsStay /\ SessionsStay /\ CookiesStay
  BY <1>1 DEF LoginsStay, SessionsStay, CookiesStay, HasSession
<1>5. CallbacksStay
  BY <1>1 DEF CallbacksStay, Working
<1> QED
  BY <1>2, <1>3, <1>4, <1>5, StaysRight

LEMMA RefusalDeletesInv ==
  ASSUME SignInInv, NEW c \in Callbacks, RefusalDeletes(c)
  PROVE  SignInInv'
<1>1. /\ UNCHANGED <<login, jar, request>>
      /\ DeleteCredentials(callback[c].saw)
      /\ callback' = [callback EXCEPT ![c] = Over(c)]
  BY DEF RefusalDeletes, IsOver
<1>2. SawSessions(callback[c].saw)
  BY DEF SignInInv, Sightings
<1>3. /\ SessionsStay
      /\ DOMAIN session' = Callbacks
      /\ \A d \in Callbacks : DOMAIN session'[d] = {"state", "user", "left", "young"}
  BY <1>1, <1>2, DeletesStay
<1>4. Shapes'
  BY <1>1, <1>3 DEF SignInInv, Shapes, Over, NotAnswering
<1>5. CallbacksStay /\ \A d \in Callbacks : callback'[d].saw \in {{}, callback[d].saw}
  BY <1>1 DEF SignInInv, Shapes, CallbacksStay, Over, NotAnswering
<1>6. Sightings'
  BY <1>1, <1>3, <1>5, SightingsStay DEF SignInInv
<1>7. LoginsStay /\ CookiesStay
  BY <1>1 DEF LoginsStay, CookiesStay
<1> QED
  BY <1>3, <1>4, <1>5, <1>6, <1>7, StaysRight

LEMMA CheckSeesInv ==
  ASSUME SignInInv, NEW r \in Requests, CheckSees(r)
  PROVE  SignInInv'
<1>1. /\ UNCHANGED <<login, session, jar, callback>>
      /\ DOMAIN request' = Requests
      /\ DOMAIN request'[r] = DOMAIN request[r]
      /\ request'[r].saw = RowsOf(request[r].user)
      /\ \A q \in Requests : q # r => request'[q] = request[q]
  BY DEF CheckSees, SignInInv, Shapes, tableVars
<1>2. Shapes'
  BY <1>1 DEF SignInInv, Shapes
<1>3. Sightings'
  BY <1>1, RowsSeen DEF SignInInv, Sightings, SawSessions, HasSession
<1>4. LoginsStay /\ SessionsStay /\ CallbacksStay /\ CookiesStay
  BY <1>1 DEF LoginsStay, SessionsStay, CallbacksStay, CookiesStay, HasSession
<1> QED
  BY <1>2, <1>3, <1>4, StaysRight

LEMMA CheckDeletesInv ==
  ASSUME SignInInv, NEW r \in Requests, CheckDeletes(r)
  PROVE  SignInInv'
<1>1. /\ UNCHANGED <<login, jar, callback>>
      /\ DeleteCredentials(request[r].saw)
      /\ request' = [request EXCEPT ![r] = NotAsking]
  BY DEF CheckDeletes, Answered
<1>2. SawSessions(request[r].saw)
  BY DEF SignInInv, Sightings
<1>3. /\ SessionsStay
      /\ DOMAIN session' = Callbacks
      /\ \A d \in Callbacks : DOMAIN session'[d] = {"state", "user", "left", "young"}
  BY <1>1, <1>2, DeletesStay
<1>4. Shapes'
  BY <1>1, <1>3 DEF SignInInv, Shapes, NotAsking
<1>5. \A q \in Requests : request'[q].saw \in {{}, request[q].saw}
  BY <1>1 DEF SignInInv, Shapes, NotAsking
<1>6. Sightings'
  BY <1>1, <1>3, <1>5, SightingsStay DEF SignInInv
<1>7. LoginsStay /\ CallbacksStay /\ CookiesStay
  BY <1>1 DEF LoginsStay, CallbacksStay, CookiesStay
<1> QED
  BY <1>3, <1>4, <1>6, <1>7, StaysRight

LEMMA AskInv ==
  ASSUME SignInInv, NEW r \in Requests, NEW p, NEW row, Ask(r, p, row)
  PROVE  SignInInv'
<1>1. /\ UNCHANGED <<login, session, jar, callback>>
      /\ DOMAIN request' = Requests
      /\ DOMAIN request'[r] = DOMAIN NotAsking
      /\ request'[r].saw = {}
      /\ \A q \in Requests : q # r => request'[q] = request[q]
  BY DEF Ask, SignInInv, Shapes, tableVars, NotAsking
<1>2. Shapes'
  BY <1>1 DEF SignInInv, Shapes, NotAsking
<1>3. Sightings'
  BY <1>1 DEF SignInInv, Sightings, SawSessions, HasSession
<1>4. LoginsStay /\ SessionsStay /\ CallbacksStay /\ CookiesStay
  BY <1>1 DEF LoginsStay, SessionsStay, CallbacksStay, CookiesStay, HasSession
<1> QED
  BY <1>2, <1>3, <1>4, StaysRight

LEMMA SignOutInv ==
  ASSUME SignInInv, NEW b \in Browsers, NEW p, SignOut(b, p)
  PROVE  SignInInv'
<1>1. /\ UNCHANGED <<login, callback, request>>
      /\ session' = IF session[jar[b].session].state = "live"
                    THEN [session EXCEPT ![jar[b].session] = NoSession("gone")] ELSE session
      /\ jar' = [jar EXCEPT ![b].session = None]
      /\ jar[b].session \in Callbacks
  BY DEF SignOut, DeleteUserSession, SignInInv, OwnCookies
<1>2. Shapes'
  BY <1>1 DEF SignInInv, Shapes, NoSession
<1>3. SessionsStay
  BY <1>1 DEF SignInInv, Shapes, SessionsStay, HasSession, NoSession
<1>4. Sightings'
  BY <1>1, <1>3, SightingsStay DEF SignInInv
<1>5. LoginsStay /\ CallbacksStay
  BY <1>1 DEF LoginsStay, CallbacksStay
<1>6. CookiesStay
  BY <1>1 DEF SignInInv, Shapes, CookiesStay
<1> QED
  BY <1>2, <1>3, <1>4, <1>5, <1>6, StaysRight

LEMMA StopInv ==
  ASSUME SignInInv, NEW p, Stop(p)
  PROVE  SignInInv'
<1>1. /\ UNCHANGED <<login, session, jar>>
      /\ callback' = [c \in Callbacks |-> IF callback[c].at = p THEN Over(c) ELSE callback[c]]
      /\ request' = [r \in Requests |-> IF request[r].at = p THEN NotAsking ELSE request[r]]
  BY DEF Stop, tableVars
<1>2. Shapes'
  BY <1>1 DEF SignInInv, Shapes, Over, NotAnswering, NotAsking
<1>3. /\ LoginsStay /\ SessionsStay /\ CookiesStay
      /\ CallbacksStay
      /\ \A c \in Callbacks : callback'[c].saw \in {{}, callback[c].saw}
      /\ \A r \in Requests : request'[r].saw \in {{}, request[r].saw}
  BY <1>1 DEF LoginsStay, SessionsStay, CallbacksStay, CookiesStay, HasSession, Over, NotAnswering,
              NotAsking
<1>4. Sightings'
  BY <1>3, SightingsStay DEF SignInInv
<1> QED
  BY <1>2, <1>3, <1>4, StaysRight

LEMMA TickInv ==
  ASSUME SignInInv, Tick
  PROVE  SignInInv'
<1>1. /\ jar' = jar
      /\ login' = [l \in Logins |-> [login[l] EXCEPT !.left = OneLess(@)]]
      /\ session' = [c \in Callbacks |->
                       [session[c] EXCEPT !.left = OneLess(@), !.young = OneLess(@)]]
      /\ callback' = [c \in Callbacks |->
                        IF InProgress(callback[c]) THEN [callback[c] EXCEPT !.age = @ + 1]
                        ELSE callback[c]]
      /\ request' = [r \in Requests |->
                       IF InProgress(request[r])
                       THEN [request[r] EXCEPT !.age = @ + 1, !.young = OneLess(@)]
                       ELSE request[r]]
  BY DEF Tick, TablesAge
<1>2. Shapes'
  BY <1>1 DEF SignInInv, Shapes
<1>3. LoginsStay /\ SessionsStay
  BY <1>1 DEF SignInInv, Shapes, LoginsStay, SessionsStay, HasSession
<1>4. CallbacksStay /\ \A c \in Callbacks : callback'[c].saw = callback[c].saw
  BY <1>1 DEF SignInInv, Shapes, CallbacksStay
<1>5. \A r \in Requests : request'[r].saw = request[r].saw
  BY <1>1 DEF SignInInv, Shapes
<1>6. Sightings'
  BY <1>3, <1>4, <1>5, SightingsStay DEF SignInInv
<1>7. CookiesStay
  BY <1>1 DEF CookiesStay
<1> QED
  BY <1>2, <1>3, <1>4, <1>6, <1>7, StaysRight

\* A callback that goes on, with its claims or without.
LEMMA GoesOnInv ==
  ASSUME SignInInv, NEW c \in Callbacks, UNCHANGED <<login, session, jar, request>>,
         DOMAIN callback' = Callbacks,
         \A d \in Callbacks : d # c => callback'[d] = callback[d],
         DOMAIN callback'[c] = DOMAIN callback[c],
         callback'[c].login = callback[c].login,
         callback'[c].saw \in {{}, callback[c].saw},
         \/ callback'[c].pc = "over"
         \/ /\ callback[c].pc \in Working /\ callback'[c].pc \in Working
            /\ callback'[c].browser = callback[c].browser
            /\ callback'[c].user = callback[c].user
  PROVE  SignInInv'
<1>1. Shapes'
  BY DEF SignInInv, Shapes
<1>2. LoginsStay /\ SessionsStay /\ CookiesStay
  BY DEF LoginsStay, SessionsStay, CookiesStay, HasSession
<1>3. CallbacksStay
  BY DEF CallbacksStay
<1>4. Sightings'
  <2>1. /\ \A d \in Callbacks : callback'[d].saw \in {{}, callback[d].saw}
        /\ \A r \in Requests : request'[r].saw \in {{}, request[r].saw}
    OBVIOUS
  <2> QED
    BY <1>2, <2>1, SightingsStay DEF SignInInv
<1> QED
  BY <1>1, <1>2, <1>3, <1>4, StaysRight

LEMMA ExchangeInv ==
  ASSUME SignInInv, NEW c \in Callbacks, NEW discovery, NEW secret_set, NEW answer, NEW account,
         NEW sound, NEW nonce, Exchange(c, discovery, secret_set, answer, account, sound, nonce)
  PROVE  SignInInv'
<1>1. callback[c].pc = "took" /\ UNCHANGED <<login, session, jar, request>>
  BY DEF Exchange, tableVars
<1>2. \/ callback' = [callback EXCEPT ![c] = Over(c)]
      \/ \E claims, pc : /\ pc \in {"vouched", "refusing"}
                         /\ callback' =
                              [callback EXCEPT ![c] = [@ EXCEPT !.claims = claims, !.pc = pc]]
  BY DEF Exchange, IsOver
<1>3. CASE callback' = [callback EXCEPT ![c] = Over(c)]
  <2>1. /\ DOMAIN callback' = Callbacks
        /\ \A d \in Callbacks : d # c => callback'[d] = callback[d]
        /\ callback'[c] = Over(c)
    BY <1>3 DEF SignInInv, Shapes
  <2>2. /\ DOMAIN callback'[c] = DOMAIN callback[c]
        /\ callback'[c].login = callback[c].login /\ callback'[c].saw = {}
        /\ callback'[c].pc = "over"
    BY <2>1 DEF SignInInv, Shapes, Over, NotAnswering
  <2> QED
    BY <1>1, <2>1, <2>2, GoesOnInv
<1>4. ASSUME NEW claims, NEW pc \in {"vouched", "refusing"},
             callback' = [callback EXCEPT ![c] = [@ EXCEPT !.claims = claims, !.pc = pc]]
      PROVE  SignInInv'
  <2>1. /\ DOMAIN callback' = Callbacks
        /\ \A d \in Callbacks : d # c => callback'[d] = callback[d]
        /\ callback'[c] = [callback[c] EXCEPT !.claims = claims, !.pc = pc]
    BY <1>4 DEF SignInInv, Shapes
  <2>2. /\ DOMAIN callback'[c] = DOMAIN callback[c]
        /\ callback'[c].login = callback[c].login /\ callback'[c].saw = callback[c].saw
        /\ callback'[c].browser = callback[c].browser /\ callback'[c].user = callback[c].user
        /\ callback'[c].pc = pc
    BY <2>1 DEF SignInInv, Shapes
  <2>3. callback[c].pc \in Working /\ pc \in Working
    BY <1>1 DEF Working
  <2> QED
    BY <1>1, <2>1, <2>2, <2>3, GoesOnInv
<1> QED
  BY <1>2, <1>3, <1>4

LEMMA EnsureUserInv ==
  ASSUME SignInInv, NEW c \in Callbacks, EnsureUser(c)
  PROVE  SignInInv'
<1>1. /\ callback[c].pc = "vouched" /\ UNCHANGED <<login, session, jar, request>>
      /\ callback' = [callback EXCEPT ![c].pc = "known"]
  BY DEF EnsureUser, Becomes
<1>2. /\ DOMAIN callback' = Callbacks
      /\ \A d \in Callbacks : d # c => callback'[d] = callback[d]
      /\ callback'[c] = [callback[c] EXCEPT !.pc = "known"]
  BY <1>1 DEF SignInInv, Shapes
<1>3. /\ DOMAIN callback'[c] = DOMAIN callback[c]
      /\ callback'[c].login = callback[c].login /\ callback'[c].saw = callback[c].saw
      /\ callback'[c].browser = callback[c].browser /\ callback'[c].user = callback[c].user
      /\ callback'[c].pc = "known"
  BY <1>2 DEF SignInInv, Shapes
<1>4. callback[c].pc \in Working /\ "known" \in Working
  BY <1>1 DEF Working
<1> QED
  BY <1>1, <1>2, <1>3, <1>4, GoesOnInv

-----------------------------------------------------------------------------
(* Beginning a sign-in, taking one, and its session                        *)

\* The login cookie is of the sign-in begun, which nobody has taken yet.
LEMMA BeginInv ==
  ASSUME SignInInv, NEW b \in Browsers, NEW l \in Logins, NEW who, NEW p, NEW discovery,
         Begin(b, l, who, p, discovery)
  PROVE  SignInInv'
<1> USE DEF SignInInv
<1>1. /\ UNCHANGED <<session, callback, request>>
      /\ login[l].state = "none"
      /\ AddPendingLogin(l, [NoLogin("none") EXCEPT !.provider = ProviderOf[who], !.browser = b,
                                                    !.who = who])
      /\ jar' = [jar EXCEPT ![b].login = l]
  BY DEF Begin
<1>2. /\ DOMAIN login' = Logins
      /\ DOMAIN login'[l] = {"state", "provider", "browser", "who", "left"}
      /\ login'[l].state = "pending" /\ login'[l].browser = b
      /\ \A m \in Logins : m # l =>
           /\ DOMAIN login'[m] = DOMAIN login[m]
           /\ login'[m].browser = login[m].browser /\ login'[m].who = login[m].who
           /\ login'[m].state = "none" <=> login[m].state = "none"
           /\ login[m].state = "gone" => login'[m].state = "gone"
  BY <1>1 DEF AddPendingLogin, NoLogin, Pending, Shapes
<1>3. Shapes'
  BY <1>1, <1>2 DEF Shapes
<1>4. Sightings'
  BY <1>1 DEF Sightings, SawSessions, HasSession
<1>5. \A c \in Callbacks : Holds(c) => callback[c].login \in Logins \ {l}
  BY <1>1 DEF TakenRightly
<1>6. TakenRightly'
  BY <1>1, <1>2, <1>5 DEF TakenRightly, Holds, HasSession
<1>7. TakenOnce'
  BY <1>1 DEF TakenOnce, Holds, HasSession
<1>8. OwnCookies'
  <2>1. ASSUME NEW c \in Browsers, jar'[c].login # None
        PROVE  /\ jar'[c].login \in Logins
               /\ login'[jar'[c].login].state # "none"
               /\ login'[jar'[c].login].browser = c
    BY <1>1, <1>2, <2>1 DEF OwnCookies, Shapes
  <2>2. ASSUME NEW c \in Browsers, jar'[c].session # None
        PROVE  /\ jar'[c].session \in Callbacks
               /\ session'[jar'[c].session].state # "none"
               /\ login'[callback'[jar'[c].session].login].browser = c
    <3>1. jar'[c].session = jar[c].session
      BY <1>1 DEF Shapes
    <3>2. jar[c].session \in Callbacks /\ HasSession(jar[c].session)
      BY <2>2, <3>1 DEF OwnCookies
    <3> QED
      BY <1>1, <1>2, <1>5, <2>2, <3>1, <3>2 DEF OwnCookies, Holds, HasSession
  <2> QED
    BY <2>1, <2>2 DEF OwnCookies, HasSession
<1> QED
  BY <1>3, <1>4, <1>6, <1>7, <1>8

\* Whoever takes a pending sign-in is the only one to have it, in the browser its cookie is in.
LEMMA CallbackInv ==
  ASSUME SignInInv, NEW c \in Callbacks, NEW b \in Browsers, NEW l \in Logins, NEW p,
         Callback(c, b, l, p)
  PROVE  SignInInv'
<1> USE DEF SignInInv
<1> DEFINE took == l \in Pending /\ login[l].left > 0
<1>1. /\ UNCHANGED <<session, jar, request>>
      /\ callback[c].pc = "idle" /\ login[l].state # "none"
      /\ jar[b].login = l
      /\ TakePendingLogin(l)
      /\ callback' = [callback EXCEPT ![c] =
           IF took THEN [NotAnswering EXCEPT !.pc = "took", !.at = p, !.browser = b, !.login = l,
                                             !.user = login[l].who]
           ELSE [NotAnswering EXCEPT !.pc = "over", !.login = l]]
  BY DEF Callback, CookieMatches
<1>2. ~Holds(c)
  BY <1>1 DEF TakenRightly, Holds, Working
<1>3. /\ DOMAIN login' = Logins
      /\ \A m \in Logins : /\ DOMAIN login'[m] = DOMAIN login[m]
                           /\ login'[m].browser = login[m].browser /\ login'[m].who = login[m].who
                           /\ login'[m].state = "none" <=> login[m].state = "none"
                           /\ login[m].state = "gone" => login'[m].state = "gone"
      /\ took => login'[l].state = "gone"
  BY <1>1 DEF TakePendingLogin, Pending, Shapes
<1>4. /\ DOMAIN callback' = Callbacks
      /\ \A d \in Callbacks : d # c => callback'[d] = callback[d]
      /\ DOMAIN callback'[c] = DOMAIN NotAnswering
      /\ callback'[c].saw = {} /\ callback'[c].login = l
      /\ took => /\ callback'[c].pc = "took" /\ callback'[c].browser = b
                 /\ callback'[c].user = login[l].who
      /\ ~took => callback'[c].pc = "over"
  BY <1>1 DEF Shapes, NotAnswering
<1>5. Shapes'
  BY <1>1, <1>3, <1>4 DEF Shapes, NotAnswering
<1>6. Sightings'
  BY <1>1, <1>4 DEF Sightings, SawSessions, HasSession
<1>7. \A d \in Callbacks : d # c => (Holds(d)' <=> Holds(d))
  BY <1>1, <1>4 DEF Holds, HasSession
<1>8. Holds(c)' => took
  BY <1>1, <1>2, <1>4 DEF Holds, HasSession, Working
<1>9. TakenRightly'
  <2>1. took => /\ login[l].browser = b
                /\ login[l].who = callback'[c].user
    BY <1>1, <1>4, CredentialsAssumption DEF OwnCookies
  <2>2. ~HasSession(c)
    BY <1>2 DEF Holds
  <2> HIDE DEF took
  <2> SUFFICES ASSUME NEW d \in Callbacks
               PROVE  /\ callback'[d].pc \in Working \cup {"idle", "made", "over"}
                      /\ Holds(d)' => /\ callback'[d].login \in Logins
                                      /\ login'[callback'[d].login].state = "gone"
                      /\ session'[d].state # "none" => callback'[d].pc \in {"made", "over"}
                      /\ callback'[d].pc = "made" => session'[d].state # "none"
                      /\ callback'[d].pc \in Working \cup {"made"} =>
                           /\ callback'[d].browser = login'[callback'[d].login].browser
                           /\ callback'[d].user = login'[callback'[d].login].who
                      /\ session'[d].state = "live" =>
                           session'[d].user = login'[callback'[d].login].who
    BY DEF TakenRightly, HasSession
  <2>3. CASE d = c
    BY <1>1, <1>3, <1>4, <1>8, <2>1, <2>2, <2>3 DEF Working, HasSession
  <2>4. CASE d # c
    BY <1>1, <1>3, <1>4, <1>7, <2>4 DEF TakenRightly, Holds, HasSession
  <2> QED
    BY <2>3, <2>4
<1>10. TakenOnce'
  <2>1. took => \A d \in Callbacks : Holds(d) => callback[d].login # l
    BY DEF TakenRightly, Pending
  <2> QED
    BY <1>4, <1>7, <1>8, <2>1 DEF TakenOnce
<1>11. OwnCookies'
  <2>1. ASSUME NEW d \in Browsers, jar'[d].login # None
        PROVE  /\ jar'[d].login \in Logins
               /\ login'[jar'[d].login].state # "none"
               /\ login'[jar'[d].login].browser = d
    BY <1>1, <1>3, <2>1 DEF OwnCookies
  <2>2. ASSUME NEW d \in Browsers, jar'[d].session # None
        PROVE  /\ jar'[d].session \in Callbacks
               /\ session'[jar'[d].session].state # "none"
               /\ login'[callback'[jar'[d].session].login].browser = d
    <3>1. jar[d].session \in Callbacks /\ HasSession(jar[d].session)
      BY <1>1, <2>2 DEF OwnCookies
    <3>2. jar[d].session # c
      BY <1>2, <3>1 DEF Holds
    <3> QED
      BY <1>1, <1>3, <1>4, <2>2, <3>1, <3>2 DEF OwnCookies, TakenRightly, Holds, HasSession
  <2> QED
    BY <2>1, <2>2 DEF OwnCookies, HasSession
<1> QED
  BY <1>5, <1>6, <1>9, <1>10, <1>11

\* The session is of whoever the sign-in let in.
LEMMA MakeSessionInv ==
  ASSUME SignInInv, NEW c \in Callbacks, MakeSession(c)
  PROVE  SignInInv'
<1> USE DEF SignInInv
<1>1. /\ UNCHANGED <<login, jar, request>>
      /\ callback[c].pc = "known"
      /\ DOMAIN session' = Callbacks
      /\ DOMAIN session'[c] = {"state", "user", "left", "young"}
      /\ session'[c].state = "live" /\ session'[c].user = callback[c].user
      /\ \A d \in Callbacks : d # c => session'[d] = session[d]
  BY DEF MakeSession, AddUserSession, Shapes
<1>2. /\ DOMAIN callback' = Callbacks
      /\ \A d \in Callbacks : d # c => callback'[d] = callback[d]
      /\ DOMAIN callback'[c] = DOMAIN callback[c]
      /\ callback'[c].pc = "made" /\ callback'[c].login = callback[c].login
      /\ callback'[c].browser = callback[c].browser /\ callback'[c].user = callback[c].user
      /\ callback'[c].saw = callback[c].saw
  BY DEF MakeSession, Becomes, Shapes
<1>3. Holds(c) /\ ~HasSession(c)
  BY <1>1 DEF Holds, Working, TakenRightly
<1>4. \A d \in Callbacks : /\ d # c => (Holds(d)' <=> Holds(d))
                           /\ HasSession(d) => session'[d].state # "none"
  BY <1>1, <1>2 DEF Holds, HasSession
<1>5. Shapes'
  BY <1>1, <1>2 DEF Shapes
<1>6. Sightings'
  BY <1>1, <1>2, <1>4 DEF Sightings, SawSessions, HasSession
<1>7. TakenRightly'
  <2> SUFFICES ASSUME NEW d \in Callbacks
               PROVE  /\ callback'[d].pc \in Working \cup {"idle", "made", "over"}
                      /\ Holds(d)' => /\ callback'[d].login \in Logins
                                      /\ login'[callback'[d].login].state = "gone"
                      /\ session'[d].state # "none" => callback'[d].pc \in {"made", "over"}
                      /\ callback'[d].pc = "made" => session'[d].state # "none"
                      /\ callback'[d].pc \in Working \cup {"made"} =>
                           /\ callback'[d].browser = login'[callback'[d].login].browser
                           /\ callback'[d].user = login'[callback'[d].login].who
                      /\ session'[d].state = "live" =>
                           session'[d].user = login'[callback'[d].login].who
    BY DEF TakenRightly, HasSession
  <2>1. CASE d = c
    BY <1>1, <1>2, <1>3, <2>1 DEF TakenRightly, Working
  <2>2. CASE d # c
    BY <1>1, <1>2, <1>4, <2>2 DEF TakenRightly, HasSession
  <2> QED
    BY <2>1, <2>2
<1>8. TakenOnce'
  <2>1. \A d \in Callbacks : Holds(d)' => Holds(d)
    BY <1>3, <1>4
  <2>2. \A d \in Callbacks : callback'[d].login = callback[d].login
    BY <1>2
  <2> QED
    BY <2>1, <2>2 DEF TakenOnce
<1>9. OwnCookies'
  BY <1>1, <1>2, <1>4 DEF OwnCookies, HasSession
<1> QED
  BY <1>5, <1>6, <1>7, <1>8, <1>9

\* The browser the answer reaches is the one that began the sign-in.
LEMMA SignedInInv ==
  ASSUME SignInInv, NEW c \in Callbacks, NEW arrives \in BOOLEAN, SignedIn(c, arrives)
  PROVE  SignInInv'
<1> USE DEF SignInInv
<1>1. /\ UNCHANGED <<login, session, request>>
      /\ callback[c].pc = "made"
      /\ callback' = [callback EXCEPT ![c] = Over(c)]
      /\ jar' = IF arrives
                THEN [jar EXCEPT ![callback[c].browser] = [login |-> None, session |-> c]]
                ELSE jar
  BY DEF SignedIn, IsOver, tableVars
<1>2. /\ DOMAIN callback' = Callbacks
      /\ \A d \in Callbacks : d # c => callback'[d] = callback[d]
      /\ DOMAIN callback'[c] = DOMAIN callback[c]
      /\ callback'[c].pc = "over" /\ callback'[c].login = callback[c].login
      /\ callback'[c].saw = {}
  BY <1>1 DEF Shapes, Over, NotAnswering
<1>3. HasSession(c) /\ callback[c].browser = login[callback[c].login].browser
  BY <1>1 DEF TakenRightly
<1>4. Shapes'
  BY <1>1, <1>2 DEF Shapes
<1>5. Sightings'
  BY <1>1, <1>2 DEF Sightings, SawSessions, HasSession
<1>6. \A d \in Callbacks : Holds(d)' => Holds(d)
  BY <1>1, <1>2, <1>3 DEF Holds, HasSession
<1>7. TakenRightly'
  BY <1>1, <1>2, <1>3, <1>6 DEF TakenRightly, Holds, HasSession, Working
<1>8. TakenOnce'
  BY <1>2, <1>6 DEF TakenOnce
<1>9. OwnCookies'
  <2>1. ASSUME NEW b \in Browsers
        PROVE  \/ jar'[b] = jar[b]
               \/ /\ jar'[b].login = None /\ jar'[b].session = c
                  /\ b = login[callback[c].login].browser
    BY <1>1, <1>3 DEF Shapes
  <2>2. \A d \in Callbacks : callback'[d].login = callback[d].login
    BY <1>2
  <2> QED
    BY <1>1, <1>3, <2>1, <2>2 DEF OwnCookies, HasSession
<1> QED
  BY <1>4, <1>5, <1>7, <1>8, <1>9

-----------------------------------------------------------------------------
(* Every step, and the theorems                                            *)

LEMMA SigningInInv ==
  ASSUME SignInInv, SigningIn
  PROVE  SignInInv'
<1>1. CASE \E b \in Browsers, l \in Logins, p \in Processes, d \in Discoveries :
             \E who \in People : Begin(b, l, who, p, d)
  BY <1>1, BeginInv
<1>2. CASE \E c \in Callbacks, b \in Browsers, l \in Logins, p \in Processes : Callback(c, b, l, p)
  BY <1>2, CallbackInv
<1>3. ASSUME NEW c \in Callbacks,
             \E d \in Discoveries, a \in Answers, secret_set, sound \in BOOLEAN :
               \E account \in UNION {Accounts[who] : who \in {callback[c].user} \cap People},
                  nonce \in {callback[c].login, None} :
                 Exchange(c, d, secret_set, a, account, sound, nonce)
      PROVE  SignInInv'
  BY <1>3, ExchangeInv
<1>4. ASSUME NEW c \in Callbacks,
             \/ EnsureUser(c)
             \/ MakeSession(c)
             \/ \E arrives \in BOOLEAN : SignedIn(c, arrives)
             \/ RefusalSees(c)
             \/ RefusalDeletes(c)
      PROVE  SignInInv'
  BY <1>4, EnsureUserInv, MakeSessionInv, SignedInInv, RefusalSeesInv, RefusalDeletesInv
<1> QED
  BY <1>1, <1>2, <1>3, <1>4 DEF SigningIn

\* A step that touches nothing of sign-in.
LEMMA ElsewhereInv ==
  ASSUME SignInInv, UNCHANGED <<login, session, jar, callback, request>>
  PROVE  SignInInv'
  BY DEF SignInInv, Shapes, TakenRightly, TakenOnce, OwnCookies, Sightings, SawSessions, Holds,
         HasSession

LEMMA AskingInv ==
  ASSUME SignInInv, Asking
  PROVE  SignInInv'
<1>1. ASSUME NEW r \in Requests, \E p \in Processes, row \in Credential : Ask(r, p, row)
      PROVE  SignInInv'
  BY <1>1, AskInv
<1>2. ASSUME NEW r \in Requests, Check(r)
      PROVE  SignInInv'
  <2>1. /\ UNCHANGED <<login, session, jar, callback>>
        /\ \E pc : request' = [request EXCEPT ![r].pc = pc]
    BY <1>2 DEF Check, tableVars
  <2> QED
    BY <2>1, RequestStep
<1>3. ASSUME NEW r \in Requests, CheckSees(r) \/ CheckDeletes(r)
      PROVE  SignInInv'
  BY <1>3, CheckSeesInv, CheckDeletesInv
<1>4. ASSUME NEW r \in Requests,
             \/ Reads(r)
             \/ \E t \in Tokens : MintToken(r, t) \/ RevokeToken(r, t)
             \/ \E p \in Codes : MintPairing(r, p) \/ \E right \in BOOLEAN : Manage(r, p, right)
      PROVE  SignInInv'
  <2>1. /\ UNCHANGED <<login, session, jar, callback>>
        /\ request' = [request EXCEPT ![r] = NotAsking]
    BY <1>4 DEF Reads, MintToken, RevokeToken, MintPairing, Manage, Answered, tableVars
  <2> QED
    BY <2>1, RequestStep
<1>5. CASE \/ \E p \in Codes : Claim(p)
           \/ \E which \in SUBSET Codes : EndDevices(which)
  <2>1. UNCHANGED <<login, session, jar, callback, request>>
    BY <1>5 DEF Claim, EndDevices
  <2> QED
    BY <2>1, ElsewhereInv
<1>6. CASE \E b \in Browsers, p \in Processes : SignOut(b, p)
  BY <1>6, SignOutInv
<1> QED
  BY <1>1, <1>2, <1>3, <1>4, <1>5, <1>6 DEF Asking

LEMMA NextSignIn == SignInInv /\ [Next]_vars => SignInInv'
<1> SUFFICES ASSUME SignInInv, [Next]_vars
             PROVE  SignInInv'
  OBVIOUS
<1>1. CASE SigningIn
  BY <1>1, SigningInInv
<1>2. CASE Asking
  BY <1>2, AskingInv
<1>3. CASE Deployment
  <2>1. ASSUME NEW p \in Processes, Stop(p)
        PROVE  SignInInv'
    BY <2>1, StopInv
  <2>2. ASSUME NEW p \in Processes, NEW file \in Files, Start(p, file)
        PROVE  SignInInv'
    <3>1. UNCHANGED <<login, session, jar, callback, request>>
      BY <2>2 DEF Start, tableVars
    <3> QED
      BY <3>1, ElsewhereInv
  <2> QED
    BY <1>3, <2>1, <2>2 DEF Deployment
<1>4. CASE Tick
  BY <1>4, TickInv
<1>5. CASE UNCHANGED vars
  <2>1. UNCHANGED <<login, session, jar, callback, request>>
    BY <1>5 DEF vars, tableVars
  <2> QED
    BY <2>1, ElsewhereInv
<1> QED
  BY <1>1, <1>2, <1>3, <1>4, <1>5 DEF Next

LEMMA SignInInvAlways == AccessSpec => []SignInInv
<1> QED
  BY InitSignIn, NextSignIn, PTL DEF AccessSpec

\* However a person's sign-ins interleave, over however many browsers, processes and restarts, a
\* session's cookie is only ever in the browser that began its sign-in, and the session is of
\* the person the provider let in for it (access.py begin/callback, one login cookie a browser).
THEOREM LandsWhereBegunAlways == AccessSpec => []LandsWhereBegun
<1>1. SignInInv => LandsWhereBegun
  BY DEF SignInInv, OwnCookies, TakenRightly, LandsWhereBegun
<1> QED
  BY <1>1, SignInInvAlways, PTL

\* However often, and at however many processes, the redirect of one sign-in comes back, it makes
\* one session at most: take_pending_login gives the row to one of them.
THEOREM SignedInOnceAlways == AccessSpec => []SignedInOnce
<1>1. SignInInv => SignedInOnce
  BY DEF SignInInv, TakenOnce, Holds, HasSession, SignedInOnce
<1> QED
  BY <1>1, SignInInvAlways, PTL

-----------------------------------------------------------------------------
(* Whom the list lets in                                                   *)

MeantFor(user) ==
  \E f \in Files : \E e \in f.allow : e.provider = ProviderOf[user] /\ Means(f, e, user)

LEMMA FiniteMatchers == IsFiniteSet(Matchers)
<1> DEFINE two == {"everyone"} \cup {"subject"}
           four == (two \cup {"email"}) \cup {"email_domain"}
           six == (four \cup {"hosted_domain"}) \cup {"group"}
<1>1. IsFiniteSet(two)
  BY FS_Singleton, FS_Union
<1>2. IsFiniteSet(four)
  BY <1>1, FS_Singleton, FS_Union
<1>3. IsFiniteSet(six)
  BY <1>2, FS_Singleton, FS_Union
<1>4. Matchers = six
  BY DEF Matchers
<1> QED
  BY <1>3, <1>4

\* The list lets in nobody whom no entry of the file means, whatever their provider says of them.
LEMMA LetInAreMeant ==
  ASSUME NEW f \in Files, Parses(f), NEW who \in People, NEW account \in Accounts[who],
         NEW sound, NEW nonce,
         LetsIn(ConfigOf(f), who,
                CheckedClaims([account EXCEPT !.sound = sound, !.nonce = nonce],
                              f.providers[ProviderOf[who]]))
  PROVE  MeantFor(who)
<1> DEFINE id == ProviderOf[who]
           says == [account EXCEPT !.sound = sound, !.nonce = nonce]
           claims == CheckedClaims(says, f.providers[id])
           google == f.providers[id].issuer = "google"
<1>1. /\ says.sub = who
      /\ says.email = account.email /\ says.email_verified = account.email_verified
      /\ says.hd = account.hd /\ says.groups = account.groups
  BY AccountsAssumption
<1>2. /\ claims.subject = who
      /\ claims.email # None => /\ claims.email = account.email
                                /\ account.email_verified
                                /\ google => account.hd # None \/ DomainOf[account.email] = "gmail"
      /\ google => claims.hosted_domain = account.hd
      /\ claims.groups \in {{}, account.groups}
  BY <1>1 DEF CheckedClaims, EmailIsTheirs
<1>a. IsAllowed(ConfigOf(f).allow, id, claims)
  BY DEF LetsIn
<1> HIDE DEF claims
<1>b. PICK entry \in ConfigOf(f).allow : entry.provider = id /\ Allows(entry, claims)
  BY <1>a DEF IsAllowed
<1>3. PICK e \in f.allow : entry = [provider |-> e.provider, value |-> e.value,
                                    matcher |-> CHOOSE m \in e.given : TRUE]
  BY <1>b DEF ConfigOf
<1>4. PICK matcher : e.given = {matcher}
  <2>1. IsFiniteSet(e.given)
    BY AccountsAssumption, FiniteMatchers, FS_Subset DEF Parses
  <2>2. Cardinality(e.given) = 1
    BY DEF Parses, IsEntry
  <2> QED
    BY <2>1, <2>2, FS_Singleton
<1>5. (CHOOSE m \in e.given : TRUE) = matcher
  BY <1>4
<1>6. /\ IsGoogle(f, e) <=> google
      /\ google => matcher \notin {"everyone", "email_domain"}
      /\ matcher = "hosted_domain" => google
  BY <1>b, <1>3, <1>5 DEF Parses, IsEntry, IsGoogle
<1>7. /\ matcher = "subject" => claims.subject = e.value
      /\ matcher = "email" => claims.email # None /\ claims.email = e.value
      /\ matcher = "email_domain" => claims.email # None /\ DomainOf[claims.email] = e.value
      /\ matcher = "hosted_domain" => claims.hosted_domain = e.value
      /\ matcher = "group" => e.value \in claims.groups
  BY <1>b, <1>3, <1>5 DEF Allows
<1>8. matcher \in Matchers
  BY <1>4, AccountsAssumption DEF Parses
<1>9. Means(f, e, who)
  BY <1>2, <1>4, <1>6, <1>7, <1>8 DEF Means, Matchers
<1> QED
  BY <1>b, <1>3, <1>9 DEF MeantFor

\* What a process serves is a file that parsed, and a callback in progress is at a process that
\* is up.
Configured ==
  /\ DOMAIN server = Processes
  /\ \A p \in Processes : server[p] # None => \E f \in Files : Parses(f) /\ server[p] = ConfigOf(f)
  /\ \A c \in Callbacks : InProgress(callback[c]) =>
       callback[c].at \in Processes /\ server[callback[c].at] # None

\* A sign-in is with the provider of whom it will bring back.
WithTheirOwn ==
  \A l \in Logins : login[l].state # "none" =>
    login[l].who \in People /\ login[l].provider = ProviderOf[login[l].who]

\* Past the list there is nobody it does not mean.
LetInRightly ==
  \A c \in Callbacks :
    /\ callback[c].pc \in {"vouched", "known", "made"} => MeantFor(callback[c].user)
    /\ session[c].state = "live" => MeantFor(session[c].user)

MeantInv == Configured /\ WithTheirOwn /\ LetInRightly

LEMMA InitMeant == Init => MeantInv
<1> SUFFICES ASSUME Init PROVE MeantInv
  OBVIOUS
<1>1. Configured
  BY DEF Init, Configured, NotAnswering, InProgress
<1>2. WithTheirOwn /\ LetInRightly
  BY DEF Init, TablesInit, NoLogin, NoSession, NotAnswering, WithTheirOwn, LetInRightly
<1> QED
  BY <1>1, <1>2 DEF MeantInv

\* A callback goes on past the list no more than it was, or is over.
NoFurther ==
  \A c \in Callbacks :
    \/ callback'[c].pc = "over"
    \/ /\ callback'[c].at = callback[c].at /\ callback'[c].user = callback[c].user
       /\ InProgress(callback[c])' => InProgress(callback[c])
       /\ callback'[c].pc \in {"vouched", "known", "made"} =>
            callback[c].pc \in {"vouched", "known", "made"}

LEMMA MeantStays ==
  ASSUME MeantInv, NoFurther, SessionsStay, server' = server,
         \A l \in Logins : /\ login'[l].state # "none" => login[l].state # "none"
                           /\ login'[l].who = login[l].who
                           /\ login'[l].provider = login[l].provider
  PROVE  MeantInv'
<1>1. Configured'
  BY DEF MeantInv, Configured, NoFurther, InProgress
<1>2. WithTheirOwn'
  BY DEF MeantInv, WithTheirOwn
<1>3. LetInRightly'
  <2> SUFFICES ASSUME NEW c \in Callbacks
               PROVE  /\ callback'[c].pc \in {"vouched", "known", "made"}
                           => MeantFor(callback'[c].user)
                      /\ session'[c].state = "live" => MeantFor(session'[c].user)
    BY DEF LetInRightly, MeantFor
  <2>1. callback'[c].pc \in {"vouched", "known", "made"} => MeantFor(callback'[c].user)
    BY DEF MeantInv, LetInRightly, NoFurther
  <2>2. session'[c].state = "live" => MeantFor(session'[c].user)
    BY DEF MeantInv, LetInRightly, SessionsStay
  <2> QED
    BY <2>1, <2>2
<1> QED
  BY <1>1, <1>2, <1>3 DEF MeantInv

\* The exchange: only whom the list of the process lets in goes on.
LEMMA ExchangeMeant ==
  ASSUME SignInInv, MeantInv, NEW c \in Callbacks, NEW discovery, NEW secret_set, NEW answer,
         NEW account \in UNION {Accounts[who] : who \in {callback[c].user} \cap People},
         NEW sound, NEW nonce, Exchange(c, discovery, secret_set, answer, account, sound, nonce)
  PROVE  MeantInv'
<1> DEFINE k == callback[c]
           id == login[k.login].provider
           says == [account EXCEPT !.sound = sound, !.nonce = nonce]
           claims == CheckedClaims(says, server[k.at].providers[id])
<1>1. /\ k.pc = "took" /\ UNCHANGED <<server, login, session>>
      /\ \/ callback' = [callback EXCEPT ![c] = Over(c)]
         \/ /\ id \in DOMAIN server[k.at].providers
            /\ callback' = [callback EXCEPT ![c] = [@ EXCEPT !.claims = claims,
                 !.pc = IF LetsIn(server[k.at], k.user, claims) THEN "vouched" ELSE "refusing"]]
  BY DEF Exchange, IsOver, tableVars, deploymentVars
<1>2. /\ k.user \in People /\ account \in Accounts[k.user]
      /\ login[k.login].who = k.user /\ login[k.login].state # "none" /\ k.login \in Logins
  BY <1>1 DEF SignInInv, TakenRightly, Holds, Working
<1>3. id = ProviderOf[k.user]
  BY <1>2 DEF MeantInv, WithTheirOwn
<1>4. PICK f \in Files : Parses(f) /\ server[k.at] = ConfigOf(f)
  BY <1>1 DEF MeantInv, Configured, InProgress
<1>5. claims = CheckedClaims(says, f.providers[ProviderOf[k.user]])
  BY <1>3, <1>4 DEF ConfigOf
<1>6. LetsIn(server[k.at], k.user, claims) => MeantFor(k.user)
  <2> SUFFICES ASSUME LetsIn(server[k.at], k.user, claims)
               PROVE  MeantFor(k.user)
    OBVIOUS
  <2>1. LetsIn(ConfigOf(f), k.user, CheckedClaims(says, f.providers[ProviderOf[k.user]]))
    BY <1>4, <1>5
  <2> QED
    BY <1>2, <1>4, <2>1, LetInAreMeant
<1> HIDE DEF claims
<1>7. CASE callback' = [callback EXCEPT ![c] = Over(c)]
  <2>1. NoFurther /\ SessionsStay
    BY <1>1, <1>7 DEF SignInInv, Shapes, NoFurther, SessionsStay, Over, NotAnswering
  <2> QED
    BY <1>1, <2>1, MeantStays
<1>8. CASE callback' = [callback EXCEPT ![c] = [@ EXCEPT !.claims = claims,
             !.pc = IF LetsIn(server[k.at], k.user, claims) THEN "vouched" ELSE "refusing"]]
  <2>1. /\ \A d \in Callbacks : d # c => callback'[d] = callback[d]
        /\ callback'[c].at = k.at /\ callback'[c].user = k.user
        /\ callback'[c].pc = IF LetsIn(server[k.at], k.user, claims) THEN "vouched"
                             ELSE "refusing"
    BY <1>8 DEF SignInInv, Shapes
  <2>2. Configured'
    BY <1>1, <2>1 DEF MeantInv, Configured, InProgress
  <2>3. WithTheirOwn'
    BY <1>1 DEF MeantInv, WithTheirOwn
  <2>4. LetInRightly'
    <3>1. ASSUME NEW d \in Callbacks, callback'[d].pc \in {"vouched", "known", "made"}
          PROVE  MeantFor(callback'[d].user)
      BY <1>6, <2>1, <3>1 DEF MeantInv, LetInRightly
    <3> QED
      BY <1>1, <3>1 DEF MeantInv, LetInRightly, MeantFor
  <2> QED
    BY <2>2, <2>3, <2>4 DEF MeantInv
<1> QED
  BY <1>1, <1>7, <1>8

LEMMA SigningInMeant ==
  ASSUME SignInInv, MeantInv, SigningIn
  PROVE  MeantInv'
<1>1. ASSUME NEW b \in Browsers, NEW l \in Logins, NEW p \in Processes, NEW d, NEW who \in People,
             Begin(b, l, who, p, d)
      PROVE  MeantInv'
  <2>1. /\ UNCHANGED <<server, session, callback>>
        /\ AddPendingLogin(l, [NoLogin("none") EXCEPT !.provider = ProviderOf[who], !.browser = b,
                                                      !.who = who])
    BY <1>1 DEF Begin, deploymentVars
  <2>2. Configured'
    BY <2>1 DEF MeantInv, Configured, InProgress
  <2>3. WithTheirOwn'
    BY <2>1 DEF MeantInv, WithTheirOwn, AddPendingLogin, NoLogin, Pending, SignInInv, Shapes
  <2>4. LetInRightly'
    BY <2>1 DEF MeantInv, LetInRightly, MeantFor
  <2> QED
    BY <2>2, <2>3, <2>4 DEF MeantInv
<1>2. ASSUME NEW c \in Callbacks, NEW b \in Browsers, NEW l \in Logins, NEW p \in Processes,
             Callback(c, b, l, p)
      PROVE  MeantInv'
  <2>1. /\ UNCHANGED <<server, session>> /\ server[p] # None
        /\ TakePendingLogin(l)
        /\ \A d \in Callbacks : d # c => callback'[d] = callback[d]
        /\ callback'[c] \in
             {[NotAnswering EXCEPT !.pc = "took", !.at = p, !.browser = b, !.login = l,
                                   !.user = login[l].who],
              [NotAnswering EXCEPT !.pc = "over", !.login = l]}
    BY <1>2 DEF Callback, deploymentVars, SignInInv, Shapes
  <2>2. \/ callback'[c].pc = "over"
        \/ callback'[c].pc = "took" /\ callback'[c].at = p
    BY <2>1 DEF NotAnswering
  <2>3. Configured'
    BY <2>1, <2>2 DEF MeantInv, Configured, InProgress
  <2>4. WithTheirOwn'
    BY <2>1 DEF MeantInv, WithTheirOwn, TakePendingLogin, Pending, SignInInv, Shapes
  <2>5. LetInRightly'
    <3>1. \A d \in Callbacks : callback'[d].pc \in {"vouched", "known", "made"} =>
            callback'[d] = callback[d]
      BY <2>1, <2>2
    <3> QED
      BY <2>1, <3>1 DEF MeantInv, LetInRightly, MeantFor
  <2> QED
    BY <2>3, <2>4, <2>5 DEF MeantInv
<1>3. ASSUME NEW c \in Callbacks,
             \E d \in Discoveries, a \in Answers, secret_set, sound \in BOOLEAN :
               \E account \in UNION {Accounts[who] : who \in {callback[c].user} \cap People},
                  nonce \in {callback[c].login, None} :
                 Exchange(c, d, secret_set, a, account, sound, nonce)
      PROVE  MeantInv'
  BY <1>3, ExchangeMeant
<1>4. ASSUME NEW c \in Callbacks, MakeSession(c)
      PROVE  MeantInv'
  <2>1. /\ UNCHANGED <<server, login>> /\ callback[c].pc = "known"
        /\ \A d \in Callbacks : d # c => callback'[d] = callback[d] /\ session'[d] = session[d]
        /\ session'[c].user = callback[c].user
        /\ callback'[c].pc = "made" /\ callback'[c].at = callback[c].at
        /\ callback'[c].user = callback[c].user
    BY <1>4 DEF MakeSession, Becomes, AddUserSession, deploymentVars, SignInInv, Shapes
  <2>2. Configured'
    BY <2>1 DEF MeantInv, Configured, InProgress
  <2>3. WithTheirOwn'
    BY <2>1 DEF MeantInv, WithTheirOwn
  <2>4. LetInRightly'
    <3>1. ASSUME NEW d \in Callbacks
          PROVE  /\ callback'[d].pc \in {"vouched", "known", "made"}
                      => MeantFor(callback'[d].user)
                 /\ session'[d].state = "live" => MeantFor(session'[d].user)
      BY <2>1 DEF MeantInv, LetInRightly
    <3> QED
      BY <3>1 DEF LetInRightly, MeantFor
  <2> QED
    BY <2>2, <2>3, <2>4 DEF MeantInv
<1>5. ASSUME NEW c \in Callbacks,
             \/ EnsureUser(c)
             \/ \E arrives \in BOOLEAN : SignedIn(c, arrives)
             \/ RefusalSees(c)
      PROVE  MeantInv'
  <2>1. UNCHANGED <<server, login, session>>
    BY <1>5 DEF EnsureUser, SignedIn, RefusalSees, tableVars, deploymentVars
  <2>2. /\ \A d \in Callbacks : d # c => callback'[d] = callback[d]
        /\ \/ callback'[c].pc = "over"
           \/ /\ callback'[c].at = callback[c].at /\ callback'[c].user = callback[c].user
              /\ \/ callback[c].pc = "vouched" /\ callback'[c].pc = "known"
                 \/ callback[c].pc = "refusing" /\ callback'[c].pc = "deleting"
    <3>1. CASE EnsureUser(c)
      BY <3>1 DEF EnsureUser, Becomes, SignInInv, Shapes
    <3>2. CASE \E arrives \in BOOLEAN : SignedIn(c, arrives)
      BY <3>2 DEF SignedIn, IsOver, Over, NotAnswering, SignInInv, Shapes
    <3>3. CASE RefusalSees(c)
      BY <3>3 DEF RefusalSees, SignInInv, Shapes
    <3> QED
      BY <1>5, <3>1, <3>2, <3>3
  <2>3. NoFurther
    BY <2>2 DEF NoFurther, InProgress
  <2> QED
    BY <2>1, <2>3, MeantStays DEF SessionsStay
<1>6. ASSUME NEW c \in Callbacks, RefusalDeletes(c)
      PROVE  MeantInv'
  <2>1. /\ UNCHANGED <<server, login>>
        /\ DeleteCredentials(callback[c].saw)
        /\ SawSessions(callback[c].saw)
    BY <1>6 DEF RefusalDeletes, deploymentVars, SignInInv, Sightings
  <2>2. NoFurther
    BY <1>6 DEF RefusalDeletes, IsOver, Over, NotAnswering, NoFurther, SignInInv, Shapes
  <2> QED
    BY <2>1, <2>2, DeletesStay, MeantStays
<1> QED
  BY <1>1, <1>2, <1>3, <1>4, <1>5, <1>6 DEF SigningIn

LEMMA NextMeant == SignInInv /\ MeantInv /\ [Next]_vars => MeantInv'
<1> SUFFICES ASSUME SignInInv, MeantInv, [Next]_vars
             PROVE  MeantInv'
  OBVIOUS
<1>1. CASE SigningIn
  BY <1>1, SigningInMeant
<1>2. ASSUME UNCHANGED <<server, login, callback>>, SessionsStay
      PROVE  MeantInv'
  BY <1>2, MeantStays DEF NoFurther, InProgress
<1>3. CASE Asking
  <2>1. UNCHANGED <<server, login, callback>>
    BY <1>3 DEF Asking, Ask, Check, CheckSees, CheckDeletes, Reads, MintToken, RevokeToken,
                MintPairing, Manage, Claim, SignOut, EndDevices, tableVars, deploymentVars
  <2>2. \/ UNCHANGED session
        \/ \E r \in Requests : CheckDeletes(r)
        \/ \E b \in Browsers, p \in Processes : SignOut(b, p)
    BY <1>3 DEF Asking, Ask, Check, CheckSees, Reads, MintToken, RevokeToken,
                MintPairing, Manage, Claim, EndDevices, tableVars
  <2>3. CASE UNCHANGED session
    BY <1>2, <2>1, <2>3 DEF SessionsStay
  <2>4. ASSUME NEW r \in Requests, CheckDeletes(r)
        PROVE  MeantInv'
    <3>1. DeleteCredentials(request[r].saw) /\ SawSessions(request[r].saw)
      BY <2>4 DEF CheckDeletes, SignInInv, Sightings
    <3> QED
      BY <1>2, <2>1, <3>1, DeletesStay
  <2>5. ASSUME NEW b \in Browsers, NEW p \in Processes, SignOut(b, p)
        PROVE  MeantInv'
    <3>1. SessionsStay
      BY <2>5 DEF SignOut, DeleteUserSession, NoSession, SessionsStay, SignInInv, Shapes
    <3> QED
      BY <1>2, <2>1, <3>1
  <2> QED
    BY <2>2, <2>3, <2>4, <2>5
<1>4. CASE Deployment
  <2>1. ASSUME NEW p \in Processes, Stop(p)
        PROVE  MeantInv'
    <3>1. /\ UNCHANGED <<login, session>>
          /\ server' = [server EXCEPT ![p] = None]
          /\ callback' = [c \in Callbacks |-> IF callback[c].at = p THEN Over(c) ELSE callback[c]]
      BY <2>1 DEF Stop, tableVars
    <3>2. Configured'
      BY <3>1 DEF MeantInv, Configured, InProgress, Over, NotAnswering
    <3>3. WithTheirOwn'
      BY <3>1 DEF MeantInv, WithTheirOwn
    <3>4. \A c \in Callbacks : callback'[c].pc \in {"vouched", "known", "made"} =>
            callback'[c] = callback[c]
      BY <3>1 DEF Over, NotAnswering
    <3>5. LetInRightly'
      BY <3>1, <3>4 DEF MeantInv, LetInRightly, MeantFor
    <3> QED
      BY <3>2, <3>3, <3>5 DEF MeantInv
  <2>2. ASSUME NEW p \in Processes, NEW file \in Files, Start(p, file)
        PROVE  MeantInv'
    <3>1. /\ UNCHANGED <<login, session, callback>> /\ server[p] = None
          /\ Parses(file) /\ server' = [server EXCEPT ![p] = ConfigOf(file)]
      BY <2>2 DEF Start, tableVars
    <3>2. Configured'
      <4>1. \A c \in Callbacks : InProgress(callback[c]) => callback[c].at # p
        BY <3>1 DEF MeantInv, Configured
      <4> QED
        BY <3>1, <4>1 DEF MeantInv, Configured, InProgress
    <3>3. WithTheirOwn' /\ LetInRightly'
      BY <3>1 DEF MeantInv, WithTheirOwn, LetInRightly, MeantFor
    <3> QED
      BY <3>2, <3>3 DEF MeantInv
  <2> QED
    BY <1>4, <2>1, <2>2 DEF Deployment
<1>5. CASE Tick
  <2>1. /\ server' = server
        /\ login' = [l \in Logins |-> [login[l] EXCEPT !.left = OneLess(@)]]
        /\ session' = [c \in Callbacks |->
                         [session[c] EXCEPT !.left = OneLess(@), !.young = OneLess(@)]]
        /\ callback' = [c \in Callbacks |->
                          IF InProgress(callback[c]) THEN [callback[c] EXCEPT !.age = @ + 1]
                          ELSE callback[c]]
    BY <1>5 DEF Tick, TablesAge
  <2>2. NoFurther /\ SessionsStay
    BY <2>1 DEF NoFurther, SessionsStay, InProgress, SignInInv, Shapes
  <2> QED
    BY <2>1, <2>2, MeantStays DEF SignInInv, Shapes
<1>6. CASE UNCHANGED vars
  <2>1. UNCHANGED <<server, login, session, callback>>
    BY <1>6 DEF vars, tableVars, deploymentVars
  <2> QED
    BY <1>2, <2>1 DEF SessionsStay
<1> QED
  BY <1>1, <1>3, <1>4, <1>5, <1>6 DEF Next

\* Nobody ever has a session unless an entry of the file means them: whatever a provider says of
\* an account, whatever the operator writes, and however the checks and the restarts interleave.
THEOREM OnlyThoseMeantAlways == AccessSpec => []OnlyThoseMeant
<1>1. Init => SignInInv /\ MeantInv
  BY InitSignIn, InitMeant
<1>2. SignInInv /\ MeantInv /\ [Next]_vars => (SignInInv /\ MeantInv)'
  BY NextSignIn, NextMeant
<1>3. MeantInv => OnlyThoseMeant
  BY DEF MeantInv, LetInRightly, MeantFor, OnlyThoseMeant
<1> QED
  BY <1>1, <1>2, <1>3, PTL DEF AccessSpec

-----------------------------------------------------------------------------
(* What a step may do to each table                                        *)

SessionMoves ==
  \/ UNCHANGED session
  \/ \E c \in Callbacks : MakeSession(c)
  \/ \E rows : DeleteCredentials(rows)
  \/ \E b \in Browsers, p \in Processes : SignOut(b, p)
  \/ Tick

LoginMoves ==
  \/ UNCHANGED login
  \/ \E b \in Browsers, l \in Logins, p \in Processes, d \in Discoveries :
       \E who \in People : Begin(b, l, who, p, d)
  \/ \E l \in Logins : TakePendingLogin(l)
  \/ Tick

TokenMoves ==
  \/ UNCHANGED token
  \/ \E r \in Requests, t \in Tokens : MintToken(r, t) \/ RevokeToken(r, t)
  \/ \E rows : DeleteCredentials(rows)

PairingMoves ==
  \/ UNCHANGED pairingVars
  \/ \E p \in Codes : \/ \E right \in BOOLEAN : ApprovePairing(p, right)
                      \/ DeletePairing(p)
                      \/ RemoveDevice(p)
                      \/ ClaimPairing(p)
  \/ \E r \in Requests, p \in Codes : MintPairing(r, p)
  \/ \E which \in SUBSET Codes : DeleteDeviceSessions(which) /\ UNCHANGED pairing
  \/ \E rows : DeleteCredentials(rows)
  \/ RowsAge

SaidMoves ==
  \/ UNCHANGED said
  \/ \E c \in Callbacks : EnsureUser(c)

PassedMoves ==
  \/ UNCHANGED passed
  \/ \E r \in Requests : Check(r)
  \/ \E p \in Processes : Stop(p)
  \/ Tick

SigningInDoes ==
  \/ \E b \in Browsers, l \in Logins, p \in Processes, d \in Discoveries :
       \E who \in People : Begin(b, l, who, p, d)
  \/ \E c \in Callbacks :
       \/ \E b \in Browsers, l \in Logins, p \in Processes : Callback(c, b, l, p)
       \/ \E discovery, secret_set, answer, account, sound, nonce :
            /\ account \in UNION {Accounts[who] : who \in {callback[c].user} \cap People}
            /\ Exchange(c, discovery, secret_set, answer, account, sound, nonce)
       \/ EnsureUser(c)
       \/ MakeSession(c)
       \/ \E arrives \in BOOLEAN : SignedIn(c, arrives)
       \/ RefusalSees(c)
       \/ RefusalDeletes(c)

LEMMA SigningInIs == SigningIn => SigningInDoes
  BY DEF SigningIn, SigningInDoes

LEMMA TickTables ==
  ASSUME Tick
  PROVE  RowsAge /\ UNCHANGED <<said, token>>
<1>1. TablesAge
  BY Zenon DEF Tick
<1> QED
  BY <1>1, Zenon DEF TablesAge

\* What is left of every life is one tick less, and every pass is one tick older.
LEMMA TickColumns ==
  ASSUME SignInInv, Tick
  PROVE  /\ \A l \in Logins : /\ login'[l].state = login[l].state
                              /\ login'[l].browser = login[l].browser
                              /\ login'[l].left = OneLess(login[l].left)
         /\ \A c \in Callbacks : /\ session'[c].state = session[c].state
                                 /\ session'[c].user = session[c].user
                                 /\ session'[c].left = OneLess(session[c].left)
                                 /\ session'[c].young = OneLess(session[c].young)
<1>1. /\ login' = [l \in Logins |-> [login[l] EXCEPT !.left = OneLess(@)]]
      /\ session' = [c \in Callbacks |->
                       [session[c] EXCEPT !.left = OneLess(@), !.young = OneLess(@)]]
  BY Zenon DEF Tick, TablesAge
<1>2. \A l \in Logins : DOMAIN login[l] = {"state", "provider", "browser", "who", "left"}
  BY DEF SignInInv, Shapes
<1>3. \A c \in Callbacks : DOMAIN session[c] = {"state", "user", "left", "young"}
  BY DEF SignInInv, Shapes
<1> QED
  BY <1>1, <1>2, <1>3

LEMMA TablesMove ==
  ASSUME [Next]_vars
  PROVE  LoginMoves /\ SessionMoves /\ TokenMoves /\ PairingMoves /\ SaidMoves /\ PassedMoves
<1>1. CASE SigningIn
  <2>1. SigningInDoes
    BY <1>1, SigningInIs
  <2>2. ASSUME NEW b \in Browsers, NEW l \in Logins, NEW p \in Processes, NEW d \in Discoveries,
               NEW who \in People, Begin(b, l, who, p, d)
        PROVE  LoginMoves /\ UNCHANGED <<session, token, pairingVars, said, passed>>
    <3>1. UNCHANGED <<session, token, pairingVars, said, passed>>
      BY <2>2 DEF Begin
    <3> QED
      BY <2>2, <3>1 DEF LoginMoves
  <2>3. ASSUME NEW c \in Callbacks, NEW b \in Browsers, NEW l \in Logins, NEW p \in Processes,
               Callback(c, b, l, p)
        PROVE  LoginMoves /\ UNCHANGED <<session, token, pairingVars, said, passed>>
    BY <2>3 DEF Callback, LoginMoves
  <2>4. ASSUME NEW c \in Callbacks, NEW discovery, NEW secret_set, NEW answer, NEW account,
               NEW sound, NEW nonce,
               Exchange(c, discovery, secret_set, answer, account, sound, nonce)
        PROVE  UNCHANGED <<login, session, token, pairingVars, said, passed>>
    BY <2>4 DEF Exchange, tableVars
  <2>5. ASSUME NEW c \in Callbacks, EnsureUser(c)
        PROVE  SaidMoves /\ UNCHANGED <<login, session, token, pairingVars, passed>>
    BY <2>5 DEF EnsureUser, SaidMoves
  <2>6. ASSUME NEW c \in Callbacks, MakeSession(c)
        PROVE  SessionMoves /\ UNCHANGED <<login, token, pairingVars, said, passed>>
    BY <2>6 DEF MakeSession, SessionMoves
  <2>7. ASSUME NEW c \in Callbacks, NEW arrives, SignedIn(c, arrives) \/ RefusalSees(c)
        PROVE  UNCHANGED <<login, session, token, pairingVars, said, passed>>
    BY <2>7 DEF SignedIn, RefusalSees, tableVars
  <2>8. ASSUME NEW c \in Callbacks, RefusalDeletes(c)
        PROVE  (\E rows : DeleteCredentials(rows)) /\ UNCHANGED <<login, said, passed>>
    BY <2>8 DEF RefusalDeletes
  <2> QED
    BY <2>1, <2>2, <2>3, <2>4, <2>5, <2>6, <2>7, <2>8
    DEF SigningInDoes, LoginMoves, SessionMoves, TokenMoves, PairingMoves, SaidMoves, PassedMoves
<1>2. CASE Asking
  <2>1. ASSUME NEW r \in Requests,
               \/ \E p \in Processes, row \in Credential : Ask(r, p, row)
               \/ CheckSees(r)
               \/ Reads(r)
        PROVE  UNCHANGED <<login, session, token, pairingVars, said, passed>>
    <3>1. \A p, row : Ask(r, p, row) => UNCHANGED <<tableVars, passed>>
      BY DEF Ask
    <3>2. CheckSees(r) \/ Reads(r) => UNCHANGED <<tableVars, passed>>
      BY DEF CheckSees, Reads
    <3> QED
      BY <2>1, <3>1, <3>2 DEF tableVars
  <2>2. ASSUME NEW r \in Requests, Check(r)
        PROVE  PassedMoves /\ UNCHANGED <<login, session, token, pairingVars, said>>
    BY <2>2 DEF Check, tableVars, PassedMoves
  <2>3. ASSUME NEW r \in Requests, CheckDeletes(r)
        PROVE  (\E rows : DeleteCredentials(rows)) /\ UNCHANGED <<login, said, passed>>
    BY <2>3 DEF CheckDeletes
  <2>4. ASSUME NEW r \in Requests, NEW t \in Tokens, MintToken(r, t) \/ RevokeToken(r, t)
        PROVE  TokenMoves /\ UNCHANGED <<login, session, pairingVars, said, passed>>
    BY <2>4 DEF MintToken, RevokeToken, TokenMoves
  <2>5. ASSUME NEW r \in Requests, NEW p \in Codes,
               MintPairing(r, p) \/ \E right \in BOOLEAN : Manage(r, p, right)
        PROVE  PairingMoves /\ UNCHANGED <<login, session, token, said, passed>>
    BY <2>5 DEF MintPairing, Manage, PairingMoves
  <2>6. ASSUME NEW p \in Codes, Claim(p)
        PROVE  PairingMoves /\ UNCHANGED <<login, session, token, said, passed>>
    BY <2>6 DEF Claim, PairingMoves
  <2>7. ASSUME NEW b \in Browsers, NEW p \in Processes, SignOut(b, p)
        PROVE  SessionMoves /\ UNCHANGED <<login, token, pairingVars, said, passed>>
    BY <2>7 DEF SignOut, SessionMoves
  <2>8. ASSUME NEW which \in SUBSET Codes, EndDevices(which)
        PROVE  PairingMoves /\ UNCHANGED <<login, session, token, said, passed>>
    BY <2>8 DEF EndDevices, PairingMoves
  <2> QED
    BY <1>2, <2>1, <2>2, <2>3, <2>4, <2>5, <2>6, <2>7, <2>8
    DEF Asking, LoginMoves, SessionMoves, TokenMoves, PairingMoves, SaidMoves, PassedMoves
<1>3. CASE Deployment
  <2>1. ASSUME NEW p \in Processes, Stop(p)
        PROVE  UNCHANGED tableVars /\ PassedMoves
    BY <2>1 DEF Stop, PassedMoves
  <2>2. ASSUME NEW p \in Processes, NEW file \in Files, Start(p, file)
        PROVE  UNCHANGED tableVars /\ PassedMoves
    BY <2>2 DEF Start, PassedMoves
  <2>3. UNCHANGED <<login, session, token, pairingVars, said>> /\ PassedMoves
    BY <1>3, <2>1, <2>2 DEF Deployment, tableVars
  <2> QED
    BY <2>3 DEF LoginMoves, SessionMoves, TokenMoves, PairingMoves, SaidMoves
<1>4. CASE Tick
  <2>1. RowsAge /\ UNCHANGED <<said, token>>
    BY <1>4, TickTables
  <2> QED
    BY <1>4, <2>1 DEF LoginMoves, SessionMoves, TokenMoves, PairingMoves, SaidMoves, PassedMoves
<1>5. CASE UNCHANGED vars
  <2>1. UNCHANGED <<login, session, token, pairingVars, said, passed>>
    BY <1>5 DEF vars, tableVars
  <2> QED
    BY <2>1 DEF LoginMoves, SessionMoves, TokenMoves, PairingMoves, SaidMoves, PassedMoves
<1> QED
  BY <1>1, <1>2, <1>3, <1>4, <1>5 DEF Next

-----------------------------------------------------------------------------
(* How long a pass of the list is believed                                 *)

\* A credential that is or was somebody's, and whose it was.
Known == {row \in Credential : row[1] = "session" => session[row[2]].state # "none"}

Whose ==
  [row \in Credential |->
     IF row[1] = "session" THEN login[callback[row[2]].login].who ELSE OwnerOf[row[2]]]

\* How long a list has been without somebody is counted, from nothing while it has them.
Counted ==
  /\ DOMAIN out = Processes
  /\ \A p \in Processes : DOMAIN out[p] = People
  /\ \A p \in Processes, u \in People :
       /\ out[p][u] \in 0..Never
       /\ server[p] = None \/ said[u] = None \/ LetsIn(server[p], u, said[u]) => out[p][u] = 0

\* A request is of whoever has its credential. What it read of them was so when it began.
Asked ==
  /\ DOMAIN request = Requests
  /\ \A r \in Requests :
       LET q == request[r]
       IN  InProgress(q) =>
             /\ q.at \in Processes /\ server[q.at] # None
             /\ q.by \in Known /\ q.user = Whose[q.by]
             /\ q.age \in 0..MaxWait
             /\ q.pc = "read" /\ LetsIn(server[q.at], q.user, q.claims)
                  => out[q.at][q.user] <= q.age

\* A pass is at least as long ago as the list has been without its user.
PassedWhileIn ==
  /\ DOMAIN passed = Processes
  /\ \A p \in Processes : DOMAIN passed[p] = Credential
  /\ \A p \in Processes, row \in Credential :
       /\ passed[p][row] \in 0..Never
       /\ row \notin Known => passed[p][row] = Never
       /\ row \in Known => out[p][Whose[row]] <= passed[p][row]

PassInv == Counted /\ Asked /\ PassedWhileIn

LEMMA NeverIsNat ==
  Never \in Nat /\ CheckLife \in Nat /\ MaxWait \in Nat /\ Never = CheckLife + MaxWait
  BY AccessAssumption DEF Never

TheirsArePeople == \A row \in Known : Whose[row] \in People

LEMMA WhoseIsPeople ==
  ASSUME SignInInv, MeantInv
  PROVE  TheirsArePeople
<1> SUFFICES ASSUME NEW row \in Known
             PROVE  Whose[row] \in People
  BY DEF TheirsArePeople
<1> row \in Credential
  BY DEF Known
<1>1. CASE row[1] = "session"
  <2>1. row[2] \in Callbacks
    BY <1>1 DEF Credential
  <2>2. Holds(row[2])
    BY <1>1, <2>1 DEF Known, Holds, HasSession
  <2> QED
    BY <1>1, <2>1, <2>2 DEF Whose, SignInInv, TakenRightly, MeantInv, WithTheirOwn
<1>2. CASE row[1] # "session"
  BY <1>2, CredentialsAssumption DEF Credential, Whose
<1> QED
  BY <1>1, <1>2

LEMMA InitPass == Init => PassInv
<1> SUFFICES ASSUME Init PROVE PassInv
  OBVIOUS
<1>1. Counted
  BY NeverIsNat DEF Init, Counted
<1>2. Asked
  BY DEF Init, Asked, NotAsking, InProgress
<1>3. PassedWhileIn
  <2>1. SignInInv /\ MeantInv
    BY InitSignIn, InitMeant
  <2>2. \A p \in Processes, row \in Credential : passed[p][row] = Never
    BY DEF Init
  <2>3. \A p \in Processes, u \in People : out[p][u] = 0
    BY DEF Init
  <2> QED
    BY <2>1, <2>2, <2>3, WhoseIsPeople, NeverIsNat DEF Init, PassedWhileIn, TheirsArePeople
<1> QED
  BY <1>1, <1>2, <1>3 DEF PassInv

\* Nobody's session becomes another's, or was never made.
LEMMA TheirsStay ==
  ASSUME SignInInv, [Next]_vars, NEW c \in Callbacks, HasSession(c)
  PROVE  /\ session'[c].state # "none"
         /\ callback'[c].login = callback[c].login
         /\ login'[callback[c].login].who = login[callback[c].login].who
<1> USE DEF SignInInv
<1> DEFINE l == callback[c].login
<1>1. /\ callback[c].pc \in {"made", "over"}
      /\ l \in Logins /\ login[l].state = "gone"
  BY DEF TakenRightly, Holds
<1>2. session'[c].state # "none"
  <2>1. CASE UNCHANGED session
    BY <2>1 DEF HasSession
  <2>2. ASSUME NEW d \in Callbacks, MakeSession(d)
        PROVE  session'[c].state # "none"
    BY <2>2 DEF MakeSession, AddUserSession, HasSession, Shapes
  <2>3. ASSUME NEW rows, DeleteCredentials(rows)
        PROVE  session'[c].state # "none"
    BY <2>3 DEF DeleteCredentials, NoSession, HasSession
  <2>4. ASSUME NEW b \in Browsers, NEW p \in Processes, SignOut(b, p)
        PROVE  session'[c].state # "none"
    BY <2>4 DEF SignOut, DeleteUserSession, NoSession, HasSession, Shapes
  <2>5. CASE Tick
    BY <2>5 DEF Tick, TablesAge, HasSession, Shapes
  <2> QED
    BY <2>1, <2>2, <2>3, <2>4, <2>5, TablesMove DEF SessionMoves
<1>3. callback'[c].login = callback[c].login
  <2>1. CASE UNCHANGED callback
    BY <2>1
  <2>2. ASSUME NEW d \in Callbacks, NEW b \in Browsers, NEW m \in Logins, NEW p \in Processes,
               Callback(d, b, m, p)
        PROVE  callback'[c].login = callback[c].login
    BY <1>1, <2>2 DEF Callback, Shapes
  <2>3. ASSUME NEW d \in Callbacks, NEW discovery, NEW secret_set, NEW answer, NEW account,
               NEW sound, NEW nonce,
               Exchange(d, discovery, secret_set, answer, account, sound, nonce)
        PROVE  callback'[c].login = callback[c].login
    <3>1. d # c
      BY <1>1, <2>3 DEF Exchange
    <3>2. \E to : callback' = [callback EXCEPT ![d] = to]
      BY <2>3 DEF Exchange, IsOver
    <3> QED
      BY <3>1, <3>2 DEF Shapes
  <2>4. ASSUME NEW d \in Callbacks,
               \/ EnsureUser(d)
               \/ MakeSession(d)
               \/ \E arrives \in BOOLEAN : SignedIn(d, arrives)
               \/ RefusalSees(d)
               \/ RefusalDeletes(d)
        PROVE  callback'[c].login = callback[c].login
    <3>1. CASE EnsureUser(d) \/ MakeSession(d)
      BY <3>1 DEF EnsureUser, MakeSession, Becomes, Shapes
    <3>2. CASE RefusalSees(d)
      BY <3>2 DEF RefusalSees, Shapes
    <3>3. CASE RefusalDeletes(d) \/ \E arrives \in BOOLEAN : SignedIn(d, arrives)
      <4>1. callback' = [callback EXCEPT ![d] = Over(d)]
        BY <3>3 DEF SignedIn, RefusalDeletes, IsOver
      <4> QED
        BY <4>1 DEF Over, NotAnswering, Shapes
    <3> QED
      BY <2>4, <3>1, <3>2, <3>3
  <2>5. ASSUME NEW p \in Processes, Stop(p)
        PROVE  callback'[c].login = callback[c].login
    BY <2>5 DEF Stop, Over, NotAnswering
  <2>6. CASE Tick
    BY <2>6 DEF Tick, Shapes
  <2>7. CASE Asking
    BY <2>1, <2>7 DEF Asking, Ask, Check, CheckSees, CheckDeletes, Reads, MintToken, RevokeToken,
                      MintPairing, Manage, Claim, SignOut, EndDevices
  <2> QED
    BY <2>1, <2>2, <2>3, <2>4, <2>5, <2>6, <2>7
    DEF Next, SigningIn, Begin, Deployment, Start, vars
<1>4. login'[l].who = login[l].who
  <2>1. CASE UNCHANGED login
    BY <2>1
  <2>2. ASSUME NEW b \in Browsers, NEW m \in Logins, NEW p \in Processes, NEW d,
               NEW who \in People, Begin(b, m, who, p, d)
        PROVE  login'[l].who = login[l].who
    BY <1>1, <2>2 DEF Begin, AddPendingLogin, Pending, Shapes
  <2>3. ASSUME NEW m \in Logins, TakePendingLogin(m)
        PROVE  login'[l].who = login[l].who
    BY <1>1, <2>3 DEF TakePendingLogin, Pending, Shapes
  <2>4. CASE Tick
    BY <1>1, <2>4 DEF Tick, TablesAge, Shapes
  <2> QED
    BY <2>1, <2>2, <2>3, <2>4, TablesMove DEF LoginMoves
<1> QED
  BY <1>2, <1>3, <1>4

\* So a credential stays whose it is.
LEMMA WhoseStays ==
  ASSUME SignInInv, [Next]_vars, NEW row \in Known
  PROVE  row \in Known' /\ Whose'[row] = Whose[row]
<1> row \in Credential
  BY DEF Known
<1>1. CASE row[1] = "session"
  <2>1. row[2] \in Callbacks /\ HasSession(row[2])
    BY <1>1 DEF Credential, Known, HasSession
  <2> QED
    BY <1>1, <2>1, TheirsStay DEF Known, Whose
<1>2. CASE row[1] # "session"
  BY <1>2 DEF Known, Whose
<1> QED
  BY <1>1, <1>2

\* A step that asks nobody in, lets nobody in and is not the clock's.
LEMMA PassStays ==
  ASSUME SignInInv, TheirsArePeople', PassInv, [Next]_vars, Counted',
         \A p \in Processes, u \in People : out'[p][u] <= out[p][u],
         DOMAIN passed' = Processes,
         \A p \in Processes : DOMAIN passed'[p] = Credential,
         \A p \in Processes, row \in Credential : passed'[p][row] \in {passed[p][row], Never},
         DOMAIN request' = Requests,
         \A r \in Requests :
           \/ ~InProgress(request'[r])
           \/ /\ InProgress(request[r])
              /\ request'[r].at = request[r].at /\ request'[r].by = request[r].by
              /\ request'[r].user = request[r].user /\ request'[r].age = request[r].age
              /\ request'[r].claims = request[r].claims
              /\ request'[r].pc = "read" => request[r].pc = "read"
              /\ server'[request[r].at] = server[request[r].at]
  PROVE  PassInv'
<1>1. \A row \in Known : row \in Known' /\ Whose'[row] = Whose[row]
  BY WhoseStays
<1>2. Asked'
  <2> SUFFICES ASSUME NEW r \in Requests, InProgress(request'[r])
               PROVE  /\ request'[r].at \in Processes /\ server'[request'[r].at] # None
                      /\ request'[r].by \in Known' /\ request'[r].user = Whose'[request'[r].by]
                      /\ request'[r].age \in 0..MaxWait
                      /\ request'[r].pc = "read"
                         /\ LetsIn(server'[request'[r].at], request'[r].user, request'[r].claims)
                           => out'[request'[r].at][request'[r].user] <= request'[r].age
    BY DEF Asked
  <2> DEFINE q == request[r]
  <2>1. /\ InProgress(q)
        /\ request'[r].at = q.at /\ request'[r].by = q.by /\ request'[r].user = q.user
        /\ request'[r].age = q.age /\ request'[r].claims = q.claims
        /\ request'[r].pc = "read" => q.pc = "read"
        /\ server'[q.at] = server[q.at]
    BY DEF InProgress
  <2>2. /\ q.at \in Processes /\ server[q.at] # None
        /\ q.by \in Known /\ q.user = Whose[q.by]
        /\ q.age \in 0..MaxWait
        /\ q.pc = "read" /\ LetsIn(server[q.at], q.user, q.claims) => out[q.at][q.user] <= q.age
    BY <2>1 DEF PassInv, Asked
  <2>3. q.by \in Known' /\ q.user = Whose'[q.by] /\ q.user \in People
    BY <1>1, <2>2 DEF TheirsArePeople
  <2>4. /\ out'[q.at][q.user] <= out[q.at][q.user]
        /\ out'[q.at][q.user] \in Nat /\ out[q.at][q.user] \in Nat
    BY <2>2, <2>3, NeverIsNat DEF PassInv, Counted
  <2>5. q.pc = "read" /\ LetsIn(server[q.at], q.user, q.claims) => out'[q.at][q.user] <= q.age
    BY <2>2, <2>4, NeverIsNat
  <2> QED
    BY <2>1, <2>2, <2>3, <2>5
<1>3. PassedWhileIn'
  <2> SUFFICES ASSUME NEW p \in Processes, NEW row \in Credential
               PROVE  /\ passed'[p][row] \in 0..Never
                      /\ row \notin Known' => passed'[p][row] = Never
                      /\ row \in Known' => out'[p][Whose'[row]] <= passed'[p][row]
    BY DEF PassedWhileIn
  <2>1. /\ passed[p][row] \in 0..Never
        /\ row \notin Known => passed[p][row] = Never
        /\ row \in Known => out[p][Whose[row]] <= passed[p][row]
    BY DEF PassInv, PassedWhileIn
  <2>2. passed'[p][row] \in {passed[p][row], Never}
    OBVIOUS
  <2>3. ASSUME row \in Known'
        PROVE  out'[p][Whose'[row]] <= passed'[p][row]
    <3>1. Whose'[row] \in People
      BY <2>3 DEF TheirsArePeople
    <3>2. /\ out'[p][Whose'[row]] \in 0..Never /\ out[p][Whose'[row]] \in 0..Never
          /\ out'[p][Whose'[row]] <= out[p][Whose'[row]]
      BY <3>1 DEF PassInv, Counted
    <3>3. CASE passed'[p][row] = Never
      BY <3>2, <3>3, NeverIsNat
    <3>4. CASE passed'[p][row] = passed[p][row] /\ row \in Known
      BY <1>1, <2>1, <3>2, <3>4, NeverIsNat
    <3> QED
      BY <2>1, <2>2, <3>3, <3>4
  <2> QED
    BY <1>1, <2>1, <2>2, <2>3, NeverIsNat
<1> QED
  BY <1>2, <1>3 DEF PassInv

\* Until the clock ticks, a request that has just read who it is for is as new as its pass.
LEMMA AskPass ==
  ASSUME SignInInv, MeantInv, TheirsArePeople', PassInv, [Next]_vars,
         NEW r \in Requests, NEW p \in Processes, NEW row \in Credential, Ask(r, p, row)
  PROVE  PassInv'
<1>1. /\ UNCHANGED <<said, login, session, callback, server, out, passed>>
      /\ server[p] # None /\ Exists(row)
      /\ \A q \in Requests : q # r => request'[q] = request[q]
      /\ DOMAIN request' = Requests
      /\ request'[r].pc = "read" /\ request'[r].at = p /\ request'[r].by = row
      /\ request'[r].user = UserOf(row) /\ request'[r].claims = said[UserOf(row)]
      /\ request'[r].age = 0
  BY DEF Ask, Resolves, NotAsking, tableVars, deploymentVars, PassInv, Asked
<1>2. Known' = Known /\ Whose' = Whose
  BY <1>1 DEF Known, Whose
<1>3. row \in Known /\ UserOf(row) = Whose[row]
  BY <1>1 DEF Exists, UserOf, Known, Whose, Credential, SignInInv, TakenRightly
<1>4. Whose[row] \in People
  BY <1>3, WhoseIsPeople DEF TheirsArePeople
<1>5. LetsIn(server[p], Whose[row], said[Whose[row]]) => out[p][Whose[row]] = 0
  BY <1>4 DEF PassInv, Counted
<1>6. Counted' /\ PassedWhileIn'
  BY <1>1, <1>2 DEF PassInv, Counted, PassedWhileIn
<1>7. Asked'
  <2> SUFFICES ASSUME NEW q \in Requests, InProgress(request'[q])
               PROVE  /\ request'[q].at \in Processes /\ server'[request'[q].at] # None
                      /\ request'[q].by \in Known' /\ request'[q].user = Whose'[request'[q].by]
                      /\ request'[q].age \in 0..MaxWait
                      /\ request'[q].pc = "read"
                         /\ LetsIn(server'[request'[q].at], request'[q].user, request'[q].claims)
                           => out'[request'[q].at][request'[q].user] <= request'[q].age
    BY <1>1 DEF Asked
  <2>1. CASE q = r
    BY <1>1, <1>2, <1>3, <1>5, <2>1, NeverIsNat
  <2>2. CASE q # r
    BY <1>1, <1>2, <2>2 DEF PassInv, Asked
  <2> QED
    BY <2>1, <2>2
<1> QED
  BY <1>6, <1>7 DEF PassInv

\* A pass is recorded for whom the list let in when the request began.
LEMMA CheckPass ==
  ASSUME SignInInv, MeantInv, TheirsArePeople', PassInv, [Next]_vars,
         NEW r \in Requests, Check(r)
  PROVE  PassInv'
<1> DEFINE q == request[r]
           in == LetsIn(server[q.at], q.user, q.claims)
<1>1. /\ UNCHANGED <<said, login, session, callback, server, out>>
      /\ q.pc = "read"
      /\ \/ passed' = passed
         \/ in /\ passed' = [passed EXCEPT ![q.at][q.by] = q.age]
      /\ \E pc : pc # "read" /\ request' = [request EXCEPT ![r].pc = pc]
  <2>1. May(q) # "read"
    BY DEF May
  <2> QED
    <3>1. request' = [request EXCEPT ![r].pc = IF Lately(q) \/ in THEN May(q) ELSE "refusing"]
      BY DEF Check
    <3>2. UNCHANGED <<said, login, session, callback, server, out>> /\ q.pc = "read"
      BY DEF Check, tableVars, deploymentVars
    <3>3. \/ passed' = passed
          \/ in /\ passed' = [passed EXCEPT ![q.at][q.by] = q.age]
      BY DEF Check, Record
    <3>4. (IF Lately(q) \/ in THEN May(q) ELSE "refusing") # "read"
      BY <2>1
    <3> HIDE DEF in
    <3> QED
      BY <3>1, <3>2, <3>3, <3>4
<1>2. Known' = Known /\ Whose' = Whose
  BY <1>1 DEF Known, Whose
<1>3. /\ q.at \in Processes /\ q.by \in Known /\ q.user = Whose[q.by] /\ q.age \in 0..MaxWait
      /\ in => out[q.at][q.user] <= q.age
  BY <1>1 DEF PassInv, Asked, InProgress
<1>4. Counted'
  BY <1>1 DEF PassInv, Counted
<1>5. Asked'
  BY <1>1, <1>2 DEF PassInv, Asked, InProgress
<1>6. PassedWhileIn'
  <2>1. q.by \in Credential
    BY <1>3 DEF Known
  <2>2. CASE passed' = passed
    BY <1>1, <1>2, <2>2 DEF PassInv, PassedWhileIn
  <2>3. CASE in /\ passed' = [passed EXCEPT ![q.at][q.by] = q.age]
    <3>1. /\ DOMAIN passed' = Processes
          /\ \A p \in Processes : DOMAIN passed'[p] = Credential
          /\ \A p \in Processes, row \in Credential :
               passed'[p][row] = IF p = q.at /\ row = q.by THEN q.age ELSE passed[p][row]
      BY <1>3, <2>1, <2>3 DEF PassInv, PassedWhileIn
    <3>2. q.age \in 0..Never
      BY <1>3, NeverIsNat
    <3> QED
      BY <1>1, <1>2, <1>3, <2>3, <3>1, <3>2 DEF PassInv, PassedWhileIn
  <2> QED
    BY <1>1, <2>2, <2>3
<1> QED
  BY <1>4, <1>5, <1>6 DEF PassInv

\* How long each list has been without somebody, after a step.
LEMMA OutCounts ==
  ASSUME NEW longer, \A p \in Processes, u \in People : longer[p][u] \in 0..Never,
         out' = OutWith(server', said', longer)
  PROVE  Counted' /\ \A p \in Processes, u \in People : out'[p][u] \in {0, longer[p][u]}
<1>1. DOMAIN out' = Processes /\ \A p \in Processes : DOMAIN out'[p] = People
  BY DEF OutWith
<1>2. \A p \in Processes, u \in People :
        out'[p][u] = IF server'[p] = None \/ said'[u] = None \/ LetsIn(server'[p], u, said'[u])
                     THEN 0 ELSE longer[p][u]
  BY DEF OutWith, LetsIn
<1>3. Counted'
  BY <1>1, <1>2, NeverIsNat DEF Counted
<1> QED
  BY <1>2, <1>3

\* A step of sign-in's that leaves the lists and what they are asked about as they were.
LEMMA QuietPass ==
  ASSUME SignInInv, TheirsArePeople', PassInv, [Next]_vars,
         UNCHANGED <<server, said, out, passed>>,
         \/ UNCHANGED request
         \/ \E r \in Requests : \E to :
              /\ request' = [request EXCEPT ![r] = to]
              /\ \/ to.pc = "idle"
                 \/ /\ InProgress(request[r]) /\ to.pc # "read"
                    /\ to.at = request[r].at /\ to.by = request[r].by /\ to.user = request[r].user
                    /\ to.age = request[r].age /\ to.claims = request[r].claims
  PROVE  PassInv'
<1>1. Counted'
  BY DEF PassInv, Counted
<1>2. \A p \in Processes, u \in People : out'[p][u] <= out[p][u]
  BY NeverIsNat DEF PassInv, Counted
<1>3. /\ DOMAIN passed' = Processes
      /\ \A p \in Processes : DOMAIN passed'[p] = Credential
      /\ \A p \in Processes, row \in Credential : passed'[p][row] \in {passed[p][row], Never}
      /\ DOMAIN request = Requests
  BY DEF PassInv, PassedWhileIn, Asked
<1>4. DOMAIN request' = Requests
  BY <1>3
<1>5. \A r \in Requests :
        \/ ~InProgress(request'[r])
        \/ /\ InProgress(request[r])
           /\ request'[r].at = request[r].at /\ request'[r].by = request[r].by
           /\ request'[r].user = request[r].user /\ request'[r].age = request[r].age
           /\ request'[r].claims = request[r].claims
           /\ request'[r].pc = "read" => request[r].pc = "read"
           /\ server'[request[r].at] = server[request[r].at]
  BY <1>3 DEF InProgress
<1> QED
  BY <1>1, <1>2, <1>3, <1>4, <1>5, PassStays

LEMMA TickPass ==
  ASSUME SignInInv, MeantInv, PassInv, Tick
  PROVE  PassInv'
<1> DEFINE longer == [p \in Processes |-> [u \in People |-> OneMore(out[p][u])]]
<1>1. /\ UNCHANGED <<server, said>>
      /\ \A r \in Requests : InProgress(request[r]) => request[r].age < MaxWait
      /\ passed' = [p \in Processes |-> [row \in Credential |-> OneMore(passed[p][row])]]
      /\ login' = [l \in Logins |-> [login[l] EXCEPT !.left = OneLess(@)]]
      /\ session' = [c \in Callbacks |->
                       [session[c] EXCEPT !.left = OneLess(@), !.young = OneLess(@)]]
      /\ callback' = [c \in Callbacks |->
                        IF InProgress(callback[c]) THEN [callback[c] EXCEPT !.age = @ + 1]
                        ELSE callback[c]]
      /\ request' = [r \in Requests |->
                       IF InProgress(request[r])
                       THEN [request[r] EXCEPT !.age = @ + 1, !.young = OneLess(@)]
                       ELSE request[r]]
      /\ out' = OutWith(server', said', longer)
  BY DEF Tick, TablesAge
<1>2. Known' = Known
  <2>1. \A c \in Callbacks : session'[c].state = session[c].state
    BY <1>1 DEF SignInInv, Shapes
  <2>2. \A row \in Credential : row[1] = "session" => row[2] \in Callbacks
    BY DEF Credential
  <2> QED
    BY <2>1, <2>2 DEF Known
<1>3. \A row \in Known : Whose'[row] = Whose[row]
  <2> SUFFICES ASSUME NEW row \in Known
               PROVE  Whose'[row] = Whose[row]
    OBVIOUS
  <2>1. row \in Credential
    BY DEF Known
  <2>2. CASE row[1] = "session"
    <3>1. row[2] \in Callbacks /\ Holds(row[2])
      BY <2>1, <2>2 DEF Known, Holds, HasSession, Credential
    <3>2. callback[row[2]].login \in Logins
      BY <3>1 DEF SignInInv, TakenRightly
    <3>3. callback'[row[2]].login = callback[row[2]].login
      BY <1>1, <3>1 DEF SignInInv, Shapes
    <3>4. login'[callback[row[2]].login].who = login[callback[row[2]].login].who
      BY <1>1, <3>2 DEF SignInInv, Shapes
    <3> QED
      BY <2>1, <2>2, <3>3, <3>4 DEF Whose
  <2>3. CASE row[1] # "session"
    BY <2>1, <2>3 DEF Whose
  <2> QED
    BY <2>2, <2>3
<1>4. \A n \in 0..Never : OneMore(n) \in 0..Never /\ OneMore(n) <= n + 1
  BY NeverIsNat DEF OneMore
<1>5. \A m, n \in 0..Never : m <= n => OneMore(m) <= OneMore(n)
  BY NeverIsNat DEF OneMore
<1>6. \A p \in Processes, u \in People : longer[p][u] \in 0..Never
  BY <1>4 DEF PassInv, Counted
<1> HIDE DEF longer
<1>7. Counted' /\ \A p \in Processes, u \in People : out'[p][u] \in {0, longer[p][u]}
  BY <1>1, <1>6, OutCounts
<1>8. \A p \in Processes, u \in People : /\ out[p][u] \in 0..Never
                                         /\ out'[p][u] \in {0, OneMore(out[p][u])}
  BY <1>7 DEF PassInv, Counted, longer
<1>9. Asked'
  <2> SUFFICES ASSUME NEW r \in Requests, InProgress(request'[r])
               PROVE  /\ request'[r].at \in Processes /\ server'[request'[r].at] # None
                      /\ request'[r].by \in Known' /\ request'[r].user = Whose'[request'[r].by]
                      /\ request'[r].age \in 0..MaxWait
                      /\ request'[r].pc = "read"
                         /\ LetsIn(server'[request'[r].at], request'[r].user, request'[r].claims)
                           => out'[request'[r].at][request'[r].user] <= request'[r].age
    BY <1>1 DEF Asked
  <2> DEFINE q == request[r]
  <2>1. /\ InProgress(q) /\ q.age < MaxWait
        /\ request'[r].at = q.at /\ request'[r].by = q.by /\ request'[r].user = q.user
        /\ request'[r].claims = q.claims /\ request'[r].pc = q.pc
        /\ request'[r].age = q.age + 1
    BY <1>1 DEF InProgress, SignInInv, Shapes
  <2>2. /\ q.at \in Processes /\ server[q.at] # None
        /\ q.by \in Known /\ q.user = Whose[q.by]
        /\ q.age \in 0..MaxWait
        /\ q.pc = "read" /\ LetsIn(server[q.at], q.user, q.claims) => out[q.at][q.user] <= q.age
    BY <2>1 DEF PassInv, Asked
  <2>3. q.user \in People
    BY <2>2, WhoseIsPeople DEF TheirsArePeople
  <2>4. out'[q.at][q.user] \in 0..Never /\ out'[q.at][q.user] <= out[q.at][q.user] + 1
    BY <1>4, <1>8, <2>2, <2>3, NeverIsNat
  <2>5. /\ request'[r].age \in 0..MaxWait
        /\ out[q.at][q.user] <= q.age => out'[q.at][q.user] <= request'[r].age
    BY <1>8, <2>1, <2>2, <2>3, <2>4, NeverIsNat
  <2>6. LetsIn(server'[request'[r].at], request'[r].user, request'[r].claims)
          <=> LetsIn(server[q.at], q.user, q.claims)
    BY <1>1, <2>1
  <2>7. out'[request'[r].at][request'[r].user] = out'[q.at][q.user]
    BY <2>1
  <2>8. request'[r].at \in Processes /\ server'[request'[r].at] # None
    BY <1>1, <2>1, <2>2
  <2>9. request'[r].by \in Known' /\ request'[r].user = Whose'[request'[r].by]
    BY <1>2, <1>3, <2>1, <2>2
  <2>10. request'[r].pc = "read" /\ LetsIn(server[q.at], q.user, q.claims)
           => out'[q.at][q.user] <= request'[r].age
    BY <2>1, <2>2, <2>5
  <2> QED
    BY <2>5, <2>6, <2>7, <2>8, <2>9, <2>10
<1>10. PassedWhileIn'
  <2>1. /\ DOMAIN passed' = Processes
        /\ \A p \in Processes : DOMAIN passed'[p] = Credential
        /\ \A p \in Processes, row \in Credential : passed'[p][row] = OneMore(passed[p][row])
    BY <1>1
  <2> SUFFICES ASSUME NEW p \in Processes, NEW row \in Credential
               PROVE  /\ passed'[p][row] \in 0..Never
                      /\ row \notin Known' => passed'[p][row] = Never
                      /\ row \in Known' => out'[p][Whose'[row]] <= passed'[p][row]
    BY <2>1 DEF PassedWhileIn
  <2>2. /\ passed[p][row] \in 0..Never
        /\ row \notin Known => passed[p][row] = Never
        /\ row \in Known => out[p][Whose[row]] <= passed[p][row]
    BY DEF PassInv, PassedWhileIn
  <2>3. passed'[p][row] \in 0..Never
    BY <1>4, <2>1, <2>2
  <2>4. row \notin Known' => passed'[p][row] = Never
    BY <1>2, <2>1, <2>2 DEF OneMore
  <2>5. ASSUME row \in Known
        PROVE  out'[p][Whose[row]] <= passed'[p][row]
    <3>1. Whose[row] \in People
      BY <2>5, WhoseIsPeople DEF TheirsArePeople
    <3>2. /\ out[p][Whose[row]] \in 0..Never
          /\ out'[p][Whose[row]] \in {0, OneMore(out[p][Whose[row]])}
      BY <1>8, <3>1
    <3>3. OneMore(out[p][Whose[row]]) <= OneMore(passed[p][row])
      BY <1>5, <2>2, <2>5, <3>2
    <3> QED
      BY <2>1, <2>3, <3>2, <3>3, NeverIsNat
  <2> QED
    BY <1>2, <1>3, <2>3, <2>4, <2>5
<1> QED
  BY <1>7, <1>9, <1>10 DEF PassInv

LEMMA NextPass ==
  ASSUME SignInInv, MeantInv, TheirsArePeople', PassInv, [Next]_vars
  PROVE  PassInv'
<1>1. CASE SigningIn
  <2>1. ASSUME NEW c \in Callbacks, EnsureUser(c)
        PROVE  PassInv'
    <3>1. UNCHANGED <<server, passed, request>> /\ out' = OutWith(server', said', out)
      BY <2>1 DEF EnsureUser
    <3>2. Counted' /\ \A p \in Processes, u \in People : out'[p][u] \in {0, out[p][u]}
      BY <3>1, OutCounts DEF PassInv, Counted
    <3>3. \A p \in Processes, u \in People : out'[p][u] <= out[p][u]
      BY <3>2, NeverIsNat DEF PassInv, Counted
    <3>4. /\ DOMAIN passed' = Processes
          /\ \A p \in Processes : DOMAIN passed'[p] = Credential
          /\ \A p \in Processes, row \in Credential : passed'[p][row] \in {passed[p][row], Never}
          /\ DOMAIN request' = Requests
      BY <3>1 DEF PassInv, PassedWhileIn, Asked
    <3> QED
      BY <3>1, <3>2, <3>3, <3>4, PassStays
  <2>2. \/ \E c \in Callbacks : EnsureUser(c)
        \/ UNCHANGED <<server, said, out, passed, request>>
    <3>1. \A b, m, who, p, d :
            Begin(b, m, who, p, d) => UNCHANGED <<server, said, out, passed, request>>
      BY DEF Begin, deploymentVars
    <3>2. \A d, b, m, p : Callback(d, b, m, p) => UNCHANGED <<server, said, out, passed, request>>
      BY DEF Callback, deploymentVars
    <3>3. \A d, discovery, secret_set, answer, account, sound, nonce :
            Exchange(d, discovery, secret_set, answer, account, sound, nonce)
              => UNCHANGED <<server, said, out, passed, request>>
      BY DEF Exchange, deploymentVars, tableVars
    <3>4. \A d, arrives :
            MakeSession(d) \/ SignedIn(d, arrives) \/ RefusalSees(d) \/ RefusalDeletes(d)
              => UNCHANGED <<server, said, out, passed, request>>
      BY DEF MakeSession, SignedIn, RefusalSees, RefusalDeletes, deploymentVars, tableVars
    <3> QED
      BY <1>1, <3>1, <3>2, <3>3, <3>4 DEF SigningIn
  <2> QED
    BY <2>1, <2>2, QuietPass
<1>2. CASE Asking
  <2>1. ASSUME NEW r \in Requests, NEW p \in Processes, NEW row \in Credential, Ask(r, p, row)
        PROVE  PassInv'
    BY <2>1, AskPass
  <2>2. ASSUME NEW r \in Requests, Check(r)
        PROVE  PassInv'
    BY <2>2, CheckPass
  <2>3. ASSUME NEW r \in Requests, CheckSees(r)
        PROVE  PassInv'
    <3>1. /\ UNCHANGED <<server, said, out, passed>> /\ InProgress(request[r])
          /\ request' = [request EXCEPT ![r] = [@ EXCEPT !.pc = "deleting",
                                                         !.saw = RowsOf(request[r].user)]]
      BY <2>3 DEF CheckSees, deploymentVars, tableVars, InProgress
    <3> DEFINE to == [request[r] EXCEPT !.pc = "deleting", !.saw = RowsOf(request[r].user)]
    <3>2. /\ to.pc = "deleting" /\ to.at = request[r].at /\ to.by = request[r].by
          /\ to.user = request[r].user /\ to.age = request[r].age /\ to.claims = request[r].claims
      BY DEF SignInInv, Shapes
    <3>3. request' = [request EXCEPT ![r] = to]
      BY <3>1
    <3> HIDE DEF to
    <3> QED
      BY <3>1, <3>2, <3>3, QuietPass
  <2>4. ASSUME NEW r \in Requests,
               \/ CheckDeletes(r)
               \/ Reads(r)
               \/ \E t \in Tokens : MintToken(r, t) \/ RevokeToken(r, t)
               \/ \E p \in Codes : MintPairing(r, p) \/ \E right \in BOOLEAN : Manage(r, p, right)
        PROVE  PassInv'
    <3>1. /\ UNCHANGED <<server, said, out, passed>>
          /\ request' = [request EXCEPT ![r] = NotAsking]
      BY <2>4 DEF CheckDeletes, Reads, MintToken, RevokeToken, MintPairing, Manage, Answered,
                  deploymentVars, tableVars
    <3>2. NotAsking.pc = "idle"
      BY DEF NotAsking
    <3> QED
      BY <3>1, <3>2, QuietPass
  <2>5. CASE \/ \E p \in Codes : Claim(p)
             \/ \E b \in Browsers, p \in Processes : SignOut(b, p)
             \/ \E which \in SUBSET Codes : EndDevices(which)
    <3>1. UNCHANGED <<server, said, out, passed, request>>
      BY <2>5 DEF Claim, SignOut, EndDevices, deploymentVars
    <3> QED
      BY <3>1, QuietPass
  <2> QED
    BY <1>2, <2>1, <2>2, <2>3, <2>4, <2>5 DEF Asking
<1>3. CASE Deployment
  <2>1. ASSUME NEW p \in Processes,
               \/ Stop(p)
               \/ \E file \in Files : Start(p, file)
        PROVE  PassInv'
    <3>1. /\ UNCHANGED said /\ out' = OutWith(server', said', out)
          /\ \E to : server' = [server EXCEPT ![p] = to]
      BY <2>1 DEF Stop, Start, tableVars
    <3>2. Counted' /\ \A q \in Processes, u \in People : out'[q][u] \in {0, out[q][u]}
      BY <3>1, OutCounts DEF PassInv, Counted
    <3>3. \A q \in Processes, u \in People : out'[q][u] <= out[q][u]
      BY <3>2, NeverIsNat DEF PassInv, Counted
    <3>4. /\ DOMAIN passed' = Processes
          /\ \A q \in Processes : DOMAIN passed'[q] = Credential
          /\ \A q \in Processes, row \in Credential : passed'[q][row] \in {passed[q][row], Never}
      <4>1. CASE Stop(p)
        BY <4>1 DEF Stop, PassInv, PassedWhileIn
      <4>2. CASE \E file \in Files : Start(p, file)
        BY <4>2 DEF Start, PassInv, PassedWhileIn
      <4> QED
        BY <2>1, <4>1, <4>2
    <3>5. /\ DOMAIN request' = Requests
          /\ \A r \in Requests : \/ ~InProgress(request'[r])
                                 \/ request'[r] = request[r] /\ request[r].at # p
      <4>1. CASE Stop(p)
        BY <4>1 DEF Stop, NotAsking, InProgress
      <4>2. CASE \E file \in Files : Start(p, file)
        BY <4>2 DEF Start, PassInv, Asked
      <4> QED
        BY <2>1, <4>1, <4>2
    <3>6. \A r \in Requests :
            \/ ~InProgress(request'[r])
            \/ request'[r] = request[r] /\ server'[request[r].at] = server[request[r].at]
      BY <3>1, <3>5 DEF PassInv, Asked, MeantInv, Configured
    <3> QED
      BY <3>2, <3>3, <3>4, <3>5, <3>6, PassStays
  <2> QED
    BY <1>3, <2>1 DEF Deployment
<1>4. CASE Tick
  BY <1>4, TickPass
<1>5. CASE UNCHANGED vars
  <2>1. UNCHANGED <<server, said, out, passed, request>>
    BY <1>5 DEF vars, deploymentVars, tableVars
  <2> QED
    BY <2>1, QuietPass
<1> QED
  BY <1>1, <1>2, <1>3, <1>4, <1>5 DEF Next

\* Nothing but the check lets a request in.
LEMMA OnlyCheck ==
  ASSUME SignInInv, Next, NEW r \in Requests,
         request[r].pc = "read", request'[r].pc \in Accepted
  PROVE  Check(r)
<1> USE DEF SignInInv, Shapes
<1>1. request'[r] # request[r] /\ request'[r].pc # "idle"
  BY DEF Accepted
<1>2. ASSUME NEW q \in Requests, Check(q) \/ CheckSees(q)
      PROVE  Check(r)
  BY <1>1, <1>2 DEF Check, CheckSees
<1>3. ASSUME NEW q \in Requests, NEW p, NEW row, Ask(q, p, row)
      PROVE  FALSE
  BY <1>1, <1>3 DEF Ask
<1>4. ASSUME NEW q \in Requests, request' = [request EXCEPT ![q] = NotAsking]
      PROVE  FALSE
  BY <1>1, <1>4 DEF NotAsking
<1>5. CASE SigningIn
  <2>1. UNCHANGED request
    <3>1. \A b, m, who, p, d : Begin(b, m, who, p, d) => UNCHANGED request
      BY DEF Begin
    <3>2. \A d, b, m, p : Callback(d, b, m, p) => UNCHANGED request
      BY DEF Callback
    <3>3. \A d, discovery, secret_set, answer, account, sound, nonce :
            Exchange(d, discovery, secret_set, answer, account, sound, nonce) => UNCHANGED request
      BY DEF Exchange
    <3>4. \A d, arrives :
            EnsureUser(d) \/ MakeSession(d) \/ SignedIn(d, arrives) \/ RefusalSees(d)
              \/ RefusalDeletes(d) => UNCHANGED request
      BY DEF EnsureUser, MakeSession, SignedIn, RefusalSees, RefusalDeletes
    <3> QED
      BY <1>5, <3>1, <3>2, <3>3, <3>4 DEF SigningIn
  <2> QED
    BY <1>1, <2>1
<1>6. CASE Asking
  <2>1. \/ \E q \in Requests :
             \/ \E p, row : Ask(q, p, row)
             \/ Check(q) \/ CheckSees(q)
             \/ request' = [request EXCEPT ![q] = NotAsking]
        \/ UNCHANGED request
    BY <1>6 DEF Asking, CheckDeletes, Reads, MintToken, RevokeToken, MintPairing, Manage, Answered,
                Claim, SignOut, EndDevices
  <2> QED
    BY <1>1, <1>2, <1>3, <1>4, <2>1
<1>7. CASE Deployment
  <2>1. ASSUME NEW p \in Processes, Stop(p)
        PROVE  FALSE
    BY <1>1, <2>1 DEF Stop, NotAsking
  <2>2. ASSUME NEW p \in Processes, NEW file \in Files, Start(p, file)
        PROVE  FALSE
    BY <1>1, <2>2 DEF Start
  <2> QED
    BY <1>7, <2>1, <2>2 DEF Deployment
<1>8. CASE Tick
  BY <1>8 DEF Tick, Accepted
<1> QED
  BY <1>5, <1>6, <1>7, <1>8 DEF Next

\* A request is let in only within a minute of a moment the list of its process let its user in:
\* using a pass does not renew it, and another list or a restart does not inherit it
\* (sign_in.py still_allowed and RecentChecks).
THEOREM WithinAMinuteAlways == AccessSpec => WithinAMinute
<1> DEFINE Inv == SignInInv /\ MeantInv /\ PassInv
           Soon == \A r \in Requests :
                     LET q == request[r]
                     IN  q.pc = "read" /\ request'[r].pc \in Accepted
                           => out[q.at][q.user] - q.age < CheckLife
<1>1. Init => Inv
  BY InitSignIn, InitMeant, InitPass
<1>2. Inv /\ [Next]_vars => Inv'
  <2>1. SignInInv /\ MeantInv => TheirsArePeople
    BY WhoseIsPeople
  <2>2. (SignInInv /\ MeantInv)' => TheirsArePeople'
    BY <2>1, PTL
  <2> QED
    BY <2>2, NextSignIn, NextMeant, NextPass
<1>3. Inv /\ [Next]_vars => [Soon]_vars
  <2> SUFFICES ASSUME Inv, Next, NEW r \in Requests,
                      request[r].pc = "read", request'[r].pc \in Accepted
               PROVE  out[request[r].at][request[r].user] - request[r].age < CheckLife
    OBVIOUS
  <2> DEFINE q == request[r]
  <2>1. Check(r)
    BY OnlyCheck
  <2>2. /\ q.at \in Processes /\ q.by \in Known /\ q.user = Whose[q.by] /\ q.age \in 0..MaxWait
        /\ LetsIn(server[q.at], q.user, q.claims) => out[q.at][q.user] <= q.age
    BY DEF PassInv, Asked, InProgress
  <2>3. q.user \in People /\ q.by \in Credential
    BY <2>2, WhoseIsPeople DEF TheirsArePeople, Known
  <2>4. out[q.at][q.user] \in 0..Never /\ passed[q.at][q.by] \in 0..Never
    BY <2>2, <2>3 DEF PassInv, Counted, PassedWhileIn
  <2>5. out[q.at][q.user] <= passed[q.at][q.by]
    BY <2>2, <2>3 DEF PassInv, PassedWhileIn
  <2>6. Lately(q) \/ LetsIn(server[q.at], q.user, q.claims)
    BY <2>1 DEF Check, Accepted, SignInInv, Shapes
  <2>7. CASE Lately(q)
    BY <2>2, <2>4, <2>5, <2>7, NeverIsNat DEF Lately, Passed
  <2>8. CASE LetsIn(server[q.at], q.user, q.claims)
    BY <2>2, <2>4, <2>8, AccessAssumption, NeverIsNat
  <2> QED
    BY <2>6, <2>7, <2>8
<1> QED
  BY <1>1, <1>2, <1>3, PTL DEF AccessSpec, WithinAMinute

-----------------------------------------------------------------------------
(* The types                                                               *)

LoginTypes ==
  \A l \in Logins : /\ login[l].state \in {"none", "pending", "gone"}
                    /\ login[l].left \in 0..LoginLife
                    /\ login[l].browser \in Browsers \cup {None}

SessionTypes ==
  \A c \in Callbacks : /\ session[c].left \in 0..SessionLife
                       /\ session[c].young \in 0..FreshFor
                       /\ session[c].state \in {"none", "live", "gone"}

TokenTypes == token \in [Tokens -> {"none", "live", "gone"}]

PassedTypes == passed \in [Processes -> [Credential -> 0..Never]]

\* How long a call has waited, while it has not come to an end.
CallAges == \A c \in Callbacks : callback[c].age \in Nat

LEMMA OneLessStays == \A n, top : n \in 0..top /\ top \in Nat => OneLess(n) \in 0..top
  BY DEF OneLess

LEMMA LoginTypesStay ==
  ASSUME SignInInv, LoginTypes, LoginMoves
  PROVE  LoginTypes'
<1> USE CredentialsAssumption DEF CredentialsAssumption, SignInInv, Shapes
<1>1. CASE UNCHANGED login
  BY <1>1 DEF LoginTypes
<1>2. ASSUME NEW b \in Browsers, NEW l \in Logins, NEW p \in Processes, NEW d,
             NEW who \in People, Begin(b, l, who, p, d)
      PROVE  LoginTypes'
  <2>1. login' = [m \in Logins |->
          CASE m = l -> [[NoLogin("none") EXCEPT !.provider = ProviderOf[who], !.browser = b,
                                                 !.who = who]
                         EXCEPT !.state = "pending", !.left = LoginLife]
            [] m # l /\ m \in Pending /\ login[m].left = 0 -> [login[m] EXCEPT !.state = "gone"]
            [] OTHER -> login[m]]
    BY <1>2 DEF Begin, AddPendingLogin
  <2>2. \A m \in Logins :
          /\ m = l => login'[m].state = "pending" /\ login'[m].left = LoginLife
                      /\ login'[m].browser = b
          /\ m # l => /\ login'[m].state \in {"gone", login[m].state}
                      /\ login'[m].left = login[m].left /\ login'[m].browser = login[m].browser
    BY <2>1 DEF NoLogin
  <2> QED
    BY <2>2 DEF LoginTypes
<1>3. ASSUME NEW l \in Logins, TakePendingLogin(l)
      PROVE  LoginTypes'
  BY <1>3 DEF TakePendingLogin, Pending, LoginTypes
<1>4. CASE Tick
  <2>1. \A l \in Logins : /\ login'[l].state = login[l].state
                          /\ login'[l].browser = login[l].browser
                          /\ login'[l].left = OneLess(login[l].left)
    BY <1>4, TickColumns
  <2> QED
    BY <2>1, OneLessStays DEF LoginTypes
<1> QED
  BY <1>1, <1>2, <1>3, <1>4 DEF LoginMoves

LEMMA SessionTypesStay ==
  ASSUME SignInInv, SessionTypes, CallAges, SessionMoves
  PROVE  SessionTypes'
<1> USE CredentialsAssumption DEF CredentialsAssumption, SignInInv, Shapes
<1>1. CASE UNCHANGED session
  BY <1>1 DEF SessionTypes
<1>2. ASSUME NEW c \in Callbacks, MakeSession(c)
      PROVE  SessionTypes'
  <2>1. /\ callback[c].age \in Nat
        /\ \A d \in Callbacks : d # c => session'[d] = session[d]
        /\ session'[c].state = "live"
        /\ session'[c].left = IF callback[c].age < SessionLife THEN SessionLife - callback[c].age
                              ELSE 0
        /\ session'[c].young = IF callback[c].age < FreshFor THEN FreshFor - callback[c].age ELSE 0
    BY <1>2 DEF MakeSession, AddUserSession, CallAges
  <2>2. session'[c].left \in 0..SessionLife /\ session'[c].young \in 0..FreshFor
    BY <2>1
  <2> QED
    BY <2>1, <2>2 DEF SessionTypes
<1>3. ASSUME NEW rows, DeleteCredentials(rows)
      PROVE  SessionTypes'
  <2>1. \A c \in Callbacks : session'[c] \in {NoSession("gone"), session[c]}
    BY <1>3 DEF DeleteCredentials
  <2>2. LET none == NoSession("gone")
        IN  none.state = "gone" /\ none.left = 0 /\ none.young = 0
    BY DEF NoSession
  <2>3. \A c \in Callbacks : /\ session'[c].left \in 0..SessionLife
                             /\ session'[c].young \in 0..FreshFor
                             /\ session'[c].state \in {"none", "live", "gone"}
    BY <2>1, <2>2 DEF SessionTypes
  <2> QED
    BY <2>3 DEF SessionTypes
<1>4. ASSUME NEW b \in Browsers, NEW p \in Processes, SignOut(b, p)
      PROVE  SessionTypes'
  BY <1>4 DEF SignOut, DeleteUserSession, NoSession, SessionTypes
<1>5. CASE Tick
  <2>1. \A c \in Callbacks : /\ session'[c].state = session[c].state
                             /\ session'[c].left = OneLess(session[c].left)
                             /\ session'[c].young = OneLess(session[c].young)
    BY <1>5, TickColumns
  <2> QED
    BY <2>1, OneLessStays DEF SessionTypes
<1> QED
  BY <1>1, <1>2, <1>3, <1>4, <1>5 DEF SessionMoves

LEMMA TokenTypesStay ==
  ASSUME TokenTypes, TokenMoves
  PROVE  TokenTypes'
<1>1. CASE UNCHANGED token
  BY <1>1 DEF TokenTypes
<1>2. ASSUME NEW r \in Requests, NEW t \in Tokens, MintToken(r, t) \/ RevokeToken(r, t)
      PROVE  TokenTypes'
  BY <1>2 DEF MintToken, AddApiToken, RevokeToken, DeleteApiToken, TokenTypes
<1>3. ASSUME NEW rows, DeleteCredentials(rows)
      PROVE  TokenTypes'
  BY <1>3 DEF DeleteCredentials, TokenTypes
<1> QED
  BY <1>1, <1>2, <1>3 DEF TokenMoves

LEMMA PassedTypesStay ==
  ASSUME Asked, PassedTypes, PassedMoves
  PROVE  PassedTypes'
<1> USE NeverIsNat
<1>1. CASE UNCHANGED passed
  BY <1>1 DEF PassedTypes
<1>2. ASSUME NEW r \in Requests, Check(r)
      PROVE  PassedTypes'
  <2> DEFINE q == request[r]
  <2>1. \/ passed' = passed
        \/ passed' = [passed EXCEPT ![q.at][q.by] = q.age]
    BY <1>2 DEF Check, Record
  <2>2. q.at \in Processes /\ q.by \in Credential /\ q.age \in 0..Never
    BY <1>2 DEF Check, Asked, InProgress, Known
  <2> QED
    BY <2>1, <2>2 DEF PassedTypes
<1>3. ASSUME NEW p \in Processes, Stop(p)
      PROVE  PassedTypes'
  <2>1. [row \in Credential |-> Never] \in [Credential -> 0..Never]
    OBVIOUS
  <2>2. passed' = [passed EXCEPT ![p] = [row \in Credential |-> Never]]
    BY <1>3 DEF Stop
  <2> QED
    BY <2>1, <2>2 DEF PassedTypes
<1>4. CASE Tick
  <2>1. \A p \in Processes, row \in Credential : OneMore(passed[p][row]) \in 0..Never
    BY DEF OneMore, PassedTypes
  <2>2. passed' = [p \in Processes |-> [row \in Credential |-> OneMore(passed[p][row])]]
    BY <1>4, Zenon DEF Tick
  <2> QED
    BY <2>1, <2>2 DEF PassedTypes
<1> QED
  BY <1>1, <1>2, <1>3, <1>4 DEF PassedMoves

\* The rows of the pairings, whoever's step it is.
LEMMA PairingsStay ==
  ASSUME PairingsTypeOK, PairingMoves
  PROVE  PairingsTypeOK'
<1> USE PairingsAssumption DEF PairingsAssumption
<1>1. CASE UNCHANGED pairingVars
  BY <1>1, SameRows DEF RowsStep
<1>2. ASSUME NEW p \in Codes,
             \/ \E right \in BOOLEAN : ApprovePairing(p, right)
             \/ DeletePairing(p)
             \/ RemoveDevice(p)
             \/ ClaimPairing(p)
      PROVE  PairingsTypeOK'
  BY <1>2, ApproveRows, DeleteRows, RemoveRows, ClaimRows DEF RowsStep
<1>3. ASSUME NEW r \in Requests, NEW p \in Codes, MintPairing(r, p)
      PROVE  PairingsTypeOK'
  <2> DEFINE row == [Row("waiting") EXCEPT !.left = Life]
  <2>1. /\ device' = device
        /\ pairing' = [WithoutExpired EXCEPT ![p] = row]
    BY <1>3 DEF MintPairing
  <2>2. row \in RowType /\ row.state = "waiting" /\ ~row.claimed
    <3>1. Row("waiting") \in RowType /\ Life \in 0..Life
      BY DEF Row, RowType
    <3>2. row.state = "waiting" /\ ~row.claimed
      BY DEF Row
    <3> QED
      BY <3>1, <3>2 DEF RowType
  <2> HIDE DEF row
  <2>3. WithoutExpired \in [Codes -> RowType]
    BY DEF WithoutExpired, Row, PairingsTypeOK, RowType
  <2>4. pairing' \in [Codes -> RowType]
    BY <2>1, <2>2, <2>3
  <2>5. \A q \in Codes : pairing'[q] \in {row, Row("gone"), pairing[q]}
    BY <2>1, <2>3 DEF WithoutExpired
  <2> QED
    BY <2>1, <2>2, <2>4, <2>5 DEF PairingsTypeOK, Row, RowType
<1>4. ASSUME NEW which \in SUBSET Codes, DeleteDeviceSessions(which), UNCHANGED pairing
      PROVE  PairingsTypeOK'
  BY <1>4 DEF DeleteDeviceSessions, PairingsTypeOK
<1>5. ASSUME NEW rows, DeleteCredentials(rows)
      PROVE  PairingsTypeOK'
  <2>1. pairing' \in [Codes -> RowType]
    BY <1>5 DEF DeleteCredentials, Row, PairingsTypeOK, RowType
  <2>2. \A q \in Codes : pairing'[q] \in {Row("gone"), pairing[q]}
    BY <1>5 DEF DeleteCredentials
  <2>3. device' \in [Codes -> {"none", "linked", "removed"}]
        /\ \A q \in Codes : device[q] # "none" => device'[q] # "none"
    BY <1>5 DEF DeleteCredentials, PairingsTypeOK
  <2> QED
    BY <2>1, <2>2, <2>3 DEF PairingsTypeOK, Row, RowType
<1>6. CASE RowsAge
  BY <1>6, AgeRows DEF RowsStep
<1> QED
  BY <1>1, <1>2, <1>3, <1>4, <1>5, <1>6 DEF PairingMoves

-----------------------------------------------------------------------------
(* Nobody has anything before a row of theirs                              *)

RowsSaid ==
  /\ \A c \in Callbacks : session[c].state = "live" => said[session[c].user] # None
  /\ \A t \in Tokens : token[t] = "live" => said[OwnerOf[t]] # None
  /\ \A p \in Codes : device[p] = "linked" \/ p \in Rows => said[OwnerOf[p]] # None

\* Past the list there are the claims to keep, and past the upsert they are kept.
CallsSaid ==
  /\ CallAges
  /\ \A c \in Callbacks :
       /\ callback[c].pc = "vouched" => callback[c].claims # None
       /\ callback[c].pc = "known" => said[callback[c].user] # None

RequestsSaid == \A r \in Requests : InProgress(request[r]) => said[request[r].user] # None

SaidInv == DOMAIN said = People /\ RowsSaid /\ CallsSaid /\ RequestsSaid

LEMMA InitSaid == Init => SaidInv
  BY DEF Init, TablesInit, PairingsInit, NoSession, NotAnswering, NotAsking, InProgress, Row, Rows,
         SaidInv, RowsSaid, CallsSaid, CallAges, RequestsSaid

\* What the list was read with is something.
LEMMA ExchangedClaims ==
  ASSUME SignInInv, MeantInv, NEW c \in Callbacks, NEW discovery, NEW secret_set, NEW answer,
         NEW account \in UNION {Accounts[who] : who \in {callback[c].user} \cap People},
         NEW sound, NEW nonce, Exchange(c, discovery, secret_set, answer, account, sound, nonce)
  PROVE  \/ callback' = [callback EXCEPT ![c] = Over(c)]
         \/ \E claims, pc : /\ claims # None
                            /\ pc \in {"vouched", "refusing"}
                            /\ callback' = [callback EXCEPT ![c] =
                                             [@ EXCEPT !.claims = claims, !.pc = pc]]
<1> DEFINE k == callback[c]
           id == login[k.login].provider
           says == [account EXCEPT !.sound = sound, !.nonce = nonce]
           claims == CheckedClaims(says, server[k.at].providers[id])
           in == LetsIn(server[k.at], k.user, claims)
<1>1. /\ k.pc = "took"
      /\ \/ callback' = [callback EXCEPT ![c] = Over(c)]
         \/ /\ id \in DOMAIN server[k.at].providers
            /\ callback' = [callback EXCEPT ![c] = [@ EXCEPT !.claims = claims,
                 !.pc = IF in THEN "vouched" ELSE "refusing"]]
  BY DEF Exchange, IsOver
<1>2. k.user \in People /\ account \in Accounts[k.user]
  OBVIOUS
<1>3. PICK f \in Files : Parses(f) /\ server[k.at] = ConfigOf(f)
  BY <1>1 DEF MeantInv, Configured, InProgress
<1>4. server[k.at].providers = f.providers
  <2>1. ConfigOf(f).providers = f.providers
    BY DEF ConfigOf
  <2> QED
    BY <1>3, <2>1
<1>5. CASE callback' = [callback EXCEPT ![c] = Over(c)]
  BY <1>5
<1>6. CASE /\ id \in DOMAIN server[k.at].providers
           /\ callback' = [callback EXCEPT ![c] = [@ EXCEPT !.claims = claims,
                !.pc = IF in THEN "vouched" ELSE "refusing"]]
  <2>1. CheckedClaims(account, f.providers[id]) # None
    BY <1>2, <1>3, <1>4, <1>6, AccountsAssumption
  <2>2. /\ says.sub = account.sub
        /\ says.email = account.email /\ says.email_verified = account.email_verified
        /\ says.hd = account.hd /\ says.groups = account.groups
    BY <1>2, AccountsAssumption
  <2>3. claims = CheckedClaims(account, f.providers[id])
    BY <1>4, <2>2 DEF CheckedClaims, EmailIsTheirs
  <2>4. (IF in THEN "vouched" ELSE "refusing") \in {"vouched", "refusing"}
    OBVIOUS
  <2> HIDE DEF claims, in
  <2> QED
    BY <1>6, <2>1, <2>3, <2>4
<1> QED
  BY <1>1, <1>5, <1>6

\* Who signed in is somebody, with a row of theirs to come.
LEMMA WorkingForPeople ==
  ASSUME SignInInv, MeantInv, NEW c \in Callbacks
  PROVE  /\ callback[c].pc \in Working => callback[c].user \in People
         /\ session[c].state = "live" => session[c].user \in People
<1>1. Holds(c) => login[callback[c].login].who \in People
  BY DEF SignInInv, TakenRightly, MeantInv, WithTheirOwn
<1> QED
  BY <1>1 DEF SignInInv, TakenRightly, Holds, HasSession

\* What is said of somebody is never forgotten.
LEMMA SaidStays ==
  ASSUME SignInInv, MeantInv, SaidInv, SaidMoves
  PROVE  /\ DOMAIN said' = People
         /\ \A u \in People : said[u] # None => said'[u] # None
         /\ \A c \in Callbacks : EnsureUser(c) => said'[callback[c].user] # None
<1>1. CASE UNCHANGED said /\ \A c \in Callbacks : ~EnsureUser(c)
  BY <1>1 DEF SaidInv
<1>2. ASSUME NEW c \in Callbacks, EnsureUser(c)
      PROVE  /\ DOMAIN said' = People
             /\ \A u \in People : said[u] # None => said'[u] # None
             /\ said'[callback[c].user] # None
  <2>1. /\ callback[c].pc = "vouched" /\ callback[c].claims # None
        /\ said' = [said EXCEPT ![callback[c].user] = callback[c].claims]
    BY <1>2 DEF EnsureUser, AddOrRefreshUser, SaidInv, CallsSaid
  <2>2. callback[c].user \in People
    BY <2>1, WorkingForPeople DEF Working
  <2> QED
    BY <2>1, <2>2 DEF SaidInv
<1> QED
  BY <1>1, <1>2 DEF SaidMoves

\* A callback comes to have claims by the exchange, and past the upsert by the upsert.
CallbacksMove ==
  /\ CallAges'
  /\ \A c \in Callbacks :
       /\ callback'[c].pc = "vouched" => \/ callback'[c].claims # None
                                         \/ /\ callback[c].pc = "vouched"
                                            /\ callback'[c].claims = callback[c].claims
       /\ callback'[c].pc = "known" => /\ callback'[c].user = callback[c].user
                                       /\ callback[c].pc = "known" \/ EnsureUser(c)

LEMMA OneCallback ==
  ASSUME SignInInv, CallAges, NEW c \in Callbacks, NEW to, callback' = [callback EXCEPT ![c] = to],
         to.age \in Nat, to.pc = "vouched" => to.claims # None,
         to.pc = "known" => to.user = callback[c].user /\ EnsureUser(c)
  PROVE  CallbacksMove
<1>1. /\ callback'[c] = to
      /\ \A d \in Callbacks : d # c => callback'[d] = callback[d]
  BY DEF SignInInv, Shapes
<1>2. CallAges'
  BY <1>1 DEF CallAges
<1>3. ASSUME NEW d \in Callbacks
      PROVE  /\ callback'[d].pc = "vouched" => \/ callback'[d].claims # None
                                               \/ /\ callback[d].pc = "vouched"
                                                  /\ callback'[d].claims = callback[d].claims
             /\ callback'[d].pc = "known" => /\ callback'[d].user = callback[d].user
                                             /\ callback[d].pc = "known" \/ EnsureUser(d)
  <2>1. CASE d = c
    BY <1>1, <2>1
  <2>2. CASE d # c
    BY <1>1, <2>2
  <2> QED
    BY <2>1, <2>2
<1> QED
  BY <1>2, <1>3 DEF CallbacksMove

LEMMA SameCallbacks ==
  ASSUME CallAges, UNCHANGED callback
  PROVE  CallbacksMove
  BY DEF CallAges, CallbacksMove

LEMMA CallbackSteps ==
  ASSUME SignInInv, MeantInv, CallAges, [Next]_vars
  PROVE  CallbacksMove
<1> USE DEF SignInInv, Shapes
<1>1. ASSUME NEW c \in Callbacks, NEW b \in Browsers, NEW l \in Logins, NEW p \in Processes,
             Callback(c, b, l, p)
      PROVE  CallbacksMove
  <2> DEFINE took == [NotAnswering EXCEPT !.pc = "took", !.at = p, !.browser = b, !.login = l,
                                          !.user = login[l].who]
             tookNone == [NotAnswering EXCEPT !.pc = "over", !.login = l]
  <2>1. took.age = 0 /\ took.pc = "took" /\ tookNone.age = 0 /\ tookNone.pc = "over"
    BY DEF NotAnswering
  <2>2. \/ callback' = [callback EXCEPT ![c] = took]
        \/ callback' = [callback EXCEPT ![c] = tookNone]
    BY <1>1 DEF Callback
  <2> HIDE DEF took, tookNone
  <2> QED
    BY <2>1, <2>2, OneCallback
<1>2. ASSUME NEW c \in Callbacks, callback' = [callback EXCEPT ![c] = Over(c)]
      PROVE  CallbacksMove
  <2> DEFINE to == Over(c)
  <2>1. to.age \in Nat /\ to.pc # "vouched" /\ to.pc # "known"
    BY DEF Over, NotAnswering
  <2>2. callback' = [callback EXCEPT ![c] = to]
    BY <1>2
  <2> HIDE DEF to, SignInInv, Shapes
  <2> QED
    BY <2>1, <2>2, OneCallback
<1>3. ASSUME NEW c \in Callbacks, NEW discovery, NEW secret_set, NEW answer,
             NEW account \in UNION {Accounts[who] : who \in {callback[c].user} \cap People},
             NEW sound, NEW nonce,
             Exchange(c, discovery, secret_set, answer, account, sound, nonce)
      PROVE  CallbacksMove
  <2>1. CASE callback' = [callback EXCEPT ![c] = Over(c)]
    BY <1>2, <2>1
  <2>2. ASSUME NEW claims, NEW pc, claims # None, pc \in {"vouched", "refusing"},
               callback' = [callback EXCEPT ![c] = [@ EXCEPT !.claims = claims, !.pc = pc]]
        PROVE  CallbacksMove
    <3> DEFINE to == [callback[c] EXCEPT !.claims = claims, !.pc = pc]
    <3>1. to.age \in Nat /\ to.pc = pc /\ to.claims = claims
      BY DEF CallAges
    <3>2. callback' = [callback EXCEPT ![c] = to]
      BY <2>2
    <3> HIDE DEF to, SignInInv, Shapes
    <3> QED
      BY <2>2, <3>1, <3>2, OneCallback
  <2> QED
    BY <1>3, <2>1, <2>2, ExchangedClaims
<1>4. ASSUME NEW c \in Callbacks, NEW pc, callback' = [callback EXCEPT ![c].pc = pc],
             \/ pc \in {"made", "deleting"}
             \/ pc = "known" /\ EnsureUser(c)
      PROVE  CallbacksMove
  <2> DEFINE to == [callback[c] EXCEPT !.pc = pc]
  <2>1. to.age \in Nat /\ to.pc = pc /\ to.user = callback[c].user
    BY DEF CallAges
  <2>2. callback' = [callback EXCEPT ![c] = to]
    BY <1>4
  <2> HIDE DEF to, SignInInv, Shapes
  <2> QED
    BY <1>4, <2>1, <2>2, OneCallback
<1>5. ASSUME NEW c \in Callbacks, RefusalSees(c)
      PROVE  CallbacksMove
  <2> DEFINE to == [callback[c] EXCEPT !.pc = "deleting", !.saw = RowsOf(callback[c].user)]
  <2>1. to.age \in Nat /\ to.pc = "deleting"
    BY DEF CallAges
  <2>2. callback' = [callback EXCEPT ![c] = to]
    BY <1>5 DEF RefusalSees
  <2> HIDE DEF to, SignInInv, Shapes
  <2> QED
    BY <2>1, <2>2, OneCallback
<1>6. CASE SigningIn
  <2>1. SigningInDoes
    BY <1>6, SigningInIs
  <2>2. ASSUME NEW c \in Callbacks, EnsureUser(c) \/ MakeSession(c)
        PROVE  CallbacksMove
    BY <1>4, <2>2 DEF EnsureUser, MakeSession, Becomes
  <2>3. ASSUME NEW c \in Callbacks, NEW arrives, SignedIn(c, arrives) \/ RefusalDeletes(c)
        PROVE  CallbacksMove
    BY <1>2, <2>3 DEF SignedIn, RefusalDeletes, IsOver
  <2>4. ASSUME NEW b, NEW l, NEW p, NEW d, NEW who, Begin(b, l, who, p, d)
        PROVE  CallbacksMove
    BY <2>4, SameCallbacks DEF Begin
  <2> HIDE DEF SignInInv, Shapes
  <2> QED
    BY <1>1, <1>3, <1>5, <2>1, <2>2, <2>3, <2>4 DEF SigningInDoes
<1>7. CASE Asking
  <2>1. UNCHANGED callback
    BY <1>7 DEF Asking, Ask, Check, CheckSees, CheckDeletes, Reads, MintToken, RevokeToken,
                MintPairing, Manage, Claim, SignOut, EndDevices
  <2> QED
    BY <2>1, SameCallbacks
<1>8. ASSUME NEW p \in Processes, Stop(p)
      PROVE  CallbacksMove
  <2>1. \A c \in Callbacks : callback'[c] \in {Over(c), callback[c]}
    BY <1>8 DEF Stop
  <2>2. \A c \in Callbacks : Over(c).age = 0 /\ Over(c).pc = "over"
    BY DEF Over, NotAnswering
  <2> QED
    BY <2>1, <2>2 DEF CallAges, CallbacksMove
<1>9. ASSUME NEW p \in Processes, NEW file \in Files, Start(p, file)
      PROVE  CallbacksMove
  BY <1>9, SameCallbacks DEF Start
<1>10. CASE Tick
  <2>1. callback' = [c \in Callbacks |->
                       IF InProgress(callback[c]) THEN [callback[c] EXCEPT !.age = @ + 1]
                       ELSE callback[c]]
    BY <1>10 DEF Tick
  <2>2. \A c \in Callbacks : /\ callback'[c].pc = callback[c].pc
                             /\ callback'[c].user = callback[c].user
                             /\ callback'[c].claims = callback[c].claims
                             /\ callback'[c].age \in {callback[c].age, callback[c].age + 1}
    BY <2>1
  <2> QED
    BY <2>2 DEF CallAges, CallbacksMove
<1>11. CASE UNCHANGED vars
  BY <1>11, SameCallbacks DEF vars
<1> QED
  BY <1>6, <1>7, <1>8, <1>9, <1>10, <1>11 DEF Next, Deployment

\* A request is whom it was of, or has just found a credential.
LEMMA RequestSteps ==
  ASSUME SignInInv, [Next]_vars, NEW r \in Requests, InProgress(request'[r])
  PROVE  \/ InProgress(request[r]) /\ request'[r].user = request[r].user
         \/ \E p \in Processes, row \in Credential : Ask(r, p, row)
<1> USE DEF SignInInv, Shapes
<1>1. CASE UNCHANGED request
  BY <1>1
<1>2. ASSUME NEW q \in Requests, request' = [request EXCEPT ![q] = NotAsking]
      PROVE  InProgress(request[r]) /\ request'[r].user = request[r].user
  BY <1>2 DEF NotAsking, InProgress
<1>3. ASSUME NEW q \in Requests, Check(q) \/ CheckSees(q)
      PROVE  InProgress(request[r]) /\ request'[r].user = request[r].user
  <2>1. CASE q = r
    BY <1>3, <2>1 DEF Check, CheckSees, InProgress
  <2>2. CASE q # r
    BY <1>3, <2>2 DEF Check, CheckSees
  <2> QED
    BY <2>1, <2>2
<1>4. ASSUME NEW q \in Requests, NEW p \in Processes, NEW row \in Credential, Ask(q, p, row)
      PROVE  \/ InProgress(request[r]) /\ request'[r].user = request[r].user
             \/ Ask(r, p, row)
  <2>1. CASE q # r
    <3>1. request'[r] = request[r]
      BY <1>4, <2>1 DEF Ask
    <3> QED
      BY <3>1
  <2> QED
    BY <1>4, <2>1
<1>5. CASE SigningIn
  <2>1. UNCHANGED request
    <3>1. SigningInDoes
      BY <1>5, SigningInIs
    <3>2. \A b, m, who, p, d : Begin(b, m, who, p, d) => UNCHANGED request
      BY DEF Begin
    <3>3. \A d, b, m, p : Callback(d, b, m, p) => UNCHANGED request
      BY DEF Callback
    <3>4. \A d, discovery, secret_set, answer, account, sound, nonce :
            Exchange(d, discovery, secret_set, answer, account, sound, nonce) => UNCHANGED request
      BY DEF Exchange
    <3>5. \A d, arrives :
            EnsureUser(d) \/ MakeSession(d) \/ SignedIn(d, arrives) \/ RefusalSees(d)
              \/ RefusalDeletes(d) => UNCHANGED request
      BY DEF EnsureUser, MakeSession, SignedIn, RefusalSees, RefusalDeletes
    <3> QED
      BY <3>1, <3>2, <3>3, <3>4, <3>5 DEF SigningInDoes
  <2> QED
    BY <1>1, <2>1
<1>6. CASE Asking
  <2>1. \/ \E q \in Requests :
             \/ \E p \in Processes, row \in Credential : Ask(q, p, row)
             \/ Check(q) \/ CheckSees(q)
             \/ request' = [request EXCEPT ![q] = NotAsking]
        \/ UNCHANGED request
    BY <1>6 DEF Asking, CheckDeletes, Reads, MintToken, RevokeToken, MintPairing, Manage, Answered,
                Claim, SignOut, EndDevices
  <2> QED
    BY <1>1, <1>2, <1>3, <1>4, <2>1
<1>7. ASSUME NEW p \in Processes, Stop(p)
      PROVE  InProgress(request[r]) /\ request'[r].user = request[r].user
  BY <1>7 DEF Stop, NotAsking, InProgress
<1>8. ASSUME NEW p \in Processes, NEW file \in Files, Start(p, file)
      PROVE  UNCHANGED request
  BY <1>8 DEF Start
<1>9. CASE Tick
  <2>1. request' = [q \in Requests |->
                      IF InProgress(request[q])
                      THEN [request[q] EXCEPT !.age = @ + 1, !.young = OneLess(@)]
                      ELSE request[q]]
    BY <1>9 DEF Tick
  <2>2. request'[r].user = request[r].user /\ request'[r].pc = request[r].pc
    BY <2>1
  <2> QED
    BY <2>2 DEF InProgress
<1>10. CASE UNCHANGED vars
  BY <1>1, <1>10 DEF vars
<1> QED
  BY <1>1, <1>5, <1>6, <1>7, <1>8, <1>9, <1>10 DEF Next, Deployment

\* The rows of the tables, and whose: made by who is past the list and has their claims kept, or
\* by a request of theirs.
LEMMA SessionsSaid ==
  ASSUME SignInInv, MeantInv, SaidInv, SessionMoves, SaidMoves
  PROVE  \A c \in Callbacks : session'[c].state = "live" => said'[session'[c].user] # None
<1> USE DEF SignInInv, Shapes
<1> DEFINE Same(c) == /\ session[c].state = "live"
                      /\ session'[c].user = session[c].user
<1>1. ASSUME NEW c \in Callbacks, Same(c)
      PROVE  said'[session'[c].user] # None
  BY <1>1, WorkingForPeople, SaidStays DEF SaidInv, RowsSaid
<1>2. CASE UNCHANGED session
  BY <1>1, <1>2
<1>3. ASSUME NEW d \in Callbacks, MakeSession(d), NEW c \in Callbacks, session'[c].state = "live"
      PROVE  said'[session'[c].user] # None
  <2>1. CASE c # d
    BY <1>1, <1>3, <2>1 DEF MakeSession, AddUserSession
  <2>2. CASE c = d
    <3>1. callback[c].pc = "known" /\ session'[c].user = callback[c].user
      BY <1>3, <2>2 DEF MakeSession, AddUserSession
    <3>2. callback[c].user \in People /\ said[callback[c].user] # None
      BY <3>1, WorkingForPeople DEF Working, SaidInv, CallsSaid
    <3> QED
      BY <3>1, <3>2, SaidStays
  <2> QED
    BY <2>1, <2>2
<1>4. ASSUME NEW rows, DeleteCredentials(rows), NEW c \in Callbacks, session'[c].state = "live"
      PROVE  said'[session'[c].user] # None
  BY <1>1, <1>4 DEF DeleteCredentials, NoSession
<1>5. ASSUME NEW b \in Browsers, NEW p \in Processes, SignOut(b, p),
             NEW c \in Callbacks, session'[c].state = "live"
      PROVE  said'[session'[c].user] # None
  BY <1>1, <1>5 DEF SignOut, DeleteUserSession, NoSession
<1>6. CASE Tick
  BY <1>1, <1>6, TickColumns
<1> QED
  BY <1>2, <1>3, <1>4, <1>5, <1>6 DEF SessionMoves

LEMMA OwnersArePeople ==
  /\ \A t \in Tokens : OwnerOf[t] \in People
  /\ \A p \in Codes : OwnerOf[p] \in People
  BY CredentialsAssumption

LEMMA TokensSaid ==
  ASSUME SignInInv, MeantInv, SaidInv, TokenTypes, TokenMoves, SaidMoves
  PROVE  \A t \in Tokens : token'[t] = "live" => said'[OwnerOf[t]] # None
<1>1. ASSUME NEW t \in Tokens, token[t] = "live" \/ said[OwnerOf[t]] # None
      PROVE  said'[OwnerOf[t]] # None
  BY <1>1, OwnersArePeople, SaidStays DEF SaidInv, RowsSaid
<1>2. CASE UNCHANGED token
  BY <1>1, <1>2
<1>3. ASSUME NEW r \in Requests, NEW u \in Tokens, MintToken(r, u) \/ RevokeToken(r, u),
             NEW t \in Tokens, token'[t] = "live"
      PROVE  said'[OwnerOf[t]] # None
  <2>1. CASE t # u
    BY <1>1, <1>3, <2>1 DEF MintToken, AddApiToken, RevokeToken, DeleteApiToken, TokenTypes
  <2>2. CASE t = u
    <3>1. CASE MintToken(r, u)
      <4>1. InProgress(request[r]) /\ request[r].user = OwnerOf[t]
        BY <2>2, <3>1 DEF MintToken, InProgress
      <4> QED
        BY <1>1, <4>1 DEF SaidInv, RequestsSaid
    <3>2. CASE RevokeToken(r, u)
      BY <1>3, <2>2, <3>2 DEF RevokeToken, DeleteApiToken, TokenTypes
    <3> QED
      BY <1>3, <3>1, <3>2
  <2> QED
    BY <2>1, <2>2
<1>4. ASSUME NEW rows, DeleteCredentials(rows), NEW t \in Tokens, token'[t] = "live"
      PROVE  said'[OwnerOf[t]] # None
  BY <1>1, <1>4 DEF DeleteCredentials
<1> QED
  BY <1>2, <1>3, <1>4 DEF TokenMoves

\* What a code is there for is no more than there was, but for a mint's.
LEMMA CodesShrink ==
  ASSUME PairingsTypeOK, PairingMoves, NEW p \in Codes, device'[p] = "linked" \/ p \in Rows'
  PROVE  \/ device[p] = "linked" \/ p \in Rows
         \/ \E r \in Requests : MintPairing(r, p)
<1>1. CASE UNCHANGED pairingVars
  BY <1>1 DEF pairingVars, Rows
<1>2. ASSUME NEW q \in Codes,
             \/ \E right \in BOOLEAN : ApprovePairing(q, right)
             \/ DeletePairing(q)
             \/ RemoveDevice(q)
             \/ ClaimPairing(q)
      PROVE  device[p] = "linked" \/ p \in Rows
  <2>1. Rows' \subseteq Rows
    BY <1>2, ApproveRows, DeleteRows, RemoveRows, ClaimRows DEF RowsStep
  <2>2. CASE DeletePairing(q) \/ RemoveDevice(q) \/ ClaimPairing(q)
    BY <2>1, <2>2 DEF DeletePairing, RemoveDevice, ClaimPairing, PairingsTypeOK
  <2>3. ASSUME NEW right \in BOOLEAN, ApprovePairing(q, right)
        PROVE  device[p] = "linked" \/ p \in Rows
    <3>1. Approval(q, right) = "approved" => q \in Rows
      BY DEF Approval, Live
    <3>2. device' = IF Approval(q, right) = "approved" THEN [device EXCEPT ![q] = "linked"]
                    ELSE device
      BY <2>3 DEF ApprovePairing
    <3> QED
      BY <2>1, <3>1, <3>2 DEF PairingsTypeOK
  <2> QED
    BY <1>2, <2>2, <2>3
<1>3. ASSUME NEW r \in Requests, NEW q \in Codes, MintPairing(r, q), q # p
      PROVE  device[p] = "linked" \/ p \in Rows
  <2>1. device' = device /\ pairing'[p] \in {Row("gone"), pairing[p]}
    BY <1>3 DEF MintPairing, WithoutExpired
  <2> QED
    BY <2>1 DEF Rows, Row
<1>4. ASSUME NEW which \in SUBSET Codes, DeleteDeviceSessions(which), UNCHANGED pairing
      PROVE  device[p] = "linked" \/ p \in Rows
  BY <1>4 DEF DeleteDeviceSessions, Rows
<1>5. ASSUME NEW rows, DeleteCredentials(rows)
      PROVE  device[p] = "linked" \/ p \in Rows
  <2>1. pairing'[p] \in {Row("gone"), pairing[p]} /\ device'[p] \in {"removed", device[p]}
    BY <1>5 DEF DeleteCredentials
  <2> QED
    BY <2>1 DEF Rows, Row
<1>6. CASE RowsAge
  <2>1. Rows' \subseteq Rows /\ device' = device
    BY <1>6, AgeRows DEF RowsStep, RowsAge
  <2> QED
    BY <2>1
<1> QED
  BY <1>1, <1>2, <1>3, <1>4, <1>5, <1>6 DEF PairingMoves

LEMMA CodesSaid ==
  ASSUME SignInInv, MeantInv, SaidInv, PairingsTypeOK, PairingMoves, SaidMoves,
         NEW p \in Codes, device'[p] = "linked" \/ p \in Rows'
  PROVE  said'[OwnerOf[p]] # None
<1>1. CASE device[p] = "linked" \/ p \in Rows
  BY <1>1, OwnersArePeople, SaidStays DEF SaidInv, RowsSaid
<1>2. ASSUME NEW r \in Requests, MintPairing(r, p)
      PROVE  said'[OwnerOf[p]] # None
  <2>1. InProgress(request[r]) /\ request[r].user = OwnerOf[p]
    BY <1>2 DEF MintPairing, InProgress
  <2> QED
    BY <2>1, OwnersArePeople, SaidStays DEF SaidInv, RequestsSaid
<1> QED
  BY <1>1, <1>2, CodesShrink

\* A credential that is there is of somebody whose claims are kept.
LEMMA ExistingSaid ==
  ASSUME RowsSaid, NEW row \in AllRows, Exists(row)
  PROVE  said[UserOf(row)] # None
<1>1. \/ row[1] = "session" /\ row[2] \in Callbacks
      \/ row[1] = "token" /\ row[2] \in Tokens
      \/ row[1] = "device" /\ row[2] \in Codes
      \/ row[1] = "pairing" /\ row[2] \in Codes
  BY DEF AllRows, Credential
<1> QED
  BY <1>1 DEF RowsSaid, Exists, UserOf

LEMMA NextSaid ==
  ASSUME SignInInv, MeantInv, PassInv, PairingsTypeOK, TokenTypes, SaidInv, [Next]_vars
  PROVE  SaidInv'
<1>1. LoginMoves /\ SessionMoves /\ TokenMoves /\ PairingMoves /\ SaidMoves
  BY TablesMove
<1>2. RowsSaid'
  <2>1. \A c \in Callbacks : session'[c].state = "live" => said'[session'[c].user] # None
    BY <1>1, SessionsSaid
  <2>2. \A t \in Tokens : token'[t] = "live" => said'[OwnerOf[t]] # None
    BY <1>1, TokensSaid
  <2>3. \A p \in Codes : device'[p] = "linked" \/ p \in Rows' => said'[OwnerOf[p]] # None
    BY <1>1, CodesSaid
  <2> QED
    BY <2>1, <2>2, <2>3 DEF RowsSaid
<1>3. CallsSaid'
  <2>1. CallbacksMove
    BY CallbackSteps DEF SaidInv, CallsSaid
  <2>2. ASSUME NEW c \in Callbacks
        PROVE  /\ callback'[c].pc = "vouched" => callback'[c].claims # None
               /\ callback'[c].pc = "known" => said'[callback'[c].user] # None
    <3>1. callback'[c].pc = "vouched" => callback'[c].claims # None
      BY <2>1 DEF CallbacksMove, SaidInv, CallsSaid
    <3>2. ASSUME callback'[c].pc = "known"
          PROVE  said'[callback'[c].user] # None
      <4>1. CASE EnsureUser(c)
        BY <1>1, <2>1, <3>2, <4>1, SaidStays DEF CallbacksMove
      <4>2. CASE callback[c].pc = "known"
        <5>1. callback[c].user \in People /\ said[callback[c].user] # None
          BY <4>2, WorkingForPeople DEF Working, SaidInv, CallsSaid
        <5> QED
          BY <1>1, <2>1, <3>2, <5>1, SaidStays DEF CallbacksMove
      <4> QED
        BY <2>1, <3>2, <4>1, <4>2 DEF CallbacksMove
    <3> QED
      BY <3>1, <3>2
  <2> QED
    BY <2>1, <2>2 DEF CallbacksMove, CallsSaid
<1>4. RequestsSaid'
  <2> SUFFICES ASSUME NEW r \in Requests, InProgress(request'[r])
               PROVE  said'[request'[r].user] # None
    BY DEF RequestsSaid
  <2>1. CASE InProgress(request[r]) /\ request'[r].user = request[r].user
    <3>1. request[r].by \in Known /\ request[r].user = Whose[request[r].by]
      BY <2>1 DEF PassInv, Asked
    <3>2. request[r].user \in People
      BY <3>1, WhoseIsPeople DEF TheirsArePeople
    <3>3. said[request[r].user] # None
      BY <2>1 DEF SaidInv, RequestsSaid
    <3> QED
      BY <1>1, <2>1, <3>2, <3>3, SaidStays
  <2>2. ASSUME NEW p \in Processes, NEW row \in Credential, Ask(r, p, row)
        PROVE  said'[request'[r].user] # None
    <3>1. /\ Exists(row) /\ row \in AllRows
          /\ said' = said /\ request'[r].user = UserOf(row)
      BY <2>2 DEF Ask, Resolves, NotAsking, AllRows, tableVars, SignInInv, Shapes
    <3> QED
      BY <3>1, ExistingSaid DEF SaidInv
  <2> QED
    BY <2>1, <2>2, RequestSteps
<1> QED
  BY <1>1, <1>2, <1>3, <1>4, SaidStays DEF SaidInv

-----------------------------------------------------------------------------
(* Together                                                                *)

TablesInv ==
  /\ PairingsTypeOK
  /\ LoginTypes
  /\ SessionTypes
  /\ TokenTypes
  /\ PassedTypes
  /\ SaidInv

LEMMA InitTables == Init => TablesInv
<1> SUFFICES ASSUME Init PROVE TablesInv
  OBVIOUS
<1> USE CredentialsAssumption, PairingsAssumption, NeverIsNat
    DEF CredentialsAssumption, PairingsAssumption
<1>1. PairingsTypeOK
  BY DEF Init, TablesInit, PairingsInit, PairingsTypeOK, Row
<1>2. LoginTypes /\ SessionTypes
  BY DEF Init, TablesInit, LoginTypes, SessionTypes, NoLogin, NoSession
<1>3. TokenTypes /\ PassedTypes
  BY DEF Init, TablesInit, TokenTypes, PassedTypes
<1> QED
  BY <1>1, <1>2, <1>3, InitSaid DEF TablesInv

LEMMA NextTables ==
  ASSUME SignInInv, MeantInv, PassInv, TablesInv, [Next]_vars
  PROVE  TablesInv'
<1>1. LoginMoves /\ SessionMoves /\ TokenMoves /\ PairingMoves /\ SaidMoves /\ PassedMoves
  BY TablesMove
<1>2. PairingsTypeOK'
  BY <1>1, PairingsStay DEF TablesInv
<1>3. LoginTypes' /\ SessionTypes'
  BY <1>1, LoginTypesStay, SessionTypesStay DEF TablesInv, SaidInv, CallsSaid
<1>4. TokenTypes' /\ PassedTypes'
  BY <1>1, TokenTypesStay, PassedTypesStay DEF TablesInv, PassInv
<1>5. SaidInv'
  BY NextSaid DEF TablesInv
<1> QED
  BY <1>2, <1>3, <1>4, <1>5 DEF TablesInv

LEMMA TypesOfAccess ==
  ASSUME SignInInv, MeantInv, PassInv, TablesInv
  PROVE  AccessInv
<1>1. \A c \in Callbacks : InProgress(callback[c]) => server[callback[c].at] # None
  BY DEF MeantInv, Configured
<1>2. \A r \in Requests : InProgress(request[r]) => server[request[r].at] # None
  BY DEF PassInv, Asked
<1>3. \A row \in AllRows : Exists(row) => said[UserOf(row)] # None
  BY ExistingSaid DEF TablesInv, SaidInv
<1>4. AccessTypeOK
  BY <1>1, <1>2, <1>3
  DEF TablesInv, LoginTypes, SessionTypes, TokenTypes, PassedTypes, AccessTypeOK
<1>5. SignedInOnce
  BY DEF SignInInv, TakenOnce, Holds, HasSession, SignedInOnce
<1> QED
  BY <1>4, <1>5 DEF AccessInv

\* A call in progress is at a process that is up, nobody has a session, a token, a device or a
\* pairing before what their sign-in said is kept, the lives and passes are within their
\* bounds, and one redirect makes one session: for any people, processes and restarts
\* (access.py complete, credential_store.py).
THEOREM AccessInvAlways == AccessSpec => []AccessInv
<1> DEFINE Both == SignInInv /\ MeantInv /\ PassInv /\ TablesInv
<1>1. Init => Both
  BY InitSignIn, InitMeant, InitPass, InitTables
<1>2. Both /\ [Next]_vars => Both'
  <2>1. SignInInv /\ MeantInv => TheirsArePeople
    BY WhoseIsPeople
  <2>2. (SignInInv /\ MeantInv)' => TheirsArePeople'
    BY <2>1, PTL
  <2> QED
    BY <2>2, NextSignIn, NextMeant, NextPass, NextTables
<1>3. Both => AccessInv
  BY TypesOfAccess
<1> QED
  BY <1>1, <1>2, <1>3, PTL DEF AccessSpec
=============================================================================
