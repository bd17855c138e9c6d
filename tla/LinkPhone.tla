------------------------------ MODULE LinkPhone ------------------------------
(***************************************************************************)
(* Linking a phone: the browser's dialog (LinkDialog.tsx), the phone that  *)
(* scans its code, and the server's Pairings. Each answer travels on its   *)
(* own, so a poll, an approve, a mint and a delete may overtake each       *)
(* other. The dialog's instances, and its rounds within one, are numbered  *)
(* by the mint each begins with, and so are the pairings.                  *)
(*                                                                         *)
(* The person opens and closes the dialog, reads a number off the phone,   *)
(* hides the tab. A request that fails may be carried out all the same,    *)
(* later.                                                                  *)
(***************************************************************************)
EXTENDS Pairings

CONSTANTS
  AutoRenewals, \* AUTO_RENEWALS
  Concurrent,   \* bound: how many mints the server counts for before it inserts
  Losses        \* bound: how many calls may fail for the dialog

ASSUME LinkAssumption ==
  /\ Codes = 1..Cardinality(Codes)
  /\ AutoRenewals \in Nat
  /\ Concurrent \in Nat \ {0}
  /\ Losses \in Nat

VARIABLES
  stage,        \* what the dialog shows: its kind, and the pairing, state and wrong numbers
  held,         \* the pairing closing the dialog would delete, or 0
  busy,         \* a Link or a No is being answered
  renewals,     \* expired codes this dialog replaced by itself
  round,        \* the latest mint asked for
  mint,         \* where each mint is
  poll,         \* the answer of the dialog's poll that is on its way
  approve,      \* the Link being answered
  late,         \* approves the dialog has given up and the server may carry out
  rechecks,     \* the polls after a conflict
  deletes,      \* the deletes on their way
  refusals,     \* those of them that close the dialog when they are over
  lost,         \* the calls that failed so far
  phone         \* the phone: the pairing whose code it scanned, and what it does

dialogVars == <<stage, held, busy, renewals, round, mint, poll, approve, late,
                rechecks, deletes, refusals, lost>>

linkVars == <<pairingVars, dialogVars, phone>>

-----------------------------------------------------------------------------

Shows(kind) == [kind |-> kind, of |-> 0, state |-> "none", wrong |-> 0]

Shown(p) == [kind |-> "shown", of |-> p, state |-> "waiting", wrong |-> 0]

IsShown(p) == stage.kind = "shown" /\ stage.of = p

IsOpen == stage.kind # "closed"

NoApprove == [of |-> 0, right |-> FALSE, answer |-> "none"]

CanMint == round + 1 \in Codes

\* One more round: the code it had is no longer the dialog's to delete.
Mints ==
  /\ CanMint
  /\ round' = round + 1
  /\ mint' = [mint EXCEPT ![round + 1] = "asked"]

\* The dialog shows something else: its poll is dropped.
Displays(next, holds) ==
  /\ stage' = next
  /\ held' = holds
  /\ poll' = "none"

\* The dialog goes: what it holds is deleted, what it waits for finds nobody.
Closes ==
  /\ Displays(Shows("closed"), 0)
  /\ late' = IF approve.of # 0 /\ approve.answer = "none"
             THEN late \cup {[of |-> approve.of, right |-> approve.right]} ELSE late
  /\ approve' = NoApprove
  /\ rechecks' = {}
  /\ busy' = FALSE
  /\ renewals' = 0

Loses ==
  /\ lost < Losses
  /\ lost' = lost + 1

Open ==
  /\ ~IsOpen
  /\ Mints
  /\ Displays(Shows("minting"), 0)
  /\ UNCHANGED <<pairingVars, phone, busy, renewals, approve, late, rechecks, deletes,
                 refusals, lost>>

Close ==
  /\ IsOpen
  /\ Closes
  /\ deletes' = IF held = 0 THEN deletes ELSE deletes \cup {held}
  /\ UNCHANGED <<pairingVars, phone, round, mint, refusals, lost>>

-----------------------------------------------------------------------------
(* The mint of a round                                                     *)

MintAfter(r, answer) ==
  /\ mint' = [mint EXCEPT ![r] = answer]
  /\ UNCHANGED <<phone, stage, held, busy, renewals, round, poll, approve, late,
                 rechecks, deletes, refusals>>

\* A session of ten minutes or more mints nothing.
MintRefused(r) ==
  /\ mint[r] = "asked"
  /\ MintAfter(r, "fresh")
  /\ UNCHANGED <<pairingVars, lost>>

MintCounts(r) ==
  /\ mint[r] = "asked"
  /\ Cardinality({q \in Codes : mint[q] = "counted"}) < Concurrent
  /\ DeleteExpired
  /\ MintAfter(r, IF UnderTheCap THEN "counted" ELSE "refused")
  /\ UNCHANGED lost

MintInserts(r) ==
  /\ mint[r] = "counted"
  /\ InsertPairing(r)
  /\ MintAfter(r, "minted")
  /\ UNCHANGED lost

MintFails(r) ==
  /\ Loses
  /\ mint[r] \in {"asked", "minted"}
  /\ MintAfter(r, "refused")
  /\ UNCHANGED pairingVars

\* The answer, for a dialog that has gone or gone on to another round: the code is deleted.
MintDropped(r) ==
  /\ mint[r] \in {"minted", "fresh", "refused"}
  /\ ~IsOpen \/ r # round
  /\ mint' = [mint EXCEPT ![r] = "over"]
  /\ deletes' = IF mint[r] = "minted" THEN deletes \cup {r} ELSE deletes
  /\ UNCHANGED <<pairingVars, phone, stage, held, busy, renewals, round, poll, approve,
                 late, rechecks, refusals, lost>>

\* For the dialog's round, whatever it shows by now.
MintAnswered(r) ==
  /\ IsOpen /\ r = round
  /\ mint[r] \in {"minted", "fresh", "refused"}
  /\ mint' = [mint EXCEPT ![r] = "over"]
  /\ CASE mint[r] = "minted" -> Displays(Shown(r), r)
       [] mint[r] = "fresh" -> Displays(Shows("fresh"), held)
       [] OTHER -> Displays(Shows("refused"), held)
  /\ UNCHANGED <<pairingVars, phone, busy, renewals, round, approve, late, rechecks,
                 deletes, refusals, lost>>

ShowNew ==
  /\ stage.kind \in {"expired", "gone", "refused"}
  /\ Mints
  /\ Displays(Shows("minting"), 0)
  /\ renewals' = 0
  /\ UNCHANGED <<pairingVars, phone, busy, approve, late, rechecks, deletes, refusals, lost>>

-----------------------------------------------------------------------------
(* The poll                                                                *)

\* Every two seconds, while a code is shown on a visible tab; one that is lost was not made.
PollReads ==
  /\ stage.kind = "shown"
  /\ poll = "none"
  /\ poll' = StateOf(stage.of)
  /\ UNCHANGED <<pairingVars, phone, stage, held, busy, renewals, round, mint, approve,
                 late, rechecks, deletes, refusals, lost>>

\* seen: an approved pairing links the dialog; another state is shown if it is still the same code.
Seen(p, state) ==
  IF state = "approved" THEN Displays(Shows("linked"), 0)
  ELSE Displays(IF IsShown(p) THEN [stage EXCEPT !.state = state] ELSE stage, held)

\* expire: the code is replaced, so often, and then a button is shown.
Expires ==
  IF renewals < AutoRenewals /\ CanMint
  THEN Mints /\ Displays(Shows("minting"), 0) /\ renewals' = renewals + 1
  ELSE Displays(Shows("expired"), 0) /\ UNCHANGED <<round, mint, renewals>>

PollAnswered ==
  /\ poll # "none"
  /\ IF poll = "gone" /\ stage.state = "waiting" THEN Expires
     ELSE /\ IF poll = "gone" THEN Displays(Shows("expired"), 0) ELSE Seen(stage.of, poll)
          /\ UNCHANGED <<round, mint, renewals>>
  /\ UNCHANGED <<pairingVars, phone, busy, approve, late, rechecks, deletes, refusals, lost>>

-----------------------------------------------------------------------------
(* Link, and No                                                            *)

\* The right number is the one the phone that claimed the code was given.
Link(right) ==
  /\ stage.kind = "shown" /\ stage.state = "claimed" /\ ~busy
  /\ right => phone.of = stage.of /\ phone.does # "claiming"
  /\ approve' = [of |-> stage.of, right |-> right, answer |-> "none"]
  /\ busy' = TRUE
  /\ UNCHANGED <<pairingVars, phone, stage, held, renewals, round, mint, poll, late,
                 rechecks, deletes, refusals, lost>>

ApproveReached ==
  /\ approve.of # 0 /\ approve.answer = "none"
  /\ ApprovePairing(approve.of, approve.right)
  /\ approve' = [approve EXCEPT !.right = FALSE, !.answer = Approval(approve.of, approve.right)]
  /\ UNCHANGED <<phone, stage, held, busy, renewals, round, mint, poll, late, rechecks,
                 deletes, refusals, lost>>

\* The wrong number is counted for its own code.
CountWrong(p) ==
  /\ stage' = IF IsShown(p) THEN [stage EXCEPT !.wrong = @ + 1] ELSE stage
  /\ UNCHANGED <<held, poll>>

\* gone: whichever code is shown.
Gone(p) == Displays(Shows("gone"), 0)

ApproveAnswered ==
  LET p == approve.of
  IN  /\ approve.answer # "none"
      /\ CASE approve.answer = "approved" -> Displays(Shows("linked"), 0)
           [] approve.answer = "wrong_number" -> CountWrong(p)
           [] approve.answer = "gone" -> Gone(p)
           [] approve.answer = "not_claimed" -> UNCHANGED <<stage, held, poll>>
      /\ rechecks' = IF approve.answer = "not_claimed"
                     THEN rechecks \cup {[of |-> p, answer |-> "none"]} ELSE rechecks
      /\ approve' = NoApprove
      /\ busy' = FALSE
      /\ UNCHANGED <<pairingVars, phone, renewals, round, mint, late, deletes, refusals, lost>>

\* It says what failed and may be pressed again; the request may still arrive.
ApproveFails ==
  /\ Loses
  /\ approve.of # 0
  /\ late' = IF approve.answer = "none"
             THEN late \cup {[of |-> approve.of, right |-> approve.right]} ELSE late
  /\ approve' = NoApprove
  /\ busy' = FALSE
  /\ UNCHANGED <<pairingVars, phone, stage, held, renewals, round, mint, poll, rechecks,
                 deletes, refusals>>

LateReached(m) ==
  /\ m \in late
  /\ ApprovePairing(m.of, m.right)
  /\ late' = late \ {m}
  /\ UNCHANGED <<phone, stage, held, busy, renewals, round, mint, poll, approve,
                 rechecks, deletes, refusals, lost>>

RecheckReads(c) ==
  /\ c \in rechecks /\ c.answer = "none"
  /\ rechecks' = (rechecks \ {c}) \cup {[c EXCEPT !.answer = StateOf(c.of)]}
  /\ UNCHANGED <<pairingVars, phone, stage, held, busy, renewals, round, mint, poll,
                 approve, late, deletes, refusals, lost>>

RecheckAnswered(c) ==
  /\ c \in rechecks /\ c.answer # "none"
  /\ IF c.answer = "gone" THEN Gone(c.of) ELSE Seen(c.of, c.answer)
  /\ rechecks' = rechecks \ {c}
  /\ UNCHANGED <<pairingVars, phone, busy, renewals, round, mint, approve, late,
                 deletes, refusals, lost>>

\* No: the delete is waited for, and then the dialog goes.
Refuse ==
  /\ stage.kind = "shown" /\ stage.state = "claimed" /\ ~busy
  /\ held' = 0
  /\ busy' = TRUE
  /\ deletes' = deletes \cup {stage.of}
  /\ refusals' = refusals \cup {stage.of}
  /\ UNCHANGED <<pairingVars, phone, stage, renewals, round, mint, poll, approve, late,
                 rechecks, lost>>

\* A delete is over: the one a No waited for closes the dialog, the page's next one too.
DeleteOver(p) ==
  /\ p \in deletes
  /\ refusals' = refusals \ {p}
  /\ IF p \in refusals /\ IsOpen
     THEN /\ Closes
          /\ deletes' = (deletes \ {p}) \cup (IF held = 0 THEN {} ELSE {held})
     ELSE /\ deletes' = deletes \ {p}
          /\ UNCHANGED <<stage, held, poll, approve, late, rechecks, busy, renewals>>
  /\ UNCHANGED <<phone, round, mint>>

DeleteReached(p) == DeleteOver(p) /\ DeletePairing(p) /\ UNCHANGED lost

DeleteFails(p) == DeleteOver(p) /\ Loses /\ UNCHANGED pairingVars

-----------------------------------------------------------------------------
(* The phone                                                               *)

PhoneDoes(p, does) == phone' = [of |-> p, does |-> does] /\ UNCHANGED dialogVars

\* A phone that is not waiting scans the code on the screen.
Scan ==
  /\ phone.does \in {"nothing", "gone"}
  /\ stage.kind = "shown"
  /\ PhoneDoes(stage.of, "claiming")
  /\ UNCHANGED pairingVars

\* The code is claimed, by this phone or by one that photographed it: then this one has no number.
PhoneClaims(mine) ==
  /\ phone.does = "claiming"
  /\ ClaimPairing(phone.of)
  /\ IF mine THEN PhoneDoes(phone.of, "waiting") ELSE PhoneDoes(0, "nothing")

ClaimRefused ==
  /\ phone.does = "claiming"
  /\ ~Claimable(phone.of)
  /\ PhoneDoes(0, "nothing")
  /\ UNCHANGED pairingVars

\* Its poll of the session route resolves the device first, ...
PhoneAsks ==
  /\ phone.does = "waiting"
  /\ PhoneDoes(phone.of, IF ResolvesDevice(phone.of) THEN "linked" ELSE "asking")
  /\ UNCHANGED pairingVars

\* ... and then the claim: neither, and it is told that the pairing is gone.
PhoneAnswered ==
  /\ phone.does = "asking"
  /\ PhoneDoes(phone.of, IF ResolvesClaim(phone.of) THEN "waiting" ELSE "gone")
  /\ UNCHANGED pairingVars

-----------------------------------------------------------------------------

Remove(p) == RemoveDevice(p) /\ UNCHANGED <<dialogVars, phone>>

RowsTick == Live # {} /\ RowsAge /\ UNCHANGED <<dialogVars, phone>>

LinkInit ==
  /\ PairingsInit
  /\ stage = Shows("closed")
  /\ held = 0
  /\ busy = FALSE
  /\ renewals = 0
  /\ round = 0
  /\ mint = [r \in Codes |-> "unasked"]
  /\ poll = "none"
  /\ approve = NoApprove
  /\ late = {}
  /\ rechecks = {}
  /\ deletes = {}
  /\ refusals = {}
  /\ lost = 0
  /\ phone = [of |-> 0, does |-> "nothing"]

LinkNext ==
  \/ Open \/ Close \/ ShowNew
  \/ \E r \in Codes : \/ MintRefused(r) \/ MintCounts(r) \/ MintInserts(r) \/ MintFails(r)
                      \/ MintDropped(r) \/ MintAnswered(r)
  \/ PollReads \/ PollAnswered
  \/ \E right \in BOOLEAN : Link(right)
  \/ ApproveReached \/ ApproveAnswered \/ ApproveFails
  \/ \E m \in late : LateReached(m)
  \/ \E c \in rechecks : RecheckReads(c) \/ RecheckAnswered(c)
  \/ Refuse
  \/ \E p \in deletes : DeleteReached(p) \/ DeleteFails(p)
  \/ Scan \/ (\E mine \in BOOLEAN : PhoneClaims(mine)) \/ ClaimRefused
  \/ PhoneAsks \/ PhoneAnswered
  \/ \E p \in Codes : Remove(p)
  \/ RowsTick

LinkSpec == LinkInit /\ [][LinkNext]_linkVars

\* Time passes; the phone polls until it is told; the tab is on the screen and its timer polls.
FairLinkSpec ==
  /\ LinkSpec
  /\ WF_linkVars(RowsTick)
  /\ WF_linkVars(PhoneAsks \/ PhoneAnswered)
  /\ WF_linkVars(PollReads \/ PollAnswered)

-----------------------------------------------------------------------------
(* Properties                                                              *)

\* The rows and the dialog's parts have their types, and a code is shown in a state the server
\* gave it.
LinkTypeOK ==
  /\ PairingsTypeOK
  /\ stage.kind \in {"closed", "minting", "shown", "linked", "expired", "gone", "refused", "fresh"}
  /\ stage.kind = "shown" <=> stage.state \in {"waiting", "claimed"}
  /\ held \in Codes \cup {0}
  /\ approve.of # 0 => busy
  /\ refusals \subseteq deletes
  /\ late \subseteq [of : Codes, right : BOOLEAN]

\* Closing the dialog deletes the code it shows, unless a No is deleting it already: whatever
\* answers of earlier codes arrived while it was shown.
ShownIsHeld == stage.kind = "shown" => held = stage.of \/ stage.of \in refusals

\* The dialog never tells the person fewer tries are left than the server still takes, though
\* answers are lost and those of an earlier code arrive late.
TriesAreLeft == \A p \in Live : IsShown(p) => stage.wrong <= pairing[p].wrong

\* What holds at every moment of the dialog and the rows it speaks of: the types, the claims that
\* are in one table only, the hold on a shown code, and the tries the dialog says are left.
LinkInv == LinkTypeOK /\ ShownIsHeld /\ TriesAreLeft

\* The rows of a user never outgrow the cap by more than the mints the server counts for at the
\* same instant, with no sweep of the expired ones.
TableBounded ==
  Cardinality(Rows) + Cardinality({r \in Codes : mint[r] = "counted"}) <= AtMost - 1 + Concurrent

\* A phone that holds a claim is told: that it is linked, or that the pairing is gone.
PhoneIsTold == phone.does \in {"waiting", "asking"} ~> phone.does \in {"linked", "gone"}

\* The dialog does not show a code for ever: it is linked, replaced, or said to be over.
CodeIsOver == \A p \in Codes : IsShown(p) ~> ~IsShown(p)

\* Neither waits for ever: the person before a code, or the phone for an answer.
LinkingEnds == PhoneIsTold /\ CodeIsOver
=============================================================================
