---------------------------- MODULE Credentials ----------------------------
(***************************************************************************)
(* The rows sign-in keeps, and the statements over them: the users with    *)
(* what their last sign-in said, the sign-ins in progress, the browsers'   *)
(* sessions and the API tokens, beside the pairings and the devices of     *)
(* Pairings. A session is named by the callback that makes it, a token and *)
(* a pairing by themselves, and the two last belong to one user from the   *)
(* start: their ids are random, so no other user's could be the same.      *)
(* Time is what is left of a row's life.                                   *)
(***************************************************************************)
EXTENDS AllowList, Pairings

CONSTANTS
  People,       \* the identities, each with its user row
  Logins,       \* the sign-ins that may begin, each with its state and nonce
  Callbacks,    \* the providers' redirects back, each with the session it may make
  Tokens,       \* the API tokens
  OwnerOf,      \* whose a token or a pairing is
  LoginLife,    \* PENDING_LOGIN_LIFE, in ticks
  SessionLife,  \* session_hours
  FreshFor      \* FRESH_MINUTES

ASSUME CredentialsAssumption ==
  /\ OwnerOf \in [Tokens \cup Codes -> People]
  /\ None \notin People \cup Logins
  /\ {LoginLife, SessionLife, FreshFor} \subseteq Nat \ {0}

VARIABLES
  said,         \* each user's claims as their last sign-in said them, None before it
  login,        \* the pending logins: where each was begun, whom it will bring back
  session,      \* the browsers' sessions
  token         \* "none", "live" or "gone"

tableVars == <<said, login, session, token, pairingVars>>

-----------------------------------------------------------------------------

NoLogin(state) == [state |-> state, provider |-> None, browser |-> None, who |-> None, left |-> 0]

NoSession(state) == [state |-> state, user |-> None, left |-> 0, young |-> 0]

Pending == {l \in Logins : login[l].state = "pending"}

\* Every credential a secret of which somebody may hold, by its table: a claimed pairing's
\* secret becomes the device's.
Credential ==
  ({"session"} \X Callbacks) \cup ({"token"} \X Tokens) \cup ({"device"} \X Codes)

AllRows == Credential \cup ({"pairing"} \X Codes)

Exists(row) ==
  CASE row[1] = "session" -> session[row[2]].state = "live"
    [] row[1] = "token" -> token[row[2]] = "live"
    [] row[1] = "device" -> device[row[2]] = "linked"
    [] row[1] = "pairing" -> row[2] \in Rows

UserOf(row) == IF row[1] = "session" THEN session[row[2]].user ELSE OwnerOf[row[2]]

RowsOf(user) == {row \in AllRows : Exists(row) /\ UserOf(row) = user}

\* A bearer or a cookie is a live row's: its secret's hash is found, and it has not expired.
Resolves(row) == Exists(row) /\ (row[1] = "session" => session[row[2]].left > 0)

-----------------------------------------------------------------------------
(* The statements. Each takes one step, and leaves the tables it does not  *)
(* name as they are, which its caller says.                                *)

\* The expired ones go first.
AddPendingLogin(l, row) ==
  login' = [m \in Logins |->
              CASE m = l -> [row EXCEPT !.state = "pending", !.left = LoginLife]
                [] m # l /\ m \in Pending /\ login[m].left = 0 -> [login[m] EXCEPT !.state = "gone"]
                [] OTHER -> login[m]]

\* Mistaken: read first, and deleted by the session it makes.
KeepLogin(l) == UNCHANGED login

\* Deleted by whoever takes it, expired or not.
TakePendingLogin(l) ==
  login' = IF l \in Pending THEN [login EXCEPT ![l].state = "gone"] ELSE login

\* The upsert of a user: the row keeps what this sign-in said.
AddOrRefreshUser(user, claims) == said' = [said EXCEPT ![user] = claims]

\* A session counts from the start of the callback that makes it.
AddUserSession(c, user, waited) ==
  session' = [session EXCEPT ![c] =
    [state |-> "live", user |-> user,
     left |-> IF waited < SessionLife THEN SessionLife - waited ELSE 0,
     young |-> IF waited < FreshFor THEN FreshFor - waited ELSE 0]]

DeleteUserSession(c) ==
  session' = IF session[c].state = "live" THEN [session EXCEPT ![c] = NoSession("gone")]
             ELSE session

AddApiToken(t) == token' = [token EXCEPT ![t] = "live"]

DeleteApiToken(t) == token' = [token EXCEPT ![t] = "gone"]

\* The four deletes of one statement: what they saw when it began, as far as it is still there.
DeleteCredentials(rows) ==
  /\ session' = [c \in Callbacks |->
                   IF <<"session", c>> \in rows THEN NoSession("gone") ELSE session[c]]
  /\ token' = [t \in Tokens |-> IF <<"token", t>> \in rows THEN "gone" ELSE token[t]]
  /\ device' = [p \in Codes |-> IF <<"device", p>> \in rows /\ device[p] = "linked"
                                THEN "removed" ELSE device[p]]
  /\ pairing' = [p \in Codes |-> IF <<"pairing", p>> \in rows /\ p \in Rows
                                 THEN Row("gone") ELSE pairing[p]]

\* The operator's: one user's devices, one device, or every device.
DeleteDeviceSessions(which) ==
  device' = [p \in Codes |-> IF p \in which /\ device[p] = "linked" THEN "removed"
                             ELSE device[p]]

OneLess(n) == IF n > 0 THEN n - 1 ELSE 0

\* Tokens and devices, of ninety and thirty days, outlive what is looked at here.
TablesAge ==
  /\ login' = [l \in Logins |-> [login[l] EXCEPT !.left = OneLess(@)]]
  /\ session' = [c \in Callbacks |-> [session[c] EXCEPT !.left = OneLess(@), !.young = OneLess(@)]]
  /\ RowsAge
  /\ UNCHANGED <<said, token>>

TablesInit ==
  /\ said = [u \in People |-> None]
  /\ login = [l \in Logins |-> NoLogin("none")]
  /\ session = [c \in Callbacks |-> NoSession("none")]
  /\ token = [t \in Tokens |-> "none"]
  /\ PairingsInit
=============================================================================
