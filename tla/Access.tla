------------------------------ MODULE Access ------------------------------
(***************************************************************************)
(* Sign-in and what its credentials open: browsers that begin a sign-in    *)
(* and come back from the provider, the requests a session, a token or a   *)
(* device makes, the allow list checked at both, and what a refusal by it  *)
(* deletes. Several server processes share the tables; each has read the   *)
(* configuration when it started, and keeps the checks it passed lately.   *)
(*                                                                         *)
(* A call reads its clock and its row in one step; whatever it does after  *)
(* that may be any time later, when others have changed both. "age" is how *)
(* long ago it read its clock. A write that reaches a browser, its         *)
(* cookies, does so with the answer, or the answer is lost.                *)
(***************************************************************************)
EXTENDS Credentials

CONSTANTS
  Processes,    \* the server processes
  Browsers,
  Requests,     \* requests that are being answered at one time
  Files,        \* the configuration files the operator may write
  ProviderOf,   \* the provider of each identity
  Accounts,     \* what a person's provider may say of them: their ID token but its nonce
  Discoveries,  \* the answers of a provider's discovery endpoint
  Answers,      \* the answers of its token endpoint
  CheckLife,    \* ALLOW_CHECK_LIFE
  MaxWait,      \* bound: how many ticks a call may take
  Stops         \* bound: how often a process may stop

ASSUME AccessAssumption ==
  /\ \A p, q \in Codes : OwnerOf[p] = OwnerOf[q]
  /\ CheckLife \in Nat \ {0}
  /\ {MaxWait, Stops} \subseteq Nat

\* An identity is its provider's subject. What keys_known says of the entries. And what an account
\* says is something.
ASSUME AccountsAssumption ==
  /\ \A who \in People : \A account \in Accounts[who] :
       /\ {"sub", "email", "email_verified", "hd", "groups"} \subseteq DOMAIN account
       /\ account.sub = who
  /\ \A file \in Files : file.keys_known => \A entry \in file.allow : entry.given \subseteq Matchers
  /\ \A who \in People, file \in Files : Parses(file) =>
       \A account \in Accounts[who], id \in DOMAIN file.providers :
         CheckedClaims(account, file.providers[id]) # None

VARIABLES
  server,       \* each process: the configuration it serves, or None while it is down
  stops,        \* how often a process stopped
  passed,       \* each process's RecentChecks: how long ago each credential passed
  jar,          \* each browser's cookies
  callback,     \* each redirect back from the provider
  request,      \* each request being answered
  out           \* how long each process's list has not let each user's row in

deploymentVars == <<server, stops, out>>

vars == <<tableVars, deploymentVars, passed, jar, callback, request>>

-----------------------------------------------------------------------------

NotAnswering == [pc |-> "idle", at |-> None, browser |-> None, login |-> None, age |-> 0,
                 user |-> None, claims |-> None, saw |-> {}]

NotAsking == [pc |-> "idle", at |-> None, by |-> None, user |-> None, claims |-> None,
              age |-> 0, young |-> 0, saw |-> {}]

\* How long each process's list has not let in a user as their row has them, after a step: no
\* part of the program, and no guard reads it.
OutWith(servers, rows, longer) ==
  [p \in Processes |-> [u \in People |->
     IF servers[p] = None \/ rows[u] = None
        \/ IsAllowed(servers[p].allow, ProviderOf[u], rows[u]) THEN 0 ELSE longer[p][u]]]

\* A pass so long ago that no request being answered would believe it.
Never == CheckLife + MaxWait

LetsIn(config, user, claims) == IsAllowed(config.allow, ProviderOf[user], claims)

\* A credential passed less than CheckLife before this request began, and not after.
Passed(p, row, age) == passed[p][row] >= age /\ passed[p][row] - age < CheckLife

Record(p, row, age) == passed' = [passed EXCEPT ![p][row] = age]

-----------------------------------------------------------------------------
(* Signing in                                                              *)

\* GET /auth/login: the login cookie is the last sign-in's this browser began. "who" is whom the
\* provider will let in, if it is ever asked.
Begin(b, l, who, p, discovery) ==
  LET id == ProviderOf[who]
  IN  /\ server[p] # None /\ id \in DOMAIN server[p].providers
      /\ Discovered(discovery)
      /\ login[l].state = "none"
      /\ AddPendingLogin(l, [NoLogin("none") EXCEPT !.provider = id, !.browser = b, !.who = who])
      /\ jar' = [jar EXCEPT ![b].login = l]
      /\ UNCHANGED <<said, session, token, pairingVars, deploymentVars, passed, callback, request>>

\* Mistaken: the state alone is enough.
AnyBrowser(b, l) == TRUE

CookieMatches(b, l) == jar[b].login = l

\* GET /auth/callback, with a code and a state, in any browser, as often as it is sent there.
\* The sign-in is taken, and judged after.
Callback(c, b, l, p) ==
  /\ callback[c].pc = "idle" /\ server[p] # None /\ login[l].state # "none"
  /\ CookieMatches(b, l)
  /\ TakePendingLogin(l)
  /\ callback' = [callback EXCEPT ![c] =
       IF l \in Pending /\ login[l].left > 0
       THEN [NotAnswering EXCEPT !.pc = "took", !.at = p, !.browser = b, !.login = l,
                                 !.user = login[l].who]
       ELSE [NotAnswering EXCEPT !.pc = "over", !.login = l]]
  /\ UNCHANGED <<said, session, token, pairingVars, deploymentVars, passed, jar, request>>

Becomes(c, pc) == callback' = [callback EXCEPT ![c].pc = pc]

Over(c) == [NotAnswering EXCEPT !.pc = "over", !.login = callback[c].login]

IsOver(c) == callback' = [callback EXCEPT ![c] = Over(c)]

\* The code is exchanged for what the provider says of the person by now, and the list is read with
\* it. An unknown provider, or any other answer, is a refusal that ends nothing.
Exchange(c, discovery, secret_set, answer, account, sound, nonce) ==
  LET k == callback[c]
      config == server[k.at]
      id == login[k.login].provider
      says == [account EXCEPT !.sound = sound, !.nonce = nonce]
      outcome == IF id \notin DOMAIN config.providers THEN "unknown_provider"
                 ELSE Exchanged(discovery, secret_set, answer, says, k.login)
      claims == CheckedClaims(says, config.providers[id])
  IN  /\ k.pc = "took"
      /\ IF outcome # "ok" THEN IsOver(c)
         ELSE callback' = [callback EXCEPT ![c] = [@ EXCEPT !.claims = claims,
                !.pc = IF LetsIn(config, k.user, claims) THEN "vouched" ELSE "refusing"]]
      /\ UNCHANGED <<tableVars, deploymentVars, passed, jar, request>>

EnsureUser(c) ==
  /\ callback[c].pc = "vouched"
  /\ AddOrRefreshUser(callback[c].user, callback[c].claims)
  /\ Becomes(c, "known")
  /\ out' = OutWith(server, said', out)
  /\ UNCHANGED <<login, session, token, pairingVars, server, stops, passed, jar, request>>

MakeSession(c) ==
  /\ callback[c].pc = "known"
  /\ AddUserSession(c, callback[c].user, callback[c].age)
  /\ Becomes(c, "made")
  /\ UNCHANGED <<said, login, token, pairingVars, deploymentVars, passed, jar, request>>

\* The answer sets the session cookie and clears the login cookie, whichever sign-in it holds.
SignedIn(c, arrives) ==
  /\ callback[c].pc = "made"
  /\ IsOver(c)
  /\ jar' = IF arrives THEN [jar EXCEPT ![callback[c].browser] = [login |-> None, session |-> c]]
            ELSE jar
  /\ UNCHANGED <<tableVars, deploymentVars, passed, request>>

\* The list's refusal deletes every credential of the identity: what the statement sees ...
RefusalSees(c) ==
  /\ callback[c].pc = "refusing"
  /\ callback' = [callback EXCEPT ![c].pc = "deleting", ![c].saw = RowsOf(callback[c].user)]
  /\ UNCHANGED <<tableVars, deploymentVars, passed, jar, request>>

\* ... and what it deletes when it commits.
RefusalDeletes(c) ==
  /\ callback[c].pc = "deleting"
  /\ DeleteCredentials(callback[c].saw)
  /\ IsOver(c)
  /\ UNCHANGED <<said, login, deploymentVars, passed, jar, request>>

-----------------------------------------------------------------------------
(* Being asked                                                             *)

\* Who may present a credential: the browser whose cookie it is, and whoever was shown a
\* token or a claim's secret, which they keep when it is worth nothing any more.
Presentable(row) ==
  CASE row[1] = "session" -> \E b \in Browsers : jar[b].session = row[2]
    [] row[1] = "token" -> token[row[2]] # "none"
    [] row[1] = "device" -> device[row[2]] # "none"

\* The first statement of a request: whose credential this is, with what their row says.
Ask(r, p, row) ==
  /\ request[r].pc = "idle" /\ server[p] # None
  /\ Presentable(row) /\ Resolves(row)
  /\ request' = [request EXCEPT ![r] =
       [NotAsking EXCEPT !.pc = "read", !.at = p, !.by = row, !.user = UserOf(row),
                         !.claims = said[UserOf(row)],
                         !.young = IF row[1] = "session" THEN session[row[2]].young ELSE 0]]
  /\ UNCHANGED <<tableVars, deploymentVars, passed, jar, callback>>

\* What a request may go on to do: mint with a fresh session, change what it has with any
\* session, and nothing more than ask with a token or a device.
May(q) ==
  CASE q.by[1] # "session" -> "asks"
    [] q.by[1] = "session" /\ q.young = 0 -> "browses"
    [] OTHER -> "mints"

Lately(q) == Passed(q.at, q.by, q.age)

\* Mistaken: every use of a credential counts as a pass of it.
CheckAndRenew(r) ==
  LET q == request[r]
      in == Lately(q) \/ LetsIn(server[q.at], q.user, q.claims)
  IN  /\ q.pc = "read"
      /\ IF in THEN Record(q.at, q.by, q.age) ELSE UNCHANGED passed
      /\ request' = [request EXCEPT ![r].pc = IF in THEN May(q) ELSE "refusing"]
      /\ UNCHANGED <<tableVars, deploymentVars, jar, callback>>

\* still_allowed: a pass of the last minute, or the list against what the user's last sign-in
\* said, which is a pass; anything else deletes.
Check(r) ==
  LET q == request[r]
      in == LetsIn(server[q.at], q.user, q.claims)
  IN  /\ q.pc = "read"
      /\ IF ~Lately(q) /\ in THEN Record(q.at, q.by, q.age) ELSE UNCHANGED passed
      /\ request' = [request EXCEPT ![r].pc = IF Lately(q) \/ in THEN May(q) ELSE "refusing"]
      /\ UNCHANGED <<tableVars, deploymentVars, jar, callback>>

CheckSees(r) ==
  /\ request[r].pc = "refusing"
  /\ request' = [request EXCEPT ![r].pc = "deleting", ![r].saw = RowsOf(request[r].user)]
  /\ UNCHANGED <<tableVars, deploymentVars, passed, jar, callback>>

Answered(r) == request' = [request EXCEPT ![r] = NotAsking]

CheckDeletes(r) ==
  /\ request[r].pc = "deleting"
  /\ DeleteCredentials(request[r].saw)
  /\ Answered(r)
  /\ UNCHANGED <<said, login, deploymentVars, passed, jar, callback>>

Accepted == {"asks", "browses", "mints"}

\* Every other route.
Reads(r) ==
  /\ request[r].pc \in Accepted
  /\ Answered(r)
  /\ UNCHANGED <<tableVars, deploymentVars, passed, jar, callback>>

MintToken(r, t) ==
  /\ request[r].pc = "mints" /\ request[r].user = OwnerOf[t] /\ token[t] = "none"
  /\ AddApiToken(t)
  /\ Answered(r)
  /\ UNCHANGED <<said, login, session, pairingVars, deploymentVars, passed, jar, callback>>

RevokeToken(r, t) ==
  /\ request[r].pc \in {"browses", "mints"} /\ request[r].user = OwnerOf[t] /\ token[t] = "live"
  /\ DeleteApiToken(t)
  /\ Answered(r)
  /\ UNCHANGED <<said, login, session, pairingVars, deploymentVars, passed, jar, callback>>

\* A deployment with device_days 0 neither mints a pairing nor approves one.
MintPairing(r, p) ==
  /\ request[r].pc = "mints" /\ request[r].user = OwnerOf[p] /\ server[request[r].at].devices
  /\ pairing[p].state = "none" /\ UnderTheCap
  /\ pairing' = [WithoutExpired EXCEPT ![p] = [Row("waiting") EXCEPT !.left = Life]]
  /\ Answered(r)
  /\ UNCHANGED <<said, login, session, token, device, deploymentVars, passed, jar, callback>>

\* A browser's approve, refusal or removal of what it owns.
Manage(r, p, right) ==
  /\ request[r].pc \in {"browses", "mints"} /\ request[r].user = OwnerOf[p]
  /\ \/ server[request[r].at].devices /\ ApprovePairing(p, right)
     \/ DeletePairing(p)
     \/ RemoveDevice(p)
  /\ Answered(r)
  /\ UNCHANGED <<said, login, session, token, deploymentVars, passed, jar, callback>>

\* A phone claims a code: nobody is asked who it is.
Claim(p) ==
  /\ \E s \in Processes : server[s] # None
  /\ ClaimPairing(p)
  /\ UNCHANGED <<said, login, session, token, deploymentVars, passed, jar, callback, request>>

\* POST /auth/logout, by a browser: the list is not asked.
SignOut(b, p) ==
  /\ server[p] # None /\ jar[b].session # None
  /\ DeleteUserSession(jar[b].session)
  /\ jar' = [jar EXCEPT ![b].session = None]
  /\ UNCHANGED <<said, login, token, pairingVars, deploymentVars, passed, callback, request>>

\* A device signs itself out, or "robinauts devices end" ends one, a person's or all.
EndDevices(which) ==
  /\ \E p \in which : ResolvesDevice(p)
  /\ DeleteDeviceSessions(which)
  /\ UNCHANGED <<said, login, session, token, pairing, deploymentVars, passed, jar, callback,
                 request>>

-----------------------------------------------------------------------------
(* The deployment and time                                                 *)

\* A process stops or dies: what it was answering, and the checks it kept, go with it.
Stop(p) ==
  /\ server[p] # None /\ stops < Stops
  /\ stops' = stops + 1
  /\ server' = [server EXCEPT ![p] = None]
  /\ out' = OutWith(server', said, out)
  /\ passed' = [passed EXCEPT ![p] = [row \in Credential |-> Never]]
  /\ callback' = [c \in Callbacks |-> IF callback[c].at = p
                                      THEN Over(c)
                                      ELSE callback[c]]
  /\ request' = [r \in Requests |-> IF request[r].at = p THEN NotAsking ELSE request[r]]
  /\ UNCHANGED <<tableVars, jar>>

\* The file, as the operator has it by now, is read once, and refused as a whole.
Start(p, file) ==
  /\ server[p] = None /\ Parses(file)
  /\ server' = [server EXCEPT ![p] = ConfigOf(file)]
  /\ out' = OutWith(server', said, out)
  /\ UNCHANGED <<tableVars, stops, passed, jar, callback, request>>

InProgress(call) == call.pc \notin {"idle", "over"}

OneMore(n) == IF n < Never THEN n + 1 ELSE n

Tick ==
  /\ \A c \in Callbacks : InProgress(callback[c]) => callback[c].age < MaxWait
  /\ \A r \in Requests : InProgress(request[r]) => request[r].age < MaxWait
  /\ TablesAge
  /\ passed' = [p \in Processes |-> [row \in Credential |-> OneMore(passed[p][row])]]
  /\ callback' = [c \in Callbacks |->
                    IF InProgress(callback[c]) THEN [callback[c] EXCEPT !.age = @ + 1]
                    ELSE callback[c]]
  /\ request' = [r \in Requests |->
                   IF InProgress(request[r])
                   THEN [request[r] EXCEPT !.age = @ + 1, !.young = OneLess(@)]
                   ELSE request[r]]
  /\ out' = OutWith(server, said, [p \in Processes |-> [u \in People |-> OneMore(out[p][u])]])
  /\ UNCHANGED <<server, stops, jar>>

-----------------------------------------------------------------------------

Init ==
  /\ TablesInit
  /\ server \in [Processes -> {ConfigOf(f) : f \in {g \in Files : Parses(g)}}]
  /\ stops = 0
  /\ passed = [p \in Processes |-> [row \in Credential |-> Never]]
  /\ jar = [b \in Browsers |-> [login |-> None, session |-> None]]
  /\ callback = [c \in Callbacks |-> NotAnswering]
  /\ request = [r \in Requests |-> NotAsking]
  /\ out = [p \in Processes |-> [u \in People |-> 0]]

SigningIn ==
  \/ \E b \in Browsers, l \in Logins, p \in Processes, d \in Discoveries :
       \E who \in People : Begin(b, l, who, p, d)
  \/ \E c \in Callbacks, b \in Browsers, l \in Logins, p \in Processes : Callback(c, b, l, p)
  \/ \E c \in Callbacks :
       \/ \E d \in Discoveries, a \in Answers, secret_set, sound \in BOOLEAN :
            \E account \in UNION {Accounts[who] : who \in {callback[c].user} \cap People},
               nonce \in {callback[c].login, None} :
              Exchange(c, d, secret_set, a, account, sound, nonce)
       \/ EnsureUser(c)
       \/ MakeSession(c)
       \/ \E arrives \in BOOLEAN : SignedIn(c, arrives)
       \/ RefusalSees(c)
       \/ RefusalDeletes(c)

Asking ==
  \/ \E r \in Requests :
       \/ \E p \in Processes, row \in Credential : Ask(r, p, row)
       \/ Check(r)
       \/ CheckSees(r)
       \/ CheckDeletes(r)
       \/ Reads(r)
       \/ \E t \in Tokens : MintToken(r, t) \/ RevokeToken(r, t)
       \/ \E p \in Codes : MintPairing(r, p) \/ \E right \in BOOLEAN : Manage(r, p, right)
  \/ \E p \in Codes : Claim(p)
  \/ \E b \in Browsers, p \in Processes : SignOut(b, p)
  \/ \E which \in SUBSET Codes : EndDevices(which)

Deployment ==
  \E p \in Processes :
    \/ Stop(p)
    \/ \E file \in Files : Start(p, file)

Next == SigningIn \/ Asking \/ Deployment \/ Tick

AccessSpec == Init /\ [][Next]_vars

-----------------------------------------------------------------------------
(* Properties                                                              *)

\* The types. A call in progress is at a process that is up; nobody has a session, a token or
\* a pairing before a row of theirs.
AccessTypeOK ==
  /\ PairingsTypeOK
  /\ \A l \in Logins : /\ login[l].state \in {"none", "pending", "gone"}
                       /\ login[l].left \in 0..LoginLife
                       /\ login[l].browser \in Browsers \cup {None}
  /\ \A c \in Callbacks : /\ session[c].left \in 0..SessionLife
                          /\ session[c].young \in 0..FreshFor
                          /\ session[c].state \in {"none", "live", "gone"}
                          /\ InProgress(callback[c]) => server[callback[c].at] # None
  /\ \A r \in Requests : InProgress(request[r]) => server[request[r].at] # None
  /\ \A row \in AllRows : Exists(row) => said[UserOf(row)] # None
  /\ token \in [Tokens -> {"none", "live", "gone"}]
  /\ passed \in [Processes -> [Credential -> 0..Never]]

\* However often, and at however many processes, the redirect of one sign-in comes back, it
\* makes at most one session.
SignedInOnce ==
  \A c, d \in Callbacks :
    session[c].state # "none" /\ session[d].state # "none" /\ callback[c].login = callback[d].login
      => c = d

\* What holds at every moment of the tables and of the sign-ins: the types, and that however its
\* callbacks race, take_pending_login gives a login to one of them.
AccessInv == AccessTypeOK /\ SignedInOnce

\* A session's cookie is in the browser that began its sign-in, and the session is of the
\* person the provider let in for it, whatever other sign-ins either has in progress.
LandsWhereBegun ==
  \A b \in Browsers :
    jar[b].session # None =>
      LET l == callback[jar[b].session].login
      IN  /\ login[l].browser = b
          /\ session[jar[b].session].state = "live" => session[jar[b].session].user = login[l].who

\* An entry of the file means a person: by subject or group; by an address or a domain that is
\* theirs; by a Workspace that has them; everybody, where accounts are given out and not opened.
Means(file, e, who) ==
  LET google == IsGoogle(file, e)
      theirs == {a \in Accounts[who] : a.email_verified
                                       /\ (google => a.hd # None \/ DomainOf[a.email] = "gmail")}
  IN  \/ e.given = {"everyone"} /\ ~google
      \/ e.given = {"subject"} /\ e.value = who
      \/ e.given = {"group"} /\ \E a \in Accounts[who] : e.value \in a.groups
      \/ e.given = {"email"} /\ \E a \in theirs : a.email = e.value
      \/ e.given = {"email_domain"} /\ ~google /\ \E a \in theirs : DomainOf[a.email] = e.value
      \/ e.given = {"hosted_domain"} /\ google /\ \E a \in Accounts[who] : a.hd = e.value

\* Nobody ever has a session unless an entry means them: not a personal account opened with an
\* address of the company's, and not by an entry that would let anybody in.
OnlyThoseMeant ==
  \A c \in Callbacks : session[c].state = "live" =>
    \E f \in Files : \E e \in f.allow :
      e.provider = ProviderOf[session[c].user] /\ Means(f, e, session[c].user)

\* A request is let in only if, within the minute before it began, the list of its process let
\* its user in as their row then was: a pass is not renewed by being used, nor kept past a
\* restart with another list.
WithinAMinute ==
  [][\A r \in Requests :
       LET q == request[r]
       IN  q.pc = "read" /\ request'[r].pc \in Accepted
             => out[q.at][q.user] - q.age < CheckLife]_vars
=============================================================================
