----------------------------- MODULE AllowList -----------------------------
(***************************************************************************)
(* Who may sign in: sign-in's half of the configuration file, refused or   *)
(* read, and the allow list as it is matched against what a provider       *)
(* vouched for. Letter case, which the matchers ignore in addresses, is    *)
(* left out.                                                               *)
(***************************************************************************)
EXTENDS Integers, FiniteSets

CONSTANTS
  None,       \* an absent value
  DomainOf    \* the domain of each address

-----------------------------------------------------------------------------
(* The file. A raw table is a record of                                    *)
(*   admin, keys_known  whether there is an admin list, and whether every  *)
(*                      key of the providers and entries is one of theirs  *)
(*   scheme, bare       public_url's: "https", "loopback" (http) or "http";*)
(*                      bare when it is an origin and nothing more         *)
(*   device_days        a number, or None for what is not one              *)
(*   providers          id -> [issuer "google" or "another", groups_claim] *)
(*   misspelt           ids that do not match PROVIDER_ID_PATTERN          *)
(*   allow              entries [provider, given, value], given the set of *)
(*                      matchers the entry has                             *)

Matchers == {"everyone", "subject", "email", "email_domain", "hosted_domain", "group"}

IsDays(value) == value # None /\ value >= 0

IsGoogle(raw, entry) == raw.providers[entry.provider].issuer = "google"

\* One matcher, of a configured provider, that means something there: anybody may open a Google
\* account, and only Google has hosted domains.
IsEntry(raw, entry) ==
  /\ Cardinality(entry.given) = 1
  /\ entry.provider \in DOMAIN raw.providers
  /\ LET matcher == CHOOSE m \in entry.given : TRUE
     IN  /\ IsGoogle(raw, entry) => matcher \notin {"everyone", "email_domain"}
         /\ matcher = "hosted_domain" => IsGoogle(raw, entry)
         /\ matcher = "everyone" => entry.value = "true"

\* What parse_sign_in refuses nothing of.
Parses(raw) ==
  /\ ~raw.admin /\ raw.keys_known
  /\ raw.scheme \in {"https", "loopback"} /\ raw.bare
  /\ IsDays(raw.device_days)
  /\ raw.misspelt = {}
  /\ DOMAIN raw.providers # {} => raw.allow # {}
  /\ \A entry \in raw.allow : IsEntry(raw, entry)

\* The configuration of a file that parses.
ConfigOf(raw) ==
  [secure |-> raw.scheme = "https",
   devices |-> raw.device_days > 0,
   providers |-> raw.providers,
   allow |-> {[provider |-> e.provider, matcher |-> CHOOSE m \in e.given : TRUE,
               value |-> e.value] : e \in raw.allow}]

-----------------------------------------------------------------------------
(* Matching                                                                *)

Allows(entry, claims) ==
  CASE entry.matcher = "everyone" -> TRUE
    [] entry.matcher = "subject" -> claims.subject = entry.value
    [] entry.matcher = "email" -> claims.email # None /\ claims.email = entry.value
    [] entry.matcher = "email_domain" -> claims.email # None /\ DomainOf[claims.email] = entry.value
    [] entry.matcher = "hosted_domain" -> claims.hosted_domain = entry.value
    [] entry.matcher = "group" -> entry.value \in claims.groups

IsAllowed(allow, provider, claims) ==
  \E entry \in allow : entry.provider = provider /\ Allows(entry, claims)

-----------------------------------------------------------------------------
(* What the provider's ID token says                                       *)

\* A token's iss, aud, azp, exp, iat and sub are as they must be ("sound"), and it is this
\* sign-in's.
IsOurs(token, nonce) == token.sound /\ token.nonce = nonce

\* Mistaken: an address Google calls verified is the account's own.
AnyVerified(token, provider) == token.email_verified

\* Google verifies a personal account's address whatever its domain: it is the account's own
\* only in a Workspace or at Gmail.
EmailIsTheirs(token, provider) ==
  /\ token.email_verified
  /\ \/ provider.issuer # "google"
     \/ token.hd # None
     \/ DomainOf[token.email] = "gmail"

CheckedClaims(token, provider) ==
  [subject |-> token.sub,
   email |-> IF token.email # None /\ EmailIsTheirs(token, provider) THEN token.email ELSE None,
   hosted_domain |-> IF provider.issuer = "google" THEN token.hd ELSE None,
   groups |-> IF provider.groups_claim THEN token.groups ELSE {}]

-----------------------------------------------------------------------------
(* The exchange with the provider. An answer of one of its endpoints is    *)
(* [status, object, ...]: "none" when the request timed out or failed, and *)
(* whether its body is a JSON object.                                      *)

\* The discovery document is the configured issuer's, and its endpoints are https or loopback.
Discovered(answer) ==
  answer.status = "200" /\ answer.object /\ answer.issuer_same /\ answer.endpoints_safe


\* What the token endpoint answered, as the code the browser is told, or "ok".
TokenAnswer(answer) ==
  CASE answer.status \in {"none", "5xx"} -> "provider_unavailable"
    [] answer.status = "4xx" \/ (answer.object /\ answer.error) -> "provider_refused"
    [] answer.status # "200" \/ ~answer.object -> "provider_unavailable"
    [] OTHER -> "ok"

\* The outcome of one sign-in's exchange: a code, or "ok" when the token's claims are to be
\* read. Without the client secret nothing is sent.
Exchanged(discovery, secret_set, answer, token, nonce) ==
  CASE ~Discovered(discovery) \/ ~secret_set -> "provider_unavailable"
    [] TokenAnswer(answer) # "ok" -> TokenAnswer(answer)
    [] token = None \/ ~IsOurs(token, nonce) -> "invalid_id_token"
    [] OTHER -> "ok"
=============================================================================
