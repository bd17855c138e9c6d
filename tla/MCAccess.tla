------------------------------ MODULE MCAccess ------------------------------
(***************************************************************************)
(* An employee with a Google Workspace account and a stranger who opened   *)
(* a personal one with an address of the company's; an operator whose file *)
(* names the company in one of a few ways, and may be refused.             *)
(***************************************************************************)
EXTENDS Access, TLC

CONSTANTS e, s, l1, l2, p1, p2, b1, b2, t1, c1, c2, r1, k1

Says(who, email, hd) ==
  [sub |-> who, email |-> email, email_verified |-> TRUE, hd |-> hd,
   groups |-> {}, sound |-> TRUE, nonce |-> None]

Raw(entries) ==
  [admin |-> FALSE, keys_known |-> TRUE, scheme |-> "https", bare |-> TRUE, device_days |-> 30,
   providers |-> [id \in {"google"} |-> [issuer |-> "google", groups_claim |-> FALSE]],
   misspelt |-> {}, allow |-> entries]

Entry(matcher, value) == [provider |-> "google", given |-> {matcher}, value |-> value]

ByEmail == Raw({Entry("email", "e@acme")})
ByDomain == Raw({Entry("hosted_domain", "acme")})
Anybody == Raw({Entry("everyone", "true")})

MCDomainOf == [a \in {"e@acme", "married@acme"} |-> "acme"]

MCFiles == {ByEmail, ByDomain, Anybody}
TwoFiles == {ByEmail, ByDomain}

MCProviderOf == [who \in People |-> "google"]

\* The employee marries; the stranger's address is the employee's.
MCAccounts ==
  [who \in People |->
     IF who = e THEN {Says(e, "e@acme", "acme"), Says(e, "married@acme", "acme")}
     ELSE {Says(s, "e@acme", None)}]

MCOwnerOf == [x \in Tokens \cup Codes |-> e]

MCDiscoveries ==
  {[status |-> "200", object |-> TRUE, issuer_same |-> same, endpoints_safe |-> TRUE] :
     same \in BOOLEAN}

MCAnswers == {[status |-> st, object |-> st = "200", error |-> FALSE] :
                st \in {"200", "4xx", "none"}}

Symmetries == Permutations({l1, l2}) \cup Permutations({c1, c2})
BrowsersAlike == Symmetries \cup Permutations({b1, b2})
ProcessesAlike == Symmetries \cup Permutations({p1, p2})
=============================================================================
