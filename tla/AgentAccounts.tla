--------------------------- MODULE AgentAccounts ---------------------------
(***************************************************************************)
(* Accounts of external agents (arclya2a/agents: accounts, terms,          *)
(* email_verification, referrals; partners/production_keys; the handlers   *)
(* of server/agent_account_routes.py that call them).                      *)
(* The handlers run on the event loop.  Each writes several files, one     *)
(* after the other, without letting another handler in between, but the    *)
(* process may die between two writes: due holds the writes still to come  *)
(* and hand what the handler works on.  A request of an agent is           *)
(* authenticated first and handled later, when its body has arrived:       *)
(* waiting holds the requests in between.  Mail is sent by worker threads  *)
(* after the answer.                                                       *)
(***************************************************************************)
EXTENDS Naturals, Sequences, FiniteSets

CONSTANTS
  Agents,         \* agent ids that can be given out
  Emails,         \* addresses
  Requested,      \* what agents ask for, a subset of AllRequested
  Profiles,       \* do new accounts have a full profile?  A subset of BOOLEAN
  Patches,        \* bodies of PATCH /agents/me, a subset of AllPatches
  Codes,          \* agents whose referral codes are passed on
  Settings,       \* environments the server is started with, of AllSettings
  Versions,       \* versions of the terms of service
  Reward,         \* ARCLYA_AGENT_REFERRAL_REWARD_USD: 5 by default
  MaxKeys,        \* bound: keys per agent
  MaxTokens,      \* bound: verification links in all
  MaxWaiting,     \* bound: requests under way at the same time
  MaxCredits,     \* bound: reputation events per referred agent
  MaxCrashes,     \* bound: how often the process is started again
  Keep,           \* a field that a body does not name
  None            \* no account, no address, no referrer

AllRequested == {"patch", "rotate", "resend"}
\* An email of None stands for the empty string, which takes the address away; null
\* leaves it and is the same as naming the present address.
AllPatches == [email : Emails \cup {None, Keep}, profile : BOOLEAN \cup {Keep},
               terms : BOOLEAN, listed : BOOLEAN \cup {Keep}]
\* min is ARCLYA_CRYPTO_MIN_AMOUNT_USD, 10 by default.
AllSettings ==
  {s \in [terms : Versions, verify : BOOLEAN, program : BOOLEAN, wallet : BOOLEAN,
           enabled : BOOLEAN, min : Nat] : s.enabled => s.wallet}

ASSUME ConstantsAssumption ==
  /\ Requested \subseteq AllRequested /\ Profiles \subseteq BOOLEAN
  /\ Patches \subseteq AllPatches
  /\ Codes \subseteq Agents
  /\ Settings \subseteq AllSettings /\ Settings # {}
  /\ None \notin Agents \cup Emails /\ Keep \notin Emails \cup BOOLEAN \cup {None}
  /\ Reward \in Nat
  /\ MaxKeys \in Nat /\ MaxTokens \in Nat /\ MaxWaiting \in Nat
  /\ MaxCredits \in Nat /\ MaxCrashes \in Nat

VARIABLES
  accounts,       \* accounts.jsonl: [Agents -> a row, or None]
  keys,           \* production_keys.json: keys issued, and those that still work
  tokens,         \* email_verification_tokens.jsonl
  referral,       \* referrals.jsonl: the last row about each referred agent
  payouts,        \* payments created for the referral of each agent
  credits,        \* reputation events for the referral of each agent
  mail,           \* links a worker thread is about to send
  inbox,          \* links that have arrived
  old,            \* the first old links have expired
  waiting,        \* authenticated requests whose handlers have not run yet
  due, hand,      \* what the handler under way has still to write, and for whom
  settings,       \* the environment of the running server
  crashes         \* how often the process has been started again

money == <<payouts, credits>>
letters == <<mail, inbox, old>>
job == <<due, hand>>
vars == <<accounts, keys, tokens, referral, money, letters, waiting, job, settings, crashes>>

-----------------------------------------------------------------------------
(* Rows *)

\* A suspended account and one that is pending review differ in messages only.
Rows == [email : Emails \cup {None}, verified : BOOLEAN, terms : Versions,
         profile : BOOLEAN, listed : BOOLEAN, active : BOOLEAN, prefix : Nat]
Tokens == [agent : Agents, email : Emails, used : BOOLEAN, revoked : BOOLEAN]
\* refused counts the rows of the referral that say onboarding_complete.
Referrals == [by : Agents, refused : Nat,
              status : {"pending_onboarding", "onboarding_complete", "payout_pending"}]
Requests == [agent : Agents, op : {"patch", "body", "rotate", "resend"}, key : Nat]
Writes == {"account", "referral", "issue", "prefix", "verified", "payout", "record",
           "credit", "link"}
Hands == [agent : Agents, email : Emails \cup {None}, profile : BOOLEAN,
          by : Agents \cup {None}]

ASSUME NoneAssumption == None \notin Rows /\ None \notin Referrals

Has(a) == accounts[a] # None

\* Mutant: suspended accounts do not keep their addresses.
FreeOfActive(e, a) ==
  \A b \in Agents \ {a} : Has(b) /\ accounts[b].active => accounts[b].email # e

\* find_account_by_email: does another account use the address?
Free(e, a) == \A b \in Agents \ {a} : Has(b) => accounts[b].email # e

TermsAccepted(row) == row.terms = settings.terms

CanJoin(row) ==
  /\ TermsAccepted(row)
  /\ row.email # None
  /\ settings.verify => row.verified
  /\ row.active

\* list_directory_agents, before its filters and pages.
Eligible(row) ==
  /\ row.listed /\ row.active
  /\ TermsAccepted(row)
  /\ settings.verify => row.verified

\* Mutant: the opt-in is forgotten.
CompleteUnlisted(row) == row.verified /\ TermsAccepted(row) /\ row.profile

\* is_onboarding_complete: the status of the account is not looked at.
OnboardingComplete(row) ==
  row.verified /\ TermsAccepted(row) /\ row.profile /\ row.listed

Usable(t) == t \in DOMAIN tokens /\ ~tokens[t].used /\ ~tokens[t].revoked /\ t > old

-----------------------------------------------------------------------------
(* Parts of handlers *)

Idle == due = {}

Holding(a) == [agent |-> a, email |-> None, profile |-> FALSE, by |-> None]

\* What create_crypto_payment_intent answers: a payment, or a ValueError.
PaymentMade == settings.wallet /\ settings.enabled /\ Reward >= settings.min

\* Mutant: a referral whose payout is pending is completed again.
CompletionAgain(a, row) ==
  IF settings.program /\ referral[a] # None /\ OnboardingComplete(row)
  THEN {"record", "credit"} \cup {w \in {"payout"} : PaymentMade}
  ELSE {}

\* try_complete_referral, called when the row of a has just been written.
Completion(a, row) ==
  IF /\ settings.program
     /\ referral[a] # None
     /\ referral[a].status \in {"pending_onboarding", "onboarding_complete"}
     /\ OnboardingComplete(row)
  THEN {"record", "credit"} \cup {w \in {"payout"} : PaymentMade}
  ELSE {}

\* Mutant: the mark of the old address stays.
PatchedVerified(row, p) ==
  [row EXCEPT
     !.email = IF p.email = Keep THEN @ ELSE p.email,
     !.profile = IF p.profile = Keep THEN @ ELSE p.profile,
     !.terms = IF p.terms THEN settings.terms ELSE @,
     !.listed = IF p.listed = Keep THEN @ ELSE p.listed]

\* The row that a body leads to.  Another address is not verified.
Patched(row, p) ==
  [row EXCEPT
     !.email = IF p.email = Keep THEN @ ELSE p.email,
     !.verified = @ /\ (p.email = Keep \/ (p.email = row.email /\ p.email # None)),
     !.profile = IF p.profile = Keep THEN @ ELSE p.profile,
     !.terms = IF p.terms THEN settings.terms ELSE @,
     !.listed = IF p.listed = Keep THEN @ ELSE p.listed]

\* Mutant: older links stay in force.
LinkAdded(a, e) ==
  Append(tokens, [agent |-> a, email |-> e, used |-> FALSE, revoked |-> FALSE])

\* A link that replaces the unused links of the agent.
LinkIssued(a, e) ==
  Append([t \in DOMAIN tokens |->
            [tokens[t] EXCEPT !.revoked = @ \/ (tokens[t].agent = a /\ ~tokens[t].used)]],
         [agent |-> a, email |-> e, used |-> FALSE, revoked |-> FALSE])

LinkRoom == Len(tokens) < MaxTokens

Done(w) == /\ due' = due \ {w}
           /\ hand' = IF due' = {} THEN None ELSE hand

-----------------------------------------------------------------------------
(* Registration *)

\* POST /agents/register: the key is issued before the account exists.
Register(a, e, profile, by) ==
  /\ Idle
  /\ ~Has(a) /\ keys[a].issued = 0
  /\ e # None => Free(e, a) /\ LinkRoom
  /\ by # None => by \in Codes /\ Has(by)
  /\ keys' = [keys EXCEPT ![a] = [issued |-> 1, live |-> {1}]]
  /\ hand' = [agent |-> a, email |-> e, profile |-> profile, by |-> by]
  /\ due' = {"account"} \cup {w \in {"referral"} : by # None /\ settings.program}
                        \cup {w \in {"link"} : e # None}
  /\ UNCHANGED <<accounts, tokens, referral, money, letters, waiting, settings, crashes>>

AppendAccount ==
  /\ "account" \in due
  /\ accounts' = [accounts EXCEPT ![hand.agent] =
       [email |-> hand.email, verified |-> FALSE, terms |-> settings.terms,
        profile |-> hand.profile, listed |-> FALSE, active |-> TRUE, prefix |-> 1]]
  /\ Done("account")
  /\ UNCHANGED <<keys, tokens, referral, money, letters, waiting, settings, crashes>>

RecordReferral ==
  /\ "referral" \in due /\ "account" \notin due
  /\ referral' = [referral EXCEPT ![hand.agent] =
                    [by |-> hand.by, refused |-> 0, status |-> "pending_onboarding"]]
  /\ Done("referral")
  /\ UNCHANGED <<accounts, keys, tokens, money, letters, waiting, settings, crashes>>

-----------------------------------------------------------------------------
(* Verification of the address *)

\* Mutant: the mail is about a link that does not exist yet.
IssueLinkAhead ==
  /\ due = {"link"}
  /\ tokens' = LinkIssued(hand.agent, accounts[hand.agent].email)
  /\ mail' = mail \cup {Len(tokens) + 2}
  /\ Done("link")
  /\ UNCHANGED <<accounts, keys, referral, money, inbox, old, waiting, settings, crashes>>

\* issue_verification_token: the last write of a handler; the mail itself is sent
\* after the answer.
IssueLink ==
  /\ due = {"link"}
  /\ tokens' = LinkIssued(hand.agent, accounts[hand.agent].email)
  /\ mail' = mail \cup {Len(tokens) + 1}
  /\ Done("link")
  /\ UNCHANGED <<accounts, keys, referral, money, inbox, old, waiting, settings, crashes>>

\* A worker thread has sent the mail to the address the link was issued for.
Deliver(t) ==
  /\ t \in mail
  /\ mail' = mail \ {t}
  /\ inbox' = inbox \cup {t}
  /\ UNCHANGED <<accounts, keys, tokens, referral, money, old, waiting, job, settings,
                 crashes>>

\* The mail server refuses it; the failure is noted and the mail not sent again.
MailFails(t) ==
  /\ t \in mail
  /\ mail' = mail \ {t}
  /\ UNCHANGED <<accounts, keys, tokens, referral, money, inbox, old, waiting, job,
                 settings, crashes>>

\* Links expire in the order in which they were issued.
Expire ==
  /\ old < Len(tokens)
  /\ old' = old + 1
  /\ UNCHANGED <<accounts, keys, tokens, referral, money, mail, inbox, waiting, job,
                 settings, crashes>>

\* Somebody follows a link out of the mail.  The token is spent first.
VerifyEmail(t) ==
  /\ Idle
  /\ t \in inbox /\ Usable(t)
  /\ LET a == tokens[t].agent
     IN  /\ Has(a) /\ accounts[a].email = tokens[t].email
         /\ credits[a] < MaxCredits
         /\ hand' = Holding(a)
  /\ tokens' = [tokens EXCEPT ![t].used = TRUE]
  /\ due' = {"verified"}
  /\ UNCHANGED <<accounts, keys, referral, money, letters, waiting, settings, crashes>>

\* Then the account is marked, and its referral may be complete.
MarkVerified ==
  /\ "verified" \in due
  /\ LET a == hand.agent
         row == [accounts[a] EXCEPT !.verified = TRUE]
     IN  /\ accounts' = [accounts EXCEPT ![a] = row]
         /\ due' = Completion(a, row)
  /\ hand' = IF due' = {} THEN None ELSE hand
  /\ UNCHANGED <<keys, tokens, referral, money, letters, waiting, settings, crashes>>

-----------------------------------------------------------------------------
(* Requests of agents *)

\* The middleware accepts any key that works, whatever the account looks like.
Authenticate(a, op) ==
  /\ Idle
  /\ Cardinality(waiting) < MaxWaiting
  /\ \E k \in keys[a].live :
       /\ [agent |-> a, op |-> op, key |-> k] \notin waiting
       /\ waiting' = waiting \cup {[agent |-> a, op |-> op, key |-> k]}
  /\ UNCHANGED <<accounts, keys, tokens, referral, money, letters, job, settings, crashes>>

\* The handler of PATCH looks the account up, and then waits for the body.
Resolve(r) ==
  /\ Idle
  /\ r.op = "patch"
  /\ Has(r.agent) /\ accounts[r.agent].active
  /\ waiting' = (waiting \ {r}) \cup {[r EXCEPT !.op = "body"]}
  /\ UNCHANGED <<accounts, keys, tokens, referral, money, letters, job, settings, crashes>>

\* A request that is refused, or whose body is not valid, changes nothing.
Refuse(r) ==
  /\ Idle
  /\ waiting' = waiting \ {r}
  /\ UNCHANGED <<accounts, keys, tokens, referral, money, letters, job, settings, crashes>>

\* An agent whose account is not active changes nothing.
Patchable(a) == Has(a) /\ accounts[a].active

\* update_agent_profile: the row is read again and its status checked again.
PatchProfile(r, p) ==
  /\ Idle
  /\ r.op = "body"
  /\ LET a == r.agent
         row == Patched(accounts[a], p)
     IN  /\ Patchable(a)
         /\ credits[a] < MaxCredits
         /\ p.email \in Emails => Free(p.email, a)
         /\ p.listed = TRUE => CanJoin(row)
         /\ accounts' = [accounts EXCEPT ![a] = row]
         /\ due' = Completion(a, row)
                     \cup {w \in {"link"} : p.email # Keep /\ row.email # None /\ ~row.verified}
         /\ "link" \in due' => LinkRoom
         /\ hand' = IF due' = {} THEN None ELSE Holding(a)
  /\ waiting' = waiting \ {r}
  /\ UNCHANGED <<keys, tokens, referral, money, letters, settings, crashes>>

ResendLink(r) ==
  /\ Idle /\ LinkRoom
  /\ r.op = "resend"
  /\ Has(r.agent) /\ accounts[r.agent].active
  /\ accounts[r.agent].email # None /\ ~accounts[r.agent].verified
  /\ due' = {"link"} /\ hand' = Holding(r.agent)
  /\ waiting' = waiting \ {r}
  /\ UNCHANGED <<accounts, keys, tokens, referral, money, letters, settings, crashes>>

-----------------------------------------------------------------------------
(* Keys *)

\* Mutant: the old key is left as it is.
RotateUnrevoked(a) ==
  /\ keys[a].issued < MaxKeys
  /\ due' = {"issue", "prefix"} /\ hand' = Holding(a)
  /\ UNCHANGED <<accounts, keys, tokens, referral, money, letters, settings, crashes>>

\* rotate_production_key_for_partner: all keys of the agent are revoked, then a
\* new one is issued, then the account shows its prefix.
Rotate(a) ==
  /\ keys[a].issued < MaxKeys
  /\ keys' = [keys EXCEPT ![a].live = {}]
  /\ due' = {"issue", "prefix"} /\ hand' = Holding(a)
  /\ UNCHANGED <<accounts, tokens, referral, money, letters, settings, crashes>>

\* Mutant: the middleware's check of the key is enough.
RotateOwnStale(r) ==
  /\ Idle
  /\ r.op = "rotate"
  /\ Has(r.agent) /\ accounts[r.agent].active
  /\ Rotate(r.agent)
  /\ waiting' = waiting \ {r}

\* The agent's own rotation: the key is looked up once more.
RotateOwn(r) ==
  /\ Idle
  /\ r.op = "rotate"
  /\ Has(r.agent) /\ accounts[r.agent].active
  /\ r.key \in keys[r.agent].live
  /\ Rotate(r.agent)
  /\ waiting' = waiting \ {r}

\* The operator's, which any account gets.
RotateForced(a) ==
  /\ Idle
  /\ Has(a)
  /\ Rotate(a)
  /\ UNCHANGED waiting

IssueKey ==
  /\ "issue" \in due
  /\ LET k == keys[hand.agent].issued + 1
     IN  keys' = [keys EXCEPT ![hand.agent] = [issued |-> k, live |-> @.live \cup {k}]]
  /\ Done("issue")
  /\ UNCHANGED <<accounts, tokens, referral, money, letters, waiting, settings, crashes>>

WritePrefix ==
  /\ "prefix" \in due /\ "issue" \notin due
  /\ accounts' = [accounts EXCEPT ![hand.agent].prefix = keys[hand.agent].issued]
  /\ Done("prefix")
  /\ UNCHANGED <<keys, tokens, referral, money, letters, waiting, settings, crashes>>

-----------------------------------------------------------------------------
(* The operator's moderation *)

\* Mutant: the account is hidden only for as long as it is suspended.
SetStatusOnly(a, active) ==
  /\ Idle
  /\ Has(a)
  /\ accounts' = [accounts EXCEPT ![a].active = active]
  /\ UNCHANGED <<keys, tokens, referral, money, letters, waiting, job, settings, crashes>>

\* An account that is suspended or pending review leaves the directory, and is not
\* put back when it is active again.
SetStatus(a, active) ==
  /\ Idle
  /\ Has(a)
  /\ accounts' = [accounts EXCEPT ![a].active = active, ![a].listed = @ /\ active]
  /\ UNCHANGED <<keys, tokens, referral, money, letters, waiting, job, settings, crashes>>

-----------------------------------------------------------------------------
(* Completion of a referral *)

CreatePayout ==
  /\ "payout" \in due
  /\ payouts' = [payouts EXCEPT ![hand.agent] = @ + 1]
  /\ Done("payout")
  /\ UNCHANGED <<accounts, keys, tokens, referral, credits, letters, waiting, settings,
                 crashes>>

\* Without a wallet a payout is recorded as pending; when the payment was refused
\* the referral stays where it can be completed again.
RecordCompletion ==
  /\ "record" \in due /\ "payout" \notin due
  /\ LET open == referral[hand.agent]
     IN  referral' = [referral EXCEPT ![hand.agent] =
           IF PaymentMade \/ ~settings.wallet
           THEN [open EXCEPT !.status = "payout_pending"]
           ELSE [open EXCEPT !.status = "onboarding_complete", !.refused = @ + 1]]
  /\ Done("record")
  /\ UNCHANGED <<accounts, keys, tokens, money, letters, waiting, settings, crashes>>

CreditReferrer ==
  /\ "credit" \in due /\ "record" \notin due
  /\ credits' = [credits EXCEPT ![hand.agent] = @ + 1]
  /\ Done("credit")
  /\ UNCHANGED <<accounts, keys, tokens, referral, payouts, letters, waiting, settings,
                 crashes>>

-----------------------------------------------------------------------------
\* The process dies, or is deployed again, and starts with another environment.
Restart ==
  /\ crashes < MaxCrashes
  /\ crashes' = crashes + 1
  /\ settings' \in Settings
  /\ due' = {} /\ hand' = None
  /\ waiting' = {} /\ mail' = {}
  /\ UNCHANGED <<accounts, keys, tokens, referral, money, inbox, old>>

Init ==
  /\ accounts = [a \in Agents |-> None]
  /\ keys = [a \in Agents |-> [issued |-> 0, live |-> {}]]
  /\ tokens = <<>>
  /\ referral = [a \in Agents |-> None]
  /\ payouts = [a \in Agents |-> 0] /\ credits = [a \in Agents |-> 0]
  /\ mail = {} /\ inbox = {} /\ old = 0
  /\ waiting = {}
  /\ due = {} /\ hand = None
  /\ settings \in Settings
  /\ crashes = 0

Handler ==
  \/ AppendAccount \/ RecordReferral \/ IssueLink \/ MarkVerified
  \/ IssueKey \/ WritePrefix
  \/ CreatePayout \/ RecordCompletion \/ CreditReferrer

Next ==
  \/ \E a \in Agents, e \in Emails \cup {None}, profile \in Profiles,
        by \in Codes \cup {None} : Register(a, e, profile, by)
  \/ \E a \in Agents, op \in Requested : Authenticate(a, op)
  \/ \E r \in waiting :
       \/ Resolve(r)
       \/ Refuse(r)
       \/ ResendLink(r)
       \/ RotateOwn(r)
       \/ \E p \in Patches : PatchProfile(r, p)
  \/ \E t \in inbox : VerifyEmail(t)
  \/ \E t \in mail : Deliver(t) \/ MailFails(t)
  \/ Expire
  \/ \E a \in Agents : RotateForced(a) \/ \E active \in BOOLEAN : SetStatus(a, active)
  \/ Handler
  \/ Restart

Spec == Init /\ [][Next]_vars

-----------------------------------------------------------------------------
(* Properties *)

\* Every variable has its type.
TypeOK ==
  /\ accounts \in [Agents -> Rows \cup {None}]
  /\ keys \in [Agents -> [issued : Nat, live : SUBSET Nat]]
  /\ tokens \in Seq(Tokens)
  /\ referral \in [Agents -> Referrals \cup {None}]
  /\ payouts \in [Agents -> Nat] /\ credits \in [Agents -> Nat]
  /\ mail \subseteq DOMAIN tokens /\ inbox \subseteq DOMAIN tokens
  /\ old \in Nat
  /\ waiting \subseteq Requests
  /\ due \subseteq Writes
  /\ hand \in Hands \cup {None}
  /\ settings \in AllSettings
  /\ crashes \in Nat

\* No two accounts share an address, though registration and PATCH check it each
\* in its own way and a registration writes the account after the key.
EmailsAreUnique ==
  \A a, b \in Agents :
    Has(a) /\ Has(b) /\ a # b /\ accounts[a].email = accounts[b].email
      => accounts[a].email = None

\* A verified account carries the address its owner has proved to hold: a link
\* that was issued to this account for this address has arrived there and has
\* been followed, whatever was changed, replaced or cut in between.
VerifiedIsProven ==
  \A a \in Agents :
    Has(a) /\ accounts[a].verified =>
      \E t \in inbox : /\ tokens[t].agent = a /\ tokens[t].used
                       /\ tokens[t].email = accounts[a].email

\* At most one link of an agent can still be followed, and it is the last one.
OneUsableLink ==
  \A t, u \in DOMAIN tokens :
    Usable(t) /\ tokens[u].agent = tokens[t].agent => u <= t

\* A suspended account is not listed, not even by a request that was accepted
\* before the suspension.
ListedIsActive ==
  \A a \in Agents : Has(a) /\ accounts[a].listed => accounts[a].active

\* Only the key issued last can work, and as long as the process has not died in
\* a rotation it does.
LastKeyWorks ==
  \A a \in Agents :
    /\ keys[a].live \subseteq {keys[a].issued}
    /\ Has(a) /\ crashes = 0 /\ "issue" \notin due => keys[a].live # {}

\* A key dies by the operator's hand or by a request that bears it: a rotation
\* asked for with an older key does not revoke the key handed out since.
RevokedByHolder ==
  [][\A a \in Agents, k \in 1 .. MaxKeys :
       k \in keys[a].live \ keys'[a].live /\ waiting' # waiting
         => \E r \in waiting \ waiting' : r.agent = a /\ r.key = k]_vars

\* An agent appears in the directory by an act of its own: its request, or the
\* link mailed to it; other than that only by a new start with other settings.
\* Reactivation alone does not show it, nor does anything others do.
ShownByOwnAct ==
  [][\A a \in Agents :
       (Has(a) /\ Eligible(accounts[a]))' /\ ~(Has(a) /\ Eligible(accounts[a]))
         => \/ \E r \in waiting \ waiting' : r.agent = a
            \/ "verified" \in due /\ hand.agent = a
            \/ settings' # settings]_vars

\* A payout is created only for an agent that the directory shows at that moment
\* with a verified address, although the completion does not look at the status.
PayoutIsEarned ==
  [][\A a \in Agents :
       payouts'[a] # payouts[a] =>
         /\ Has(a) /\ Eligible(accounts[a])
         /\ accounts[a].email # None /\ accounts[a].verified]_vars

Closed(a) == referral[a] # None /\ referral[a].status = "payout_pending"
Refusals(a) == IF referral[a] = None THEN 0 ELSE referral[a].refused

\* A referral is paid once, but for payouts a crash repeats.  Its referrer is credited
\* once for each completion in referrals.jsonl: one that closes the referral, and as
\* many before it as found the payout refused (try_complete_referral leaves the
\* referral open then, and the next update of the profile completes it again).
RewardedOnce ==
  \A a \in Agents :
    /\ payouts[a] <= 1 + crashes
    /\ credits[a] <= Refusals(a) + (IF Closed(a) THEN 1 ELSE 0)

\* A referral that is recorded as complete has its payout (what the readiness
\* checklist promises).
CompletedIsPaid ==
  \A a \in Agents :
    referral[a] # None /\ referral[a].status # "pending_onboarding" => payouts[a] >= 1
=============================================================================
