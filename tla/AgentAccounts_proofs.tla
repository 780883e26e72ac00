----------------------- MODULE AgentAccounts_proofs -----------------------
(***************************************************************************)
(* Proofs about AgentAccounts, for any number of agents, addresses, links, *)
(* keys, requests under way and restarts.  IInv adds to the invariants the *)
(* runs check what a handler between two writes knows (JobOK): a           *)
(* registration still holds a free address, a verification is about a link *)
(* that has been spent for the address of the account, and a rotation has  *)
(* no working key left.                                                    *)
(***************************************************************************)
EXTENDS AgentAccounts, SequenceTheorems, TLAPS

-----------------------------------------------------------------------------
(* The inductive invariant *)

\* A link for address e of agent a has arrived there and has been followed.
Proven(a, e) ==
  \E t \in inbox : tokens[t].agent = a /\ tokens[t].used /\ tokens[t].email = e

\* A registration whose account does not exist yet: nobody else took the address.
RegistrationOK ==
  "account" \in due =>
    /\ ~Has(hand.agent)
    /\ due \subseteq {"account", "referral", "link"}
    /\ hand.email # None => Free(hand.email, hand.agent)
    /\ "link" \in due => hand.email # None

\* Any other handler works for an account, and mails to one that has an address.
AccountOK ==
  due # {} /\ "account" \notin due =>
    /\ Has(hand.agent)
    /\ "link" \in due => accounts[hand.agent].email # None

ReferralOK ==
  /\ "referral" \in due => hand.by # None
  /\ "record" \in due => referral[hand.agent] # None

VerificationOK ==
  "verified" \in due => due = {"verified"} /\ Proven(hand.agent, accounts[hand.agent].email)

JobOK ==
  /\ due # {} => hand \in Hands
  /\ RegistrationOK /\ AccountOK /\ ReferralOK /\ VerificationOK

\* Only the last key can work, and none does before a rotation has issued it.
KeysOK ==
  \A a \in Agents :
    /\ keys[a].live \subseteq {keys[a].issued}
    /\ "issue" \in due /\ hand.agent = a => keys[a].live = {}

IInv == /\ TypeOK /\ EmailsAreUnique /\ ListedIsActive /\ VerifiedIsProven
        /\ OneUsableLink /\ KeysOK /\ JobOK

-----------------------------------------------------------------------------
(* Operators *)

\* A row that a body of PATCH has changed is a row.
LEMMA PatchedType ==
  ASSUME NEW row \in Rows, NEW p \in AllPatches, settings \in AllSettings
  PROVE  /\ Patched(row, p) \in Rows
         /\ Patched(row, p).active = row.active
         /\ Patched(row, p).email = IF p.email = Keep THEN row.email ELSE p.email
         /\ Patched(row, p).verified => row.verified /\ Patched(row, p).email = row.email
         /\ Patched(row, p).listed => row.listed \/ p.listed = TRUE
<1> DEFINE e == IF p.email = Keep THEN row.email ELSE p.email
           v == row.verified /\ (p.email = Keep \/ (p.email = row.email /\ p.email # None))
           f == IF p.profile = Keep THEN row.profile ELSE p.profile
           t == IF p.terms THEN settings.terms ELSE row.terms
           l == IF p.listed = Keep THEN row.listed ELSE p.listed
<1>1. e \in Emails \cup {None}
  BY DEF Rows, AllPatches
<1>2. v \in BOOLEAN /\ (v => row.verified /\ e = row.email)
  OBVIOUS
<1>3. f \in BOOLEAN
  BY DEF Rows, AllPatches
<1>4. t \in Versions
  BY DEF Rows, AllSettings
<1>5. l \in BOOLEAN /\ (l => row.listed \/ p.listed = TRUE)
  BY DEF Rows, AllPatches
<1>6. Patched(row, p) = [row EXCEPT !.email = e, !.verified = v, !.profile = f,
                                    !.terms = t, !.listed = l]
  BY DEF Patched
<1> HIDE DEF e, v, f, t, l
<1>7. /\ Patched(row, p) \in Rows
      /\ Patched(row, p).active = row.active /\ Patched(row, p).email = e
      /\ Patched(row, p).verified = v /\ Patched(row, p).listed = l
  BY <1>1, <1>2, <1>3, <1>4, <1>5, <1>6 DEF Rows
<1>8. e = IF p.email = Keep THEN row.email ELSE p.email
  BY DEF e
<1> QED BY <1>2, <1>5, <1>7, <1>8

\* Issuing a link adds it, and changes no other link but by revoking unused links
\* of the same agent.
LEMMA LinkIssuedType ==
  ASSUME tokens \in Seq(Tokens), NEW a \in Agents, NEW e \in Emails
  PROVE  LET new == LinkIssued(a, e)
             n == Len(tokens)
         IN  /\ new \in Seq(Tokens) /\ DOMAIN tokens = 1 .. n /\ n \in Nat
             /\ DOMAIN new = 1 .. (n + 1)
             /\ new[n + 1] = [agent |-> a, email |-> e, used |-> FALSE, revoked |-> FALSE]
             /\ \A t \in 1 .. n :
                  /\ new[t].agent = tokens[t].agent /\ new[t].email = tokens[t].email
                  /\ new[t].used = tokens[t].used
                  /\ tokens[t].revoked => new[t].revoked
                  /\ tokens[t].agent = a /\ ~tokens[t].used => new[t].revoked
<1> DEFINE n == Len(tokens)
           cut == [t \in DOMAIN tokens |->
                     [tokens[t] EXCEPT !.revoked = @ \/ (tokens[t].agent = a /\ ~tokens[t].used)]]
           link == [agent |-> a, email |-> e, used |-> FALSE, revoked |-> FALSE]
<1>1. n \in Nat /\ DOMAIN tokens = 1 .. n /\ \A t \in 1 .. n : tokens[t] \in Tokens
  OBVIOUS
<1>2. \A t \in 1 .. n : cut[t] \in Tokens
  BY <1>1 DEF Tokens
<1>3. cut \in [1 .. n -> Tokens]
  BY <1>1, <1>2
<1>4. cut \in Seq(Tokens) /\ Len(cut) = n
  BY <1>1, <1>3, SeqDef
<1>5. link \in Tokens
  BY DEF Tokens
<1>6. \A t \in 1 .. n :
        /\ cut[t].agent = tokens[t].agent /\ cut[t].email = tokens[t].email
        /\ cut[t].used = tokens[t].used
        /\ tokens[t].revoked => cut[t].revoked
        /\ tokens[t].agent = a /\ ~tokens[t].used => cut[t].revoked
  BY <1>1 DEF Tokens
<1>7. LinkIssued(a, e) = Append(cut, link)
  BY DEF LinkIssued
<1> HIDE DEF cut, link
<1>8. /\ Append(cut, link) \in Seq(Tokens)
      /\ DOMAIN Append(cut, link) = 1 .. (n + 1)
      /\ Append(cut, link)[n + 1] = link
      /\ \A t \in 1 .. n : Append(cut, link)[t] = cut[t]
  BY <1>1, <1>4, <1>5, AppendProperties
<1> QED BY <1>1, <1>6, <1>7, <1>8 DEF link

\* What a completion still has to write belongs to a referral that exists.
LEMMA CompletionType ==
  ASSUME NEW a, NEW row
  PROVE  /\ Completion(a, row) \subseteq {"payout", "record", "credit"}
         /\ "record" \in Completion(a, row) => referral[a] # None
  BY DEF Completion

-----------------------------------------------------------------------------
(* What steps leave alone *)

\* Accounts that do not change keep their invariants.
LEMMA SameAccounts ==
  ASSUME IInv, accounts' = accounts
  PROVE  EmailsAreUnique' /\ ListedIsActive'
  BY DEF IInv, EmailsAreUnique, ListedIsActive, Has

\* Links that do not change keep theirs, while mail arrives and links expire.
LEMMA SameTokens ==
  ASSUME IInv, tokens' = tokens, old' \in Nat, old <= old'
  PROVE  OneUsableLink'
<1>1. \A t \in DOMAIN tokens : Usable(t)' => Usable(t)
  BY DEF Usable, IInv, TypeOK
<1> QED BY <1>1 DEF IInv, OneUsableLink

\* A proof of an address is never lost.
LEMMA ProvenStays ==
  ASSUME NEW a, NEW e, Proven(a, e), inbox \subseteq inbox', tokens' = tokens
  PROVE  Proven(a, e)'
  BY DEF Proven

LEMMA SameProofs ==
  ASSUME IInv, accounts' = accounts, inbox \subseteq inbox', tokens' = tokens
  PROVE  VerifiedIsProven'
<1>1. \A a \in Agents : Has(a) /\ accounts[a].verified => Proven(a, accounts[a].email)
  BY DEF IInv, VerifiedIsProven, Proven
<1>2. \A a \in Agents : Has(a)' /\ accounts'[a].verified => Proven(a, accounts[a].email)'
  BY <1>1, ProvenStays DEF Has
<1> QED BY <1>2 DEF VerifiedIsProven, Proven

\* Keys that do not change keep theirs, while no rotation begins.
LEMMA SameKeys ==
  ASSUME IInv, keys' = keys, "issue" \notin due' \/ ("issue" \in due /\ hand' = hand)
  PROVE  KeysOK'
  BY DEF IInv, KeysOK

\* A handler that has nothing left to write has nothing to remember.
LEMMA NoJob ==
  ASSUME due' = {}
  PROVE  JobOK'
  BY DEF JobOK, RegistrationOK, AccountOK, ReferralOK, VerificationOK

\* Nor does one that waits while the accounts and referrals stay as they are.
LEMMA SameJob ==
  ASSUME IInv, due' = due, hand' = hand, accounts' = accounts, referral' = referral,
         tokens' = tokens, inbox \subseteq inbox'
  PROVE  JobOK'
<1>1. VerificationOK'
  <2>1. "verified" \in due => Proven(hand.agent, accounts[hand.agent].email)'
    BY ProvenStays DEF IInv, JobOK, VerificationOK
  <2> QED BY <2>1 DEF IInv, JobOK, VerificationOK, Proven
<1>2. RegistrationOK'
  BY DEF IInv, JobOK, RegistrationOK, Has, Free
<1>3. AccountOK' /\ ReferralOK' /\ (due' # {} => hand' \in Hands)
  BY DEF IInv, JobOK, AccountOK, ReferralOK, Has
<1> QED BY <1>1, <1>2, <1>3 DEF JobOK

\* A handler that has made one of its writes goes on with the others.
LEMMA NextWrite ==
  ASSUME IInv, NEW w \in due, w # "verified", "account" \notin due, Done(w),
         accounts'[hand.agent] # None, accounts'[hand.agent].email = accounts[hand.agent].email,
         referral[hand.agent] # None => referral'[hand.agent] # None
  PROVE  JobOK'
<1>1. CASE due' = {}
  BY <1>1, NoJob
<1>2. CASE due' # {}
  <2>1. due' = due \ {w} /\ hand' = hand /\ hand \in Hands
    BY <1>2 DEF Done, IInv, JobOK
  <2>2. "verified" \notin due'
    BY <2>1 DEF IInv, JobOK, VerificationOK
  <2>3. "account" \notin due'
    BY <2>1
  <2>4. AccountOK'
    BY <2>1 DEF IInv, JobOK, AccountOK, Has
  <2>5. ReferralOK'
    BY <2>1 DEF IInv, JobOK, ReferralOK
  <2> QED BY <2>1, <2>2, <2>3, <2>4, <2>5 DEF JobOK, RegistrationOK, VerificationOK
<1> QED BY <1>1, <1>2

-----------------------------------------------------------------------------
(* Registration *)

LEMMA RegisterStep ==
  ASSUME IInv, NEW a \in Agents, NEW e \in Emails \cup {None}, NEW profile \in Profiles,
         NEW by \in Codes \cup {None}, Register(a, e, profile, by)
  PROVE  IInv'
<1> USE ConstantsAssumption
<1>1. /\ ~Has(a) /\ (e # None => Free(e, a))
      /\ keys' = [keys EXCEPT ![a] = [issued |-> 1, live |-> {1}]]
      /\ hand' = [agent |-> a, email |-> e, profile |-> profile, by |-> by]
      /\ due' \subseteq {"account", "referral", "link"} /\ "account" \in due'
      /\ ("referral" \in due' => by # None) /\ ("link" \in due' => e # None)
      /\ UNCHANGED <<accounts, tokens, referral, money, letters, waiting, settings, crashes>>
  BY DEF Register
<1>2. hand' \in Hands /\ hand'.agent = a /\ hand'.email = e /\ hand'.by = by
  BY <1>1 DEF Hands
<1>3. TypeOK'
  <2>1. keys' \in [Agents -> [issued : Nat, live : SUBSET Nat]]
    BY <1>1 DEF IInv, TypeOK
  <2>2. due' \subseteq Writes
    BY <1>1 DEF Writes
  <2> QED BY <1>1, <1>2, <2>1, <2>2 DEF IInv, TypeOK, money, letters
<1>4. EmailsAreUnique' /\ ListedIsActive' /\ VerifiedIsProven' /\ OneUsableLink'
  BY <1>1, SameAccounts, SameProofs, SameTokens DEF IInv, TypeOK, letters
<1>5. KeysOK'
  BY <1>1 DEF IInv, KeysOK, TypeOK
<1>6. RegistrationOK'
  BY <1>1, <1>2 DEF RegistrationOK, Has, Free
<1>7. JobOK'
  BY <1>1, <1>2, <1>6 DEF JobOK, AccountOK, ReferralOK, VerificationOK
<1> QED BY <1>3, <1>4, <1>5, <1>7 DEF IInv

LEMMA AppendAccountStep ==
  ASSUME IInv, AppendAccount
  PROVE  IInv'
<1> DEFINE row == [email |-> hand.email, verified |-> FALSE, terms |-> settings.terms,
                   profile |-> hand.profile, listed |-> FALSE, active |-> TRUE, prefix |-> 1]
<1>1. /\ "account" \in due /\ hand \in Hands /\ hand.agent \in Agents
      /\ accounts' = [accounts EXCEPT ![hand.agent] = row]
      /\ UNCHANGED <<keys, tokens, referral, money, letters, waiting, settings, crashes>>
      /\ due' = due \ {"account"} /\ hand' = IF due' = {} THEN None ELSE hand
  BY DEF AppendAccount, Done, IInv, JobOK, Hands
<1>2. row \in Rows /\ row # None
  <2>1. settings.terms \in Versions
    BY DEF IInv, TypeOK, AllSettings
  <2>2. hand.email \in Emails \cup {None} /\ hand.profile \in BOOLEAN
    BY <1>1 DEF Hands
  <2>3. row \in Rows
    BY <2>1, <2>2 DEF Rows
  <2> QED BY <2>3, NoneAssumption
<1>3. /\ accounts'[hand.agent] = row
      /\ \A b \in Agents \ {hand.agent} : accounts'[b] = accounts[b]
  BY <1>1 DEF IInv, TypeOK
<1>4. /\ ~Has(hand.agent) /\ due \subseteq {"account", "referral", "link"}
      /\ (hand.email # None => Free(hand.email, hand.agent))
      /\ ("link" \in due => hand.email # None)
      /\ ("referral" \in due => hand.by # None)
  BY <1>1 DEF IInv, JobOK, RegistrationOK, ReferralOK
<1>5. /\ row.email = hand.email /\ ~row.verified /\ ~row.listed
  OBVIOUS
<1> HIDE DEF row
<1>6. TypeOK'
  <2>1. accounts' \in [Agents -> Rows \cup {None}]
    BY <1>1, <1>2 DEF IInv, TypeOK
  <2> QED BY <1>1, <2>1 DEF IInv, TypeOK, money, letters
<1>7. EmailsAreUnique'
  <2> SUFFICES ASSUME NEW a \in Agents, NEW b \in Agents,
                      accounts'[a] # None, accounts'[b] # None, a # b,
                      accounts'[a].email = accounts'[b].email
               PROVE  accounts'[a].email = None
    BY DEF EmailsAreUnique, Has
  <2>1. CASE a = hand.agent
    BY <1>3, <1>4, <1>5, <2>1 DEF Free, Has
  <2>2. CASE b = hand.agent
    BY <1>3, <1>4, <1>5, <2>2 DEF Free, Has
  <2>3. CASE a # hand.agent /\ b # hand.agent
    BY <1>3, <2>3 DEF IInv, EmailsAreUnique, Has
  <2> QED BY <2>1, <2>2, <2>3
<1>8. ListedIsActive'
  BY <1>3, <1>5 DEF IInv, ListedIsActive, Has
<1>9. VerifiedIsProven'
  BY <1>1, <1>3, <1>5 DEF IInv, VerifiedIsProven, Has, letters
<1>10. OneUsableLink' /\ KeysOK'
  BY <1>1, <1>4, SameTokens, SameKeys DEF IInv, TypeOK, letters
<1>11. JobOK'
  <2>1. CASE due' = {}
    BY <2>1, NoJob
  <2>2. CASE due' # {}
    <3>1. hand' = hand /\ due' \subseteq {"referral", "link"}
      BY <1>1, <1>4, <2>2
    <3>2. AccountOK'
      BY <1>1, <1>2, <1>3, <1>4, <1>5, <3>1 DEF AccountOK, Has
    <3> QED BY <1>1, <1>4, <3>1, <3>2 DEF JobOK, RegistrationOK, ReferralOK, VerificationOK
  <2> QED BY <2>1, <2>2
<1> QED BY <1>6, <1>7, <1>8, <1>9, <1>10, <1>11 DEF IInv

LEMMA RecordReferralStep ==
  ASSUME IInv, RecordReferral
  PROVE  IInv'
<1> USE ConstantsAssumption
<1> DEFINE new == [by |-> hand.by, refused |-> 0, status |-> "pending_onboarding"]
<1>1. /\ "referral" \in due /\ "account" \notin due /\ hand \in Hands /\ hand.agent \in Agents
      /\ hand.by \in Agents
      /\ referral' = [referral EXCEPT ![hand.agent] = new]
      /\ UNCHANGED <<accounts, keys, tokens, money, letters, waiting, settings, crashes>>
      /\ Done("referral")
  BY DEF RecordReferral, IInv, JobOK, ReferralOK, Hands
<1>2. new \in Referrals /\ new # None
  BY <1>1, NoneAssumption DEF Referrals
<1> HIDE DEF new
<1>3. TypeOK'
  BY <1>1, <1>2 DEF IInv, TypeOK, money, letters, Done
<1>4. EmailsAreUnique' /\ ListedIsActive' /\ VerifiedIsProven' /\ OneUsableLink'
  BY <1>1, SameAccounts, SameProofs, SameTokens DEF IInv, TypeOK, letters
<1>5. KeysOK'
  BY <1>1, SameKeys DEF Done
<1>6. JobOK'
  <2>1. referral'[hand.agent] # None
    BY <1>1, <1>2 DEF IInv, TypeOK
  <2>2. accounts[hand.agent] # None
    BY <1>1 DEF IInv, JobOK, AccountOK, Has
  <2> QED BY <1>1, <2>1, <2>2, NextWrite
<1> QED BY <1>3, <1>4, <1>5, <1>6 DEF IInv

-----------------------------------------------------------------------------
(* Verification *)

LEMMA IssueLinkStep ==
  ASSUME IInv, IssueLink
  PROVE  IInv'
<1> DEFINE a == hand.agent
           e == accounts[a].email
           n == Len(tokens)
<1>1. /\ due = {"link"} /\ hand \in Hands /\ a \in Agents
      /\ tokens' = LinkIssued(a, e) /\ mail' = mail \cup {n + 1}
      /\ due' = {} /\ hand' = None
      /\ UNCHANGED <<accounts, keys, referral, money, inbox, old, waiting, settings, crashes>>
  BY DEF IssueLink, Done, IInv, JobOK, Hands
<1>2. e \in Emails
  BY <1>1 DEF IInv, TypeOK, JobOK, AccountOK, Has, Rows
<1> HIDE DEF a, e
<1>3. /\ tokens' \in Seq(Tokens) /\ DOMAIN tokens = 1 .. n /\ n \in Nat
      /\ DOMAIN tokens' = 1 .. (n + 1)
      /\ tokens'[n + 1] = [agent |-> a, email |-> e, used |-> FALSE, revoked |-> FALSE]
      /\ \A t \in 1 .. n :
           /\ tokens'[t].agent = tokens[t].agent /\ tokens'[t].email = tokens[t].email
           /\ tokens'[t].used = tokens[t].used
           /\ tokens[t].revoked => tokens'[t].revoked
           /\ tokens[t].agent = a /\ ~tokens[t].used => tokens'[t].revoked
  BY <1>1, <1>2, LinkIssuedType DEF IInv, TypeOK
<1>4. TypeOK'
  <2>1. mail' \subseteq DOMAIN tokens' /\ inbox' \subseteq DOMAIN tokens'
    BY <1>1, <1>3 DEF IInv, TypeOK
  <2> QED BY <1>1, <1>3, <2>1 DEF IInv, TypeOK, money
<1>5. EmailsAreUnique' /\ ListedIsActive'
  BY <1>1, SameAccounts
<1>6. VerifiedIsProven'
  <2> SUFFICES ASSUME NEW b \in Agents, Has(b)', accounts'[b].verified
               PROVE  \E t \in inbox' : /\ tokens'[t].agent = b /\ tokens'[t].used
                                        /\ tokens'[t].email = accounts'[b].email
    BY DEF VerifiedIsProven
  <2>1. PICK t \in inbox : /\ tokens[t].agent = b /\ tokens[t].used
                           /\ tokens[t].email = accounts[b].email
    BY <1>1 DEF IInv, VerifiedIsProven, Has
  <2>2. t \in 1 .. n
    BY <1>3 DEF IInv, TypeOK
  <2> QED BY <1>1, <1>3, <2>1, <2>2
<1>7. OneUsableLink'
  <2> SUFFICES ASSUME NEW t \in 1 .. (n + 1), NEW u \in 1 .. (n + 1),
                      ~tokens'[t].used, ~tokens'[t].revoked, t > old,
                      tokens'[u].agent = tokens'[t].agent
               PROVE  u <= t
    BY <1>1, <1>3 DEF OneUsableLink, Usable
  <2>1. CASE t = n + 1
    BY <1>3, <2>1
  <2>2. CASE t \in 1 .. n
    <3>1. /\ ~tokens[t].used /\ ~tokens[t].revoked /\ tokens[t].agent # a
          /\ tokens'[t].agent = tokens[t].agent
      BY <1>3, <2>2
    <3>2. u \in 1 .. n /\ tokens[u].agent = tokens[t].agent
      BY <1>3, <3>1
    <3> QED BY <1>3, <2>2, <3>1, <3>2 DEF IInv, OneUsableLink, Usable
  <2> QED BY <1>3, <2>1, <2>2
<1>8. KeysOK' /\ JobOK'
  BY <1>1, SameKeys, NoJob
<1> QED BY <1>4, <1>5, <1>6, <1>7, <1>8 DEF IInv

LEMMA MailStep ==
  ASSUME IInv, NEW t \in mail, Deliver(t) \/ MailFails(t)
  PROVE  IInv'
<1>1. /\ mail' = mail \ {t} /\ inbox \subseteq inbox' /\ inbox' \subseteq inbox \cup {t}
      /\ UNCHANGED <<accounts, keys, tokens, referral, money, old, waiting, job, settings,
                     crashes>>
  BY DEF Deliver, MailFails
<1>2. TypeOK'
  BY <1>1 DEF IInv, TypeOK, money, job
<1>3. EmailsAreUnique' /\ ListedIsActive' /\ VerifiedIsProven' /\ OneUsableLink'
  BY <1>1, SameAccounts, SameProofs, SameTokens DEF IInv, TypeOK
<1>4. KeysOK' /\ JobOK'
  BY <1>1, SameKeys, SameJob DEF job
<1> QED BY <1>2, <1>3, <1>4 DEF IInv

LEMMA ExpireStep ==
  ASSUME IInv, Expire
  PROVE  IInv'
<1>1. /\ old' = old + 1 /\ old \in Nat
      /\ UNCHANGED <<accounts, keys, tokens, referral, money, mail, inbox, waiting, job,
                     settings, crashes>>
  BY DEF Expire, IInv, TypeOK
<1>2. TypeOK'
  BY <1>1 DEF IInv, TypeOK, money, job
<1>3. EmailsAreUnique' /\ ListedIsActive' /\ VerifiedIsProven' /\ OneUsableLink'
  BY <1>1, SameAccounts, SameProofs, SameTokens
<1>4. KeysOK' /\ JobOK'
  BY <1>1, SameKeys, SameJob DEF job
<1> QED BY <1>2, <1>3, <1>4 DEF IInv

\* An account may be rewritten with an address that no other account uses, with
\* an opt-in only while it is active, and with a mark only for a proved address.
LEMMA RowChange ==
  ASSUME IInv, NEW a \in Agents, NEW row \in Rows, Has(a),
         accounts' = [accounts EXCEPT ![a] = row], tokens' = tokens, inbox' = inbox,
         row.email = accounts[a].email \/ row.email = None \/ Free(row.email, a),
         row.listed => row.active,
         row.verified => Proven(a, row.email)
  PROVE  /\ accounts' \in [Agents -> Rows \cup {None}] /\ accounts'[a] = row /\ Has(a)'
         /\ EmailsAreUnique' /\ ListedIsActive' /\ VerifiedIsProven'
<1>1. /\ accounts' \in [Agents -> Rows \cup {None}]
      /\ accounts'[a] = row /\ accounts[a] # None /\ row # None
      /\ \A b \in Agents \ {a} : accounts'[b] = accounts[b]
  BY NoneAssumption DEF IInv, TypeOK, Has
<1>2. EmailsAreUnique'
  <2> SUFFICES ASSUME NEW b \in Agents, NEW c \in Agents,
                      accounts'[b] # None, accounts'[c] # None, b # c,
                      accounts'[b].email = accounts'[c].email
               PROVE  accounts'[b].email = None
    BY DEF EmailsAreUnique, Has
  <2>1. CASE b # a /\ c # a
    BY <1>1, <2>1 DEF IInv, EmailsAreUnique, Has
  <2>2. CASE Free(row.email, a) \/ row.email = None
    BY <1>1, <2>1, <2>2 DEF Free, Has
  <2>3. CASE row.email = accounts[a].email
    BY <1>1, <2>3 DEF IInv, EmailsAreUnique, Has
  <2> QED BY <2>1, <2>2, <2>3
<1>3. ListedIsActive'
  BY <1>1 DEF IInv, ListedIsActive, Has
<1>4. VerifiedIsProven'
  <2>1. \A b \in Agents : Has(b)' /\ accounts'[b].verified => Proven(b, accounts'[b].email)
    BY <1>1 DEF IInv, VerifiedIsProven, Proven, Has
  <2> QED BY <2>1 DEF VerifiedIsProven, Proven
<1> QED BY <1>1, <1>2, <1>3, <1>4 DEF Has

LEMMA HoldingType ==
  ASSUME NEW a \in Agents
  PROVE  Holding(a) \in Hands /\ Holding(a).agent = a
BY DEF Holding, Hands

LEMMA VerifyEmailStep ==
  ASSUME IInv, NEW t \in inbox, VerifyEmail(t)
  PROVE  IInv'
<1> DEFINE a == tokens[t].agent
<1>1. /\ due = {} /\ Usable(t) /\ Has(a) /\ accounts[a].email = tokens[t].email
      /\ hand' = Holding(a) /\ due' = {"verified"}
      /\ tokens' = [tokens EXCEPT ![t].used = TRUE]
      /\ UNCHANGED <<accounts, keys, referral, money, letters, waiting, settings, crashes>>
  BY DEF VerifyEmail, Idle
<1>2. t \in DOMAIN tokens /\ a \in Agents
  <2>1. tokens \in Seq(Tokens) /\ t \in DOMAIN tokens
    BY DEF IInv, TypeOK
  <2>2. tokens[t] \in Tokens
    BY <2>1
  <2> QED BY <2>1, <2>2 DEF Tokens
<1>3. /\ tokens' \in Seq(Tokens) /\ DOMAIN tokens' = DOMAIN tokens
      /\ tokens'[t].used
      /\ \A u \in DOMAIN tokens :
           /\ tokens'[u].agent = tokens[u].agent /\ tokens'[u].email = tokens[u].email
           /\ tokens'[u].revoked = tokens[u].revoked
           /\ tokens[u].used => tokens'[u].used
  <2>1. tokens[t] \in Tokens /\ \A u \in DOMAIN tokens : tokens[u] \in Tokens
    BY <1>2 DEF IInv, TypeOK
  <2>2. [tokens[t] EXCEPT !.used = TRUE] \in Tokens
    BY <2>1 DEF Tokens
  <2>3. tokens' \in Seq(Tokens) /\ DOMAIN tokens' = DOMAIN tokens
    BY <1>1, <1>2, <2>2, ExceptSeq DEF IInv, TypeOK
  <2>4. \A u \in DOMAIN tokens :
          tokens'[u] = IF u = t THEN [tokens[t] EXCEPT !.used = TRUE] ELSE tokens[u]
    BY <1>1, <1>2
  <2> QED BY <1>2, <2>1, <2>3, <2>4 DEF Tokens
<1>4. hand' \in Hands /\ hand'.agent = a
  BY <1>1, <1>2, HoldingType
<1> HIDE DEF a
<1>5. TypeOK'
  BY <1>1, <1>3, <1>4 DEF IInv, TypeOK, money, letters, Writes
<1>6. EmailsAreUnique' /\ ListedIsActive' /\ KeysOK'
  BY <1>1, SameAccounts, SameKeys
<1>7. VerifiedIsProven'
  <2>1. inbox \subseteq DOMAIN tokens /\ inbox' = inbox
    BY <1>1 DEF IInv, TypeOK, letters
  <2> QED BY <1>1, <1>3, <2>1 DEF IInv, VerifiedIsProven, Has
<1>8. OneUsableLink'
  <2>1. \A u \in DOMAIN tokens : Usable(u)' => Usable(u)
    BY <1>1, <1>3 DEF Usable, letters
  <2> QED BY <1>3, <2>1 DEF IInv, OneUsableLink, Usable
<1>9. JobOK'
  <2>1. /\ t \in inbox' /\ tokens'[t].agent = hand'.agent /\ tokens'[t].used
        /\ tokens'[t].email = accounts'[hand'.agent].email
    BY <1>1, <1>2, <1>3, <1>4 DEF letters, a
  <2>2. VerificationOK'
    BY <1>1, <2>1 DEF VerificationOK, Proven
  <2> QED BY <1>1, <1>4, <2>2 DEF JobOK, RegistrationOK, AccountOK, ReferralOK, Has
<1> QED BY <1>5, <1>6, <1>7, <1>8, <1>9 DEF IInv

LEMMA MarkVerifiedStep ==
  ASSUME IInv, MarkVerified
  PROVE  IInv'
<1>1. PICK a, row :
        /\ a \in Agents
        /\ due = {"verified"} /\ hand \in Hands /\ hand.agent = a /\ Has(a)
        /\ Proven(a, accounts[a].email)
        /\ row = [accounts[a] EXCEPT !.verified = TRUE]
        /\ accounts' = [accounts EXCEPT ![a] = row] /\ due' = Completion(a, row)
        /\ hand' = IF due' = {} THEN None ELSE hand
        /\ UNCHANGED <<keys, tokens, referral, money, letters, waiting, settings, crashes>>
  <2>1. /\ due = {"verified"} /\ hand \in Hands /\ hand.agent \in Agents /\ Has(hand.agent)
        /\ Proven(hand.agent, accounts[hand.agent].email)
    BY DEF MarkVerified, IInv, JobOK, AccountOK, VerificationOK, Hands
  <2> QED BY <2>1 DEF MarkVerified
<1>2. /\ row \in Rows /\ row.email = accounts[a].email
      /\ row.listed = accounts[a].listed /\ row.active = accounts[a].active
  <2>1. accounts[a] \in Rows
    BY <1>1 DEF IInv, TypeOK, Has
  <2> QED BY <1>1, <2>1 DEF Rows
<1>3. due' \subseteq {"payout", "record", "credit"} /\ ("record" \in due' => referral[a] # None)
  BY <1>1, CompletionType
<1>4. /\ accounts' \in [Agents -> Rows \cup {None}] /\ accounts'[a] = row /\ Has(a)'
      /\ EmailsAreUnique' /\ ListedIsActive' /\ VerifiedIsProven'
  <2>1. row.listed => row.active
    BY <1>1, <1>2 DEF IInv, ListedIsActive
  <2> QED BY <1>1, <1>2, <2>1, RowChange DEF letters
<1>5. TypeOK'
  BY <1>1, <1>3, <1>4 DEF IInv, TypeOK, money, letters, Writes
<1>6. OneUsableLink' /\ KeysOK'
  <2>1. OneUsableLink'
    BY <1>1, SameTokens DEF IInv, TypeOK, letters
  <2>2. KeysOK'
    BY <1>1, <1>3, SameKeys
  <2> QED BY <2>1, <2>2
<1>7. JobOK'
  <2>1. CASE due' = {}
    BY <2>1, NoJob
  <2>2. CASE due' # {}
    BY <1>1, <1>3, <1>4, <2>2
       DEF JobOK, RegistrationOK, AccountOK, ReferralOK, VerificationOK
  <2> QED BY <2>1, <2>2
<1> QED BY <1>4, <1>5, <1>6, <1>7 DEF IInv

-----------------------------------------------------------------------------
(* Requests *)

\* A request that comes, goes or moves on changes nothing else.
LEMMA WaitingStep ==
  ASSUME IInv, waiting' \subseteq Requests,
         UNCHANGED <<accounts, keys, tokens, referral, money, letters, job, settings, crashes>>
  PROVE  IInv'
<1>1. TypeOK'
  BY DEF IInv, TypeOK, money, letters, job
<1>2. EmailsAreUnique' /\ ListedIsActive' /\ VerifiedIsProven' /\ OneUsableLink'
  BY SameAccounts, SameProofs, SameTokens DEF IInv, TypeOK, letters
<1>3. KeysOK' /\ JobOK'
  BY SameKeys, SameJob DEF job, letters
<1> QED BY <1>1, <1>2, <1>3 DEF IInv

LEMMA RequestStep ==
  ASSUME IInv,
         \/ \E a \in Agents, op \in Requested : Authenticate(a, op)
         \/ \E r \in waiting : Resolve(r) \/ Refuse(r)
  PROVE  IInv'
<1>1. CASE \E a \in Agents, op \in Requested : Authenticate(a, op)
  <2>1. PICK a \in Agents, op \in Requested : Authenticate(a, op)
    BY <1>1
  <2>2. PICK k \in keys[a].live :
          waiting' = waiting \cup {[agent |-> a, op |-> op, key |-> k]}
    BY <2>1 DEF Authenticate
  <2>3. k \in Nat /\ op \in AllRequested
    BY ConstantsAssumption DEF IInv, TypeOK
  <2>4. waiting' \subseteq Requests
    BY <2>2, <2>3 DEF IInv, TypeOK, Requests, AllRequested
  <2> QED BY <2>1, <2>4, WaitingStep DEF Authenticate
<1>2. CASE \E r \in waiting : Resolve(r) \/ Refuse(r)
  <2>1. PICK r \in waiting : Resolve(r) \/ Refuse(r)
    BY <1>2
  <2>2. r \in Requests /\ [r EXCEPT !.op = "body"] \in Requests
    BY DEF IInv, TypeOK, Requests
  <2>3. waiting' \subseteq Requests
    BY <2>1, <2>2 DEF Resolve, Refuse, IInv, TypeOK
  <2> QED BY <2>1, <2>3, WaitingStep DEF Resolve, Refuse
<1> QED BY <1>1, <1>2

LEMMA PatchProfileStep ==
  ASSUME IInv, NEW r \in waiting, NEW p \in Patches, PatchProfile(r, p)
  PROVE  IInv'
<1>1. PICK a, row :
        /\ a \in Agents
        /\ due = {} /\ a = r.agent /\ row = Patched(accounts[a], p)
        /\ Has(a) /\ accounts[a].active
        /\ (p.email \in Emails => Free(p.email, a))
        /\ accounts' = [accounts EXCEPT ![a] = row]
        /\ due' = Completion(a, row)
                    \cup {w \in {"link"} : p.email # Keep /\ row.email # None /\ ~row.verified}
        /\ hand' = IF due' = {} THEN None ELSE Holding(a)
        /\ waiting' = waiting \ {r}
        /\ UNCHANGED <<keys, tokens, referral, money, letters, settings, crashes>>
  <2>1. r.agent \in Agents
    BY DEF IInv, TypeOK, Requests
  <2> QED BY <2>1 DEF PatchProfile, Patchable, Idle
<1>2. accounts[a] \in Rows /\ p \in AllPatches /\ settings \in AllSettings
  BY <1>1, ConstantsAssumption DEF IInv, TypeOK, Has
<1>3. /\ row \in Rows /\ row.active = accounts[a].active
      /\ row.email = IF p.email = Keep THEN accounts[a].email ELSE p.email
      /\ row.verified => accounts[a].verified /\ row.email = accounts[a].email
  <2>1. PICK before \in Rows : before = accounts[a]
    BY <1>2
  <2>2. row = Patched(before, p)
    BY <1>1, <2>1
  <2>3. /\ Patched(before, p) \in Rows
        /\ Patched(before, p).active = before.active
        /\ Patched(before, p).email = IF p.email = Keep THEN before.email ELSE p.email
        /\ Patched(before, p).verified =>
             before.verified /\ Patched(before, p).email = before.email
    BY <1>2, PatchedType, Zenon
  <2> QED BY <2>1, <2>2, <2>3
<1>4. row.email = accounts[a].email \/ row.email = None \/ Free(row.email, a)
  BY <1>1, <1>2, <1>3 DEF AllPatches
<1>5. row.verified => Proven(a, row.email)
  BY <1>1, <1>3 DEF IInv, VerifiedIsProven, Proven
<1>6. /\ accounts' \in [Agents -> Rows \cup {None}] /\ accounts'[a] = row /\ Has(a)'
      /\ EmailsAreUnique' /\ ListedIsActive' /\ VerifiedIsProven'
  BY <1>1, <1>3, <1>4, <1>5, RowChange DEF letters
<1>7. /\ due' \subseteq {"payout", "record", "credit", "link"}
      /\ ("record" \in due' => referral[a] # None)
      /\ ("link" \in due' => row.email # None)
  <2>1. /\ Completion(a, row) \subseteq {"payout", "record", "credit"}
        /\ "record" \in Completion(a, row) => referral[a] # None
    BY CompletionType
  <2> QED BY <1>1, <2>1
<1>8. TypeOK'
  BY <1>1, <1>6, <1>7, HoldingType DEF IInv, TypeOK, money, letters, Writes
<1>9. OneUsableLink' /\ KeysOK'
  <2>1. OneUsableLink'
    BY <1>1, SameTokens DEF IInv, TypeOK, letters
  <2>2. KeysOK'
    BY <1>1, <1>7, SameKeys
  <2> QED BY <2>1, <2>2
<1>10. JobOK'
  <2>1. CASE due' = {}
    BY <2>1, NoJob
  <2>2. CASE due' # {}
    <3>1. hand' \in Hands /\ hand'.agent = a
      BY <1>1, <2>2, HoldingType
    <3> QED BY <1>1, <1>6, <1>7, <3>1
            DEF JobOK, RegistrationOK, AccountOK, ReferralOK, VerificationOK
  <2> QED BY <2>1, <2>2
<1> QED BY <1>6, <1>8, <1>9, <1>10 DEF IInv

LEMMA ResendLinkStep ==
  ASSUME IInv, NEW r \in waiting, ResendLink(r)
  PROVE  IInv'
<1>1. /\ r.agent \in Agents /\ Has(r.agent) /\ accounts[r.agent].email # None
      /\ due' = {"link"} /\ hand' = Holding(r.agent)
      /\ waiting' = waiting \ {r}
      /\ UNCHANGED <<accounts, keys, tokens, referral, money, letters, settings, crashes>>
  BY DEF ResendLink, IInv, TypeOK, Requests
<1>2. hand' \in Hands /\ hand'.agent = r.agent
  BY <1>1, HoldingType
<1>3. TypeOK'
  BY <1>1, <1>2 DEF IInv, TypeOK, money, letters, Writes
<1>4. EmailsAreUnique' /\ ListedIsActive' /\ VerifiedIsProven' /\ OneUsableLink'
  BY <1>1, SameAccounts, SameProofs, SameTokens DEF IInv, TypeOK, letters
<1>5. KeysOK'
  BY <1>1, SameKeys
<1>6. JobOK'
  BY <1>1, <1>2 DEF JobOK, RegistrationOK, AccountOK, ReferralOK, VerificationOK, Has
<1> QED BY <1>3, <1>4, <1>5, <1>6 DEF IInv

-----------------------------------------------------------------------------
(* Keys *)

LEMMA RotateStep ==
  ASSUME IInv, NEW a \in Agents, Has(a), Rotate(a), waiting' \subseteq waiting
  PROVE  IInv'
<1>1. /\ keys' = [keys EXCEPT ![a].live = {}]
      /\ due' = {"issue", "prefix"} /\ hand' = Holding(a)
      /\ UNCHANGED <<accounts, tokens, referral, money, letters, settings, crashes>>
  BY DEF Rotate
<1>2. hand' \in Hands /\ hand'.agent = a
  BY <1>1, HoldingType
<1>3. /\ keys' \in [Agents -> [issued : Nat, live : SUBSET Nat]]
      /\ keys'[a].live = {}
      /\ \A b \in Agents \ {a} : keys'[b] = keys[b]
  BY <1>1 DEF IInv, TypeOK
<1>4. TypeOK'
  BY <1>1, <1>2, <1>3 DEF IInv, TypeOK, money, letters, Writes
<1>5. EmailsAreUnique' /\ ListedIsActive' /\ VerifiedIsProven' /\ OneUsableLink'
  BY <1>1, SameAccounts, SameProofs, SameTokens DEF IInv, TypeOK, letters
<1>6. KeysOK'
  BY <1>2, <1>3 DEF IInv, KeysOK
<1>7. JobOK'
  BY <1>1, <1>2 DEF JobOK, RegistrationOK, AccountOK, ReferralOK, VerificationOK, Has
<1> QED BY <1>4, <1>5, <1>6, <1>7 DEF IInv

LEMMA IssueKeyStep ==
  ASSUME IInv, IssueKey
  PROVE  IInv'
<1>1. PICK a \in Agents, k \in Nat :
        /\ "issue" \in due /\ "account" \notin due /\ hand.agent = a /\ Has(a)
        /\ k = keys[a].issued + 1
        /\ keys' = [keys EXCEPT ![a] = [issued |-> k, live |-> @.live \cup {k}]]
        /\ Done("issue")
        /\ UNCHANGED <<accounts, tokens, referral, money, letters, waiting, settings, crashes>>
  <2>1. /\ "issue" \in due /\ "account" \notin due /\ hand.agent \in Agents /\ Has(hand.agent)
    BY DEF IssueKey, IInv, JobOK, RegistrationOK, AccountOK, Hands
  <2>2. keys[hand.agent].issued + 1 \in Nat
    BY <2>1 DEF IInv, TypeOK
  <2> QED BY <2>1, <2>2 DEF IssueKey
<1>2. keys[a].live = {}
  BY <1>1 DEF IInv, KeysOK
<1>3. /\ keys' \in [Agents -> [issued : Nat, live : SUBSET Nat]]
      /\ keys'[a] = [issued |-> k, live |-> {k}]
      /\ \A b \in Agents \ {a} : keys'[b] = keys[b]
  BY <1>1, <1>2 DEF IInv, TypeOK
<1>4. TypeOK'
  BY <1>1, <1>3 DEF IInv, TypeOK, money, letters, Done
<1>5. EmailsAreUnique' /\ ListedIsActive' /\ VerifiedIsProven' /\ OneUsableLink'
  BY <1>1, SameAccounts, SameProofs, SameTokens DEF IInv, TypeOK, letters
<1>6. KeysOK'
  BY <1>1, <1>3 DEF IInv, KeysOK, Done
<1>7. JobOK'
  BY <1>1, NextWrite DEF Has
<1> QED BY <1>4, <1>5, <1>6, <1>7 DEF IInv

LEMMA WritePrefixStep ==
  ASSUME IInv, WritePrefix
  PROVE  IInv'
<1>1. PICK a, row :
        /\ a \in Agents
        /\ "prefix" \in due /\ "issue" \notin due /\ "account" \notin due
        /\ hand.agent = a /\ Has(a)
        /\ row = [accounts[a] EXCEPT !.prefix = keys[a].issued]
        /\ accounts' = [accounts EXCEPT ![a] = row]
        /\ Done("prefix")
        /\ UNCHANGED <<keys, tokens, referral, money, letters, waiting, settings, crashes>>
  <2>1. /\ "prefix" \in due /\ "account" \notin due /\ hand.agent \in Agents /\ Has(hand.agent)
    BY DEF WritePrefix, IInv, JobOK, RegistrationOK, AccountOK, Hands
  <2> QED BY <2>1 DEF WritePrefix
<1>2. /\ row \in Rows /\ row.email = accounts[a].email /\ row.verified = accounts[a].verified
      /\ row.listed = accounts[a].listed /\ row.active = accounts[a].active
  <2>1. accounts[a] \in Rows /\ keys[a].issued \in Nat
    BY <1>1 DEF IInv, TypeOK, Has
  <2> QED BY <1>1, <2>1 DEF Rows
<1>3. /\ accounts' \in [Agents -> Rows \cup {None}] /\ accounts'[a] = row /\ Has(a)'
      /\ EmailsAreUnique' /\ ListedIsActive' /\ VerifiedIsProven'
  <2>1. (row.listed => row.active) /\ (row.verified => Proven(a, row.email))
    BY <1>1, <1>2 DEF IInv, ListedIsActive, VerifiedIsProven, Proven
  <2> QED BY <1>1, <1>2, <2>1, RowChange DEF letters
<1>4. TypeOK'
  BY <1>1, <1>3 DEF IInv, TypeOK, money, letters, Done
<1>5. OneUsableLink' /\ KeysOK'
  <2>1. OneUsableLink'
    BY <1>1, SameTokens DEF IInv, TypeOK, letters
  <2>2. KeysOK'
    BY <1>1, SameKeys DEF Done
  <2> QED BY <2>1, <2>2
<1>6. JobOK'
  BY <1>1, <1>2, <1>3, NextWrite DEF Has
<1> QED BY <1>3, <1>4, <1>5, <1>6 DEF IInv

-----------------------------------------------------------------------------
(* Moderation, completion, restarts *)

LEMMA SetStatusStep ==
  ASSUME IInv, NEW a \in Agents, NEW active \in BOOLEAN, SetStatus(a, active)
  PROVE  IInv'
<1>1. PICK row :
        /\ due = {} /\ Has(a)
        /\ row = [accounts[a] EXCEPT !.active = active, !.listed = @ /\ active]
        /\ accounts' = [accounts EXCEPT ![a] = row]
        /\ UNCHANGED <<keys, tokens, referral, money, letters, waiting, job, settings, crashes>>
  <2>1. accounts' = [accounts EXCEPT ![a] =
                       [accounts[a] EXCEPT !.active = active, !.listed = @ /\ active]]
    BY DEF SetStatus
  <2> QED BY <2>1 DEF SetStatus, Idle
<1>2. /\ row \in Rows /\ row.email = accounts[a].email /\ row.verified = accounts[a].verified
      /\ row.listed => row.active
  <2>1. accounts[a] \in Rows
    BY <1>1 DEF IInv, TypeOK, Has
  <2> DEFINE l == accounts[a].listed /\ active
  <2>2. row = [accounts[a] EXCEPT !.active = active, !.listed = l]
    BY <1>1
  <2>3. l \in BOOLEAN /\ (l => active)
    OBVIOUS
  <2> HIDE DEF l
  <2> QED BY <2>1, <2>2, <2>3 DEF Rows
<1>3. /\ accounts' \in [Agents -> Rows \cup {None}] /\ accounts'[a] = row /\ Has(a)'
      /\ EmailsAreUnique' /\ ListedIsActive' /\ VerifiedIsProven'
  <2>1. row.verified => Proven(a, row.email)
    BY <1>1, <1>2 DEF IInv, VerifiedIsProven, Proven
  <2> QED BY <1>1, <1>2, <2>1, RowChange DEF letters
<1>4. TypeOK'
  BY <1>1, <1>3 DEF IInv, TypeOK, money, letters, job
<1>5. OneUsableLink' /\ KeysOK'
  <2>1. OneUsableLink'
    BY <1>1, SameTokens DEF IInv, TypeOK, letters
  <2>2. KeysOK'
    BY <1>1, SameKeys DEF job
  <2> QED BY <2>1, <2>2
<1>6. JobOK'
  BY <1>1, NoJob DEF job
<1> QED BY <1>3, <1>4, <1>5, <1>6 DEF IInv

\* A write of a completion concerns the referral, its payouts and credits only.
LEMMA RewardStep ==
  ASSUME IInv, NEW w \in {"payout", "record", "credit"}, w \in due, Done(w),
         referral' \in [Agents -> Referrals \cup {None}],
         payouts' \in [Agents -> Nat], credits' \in [Agents -> Nat],
         referral[hand.agent] # None => referral'[hand.agent] # None,
         UNCHANGED <<accounts, keys, tokens, letters, waiting, settings, crashes>>
  PROVE  IInv'
<1>1. TypeOK'
  BY DEF IInv, TypeOK, letters, Done
<1>2. EmailsAreUnique' /\ ListedIsActive' /\ VerifiedIsProven' /\ OneUsableLink'
  BY SameAccounts, SameProofs, SameTokens DEF IInv, TypeOK, letters
<1>3. KeysOK'
  BY SameKeys DEF Done
<1>4. JobOK'
  <2>1. "account" \notin due
    BY DEF IInv, JobOK, RegistrationOK
  <2>2. accounts[hand.agent] # None
    BY <2>1 DEF IInv, JobOK, AccountOK, Has
  <2> QED BY <2>1, <2>2, NextWrite
<1> QED BY <1>1, <1>2, <1>3, <1>4 DEF IInv

\* A completed referral is closed, or has been refused once more.
LEMMA CompletedReferral ==
  ASSUME NEW r \in Referrals, NEW new,
         \/ new = [r EXCEPT !.status = "payout_pending"]
         \/ new = [r EXCEPT !.status = "onboarding_complete", !.refused = @ + 1]
  PROVE  /\ new \in Referrals /\ r.refused \in Nat
         /\ \/ new.status = "payout_pending" /\ new.refused = r.refused
            \/ new.status = "onboarding_complete" /\ new.refused = r.refused + 1
<1>1. /\ r = [by |-> r.by, refused |-> r.refused, status |-> r.status]
      /\ r.by \in Agents /\ r.refused \in Nat
  BY DEF Referrals
<1>2. CASE new = [r EXCEPT !.status = "payout_pending"]
  BY <1>1, <1>2 DEF Referrals
<1>3. CASE new = [r EXCEPT !.status = "onboarding_complete", !.refused = @ + 1]
  <2>1. new = [by |-> r.by, refused |-> r.refused + 1, status |-> "onboarding_complete"]
    BY <1>1, <1>3
  <2>2. r.refused + 1 \in Nat
    BY <1>1
  <2> QED BY <1>1, <2>1, <2>2 DEF Referrals
<1> QED BY <1>2, <1>3

LEMMA CompletionStep ==
  ASSUME IInv, CreatePayout \/ RecordCompletion \/ CreditReferrer
  PROVE  IInv'
<1>1. due # {} => hand.agent \in Agents
  BY DEF IInv, JobOK, Hands
<1>2. CASE CreatePayout
  <2>1. payouts' \in [Agents -> Nat]
    BY <1>1, <1>2 DEF CreatePayout, IInv, TypeOK
  <2> QED BY <1>2, <2>1, RewardStep DEF CreatePayout, IInv, TypeOK
<1>3. CASE RecordCompletion
  <2> DEFINE a == hand.agent
  <2>1. a \in Agents /\ referral[a] \in Referrals
    BY <1>1, <1>3 DEF RecordCompletion, IInv, TypeOK, JobOK, ReferralOK
  <2>3. PICK new :
          /\ referral' = [referral EXCEPT ![a] = new]
          /\ new = IF PaymentMade \/ ~settings.wallet
                   THEN [referral[a] EXCEPT !.status = "payout_pending"]
                   ELSE [referral[a] EXCEPT !.status = "onboarding_complete", !.refused = @ + 1]
    BY <1>3 DEF RecordCompletion
  <2>4. new \in Referrals
    BY <2>1, <2>3, CompletedReferral
  <2>5. /\ referral' \in [Agents -> Referrals \cup {None}]
        /\ referral'[a] # None
    BY <2>1, <2>3, <2>4, NoneAssumption DEF IInv, TypeOK
  <2> QED BY <1>3, <2>5, RewardStep DEF RecordCompletion, IInv, TypeOK, money
<1>4. CASE CreditReferrer
  <2>1. credits' \in [Agents -> Nat]
    BY <1>1, <1>4 DEF CreditReferrer, IInv, TypeOK
  <2> QED BY <1>4, <2>1, RewardStep DEF CreditReferrer, IInv, TypeOK
<1> QED BY <1>2, <1>3, <1>4

\* A handler that is cut leaves nothing that the next start could not live with.
LEMMA RestartStep ==
  ASSUME IInv, Restart
  PROVE  IInv'
<1>1. /\ crashes' = crashes + 1 /\ settings' \in AllSettings
      /\ due' = {} /\ hand' = None /\ waiting' = {} /\ mail' = {}
      /\ UNCHANGED <<accounts, keys, tokens, referral, money, inbox, old>>
  BY ConstantsAssumption DEF Restart
<1>2. TypeOK'
  BY <1>1 DEF IInv, TypeOK, money
<1>3. EmailsAreUnique' /\ ListedIsActive' /\ VerifiedIsProven' /\ OneUsableLink'
  BY <1>1, SameAccounts, SameProofs, SameTokens DEF IInv, TypeOK
<1>4. KeysOK' /\ JobOK'
  BY <1>1, SameKeys, NoJob
<1> QED BY <1>2, <1>3, <1>4 DEF IInv

-----------------------------------------------------------------------------
(* Theorems *)

LEMMA InitIInv ==
  Init => IInv
<1> SUFFICES ASSUME Init PROVE IInv
  OBVIOUS
<1>1. TypeOK
  <2>1. \A a \in Agents : keys[a] \in [issued : Nat, live : SUBSET Nat]
    BY DEF Init
  <2>2. keys \in [Agents -> [issued : Nat, live : SUBSET Nat]]
    BY <2>1 DEF Init
  <2> QED BY <2>2, ConstantsAssumption DEF Init, TypeOK
<1>2. EmailsAreUnique /\ ListedIsActive /\ VerifiedIsProven
  BY DEF Init, EmailsAreUnique, ListedIsActive, VerifiedIsProven, Has
<1>3. OneUsableLink
  BY DEF Init, OneUsableLink
<1>4. KeysOK /\ JobOK
  BY DEF Init, KeysOK, JobOK, RegistrationOK, AccountOK, ReferralOK, VerificationOK
<1> QED BY <1>1, <1>2, <1>3, <1>4 DEF IInv

LEMMA NextIInv ==
  IInv /\ [Next]_vars => IInv'
<1> SUFFICES ASSUME IInv, [Next]_vars PROVE IInv'
  OBVIOUS
<1>1. ASSUME NEW a \in Agents, NEW e \in Emails \cup {None}, NEW profile \in Profiles,
             NEW by \in Codes \cup {None}, Register(a, e, profile, by)
      PROVE  IInv'
  BY <1>1, RegisterStep
<1>2. CASE \/ \E a \in Agents, op \in Requested : Authenticate(a, op)
           \/ \E r \in waiting : Resolve(r) \/ Refuse(r)
  BY <1>2, RequestStep
<1>3. ASSUME NEW r \in waiting, ResendLink(r)
      PROVE  IInv'
  BY <1>3, ResendLinkStep
<1>4. ASSUME NEW r \in waiting, RotateOwn(r)
      PROVE  IInv'
  <2>1. r.agent \in Agents /\ Has(r.agent) /\ Rotate(r.agent) /\ waiting' \subseteq waiting
    BY <1>4 DEF RotateOwn, IInv, TypeOK, Requests
  <2>2. PICK a \in Agents : a = r.agent
    BY <2>1
  <2> QED BY <2>1, <2>2, RotateStep
<1>5. ASSUME NEW r \in waiting, NEW p \in Patches, PatchProfile(r, p)
      PROVE  IInv'
  BY <1>5, PatchProfileStep
<1>6. ASSUME NEW t \in inbox, VerifyEmail(t)
      PROVE  IInv'
  BY <1>6, VerifyEmailStep
<1>7. ASSUME NEW t \in mail, Deliver(t) \/ MailFails(t)
      PROVE  IInv'
  BY <1>7, MailStep
<1>8. CASE Expire
  BY <1>8, ExpireStep
<1>9. ASSUME NEW a \in Agents, RotateForced(a)
      PROVE  IInv'
  BY <1>9, RotateStep DEF RotateForced
<1>10. ASSUME NEW a \in Agents, NEW active \in BOOLEAN, SetStatus(a, active)
       PROVE  IInv'
  BY <1>10, SetStatusStep
<1>11. CASE Handler
  BY <1>11, AppendAccountStep, RecordReferralStep, IssueLinkStep, MarkVerifiedStep,
     IssueKeyStep, WritePrefixStep, CompletionStep DEF Handler
<1>12. CASE Restart
  BY <1>12, RestartStep
<1>13. CASE UNCHANGED vars
  <2>1. waiting' \subseteq Requests
    BY <1>13 DEF vars, IInv, TypeOK
  <2> QED BY <1>13, <2>1, WaitingStep DEF vars
<1> QED BY <1>1, <1>2, <1>3, <1>4, <1>5, <1>6, <1>7, <1>8, <1>9, <1>10, <1>11, <1>12,
           <1>13 DEF Next

\* The invariant of the handlers, in whatever order requests, letters, operators
\* and crashes come.
THEOREM Invariant ==
  Spec => []IInv
<1>1. Init => IInv
  BY InitIInv
<1>2. IInv /\ [Next]_vars => IInv'
  BY NextIInv
<1> QED BY <1>1, <1>2, PTL DEF Spec

\* Every variable of the account store keeps its type.
THEOREM TypeCorrect ==
  Spec => []TypeOK
<1>1. IInv => TypeOK
  BY DEF IInv
<1> QED BY <1>1, Invariant, PTL

\* No two accounts ever share an address (find_account_by_email in registration
\* and in PATCH).
THEOREM UniqueEmails ==
  Spec => []EmailsAreUnique
<1>1. IInv => EmailsAreUnique
  BY DEF IInv
<1> QED BY <1>1, Invariant, PTL

\* An account is verified only for an address whose owner has followed a link
\* mailed there for this account (verify_email_token, update_agent_profile).
THEOREM ProvenAddresses ==
  Spec => []VerifiedIsProven
<1>1. IInv => VerifiedIsProven
  BY DEF IInv
<1> QED BY <1>1, Invariant, PTL

\* Of all links issued to an agent at most the last one can be followed
\* (issue_verification_token).
THEOREM LastLinkOnly ==
  Spec => []OneUsableLink
<1>1. IInv => OneUsableLink
  BY DEF IInv
<1> QED BY <1>1, Invariant, PTL

\* An account that is not active is never listed (set_agent_status against a PATCH
\* that was authenticated before).
THEOREM SuspendedIsHidden ==
  Spec => []ListedIsActive
<1>1. IInv => ListedIsActive
  BY DEF IInv
<1> QED BY <1>1, Invariant, PTL

-----------------------------------------------------------------------------
(* Keys that work *)

\* Before the first crash an agent has a working key, but for the agent whose key
\* is being rotated.
KeyLives ==
  \A a \in Agents :
    /\ crashes = 0
    /\ Has(a) \/ ("account" \in due /\ hand.agent = a)
    /\ ~("issue" \in due /\ hand.agent = a)
    => keys[a].live # {}

\* Steps that leave the keys alone keep it, when an account appears only at the
\* end of its registration and a rotation goes on until a key is issued.
LEMMA SameLives ==
  ASSUME KeyLives, keys' = keys, crashes' = crashes,
         \A a \in Agents : Has(a)' => Has(a) \/ ("account" \in due /\ hand.agent = a),
         "account" \in due' => "account" \in due /\ hand' = hand,
         "issue" \in due => "issue" \in due' /\ hand' = hand
  PROVE  KeyLives'
  BY DEF KeyLives

\* The same for a write that is done.
LEMMA WriteLives ==
  ASSUME KeyLives, keys' = keys, crashes' = crashes, NEW w \in due, w # "issue", Done(w),
         \A a \in Agents : Has(a)' => Has(a) \/ ("account" \in due /\ hand.agent = a)
  PROVE  KeyLives'
  BY SameLives DEF Done

\* The same for a handler that begins.
LEMMA BeginLives ==
  ASSUME KeyLives, keys' = keys, crashes' = crashes, Idle, "account" \notin due',
         \A a \in Agents : Has(a)' => Has(a)
  PROVE  KeyLives'
  BY SameLives DEF Idle

LEMMA RotateLives ==
  ASSUME IInv, KeyLives, NEW a \in Agents, Idle, Rotate(a)
  PROVE  KeyLives'
<1>1. /\ hand'.agent = a /\ due' = {"issue", "prefix"} /\ due = {}
      /\ keys' = [keys EXCEPT ![a].live = {}]
      /\ accounts' = accounts /\ crashes' = crashes
  BY HoldingType DEF Rotate, Idle
<1>2. \A b \in Agents \ {a} : keys'[b] = keys[b]
  BY <1>1 DEF IInv, TypeOK
<1> QED BY <1>1, <1>2 DEF KeyLives, Has

LEMMA HandlerLives ==
  ASSUME IInv, KeyLives, Handler
  PROVE  KeyLives'
<1>1. CASE AppendAccount
  <2>1. /\ "account" \in due /\ Done("account") /\ keys' = keys /\ crashes' = crashes
        /\ \A b \in Agents : b # hand.agent => accounts'[b] = accounts[b]
    BY <1>1 DEF AppendAccount, IInv, TypeOK
  <2> QED BY <2>1, WriteLives DEF Has
<1>2. CASE WritePrefix
  <2>1. /\ "prefix" \in due /\ Done("prefix") /\ keys' = keys /\ crashes' = crashes
        /\ \A b \in Agents : b # hand.agent => accounts'[b] = accounts[b]
        /\ Has(hand.agent) \/ ("account" \in due /\ hand.agent \in Agents)
    BY <1>2 DEF WritePrefix, IInv, TypeOK, JobOK, AccountOK, Hands
  <2> QED BY <2>1, WriteLives DEF Has
<1>3. CASE MarkVerified
  <2>1. /\ due = {"verified"} /\ Has(hand.agent)
        /\ \A b \in Agents : b # hand.agent => accounts'[b] = accounts[b]
    BY <1>3 DEF MarkVerified, IInv, TypeOK, JobOK, AccountOK, VerificationOK
  <2>2. keys' = keys /\ crashes' = crashes /\ "account" \notin due'
    BY <1>3 DEF MarkVerified, Completion
  <2> QED BY <2>1, <2>2, SameLives DEF Has
<1>4. CASE IssueKey
  <2>1. /\ "issue" \in due /\ "account" \notin due /\ hand.agent \in Agents
    BY <1>4 DEF IssueKey, IInv, JobOK, RegistrationOK, Hands
  <2>2. PICK k : /\ keys' = [keys EXCEPT ![hand.agent] = [issued |-> k, live |-> @.live \cup {k}]]
                 /\ Done("issue") /\ accounts' = accounts /\ crashes' = crashes
    BY <1>4 DEF IssueKey
  <2>3. /\ keys'[hand.agent].live # {}
        /\ \A b \in Agents : b # hand.agent => keys'[b] = keys[b]
    BY <2>1, <2>2 DEF IInv, TypeOK
  <2> QED BY <2>1, <2>2, <2>3 DEF KeyLives, Done, Has
<1>5. CASE RecordReferral \/ IssueLink \/ CreatePayout \/ RecordCompletion \/ CreditReferrer
  <2>1. /\ keys' = keys /\ crashes' = crashes /\ accounts' = accounts
        /\ \E w \in due \ {"issue"} : Done(w)
    BY <1>5 DEF RecordReferral, IssueLink, CreatePayout, RecordCompletion, CreditReferrer
  <2> QED BY <2>1, WriteLives DEF Has
<1> QED BY <1>1, <1>2, <1>3, <1>4, <1>5 DEF Handler

LEMMA NextKeyLives ==
  IInv /\ KeyLives /\ [Next]_vars => KeyLives'
<1> SUFFICES ASSUME IInv, KeyLives, [Next]_vars PROVE KeyLives'
  OBVIOUS
<1>1. ASSUME NEW a \in Agents, NEW e \in Emails \cup {None}, NEW profile \in Profiles,
             NEW by \in Codes \cup {None}, Register(a, e, profile, by)
      PROVE  KeyLives'
  <2>1. /\ due = {} /\ hand'.agent = a /\ "issue" \notin due'
        /\ keys' = [keys EXCEPT ![a] = [issued |-> 1, live |-> {1}]]
        /\ accounts' = accounts /\ crashes' = crashes
    BY <1>1 DEF Register, Idle
  <2>2. keys'[a].live = {1} /\ \A b \in Agents \ {a} : keys'[b] = keys[b]
    BY <2>1 DEF IInv, TypeOK
  <2> QED BY <2>1, <2>2 DEF KeyLives, Has
<1>2. ASSUME NEW r \in waiting, RotateOwn(r)
      PROVE  KeyLives'
  <2>1. PICK a \in Agents : Idle /\ a = r.agent /\ Rotate(a)
    BY <1>2 DEF RotateOwn, IInv, TypeOK, Requests
  <2> QED BY <2>1, RotateLives
<1>3. ASSUME NEW a \in Agents, RotateForced(a)
      PROVE  KeyLives'
  BY <1>3, RotateLives DEF RotateForced
<1>4. ASSUME NEW r \in waiting, NEW p \in Patches, PatchProfile(r, p)
      PROVE  KeyLives'
  <2>1. /\ Idle /\ Has(r.agent) /\ keys' = keys /\ crashes' = crashes
        /\ "account" \notin due'
        /\ \A b \in Agents : b # r.agent => accounts'[b] = accounts[b]
    BY <1>4 DEF PatchProfile, Patchable, Completion, IInv, TypeOK
  <2> QED BY <2>1, BeginLives DEF Has
<1>5. ASSUME NEW a \in Agents, NEW active \in BOOLEAN, SetStatus(a, active)
      PROVE  KeyLives'
  <2>1. /\ Idle /\ Has(a) /\ keys' = keys /\ crashes' = crashes /\ due' = due
        /\ \A b \in Agents : b # a => accounts'[b] = accounts[b]
    BY <1>5 DEF SetStatus, job, IInv, TypeOK
  <2> QED BY <2>1, BeginLives DEF Has, Idle
<1>6. ASSUME NEW r \in waiting, ResendLink(r)
      PROVE  KeyLives'
  BY <1>6, BeginLives DEF ResendLink, Has
<1>7. ASSUME NEW t \in inbox, VerifyEmail(t)
      PROVE  KeyLives'
  BY <1>7, BeginLives DEF VerifyEmail, Has
<1>8. CASE \/ \E a \in Agents, op \in Requested : Authenticate(a, op)
           \/ \E r \in waiting : Resolve(r) \/ Refuse(r)
           \/ \E t \in mail : Deliver(t) \/ MailFails(t)
           \/ Expire \/ UNCHANGED vars
  <2>1. UNCHANGED <<accounts, keys, job, crashes>>
    BY <1>8 DEF Authenticate, Resolve, Refuse, Deliver, MailFails, Expire, vars
  <2> QED BY <2>1, SameLives DEF job, Has
<1>9. CASE Handler
  BY <1>9, HandlerLives
<1>10. CASE Restart
  <2>1. crashes' # 0
    BY <1>10 DEF Restart, IInv, TypeOK
  <2> QED BY <2>1 DEF KeyLives
<1> QED BY <1>1, <1>2, <1>3, <1>4, <1>5, <1>6, <1>7, <1>8, <1>9, <1>10 DEF Next

\* Only the key issued last can work, and before the first crash it does, except
\* between the two writes of a rotation (rotate_production_key_for_partner).
THEOREM LastKeyIsTheOne ==
  Spec => []LastKeyWorks
<1>1. Init => KeyLives
  BY DEF Init, KeyLives, Has
<1>2. IInv /\ KeyLives => LastKeyWorks
  BY DEF IInv, KeysOK, KeyLives, LastKeyWorks
<1> QED BY <1>1, <1>2, NextKeyLives, Invariant, PTL DEF Spec

\* A rotation that an agent asks for revokes no other key than the one the request
\* bears (the handler of POST /agents/me/rotate-key looks the key up again).
THEOREM HolderRevokes ==
  Spec => RevokedByHolder
<1> DEFINE A == \A a \in Agents, k \in 1 .. MaxKeys :
                  k \in keys[a].live \ keys'[a].live /\ waiting' # waiting
                    => \E r \in waiting \ waiting' : r.agent = a /\ r.key = k
<1>1. IInv /\ [Next]_vars => A
  <2> SUFFICES ASSUME IInv, [Next]_vars, NEW a \in Agents, NEW k \in 1 .. MaxKeys,
                      k \in keys[a].live, k \notin keys'[a].live, waiting' # waiting
               PROVE  \E r \in waiting \ waiting' : r.agent = a /\ r.key = k
    OBVIOUS
  <2>1. ~Restart
    BY DEF Restart
  <2>2. ASSUME NEW r \in waiting, RotateOwn(r)
        PROVE  r.agent = a /\ r.key = k /\ r \notin waiting'
    <3>1. /\ r.key \in keys[r.agent].live /\ waiting' = waiting \ {r}
          /\ keys' = [keys EXCEPT ![r.agent].live = {}]
      BY <2>2 DEF RotateOwn, Rotate
    <3>2. r.agent \in Agents
      BY DEF IInv, TypeOK, Requests
    <3>3. r.agent = a
      BY <3>1, <3>2 DEF IInv, TypeOK
    <3>4. keys[a].live \subseteq {keys[a].issued}
      BY DEF IInv, KeysOK
    <3> QED BY <3>1, <3>3, <3>4
  <2>3. \E r \in waiting : RotateOwn(r)
    <3>1. ASSUME NEW b \in Agents, NEW e \in Emails \cup {None}, NEW profile \in Profiles,
                 NEW by \in Codes \cup {None}
          PROVE  ~Register(b, e, profile, by)
      BY DEF Register
    <3>2. ~UNCHANGED vars /\ ~Handler /\ ~Expire
      BY DEF vars, Handler, AppendAccount, RecordReferral, IssueLink, MarkVerified, IssueKey,
             WritePrefix, CreatePayout, RecordCompletion, CreditReferrer, Expire
    <3>3. ASSUME NEW b \in Agents
          PROVE  /\ \A op \in Requested : ~Authenticate(b, op)
                 /\ ~RotateForced(b) /\ \A active \in BOOLEAN : ~SetStatus(b, active)
      BY DEF Authenticate, RotateForced, SetStatus
    <3>4. ASSUME NEW r \in waiting
          PROVE  /\ ~Resolve(r) /\ ~Refuse(r) /\ ~ResendLink(r)
                 /\ \A p \in Patches : ~PatchProfile(r, p)
      BY DEF Resolve, Refuse, ResendLink, PatchProfile
    <3>5. /\ \A t \in inbox : ~VerifyEmail(t)
          /\ \A t \in mail : ~Deliver(t) /\ ~MailFails(t)
      BY DEF VerifyEmail, Deliver, MailFails
    <3> QED BY <2>1, <3>1, <3>2, <3>3, <3>4, <3>5 DEF Next
  <2> QED BY <2>2, <2>3
<1> HIDE DEF A
<1>2. Spec => [][A]_vars
  BY <1>1, Invariant, PTL DEF Spec
<1> QED BY <1>2 DEF RevokedByHolder, A

-----------------------------------------------------------------------------
(* Payouts *)

\* A payout that is still to be created is for an account that is complete.
PayoutOK == "payout" \in due => OnboardingComplete(accounts[hand.agent])

\* The accounts, the handler and the settings do not change.
LEMMA SamePayout ==
  ASSUME PayoutOK, UNCHANGED <<accounts, job, settings>>
  PROVE  PayoutOK'
  BY DEF PayoutOK, job, OnboardingComplete, TermsAccepted

\* A write is done that leaves what makes an account complete alone.
LEMMA WritePayout ==
  ASSUME PayoutOK, NEW w \in due, Done(w), settings' = settings,
         OnboardingComplete(accounts[hand.agent])
           => OnboardingComplete(accounts'[hand.agent])
  PROVE  PayoutOK'
<1> SUFFICES ASSUME "payout" \in due'
             PROVE  OnboardingComplete(accounts[hand.agent])'
  BY DEF PayoutOK
<1>1. "payout" \in due /\ hand' = hand
  BY DEF Done
<1> QED BY <1>1 DEF PayoutOK, OnboardingComplete, TermsAccepted

LEMMA HandlerPayout ==
  ASSUME IInv, PayoutOK, Handler
  PROVE  PayoutOK'
<1>1. CASE AppendAccount
  <2>1. "payout" \notin due'
    BY <1>1 DEF AppendAccount, Done, IInv, JobOK, RegistrationOK
  <2> QED BY <2>1 DEF PayoutOK
<1>2. CASE MarkVerified
  <2>1. PICK a, row :
          /\ a \in Agents
          /\ hand.agent = a /\ accounts' = [accounts EXCEPT ![a] = row]
          /\ due' = Completion(a, row) /\ hand' = IF due' = {} THEN None ELSE hand
          /\ settings' = settings
    <3>1. hand.agent \in Agents
      BY <1>2 DEF MarkVerified, IInv, JobOK, Hands
    <3> QED BY <1>2, <3>1 DEF MarkVerified
  <2>2. "payout" \in due' => OnboardingComplete(row)
    BY <2>1 DEF Completion
  <2>3. accounts'[a] = row
    BY <2>1 DEF IInv, TypeOK
  <2> QED BY <2>1, <2>2, <2>3 DEF PayoutOK, OnboardingComplete, TermsAccepted
<1>3. CASE WritePrefix
  <2>1. PICK a \in Agents :
          /\ "prefix" \in due /\ Done("prefix") /\ settings' = settings /\ hand.agent = a
          /\ accounts' = [accounts EXCEPT ![a].prefix = keys[a].issued]
    <3>1. hand.agent \in Agents
      BY <1>3 DEF WritePrefix, IInv, JobOK, Hands
    <3> QED BY <1>3, <3>1 DEF WritePrefix
  <2>2. accounts[a] \in Rows
    BY <2>1, <1>3 DEF IInv, TypeOK, JobOK, AccountOK, RegistrationOK, Has, WritePrefix
  <2>3. accounts'[a] = [accounts[a] EXCEPT !.prefix = keys[a].issued]
    BY <2>1 DEF IInv, TypeOK
  <2>4. OnboardingComplete(accounts[a]) => OnboardingComplete(accounts'[a])
    BY <2>2, <2>3 DEF OnboardingComplete, TermsAccepted, Rows
  <2> QED BY <2>1, <2>4, WritePayout
<1>4. CASE \/ RecordReferral \/ IssueLink \/ IssueKey
           \/ CreatePayout \/ RecordCompletion \/ CreditReferrer
  <2>1. /\ accounts' = accounts /\ settings' = settings
        /\ \E w \in due : Done(w)
    BY <1>4 DEF RecordReferral, IssueLink, IssueKey, CreatePayout, RecordCompletion,
                CreditReferrer
  <2> QED BY <2>1, WritePayout
<1> QED BY <1>1, <1>2, <1>3, <1>4 DEF Handler

LEMMA NextPayout ==
  IInv /\ PayoutOK /\ [Next]_vars => PayoutOK'
<1> SUFFICES ASSUME IInv, PayoutOK, [Next]_vars PROVE PayoutOK'
  OBVIOUS
<1>1. ASSUME NEW r \in waiting, NEW p \in Patches, PatchProfile(r, p)
      PROVE  PayoutOK'
  <2>1. PICK a, row :
          /\ a \in Agents
          /\ accounts' = [accounts EXCEPT ![a] = row]
          /\ due' = Completion(a, row)
                     \cup {w \in {"link"} : p.email # Keep /\ row.email # None /\ ~row.verified}
          /\ hand' = IF due' = {} THEN None ELSE Holding(a)
          /\ settings' = settings
    <3>1. r.agent \in Agents
      BY DEF IInv, TypeOK, Requests
    <3> QED BY <1>1, <3>1 DEF PatchProfile
  <2>2. "payout" \in due' => OnboardingComplete(row) /\ hand'.agent = a
    BY <2>1, HoldingType DEF Completion
  <2>3. accounts'[a] = row
    BY <2>1 DEF IInv, TypeOK
  <2> QED BY <2>1, <2>2, <2>3 DEF PayoutOK, OnboardingComplete, TermsAccepted
<1>2. CASE Handler
  BY <1>2, HandlerPayout
<1>3. ASSUME NEW a \in Agents, NEW e \in Emails \cup {None}, NEW profile \in Profiles,
             NEW by \in Codes \cup {None}, Register(a, e, profile, by)
      PROVE  PayoutOK'
  BY <1>3 DEF Register, PayoutOK
<1>4. CASE \/ \E r \in waiting : ResendLink(r) \/ RotateOwn(r)
           \/ \E a \in Agents : RotateForced(a)
           \/ \E t \in inbox : VerifyEmail(t)
           \/ Restart
           \/ \E a \in Agents, active \in BOOLEAN : SetStatus(a, active)
  <2>1. "payout" \notin due'
    <3>1. ASSUME NEW r \in waiting, ResendLink(r) \/ RotateOwn(r)
          PROVE  "payout" \notin due'
      BY <3>1 DEF ResendLink, RotateOwn, Rotate
    <3>2. ASSUME NEW a \in Agents, RotateForced(a)
          PROVE  "payout" \notin due'
      BY <3>2 DEF RotateForced, Rotate
    <3>3. ASSUME NEW t \in inbox, VerifyEmail(t)
          PROVE  "payout" \notin due'
      BY <3>3 DEF VerifyEmail
    <3>4. ASSUME NEW a \in Agents, NEW active \in BOOLEAN, SetStatus(a, active)
          PROVE  "payout" \notin due'
      BY <3>4 DEF SetStatus, Idle, job
    <3>5. CASE Restart
      BY <3>5 DEF Restart
    <3> QED BY <1>4, <3>1, <3>2, <3>3, <3>4, <3>5
  <2> QED BY <2>1 DEF PayoutOK
<1>5. CASE \/ \E a \in Agents, op \in Requested : Authenticate(a, op)
           \/ \E r \in waiting : Resolve(r) \/ Refuse(r)
           \/ \E t \in mail : Deliver(t) \/ MailFails(t)
           \/ Expire \/ UNCHANGED vars
  <2>1. UNCHANGED <<accounts, job, settings>>
    BY <1>5 DEF Authenticate, Resolve, Refuse, Deliver, MailFails, Expire, vars
  <2> QED BY <2>1, SamePayout
<1> QED BY <1>1, <1>2, <1>3, <1>4, <1>5 DEF Next

\* Whoever is paid for: the account is in the directory and its address has been
\* proved when the payout is created, although is_onboarding_complete does not look
\* at the status (set_agent_status takes the account out of the directory).
THEOREM PayoutEarned ==
  Spec => PayoutIsEarned
<1> DEFINE A == \A a \in Agents :
                  payouts'[a] # payouts[a] =>
                    /\ Has(a) /\ Eligible(accounts[a])
                    /\ accounts[a].email # None /\ accounts[a].verified
<1>1. Init => PayoutOK
  BY DEF Init, PayoutOK
<1>2. IInv /\ PayoutOK /\ [Next]_vars => A
  <2> SUFFICES ASSUME IInv, PayoutOK, [Next]_vars, NEW a \in Agents, payouts'[a] # payouts[a]
               PROVE  /\ Has(a) /\ Eligible(accounts[a])
                      /\ accounts[a].email # None /\ accounts[a].verified
    OBVIOUS
  <2>1. CreatePayout
    <3>1. /\ ~UNCHANGED vars /\ ~Restart /\ ~Expire
          /\ \A b \in Agents, e \in Emails \cup {None}, profile \in Profiles,
                by \in Codes \cup {None} : ~Register(b, e, profile, by)
      BY DEF vars, money, Restart, Expire, Register
    <3>2. ~(\/ AppendAccount \/ RecordReferral \/ IssueLink \/ MarkVerified \/ IssueKey
            \/ WritePrefix \/ RecordCompletion \/ CreditReferrer)
      BY DEF AppendAccount, RecordReferral, IssueLink, MarkVerified, IssueKey, WritePrefix,
             RecordCompletion, CreditReferrer, money
    <3>3. ASSUME NEW b \in Agents
          PROVE  /\ \A op \in Requested : ~Authenticate(b, op)
                 /\ ~RotateForced(b) /\ \A active \in BOOLEAN : ~SetStatus(b, active)
      BY DEF Authenticate, RotateForced, Rotate, SetStatus, money
    <3>4. ASSUME NEW r \in waiting
          PROVE  /\ ~Resolve(r) /\ ~Refuse(r) /\ ~ResendLink(r) /\ ~RotateOwn(r)
                 /\ \A p \in Patches : ~PatchProfile(r, p)
      BY DEF Resolve, Refuse, ResendLink, RotateOwn, Rotate, PatchProfile, money
    <3>5. /\ \A t \in inbox : ~VerifyEmail(t)
          /\ \A t \in mail : ~Deliver(t) /\ ~MailFails(t)
      BY DEF VerifyEmail, Deliver, MailFails, money
    <3> QED BY <3>1, <3>2, <3>3, <3>4, <3>5 DEF Next, Handler
  <2>2. /\ "payout" \in due /\ hand.agent = a
        /\ Has(a) /\ OnboardingComplete(accounts[a])
    <3>1. "payout" \in due /\ hand.agent = a
      BY <2>1 DEF CreatePayout, IInv, TypeOK
    <3>2. "account" \notin due
      BY <3>1 DEF IInv, JobOK, RegistrationOK
    <3> QED BY <3>1, <3>2 DEF PayoutOK, IInv, JobOK, AccountOK
  <2>3. accounts[a].active /\ Proven(a, accounts[a].email)
    BY <2>2 DEF OnboardingComplete, IInv, ListedIsActive, VerifiedIsProven, Proven
  <2>4. accounts[a].email # None
    <3>1. PICK t \in inbox : tokens[t].email = accounts[a].email
      BY <2>3 DEF Proven
    <3>2. tokens \in Seq(Tokens) /\ t \in DOMAIN tokens
      BY DEF IInv, TypeOK
    <3>3. tokens[t] \in Tokens
      BY <3>2
    <3> QED BY <3>1, <3>3, ConstantsAssumption DEF Tokens
  <2> QED BY <2>2, <2>3, <2>4 DEF OnboardingComplete, Eligible, TermsAccepted
<1> HIDE DEF A
<1>3. Spec => [][A]_vars
  BY <1>1, <1>2, NextPayout, Invariant, PTL DEF Spec
<1> QED BY <1>3 DEF PayoutIsEarned, A

-----------------------------------------------------------------------------
(* The directory *)

\* An account is shown after a step and was not before it.
Appears(a) == (Has(a) /\ Eligible(accounts[a]))' /\ ~(Has(a) /\ Eligible(accounts[a]))

\* No other write of a handler shows an account than the mark of its address.
LEMMA HandlerShows ==
  ASSUME IInv, Handler, NEW a \in Agents, Appears(a)
  PROVE  "verified" \in due /\ hand.agent = a
<1>1. hand.agent \in Agents /\ accounts \in [Agents -> Rows \cup {None}]
  BY DEF Handler, AppendAccount, RecordReferral, IssueLink, MarkVerified, IssueKey, WritePrefix,
         CreatePayout, RecordCompletion, CreditReferrer, IInv, TypeOK, JobOK, Hands
<1>2. CASE AppendAccount
  <2>1. PICK row : row.listed = FALSE /\ accounts' = [accounts EXCEPT ![hand.agent] = row]
    BY <1>2 DEF AppendAccount
  <2>2. settings' = settings
    BY <1>2 DEF AppendAccount
  <2> QED BY <1>1, <2>1, <2>2 DEF Appears, Has, Eligible, TermsAccepted
<1>3. CASE MarkVerified
  <2>1. PICK row : accounts' = [accounts EXCEPT ![hand.agent] = row]
    BY <1>3 DEF MarkVerified
  <2>2. settings' = settings /\ "verified" \in due
    BY <1>3 DEF MarkVerified
  <2> QED BY <1>1, <2>1, <2>2 DEF Appears, Has, Eligible, TermsAccepted
<1>4. CASE WritePrefix
  <2>1. /\ accounts' = [accounts EXCEPT ![hand.agent].prefix = keys[hand.agent].issued]
        /\ settings' = settings /\ "prefix" \in due
    BY <1>4 DEF WritePrefix
  <2>2. accounts[hand.agent] \in Rows
    BY <1>1, <2>1 DEF IInv, JobOK, AccountOK, RegistrationOK, Has
  <2>3. accounts'[hand.agent] = [accounts[hand.agent] EXCEPT !.prefix = keys[hand.agent].issued]
    BY <1>1, <2>1
  <2>4. /\ accounts'[hand.agent].listed = accounts[hand.agent].listed
        /\ accounts'[hand.agent].active = accounts[hand.agent].active
        /\ accounts'[hand.agent].terms = accounts[hand.agent].terms
        /\ accounts'[hand.agent].verified = accounts[hand.agent].verified
    BY <2>2, <2>3 DEF Rows
  <2>5. accounts[hand.agent] # None
    BY <2>2, NoneAssumption
  <2> QED BY <1>1, <2>1, <2>4, <2>5 DEF Appears, Has, Eligible, TermsAccepted
<1>5. CASE \/ RecordReferral \/ IssueLink \/ IssueKey
           \/ CreatePayout \/ RecordCompletion \/ CreditReferrer
  <2>1. UNCHANGED <<accounts, settings>>
    BY <1>5 DEF RecordReferral, IssueLink, IssueKey, CreatePayout, RecordCompletion,
                CreditReferrer
  <2> QED BY <2>1 DEF Appears, Has, Eligible, TermsAccepted
<1> QED BY <1>2, <1>3, <1>4, <1>5 DEF Handler

\* Nobody else's request, no letter, no decision of the operator and no restart with the
\* same settings shows an account: reactivation does not, because an account that is
\* listed was active already (set_agent_status takes a suspended one off the list).
THEOREM ShownByTheAgent ==
  Spec => ShownByOwnAct
<1> DEFINE A == \A a \in Agents :
                  (Has(a) /\ Eligible(accounts[a]))' /\ ~(Has(a) /\ Eligible(accounts[a]))
                    => \/ \E r \in waiting \ waiting' : r.agent = a
                       \/ "verified" \in due /\ hand.agent = a
                       \/ settings' # settings
<1>1. IInv /\ [Next]_vars => A
  <2> SUFFICES ASSUME IInv, [Next]_vars, NEW a \in Agents, Appears(a), settings' = settings
               PROVE  \/ \E r \in waiting \ waiting' : r.agent = a
                      \/ "verified" \in due /\ hand.agent = a
    BY DEF Appears
  <2>1. accounts \in [Agents -> Rows \cup {None}]
    BY DEF IInv, TypeOK
  <2>2. accounts' # accounts
    BY DEF Appears, Has, Eligible, TermsAccepted
  <2>3. ASSUME NEW r \in waiting, NEW p \in Patches, PatchProfile(r, p)
        PROVE  r.agent = a /\ r \notin waiting'
    <3>1. PICK row : accounts' = [accounts EXCEPT ![r.agent] = row] /\ waiting' = waiting \ {r}
      BY <2>3 DEF PatchProfile
    <3> QED BY <2>1, <3>1 DEF Appears, Has, Eligible, TermsAccepted
  <2>4. ASSUME NEW b \in Agents, NEW active \in BOOLEAN, SetStatus(b, active) PROVE FALSE
    <3>1. PICK row :
            /\ row = [accounts[b] EXCEPT !.active = active, !.listed = @ /\ active]
            /\ accounts' = [accounts EXCEPT ![b] = row]
      <4>1. accounts' = [accounts EXCEPT ![b] =
                           [accounts[b] EXCEPT !.active = active, !.listed = @ /\ active]]
        BY <2>4 DEF SetStatus
      <4> QED BY <4>1
    <3>2. accounts[b] \in Rows /\ accounts[b] # None
      BY <2>1, <2>4 DEF SetStatus, Has
    <3>3. /\ row.terms = accounts[b].terms /\ row.verified = accounts[b].verified
          /\ row.listed => accounts[b].listed
      <4> DEFINE l == accounts[b].listed /\ active
      <4>1. row = [accounts[b] EXCEPT !.active = active, !.listed = l]
        BY <3>1
      <4>2. l \in BOOLEAN /\ (l => accounts[b].listed)
        OBVIOUS
      <4> HIDE DEF l
      <4> QED BY <3>2, <4>1, <4>2 DEF Rows
    <3>4. accounts[b].listed => accounts[b].active
      BY <3>2 DEF IInv, ListedIsActive, Has
    <3>5. accounts'[b] = row /\ \A c \in Agents : c # b => accounts'[c] = accounts[c]
      BY <2>1, <3>1
    <3> QED BY <3>2, <3>3, <3>4, <3>5 DEF Appears, Has, Eligible, TermsAccepted
  <2>5. CASE Handler
    BY <2>5, HandlerShows
  <2>6. ASSUME NEW b \in Agents, NEW e \in Emails \cup {None}, NEW profile \in Profiles,
               NEW by \in Codes \cup {None}
        PROVE  ~Register(b, e, profile, by)
    BY <2>2 DEF Register
  <2>7. ~UNCHANGED vars /\ ~Expire /\ ~Restart
    BY <2>2 DEF vars, Expire, Restart
  <2>8. ASSUME NEW b \in Agents
        PROVE  ~RotateForced(b) /\ \A op \in Requested : ~Authenticate(b, op)
    BY <2>2 DEF RotateForced, Rotate, Authenticate
  <2>9. ASSUME NEW r \in waiting
        PROVE  ~Resolve(r) /\ ~Refuse(r) /\ ~ResendLink(r) /\ ~RotateOwn(r)
    BY <2>2 DEF Resolve, Refuse, ResendLink, RotateOwn, Rotate
  <2>10. /\ \A t \in inbox : ~VerifyEmail(t)
         /\ \A t \in mail : ~Deliver(t) /\ ~MailFails(t)
    BY <2>2 DEF VerifyEmail, Deliver, MailFails
  <2> QED BY <2>3, <2>4, <2>5, <2>6, <2>7, <2>8, <2>9, <2>10 DEF Next
<1> HIDE DEF A
<1>2. Spec => [][A]_vars
  BY <1>1, Invariant, PTL DEF Spec
<1> QED BY <1>2 DEF ShownByOwnAct, A

-----------------------------------------------------------------------------
(* Rewards *)

\* The payout of a has been made, and the row that remembers it has not been written.
Unrecorded(a) == "record" \in due /\ "payout" \notin due /\ PaymentMade /\ hand.agent = a

\* The row of a completion has been written, and its credit has not.
Owed(a) == "credit" \in due /\ "record" \notin due /\ hand.agent = a

\* Every credit, owed ones included, has its completion; a referral that is open has led
\* only to payouts that a crash kept from being recorded, and one that is closed to one more.
OneReward(a) ==
  /\ credits[a] + (IF Owed(a) THEN 1 ELSE 0) <= Refusals(a) + (IF Closed(a) THEN 1 ELSE 0)
  /\ payouts[a] <= 1 + crashes
  /\ ~Closed(a) /\ ~Unrecorded(a) => payouts[a] <= crashes

\* What a completion under way knows: its referral is open until the row is written, and
\* a payout is not refused.  A referral is recorded once, when the account is new.
CompletionOK ==
  /\ "payout" \in due => "record" \in due /\ PaymentMade
  /\ "record" \in due => "credit" \in due /\ ~Closed(hand.agent)
  /\ "referral" \in due =>
       /\ referral[hand.agent] = None
       /\ "record" \notin due /\ "credit" \notin due

Rewards ==
  /\ CompletionOK
  /\ \A a \in Agents : OneReward(a) /\ (~Has(a) => referral[a] = None)

RewardWrites == {"referral", "payout", "record", "credit"}

\* Steps that have nothing to do with rewards.
LEMMA OtherStep ==
  ASSUME Rewards, UNCHANGED <<referral, money, settings, crashes>>,
         \A a \in Agents : Has(a) => Has(a)',
         \A w \in RewardWrites : w \in due' <=> w \in due,
         (\E w \in RewardWrites : w \in due) => hand' = hand
  PROVE  Rewards'
<1>1. CompletionOK'
  BY DEF Rewards, CompletionOK, Closed, RewardWrites, money, PaymentMade
<1>2. \A a \in Agents : OneReward(a)'
  <2>1. \A a : (Unrecorded(a)' <=> Unrecorded(a)) /\ (Owed(a)' <=> Owed(a))
    BY DEF Unrecorded, Owed, RewardWrites, PaymentMade
  <2> QED BY <2>1 DEF Rewards, OneReward, Closed, Refusals, money
<1> QED BY <1>1, <1>2 DEF Rewards, Has

\* A completion begins.
LEMMA CompletionBegins ==
  ASSUME IInv, Rewards, UNCHANGED <<referral, money, settings, crashes>>,
         \A a \in Agents : Has(a) => Has(a)',
         due \cap RewardWrites = {},
         NEW a \in Agents, NEW row,
         due' \cap RewardWrites = Completion(a, row),
         due' # {} => hand'.agent = a
  PROVE  Rewards'
<1>1. /\ "payout" \in due' => "record" \in due' /\ PaymentMade
      /\ "record" \in due' <=> "credit" \in due'
      /\ "record" \in due' => ~Closed(a) /\ hand'.agent = a
      /\ "referral" \notin due'
  <2>1. \A w \in RewardWrites : w \in due' <=> w \in Completion(a, row)
    OBVIOUS
  <2>2. /\ "payout" \in Completion(a, row) => "record" \in Completion(a, row) /\ PaymentMade
        /\ "record" \in Completion(a, row) <=> "credit" \in Completion(a, row)
        /\ "record" \in Completion(a, row) => ~Closed(a)
        /\ "referral" \notin Completion(a, row)
    BY DEF Completion, Closed
  <2> QED BY <2>1, <2>2 DEF RewardWrites
<1>2. CompletionOK'
  BY <1>1 DEF CompletionOK, Closed, PaymentMade
<1>3. \A b \in Agents : OneReward(b)'
  <2>1. \A b : ~Unrecorded(b) /\ ~Owed(b)
    BY DEF Unrecorded, Owed, RewardWrites
  <2>2. \A b : ~Owed(b)'
    BY <1>1 DEF Owed
  <2> QED BY <2>1, <2>2 DEF Rewards, OneReward, Closed, Refusals, money
<1> QED BY <1>2, <1>3 DEF Rewards, Has

\* A handler without rewards begins.
LEMMA OtherBegins ==
  ASSUME Rewards, Idle, UNCHANGED <<accounts, referral, money, settings, crashes>>,
         due' \cap RewardWrites = {}
  PROVE  Rewards'
  BY OtherStep DEF Idle, Has

LEMMA RegisterRewards ==
  ASSUME IInv, Rewards, NEW a \in Agents, NEW e \in Emails \cup {None}, NEW profile \in Profiles,
         NEW by \in Codes \cup {None}, Register(a, e, profile, by)
  PROVE  Rewards'
<1>1. /\ Idle /\ ~Has(a) /\ hand'.agent = a
      /\ due' \subseteq {"account", "referral", "link"}
      /\ UNCHANGED <<accounts, referral, money, settings, crashes>>
  BY DEF Register
<1>2. CompletionOK'
  BY <1>1 DEF Rewards, CompletionOK
<1>3. \A b \in Agents : OneReward(b)'
  <2>1. \A b : ~Unrecorded(b) /\ ~Owed(b) /\ ~Owed(b)'
    BY <1>1 DEF Unrecorded, Owed, Idle
  <2> QED BY <1>1, <2>1 DEF Rewards, OneReward, Closed, Refusals, money
<1> QED BY <1>1, <1>2, <1>3 DEF Rewards, Has

LEMMA RecordReferralRewards ==
  ASSUME IInv, Rewards, RecordReferral
  PROVE  Rewards'
<1>1. /\ "referral" \in due /\ hand.agent \in Agents /\ accounts[hand.agent] # None
      /\ referral[hand.agent] = None /\ "record" \notin due /\ "credit" \notin due
      /\ "payout" \notin due
      /\ due' = due \ {"referral"}
      /\ UNCHANGED <<accounts, money, settings, crashes>>
  BY DEF RecordReferral, Done, IInv, JobOK, Hands, AccountOK, Has, Rewards, CompletionOK
<1>2. PICK new : /\ new.status = "pending_onboarding" /\ new.refused = 0
                 /\ referral' = [referral EXCEPT ![hand.agent] = new]
  BY DEF RecordReferral
<1>3. CompletionOK'
  BY <1>1 DEF CompletionOK
<1>4. \A b \in Agents : (Closed(b)' <=> Closed(b)) /\ Refusals(b)' = Refusals(b)
  BY <1>1, <1>2 DEF Closed, Refusals, IInv, TypeOK
<1>5. \A b \in Agents : OneReward(b)'
  <2>1. \A b : ~Unrecorded(b) /\ ~Owed(b) /\ ~Owed(b)'
    BY <1>1 DEF Unrecorded, Owed
  <2> QED BY <1>1, <1>4, <2>1 DEF Rewards, OneReward, money
<1>6. \A b \in Agents : ~Has(b)' => referral'[b] = None
  BY <1>1, <1>2 DEF Rewards, Has, IInv, TypeOK
<1> QED BY <1>1, <1>3, <1>5, <1>6 DEF Rewards

LEMMA PayoutRewards ==
  ASSUME IInv, Rewards, CreatePayout
  PROVE  Rewards'
<1>1. /\ "payout" \in due /\ "record" \in due /\ hand.agent \in Agents /\ ~Closed(hand.agent)
      /\ payouts' = [payouts EXCEPT ![hand.agent] = @ + 1]
      /\ due' = due \ {"payout"} /\ hand' = hand /\ PaymentMade
      /\ UNCHANGED <<accounts, referral, credits, settings, crashes>>
  BY DEF CreatePayout, Done, IInv, JobOK, Hands, Rewards, CompletionOK
<1>2. CompletionOK'
  BY <1>1 DEF Rewards, CompletionOK, Closed
<1>3. ASSUME NEW b \in Agents PROVE OneReward(b)'
  <2>1. ~Unrecorded(b) /\ OneReward(b) /\ (Owed(b)' <=> Owed(b))
    BY <1>1 DEF Unrecorded, Owed, Rewards
  <2>2. CASE b = hand.agent
    <3>1. payouts'[b] = payouts[b] + 1 /\ payouts[b] <= crashes /\ payouts[b] \in Nat
          /\ crashes \in Nat
      BY <1>1, <2>1, <2>2 DEF OneReward, IInv, TypeOK
    <3>2. Unrecorded(b)'
      BY <1>1, <2>2 DEF Unrecorded, PaymentMade
    <3> QED BY <1>1, <2>1, <2>2, <3>1, <3>2 DEF OneReward, Closed, Refusals
  <2>3. CASE b # hand.agent
    <3>1. payouts'[b] = payouts[b]
      BY <1>1, <2>3 DEF IInv, TypeOK
    <3> QED BY <1>1, <2>1, <3>1 DEF OneReward, Closed, Refusals, Unrecorded
  <2> QED BY <2>2, <2>3
<1> QED BY <1>1, <1>2, <1>3 DEF Rewards, Has

LEMMA RecordRewards ==
  ASSUME IInv, Rewards, RecordCompletion
  PROVE  Rewards'
<1>1. PICK a \in Agents :
        /\ hand.agent = a
        /\ "record" \in due /\ "payout" \notin due /\ "referral" \notin due /\ "credit" \in due
        /\ ~Closed(a) /\ referral[a] \in Referrals
        /\ due' = due \ {"record"} /\ hand' = hand
        /\ UNCHANGED <<accounts, money, settings, crashes>>
  <2>1. hand.agent \in Agents /\ referral[hand.agent] \in Referrals
    BY DEF RecordCompletion, IInv, JobOK, Hands, TypeOK, ReferralOK
  <2> QED BY <2>1 DEF RecordCompletion, Done, Rewards, CompletionOK
<1>2. PICK new : /\ referral' = [referral EXCEPT ![a] = new]
                 /\ \/ new = [referral[a] EXCEPT !.status = "payout_pending"]
                    \/ /\ new = [referral[a] EXCEPT !.status = "onboarding_complete",
                                                    !.refused = @ + 1]
                       /\ ~PaymentMade
  BY <1>1 DEF RecordCompletion
<1>3. /\ new # None /\ new.refused \in Nat /\ referral[a].refused \in Nat
      /\ \/ new.status = "payout_pending" /\ new.refused = referral[a].refused
         \/ /\ new.status = "onboarding_complete" /\ new.refused = referral[a].refused + 1
            /\ ~PaymentMade
  <2>1. /\ new \in Referrals /\ referral[a].refused \in Nat
        /\ \/ new.status = "payout_pending" /\ new.refused = referral[a].refused
           \/ new.status = "onboarding_complete" /\ new.refused = referral[a].refused + 1
    BY <1>1, <1>2, CompletedReferral
  <2>2. new.refused \in Nat
    BY <2>1 DEF Referrals
  <2>3. ~PaymentMade \/ new.status = "payout_pending"
    <3>1. CASE new = [referral[a] EXCEPT !.status = "payout_pending"]
      BY <1>1, <3>1 DEF Referrals
    <3> QED BY <1>2, <3>1
  <2> QED BY <2>1, <2>2, <2>3, NoneAssumption
<1>4. /\ referral'[a] = new /\ referral[a] # None
      /\ \A b \in Agents \ {a} : referral'[b] = referral[b]
  BY <1>1, <1>2, NoneAssumption DEF IInv, TypeOK
<1>5. CompletionOK'
  BY <1>1 DEF CompletionOK
<1>6. ASSUME NEW b \in Agents PROVE OneReward(b)'
  <2>1. OneReward(b) /\ credits[b] \in Nat /\ payouts[b] \in Nat /\ crashes \in Nat
    BY DEF Rewards, IInv, TypeOK
  <2>2. CASE b = a
    <3>1. ~Owed(a) /\ credits[a] <= Refusals(a) /\ Refusals(a) = referral[a].refused
      BY <1>1, <1>3, <1>4, <2>1, <2>2 DEF Owed, OneReward, Refusals
    <3>2. ~PaymentMade => payouts[a] <= crashes
      BY <1>1, <2>1, <2>2 DEF OneReward, Unrecorded
    <3>3. credits' = credits /\ payouts' = payouts /\ crashes' = crashes
      BY <1>1 DEF money
    <3>4. /\ Refusals(a)' = new.refused
          /\ Closed(a)' <=> new.status = "payout_pending"
      BY <1>3, <1>4 DEF Refusals, Closed
    <3> QED BY <1>3, <2>1, <2>2, <3>1, <3>2, <3>3, <3>4 DEF OneReward
  <2>3. CASE b # a
    <3>1. ~Unrecorded(b) /\ ~Owed(b) /\ ~Owed(b)'
      BY <1>1, <2>3 DEF Unrecorded, Owed
    <3>2. (Closed(b)' <=> Closed(b)) /\ Refusals(b)' = Refusals(b)
      BY <1>4, <2>3 DEF Closed, Refusals
    <3> QED BY <1>1, <2>1, <3>1, <3>2 DEF OneReward, money
  <2> QED BY <2>2, <2>3
<1>7. \A b \in Agents : ~Has(b)' => referral'[b] = None
  <2>1. Has(a)
    BY <1>1 DEF IInv, JobOK, AccountOK, RegistrationOK
  <2> QED BY <1>1, <1>4, <2>1 DEF Rewards, Has
<1> QED BY <1>5, <1>6, <1>7 DEF Rewards

LEMMA CreditRewards ==
  ASSUME IInv, Rewards, CreditReferrer
  PROVE  Rewards'
<1>1. PICK a \in Agents :
        /\ hand.agent = a
        /\ "credit" \in due /\ "record" \notin due /\ "payout" \notin due
        /\ "referral" \notin due
        /\ credits' = [credits EXCEPT ![a] = @ + 1]
        /\ due' = due \ {"credit"}
        /\ UNCHANGED <<accounts, referral, payouts, settings, crashes>>
  BY DEF CreditReferrer, Done, IInv, JobOK, Hands, Rewards, CompletionOK
<1>2. CompletionOK'
  BY <1>1 DEF CompletionOK
<1>3. ASSUME NEW b \in Agents PROVE OneReward(b)'
  <2>1. ~Unrecorded(b) /\ OneReward(b) /\ ~Owed(b)' /\ credits[b] \in Nat
    BY <1>1 DEF Unrecorded, Owed, Rewards, IInv, TypeOK
  <2>2. credits'[b] = IF b = a THEN credits[b] + 1 ELSE credits[b]
    BY <1>1 DEF IInv, TypeOK
  <2>3. Owed(b) <=> b = a
    BY <1>1 DEF Owed
  <2> QED BY <1>1, <2>1, <2>2, <2>3 DEF OneReward, Closed, Refusals
<1> QED BY <1>1, <1>2, <1>3 DEF Rewards, Has

LEMMA RestartRewards ==
  ASSUME IInv, Rewards, Restart
  PROVE  Rewards'
<1>1. /\ due' = {} /\ crashes' = crashes + 1 /\ crashes \in Nat
      /\ UNCHANGED <<accounts, referral, money>>
  BY DEF Restart, IInv, TypeOK
<1>2. CompletionOK'
  BY <1>1 DEF CompletionOK
<1>3. ASSUME NEW b \in Agents PROVE OneReward(b)'
  <2>1. OneReward(b) /\ payouts[b] \in Nat /\ credits[b] \in Nat
    BY DEF Rewards, IInv, TypeOK
  <2>2. ~Owed(b)'
    BY <1>1 DEF Owed
  <2>3. Refusals(b) \in Nat
    BY DEF Refusals, IInv, TypeOK, Referrals
  <2> QED BY <1>1, <2>1, <2>2, <2>3 DEF OneReward, Closed, Refusals, money
<1> QED BY <1>1, <1>2, <1>3 DEF Rewards, Has

LEMMA HandlerRewards ==
  ASSUME IInv, Rewards, Handler
  PROVE  Rewards'
<1>1. CASE MarkVerified
  <2>1. PICK a, row :
          /\ a \in Agents
          /\ hand.agent = a /\ accounts' = [accounts EXCEPT ![a] = row]
          /\ row = [accounts[a] EXCEPT !.verified = TRUE]
          /\ due' = Completion(a, row) /\ hand' = IF due' = {} THEN None ELSE hand
          /\ due = {"verified"}
          /\ UNCHANGED <<referral, money, settings, crashes>>
    <3>1. hand.agent \in Agents
      BY <1>1 DEF MarkVerified, IInv, JobOK, Hands
    <3> QED BY <1>1, <3>1 DEF MarkVerified, IInv, JobOK, VerificationOK
  <2>2. row # None
    <3>1. accounts[a] \in Rows
      BY <2>1 DEF IInv, TypeOK, JobOK, AccountOK, Has
    <3>2. row \in Rows
      BY <2>1, <3>1 DEF Rows
    <3> QED BY <3>2, NoneAssumption
  <2>3. \A b \in Agents : Has(b) => Has(b)'
    BY <2>1, <2>2 DEF Has, IInv, TypeOK
  <2>4. due' \cap RewardWrites = Completion(a, row)
    BY <2>1 DEF Completion, RewardWrites
  <2>5. due \cap RewardWrites = {} /\ (due' # {} => hand'.agent = a)
    BY <2>1 DEF RewardWrites
  <2> QED BY <2>1, <2>3, <2>4, <2>5, CompletionBegins
<1>2. CASE AppendAccount \/ WritePrefix \/ IssueLink \/ IssueKey
  <2>1. PICK w : /\ w \notin RewardWrites /\ Done(w)
                 /\ UNCHANGED <<referral, money, settings, crashes>>
    BY <1>2 DEF AppendAccount, WritePrefix, IssueLink, IssueKey, RewardWrites
  <2>2. \A v \in RewardWrites : v \in due' <=> v \in due
    BY <2>1 DEF Done
  <2>3. (\E v \in RewardWrites : v \in due) => hand' = hand
    BY <2>1, <2>2 DEF Done
  <2>4. \A a \in Agents : Has(a) => Has(a)'
    <3>1. CASE AppendAccount
      <4>1. PICK new : new = [email |-> hand.email, verified |-> FALSE, terms |-> settings.terms,
                              profile |-> hand.profile, listed |-> FALSE, active |-> TRUE,
                              prefix |-> 1]
                       /\ accounts' = [accounts EXCEPT ![hand.agent] = new]
        BY <3>1 DEF AppendAccount
      <4>2. ~Has(hand.agent)
        BY <3>1 DEF AppendAccount, IInv, JobOK, RegistrationOK
      <4> QED BY <4>1, <4>2 DEF Has, IInv, TypeOK
    <3>2. CASE WritePrefix
      <4>1. PICK a, row : /\ a \in Agents /\ row = [accounts[a] EXCEPT !.prefix = keys[a].issued]
                          /\ accounts' = [accounts EXCEPT ![a] = row] /\ keys[a].issued \in Nat
                          /\ Has(a)
        <5>1. hand.agent \in Agents /\ Has(hand.agent)
          BY <3>2 DEF WritePrefix, IInv, JobOK, Hands, AccountOK, RegistrationOK
        <5> QED BY <3>2, <5>1 DEF WritePrefix, IInv, TypeOK
      <4>2. row \in Rows
        <5>1. accounts[a] \in Rows
          BY <4>1 DEF IInv, TypeOK, Has
        <5> QED BY <4>1, <5>1 DEF Rows
      <4> QED BY <4>1, <4>2, NoneAssumption DEF Has, IInv, TypeOK
    <3>3. CASE IssueLink \/ IssueKey
      BY <3>3 DEF IssueLink, IssueKey, Has
    <3> QED BY <1>2, <3>1, <3>2, <3>3
  <2> QED BY <2>1, <2>2, <2>3, <2>4, OtherStep
<1> QED BY <1>1, <1>2, RecordReferralRewards, PayoutRewards, RecordRewards, CreditRewards
        DEF Handler

LEMMA NextRewards ==
  ASSUME IInv, Rewards, [Next]_vars
  PROVE  Rewards'
<1>1. ASSUME NEW r \in waiting, NEW p \in Patches, PatchProfile(r, p)
      PROVE  Rewards'
  <2>1. PICK a, row :
          /\ a \in Agents /\ Idle
          /\ accounts' = [accounts EXCEPT ![a] = row] /\ row = Patched(accounts[a], p) /\ Has(a)
          /\ due' = Completion(a, row)
                     \cup {w \in {"link"} : p.email # Keep /\ row.email # None /\ ~row.verified}
          /\ hand' = IF due' = {} THEN None ELSE Holding(a)
          /\ UNCHANGED <<referral, money, settings, crashes>>
    <3>1. r.agent \in Agents
      BY DEF IInv, TypeOK, Requests
    <3> QED BY <1>1, <3>1 DEF PatchProfile, Patchable
  <2>2. row # None
    <3>1. accounts[a] \in Rows /\ settings \in AllSettings /\ p \in AllPatches
      BY <2>1, ConstantsAssumption DEF IInv, TypeOK, Has
    <3> QED BY <2>1, <3>1, PatchedType, NoneAssumption
  <2>3. \A b \in Agents : Has(b) => Has(b)'
    BY <2>1, <2>2 DEF Has, IInv, TypeOK
  <2>4. due' \cap RewardWrites = Completion(a, row)
    <3>1. Completion(a, row) \subseteq {"payout", "record", "credit"}
      BY CompletionType
    <3> QED BY <2>1, <3>1 DEF RewardWrites
  <2>5. due \cap RewardWrites = {} /\ (due' # {} => hand'.agent = a)
    BY <2>1, HoldingType DEF Idle
  <2> QED BY <2>1, <2>3, <2>4, <2>5, CompletionBegins
<1>2. CASE \/ \E r \in waiting : ResendLink(r) \/ RotateOwn(r)
           \/ \E a \in Agents : RotateForced(a)
           \/ \E t \in inbox : VerifyEmail(t)
  <2>1. /\ Idle /\ UNCHANGED <<accounts, referral, money, settings, crashes>>
        /\ due' \cap RewardWrites = {}
    BY <1>2 DEF ResendLink, RotateOwn, RotateForced, Rotate, VerifyEmail, RewardWrites
  <2> QED BY <2>1, OtherBegins
<1>3. ASSUME NEW a \in Agents, NEW active \in BOOLEAN, SetStatus(a, active) PROVE Rewards'
  <2>1. PICK row : /\ row = [accounts[a] EXCEPT !.active = active, !.listed = @ /\ active]
                   /\ accounts' = [accounts EXCEPT ![a] = row]
    <3>1. accounts' = [accounts EXCEPT ![a] =
                         [accounts[a] EXCEPT !.active = active, !.listed = @ /\ active]]
      BY <1>3 DEF SetStatus
    <3> QED BY <3>1
  <2>2. row \in Rows
    <3>1. accounts[a] \in Rows
      BY <1>3 DEF SetStatus, IInv, TypeOK, Has
    <3> DEFINE l == accounts[a].listed /\ active
    <3>2. row = [accounts[a] EXCEPT !.active = active, !.listed = l]
      BY <2>1
    <3>3. l \in BOOLEAN
      OBVIOUS
    <3> HIDE DEF l
    <3> QED BY <3>1, <3>2, <3>3 DEF Rows
  <2>3. \A b \in Agents : Has(b) => Has(b)'
    BY <2>1, <2>2, NoneAssumption DEF Has, IInv, TypeOK
  <2>4. UNCHANGED <<referral, money, job, settings, crashes>>
    BY <1>3 DEF SetStatus
  <2> QED BY <2>3, <2>4, OtherStep DEF job
<1>4. CASE \/ \E a \in Agents, op \in Requested : Authenticate(a, op)
           \/ \E r \in waiting : Resolve(r) \/ Refuse(r)
           \/ \E t \in mail : Deliver(t) \/ MailFails(t)
           \/ Expire \/ UNCHANGED vars
  <2>1. UNCHANGED <<accounts, referral, money, job, settings, crashes>>
    BY <1>4 DEF Authenticate, Resolve, Refuse, Deliver, MailFails, Expire, vars
  <2> QED BY <2>1, OtherStep DEF job, Has
<1> QED BY <1>1, <1>2, <1>3, <1>4, RegisterRewards, HandlerRewards, RestartRewards DEF Next

\* Whatever the environments refuse, a referral is credited once for each completion
\* that is on record, and paid once but for what crashes repeat, in whatever order
\* addresses are verified, profiles updated, terms changed and accounts suspended.
THEOREM ReferralsRewardedOnce == Spec => []RewardedOnce
<1>1. Init => Rewards
  <2> SUFFICES ASSUME Init PROVE Rewards
    OBVIOUS
  <2>1. CompletionOK
    BY DEF Init, CompletionOK
  <2>2. \A a \in Agents : OneReward(a) /\ referral[a] = None
    BY DEF Init, OneReward, Closed, Refusals, Unrecorded, Owed
  <2> QED BY <2>1, <2>2 DEF Rewards
<1>2. IInv /\ Rewards /\ [Next]_vars => Rewards'
  BY NextRewards
<1>3. IInv /\ Rewards => RewardedOnce
  <2> SUFFICES ASSUME IInv, Rewards, NEW a \in Agents
               PROVE  /\ payouts[a] <= 1 + crashes
                      /\ credits[a] <= Refusals(a) + (IF Closed(a) THEN 1 ELSE 0)
    BY DEF RewardedOnce
  <2>1. credits[a] \in Nat /\ Refusals(a) \in Nat
    BY DEF IInv, TypeOK, Refusals, Referrals
  <2> QED BY <2>1 DEF Rewards, OneReward
<1> QED BY <1>1, <1>2, <1>3, Invariant, PTL DEF Spec
=============================================================================
