--------------------------- MODULE MCAgentAccounts ---------------------------
(* Small instances of AgentAccounts for TLC. *)
EXTENDS AgentAccounts, TLC

CONSTANTS a1, a2, e1, e2, v1, v2

OneAgent == {a1}
TwoAgents == {a1, a2}
OneEmail == {e1}
TwoEmails == {e1, e2}
OneVersion == {v1}
TwoVersions == {v1, v2}
NoCodes == {}
MailRequests == {"patch", "resend"}
KeyRequests == {"patch", "rotate"}
Blank == {FALSE}
Full == {TRUE}
FirstCode == {a1}
Symmetry == Permutations(TwoAgents) \cup Permutations(TwoEmails)

Body == [email |-> Keep, profile |-> Keep, terms |-> FALSE, listed |-> Keep]

\* A new address, an opt-in, an opt-out, an opt-in together with a new address,
\* and an acceptance of the terms.
MailPatches ==
  {[Body EXCEPT !.email = e] : e \in Emails \cup {None}}
    \cup {[Body EXCEPT !.listed = l] : l \in BOOLEAN}
    \cup {[Body EXCEPT !.email = e, !.listed = TRUE] : e \in Emails}
    \cup {[Body EXCEPT !.terms = TRUE]}

\* What an agent does to complete its onboarding, and an opt-out.
ReferralPatches ==
  {[Body EXCEPT !.profile = TRUE], [Body EXCEPT !.listed = TRUE],
   [Body EXCEPT !.listed = FALSE], [Body EXCEPT !.terms = TRUE, !.listed = TRUE]}

Served == [terms |-> v1, verify |-> TRUE, program |-> TRUE, wallet |-> TRUE, enabled |-> TRUE,
           min |-> 5]

\* The terms change, or verification is no longer asked for.
MailSettings == {Served, [Served EXCEPT !.terms = v2], [Served EXCEPT !.verify = FALSE]}

\* The minimum of the code, which is above the reward.
Default == [Served EXCEPT !.min = 10]

\* A minimum that lets the payout pass and one that refuses it, no wallet, or no
\* referral program.
ReferralSettings ==
  {Served, Default, [Served EXCEPT !.wallet = FALSE, !.enabled = FALSE],
   [Served EXCEPT !.program = FALSE]}
DefaultSettings == {Default}
=============================================================================
