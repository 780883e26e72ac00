--------------------------- MODULE MCHandoffChain ---------------------------
(* Small instances of HandoffChain for TLC. *)
EXTENDS HandoffChain, TLC

CONSTANTS c1, c2, s1, d1, d2

TwoChains == {c1, c2}
OneSeller == {s1}
TwoDeals == {d1, d2}
Mail == "gmail.send_followup_email"
Issue == "linear.create_followup_task"
TwoTools == {Mail, Issue}
MailOnly == {Mail}

Whole == [seller |-> s1, whole |-> TRUE]
Part == [seller |-> s1, whole |-> FALSE]

Ask == [entry |-> None, auto |-> TRUE, sandbox |-> FALSE, rehearsal |-> FALSE,
        onboarded |-> FALSE, profile |-> None, warm |-> FALSE, prospect |-> FALSE,
        hostile |-> FALSE, thin |-> FALSE, deal |-> d1]
Warm == [Ask EXCEPT !.onboarded = TRUE, !.profile = Whole, !.warm = TRUE]
Bare == [Warm EXCEPT !.profile = None]

\* What an answer sets in the deal's record of its own.
Sets(fields) == [sets |-> fields, to |-> [onboarded |-> FALSE, profile |-> Part,
                                          warm |-> FALSE, prospect |-> FALSE, draft |-> TRUE]]

\* Warm deals: sound, without its profile, too cheap, another deal, hostile, not onboarded.
WarmRequests ==
  {Warm, Bare, [Warm EXCEPT !.thin = TRUE], [Warm EXCEPT !.deal = d2],
   [Warm EXCEPT !.hostile = TRUE], [Warm EXCEPT !.onboarded = FALSE]}

\* Rehearsals in the sandbox, new sellers, prospects, outreach, and an agent by name.
OtherRequests ==
  {[Warm EXCEPT !.sandbox = TRUE, !.rehearsal = TRUE],
   [Ask EXCEPT !.hostile = TRUE], Ask,
   [Ask EXCEPT !.onboarded = TRUE, !.prospect = TRUE, !.sandbox = TRUE],
   [Ask EXCEPT !.onboarded = TRUE, !.thin = TRUE],
   [Ask EXCEPT !.entry = "meta_optimizer", !.auto = FALSE]}

Close == [Blank EXCEPT !.names = TRUE, !.closed = TRUE, !.sure = TRUE, !.link = "elsewhere",
                       !.tools = <<Mail>>]
Profile == [Blank EXCEPT !.claims = TRUE, !.profile = Whole]

\* Sound answers, answers cut short, answers that break the schema or the scan.
SomeReplies ==
  [agent \in Agents |->
     CASE agent = "closer" ->
            {Close, [Close EXCEPT !.link = None, !.tools = <<>>],
             [Close EXCEPT !.status = "IN_PROGRESS", !.fits = FALSE, !.tools = <<>>,
                           !.updates = Sets({"onboarded", "profile"})]}
       [] agent = "onboarding_specialist" ->
            {Profile, [Profile EXCEPT !.profile = Part, !.updates = Sets({"draft"})]}
       [] agent = "recruiter" -> {[Close EXCEPT !.draft = TRUE, !.tools = <<Issue, Mail>>]}
       [] agent = "outreach_worker" -> {[Blank EXCEPT !.draft = TRUE]}
       [] agent = "profit_guardrail" -> {[Blank EXCEPT !.updates = Sets({"onboarded"})]}
       [] agent = "final_arbiter" -> {[Blank EXCEPT !.passed = TRUE]}
       [] agent = "meta_optimizer" -> {[Blank EXCEPT !.status = "IN_PROGRESS"]}]

\* One chain may get any request; the other closes a deal or onboards a seller.
AllRequests == c1 :> (WarmRequests \cup OtherRequests) @@ c2 :> {Warm, [Ask EXCEPT !.sandbox = TRUE]}
=============================================================================
