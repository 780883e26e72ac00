------------------------- MODULE MCPartnerGraduation -------------------------
(* Small instances of PartnerGraduation for TLC. *)
EXTENDS PartnerGraduation, TLC

CONSTANTS q1, q2, c1

OnePartner == {q1}
TwoPartners == {q1, q2}
OneChain == {c1}
LoopOnly == {Loop}
Both == {Loop, Cli}

Perfect == {"onboarding_complete", "profile_saved", "lead_routing_confirmed", "ready_to_send"}
GoodSummaries == {Perfect}
\* A full chain, one that stops after it has onboarded the partner, a recruitment.
MixedSummaries ==
  {Perfect, {"onboarding_complete", "emergency_stop", "ready_to_send"}, {"recruiter_entry"}}

LoopOffences == {"validation_failed", "blocked_path", "rate_limit_exceeded"}
ToolOffence == {"blocked_tool"}
=============================================================================
