-------------------------- MODULE MCPromptLearning --------------------------
(* A small instance of PromptLearning for TLC. *)
EXTENDS PromptLearning, TLC

CONSTANTS p1, p2, x1, t1

TwoPartners == {p1, p2}
OnePattern == {x1}
OneThread == {t1}

SoundDeal == [Row EXCEPT !.kind = "deal", !.margin = 20, !.attributed = TRUE]
UntrackedDeal == [SoundDeal EXCEPT !.attributed = FALSE]
Suspected(p, patterns) == [Row EXCEPT !.kind = "scan", !.outcome = "suspicious",
                                      !.partner = p, !.patterns = patterns]
SandboxTool == [Row EXCEPT !.kind = "gate", !.code = "SANDBOX_HIGH_RISK_TOOL"]

SomeEvents == {SoundDeal, UntrackedDeal, SandboxTool, Suspected(p1, {x1})}
                \cup {Suspected(p, {}) : p \in TwoPartners}
\* A server that starts with empty logs; one that closed a deal without a code, saw one
\* partner use a pattern twice and blocked a tool of the sandbox; one that suspected two
\* partners twice each.
SomeHistories ==
  LET never == [e \in SomeEvents |-> 0]
  IN  {never,
       (UntrackedDeal :> 1) @@ (SandboxTool :> 1) @@ (Suspected(p1, {x1}) :> 2) @@ never,
       [e \in {Suspected(p, {}) : p \in TwoPartners} |-> 2] @@ (SandboxTool :> 1) @@ never}
DealsOnly == {SoundDeal}
\* A demo whose closer got no commitment.
FailedDemo ==
  [onboarded |-> TRUE, skips |-> TRUE, qualified |-> TRUE, closed |-> FALSE,
   committed |-> FALSE, linked |-> FALSE, tools |-> "none", turns |-> 2,
   objections |-> TRUE, verified |-> TRUE]
OneReport == {FailedDemo}
\* Two of the campaign's figures fell short, in 45 characters each.
ShortFigures == {"improve_open_rate", "improve_reply_rate"}
OneThought == {"own_words"}
Lines == [r \in Recommendations |-> IF r \in ShortFigures THEN 45 ELSE 90]
\* The model may name what the sandbox showed it and what needs a review, and add a
\* recommendation of its own.
SomeLlmSignals ==
  {[issues |-> {}, recs |-> {}, target |-> "outreach_worker"],
   [issues |-> {"sandbox_tool_block", "tool_gate_premature"}, recs |-> OneThought,
    target |-> "closer_prompt"]}
=============================================================================
