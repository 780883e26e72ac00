-------------------------- MODULE LearningSignals --------------------------
(***************************************************************************)
(* What the learning loop makes of the logs (arclya2a/learning and         *)
(* arclya2a/security): issues, recommendations and learned patterns, who   *)
(* they are attributed to, and the changes to prompts that follow.         *)
(* Everything here is a function of the logs; PromptLearning has the steps.*)
(*                                                                         *)
(* A recommendation is named by the issue it comes from, its text is as    *)
(* long as its line (Line).  Logs are shorter than the windows the code    *)
(* reads (the last 50 to 600 rows).                                        *)
(***************************************************************************)
EXTENDS Integers, FiniteSets, Functions

CONSTANTS
  Partners,       \* partner_id of sandbox partners and sellers
  Patterns,       \* patterns of the injection scanner
  Events,         \* rows the logs may hold
  MinActors,      \* ARCLYA_ISOLATION_MIN_ACTORS
  Campaign,       \* recommendations from the figures of the campaign, one for each
  OwnWords,       \* recommendations the model may think of
  Line,           \* characters of a recommendation with its bullet and its line break
  None            \* no partner, no signal

ASSUME SignalsAssumption ==
  /\ MinActors \in Nat \ {0}
  /\ IsFiniteSet(Events)
  /\ Cardinality(Patterns) <= 3     \* suggested_patterns keeps the first three
  /\ (Patterns \cup Campaign \cup OwnWords) \cap
       {"sandbox_suspicious_partner", "sandbox_repeat_offender", "sandbox_tool_block"} = {}

-----------------------------------------------------------------------------
(* The logs: how often each row is in them *)

\* tool_executions.jsonl, closed_deals.jsonl, feedback, injection_scan_events.jsonl,
\* the tool_gate_blocked records of the audit log, security_events.jsonl.
Row == [kind |-> "", outcome |-> "", limited |-> FALSE, early |-> FALSE, margin |-> 0,
        attributed |-> FALSE, code |-> "", partner |-> None, patterns |-> {}]

Logs == [Events -> Nat]

Count(log, S) == Cardinality(UNION {{e} \X (1..log[e]) : e \in S})
Kind(kind) == {e \in Events : e.kind = kind}
NumberOfDeals(log) == Count(log, Kind("deal"))

\* The members of a set of issues whose condition holds.
Found(conditions) == {i \in DOMAIN conditions : conditions[i]}

\* Shares above 20 and 30 percent; early: the closer mailed in mid-negotiation.
ToolIssues(log) ==
  LET tools == Kind("tool")
      total == Count(log, tools)
      having(outcome) == Count(log, {e \in tools : e.outcome = outcome})
  IN  Found([tool_high_failure_rate |-> 5 * having("failed") > total,
             tool_high_skip_rate |-> 10 * having("skipped") > 3 * total,
             tool_rate_limited |-> Count(log, {e \in tools : e.limited}) >= 2,
             tools_called_too_early |-> Count(log, {e \in tools : e.early}) > 0])

BillingIssues(log) ==
  LET deals == {e \in Kind("deal") : log[e] > 0}
      margins == FoldFunctionOnSet(+, 0, [e \in Events |-> log[e] * e.margin], deals)
  IN  Found([billing_no_deals |-> deals = {},
             billing_low_margin |-> margins < 15 * NumberOfDeals(log),
             billing_missing_attribution |-> \E e \in deals : ~e.attributed])

FeedbackIssues(log) ==
  Found([agent_demand_human_closing |->
           Count(log, {e \in Kind("feedback") : e.code = "wants_human_closing"}) >= 2])

Blocking == {"reject", "disqualify"}
Scans == {e \in Kind("scan") : e.outcome \in Blocking \cup {"suspicious"}}
ScansOf(p) == {e \in Scans : e.partner = p}
Repeated(log) == {x \in Patterns : Count(log, {e \in Scans : x \in e.patterns}) >= 2}
RiskyPartners(log) == {p \in Partners : Count(log, ScansOf(p)) >= 2}

ScanIssues(log) ==
  Found([injection_scan_rejection |->
           Count(log, {e \in Scans : e.outcome \in Blocking}) >= 2,
         injection_scan_disqualify |->
           Count(log, {e \in Scans : e.outcome = "disqualify"}) > 0,
         repeated_injection_pattern |-> Repeated(log) # {},
         high_risk_partner |-> RiskyPartners(log) # {}])

GateIssues(log) ==
  LET blocked(code) == Count(log, {e \in Kind("gate") : e.code = code}) > 0
  IN  Found([tool_gate_violation |-> Count(log, Kind("gate")) >= 2,
             tool_gate_partner_command |-> blocked("PARTNER_REQUEST_NOT_GATE"),
             tool_gate_premature |-> blocked("COMMITMENT_NOT_CONFIRMED"),
             suspicious_partner_trust_block |-> blocked("SUSPICIOUS_PARTNER_TRUST"),
             sandbox_tool_block |-> blocked("SANDBOX_HIGH_RISK_TOOL")])

Suspicious == {"blocked_tool", "blocked_path", "rate_limit", "validation_failure",
               "emergency_stop"}
Offenders(log, n) ==
  {p \in Partners : Count(log, {e \in Kind("sandbox") : e.partner = p}) >= n}

SandboxIssues(log) ==
  Found([sandbox_suspicious_partner |->
           Count(log, {e \in Kind("sandbox") : e.code \in Suspicious}) >= 3,
         sandbox_repeat_offender |-> Offenders(log, 2) # {}])

\* The audit log has records under these actions only if something writes them.
StopIssues(log) == Found([emergency_stop_security |-> Count(log, Kind("emergency_stop")) > 0])

-----------------------------------------------------------------------------
(* Reports of demo runs, as the route or the script hands them in *)

Reports ==
  [onboarded : BOOLEAN, skips : BOOLEAN, qualified : BOOLEAN, closed : BOOLEAN,
   committed : BOOLEAN, linked : BOOLEAN, tools : {"none", "done", "failed"},
   turns : Nat, objections : BOOLEAN, verified : BOOLEAN]

\* What both analyzers look for in the phases of a report.
PhaseIssues(report) ==
  Found([onboarding_incomplete |-> ~report.onboarded,
         recruiter_retriggered_onboarding |-> ~report.skips,
         closer_no_commitment |-> ~(report.closed /\ report.committed),
         demo_tool_failures |-> report.tools = "failed",
         demo_no_tools_on_close |-> report.closed /\ report.tools = "none",
         tools_called_before_close |-> ~report.closed /\ report.tools # "none"])

NegotiationIssues(report) ==
  Found([negotiation_too_short |-> report.turns < 3 /\ ~report.committed,
         objections_not_documented |-> ~report.objections /\ ~report.committed])

\* What analyze_demo_report adds of its own.
OutcomeIssues(report) ==
  Found([recruiter_weak_qualification |-> ~report.qualified,
         closer_missing_cta |-> report.closed /\ ~report.linked,
         guardrail_chain_broken |-> ~report.verified])

\* Issues the execution analyzer names without a recommendation.
Wordless == {"onboarding_incomplete", "recruiter_retriggered_onboarding"}

\* prompt_targets[0] of a report's analysis.
ReportTarget(issues) ==
  IF "onboarding_incomplete" \in issues THEN "onboarding_prompt"
  ELSE IF issues \cap {"recruiter_retriggered_onboarding", "recruiter_weak_qualification"} # {}
       THEN "recruiter_prompt" ELSE "closer_prompt"

-----------------------------------------------------------------------------
(* Isolation: one partner must not teach the prompts everyone shares *)

SandboxOnly == {"sandbox_suspicious_partner", "sandbox_repeat_offender", "sandbox_tool_block"}
PartnerScoped == {"high_risk_partner", "sandbox_repeat_offender"}

ActorsFor(log, issue) ==
  IF issue = "high_risk_partner" THEN RiskyPartners(log) ELSE Offenders(log, 2)

Isolations == [allows : BOOLEAN, actors : SUBSET Partners]

\* PATCH_TEMPLATES: the issues there is a text for.
Templates ==
  {"tools_called_before_close", "tools_called_too_early", "tool_high_failure_rate",
   "demo_no_tools_on_close", "closer_no_commitment", "negotiation_too_short",
   "objections_not_documented", "demo_tool_failures", "billing_missing_attribution",
   "onboarding_incomplete", "recruiter_retriggered_onboarding", "injection_scan_rejection",
   "injection_scan_disqualify", "tool_gate_violation", "tool_gate_partner_command",
   "tool_gate_premature", "sandbox_suspicious_partner", "sandbox_tool_block",
   "emergency_stop_security", "high_risk_partner", "suspicious_partner_trust_block"}

\* All that the analyzers find.
Issues ==
  Templates \cup
    {"tool_high_skip_rate", "tool_rate_limited", "billing_no_deals", "billing_low_margin",
     "agent_demand_human_closing", "repeated_injection_pattern", "sandbox_repeat_offender",
     "recruiter_weak_qualification", "closer_missing_cta", "guardrail_chain_broken"}

\* What a signal may recommend once isolation has taken the sandbox out.
Recommendations == (Issues \ SandboxOnly) \cup {"demo_passed"} \cup Campaign \cup OwnWords

\* Prompts, and the file of learned patterns.
Targets == {"closer_prompt", "onboarding_prompt", "recruiter_prompt", "outreach_worker",
            "injection_patterns"}

\* Only the merged signal of a meta_optimizer chain may name issues nobody else knows.
SignalsNaming(issues) ==
  [issues : SUBSET issues, recs : SUBSET Recommendations, patterns : SUBSET Patterns,
   target : Targets, isolation : Isolations \cup {None}]

Signals == SignalsNaming(Issues)

\* Security issues whose own recommendation holds the words the filter looks for.
Prefixed == {"injection_scan_rejection", "injection_scan_disqualify", "tool_gate_violation",
             "repeated_injection_pattern", "high_risk_partner", "tool_gate_partner_command",
             "tool_gate_premature", "emergency_stop_security"}

\* _filter_recommendations: those of global issues that have their words; where no words
\* are found, as many from the front as there are issues, whoever they are from.
\* Execution issues have no words and all stay; a trust block has words its
\* recommendation lacks: that of a single partner comes before it, the sandbox's after.
Filtered(recs, global) ==
  IF global = {} THEN {}
  ELSE IF recs \cap global \cap Prefixed # {} THEN recs \cap global \cap Prefixed
  ELSE IF "high_risk_partner" \in recs THEN {"high_risk_partner"}
  ELSE recs \ SandboxOnly

\* The issues that every prompt may learn from.
Global(log, issues) ==
  {i \in issues : /\ i \notin SandboxOnly
                  /\ i \in PartnerScoped => Cardinality(ActorsFor(log, i)) >= MinActors}

\* apply_learning_signal_isolation: what is left of a signal, and whom it is attributed to.
Isolated(log, issues, recs, patterns, target, actors) ==
  LET global == Global(log, issues)
  IN  [issues |-> global, recs |-> Filtered(recs, global),
       patterns |-> patterns, target |-> target,
       isolation |-> [allows |-> global # {}, actors |-> actors]]

ExecutionSignal(log, report) ==
  LET phases == IF report = None THEN {} ELSE PhaseIssues(report)
      talks == IF report = None THEN {} ELSE NegotiationIssues(report)
      issues == ToolIssues(log) \cup BillingIssues(log) \cup phases \cup talks
                  \cup FeedbackIssues(log)
  IN  Isolated(log, issues, issues \ Wordless, {}, ReportTarget(phases), {})

SecuritySignal(log) ==
  LET issues == ScanIssues(log) \cup GateIssues(log) \cup SandboxIssues(log) \cup StopIssues(log)
      actors == {p \in Partners : Count(log, ScansOf(p)) > 0} \cup Offenders(log, 1)
  IN  Isolated(log, issues, issues, Repeated(log), "closer_prompt", actors)

\* A demo without fault still recommends to go on like that.
DemoSignal(report) ==
  LET issues == PhaseIssues(report) \cup OutcomeIssues(report)
  IN  [issues |-> issues, recs |-> IF issues = {} THEN {"demo_passed"} ELSE issues,
       patterns |-> {}, isolation |-> None,
       target |-> IF issues = {"guardrail_chain_broken"} THEN "outreach_worker"
                  ELSE ReportTarget(issues)]

NoSignal == [issues |-> {}, recs |-> {}, patterns |-> {}, target |-> "outreach_worker",
             isolation |-> None]
OrNoSignal(signal) == IF signal = None THEN NoSignal ELSE signal

\* The isolation record is the execution signal's, whatever the security signal says.
MergeSecurity(signal, security) ==
  [signal EXCEPT !.issues = @ \cup security.issues, !.recs = @ \cup security.recs,
                 !.patterns = security.patterns,
                 !.target = IF security.issues # {} THEN security.target ELSE @]

MergeDemo(signal, demo) ==
  [signal EXCEPT !.issues = @ \cup OrNoSignal(demo).issues,
                 !.recs = @ \cup OrNoSignal(demo).recs]

\* _validate_meta_optimizer: the latest signals, what the model says (llm), what the
\* campaign's figures recommend, and no isolation record.  The model names the prompt if no
\* signal does.
MergeMeta(execution, security, demo, llm) ==
  LET all == {OrNoSignal(s) : s \in {execution, security, demo}}
  IN  [issues |-> (UNION {s.issues : s \in all}) \cup llm.issues,
       recs |-> (UNION {s.recs : s \in all}) \cup llm.recs \cup Campaign,
       patterns |-> OrNoSignal(security).patterns,
       target |-> IF security # None THEN security.target
                  ELSE IF execution # None THEN execution.target
                  ELSE IF demo # None THEN demo.target ELSE llm.target,
       isolation |-> None]

-----------------------------------------------------------------------------
(* From a signal to changes *)

\* One change: text for an issue, a learned pattern, or recommendations word for word.
Item(issue, of, target) == [issue |-> issue, of |-> of, target |-> target]

TemplateTarget(issue) ==
  CASE issue = "onboarding_incomplete" -> "onboarding_prompt"
    [] issue = "recruiter_retriggered_onboarding" -> "recruiter_prompt"
    [] OTHER -> "closer_prompt"

PatternItems(signal) ==
  IF "repeated_injection_pattern" \notin signal.issues THEN {}
  ELSE {Item("repeated_injection_pattern", {x}, "injection_patterns") : x \in signal.patterns}

\* Which three recommendations come first is left open.
ReinforcementItems(signal) ==
  {Item("reinforcement", of, signal.target) :
     of \in {s \in SUBSET signal.recs :
               Cardinality(s) = IF Cardinality(signal.recs) < 3 THEN Cardinality(signal.recs)
                                ELSE 3}}

\* The alternatives for what one signal is turned into.
ConcreteItems(signal) ==
  LET items == PatternItems(signal)
                 \cup {Item(i, {}, TemplateTarget(i)) : i \in signal.issues \cap Templates}
  IN  IF items # {} \/ signal.recs = {} THEN {items}
      ELSE {{item} : item \in ReinforcementItems(signal)}

\* ISSUE_RISK, as far as low risk goes.
LowRisk == {"reinforcement", "tool_high_skip_rate", "repeated_injection_pattern",
            "sandbox_tool_block"}

\* Mutant: whatever the signal lets through.
AllowedBySignal(isolation, item) ==
  LET known == IF isolation = None THEN [allows |-> TRUE, actors |-> {}] ELSE isolation
  IN  known.allows /\ (item.issue \in PartnerScoped => Cardinality(known.actors) >= MinActors)

\* check_patch_isolation.  Every target is one that all agents share.
AllowedBy(isolation, item) ==
  LET known == IF isolation = None THEN [allows |-> TRUE, actors |-> {}] ELSE isolation
  IN  /\ item.issue \notin SandboxOnly
      /\ known.allows
      /\ item.issue \in PartnerScoped => Cardinality(known.actors) >= MinActors

\* evidence.isolation of a stored change: only template changes keep it.
Evidence(isolation, item) ==
  IF item.issue \in {"reinforcement", "repeated_injection_pattern"} THEN None ELSE isolation

\* Under 150 characters, the last line without a line break.
Short(recs) == FoldFunctionOnSet(+, 0, Line, recs) <= 150

\* compute_patch_confidence >= 0.75 for a low-risk change: a pattern always is, other text
\* where its anchor is in the prompt and, without an issue to back it, when it is short.
Confident(item, prompt) ==
  \/ item.issue = "repeated_injection_pattern"
  \/ /\ prompt.whole
     /\ item.target # "outreach_worker"
     /\ item.issue = "reinforcement" => Short(item.of)
=============================================================================
