---------------------------- MODULE HandoffChain ----------------------------
(***************************************************************************)
(* Chains of hand-offs (arclya2a/orchestrator and what a hop calls:        *)
(* handoff, tools, connectors, billing, pricing, config/product_profile).  *)
(* A request of a seller is worked on in a thread of its own by one agent  *)
(* after the other.  A hop scans what came from outside, reads the product *)
(* profile into its prompt, asks the model, lets the requested tools act,  *)
(* validates the answer and records it.  What chains share are files: the  *)
(* profile template, the closed deals, the logs.                           *)
(***************************************************************************)
EXTENDS Naturals, Sequences, FiniteSets

CONSTANTS
  Chains,         \* requests, each worked on by one chain
  Requests,       \* [Chains -> what its request may say]
  Replies,        \* [Agents -> what the model may answer for an agent]
  Tools,          \* tools of config/tools.json
  Sellers,        \* who offers a product
  Deals,          \* deal_id
  Available,      \* tools whose connector has its credentials
  ForceDryRun,    \* ARCLYA_SANDBOX_FORCE_DRY_RUN
  FastChain,      \* ARCLYA_REHEARSAL_MODE: sandbox chains run one agent
  MaxAttempts,    \* ARCLYA_TOOL_MAX_RETRIES
  MaxCrashes,     \* bound: how often the server dies
  None,           \* no profile, no link, no agent
  Torn            \* the template was truncated or overwritten in part

Agents == {"onboarding_specialist", "recruiter", "outreach_worker", "closer",
           "profit_guardrail", "final_arbiter", "meta_optimizer"}
Scanned == {"onboarding_specialist", "closer"}
Gated == {"closer", "recruiter", "outreach_worker"}
SandboxBlocked ==
  Tools \cap {"gmail.send_followup_email", "calendar.create_event",
              "calendar.create_scheduling_link", "notion.create_deal_page"}
Commitment == "lead_routing_commitment"

ASSUME ConstantsAssumption ==
  /\ Available \subseteq Tools
  /\ ForceDryRun \in BOOLEAN /\ FastChain \in BOOLEAN
  /\ MaxAttempts \in Nat \ {0} /\ MaxCrashes \in Nat
  /\ None \notin Sellers \cup Agents /\ None # Torn

VARIABLES
  run,            \* [Chains -> how far the chain has come]
  template,       \* the profile in config/product_profile.json
  billing,        \* rows of closed_deals.jsonl
  acted,          \* [Chains -> how often the service behind a tool acted]
  logged,         \* [Chains -> attempts recorded in tool_executions.jsonl]
  gates,          \* [Chains -> gate decisions in the audit log]
  reported,       \* [Chains -> what the route wrote to the audit log in the end]
  crashes         \* how often the server died

vars == <<run, template, billing, acted, logged, gates, reported, crashes>>

-----------------------------------------------------------------------------
(* The registry and the plan of a chain *)

\* error_policy and handoff_targets of agents/registry.json; no agent has two targets.
Policy(agent) ==
  CASE agent \in {"onboarding_specialist", "recruiter", "outreach_worker"} ->
         "retry_once_then_escalate"
    [] agent = "profit_guardrail" -> "fail_closed_veto"
    [] agent \in {"closer", "final_arbiter"} -> "reject_and_return"
    [] agent = "meta_optimizer" -> "log_and_continue"

Target(agent) ==
  CASE agent = "profit_guardrail" -> "final_arbiter"
    [] agent \in {"final_arbiter", "meta_optimizer"} -> None
    [] OTHER -> "profit_guardrail"

\* allowed_agents of config/tools.json.
AllowedAgents(tool) ==
  CASE tool = "gmail.send_followup_email" -> Gated
    [] tool = "notion.create_deal_page" -> {"closer"}
    [] OTHER -> {"closer", "recruiter"}

\* resolve_chain_from_registry: follow the targets until there is none or one seen before.
Walk(entry) ==
  LET walk[n \in Nat] ==
        IF n = 0 THEN <<entry>>
        ELSE LET sofar == walk[n - 1]
                 next == Target(sofar[Len(sofar)])
             IN  IF next = None \/ \E i \in DOMAIN sofar : sofar[i] = next THEN sofar
                 ELSE Append(sofar, next)
  IN  walk[Cardinality(Agents)]

\* resolve_flow_chain: the four entries of the seller flow pass both guardrails.
FlowChain(entry) ==
  LET chain == Walk(entry)
      in(agent) == \E i \in DOMAIN chain : chain[i] = agent
      tail(agent) == IF in(agent) THEN <<>> ELSE <<agent>>
  IN  IF entry = "meta_optimizer" THEN chain
      ELSE chain \o tail("profit_guardrail") \o tail("final_arbiter")

\* A profile that is not whole satisfies the router, which wants one objection, and
\* not the validator, which wants three.
Profiles == [seller : Sellers, whole : BOOLEAN]

\* What a deal's record (SSOT) holds, as far as the agents look at it.
Records == [onboarded : BOOLEAN, profile : Profiles \cup {None}, warm : BOOLEAN,
            prospect : BOOLEAN, draft : BOOLEAN]

\* What a request may say: HandoffChainRequest, who sent it (sandbox), what a scan finds
\* in it (hostile) and what its prices come to (thin).
Asks == [entry : Agents \cup {None}, auto : BOOLEAN, sandbox : BOOLEAN, rehearsal : BOOLEAN,
         onboarded : BOOLEAN, profile : Profiles \cup {None}, warm : BOOLEAN,
         prospect : BOOLEAN, hostile : BOOLEAN, thin : BOOLEAN, deal : Deals]

ASSUME RequestsAssumption == \A c \in Chains : Requests[c] \subseteq Asks

\* build_initial_ssot: the flags and the profile are the caller's.
InitialRecord(req) == [onboarded |-> req.onboarded, profile |-> req.profile,
                       warm |-> req.warm, prospect |-> req.prospect, draft |-> FALSE]

\* route_entry_agent
RouteEntry(req, record) ==
  IF req.entry # None THEN req.entry
  ELSE IF ~record.onboarded /\ record.profile = None THEN "onboarding_specialist"
  ELSE IF record.warm THEN "closer"
  ELSE IF record.prospect THEN "recruiter" ELSE "outreach_worker"

\* The plan run_chain starts with.
Plan(req) ==
  LET entry == IF req.auto THEN RouteEntry(req, InitialRecord(req))
               ELSE IF req.entry # None THEN req.entry ELSE "outreach_worker"
  IN  IF req.sandbox /\ FastChain THEN <<entry>>
      ELSE IF req.auto THEN FlowChain(entry) ELSE Walk(entry)

-----------------------------------------------------------------------------
(* Answers and what the validators make of them *)

\* parse_agent_json_response and the hand-off run_registry_agent builds from it.
\* fits: it satisfies the schema but for next_action; names: it names a next action;
\* updates: its own SSOT updates, if any, what they set and to what; clean: it survives the scan of the
\* output; claims: onboarding_complete; closed: deal_closed and lead_routing_confirmed;
\* sure: confident and no doubt about the partner; link: the CTA of its close package.
Updates == [sets : SUBSET {"onboarded", "profile", "draft"}, to : Records]
Handoffs ==
  [status : {"COMPLETE", "IN_PROGRESS", "EMERGENCY_STOP"}, fits : BOOLEAN, names : BOOLEAN,
   updates : Updates \cup {None}, clean : BOOLEAN, claims : BOOLEAN, profile : Profiles \cup {None},
   closed : BOOLEAN, type : {Commitment, "other"}, sure : BOOLEAN,
   link : Sellers \cup {"elsewhere", None}, passed : BOOLEAN, draft : BOOLEAN,
   tools : Seq(Tools)]

ASSUME RepliesAssumption == \A agent \in Agents : Replies[agent] \subseteq Handoffs

Blank == [status |-> "COMPLETE", fits |-> TRUE, names |-> TRUE, updates |-> None,
          clean |-> TRUE, claims |-> FALSE, profile |-> None, closed |-> FALSE,
          type |-> Commitment, sure |-> FALSE, link |-> None, passed |-> FALSE,
          draft |-> FALSE, tools |-> <<>>]

\* handoff_from_policy_error: the two policies that escalate stop the chain, the
\* others end the hop as if it were complete.
PolicyHandoff(agent) ==
  [Blank EXCEPT !.status =
     IF Policy(agent) \in {"fail_closed_veto", "retry_once_then_escalate"}
     THEN "EMERGENCY_STOP" ELSE "COMPLETE"]

\* scan_agent_output, as far as it blocks.
Tainted(h) == ~h.clean

\* handoff_for_scan_rejection: nothing closed, nothing onboarded, no tools.
Rejection == Blank

\* validate_product_profile
Complete(profile) == profile # None /\ profile.whole

\* merge_ssot: the updates of an answer that has its own take the place of the
\* validator's (otherwise), even those of an answer the scan or a guardrail rejects.  The
\* record is the chain's alone: it may as well be merged here as after the hop.
Updated(h, record, otherwise) ==
  IF h.updates = None THEN otherwise
  ELSE LET sets == h.updates.sets
           to == h.updates.to
       IN  [record EXCEPT !.onboarded = IF "onboarded" \in sets THEN to.onboarded ELSE @,
                          !.profile = IF "profile" \in sets THEN to.profile ELSE @,
                          !.draft = IF "draft" \in sets THEN to.draft ELSE @]

\* _validate_onboarding_specialist.  A record is returned with the hand-off; save says
\* that the profile is stored before the hop goes on.
OnboardingChecked(h, record) ==
  LET continue == [h EXCEPT !.names = TRUE, !.fits = TRUE, !.status = "COMPLETE"]
      unfinished == [record EXCEPT !.profile = h.profile, !.onboarded = FALSE]
      finished == [record EXCEPT !.profile = h.profile, !.onboarded = TRUE, !.draft = TRUE]
  IN  IF Tainted(h)
      THEN [handoff |-> continue, record |-> Updated(h, record, record), then |-> "finish"]
      ELSE IF h.claims /\ ~Complete(h.profile)
      THEN [handoff |-> continue, record |-> unfinished, then |-> "finish"]
      ELSE IF ~Complete(h.profile)
      THEN [handoff |-> h, record |-> Updated(h, record, unfinished), then |-> "finish"]
      ELSE [handoff |-> [h EXCEPT !.names = @ \/ h.status = "COMPLETE"],
            record |-> Updated(h, record, finished), then |-> "load"]

\* Mutant: rehearsals are billed.
BillableInSandbox(h, req) == h.status = "COMPLETE" /\ h.closed

\* A closed deal is billed outside the sandbox.
Billable(h, req) == h.status = "COMPLETE" /\ h.closed /\ ~req.sandbox

\* _validate_closer.  The tools have acted by now.  The link of the close package is
\* the seller's own as soon as the deal has a profile; a rehearsal in the sandbox
\* closes with any link.
CloserChecked(h, record, req) ==
  LET link == IF h.link # None /\ record.profile # None THEN record.profile.seller
              ELSE h.link
      rehearsed == req.sandbox /\ req.rehearsal /\ h.status = "COMPLETE" /\ link # None
      closed == h.closed \/ rehearsed
      complete == h.status = "COMPLETE"
      package == [h EXCEPT !.link = link, !.closed = closed]
      updated == Updated(h, record, record)
  IN  IF Tainted(h)
      THEN [handoff |-> [h EXCEPT !.status = "COMPLETE", !.fits = TRUE, !.closed = FALSE],
            record |-> updated, then |-> "finish"]
      ELSE IF ~record.onboarded
      THEN [handoff |-> [h EXCEPT !.status = "EMERGENCY_STOP", !.fits = TRUE, !.names = TRUE],
            record |-> updated, then |-> "finish"]
      ELSE [handoff |-> package,
            record |-> [updated EXCEPT !.draft = @ \/ (complete /\ link # None)],
            then |-> IF Billable(package, req) THEN "bill" ELSE "finish"]

\* _validate_recruiter, and the draft of outreach_worker.
DraftChecked(h, record, agent) ==
  LET complete == h.status = "COMPLETE"
      kept == h.draft /\ (complete \/ agent = "outreach_worker")
  IN  [handoff |-> [h EXCEPT !.names = @ \/ complete],
       record |-> Updated(h, record, [record EXCEPT !.draft = @ \/ kept]), then |-> "finish"]

\* Mutant: the guardrail believes the model.
GuardrailBelieves(h, record, req) ==
  [handoff |-> h, record |-> Updated(h, record, record), then |-> "finish"]

\* check_margin_guardrail: below the veto threshold or the minimum of the service tier.
TooThin(req) == req.thin

\* _validate_profit_guardrail: whatever the model says, a thin margin is a veto.
GuardrailChecked(h, record, req) ==
  [handoff |-> IF TooThin(req)
               THEN [h EXCEPT !.status = "EMERGENCY_STOP", !.fits = TRUE, !.names = TRUE]
               ELSE h,
   record |-> Updated(h, record, record), then |-> "finish"]

\* _resolve_qc_content
Reviewable(record) == record.draft \/ (record.onboarded /\ Complete(record.profile))

\* _validate_final_arbiter: QC passes only with content in the record.
ArbiterChecked(h, record) ==
  LET passed == h.passed /\ Reviewable(record)
  IN  [handoff |-> [h EXCEPT !.passed = passed, !.names = @ \/ (h.status = "COMPLETE" /\ ~passed)],
       record |-> Updated(h, record, record), then |-> "finish"]

\* VALIDATORS, and _apply_handoff_targets after them.
Checked(agent, h, record, req) ==
  LET checked ==
        CASE agent = "onboarding_specialist" -> OnboardingChecked(h, record)
          [] agent = "closer" -> CloserChecked(h, record, req)
          [] agent \in {"recruiter", "outreach_worker"} -> DraftChecked(h, record, agent)
          [] agent = "profit_guardrail" -> GuardrailChecked(h, record, req)
          [] agent = "final_arbiter" -> ArbiterChecked(h, record)
          [] agent = "meta_optimizer" ->
               [handoff |-> h, record |-> Updated(h, record, record), then |-> "finish"]
  IN  [checked EXCEPT !.handoff.names =
         @ \/ (checked.handoff.status = "COMPLETE" /\ Target(agent) # None)]

\* validate_handoff
Legit(h) == h.fits /\ (h.status \in {"COMPLETE", "EMERGENCY_STOP"} => h.names)

-----------------------------------------------------------------------------
(* Tools *)

\* commitment_gate_passed, from what the model says of itself.
Committed(h) == h.closed /\ h.type = Commitment /\ h.sure

\* evaluate_tool_gate
GateAllows(agent, tool, h, req) ==
  IF req.sandbox THEN tool \notin SandboxBlocked ELSE agent \in Gated => Committed(h)

\* dry_run_enabled
DryRun(req) == req.sandbox /\ ForceDryRun

\* ToolRegistry.validate_request
Usable(agent, tool, req) ==
  agent \in AllowedAgents(tool) /\ (tool \in Available \/ DryRun(req))

\* What a call may come to: whether the service acts, and the answer.
Call(acts, answer) == [acts |-> acts, answer |-> answer]

\* classify_http_error, and a body that is no JSON, which no connector catches.
Posted == {Call(TRUE, "done"), Call(TRUE, "transient"), Call(FALSE, "transient"),
           Call(FALSE, "permanent"), Call(TRUE, "raises")}

\* Parameters are checked before anything is sent, in a dry run too.
Refused == {Call(FALSE, "permanent")}
Rehearsed == {Call(FALSE, "done")} \cup Refused

\* GmailConnector.execute
GmailCalls(dry) == IF dry THEN Rehearsed ELSE Refused \cup Posted

\* LinearConnector.execute: a priority that is no number raises.
LinearCalls(dry) == IF dry THEN Rehearsed ELSE Refused \cup {Call(FALSE, "raises")} \cup Posted

\* NotionConnector.execute
NotionCalls(dry) == IF dry THEN Rehearsed ELSE Refused \cup Posted

\* GoogleCalendarConnector.execute: a time that is not ISO raises, even in a dry run.
CalendarCalls(dry) == {Call(FALSE, "raises")} \cup (IF dry THEN Rehearsed ELSE Refused \cup Posted)

\* CONNECTORS
Calls(tool, req) ==
  CASE tool = "gmail.send_followup_email" -> GmailCalls(DryRun(req))
    [] tool = "linear.create_followup_task" -> LinearCalls(DryRun(req))
    [] tool = "notion.create_deal_page" -> NotionCalls(DryRun(req))
    [] OTHER -> CalendarCalls(DryRun(req))

-----------------------------------------------------------------------------
(* The steps of a chain *)

Idle == [pc |-> "waiting", req |-> None, record |-> None, plan |-> <<>>, trail |-> <<>>,
         handoff |-> Blank, tries |-> 0, known |-> {}]

\* What a row of closed_deals.jsonl is known by.
Key(row) == <<row.deal, row.type, row.link>>

Running(c) == run[c].pc \notin {"waiting", "complete", "stopped", "failed"}
Agent(c) == run[c].plan[Len(run[c].trail) + 1]
FirstStep(agent) == IF agent \in Scanned THEN "scan" ELSE "prompt"

Files == <<template, billing>>
Logs == <<acted, logged, gates, reported>>

Goto(c, pc) == run' = [run EXCEPT ![c].pc = pc]

\* An exception ends the thread; the route answers 500 and audits it.
Fail(c) ==
  /\ run' = [run EXCEPT ![c].pc = "failed", ![c].handoff = Blank, ![c].tries = 0]
  /\ reported' = [reported EXCEPT ![c] = {"handoff_chain_failed"}]

\* POST /orchestrate/handoff-chain up to the thread.
Start(c) ==
  /\ run[c].pc = "waiting"
  /\ \E req \in Requests[c] :
       run' = [run EXCEPT ![c] =
                 [Idle EXCEPT !.req = req, !.record = InitialRecord(req), !.plan = Plan(req),
                              !.pc = FirstStep(Plan(req)[1]),
                              !.known = {Key(row) : row \in billing}]]
  /\ UNCHANGED <<Files, Logs, crashes>>

\* scan_external_content, as far as it blocks.
Blocked(req) == req.hostile

\* Mutant: a scan that hits is recorded and no more.
ScanGoesOn(c) ==
  /\ run[c].pc = "scan"
  /\ Goto(c, "prompt")
  /\ UNCHANGED <<Files, Logs, crashes>>

\* run_registry_agent before the prompt: an agent never sees what the scan
\* blocks; the rejection passes through the validator in its place.
Scan(c) ==
  /\ run[c].pc = "scan"
  /\ IF Blocked(run[c].req)
     THEN run' = [run EXCEPT ![c].pc = "validate", ![c].handoff = Rejection]
     ELSE Goto(c, "prompt")
  /\ UNCHANGED <<Files, Logs, crashes>>

\* load_product_profile_template: json.load of an empty or garbled file raises.
Readable == template # Torn

\* _build_prompt_variables: load_profile_snapshot reads the template in any case, and
\* a template that is no JSON fails the chain (no error policy applies here).
ReadPrompt(c) ==
  /\ run[c].pc = "prompt"
  /\ IF Readable
     THEN run' = [run EXCEPT ![c].pc = "infer", ![c].tries = 0] /\ UNCHANGED reported
     ELSE Fail(c)
  /\ UNCHANGED <<Files, acted, logged, gates, crashes>>

\* chat_completion
Answers(c) == Replies[Agent(c)]

\* _infer_xai when the model answers.
Infer(c) ==
  /\ run[c].pc = "infer"
  /\ \E reply \in Answers(c) :
       run' = [run EXCEPT ![c].handoff = reply, ![c].tries = 0,
                          ![c].pc = IF reply.tools = <<>> THEN "validate" ELSE "gate"]
  /\ UNCHANGED <<Files, Logs, crashes>>

\* Mutant: a failed call is tried again and again.
MisinferForever(c) ==
  /\ run[c].pc = "infer"
  /\ run' = [run EXCEPT ![c].tries = 1 - @]
  /\ UNCHANGED <<Files, Logs, crashes>>

\* _infer_xai when the call fails or the answer is no JSON: execute_with_error_policy
\* tries once more if the policy says so, and then no validator sees the hand-off.
Misinfer(c) ==
  /\ run[c].pc = "infer"
  /\ IF Policy(Agent(c)) = "retry_once_then_escalate" /\ run[c].tries = 0
     THEN run' = [run EXCEPT ![c].tries = 1]
     ELSE run' = [run EXCEPT ![c].handoff = PolicyHandoff(Agent(c)), ![c].pc = "finish"]
  /\ UNCHANGED <<Files, Logs, crashes>>

NextTool(c) == Head(run[c].handoff.tools)

\* The tool at the head is done with: on to the next, or to the validator.
ToolsDone(c) ==
  LET rest == Tail(run[c].handoff.tools)
  IN  run' = [run EXCEPT ![c].handoff.tools = rest, ![c].tries = 0,
                         ![c].pc = IF rest = <<>> THEN "validate" ELSE "gate"]

\* log_gate_decision
GateRow(tool, allowed) == [tool |-> tool, allowed |-> allowed]

\* execute_tool_requests up to the connector: the decision of the gate is audited
\* first, and a request it blocks or the registry refuses leaves a row "skipped".
Gate(c) ==
  LET tool == NextTool(c)
      req == run[c].req
      allowed == GateAllows(Agent(c), tool, run[c].handoff, req)
  IN  /\ run[c].pc = "gate"
      /\ gates' = [gates EXCEPT ![c] = @ \cup {GateRow(tool, allowed)}]
      /\ IF allowed /\ Usable(Agent(c), tool, req)
         THEN Goto(c, "send")
         ELSE ToolsDone(c)
      /\ UNCHANGED <<Files, acted, logged, reported, crashes>>

\* Mutant: one attempt too many.
ExhaustedLate(tries) == tries > MaxAttempts

\* _max_retries
Exhausted(tries) == tries >= MaxAttempts

\* Mutant: the row of a request tells of its last attempt only.
RowOfLast(c, tool, tries) == [logged EXCEPT ![c][tool] = @ + 1]

\* record_tool_execution, with the number of attempts.
ToolRow(c, tool, tries) == [logged EXCEPT ![c][tool] = @ + tries]

\* _execute_connector_with_retry, one call of connector.execute: the service acts or
\* not, and the answer says so or is lost.  A transient failure is tried again, whether
\* or not the service has acted.  The row follows the last attempt; an exception that is
\* no HTTP error leaves none and fails the chain.
Send(c) ==
  LET tool == NextTool(c)
      tries == run[c].tries + 1
  IN  /\ run[c].pc = "send"
      /\ \E call \in Calls(tool, run[c].req) :
           /\ acted' = [acted EXCEPT ![c][tool] = IF call.acts THEN @ + 1 ELSE @]
           /\ \/ /\ call.answer = "raises"
                 /\ Fail(c) /\ UNCHANGED logged
              \/ /\ call.answer = "transient" /\ ~Exhausted(tries)
                 /\ run' = [run EXCEPT ![c].tries = tries] /\ UNCHANGED <<logged, reported>>
              \/ /\ call.answer = "transient" => Exhausted(tries)
                 /\ call.answer # "raises"
                 /\ ToolsDone(c) /\ logged' = ToolRow(c, tool, tries) /\ UNCHANGED reported
      /\ UNCHANGED <<Files, gates, crashes>>

\* run_registry_agent: the validator of the agent.
Validate(c) ==
  /\ run[c].pc = "validate"
  /\ LET checked == Checked(Agent(c), run[c].handoff, run[c].record, run[c].req)
     IN  run' = [run EXCEPT ![c].handoff = checked.handoff, ![c].record = checked.record,
                            ![c].pc = checked.then]
  /\ UNCHANGED <<Files, Logs, crashes>>

\* save_agent_profile: the template is read (no JSON: 500), emptied and written.
LoadTemplate(c) ==
  /\ run[c].pc = "load"
  /\ IF Readable THEN Goto(c, "truncate") /\ UNCHANGED reported ELSE Fail(c)
  /\ UNCHANGED <<Files, acted, logged, gates, crashes>>

TruncateTemplate(c) ==
  /\ run[c].pc = "truncate"
  /\ template' = Torn
  /\ Goto(c, "write")
  /\ UNCHANGED <<billing, Logs, crashes>>

\* Two threads that have both emptied the file write over each other: the longer text
\* shows behind the shorter one.
WriteTemplate(c) ==
  /\ run[c].pc = "write"
  /\ template' \in {run[c].handoff.profile} \cup (IF template = Torn THEN {} ELSE {Torn})
  /\ Goto(c, "finish")
  /\ UNCHANGED <<billing, Logs, crashes>>

DealRow(c) == [deal |-> run[c].req.deal, type |-> run[c].handoff.type,
               link |-> run[c].handoff.link, chain |-> c]

\* Mutant: a deal is known by its type and link only.
BilledByLink(c) == \E row \in billing : row.type = DealRow(c).type /\ row.link = DealRow(c).link

\* Mutant: only the rows of this chain are looked at.
BilledByMe(c) == \E row \in billing : row = DealRow(c)

\* record_closed_deal, the search for the deal.
AlreadyBilled(c) == \E row \in billing : Key(row) = Key(DealRow(c))

ReadDeals(c) ==
  /\ run[c].pc = "bill"
  /\ Goto(c, IF AlreadyBilled(c) THEN "finish" ELSE "append")
  /\ UNCHANGED <<Files, Logs, crashes>>

\* record_closed_deal, the row.
AppendDeal(c) ==
  /\ run[c].pc = "append"
  /\ billing' = billing \cup {DealRow(c)}
  /\ Goto(c, "finish")
  /\ UNCHANGED <<template, Logs, crashes>>

\* A stop or the last agent ends the chain, whatever next_action says.
Ends(c, trail) ==
  trail[Len(trail)].status = "EMERGENCY_STOP" \/ Len(trail) = Len(run[c].plan)

\* run_chain after the hop: an answer that breaks the schema fails the request, with
\* everything the hop has done already done; else the hand-off is audited and leads to
\* the next agent of the plan.
Finish(c) ==
  LET h == run[c].handoff
      trail == Append(run[c].trail, [agent |-> Agent(c), status |-> h.status, closed |-> h.closed])
  IN  /\ run[c].pc = "finish"
      /\ IF ~Legit(h) THEN Goto(c, "failed")
         ELSE run' = [run EXCEPT ![c].trail = trail, ![c].handoff = Blank,
                        ![c].pc = IF Ends(c, trail) THEN "report"
                                  ELSE FirstStep(run[c].plan[Len(trail) + 1])]
      /\ UNCHANGED <<Files, Logs, crashes>>

Stopped(c) == \E i \in DOMAIN run[c].trail : run[c].trail[i].status = "EMERGENCY_STOP"

\* build_handoff_summary: the closer's answer is the deal's.
Closed(c) == \E i \in DOMAIN run[c].trail :
               run[c].trail[i].agent = "closer" /\ run[c].trail[i].closed

\* log_handoff_chain_complete, log_profile_saved, log_deal_close
Rows(c) ==
  {"handoff_chain_complete"}
    \cup {row \in {"profile_saved"} : run[c].record.onboarded /\ run[c].record.profile # None}
    \cup {row \in {Commitment} : Closed(c)}

\* The route after the thread: a close is logged even if the chain was stopped after it.
Report(c) ==
  /\ run[c].pc = "report"
  /\ reported' = [reported EXCEPT ![c] = Rows(c)]
  /\ Goto(c, IF Stopped(c) THEN "stopped" ELSE "complete")
  /\ UNCHANGED <<Files, acted, logged, gates, crashes>>

\* The server dies with all its threads and starts again.
Crash ==
  /\ crashes < MaxCrashes
  /\ \E c \in Chains : Running(c)
  /\ run' = [c \in Chains |-> IF Running(c) THEN [run[c] EXCEPT !.pc = "failed", !.tries = 0,
                                                                !.handoff = Blank]
                             ELSE run[c]]
  /\ crashes' = crashes + 1
  /\ UNCHANGED <<Files, Logs>>

-----------------------------------------------------------------------------

Init ==
  /\ run = [c \in Chains |-> Idle]
  /\ template = None
  /\ billing = {}
  /\ acted = [c \in Chains |-> [t \in Tools |-> 0]]
  /\ logged = [c \in Chains |-> [t \in Tools |-> 0]]
  /\ gates = [c \in Chains |-> {}]
  /\ reported = [c \in Chains |-> {}]
  /\ crashes = 0

Step(c) ==
  \/ Scan(c) \/ ReadPrompt(c) \/ Infer(c) \/ Misinfer(c)
  \/ Gate(c) \/ Send(c) \/ Validate(c)
  \/ LoadTemplate(c) \/ TruncateTemplate(c) \/ WriteTemplate(c)
  \/ ReadDeals(c) \/ AppendDeal(c) \/ Finish(c) \/ Report(c)

Next == (\E c \in Chains : Start(c) \/ Step(c)) \/ Crash

Spec == Init /\ [][Next]_vars

\* A thread that runs a chain is scheduled, and every call it makes has a timeout.
FairSpec == Spec /\ \A c \in Chains : WF_vars(Step(c))

-----------------------------------------------------------------------------
(* Properties *)

Steps == {"waiting", "scan", "prompt", "infer", "gate", "send", "validate", "load",
          "truncate", "write", "bill", "append", "finish", "report", "complete",
          "stopped", "failed"}

\* Types of all state; a tool is never called more than MaxAttempts times for a request.
TypeOK ==
  /\ \A c \in Chains :
       /\ run[c].pc \in Steps
       /\ run[c].pc # "waiting" => run[c].req \in Requests[c] /\ run[c].record \in Records
       /\ run[c].plan \in Seq(Agents)
       /\ run[c].trail \in Seq([agent : Agents, status : {"COMPLETE", "IN_PROGRESS",
                                                         "EMERGENCY_STOP"}, closed : BOOLEAN])
       /\ run[c].handoff \in Handoffs
       /\ run[c].tries \in Nat /\ (run[c].pc = "send" => run[c].tries < MaxAttempts)
       /\ run[c].pc \in {"gate", "send"} => run[c].handoff.tools # <<>>
       /\ reported[c] \subseteq {"handoff_chain_complete", "handoff_chain_failed",
                                   "profile_saved", Commitment}
       /\ gates[c] \subseteq [tool : Tools, allowed : BOOLEAN]
  /\ template \in Profiles \cup {None, Torn}
  /\ acted \in [Chains -> [Tools -> Nat]] /\ logged \in [Chains -> [Tools -> Nat]]
  /\ crashes \in 0..MaxCrashes

\* What a service has done for a chain was asked for by an agent that may use the tool
\* and allowed by an audited decision of the gate; never in a dry run, and never by an
\* agent that scans its input, for a request the scan blocks.
ActsAreEarned ==
  \A c \in Chains : \A tool \in Tools : acted[c][tool] > 0 =>
    /\ GateRow(tool, TRUE) \in gates[c]
    /\ ~DryRun(run[c].req)
    /\ \E i \in 1..Len(run[c].plan) :
         /\ run[c].plan[i] \in AllowedAgents(tool)
         /\ run[c].plan[i] \in Scanned => ~run[c].req.hostile

\* The tool log accounts for every time a service acted, unless the chain failed: an
\* attempt whose answer was lost is counted by the row that follows the last attempt.
ActsAreLogged ==
  \A c \in Chains : \A tool \in Tools : run[c].pc # "failed" =>
    acted[c][tool] <= logged[c][tool]
      + (IF run[c].pc = "send" /\ NextTool(c) = tool THEN run[c].tries ELSE 0)

\* Only deals whose request calls the seller onboarded are billed, outside the sandbox, and
\* not on the word of a request that the scan of the closer blocks.
BilledIsEarned ==
  \A row \in billing :
    LET req == run[row.chain].req IN req.onboarded /\ ~req.sandbox /\ ~req.hostile

\* Both rows have the link of one seller's profile, which both requests carried.
SameOffer(old, row) ==
  LET theirs == run[old.chain].req.profile
      profile == run[row.chain].req.profile
  IN  /\ theirs # None /\ profile # None /\ theirs.seller = profile.seller
      /\ old.link # None /\ row.link # None

\* A deal that is sent again after it was billed, because the answer was lost in a
\* crash, is not billed again for the same close type with the same link, and so not
\* if both requests carry the seller's profile and both answers a close package.  It is
\* billed again with another link, which is the model's own if a request has no
\* profile, and by a chain that had begun before the deal was billed.
RetryBillsOnce ==
  \A old, row \in billing :
    Key(old) \in run[row.chain].known /\ old.deal = row.deal /\ old.type = row.type =>
      old.link # row.link /\ ~SameOffer(old, row)

\* A close the audit log reports outside the sandbox is billed, if the closer had
\* completed its turn.
CloseIsBilled ==
  \A c \in Chains :
    /\ Commitment \in reported[c] /\ ~run[c].req.sandbox
    /\ \A i \in DOMAIN run[c].trail : run[c].trail[i].agent = "closer" =>
         run[c].trail[i].status = "COMPLETE"
    => \E row \in billing : row.deal = run[c].req.deal

\* A chain that has begun ends, whatever the model answers and the services do.
ChainsEnd == \A c \in Chains : (run[c].pc # "waiting") ~> ~Running(c)

\* The protocol's view of the chains.
Planned == [c \in Chains |-> run[c].plan]
Thin == [c \in Chains |-> run[c].pc # "waiting" /\ run[c].req.thin]
Trails == [c \in Chains |-> [i \in DOMAIN run[c].trail |->
             [agent |-> run[c].trail[i].agent, status |-> run[c].trail[i].status]]]
Outcome == [c \in Chains |->
              IF run[c].pc = "waiting" THEN "waiting"
              ELSE IF Stopped(c) THEN "stopped"
              ELSE IF Len(run[c].trail) = Len(run[c].plan) THEN "complete"
              ELSE IF run[c].pc = "failed" THEN "failed" ELSE "running"]

Protocol == INSTANCE HandoffProtocol WITH
  Guardrail <- "profit_guardrail", plan <- Planned, thin <- Thin, trail <- Trails,
  outcome <- Outcome

\* Chains implement the protocol: one recorded hand-off per agent in the planned order,
\* none after a stop, and no chain with a thin margin gets past its guardrail.
ImplementsProtocol == Protocol!Spec
=============================================================================
