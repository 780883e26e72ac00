------------------------- MODULE PartnerGraduation -------------------------
(***************************************************************************)
(* Sandbox partners on their way to production (arclya2a/partners, and the *)
(* handlers of server/app.py that call it).  The partner registry and the  *)
(* two key stores are files that are read whole, changed in memory and     *)
(* written whole, without a lock.  Three kinds of actors do so:            *)
(*   - the event loop of the server, one request handler at a time;        *)
(*   - handoff chains, which run in worker threads of the server;          *)
(*   - the operator's command line, a process of its own.                  *)
(* todo[a] is what actor a has still to do, mem[a] the file content it is  *)
(* about to write.                                                         *)
(***************************************************************************)
EXTENDS Naturals, Sequences, FiniteSets

CONSTANTS
  Partners,       \* partner ids
  Chains,         \* handoff chains that may be under way at the same time
  Loop, Cli,      \* the other two actors
  Operators,      \* which of the two the operator graduates partners with
  Summaries,      \* results of a handoff chain, each a set of SummaryFlags
  Kinds,          \* the offences partners commit, a subset of Offences
  FailedThreshold,\* SUSPICIOUS_FAILED_VALIDATION_THRESHOLD: 5 in the code
  RateThreshold,  \* SUSPICIOUS_RATE_LIMIT_THRESHOLD: 3 in the code
  BurstSize,      \* so many recent events may be a burst: 25 in the code
  MaxOffences,    \* bound: offences per partner
  MaxHandoffs,    \* bound: handoffs in all
  MaxGraduations, \* bound: graduations per partner that reach the log
  MaxCrashes,     \* bound: how often a process dies
  None            \* no row, no content

SummaryFlags == {"onboarding_complete", "profile_saved", "lead_routing_confirmed",
                 "emergency_stop", "recruiter_entry", "ready_to_send"}
Offences == {"validation_failed", "blocked_tool", "blocked_path", "rate_limit_exceeded"}
LogKinds == Offences \cup {"emergency_stop", "registered", "graduated", "graduation_log"}
Server == Chains \cup {Loop}
Actors == Server \cup {Cli}
MinScore == 70

ASSUME ConstantsAssumption ==
  /\ Operators \subseteq {Loop, Cli}
  /\ Loop # Cli /\ Loop \notin Chains /\ Cli \notin Chains
  /\ \A summary \in Summaries : summary \subseteq SummaryFlags
  /\ Kinds \subseteq Offences
  /\ FailedThreshold \in Nat \ {0} /\ RateThreshold \in Nat \ {0} /\ BurstSize \in Nat
  /\ MaxOffences \in Nat /\ MaxHandoffs \in Nat
  /\ MaxGraduations \in Nat /\ MaxCrashes \in Nat
  /\ None \notin Partners

VARIABLES
  disk,           \* the three files: the registry and the two key stores
  log,            \* [Partners -> how many records of each kind the logs hold]
  registered,     \* partner ids that have been given out
  chain,          \* the partner a chain works for, or None
  handoffs,       \* how many handoffs have been started
  todo,           \* steps an actor has still to take
  mem,            \* what an actor is about to write to a file, or None
  wiped,          \* files a crash has left empty
  crashes         \* how often a process has died

vars == <<disk, log, registered, chain, handoffs, todo, mem, wiped, crashes>>

-----------------------------------------------------------------------------
(* A row of the registry *)

Milestones == {"profile_validated", "onboarding_complete", "recruitment_reviewed",
               "close_dry_run", "no_emergency_stops", "security_score_ok"}
Flags == {"validation_abuse", "rate_limit_abuse", "high_risk_probe",
          "emergency_stop_history", "burst_traffic"}

Rows == [status : {"sandbox", "graduation_ready", "graduated"}, done : SUBSET Milestones,
         stops : Nat, failed : Nat, blocked : Nat, hits : Nat, flags : SUBSET Flags,
         ready : BOOLEAN]

\* register_test_partner: no milestone is reached, not even those of security.
NewRow == [status |-> "sandbox", done |-> {}, stops |-> 0, failed |-> 0, blocked |-> 0,
           hits |-> 0, flags |-> {}, ready |-> FALSE]

\* compute_behavior_score: 100 less what the events and flags cost, at least 0.
Penalty(row) ==
  25 * row.stops + (IF row.failed > 1 THEN 5 * (row.failed - 1) ELSE 0)
    + 10 * row.blocked + 5 * row.hits + 8 * Cardinality(row.flags)
Score(row) == IF Penalty(row) > 100 THEN 0 ELSE 100 - Penalty(row)

\* Mutant: a single blocked action is overlooked.
FlaggedLate(row, burst) ==
  row.flags \cup
    {f \in Flags :
       \/ f = "validation_abuse" /\ row.failed >= FailedThreshold
       \/ f = "rate_limit_abuse" /\ row.hits >= RateThreshold
       \/ f = "high_risk_probe" /\ row.blocked > 1
       \/ f = "emergency_stop_history" /\ row.stops >= 1
       \/ f = "burst_traffic" /\ burst}

\* evaluate_suspicious_behavior: flags are added and never taken away.
Flagged(row, burst) ==
  row.flags \cup
    {f \in Flags :
       \/ f = "validation_abuse" /\ row.failed >= FailedThreshold
       \/ f = "rate_limit_abuse" /\ row.hits >= RateThreshold
       \/ f = "high_risk_probe" /\ row.blocked >= 1
       \/ f = "emergency_stop_history" /\ row.stops >= 1
       \/ f = "burst_traffic" /\ burst}

\* _refresh_security: the two milestones of security follow the counters.
Refreshed(row, burst) ==
  LET new == [row EXCEPT !.flags = Flagged(row, burst)]
  IN  [new EXCEPT !.done =
         (@ \ {"no_emergency_stops", "security_score_ok"})
           \cup {m \in {"no_emergency_stops"} : new.stops = 0}
           \cup {m \in {"security_score_ok"} : Score(new) >= MinScore /\ new.flags = {}}]

\* Mutant: graduated rows are graded like any other.
GradedAgain(row) ==
  [row EXCEPT !.ready = row.done = Milestones,
              !.status = IF row.done = Milestones THEN "graduation_ready" ELSE "sandbox"]

\* _update_graduation_status: a graduated row stays graduated; any other is ready
\* as long as all milestones are reached.
Graded(row) ==
  IF row.status = "graduated" THEN [row EXCEPT !.ready = FALSE]
  ELSE [row EXCEPT !.ready = row.done = Milestones,
                   !.status = IF row.done = Milestones THEN "graduation_ready" ELSE "sandbox"]

\* What the marks of one call of record_partner_activity (an event or the summary
\* of a handoff) or of apply_security_event do to the row.
Applied(row, marks) ==
  LET one(kinds) == IF marks \cap kinds # {} THEN 1 ELSE 0
      reach(m, kinds) == IF marks \cap kinds # {} THEN {m} ELSE {}
  IN  [row EXCEPT
         !.done = @ \cup reach("profile_validated", {"profile_validated", "profile_saved"})
                    \cup reach("onboarding_complete", {"onboarding_complete", "profile_saved"})
                    \cup reach("recruitment_reviewed", {"recruitment_ready"})
                    \cup reach("close_dry_run", {"lead_routing_confirmed"}),
         !.stops = @ + one({"emergency_stop"}),
         !.failed = @ + one({"validation_failed"}),
         !.blocked = @ + one({"blocked_tool", "blocked_path"}),
         !.hits = @ + one({"rate_limit_exceeded"})]

MarkedGraduated(row) == [row EXCEPT !.status = "graduated", !.ready = FALSE]

-----------------------------------------------------------------------------
(* Rewriting a file *)

Empty == [registry   |-> [p \in Partners |-> None],
          sandbox    |-> [p \in Partners |-> FALSE],   \* does the sandbox key work?
          production |-> [p \in Partners |-> 0]]       \* how many production keys work

Files == {"registry", "sandbox", "production"}
Contents == [registry   |-> [Partners -> Rows \cup {None}],
             sandbox    |-> [Partners -> BOOLEAN],
             production |-> [Partners -> Nat]]
\* What an actor may hold of a file in memory.
Copies(f) == [file : {f}, open : BOOLEAN, content : Contents[f]]

ASSUME NoneAssumption == None \notin Rows /\ \A f \in Files : None \notin Copies(f)

\* The latest events of p may fill one minute.
Bursts(p) ==
  {FALSE} \cup
    {b \in {TRUE} : log[p]["validation_failed"] + log[p]["blocked_tool"]
                      + log[p]["blocked_path"] + log[p]["rate_limit_exceeded"]
                      + log[p]["emergency_stop"] + log[p]["registered"]
                      + log[p]["graduated"] >= BurstSize}

\* Is there anything to write?  A registry without the partner and a store without
\* a key to revoke are left alone.
Writes(f, old, p, marks) ==
  CASE f = "registry" -> old[p] # None
    [] f = "sandbox"  -> "revoke" \in marks => old[p]
    [] OTHER          -> TRUE

\* Mutant: the grade is taken before the security milestones are refreshed.
RewrittenEarly(f, old, p, marks, burst) ==
  CASE f = "registry"   -> [old EXCEPT ![p] =
                              IF "graduate" \in marks THEN MarkedGraduated(@)
                              ELSE Refreshed(Graded(Applied(@, marks)), burst)]
    [] f = "sandbox"    -> [old EXCEPT ![p] = "issue" \in marks]
    [] f = "production" -> [old EXCEPT ![p] = IF "issue" \in marks THEN @ + 1 ELSE @]

Rewritten(f, old, p, marks, burst) ==
  CASE f = "registry"   -> [old EXCEPT ![p] =
                              IF "graduate" \in marks THEN MarkedGraduated(@)
                              ELSE Graded(Refreshed(Applied(@, marks), burst))]
    [] f = "sandbox"    -> [old EXCEPT ![p] = "issue" \in marks]
    [] f = "production" -> [old EXCEPT ![p] = IF "issue" \in marks THEN @ + 1 ELSE @]

-----------------------------------------------------------------------------
(* The steps that handlers, chains and scripts are made of *)

Rewrite(f, p, marks) == <<[do |-> "rewrite", file |-> f, p |-> p, marks |-> marks]>>
Note(kind, p) == <<[do |-> "note", p |-> p, kind |-> kind]>>

\* record_sandbox_security_event: the event log first, then the registry.
SecurityEvent(kind, p) == Note(kind, p) \o Rewrite("registry", p, {kind})

Registration(p) ==
  <<[do |-> "append", p |-> p]>> \o Rewrite("sandbox", p, {"issue"})
    \o SecurityEvent("registered", p)

\* What the handler of /orchestrate/handoff-chain does when its chain has ended.
Aftermath(p, summary) ==
  LET stopped == "emergency_stop" \in summary
      reviewed == Rewrite("registry", p, {"recruitment_ready"})
  IN  Rewrite("registry", p, summary)
        \o (IF "recruiter_entry" \in summary /\ ~stopped THEN reviewed ELSE <<>>)
        \o (IF stopped THEN SecurityEvent("emergency_stop", p) ELSE <<>>)
        \o (IF "ready_to_send" \in summary THEN reviewed ELSE <<>>)

\* Mutants: the partner is marked before it has a key; it is never marked; it loses the
\* sandbox before it has a key.
GraduationMarksFirst(p) ==
  <<[do |-> "assess", p |-> p]>>
    \o Rewrite("registry", p, {"graduate"}) \o Rewrite("production", p, {"issue"})
    \o Rewrite("sandbox", p, {"revoke"}) \o Note("graduation_log", p)
    \o SecurityEvent("graduated", p)
GraduationUnmarked(p) ==
  <<[do |-> "assess", p |-> p]>>
    \o Rewrite("production", p, {"issue"}) \o Rewrite("sandbox", p, {"revoke"})
    \o Note("graduation_log", p) \o SecurityEvent("graduated", p)

GraduationRevokesFirst(p) ==
  <<[do |-> "assess", p |-> p]>>
    \o Rewrite("sandbox", p, {"revoke"}) \o Rewrite("production", p, {"issue"})
    \o Rewrite("registry", p, {"graduate"}) \o Note("graduation_log", p)
    \o SecurityEvent("graduated", p)

\* graduate_partner
Graduation(p) ==
  <<[do |-> "assess", p |-> p]>>
    \o Rewrite("production", p, {"issue"}) \o Rewrite("sandbox", p, {"revoke"})
    \o Rewrite("registry", p, {"graduate"}) \o Note("graduation_log", p)
    \o SecurityEvent("graduated", p)

Idle(a) == todo[a] = <<>>
Does(a, what) == ~Idle(a) /\ Head(todo[a]).do = what
Target(a) == Head(todo[a]).p
Advance(a) == todo' = [todo EXCEPT ![a] = Tail(@)]
Start(a, steps) == Idle(a) /\ todo' = [todo EXCEPT ![a] = steps]

\* A row is appended to the registry; the file is not rewritten.
AppendRow(a) ==
  /\ Does(a, "append")
  /\ disk' = [disk EXCEPT !.registry[Target(a)] = NewRow]
  /\ Advance(a)
  /\ UNCHANGED <<log, registered, chain, handoffs, mem, wiped, crashes>>

WriteLog(a) ==
  /\ Does(a, "note")
  /\ log' = [log EXCEPT ![Target(a)][Head(todo[a]).kind] = @ + 1]
  /\ Advance(a)
  /\ UNCHANGED <<disk, registered, chain, handoffs, mem, wiped, crashes>>

\* The file is read and changed in memory.
Read(a) ==
  /\ Does(a, "rewrite") /\ mem[a] = None
  /\ LET s == Head(todo[a])
         old == disk[s.file]
     IN  IF Writes(s.file, old, s.p, s.marks)
         THEN /\ \E burst \in Bursts(s.p) :
                   mem' = [mem EXCEPT ![a] =
                            [file |-> s.file, open |-> FALSE,
                             content |-> Rewritten(s.file, old, s.p, s.marks, burst)]]
              /\ UNCHANGED todo
         ELSE Advance(a) /\ UNCHANGED mem
  /\ UNCHANGED <<disk, log, registered, chain, handoffs, wiped, crashes>>

\* Opening the file for writing empties it.
Open(a) ==
  /\ mem[a] # None /\ ~mem[a].open
  /\ disk' = [disk EXCEPT ![mem[a].file] = Empty[mem[a].file]]
  /\ mem' = [mem EXCEPT ![a].open = TRUE]
  /\ UNCHANGED <<log, registered, chain, handoffs, todo, wiped, crashes>>

Write(a) ==
  /\ mem[a] # None /\ mem[a].open
  /\ disk' = [disk EXCEPT ![mem[a].file] = mem[a].content]
  /\ mem' = [mem EXCEPT ![a] = None]
  /\ Advance(a)
  /\ UNCHANGED <<log, registered, chain, handoffs, wiped, crashes>>

\* Mutant: the status is compared with the one partners register with.
AssessSandboxOnly(a) ==
  /\ Does(a, "assess")
  /\ LET r == disk.registry[Target(a)]
     IN  IF r # None /\ r.status = "sandbox" /\ r.ready
         THEN Advance(a)
         ELSE todo' = [todo EXCEPT ![a] = <<>>]
  /\ UNCHANGED <<disk, log, registered, chain, handoffs, mem, wiped, crashes>>

\* assess_graduation_readiness: the graduation goes on only if the partner is ready.
Assess(a) ==
  /\ Does(a, "assess")
  /\ LET r == disk.registry[Target(a)]
     IN  IF r # None /\ r.status # "graduated" /\ r.ready
         THEN Advance(a)
         ELSE todo' = [todo EXCEPT ![a] = <<>>]
  /\ UNCHANGED <<disk, log, registered, chain, handoffs, mem, wiped, crashes>>

Continue(a) == AppendRow(a) \/ WriteLog(a) \/ Read(a) \/ Open(a) \/ Write(a) \/ Assess(a)

-----------------------------------------------------------------------------
(* Requests, chains, the command line *)

OffencesOf(p) == log[p]["validation_failed"] + log[p]["blocked_tool"]
                   + log[p]["blocked_path"] + log[p]["rate_limit_exceeded"]

\* A request of p is let in: the sandbox key is looked up in the file.
LetIn(p) == Idle(Loop) /\ disk.sandbox[p]

Register(p) ==
  /\ p \notin registered
  /\ Start(Loop, Registration(p))
  /\ registered' = registered \cup {p}
  /\ UNCHANGED <<disk, log, chain, handoffs, mem, wiped, crashes>>

\* An agent account is registered or rotates its key: the same key store is
\* rewritten for an id that is not a partner's.
IssueAgentKey(p) ==
  /\ p \in registered
  /\ Start(Loop, Rewrite("production", p, {}))
  /\ UNCHANGED <<disk, log, registered, chain, handoffs, mem, wiped, crashes>>

\* /onboarding/validate with a valid profile.
ValidateProfile(p) ==
  /\ LetIn(p)
  /\ Start(Loop, Rewrite("registry", p, {"profile_validated"}))
  /\ UNCHANGED <<disk, log, registered, chain, handoffs, mem, wiped, crashes>>

\* /onboarding/validate with an invalid profile, a path that is closed to the
\* sandbox, or one request too many in a minute.
Offend(p, kind) ==
  /\ LetIn(p)
  /\ kind \in Kinds \ {"blocked_tool"} /\ OffencesOf(p) < MaxOffences
  /\ Start(Loop, SecurityEvent(kind, p))
  /\ UNCHANGED <<disk, log, registered, chain, handoffs, mem, wiped, crashes>>

Graduate(a, p) ==
  /\ a \in Operators /\ p \in registered
  /\ log[p]["graduation_log"] < MaxGraduations
  /\ Start(a, Graduation(p))
  /\ UNCHANGED <<disk, log, registered, chain, handoffs, mem, wiped, crashes>>

StartChain(c, p) ==
  /\ LetIn(p)
  /\ chain[c] = None /\ handoffs < MaxHandoffs
  /\ chain' = [chain EXCEPT ![c] = p]
  /\ handoffs' = handoffs + 1
  /\ UNCHANGED <<disk, log, registered, todo, mem, wiped, crashes>>

\* The gate refuses a tool that an agent of the chain asks for.
BlockTool(c) ==
  /\ chain[c] # None
  /\ "blocked_tool" \in Kinds /\ OffencesOf(chain[c]) < MaxOffences
  /\ Start(c, SecurityEvent("blocked_tool", chain[c]))
  /\ UNCHANGED <<disk, log, registered, chain, handoffs, mem, wiped, crashes>>

\* The chain returns and its handler goes on in the event loop.
EndChain(c, summary) ==
  /\ chain[c] # None /\ Idle(c)
  /\ Start(Loop, Aftermath(chain[c], summary))
  /\ chain' = [chain EXCEPT ![c] = None]
  /\ UNCHANGED <<disk, log, registered, handoffs, mem, wiped, crashes>>

\* The chain raises an exception and its handler answers 500.
FailChain(c) ==
  /\ chain[c] # None /\ Idle(c)
  /\ chain' = [chain EXCEPT ![c] = None]
  /\ UNCHANGED <<disk, log, registered, handoffs, todo, mem, wiped, crashes>>

\* A process dies with all its threads: a file it has just opened stays empty.
Crash(dead) ==
  /\ \E a \in dead : ~Idle(a)
  /\ crashes < MaxCrashes
  /\ wiped' = wiped \cup {mem[a].file : a \in {b \in dead : mem[b] # None /\ mem[b].open}}
  /\ todo' = [a \in Actors |-> IF a \in dead THEN <<>> ELSE todo[a]]
  /\ mem' = [a \in Actors |-> IF a \in dead THEN None ELSE mem[a]]
  /\ chain' = [c \in Chains |-> IF c \in dead THEN None ELSE chain[c]]
  /\ crashes' = crashes + 1
  /\ UNCHANGED <<disk, log, registered, handoffs>>

-----------------------------------------------------------------------------
Init ==
  /\ disk = Empty
  /\ log = [p \in Partners |-> [k \in LogKinds |-> 0]]
  /\ registered = {} /\ handoffs = 0 /\ wiped = {} /\ crashes = 0
  /\ chain = [c \in Chains |-> None]
  /\ todo = [a \in Actors |-> <<>>]
  /\ mem = [a \in Actors |-> None]

Request(p) ==
  \/ Register(p)
  \/ IssueAgentKey(p)
  \/ ValidateProfile(p)
  \/ \E kind \in Kinds : Offend(p, kind)
  \/ \E a \in Operators : Graduate(a, p)
  \/ \E c \in Chains : StartChain(c, p)

RunChain(c) ==
  \/ BlockTool(c)
  \/ \E summary \in Summaries : EndChain(c, summary)
  \/ FailChain(c)

Next ==
  \/ \E a \in Actors : Continue(a)
  \/ \E p \in Partners : Request(p)
  \/ \E c \in Chains : RunChain(c)
  \/ Crash(Server) \/ Crash({Cli})

Spec == Init /\ [][Next]_vars

\* What has been started goes on, and an operator who wants to graduate a partner
\* asks until the request gets its turn in the event loop.
FairSpec ==
  /\ Spec
  /\ \A a \in Actors : WF_vars(Continue(a))
  /\ \A p \in Partners : SF_vars(\E a \in Operators : Graduate(a, p))

-----------------------------------------------------------------------------
(* Properties *)

Row(p) == disk.registry[p]
Ready(p) == Row(p) # None /\ Row(p).ready
Graduated(p) == Row(p) # None /\ Row(p).status = "graduated"

\* Somebody is at work on p, or on a file p is in.
Busy(p) == \E a \in Actors : mem[a] # None \/ \E i \in DOMAIN todo[a] : todo[a][i].p = p

\* Every variable holds values of its kind.
TypeOK ==
  /\ DOMAIN disk = DOMAIN Empty
  /\ disk.registry \in [Partners -> Rows \cup {None}]
  /\ disk.sandbox \in [Partners -> BOOLEAN]
  /\ disk.production \in [Partners -> Nat]
  /\ log \in [Partners -> [LogKinds -> Nat]]
  /\ registered \subseteq Partners
  /\ chain \in [Chains -> Partners \cup {None}]
  /\ wiped \subseteq DOMAIN Empty
  /\ \A a \in Actors : mem[a] # None => Does(a, "rewrite") /\ mem[a].file = Head(todo[a]).file

\* The whole row is computed from one copy of it, so whoever interleaves, a ready
\* row carries its milestones, no flag and no event that costs a flag.
ReadyIsEarned ==
  \A p \in Partners :
    Row(p) # None =>
      /\ Row(p).ready <=> Row(p).status = "graduation_ready"
      /\ Row(p).ready => /\ Row(p).done = Milestones /\ Row(p).flags = {}
                         /\ Row(p).stops = 0 /\ Row(p).blocked = 0
                         /\ Row(p).failed < FailedThreshold /\ Row(p).hits < RateThreshold

\* A partner that is ready for graduation has no emergency stop and no blocked tool
\* or path in its logs, but for one a crash kept from the registry.
CleanHistory ==
  \A p \in Partners :
    Ready(p) /\ ~Busy(p) =>
      log[p]["emergency_stop"] + log[p]["blocked_tool"] + log[p]["blocked_path"] <= crashes

\* A file is empty for the moment, or for good.
Gone(f) == f \in wiped \/ \E a \in Actors : mem[a] # None /\ mem[a].file = f /\ mem[a].open

\* A partner is graduated for good: whatever events and handoffs follow, the registry
\* says what the graduation log says, and only the loss of the whole file changes that.
GraduatedIsFinal ==
  \A p \in Partners :
    log[p]["graduation_log"] > 0 => Graduated(p) \/ (Row(p) = None /\ Gone("registry"))

\* A graduated partner holds a production key and no sandbox key.
GraduatedHoldsKey ==
  \A p \in Partners :
    Graduated(p) => ~disk.sandbox[p] /\ (disk.production[p] > 0 \/ Gone("production"))

\* A partner gets a second production key only when a crash cut off the graduation
\* that issued the first.
NoSecondKey == \A p \in Partners : disk.production[p] <= 1 + crashes

\* What a file holds when the loop has finished the rewrite it has begun.
Opened == mem[Loop] # None /\ mem[Loop].open
View(f) == IF Opened /\ mem[Loop].file = f THEN mem[Loop].content ELSE disk[f]
StageOf(row) ==
  IF row = None THEN "none" ELSE IF row.status = "graduated" THEN "graduated" ELSE "candidate"
Stage == [p \in Partners |-> StageOf(View("registry")[p])]
Admitted == {p \in Partners : View("sandbox")[p]}

Life == INSTANCE PartnerLifecycle WITH
  known <- registered, stage <- Stage, admitted <- Admitted, keys <- View("production"),
  crashes <- crashes

\* The loop, alone at the files, implements the life of a partner: every rewrite takes
\* effect at one moment, and whatever it grants, revokes or marks comes in the order the
\* life allows, across requests, chains and crashes.
ImplementsLifecycle == Life!Spec

\* A ready partner is graduated, whatever crashes on the way, unless an offence or
\* the loss of the registry ends its readiness first.
ReadyIsGraduated ==
  \A p \in Partners : Ready(p) ~> (Graduated(p) \/ (~Ready(p) /\ ~Busy(p)))
=============================================================================
