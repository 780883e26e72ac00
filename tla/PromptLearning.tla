--------------------------- MODULE PromptLearning ---------------------------
(***************************************************************************)
(* The learning loop (arclya2a/learning): what happened is turned into     *)
(* changes of the prompts the agents run on.  The event loop runs the      *)
(* scheduler's cycles and the /learning routes, one at a time; the thread  *)
(* of a meta_optimizer chain and the operator's script work beside it.     *)
(* All of them read whole files, change them in memory and write them      *)
(* back; a cycle that fails is tried again at the next check.              *)
(***************************************************************************)
EXTENDS LearningSignals

CONSTANTS
  Threads,        \* chains of the meta_optimizer, and the script apply_prompt_patches
  DemoReports,    \* reports handed in
  LlmSignals,     \* what the model may say: issues, recommendations and a prompt
  MinDeals,       \* ARCLYA_LEARNING_MIN_DEALS; 0: never because of deals
  AutoApply,      \* ARCLYA_AUTO_APPLY_LOW_RISK
  Histories,      \* what the logs may hold when the loop starts to learn
  Ongoing,        \* rows that may come while it does
  MaxEvents,      \* bound: how often they come
  MaxTroubles     \* bound: jobs besides the scheduler's cycles, and deaths of the process

ASSUME LearningAssumption ==
  /\ MinDeals \in Nat /\ AutoApply \in BOOLEAN /\ MaxEvents \in Nat
  /\ MaxTroubles \in Nat /\ Histories \subseteq Logs /\ Ongoing \subseteq Events
  /\ \A llm \in LlmSignals : llm.recs \subseteq OwnWords /\ llm.target \in Targets

Loop == "loop"
Workers == {Loop} \cup Threads

VARIABLES
  log,            \* what happened, and how often
  signals,        \* newest rows of the execution, security and demo signal files
  rows,           \* patch_outcomes.jsonl: its rows; whole unless a line of it was cut
  patches,        \* learning/prompt_patches/<patch_id>.json
  index,          \* [Targets -> is the index of its patches whole?]
  prompt,         \* [Targets -> its text: the original, and the changes in it]
  effective,      \* [Targets -> recommendations merged into <prompt>_effective.md, or None]
  learned,        \* [Targets -> recommendations in <prompt>_learned.md]
  applied,        \* applied_patches.jsonl
  state,          \* scheduler_state.json
  due,            \* interval_hours have passed since last_run_at
  work,           \* [Workers -> what it is doing]
  analysed,       \* history: deals a finished cycle looked at
  approved,       \* history: changes an operator applied
  spoiled,        \* history: files two writers had open at once, or a crash cut
  troubles        \* how many jobs were asked for, and how often the process died

files == <<signals, rows, patches, index, prompt, effective, learned, applied, state>>
history == <<analysed, approved, spoiled>>
vars == <<log, files, due, work, history, troubles>>

Idle == [job |-> "none", stage |-> "idle", base |-> None, sig |-> None, rows |-> None,
         deals |-> 0, todo |-> {}, kept |-> {}, did |-> FALSE, patch |-> None, text |-> None]

Original == [whole |-> TRUE, items |-> {}]
NeverRan == [ran |-> FALSE, deals |-> 0]
Empty == [whole |-> FALSE, items |-> {}]
Untracked == [whole |-> TRUE, all |-> {}]

Init ==
  /\ log \in Histories
  /\ signals = [execution |-> None, security |-> None, demo |-> None]
  /\ rows = Untracked /\ patches = {} /\ applied = {}
  /\ effective = [t \in Targets |-> None] /\ learned = [t \in Targets |-> {}]
  /\ index = [t \in Targets |-> TRUE]
  /\ prompt = [t \in Targets |-> Original]
  /\ state = NeverRan
  /\ due = FALSE
  /\ work = [w \in Workers |-> Idle]
  /\ analysed = 0 /\ approved = {} /\ spoiled = {}
  /\ troubles = 0

-----------------------------------------------------------------------------
(* Files that are read, changed in memory and written back *)

Outcomes == <<"outcomes", "all">>

Held(held, file) == IF held THEN {file} ELSE {}

\* What a crash of w now would cut: emptied, or in the middle of being written.
Cut(w) ==
  LET k == work[w]
  IN  Held(k.stage = "index", <<"index", k.patch.item.target>>)
        \cup Held(k.stage = "write", <<"prompt", k.patch.item.target>>)
        \cup Held(k.stage = "track" \/ k.rows # None, Outcomes)
        \cup Held(k.stage = "save", <<"state", "all">>)

\* What w has read in order to write it back.
Open(w) ==
  Held(work[w].stage = "empty", <<"prompt", work[w].patch.item.target>>)
    \cup (IF work[w].stage = "track" THEN {} ELSE Cut(w))

\* w turns to a file that another worker has open.
Touch(w, file) ==
  spoiled' = spoiled \cup {f \in {file} : \E v \in Workers \ {w} : f \in Open(v)}

At(w, stage) == work[w].stage = stage
Step(w, change) == work' = [work EXCEPT ![w] = change]
Stop(w) == Step(w, Idle)

-----------------------------------------------------------------------------
(* Deals, tool calls and scans go on; time passes *)

Happen(e) ==
  /\ Count(log, Ongoing) < MaxEvents
  /\ log' = [log EXCEPT ![e] = @ + 1]
  /\ UNCHANGED <<files, due, work, history, troubles>>

Elapse ==
  /\ ~due /\ state.ran
  /\ due' = TRUE
  /\ UNCHANGED <<log, files, work, history, troubles>>

-----------------------------------------------------------------------------
(* Who starts what *)

\* should_run_learning: enough new deals, never run, or not for interval_hours.
EnoughDeals == MinDeals > 0 /\ NumberOfDeals(log) - state.deals >= MinDeals

\* Mutant: time alone brings no cycle about.
RunsForDeals == EnoughDeals \/ ~state.ran

ShouldRun == EnoughDeals \/ ~state.ran \/ due

Start(w, change) ==
  /\ At(w, "idle")
  /\ Step(w, change)
  /\ UNCHANGED <<log, due, history>>

Trouble == troubles < MaxTroubles /\ troubles' = troubles + 1
Analysis(job, report) ==
  [Idle EXCEPT !.job = job, !.stage = "execution", !.sig = report]

\* BackgroundLearningScheduler: a cycle runs to its end before the loop turns elsewhere.
StartCycle ==
  /\ ShouldRun
  /\ Start(Loop, Analysis("cycle", None))
  /\ UNCHANGED <<files, troubles>>

\* A check that finds nothing due.
Skip ==
  /\ At(Loop, "idle") /\ ~ShouldRun
  /\ UNCHANGED vars

\* /learning/run, with a demo report or without; /learning/execution-analyze only emits
\* a signal.
StartManual(job, report) ==
  /\ Trouble
  /\ Start(Loop, Analysis(job, report))
  /\ UNCHANGED files

\* /learning/campaign and /learning/demo-outcomes run the chain on the event loop.
StartOptimizer(report) ==
  /\ Trouble
  /\ Start(Loop, Analysis("optimize", report))
  /\ signals' = IF report = None THEN signals
                ELSE [signals EXCEPT !.demo = DemoSignal(report)]
  /\ UNCHANGED <<rows, patches, index, prompt, effective, learned, applied, state>>

\* A chain of its own whose answer is COMPLETE and names issues of the model's own.
StartChain(w, llm) ==
  /\ Trouble
  /\ Start(w, [Idle EXCEPT !.job = "chain", !.stage = "signal",
                  !.sig = MergeMeta(signals.execution, signals.security, signals.demo, llm)])
  /\ UNCHANGED files

\* apply_patch_by_id for an operator, by route or script.  Changes applied before or
\* blocked come back as they are.
StartApply(w, p) ==
  /\ Trouble
  /\ p \in patches /\ p.status = "pending"
  /\ Start(w, [Idle EXCEPT !.job = "apply", !.stage = "check", !.patch = p])
  /\ UNCHANGED files

-----------------------------------------------------------------------------
(* Signals, and what became of earlier changes *)

\* Mutant: an issue that is still there gets the name the dashboard has for it.
SettledByName(known, issues) ==
  {IF r.outcome = "resolved" THEN r
   ELSE [r EXCEPT !.outcome = IF r.item.issue \in issues THEN "still_open" ELSE "resolved"] :
     r \in known}

\* evaluate_patch_outcomes: an issue not in this signal counts as resolved.
Settled(known, issues) ==
  {IF r.outcome = "resolved" THEN r
   ELSE [r EXCEPT !.outcome = IF r.item.issue \in issues THEN "unresolved" ELSE "resolved"] :
     r \in known}

\* The signal a stage is about.
SignalAt(k) ==
  CASE k.stage = "execution" -> ExecutionSignal(log, k.sig)
    [] k.stage = "security" -> SecuritySignal(log)
    [] k.stage = "merged" -> MergeDemo(MergeSecurity(k.base, k.sig), signals.demo)
    [] k.stage = "signal" -> k.sig

\* Analyse the logs and read the outcomes so far; if they do not parse the job fails.
Analyse(w) ==
  LET k == work[w]
  IN  /\ k.stage \in {"execution", "security", "merged", "signal"} /\ k.rows = None
      /\ IF ~rows.whole THEN Stop(w)
         ELSE Step(w, [k EXCEPT !.sig = SignalAt(k), !.rows = rows.all,
                                !.deals = IF k.stage = "execution" THEN NumberOfDeals(log) ELSE @])
      /\ Touch(w, Outcomes)
      /\ UNCHANGED <<log, files, due, analysed, approved, troubles>>

\* Where a job goes from a stage, once the outcomes are settled.
AfterStage(w, llm) ==
  LET k == [work[w] EXCEPT !.rows = None]
  IN  CASE k.stage = "execution" /\ k.job = "cycle" ->
             [k EXCEPT !.stage = "security", !.base = k.sig]
        [] k.stage = "execution" /\ k.job = "optimize" ->
             [k EXCEPT !.stage = "signal",
                       !.sig = MergeMeta(k.sig, signals.security, signals.demo, llm)]
        [] k.stage = "execution" /\ k.job = "analyze" -> Idle
        [] k.stage = "security" -> [k EXCEPT !.stage = "merged"]
        [] k.stage = "merged" -> [k EXCEPT !.stage = "signal", !.base = None]
        [] k.stage = "signal" -> [k EXCEPT !.stage = "generate"]

\* The outcomes are rewritten if one of them changed, and the signal is appended.
Settle(w, llm) ==
  LET k == work[w]
      settled == Settled(k.rows, k.sig.issues)
  IN  /\ k.rows # None
      /\ rows' = IF settled = k.rows THEN rows ELSE [rows EXCEPT !.all = settled]
      /\ signals' = IF k.stage \in {"execution", "security"}
                    THEN [signals EXCEPT ![k.stage] = k.sig] ELSE signals
      /\ Step(w, AfterStage(w, llm))
      /\ UNCHANGED <<log, patches, index, prompt, effective, learned, applied, state, due, history,
                     troubles>>

-----------------------------------------------------------------------------
(* Changes are stored *)

\* generate_concrete_patches, filter_patches_by_isolation and enrich_patch.
Patched(sig, item) ==
  [item |-> item,
   status |-> IF AllowedBy(sig.isolation, item) THEN "pending" ELSE "isolation_blocked",
   isolation |-> Evidence(sig.isolation, item), recs |-> sig.recs, sure |-> FALSE]

Generate(w) ==
  /\ At(w, "generate")
  /\ \E items \in ConcreteItems(work[w].sig) :
       Step(w, [work[w] EXCEPT !.stage = "store",
                               !.todo = {Patched(work[w].sig, item) : item \in items}])
  /\ UNCHANGED <<log, files, due, history, troubles>>

\* store_prompt_patches: the patch's own file, then the index is read and emptied; an
\* index that is not whole ends the job.  The order of the changes is fixed.
Store(w) ==
  LET raw == CHOOSE x \in work[w].todo : TRUE
      p == [raw EXCEPT !.sure = Confident(raw.item, prompt[raw.item.target])]
      t == raw.item.target
  IN  /\ At(w, "store") /\ work[w].todo # {}
      /\ patches' = patches \cup {p}
      /\ Touch(w, <<"index", t>>)
      /\ IF index[t]
         THEN /\ index' = [index EXCEPT ![t] = FALSE]
              /\ Step(w, [work[w] EXCEPT !.stage = "index", !.patch = p,
                            !.todo = @ \ {raw},
                            !.kept = @ \cup {x \in {p} : p.status = "pending"}])
         ELSE index' = index /\ Stop(w)
      /\ UNCHANGED <<log, signals, rows, prompt, effective, learned, applied, state, due, analysed,
                     approved, troubles>>

WriteIndex(w) ==
  /\ At(w, "index")
  /\ index' = [index EXCEPT ![work[w].patch.item.target] = TRUE]
  /\ Step(w, [work[w] EXCEPT !.stage = "store", !.patch = None])
  /\ UNCHANGED <<log, signals, rows, patches, prompt, effective, learned, applied, state, due,
                 history, troubles>>

\* The recommendations are written down for a review, whatever becomes of the changes.
Learn(w) ==
  /\ At(w, "store") /\ work[w].todo = {}
  /\ learned' = [learned EXCEPT ![work[w].sig.target] = work[w].sig.recs]
  /\ Step(w, [work[w] EXCEPT !.stage = "choose"])
  /\ UNCHANGED <<log, signals, rows, patches, index, prompt, effective, applied, state, due,
                 history, troubles>>

-----------------------------------------------------------------------------
(* Changes are applied *)

\* Mutant: confidence is enough.
AutoConfident(p) == AutoApply /\ p.sure /\ AllowedBy(p.isolation, p.item)

\* should_auto_apply
AutoEligible(p) ==
  /\ AutoApply /\ p.sure
  /\ p.item.issue \in LowRisk
  /\ AllowedBy(p.isolation, p.item)

\* auto_apply_eligible_patches: the changes this job stored, one after the other.
Eligible(w) == {p \in work[w].kept \cap patches : AutoEligible(p)}

Consider(w) ==
  LET p == CHOOSE x \in Eligible(w) : TRUE
  IN  /\ At(w, "choose") /\ Eligible(w) # {}
      /\ Step(w, [work[w] EXCEPT !.stage = "check", !.kept = @ \ {p}, !.patch = p])
      /\ UNCHANGED <<log, files, due, history, troubles>>

\* Mutant: the change takes the place of earlier ones.
Replaced(text, item) == [text EXCEPT !.items = {item}]

\* apply_change_to_prompt
Inserted(text, item) == [text EXCEPT !.items = @ \cup {item}]

\* append_learned_pattern starts afresh from a file that does not parse.
Learned(text, item) == [Original EXCEPT !.items = text.items \cup {item}]

\* What a change makes of the text it was read from.
Changed(text, item) ==
  IF item.issue = "repeated_injection_pattern" THEN Learned(text, item) ELSE Inserted(text, item)

\* apply_patch_by_id checks the stored evidence once more; the prompt is read and
\* changed in memory.
ReadPrompt(w) ==
  LET p == work[w].patch
      t == p.item.target
      allowed == AllowedBy(p.isolation, p.item)
  IN  /\ At(w, "check")
      /\ IF allowed
         THEN /\ Step(w, [work[w] EXCEPT !.stage = "empty",
                                         !.text = Changed(prompt[t], p.item)])
              /\ patches' = patches
         ELSE /\ Stop(w)
              /\ patches' = (patches \ {p}) \cup {[p EXCEPT !.status = "isolation_blocked"]}
      /\ Touch(w, <<"prompt", t>>)
      /\ approved' = IF work[w].job = "apply" THEN approved \cup {p.item} ELSE approved
      /\ UNCHANGED <<log, signals, rows, index, prompt, effective, learned, applied, state, due,
                     analysed, troubles>>

\* write_text empties the file before it writes.
EmptyPrompt(w) ==
  /\ At(w, "empty")
  /\ prompt' = [prompt EXCEPT ![work[w].patch.item.target] = Empty]
  /\ Step(w, [work[w] EXCEPT !.stage = "write"])
  /\ UNCHANGED <<log, signals, rows, patches, index, effective, learned, applied, state, due,
                 history, troubles>>

\* If another worker wrote in between, what was longer there may stay behind the text.
WritePrompt(w) ==
  LET t == work[w].patch.item.target
      text == work[w].text
  IN  /\ At(w, "write")
      /\ \E torn \in {prompt[t] # Empty, FALSE} :
           prompt' = [prompt EXCEPT ![t] = [text EXCEPT !.whole = @ /\ ~torn]]
      /\ Step(w, [work[w] EXCEPT !.stage = "record", !.text = None])
      /\ UNCHANGED <<log, signals, rows, patches, index, effective, learned, applied, state, due,
                     history, troubles>>

\* The overlay is made anew from the prompt and what the change came with, or its weakness;
\* the patch file is rewritten and the log appended to.
Record(w) ==
  LET p == work[w].patch
      t == p.item.target
  IN  /\ At(w, "record")
      /\ effective' = IF t = "injection_patterns" THEN effective
                      ELSE [effective EXCEPT ![t] =
                              IF p.recs # {} THEN p.recs ELSE {p.item.issue}]
      /\ patches' = (patches \ {p}) \cup {[p EXCEPT !.status = "applied"]}
      /\ applied' = applied \cup {p.item}
      /\ Step(w, [work[w] EXCEPT !.stage = "track"])
      /\ UNCHANGED <<log, signals, rows, index, prompt, learned, state, due, history, troubles>>

\* record_patch_applied appends; to lines that no longer parse, too.
Track(w) ==
  LET k == work[w]
  IN  /\ At(w, "track")
      /\ rows' = [rows EXCEPT !.all = @ \cup {[item |-> k.patch.item, outcome |-> "pending"]}]
      /\ Touch(w, Outcomes)
      /\ Step(w, IF k.job = "apply" THEN Idle
                 ELSE [k EXCEPT !.stage = "choose", !.did = TRUE, !.patch = None])
      /\ UNCHANGED <<log, signals, patches, index, prompt, effective, learned, applied, state, due,
                     analysed, approved, troubles>>

-----------------------------------------------------------------------------
(* A job ends; the process dies *)

\* The overlay of the signal's own prompt is made anew if a change was applied, or if
\* there is none yet; a cycle goes on to save the scheduler's state.
Merge(w) ==
  LET k == work[w]
      t == k.sig.target
  IN  /\ k.stage = "choose" /\ Eligible(w) = {}
      /\ effective' = IF k.did \/ (k.sig.recs # {} /\ effective[t] = None)
                      THEN [effective EXCEPT ![t] = k.sig.recs] ELSE effective
      /\ Step(w, IF k.job = "cycle" THEN [Idle EXCEPT !.job = "cycle", !.stage = "save",
                                                      !.deals = k.deals]
                 ELSE Idle)
      /\ UNCHANGED <<log, signals, rows, patches, index, prompt, learned, applied, state, due,
                     history, troubles>>

\* The deals are counted again: those closed meanwhile count as learned from.
Save(w) ==
  /\ At(w, "save")
  /\ state' = [ran |-> TRUE, deals |-> NumberOfDeals(log)]
  /\ due' = FALSE
  /\ analysed' = IF work[w].deals > analysed THEN work[w].deals ELSE analysed
  /\ Stop(w)
  /\ UNCHANGED <<log, signals, rows, patches, index, prompt, effective, learned, applied, approved,
                 spoiled, troubles>>

\* Files caught between emptying and writing lose what they held, or keep half a line.
Crash ==
  /\ Trouble
  /\ LET cut == UNION {Cut(w) : w \in Workers}
     IN  /\ spoiled' = spoiled \cup cut
         /\ rows' \in IF Outcomes \in cut THEN {rows, Untracked, [Untracked EXCEPT !.whole = FALSE]}
                   ELSE {rows}
         /\ state' \in IF <<"state", "all">> \in cut THEN {state, NeverRan} ELSE {state}
  /\ work' = [w \in Workers |-> Idle]
  /\ UNCHANGED <<log, signals, patches, index, prompt, effective, learned, applied, due, analysed,
                 approved>>

-----------------------------------------------------------------------------
Steps(w) ==
  \/ Analyse(w) \/ (\E llm \in LlmSignals : Settle(w, llm)) \/ Generate(w)
  \/ Store(w) \/ WriteIndex(w) \/ Learn(w) \/ Consider(w)
  \/ ReadPrompt(w) \/ EmptyPrompt(w) \/ WritePrompt(w) \/ Record(w) \/ Track(w)
  \/ Merge(w) \/ Save(w)

Next ==
  \/ \E e \in Ongoing : Happen(e)
  \/ Elapse \/ StartCycle \/ Skip \/ Crash
  \/ \E report \in DemoReports \cup {None} :
       \/ \E job \in {"cycle", "analyze"} : StartManual(job, report)
       \/ StartOptimizer(report)
  \/ \E w \in Threads, llm \in LlmSignals : StartChain(w, llm)
  \/ \E w \in Workers, p \in patches : StartApply(w, p)
  \/ \E w \in Workers : Steps(w)

Spec == Init /\ [][Next]_vars

\* The loop takes what is ready in turn: a check that is due comes round whatever
\* requests arrive.  Nothing is assumed of the threads.
FairSpec == Spec /\ WF_vars(Elapse) /\ SF_vars(StartCycle) /\ WF_vars(Steps(Loop))

-----------------------------------------------------------------------------
Items == [issue : Templates \cup {"repeated_injection_pattern", "reinforcement"},
          of : SUBSET (Recommendations \cup Patterns), target : Targets]
Patches == [item : Items, status : {"pending", "applied", "isolation_blocked"},
            isolation : Isolations \cup {None}, recs : SUBSET Recommendations, sure : BOOLEAN]
\* A reinforcement always comes with recommendations; any other change has a weakness.
Overlays == SUBSET (Recommendations \cup {"reinforcement"})
Texts == [whole : BOOLEAN, items : SUBSET Items]
Rows == [item : Items, outcome : {"pending", "unresolved", "resolved"}]

\* Every variable keeps the shape its file or its place in memory has.
TypeOK ==
  /\ log \in Logs
  /\ signals \in [{"execution", "security", "demo"} -> Signals \cup {None}]
  /\ rows \in [whole : BOOLEAN, all : SUBSET Rows]
  /\ patches \in SUBSET Patches
  /\ index \in [Targets -> BOOLEAN] /\ prompt \in [Targets -> Texts]
  /\ effective \in [Targets -> Overlays \cup {None}]
  /\ learned \in [Targets -> SUBSET Recommendations]
  /\ applied \in SUBSET Items /\ approved \in SUBSET Items
  /\ state \in [ran : BOOLEAN, deals : Nat] /\ due \in BOOLEAN
  /\ \A w \in Workers : work[w].todo \in SUBSET Patches /\ work[w].kept \in SUBSET Patches
  /\ analysed \in Nat /\ troubles \in 0..MaxTroubles

\* No text and no recommendation the three sandbox issues stand for reaches a prompt, an
\* overlay or a learned file, and no text for what a single partner did is in a prompt
\* unless enough others did it too: not through a cycle, a chain whose model names the
\* issue itself, an operator who applies every stored change, or a retry.  A pattern that
\* only one partner used and a single partner's recommendation are not kept out.
\* (cross_agent_isolation.py:13, "must never promote to production-global patches")
NothingFromSandbox ==
  \A t \in Targets :
    /\ learned[t] \cap SandboxOnly = {}
    /\ effective[t] # None => effective[t] \cap SandboxOnly = {}
    /\ \A item \in prompt[t].items :
         /\ item.issue \notin SandboxOnly
         /\ item.issue = "reinforcement" => item.of \cap SandboxOnly = {}
         /\ item.issue \in PartnerScoped =>
              \E p \in patches : /\ p.item = item /\ p.isolation # None
                                 /\ Cardinality(p.isolation.actors) >= MinActors

\* The prompts themselves hold nothing of medium or high risk that no operator applied,
\* and of recommendations no text as long as 150 characters, however cycles, chains and
\* operators come together.  Overlays and learned files take recommendations unreviewed.
\* (patch_safety.should_auto_apply, docs: "low-risk auto-apply")
OnlyReviewed ==
  \A t \in Targets : \A item \in prompt[t].items :
    \/ item \in approved
    \/ /\ item.issue \in LowRisk
       /\ item.issue = "reinforcement" => Short(item.of)

\* What is logged as applied is in its prompt, which is whole but for the moment it is
\* written, and its outcome is tracked: only a crash in the window between reading and
\* writing back, or two writers in it, can lose a change or the text around it.
AppliedIsKept ==
  /\ \A t \in Targets :
       \/ <<"prompt", t>> \in spoiled
       \/ \E w \in Workers : <<"prompt", t>> \in Cut(w)
       \/ /\ prompt[t].whole
          /\ {item \in applied : item.target = t} \subseteq prompt[t].items
  /\ \/ Outcomes \in spoiled
     \/ \A item \in applied :
          \/ \E w \in Workers : At(w, "track") /\ work[w].patch.item = item
          \/ \E r \in rows.all : r.item = item

\* Every closed deal is looked at by a cycle that comes to its end, whether it was closed
\* before, during or after another cycle, unless an index or the outcomes were damaged.
DealsAreLearned ==
  \A n \in 1..MaxEvents :
    (NumberOfDeals(log) >= n) ~>
      \/ analysed >= n
      \/ spoiled \cap ({Outcomes} \cup {<<"index", t>> : t \in Targets}) # {}
=============================================================================
