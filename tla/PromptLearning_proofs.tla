----------------------- MODULE PromptLearning_proofs -----------------------
(***************************************************************************)
(* Proofs about PromptLearning, for any number of partners, patterns,      *)
(* threads, jobs and deaths of the process, and for all that the logs, the *)
(* reports and the model may hold.                                         *)
(***************************************************************************)
EXTENDS PromptLearning, TLAPS, FiniteSetTheorems

-----------------------------------------------------------------------------
(* What prompts may hold *)

\* What has the fields of a change, of a text or of a job can be changed field by field.
PatchFields == {"item", "status", "isolation", "recs", "sure"}
TextFields == {"whole", "items"}
JobFields == {"job", "stage", "base", "sig", "rows", "deals", "todo", "kept", "did", "patch",
              "text"}
IsPatch(p) == p = [f \in PatchFields |-> p[f]]
IsText(x) == x = [f \in TextFields |-> x[f]]
IsJob(k) == k = [f \in JobFields |-> k[f]]

\* Changes that may be applied without a review.
Safe(item) ==
  item.issue \in LowRisk /\ (item.issue = "reinforcement" => Short(item.of))

\* What the checks of patch p leave behind of it in the files.
Stored(p) == \E q \in patches : q.item = p.item /\ q.isolation = p.isolation

Clean(item) ==
  /\ item.issue \notin SandboxOnly
  /\ item.issue \in PartnerScoped =>
       \E p \in patches : /\ p.item = item /\ p.isolation # None
                          /\ Cardinality(p.isolation.actors) >= MinActors

Fit(item) == Clean(item) /\ (item \in approved \/ Safe(item))

Analysing == {"execution", "security", "merged", "signal"}
Applying == {"check", "empty", "write", "record"}

\* What a job has read and carries from one of its steps to the next.
JobOK(k) ==
  /\ IsJob(k)
  /\ k.rows # None => k.stage \in Analysing
  /\ k.stage = "execution" => k.job \in {"cycle", "optimize", "analyze"}
  /\ \A x \in k.todo : IsPatch(x)
  /\ \A x \in k.kept : x.sure /\ x.item.issue = "reinforcement" => Short(x.item.of)
  /\ k.stage \in Applying => IsPatch(k.patch)
  /\ k.stage = "check" => Stored(k.patch) /\ (k.job = "apply" \/ Safe(k.patch.item))
  /\ k.stage \in {"empty", "write"} =>
       (k.patch.item.target \in Targets =>
          IsText(k.text) /\ \A item \in k.text.items : Fit(item))

PromptsOK ==
  /\ prompt = [t \in Targets |-> prompt[t]]
  /\ \A t \in Targets : IsText(prompt[t]) /\ \A item \in prompt[t].items : Fit(item)

JobsOK ==
  /\ work = [w \in Workers |-> work[w]]
  /\ \A w \in Workers : JobOK(work[w])

IInv == (\A p \in patches : IsPatch(p)) /\ PromptsOK /\ JobsOK

-----------------------------------------------------------------------------
(* What all steps share *)

\* Changes stay stored, and an operator's word stays given.
Kept ==
  /\ \A p \in patches : \E q \in patches' : q.item = p.item /\ q.isolation = p.isolation
  /\ approved \subseteq approved'

LEMMA StoredStays ==
  ASSUME Kept, NEW p, Stored(p)
  PROVE  Stored(p)'
<1>1. PICK q \in patches : q.item = p.item /\ q.isolation = p.isolation
  BY DEF Stored
<1>2. PICK r \in patches' : r.item = q.item /\ r.isolation = q.isolation
  BY DEF Kept
<1> QED BY <1>1, <1>2 DEF Stored

LEMMA FitStays ==
  ASSUME Kept, NEW item, Fit(item)
  PROVE  Fit(item)'
<1>1. Clean(item)'
  <2>1. ASSUME NEW p \in patches, p.item = item, p.isolation # None,
               Cardinality(p.isolation.actors) >= MinActors
        PROVE  \E q \in patches' : /\ q.item = item /\ q.isolation # None
                                   /\ Cardinality(q.isolation.actors) >= MinActors
    <3>1. PICK r \in patches' : r.item = p.item /\ r.isolation = p.isolation
      BY DEF Kept
    <3> QED BY <2>1, <3>1
  <2> QED BY <2>1 DEF Fit, Clean
<1> QED BY <1>1 DEF Fit, Kept

\* A job that is left alone is as good as it was.
LEMMA JobStays ==
  ASSUME Kept, NEW k, JobOK(k)
  PROVE  JobOK(k)'
<1>1. Stored(k.patch) => Stored(k.patch)'
  BY StoredStays
<1>2. \A item : Fit(item) => Fit(item)'
  BY FitStays
<1> QED BY <1>1, <1>2 DEF JobOK

\* One worker goes a step on; the others stay as they are.
LEMMA OneWorker ==
  ASSUME IInv, Kept, NEW w \in Workers, NEW k, Step(w, k), JobOK(k)'
  PROVE  JobsOK'
<1>1. work' = [v \in Workers |-> IF v = w THEN k ELSE work[v]]
  BY DEF IInv, JobsOK, Step
<1>2. \A v \in Workers : v # w => JobOK(work[v])'
  <2> SUFFICES ASSUME NEW v \in Workers, v # w PROVE JobOK(work[v])'
    OBVIOUS
  <2>1. JobOK(work[v])
    BY DEF IInv, JobsOK
  <2> DEFINE b == work[v]
  <2>2. b = work'[v]
    BY <1>1
  <2> QED BY <2>1, <2>2, <1>1, JobStays
<1> QED BY <1>1, <1>2 DEF JobsOK

\* Prompts nobody writes stay fit.
LEMMA PromptsStay ==
  ASSUME PromptsOK, Kept, UNCHANGED prompt
  PROVE  PromptsOK'
<1>1. \A item : Fit(item) => Fit(item)'
  BY FitStays
<1> QED BY <1>1 DEF PromptsOK

\* Most steps change neither stored changes nor prompts, and go on to a stage that asks
\* for nothing but the shape of the job.
LEMMA QuietStep ==
  ASSUME IInv, NEW w \in Workers, NEW k, Step(w, k), JobOK(k),
         UNCHANGED <<patches, prompt, approved>>
  PROVE  IInv'
<1>1. Kept
  BY DEF Kept
<1>2. JobsOK'
  BY <1>1, OneWorker, JobStays
<1>3. PromptsOK'
  BY <1>1, PromptsStay DEF IInv
<1> QED BY <1>2, <1>3 DEF IInv
-----------------------------------------------------------------------------
(* One lemma per action *)

LEMMA InitOK == Init => IInv
<1> SUFFICES ASSUME Init PROVE IInv
  OBVIOUS
<1>1. PromptsOK
  BY DEF Init, PromptsOK, IsText, TextFields, Original
<1>2. JobOK(Idle)
  BY DEF Idle, JobOK, IsJob, JobFields, Applying
<1>3. JobsOK
  BY <1>2 DEF Init, JobsOK
<1> QED BY <1>1, <1>3 DEF Init, IInv

LEMMA IdleOK == JobOK(Idle)
  BY DEF Idle, JobOK, IsJob, JobFields, Applying

LEMMA WorkerOK ==
  ASSUME IInv, NEW w \in Workers
  PROVE  JobOK(work[w])
  BY DEF IInv, JobsOK

\* A job that begins has read nothing yet.
LEMMA StartsOK ==
  ASSUME IInv,
         \/ StartCycle
         \/ \E report : (\E job \in {"cycle", "analyze"} : StartManual(job, report))
                        \/ StartOptimizer(report)
         \/ \E w \in Threads, llm \in LlmSignals : StartChain(w, llm)
         \/ \E w \in Workers, p \in patches : StartApply(w, p)
  PROVE  IInv'
<1>1. Loop \in Workers /\ Threads \subseteq Workers
  BY DEF Workers
<1>2. CASE StartCycle
  <2>1. JobOK(Analysis("cycle", None))
    BY DEF Analysis, Idle, JobOK, IsJob, JobFields, Applying, Analysing
  <2> QED BY <1>1, <1>2, <2>1, QuietStep DEF StartCycle, Start, files, history
<1>3. ASSUME NEW report, NEW job \in {"cycle", "analyze"}, StartManual(job, report)
      PROVE  IInv'
  <2>1. JobOK(Analysis(job, report))
    BY DEF Analysis, Idle, JobOK, IsJob, JobFields, Applying, Analysing
  <2> QED BY <1>1, <1>3, <2>1, QuietStep DEF StartManual, Start, files, history
<1>4. ASSUME NEW report, StartOptimizer(report)
      PROVE  IInv'
  <2>1. JobOK(Analysis("optimize", report))
    BY DEF Analysis, Idle, JobOK, IsJob, JobFields, Applying, Analysing
  <2> QED BY <1>1, <1>4, <2>1, QuietStep DEF StartOptimizer, Start, history
<1>5. ASSUME NEW w \in Threads, NEW llm \in LlmSignals, StartChain(w, llm)
      PROVE  IInv'
  <2> DEFINE sig == MergeMeta(signals.execution, signals.security, signals.demo, llm)
             k == [Idle EXCEPT !.job = "chain", !.stage = "signal", !.sig = sig]
  <2>1. Step(w, k) /\ UNCHANGED <<patches, prompt, approved>>
    BY <1>5 DEF StartChain, Start, files, history
  <2>2. JobOK(k)
    <3> HIDE DEF sig
    <3> QED BY DEF Idle, JobOK, IsJob, JobFields, Applying, Analysing
  <2> HIDE DEF k
  <2> QED BY <1>1, <2>1, <2>2, QuietStep
<1>6. ASSUME NEW w \in Workers, NEW p \in patches, StartApply(w, p)
      PROVE  IInv'
  <2> DEFINE k == [Idle EXCEPT !.job = "apply", !.stage = "check", !.patch = p]
  <2>1. Step(w, k) /\ UNCHANGED <<patches, prompt, approved>>
    BY <1>6 DEF StartApply, Start, files, history
  <2>2. IsPatch(p) /\ Stored(p)
    BY DEF IInv, Stored
  <2>3. JobOK(k)
    BY <2>2 DEF Idle, JobOK, IsJob, JobFields, Applying, Analysing
  <2> HIDE DEF k
  <2> QED BY <2>1, <2>3, QuietStep
<1> QED BY <1>2, <1>3, <1>4, <1>5, <1>6

LEMMA AnalyseOK ==
  ASSUME IInv, NEW w \in Workers, Analyse(w)
  PROVE  IInv'
<1> DEFINE k == work[w]
           sig == SignalAt(k)
           deals == IF k.stage = "execution" THEN NumberOfDeals(log) ELSE k.deals
           next == [k EXCEPT !.sig = sig, !.rows = rows.all, !.deals = deals]
<1>1. JobOK(k) /\ k.stage \in Analysing
  BY WorkerOK DEF Analyse, Analysing
<1>2. Step(w, Idle) \/ Step(w, next)
  <2>1. CASE ~rows.whole
    BY <2>1 DEF Analyse, Stop
  <2>2. CASE rows.whole
    BY <1>1, <2>2 DEF Analyse, JobOK, IsJob, JobFields
  <2> QED BY <2>1, <2>2
<1>3. JobOK(next)
  <2> HIDE DEF sig, deals, k
  <2> QED BY <1>1 DEF JobOK, IsJob, JobFields, Analysing, Applying
<1> HIDE DEF next
<1> QED BY <1>2, <1>3, IdleOK, QuietStep DEF Analyse, files

\* A settled job goes on, without the outcomes, to a stage where nothing is applied.
LEMMA AfterStageOK ==
  ASSUME IInv, NEW w \in Workers, NEW llm, Settle(w, llm)
  PROVE  LET next == AfterStage(w, llm)
         IN  JobOK(next) /\ next.rows = None /\ next.stage \notin Applying
<1> DEFINE j == work[w]
           k == [j EXCEPT !.rows = None]
           sig == MergeMeta(k.sig, signals.security, signals.demo, llm)
           next == AfterStage(w, llm)
<1>1. JobOK(j) /\ j.stage \in Analysing
  BY WorkerOK DEF Settle, JobOK
<1>2. /\ IsJob(k) /\ k.rows = None /\ k.stage = j.stage /\ k.job = j.job
      /\ k.todo = j.todo /\ k.kept = j.kept
  BY <1>1 DEF JobOK, IsJob, JobFields
<1>3. JobOK(next) /\ next.rows = None /\ next.stage \notin Applying
  <2> HIDE DEF j, k, sig
  <2>1. CASE k.stage = "execution" /\ k.job = "cycle"
    <3>1. next = [k EXCEPT !.stage = "security", !.base = k.sig]
      BY <2>1 DEF AfterStage, k, j
    <3> QED BY <1>1, <1>2, <3>1 DEF JobOK, IsJob, JobFields, Analysing, Applying
  <2>2. CASE k.stage = "execution" /\ k.job = "optimize"
    <3>1. next = [k EXCEPT !.stage = "signal", !.sig = sig]
      BY <2>2 DEF AfterStage, k, j, sig
    <3> QED BY <1>1, <1>2, <3>1 DEF JobOK, IsJob, JobFields, Analysing, Applying
  <2>3. CASE k.stage = "execution" /\ k.job = "analyze"
    <3>1. next = Idle
      BY <2>3 DEF AfterStage, k, j
    <3> QED BY <3>1, IdleOK DEF Idle, Applying
  <2>4. CASE k.stage = "security"
    <3>1. next = [k EXCEPT !.stage = "merged"]
      BY <2>4 DEF AfterStage, k, j
    <3> QED BY <1>1, <1>2, <3>1 DEF JobOK, IsJob, JobFields, Analysing, Applying
  <2>5. CASE k.stage = "merged"
    <3>1. next = [k EXCEPT !.stage = "signal", !.base = None]
      BY <2>5 DEF AfterStage, k, j
    <3> QED BY <1>1, <1>2, <3>1 DEF JobOK, IsJob, JobFields, Analysing, Applying
  <2>6. CASE k.stage = "signal"
    <3>1. next = [k EXCEPT !.stage = "generate"]
      BY <2>6 DEF AfterStage, k, j
    <3> QED BY <1>1, <1>2, <3>1 DEF JobOK, IsJob, JobFields, Analysing, Applying
  <2> QED BY <1>1, <1>2, <2>1, <2>2, <2>3, <2>4, <2>5, <2>6 DEF JobOK, Analysing
<1> QED BY <1>3

LEMMA SettleOK ==
  ASSUME IInv, NEW w \in Workers, NEW llm \in LlmSignals, Settle(w, llm)
  PROVE  IInv'
<1>1. Step(w, AfterStage(w, llm)) /\ UNCHANGED <<patches, prompt, approved>>
  BY DEF Settle, history
<1> QED BY <1>1, AfterStageOK, QuietStep

LEMMA GenerateOK ==
  ASSUME IInv, NEW w \in Workers, Generate(w)
  PROVE  IInv'
<1> DEFINE k == work[w]
<1>1. JobOK(k) /\ k.stage = "generate"
  BY WorkerOK DEF Generate, At
<1>2. PICK items \in ConcreteItems(k.sig) :
        Step(w, [k EXCEPT !.stage = "store", !.todo = {Patched(k.sig, item) : item \in items}])
  BY DEF Generate
<1> DEFINE todo == {Patched(k.sig, item) : item \in items}
           next == [k EXCEPT !.stage = "store", !.todo = todo]
<1>3. \A x \in todo : IsPatch(x)
  <2>1. \A item : IsPatch(Patched(k.sig, item))
    BY DEF Patched, IsPatch, PatchFields
  <2> QED BY <2>1
<1>4. Step(w, next) /\ UNCHANGED <<patches, prompt, approved>>
  BY <1>2 DEF Generate, files, history
<1>5. JobOK(next)
  <2> HIDE DEF k, todo
  <2> QED BY <1>1, <1>3 DEF JobOK, IsJob, JobFields, Analysing, Applying
<1> HIDE DEF next
<1> QED BY <1>4, <1>5, QuietStep

LEMMA StoreOK ==
  ASSUME IInv, NEW w \in Workers, Store(w)
  PROVE  IInv'
<1> DEFINE k == work[w]
           raw == CHOOSE x \in k.todo : TRUE
           p == [raw EXCEPT !.sure = Confident(raw.item, prompt[raw.item.target])]
           next == [k EXCEPT !.stage = "index", !.patch = p, !.todo = @ \ {raw},
                             !.kept = @ \cup {x \in {p} : p.status = "pending"}]
<1>1. JobOK(k) /\ k.stage = "store" /\ raw \in k.todo
  BY WorkerOK DEF Store, At
<1>2. IsPatch(p) /\ p.sure = Confident(raw.item, prompt[raw.item.target]) /\ p.item = raw.item
  <2>1. IsPatch(raw)
    BY <1>1 DEF JobOK
  <2> HIDE DEF raw
  <2> QED BY <2>1 DEF IsPatch, PatchFields
<1>3. p.sure /\ p.item.issue = "reinforcement" => Short(p.item.of)
  <2> HIDE DEF p, raw
  <2> QED BY <1>2 DEF Confident
<1>4. patches' = patches \cup {p} /\ UNCHANGED <<prompt, approved>>
  BY DEF Store
<1>5. Step(w, Idle) \/ Step(w, next)
  BY DEF Store, Stop
<1>6. JobOK(next)
  <2> HIDE DEF k, p, raw
  <2>1. /\ IsJob(next) /\ next.stage = "index" /\ next.rows = k.rows
        /\ next.todo = k.todo \ {raw} /\ next.kept \subseteq k.kept \cup {p}
    BY <1>1 DEF JobOK, IsJob, JobFields
  <2> HIDE DEF next
  <2> QED BY <1>1, <1>3, <2>1 DEF JobOK, Analysing, Applying
<1> HIDE DEF next, p
<1>7. Kept
  BY <1>4 DEF Kept
<1>8. JobsOK'
  BY <1>5, <1>6, <1>7, IdleOK, JobStays, OneWorker
<1>9. PromptsOK'
  BY <1>4, <1>7, PromptsStay DEF IInv
<1> QED BY <1>2, <1>4, <1>8, <1>9 DEF IInv

LEMMA WriteIndexOK ==
  ASSUME IInv, NEW w \in Workers, WriteIndex(w)
  PROVE  IInv'
<1> DEFINE k == work[w]
           next == [k EXCEPT !.stage = "store", !.patch = None]
<1>1. JobOK(k) /\ k.stage = "index"
  BY WorkerOK DEF WriteIndex, At
<1>2. Step(w, next) /\ UNCHANGED <<patches, prompt, approved>>
  BY DEF WriteIndex, history
<1>3. JobOK(next)
  <2> HIDE DEF k
  <2> QED BY <1>1 DEF JobOK, IsJob, JobFields, Analysing, Applying
<1> HIDE DEF next
<1> QED BY <1>2, <1>3, QuietStep

LEMMA LearnOK ==
  ASSUME IInv, NEW w \in Workers, Learn(w)
  PROVE  IInv'
<1> DEFINE k == work[w]
           next == [k EXCEPT !.stage = "choose"]
<1>1. JobOK(k) /\ k.stage = "store"
  BY WorkerOK DEF Learn, At
<1>2. Step(w, next) /\ UNCHANGED <<patches, prompt, approved>>
  BY DEF Learn, history
<1>3. JobOK(next)
  <2> HIDE DEF k
  <2> QED BY <1>1 DEF JobOK, IsJob, JobFields, Analysing, Applying
<1> HIDE DEF next
<1> QED BY <1>2, <1>3, QuietStep

LEMMA ConsiderOK ==
  ASSUME IInv, NEW w \in Workers, Consider(w)
  PROVE  IInv'
<1> DEFINE k == work[w]
           p == CHOOSE x \in Eligible(w) : TRUE
           next == [k EXCEPT !.stage = "check", !.kept = @ \ {p}, !.patch = p]
<1>1. JobOK(k) /\ k.stage = "choose" /\ p \in Eligible(w)
  BY WorkerOK DEF Consider, At
<1>2. p \in k.kept /\ p \in patches /\ AutoEligible(p)
  BY <1>1 DEF Eligible
<1> HIDE DEF p
<1>3. IsPatch(p) /\ Stored(p) /\ Safe(p.item)
  <2>1. IsPatch(p) /\ Stored(p)
    BY <1>2 DEF IInv, Stored
  <2>2. p.sure /\ p.item.issue \in LowRisk
    BY <1>2 DEF AutoEligible
  <2> QED BY <1>1, <1>2, <2>1, <2>2 DEF JobOK, Safe
<1>4. Step(w, next) /\ UNCHANGED <<patches, prompt, approved>>
  BY DEF Consider, files, history, p
<1>5. JobOK(next)
  <2> HIDE DEF k
  <2> QED BY <1>1, <1>3 DEF JobOK, IsJob, JobFields, Analysing, Applying
<1> HIDE DEF next
<1> QED BY <1>4, <1>5, QuietStep

\* A change of the status of a stored patch takes nothing else from it.
LEMMA StatusChange ==
  ASSUME NEW p, IsPatch(p), NEW status,
         patches' = (patches \ {p}) \cup {[p EXCEPT !.status = status]},
         approved \subseteq approved', \A q \in patches : IsPatch(q)
  PROVE  Kept /\ \A q \in patches' : IsPatch(q)
<1> DEFINE new == [p EXCEPT !.status = status]
<1>1. IsPatch(new) /\ new.item = p.item /\ new.isolation = p.isolation
  BY DEF IsPatch, PatchFields
<1> HIDE DEF new
<1>2. \A q \in patches : \E r \in patches' : r.item = q.item /\ r.isolation = q.isolation
  <2> SUFFICES ASSUME NEW q \in patches
               PROVE  \E r \in patches' : r.item = q.item /\ r.isolation = q.isolation
    OBVIOUS
  <2>1. new \in patches' /\ (q # p => q \in patches')
    BY DEF new
  <2> QED BY <1>1, <2>1
<1>3. \A q \in patches' : q \in patches \/ q = new
  BY DEF new
<1> QED BY <1>1, <1>2, <1>3 DEF Kept

\* What the last check lets through is fit for a prompt, once the operator's word counts.
LEMMA AllowedIsFit ==
  ASSUME NEW p, Stored(p), AllowedBy(p.isolation, p.item), Kept,
         p.item \in approved' \/ Safe(p.item)
  PROVE  Fit(p.item)'
<1> DEFINE known == IF p.isolation = None THEN [allows |-> TRUE, actors |-> {}] ELSE p.isolation
<1>1. Stored(p)'
  BY StoredStays
<1>2. p.item.issue \notin SandboxOnly
  BY DEF AllowedBy
<1>3. p.item.issue \in PartnerScoped => Cardinality(known.actors) >= MinActors
  BY DEF AllowedBy
<1>4. p.isolation = None => Cardinality(known.actors) = 0
  BY FS_EmptySet
<1>5. p.isolation # None => known = p.isolation
  OBVIOUS
<1> HIDE DEF known
<1>6. p.item.issue \in PartnerScoped =>
        p.isolation # None /\ Cardinality(p.isolation.actors) >= MinActors
  BY <1>3, <1>4, <1>5, SignalsAssumption
<1>7. PICK q \in patches' : q.item = p.item /\ q.isolation = p.isolation
  BY <1>1 DEF Stored
<1>8. p.item.issue \in PartnerScoped =>
        \E r \in patches' : /\ r.item = p.item /\ r.isolation # None
                            /\ Cardinality(r.isolation.actors) >= MinActors
  BY <1>6, <1>7
<1> QED BY <1>2, <1>8 DEF Fit, Clean, Safe

LEMMA ReadPromptOK ==
  ASSUME IInv, NEW w \in Workers, ReadPrompt(w)
  PROVE  IInv'
<1> PICK k : k = work[w]
  OBVIOUS
<1> DEFINE p == k.patch
           t == p.item.target
<1> PICK text : text = Changed(prompt[t], p.item)
  OBVIOUS
<1> DEFINE next == [k EXCEPT !.stage = "empty", !.text = text]
<1>1. JobOK(k) /\ k.stage = "check"
  BY WorkerOK DEF ReadPrompt, At
<1>2. IsPatch(p) /\ Stored(p) /\ (k.job = "apply" \/ Safe(p.item))
  BY <1>1 DEF JobOK, Applying
<1>3. /\ UNCHANGED prompt
      /\ approved' = IF k.job = "apply" THEN approved \cup {p.item} ELSE approved
  BY DEF ReadPrompt
<1>4. approved \subseteq approved' /\ (p.item \in approved' \/ Safe(p.item))
  BY <1>2, <1>3
<1>5. Kept /\ (\A q \in patches' : IsPatch(q)) /\ JobsOK'
  <2>1. CASE AllowedBy(p.isolation, p.item)
    <3>1. Step(w, next) /\ patches' = patches
      BY <2>1 DEF ReadPrompt
    <3>2. Kept
      BY <1>4, <3>1 DEF Kept
    <3>3. Fit(p.item)'
      BY <1>2, <1>4, <2>1, <3>2, AllowedIsFit
    <3>4. t \in Targets => IsText(text) /\ \A item \in text.items : Fit(item)'
      <4>1. CASE t \in Targets
        <5>1. IsText(prompt[t]) /\ \A item \in prompt[t].items : Fit(item)
          BY <4>1 DEF IInv, PromptsOK
        <5>2. IsText(text) /\ text.items = prompt[t].items \cup {p.item}
          <6> HIDE DEF p, t
          <6> QED BY <5>1 DEF Changed, Learned, Inserted, IsText, TextFields, Original
        <5> QED BY <3>2, <3>3, <5>1, <5>2, FitStays
      <4>2. CASE t \notin Targets
        <5> QED BY <4>2
      <4> QED BY <4>1, <4>2
    <3>5. JobOK(next)'
      <4>1. /\ IsJob(next) /\ next.stage = "empty" /\ next.rows = k.rows /\ next.todo = k.todo
            /\ next.kept = k.kept /\ next.patch = k.patch /\ next.text = text
        BY <1>1 DEF JobOK, IsJob, JobFields
      <4> HIDE DEF next
      <4> QED BY <1>1, <1>2, <3>4, <4>1 DEF JobOK, Analysing, Applying
    <3> HIDE DEF next
    <3> QED BY <3>1, <3>2, <3>5, OneWorker DEF IInv
  <2>2. CASE ~AllowedBy(p.isolation, p.item)
    <3>1. /\ Step(w, Idle)
          /\ patches' = (patches \ {p}) \cup {[p EXCEPT !.status = "isolation_blocked"]}
      BY <2>2 DEF ReadPrompt, Stop
    <3>2. Kept /\ \A q \in patches' : IsPatch(q)
      BY <1>2, <1>4, <3>1, StatusChange DEF IInv
    <3> QED BY <3>1, <3>2, IdleOK, JobStays, OneWorker
  <2> QED BY <2>1, <2>2
<1>6. PromptsOK'
  BY <1>3, <1>5, PromptsStay DEF IInv
<1> QED BY <1>5, <1>6 DEF IInv

LEMMA EmptyPromptOK ==
  ASSUME IInv, NEW w \in Workers, EmptyPrompt(w)
  PROVE  IInv'
<1> PICK k : k = work[w]
  OBVIOUS
<1> DEFINE next == [k EXCEPT !.stage = "write"]
<1>1. JobOK(k) /\ k.stage = "empty"
  BY WorkerOK DEF EmptyPrompt, At
<1>2. /\ Step(w, next) /\ UNCHANGED <<patches, approved>>
      /\ prompt' = [prompt EXCEPT ![k.patch.item.target] = Empty]
  BY DEF EmptyPrompt, history
<1>3. Kept
  BY <1>2 DEF Kept
<1>4. JobOK(next)
  <2>1. /\ IsJob(next) /\ next.stage = "write" /\ next.rows = k.rows /\ next.todo = k.todo
        /\ next.kept = k.kept /\ next.patch = k.patch /\ next.text = k.text
    BY <1>1 DEF JobOK, IsJob, JobFields
  <2> HIDE DEF next
  <2> QED BY <1>1, <2>1 DEF JobOK, Analysing, Applying
<1> HIDE DEF next
<1>5. JobsOK'
  BY <1>2, <1>3, <1>4, JobStays, OneWorker
<1>6. PromptsOK'
  <2>1. \A item : Fit(item) => Fit(item)'
    BY <1>3, FitStays
  <2>2. IsText(Empty) /\ Empty.items = {}
    BY DEF Empty, IsText, TextFields
  <2> QED BY <1>2, <2>1, <2>2 DEF IInv, PromptsOK
<1> QED BY <1>2, <1>5, <1>6 DEF IInv

LEMMA WritePromptOK ==
  ASSUME IInv, NEW w \in Workers, WritePrompt(w)
  PROVE  IInv'
<1> PICK k : k = work[w]
  OBVIOUS
<1> DEFINE next == [k EXCEPT !.stage = "record", !.text = None]
           t == k.patch.item.target
<1>1. JobOK(k) /\ k.stage = "write"
  BY WorkerOK DEF WritePrompt, At
<1>2. PICK torn : prompt' = [prompt EXCEPT ![t] = [k.text EXCEPT !.whole = @ /\ ~torn]]
  BY DEF WritePrompt
<1>3. Step(w, next) /\ UNCHANGED <<patches, approved>>
  BY DEF WritePrompt, history
<1>4. Kept
  BY <1>3 DEF Kept
<1>5. JobOK(next)
  <2>1. /\ IsJob(next) /\ next.stage = "record" /\ next.rows = k.rows /\ next.todo = k.todo
        /\ next.kept = k.kept /\ next.patch = k.patch
    BY <1>1 DEF JobOK, IsJob, JobFields
  <2> HIDE DEF next
  <2> QED BY <1>1, <2>1 DEF JobOK, Analysing, Applying
<1> HIDE DEF next
<1>6. JobsOK'
  BY <1>3, <1>4, <1>5, JobStays, OneWorker
<1>7. PromptsOK'
  <2>1. \A item : Fit(item) => Fit(item)'
    BY <1>4, FitStays
  <2> DEFINE text == [k.text EXCEPT !.whole = @ /\ ~torn]
  <2>2. t \in Targets => IsText(text) /\ text.items = k.text.items
    <3>1. t \in Targets => IsText(k.text)
      BY <1>1 DEF JobOK
    <3> QED BY <3>1 DEF IsText, TextFields
  <2>3. t \in Targets => \A item \in k.text.items : Fit(item)
    BY <1>1 DEF JobOK
  <2> HIDE DEF text
  <2>4. prompt' = [prompt EXCEPT ![t] = text]
    BY <1>2 DEF text
  <2> QED BY <2>1, <2>2, <2>3, <2>4 DEF IInv, PromptsOK
<1> QED BY <1>3, <1>6, <1>7 DEF IInv

LEMMA RecordOK ==
  ASSUME IInv, NEW w \in Workers, Record(w)
  PROVE  IInv'
<1> PICK k : k = work[w]
  OBVIOUS
<1> DEFINE p == k.patch
           next == [k EXCEPT !.stage = "track"]
<1>1. JobOK(k) /\ k.stage = "record"
  BY WorkerOK DEF Record, At
<1>2. /\ Step(w, next) /\ UNCHANGED <<prompt, approved>>
      /\ patches' = (patches \ {p}) \cup {[p EXCEPT !.status = "applied"]}
  BY DEF Record, history
<1>3. IsPatch(p)
  BY <1>1 DEF JobOK, Applying
<1>4. Kept /\ \A q \in patches' : IsPatch(q)
  BY <1>2, <1>3, StatusChange DEF IInv
<1>5. JobOK(next)
  <2>1. /\ IsJob(next) /\ next.stage = "track" /\ next.rows = k.rows /\ next.todo = k.todo
        /\ next.kept = k.kept
    BY <1>1 DEF JobOK, IsJob, JobFields
  <2> HIDE DEF next
  <2> QED BY <1>1, <2>1 DEF JobOK, Analysing, Applying
<1> HIDE DEF next
<1>6. JobsOK'
  BY <1>2, <1>4, <1>5, JobStays, OneWorker
<1>7. PromptsOK'
  BY <1>2, <1>4, PromptsStay DEF IInv
<1> QED BY <1>4, <1>6, <1>7 DEF IInv

LEMMA TrackOK ==
  ASSUME IInv, NEW w \in Workers, Track(w)
  PROVE  IInv'
<1> PICK k : k = work[w]
  OBVIOUS
<1> DEFINE next == [k EXCEPT !.stage = "choose", !.did = TRUE, !.patch = None]
<1>1. JobOK(k) /\ k.stage = "track"
  BY WorkerOK DEF Track, At
<1>2. (Step(w, Idle) \/ Step(w, next)) /\ UNCHANGED <<patches, prompt, approved>>
  BY DEF Track
<1>3. JobOK(next)
  BY <1>1 DEF JobOK, IsJob, JobFields, Analysing, Applying
<1> HIDE DEF next
<1> QED BY <1>2, <1>3, IdleOK, QuietStep

LEMMA EndsOK ==
  ASSUME IInv, NEW w \in Workers, Merge(w) \/ Save(w)
  PROVE  IInv'
<1> PICK k : k = work[w]
  OBVIOUS
<1> DEFINE next == [Idle EXCEPT !.job = "cycle", !.stage = "save", !.deals = k.deals]
<1>1. (Step(w, Idle) \/ Step(w, next)) /\ UNCHANGED <<patches, prompt, approved>>
  BY DEF Merge, Save, Stop, history
<1>2. JobOK(next)
  BY DEF Idle, JobOK, IsJob, JobFields, Analysing, Applying
<1> HIDE DEF next
<1> QED BY <1>1, <1>2, IdleOK, QuietStep

LEMMA CrashOK ==
  ASSUME IInv, Crash
  PROVE  IInv'
<1>1. /\ work' = [w \in Workers |-> Idle]
      /\ UNCHANGED <<patches, prompt, approved>>
  BY DEF Crash
<1>2. Kept
  BY <1>1 DEF Kept
<1>3. JobsOK'
  BY <1>1, <1>2, IdleOK, JobStays DEF JobsOK
<1>4. PromptsOK'
  BY <1>1, <1>2, PromptsStay DEF IInv
<1> QED BY <1>1, <1>3, <1>4 DEF IInv

LEMMA CalmOK ==
  ASSUME IInv, UNCHANGED <<patches, prompt, approved, work>>
  PROVE  IInv'
<1>1. Kept
  BY DEF Kept
<1>2. JobsOK'
  BY <1>1, JobStays DEF IInv, JobsOK
<1>3. PromptsOK'
  BY <1>1, PromptsStay DEF IInv
<1> QED BY <1>2, <1>3 DEF IInv

LEMMA NextOK ==
  ASSUME IInv, [Next]_vars
  PROVE  IInv'
<1>1. CASE UNCHANGED vars \/ Elapse \/ Skip \/ \E e \in Ongoing : Happen(e)
  BY <1>1, CalmOK DEF vars, files, history, Elapse, Skip, Happen
<1>2. ASSUME NEW w \in Workers, Steps(w) PROVE IInv'
  <2>1. CASE Analyse(w)
    BY <2>1, AnalyseOK
  <2>2. CASE \E llm \in LlmSignals : Settle(w, llm)
    BY <2>2, SettleOK
  <2>3. CASE Generate(w) \/ Store(w) \/ WriteIndex(w) \/ Learn(w) \/ Consider(w)
    BY <2>3, GenerateOK, StoreOK, WriteIndexOK, LearnOK, ConsiderOK
  <2>4. CASE ReadPrompt(w) \/ EmptyPrompt(w) \/ WritePrompt(w)
    BY <2>4, ReadPromptOK, EmptyPromptOK, WritePromptOK
  <2>5. CASE Record(w) \/ Track(w) \/ Merge(w) \/ Save(w)
    BY <2>5, RecordOK, TrackOK, EndsOK
  <2> QED BY <1>2, <2>1, <2>2, <2>3, <2>4, <2>5 DEF Steps
<1>3. CASE Crash
  BY <1>3, CrashOK
<1>4. CASE \/ StartCycle
           \/ \E report : (\E job \in {"cycle", "analyze"} : StartManual(job, report))
                          \/ StartOptimizer(report)
           \/ \E w \in Threads, llm \in LlmSignals : StartChain(w, llm)
           \/ \E w \in Workers, p \in patches : StartApply(w, p)
  BY <1>4, StartsOK
<1> QED BY <1>1, <1>2, <1>3, <1>4 DEF Next

-----------------------------------------------------------------------------
(* The theorems *)

THEOREM Invariant == Spec => []IInv
<1>1. Init => IInv
  BY InitOK
<1>2. IInv /\ [Next]_vars => IInv'
  BY NextOK
<1> QED BY <1>1, <1>2, PTL DEF Spec

\* A prompt holds nothing of medium or high risk that no operator applied, and of
\* recommendations no text as long as 150 characters.
THEOREM RisksReviewed == Spec => []OnlyReviewed
<1>1. IInv => OnlyReviewed
  BY DEF IInv, PromptsOK, Fit, Safe, OnlyReviewed
<1> QED BY <1>1, Invariant, PTL

-----------------------------------------------------------------------------
(* What is applied stays *)

Opens(w, t) == work[w].stage \in {"empty", "write"} /\ work[w].patch.item.target = t
Reads(w) == work[w].rows # None

\* Changes that must be in prompt t: logged as applied, or written and about to be.
Due(t) ==
  {item \in applied : item.target = t}
    \cup {work[w].patch.item :
            w \in {v \in Workers : At(v, "record") /\ work[v].patch.item.target = t}}

\* As long as no two workers met at a prompt and no crash cut it, whoever has it open
\* holds all of it.
PromptSafe(t) ==
  /\ \A v, w \in Workers : Opens(v, t) /\ Opens(w, t) => v = w
  /\ \A w \in Workers : Opens(w, t) =>
       /\ work[w].text.whole
       /\ Due(t) \cup {work[w].patch.item} \subseteq work[w].text.items
  /\ \A w \in Workers : Opens(w, t) /\ At(w, "write") => prompt[t] = Empty
  /\ \/ \E w \in Workers : Opens(w, t) /\ At(w, "write")
     \/ prompt[t].whole /\ Due(t) \subseteq prompt[t].items

IsRow(r) == r = [f \in {"item", "outcome"} |-> r[f]]
IsRows(x) == x = [f \in {"whole", "all"} |-> x[f]]

\* The same of the outcomes: who is about to rewrite them has them as they are.
OutcomesSafe ==
  /\ \A v, w \in Workers : Reads(v) /\ Reads(w) => v = w
  /\ \A w \in Workers : Reads(w) => work[w].rows = rows.all
  /\ \A r \in rows.all : IsRow(r)
  /\ \A item \in applied :
       \/ \E w \in Workers : At(w, "track") /\ work[w].patch.item = item
       \/ \E r \in rows.all : r.item = item

FilesSafe ==
  /\ IsRows(rows)
  /\ \A t \in Targets : <<"prompt", t>> \in spoiled \/ PromptSafe(t)
  /\ Outcomes \in spoiled \/ OutcomesSafe

\* Prompts are as safe as before if the workers that move had none open for writing and
\* have none open now.
LEMMA PromptSafeStays ==
  ASSUME NEW t, PromptSafe(t), UNCHANGED <<prompt, applied>>,
         \A v \in Workers :
           \/ work'[v] = work[v]
           \/ ~At(v, "write") /\ work'[v].stage \notin {"empty", "write", "record"}
  PROVE  PromptSafe(t)'
<1>1. Due(t)' \subseteq Due(t)
  BY DEF Due, At
<1>2. \A v \in Workers : Opens(v, t)' => work'[v] = work[v] /\ Opens(v, t)
  BY DEF Opens
<1>3. \A v \in Workers : Opens(v, t) /\ At(v, "write") => (Opens(v, t) /\ At(v, "write"))'
  BY DEF Opens, At
<1>4. \A v \in Workers : (Opens(v, t) /\ At(v, "write"))' => Opens(v, t) /\ At(v, "write")
  BY <1>2 DEF At
<1> QED BY <1>1, <1>2, <1>3, <1>4 DEF PromptSafe

LEMMA OutcomesSafeStay ==
  ASSUME OutcomesSafe, UNCHANGED <<rows, applied>>,
         \A v \in Workers :
           work'[v] = work[v] \/ (~At(v, "track") /\ work'[v].rows = None)
  PROVE  OutcomesSafe'
<1>1. \A v \in Workers : Reads(v)' => work'[v] = work[v] /\ Reads(v)
  BY DEF Reads
<1>2. \A v \in Workers : At(v, "track") => work'[v] = work[v]
  BY DEF At
<1>3. \A v \in Workers : At(v, "track") => At(v, "track")'
  BY <1>2 DEF At
<1> QED BY <1>1, <1>2, <1>3 DEF OutcomesSafe

\* Who turns to a file that stays unspoiled is alone with it.
LEMMA AloneAtPrompt ==
  ASSUME NEW w \in Workers, NEW t, Touch(w, <<"prompt", t>>), <<"prompt", t>> \notin spoiled',
         NEW v \in Workers, v # w
  PROVE  ~Opens(v, t)
<1>1. <<"prompt", t>> \notin Open(v)
  BY DEF Touch
<1>2. Opens(v, t) => <<"prompt", t>> \in Open(v)
  BY DEF Opens, Open, Cut, Held
<1> QED BY <1>1, <1>2

LEMMA AloneAtOutcomes ==
  ASSUME IInv, NEW w \in Workers, Touch(w, Outcomes), Outcomes \notin spoiled',
         NEW v \in Workers, v # w
  PROVE  ~Reads(v)
<1>1. Outcomes \notin Open(v)
  BY DEF Touch
<1>2. work[v].rows # None => work[v].stage \in Analysing
  BY WorkerOK DEF JobOK
<1> QED BY <1>1, <1>2 DEF Reads, Open, Cut, Held, Analysing

LEMMA Moves ==
  ASSUME IInv, NEW w \in Workers, NEW k, Step(w, k)
  PROVE  \A v \in Workers : work'[v] = IF v = w THEN k ELSE work[v]
  BY DEF IInv, JobsOK, Step

\* Steps between stages that hold no file and change none of these.
LEMMA QuietFiles ==
  ASSUME IInv, FilesSafe, NEW w \in Workers, NEW k, Step(w, k), k.rows = None,
         k.stage \notin {"empty", "write", "record"}, work[w].stage \notin {"write", "track"},
         UNCHANGED <<prompt, applied, rows>>, spoiled \subseteq spoiled'
  PROVE  FilesSafe'
<1>1. \A v \in Workers : work'[v] = IF v = w THEN k ELSE work[v]
  BY Moves
<1>2. \A t \in Targets : PromptSafe(t) => PromptSafe(t)'
  BY <1>1, PromptSafeStays DEF At
<1>3. OutcomesSafe => OutcomesSafe'
  BY <1>1, OutcomesSafeStay DEF At
<1> QED BY <1>2, <1>3 DEF FilesSafe

LEMMA InitFiles == Init => FilesSafe
<1> SUFFICES ASSUME Init PROVE FilesSafe
  OBVIOUS
<1>1. \A w \in Workers : work[w].stage = "idle" /\ work[w].rows = None
  BY DEF Init, Idle
<1>2. /\ \A t \in Targets : prompt[t].whole
      /\ applied = {} /\ rows.all = {} /\ IsRows(rows)
  BY DEF Init, Original, Untracked, IsRows
<1>3. \A t \in Targets : PromptSafe(t)
  BY <1>1, <1>2 DEF PromptSafe, Opens, Due, At
<1>4. OutcomesSafe
  BY <1>1, <1>2 DEF OutcomesSafe, Reads
<1> QED BY <1>2, <1>3, <1>4 DEF FilesSafe

LEMMA StartsFiles ==
  ASSUME IInv, FilesSafe,
         \/ StartCycle
         \/ \E report : (\E job \in {"cycle", "analyze"} : StartManual(job, report))
                        \/ StartOptimizer(report)
         \/ \E w \in Threads, llm \in LlmSignals : StartChain(w, llm)
         \/ \E w \in Workers, p \in patches : StartApply(w, p)
  PROVE  FilesSafe'
<1>1. UNCHANGED <<prompt, applied, rows, spoiled>>
  BY DEF StartCycle, StartManual, StartOptimizer, StartChain, StartApply, Start, files, history
<1>2. \E w \in Workers : \E k :
        /\ At(w, "idle") /\ Step(w, k) /\ k.rows = None
        /\ k.stage \in {"execution", "signal", "check"}
  <2>1. \A job, report : Analysis(job, report).rows = None /\ Analysis(job, report).stage = "execution"
    BY DEF Analysis, Idle
  <2>2. CASE StartCycle
    BY <2>1, <2>2 DEF StartCycle, Start, Workers
  <2>3. ASSUME NEW report, NEW job, StartManual(job, report) \/ StartOptimizer(report)
        PROVE  \E k : At(Loop, "idle") /\ Step(Loop, k) /\ k.rows = None /\ k.stage = "execution"
    BY <2>1, <2>3 DEF StartManual, StartOptimizer, Start
  <2>4. ASSUME NEW w \in Threads, NEW llm \in LlmSignals, StartChain(w, llm)
        PROVE  \E k : At(w, "idle") /\ Step(w, k) /\ k.rows = None /\ k.stage = "signal"
    <3> PICK sig : sig = MergeMeta(signals.execution, signals.security, signals.demo, llm)
      OBVIOUS
    <3> DEFINE k == [Idle EXCEPT !.job = "chain", !.stage = "signal", !.sig = sig]
    <3>1. At(w, "idle") /\ Step(w, k)
      BY <2>4 DEF StartChain, Start
    <3>2. k.rows = None /\ k.stage = "signal"
      BY DEF Idle
    <3> HIDE DEF k
    <3> QED BY <3>1, <3>2
  <2>5. ASSUME NEW w \in Workers, NEW p \in patches, StartApply(w, p)
        PROVE  \E k : At(w, "idle") /\ Step(w, k) /\ k.rows = None /\ k.stage = "check"
    <3> DEFINE k == [Idle EXCEPT !.job = "apply", !.stage = "check", !.patch = p]
    <3>1. At(w, "idle") /\ Step(w, k)
      BY <2>5 DEF StartApply, Start
    <3>2. k.rows = None /\ k.stage = "check"
      BY DEF Idle
    <3> HIDE DEF k
    <3> QED BY <3>1, <3>2
  <2>6. Loop \in Workers /\ Threads \subseteq Workers
    BY DEF Workers
  <2> QED BY <2>2, <2>3, <2>4, <2>5, <2>6
<1> QED BY <1>1, <1>2, QuietFiles DEF At

\* The outcomes are read: whoever is alone with them has them as they are.
LEMMA AnalyseFiles ==
  ASSUME IInv, FilesSafe, NEW w \in Workers, Analyse(w)
  PROVE  FilesSafe'
<1> PICK k : k = work[w]
  OBVIOUS
<1> PICK sig, deals : sig = SignalAt(k)
                      /\ deals = IF k.stage = "execution" THEN NumberOfDeals(log) ELSE k.deals
  OBVIOUS
<1> PICK all : all = rows.all
  OBVIOUS
<1> DEFINE next == [k EXCEPT !.sig = sig, !.rows = all, !.deals = deals]
<1>1. JobOK(k) /\ k.stage \in Analysing /\ k.rows = None
  BY WorkerOK DEF Analyse, Analysing
<1>2. UNCHANGED <<prompt, applied, rows>> /\ spoiled \subseteq spoiled' /\ Touch(w, Outcomes)
  BY DEF Analyse, files, Touch
<1>3. CASE ~rows.whole
  <2>1. Step(w, Idle)
    BY <1>3 DEF Analyse, Stop
  <2> QED BY <1>1, <1>2, <2>1, QuietFiles DEF Idle, Analysing
<1>4. CASE rows.whole
  <2>1. Step(w, next)
    BY <1>4 DEF Analyse, JobOK, IsJob, JobFields
  <2>2. next.stage = k.stage /\ next.rows = all
    BY <1>1 DEF JobOK, IsJob, JobFields
  <2> HIDE DEF next
  <2>3. \A v \in Workers : work'[v] = IF v = w THEN next ELSE work[v]
    BY <2>1, Moves
  <2>4. \A t \in Targets : PromptSafe(t) => PromptSafe(t)'
    BY <1>1, <1>2, <2>2, <2>3, PromptSafeStays DEF At, Analysing
  <2>5. OutcomesSafe /\ Outcomes \notin spoiled' => OutcomesSafe'
    <3> SUFFICES ASSUME OutcomesSafe, Outcomes \notin spoiled' PROVE OutcomesSafe'
      OBVIOUS
    <3>1. \A v \in Workers : Reads(v)' => v = w
      BY <1>2, <2>3, AloneAtOutcomes DEF Reads
    <3>2. \A v \in Workers : At(v, "track") => At(v, "track")' /\ work'[v] = work[v]
      BY <1>1, <2>3 DEF At, Analysing
    <3> QED BY <1>2, <2>2, <2>3, <3>1, <3>2 DEF OutcomesSafe
  <2> QED BY <1>2, <2>4, <2>5 DEF FilesSafe
<1> QED BY <1>3, <1>4

\* The outcomes are rewritten by the one who has them: no row is lost.
LEMMA SettleFiles ==
  ASSUME IInv, FilesSafe, NEW w \in Workers, NEW llm \in LlmSignals, Settle(w, llm)
  PROVE  FilesSafe'
<1> PICK k, next, settled :
      k = work[w] /\ next = AfterStage(w, llm) /\ settled = Settled(k.rows, k.sig.issues)
  OBVIOUS
<1>1. k.rows # None /\ k.stage \in Analysing
  BY WorkerOK DEF Settle, JobOK
<1>2. next.rows = None /\ next.stage \notin Applying
  BY AfterStageOK
<1>3. /\ Step(w, next) /\ UNCHANGED <<prompt, applied, spoiled>>
      /\ rows' = IF settled = k.rows THEN rows ELSE [rows EXCEPT !.all = settled]
  BY DEF Settle, history
<1>4. \A v \in Workers : work'[v] = IF v = w THEN next ELSE work[v]
  BY <1>3, Moves
<1>5. \A t \in Targets : PromptSafe(t) => PromptSafe(t)'
  BY <1>1, <1>2, <1>3, <1>4, PromptSafeStays DEF At, Analysing, Applying
<1>6. IsRows(rows') /\ rows'.all = IF settled = k.rows THEN rows.all ELSE settled
  BY <1>3 DEF FilesSafe, IsRows
<1>7. OutcomesSafe => OutcomesSafe'
  <2> SUFFICES ASSUME OutcomesSafe PROVE OutcomesSafe'
    OBVIOUS
  <2>1. k.rows = rows.all /\ \A r \in rows.all : IsRow(r)
    BY <1>1 DEF OutcomesSafe, Reads
  <2>2. /\ \A r \in settled : IsRow(r)
        /\ \A r \in rows.all : \E x \in settled : x.item = r.item
    <3> DEFINE New(r) == IF r.outcome = "resolved" THEN r
                         ELSE [r EXCEPT !.outcome = IF r.item.issue \in k.sig.issues
                                                    THEN "unresolved" ELSE "resolved"]
    <3>1. \A r \in rows.all : IsRow(New(r)) /\ New(r).item = r.item
      BY <2>1 DEF IsRow
    <3>2. settled = {New(r) : r \in rows.all}
      BY <2>1 DEF Settled
    <3> HIDE DEF New
    <3> QED BY <3>1, <3>2
  <2>3. \A v \in Workers : ~Reads(v)'
    BY <1>1, <1>2, <1>4 DEF OutcomesSafe, Reads
  <2>4. \A v \in Workers : At(v, "track") => At(v, "track")' /\ work'[v] = work[v]
    BY <1>1, <1>4 DEF At, Analysing
  <2>5. \A r \in rows'.all : IsRow(r)
    BY <1>6, <2>1, <2>2
  <2>6. \A r \in rows.all : \E x \in rows'.all : x.item = r.item
    BY <1>6, <2>2
  <2> QED BY <1>3, <2>3, <2>4, <2>5, <2>6 DEF OutcomesSafe
<1> QED BY <1>3, <1>5, <1>6, <1>7 DEF FilesSafe

\* Steps that touch neither a prompt nor the outcomes.
LEMMA OtherFiles ==
  ASSUME IInv, FilesSafe, NEW w \in Workers,
         \/ Generate(w) \/ Store(w) \/ WriteIndex(w) \/ Learn(w)
         \/ Consider(w) \/ Merge(w) \/ Save(w)
  PROVE  FilesSafe'
<1> PICK k : k = work[w]
  OBVIOUS
<1>1. IsJob(k) /\ k.stage \in {"generate", "store", "index", "choose", "save"} /\ k.rows = None
  BY WorkerOK DEF Generate, Store, WriteIndex, Learn, Consider, Merge, Save, At, JobOK, Analysing
<1>2. UNCHANGED <<prompt, applied, rows>> /\ spoiled \subseteq spoiled'
  BY DEF Generate, Store, WriteIndex, Learn, Consider, Merge, Save, files, history, Touch
<1>3. \E next : /\ Step(w, next) /\ next.rows = None
                /\ next.stage \in {"store", "index", "choose", "check", "save", "idle"}
  <2>1. CASE Generate(w)
    <3> PICK todo : Step(w, [k EXCEPT !.stage = "store", !.todo = todo])
      BY <2>1 DEF Generate
    <3> DEFINE next == [k EXCEPT !.stage = "store", !.todo = todo]
    <3>1. next.rows = None /\ next.stage = "store"
      BY <1>1 DEF IsJob, JobFields
    <3> QED BY <3>1
  <2>2. CASE Store(w)
    <3>1. PICK p, todo, kept :
            Stop(w) \/ Step(w, [k EXCEPT !.stage = "index", !.patch = p, !.todo = todo,
                                         !.kept = kept])
      <4> DEFINE raw == CHOOSE x \in work[w].todo : TRUE
                 p == [raw EXCEPT !.sure = Confident(raw.item, prompt[raw.item.target])]
                 todo == work[w].todo \ {raw}
                 kept == work[w].kept \cup {x \in {p} : p.status = "pending"}
      <4>1. Stop(w) \/ Step(w, [work[w] EXCEPT !.stage = "index", !.patch = p, !.todo = todo,
                                               !.kept = kept])
        BY <2>2 DEF Store
      <4> HIDE DEF raw, p, todo, kept
      <4> QED BY <4>1
    <3> DEFINE next == [k EXCEPT !.stage = "index", !.patch = p, !.todo = todo, !.kept = kept]
    <3>2. next.rows = None /\ next.stage = "index"
      BY <1>1 DEF IsJob, JobFields
    <3>3. Idle.rows = None /\ Idle.stage = "idle" /\ (Stop(w) => Step(w, Idle))
      BY DEF Stop, Idle
    <3> HIDE DEF next
    <3>4. Stop(w) \/ Step(w, next)
      BY <3>1 DEF next
    <3> QED BY <3>2, <3>3, <3>4
  <2>3. CASE WriteIndex(w)
    <3> DEFINE next == [k EXCEPT !.stage = "store", !.patch = None]
    <3>1. next.rows = None /\ next.stage = "store" /\ Step(w, next)
      BY <1>1, <2>3 DEF WriteIndex, IsJob, JobFields
    <3> QED BY <3>1
  <2>4. CASE Consider(w)
    <3>1. PICK p, kept : Step(w, [k EXCEPT !.stage = "check", !.kept = kept, !.patch = p])
      <4> DEFINE p == CHOOSE x \in Eligible(w) : TRUE
                 kept == k.kept \ {p}
      <4>1. Step(w, [k EXCEPT !.stage = "check", !.kept = kept, !.patch = p])
        BY <1>1, <2>4 DEF Consider, IsJob, JobFields
      <4> HIDE DEF p, kept
      <4> QED BY <4>1
    <3> DEFINE next == [k EXCEPT !.stage = "check", !.kept = kept, !.patch = p]
    <3>2. next.rows = None /\ next.stage = "check"
      BY <1>1 DEF IsJob, JobFields
    <3> QED BY <3>1, <3>2
  <2>5. CASE Learn(w)
    <3> DEFINE next == [k EXCEPT !.stage = "choose"]
    <3>1. next.rows = None /\ next.stage = "choose" /\ Step(w, next)
      BY <1>1, <2>5 DEF Learn, IsJob, JobFields
    <3> QED BY <3>1
  <2>6. CASE Merge(w) \/ Save(w)
    <3> DEFINE next == [Idle EXCEPT !.job = "cycle", !.stage = "save", !.deals = k.deals]
    <3>1. Step(w, Idle) \/ Step(w, next)
      BY <2>6 DEF Merge, Save, Stop
    <3>2. next.rows = None /\ next.stage = "save" /\ Idle.rows = None /\ Idle.stage = "idle"
      BY DEF Idle
    <3> QED BY <3>1, <3>2
  <2> QED BY <2>1, <2>2, <2>3, <2>4, <2>5, <2>6
<1> QED BY <1>1, <1>2, <1>3, QuietFiles

\* A prompt that is read by one worker alone is read whole, with all that is due.
LEMMA ReadPromptFiles ==
  ASSUME IInv, FilesSafe, NEW w \in Workers, ReadPrompt(w)
  PROVE  FilesSafe'
<1> PICK k : k = work[w]
  OBVIOUS
<1> DEFINE p == k.patch
           s == p.item.target
<1> PICK text : text = Changed(prompt[s], p.item)
  OBVIOUS
<1> DEFINE next == [k EXCEPT !.stage = "empty", !.text = text]
<1>1. JobOK(k) /\ k.stage = "check" /\ k.rows = None
  BY WorkerOK DEF ReadPrompt, At, JobOK, Analysing
<1>2. /\ UNCHANGED <<prompt, applied, rows>> /\ spoiled \subseteq spoiled'
      /\ Touch(w, <<"prompt", s>>)
  BY DEF ReadPrompt, Touch
<1>3. CASE ~AllowedBy(p.isolation, p.item)
  <2>1. Step(w, Idle)
    BY <1>3 DEF ReadPrompt, Stop
  <2> QED BY <1>1, <1>2, <2>1, QuietFiles DEF Idle
<1>4. CASE AllowedBy(p.isolation, p.item)
  <2>1. Step(w, next)
    BY <1>4 DEF ReadPrompt
  <2>2. /\ next.stage = "empty" /\ next.rows = None /\ next.text = text
        /\ next.patch = p
    BY <1>1 DEF JobOK, IsJob, JobFields
  <2> HIDE DEF next
  <2>3. \A v \in Workers : work'[v] = IF v = w THEN next ELSE work[v]
    BY <2>1, Moves
  <2>4. OutcomesSafe => OutcomesSafe'
    BY <1>1, <1>2, <2>2, <2>3, OutcomesSafeStay DEF At
  <2>5. ASSUME NEW t \in Targets, PromptSafe(t), <<"prompt", t>> \notin spoiled'
        PROVE  PromptSafe(t)'
    <3>1. /\ Due(t)' \subseteq Due(t)
          /\ \A v \in Workers : v # w => work'[v] = work[v]
      <4>1. \A v \in Workers : At(v, "record")' => work'[v] = work[v] /\ At(v, "record")
        BY <2>2, <2>3 DEF At
      <4> QED BY <1>2, <2>3, <4>1 DEF Due
    <3>2. \A v \in Workers : (At(v, "write")' <=> At(v, "write")) /\ (At(v, "write") => v # w)
      BY <1>1, <2>2, <2>3 DEF At
    <3>3. CASE t # s
      <4>1. \A v \in Workers : Opens(v, t)' <=> Opens(v, t) /\ v # w
        BY <1>1, <2>2, <2>3, <3>3 DEF Opens
      <4>2. \A v \in Workers :
              /\ (Opens(v, t) /\ At(v, "write"))' <=> Opens(v, t) /\ At(v, "write")
              /\ Opens(v, t)' => /\ work'[v].text = work[v].text
                                 /\ work'[v].patch = work[v].patch
        BY <3>1, <3>2, <4>1
      <4> QED BY <1>2, <2>5, <3>1, <4>1, <4>2 DEF PromptSafe
    <3>4. CASE t = s
      <4>1. \A v \in Workers : v # w => ~Opens(v, t)
        BY <1>2, <2>5, <3>4, AloneAtPrompt
      <4>2. ~Opens(w, t)
        BY <1>1 DEF Opens
      <4>3. prompt[t].whole /\ Due(t) \subseteq prompt[t].items
        BY <2>5, <4>1, <4>2 DEF PromptSafe
      <4>4. IsText(prompt[t])
        BY DEF IInv, PromptsOK
      <4>5. text.whole /\ text.items = prompt[t].items \cup {p.item}
        <5> HIDE DEF p
        <5> QED BY <3>4, <4>3, <4>4 DEF Changed, Learned, Inserted, IsText, TextFields, Original
      <4>6. \A v \in Workers : Opens(v, t)' => v = w
        BY <3>1, <4>1 DEF Opens
      <4>7. \A v \in Workers : At(v, "write")' => ~Opens(v, t)'
        BY <3>2, <4>6
      <4> QED BY <1>2, <2>2, <2>3, <3>1, <4>3, <4>5, <4>6, <4>7 DEF PromptSafe
    <3> QED BY <3>3, <3>4
  <2> QED BY <1>2, <2>4, <2>5 DEF FilesSafe
<1> QED BY <1>3, <1>4

LEMMA EmptyPromptFiles ==
  ASSUME IInv, FilesSafe, NEW w \in Workers, EmptyPrompt(w)
  PROVE  FilesSafe'
<1> PICK k : k = work[w]
  OBVIOUS
<1> DEFINE s == k.patch.item.target
           next == [k EXCEPT !.stage = "write"]
<1>1. JobOK(k) /\ k.stage = "empty" /\ k.rows = None
  BY WorkerOK DEF EmptyPrompt, At, JobOK, Analysing
<1>2. /\ Step(w, next) /\ prompt' = [prompt EXCEPT ![s] = Empty]
      /\ UNCHANGED <<applied, rows, spoiled>>
  BY DEF EmptyPrompt, history
<1>3. /\ next.stage = "write" /\ next.rows = None /\ next.text = k.text /\ next.patch = k.patch
  BY <1>1 DEF JobOK, IsJob, JobFields
<1> HIDE DEF next
<1>4. \A v \in Workers : work'[v] = IF v = w THEN next ELSE work[v]
  BY <1>2, Moves
<1>5. OutcomesSafe => OutcomesSafe'
  BY <1>1, <1>2, <1>3, <1>4, OutcomesSafeStay DEF At
<1>6. ASSUME NEW t \in Targets, PromptSafe(t)
      PROVE  PromptSafe(t)'
  <2>1. Due(t)' \subseteq Due(t)
    <3>1. \A v \in Workers : At(v, "record")' => work'[v] = work[v] /\ At(v, "record")
      BY <1>3, <1>4 DEF At
    <3> QED BY <1>2, <1>4, <3>1 DEF Due
  <2>2. \A v \in Workers :
          /\ Opens(v, t)' <=> Opens(v, t)
          /\ work'[v].text = work[v].text /\ work'[v].patch = work[v].patch
    BY <1>1, <1>3, <1>4 DEF Opens
  <2>3. prompt'[t] = IF t = s THEN Empty ELSE prompt[t]
    BY <1>2 DEF IInv, PromptsOK
  <2>4. CASE t = s
    <3>1. Opens(w, t) /\ At(w, "write")'
      BY <1>1, <1>3, <1>4, <2>4 DEF Opens, At
    <3> QED BY <1>6, <2>1, <2>2, <2>3, <2>4, <3>1 DEF PromptSafe
  <2>5. CASE t # s
    <3>1. ~Opens(w, t)
      BY <2>5 DEF Opens
    <3>2. \A v \in Workers : Opens(v, t) => (At(v, "write")' <=> At(v, "write"))
      BY <1>4, <3>1 DEF At
    <3> QED BY <1>6, <2>1, <2>2, <2>3, <2>5, <3>2 DEF PromptSafe
  <2> QED BY <2>4, <2>5
<1> QED BY <1>2, <1>5, <1>6 DEF FilesSafe

\* The text written back holds what was due when it was read; nobody else has written,
\* or it would be spoiled.
LEMMA WritePromptFiles ==
  ASSUME IInv, FilesSafe, NEW w \in Workers, WritePrompt(w)
  PROVE  FilesSafe'
<1> PICK k : k = work[w]
  OBVIOUS
<1> DEFINE s == k.patch.item.target
           next == [k EXCEPT !.stage = "record", !.text = None]
<1>1. JobOK(k) /\ k.stage = "write" /\ k.rows = None
  BY WorkerOK DEF WritePrompt, At, JobOK, Analysing
<1>2. Step(w, next) /\ UNCHANGED <<applied, rows, spoiled>>
  BY DEF WritePrompt, history
<1>3. PICK torn \in {prompt[s] # Empty, FALSE} :
        prompt' = [prompt EXCEPT ![s] = [k.text EXCEPT !.whole = @ /\ ~torn]]
  BY DEF WritePrompt
<1>4. next.stage = "record" /\ next.rows = None /\ next.patch = k.patch
  BY <1>1 DEF JobOK, IsJob, JobFields
<1> HIDE DEF next
<1>5. \A v \in Workers : work'[v] = IF v = w THEN next ELSE work[v]
  BY <1>2, Moves
<1>6. OutcomesSafe => OutcomesSafe'
  BY <1>1, <1>2, <1>4, <1>5, OutcomesSafeStay DEF At
<1>7. ASSUME NEW t \in Targets, PromptSafe(t)
      PROVE  PromptSafe(t)'
  <2>1. \A v \in Workers : v # w => work'[v] = work[v]
    BY <1>5
  <2>2. \A v \in Workers : Opens(v, t)' <=> Opens(v, t) /\ v # w
    BY <1>4, <1>5 DEF Opens
  <2>3. CASE t = s
    <3>1. Opens(w, t) /\ At(w, "write")
      BY <1>1, <2>3 DEF Opens, At
    <3>2. /\ k.text.whole /\ Due(t) \cup {k.patch.item} \subseteq k.text.items
          /\ prompt[t] = Empty
      BY <1>7, <3>1 DEF PromptSafe
    <3>3. IsText(k.text)
      BY <1>1, <2>3 DEF JobOK
    <3>4. prompt'[t].whole /\ prompt'[t].items = k.text.items
      <4>1. torn = FALSE
        BY <1>3, <2>3, <3>2
      <4>2. prompt'[t] = [k.text EXCEPT !.whole = @ /\ ~torn]
        BY <1>3, <2>3 DEF IInv, PromptsOK
      <4> QED BY <3>2, <3>3, <4>1, <4>2 DEF IsText, TextFields
    <3>5. Due(t)' \subseteq Due(t) \cup {k.patch.item}
      BY <1>2, <1>4, <1>5, <2>1 DEF Due, At
    <3>6. \A v \in Workers : ~Opens(v, t)'
      BY <1>7, <2>2, <3>1 DEF PromptSafe
    <3> QED BY <3>2, <3>4, <3>5, <3>6 DEF PromptSafe
  <2>4. CASE t # s
    <3>1. Due(t)' \subseteq Due(t)
      BY <1>2, <1>4, <1>5, <2>4 DEF Due, At
    <3>2. prompt'[t] = prompt[t]
      BY <1>3, <2>4 DEF IInv, PromptsOK
    <3>3. ~Opens(w, t)
      BY <2>4 DEF Opens
    <3> QED BY <1>7, <2>1, <2>2, <3>1, <3>2, <3>3 DEF PromptSafe, At
  <2> QED BY <2>3, <2>4
<1> QED BY <1>2, <1>6, <1>7 DEF FilesSafe

\* What was written and is now logged as applied was due before; its outcome is next.
LEMMA RecordFiles ==
  ASSUME IInv, FilesSafe, NEW w \in Workers, Record(w)
  PROVE  FilesSafe'
<1> PICK k : k = work[w]
  OBVIOUS
<1> DEFINE p == k.patch
           next == [k EXCEPT !.stage = "track"]
<1>1. JobOK(k) /\ k.stage = "record" /\ k.rows = None
  BY WorkerOK DEF Record, At, JobOK, Analysing
<1>2. /\ Step(w, next) /\ UNCHANGED <<prompt, rows, spoiled>>
      /\ applied' = applied \cup {p.item}
  BY DEF Record, history
<1>3. next.stage = "track" /\ next.rows = None /\ next.patch = p
  BY <1>1 DEF JobOK, IsJob, JobFields
<1> HIDE DEF next
<1>4. \A v \in Workers : work'[v] = IF v = w THEN next ELSE work[v]
  BY <1>2, Moves
<1>5. ASSUME NEW t \in Targets, PromptSafe(t)
      PROVE  PromptSafe(t)'
  <2>1. Due(t)' \subseteq Due(t)
    <3>1. p.item.target = t => p.item \in Due(t)
      BY <1>1 DEF Due, At
    <3>2. \A v \in Workers : At(v, "record")' => work'[v] = work[v] /\ At(v, "record")
      BY <1>3, <1>4 DEF At
    <3> QED BY <1>2, <3>1, <3>2 DEF Due
  <2>2. \A v \in Workers : Opens(v, t)' <=> Opens(v, t)
    BY <1>1, <1>3, <1>4 DEF Opens
  <2>3. \A v \in Workers : Opens(v, t) => work'[v] = work[v]
    BY <1>1, <1>4 DEF Opens
  <2>4. \A v \in Workers : Opens(v, t) => (At(v, "write")' <=> At(v, "write"))
    BY <2>3 DEF At
  <2> QED BY <1>2, <1>5, <2>1, <2>2, <2>3, <2>4 DEF PromptSafe
<1>6. OutcomesSafe => OutcomesSafe'
  <2> SUFFICES ASSUME OutcomesSafe PROVE OutcomesSafe'
    OBVIOUS
  <2>1. \A v \in Workers : Reads(v)' => Reads(v) /\ work'[v] = work[v]
    BY <1>3, <1>4 DEF Reads
  <2>2. At(w, "track")' /\ work'[w].patch.item = p.item
    BY <1>3, <1>4 DEF At
  <2>3. \A v \in Workers : At(v, "track") => At(v, "track")' /\ work'[v] = work[v]
    BY <1>1, <1>4 DEF At
  <2> QED BY <1>2, <2>1, <2>2, <2>3 DEF OutcomesSafe
<1> QED BY <1>2, <1>5, <1>6 DEF FilesSafe

\* The outcome is appended while nobody holds an older copy of the outcomes.
LEMMA TrackFiles ==
  ASSUME IInv, FilesSafe, NEW w \in Workers, Track(w)
  PROVE  FilesSafe'
<1> PICK k : k = work[w]
  OBVIOUS
<1> DEFINE next == [k EXCEPT !.stage = "choose", !.did = TRUE, !.patch = None]
           row == [item |-> k.patch.item, outcome |-> "pending"]
<1>1. JobOK(k) /\ k.stage = "track" /\ k.rows = None
  BY WorkerOK DEF Track, At, JobOK, Analysing
<1>2. /\ UNCHANGED <<prompt, applied>> /\ spoiled \subseteq spoiled' /\ Touch(w, Outcomes)
      /\ rows' = [rows EXCEPT !.all = @ \cup {row}]
  BY DEF Track, Touch
<1>3. next.stage = "choose" /\ next.rows = None /\ Idle.stage = "idle" /\ Idle.rows = None
  BY <1>1 DEF JobOK, IsJob, JobFields, Idle
<1> PICK new : /\ new.stage \in {"choose", "idle"} /\ new.rows = None
               /\ Step(w, new)
  <2>1. Step(w, Idle) \/ Step(w, next)
    BY DEF Track
  <2> HIDE DEF next
  <2> QED BY <1>3, <2>1
<1>4. \A v \in Workers : work'[v] = IF v = w THEN new ELSE work[v]
  BY Moves
<1>5. \A t \in Targets : PromptSafe(t) => PromptSafe(t)'
  BY <1>1, <1>2, <1>4, PromptSafeStays DEF At
<1>6. IsRows(rows') /\ rows'.all = rows.all \cup {row}
  BY <1>2 DEF FilesSafe, IsRows
<1>7. OutcomesSafe /\ Outcomes \notin spoiled' => OutcomesSafe'
  <2> SUFFICES ASSUME OutcomesSafe, Outcomes \notin spoiled' PROVE OutcomesSafe'
    OBVIOUS
  <2>1. \A v \in Workers : ~Reads(v)'
    BY <1>2, <1>4, AloneAtOutcomes DEF Reads
  <2>2. IsRow(row) /\ row.item = k.patch.item
    BY DEF IsRow
  <2>3. \A v \in Workers : At(v, "track") /\ v # w => At(v, "track")' /\ work'[v] = work[v]
    BY <1>4 DEF At
  <2> HIDE DEF row
  <2>4. ASSUME NEW item \in applied'
        PROVE  \/ \E v \in Workers : At(v, "track")' /\ work'[v].patch.item = item
               \/ \E r \in rows'.all : r.item = item
    <3>1. \/ \E v \in Workers : At(v, "track") /\ work[v].patch.item = item
          \/ \E r \in rows.all : r.item = item
      BY <1>2, <2>4 DEF OutcomesSafe
    <3>2. ASSUME NEW v \in Workers, At(v, "track"), work[v].patch.item = item
          PROVE  \/ At(v, "track")' /\ work'[v].patch.item = item
                 \/ \E r \in rows'.all : r.item = item
      BY <1>6, <2>2, <2>3, <3>2
    <3> QED BY <1>6, <3>1, <3>2
  <2> QED BY <1>6, <2>1, <2>2, <2>4 DEF OutcomesSafe
<1> QED BY <1>2, <1>5, <1>6, <1>7 DEF FilesSafe

\* A crash spoils what it cuts; all else is in the files.
LEMMA CrashFiles ==
  ASSUME IInv, FilesSafe, Crash
  PROVE  FilesSafe'
<1> DEFINE cut == UNION {Cut(w) : w \in Workers}
<1>1. /\ work' = [w \in Workers |-> Idle] /\ UNCHANGED <<prompt, applied>>
      /\ spoiled' = spoiled \cup cut
      /\ rows' \in IF Outcomes \in cut THEN {rows, Untracked, [Untracked EXCEPT !.whole = FALSE]}
                   ELSE {rows}
  BY DEF Crash
<1>2. \A v \in Workers : work'[v].stage = "idle" /\ work'[v].rows = None
  BY <1>1 DEF Idle
<1>3. IsRows(rows') /\ (Outcomes \notin spoiled' => rows' = rows)
  BY <1>1 DEF FilesSafe, IsRows, Untracked
<1>4. ASSUME NEW t \in Targets, PromptSafe(t), <<"prompt", t>> \notin spoiled'
      PROVE  PromptSafe(t)'
  <2>1. \A v \in Workers : ~(Opens(v, t) /\ At(v, "write"))
    BY <1>1, <1>4 DEF Opens, At, Cut, Held
  <2>2. Due(t)' \subseteq Due(t)
    BY <1>1, <1>2 DEF Due, At
  <2>3. \A v \in Workers : ~Opens(v, t)'
    BY <1>2 DEF Opens
  <2> QED BY <1>1, <1>4, <2>1, <2>2, <2>3 DEF PromptSafe
<1>5. OutcomesSafe /\ Outcomes \notin spoiled' => OutcomesSafe'
  <2> SUFFICES ASSUME OutcomesSafe, Outcomes \notin spoiled' PROVE OutcomesSafe'
    OBVIOUS
  <2>1. \A v \in Workers : ~At(v, "track")
    BY <1>1 DEF At, Cut, Held
  <2> QED BY <1>1, <1>2, <1>3, <2>1, OutcomesSafeStay
<1> QED BY <1>1, <1>3, <1>4, <1>5 DEF FilesSafe

LEMMA CalmFiles ==
  ASSUME FilesSafe, UNCHANGED <<prompt, applied, rows, spoiled, work>>
  PROVE  FilesSafe'
<1>1. \A t \in Targets : PromptSafe(t) => PromptSafe(t)'
  BY PromptSafeStays
<1>2. OutcomesSafe => OutcomesSafe'
  BY OutcomesSafeStay
<1> QED BY <1>1, <1>2 DEF FilesSafe

LEMMA NextFiles ==
  ASSUME IInv, FilesSafe, [Next]_vars
  PROVE  FilesSafe'
<1>1. CASE UNCHANGED vars \/ Elapse \/ Skip \/ \E e \in Ongoing : Happen(e)
  BY <1>1, CalmFiles DEF vars, files, history, Elapse, Skip, Happen
<1>2. ASSUME NEW w \in Workers, Steps(w) PROVE FilesSafe'
  <2>1. CASE Analyse(w) \/ \E llm \in LlmSignals : Settle(w, llm)
    BY <2>1, AnalyseFiles, SettleFiles
  <2>2. CASE \/ Generate(w) \/ Store(w) \/ WriteIndex(w) \/ Learn(w)
             \/ Consider(w) \/ Merge(w) \/ Save(w)
    BY <2>2, OtherFiles
  <2>3. CASE ReadPrompt(w) \/ EmptyPrompt(w) \/ WritePrompt(w)
    BY <2>3, ReadPromptFiles, EmptyPromptFiles, WritePromptFiles
  <2>4. CASE Record(w) \/ Track(w)
    BY <2>4, RecordFiles, TrackFiles
  <2> QED BY <1>2, <2>1, <2>2, <2>3, <2>4 DEF Steps
<1>3. CASE Crash
  BY <1>3, CrashFiles
<1>4. CASE \/ StartCycle
           \/ \E report : (\E job \in {"cycle", "analyze"} : StartManual(job, report))
                          \/ StartOptimizer(report)
           \/ \E w \in Threads, llm \in LlmSignals : StartChain(w, llm)
           \/ \E w \in Workers, p \in patches : StartApply(w, p)
  BY <1>4, StartsFiles
<1> QED BY <1>1, <1>2, <1>3, <1>4 DEF Next

\* What is logged as applied is in its prompt, which is whole, and its outcome is tracked,
\* for any number of overlapping jobs, as long as no two of them met at the file and no
\* crash cut it.
THEOREM AppliedKept == Spec => []AppliedIsKept
<1>1. Init => FilesSafe
  BY InitFiles
<1>2. IInv /\ FilesSafe /\ [Next]_vars => FilesSafe'
  BY NextFiles
<1>3. FilesSafe => AppliedIsKept
  <2> SUFFICES ASSUME FilesSafe PROVE AppliedIsKept
    OBVIOUS
  <2>1. \A t \in Targets, w \in Workers :
          Opens(w, t) /\ At(w, "write") => <<"prompt", t>> \in Cut(w)
    BY DEF Opens, At, Cut, Held
  <2>2. \A t \in Targets : {item \in applied : item.target = t} \subseteq Due(t)
    BY DEF Due
  <2> QED BY <2>1, <2>2 DEF FilesSafe, PromptSafe, OutcomesSafe, AppliedIsKept
<1> QED BY <1>1, <1>2, <1>3, Invariant, PTL DEF Spec

-----------------------------------------------------------------------------
(* What every file holds, and what every job has in hand *)

LEMMA FoundNamed ==
  ASSUME NEW conditions
  PROVE  Found(conditions) \subseteq DOMAIN conditions
  BY DEF Found

\* What the analyzers find has a name that is known.
LEMMA IssuesKnown ==
  ASSUME NEW logs, NEW report
  PROVE  /\ ToolIssues(logs) \subseteq Issues /\ BillingIssues(logs) \subseteq Issues
         /\ FeedbackIssues(logs) \subseteq Issues /\ ScanIssues(logs) \subseteq Issues
         /\ GateIssues(logs) \subseteq Issues /\ SandboxIssues(logs) \subseteq Issues
         /\ StopIssues(logs) \subseteq Issues /\ PhaseIssues(report) \subseteq Issues
         /\ NegotiationIssues(report) \subseteq Issues /\ OutcomeIssues(report) \subseteq Issues
<1>1. ToolIssues(logs) \subseteq Issues
  BY DEF Found, Issues, Templates, ToolIssues
<1>2. BillingIssues(logs) \subseteq Issues
  BY DEF Found, Issues, Templates, BillingIssues
<1>3. FeedbackIssues(logs) \subseteq Issues
  BY DEF Found, Issues, Templates, FeedbackIssues
<1>4. ScanIssues(logs) \subseteq Issues
  BY DEF Found, Issues, Templates, ScanIssues
<1>5. GateIssues(logs) \subseteq Issues
  BY DEF Found, Issues, Templates, GateIssues
<1>6. SandboxIssues(logs) \subseteq Issues
  BY DEF Found, Issues, Templates, SandboxIssues
<1>7. StopIssues(logs) \subseteq Issues
  BY DEF Found, Issues, Templates, StopIssues
<1>8. PhaseIssues(report) \subseteq Issues
  BY DEF Found, Issues, Templates, PhaseIssues
<1>9. NegotiationIssues(report) \subseteq Issues
  BY DEF Found, Issues, Templates, NegotiationIssues
<1>10. OutcomeIssues(report) \subseteq Issues
  BY DEF Found, Issues, Templates, OutcomeIssues
<1> QED BY <1>1, <1>2, <1>3, <1>4, <1>5, <1>6, <1>7, <1>8, <1>9, <1>10

\* A log of finitely many rows has a number of them.
LEMMA CountsAreNatural ==
  ASSUME NEW logs \in Logs, NEW S \in SUBSET Events
  PROVE  Count(logs, S) \in Nat
<1> DEFINE copies(e) == {e} \X (1..logs[e])
<1>1. IsFiniteSet(S)
  BY SignalsAssumption, FS_Subset
<1>2. ASSUME NEW e \in S PROVE IsFiniteSet(copies(e))
  <2>1. logs[e] \in Nat
    BY DEF Logs
  <2>2. 1 \in Int /\ logs[e] \in Int
    BY <2>1
  <2>3. IsFiniteSet(1..logs[e])
    BY ONLY <2>2, FS_Interval
  <2>4. IsFiniteSet({e})
    BY FS_Singleton
  <2> QED BY <2>3, <2>4, FS_Product
<1> DEFINE all == {copies(e) : e \in S}
<1>3. IsFiniteSet(all)
  <2> DEFINE f == [e \in S |-> copies(e)]
  <2>1. f \in Surjection(S, all)
    <3> HIDE DEF copies
    <3> QED BY DEF Surjection
  <2> HIDE DEF f, all
  <2> QED BY <1>1, <2>1, FS_Surjection
<1>4. \A s \in all : IsFiniteSet(s)
  <2> HIDE DEF copies
  <2> QED BY <1>2
<1>5. IsFiniteSet(UNION all)
  <2> HIDE DEF all
  <2> QED BY <1>3, <1>4, FS_UNION
<1> QED BY <1>5, FS_CardinalityType DEF Count
\* A model may name issues of its own in a chain.
Named == Issues \cup UNION {llm.issues : llm \in LlmSignals}

\* What the analyzers build is a signal, and so is what is merged from signals.
LEMMA SignalsBuilt ==
  ASSUME NEW logs, NEW report
  PROVE  /\ ExecutionSignal(logs, report) \in Signals
         /\ SecuritySignal(logs) \in Signals
         /\ DemoSignal(report) \in Signals
<1> DEFINE phases == PhaseIssues(report)
           talks == NegotiationIssues(report)
<1>1. ASSUME NEW issues \in SUBSET Issues, NEW recs \in SUBSET Issues,
             NEW patterns \in SUBSET Patterns, NEW target \in Targets,
             NEW actors \in SUBSET Partners
      PROVE  Isolated(logs, issues, recs, patterns, target, actors) \in Signals
  <2> PICK global : global = Global(logs, issues)
    OBVIOUS
  <2>1. global \in SUBSET Issues
    BY DEF Global
  <2>2. Filtered(recs, global) \in SUBSET Recommendations
    <3>1. \A i \in Prefixed : i \notin SandboxOnly
      BY DEF Prefixed, SandboxOnly
    <3>2. "high_risk_partner" \in Issues \ SandboxOnly
      BY DEF Issues, Templates, SandboxOnly
    <3>3. Issues \ SandboxOnly \subseteq Recommendations
      BY DEF Recommendations
    <3> HIDE DEF Issues, SandboxOnly, Recommendations, Prefixed
    <3> QED BY <3>1, <3>2, <3>3 DEF Filtered
  <2>3. [allows |-> global # {}, actors |-> actors] \in Isolations
    BY DEF Isolations
  <2> QED BY <2>1, <2>2, <2>3 DEF Isolated, Signals, SignalsNaming
<1>2. \A issues : ReportTarget(issues) \in Targets
  BY DEF ReportTarget, Targets
<1>3. ExecutionSignal(logs, report) \in Signals
  <2> DEFINE ph == IF report = None THEN {} ELSE phases
             ta == IF report = None THEN {} ELSE talks
             issues == ToolIssues(logs) \cup BillingIssues(logs) \cup ph \cup ta
                         \cup FeedbackIssues(logs)
  <2>1. issues \subseteq Issues
    BY IssuesKnown
  <2>2. ExecutionSignal(logs, report)
          = Isolated(logs, issues, issues \ Wordless, {}, ReportTarget(ph), {})
    BY DEF ExecutionSignal
  <2> HIDE DEF issues, ph, ta
  <2> QED BY <1>1, <1>2, <2>1, <2>2
<1>4. SecuritySignal(logs) \in Signals
  <2> DEFINE issues == ScanIssues(logs) \cup GateIssues(logs) \cup SandboxIssues(logs)
                         \cup StopIssues(logs)
             actors == {p \in Partners : Count(logs, ScansOf(p)) > 0} \cup Offenders(logs, 1)
  <2>1. issues \subseteq Issues
    BY IssuesKnown
  <2>2. actors \subseteq Partners
    BY DEF Offenders
  <2>3. SecuritySignal(logs)
          = Isolated(logs, issues, issues, Repeated(logs), "closer_prompt", actors)
    BY DEF SecuritySignal
  <2>4. Repeated(logs) \subseteq Patterns /\ "closer_prompt" \in Targets
    BY DEF Repeated, Targets
  <2> HIDE DEF issues, actors
  <2> QED BY <1>1, <2>1, <2>2, <2>3, <2>4
<1>5. DemoSignal(report) \in Signals
  <2> DEFINE issues == phases \cup OutcomeIssues(report)
             recs == IF issues = {} THEN {"demo_passed"} ELSE issues
             target == IF issues = {"guardrail_chain_broken"} THEN "outreach_worker"
                       ELSE ReportTarget(issues)
  <2>1. issues \subseteq Issues
    BY IssuesKnown
  <2>2. recs \subseteq Recommendations
    <3>1. issues \cap SandboxOnly = {}
      BY DEF PhaseIssues, OutcomeIssues, Found, SandboxOnly
    <3> HIDE DEF issues
    <3> QED BY <2>1, <3>1 DEF Recommendations
  <2>3. target \in Targets
    BY <1>2 DEF Targets
  <2>4. DemoSignal(report) = [issues |-> issues, recs |-> recs, patterns |-> {},
                              isolation |-> None, target |-> target]
    BY DEF DemoSignal
  <2> HIDE DEF issues, recs, target
  <2> QED BY <2>1, <2>2, <2>3, <2>4 DEF Signals, SignalsNaming
<1> QED BY <1>3, <1>4, <1>5

LEMMA SignalsMerged ==
  ASSUME NEW execution \in Signals \cup {None}, NEW security \in Signals \cup {None},
         NEW demo \in Signals \cup {None}
  PROVE  /\ \A llm \in LlmSignals :
              MergeMeta(execution, security, demo, llm) \in SignalsNaming(Named)
         /\ execution \in Signals /\ security \in Signals
              => MergeDemo(MergeSecurity(execution, security), demo) \in Signals
<1>1. NoSignal \in Signals
  BY DEF NoSignal, Signals, SignalsNaming, Targets
<1>2. \A s \in Signals \cup {None} : OrNoSignal(s) \in Signals
  BY <1>1 DEF OrNoSignal
<1>3. \A s \in Signals : /\ s.issues \subseteq Issues /\ s.recs \subseteq Recommendations
                        /\ s.patterns \subseteq Patterns /\ s.target \in Targets
                        /\ s.isolation \in Isolations \cup {None}
  BY DEF Signals, SignalsNaming
<1>4. ASSUME NEW llm \in LlmSignals
      PROVE  MergeMeta(execution, security, demo, llm) \in SignalsNaming(Named)
  <2> DEFINE all == {OrNoSignal(s) : s \in {execution, security, demo}}
             issues == (UNION {s.issues : s \in all}) \cup llm.issues
             recs == (UNION {s.recs : s \in all}) \cup llm.recs \cup Campaign
             target == IF security # None THEN security.target
                       ELSE IF execution # None THEN execution.target
                       ELSE IF demo # None THEN demo.target ELSE llm.target
  <2>1. all \subseteq Signals
    BY <1>2
  <2>2. issues \subseteq Named
    <3> HIDE DEF all
    <3>1. \A s \in all : s.issues \subseteq Issues
      BY <1>3, <2>1
    <3>2. UNION {s.issues : s \in all} \subseteq Issues
      BY ONLY <3>1, Zenon
    <3>3. llm.issues \subseteq UNION {l.issues : l \in LlmSignals}
      OBVIOUS
    <3> QED BY <3>2, <3>3 DEF Named
  <2>3. recs \subseteq Recommendations
    <3> HIDE DEF all
    <3>1. \A s \in all : s.recs \subseteq Recommendations
      BY <1>3, <2>1
    <3>2. UNION {s.recs : s \in all} \subseteq Recommendations
      BY ONLY <3>1, Zenon
    <3>3. llm.recs \subseteq OwnWords
      BY LearningAssumption
    <3> QED BY <3>2, <3>3 DEF Recommendations
  <2>4. target \in Targets
    BY <1>2, <1>3, LearningAssumption DEF OrNoSignal
  <2>5. OrNoSignal(security).patterns \subseteq Patterns
    BY <1>2, <1>3
  <2>6. MergeMeta(execution, security, demo, llm)
          = [issues |-> issues, recs |-> recs, patterns |-> OrNoSignal(security).patterns,
             target |-> target, isolation |-> None]
    BY DEF MergeMeta
  <2> HIDE DEF issues, recs, target
  <2> QED BY <2>2, <2>3, <2>4, <2>5, <2>6 DEF SignalsNaming
<1>5. ASSUME execution \in Signals, security \in Signals
      PROVE  MergeDemo(MergeSecurity(execution, security), demo) \in Signals
  <2> DEFINE merged == MergeSecurity(execution, security)
  <2>1. merged \in Signals
    BY <1>3, <1>5 DEF MergeSecurity, Signals, SignalsNaming
  <2> HIDE DEF merged
  <2>2. OrNoSignal(demo) \in Signals
    BY <1>2
  <2> DEFINE other == OrNoSignal(demo)
             issues == merged.issues \cup other.issues
             recs == merged.recs \cup other.recs
  <2>3. issues \subseteq Issues /\ recs \subseteq Recommendations
    BY <1>3, <2>1, <2>2
  <2>4. MergeDemo(merged, demo) = [merged EXCEPT !.issues = issues, !.recs = recs]
    BY <2>1 DEF MergeDemo, Signals, SignalsNaming
  <2> HIDE DEF issues, recs
  <2> QED BY <2>1, <2>3, <2>4 DEF Signals, SignalsNaming, merged
<1> QED BY <1>4, <1>5

\* What a signal is turned into has an issue with a text, or is learned word for word.
LEMMA ItemsBuilt ==
  ASSUME NEW sig \in SignalsNaming(Named), NEW items \in ConcreteItems(sig)
  PROVE  items \subseteq Items
<1>1. /\ sig.recs \subseteq Recommendations /\ sig.patterns \subseteq Patterns
      /\ sig.target \in Targets
  BY DEF SignalsNaming
<1>2. PatternItems(sig) \subseteq Items
  BY <1>1 DEF PatternItems, Item, Items, Targets
<1>3. {Item(i, {}, TemplateTarget(i)) : i \in sig.issues \cap Templates} \subseteq Items
  <2>1. \A i : TemplateTarget(i) \in Targets
    BY DEF TemplateTarget, Targets
  <2> QED BY <2>1 DEF Item, Items
<1>4. ReinforcementItems(sig) \subseteq Items
  BY <1>1 DEF ReinforcementItems, Item, Items
<1> DEFINE plain == PatternItems(sig)
                      \cup {Item(i, {}, TemplateTarget(i)) : i \in sig.issues \cap Templates}
<1>5. items = plain \/ \E item \in ReinforcementItems(sig) : items = {item}
  BY DEF ConcreteItems
<1> QED BY <1>2, <1>3, <1>4, <1>5

Patching == Applying \cup {"track"}

\* What a job has in hand at each stage.
JobTyped(k) ==
  /\ k.deals \in Nat /\ k.todo \in SUBSET Patches /\ k.kept \in SUBSET Patches
  /\ k.rows # None => k.rows \in SUBSET Rows
  /\ k.job = "apply" => k.stage \in Patching
  /\ k.stage \in {"security", "merged"} => k.base \in Signals
  /\ k.stage = "merged" => k.sig \in Signals
  /\ k.stage \in Analysing /\ k.stage # "signal" /\ k.rows # None => k.sig \in Signals
  /\ k.stage \in {"signal", "generate", "store", "index", "choose"} => k.sig \in SignalsNaming(Named)
  /\ k.stage \in Patching /\ k.job # "apply" => k.sig \in SignalsNaming(Named)
  /\ k.stage \in Patching \cup {"index"} => k.patch \in Patches
  /\ k.stage \in {"empty", "write", "record"} => k.patch.item.issue \notin SandboxOnly
  /\ k.stage \in {"empty", "write"} => k.text \in Texts

TypeInv == TypeOK /\ \A w \in Workers : JobTyped(work[w])

\* The files alone; TypeOK adds what the jobs have in hand.
FilesTyped ==
  /\ log \in Logs
  /\ signals \in [{"execution", "security", "demo"} -> Signals \cup {None}]
  /\ rows \in [whole : BOOLEAN, all : SUBSET Rows]
  /\ patches \in SUBSET Patches
  /\ index \in [Targets -> BOOLEAN] /\ prompt \in [Targets -> Texts]
  /\ effective \in [Targets -> Overlays \cup {None}]
  /\ learned \in [Targets -> SUBSET Recommendations]
  /\ applied \in SUBSET Items /\ approved \in SUBSET Items
  /\ state \in [ran : BOOLEAN, deals : Nat] /\ due \in BOOLEAN
  /\ analysed \in Nat /\ troubles \in 0..MaxTroubles

LEMMA OneTypedJob ==
  ASSUME IInv, TypeInv, NEW w \in Workers, NEW k, Step(w, k), JobTyped(k), FilesTyped'
  PROVE  TypeInv'
<1>1. \A v \in Workers : work'[v] = IF v = w THEN k ELSE work[v]
  BY DEF IInv, JobsOK, Step
<1>2. \A v \in Workers : JobTyped(work'[v])
  BY <1>1 DEF TypeInv
<1>3. \A v \in Workers : work'[v].todo \in SUBSET Patches /\ work'[v].kept \in SUBSET Patches
  BY <1>2 DEF JobTyped
<1> QED BY <1>2, <1>3 DEF TypeInv, TypeOK, FilesTyped

LEMMA FilesAreTyped == TypeInv => FilesTyped
  BY DEF TypeInv, TypeOK, FilesTyped

LEMMA IdleTyped == JobTyped(Idle)
  BY DEF JobTyped, Idle, Patching, Applying, Analysing

LEMMA WorkerTyped ==
  ASSUME IInv, TypeInv, NEW w \in Workers
  PROVE  JobTyped(work[w]) /\ IsJob(work[w])
  BY WorkerOK DEF TypeInv, JobOK

LEMMA InitTyped == Init => TypeInv
<1> SUFFICES ASSUME Init PROVE TypeInv
  OBVIOUS
<1>1. log \in Logs /\ MaxTroubles \in Nat
  BY LearningAssumption DEF Init
<1>2. \A w \in Workers : work[w] = Idle
  BY DEF Init
<1>3. prompt \in [Targets -> Texts]
  BY DEF Init, Original, Texts
<1>4. state \in [ran : BOOLEAN, deals : Nat]
  BY DEF Init, NeverRan
<1>5. rows \in [whole : BOOLEAN, all : SUBSET Rows]
  BY DEF Init, Untracked
<1>6. Idle.todo = {} /\ Idle.kept = {}
  BY DEF Idle
<1>7. signals \in [{"execution", "security", "demo"} -> Signals \cup {None}]
  BY DEF Init
<1>8. /\ effective = [t \in Targets |-> None] /\ learned = [t \in Targets |-> {}]
      /\ patches = {} /\ applied = {} /\ approved = {} /\ analysed = 0
      /\ due = FALSE /\ troubles = 0 /\ index = [t \in Targets |-> TRUE]
  BY DEF Init
<1>9. TypeOK
  <2>1. troubles \in 0..MaxTroubles /\ analysed \in Nat
    BY <1>1, <1>8
  <2> QED BY <2>1, <1>1, <1>2, <1>3, <1>4, <1>5, <1>6, <1>7, <1>8 DEF TypeOK
<1> QED BY <1>2, <1>9, IdleTyped DEF TypeInv

LEMMA StartsTyped ==
  ASSUME IInv, TypeInv,
         \/ StartCycle
         \/ \E report : (\E job \in {"cycle", "analyze"} : StartManual(job, report))
                        \/ StartOptimizer(report)
         \/ \E w \in Threads, llm \in LlmSignals : StartChain(w, llm)
         \/ \E w \in Workers, p \in patches : StartApply(w, p)
  PROVE  TypeInv'
<1>1. Loop \in Workers /\ Threads \subseteq Workers
  BY DEF Workers
<1>2. FilesTyped
  BY FilesAreTyped
<1>3. Trouble => troubles' \in 0..MaxTroubles
  BY <1>2, LearningAssumption DEF Trouble, FilesTyped
<1>4. ASSUME NEW report, NEW job \in {"cycle", "analyze", "optimize"}
      PROVE  JobTyped(Analysis(job, report))
  BY DEF Analysis, Idle, JobTyped, Patching, Applying, Analysing
<1>5. CASE StartCycle
  <2>1. Step(Loop, Analysis("cycle", None)) /\ FilesTyped'
    BY <1>2, <1>5 DEF StartCycle, Start, files, history, FilesTyped
  <2> QED BY <1>1, <1>4, <2>1, OneTypedJob
<1>6. ASSUME NEW report, NEW job \in {"cycle", "analyze"}, StartManual(job, report)
      PROVE  TypeInv'
  <2>1. Step(Loop, Analysis(job, report)) /\ FilesTyped'
    BY <1>2, <1>3, <1>6 DEF StartManual, Start, files, history, FilesTyped
  <2> QED BY <1>1, <1>4, <2>1, OneTypedJob
<1>7. ASSUME NEW report, StartOptimizer(report)
      PROVE  TypeInv'
  <2>1. DemoSignal(report) \in Signals
    BY SignalsBuilt
  <2>2. Step(Loop, Analysis("optimize", report))
    BY <1>7 DEF StartOptimizer, Start
  <2>3. FilesTyped'
    BY <1>2, <1>3, <1>7, <2>1 DEF StartOptimizer, Start, history, FilesTyped
  <2> QED BY <1>1, <1>4, <2>2, <2>3, OneTypedJob
<1>8. ASSUME NEW w \in Threads, NEW llm \in LlmSignals, StartChain(w, llm)
      PROVE  TypeInv'
  <2> DEFINE sig == MergeMeta(signals.execution, signals.security, signals.demo, llm)
             k == [Idle EXCEPT !.job = "chain", !.stage = "signal", !.sig = sig]
  <2>1. Step(w, k) /\ FilesTyped'
    BY <1>2, <1>3, <1>8 DEF StartChain, Start, files, history, FilesTyped
  <2>2. sig \in SignalsNaming(Named)
    BY <1>2, SignalsMerged DEF FilesTyped
  <2>3. JobTyped(k)
    <3> HIDE DEF sig
    <3> QED BY <2>2 DEF Idle, JobTyped, Patching, Applying, Analysing
  <2> HIDE DEF k
  <2> QED BY <1>1, <2>1, <2>3, OneTypedJob
<1>9. ASSUME NEW w \in Workers, NEW p \in patches, StartApply(w, p)
      PROVE  TypeInv'
  <2> DEFINE k == [Idle EXCEPT !.job = "apply", !.stage = "check", !.patch = p]
  <2>1. Step(w, k) /\ FilesTyped'
    BY <1>2, <1>3, <1>9 DEF StartApply, Start, files, history, FilesTyped
  <2>2. p \in Patches
    BY <1>2 DEF FilesTyped
  <2>3. JobTyped(k)
    BY <2>2 DEF Idle, JobTyped, Patching, Applying, Analysing
  <2> HIDE DEF k
  <2> QED BY <2>1, <2>3, OneTypedJob
<1> QED BY <1>5, <1>6, <1>7, <1>8, <1>9

LEMMA AnalyseTyped ==
  ASSUME IInv, TypeInv, NEW w \in Workers, Analyse(w)
  PROVE  TypeInv'
<1> DEFINE k == work[w]
           sig == SignalAt(k)
           deals == IF k.stage = "execution" THEN NumberOfDeals(log) ELSE k.deals
           next == [k EXCEPT !.sig = sig, !.rows = rows.all, !.deals = deals]
<1>1. JobTyped(k) /\ IsJob(k) /\ k.stage \in Analysing
  BY WorkerTyped DEF Analyse, Analysing
<1>2. FilesTyped /\ FilesTyped'
  BY FilesAreTyped DEF FilesTyped, Analyse, files
<1>3. Step(w, Idle) \/ Step(w, next)
  <2>1. CASE ~rows.whole
    BY <2>1 DEF Analyse, Stop
  <2>2. CASE rows.whole
    BY <1>1, <2>2 DEF Analyse, IsJob, JobFields
  <2> QED BY <2>1, <2>2
<1>4. deals \in Nat
  <2>1. NumberOfDeals(log) \in Nat
    BY <1>2, CountsAreNatural DEF NumberOfDeals, Kind, FilesTyped
  <2> QED BY <1>1, <2>1 DEF JobTyped
<1>5. /\ k.stage # "signal" => sig \in Signals
      /\ k.stage = "signal" => sig \in SignalsNaming(Named)
  <2>1. k.stage = "execution" => sig = ExecutionSignal(log, k.sig)
    BY DEF SignalAt
  <2>2. k.stage = "security" => sig = SecuritySignal(log)
    BY DEF SignalAt
  <2>3. k.stage = "merged" => sig = MergeDemo(MergeSecurity(k.base, k.sig), signals.demo)
    BY DEF SignalAt
  <2>4. k.stage = "signal" => sig = k.sig
    BY DEF SignalAt
  <2>5. k.stage = "merged" => sig \in Signals
    BY <1>1, <1>2, <2>3, SignalsMerged DEF JobTyped, FilesTyped
  <2> HIDE DEF sig
  <2> QED BY <1>1, <2>1, <2>2, <2>4, <2>5, SignalsBuilt DEF Analysing, JobTyped
<1>6. rows.all \in SUBSET Rows
  BY <1>2 DEF FilesTyped
<1>7. JobTyped(next)
  <2> HIDE DEF sig, deals, k
  <2> QED BY <1>1, <1>4, <1>5, <1>6 DEF JobTyped, IsJob, JobFields, Analysing, Patching, Applying
<1> HIDE DEF next
<1> QED BY <1>2, <1>3, <1>7, IdleTyped, OneTypedJob

LEMMA SettleTyped ==
  ASSUME IInv, TypeInv, NEW w \in Workers, NEW llm \in LlmSignals, Settle(w, llm)
  PROVE  TypeInv'
<1> DEFINE j == work[w]
           k == [j EXCEPT !.rows = None]
           sig == MergeMeta(k.sig, signals.security, signals.demo, llm)
           next == AfterStage(w, llm)
           settled == Settled(j.rows, j.sig.issues)
<1>1. JobTyped(j) /\ IsJob(j) /\ j.stage \in Analysing /\ j.rows # None
  BY WorkerTyped, WorkerOK DEF Settle, JobOK
<1>2. FilesTyped
  BY FilesAreTyped
<1>3. /\ IsJob(k) /\ k.stage = j.stage /\ k.job = j.job /\ k.rows = None /\ k.sig = j.sig
      /\ k.deals = j.deals /\ k.todo = j.todo /\ k.kept = j.kept /\ k.base = j.base
  BY <1>1 DEF IsJob, JobFields
<1>4. k.stage = "execution" \/ k.stage = "security" \/ k.stage = "merged" => k.sig \in Signals
  BY <1>1, <1>3 DEF JobTyped, Analysing
<1>5. k.stage = "execution" => sig \in SignalsNaming(Named)
  BY <1>2, <1>4, SignalsMerged DEF FilesTyped
<1>6. Signals \subseteq SignalsNaming(Named)
  BY DEF Signals, SignalsNaming, Named
<1>7. k.stage = "execution" => k.job \in {"cycle", "optimize", "analyze"}
  BY <1>3, WorkerOK DEF JobOK
<1>8. JobTyped(next)
  <2>1. k.job # "apply"
    BY <1>1, <1>3 DEF JobTyped, Patching, Applying, Analysing
  <2> HIDE DEF j, k, sig
  <2>2. CASE k.stage = "execution" /\ k.job = "cycle"
    <3>1. next = [k EXCEPT !.stage = "security", !.base = k.sig]
      BY <2>2 DEF AfterStage, k, j
    <3> QED BY <1>1, <1>3, <1>4, <2>1, <2>2, <3>1
            DEF JobTyped, IsJob, JobFields, Analysing, Patching, Applying
  <2>3. CASE k.stage = "execution" /\ k.job = "optimize"
    <3>1. next = [k EXCEPT !.stage = "signal", !.sig = sig]
      BY <2>3 DEF AfterStage, k, j, sig
    <3> QED BY <1>1, <1>3, <1>5, <2>1, <2>3, <3>1
            DEF JobTyped, IsJob, JobFields, Analysing, Patching, Applying
  <2>4. CASE k.stage = "execution" /\ k.job = "analyze"
    <3>1. next = Idle
      BY <2>4 DEF AfterStage, k, j
    <3> QED BY <3>1, IdleTyped
  <2>5. CASE k.stage = "security"
    <3>1. next = [k EXCEPT !.stage = "merged"]
      BY <2>5 DEF AfterStage, k, j
    <3> QED BY <1>1, <1>3, <1>4, <2>1, <2>5, <3>1
            DEF JobTyped, IsJob, JobFields, Analysing, Patching, Applying
  <2>6. CASE k.stage = "merged"
    <3>1. next = [k EXCEPT !.stage = "signal", !.base = None]
      BY <2>6 DEF AfterStage, k, j
    <3> QED BY <1>1, <1>3, <1>4, <1>6, <2>1, <2>6, <3>1
            DEF JobTyped, IsJob, JobFields, Analysing, Patching, Applying
  <2>7. CASE k.stage = "signal"
    <3>1. next = [k EXCEPT !.stage = "generate"]
      BY <2>7 DEF AfterStage, k, j
    <3> QED BY <1>1, <1>3, <2>1, <2>7, <3>1
            DEF JobTyped, IsJob, JobFields, Analysing, Patching, Applying
  <2> QED BY <1>1, <1>3, <1>7, <2>2, <2>3, <2>4, <2>5, <2>6, <2>7 DEF Analysing
<1>9. settled \in SUBSET Rows
  <2>1. j.rows \in SUBSET Rows
    BY <1>1 DEF JobTyped
  <2>2. \A r \in Rows : \A outcome \in {"unresolved", "resolved"} :
          [r EXCEPT !.outcome = outcome] \in Rows
    BY DEF Rows
  <2> HIDE DEF j
  <2> QED BY <2>1, <2>2 DEF Settled
<1>10. rows' \in [whole : BOOLEAN, all : SUBSET Rows]
  <2>1. rows' = rows \/ rows' = [rows EXCEPT !.all = settled]
    BY DEF Settle
  <2> HIDE DEF settled
  <2> QED BY <1>2, <1>9, <2>1 DEF FilesTyped
<1>11. signals' \in [{"execution", "security", "demo"} -> Signals \cup {None}]
  <2>1. \/ signals' = signals
        \/ /\ j.stage \in {"execution", "security"}
           /\ signals' = [signals EXCEPT ![j.stage] = j.sig]
    BY DEF Settle
  <2>2. j.stage \in {"execution", "security"} => j.sig \in Signals
    BY <1>3, <1>4
  <2> HIDE DEF j
  <2> QED BY <1>2, <2>1, <2>2 DEF FilesTyped
<1>12. FilesTyped'
  BY <1>2, <1>10, <1>11 DEF FilesTyped, Settle, history
<1>13. Step(w, next)
  BY DEF Settle
<1> HIDE DEF next
<1> QED BY <1>8, <1>12, <1>13, OneTypedJob

LEMMA GenerateTyped ==
  ASSUME IInv, TypeInv, NEW w \in Workers, Generate(w)
  PROVE  TypeInv'
<1> DEFINE k == work[w]
<1>1. JobTyped(k) /\ IsJob(k) /\ k.stage = "generate"
  BY WorkerTyped DEF Generate, At
<1>2. PICK items \in ConcreteItems(k.sig) :
        Step(w, [k EXCEPT !.stage = "store", !.todo = {Patched(k.sig, item) : item \in items}])
  BY DEF Generate
<1> DEFINE todo == {Patched(k.sig, item) : item \in items}
           next == [k EXCEPT !.stage = "store", !.todo = todo]
<1>3. /\ k.sig \in SignalsNaming(Named) /\ k.sig.isolation \in Isolations \cup {None}
      /\ k.sig.recs \in SUBSET Recommendations
  BY <1>1 DEF JobTyped, SignalsNaming
<1>4. items \subseteq Items
  BY <1>3, ItemsBuilt
<1>5. todo \in SUBSET Patches
  <2>1. \A item \in Items : Patched(k.sig, item) \in Patches
    <3> HIDE DEF k
    <3>1. \A item : Evidence(k.sig.isolation, item) \in Isolations \cup {None}
      BY <1>3 DEF Evidence
    <3> QED BY <1>3, <3>1 DEF Patched, Patches
  <2> QED BY <1>4, <2>1
<1>6. Step(w, next) /\ FilesTyped'
  BY <1>2, FilesAreTyped DEF Generate, files, history, FilesTyped
<1>7. JobTyped(next)
  <2> HIDE DEF k, todo
  <2> QED BY <1>1, <1>5 DEF JobTyped, IsJob, JobFields, Analysing, Patching, Applying
<1> HIDE DEF next
<1> QED BY <1>6, <1>7, OneTypedJob

LEMMA StoreTyped ==
  ASSUME IInv, TypeInv, NEW w \in Workers, Store(w)
  PROVE  TypeInv'
<1> DEFINE k == work[w]
           raw == CHOOSE x \in k.todo : TRUE
           sure == Confident(raw.item, prompt[raw.item.target])
           p == [raw EXCEPT !.sure = sure]
           kept == k.kept \cup {x \in {p} : p.status = "pending"}
           todo == k.todo \ {raw}
           next == [k EXCEPT !.stage = "index", !.patch = p, !.todo = todo, !.kept = kept]
<1>1. JobTyped(k) /\ IsJob(k) /\ k.stage = "store" /\ raw \in k.todo
  BY WorkerTyped DEF Store, At
<1>2. FilesTyped
  BY FilesAreTyped
<1>3. raw \in Patches
  BY <1>1 DEF JobTyped
<1>4. raw.item.target \in Targets
  BY <1>3 DEF Patches, Items
<1>5. sure \in BOOLEAN
  <2> HIDE DEF raw
  <2> QED BY Zenon DEF Confident
<1>6. p \in Patches
  <2> HIDE DEF raw, sure
  <2> QED BY <1>3, <1>5 DEF Patches
<1>7. kept \in SUBSET Patches /\ todo \in SUBSET Patches
  BY <1>1, <1>6 DEF JobTyped
<1>8. Step(w, Idle) \/ Step(w, next)
  <2>1. CASE index[raw.item.target]
    BY <1>1, <2>1 DEF Store, IsJob, JobFields
  <2>2. CASE ~index[raw.item.target]
    BY <2>2 DEF Store, Stop
  <2> QED BY <2>1, <2>2
<1>9. FilesTyped'
  <2>1. patches' = patches \cup {p}
    BY DEF Store
  <2>2. index' = index \/ index' = [index EXCEPT ![raw.item.target] = FALSE]
    BY DEF Store
  <2>3. UNCHANGED <<log, signals, rows, prompt, effective, learned, applied, state, due, analysed,
                    approved, troubles>>
    BY DEF Store
  <2> HIDE DEF p, raw
  <2> QED BY <1>2, <1>4, <1>6, <2>1, <2>2, <2>3 DEF FilesTyped
<1>10. JobTyped(next)
  <2> HIDE DEF k, p, raw, kept, todo
  <2> QED BY <1>1, <1>6, <1>7 DEF JobTyped, IsJob, JobFields, Analysing, Patching, Applying
<1> HIDE DEF next
<1> QED BY <1>8, <1>9, <1>10, IdleTyped, OneTypedJob

LEMMA WriteIndexTyped ==
  ASSUME IInv, TypeInv, NEW w \in Workers, WriteIndex(w)
  PROVE  TypeInv'
<1> DEFINE k == work[w]
           next == [k EXCEPT !.stage = "store", !.patch = None]
<1>1. JobTyped(k) /\ IsJob(k) /\ k.stage = "index"
  BY WorkerTyped DEF WriteIndex, At
<1>2. Step(w, next) /\ FilesTyped'
  BY FilesAreTyped DEF WriteIndex, history, FilesTyped
<1>3. JobTyped(next)
  <2> HIDE DEF k
  <2> QED BY <1>1 DEF JobTyped, IsJob, JobFields, Analysing, Patching, Applying
<1> HIDE DEF next
<1> QED BY <1>2, <1>3, OneTypedJob

LEMMA LearnTyped ==
  ASSUME IInv, TypeInv, NEW w \in Workers, Learn(w)
  PROVE  TypeInv'
<1> DEFINE k == work[w]
           next == [k EXCEPT !.stage = "choose"]
<1>1. JobTyped(k) /\ IsJob(k) /\ k.stage = "store"
  BY WorkerTyped DEF Learn, At
<1>2. k.sig.target \in Targets /\ k.sig.recs \in SUBSET Recommendations
  BY <1>1 DEF JobTyped, SignalsNaming
<1>3. Step(w, next) /\ learned' = [learned EXCEPT ![k.sig.target] = k.sig.recs]
  BY DEF Learn
<1>4. FilesTyped'
  <2>1. learned' \in [Targets -> SUBSET Recommendations]
    <3> HIDE DEF k
    <3> QED BY <1>2, <1>3, FilesAreTyped DEF FilesTyped
  <2> QED BY <2>1, FilesAreTyped DEF Learn, history, FilesTyped
<1>5. JobTyped(next)
  <2> HIDE DEF k
  <2> QED BY <1>1 DEF JobTyped, IsJob, JobFields, Analysing, Patching, Applying
<1> HIDE DEF next
<1> QED BY <1>3, <1>4, <1>5, OneTypedJob

LEMMA ConsiderTyped ==
  ASSUME IInv, TypeInv, NEW w \in Workers, Consider(w)
  PROVE  TypeInv'
<1> DEFINE k == work[w]
           p == CHOOSE x \in Eligible(w) : TRUE
           kept == k.kept \ {p}
           next == [k EXCEPT !.stage = "check", !.kept = kept, !.patch = p]
<1>1. JobTyped(k) /\ IsJob(k) /\ k.stage = "choose" /\ p \in Eligible(w)
  BY WorkerTyped DEF Consider, At
<1>2. p \in Patches /\ kept \in SUBSET Patches
  BY <1>1 DEF Eligible, JobTyped
<1>3. Step(w, next) /\ FilesTyped'
  BY <1>1, FilesAreTyped DEF Consider, files, history, FilesTyped, IsJob, JobFields
<1>4. JobTyped(next)
  <2> HIDE DEF k, p, kept
  <2> QED BY <1>1, <1>2 DEF JobTyped, IsJob, JobFields, Analysing, Patching, Applying
<1> HIDE DEF next
<1> QED BY <1>3, <1>4, OneTypedJob

\* A stored change whose status changes keeps its shape.
LEMMA StatusTyped ==
  ASSUME NEW p \in Patches, NEW status \in {"pending", "applied", "isolation_blocked"},
         patches \in SUBSET Patches,
         patches' = (patches \ {p}) \cup {[p EXCEPT !.status = status]}
  PROVE  patches' \in SUBSET Patches
<1>1. [p EXCEPT !.status = status] \in Patches
  BY DEF Patches
<1> QED BY <1>1

LEMMA ReadPromptTyped ==
  ASSUME IInv, TypeInv, NEW w \in Workers, ReadPrompt(w)
  PROVE  TypeInv'
<1> DEFINE k == work[w]
           p == k.patch
           t == p.item.target
           text == Changed(prompt[t], p.item)
           next == [k EXCEPT !.stage = "empty", !.text = text]
<1>1. JobTyped(k) /\ IsJob(k) /\ k.stage = "check"
  BY WorkerTyped DEF ReadPrompt, At
<1>2. FilesTyped
  BY FilesAreTyped
<1>3. p \in Patches /\ p.item \in Items /\ t \in Targets
  BY <1>1 DEF JobTyped, Patching, Applying, Patches, Items
<1>4. text \in Texts
  <2>1. prompt[t] \in Texts
    BY <1>2, <1>3 DEF FilesTyped
  <2> HIDE DEF t, p
  <2> QED BY <1>3, <2>1 DEF Changed, Learned, Inserted, Original, Texts
<1>5. \/ Step(w, next) /\ AllowedBy(p.isolation, p.item)
      \/ Step(w, Idle)
  BY DEF ReadPrompt, Stop
<1>6. FilesTyped'
  <2>1. patches' \in SUBSET Patches
    <3>1. \/ patches' = patches
          \/ patches' = (patches \ {p}) \cup {[p EXCEPT !.status = "isolation_blocked"]}
      BY DEF ReadPrompt
    <3> HIDE DEF p
    <3> QED BY <1>2, <1>3, <3>1, StatusTyped DEF FilesTyped
  <2>2. approved' \in SUBSET Items
    <3>1. approved' = approved \/ approved' = approved \cup {p.item}
      BY DEF ReadPrompt
    <3> QED BY <1>2, <1>3, <3>1 DEF FilesTyped
  <2>3. UNCHANGED <<log, signals, rows, index, prompt, effective, learned, applied, state, due,
                    analysed, troubles>>
    BY DEF ReadPrompt
  <2> QED BY <1>2, <2>1, <2>2, <2>3 DEF FilesTyped
<1>7. AllowedBy(p.isolation, p.item) => JobTyped(next)
  <2>1. k.patch \in Patches
    BY <1>3
  <2>2. AllowedBy(p.isolation, p.item) => p.item.issue \notin SandboxOnly
    BY DEF AllowedBy
  <2> HIDE DEF k, text
  <2> QED BY <1>1, <1>4, <2>1, <2>2
          DEF JobTyped, IsJob, JobFields, Analysing, Patching, Applying
<1> HIDE DEF next
<1> QED BY <1>5, <1>6, <1>7, IdleTyped, OneTypedJob

LEMMA EmptyPromptTyped ==
  ASSUME IInv, TypeInv, NEW w \in Workers, EmptyPrompt(w)
  PROVE  TypeInv'
<1> DEFINE k == work[w]
           t == k.patch.item.target
           next == [k EXCEPT !.stage = "write"]
<1>1. JobTyped(k) /\ IsJob(k) /\ k.stage = "empty"
  BY WorkerTyped DEF EmptyPrompt, At
<1>2. FilesTyped
  BY FilesAreTyped
<1>3. t \in Targets
  BY <1>1 DEF JobTyped, Patching, Applying, Patches, Items
<1>4. Step(w, next) /\ prompt' = [prompt EXCEPT ![t] = Empty]
  BY DEF EmptyPrompt
<1>5. FilesTyped'
  <2>1. Empty \in Texts
    BY DEF Empty, Texts
  <2>2. prompt' \in [Targets -> Texts]
    <3> HIDE DEF t
    <3> QED BY <1>2, <1>4, <2>1 DEF FilesTyped
  <2> QED BY <1>2, <2>2 DEF FilesTyped, EmptyPrompt, history
<1>6. JobTyped(next)
  <2> HIDE DEF k
  <2> QED BY <1>1 DEF JobTyped, IsJob, JobFields, Analysing, Patching, Applying
<1> HIDE DEF next
<1> QED BY <1>4, <1>5, <1>6, OneTypedJob

LEMMA WritePromptTyped ==
  ASSUME IInv, TypeInv, NEW w \in Workers, WritePrompt(w)
  PROVE  TypeInv'
<1> DEFINE k == work[w]
           t == k.patch.item.target
           text == k.text
           next == [k EXCEPT !.stage = "record", !.text = None]
<1>1. JobTyped(k) /\ IsJob(k) /\ k.stage = "write"
  BY WorkerTyped DEF WritePrompt, At
<1>2. FilesTyped
  BY FilesAreTyped
<1>3. text \in Texts
  BY <1>1 DEF JobTyped
<1>4. PICK torn \in {prompt[t] # Empty, FALSE} :
        prompt' = [prompt EXCEPT ![t] = [text EXCEPT !.whole = @ /\ ~torn]]
  BY DEF WritePrompt
<1>5. Step(w, next)
  BY DEF WritePrompt
<1>6. FilesTyped'
  <2> DEFINE whole == text.whole /\ ~torn
  <2>1. whole \in BOOLEAN
    BY Zenon
  <2> HIDE DEF text
  <2>2. [text EXCEPT !.whole = whole] \in Texts
    <3> HIDE DEF whole
    <3> QED BY <1>3, <2>1 DEF Texts
  <2>3. [text EXCEPT !.whole = @ /\ ~torn] = [text EXCEPT !.whole = whole]
    BY <1>3 DEF Texts
  <2>4. prompt' \in [Targets -> Texts]
    <3> HIDE DEF whole, t
    <3> QED BY <1>2, <1>4, <2>2, <2>3 DEF FilesTyped
  <2> QED BY <1>2, <2>4 DEF FilesTyped, WritePrompt, history
<1>7. JobTyped(next)
  <2> HIDE DEF k
  <2> QED BY <1>1 DEF JobTyped, IsJob, JobFields, Analysing, Patching, Applying
<1> HIDE DEF next
<1> QED BY <1>5, <1>6, <1>7, OneTypedJob

LEMMA RecordTyped ==
  ASSUME IInv, TypeInv, NEW w \in Workers, Record(w)
  PROVE  TypeInv'
<1> DEFINE k == work[w]
           p == k.patch
           next == [k EXCEPT !.stage = "track"]
<1>1. JobTyped(k) /\ IsJob(k) /\ k.stage = "record"
  BY WorkerTyped DEF Record, At
<1>2. FilesTyped
  BY FilesAreTyped
<1>3. p \in Patches /\ p.item \in Items /\ p.item.target \in Targets
  BY <1>1 DEF JobTyped, Patching, Applying, Patches, Items
<1>4. /\ Step(w, next)
      /\ patches' = (patches \ {p}) \cup {[p EXCEPT !.status = "applied"]}
      /\ \/ effective' = effective
         \/ effective' = [effective EXCEPT ![p.item.target] =
                             IF p.recs # {} THEN p.recs ELSE {p.item.issue}]
      /\ applied' = applied \cup {p.item}
      /\ UNCHANGED <<log, signals, rows, index, prompt, learned, state, due, history, troubles>>
  BY DEF Record
<1>5. FilesTyped'
  <2> HIDE DEF p
  <2>1. patches' \in SUBSET Patches
    BY <1>2, <1>3, <1>4, StatusTyped DEF FilesTyped
  <2>2. (IF p.recs # {} THEN p.recs ELSE {p.item.issue}) \in Overlays
    <3>1. p.item.issue \notin SandboxOnly
      BY <1>1 DEF JobTyped, p
    <3>2. p.recs \in SUBSET Recommendations
      BY <1>3 DEF Patches
    <3>3. p.item.issue \in Recommendations \cup {"reinforcement"}
      BY <1>3, <3>1 DEF Items, Recommendations, Issues
    <3> QED BY <3>2, <3>3 DEF Overlays
  <2>3. effective' \in [Targets -> Overlays \cup {None}]
    <3> PICK o \in Overlays : o = IF p.recs # {} THEN p.recs ELSE {p.item.issue}
      BY <2>2
    <3> HIDE DEF Overlays
    <3> QED BY <1>2, <1>3, <1>4 DEF FilesTyped
  <2> QED BY <1>2, <1>3, <1>4, <2>1, <2>3 DEF FilesTyped, history
<1>6. JobTyped(next)
  <2> HIDE DEF k
  <2> QED BY <1>1 DEF JobTyped, IsJob, JobFields, Analysing, Patching, Applying
<1> HIDE DEF next
<1> QED BY <1>4, <1>5, <1>6, OneTypedJob

LEMMA TrackTyped ==
  ASSUME IInv, TypeInv, NEW w \in Workers, Track(w)
  PROVE  TypeInv'
<1> DEFINE k == work[w]
           row == [item |-> k.patch.item, outcome |-> "pending"]
           next == [k EXCEPT !.stage = "choose", !.did = TRUE, !.patch = None]
<1>1. JobTyped(k) /\ IsJob(k) /\ k.stage = "track"
  BY WorkerTyped DEF Track, At
<1>2. FilesTyped
  BY FilesAreTyped
<1>3. row \in Rows
  BY <1>1 DEF JobTyped, Patching, Patches, Rows
<1>4. IF k.job = "apply" THEN Step(w, Idle) ELSE Step(w, next)
  BY DEF Track
<1>5. FilesTyped'
  <2>1. rows' = [rows EXCEPT !.all = @ \cup {row}]
    BY DEF Track
  <2> HIDE DEF row
  <2>2. rows' \in [whole : BOOLEAN, all : SUBSET Rows]
    BY <1>2, <1>3, <2>1 DEF FilesTyped
  <2> QED BY <1>2, <2>2 DEF FilesTyped, Track
<1>6. k.job # "apply" => JobTyped(next)
  <2> HIDE DEF k
  <2> QED BY <1>1 DEF JobTyped, IsJob, JobFields, Analysing, Patching, Applying
<1> HIDE DEF next
<1> QED BY <1>4, <1>5, <1>6, IdleTyped, OneTypedJob

LEMMA EndsTyped ==
  ASSUME IInv, TypeInv, NEW w \in Workers, Merge(w) \/ Save(w)
  PROVE  TypeInv'
<1> DEFINE k == work[w]
<1>1. JobTyped(k) /\ IsJob(k)
  BY WorkerTyped
<1>2. FilesTyped
  BY FilesAreTyped
<1>3. CASE Merge(w)
  <2> DEFINE next == [Idle EXCEPT !.job = "cycle", !.stage = "save", !.deals = k.deals]
  <2>1. Step(w, next) \/ Step(w, Idle)
    BY <1>3 DEF Merge
  <2>2. k.sig.target \in Targets /\ k.sig.recs \in Overlays
    BY <1>1, <1>3 DEF Merge, JobTyped, SignalsNaming, Overlays
  <2>3. effective' \in [Targets -> Overlays \cup {None}]
    <3>1. effective' = effective \/ effective' = [effective EXCEPT ![k.sig.target] = k.sig.recs]
      BY <1>3 DEF Merge
    <3> HIDE DEF k
    <3> QED BY <1>2, <2>2, <3>1 DEF FilesTyped
  <2>4. FilesTyped'
    BY <1>2, <1>3, <2>3 DEF FilesTyped, Merge, history
  <2>5. JobTyped(next)
    <3> HIDE DEF k
    <3> QED BY <1>1 DEF JobTyped, Idle, Analysing, Patching, Applying
  <2> HIDE DEF next
  <2> QED BY <2>1, <2>4, <2>5, IdleTyped, OneTypedJob
<1>4. CASE Save(w)
  <2>1. NumberOfDeals(log) \in Nat
    BY <1>2, CountsAreNatural DEF NumberOfDeals, Kind, FilesTyped
  <2>2. state' = [ran |-> TRUE, deals |-> NumberOfDeals(log)] /\ due' = FALSE
    BY <1>4 DEF Save
  <2>3. analysed' \in Nat
    BY <1>1, <1>2, <1>4 DEF Save, FilesTyped, JobTyped
  <2>4. UNCHANGED <<log, signals, rows, patches, index, prompt, effective, learned, applied, approved,
                    troubles>>
    BY <1>4 DEF Save
  <2>5. FilesTyped'
    BY <1>2, <2>1, <2>2, <2>3, <2>4 DEF FilesTyped
  <2>6. Step(w, Idle)
    BY <1>4 DEF Save, Stop
  <2> QED BY <2>5, <2>6, IdleTyped, OneTypedJob
<1> QED BY <1>3, <1>4

LEMMA CrashTyped ==
  ASSUME TypeInv, Crash
  PROVE  TypeInv'
<1>1. FilesTyped
  BY FilesAreTyped
<1>2. rows' = rows \/ rows' = Untracked \/ rows' = [Untracked EXCEPT !.whole = FALSE]
  BY DEF Crash
<1>3. state' = state \/ state' = NeverRan
  BY DEF Crash
<1>4. rows' \in [whole : BOOLEAN, all : SUBSET Rows]
  <2> DEFINE shape == [whole : BOOLEAN, all : SUBSET Rows]
  <2>1. rows \in shape
    BY <1>1 DEF FilesTyped
  <2>2. Untracked \in shape /\ [Untracked EXCEPT !.whole = FALSE] \in shape
    BY DEF Untracked
  <2> HIDE DEF shape
  <2>3. rows' \in shape
    BY <1>2, <2>1, <2>2
  <2> QED BY <2>3 DEF shape
<1>5. state' \in [ran : BOOLEAN, deals : Nat]
  <2> DEFINE shape == [ran : BOOLEAN, deals : Nat]
  <2>1. state \in shape /\ NeverRan \in shape
    BY <1>1 DEF FilesTyped, NeverRan
  <2> HIDE DEF shape
  <2>2. state' \in shape
    BY <1>3, <2>1
  <2> QED BY <2>2 DEF shape
<1>6. troubles' \in 0..MaxTroubles
  BY <1>1, LearningAssumption DEF FilesTyped, Crash, Trouble
<1>7. /\ work' = [w \in Workers |-> Idle]
      /\ UNCHANGED <<log, signals, patches, index, prompt, effective, learned, applied, due, analysed,
                     approved>>
  BY DEF Crash
<1>8. \A w \in Workers : work'[w] = Idle
  BY <1>7
<1>9. Idle.todo = {} /\ Idle.kept = {}
  BY DEF Idle
<1>10. FilesTyped'
  BY <1>1, <1>4, <1>5, <1>6, <1>7 DEF FilesTyped
<1>11. \A w \in Workers : work'[w].todo \in SUBSET Patches /\ work'[w].kept \in SUBSET Patches
  BY <1>8, <1>9
<1> QED BY <1>8, <1>10, <1>11, IdleTyped DEF TypeInv, TypeOK, FilesTyped

LEMMA CalmTyped ==
  ASSUME TypeInv, UNCHANGED vars \/ Elapse \/ Skip \/ \E e \in Ongoing : Happen(e)
  PROVE  TypeInv'
<1>1. UNCHANGED <<files, work, history, troubles>> /\ (due' = due \/ due' = TRUE)
  BY DEF vars, Elapse, Skip, Happen, files, history
<1>2. log' \in Logs
  <2>1. ASSUME NEW e \in Ongoing, Happen(e) PROVE log' \in Logs
    BY <2>1, LearningAssumption DEF Happen, Logs, TypeInv, TypeOK
  <2> QED BY <2>1 DEF vars, Elapse, Skip, TypeInv, TypeOK
<1> QED BY <1>1, <1>2 DEF TypeInv, TypeOK, files, history

LEMMA NextTyped ==
  ASSUME IInv, TypeInv, [Next]_vars
  PROVE  TypeInv'
<1>1. CASE UNCHANGED vars \/ Elapse \/ Skip \/ \E e \in Ongoing : Happen(e)
  BY <1>1, CalmTyped
<1>2. ASSUME NEW w \in Workers, Steps(w) PROVE TypeInv'
  <2>1. CASE Analyse(w)
    BY <2>1, AnalyseTyped
  <2>2. CASE \E llm \in LlmSignals : Settle(w, llm)
    BY <2>2, SettleTyped
  <2>3. CASE Generate(w) \/ Store(w) \/ WriteIndex(w) \/ Learn(w) \/ Consider(w)
    BY <2>3, GenerateTyped, StoreTyped, WriteIndexTyped, LearnTyped, ConsiderTyped
  <2>4. CASE ReadPrompt(w) \/ EmptyPrompt(w) \/ WritePrompt(w)
    BY <2>4, ReadPromptTyped, EmptyPromptTyped, WritePromptTyped
  <2>5. CASE Record(w) \/ Track(w) \/ Merge(w) \/ Save(w)
    BY <2>5, RecordTyped, TrackTyped, EndsTyped
  <2> QED BY <1>2, <2>1, <2>2, <2>3, <2>4, <2>5 DEF Steps
<1>3. CASE Crash
  BY <1>3, CrashTyped
<1>4. CASE \/ StartCycle
           \/ \E report : (\E job \in {"cycle", "analyze"} : StartManual(job, report))
                          \/ StartOptimizer(report)
           \/ \E w \in Threads, llm \in LlmSignals : StartChain(w, llm)
           \/ \E w \in Workers, p \in patches : StartApply(w, p)
  BY <1>4, StartsTyped
<1> QED BY <1>1, <1>2, <1>3, <1>4 DEF Next

\* Whatever jobs run, meet and die, every file keeps its shape: what is stored, learned or
\* applied is a change with a text of its own, aimed at a prompt there is, whatever
\* issues a model makes up.
THEOREM TypeCorrect == Spec => []TypeOK
<1>1. Init => IInv /\ TypeInv
  BY InitOK, InitTyped
<1>2. IInv /\ TypeInv /\ [Next]_vars => (IInv /\ TypeInv)'
  BY NextOK, NextTyped
<1>3. TypeInv => TypeOK
  BY DEF TypeInv
<1> QED BY <1>1, <1>2, <1>3, PTL DEF Spec

\* No text and no recommendation that the three sandbox issues stand for reaches a prompt,
\* an overlay or a learned file, and no text for what a single partner did is in a prompt
\* unless enough others did it too, whichever job, retry or model brought it up.
THEOREM SandboxKeptOut == Spec => []NothingFromSandbox
<1>1. Init => IInv /\ TypeInv
  BY InitOK, InitTyped
<1>2. IInv /\ TypeInv /\ [Next]_vars => (IInv /\ TypeInv)'
  BY NextOK, NextTyped
<1>3. IInv /\ TypeInv => NothingFromSandbox
  <2> SUFFICES ASSUME IInv, TypeInv PROVE NothingFromSandbox
    OBVIOUS
  <2>1. SandboxOnly \cap (Recommendations \cup Patterns \cup {"reinforcement"}) = {}
    BY SignalsAssumption DEF SandboxOnly, Recommendations
  <2>2. FilesTyped
    BY FilesAreTyped
  <2>3. ASSUME NEW t \in Targets
        PROVE  /\ learned[t] \cap SandboxOnly = {}
               /\ effective[t] # None => effective[t] \cap SandboxOnly = {}
    <3>1. learned[t] \in SUBSET Recommendations /\ effective[t] \in Overlays \cup {None}
      BY <2>2 DEF FilesTyped
    <3> QED BY <2>1, <3>1 DEF Overlays
  <2>4. ASSUME NEW t \in Targets, NEW item \in prompt[t].items
        PROVE  item.of \cap SandboxOnly = {} /\ Clean(item)
    <3>1. item \in Items
      BY <2>2 DEF FilesTyped, Texts
    <3>2. item.of \subseteq Recommendations \cup Patterns
      BY <3>1 DEF Items
    <3> QED BY <2>1, <3>2 DEF IInv, PromptsOK, Fit
  <2> QED BY <2>3, <2>4 DEF Clean, NothingFromSandbox
<1> QED BY <1>1, <1>2, <1>3, PTL DEF Spec
=============================================================================
