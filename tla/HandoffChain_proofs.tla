------------------------ MODULE HandoffChain_proofs ------------------------
(***************************************************************************)
(* Proofs about HandoffChain, for any number of chains, requests, answers, *)
(* tools and crashes.  IInv adds to the invariants the run checks what a   *)
(* chain knows between two steps: which agent it is at and whether it was  *)
(* scanned (Sound), that the first agent still sees the record as the      *)
(* request gave it (Fresh), who is still to be billed (Paid), and what the *)
(* rows of closed_deals.jsonl say of the chain that wrote them (Owned).    *)
(***************************************************************************)
EXTENDS HandoffChain, TLAPS, FiniteSetTheorems, SequenceTheorems

-----------------------------------------------------------------------------
(* The inductive invariant *)

Links == Sellers \cup {"elsewhere", None}
Types == {Commitment, "other"}
Statuses == {"COMPLETE", "IN_PROGRESS", "EMERGENCY_STOP"}
Hops == [agent : Agents, status : Statuses, closed : BOOLEAN]
Keys == Deals \X Types \X Links
DealRows == [deal : Deals, type : Types, link : Links, chain : Chains]
GateRows == [tool : Tools, allowed : BOOLEAN]

Runs == [pc : Steps, req : Asks \cup {None}, record : Records \cup {None},
         plan : Seq(Agents), trail : Seq(Hops), handoff : Handoffs, tries : Nat,
         known : SUBSET Keys]

Typed ==
  /\ run \in [Chains -> Runs]
  /\ template \in Profiles \cup {None, Torn}
  /\ billing \in SUBSET DealRows
  /\ acted \in [Chains -> [Tools -> Nat]]
  /\ logged \in [Chains -> [Tools -> Nat]]
  /\ gates \in [Chains -> SUBSET GateRows]
  /\ reported \in [Chains -> SUBSET {"handoff_chain_complete", "handoff_chain_failed",
                                     "profile_saved", Commitment}]
  /\ crashes \in 0 .. MaxCrashes

\* The agent a chain r is at.
At(r) == r.plan[Len(r.trail) + 1]
Halted(r) == \E i \in DOMAIN r.trail : r.trail[i].status = "EMERGENCY_STOP"

\* Steps of a hop before the model is asked or its tools are used.
Early == {"prompt", "infer", "gate", "send"}
Saving == {"load", "truncate", "write"}
Billing == {"bill", "append"}
Hopping == {"scan", "validate", "finish"} \cup Early \cup Saving \cup Billing
Ended == {"report", "complete", "stopped"}
Asked == {"scan", "validate"} \cup Early

\* Where a chain r of c may be, its audited gates being g.
Begun(c, r) ==
  r.pc # "waiting" =>
    /\ r.req \in Requests[c] /\ r.req \in Asks /\ r.record \in Records
    /\ r.plan # <<>>
    /\ \A i \in DOMAIN r.plan : r.plan[i] \in Scanned => i = 1

\* The first agent sees the record as the request gave it.
Fresh(r) == r.trail = <<>> /\ r.pc \in Asked => r.record = InitialRecord(r.req)

OnCourse(r) ==
  /\ r.pc = "waiting" => r.plan = <<>> /\ r.trail = <<>>
  /\ r.pc \in Hopping => Len(r.trail) < Len(r.plan) /\ ~Halted(r)
  /\ r.pc \in Ended => Halted(r) \/ Len(r.trail) = Len(r.plan)

Vetted(r) ==
  /\ r.pc \in Early /\ At(r) \in Scanned => ~r.req.hostile
  /\ r.pc = "validate" /\ At(r) \in Scanned /\ r.req.hostile => ~r.handoff.closed
  /\ r.pc \in Saving => At(r) = "onboarding_specialist"
  /\ r.pc = "finish" /\ At(r) = "profit_guardrail" /\ r.req.thin
       => r.handoff.status = "EMERGENCY_STOP"

Asking(r, g) ==
  /\ r.pc \in {"gate", "send"} => r.handoff.tools # <<>>
  /\ r.pc = "gate" => r.tries = 0
  /\ r.pc = "send" =>
       /\ r.tries < MaxAttempts
       /\ GateRow(Head(r.handoff.tools), TRUE) \in g
       /\ Usable(At(r), Head(r.handoff.tools), r.req)

\* A request that carries a profile is billed with the link of its seller, if any.
Offered(req, link) == req.profile # None /\ link # None => link = req.profile.seller

Selling(r) ==
  /\ r.pc \in Billing =>
       /\ At(r) = "closer" /\ Offered(r.req, r.handoff.link)
       /\ r.req.onboarded /\ ~r.req.sandbox /\ ~r.req.hostile
  /\ r.pc = "append" => <<r.req.deal, r.handoff.type, r.handoff.link>> \notin r.known

Sound(c, r, g) ==
  Begun(c, r) /\ Fresh(r) /\ OnCourse(r) /\ Vetted(r) /\ Asking(r, g) /\ Selling(r)

\* A row for the deal of chain r.
Listed(r, b) == \E row \in b : row.deal = r.req.deal

\* What chain r has closed is among the rows b, and so is what was billed when it began.
Paid(r, b) ==
  r.pc # "waiting" =>
    /\ \A k \in r.known : \E row \in b : Key(row) = k
    /\ ~r.req.sandbox =>
         /\ \A i \in DOMAIN r.trail :
              r.trail[i].agent = "closer" /\ r.trail[i].closed /\ r.trail[i].status = "COMPLETE"
                => Listed(r, b)
         /\ r.pc = "finish" /\ At(r) = "closer" /\ r.handoff.closed
              /\ r.handoff.status = "COMPLETE" => Listed(r, b)

\* What a row says of its chain r: it is past its closer, and its request may be billed.
Owned(row, r) ==
  /\ r.pc # "waiting"
  /\ r.req.onboarded /\ ~r.req.sandbox /\ ~r.req.hostile
  /\ row.deal = r.req.deal /\ Offered(r.req, row.link)
  /\ Key(row) \notin r.known
  /\ \/ r.pc = "failed" \/ r.trail # <<>>
     \/ r.pc = "finish" /\ At(r) = "closer"

\* What the services did for chain r (a: how often they acted, l: what the log says).
Earned(r, a, g) ==
  \A tool \in Tools : a[tool] > 0 =>
    /\ r.pc # "waiting"
    /\ GateRow(tool, TRUE) \in g
    /\ ~DryRun(r.req)
    /\ \E i \in 1 .. Len(r.plan) :
         /\ r.plan[i] \in AllowedAgents(tool)
         /\ r.plan[i] \in Scanned => ~r.req.hostile

Accounted(r, a, l) ==
  \A tool \in Tools : r.pc # "failed" =>
    a[tool] <= l[tool]
      + (IF r.pc = "send" /\ Head(r.handoff.tools) = tool THEN r.tries ELSE 0)

ClosedBy(r) == \E i \in DOMAIN r.trail : r.trail[i].agent = "closer" /\ r.trail[i].closed

IInv ==
  /\ Typed
  /\ \A c \in Chains :
       /\ Sound(c, run[c], gates[c])
       /\ Paid(run[c], billing)
       /\ Earned(run[c], acted[c], gates[c])
       /\ Accounted(run[c], acted[c], logged[c])
       /\ Commitment \in reported[c] => run[c].pc # "waiting" /\ ClosedBy(run[c])
  /\ \A row \in billing : Owned(row, run[row.chain])

-----------------------------------------------------------------------------
(* Plans *)

\* One round of the loop of resolve_chain_from_registry, from the sequence so far.
Further(s) ==
  LET next == Target(s[Len(s)])
  IN  IF next = None \/ \E i \in DOMAIN s : s[i] = next THEN s ELSE Append(s, next)

\* Where two rounds lead from an agent: no chain is longer than three agents.
Reached(entry) ==
  IF entry \in {"final_arbiter", "meta_optimizer"} THEN <<entry>>
  ELSE IF entry = "profit_guardrail" THEN <<entry, "final_arbiter">>
  ELSE <<entry, "profit_guardrail", "final_arbiter">>

LEMMA Targets ==
  ASSUME NEW agent \in Agents
  PROVE  Target(agent) = IF agent \in {"final_arbiter", "meta_optimizer"} THEN None
                         ELSE IF agent = "profit_guardrail" THEN "final_arbiter"
                         ELSE "profit_guardrail"
<1>1. CASE agent = "profit_guardrail"
  BY <1>1 DEF Target
<1>2. CASE agent \in {"final_arbiter", "meta_optimizer"}
  BY <1>2 DEF Target
<1>3. CASE agent \notin {"profit_guardrail", "final_arbiter", "meta_optimizer"}
  BY <1>3 DEF Target
<1> QED BY <1>1, <1>2, <1>3

LEMMA SameThree ==
  ASSUME NEW S, NEW s \in Seq(S), NEW t \in Seq(S), Len(s) = Len(t), Len(s) \in {2, 3},
         s[1] = t[1], s[2] = t[2], Len(s) = 3 => s[3] = t[3]
  PROVE  s = t
<1>1. \A i \in 1 .. Len(s) : s[i] = t[i]
  OBVIOUS
<1> QED BY <1>1, SeqEqual

LEMMA AppendOne ==
  ASSUME NEW S, NEW a \in S, NEW x \in S
  PROVE  Append(<<a>>, x) = <<a, x>>
<1> DEFINE s == Append(<<a>>, x)
           t == <<a, x>>
<1>1. <<a>> \in Seq(S) /\ Len(<<a>>) = 1 /\ <<a>>[1] = a
  OBVIOUS
<1>2. s \in Seq(S) /\ Len(s) = 2 /\ s[1] = a /\ s[2] = x
  BY <1>1, AppendProperties
<1>3. t \in Seq(S) /\ Len(t) = 2 /\ t[1] = a /\ t[2] = x
  OBVIOUS
<1> HIDE DEF s, t
<1>4. s = t
  BY <1>2, <1>3, SameThree
<1> QED BY <1>4 DEF s, t

LEMMA AppendTwo ==
  ASSUME NEW S, NEW a \in S, NEW b \in S, NEW x \in S
  PROVE  Append(<<a, b>>, x) = <<a, b, x>>
<1> DEFINE s == Append(<<a, b>>, x)
           t == <<a, b, x>>
<1>1. <<a, b>> \in Seq(S) /\ Len(<<a, b>>) = 2 /\ <<a, b>>[1] = a /\ <<a, b>>[2] = b
  OBVIOUS
<1>2. s \in Seq(S) /\ Len(s) = 3 /\ s[1] = a /\ s[2] = b /\ s[3] = x
  BY <1>1, AppendProperties
<1>3. t \in Seq(S) /\ Len(t) = 3 /\ t[1] = a /\ t[2] = b /\ t[3] = x
  OBVIOUS
<1> HIDE DEF s, t
<1>4. s = t
  BY <1>2, <1>3, SameThree
<1> QED BY <1>4 DEF s, t

LEMMA TwoRounds ==
  ASSUME NEW entry \in Agents
  PROVE  /\ Further(Further(<<entry>>)) = Reached(entry)
         /\ Further(Reached(entry)) = Reached(entry)
<1>1. None \notin Agents /\ {"profit_guardrail", "final_arbiter", "meta_optimizer"} \subseteq Agents
  BY ConstantsAssumption DEF Agents
<1>2. ASSUME NEW s \in Seq(Agents), s # <<>>, NEW next, next = Target(s[Len(s)])
      PROVE  Further(s) = IF next = None \/ \E i \in DOMAIN s : s[i] = next THEN s
                          ELSE Append(s, next)
  BY <1>2 DEF Further
<1>3. ASSUME NEW a \in Agents
      PROVE  Further(<<a>>) = IF a \in {"final_arbiter", "meta_optimizer"} THEN <<a>>
                              ELSE IF a = "profit_guardrail" THEN <<a, "final_arbiter">>
                              ELSE <<a, "profit_guardrail">>
  <2> DEFINE s == <<a>>
             next == Target(a)
  <2>1. /\ s \in Seq(Agents) /\ s # <<>> /\ Len(s) = 1 /\ s[Len(s)] = a /\ DOMAIN s = {1}
        /\ s[1] = a
    OBVIOUS
  <2>2. Further(s) = IF next = None \/ \E i \in DOMAIN s : s[i] = next THEN s
                     ELSE Append(s, next)
    BY <1>2, <2>1
  <2>3. next = IF a \in {"final_arbiter", "meta_optimizer"} THEN None
               ELSE IF a = "profit_guardrail" THEN "final_arbiter" ELSE "profit_guardrail"
    BY Targets
  <2> QED BY <1>1, <2>1, <2>2, <2>3, AppendOne
<1>4. ASSUME NEW s \in Seq(Agents), s # <<>>, s[Len(s)] = "final_arbiter"
      PROVE  Further(s) = s
  BY <1>1, <1>2, <1>4, Targets
<1>5. ASSUME NEW a \in Agents, a \notin {"profit_guardrail", "final_arbiter"}
      PROVE  Further(<<a, "profit_guardrail">>) = <<a, "profit_guardrail", "final_arbiter">>
  <2> DEFINE s == <<a, "profit_guardrail">>
  <2>1. /\ s \in Seq(Agents) /\ s # <<>> /\ s[Len(s)] = "profit_guardrail" /\ DOMAIN s = {1, 2}
        /\ s[1] = a /\ s[2] = "profit_guardrail"
    BY <1>1
  <2>2. Target(s[Len(s)]) = "final_arbiter"
    BY <1>1, <2>1, Targets
  <2>3. Append(s, "final_arbiter") = <<a, "profit_guardrail", "final_arbiter">>
    BY <1>1, AppendTwo
  <2> QED BY <1>1, <1>2, <1>5, <2>1, <2>2, <2>3
<1>6. CASE entry \notin {"profit_guardrail", "final_arbiter", "meta_optimizer"}
  <2>1. Further(Further(<<entry>>)) = Reached(entry)
    BY <1>3, <1>5, <1>6 DEF Reached
  <2>2. LET s == <<entry, "profit_guardrail", "final_arbiter">>
        IN  s \in Seq(Agents) /\ s # <<>> /\ s[Len(s)] = "final_arbiter"
    BY <1>1
  <2> QED BY <1>4, <1>6, <2>1, <2>2 DEF Reached
<1>7. CASE entry = "profit_guardrail"
  <2>1. LET s == <<"profit_guardrail", "final_arbiter">>
        IN  s \in Seq(Agents) /\ s # <<>> /\ s[Len(s)] = "final_arbiter"
    BY <1>1
  <2> QED BY <1>1, <1>3, <1>4, <1>7, <2>1 DEF Reached
<1>8. CASE entry \in {"final_arbiter", "meta_optimizer"}
  BY <1>3, <1>8 DEF Reached
<1> QED BY <1>6, <1>7, <1>8

LEMMA SevenAgents == Cardinality(Agents) = 7
<1> DEFINE S1 == {"onboarding_specialist"}
           S2 == S1 \cup {"recruiter"}
           S3 == S2 \cup {"outreach_worker"}
           S4 == S3 \cup {"closer"}
           S5 == S4 \cup {"profit_guardrail"}
           S6 == S5 \cup {"final_arbiter"}
           S7 == S6 \cup {"meta_optimizer"}
<1>1. IsFiniteSet(S1) /\ Cardinality(S1) = 1
  BY FS_Singleton
<1>2. IsFiniteSet(S2) /\ Cardinality(S2) = 2
  BY <1>1, FS_AddElement
<1>3. IsFiniteSet(S3) /\ Cardinality(S3) = 3
  BY <1>2, FS_AddElement
<1>4. IsFiniteSet(S4) /\ Cardinality(S4) = 4
  BY <1>3, FS_AddElement
<1>5. IsFiniteSet(S5) /\ Cardinality(S5) = 5
  BY <1>4, FS_AddElement
<1>6. IsFiniteSet(S6) /\ Cardinality(S6) = 6
  BY <1>5, FS_AddElement
<1>7. IsFiniteSet(S7) /\ Cardinality(S7) = 7
  BY <1>6, FS_AddElement
<1> QED BY <1>7 DEF Agents

\* The function of Walk is one that begins with entry and goes on by Further: there is
\* such a function (g), since after two rounds nothing changes.
LEMMA WalkReached ==
  ASSUME NEW entry \in Agents
  PROVE  Walk(entry) = Reached(entry)
<1> DEFINE g == [n \in Nat |-> IF n = 0 THEN <<entry>> ELSE IF n = 1 THEN Further(<<entry>>)
                               ELSE Reached(entry)]
           Body(w) == [n \in Nat |-> IF n = 0 THEN <<entry>> ELSE Further(w[n - 1])]
           walk == CHOOSE w : w = Body(w)
<1>1. g = Body(g)
  <2>1. ASSUME NEW n \in Nat
        PROVE  g[n] = (IF n = 0 THEN <<entry>> ELSE Further(g[n - 1]))
    <3>1. CASE n \in {0, 1}
      BY <3>1
    <3>2. CASE n = 2
      BY <3>2, TwoRounds
    <3>3. CASE n \notin {0, 1, 2}
      <4>1. n - 1 \in Nat /\ n - 1 # 0 /\ n - 1 # 1
        BY <3>3
      <4>2. g[n] = Reached(entry) /\ g[n - 1] = Reached(entry)
        BY <3>3, <4>1
      <4> QED BY <3>3, <4>2, TwoRounds
    <3> QED BY <3>1, <3>2, <3>3
  <2> QED BY <2>1
<1>2. walk = Body(walk)
  BY <1>1, Zenon
<1>3. Walk(entry) = walk[7]
  BY SevenAgents DEF Walk, Further
<1> HIDE DEF walk
<1>4. /\ walk[0] = <<entry>> /\ walk[1] = Further(walk[0]) /\ walk[2] = Further(walk[1])
      /\ walk[3] = Further(walk[2]) /\ walk[4] = Further(walk[3])
      /\ walk[5] = Further(walk[4]) /\ walk[6] = Further(walk[5])
      /\ walk[7] = Further(walk[6])
  BY <1>2
<1> QED BY <1>3, <1>4, TwoRounds

\* A plan, in which a seller is onboarded or a deal closed first if at all.
GoodPlan(s) ==
  /\ s \in Seq(Agents) /\ s # <<>>
  /\ \A i \in DOMAIN s : s[i] \in Scanned => i = 1

LEMMA WalkIsPlan ==
  ASSUME NEW entry \in Agents
  PROVE  GoodPlan(Walk(entry))
<1>1. {"profit_guardrail", "final_arbiter", "meta_optimizer"} \subseteq Agents
  BY DEF Agents
<1>2. /\ GoodPlan(<<entry>>)
      /\ GoodPlan(<<entry, "final_arbiter">>)
      /\ GoodPlan(<<entry, "profit_guardrail", "final_arbiter">>)
  BY <1>1 DEF GoodPlan, Scanned
<1> QED BY <1>2, WalkReached DEF Reached

LEMMA LongerPlan ==
  ASSUME NEW s, GoodPlan(s), NEW t, NEW a \in Agents, a \notin Scanned,
         t = <<>> \/ t = <<a>>
  PROVE  GoodPlan(s \o t)
<1>1. t \in Seq(Agents) /\ (Len(t) = 0 \/ (Len(t) = 1 /\ t[1] = a))
  <2>1. CASE t = <<>>
    BY <2>1
  <2>2. CASE t = <<a>>
    BY <2>2
  <2> QED BY <2>1, <2>2
<1>2. /\ s \o t \in Seq(Agents) /\ Len(s \o t) = Len(s) + Len(t)
      /\ \A i \in 1 .. Len(s) + Len(t) :
           (s \o t)[i] = IF i <= Len(s) THEN s[i] ELSE t[i - Len(s)]
  BY <1>1, ConcatProperties DEF GoodPlan
<1>3. Len(s) \in Nat \ {0} /\ s \in Seq(Agents)
      /\ \A i \in 1 .. Len(s) : s[i] \in Scanned => i = 1
  BY EmptySeq DEF GoodPlan
<1> DEFINE st == s \o t
<1>4. st \in Seq(Agents) /\ Len(st) \in Nat \ {0} /\ DOMAIN st = 1 .. Len(st)
  BY <1>1, <1>2, <1>3
<1>5. ASSUME NEW i \in 1 .. Len(st), st[i] \in Scanned PROVE i = 1
  BY <1>1, <1>2, <1>3, <1>5
<1>6. st # <<>>
  BY <1>4
<1> QED BY <1>4, <1>5, <1>6 DEF GoodPlan

LEMMA FlowIsPlan ==
  ASSUME NEW entry \in Agents
  PROVE  GoodPlan(FlowChain(entry))
<1> DEFINE chain == Walk(entry)
           in(agent) == \E i \in DOMAIN chain : chain[i] = agent
           tail(agent) == IF in(agent) THEN <<>> ELSE <<agent>>
<1>1. {"profit_guardrail", "final_arbiter"} \subseteq Agents \ Scanned
  BY DEF Agents, Scanned
<1>2. GoodPlan(chain)
  BY WalkIsPlan
<1>3. FlowChain(entry) = IF entry = "meta_optimizer" THEN chain
                         ELSE chain \o tail("profit_guardrail") \o tail("final_arbiter")
  BY DEF FlowChain
<1> HIDE DEF chain
<1>4. GoodPlan(chain \o tail("profit_guardrail"))
  BY <1>1, <1>2, LongerPlan
<1> DEFINE longer == chain \o tail("profit_guardrail")
<1>5. GoodPlan(longer \o tail("final_arbiter"))
  <2> HIDE DEF longer
  <2> QED BY <1>1, <1>4, LongerPlan DEF longer
<1> QED BY <1>2, <1>3, <1>5

LEMMA PlanIsGood ==
  ASSUME NEW req \in Asks
  PROVE  GoodPlan(Plan(req))
<1> DEFINE entry == IF req.auto THEN RouteEntry(req, InitialRecord(req))
                    ELSE IF req.entry # None THEN req.entry ELSE "outreach_worker"
<1>1. entry \in Agents
  BY DEF RouteEntry, Asks, Agents
<1>2. Plan(req) = IF req.sandbox /\ FastChain THEN <<entry>>
                  ELSE IF req.auto THEN FlowChain(entry) ELSE Walk(entry)
  BY DEF Plan
<1> HIDE DEF entry
<1>3. GoodPlan(<<entry>>)
  BY <1>1 DEF GoodPlan
<1> QED BY <1>1, <1>2, <1>3, FlowIsPlan, WalkIsPlan

-----------------------------------------------------------------------------
(* Answers and validators *)

Outcomes == [handoff : Handoffs, record : Records, then : {"finish", "load", "bill"}]

LEMMA BlankType == Blank \in Handoffs /\ ~Blank.closed /\ Rejection = Blank
  BY DEF Blank, Handoffs, Profiles, Commitment, Rejection

LEMMA PolicyType ==
  ASSUME NEW agent \in Agents
  PROVE  /\ PolicyHandoff(agent) \in Handoffs
         /\ ~PolicyHandoff(agent).closed
         /\ agent = "profit_guardrail" => PolicyHandoff(agent).status = "EMERGENCY_STOP"
<1> DEFINE st == IF Policy(agent) \in {"fail_closed_veto", "retry_once_then_escalate"}
                 THEN "EMERGENCY_STOP" ELSE "COMPLETE"
<1>1. agent = "profit_guardrail" => Policy(agent) = "fail_closed_veto"
  BY DEF Policy
<1>2. PolicyHandoff(agent) = [Blank EXCEPT !.status = st]
  BY DEF PolicyHandoff
<1>3. st \in Statuses
  BY DEF Statuses
<1>4. agent = "profit_guardrail" => st = "EMERGENCY_STOP"
  BY <1>1
<1> HIDE DEF st
<1>5. [Blank EXCEPT !.status = st] \in Handoffs
  BY <1>3, BlankType DEF Handoffs, Statuses
<1>6. ~[Blank EXCEPT !.status = st].closed /\ [Blank EXCEPT !.status = st].status = st
  BY DEF Blank
<1> QED BY <1>2, <1>4, <1>5, <1>6

LEMMA UpdatedType ==
  ASSUME NEW h \in Handoffs, NEW record \in Records, NEW otherwise \in Records
  PROVE  Updated(h, record, otherwise) \in Records
<1>1. CASE h.updates = None
  BY <1>1 DEF Updated
<1>2. CASE h.updates # None
  <2> DEFINE sets == h.updates.sets
             to == h.updates.to
             onboarded == IF "onboarded" \in sets THEN to.onboarded ELSE record.onboarded
             profile == IF "profile" \in sets THEN to.profile ELSE record.profile
             draft == IF "draft" \in sets THEN to.draft ELSE record.draft
  <2>1. to \in Records
    BY <1>2 DEF Handoffs, Updates
  <2>2. onboarded \in BOOLEAN /\ profile \in Profiles \cup {None} /\ draft \in BOOLEAN
    <3> HIDE DEF to, sets
    <3> QED BY <2>1 DEF Records
  <2>3. Updated(h, record, otherwise) =
          [record EXCEPT !.onboarded = onboarded, !.profile = profile, !.draft = draft]
    BY <1>2 DEF Updated, Records
  <2> HIDE DEF onboarded, profile, draft
  <2> QED BY <2>2, <2>3 DEF Records
<1> QED BY <1>1, <1>2

LEMMA OnboardingType ==
  ASSUME NEW h \in Handoffs, NEW record \in Records
  PROVE  /\ OnboardingChecked(h, record) \in Outcomes
         /\ OnboardingChecked(h, record).then # "bill"
<1> DEFINE continue == [h EXCEPT !.names = TRUE, !.fits = TRUE, !.status = "COMPLETE"]
           names == h.names \/ h.status = "COMPLETE"
           named == [h EXCEPT !.names = names]
           unfinished == [record EXCEPT !.profile = h.profile, !.onboarded = FALSE]
           finished == [record EXCEPT !.profile = h.profile, !.onboarded = TRUE, !.draft = TRUE]
<1>1. continue \in Handoffs
  BY DEF Handoffs
<1>2. named \in Handoffs
  <2>1. names \in BOOLEAN
    OBVIOUS
  <2> HIDE DEF names
  <2> QED BY <2>1 DEF Handoffs
<1>3. unfinished \in Records /\ finished \in Records
  BY DEF Handoffs, Records
<1> DEFINE kept == Updated(h, record, record)
           open == Updated(h, record, unfinished)
           done == Updated(h, record, finished)
<1>4. OnboardingChecked(h, record) \in
        {[handoff |-> continue, record |-> kept, then |-> "finish"],
         [handoff |-> continue, record |-> unfinished, then |-> "finish"],
         [handoff |-> h, record |-> open, then |-> "finish"],
         [handoff |-> named, record |-> done, then |-> "load"]}
  BY DEF OnboardingChecked
<1> HIDE DEF continue, named, unfinished, finished
<1>5. kept \in Records /\ open \in Records /\ done \in Records
  BY <1>3, UpdatedType
<1> HIDE DEF kept, open, done
<1> QED BY <1>1, <1>2, <1>3, <1>4, <1>5 DEF Outcomes

LEMMA CloserType ==
  ASSUME NEW h \in Handoffs, NEW record \in Records, NEW req \in Asks
  PROVE  LET k == CloserChecked(h, record, req)
         IN  /\ k \in Outcomes /\ k.then # "load"
             /\ k.then = "bill" =>
                  /\ record.onboarded /\ ~req.sandbox /\ h.closed
                  /\ Offered(record, k.handoff.link)
             /\ k.then = "finish" /\ k.handoff.closed /\ k.handoff.status = "COMPLETE"
                  => req.sandbox
<1> DEFINE link == IF h.link # None /\ record.profile # None THEN record.profile.seller
                   ELSE h.link
           complete == h.status = "COMPLETE"
           rehearsed == req.sandbox /\ req.rehearsal /\ complete /\ link # None
           closed == h.closed \/ rehearsed
           package == [h EXCEPT !.link = link, !.closed = closed]
           tainted == [h EXCEPT !.status = "COMPLETE", !.fits = TRUE, !.closed = FALSE]
           stop == [h EXCEPT !.status = "EMERGENCY_STOP", !.fits = TRUE, !.names = TRUE]
           updated == Updated(h, record, record)
           drafted == [updated EXCEPT !.draft = @ \/ (complete /\ link # None)]
<1>1. link \in Links
  BY DEF Handoffs, Records, Profiles, Links
<1>2. /\ closed \in BOOLEAN
      /\ closed /\ ~req.sandbox => h.closed
  BY DEF Handoffs
<1>3. /\ package \in Handoffs /\ package.closed = closed /\ package.status = h.status
      /\ package.link = link
  <2> HIDE DEF link, closed
  <2> QED BY <1>1, <1>2 DEF Handoffs, Links
<1>4. tainted \in Handoffs /\ ~tainted.closed
  BY DEF Handoffs
<1>5. stop \in Handoffs /\ stop.status = "EMERGENCY_STOP"
  BY DEF Handoffs
<1>6. updated \in Records /\ drafted \in Records
  <2>1. updated \in Records
    BY UpdatedType
  <2> HIDE DEF link, complete, updated
  <2> QED BY <2>1 DEF Records
<1>7. CloserChecked(h, record, req) =
        IF Tainted(h) THEN [handoff |-> tainted, record |-> updated, then |-> "finish"]
        ELSE IF ~record.onboarded THEN [handoff |-> stop, record |-> updated, then |-> "finish"]
        ELSE [handoff |-> package, record |-> drafted,
              then |-> IF Billable(package, req) THEN "bill" ELSE "finish"]
  BY DEF CloserChecked
<1>8. Billable(package, req) <=> complete /\ closed /\ ~req.sandbox
  BY <1>3 DEF Billable
<1>12. Offered(record, link)
  BY DEF Offered
<1> HIDE DEF link, complete, rehearsed, closed, package, tainted, stop, updated, drafted
<1>9. CASE Tainted(h)
  BY <1>4, <1>6, <1>7, <1>9 DEF Outcomes
<1>10. CASE ~Tainted(h) /\ ~record.onboarded
  BY <1>5, <1>6, <1>7, <1>10 DEF Outcomes
<1>11. CASE ~Tainted(h) /\ record.onboarded
  <2>1. complete <=> h.status = "COMPLETE"
    BY DEF complete
  <2> DEFINE then == IF Billable(package, req) THEN "bill" ELSE "finish"
  <2>2. CloserChecked(h, record, req) = [handoff |-> package, record |-> drafted, then |-> then]
    BY <1>7, <1>11
  <2>3. /\ then \in {"finish", "bill"}
        /\ then = "bill" => complete /\ closed /\ ~req.sandbox
        /\ then = "finish" => ~complete \/ ~closed \/ req.sandbox
    BY <1>8
  <2> HIDE DEF then
  <2>4. [handoff |-> package, record |-> drafted, then |-> then] \in Outcomes
    BY <1>3, <1>6, <2>3 DEF Outcomes
  <2> DEFINE k == CloserChecked(h, record, req)
  <2>5. k \in Outcomes /\ k.handoff = package /\ k.record = drafted /\ k.then = then
    BY <2>2, <2>4
  <2> HIDE DEF k
  <2>6. k.then # "load"
    BY <2>3, <2>5
  <2>7. k.then = "bill" => /\ record.onboarded /\ ~req.sandbox /\ h.closed
                           /\ Offered(record, k.handoff.link)
    BY <1>2, <1>3, <1>11, <1>12, <2>3, <2>5
  <2>8. k.then = "finish" /\ k.handoff.closed /\ k.handoff.status = "COMPLETE" => req.sandbox
    BY <1>3, <2>1, <2>3, <2>5
  <2> QED BY <2>5, <2>6, <2>7, <2>8 DEF k
<1> QED BY <1>9, <1>10, <1>11

\* Every other validator ends the hop.
LEMMA DraftType ==
  ASSUME NEW h \in Handoffs, NEW record \in Records, NEW agent \in Agents
  PROVE  LET k == DraftChecked(h, record, agent)
         IN  k \in Outcomes /\ k.then = "finish"
<1> DEFINE names == h.names \/ h.status = "COMPLETE"
           kept == record.draft \/ (h.draft
                     /\ (h.status = "COMPLETE" \/ agent = "outreach_worker"))
<1>1. names \in BOOLEAN /\ kept \in BOOLEAN
  BY DEF Records, Handoffs
<1> DEFINE named == [h EXCEPT !.names = names]
           made == [record EXCEPT !.draft = kept]
           drafted == Updated(h, record, made)
<1>2. DraftChecked(h, record, agent) =
        [handoff |-> named, record |-> drafted, then |-> "finish"]
  BY DEF DraftChecked
<1> HIDE DEF names, kept
<1>3. named \in Handoffs
  BY <1>1 DEF Handoffs
<1>4. drafted \in Records
  <2>1. made \in Records
    BY <1>1 DEF Records
  <2> HIDE DEF made
  <2> QED BY <2>1, UpdatedType
<1> HIDE DEF named, drafted
<1> QED BY <1>2, <1>3, <1>4 DEF Outcomes

LEMMA GuardrailType ==
  ASSUME NEW h \in Handoffs, NEW record \in Records, NEW req \in Asks
  PROVE  LET k == GuardrailChecked(h, record, req)
         IN  /\ k \in Outcomes /\ k.then = "finish"
             /\ req.thin => k.handoff.status = "EMERGENCY_STOP"
<1> DEFINE veto == [h EXCEPT !.status = "EMERGENCY_STOP", !.fits = TRUE, !.names = TRUE]
<1>1. veto \in Handoffs /\ veto.status = "EMERGENCY_STOP"
  BY DEF Handoffs
<1>2. GuardrailChecked(h, record, req) =
        [handoff |-> IF req.thin THEN veto ELSE h, record |-> Updated(h, record, record),
         then |-> "finish"]
  BY DEF GuardrailChecked, TooThin
<1> HIDE DEF veto
<1>3. Updated(h, record, record) \in Records
  BY UpdatedType
<1> QED BY <1>1, <1>2, <1>3 DEF Outcomes

LEMMA ArbiterType ==
  ASSUME NEW h \in Handoffs, NEW record \in Records
  PROVE  LET k == ArbiterChecked(h, record)
         IN  k \in Outcomes /\ k.then = "finish"
<1> DEFINE passed == h.passed /\ Reviewable(record)
           names == h.names \/ (h.status = "COMPLETE" /\ ~passed)
<1>1. passed \in BOOLEAN /\ names \in BOOLEAN
  BY DEF Handoffs
<1>2. ArbiterChecked(h, record) =
        [handoff |-> [h EXCEPT !.passed = passed, !.names = names],
         record |-> Updated(h, record, record), then |-> "finish"]
  BY DEF ArbiterChecked
<1> HIDE DEF passed, names
<1>3. [h EXCEPT !.passed = passed, !.names = names] \in Handoffs
  BY <1>1 DEF Handoffs
<1>4. Updated(h, record, record) \in Records
  BY UpdatedType
<1> QED BY <1>2, <1>3, <1>4 DEF Outcomes

\* What the validator of an agent makes of an answer.
LEMMA CheckedType ==
  ASSUME NEW agent \in Agents, NEW h \in Handoffs, NEW record \in Records, NEW req \in Asks
  PROVE  LET k == Checked(agent, h, record, req)
         IN  /\ k \in Outcomes
             /\ k.then = "load" => agent = "onboarding_specialist"
             /\ k.then = "bill" =>
                  /\ agent = "closer" /\ record.onboarded /\ ~req.sandbox /\ h.closed
                  /\ Offered(record, k.handoff.link)
             /\ agent = "closer" /\ k.then = "finish" /\ k.handoff.closed
                  /\ k.handoff.status = "COMPLETE" => req.sandbox
             /\ agent = "profit_guardrail" /\ req.thin => k.handoff.status = "EMERGENCY_STOP"
<1> DEFINE checked ==
        CASE agent = "onboarding_specialist" -> OnboardingChecked(h, record)
          [] agent = "closer" -> CloserChecked(h, record, req)
          [] agent \in {"recruiter", "outreach_worker"} -> DraftChecked(h, record, agent)
          [] agent = "profit_guardrail" -> GuardrailChecked(h, record, req)
          [] agent = "final_arbiter" -> ArbiterChecked(h, record)
          [] agent = "meta_optimizer" ->
               [handoff |-> h, record |-> Updated(h, record, record), then |-> "finish"]
       names == checked.handoff.names
                  \/ (checked.handoff.status = "COMPLETE" /\ Target(agent) # None)
<1>1. Checked(agent, h, record, req) = [checked EXCEPT !.handoff.names = names]
  BY DEF Checked
<1>2. /\ agent = "onboarding_specialist" => checked = OnboardingChecked(h, record)
      /\ agent = "closer" => checked = CloserChecked(h, record, req)
      /\ agent \in {"recruiter", "outreach_worker"} => checked = DraftChecked(h, record, agent)
      /\ agent = "profit_guardrail" => checked = GuardrailChecked(h, record, req)
      /\ agent = "final_arbiter" => checked = ArbiterChecked(h, record)
      /\ agent = "meta_optimizer"
           => checked = [handoff |-> h, record |-> Updated(h, record, record), then |-> "finish"]
  OBVIOUS
<1>3. names \in BOOLEAN
  BY DEF Handoffs
<1> HIDE DEF checked, names
<1>4. /\ checked \in Outcomes
      /\ checked.then = "load" => agent = "onboarding_specialist"
      /\ checked.then = "bill" =>
           /\ agent = "closer" /\ record.onboarded /\ ~req.sandbox /\ h.closed
           /\ Offered(record, checked.handoff.link)
      /\ agent = "closer" /\ checked.then = "finish" /\ checked.handoff.closed
           /\ checked.handoff.status = "COMPLETE" => req.sandbox
      /\ agent = "profit_guardrail" /\ req.thin => checked.handoff.status = "EMERGENCY_STOP"
  <2>1. CASE agent = "onboarding_specialist"
    BY <1>2, <2>1, OnboardingType DEF Outcomes
  <2>2. CASE agent = "closer"
    BY <1>2, <2>2, CloserType
  <2>3. CASE agent \in {"recruiter", "outreach_worker"}
    BY <1>2, <2>3, DraftType
  <2>4. CASE agent = "profit_guardrail"
    BY <1>2, <2>4, GuardrailType
  <2>5. CASE agent = "final_arbiter"
    BY <1>2, <2>5, ArbiterType
  <2>6. CASE agent = "meta_optimizer"
    <3>1. Updated(h, record, record) \in Records
      BY UpdatedType
    <3> QED BY <1>2, <2>6, <3>1 DEF Outcomes
  <2> QED BY <2>1, <2>2, <2>3, <2>4, <2>5, <2>6 DEF Agents
<1> DEFINE k == [checked EXCEPT !.handoff.names = names]
           named == [checked.handoff EXCEPT !.names = names]
<1>5. named \in Handoffs /\ named.closed = checked.handoff.closed
      /\ named.status = checked.handoff.status /\ named.link = checked.handoff.link
  BY <1>3, <1>4 DEF Outcomes, Handoffs
<1>6. k = [checked EXCEPT !.handoff = named]
  BY <1>4 DEF Outcomes
<1> HIDE DEF k, named
<1>7. /\ k \in Outcomes /\ k.handoff = named /\ k.record = checked.record
      /\ k.then = checked.then
  BY <1>4, <1>5, <1>6 DEF Outcomes
<1>8. Checked(agent, h, record, req) = k
  BY <1>1 DEF k
<1> QED BY <1>4, <1>5, <1>7, <1>8

-----------------------------------------------------------------------------
(* One chain moves *)

\* What IInv says of a chain c with record r, tool calls a and l, gates g, rows of the
\* audit log rep, the closed deals being b.
Fine(c, r, a, l, g, rep, b) ==
  /\ Sound(c, r, g) /\ Paid(r, b) /\ Earned(r, a, g) /\ Accounted(r, a, l)
  /\ Commitment \in rep => r.pc # "waiting" /\ ClosedBy(r)

\* A longer list of closed deals is as good.
LEMMA PaidGrows ==
  ASSUME NEW r, NEW b, NEW b2, b \subseteq b2, Paid(r, b)
  PROVE  Paid(r, b2)
  BY DEF Paid, Listed

\* The invariant after a step of chain c that leaves it as r and the files typed.
LEMMA OneChain ==
  ASSUME IInv, NEW c \in Chains, NEW r \in Runs, run' = [run EXCEPT ![c] = r],
         template' \in Profiles \cup {None, Torn}, crashes' = crashes,
         billing \subseteq billing', billing' \in SUBSET DealRows,
         NEW a \in [Tools -> Nat], acted' = [acted EXCEPT ![c] = a],
         NEW l \in [Tools -> Nat], logged' = [logged EXCEPT ![c] = l],
         NEW g \in SUBSET GateRows, gates' = [gates EXCEPT ![c] = g],
         NEW rep \in SUBSET {"handoff_chain_complete", "handoff_chain_failed",
                             "profile_saved", Commitment},
         reported' = [reported EXCEPT ![c] = rep],
         Fine(c, r, a, l, g, rep, billing'),
         \A row \in billing' : row \notin billing \/ row.chain = c => row.chain = c /\ Owned(row, r)
  PROVE  IInv'
<1>1. Typed'
  BY DEF IInv, Typed
<1>2. /\ run'[c] = r /\ acted'[c] = a /\ logged'[c] = l /\ gates'[c] = g /\ reported'[c] = rep
      /\ \A d \in Chains \ {c} :
           /\ run'[d] = run[d] /\ acted'[d] = acted[d] /\ logged'[d] = logged[d]
           /\ gates'[d] = gates[d] /\ reported'[d] = reported[d]
  BY DEF IInv, Typed
<1>3. ASSUME NEW d \in Chains
      PROVE  Fine(d, run'[d], acted'[d], logged'[d], gates'[d], reported'[d], billing')
  <2>1. CASE d = c
    BY <1>2, <2>1
  <2>2. CASE d # c
    <3>1. Fine(d, run[d], acted[d], logged[d], gates[d], reported[d], billing)
      BY DEF IInv, Fine
    <3>2. Fine(d, run[d], acted[d], logged[d], gates[d], reported[d], billing')
      BY <3>1, PaidGrows DEF Fine
    <3> QED BY <1>2, <2>2, <3>2
  <2> QED BY <2>1, <2>2
<1>4. ASSUME NEW row \in billing' PROVE Owned(row, run'[row.chain])
  <2>1. CASE row.chain = c
    BY <1>2, <2>1
  <2>2. CASE row.chain # c
    <3>1. row \in billing /\ row.chain \in Chains
      BY <2>2 DEF DealRows
    <3> QED BY <1>2, <2>2, <3>1 DEF IInv
  <2> QED BY <2>1, <2>2
<1> QED BY <1>1, <1>3, <1>4 DEF IInv, Fine

\* ... and of one that moves the chain only.
LEMMA OnlyRun ==
  ASSUME IInv, NEW c \in Chains, NEW r \in Runs, run' = [run EXCEPT ![c] = r],
         UNCHANGED <<Files, Logs, crashes>>,
         Sound(c, r, gates[c]), Paid(r, billing), Earned(r, acted[c], gates[c]),
         Accounted(r, acted[c], logged[c]),
         Commitment \in reported[c] => r.pc # "waiting" /\ ClosedBy(r),
         \A row \in billing : row.chain = c => Owned(row, r)
  PROVE  IInv'
<1>1. /\ acted[c] \in [Tools -> Nat] /\ acted = [acted EXCEPT ![c] = acted[c]]
      /\ logged[c] \in [Tools -> Nat] /\ logged = [logged EXCEPT ![c] = logged[c]]
      /\ gates[c] \in SUBSET GateRows /\ gates = [gates EXCEPT ![c] = gates[c]]
      /\ reported = [reported EXCEPT ![c] = reported[c]]
      /\ reported[c] \in SUBSET {"handoff_chain_complete", "handoff_chain_failed",
                                 "profile_saved", Commitment}
  BY DEF IInv, Typed
<1>2. template \in Profiles \cup {None, Torn} /\ billing \in SUBSET DealRows
  BY DEF IInv, Typed
<1>3. Fine(c, r, acted[c], logged[c], gates[c], reported[c], billing)
  BY DEF Fine
<1> QED BY <1>1, <1>2, <1>3, OneChain DEF Files, Logs

\* What a chain c is known to be when a step begins.
LEMMA Facts ==
  ASSUME IInv, NEW c \in Chains
  PROVE  /\ run[c] \in Runs
         /\ Fine(c, run[c], acted[c], logged[c], gates[c], reported[c], billing)
         /\ \A row \in billing : row.chain = c => Owned(row, run[c])
         /\ run[c].pc \in Hopping => Agent(c) = At(run[c]) /\ Agent(c) \in Agents
<1>1. run[c] \in Runs
  BY DEF IInv, Typed
<1>2. Fine(c, run[c], acted[c], logged[c], gates[c], reported[c], billing)
  BY DEF IInv, Fine
<1>3. \A row \in billing : row.chain = c => Owned(row, run[c])
  BY DEF IInv
<1>4. ASSUME run[c].pc \in Hopping PROVE Agent(c) = At(run[c]) /\ Agent(c) \in Agents
  <2>1. Len(run[c].trail) < Len(run[c].plan)
    BY <1>2, <1>4 DEF Fine, Sound, OnCourse
  <2>2. Len(run[c].trail) \in Nat /\ run[c].plan \in Seq(Agents)
    BY <1>1 DEF Runs
  <2>3. Agent(c) = At(run[c])
    BY DEF Agent, At
  <2> QED BY <2>1, <2>2, <2>3 DEF At
<1> QED BY <1>1, <1>2, <1>3, <1>4

\* A chain that fails keeps what it has done.
LEMMA Failing ==
  ASSUME NEW c, NEW r \in Runs, NEW a, NEW a2, NEW l, NEW g, NEW rep, NEW b,
         Fine(c, r, a, l, g, rep, b), r.pc # "waiting", Earned(r, a2, g)
  PROVE  LET f == [r EXCEPT !.pc = "failed", !.tries = 0, !.handoff = Blank]
         IN  /\ f \in Runs
             /\ Fine(c, f, a2, l, g, rep, b)
             /\ \A row : Owned(row, r) => Owned(row, f)
<1> DEFINE f == [r EXCEPT !.pc = "failed", !.tries = 0, !.handoff = Blank]
<1>1. /\ f \in Runs /\ f.pc = "failed" /\ f.req = r.req /\ f.record = r.record
      /\ f.plan = r.plan /\ f.trail = r.trail /\ f.known = r.known
  BY BlankType DEF Runs, Steps
<1> HIDE DEF f
<1>2. Sound(c, f, g)
  BY <1>1 DEF Fine, Sound, Begun, Fresh, OnCourse, Vetted, Asking, Selling, Hopping, Ended,
              Asked, Early, Saving, Billing
<1>3. Paid(f, b)
  BY <1>1 DEF Fine, Paid, Listed
<1>4. Earned(f, a2, g)
  BY <1>1 DEF Earned
<1>5. Accounted(f, a2, l)
  BY <1>1 DEF Accounted
<1>6. Commitment \in rep => ClosedBy(f)
  BY <1>1 DEF Fine, ClosedBy
<1>7. \A row : Owned(row, r) => Owned(row, f)
  BY <1>1 DEF Owned
<1> QED BY <1>1, <1>2, <1>3, <1>4, <1>5, <1>6, <1>7 DEF Fine, f

LEMMA Fails ==
  ASSUME IInv, NEW c \in Chains, run[c].pc \in Hopping, Fail(c),
         NEW a \in [Tools -> Nat], acted' = [acted EXCEPT ![c] = a],
         Earned(run[c], a, gates[c]), UNCHANGED <<Files, logged, gates, crashes>>
  PROVE  IInv'
<1> DEFINE f == [run[c] EXCEPT !.pc = "failed", !.tries = 0, !.handoff = Blank]
           rep == {"handoff_chain_failed"}
<1>1. run[c].pc # "waiting"
  BY DEF Hopping, Early, Saving, Billing
<1>2. /\ run[c] \in Runs /\ Fine(c, run[c], acted[c], logged[c], gates[c], reported[c], billing)
      /\ \A row \in billing : row.chain = c => Owned(row, run[c])
  BY Facts
<1>3. /\ f \in Runs /\ Fine(c, f, a, logged[c], gates[c], reported[c], billing)
      /\ \A row \in billing : row.chain = c => Owned(row, f)
  BY <1>1, <1>2, Failing
<1>4. run' = [run EXCEPT ![c] = f] /\ reported' = [reported EXCEPT ![c] = rep]
  BY DEF Fail, IInv, Typed, Runs
<1>5. Fine(c, f, a, logged[c], gates[c], rep, billing)
  BY <1>3 DEF Fine, Commitment
<1> HIDE DEF f
<1>6. /\ logged[c] \in [Tools -> Nat] /\ logged' = [logged EXCEPT ![c] = logged[c]]
      /\ gates[c] \in SUBSET GateRows /\ gates' = [gates EXCEPT ![c] = gates[c]]
      /\ template' \in Profiles \cup {None, Torn} /\ billing' = billing
      /\ billing \in SUBSET DealRows /\ crashes' = crashes
  BY DEF IInv, Typed, Files
<1>7. rep \in SUBSET {"handoff_chain_complete", "handoff_chain_failed",
                      "profile_saved", Commitment}
  OBVIOUS
<1> HIDE DEF rep
<1> QED BY <1>3, <1>4, <1>5, <1>6, <1>7, OneChain

\* A step within a hop, which leaves the request, the plan and the trail alone and, up to
\* the validator, the record.
LEMMA MovesWith ==
  ASSUME IInv, NEW c \in Chains, run[c].pc \in Hopping \ {"finish"},
         NEW r \in Runs, run' = [run EXCEPT ![c] = r],
         template' \in Profiles \cup {None, Torn}, UNCHANGED <<billing, reported, crashes>>,
         NEW a \in [Tools -> Nat], acted' = [acted EXCEPT ![c] = a],
         NEW l \in [Tools -> Nat], logged' = [logged EXCEPT ![c] = l],
         NEW g \in SUBSET GateRows, gates' = [gates EXCEPT ![c] = g],
         r.pc \in Hopping, r.record \in Records,
         r.req = run[c].req, r.plan = run[c].plan, r.trail = run[c].trail, r.known = run[c].known,
         r.pc \in Asked => run[c].pc \in Asked /\ r.record = run[c].record,
         Vetted(r), Asking(r, g), Selling(r), Accounted(r, a, l), Earned(run[c], a, g),
         r.pc = "finish" /\ At(r) = "closer" /\ r.handoff.closed /\ ~r.req.sandbox
           /\ r.handoff.status = "COMPLETE" => Listed(r, billing)
  PROVE  IInv'
<1>1. /\ run[c].pc # "waiting" /\ run[c].pc \notin Ended /\ run[c].pc # "failed"
      /\ r.pc # "waiting" /\ r.pc \notin Ended /\ r.pc # "failed"
  BY DEF Hopping, Early, Saving, Billing, Ended
<1>2. /\ run[c] \in Runs /\ Fine(c, run[c], acted[c], logged[c], gates[c], reported[c], billing)
      /\ \A row \in billing : row.chain = c => Owned(row, run[c])
  BY Facts
<1>3. Begun(c, r)
  BY <1>1, <1>2 DEF Fine, Sound, Begun
<1>4. OnCourse(r)
  BY <1>1, <1>2 DEF Fine, Sound, OnCourse, Halted
<1>5. Paid(r, billing)
  BY <1>1, <1>2 DEF Fine, Paid, Listed
<1>6. Earned(r, a, g)
  BY <1>1 DEF Earned
<1>7. Commitment \in reported[c] => ClosedBy(r)
  BY <1>2 DEF Fine, ClosedBy
<1>8. ASSUME NEW row \in billing, row.chain = c PROVE Owned(row, r)
  <2>1. Owned(row, run[c]) /\ run[c].trail # <<>>
    BY <1>1, <1>2, <1>8 DEF Owned
  <2> QED BY <1>1, <2>1 DEF Owned
<1>13. Fresh(r)
  BY <1>2 DEF Fine, Sound, Fresh
<1>9. Fine(c, r, a, l, g, reported[c], billing)
  BY <1>1, <1>3, <1>4, <1>5, <1>6, <1>7, <1>13 DEF Sound, Fine
<1>10. /\ reported[c] \in SUBSET {"handoff_chain_complete", "handoff_chain_failed",
                                  "profile_saved", Commitment}
       /\ reported' = [reported EXCEPT ![c] = reported[c]]
       /\ billing' = billing /\ billing \in SUBSET DealRows
  BY DEF IInv, Typed
<1>11. /\ Fine(c, r, a, l, g, reported[c], billing')
       /\ billing \subseteq billing' /\ billing' \in SUBSET DealRows
       /\ \A row \in billing' : row \notin billing \/ row.chain = c
                               => row.chain = c /\ Owned(row, r)
  BY <1>8, <1>9, <1>10
<1>12. crashes' = crashes
  OBVIOUS
<1> HIDE DEF IInv
<1> QED BY <1>10, <1>11, <1>12, OneChain

\* ... and nothing else.
LEMMA Moves ==
  ASSUME IInv, NEW c \in Chains, run[c].pc \in Hopping \ {"finish"},
         NEW r \in Runs, run' = [run EXCEPT ![c] = r], UNCHANGED <<Files, Logs, crashes>>,
         r.pc \in Hopping, r.record \in Records,
         r.req = run[c].req, r.plan = run[c].plan, r.trail = run[c].trail, r.known = run[c].known,
         r.pc \in Asked => run[c].pc \in Asked /\ r.record = run[c].record,
         Vetted(r), Asking(r, gates[c]), Selling(r), Accounted(r, acted[c], logged[c]),
         r.pc = "finish" /\ At(r) = "closer" /\ r.handoff.closed /\ ~r.req.sandbox
           /\ r.handoff.status = "COMPLETE" => Listed(r, billing)
  PROVE  IInv'
<1>1. /\ acted[c] \in [Tools -> Nat] /\ acted' = [acted EXCEPT ![c] = acted[c]]
      /\ logged[c] \in [Tools -> Nat] /\ logged' = [logged EXCEPT ![c] = logged[c]]
      /\ gates[c] \in SUBSET GateRows /\ gates' = [gates EXCEPT ![c] = gates[c]]
      /\ template' \in Profiles \cup {None, Torn}
      /\ UNCHANGED <<billing, reported, crashes>>
  BY DEF IInv, Typed, Files, Logs
<1>2. Earned(run[c], acted[c], gates[c])
  BY Facts DEF Fine
<1> QED BY <1>1, <1>2, MovesWith

-----------------------------------------------------------------------------
(* The steps *)

LEMMA StartInv ==
  ASSUME IInv, NEW c \in Chains, Start(c)
  PROVE  IInv'
<1>1. PICK req \in Requests[c] :
        run' = [run EXCEPT ![c] =
                 [Idle EXCEPT !.req = req, !.record = InitialRecord(req), !.plan = Plan(req),
                              !.pc = FirstStep(Plan(req)[1]),
                              !.known = {Key(row) : row \in billing}]]
  BY DEF Start
<1>2. run[c].pc = "waiting" /\ UNCHANGED <<Files, Logs, crashes>>
  BY DEF Start
<1> DEFINE keys == {Key(row) : row \in billing}
           r == [Idle EXCEPT !.req = req, !.record = InitialRecord(req), !.plan = Plan(req),
                             !.pc = FirstStep(Plan(req)[1]), !.known = keys]
<1>3. req \in Asks
  BY RequestsAssumption
<1>4. GoodPlan(Plan(req)) /\ Len(Plan(req)) \in Nat \ {0}
  BY <1>3, PlanIsGood, EmptySeq DEF GoodPlan
<1>5. InitialRecord(req) \in Records
  BY <1>3 DEF InitialRecord, Records, Asks
<1>6. keys \in SUBSET Keys
  BY DEF IInv, Typed, DealRows, Key, Keys
<1>7. /\ r.pc = FirstStep(Plan(req)[1]) /\ r.req = req /\ r.record = InitialRecord(req)
      /\ r.plan = Plan(req) /\ r.trail = <<>> /\ r.known = keys
  BY DEF Idle
<1>8. run' = [run EXCEPT ![c] = r]
  BY <1>1
<1> HIDE DEF r
<1>9. r.pc \in {"scan", "prompt"} /\ (r.pc = "prompt" => At(r) \notin Scanned)
  <2>1. At(r) = Plan(req)[1]
    BY <1>4, <1>7 DEF At
  <2> QED BY <1>7, <2>1 DEF FirstStep
<1>10. r \in Runs
  <2> DEFINE pc == FirstStep(Plan(req)[1])
             record == InitialRecord(req)
             plan == Plan(req)
  <2>1. pc \in Steps /\ plan \in Seq(Agents)
    BY <1>4, <1>7, <1>9 DEF GoodPlan, Steps
  <2>2. r = [Idle EXCEPT !.req = req, !.record = record, !.plan = plan, !.pc = pc, !.known = keys]
    BY DEF r
  <2> HIDE DEF pc, record, plan, keys
  <2>3. Idle \in Runs
    BY BlankType DEF Idle, Runs, Steps
  <2> QED BY <1>3, <1>5, <1>6, <2>1, <2>2, <2>3 DEF Runs, record
<1>11. Sound(c, r, gates[c])
  <2>1. Begun(c, r)
    BY <1>3, <1>4, <1>5, <1>7 DEF Begun, GoodPlan
  <2>2. OnCourse(r)
    BY <1>4, <1>7, <1>9 DEF OnCourse, Halted, Ended
  <2>3. Fresh(r)
    BY <1>7 DEF Fresh
  <2> QED BY <1>9, <2>1, <2>2, <2>3 DEF Sound, Vetted, Asking, Selling, Early, Saving, Billing
<1>12. /\ Fine(c, run[c], acted[c], logged[c], gates[c], reported[c], billing)
       /\ \A row \in billing : row.chain = c => Owned(row, run[c])
  BY Facts
<1>13. Paid(r, billing)
  BY <1>7, <1>9 DEF Paid
<1>14. Earned(r, acted[c], gates[c])
  BY <1>2, <1>12 DEF Fine, Earned
<1>15. Accounted(r, acted[c], logged[c])
  BY <1>2, <1>9, <1>12 DEF Fine, Accounted
<1>16. Commitment \notin reported[c] /\ \A row \in billing : row.chain # c
  BY <1>2, <1>12 DEF Fine, Owned
<1> QED BY <1>2, <1>8, <1>10, <1>11, <1>13, <1>14, <1>15, <1>16, OnlyRun

LEMMA ScanInv ==
  ASSUME IInv, NEW c \in Chains, Scan(c)
  PROVE  IInv'
<1>1. /\ run[c] \in Runs /\ run[c].pc = "scan" /\ run[c].record \in Records
      /\ Fine(c, run[c], acted[c], logged[c], gates[c], reported[c], billing)
  BY Facts DEF Scan, Fine, Sound, Begun
<1>2. /\ UNCHANGED <<Files, Logs, crashes>> /\ run[c].pc \in Hopping \ {"finish"}
      /\ run[c].pc \in Asked
  BY <1>1 DEF Scan, Hopping, Asked
<1>3. CASE run[c].req.hostile
  <2> DEFINE r == [run[c] EXCEPT !.pc = "validate", !.handoff = Rejection]
  <2>1. run' = [run EXCEPT ![c] = r]
    BY <1>3 DEF Scan, Blocked, IInv, Typed, Runs
  <2>2. /\ r \in Runs /\ r.pc = "validate" /\ r.req = run[c].req /\ r.plan = run[c].plan
        /\ r.trail = run[c].trail /\ r.known = run[c].known /\ r.record = run[c].record
        /\ r.handoff = Blank
    BY <1>1, BlankType DEF Runs, Steps
  <2> HIDE DEF r
  <2>3. Vetted(r) /\ Asking(r, gates[c]) /\ Selling(r)
    BY <2>2, BlankType DEF Vetted, Asking, Selling, Early, Saving, Billing
  <2>4. Accounted(r, acted[c], logged[c])
    BY <1>1, <2>2 DEF Fine, Accounted
  <2>5. r.pc \in Hopping /\ r.record \in Records /\ r.pc # "finish"
    BY <1>1, <2>2 DEF Hopping
  <2> QED BY <1>2, <2>1, <2>2, <2>3, <2>4, <2>5, Moves
<1>4. CASE ~run[c].req.hostile
  <2> DEFINE r == [run[c] EXCEPT !.pc = "prompt"]
  <2>1. run' = [run EXCEPT ![c] = r]
    BY <1>4 DEF Scan, Blocked, Goto, IInv, Typed, Runs
  <2>2. /\ r \in Runs /\ r.pc = "prompt" /\ r.req = run[c].req /\ r.plan = run[c].plan
        /\ r.trail = run[c].trail /\ r.known = run[c].known /\ r.record = run[c].record
    BY <1>1 DEF Runs, Steps
  <2> HIDE DEF r
  <2>3. Vetted(r) /\ Asking(r, gates[c]) /\ Selling(r)
    BY <1>4, <2>2 DEF Vetted, Asking, Selling, Saving, Billing
  <2>4. Accounted(r, acted[c], logged[c])
    BY <1>1, <2>2 DEF Fine, Accounted
  <2>5. r.pc \in Hopping /\ r.record \in Records /\ r.pc # "finish"
    BY <1>1, <2>2 DEF Hopping, Early
  <2> QED BY <1>2, <2>1, <2>2, <2>3, <2>4, <2>5, Moves
<1> QED BY <1>3, <1>4

\* In the middle of a hop a chain knows its request, its record and its answer.
LEMMA InHop ==
  ASSUME IInv, NEW c \in Chains, run[c].pc \in Hopping
  PROVE  /\ run[c] \in Runs /\ run[c].req \in Asks /\ run[c].record \in Records
         /\ run[c].handoff \in Handoffs
         /\ Agent(c) = At(run[c]) /\ Agent(c) \in Agents
         /\ Fine(c, run[c], acted[c], logged[c], gates[c], reported[c], billing)
         /\ Vetted(run[c]) /\ Asking(run[c], gates[c]) /\ Selling(run[c])
         /\ Accounted(run[c], acted[c], logged[c]) /\ Earned(run[c], acted[c], gates[c])
<1>1. run[c].pc # "waiting"
  BY DEF Hopping, Early, Saving, Billing
<1>2. run[c] \in Runs /\ Fine(c, run[c], acted[c], logged[c], gates[c], reported[c], billing)
  BY Facts
<1>3. run[c].req \in Asks /\ run[c].record \in Records /\ run[c].handoff \in Handoffs
  BY <1>1, <1>2 DEF Fine, Sound, Begun, Runs
<1>4. Agent(c) = At(run[c]) /\ Agent(c) \in Agents
  BY Facts
<1> QED BY <1>2, <1>3, <1>4 DEF Fine, Sound

LEMMA FailsAlone ==
  ASSUME IInv, NEW c \in Chains, run[c].pc \in Hopping, Fail(c),
         UNCHANGED <<Files, acted, logged, gates, crashes>>
  PROVE  IInv'
<1>1. acted[c] \in [Tools -> Nat] /\ acted' = [acted EXCEPT ![c] = acted[c]]
  BY DEF IInv, Typed
<1>2. Earned(run[c], acted[c], gates[c])
  BY InHop
<1>3. UNCHANGED <<Files, logged, gates, crashes>>
  OBVIOUS
<1> HIDE DEF IInv
<1> QED BY <1>1, <1>2, <1>3, Fails

LEMMA ReadPromptInv ==
  ASSUME IInv, NEW c \in Chains, ReadPrompt(c)
  PROVE  IInv'
<1>1. run[c].pc = "prompt" /\ run[c].pc \in Hopping \ {"finish"} /\ run[c].pc \in Asked
  BY DEF ReadPrompt, Hopping, Asked, Early
<1>2. CASE ~Readable
  BY <1>1, <1>2, FailsAlone DEF ReadPrompt
<1>3. CASE Readable
  <2> DEFINE r == [run[c] EXCEPT !.pc = "infer", !.tries = 0]
  <2>1. run[c] \in Runs
    BY <1>1, InHop
  <2>2. run' = [run EXCEPT ![c] = r] /\ UNCHANGED <<Files, Logs, crashes>>
    BY <1>3, <2>1 DEF ReadPrompt, Logs, IInv, Typed, Runs
  <2>3. /\ r \in Runs /\ r.pc = "infer" /\ r.req = run[c].req /\ r.plan = run[c].plan
        /\ r.trail = run[c].trail /\ r.known = run[c].known /\ r.record = run[c].record
        /\ r.handoff = run[c].handoff
    BY <2>1 DEF Runs, Steps
  <2> HIDE DEF r
  <2>4. At(r) = At(run[c])
    BY <2>3 DEF At
  <2>5. Vetted(r)
    BY <1>1, <2>3, <2>4, InHop DEF Vetted, Early, Saving
  <2>6. Asking(r, gates[c]) /\ Selling(r)
    BY <2>3 DEF Asking, Selling, Billing
  <2>7. Accounted(r, acted[c], logged[c])
    BY <1>1, <2>3, InHop DEF Accounted
  <2>8. r.pc \in Hopping /\ r.pc # "finish" /\ r.record \in Records
    BY <1>1, <2>3, InHop DEF Hopping, Early
  <2> QED BY <1>1, <2>2, <2>3, <2>5, <2>6, <2>7, <2>8, Moves
<1> QED BY <1>2, <1>3

LEMMA InferInv ==
  ASSUME IInv, NEW c \in Chains, Infer(c)
  PROVE  IInv'
<1>1. run[c].pc = "infer" /\ run[c].pc \in Hopping \ {"finish"} /\ run[c].pc \in Asked
      /\ UNCHANGED <<Files, Logs, crashes>>
  BY DEF Infer, Hopping, Asked, Early
<1>2. PICK reply \in Answers(c) :
        run' = [run EXCEPT ![c].handoff = reply, ![c].tries = 0,
                           ![c].pc = IF reply.tools = <<>> THEN "validate" ELSE "gate"]
  BY DEF Infer
<1>3. reply \in Handoffs
  BY <1>1, InHop, RepliesAssumption DEF Answers
<1> DEFINE pc == IF reply.tools = <<>> THEN "validate" ELSE "gate"
           r == [run[c] EXCEPT !.handoff = reply, !.tries = 0, !.pc = pc]
<1>4. run[c] \in Runs
  BY <1>1, InHop
<1>5. run' = [run EXCEPT ![c] = r]
  BY <1>2, <1>4 DEF IInv, Typed, Runs
<1>6. pc \in {"validate", "gate"} /\ (pc = "gate" => reply.tools # <<>>)
  OBVIOUS
<1> HIDE DEF pc
<1>7. /\ r \in Runs /\ r.pc = pc /\ r.req = run[c].req /\ r.plan = run[c].plan
      /\ r.trail = run[c].trail /\ r.known = run[c].known /\ r.record = run[c].record
      /\ r.handoff = reply /\ r.tries = 0
  BY <1>3, <1>4, <1>6 DEF Runs, Steps
<1> HIDE DEF r
<1>8. At(r) = At(run[c])
  BY <1>7 DEF At
<1>9. Vetted(r)
  BY <1>1, <1>6, <1>7, <1>8, InHop DEF Vetted, Early, Saving
<1>10. Asking(r, gates[c]) /\ Selling(r)
  BY <1>6, <1>7 DEF Asking, Selling, Billing
<1>11. Accounted(r, acted[c], logged[c])
  BY <1>1, <1>6, <1>7, InHop DEF Accounted
<1>12. r.pc \in Hopping /\ r.pc # "finish" /\ r.record \in Records
  BY <1>1, <1>6, <1>7, InHop DEF Hopping, Early
<1> QED BY <1>1, <1>5, <1>7, <1>9, <1>10, <1>11, <1>12, Moves

LEMMA MisinferInv ==
  ASSUME IInv, NEW c \in Chains, Misinfer(c)
  PROVE  IInv'
<1>1. run[c].pc = "infer" /\ run[c].pc \in Hopping \ {"finish"} /\ run[c].pc \in Asked
      /\ UNCHANGED <<Files, Logs, crashes>>
  BY DEF Misinfer, Hopping, Asked, Early
<1>2. run[c] \in Runs /\ Agent(c) \in Agents /\ Agent(c) = At(run[c])
  BY <1>1, InHop
<1> DEFINE again == [run[c] EXCEPT !.tries = 1]
           gone == [run[c] EXCEPT !.handoff = PolicyHandoff(Agent(c)), !.pc = "finish"]
<1>3. PICK r \in {again, gone} : run' = [run EXCEPT ![c] = r]
  BY <1>2 DEF Misinfer, IInv, Typed, Runs
<1>4. /\ r \in Runs /\ r.pc \in {"infer", "finish"} /\ r.req = run[c].req
      /\ r.plan = run[c].plan /\ r.trail = run[c].trail /\ r.known = run[c].known
      /\ r.record = run[c].record
      /\ r.pc = "finish" => r.handoff = PolicyHandoff(Agent(c))
  <2>1. CASE r = again
    BY <1>1, <1>2, <2>1 DEF Runs, Steps
  <2>2. CASE r = gone
    <3>1. PolicyHandoff(Agent(c)) \in Handoffs
      BY <1>2, PolicyType
    <3> QED BY <1>2, <2>2, <3>1 DEF Runs, Steps
  <2> QED BY <2>1, <2>2
<1>5. At(r) = At(run[c])
  BY <1>4 DEF At
<1>6. Vetted(r)
  BY <1>1, <1>2, <1>4, <1>5, InHop, PolicyType DEF Vetted, Early, Saving
<1>7. Asking(r, gates[c]) /\ Selling(r)
  BY <1>4 DEF Asking, Selling, Billing
<1>8. Accounted(r, acted[c], logged[c])
  BY <1>1, <1>4, InHop DEF Accounted
<1>9. r.pc \in Hopping /\ r.record \in Records /\ (r.pc = "finish" => ~r.handoff.closed)
  BY <1>1, <1>2, <1>4, InHop, PolicyType DEF Hopping, Early
<1> QED BY <1>1, <1>3, <1>4, <1>6, <1>7, <1>8, <1>9, Moves

\* A tool is done with: the chain goes on to the gate for the next or to its validator.
LEMMA ToolsDoneMoves ==
  ASSUME IInv, NEW c \in Chains, run[c].pc \in {"gate", "send"}, ToolsDone(c)
  PROVE  \E r \in Runs :
           /\ run' = [run EXCEPT ![c] = r]
           /\ r.pc \in {"validate", "gate"} /\ r.tries = 0
           /\ r.pc = "gate" => r.handoff.tools # <<>>
           /\ r.req = run[c].req /\ r.plan = run[c].plan /\ r.trail = run[c].trail
           /\ r.known = run[c].known /\ r.record = run[c].record
           /\ At(r) = At(run[c]) /\ Vetted(r) /\ Selling(r)
           /\ \A g : Asking(r, g)
           /\ r.pc \in Hopping /\ r.pc # "finish"
<1>1. run[c].pc \in Hopping /\ run[c].pc \in Early
  BY DEF Hopping, Early
<1>2. run[c] \in Runs /\ run[c].handoff \in Handoffs /\ run[c].handoff.tools # <<>>
  BY <1>1, InHop DEF Asking
<1> DEFINE rest == Tail(run[c].handoff.tools)
           pc == IF rest = <<>> THEN "validate" ELSE "gate"
           h == [run[c].handoff EXCEPT !.tools = rest]
           r == [run[c] EXCEPT !.handoff = h, !.tries = 0, !.pc = pc]
<1>3. rest \in Seq(Tools)
  BY <1>2 DEF Handoffs
<1>4. run' = [run EXCEPT ![c] = r]
  BY <1>2 DEF ToolsDone, IInv, Typed, Runs
<1>5. pc \in {"validate", "gate"} /\ (pc = "gate" => rest # <<>>)
  OBVIOUS
<1> HIDE DEF rest, pc
<1>6. h \in Handoffs /\ h.tools = rest
  BY <1>2, <1>3 DEF Handoffs
<1> HIDE DEF h
<1>7. /\ r \in Runs /\ r.pc = pc /\ r.req = run[c].req /\ r.plan = run[c].plan
      /\ r.trail = run[c].trail /\ r.known = run[c].known /\ r.record = run[c].record
      /\ r.handoff = h /\ r.tries = 0
  BY <1>2, <1>5, <1>6 DEF Runs, Steps
<1> HIDE DEF r
<1>8. At(r) = At(run[c])
  BY <1>7 DEF At
<1>9. Vetted(r)
  BY <1>1, <1>5, <1>7, <1>8, InHop DEF Vetted, Early, Saving
<1>10. (\A g : Asking(r, g)) /\ Selling(r)
  BY <1>5, <1>6, <1>7 DEF Asking, Selling, Billing
<1>11. r.pc \in Hopping /\ r.pc # "finish"
  BY <1>5, <1>7 DEF Hopping, Early
<1> QED BY <1>4, <1>5, <1>6, <1>7, <1>8, <1>9, <1>10, <1>11

\* More decisions of the gate take nothing back.
LEMMA EarnedGrows ==
  ASSUME NEW r, NEW a, NEW g, NEW g2, g \subseteq g2, Earned(r, a, g)
  PROVE  Earned(r, a, g2)
  BY DEF Earned

LEMMA GateInv ==
  ASSUME IInv, NEW c \in Chains, Gate(c)
  PROVE  IInv'
<1> DEFINE tool == NextTool(c)
           allowed == GateAllows(Agent(c), tool, run[c].handoff, run[c].req)
           g == gates[c] \cup {GateRow(tool, allowed)}
<1>1. /\ run[c].pc = "gate" /\ run[c].pc \in Hopping \ {"finish"}
      /\ run[c].pc \in Early /\ run[c].pc \in Asked
      /\ gates' = [gates EXCEPT ![c] = g]
      /\ UNCHANGED <<Files, acted, logged, reported, crashes>>
  BY DEF Gate, Hopping, Asked, Early
<1>2. /\ run[c] \in Runs /\ run[c].handoff \in Handoffs /\ run[c].handoff.tools # <<>>
      /\ run[c].tries = 0 /\ run[c].record \in Records /\ Agent(c) = At(run[c])
  BY <1>1, InHop DEF Asking
<1>3. tool \in Tools /\ tool = Head(run[c].handoff.tools)
  <2>1. run[c].handoff.tools \in Seq(Tools)
    BY <1>2 DEF Handoffs
  <2> QED BY <1>2, <2>1, HeadTailProperties DEF NextTool
<1>4. allowed \in BOOLEAN
  BY DEF GateAllows
<1> HIDE DEF tool, allowed
<1>5. g \in SUBSET GateRows /\ gates[c] \subseteq g
  BY <1>3, <1>4 DEF IInv, Typed, GateRow, GateRows
<1>6. Earned(run[c], acted[c], g)
  BY <1>1, <1>5, InHop, EarnedGrows
<1>7. /\ acted[c] \in [Tools -> Nat] /\ acted' = [acted EXCEPT ![c] = acted[c]]
      /\ logged[c] \in [Tools -> Nat] /\ logged' = [logged EXCEPT ![c] = logged[c]]
      /\ template' \in Profiles \cup {None, Torn}
      /\ UNCHANGED <<billing, reported, crashes>>
  BY <1>1 DEF IInv, Typed, Files
<1>8. \A t \in Tools : acted[c][t] <= logged[c][t]
  <2>1. acted[c] \in [Tools -> Nat] /\ logged[c] \in [Tools -> Nat]
    BY <1>7
  <2> QED BY <1>1, <2>1, InHop DEF Accounted
<1>9. CASE allowed /\ Usable(Agent(c), tool, run[c].req)
  <2> DEFINE r == [run[c] EXCEPT !.pc = "send"]
  <2>1. run' = [run EXCEPT ![c] = r]
    BY <1>2, <1>9 DEF Gate, Goto, IInv, Typed, Runs, tool, allowed
  <2>2. /\ r \in Runs /\ r.pc = "send" /\ r.req = run[c].req /\ r.plan = run[c].plan
        /\ r.trail = run[c].trail /\ r.known = run[c].known /\ r.record = run[c].record
        /\ r.handoff = run[c].handoff /\ r.tries = 0
    BY <1>2 DEF Runs, Steps
  <2> HIDE DEF r
  <2>3. At(r) = At(run[c])
    BY <2>2 DEF At
  <2>4. Vetted(r)
    BY <1>1, <2>2, <2>3, InHop DEF Vetted, Early, Saving
  <2>5. Asking(r, g)
    <3>1. 0 < MaxAttempts
      BY ConstantsAssumption
    <3>2. GateRow(tool, TRUE) \in g
      BY <1>4, <1>9
    <3> HIDE DEF g
    <3> QED BY <1>2, <1>3, <1>9, <2>2, <2>3, <3>1, <3>2 DEF Asking
  <2>6. Selling(r) /\ r.pc \in Hopping /\ r.pc # "finish" /\ r.record \in Records
    BY <1>2, <2>2 DEF Selling, Billing, Hopping, Early
  <2>7. Accounted(r, acted[c], logged[c])
    BY <1>7, <1>8, <2>2 DEF Accounted
  <2> HIDE DEF g
  <2> QED BY <1>1, <1>5, <1>6, <1>7, <2>1, <2>2, <2>4, <2>5, <2>6, <2>7, MovesWith
<1>10. CASE ~(allowed /\ Usable(Agent(c), tool, run[c].req))
  <2>1. ToolsDone(c)
    BY <1>10 DEF Gate, tool, allowed
  <2>2. PICK r \in Runs :
           /\ run' = [run EXCEPT ![c] = r]
           /\ r.pc \in {"validate", "gate"} /\ r.tries = 0
           /\ r.req = run[c].req /\ r.plan = run[c].plan /\ r.trail = run[c].trail
           /\ r.known = run[c].known /\ r.record = run[c].record
           /\ At(r) = At(run[c]) /\ Vetted(r) /\ Selling(r)
           /\ \A d : Asking(r, d)
           /\ r.pc \in Hopping /\ r.pc # "finish"
    BY <1>1, <2>1, ToolsDoneMoves
  <2>3. Accounted(r, acted[c], logged[c])
    BY <1>7, <1>8, <2>2 DEF Accounted
  <2> HIDE DEF g
  <2> QED BY <1>1, <1>2, <1>5, <1>6, <1>7, <2>2, <2>3, MovesWith
<1> QED BY <1>9, <1>10

\* In a dry run no service acts.
LEMMA DryRunsDoNotAct ==
  ASSUME NEW tool, NEW req, NEW call \in Calls(tool, req), call.acts
  PROVE  ~DryRun(req)
<1>1. ASSUME NEW dry \in BOOLEAN, dry,
             NEW x \in GmailCalls(dry) \cup LinearCalls(dry) \cup NotionCalls(dry)
                        \cup CalendarCalls(dry)
      PROVE  ~x.acts
  BY <1>1 DEF GmailCalls, LinearCalls, NotionCalls, CalendarCalls, Rehearsed, Refused, Call
<1>2. Calls(tool, req) \in {GmailCalls(DryRun(req)), LinearCalls(DryRun(req)),
                           NotionCalls(DryRun(req)), CalendarCalls(DryRun(req))}
  <2>1. CASE tool = "gmail.send_followup_email"
    BY <2>1 DEF Calls
  <2>2. CASE tool = "linear.create_followup_task"
    BY <2>2 DEF Calls
  <2>3. CASE tool = "notion.create_deal_page"
    BY <2>3 DEF Calls
  <2>4. CASE tool \notin {"gmail.send_followup_email", "linear.create_followup_task",
                         "notion.create_deal_page"}
    BY <2>4 DEF Calls
  <2> QED BY <2>1, <2>2, <2>3, <2>4
<1>3. call \in GmailCalls(DryRun(req)) \cup LinearCalls(DryRun(req))
                \cup NotionCalls(DryRun(req)) \cup CalendarCalls(DryRun(req))
  BY <1>2
<1>4. DryRun(req) \in BOOLEAN
  BY ConstantsAssumption DEF DryRun
<1> QED BY <1>1, <1>3, <1>4

LEMMA SendInv ==
  ASSUME IInv, NEW c \in Chains, Send(c)
  PROVE  IInv'
<1> DEFINE tool == NextTool(c)
           tries == run[c].tries + 1
<1>1. PICK call \in Calls(tool, run[c].req) :
           /\ acted' = [acted EXCEPT ![c][tool] = IF call.acts THEN @ + 1 ELSE @]
           /\ \/ Fail(c) /\ UNCHANGED logged
              \/ /\ ~Exhausted(tries)
                 /\ run' = [run EXCEPT ![c].tries = tries] /\ UNCHANGED <<logged, reported>>
              \/ ToolsDone(c) /\ logged' = ToolRow(c, tool, tries) /\ UNCHANGED reported
  BY DEF Send
<1>2. /\ run[c].pc = "send" /\ run[c].pc \in Hopping \ {"finish"}
      /\ run[c].pc \in Early /\ run[c].pc \in Asked
      /\ UNCHANGED <<Files, gates, crashes>>
  BY DEF Send, Hopping, Asked, Early
<1>3. /\ run[c] \in Runs /\ run[c].handoff \in Handoffs /\ run[c].handoff.tools # <<>>
      /\ run[c].record \in Records /\ Agent(c) = At(run[c]) /\ run[c].tries \in Nat
      /\ run[c].tries < MaxAttempts /\ GateRow(tool, TRUE) \in gates[c]
      /\ Usable(At(run[c]), tool, run[c].req)
  BY <1>2, InHop DEF Asking, NextTool, Runs
<1>4. tool \in Tools /\ tool = Head(run[c].handoff.tools)
  <2>1. run[c].handoff.tools \in Seq(Tools)
    BY <1>3 DEF Handoffs
  <2> QED BY <1>3, <2>1, HeadTailProperties DEF NextTool
<1> HIDE DEF tool
<1>5. /\ acted[c] \in [Tools -> Nat] /\ acted \in [Chains -> [Tools -> Nat]]
      /\ logged[c] \in [Tools -> Nat] /\ logged \in [Chains -> [Tools -> Nat]]
      /\ gates[c] \in SUBSET GateRows /\ gates' = [gates EXCEPT ![c] = gates[c]]
      /\ template' \in Profiles \cup {None, Torn} /\ UNCHANGED <<billing, crashes>>
  BY <1>2 DEF IInv, Typed, Files
<1> DEFINE a == [acted[c] EXCEPT ![tool] = IF call.acts THEN @ + 1 ELSE @]
<1>6. /\ a \in [Tools -> Nat] /\ acted' = [acted EXCEPT ![c] = a]
      /\ a[tool] <= acted[c][tool] + 1
      /\ \A t \in Tools \ {tool} : a[t] = acted[c][t]
      /\ a[tool] # acted[c][tool] => call.acts
  BY <1>1, <1>4, <1>5
<1> HIDE DEF a
<1>7. Earned(run[c], a, gates[c])
  <2> SUFFICES ASSUME NEW t \in Tools, a[t] > 0
               PROVE  /\ run[c].pc # "waiting"
                      /\ GateRow(t, TRUE) \in gates[c]
                      /\ ~DryRun(run[c].req)
                      /\ \E i \in 1 .. Len(run[c].plan) :
                           /\ run[c].plan[i] \in AllowedAgents(t)
                           /\ run[c].plan[i] \in Scanned => ~run[c].req.hostile
    BY DEF Earned
  <2>1. CASE acted[c][t] > 0
    BY <1>2, <2>1, InHop DEF Earned
  <2>2. CASE ~(acted[c][t] > 0)
    <3>1. t = tool /\ call.acts
      BY <1>4, <1>5, <1>6, <2>2
    <3>2. ~DryRun(run[c].req)
      BY <1>1, <3>1, DryRunsDoNotAct
    <3>3. Len(run[c].trail) + 1 \in 1 .. Len(run[c].plan)
      <4>1. Len(run[c].trail) < Len(run[c].plan)
        BY <1>2, InHop DEF Fine, Sound, OnCourse
      <4>2. Len(run[c].trail) \in Nat /\ Len(run[c].plan) \in Nat
        BY <1>3 DEF Runs
      <4> QED BY <4>1, <4>2
    <3>4. At(run[c]) \in AllowedAgents(tool)
      BY <1>3 DEF Usable
    <3>5. At(run[c]) \in Scanned => ~run[c].req.hostile
      BY <1>2, InHop DEF Vetted
    <3> QED BY <1>2, <1>3, <3>1, <3>2, <3>3, <3>4, <3>5 DEF At
  <2> QED BY <2>1, <2>2
<1>8. \A t \in Tools : acted[c][t] <= logged[c][t] + (IF tool = t THEN run[c].tries ELSE 0)
  BY <1>2, <1>4, InHop DEF Accounted
<1>9. CASE Fail(c) /\ UNCHANGED logged
  <2> HIDE DEF IInv
  <2> QED BY <1>2, <1>6, <1>7, <1>9, Fails
<1>10. CASE /\ ~Exhausted(tries)
            /\ run' = [run EXCEPT ![c].tries = tries] /\ UNCHANGED <<logged, reported>>
  <2> DEFINE r == [run[c] EXCEPT !.tries = tries]
  <2>1. tries \in Nat /\ tries < MaxAttempts
    BY <1>3, <1>10, ConstantsAssumption DEF Exhausted
  <2>2. run' = [run EXCEPT ![c] = r]
    BY <1>10, <1>3 DEF IInv, Typed, Runs
  <2>3. /\ r \in Runs /\ r.pc = "send" /\ r.req = run[c].req /\ r.plan = run[c].plan
        /\ r.trail = run[c].trail /\ r.known = run[c].known /\ r.record = run[c].record
        /\ r.handoff = run[c].handoff /\ r.tries = tries
    BY <1>2, <1>3, <2>1 DEF Runs, Steps
  <2> HIDE DEF r
  <2>4. At(r) = At(run[c])
    BY <2>3 DEF At
  <2>5. Vetted(r)
    BY <1>2, <2>3, <2>4, InHop DEF Vetted, Early, Saving
  <2>6. Asking(r, gates[c])
    BY <1>3, <1>4, <2>1, <2>3, <2>4 DEF Asking
  <2>7. Selling(r) /\ r.pc \in Hopping /\ r.pc # "finish" /\ r.record \in Records
    BY <1>3, <2>3 DEF Selling, Billing, Hopping, Early
  <2>8. Accounted(r, a, logged[c])
    <3>1. ASSUME NEW t \in Tools
          PROVE  a[t] <= logged[c][t] + (IF tool = t THEN tries ELSE 0)
      <4>1. acted[c][t] \in Nat /\ logged[c][t] \in Nat /\ a[t] \in Nat /\ run[c].tries \in Nat
        BY <1>3, <1>5, <1>6
      <4>2. acted[c][t] <= logged[c][t] + (IF tool = t THEN run[c].tries ELSE 0)
        BY <1>8
      <4>3. a[t] <= (IF tool = t THEN acted[c][t] + 1 ELSE acted[c][t])
        BY <1>6, <4>1
      <4> QED BY <4>1, <4>2, <4>3
    <3>2. Head(r.handoff.tools) = tool
      BY <1>4, <2>3
    <3> QED BY <2>3, <3>1, <3>2 DEF Accounted
  <2>9. logged' = [logged EXCEPT ![c] = logged[c]] /\ UNCHANGED <<billing, reported, crashes>>
    BY <1>5, <1>10
  <2> HIDE DEF IInv
  <2> QED BY <1>2, <1>5, <1>6, <1>7, <2>2, <2>3, <2>5, <2>6, <2>7, <2>8, <2>9, MovesWith
<1>11. CASE ToolsDone(c) /\ logged' = ToolRow(c, tool, tries) /\ UNCHANGED reported
  <2> DEFINE l == [logged[c] EXCEPT ![tool] = @ + tries]
  <2>1. /\ l \in [Tools -> Nat] /\ logged' = [logged EXCEPT ![c] = l]
        /\ l[tool] = logged[c][tool] + tries /\ \A t \in Tools \ {tool} : l[t] = logged[c][t]
    <3>1. tries \in Nat
      BY <1>3
    <3> HIDE DEF tries
    <3>2. logged' = [logged EXCEPT ![c][tool] = @ + tries]
      BY <1>11 DEF ToolRow
    <3> QED BY <1>4, <1>5, <3>1, <3>2
  <2> HIDE DEF l
  <2>2. PICK r \in Runs :
           /\ run' = [run EXCEPT ![c] = r]
           /\ r.pc \in {"validate", "gate"} /\ r.tries = 0
           /\ r.req = run[c].req /\ r.plan = run[c].plan /\ r.trail = run[c].trail
           /\ r.known = run[c].known /\ r.record = run[c].record
           /\ At(r) = At(run[c]) /\ Vetted(r) /\ Selling(r)
           /\ \A d : Asking(r, d)
           /\ r.pc \in Hopping /\ r.pc # "finish"
    BY <1>2, <1>11, ToolsDoneMoves
  <2>3. ASSUME NEW t \in Tools PROVE a[t] <= l[t]
    <3>1. /\ acted[c][t] \in Nat /\ logged[c][t] \in Nat /\ a[t] \in Nat
          /\ run[c].tries \in Nat /\ l[t] \in Nat
      BY <1>3, <1>5, <1>6, <2>1
    <3>2. acted[c][t] <= logged[c][t] + (IF tool = t THEN run[c].tries ELSE 0)
      BY <1>8
    <3>3. a[t] <= (IF tool = t THEN acted[c][t] + 1 ELSE acted[c][t])
      BY <1>6, <3>1
    <3>4. l[t] = logged[c][t] + (IF tool = t THEN run[c].tries + 1 ELSE 0)
      BY <2>1, <3>1
    <3> QED BY <3>1, <3>2, <3>3, <3>4
  <2>4. Accounted(r, a, l)
    <3>1. \A t \in Tools : a[t] \in Nat /\ l[t] \in Nat
      BY <1>6, <2>1
    <3> QED BY <2>2, <2>3, <3>1 DEF Accounted
  <2>5. UNCHANGED <<billing, reported, crashes>> /\ r.record \in Records
    BY <1>3, <1>5, <1>11, <2>2
  <2> HIDE DEF IInv
  <2> QED BY <1>2, <1>5, <1>6, <1>7, <2>1, <2>2, <2>4, <2>5, MovesWith
<1> QED BY <1>1, <1>9, <1>10, <1>11

LEMMA ValidateInv ==
  ASSUME IInv, NEW c \in Chains, Validate(c)
  PROVE  IInv'
<1> DEFINE k == Checked(Agent(c), run[c].handoff, run[c].record, run[c].req)
           r == [run[c] EXCEPT !.handoff = k.handoff, !.record = k.record, !.pc = k.then]
<1>1. /\ run[c].pc = "validate" /\ run[c].pc \in Hopping \ {"finish"}
      /\ UNCHANGED <<Files, Logs, crashes>>
      /\ run' = [run EXCEPT ![c].handoff = k.handoff, ![c].record = k.record, ![c].pc = k.then]
  BY DEF Validate, Hopping
<1>2. /\ run[c] \in Runs /\ run[c].handoff \in Handoffs /\ run[c].record \in Records
      /\ run[c].req \in Asks /\ Agent(c) = At(run[c]) /\ Agent(c) \in Agents
      /\ Vetted(run[c]) /\ Begun(c, run[c]) /\ OnCourse(run[c]) /\ Fresh(run[c])
  BY <1>1, InHop DEF Fine, Sound
<1>3. /\ k \in Outcomes
      /\ k.then = "load" => At(run[c]) = "onboarding_specialist"
      /\ k.then = "bill" => /\ At(run[c]) = "closer" /\ run[c].record.onboarded
                           /\ ~run[c].req.sandbox /\ run[c].handoff.closed
                           /\ Offered(run[c].record, k.handoff.link)
      /\ At(run[c]) = "closer" /\ k.then = "finish" /\ k.handoff.closed
           /\ k.handoff.status = "COMPLETE" => run[c].req.sandbox
      /\ At(run[c]) = "profit_guardrail" /\ run[c].req.thin => k.handoff.status = "EMERGENCY_STOP"
  BY <1>2, CheckedType
<1> HIDE DEF k
<1>4. /\ k.handoff \in Handoffs /\ k.record \in Records /\ k.then \in {"finish", "load", "bill"}
  BY <1>3 DEF Outcomes
<1>5. run' = [run EXCEPT ![c] = r]
  BY <1>1, <1>2 DEF IInv, Typed, Runs
<1>6. /\ r \in Runs /\ r.pc = k.then /\ r.req = run[c].req /\ r.plan = run[c].plan
      /\ r.trail = run[c].trail /\ r.known = run[c].known /\ r.record = k.record
      /\ r.handoff = k.handoff
  BY <1>2, <1>4 DEF Runs, Steps
<1> HIDE DEF r
<1>7. At(r) = At(run[c])
  BY <1>6 DEF At
<1>8. Vetted(r)
  BY <1>3, <1>4, <1>6, <1>7 DEF Vetted, Early, Saving
<1>9. \A g : Asking(r, g)
  BY <1>4, <1>6 DEF Asking
<1>10. Selling(r)
  <2>1. ASSUME k.then = "bill" PROVE ~run[c].req.hostile
    BY <1>1, <1>2, <1>3, <2>1 DEF Vetted, Scanned
  <2>2. ASSUME At(run[c]) = "closer"
        PROVE  /\ run[c].record.onboarded = run[c].req.onboarded
               /\ run[c].record.profile = run[c].req.profile
    <3>1. /\ Len(run[c].trail) \in Nat /\ Len(run[c].trail) < Len(run[c].plan)
          /\ run[c].plan \in Seq(Agents) /\ run[c].trail \in Seq(Hops)
          /\ \A i \in DOMAIN run[c].plan : run[c].plan[i] = "closer" => i = 1
      BY <1>1, <1>2 DEF OnCourse, Begun, Runs, Hopping, Scanned
    <3>2. Len(run[c].trail) = 0
      BY <2>2, <3>1 DEF At
    <3>3. run[c].record = InitialRecord(run[c].req)
      BY <1>1, <1>2, <3>1, <3>2, EmptySeq DEF Fresh, Asked
    <3> QED BY <3>3 DEF InitialRecord
  <2>3. k.then = "bill" => run[c].req.onboarded /\ Offered(run[c].req, k.handoff.link)
    BY <1>3, <2>2 DEF Offered
  <2> QED BY <1>3, <1>4, <1>6, <1>7, <2>1, <2>3 DEF Selling, Billing
<1>11. Accounted(r, acted[c], logged[c])
  BY <1>1, <1>4, <1>6, InHop DEF Accounted
<1>12. r.pc \in Hopping /\ r.record \in Records
  BY <1>4, <1>6 DEF Hopping, Saving, Billing
<1>13. r.pc = "finish" /\ At(r) = "closer" /\ r.handoff.closed /\ ~r.req.sandbox
         /\ r.handoff.status = "COMPLETE" => Listed(r, billing)
  BY <1>3, <1>6, <1>7
<1>14. r.pc \notin Asked
  BY <1>4, <1>6 DEF Asked, Early
<1> HIDE DEF IInv
<1> QED BY <1>1, <1>5, <1>6, <1>8, <1>9, <1>10, <1>11, <1>12, <1>13, <1>14, Moves

\* A step to another pc and nothing else of the chain; the template may change.
LEMMA Goes ==
  ASSUME IInv, NEW c \in Chains, run[c].pc \in Saving \cup {"bill"},
         NEW pc \in {"truncate", "write", "append", "finish"}, Goto(c, pc),
         pc \in Saving => run[c].pc \in Saving,
         pc = "append" => /\ run[c].pc = "bill"
                          /\ <<run[c].req.deal, run[c].handoff.type, run[c].handoff.link>>
                                \notin run[c].known,
         run[c].pc = "bill" /\ pc = "finish" => Listed(run[c], billing),
         template' \in Profiles \cup {None, Torn}, UNCHANGED <<billing, Logs, crashes>>
  PROVE  IInv'
<1> DEFINE r == [run[c] EXCEPT !.pc = pc]
<1>1. run[c].pc \in Hopping \ {"finish"} /\ run[c].pc \notin {"send", "failed"}
  BY DEF Hopping, Saving, Billing
<1>2. /\ run[c] \in Runs /\ run[c].record \in Records /\ Vetted(run[c]) /\ Selling(run[c])
  BY <1>1, InHop
<1>3. run' = [run EXCEPT ![c] = r]
  BY <1>2 DEF Goto, IInv, Typed, Runs
<1>4. /\ r \in Runs /\ r.pc = pc /\ r.req = run[c].req /\ r.plan = run[c].plan
      /\ r.trail = run[c].trail /\ r.known = run[c].known /\ r.record = run[c].record
      /\ r.handoff = run[c].handoff
  BY <1>2 DEF Runs, Steps
<1> HIDE DEF r
<1>5. At(r) = At(run[c]) /\ At(r) # "profit_guardrail"
  <2>1. At(r) = At(run[c])
    BY <1>4 DEF At
  <2>2. At(run[c]) \in {"onboarding_specialist", "closer"}
    BY <1>2 DEF Vetted, Selling, Billing
  <2> QED BY <2>1, <2>2
<1>6. Vetted(r)
  BY <1>2, <1>4, <1>5 DEF Vetted, Early, Saving
<1>7. Asking(r, gates[c]) /\ Selling(r)
  BY <1>2, <1>4, <1>5 DEF Asking, Selling, Billing
<1>8. Accounted(r, acted[c], logged[c])
  BY <1>1, <1>4, InHop DEF Accounted
<1>9. r.pc \in Hopping /\ r.record \in Records
  BY <1>2, <1>4 DEF Hopping, Saving, Billing
<1>10. r.pc = "finish" /\ At(r) = "closer" => Listed(r, billing)
  BY <1>2, <1>4, <1>5 DEF Vetted, Listed
<1>11. /\ acted[c] \in [Tools -> Nat] /\ acted' = [acted EXCEPT ![c] = acted[c]]
       /\ logged[c] \in [Tools -> Nat] /\ logged' = [logged EXCEPT ![c] = logged[c]]
       /\ gates[c] \in SUBSET GateRows /\ gates' = [gates EXCEPT ![c] = gates[c]]
       /\ UNCHANGED <<billing, reported, crashes>>
  BY DEF IInv, Typed, Logs
<1>12. Earned(run[c], acted[c], gates[c])
  BY <1>1, InHop
<1>13. r.pc \notin Asked
  BY <1>4 DEF Asked, Early
<1> HIDE DEF IInv
<1> QED BY <1>1, <1>3, <1>4, <1>6, <1>7, <1>8, <1>9, <1>10, <1>11, <1>12, <1>13, MovesWith

LEMMA SavesInv ==
  ASSUME IInv, NEW c \in Chains, LoadTemplate(c) \/ TruncateTemplate(c) \/ WriteTemplate(c)
  PROVE  IInv'
<1>1. template \in Profiles \cup {None, Torn}
  BY DEF IInv, Typed
<1>2. CASE LoadTemplate(c) /\ ~Readable
  <2>1. run[c].pc \in Hopping
    BY <1>2 DEF LoadTemplate, Hopping, Saving
  <2> QED BY <1>2, <2>1, FailsAlone DEF LoadTemplate
<1>3. CASE LoadTemplate(c) /\ Readable
  <2>1. /\ run[c].pc \in Saving /\ run[c].pc # "bill" /\ Goto(c, "truncate")
        /\ template' \in Profiles \cup {None, Torn} /\ UNCHANGED <<billing, Logs, crashes>>
    BY <1>1, <1>3 DEF LoadTemplate, Saving, Files, Logs
  <2> QED BY <2>1, Goes
<1>4. CASE TruncateTemplate(c)
  <2>1. /\ run[c].pc \in Saving /\ run[c].pc # "bill" /\ Goto(c, "write")
        /\ template' \in Profiles \cup {None, Torn} /\ UNCHANGED <<billing, Logs, crashes>>
    BY <1>4 DEF TruncateTemplate, Saving
  <2> QED BY <2>1, Goes
<1>5. CASE WriteTemplate(c)
  <2>1. /\ run[c].pc \in Saving /\ run[c].pc # "bill" /\ Goto(c, "finish")
        /\ UNCHANGED <<billing, Logs, crashes>>
    BY <1>5 DEF WriteTemplate, Saving
  <2>2. run[c].handoff.profile \in Profiles \cup {None}
    BY <2>1, InHop DEF Hopping, Handoffs
  <2>3. template' \in Profiles \cup {None, Torn}
    BY <1>5, <2>2 DEF WriteTemplate
  <2> QED BY <2>1, <2>3, Goes DEF Saving
<1> QED BY <1>2, <1>3, <1>4, <1>5

LEMMA ReadDealsInv ==
  ASSUME IInv, NEW c \in Chains, ReadDeals(c)
  PROVE  IInv'
<1>1. /\ run[c].pc = "bill" /\ run[c].pc \in Hopping /\ run[c].pc \notin Saving
      /\ Goto(c, IF AlreadyBilled(c) THEN "finish" ELSE "append")
      /\ UNCHANGED <<billing, Logs, crashes>>
  BY DEF ReadDeals, Hopping, Saving, Billing, Files
<1>2. template' \in Profiles \cup {None, Torn}
  BY DEF ReadDeals, IInv, Typed, Files
<1>3. Key(DealRow(c)) = <<run[c].req.deal, run[c].handoff.type, run[c].handoff.link>>
  BY DEF Key, DealRow
<1>4. CASE AlreadyBilled(c)
  <2>1. PICK row \in billing : Key(row) = Key(DealRow(c))
    BY <1>4 DEF AlreadyBilled
  <2>2. Listed(run[c], billing)
    BY <1>3, <2>1 DEF Listed, Key
  <2>3. Goto(c, "finish") /\ "finish" \notin Saving
    BY <1>1, <1>4 DEF Saving
  <2> QED BY <1>1, <1>2, <2>2, <2>3, Goes
<1>5. CASE ~AlreadyBilled(c)
  <2>1. \A key \in run[c].known : \E row \in billing : Key(row) = key
    BY <1>1, InHop DEF Fine, Paid
  <2>2. <<run[c].req.deal, run[c].handoff.type, run[c].handoff.link>> \notin run[c].known
    BY <1>3, <1>5, <2>1 DEF AlreadyBilled
  <2>3. Goto(c, "append") /\ "append" \notin Saving
    BY <1>1, <1>5 DEF Saving
  <2> QED BY <1>1, <1>2, <2>2, <2>3, Goes
<1> QED BY <1>4, <1>5

LEMMA AppendDealInv ==
  ASSUME IInv, NEW c \in Chains, AppendDeal(c)
  PROVE  IInv'
<1> DEFINE row == DealRow(c)
           r == [run[c] EXCEPT !.pc = "finish"]
<1>1. /\ run[c].pc = "append" /\ run[c].pc \in Hopping /\ run[c].pc \in Billing
      /\ billing' = billing \cup {row} /\ Goto(c, "finish")
      /\ UNCHANGED <<template, Logs, crashes>>
  BY DEF AppendDeal, Hopping, Billing
<1>2. /\ run[c] \in Runs /\ run[c].record \in Records /\ run[c].req \in Asks
      /\ run[c].handoff \in Handoffs /\ Selling(run[c])
      /\ Fine(c, run[c], acted[c], logged[c], gates[c], reported[c], billing)
  BY <1>1, InHop
<1>3. /\ row.deal = run[c].req.deal /\ row.chain = c
      /\ row.link = run[c].handoff.link
      /\ Key(row) = <<run[c].req.deal, run[c].handoff.type, run[c].handoff.link>>
      /\ row \in DealRows
  BY <1>2 DEF DealRow, Key, DealRows, Asks, Handoffs, Types, Links
<1> HIDE DEF row
<1>4. run' = [run EXCEPT ![c] = r]
  BY <1>1, <1>2 DEF Goto, IInv, Typed, Runs
<1>5. /\ r \in Runs /\ r.pc = "finish" /\ r.req = run[c].req /\ r.plan = run[c].plan
      /\ r.trail = run[c].trail /\ r.known = run[c].known /\ r.record = run[c].record
      /\ r.handoff = run[c].handoff
  BY <1>2 DEF Runs, Steps
<1> HIDE DEF r
<1>6. At(r) = At(run[c]) /\ At(r) = "closer"
  BY <1>1, <1>2, <1>5 DEF At, Selling
<1>7. Sound(c, r, gates[c])
  <2>1. Begun(c, r)
    BY <1>1, <1>2, <1>5 DEF Fine, Sound, Begun
  <2>2. OnCourse(r)
    BY <1>1, <1>2, <1>5 DEF Fine, Sound, OnCourse, Halted, Hopping, Ended
  <2>3. Vetted(r) /\ Asking(r, gates[c]) /\ Selling(r)
    BY <1>5, <1>6 DEF Vetted, Asking, Selling, Early, Saving, Billing
  <2>4. Fresh(r)
    BY <1>5 DEF Fresh, Asked, Early
  <2> QED BY <2>1, <2>2, <2>3, <2>4 DEF Sound
<1>8. Paid(r, billing')
  <2>1. Listed(r, billing')
    BY <1>1, <1>3, <1>5 DEF Listed
  <2>2. \A key \in r.known : \E w \in billing : Key(w) = key
    BY <1>1, <1>2, <1>5 DEF Fine, Paid
  <2> QED BY <1>1, <2>1, <2>2 DEF Paid
<1>9. Earned(r, acted[c], gates[c]) /\ Accounted(r, acted[c], logged[c])
  BY <1>1, <1>2, <1>5 DEF Fine, Earned, Accounted
<1>10. Commitment \in reported[c] => ClosedBy(r)
  BY <1>2, <1>5 DEF Fine, ClosedBy
<1>11. ASSUME NEW w \in billing', w \notin billing \/ w.chain = c
       PROVE  w.chain = c /\ Owned(w, r)
  <2>1. CASE w = row
    <3>1. Key(row) \notin run[c].known
      BY <1>1, <1>2, <1>3 DEF Selling
    <3> QED BY <1>1, <1>2, <1>3, <1>5, <1>6, <2>1, <3>1 DEF Owned, Selling
  <2>2. CASE w \in billing /\ w.chain = c
    <3>1. Owned(w, run[c])
      BY <2>2, Facts
    <3> QED BY <1>5, <1>6, <2>2, <3>1 DEF Owned
  <2> QED BY <1>1, <1>11, <2>1, <2>2
<1>12. /\ acted[c] \in [Tools -> Nat] /\ acted' = [acted EXCEPT ![c] = acted[c]]
       /\ logged[c] \in [Tools -> Nat] /\ logged' = [logged EXCEPT ![c] = logged[c]]
       /\ gates[c] \in SUBSET GateRows /\ gates' = [gates EXCEPT ![c] = gates[c]]
       /\ reported[c] \in SUBSET {"handoff_chain_complete", "handoff_chain_failed",
                                  "profile_saved", Commitment}
       /\ reported' = [reported EXCEPT ![c] = reported[c]]
       /\ template' \in Profiles \cup {None, Torn} /\ crashes' = crashes
       /\ billing \subseteq billing' /\ billing' \in SUBSET DealRows
  BY <1>1, <1>3 DEF IInv, Typed, Logs
<1>13. Fine(c, r, acted[c], logged[c], gates[c], reported[c], billing')
  BY <1>5, <1>7, <1>8, <1>9, <1>10 DEF Fine
<1> HIDE DEF IInv
<1> QED BY <1>4, <1>5, <1>11, <1>12, <1>13, OneChain

LEMMA FinishInv ==
  ASSUME IInv, NEW c \in Chains, Finish(c)
  PROVE  IInv'
<1> DEFINE h == run[c].handoff
           hop == [agent |-> Agent(c), status |-> h.status, closed |-> h.closed]
           trail == Append(run[c].trail, hop)
<1>1. /\ run[c].pc = "finish" /\ run[c].pc \in Hopping
      /\ UNCHANGED <<Files, Logs, crashes>>
  BY DEF Finish, Hopping
<1>2. /\ run[c] \in Runs /\ run[c].record \in Records /\ run[c].handoff \in Handoffs
      /\ Agent(c) = At(run[c]) /\ Agent(c) \in Agents
      /\ Fine(c, run[c], acted[c], logged[c], gates[c], reported[c], billing)
      /\ \A row \in billing : row.chain = c => Owned(row, run[c])
  BY <1>1, InHop, Facts
<1>3. CASE ~Legit(h)
  <2> DEFINE r == [run[c] EXCEPT !.pc = "failed"]
  <2>1. run' = [run EXCEPT ![c] = r]
    BY <1>2, <1>3 DEF Finish, Goto, IInv, Typed, Runs
  <2>2. /\ r \in Runs /\ r.pc = "failed" /\ r.req = run[c].req /\ r.plan = run[c].plan
        /\ r.trail = run[c].trail /\ r.known = run[c].known /\ r.record = run[c].record
    BY <1>2 DEF Runs, Steps
  <2> HIDE DEF r
  <2>3. Sound(c, r, gates[c])
    BY <1>1, <1>2, <2>2 DEF Fine, Sound, Begun, Fresh, OnCourse, Vetted, Asking, Selling,
                            Hopping, Ended, Asked, Early, Saving, Billing
  <2>4. Paid(r, billing)
    BY <1>1, <1>2, <2>2 DEF Fine, Paid, Listed
  <2>5. Earned(r, acted[c], gates[c]) /\ Accounted(r, acted[c], logged[c])
    BY <1>1, <1>2, <2>2 DEF Fine, Earned, Accounted
  <2>6. Commitment \in reported[c] => r.pc # "waiting" /\ ClosedBy(r)
    BY <1>2, <2>2 DEF Fine, ClosedBy
  <2>7. \A row \in billing : row.chain = c => Owned(row, r)
    BY <1>2, <2>2 DEF Owned
  <2> HIDE DEF IInv
  <2> QED BY <1>1, <2>1, <2>2, <2>3, <2>4, <2>5, <2>6, <2>7, OnlyRun
<1>4. CASE Legit(h)
  <2> DEFINE pc == IF Ends(c, trail) THEN "report" ELSE FirstStep(run[c].plan[Len(trail) + 1])
             r == [run[c] EXCEPT !.trail = trail, !.handoff = Blank, !.pc = pc]
  <2>1. hop \in Hops /\ hop.agent = At(run[c]) /\ hop.status = h.status /\ hop.closed = h.closed
    BY <1>2 DEF Hops, Handoffs, Statuses
  <2> HIDE DEF hop
  <2>2. /\ trail \in Seq(Hops) /\ Len(trail) = Len(run[c].trail) + 1 /\ trail # <<>>
        /\ trail[Len(run[c].trail) + 1] = hop /\ DOMAIN trail = 1 .. Len(run[c].trail) + 1
        /\ \A i \in 1 .. Len(run[c].trail) : trail[i] = run[c].trail[i]
        /\ DOMAIN run[c].trail = 1 .. Len(run[c].trail) /\ Len(run[c].trail) \in Nat
        /\ Len(run[c].plan) \in Nat /\ Len(run[c].trail) < Len(run[c].plan)
    <3>1. run[c].trail \in Seq(Hops) /\ run[c].plan \in Seq(Agents)
      BY <1>2 DEF Runs
    <3>2. Len(run[c].trail) < Len(run[c].plan)
      BY <1>1, <1>2 DEF Fine, Sound, OnCourse
    <3> QED BY <2>1, <3>1, <3>2, AppendProperties
  <2>3. run' = [run EXCEPT ![c] = r]
    BY <1>2, <1>4 DEF Finish, IInv, Typed, Runs, hop
  <2> HIDE DEF trail
  <2>4. /\ pc \in {"report", "scan", "prompt"}
        /\ pc = "report" <=> trail[Len(trail)].status = "EMERGENCY_STOP" \/ Len(trail) = Len(run[c].plan)
        /\ pc = "prompt" => run[c].plan[Len(trail) + 1] \notin Scanned
    BY DEF Ends, FirstStep
  <2> HIDE DEF pc
  <2>5. /\ r \in Runs /\ r.pc = pc /\ r.req = run[c].req /\ r.plan = run[c].plan
        /\ r.trail = trail /\ r.known = run[c].known /\ r.record = run[c].record
        /\ r.handoff = Blank
    BY <1>2, <2>2, <2>4, BlankType DEF Runs, Steps
  <2> HIDE DEF r
  <2>6. Begun(c, r)
    BY <1>1, <1>2, <2>5 DEF Fine, Sound, Begun
  <2>7. OnCourse(r)
    <3>1. ~Halted(run[c])
      BY <1>1, <1>2 DEF Fine, Sound, OnCourse
    <3>2. Halted(r) <=> trail[Len(trail)].status = "EMERGENCY_STOP"
      BY <2>2, <2>5, <3>1 DEF Halted
    <3>3. pc # "report" => Len(trail) < Len(run[c].plan)
      BY <2>2, <2>4
    <3> QED BY <2>2, <2>4, <2>5, <3>2, <3>3
            DEF OnCourse, Ended, Hopping, Early, Saving, Billing
  <2>8. Vetted(r) /\ (\A g : Asking(r, g)) /\ Selling(r)
    BY <2>4, <2>5, BlankType DEF Vetted, Asking, Selling, At, Early, Saving, Billing
  <2>9. Paid(r, billing)
    <3>1. ASSUME ~r.req.sandbox, NEW i \in DOMAIN r.trail, r.trail[i].agent = "closer",
                 r.trail[i].closed, r.trail[i].status = "COMPLETE"
          PROVE  Listed(r, billing)
      <4>1. CASE i \in 1 .. Len(run[c].trail)
        <5>1. Listed(run[c], billing)
          BY <1>1, <1>2, <2>2, <2>5, <3>1, <4>1 DEF Fine, Paid
        <5> QED BY <2>5, <5>1 DEF Listed
      <4>2. CASE i = Len(run[c].trail) + 1
        <5>1. At(run[c]) = "closer" /\ h.closed /\ h.status = "COMPLETE"
          BY <2>1, <2>2, <2>5, <3>1, <4>2
        <5>2. Listed(run[c], billing)
          BY <1>1, <1>2, <2>5, <3>1, <5>1 DEF Fine, Paid
        <5> QED BY <2>5, <5>2 DEF Listed
      <4> QED BY <2>2, <2>5, <4>1, <4>2
    <3>2. \A key \in r.known : \E row \in billing : Key(row) = key
      BY <1>1, <1>2, <2>5 DEF Fine, Paid
    <3>3. r.pc # "finish"
      BY <2>4, <2>5
    <3> QED BY <3>1, <3>2, <3>3 DEF Paid
  <2>10. Earned(r, acted[c], gates[c]) /\ Accounted(r, acted[c], logged[c])
    BY <1>1, <1>2, <2>4, <2>5 DEF Fine, Earned, Accounted
  <2>11. Commitment \in reported[c] => r.pc # "waiting" /\ ClosedBy(r)
    <3>1. ClosedBy(run[c]) => ClosedBy(r)
      BY <2>2, <2>5 DEF ClosedBy
    <3> QED BY <1>2, <2>4, <2>5, <3>1 DEF Fine
  <2>12. ASSUME NEW row \in billing, row.chain = c PROVE Owned(row, r)
    BY <1>2, <2>2, <2>4, <2>5, <2>12 DEF Owned
  <2>13. Sound(c, r, gates[c])
    <3>1. Fresh(r)
      BY <2>2, <2>5 DEF Fresh
    <3> QED BY <2>6, <2>7, <2>8, <3>1 DEF Sound
  <2> HIDE DEF IInv
  <2> QED BY <1>1, <2>3, <2>5, <2>9, <2>10, <2>11, <2>12, <2>13, OnlyRun
<1> QED BY <1>3, <1>4

LEMMA ReportInv ==
  ASSUME IInv, NEW c \in Chains, Report(c)
  PROVE  IInv'
<1> DEFINE pc == IF Stopped(c) THEN "stopped" ELSE "complete"
           r == [run[c] EXCEPT !.pc = pc]
           rep == Rows(c)
<1>1. /\ run[c].pc = "report" /\ Goto(c, pc) /\ reported' = [reported EXCEPT ![c] = rep]
      /\ UNCHANGED <<Files, acted, logged, gates, crashes>>
  BY DEF Report
<1>2. /\ run[c] \in Runs
      /\ Fine(c, run[c], acted[c], logged[c], gates[c], reported[c], billing)
      /\ \A row \in billing : row.chain = c => Owned(row, run[c])
  BY Facts
<1>3. /\ rep \in SUBSET {"handoff_chain_complete", "handoff_chain_failed",
                         "profile_saved", Commitment}
      /\ Commitment \in rep => ClosedBy(run[c])
  BY DEF Rows, Commitment, Closed, ClosedBy
<1>4. pc \in {"stopped", "complete"}
  OBVIOUS
<1> HIDE DEF pc, rep
<1>5. run' = [run EXCEPT ![c] = r]
  BY <1>1, <1>2 DEF Goto, IInv, Typed, Runs
<1>6. /\ r \in Runs /\ r.pc = pc /\ r.req = run[c].req /\ r.plan = run[c].plan
      /\ r.trail = run[c].trail /\ r.known = run[c].known /\ r.record = run[c].record
  BY <1>2, <1>4 DEF Runs, Steps
<1> HIDE DEF r
<1>7. Sound(c, r, gates[c])
  BY <1>1, <1>2, <1>4, <1>6 DEF Fine, Sound, Begun, Fresh, OnCourse, Halted, Vetted, Asking,
                          Selling, Hopping, Ended, Asked, Early, Saving, Billing
<1>8. Paid(r, billing)
  BY <1>1, <1>2, <1>4, <1>6 DEF Fine, Paid, Listed
<1>9. Earned(r, acted[c], gates[c]) /\ Accounted(r, acted[c], logged[c])
  BY <1>1, <1>2, <1>4, <1>6 DEF Fine, Earned, Accounted
<1>10. Commitment \in rep => r.pc # "waiting" /\ ClosedBy(r)
  BY <1>3, <1>4, <1>6 DEF ClosedBy
<1>11. \A row \in billing : row.chain = c => Owned(row, r)
  BY <1>1, <1>2, <1>4, <1>6 DEF Owned
<1>12. /\ acted[c] \in [Tools -> Nat] /\ acted' = [acted EXCEPT ![c] = acted[c]]
       /\ logged[c] \in [Tools -> Nat] /\ logged' = [logged EXCEPT ![c] = logged[c]]
       /\ gates[c] \in SUBSET GateRows /\ gates' = [gates EXCEPT ![c] = gates[c]]
       /\ template' \in Profiles \cup {None, Torn} /\ crashes' = crashes
       /\ billing' = billing /\ billing \in SUBSET DealRows
  BY <1>1 DEF IInv, Typed, Files
<1>13. Fine(c, r, acted[c], logged[c], gates[c], rep, billing')
  BY <1>7, <1>8, <1>9, <1>10, <1>12 DEF Fine
<1> HIDE DEF IInv
<1> QED BY <1>1, <1>3, <1>5, <1>6, <1>11, <1>12, <1>13, OneChain

\* A crash makes every running chain fail at once.
LEMMA CrashInv ==
  ASSUME IInv, Crash
  PROVE  IInv'
<1> DEFINE gone(c) == [run[c] EXCEPT !.pc = "failed", !.tries = 0, !.handoff = Blank]
<1>1. /\ crashes < MaxCrashes /\ crashes' = crashes + 1 /\ UNCHANGED <<Files, Logs>>
      /\ run' = [c \in Chains |-> IF Running(c) THEN gone(c) ELSE run[c]]
  BY DEF Crash
<1>2. ASSUME NEW c \in Chains
      PROVE  /\ run'[c] \in Runs
             /\ Fine(c, run'[c], acted[c], logged[c], gates[c], reported[c], billing)
             /\ \A row \in billing : row.chain = c => Owned(row, run'[c])
  <2>1. /\ run[c] \in Runs
        /\ Fine(c, run[c], acted[c], logged[c], gates[c], reported[c], billing)
        /\ \A row \in billing : row.chain = c => Owned(row, run[c])
    BY Facts
  <2>2. CASE ~Running(c)
    BY <1>1, <2>1, <2>2
  <2>3. CASE Running(c)
    <3>1. run[c].pc # "waiting" /\ run'[c] = gone(c)
      BY <1>1, <2>3 DEF Running
    <3>2. Earned(run[c], acted[c], gates[c])
      BY <2>1 DEF Fine
    <3>3. /\ gone(c) \in Runs
          /\ Fine(c, gone(c), acted[c], logged[c], gates[c], reported[c], billing)
          /\ \A row : Owned(row, run[c]) => Owned(row, gone(c))
      BY <2>1, <3>1, <3>2, Failing
    <3> QED BY <2>1, <3>1, <3>3
  <2> QED BY <2>2, <2>3
<1>3. Typed'
  <2>1. run' \in [Chains -> Runs]
    BY <1>1, <1>2
  <2>2. crashes' \in 0 .. MaxCrashes
    <3>1. crashes \in 0 .. MaxCrashes /\ MaxCrashes \in Nat
      BY ConstantsAssumption DEF IInv, Typed
    <3>2. crashes < MaxCrashes /\ crashes' = crashes + 1
      BY <1>1
    <3> QED BY <3>1, <3>2
  <2> QED BY <1>1, <2>1, <2>2 DEF IInv, Typed, Files, Logs
<1>4. billing' = billing /\ acted' = acted /\ logged' = logged /\ gates' = gates
      /\ reported' = reported
  BY <1>1 DEF Files, Logs
<1>5. \A row \in billing : row.chain \in Chains
  BY DEF IInv, Typed, DealRows
<1> QED BY <1>2, <1>3, <1>4, <1>5 DEF IInv, Fine

-----------------------------------------------------------------------------
(* The theorems *)

LEMMA InitInv == Init => IInv
<1> SUFFICES ASSUME Init PROVE IInv
  OBVIOUS
<1>1. Idle \in Runs /\ Idle.pc = "waiting" /\ Idle.plan = <<>> /\ Idle.trail = <<>>
  BY BlankType DEF Idle, Runs, Steps
<1>2. Typed
  BY <1>1, ConstantsAssumption DEF Init, Typed
<1>3. ASSUME NEW c \in Chains
      PROVE  /\ Sound(c, run[c], gates[c]) /\ Paid(run[c], billing)
             /\ Earned(run[c], acted[c], gates[c]) /\ Accounted(run[c], acted[c], logged[c])
             /\ Commitment \notin reported[c]
  <2>1. /\ run[c] = Idle /\ reported[c] = {}
        /\ \A t \in Tools : acted[c][t] = 0 /\ logged[c][t] = 0
    BY DEF Init
  <2>2. Sound(c, run[c], gates[c]) /\ Paid(run[c], billing)
    BY <1>1, <2>1 DEF Sound, Begun, Fresh, OnCourse, Vetted, Asking, Selling, Paid,
                      Hopping, Ended, Asked, Early, Saving, Billing
  <2>3. Earned(run[c], acted[c], gates[c]) /\ Accounted(run[c], acted[c], logged[c])
    <3>1. run[c].pc = "waiting"
      BY <1>1, <2>1
    <3> QED BY <2>1, <3>1 DEF Earned, Accounted
  <2> QED BY <2>1, <2>2, <2>3
<1>4. billing = {}
  BY DEF Init
<1> QED BY <1>2, <1>3, <1>4 DEF IInv

LEMMA StepInv ==
  ASSUME IInv, NEW c \in Chains, Step(c)
  PROVE  IInv'
<1>1. CASE Scan(c) \/ ReadPrompt(c)
  BY <1>1, ScanInv, ReadPromptInv
<1>2. CASE Infer(c) \/ Misinfer(c)
  BY <1>2, InferInv, MisinferInv
<1>3. CASE Gate(c) \/ Send(c) \/ Validate(c)
  BY <1>3, GateInv, SendInv, ValidateInv
<1>4. CASE LoadTemplate(c) \/ TruncateTemplate(c) \/ WriteTemplate(c)
  BY <1>4, SavesInv
<1>5. CASE ReadDeals(c) \/ AppendDeal(c)
  BY <1>5, ReadDealsInv, AppendDealInv
<1>6. CASE Finish(c) \/ Report(c)
  BY <1>6, FinishInv, ReportInv
<1> QED BY <1>1, <1>2, <1>3, <1>4, <1>5, <1>6 DEF Step

LEMMA NextInv == IInv /\ [Next]_vars => IInv'
<1> SUFFICES ASSUME IInv, [Next]_vars PROVE IInv'
  OBVIOUS
<1>1. CASE \E c \in Chains : Start(c) \/ Step(c)
  BY <1>1, StartInv, StepInv
<1>2. CASE Crash
  BY <1>2, CrashInv
<1>3. CASE UNCHANGED vars
  BY <1>3 DEF vars, IInv, Typed
<1> QED BY <1>1, <1>2, <1>3 DEF Next

LEMMA Invariant == Spec => []IInv
  BY InitInv, NextInv, PTL DEF Spec

\* Types of all state, and never more than MaxAttempts calls of a tool for a request.
THEOREM TypesHold == Spec => []TypeOK
<1>1. ASSUME IInv PROVE TypeOK
  <2>1. ASSUME NEW c \in Chains
        PROVE  /\ run[c].pc \in Steps
               /\ run[c].pc # "waiting" => run[c].req \in Requests[c] /\ run[c].record \in Records
               /\ run[c].plan \in Seq(Agents)
               /\ run[c].trail \in Seq(Hops)
               /\ run[c].handoff \in Handoffs
               /\ run[c].tries \in Nat /\ (run[c].pc = "send" => run[c].tries < MaxAttempts)
               /\ run[c].pc \in {"gate", "send"} => run[c].handoff.tools # <<>>
    <3>1. run[c] \in Runs /\ Begun(c, run[c]) /\ Asking(run[c], gates[c])
      BY <1>1, Facts DEF Fine, Sound
    <3> QED BY <3>1 DEF Runs, Begun, Asking
  <2>2. /\ \A c \in Chains :
             /\ reported[c] \subseteq {"handoff_chain_complete", "handoff_chain_failed",
                                      "profile_saved", Commitment}
             /\ gates[c] \subseteq [tool : Tools, allowed : BOOLEAN]
        /\ template \in Profiles \cup {None, Torn}
        /\ acted \in [Chains -> [Tools -> Nat]] /\ logged \in [Chains -> [Tools -> Nat]]
        /\ crashes \in 0 .. MaxCrashes
    BY <1>1 DEF IInv, Typed, GateRows
  <2> QED BY <2>1, <2>2 DEF TypeOK, Hops, Statuses
<1> QED BY <1>1, Invariant, PTL

\* A service acts for a chain only if an agent that may use the tool asked and the audit
\* log holds the gate's yes, whatever the model answers.
THEOREM ActsEarned == Spec => []ActsAreEarned
<1>1. ASSUME IInv PROVE ActsAreEarned
  BY <1>1, Facts DEF ActsAreEarned, Fine, Earned
<1> QED BY <1>1, Invariant, PTL

\* Every act of a service is accounted for by the tool log, lost answers and retries
\* included, unless the chain has failed.
THEOREM ActsLogged == Spec => []ActsAreLogged
<1>1. ASSUME IInv PROVE ActsAreLogged
  BY <1>1, Facts DEF ActsAreLogged, Fine, Accounted, NextTool
<1> QED BY <1>1, Invariant, PTL

\* Nothing is billed for a rehearsal, a seller who is not onboarded or a hostile request.
THEOREM BilledEarned == Spec => []BilledIsEarned
<1>1. ASSUME IInv PROVE BilledIsEarned
  BY <1>1 DEF BilledIsEarned, IInv, Owned
<1> QED BY <1>1, Invariant, PTL

\* A deal that was billed before a chain began is not billed by it again for the same
\* close type and link, and so not if both requests carried the seller's profile.
THEOREM RetriesBillOnce == Spec => []RetryBillsOnce
<1>1. ASSUME IInv, NEW old \in billing, NEW row \in billing,
             Key(old) \in run[row.chain].known, old.deal = row.deal, old.type = row.type
      PROVE  old.link # row.link /\ ~SameOffer(old, row)
  <2>1. Owned(old, run[old.chain]) /\ Owned(row, run[row.chain])
    BY <1>1 DEF IInv
  <2>2. old.link # row.link
    BY <1>1, <2>1 DEF Owned, Key
  <2>3. ASSUME SameOffer(old, row) PROVE old.link = row.link
    BY <2>1, <2>3 DEF SameOffer, Owned, Offered
  <2> QED BY <2>2, <2>3
<1>2. IInv => RetryBillsOnce
  BY <1>1 DEF RetryBillsOnce
<1> QED BY <1>2, Invariant, PTL

\* A close in the audit log is in closed_deals.jsonl, if the closer had completed.
THEOREM ClosesBilled == Spec => []CloseIsBilled
<1>1. ASSUME IInv PROVE CloseIsBilled
  <2> SUFFICES ASSUME NEW c \in Chains, Commitment \in reported[c], ~run[c].req.sandbox,
                      \A i \in DOMAIN run[c].trail : run[c].trail[i].agent = "closer" =>
                         run[c].trail[i].status = "COMPLETE"
               PROVE  \E row \in billing : row.deal = run[c].req.deal
    BY DEF CloseIsBilled
  <2>1. run[c].pc # "waiting" /\ ClosedBy(run[c]) /\ Paid(run[c], billing)
    BY <1>1, Facts DEF Fine
  <2> QED BY <2>1 DEF ClosedBy, Paid, Listed
<1> QED BY <1>1, Invariant, PTL

-----------------------------------------------------------------------------
(* Refinement *)

\* How a chain r stands in the protocol, and its trail as the protocol sees it.
Standing(r) ==
  IF r.pc = "waiting" THEN "waiting"
  ELSE IF Halted(r) THEN "stopped"
  ELSE IF Len(r.trail) = Len(r.plan) THEN "complete"
  ELSE IF r.pc = "failed" THEN "failed" ELSE "running"

Shown(t) == [i \in DOMAIN t |-> [agent |-> t[i].agent, status |-> t[i].status]]

LEMMA Views ==
  /\ DOMAIN Planned = Chains /\ DOMAIN Thin = Chains
  /\ DOMAIN Trails = Chains /\ DOMAIN Outcome = Chains
  /\ \A c \in Chains :
       /\ Planned[c] = run[c].plan
       /\ Thin[c] = (run[c].pc # "waiting" /\ run[c].req.thin)
       /\ Trails[c] = Shown(run[c].trail)
       /\ Outcome[c] = Standing(run[c])
  BY DEF Planned, Thin, Trails, Outcome, Standing, Shown, Stopped, Halted

\* In a hop a chain is running, and a chain that fails in a hop has failed.
LEMMA StandingInHop ==
  ASSUME NEW c, NEW r, OnCourse(r)
  PROVE  /\ r.pc \in Hopping => Standing(r) = "running"
         /\ r.pc \in Ended => Standing(r) \in {"stopped", "complete"}
<1>1. CASE r.pc \in Hopping
  BY <1>1 DEF OnCourse, Standing, Hopping, Ended, Early, Saving, Billing
<1>2. CASE r.pc \in Ended
  BY <1>2 DEF OnCourse, Standing, Hopping, Ended, Early, Saving, Billing
<1> QED BY <1>1, <1>2 DEF Hopping, Ended, Early, Saving, Billing

\* Chain c alone has moved, keeping its request, plan and trail.
Quiet(c) ==
  /\ \A d \in Chains \ {c} : run'[d] = run[d]
  /\ run'[c].req = run[c].req /\ run'[c].plan = run[c].plan /\ run'[c].trail = run[c].trail
  /\ run[c].pc # "waiting" /\ run'[c].pc # "waiting"

LEMMA QuietViews ==
  ASSUME NEW c \in Chains, Quiet(c)
  PROVE  /\ UNCHANGED <<Planned, Thin, Trails>>
         /\ \A d \in Chains \ {c} : Outcome'[d] = Outcome[d]
<1>1. ASSUME NEW d \in Chains
      PROVE  /\ Planned'[d] = Planned[d] /\ Thin'[d] = Thin[d] /\ Trails'[d] = Trails[d]
  BY DEF Quiet, Planned, Thin, Trails
<1>2. ASSUME NEW d \in Chains \ {c} PROVE Outcome'[d] = Outcome[d]
  BY DEF Quiet, Outcome, Stopped
<1>3. Planned' = Planned /\ Thin' = Thin /\ Trails' = Trails
  BY <1>1 DEF Planned, Thin, Trails
<1> QED BY <1>2, <1>3

\* A quiet step is a stutter of the protocol, or breaks the chain.
LEMMA QuietSteps ==
  ASSUME IInv, IInv', NEW c \in Chains, Quiet(c),
         \/ run[c].pc \in Hopping /\ run'[c].pc \in Hopping \cup {"failed"}
         \/ run[c].pc = "report" /\ run'[c].pc \in {"complete", "stopped"}
  PROVE  Protocol!Break({c}) \/ UNCHANGED Protocol!protocol
<1>1. /\ UNCHANGED <<Planned, Thin, Trails>>
      /\ \A d \in Chains \ {c} : Outcome'[d] = Outcome[d]
  BY QuietViews
<1>2. OnCourse(run[c]) /\ OnCourse(run'[c])
  BY DEF IInv, Sound
<1>3. Outcome[c] = Standing(run[c]) /\ Outcome'[c] = Standing(run'[c])
  BY DEF Outcome, Standing, Stopped, Halted
<1>4. Outcome \in [Chains -> {Outcome[d] : d \in Chains}]
      /\ Outcome' \in [Chains -> {Outcome'[d] : d \in Chains}]
  BY DEF Outcome
<1>5. CASE run[c].pc \in Hopping /\ run'[c].pc = "failed"
  <2>1. Outcome[c] = "running"
    BY <1>2, <1>3, <1>5, StandingInHop
  <2>2. Outcome'[c] = "failed"
    BY <1>2, <1>3, <1>5 DEF OnCourse, Standing, Quiet, Halted
  <2>3. Outcome' = [d \in Chains |-> IF d \in {c} THEN "failed" ELSE Outcome[d]]
    BY <1>1, <1>4, <2>2
  <2> QED BY <1>1, <2>1, <2>3 DEF Protocol!Break
<1>6. CASE run'[c].pc # "failed"
  <2>1. Outcome'[c] = Outcome[c]
    <3>1. CASE run[c].pc \in Hopping /\ run'[c].pc \in Hopping
      BY <1>2, <1>3, <3>1, StandingInHop
    <3>2. CASE run[c].pc = "report" /\ run'[c].pc \in {"complete", "stopped"}
      BY <1>2, <1>3, <3>2 DEF Standing, Quiet, Halted, OnCourse, Ended
    <3> QED BY <1>6, <3>1, <3>2
  <2>2. Outcome' = Outcome
    BY <1>1, <1>4, <2>1
  <2> QED BY <1>1, <2>2 DEF Protocol!protocol
<1> QED BY <1>5, <1>6 DEF Hopping, Early, Saving, Billing

\* All steps of a chain but a recorded hand-off are quiet.
LEMMA StepsAreQuiet ==
  ASSUME IInv, NEW c \in Chains, Step(c), ~(Finish(c) /\ Legit(run[c].handoff))
  PROVE  /\ Quiet(c)
         /\ \/ run[c].pc \in Hopping /\ run'[c].pc \in Hopping \cup {"failed"}
            \/ run[c].pc = "report" /\ run'[c].pc \in {"complete", "stopped"}
<1>1. run \in [Chains -> Runs]
  BY DEF IInv, Typed
<1> USE DEF Hopping, Early, Saving, Billing
<1>2. ASSUME Fail(c), run[c].pc \in Hopping
      PROVE  Quiet(c) /\ run'[c].pc = "failed"
  BY <1>1, <1>2 DEF Fail, Quiet, Runs
<1>3. ASSUME NEW pc, Goto(c, pc), run[c].pc # "waiting", pc # "waiting"
      PROVE  Quiet(c) /\ run'[c].pc = pc
  BY <1>1, <1>3 DEF Goto, Quiet, Runs
<1>4. ASSUME ToolsDone(c), run[c].pc \in Hopping
      PROVE  Quiet(c) /\ run'[c].pc \in {"validate", "gate"}
  BY <1>1, <1>4 DEF ToolsDone, Quiet, Runs
<1>5. CASE Scan(c)
  <2>1. run[c].pc = "scan"
    BY <1>5 DEF Scan
  <2>2. CASE Goto(c, "prompt")
    BY <1>3, <2>1, <2>2
  <2>3. CASE run' = [run EXCEPT ![c].pc = "validate", ![c].handoff = Rejection]
    BY <1>1, <2>1, <2>3 DEF Quiet, Runs
  <2> QED BY <1>5, <2>1, <2>2, <2>3 DEF Scan
<1>6. CASE ReadPrompt(c)
  <2>1. run[c].pc = "prompt"
    BY <1>6 DEF ReadPrompt
  <2>2. CASE run' = [run EXCEPT ![c].pc = "infer", ![c].tries = 0]
    BY <1>1, <2>1, <2>2 DEF Quiet, Runs
  <2> QED BY <1>2, <1>6, <2>1, <2>2 DEF ReadPrompt
<1>7. CASE Infer(c)
  BY <1>1, <1>7 DEF Infer, Quiet, Runs
<1>8. CASE Misinfer(c)
  BY <1>1, <1>8 DEF Misinfer, Quiet, Runs
<1>9. CASE Gate(c)
  <2>1. run[c].pc = "gate" /\ (Goto(c, "send") \/ ToolsDone(c))
    BY <1>9 DEF Gate
  <2> QED BY <1>3, <1>4, <2>1
<1>10. CASE Send(c)
  <2>1. run[c].pc = "send"
    BY <1>10 DEF Send
  <2>2. ASSUME NEW n, run' = [run EXCEPT ![c].tries = n] PROVE Quiet(c) /\ run'[c].pc = "send"
    BY <1>1, <2>1, <2>2 DEF Quiet, Runs
  <2>3. Fail(c) \/ ToolsDone(c) \/ \E n : run' = [run EXCEPT ![c].tries = n]
    BY <1>10 DEF Send
  <2> QED BY <1>2, <1>4, <2>1, <2>2, <2>3
<1>11. CASE Validate(c)
  <2> DEFINE k == Checked(Agent(c), run[c].handoff, run[c].record, run[c].req)
  <2>1. /\ run[c].pc = "validate"
        /\ run' = [run EXCEPT ![c].handoff = k.handoff, ![c].record = k.record, ![c].pc = k.then]
    BY <1>11 DEF Validate
  <2>2. k.then \in {"finish", "load", "bill"}
    BY <2>1, InHop, CheckedType DEF Outcomes
  <2> HIDE DEF k
  <2> QED BY <1>1, <2>1, <2>2 DEF Quiet, Runs
<1>12. CASE LoadTemplate(c)
  BY <1>2, <1>3, <1>12 DEF LoadTemplate
<1>13. CASE TruncateTemplate(c)
  BY <1>3, <1>13 DEF TruncateTemplate
<1>14. CASE WriteTemplate(c)
  BY <1>3, <1>14 DEF WriteTemplate
<1>15. CASE ReadDeals(c)
  <2>1. run[c].pc = "bill" /\ (Goto(c, "finish") \/ Goto(c, "append"))
    BY <1>15 DEF ReadDeals
  <2> QED BY <1>3, <2>1
<1>16. CASE AppendDeal(c)
  BY <1>3, <1>16 DEF AppendDeal
<1>17. CASE Finish(c)
  <2>1. run[c].pc = "finish" /\ Goto(c, "failed")
    BY <1>17 DEF Finish
  <2> QED BY <1>3, <2>1
<1>18. CASE Report(c)
  <2>1. run[c].pc = "report" /\ (Goto(c, "stopped") \/ Goto(c, "complete"))
    BY <1>18 DEF Report
  <2> QED BY <1>3, <2>1
<1> QED BY <1>5, <1>6, <1>7, <1>8, <1>9, <1>10, <1>11, <1>12, <1>13, <1>14, <1>15, <1>16,
           <1>17, <1>18 DEF Step

\* A request that comes in begins a chain of the protocol.
LEMMA StartBegins ==
  ASSUME IInv, IInv', NEW c \in Chains, Start(c)
  PROVE  Protocol!Begin(c)
<1>1. PICK req \in Requests[c] :
        run' = [run EXCEPT ![c] =
                 [Idle EXCEPT !.req = req, !.record = InitialRecord(req), !.plan = Plan(req),
                              !.pc = FirstStep(Plan(req)[1]),
                              !.known = {Key(row) : row \in billing}]]
  BY DEF Start
<1> DEFINE keys == {Key(row) : row \in billing}
           pc == FirstStep(Plan(req)[1])
           r == [Idle EXCEPT !.req = req, !.record = InitialRecord(req), !.plan = Plan(req),
                             !.pc = pc, !.known = keys]
<1>2. run \in [Chains -> Runs] /\ run[c].pc = "waiting"
  BY DEF IInv, Typed, Start
<1>3. run'[c] = r /\ \A d \in Chains \ {c} : run'[d] = run[d]
  BY <1>1, <1>2
<1>4. pc \in {"scan", "prompt"}
  BY DEF FirstStep
<1>5. r.plan = Plan(req) /\ r.trail = <<>> /\ r.pc = pc /\ r.req = req
  BY DEF Idle
<1> HIDE DEF r, pc
<1>6. run[c].trail = <<>> /\ OnCourse(run'[c])
  BY <1>2 DEF IInv, Sound, OnCourse
<1>7. req \in Asks /\ Plan(req) \in Seq(Agents)
  BY RequestsAssumption, PlanIsGood DEF GoodPlan
<1>8. Outcome[c] = "waiting" /\ Outcome'[c] = "running"
  <2>1. Outcome'[c] = Standing(run'[c])
    BY DEF Outcome, Standing, Stopped, Halted
  <2>2. run'[c].pc \in Hopping
    BY <1>3, <1>4, <1>5 DEF Hopping, Early
  <2>3. Outcome'[c] = "running"
    BY <1>6, <2>1, <2>2, StandingInHop
  <2> QED BY <1>2, <2>3 DEF Outcome
<1>9. Planned'[c] \in Seq(Agents) /\ Thin'[c] \in BOOLEAN
  BY <1>3, <1>5, <1>7 DEF Planned, Thin, Asks
<1>10. ASSUME NEW d \in Chains \ {c}
       PROVE  /\ Planned'[d] = Planned[d] /\ Thin'[d] = Thin[d] /\ Trails'[d] = Trails[d]
              /\ Outcome'[d] = Outcome[d]
  BY <1>3 DEF Planned, Thin, Trails, Outcome, Stopped
<1>11. Trails'[c] = Trails[c]
  BY <1>3, <1>5, <1>6 DEF Trails
<1>12. Planned' = [Planned EXCEPT ![c] = Planned'[c]]
  BY <1>10 DEF Planned
<1>13. Thin' = [Thin EXCEPT ![c] = Thin'[c]]
  BY <1>10 DEF Thin
<1>14. Trails' = Trails
  BY <1>10, <1>11 DEF Trails
<1>15. Outcome' = [Outcome EXCEPT ![c] = "running"]
  BY <1>8, <1>10 DEF Outcome
<1> QED BY <1>8, <1>9, <1>12, <1>13, <1>14, <1>15 DEF Protocol!Begin

\* What the protocol sees of a trail grows with it.
LEMMA ShownGrows ==
  ASSUME NEW t \in Seq(Hops), NEW hop \in Hops
  PROVE  /\ Len(Shown(t)) = Len(t)
         /\ Shown(Append(t, hop)) = Append(Shown(t), [agent |-> hop.agent, status |-> hop.status])
<1> DEFINE S == [agent : Agents, status : Statuses]
           last == [agent |-> hop.agent, status |-> hop.status]
           n == Len(t)
           longer == Append(t, hop)
<1>1. n \in Nat /\ DOMAIN t = 1 .. n /\ \A i \in 1 .. n : t[i] \in Hops
  OBVIOUS
<1>2. Shown(t) \in [1 .. n -> S]
  BY <1>1 DEF Shown, Hops
<1>3. Shown(t) \in Seq(S) /\ Len(Shown(t)) = n
  <2> HIDE DEF S, n
  <2> QED BY <1>1, <1>2, SeqDef
<1>4. /\ longer \in Seq(Hops) /\ Len(longer) = n + 1 /\ DOMAIN longer = 1 .. (n + 1)
      /\ longer[n + 1] = hop /\ \A i \in 1 .. n : longer[i] = t[i]
  BY <1>1, AppendProperties
<1>5. Shown(longer) \in [1 .. (n + 1) -> S]
  <2>1. \A i \in 1 .. (n + 1) : longer[i] \in Hops
    BY <1>4
  <2> HIDE DEF longer
  <2> QED BY <1>4, <2>1 DEF Shown, Hops
<1>6. Shown(longer) \in Seq(S) /\ Len(Shown(longer)) = n + 1
  <2> HIDE DEF S, n, longer
  <2>1. n + 1 \in Nat
    BY <1>1
  <2> QED BY <1>5, <2>1, SeqDef
<1>7. last \in S
  BY DEF Hops
<1> DEFINE app == Append(Shown(t), last)
<1>8. /\ app \in Seq(S) /\ Len(app) = n + 1 /\ app[n + 1] = last
      /\ \A i \in 1 .. n : app[i] = Shown(t)[i]
  BY <1>1, <1>3, <1>7, AppendProperties
<1>9. ASSUME NEW i \in 1 .. (n + 1) PROVE Shown(longer)[i] = app[i]
  <2>1. CASE i = n + 1
    BY <1>1, <1>4, <1>8, <2>1 DEF Shown
  <2>2. CASE i \in 1 .. n
    BY <1>1, <1>4, <1>8, <2>2 DEF Shown
  <2>3. i = n + 1 \/ i \in 1 .. n
    BY <1>1
  <2> QED BY <2>1, <2>2, <2>3
<1> HIDE DEF longer, app, last, S
<1>10. Shown(longer) = app
  BY <1>1, <1>6, <1>8, <1>9, SeqEqual
<1> QED BY <1>3, <1>10 DEF longer, app, last

\* A hop that ends well is a hand-off of the protocol.
LEMMA FinishHandsOn ==
  ASSUME IInv, IInv', NEW c \in Chains, Finish(c), Legit(run[c].handoff)
  PROVE  Protocol!Handoff(c, run[c].handoff.status) /\ run[c].handoff.status \in Statuses
<1> DEFINE h == run[c].handoff
           hop == [agent |-> Agent(c), status |-> h.status, closed |-> h.closed]
           trail == Append(run[c].trail, hop)
           n == Len(run[c].trail) + 1
           pc == IF Ends(c, trail) THEN "report" ELSE FirstStep(run[c].plan[Len(trail) + 1])
<1>1. /\ run[c].pc = "finish" /\ run[c].pc \in Hopping
      /\ run' = [run EXCEPT ![c].trail = trail, ![c].handoff = Blank, ![c].pc = pc]
  BY DEF Finish, Hopping
<1>2. /\ run \in [Chains -> Runs] /\ run[c] \in Runs /\ h \in Handoffs
      /\ run[c].trail \in Seq(Hops) /\ run[c].plan \in Seq(Agents)
      /\ Agent(c) = At(run[c]) /\ Agent(c) \in Agents
      /\ OnCourse(run[c]) /\ Vetted(run[c])
  BY <1>1, InHop DEF IInv, Typed, Runs, Sound
<1>3. hop \in Hops /\ hop.agent = At(run[c]) /\ hop.status = h.status /\ h.status \in Statuses
  BY <1>2 DEF Hops, Handoffs, Statuses
<1>4. /\ pc \in {"report", "scan", "prompt"}
      /\ pc = "report" <=> trail[Len(trail)].status = "EMERGENCY_STOP" \/ Len(trail) = Len(run[c].plan)
  BY DEF Ends, FirstStep
<1> HIDE DEF hop, pc
<1>5. /\ Len(trail) = n /\ trail[n] = hop /\ DOMAIN trail = 1 .. n
      /\ \A i \in 1 .. Len(run[c].trail) : trail[i] = run[c].trail[i]
      /\ Len(run[c].trail) \in Nat /\ Len(run[c].trail) < Len(run[c].plan) /\ Len(run[c].plan) \in Nat
      /\ DOMAIN run[c].trail = 1 .. Len(run[c].trail)
  BY <1>1, <1>2, <1>3, AppendProperties DEF OnCourse
<1> HIDE DEF trail
<1>6. /\ run'[c].trail = trail /\ run'[c].pc = pc /\ run'[c].plan = run[c].plan
      /\ run'[c].req = run[c].req /\ \A d \in Chains \ {c} : run'[d] = run[d]
  BY <1>1, <1>2 DEF Runs
<1>7. Outcome[c] = "running"
  <2>1. Standing(run[c]) = "running"
    BY <1>1, <1>2, StandingInHop
  <2> QED BY <2>1, Views
<1>8. Outcome'[c] = IF h.status = "EMERGENCY_STOP" THEN "stopped"
                    ELSE IF n = Len(run[c].plan) THEN "complete" ELSE "running"
  <2>1. Outcome'[c] = Standing(run'[c])
    BY DEF Outcome, Standing, Stopped, Halted
  <2>2. Halted(run'[c]) <=> h.status = "EMERGENCY_STOP"
    <3>1. ~Halted(run[c])
      BY <1>1, <1>2 DEF OnCourse
    <3>2. ASSUME NEW i \in 1 .. n, trail[i].status = "EMERGENCY_STOP" PROVE i = n
      <4>1. CASE i \in 1 .. Len(run[c].trail)
        BY <1>5, <3>1, <3>2, <4>1 DEF Halted
      <4>2. i = n \/ i \in 1 .. Len(run[c].trail)
        BY <1>5
      <4> QED BY <4>1, <4>2
    <3>3. n \in 1 .. n /\ trail[n].status = h.status
      BY <1>3, <1>5
    <3>4. Halted(run'[c]) <=> \E i \in 1 .. n : trail[i].status = "EMERGENCY_STOP"
      BY <1>5, <1>6 DEF Halted
    <3> HIDE DEF n, h
    <3> QED BY <3>2, <3>3, <3>4
  <2> QED BY <1>4, <1>5, <1>6, <2>1, <2>2 DEF Standing
<1>9. ASSUME NEW d \in Chains \ {c}
      PROVE  Trails'[d] = Trails[d] /\ Outcome'[d] = Outcome[d]
  BY <1>6 DEF Trails, Outcome, Stopped
<1>10. Planned' = Planned
  BY <1>6 DEF Planned
<1>11. Thin' = Thin
  <2>1. \A d \in Chains : Thin'[d] = Thin[d]
    BY <1>1, <1>4, <1>6 DEF Thin
  <2> QED BY <2>1 DEF Thin
<1>12. Trails[c] = Shown(run[c].trail) /\ Trails'[c] = Shown(run'[c].trail)
  BY DEF Trails, Shown
<1>13. /\ Len(Trails[c]) = Len(run[c].trail)
       /\ Trails'[c] = Append(Trails[c], [agent |-> At(run[c]), status |-> h.status])
  BY <1>2, <1>3, <1>6, <1>12, ShownGrows DEF trail
<1>14. Planned[c] = run[c].plan /\ Planned[c][n] = At(run[c])
  BY DEF Planned, At
<1>15. Trails' = [Trails EXCEPT ![c] = Append(@, [agent |-> Planned[c][n], status |-> h.status])]
  BY <1>9, <1>13, <1>14 DEF Trails
<1>16. Outcome' = [Outcome EXCEPT ![c] =
                     IF h.status = "EMERGENCY_STOP" THEN "stopped"
                     ELSE IF n = Len(Planned[c]) THEN "complete" ELSE "running"]
  <2> DEFINE out == IF h.status = "EMERGENCY_STOP" THEN "stopped"
                    ELSE IF n = Len(Planned[c]) THEN "complete" ELSE "running"
  <2>1. Outcome'[c] = out
    BY <1>8, <1>14
  <2> HIDE DEF out
  <2>2. Outcome' = [Outcome EXCEPT ![c] = out]
    <3>1. /\ Outcome = [d \in Chains |-> Outcome[d]]
          /\ Outcome' = [d \in Chains |-> Outcome'[d]]
      BY DEF Outcome
    <3>2. \A d \in Chains \ {c} : Outcome'[d] = Outcome[d]
      BY <1>9
    <3> QED BY <2>1, <3>1, <3>2
  <2> QED BY <2>2 DEF out
<1>17. Planned[c][n] = "profit_guardrail" /\ Thin[c] => h.status = "EMERGENCY_STOP"
  BY <1>1, <1>2, <1>14 DEF Thin, Vetted
<1>18. n <= Len(Planned[c])
  BY <1>5, <1>14
<1> HIDE DEF h
<1>19. Protocol!Handoff(c, h.status)
  BY <1>7, <1>10, <1>11, <1>13, <1>15, <1>16, <1>17, <1>18 DEF Protocol!Handoff
<1> QED BY <1>3, <1>19 DEF h

\* A crash breaks the chains that are running, if there are any.
LEMMA CrashBreaks ==
  ASSUME IInv, IInv', Crash
  PROVE  (\E gone \in SUBSET Chains : Protocol!Break(gone)) \/ UNCHANGED Protocol!protocol
<1> DEFINE dead(c) == [run[c] EXCEPT !.pc = "failed", !.tries = 0, !.handoff = Blank]
           gone == {c \in Chains : Running(c) /\ Outcome[c] = "running"}
<1>1. run' = [c \in Chains |-> IF Running(c) THEN dead(c) ELSE run[c]]
  BY DEF Crash
<1>2. run \in [Chains -> Runs]
  BY DEF IInv, Typed
<1>3. ASSUME NEW c \in Chains
      PROVE  /\ run'[c].plan = run[c].plan /\ run'[c].trail = run[c].trail
             /\ run'[c].req = run[c].req
             /\ (run'[c].pc = "waiting") <=> (run[c].pc = "waiting")
             /\ Running(c) => run'[c].pc = "failed"
             /\ ~Running(c) => run'[c] = run[c]
  BY <1>1, <1>2 DEF Runs, Running
<1> HIDE DEF dead
<1>4. Planned' = Planned /\ Trails' = Trails
  BY <1>3 DEF Planned, Trails
<1>5. Thin' = Thin
  BY <1>3 DEF Thin
<1>6. ASSUME NEW c \in Chains
      PROVE  Outcome'[c] = IF c \in gone THEN "failed" ELSE Outcome[c]
  <2>1. Outcome[c] = Standing(run[c]) /\ Outcome'[c] = Standing(run'[c])
    BY DEF Outcome, Standing, Stopped, Halted
  <2>2. CASE ~Running(c)
    BY <1>3, <2>1, <2>2
  <2>3. CASE Running(c)
    BY <1>3, <2>1, <2>3 DEF Standing, Halted, Running
  <2> QED BY <2>2, <2>3
<1> HIDE DEF gone
<1>7. Outcome' = [c \in Chains |-> IF c \in gone THEN "failed" ELSE Outcome[c]]
  BY <1>6 DEF Outcome
<1>8. gone \in SUBSET Chains /\ \A c \in gone : Outcome[c] = "running"
  BY DEF gone
<1>9. CASE gone # {}
  BY <1>4, <1>5, <1>7, <1>8, <1>9 DEF Protocol!Break
<1>10. CASE gone = {}
  <2>1. Outcome' = Outcome
    BY <1>6, <1>10 DEF Outcome
  <2> QED BY <1>4, <1>5, <2>1 DEF Protocol!protocol
<1> QED BY <1>9, <1>10

\* Chains implement HandoffProtocol: one recorded hand-off per agent in the planned order,
\* none after a stop, and no chain with a thin margin gets past its guardrail.
THEOREM ChainsImplementProtocol == Spec => ImplementsProtocol
<1>1. Init => Protocol!Init
  <2> SUFFICES ASSUME Init PROVE Protocol!Init
    OBVIOUS
  <2>1. \A c \in Chains : run[c] = Idle
    BY DEF Init
  <2>2. Idle.pc = "waiting" /\ Idle.plan = <<>> /\ Idle.trail = <<>>
    BY DEF Idle
  <2>3. Planned = [c \in Chains |-> <<>>] /\ Thin = [c \in Chains |-> FALSE]
        /\ Outcome = [c \in Chains |-> "waiting"]
    BY <2>1, <2>2 DEF Planned, Thin, Outcome
  <2>4. Trails = [c \in Chains |-> <<>>]
    BY <2>1, <2>2 DEF Trails
  <2> QED BY <2>3, <2>4 DEF Protocol!Init
<1>2. IInv /\ IInv' /\ [Next]_vars => [Protocol!Next]_(Protocol!protocol)
  <2> SUFFICES ASSUME IInv, IInv', [Next]_vars
               PROVE  Protocol!Next \/ UNCHANGED Protocol!protocol
    OBVIOUS
  <2>1. ASSUME NEW c \in Chains, Start(c) PROVE Protocol!Next
    BY <2>1, StartBegins DEF Protocol!Next
  <2>2. ASSUME NEW c \in Chains, Finish(c), Legit(run[c].handoff) PROVE Protocol!Next
    <3>1. Protocol!Handoff(c, run[c].handoff.status) /\ run[c].handoff.status \in Protocol!Statuses
      BY <2>2, FinishHandsOn DEF Protocol!Statuses, Statuses
    <3> QED BY <3>1 DEF Protocol!Next
  <2>3. ASSUME NEW c \in Chains, Step(c), ~(Finish(c) /\ Legit(run[c].handoff))
        PROVE  Protocol!Next \/ UNCHANGED Protocol!protocol
    <3>1. Protocol!Break({c}) \/ UNCHANGED Protocol!protocol
      BY <2>3, StepsAreQuiet, QuietSteps
    <3> QED BY <3>1 DEF Protocol!Next
  <2>4. CASE Crash
    BY <2>4, CrashBreaks DEF Protocol!Next
  <2>5. CASE UNCHANGED vars
    BY <2>5 DEF vars, Protocol!protocol, Planned, Thin, Trails, Outcome, Stopped
  <2> QED BY <2>1, <2>2, <2>3, <2>4, <2>5 DEF Next
<1> QED BY <1>1, <1>2, Invariant, PTL DEF Spec, ImplementsProtocol, Protocol!Spec

=============================================================================
