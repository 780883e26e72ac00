---------------------- MODULE PartnerGraduation_proofs ----------------------
(***************************************************************************)
(* Proofs about PartnerGraduation, for any number of partners, chains,     *)
(* requests and crashes, and for all thresholds: whatever interleaves, a   *)
(* row that says ready has earned it.                                      *)
(***************************************************************************)
EXTENDS PartnerGraduation, SequenceTheorems, TLAPS

-----------------------------------------------------------------------------
(* The inductive invariant *)

Marks == SummaryFlags \cup LogKinds
           \cup {"issue", "revoke", "graduate", "recruitment_ready", "profile_validated"}
Steps == [do : {"rewrite"}, file : Files, p : Partners, marks : SUBSET Marks]
           \cup [do : {"note"}, p : Partners, kind : LogKinds]
           \cup [do : {"append", "assess"}, p : Partners]

EarnedRow(row) ==
  /\ row.ready <=> row.status = "graduation_ready"
  /\ row.ready => /\ row.done = Milestones /\ row.flags = {} /\ row.stops = 0
                  /\ row.blocked = 0 /\ row.failed < FailedThreshold /\ row.hits < RateThreshold

\* What is in a file, or about to be written to it.
Content(f, x) ==
  /\ x \in Contents[f]
  /\ f = "registry" => \A p \in Partners : x[p] # None => EarnedRow(x[p])

DiskOK ==
  /\ disk = [f \in Files |-> disk[f]]
  /\ \A f \in Files : Content(f, disk[f])

\* A copy in memory is one the actor's next step is about.
CopyOK(a) ==
  mem[a] # None =>
    /\ mem[a] = [k \in {"file", "open", "content"} |-> mem[a][k]]
    /\ Does(a, "rewrite") /\ mem[a].file = Head(todo[a]).file
    /\ mem[a].file \in Files /\ Content(mem[a].file, mem[a].content)

ActorsOK ==
  /\ todo \in [Actors -> Seq(Steps)]
  /\ mem = [a \in Actors |-> mem[a]]
  /\ \A a \in Actors : CopyOK(a)

RestOK ==
  /\ log \in [Partners -> [LogKinds -> Nat]]
  /\ registered \subseteq Partners
  /\ chain \in [Chains -> Partners \cup {None}]
  /\ wiped \subseteq Files

IInv == DiskOK /\ ActorsOK /\ RestOK

-----------------------------------------------------------------------------
(* Rows *)

LEMMA NewRowEarned == NewRow \in Rows /\ EarnedRow(NewRow)
  BY DEF NewRow, Rows, EarnedRow, Milestones, Flags

LEMMA AppliedType ==
  ASSUME NEW row \in Rows, NEW marks
  PROVE  Applied(row, marks) \in Rows
<1> DEFINE one(kinds) == IF marks \cap kinds # {} THEN 1 ELSE 0
           reach(m, kinds) == IF marks \cap kinds # {} THEN {m} ELSE {}
           done == row.done \cup reach("profile_validated", {"profile_validated", "profile_saved"})
                     \cup reach("onboarding_complete", {"onboarding_complete", "profile_saved"})
                     \cup reach("recruitment_reviewed", {"recruitment_ready"})
                     \cup reach("close_dry_run", {"lead_routing_confirmed"})
           stops == row.stops + one({"emergency_stop"})
           failed == row.failed + one({"validation_failed"})
           blocked == row.blocked + one({"blocked_tool", "blocked_path"})
           hits == row.hits + one({"rate_limit_exceeded"})
<1>1. /\ row.done \subseteq Milestones /\ row.stops \in Nat /\ row.failed \in Nat
      /\ row.blocked \in Nat /\ row.hits \in Nat
  BY DEF Rows
<1>2. \A kinds : one(kinds) \in Nat
  OBVIOUS
<1>3. stops \in Nat /\ failed \in Nat /\ blocked \in Nat /\ hits \in Nat
  <2> HIDE DEF one
  <2> QED BY <1>1, <1>2
<1>4. done \subseteq Milestones
  BY <1>1 DEF Milestones
<1>5. Applied(row, marks) =
        [row EXCEPT !.done = done, !.stops = stops, !.failed = failed, !.blocked = blocked,
                    !.hits = hits]
  BY DEF Applied
<1> HIDE DEF done, stops, failed, blocked, hits
<1> QED BY <1>3, <1>4, <1>5 DEF Rows

\* The milestones of security say what they are named for.
LEMMA RefreshedType ==
  ASSUME NEW row \in Rows, NEW burst
  PROVE  /\ Refreshed(row, burst) \in Rows
         /\ Refreshed(row, burst).done = Milestones =>
              /\ Refreshed(row, burst).flags = {} /\ Refreshed(row, burst).stops = 0
              /\ Refreshed(row, burst).blocked = 0
              /\ Refreshed(row, burst).failed < FailedThreshold
              /\ Refreshed(row, burst).hits < RateThreshold
<1> DEFINE new == [row EXCEPT !.flags = Flagged(row, burst)]
<1>1. Flagged(row, burst) \subseteq Flags
  BY DEF Flagged, Rows
<1>2. /\ new \in Rows /\ new.flags = Flagged(row, burst) /\ new.failed = row.failed
      /\ new.hits = row.hits /\ new.blocked = row.blocked /\ new.stops = row.stops
  BY <1>1 DEF Rows
<1>3. /\ row.failed \in Nat /\ row.hits \in Nat /\ row.blocked \in Nat /\ row.stops \in Nat
      /\ FailedThreshold \in Nat /\ RateThreshold \in Nat
  BY ConstantsAssumption DEF Rows
<1>4. new.flags = {} =>
        row.blocked = 0 /\ row.failed < FailedThreshold /\ row.hits < RateThreshold
  <2>1. Flagged(row, burst) = {} =>
          /\ ~(row.failed >= FailedThreshold) /\ ~(row.hits >= RateThreshold)
          /\ ~(row.blocked >= 1)
    BY DEF Flagged, Flags
  <2> QED BY <1>2, <1>3, <2>1
<1> HIDE DEF new
<1> DEFINE done == (new.done \ {"no_emergency_stops", "security_score_ok"})
                     \cup {m \in {"no_emergency_stops"} : new.stops = 0}
                     \cup {m \in {"security_score_ok"} : Score(new) >= MinScore /\ new.flags = {}}
<1>5. done \subseteq Milestones
  BY <1>2 DEF Rows, Milestones
<1>6. done = Milestones => new.stops = 0 /\ new.flags = {}
  <2>1. "no_emergency_stops" \in Milestones /\ "security_score_ok" \in Milestones
    BY DEF Milestones
  <2> QED BY <2>1
<1>7. Refreshed(row, burst) = [new EXCEPT !.done = done]
  BY DEF Refreshed, new
<1> HIDE DEF done
<1>8. /\ [new EXCEPT !.done = done] \in Rows /\ [new EXCEPT !.done = done].done = done
      /\ \A f \in {"flags", "stops", "blocked", "failed", "hits"} :
           [new EXCEPT !.done = done][f] = new[f]
  BY <1>2, <1>5 DEF Rows
<1> QED BY <1>2, <1>4, <1>6, <1>7, <1>8

\* Whatever it was before, a row that is graded after its security is refreshed has
\* earned its grade.
LEMMA GradedEarned ==
  ASSUME NEW row \in Rows, NEW marks, NEW burst
  PROVE  LET new == Graded(Refreshed(Applied(row, marks), burst))
         IN  new \in Rows /\ EarnedRow(new)
<1> PICK r : r = Refreshed(Applied(row, marks), burst)
  OBVIOUS
<1>1. /\ r \in Rows
      /\ r.done = Milestones => /\ r.flags = {} /\ r.stops = 0 /\ r.blocked = 0
                                /\ r.failed < FailedThreshold /\ r.hits < RateThreshold
  BY AppliedType, RefreshedType
<1>2. CASE r.status = "graduated"
  BY <1>1, <1>2 DEF Graded, Rows, EarnedRow
<1>3. CASE r.status # "graduated" /\ r.done = Milestones
  <2>1. Graded(r) = [r EXCEPT !.ready = TRUE, !.status = "graduation_ready"]
    BY <1>3 DEF Graded
  <2> QED BY <1>1, <1>3, <2>1 DEF Rows, EarnedRow
<1>4. CASE r.status # "graduated" /\ r.done # Milestones
  <2>1. Graded(r) = [r EXCEPT !.ready = FALSE, !.status = "sandbox"]
    BY <1>4 DEF Graded
  <2> QED BY <1>1, <1>4, <2>1 DEF Rows, EarnedRow
<1> QED BY <1>2, <1>3, <1>4

LEMMA MarkedEarned ==
  ASSUME NEW row \in Rows
  PROVE  MarkedGraduated(row) \in Rows /\ EarnedRow(MarkedGraduated(row))
  BY DEF MarkedGraduated, Rows, EarnedRow

-----------------------------------------------------------------------------
(* Files and steps *)

LEMMA ContentsAre ==
  /\ Contents["registry"] = [Partners -> Rows \cup {None}]
  /\ Contents["sandbox"] = [Partners -> BOOLEAN]
  /\ Contents["production"] = [Partners -> Nat]
  BY DEF Contents

\* What is computed from a sound file is a sound file.
LEMMA RewrittenOK ==
  ASSUME NEW f \in Files, NEW old, Content(f, old), NEW p \in Partners, NEW marks, NEW burst,
         Writes(f, old, p, marks)
  PROVE  Content(f, Rewritten(f, old, p, marks, burst))
<1>1. CASE f = "registry"
  <2> DEFINE row == IF "graduate" \in marks THEN MarkedGraduated(old[p])
                    ELSE Graded(Refreshed(Applied(old[p], marks), burst))
  <2>1. old \in [Partners -> Rows \cup {None}] /\ \A q \in Partners : old[q] # None => EarnedRow(old[q])
    BY <1>1, ContentsAre DEF Content
  <2>2. old[p] \in Rows
    BY <1>1, <2>1 DEF Writes
  <2>3. row \in Rows /\ EarnedRow(row)
    BY <2>2, GradedEarned, MarkedEarned
  <2>4. Rewritten(f, old, p, marks, burst) = [old EXCEPT ![p] = row]
    BY <1>1 DEF Rewritten
  <2> HIDE DEF row
  <2>5. /\ [old EXCEPT ![p] = row] \in [Partners -> Rows \cup {None}]
        /\ \A q \in Partners : [old EXCEPT ![p] = row][q] = IF q = p THEN row ELSE old[q]
    BY <2>1, <2>3
  <2> QED BY <1>1, <2>1, <2>3, <2>4, <2>5, ContentsAre DEF Content
<1>2. CASE f = "sandbox"
  <2>1. Rewritten(f, old, p, marks, burst) = [old EXCEPT ![p] = "issue" \in marks]
    BY <1>2 DEF Rewritten
  <2>2. old \in [Partners -> BOOLEAN]
    BY <1>2, ContentsAre DEF Content
  <2>3. PICK b \in BOOLEAN : b = ("issue" \in marks)
    <3>1. ("issue" \in marks) \in BOOLEAN
      OBVIOUS
    <3> QED BY <3>1, Zenon
  <2>4. Rewritten(f, old, p, marks, burst) = [old EXCEPT ![p] = b]
    BY <2>1, <2>3
  <2> QED BY <1>2, <2>2, <2>4, ContentsAre DEF Content
<1>3. CASE f = "production"
  <2>1. Rewritten(f, old, p, marks, burst)
          = [old EXCEPT ![p] = IF "issue" \in marks THEN old[p] + 1 ELSE old[p]]
    BY <1>3 DEF Rewritten
  <2>2. old \in [Partners -> Nat]
    BY <1>3, ContentsAre DEF Content
  <2> QED BY <1>3, <2>1, <2>2, ContentsAre DEF Content
<1> QED BY <1>1, <1>2, <1>3 DEF Files

LEMMA EmptyOK ==
  /\ Empty = [f \in Files |-> Empty[f]] /\ DOMAIN Empty = Files
  /\ \A f \in Files : Content(f, Empty[f])
<1>1. Empty = [f \in Files |-> Empty[f]] /\ DOMAIN Empty = Files
  BY DEF Empty, Files
<1>2. Content("registry", Empty["registry"])
  BY ContentsAre DEF Empty, Content
<1>3. Content("sandbox", Empty["sandbox"])
  BY ContentsAre DEF Empty, Content
<1>4. Content("production", Empty["production"])
  BY ContentsAre DEF Empty, Content
<1> QED BY <1>1, <1>2, <1>3, <1>4 DEF Files

\* What requests and chains put on an actor's list are steps.
LEMMA RewriteType ==
  ASSUME NEW f \in Files, NEW p \in Partners, NEW marks \in SUBSET Marks
  PROVE  Rewrite(f, p, marks) \in Seq(Steps)
<1>1. [do |-> "rewrite", file |-> f, p |-> p, marks |-> marks] \in Steps
  BY DEF Steps
<1> QED BY <1>1 DEF Rewrite

LEMMA NoteType ==
  ASSUME NEW kind \in LogKinds, NEW p \in Partners
  PROVE  Note(kind, p) \in Seq(Steps)
<1>1. [do |-> "note", p |-> p, kind |-> kind] \in Steps
  BY DEF Steps
<1> QED BY <1>1 DEF Note

LEMMA SecurityEventType ==
  ASSUME NEW kind \in LogKinds, NEW p \in Partners
  PROVE  SecurityEvent(kind, p) \in Seq(Steps)
<1>1. {kind} \in SUBSET Marks /\ "registry" \in Files
  BY DEF Marks, Files
<1> QED BY <1>1, NoteType, RewriteType, ConcatProperties DEF SecurityEvent

LEMMA KindsAreMarks ==
  /\ "registered" \in LogKinds /\ "graduated" \in LogKinds /\ "graduation_log" \in LogKinds
  /\ "emergency_stop" \in LogKinds /\ Kinds \subseteq LogKinds
  /\ {"registry", "sandbox", "production"} \subseteq Files
  /\ {} \in SUBSET Marks /\ {"issue"} \in SUBSET Marks /\ {"revoke"} \in SUBSET Marks
  /\ {"graduate"} \in SUBSET Marks /\ {"recruitment_ready"} \in SUBSET Marks
  /\ {"profile_validated"} \in SUBSET Marks /\ \A summary \in Summaries : summary \in SUBSET Marks
  BY ConstantsAssumption DEF LogKinds, Files, Marks

LEMMA RegistrationType ==
  ASSUME NEW p \in Partners
  PROVE  Registration(p) \in Seq(Steps)
<1>1. <<[do |-> "append", p |-> p]>> \in Seq(Steps)
  BY DEF Steps
<1>2. Rewrite("sandbox", p, {"issue"}) \in Seq(Steps)
  BY RewriteType, KindsAreMarks
<1>3. SecurityEvent("registered", p) \in Seq(Steps)
  BY SecurityEventType, KindsAreMarks
<1> QED BY <1>1, <1>2, <1>3, ConcatProperties DEF Registration

LEMMA AftermathType ==
  ASSUME NEW p \in Partners, NEW summary \in Summaries
  PROVE  Aftermath(p, summary) \in Seq(Steps)
<1>1. Rewrite("registry", p, summary) \in Seq(Steps)
  BY RewriteType, KindsAreMarks
<1>2. Rewrite("registry", p, {"recruitment_ready"}) \in Seq(Steps) /\ <<>> \in Seq(Steps)
  BY RewriteType, KindsAreMarks
<1>3. SecurityEvent("emergency_stop", p) \in Seq(Steps)
  BY SecurityEventType, KindsAreMarks
<1>4. \A s, t \in Seq(Steps) : s \o t \in Seq(Steps)
  BY ConcatProperties
<1> DEFINE reviewed == Rewrite("registry", p, {"recruitment_ready"})
           first == IF "recruiter_entry" \in summary /\ ~("emergency_stop" \in summary)
                    THEN reviewed ELSE <<>>
           second == IF "emergency_stop" \in summary THEN SecurityEvent("emergency_stop", p)
                     ELSE <<>>
           third == IF "ready_to_send" \in summary THEN reviewed ELSE <<>>
<1>5. first \in Seq(Steps) /\ second \in Seq(Steps) /\ third \in Seq(Steps)
  BY <1>2, <1>3
<1>6. Aftermath(p, summary) = Rewrite("registry", p, summary) \o first \o second \o third
  BY DEF Aftermath
<1> HIDE DEF first, second, third
<1> QED BY <1>1, <1>4, <1>5, <1>6

LEMMA GraduationType ==
  ASSUME NEW p \in Partners
  PROVE  Graduation(p) \in Seq(Steps)
<1>1. <<[do |-> "assess", p |-> p]>> \in Seq(Steps)
  BY DEF Steps
<1>2. /\ Rewrite("production", p, {"issue"}) \in Seq(Steps)
      /\ Rewrite("sandbox", p, {"revoke"}) \in Seq(Steps)
      /\ Rewrite("registry", p, {"graduate"}) \in Seq(Steps)
  BY RewriteType, KindsAreMarks
<1>3. Note("graduation_log", p) \in Seq(Steps)
  BY NoteType, KindsAreMarks
<1>4. SecurityEvent("graduated", p) \in Seq(Steps)
  BY SecurityEventType, KindsAreMarks
<1>5. \A s, t \in Seq(Steps) : s \o t \in Seq(Steps)
  BY ConcatProperties
<1> QED BY <1>1, <1>2, <1>3, <1>4, <1>5 DEF Graduation

\* The step an actor is at.
LEMMA HeadType ==
  ASSUME IInv, NEW a \in Actors, ~Idle(a)
  PROVE  /\ Head(todo[a]) \in Steps /\ Target(a) \in Partners /\ Tail(todo[a]) \in Seq(Steps)
         /\ Does(a, "rewrite") => Head(todo[a]).file \in Files
         /\ Does(a, "note") => Head(todo[a]).kind \in LogKinds
<1>1. todo[a] \in Seq(Steps) /\ todo[a] # <<>>
  BY DEF IInv, ActorsOK, Idle
<1>2. Head(todo[a]) \in Steps /\ Tail(todo[a]) \in Seq(Steps)
  BY <1>1
<1> QED BY <1>2 DEF Steps, Target, Does

-----------------------------------------------------------------------------
(* One lemma per action *)

LEMMA InitOK == Init => IInv
<1> SUFFICES ASSUME Init PROVE IInv
  OBVIOUS
<1>1. DiskOK
  BY EmptyOK DEF Init, DiskOK
<1>2. ActorsOK
  BY DEF Init, ActorsOK, CopyOK
<1>3. RestOK
  BY DEF Init, RestOK
<1> QED BY <1>1, <1>2, <1>3 DEF IInv

\* An actor without a copy goes a step on, or gets steps; it still has no copy.
LEMMA ListChange ==
  ASSUME IInv, NEW a \in Actors, mem[a] = None, NEW steps \in Seq(Steps),
         todo' = [todo EXCEPT ![a] = steps], UNCHANGED mem
  PROVE  ActorsOK'
<1>1. todo' \in [Actors -> Seq(Steps)] /\ \A b \in Actors : b # a => todo'[b] = todo[b]
  BY DEF IInv, ActorsOK
<1>2. \A b \in Actors : CopyOK(b)'
  BY <1>1 DEF IInv, ActorsOK, CopyOK, Does, Idle
<1> QED BY <1>1, <1>2 DEF IInv, ActorsOK

LEMMA IdleHasNoCopy ==
  ASSUME IInv, NEW a \in Actors, Idle(a) \/ ~Does(a, "rewrite")
  PROVE  mem[a] = None
  BY DEF IInv, ActorsOK, CopyOK, Does

LEMMA AppendRowOK ==
  ASSUME IInv, NEW a \in Actors, AppendRow(a)
  PROVE  IInv'
<1>1. ~Idle(a) /\ mem[a] = None
  BY IdleHasNoCopy DEF AppendRow, Does
<1>2. Target(a) \in Partners /\ Tail(todo[a]) \in Seq(Steps)
  BY <1>1, HeadType
<1>3. ActorsOK'
  BY <1>1, <1>2, ListChange DEF AppendRow, Advance
<1>4. DiskOK'
  <2> DEFINE new == [disk["registry"] EXCEPT ![Target(a)] = NewRow]
  <2>1. Content("registry", disk["registry"])
    BY DEF IInv, DiskOK, Files
  <2>2. Content("registry", new)
    <3>1. /\ disk["registry"] \in [Partners -> Rows \cup {None}]
          /\ \A q \in Partners : disk["registry"][q] # None => EarnedRow(disk["registry"][q])
      BY <2>1, ContentsAre DEF Content
    <3>2. new \in [Partners -> Rows \cup {None}]
      BY <3>1, NewRowEarned
    <3>3. \A q \in Partners : new[q] = IF q = Target(a) THEN NewRow ELSE disk["registry"][q]
      BY <3>1
    <3> HIDE DEF new
    <3> QED BY <3>1, <3>2, <3>3, NewRowEarned, ContentsAre DEF Content
  <2>3. disk' = [disk EXCEPT !["registry"] = new]
    BY DEF AppendRow
  <2> HIDE DEF new
  <2> QED BY <2>2, <2>3 DEF IInv, DiskOK, Files
<1>5. RestOK'
  BY DEF AppendRow, IInv, RestOK
<1> QED BY <1>3, <1>4, <1>5 DEF IInv

LEMMA WriteLogOK ==
  ASSUME IInv, NEW a \in Actors, WriteLog(a)
  PROVE  IInv'
<1>1. ~Idle(a) /\ mem[a] = None
  BY IdleHasNoCopy DEF WriteLog, Does
<1>2. Target(a) \in Partners /\ Tail(todo[a]) \in Seq(Steps) /\ Head(todo[a]).kind \in LogKinds
  BY <1>1, HeadType DEF WriteLog
<1>3. ActorsOK'
  BY <1>1, <1>2, ListChange DEF WriteLog, Advance
<1>4. log' \in [Partners -> [LogKinds -> Nat]]
  <2> DEFINE k == Head(todo[a]).kind
             p == Target(a)
             new == [log[p] EXCEPT ![k] = @ + 1]
  <2>1. log \in [Partners -> [LogKinds -> Nat]]
    BY DEF IInv, RestOK
  <2>2. log[p] \in [LogKinds -> Nat]
    BY <1>2, <2>1
  <2>3. new \in [LogKinds -> Nat]
    BY <1>2, <2>2
  <2>4. log' = [log EXCEPT ![p] = new]
    BY DEF WriteLog
  <2> HIDE DEF new, p
  <2> QED BY <2>1, <2>3, <2>4
<1> QED BY <1>3, <1>4 DEF WriteLog, IInv, DiskOK, RestOK

LEMMA ReadOK ==
  ASSUME IInv, NEW a \in Actors, Read(a)
  PROVE  IInv'
<1>1. ~Idle(a) /\ mem[a] = None /\ Does(a, "rewrite")
  BY DEF Read, Does
<1>2. PICK s : s = Head(todo[a])
  OBVIOUS
<1>3. /\ s.p \in Partners /\ s.file \in Files /\ Tail(todo[a]) \in Seq(Steps)
  BY <1>1, <1>2, HeadType DEF Target
<1>4. UNCHANGED <<disk, log, registered, chain, wiped>>
  BY DEF Read
<1>5. ActorsOK'
  <2>1. CASE Writes(s.file, disk[s.file], s.p, s.marks)
    <3>1. PICK burst \in Bursts(s.p) :
            mem' = [mem EXCEPT ![a] =
                      [file |-> s.file, open |-> FALSE,
                       content |-> Rewritten(s.file, disk[s.file], s.p, s.marks, burst)]]
      BY <1>2, <2>1 DEF Read
    <3>2. UNCHANGED todo
      BY <1>2, <2>1 DEF Read
    <3> PICK content : content = Rewritten(s.file, disk[s.file], s.p, s.marks, burst)
      OBVIOUS
    <3>3. Content(s.file, content)
      BY <1>3, <2>1, RewrittenOK DEF IInv, DiskOK
    <3> PICK new : new = [file |-> s.file, open |-> FALSE, content |-> content]
      OBVIOUS
    <3>4. /\ new = [k \in {"file", "open", "content"} |-> new[k]]
          /\ new.file = s.file /\ new.content = content
      OBVIOUS
    <3>5. mem' = [mem EXCEPT ![a] = new]
      BY <3>1
    <3>6. mem = [b \in Actors |-> mem[b]]
      BY DEF IInv, ActorsOK
    <3>7. /\ mem' = [b \in Actors |-> mem'[b]]
          /\ \A b \in Actors : mem'[b] = IF b = a THEN new ELSE mem[b]
      BY <3>5, <3>6
    <3>8. CopyOK(a)'
      BY <1>1, <1>2, <1>3, <3>2, <3>3, <3>4, <3>7 DEF CopyOK, Does, Idle
    <3>9. \A b \in Actors : b # a => CopyOK(b)'
      BY <3>2, <3>7 DEF IInv, ActorsOK, CopyOK, Does, Idle
    <3> QED BY <3>2, <3>7, <3>8, <3>9 DEF IInv, ActorsOK
  <2>2. CASE ~Writes(s.file, disk[s.file], s.p, s.marks)
    <3>1. Advance(a) /\ UNCHANGED mem
      BY <1>2, <2>2 DEF Read
    <3> QED BY <1>1, <1>3, <3>1, ListChange DEF Advance
  <2> QED BY <2>1, <2>2
<1> QED BY <1>4, <1>5 DEF IInv, DiskOK, RestOK

LEMMA OpenOK ==
  ASSUME IInv, NEW a \in Actors, Open(a)
  PROVE  IInv'
<1> PICK m : m = mem[a]
  OBVIOUS
<1> PICK new : new = [m EXCEPT !.open = TRUE]
  OBVIOUS
<1>1. /\ m = [k \in {"file", "open", "content"} |-> m[k]] /\ m.file \in Files
      /\ Content(m.file, m.content) /\ Does(a, "rewrite") /\ m.file = Head(todo[a]).file
  BY DEF Open, IInv, ActorsOK, CopyOK
<1>2. /\ new = [k \in {"file", "open", "content"} |-> new[k]]
      /\ new.file = m.file /\ new.content = m.content
  BY <1>1
<1>3. /\ disk' = [disk EXCEPT ![m.file] = Empty[m.file]]
      /\ mem' = [mem EXCEPT ![a] = new]
      /\ UNCHANGED <<log, registered, chain, todo, wiped>>
  BY DEF Open
<1>4. DiskOK'
  BY <1>1, <1>3, EmptyOK DEF IInv, DiskOK
<1>5. ActorsOK'
  <2>1. /\ mem' = [b \in Actors |-> mem'[b]]
        /\ \A b \in Actors : mem'[b] = IF b = a THEN new ELSE mem[b]
    BY <1>3 DEF IInv, ActorsOK
  <2>2. CopyOK(a)'
    BY <1>1, <1>2, <1>3, <2>1 DEF CopyOK, Does, Idle
  <2>3. \A b \in Actors : b # a => CopyOK(b)'
    BY <1>3, <2>1 DEF IInv, ActorsOK, CopyOK, Does, Idle
  <2> QED BY <1>3, <2>1, <2>2, <2>3 DEF IInv, ActorsOK
<1> QED BY <1>3, <1>4, <1>5 DEF IInv, RestOK

LEMMA WriteOK ==
  ASSUME IInv, NEW a \in Actors, Write(a)
  PROVE  IInv'
<1> PICK m : m = mem[a]
  OBVIOUS
<1>1. /\ m.file \in Files /\ Content(m.file, m.content) /\ Does(a, "rewrite")
  BY DEF Write, IInv, ActorsOK, CopyOK
<1>2. /\ disk' = [disk EXCEPT ![m.file] = m.content] /\ mem' = [mem EXCEPT ![a] = None]
      /\ todo' = [todo EXCEPT ![a] = Tail(todo[a])]
      /\ UNCHANGED <<log, registered, chain, wiped>>
  BY DEF Write, Advance
<1>3. DiskOK'
  BY <1>1, <1>2 DEF IInv, DiskOK
<1>4. ActorsOK'
  <2>1. Tail(todo[a]) \in Seq(Steps)
    BY <1>1, HeadType DEF Does
  <2>2. /\ mem' = [b \in Actors |-> mem'[b]]
        /\ \A b \in Actors : mem'[b] = IF b = a THEN None ELSE mem[b]
    BY <1>2 DEF IInv, ActorsOK
  <2>3. /\ todo' \in [Actors -> Seq(Steps)]
        /\ \A b \in Actors : b # a => todo'[b] = todo[b]
    BY <1>2, <2>1 DEF IInv, ActorsOK
  <2>4. \A b \in Actors : CopyOK(b)'
    BY <2>2, <2>3 DEF IInv, ActorsOK, CopyOK, Does, Idle
  <2> QED BY <2>2, <2>3, <2>4 DEF ActorsOK
<1> QED BY <1>2, <1>3, <1>4 DEF IInv, RestOK

LEMMA AssessOK ==
  ASSUME IInv, NEW a \in Actors, Assess(a)
  PROVE  IInv'
<1>1. ~Idle(a) /\ mem[a] = None
  BY IdleHasNoCopy DEF Assess, Does
<1>2. PICK steps \in {Tail(todo[a]), <<>>} : todo' = [todo EXCEPT ![a] = steps]
  BY DEF Assess, Advance
<1>3. steps \in Seq(Steps)
  <2>1. Tail(todo[a]) \in Seq(Steps)
    BY <1>1, HeadType
  <2>2. <<>> \in Seq(Steps)
    OBVIOUS
  <2> QED BY <1>2, <2>1, <2>2
<1>4. ActorsOK'
  BY <1>1, <1>2, <1>3, ListChange DEF Assess
<1> QED BY <1>4 DEF Assess, IInv, DiskOK, RestOK

\* An actor with nothing to do is given steps of some handler.
LEMMA StartOK ==
  ASSUME IInv, NEW a \in Actors, NEW steps \in Seq(Steps), Start(a, steps),
         UNCHANGED <<disk, log, mem, wiped>>, registered' \subseteq Partners,
         chain' \in [Chains -> Partners \cup {None}]
  PROVE  IInv'
<1>1. ActorsOK'
  BY IdleHasNoCopy, ListChange DEF Start
<1> QED BY <1>1 DEF IInv, DiskOK, RestOK

LEMMA RequestOK ==
  ASSUME IInv, NEW p \in Partners, Request(p)
  PROVE  IInv'
<1> USE KindsAreMarks
<1>1. Loop \in Actors /\ Operators \subseteq Actors
  BY ConstantsAssumption DEF Actors, Server
<1>2. registered \subseteq Partners /\ chain \in [Chains -> Partners \cup {None}]
  BY DEF IInv, RestOK
<1>3. CASE Register(p)
  <2>1. /\ Start(Loop, Registration(p)) /\ registered' = registered \cup {p}
        /\ UNCHANGED <<disk, log, mem, wiped, chain>>
    BY <1>3 DEF Register
  <2>2. registered' \subseteq Partners /\ chain' \in [Chains -> Partners \cup {None}]
    BY <1>2, <2>1
  <2> QED BY <1>1, <2>1, <2>2, RegistrationType, StartOK
<1>4. CASE IssueAgentKey(p)
  <2>1. /\ Start(Loop, Rewrite("production", p, {}))
        /\ UNCHANGED <<disk, log, mem, wiped, chain, registered>>
    BY <1>4 DEF IssueAgentKey
  <2>2. Rewrite("production", p, {}) \in Seq(Steps)
    BY RewriteType
  <2> QED BY <1>1, <1>2, <2>1, <2>2, StartOK
<1>5. CASE ValidateProfile(p)
  <2>1. /\ Start(Loop, Rewrite("registry", p, {"profile_validated"}))
        /\ UNCHANGED <<disk, log, mem, wiped, chain, registered>>
    BY <1>5 DEF ValidateProfile
  <2>2. Rewrite("registry", p, {"profile_validated"}) \in Seq(Steps)
    BY RewriteType
  <2> QED BY <1>1, <1>2, <2>1, <2>2, StartOK
<1>6. ASSUME NEW kind \in Kinds, Offend(p, kind) PROVE IInv'
  <2>1. /\ Start(Loop, SecurityEvent(kind, p))
        /\ UNCHANGED <<disk, log, mem, wiped, chain, registered>>
    BY <1>6 DEF Offend
  <2>2. SecurityEvent(kind, p) \in Seq(Steps)
    BY SecurityEventType
  <2> QED BY <1>1, <1>2, <2>1, <2>2, StartOK
<1>7. ASSUME NEW a \in Operators, Graduate(a, p) PROVE IInv'
  <2>1. /\ Start(a, Graduation(p))
        /\ UNCHANGED <<disk, log, mem, wiped, chain, registered>>
    BY <1>7 DEF Graduate
  <2> QED BY <1>1, <1>2, <2>1, GraduationType, StartOK
<1>8. ASSUME NEW c \in Chains, StartChain(c, p) PROVE IInv'
  <2>1. /\ chain' = [chain EXCEPT ![c] = p]
        /\ UNCHANGED <<disk, log, mem, todo, wiped, registered>>
    BY <1>8 DEF StartChain
  <2>2. chain' \in [Chains -> Partners \cup {None}]
    BY <1>2, <2>1
  <2> QED BY <2>1, <2>2 DEF IInv, DiskOK, ActorsOK, CopyOK, Does, Idle, RestOK
<1> QED BY <1>3, <1>4, <1>5, <1>6, <1>7, <1>8 DEF Request

LEMMA RunChainOK ==
  ASSUME IInv, NEW c \in Chains, RunChain(c)
  PROVE  IInv'
<1>1. Loop \in Actors /\ c \in Actors
  BY DEF Actors, Server
<1>2. registered \subseteq Partners /\ chain \in [Chains -> Partners \cup {None}]
  BY DEF IInv, RestOK
<1>3. PICK p : p = chain[c]
  OBVIOUS
<1>4. p # None => p \in Partners
  BY <1>2, <1>3
<1>5. CASE BlockTool(c)
  <2>1. /\ Start(c, SecurityEvent("blocked_tool", p)) /\ p # None /\ "blocked_tool" \in LogKinds
        /\ UNCHANGED <<disk, log, mem, wiped, chain, registered>>
    BY <1>3, <1>5, KindsAreMarks DEF BlockTool
  <2>2. SecurityEvent("blocked_tool", p) \in Seq(Steps)
    BY <1>4, <2>1, SecurityEventType
  <2> QED BY <1>1, <1>2, <2>1, <2>2, StartOK
<1>6. ASSUME NEW summary \in Summaries, EndChain(c, summary) PROVE IInv'
  <2>1. /\ Start(Loop, Aftermath(p, summary)) /\ p # None
        /\ chain' = [chain EXCEPT ![c] = None]
        /\ UNCHANGED <<disk, log, mem, wiped, registered>>
    BY <1>3, <1>6 DEF EndChain
  <2>2. Aftermath(p, summary) \in Seq(Steps)
    BY <1>4, <2>1, AftermathType
  <2>3. registered' \subseteq Partners /\ chain' \in [Chains -> Partners \cup {None}]
    BY <1>2, <2>1
  <2> QED BY <1>1, <2>1, <2>2, <2>3, StartOK
<1>7. CASE FailChain(c)
  <2>1. /\ chain' = [chain EXCEPT ![c] = None]
        /\ UNCHANGED <<disk, log, mem, todo, wiped, registered>>
    BY <1>7 DEF FailChain
  <2>2. chain' \in [Chains -> Partners \cup {None}]
    BY <1>2, <2>1
  <2> QED BY <2>1, <2>2 DEF IInv, DiskOK, ActorsOK, CopyOK, Does, Idle, RestOK
<1> QED BY <1>5, <1>6, <1>7 DEF RunChain

LEMMA CrashOK ==
  ASSUME IInv, NEW dead \in SUBSET Actors, Crash(dead)
  PROVE  IInv'
<1>1. /\ todo' = [a \in Actors |-> IF a \in dead THEN <<>> ELSE todo[a]]
      /\ mem' = [a \in Actors |-> IF a \in dead THEN None ELSE mem[a]]
      /\ chain' = [c \in Chains |-> IF c \in dead THEN None ELSE chain[c]]
      /\ wiped' = wiped \cup {mem[a].file : a \in {b \in dead : mem[b] # None /\ mem[b].open}}
      /\ UNCHANGED <<disk, log, registered>>
  BY DEF Crash
<1>2. ActorsOK'
  <2>1. todo' \in [Actors -> Seq(Steps)]
    BY <1>1 DEF IInv, ActorsOK
  <2>2. \A b \in Actors : CopyOK(b)'
    BY <1>1 DEF IInv, ActorsOK, CopyOK, Does, Idle
  <2> QED BY <1>1, <2>1, <2>2 DEF ActorsOK
<1>3. chain' \in [Chains -> Partners \cup {None}]
  BY <1>1 DEF IInv, RestOK
<1>4. wiped' \subseteq Files
  BY <1>1 DEF IInv, RestOK, ActorsOK, CopyOK
<1> QED BY <1>1, <1>2, <1>3, <1>4 DEF IInv, DiskOK, RestOK

LEMMA NextOK ==
  ASSUME IInv, [Next]_vars
  PROVE  IInv'
<1>1. CASE UNCHANGED vars
  BY <1>1 DEF vars, IInv, DiskOK, ActorsOK, CopyOK, Does, Idle, RestOK
<1>2. ASSUME NEW a \in Actors, Continue(a) PROVE IInv'
  BY <1>2, AppendRowOK, WriteLogOK, ReadOK, OpenOK, WriteOK, AssessOK DEF Continue
<1>3. CASE \E p \in Partners : Request(p)
  BY <1>3, RequestOK
<1>4. CASE \E c \in Chains : RunChain(c)
  BY <1>4, RunChainOK
<1>5. CASE Crash(Server) \/ Crash({Cli})
  BY <1>5, CrashOK DEF Actors
<1> QED BY <1>1, <1>2, <1>3, <1>4, <1>5 DEF Next

-----------------------------------------------------------------------------
(* The theorems *)

\* The inductive invariant: files and copies in memory hold rows of the registry, each
\* actor with a copy is about to write it back, and every row that was graded is earned.
THEOREM Invariant == Spec => []IInv
<1> QED BY InitOK, NextOK, PTL DEF Spec

\* Every variable keeps values of its kind, whatever processes overwrite and crash.
THEOREM TypeCorrect == Spec => []TypeOK
<1>1. IInv => TypeOK
  <2> SUFFICES ASSUME IInv PROVE TypeOK
    OBVIOUS
  <2>1. DOMAIN disk = DOMAIN Empty
    BY EmptyOK DEF IInv, DiskOK
  <2>2. /\ disk["registry"] \in [Partners -> Rows \cup {None}]
        /\ disk["sandbox"] \in [Partners -> BOOLEAN] /\ disk["production"] \in [Partners -> Nat]
    BY ContentsAre DEF IInv, DiskOK, Content, Files
  <2>3. wiped \subseteq DOMAIN Empty
    BY EmptyOK DEF IInv, RestOK
  <2>4. \A a \in Actors : mem[a] # None => Does(a, "rewrite") /\ mem[a].file = Head(todo[a]).file
    BY DEF IInv, ActorsOK, CopyOK
  <2> QED BY <2>1, <2>2, <2>3, <2>4 DEF TypeOK, IInv, RestOK
<1> QED BY <1>1, Invariant, PTL

\* A row that says ready carries its milestones, no flag and nothing that costs a flag,
\* however chains, the event loop and the command line overwrite each other's rows.
THEOREM ReadyEarned == Spec => []ReadyIsEarned
<1>1. IInv => ReadyIsEarned
  <2> SUFFICES ASSUME IInv, NEW p \in Partners, Row(p) # None
               PROVE  EarnedRow(Row(p))
    BY DEF ReadyIsEarned, EarnedRow
  <2>1. Content("registry", disk["registry"])
    BY DEF IInv, DiskOK, Files
  <2> QED BY <2>1 DEF Content, Row
<1> QED BY <1>1, Invariant, PTL
=============================================================================
