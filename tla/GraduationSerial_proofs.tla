----------------------- MODULE GraduationSerial_proofs -----------------------
(***************************************************************************)
(* Proofs about PartnerGraduation when the event loop is the only writer:  *)
(* the operator graduates through the server, and chains have no tool the  *)
(* gate refuses.  For any number of partners, requests and crashes, what   *)
(* is graduated stays graduated, has one key, and what is ready is clean.  *)
(* The last section shows that the loop implements PartnerLifecycle.       *)
(*                                                                         *)
(* A rewrite of a file takes three steps, but only the second one, Open,   *)
(* is the point where the rewrite happens: View is what the file holds     *)
(* when the loop has finished what it is at, Rest the steps after it.      *)
(***************************************************************************)
EXTENDS PartnerGraduation_proofs

Serial == Operators \subseteq {Loop} /\ "blocked_tool" \notin Kinds

-----------------------------------------------------------------------------
(* The loop is alone *)

Rest == IF Opened THEN Tail(todo[Loop]) ELSE todo[Loop]

\* Nobody else has anything to do, and what the loop is about to write was computed from
\* the file as it is.
Alone ==
  /\ \A a \in Actors \ {Loop} : todo[a] = <<>> /\ mem[a] = None
  /\ Opened => disk[mem[Loop].file] = Empty[mem[Loop].file]
  /\ (mem[Loop] # None /\ ~Opened) =>
       LET s == Head(todo[Loop])
       IN  /\ Writes(s.file, disk[s.file], s.p, s.marks)
           /\ \E burst \in BOOLEAN :
                mem[Loop].content = Rewritten(s.file, disk[s.file], s.p, s.marks, burst)

-----------------------------------------------------------------------------
(* Where the loop is *)

Bad == {"emergency_stop", "blocked_tool", "blocked_path"}
BadEvents(p) == log[p]["emergency_stop"] + log[p]["blocked_tool"] + log[p]["blocked_path"]

Reg(p) == View("registry")[p]
HasRow(p) == Reg(p) # None
Marked(p) == HasRow(p) /\ Reg(p).status = "graduated"
Candidate(p) == HasRow(p) /\ Reg(p).status # "graduated"
HoldsSandbox(p) == View("sandbox")[p]
Held(p) == View("production")[p]

\* The step costs the row of p what the log has counted.
Charges(s, p) == s.do = "rewrite" /\ s.file = "registry" /\ s.p = p /\ s.marks \cap Bad # {}

PlainStep(s) ==
  /\ s.p \in registered
  /\ \/ s.do = "rewrite" /\ s.file = "registry" /\ "graduate" \notin s.marks
     \/ s.do = "rewrite" /\ s.file = "production" /\ "issue" \notin s.marks
     \/ s.do = "note" /\ s.kind # "graduation_log"
\* Steps that neither register nor graduate; a bad event is charged right after its note.
Plain(t) ==
  \A i \in DOMAIN t :
    /\ PlainStep(t[i])
    /\ (t[i].do = "note" /\ t[i].kind \in Bad) => i + 1 \in DOMAIN t /\ Charges(t[i + 1], t[i].p)

\* The rest of a registration and of a graduation.
Registering(p) == Rewrite("sandbox", p, {"issue"}) \o SecurityEvent("registered", p)
Noting(p) == Note("graduation_log", p) \o SecurityEvent("graduated", p)
Marking(p) == Rewrite("registry", p, {"graduate"}) \o Noting(p)
Revoking(p) == Rewrite("sandbox", p, {"revoke"}) \o Marking(p)
Issuing(p) == Rewrite("production", p, {"issue"}) \o Revoking(p)

\* Nothing is known of p yet.
Unknown(p) ==
  /\ ~HasRow(p) /\ ~HoldsSandbox(p) /\ Held(p) = 0
  /\ BadEvents(p) = 0 /\ log[p]["graduation_log"] = 0

OnCourse(p) ==
  \/ Rest = Registration(p) /\ Unknown(p)
  \/ Rest = Registering(p) /\ Candidate(p)
  \/ Rest = Graduation(p)
  \/ Rest = Issuing(p) /\ Candidate(p)
  \/ Rest = Revoking(p) /\ Candidate(p) /\ Held(p) > 0
  \/ Rest = Marking(p) /\ Candidate(p) /\ Held(p) > 0 /\ ~HoldsSandbox(p)
  \/ Rest = Noting(p) /\ Marked(p)

Course == Plain(Rest) \/ \E p \in registered : OnCourse(p)

-----------------------------------------------------------------------------
(* What is true of a partner *)

\* The loop is about to revoke the sandbox key of p, or to mark its row.
Keyed(p) ==
  /\ Rest # <<>>
  /\ LET s == Head(Rest)
     IN  /\ s.do = "rewrite" /\ s.p = p
         /\ \/ s.file = "sandbox" /\ "revoke" \in s.marks
            \/ s.file = "registry" /\ "graduate" \in s.marks
Owed(p) == IF Rest # <<>> /\ Charges(Head(Rest), p) THEN 1 ELSE 0

KeyOK(p) == Marked(p) => ~HoldsSandbox(p) /\ (Held(p) > 0 \/ "production" \in wiped)
FinalOK(p) ==
  log[p]["graduation_log"] > 0 => Marked(p) \/ (~HasRow(p) /\ "registry" \in wiped)
KeysOK(p) ==
  Held(p) <= crashes \/ (Held(p) <= crashes + 1 /\ (Candidate(p) => Keyed(p)))
CleanOK(p) ==
  HasRow(p) => BadEvents(p) <= crashes + Reg(p).stops + Reg(p).blocked + Owed(p)

PartnerOK(p) ==
  /\ p \notin registered => Unknown(p)
  /\ KeyOK(p) /\ FinalOK(p) /\ KeysOK(p) /\ CleanOK(p)

SInv ==
  /\ Alone /\ Course /\ crashes \in Nat
  /\ \A p \in Partners : PartnerOK(p)
  /\ \A c \in Chains : chain[c] # None => chain[c] \in registered
-----------------------------------------------------------------------------
(* The steps of the loop, with every rewrite in one *)

SameViews(files) == \A f \in files : View(f)' = View(f)
Advanced == Rest # <<>> /\ Rest' = Tail(Rest)

Stands == SameViews(Files) /\ Rest' = Rest /\ UNCHANGED <<log, registered, wiped, crashes>>

Rewrites ==
  \E s \in {Head(Rest)} :
    /\ Advanced /\ s.do = "rewrite"
    /\ \/ ~Writes(s.file, View(s.file), s.p, s.marks) /\ SameViews(Files)
       \/ /\ Writes(s.file, View(s.file), s.p, s.marks)
          /\ \E burst \in BOOLEAN :
               View(s.file)' = Rewritten(s.file, View(s.file), s.p, s.marks, burst)
          /\ SameViews(Files \ {s.file})
    /\ UNCHANGED <<log, registered, wiped, crashes>>

Appends ==
  /\ Advanced /\ Head(Rest).do = "append"
  /\ View("registry")' = [View("registry") EXCEPT ![Head(Rest).p] = NewRow]
  /\ SameViews(Files \ {"registry"})
  /\ UNCHANGED <<log, registered, wiped, crashes>>

Notes ==
  LET s == Head(Rest)
  IN  /\ Advanced /\ s.do = "note"
      /\ log' = [log EXCEPT ![s.p][s.kind] = @ + 1]
      /\ SameViews(Files) /\ UNCHANGED <<registered, wiped, crashes>>

Assesses ==
  /\ Rest # <<>> /\ Head(Rest).do = "assess"
  /\ \/ Candidate(Head(Rest).p) /\ Rest' = Tail(Rest)
     \/ Rest' = <<>>
  /\ SameViews(Files) /\ UNCHANGED <<log, registered, wiped, crashes>>

Begins(steps, known) ==
  /\ Rest = <<>> /\ Rest' = steps /\ registered' = known
  /\ SameViews(Files) /\ UNCHANGED <<log, wiped, crashes>>

Dies ==
  /\ Rest' = <<>> /\ crashes' = crashes + 1 /\ UNCHANGED <<log, registered>>
  /\ wiped \subseteq wiped'
  /\ \A f \in Files : View(f)' = View(f) \/ (View(f)' = Empty[f] /\ f \in wiped')
  /\ \E f \in Files : SameViews(Files \ {f})

-----------------------------------------------------------------------------
(* Every step of the model is one of them *)

LEMMA LoopIsActor == Loop \in Actors /\ Loop \in Server /\ Cli \in Actors
  BY DEF Actors, Server

LEMMA OnlyLoopGoesOn ==
  ASSUME Alone, NEW a \in Actors, Continue(a)
  PROVE  a = Loop
  BY DEF Alone, Continue, AppendRow, WriteLog, Read, Open, Write, Assess, Does, Idle

\* What the loop finds when it has no copy in memory.
LEMMA NoCopy ==
  ASSUME mem[Loop] = None
  PROVE  ~Opened /\ Rest = todo[Loop] /\ \A f : View(f) = disk[f]
  BY DEF Opened, Rest, View

LEMMA NoCopyNext ==
  ASSUME mem'[Loop] = None
  PROVE  ~Opened' /\ Rest' = todo'[Loop] /\ \A f : View(f)' = disk'[f]
  BY DEF Opened, Rest, View

\* The others keep still as long as the loop has no copy.
LEMMA AloneKept ==
  ASSUME IInv, Alone, NEW steps, todo' = [todo EXCEPT ![Loop] = steps], mem' = mem,
         mem[Loop] = None
  PROVE  Alone'
<1>1. \A a \in Actors \ {Loop} : todo'[a] = todo[a]
  BY DEF IInv, ActorsOK
<1> QED BY <1>1 DEF Alone, Opened

LEMMA AppendRowLinear ==
  ASSUME IInv, Alone, AppendRow(Loop)
  PROVE  Alone' /\ Appends
<1>1. mem[Loop] = None /\ mem' = mem /\ todo[Loop] # <<>>
  BY LoopIsActor, IdleHasNoCopy DEF AppendRow, Does, Idle
<1>2. todo' = [todo EXCEPT ![Loop] = Tail(todo[Loop])] /\ todo'[Loop] = Tail(todo[Loop])
  BY LoopIsActor DEF AppendRow, Advance, IInv, ActorsOK
<1>3. disk' = [disk EXCEPT !["registry"] = [disk["registry"] EXCEPT ![Target(Loop)] = NewRow]]
  BY DEF AppendRow
<1>4. /\ disk'["registry"] = [disk["registry"] EXCEPT ![Target(Loop)] = NewRow]
      /\ \A f \in Files \ {"registry"} : disk'[f] = disk[f]
  BY <1>3 DEF IInv, DiskOK, Files
<1>5. /\ Rest = todo[Loop] /\ \A f : View(f) = disk[f]
      /\ Rest' = todo'[Loop] /\ \A f : View(f)' = disk'[f]
  BY <1>1, NoCopy, NoCopyNext
<1>6. Alone'
  BY <1>1, <1>2, AloneKept
<1>7. Head(Rest).do = "append" /\ Target(Loop) = Head(Rest).p
  BY <1>5 DEF AppendRow, Does, Target
<1> QED BY <1>1, <1>2, <1>4, <1>5, <1>6, <1>7 DEF Appends, Advanced, SameViews, AppendRow

LEMMA WriteLogLinear ==
  ASSUME IInv, Alone, WriteLog(Loop)
  PROVE  Alone' /\ Notes
<1>1. mem[Loop] = None /\ mem' = mem /\ todo[Loop] # <<>>
  BY LoopIsActor, IdleHasNoCopy DEF WriteLog, Does, Idle
<1>2. todo' = [todo EXCEPT ![Loop] = Tail(todo[Loop])] /\ todo'[Loop] = Tail(todo[Loop])
  BY LoopIsActor DEF WriteLog, Advance, IInv, ActorsOK
<1>3. /\ Rest = todo[Loop] /\ \A f : View(f) = disk[f]
      /\ Rest' = todo'[Loop] /\ \A f : View(f)' = disk'[f]
  BY <1>1, NoCopy, NoCopyNext
<1>4. Alone'
  BY <1>1, <1>2, AloneKept
<1>5. Head(Rest).do = "note" /\ Target(Loop) = Head(Rest).p
  BY <1>3 DEF WriteLog, Does, Target
<1> QED BY <1>1, <1>2, <1>3, <1>4, <1>5 DEF Notes, Advanced, SameViews, WriteLog

LEMMA AssessLinear ==
  ASSUME IInv, Alone, Assess(Loop)
  PROVE  Alone' /\ Assesses
<1>1. mem[Loop] = None /\ mem' = mem /\ todo[Loop] # <<>>
  BY LoopIsActor, IdleHasNoCopy DEF Assess, Does, Idle
<1>2. /\ Rest = todo[Loop] /\ \A f : View(f) = disk[f]
      /\ Rest' = todo'[Loop] /\ \A f : View(f)' = disk'[f]
  BY <1>1, NoCopy, NoCopyNext
<1>3. PICK steps \in {<<>>, Tail(todo[Loop])} :
        /\ todo' = [todo EXCEPT ![Loop] = steps]
        /\ steps = <<>> \/ (steps = Tail(todo[Loop]) /\ Candidate(Target(Loop)))
  BY <1>2 DEF Assess, Advance, Candidate, HasRow, Reg
<1>4. todo'[Loop] = steps
  <2>1. todo' = [todo EXCEPT ![Loop] = steps]
    BY <1>3
  <2> QED BY <2>1, LoopIsActor DEF IInv, ActorsOK
<1>5. Alone'
  <2>1. todo' = [todo EXCEPT ![Loop] = steps]
    BY <1>3
  <2> QED BY <1>1, <2>1, AloneKept
<1>6. Head(Rest).do = "assess" /\ Target(Loop) = Head(Rest).p
  BY <1>2 DEF Assess, Does, Target
<1> QED BY <1>1, <1>2, <1>3, <1>4, <1>5, <1>6 DEF Assesses, SameViews, Assess

LEMMA ReadLinear ==
  ASSUME IInv, Alone, Read(Loop)
  PROVE  Alone' /\ (Stands \/ Rewrites)
<1>1. mem[Loop] = None /\ todo[Loop] # <<>> /\ Does(Loop, "rewrite")
  BY DEF Read, Does, Idle
<1>2. PICK s : s = Head(todo[Loop])
  OBVIOUS
<1>3. Rest = todo[Loop] /\ \A f : View(f) = disk[f]
  BY <1>1, NoCopy
<1>4. CASE Writes(s.file, disk[s.file], s.p, s.marks)
  <2>1. PICK burst \in Bursts(s.p) :
          mem' = [mem EXCEPT ![Loop] =
                    [file |-> s.file, open |-> FALSE,
                     content |-> Rewritten(s.file, disk[s.file], s.p, s.marks, burst)]]
    BY <1>2, <1>4 DEF Read
  <2>2. UNCHANGED <<disk, todo, log, registered, wiped, crashes>>
    BY <1>2, <1>4 DEF Read
  <2>3. burst \in BOOLEAN
    BY DEF Bursts
  <2>4. /\ mem'[Loop].open = FALSE
        /\ mem'[Loop].content = Rewritten(s.file, disk[s.file], s.p, s.marks, burst)
        /\ \A a \in Actors \ {Loop} : mem'[a] = mem[a]
    BY <2>1, LoopIsActor DEF IInv, ActorsOK
  <2>5. ~Opened'
    BY <2>4 DEF Opened
  <2>6. Alone'
    BY <1>2, <1>4, <2>2, <2>3, <2>4, <2>5 DEF Alone
  <2>7. Rest' = todo[Loop] /\ \A f : View(f)' = disk[f]
    BY <2>2, <2>5 DEF Rest, View
  <2> QED BY <1>3, <2>2, <2>6, <2>7 DEF Stands, SameViews
<1>5. CASE ~Writes(s.file, disk[s.file], s.p, s.marks)
  <2>1. /\ todo' = [todo EXCEPT ![Loop] = Tail(todo[Loop])]
        /\ UNCHANGED <<mem, disk, log, registered, wiped, crashes>>
    BY <1>2, <1>5 DEF Read, Advance
  <2>2. todo'[Loop] = Tail(todo[Loop])
    BY <2>1, LoopIsActor DEF IInv, ActorsOK
  <2>3. Alone'
    BY <1>1, <2>1, AloneKept
  <2>4. Rest' = todo'[Loop] /\ \A f : View(f)' = disk'[f]
    BY <1>1, <2>1, NoCopyNext
  <2>5. s.do = "rewrite"
    BY <1>1, <1>2 DEF Does
  <2>6. Advanced /\ SameViews(Files)
    BY <1>1, <1>3, <2>1, <2>2, <2>4 DEF Advanced, SameViews
  <2> QED BY <1>2, <1>3, <1>5, <2>1, <2>3, <2>5, <2>6 DEF Rewrites
<1> QED BY <1>4, <1>5

\* The point where a rewrite happens.
LEMMA OpenLinear ==
  ASSUME IInv, Alone, Open(Loop)
  PROVE  Alone' /\ Rewrites
<1> PICK m : m = mem[Loop]
  OBVIOUS
<1> PICK s : s = Head(todo[Loop])
  OBVIOUS
<1> PICK new : new = [m EXCEPT !.open = TRUE]
  OBVIOUS
<1>1. /\ m # None /\ ~m.open /\ m = [k \in {"file", "open", "content"} |-> m[k]]
      /\ Does(Loop, "rewrite") /\ m.file = s.file /\ m.file \in Files
  BY LoopIsActor DEF Open, IInv, ActorsOK, CopyOK
<1>2. ~Opened
  BY <1>1 DEF Opened
<1>3. /\ Writes(s.file, disk[s.file], s.p, s.marks)
      /\ \E burst \in BOOLEAN :
           m.content = Rewritten(s.file, disk[s.file], s.p, s.marks, burst)
  BY <1>1, <1>2 DEF Alone
<1>4. /\ mem' = [mem EXCEPT ![Loop] = new] /\ disk' = [disk EXCEPT ![m.file] = Empty[m.file]]
      /\ UNCHANGED <<log, registered, todo, wiped, crashes>>
  BY DEF Open
<1>5. mem'[Loop] = new /\ \A a \in Actors \ {Loop} : mem'[a] = mem[a]
  BY <1>4, LoopIsActor DEF IInv, ActorsOK
<1>6. /\ disk'[m.file] = Empty[m.file]
      /\ \A f \in Files \ {m.file} : disk'[f] = disk[f]
  BY <1>1, <1>4 DEF IInv, DiskOK
<1>7. new.open = TRUE /\ new.file = m.file /\ new.content = m.content
  BY <1>1
<1>8. mem'[Loop] # None
  <2>1. m.content \in Contents[m.file]
    BY <1>1, LoopIsActor DEF IInv, ActorsOK, CopyOK, Content
  <2>2. new \in Copies(m.file)
    <3>1. new = [file |-> m.file, open |-> TRUE, content |-> m.content]
      BY <1>1
    <3> QED BY <1>1, <2>1, <3>1 DEF Copies
  <2> QED BY <1>1, <1>5, <2>2, NoneAssumption
<1>9. Opened' /\ Rest' = Tail(todo[Loop]) /\ Rest = todo[Loop]
  BY <1>2, <1>4, <1>5, <1>7, <1>8 DEF Opened, Rest
<1>10. Alone'
  <2>1. \A a \in Actors \ {Loop} : todo'[a] = <<>> /\ mem'[a] = None
    BY <1>4, <1>5 DEF Alone
  <2>2. disk'[mem'[Loop].file] = Empty[mem'[Loop].file]
    BY <1>5, <1>6, <1>7
  <2> QED BY <1>9, <2>1, <2>2 DEF Alone
<1>11. \A f : View(f) = disk[f]
  BY <1>2 DEF View
<1>12. View(m.file)' = m.content /\ \A f \in Files \ {m.file} : View(f)' = disk[f]
  BY <1>5, <1>6, <1>7, <1>9 DEF View
<1>13. Advanced /\ Head(Rest) = s /\ s.do = "rewrite"
  BY <1>1, <1>9 DEF Advanced, Does, Idle
<1>14. SameViews(Files \ {s.file})
  BY <1>1, <1>11, <1>12 DEF SameViews
<1>15. \E burst \in BOOLEAN :
         View(s.file)' = Rewritten(s.file, View(s.file), s.p, s.marks, burst)
  BY <1>1, <1>3, <1>11, <1>12
<1>16. Writes(s.file, View(s.file), s.p, s.marks)
  BY <1>3, <1>11
<1> QED BY <1>4, <1>10, <1>13, <1>14, <1>15, <1>16 DEF Rewrites

LEMMA WriteLinear ==
  ASSUME IInv, Alone, Write(Loop)
  PROVE  Alone' /\ Stands
<1> PICK m : m = mem[Loop]
  OBVIOUS
<1>1. /\ m # None /\ m.open /\ m.file \in Files
      /\ Does(Loop, "rewrite")
  BY LoopIsActor DEF Write, IInv, ActorsOK, CopyOK
<1>2. Opened /\ Rest = Tail(todo[Loop])
  BY <1>1 DEF Opened, Rest
<1>3. /\ disk' = [disk EXCEPT ![m.file] = m.content] /\ mem' = [mem EXCEPT ![Loop] = None]
      /\ todo' = [todo EXCEPT ![Loop] = Tail(todo[Loop])]
      /\ UNCHANGED <<log, registered, wiped, crashes>>
  BY DEF Write, Advance
<1>4. /\ mem'[Loop] = None /\ todo'[Loop] = Tail(todo[Loop])
      /\ \A a \in Actors \ {Loop} : mem'[a] = mem[a] /\ todo'[a] = todo[a]
  BY <1>3, LoopIsActor DEF IInv, ActorsOK
<1>5. /\ ~Opened' /\ Rest' = todo'[Loop] /\ \A f : View(f)' = disk'[f]
  BY <1>4, NoCopyNext
<1>6. \A f \in Files : disk'[f] = View(f)
  BY <1>1, <1>2, <1>3 DEF IInv, DiskOK, View
<1>7. Alone'
  BY <1>4, <1>5 DEF Alone
<1> QED BY <1>2, <1>3, <1>4, <1>5, <1>6, <1>7 DEF Stands, SameViews

LEMMA StartLinear ==
  ASSUME IInv, Alone, NEW steps \in Seq(Steps), Start(Loop, steps),
         UNCHANGED <<disk, log, mem, wiped, crashes>>
  PROVE  Alone' /\ Begins(steps, registered')
<1>1. mem[Loop] = None /\ todo[Loop] = <<>>
  BY LoopIsActor, IdleHasNoCopy DEF Start, Idle
<1>2. todo' = [todo EXCEPT ![Loop] = steps] /\ mem' = mem
  BY DEF Start
<1>3. todo'[Loop] = steps
  BY <1>2, LoopIsActor DEF IInv, ActorsOK
<1>4. /\ Rest = todo[Loop] /\ \A f : View(f) = disk[f]
      /\ Rest' = todo'[Loop] /\ \A f : View(f)' = disk'[f]
  BY <1>1, <1>2, NoCopy, NoCopyNext
<1>5. Alone'
  BY <1>1, <1>2, AloneKept
<1> QED BY <1>1, <1>3, <1>4, <1>5 DEF Begins, SameViews

\* A chain begins or fails beside what the loop is at.
LEMMA NothingWritten ==
  ASSUME Alone, UNCHANGED <<disk, log, registered, todo, mem, wiped, crashes>>
  PROVE  Alone' /\ Stands
<1>1. Rest' = Rest /\ (Opened' <=> Opened) /\ \A f : View(f)' = View(f)
  BY DEF Rest, Opened, View
<1> QED BY <1>1 DEF Alone, Stands, SameViews

LEMMA CrashLinear ==
  ASSUME IInv, Alone, NEW dead \in {Server, {Cli}}, Crash(dead), crashes \in Nat
  PROVE  Alone' /\ Dies
<1>1. /\ todo' = [a \in Actors |-> IF a \in dead THEN <<>> ELSE todo[a]]
      /\ mem' = [a \in Actors |-> IF a \in dead THEN None ELSE mem[a]]
      /\ wiped' = wiped \cup {mem[a].file : a \in {b \in dead : mem[b] # None /\ mem[b].open}}
      /\ crashes' = crashes + 1 /\ UNCHANGED <<disk, log, registered>>
  BY DEF Crash
<1>2. dead = Server
  <2>1. ~Idle(Cli) => Cli = Loop
    BY LoopIsActor DEF Alone, Idle
  <2>2. Cli # Loop
    BY ConstantsAssumption
  <2> QED BY <2>1, <2>2 DEF Crash
<1>3. /\ todo'[Loop] = <<>> /\ mem'[Loop] = None
      /\ \A a \in Actors \ {Loop} : todo'[a] = <<>> /\ mem'[a] = None
  BY <1>1, <1>2, LoopIsActor DEF Alone
<1>4. ~Opened' /\ Rest' = <<>> /\ \A f : View(f)' = disk[f]
  BY <1>1, <1>3, NoCopyNext
<1>5. Alone'
  BY <1>3, <1>4 DEF Alone
<1>6. ASSUME NEW f \in Files
      PROVE  View(f)' = View(f) \/ (View(f)' = Empty[f] /\ f \in wiped')
  <2>1. CASE Opened /\ mem[Loop].file = f
    <3>1. disk[f] = Empty[f]
      BY <2>1 DEF Alone
    <3>2. f \in wiped'
      BY <1>1, <1>2, <2>1, LoopIsActor DEF Opened
    <3> QED BY <1>4, <3>1, <3>2
  <2>2. CASE ~(Opened /\ mem[Loop].file = f)
    BY <1>4, <2>2 DEF View
  <2> QED BY <2>1, <2>2
<1>7. \E f \in Files : SameViews(Files \ {f})
  <2>1. CASE Opened
    <3>1. mem[Loop].file \in Files
      BY <2>1, LoopIsActor DEF Opened, IInv, ActorsOK, CopyOK
    <3> QED BY <1>4, <3>1 DEF SameViews, View
  <2>2. CASE ~Opened
    BY <1>4, <2>2, KindsAreMarks DEF SameViews, View
  <2> QED BY <2>1, <2>2
<1> QED BY <1>1, <1>4, <1>5, <1>6, <1>7 DEF Dies

-----------------------------------------------------------------------------
(* Plain lists *)

LEMMA PlainPieces ==
  ASSUME NEW p \in registered
  PROVE  /\ Plain(<<>>)
         /\ \A marks : "graduate" \notin marks => Plain(Rewrite("registry", p, marks))
         /\ Plain(Rewrite("production", p, {}))
         /\ \A kind \in LogKinds \ {"graduation_log"} : Plain(SecurityEvent(kind, p))
<1>1. Plain(<<>>)
  BY DEF Plain
<1>2. ASSUME NEW marks, "graduate" \notin marks
      PROVE  Plain(Rewrite("registry", p, marks))
  BY <1>2 DEF Plain, PlainStep, Rewrite
<1>3. Plain(Rewrite("production", p, {}))
  BY DEF Plain, PlainStep, Rewrite
<1>4. ASSUME NEW kind, kind # "graduation_log", kind # "graduate"
      PROVE  Plain(SecurityEvent(kind, p))
  <2> DEFINE n == [do |-> "note", p |-> p, kind |-> kind]
             r == [do |-> "rewrite", file |-> "registry", p |-> p, marks |-> {kind}]
  <2>1. SecurityEvent(kind, p) = <<n>> \o <<r>>
    BY DEF SecurityEvent, Note, Rewrite
  <2>2. /\ n.do = "note" /\ n.p = p /\ n.kind = kind
        /\ r.do = "rewrite" /\ r.file = "registry" /\ r.p = p /\ r.marks = {kind}
    OBVIOUS
  <2> HIDE DEF n, r
  <2>3. PlainStep(n) /\ PlainStep(r) /\ r.do # "note"
    BY <1>4, <2>2 DEF PlainStep
  <2>4. kind \in Bad => Charges(r, p)
    BY <2>2 DEF Charges
  <2>5. <<n>> \in Seq({n, r}) /\ <<r>> \in Seq({n, r})
    OBVIOUS
  <2>6. /\ DOMAIN (<<n>> \o <<r>>) = 1 .. 2
        /\ (<<n>> \o <<r>>)[1] = n /\ (<<n>> \o <<r>>)[2] = r
    BY <2>5, ConcatProperties
  <2> QED BY <2>1, <2>2, <2>3, <2>4, <2>6 DEF Plain
<1>5. \A kind \in LogKinds : kind # "graduate"
  BY DEF LogKinds, Offences
<1> QED BY <1>1, <1>2, <1>3, <1>4, <1>5

LEMMA PlainConcat ==
  ASSUME NEW s \in Seq(Steps), NEW t \in Seq(Steps), Plain(s), Plain(t)
  PROVE  Plain(s \o t)
<1>1. SUFFICES ASSUME NEW i \in DOMAIN (s \o t)
               PROVE  /\ PlainStep((s \o t)[i])
                      /\ ((s \o t)[i].do = "note" /\ (s \o t)[i].kind \in Bad) =>
                           /\ i + 1 \in DOMAIN (s \o t)
                           /\ Charges((s \o t)[i + 1], (s \o t)[i].p)
  BY DEF Plain
<1>2. /\ DOMAIN s = 1 .. Len(s) /\ DOMAIN t = 1 .. Len(t) /\ Len(s) \in Nat /\ Len(t) \in Nat
      /\ DOMAIN (s \o t) = 1 .. Len(s) + Len(t)
      /\ \A k \in 1 .. Len(s) : (s \o t)[k] = s[k]
      /\ \A k \in Len(s) + 1 .. Len(s) + Len(t) : (s \o t)[k] = t[k - Len(s)]
  BY ConcatProperties
<1>3. CASE i \in DOMAIN s
  <2>1. (s \o t)[i] = s[i] /\ PlainStep(s[i])
    BY <1>2, <1>3 DEF Plain
  <2>2. ASSUME s[i].do = "note", s[i].kind \in Bad
        PROVE  i + 1 \in DOMAIN (s \o t) /\ Charges((s \o t)[i + 1], s[i].p)
    <3>1. i + 1 \in DOMAIN s /\ Charges(s[i + 1], s[i].p)
      BY <1>3, <2>2 DEF Plain
    <3>2. i + 1 \in DOMAIN (s \o t) /\ (s \o t)[i + 1] = s[i + 1]
      BY <1>2, <3>1
    <3> QED BY <3>1, <3>2
  <2> QED BY <2>1, <2>2
<1>4. CASE i \notin DOMAIN s
  <2> DEFINE k == i - Len(s)
  <2>1. k \in DOMAIN t /\ (s \o t)[i] = t[k]
    BY <1>1, <1>2, <1>4
  <2>2. PlainStep(t[k])
    BY <2>1 DEF Plain
  <2>3. ASSUME t[k].do = "note", t[k].kind \in Bad
        PROVE  i + 1 \in DOMAIN (s \o t) /\ Charges((s \o t)[i + 1], t[k].p)
    <3>1. k + 1 \in DOMAIN t /\ Charges(t[k + 1], t[k].p)
      BY <2>1, <2>3 DEF Plain
    <3>2. i + 1 \in DOMAIN (s \o t) /\ (s \o t)[i + 1] = t[k + 1]
      BY <1>1, <1>2, <1>4, <3>1
    <3> QED BY <3>1, <3>2
  <2> QED BY <2>1, <2>2, <2>3
<1> QED BY <1>3, <1>4

LEMMA PlainTail ==
  ASSUME NEW t \in Seq(Steps), t # <<>>, Plain(t)
  PROVE  /\ PlainStep(Head(t)) /\ Plain(Tail(t))
         /\ (Head(t).do = "note" /\ Head(t).kind \in Bad) =>
              Tail(t) # <<>> /\ Charges(Head(Tail(t)), Head(t).p)
<1> DEFINE u == Tail(t)
<1>1. /\ Len(t) \in Nat /\ DOMAIN t = 1 .. Len(t) /\ 1 \in DOMAIN t /\ Head(t) = t[1]
      /\ u \in Seq(Steps) /\ Len(u) = Len(t) - 1 /\ DOMAIN u = 1 .. Len(u)
      /\ \A i \in DOMAIN u : u[i] = t[i + 1] /\ i + 1 \in DOMAIN t
  OBVIOUS
<1>2. Plain(u)
  <2>1. SUFFICES ASSUME NEW i \in DOMAIN u
                 PROVE  /\ PlainStep(u[i])
                        /\ (u[i].do = "note" /\ u[i].kind \in Bad) =>
                             i + 1 \in DOMAIN u /\ Charges(u[i + 1], u[i].p)
    BY DEF Plain
  <2>2. u[i] = t[i + 1] /\ i + 1 \in DOMAIN t /\ i \in Nat
    BY <1>1
  <2>3. /\ PlainStep(t[i + 1])
        /\ (t[i + 1].do = "note" /\ t[i + 1].kind \in Bad) =>
             (i + 1) + 1 \in DOMAIN t /\ Charges(t[(i + 1) + 1], t[i + 1].p)
    BY <2>2 DEF Plain
  <2>4. (i + 1) + 1 \in DOMAIN t => i + 1 \in DOMAIN u /\ u[i + 1] = t[(i + 1) + 1]
    BY <1>1, <2>2
  <2> QED BY <2>2, <2>3, <2>4
<1>3. PlainStep(Head(t))
  BY <1>1 DEF Plain
<1>4. ASSUME Head(t).do = "note", Head(t).kind \in Bad
      PROVE  u # <<>> /\ Charges(Head(u), Head(t).p)
  <2>1. 1 + 1 \in DOMAIN t /\ Charges(t[1 + 1], t[1].p)
    BY <1>1, <1>4 DEF Plain
  <2>2. 1 \in DOMAIN u /\ u # <<>> /\ Head(u) = t[1 + 1]
    BY <1>1, <2>1
  <2> QED BY <1>1, <2>1, <2>2
<1> QED BY <1>2, <1>3, <1>4

LEMMA PlainAftermath ==
  ASSUME NEW p \in registered, p \in Partners, NEW summary \in Summaries
  PROVE  Plain(Aftermath(p, summary))
<1> DEFINE reviewed == Rewrite("registry", p, {"recruitment_ready"})
           first == IF "recruiter_entry" \in summary /\ ~("emergency_stop" \in summary)
                    THEN reviewed ELSE <<>>
           second == IF "emergency_stop" \in summary THEN SecurityEvent("emergency_stop", p)
                     ELSE <<>>
           third == IF "ready_to_send" \in summary THEN reviewed ELSE <<>>
           own == Rewrite("registry", p, summary)
<1>1. /\ own \in Seq(Steps) /\ reviewed \in Seq(Steps)
      /\ SecurityEvent("emergency_stop", p) \in Seq(Steps) /\ <<>> \in Seq(Steps)
  BY RewriteType, SecurityEventType, KindsAreMarks
<1>2. "graduate" \notin summary
  BY ConstantsAssumption DEF SummaryFlags
<1>3. /\ Plain(own) /\ Plain(reviewed) /\ Plain(SecurityEvent("emergency_stop", p))
      /\ Plain(<<>>)
  BY <1>2, PlainPieces, KindsAreMarks
<1>4. Aftermath(p, summary) = own \o first \o second \o third
  BY DEF Aftermath
<1>5. first \in Seq(Steps) /\ second \in Seq(Steps) /\ third \in Seq(Steps)
  BY <1>1
<1>6. Plain(first) /\ Plain(second) /\ Plain(third)
  BY <1>3
<1> HIDE DEF own, reviewed, first, second, third
<1>7. own \o first \in Seq(Steps) /\ Plain(own \o first)
  BY <1>1, <1>3, <1>5, <1>6, PlainConcat, ConcatProperties
<1>8. own \o first \o second \in Seq(Steps) /\ Plain(own \o first \o second)
  BY <1>5, <1>6, <1>7, PlainConcat, ConcatProperties
<1> QED BY <1>4, <1>5, <1>6, <1>8, PlainConcat

-----------------------------------------------------------------------------
(* The lists that register and graduate, step by step *)

LEMMA FirstAndRest ==
  ASSUME NEW x \in Steps, NEW t \in Seq(Steps)
  PROVE  Head(<<x>> \o t) = x /\ Tail(<<x>> \o t) = t /\ <<x>> \o t # <<>>
OBVIOUS

\* What the loop does next when it registers or graduates.
Does1(t, what, p, rest) ==
  t # <<>> /\ Head(t).do = what /\ Head(t).p = p /\ Tail(t) = rest
Rewrites1(t, f, p, marks, rest) ==
  Does1(t, "rewrite", p, rest) /\ Head(t).file = f /\ Head(t).marks = marks

LEMMA ListTypes ==
  ASSUME NEW p \in Partners
  PROVE  /\ Registering(p) \in Seq(Steps) /\ SecurityEvent("registered", p) \in Seq(Steps)
         /\ SecurityEvent("graduated", p) \in Seq(Steps) /\ Noting(p) \in Seq(Steps)
         /\ Marking(p) \in Seq(Steps) /\ Revoking(p) \in Seq(Steps)
         /\ Issuing(p) \in Seq(Steps)
<1>1. \A s, t \in Seq(Steps) : s \o t \in Seq(Steps)
  BY ConcatProperties
<1>2. /\ SecurityEvent("registered", p) \in Seq(Steps)
      /\ SecurityEvent("graduated", p) \in Seq(Steps)
  BY SecurityEventType, KindsAreMarks
<1>3. Registering(p) \in Seq(Steps)
  BY <1>1, <1>2, RewriteType, KindsAreMarks DEF Registering
<1>4. Noting(p) \in Seq(Steps)
  BY <1>1, <1>2, NoteType, KindsAreMarks DEF Noting
<1>5. Marking(p) \in Seq(Steps)
  BY <1>1, <1>4, RewriteType, KindsAreMarks DEF Marking
<1>6. Revoking(p) \in Seq(Steps)
  BY <1>1, <1>5, RewriteType, KindsAreMarks DEF Revoking
<1>7. Issuing(p) \in Seq(Steps)
  BY <1>1, <1>6, RewriteType, KindsAreMarks DEF Issuing
<1> QED BY <1>2, <1>3, <1>4, <1>5, <1>6, <1>7

LEMMA RewriteFirst ==
  ASSUME NEW p \in Partners, NEW f \in Files, NEW marks \in SUBSET Marks, NEW t \in Seq(Steps)
  PROVE  Rewrites1(Rewrite(f, p, marks) \o t, f, p, marks, t)
<1> DEFINE x == [do |-> "rewrite", file |-> f, p |-> p, marks |-> marks]
<1>1. x \in Steps /\ x.do = "rewrite" /\ x.file = f /\ x.p = p /\ x.marks = marks
  BY DEF Steps
<1>2. Rewrite(f, p, marks) = <<x>>
  BY DEF Rewrite
<1> HIDE DEF x
<1> QED BY <1>1, <1>2, FirstAndRest DEF Rewrites1, Does1

LEMMA ListSteps ==
  ASSUME NEW p \in Partners
  PROVE  /\ Does1(Registration(p), "append", p, Registering(p))
         /\ Rewrites1(Registering(p), "sandbox", p, {"issue"}, SecurityEvent("registered", p))
         /\ Does1(Graduation(p), "assess", p, Issuing(p))
         /\ Rewrites1(Issuing(p), "production", p, {"issue"}, Revoking(p))
         /\ Rewrites1(Revoking(p), "sandbox", p, {"revoke"}, Marking(p))
         /\ Rewrites1(Marking(p), "registry", p, {"graduate"}, Noting(p))
         /\ Does1(Noting(p), "note", p, SecurityEvent("graduated", p))
         /\ Head(Noting(p)).kind = "graduation_log"
<1>1. Does1(Registration(p), "append", p, Registering(p))
  <2> DEFINE x == [do |-> "append", p |-> p]
  <2>1. x \in Steps /\ x.do = "append" /\ x.p = p /\ <<x>> \in Seq(Steps)
    BY DEF Steps
  <2>2. Rewrite("sandbox", p, {"issue"}) \in Seq(Steps)
    BY RewriteType, KindsAreMarks
  <2>3. Registration(p) = <<x>> \o Registering(p)
    BY <2>1, <2>2, ListTypes, ConcatAssociative DEF Registration, Registering
  <2> HIDE DEF x
  <2> QED BY <2>1, <2>3, ListTypes, FirstAndRest DEF Does1
<1>2. Rewrites1(Registering(p), "sandbox", p, {"issue"}, SecurityEvent("registered", p))
  BY ListTypes, RewriteFirst, KindsAreMarks DEF Registering
<1>3. Rewrites1(Issuing(p), "production", p, {"issue"}, Revoking(p))
  BY ListTypes, RewriteFirst, KindsAreMarks DEF Issuing
<1>4. Rewrites1(Revoking(p), "sandbox", p, {"revoke"}, Marking(p))
  BY ListTypes, RewriteFirst, KindsAreMarks DEF Revoking
<1>5. Rewrites1(Marking(p), "registry", p, {"graduate"}, Noting(p))
  BY ListTypes, RewriteFirst, KindsAreMarks DEF Marking
<1>6. Does1(Noting(p), "note", p, SecurityEvent("graduated", p))
      /\ Head(Noting(p)).kind = "graduation_log"
  <2> DEFINE x == [do |-> "note", p |-> p, kind |-> "graduation_log"]
  <2>1. x \in Steps /\ x.do = "note" /\ x.p = p /\ x.kind = "graduation_log"
    BY KindsAreMarks DEF Steps
  <2>2. Noting(p) = <<x>> \o SecurityEvent("graduated", p)
    BY DEF Noting, Note
  <2> HIDE DEF x
  <2> QED BY <2>1, <2>2, ListTypes, FirstAndRest DEF Does1
<1>7. Does1(Graduation(p), "assess", p, Issuing(p))
  <2> DEFINE x == [do |-> "assess", p |-> p]
             i == Rewrite("production", p, {"issue"})
             r == Rewrite("sandbox", p, {"revoke"})
             m == Rewrite("registry", p, {"graduate"})
             n == Note("graduation_log", p)
             e == SecurityEvent("graduated", p)
  <2>1. x \in Steps /\ x.do = "assess" /\ x.p = p /\ <<x>> \in Seq(Steps)
    BY DEF Steps
  <2>2. i \in Seq(Steps)
    BY RewriteType, KindsAreMarks
  <2>3. r \in Seq(Steps)
    BY RewriteType, KindsAreMarks
  <2>4. m \in Seq(Steps)
    BY RewriteType, KindsAreMarks
  <2>5. n \in Seq(Steps)
    BY NoteType, KindsAreMarks
  <2>6. e \in Seq(Steps)
    BY ListTypes
  <2>7. <<x>> \in Seq(Steps)
    BY <2>1
  <2> HIDE DEF x, i, r, m, n, e
  <2> DEFINE xi == <<x>> \o i
             xir == xi \o r
             xirm == xir \o m
             mne == m \o (n \o e)
             rmne == r \o mne
  <2>8. xi \in Seq(Steps)
    BY <2>2, <2>7, ConcatProperties
  <2>9. xir \in Seq(Steps)
    <3> HIDE DEF xi
    <3> QED BY <2>3, <2>8, ConcatProperties
  <2>10. xirm \in Seq(Steps)
    <3> HIDE DEF xir
    <3> QED BY <2>4, <2>9, ConcatProperties
  <2>11. n \o e \in Seq(Steps)
    BY <2>5, <2>6, ConcatProperties
  <2>12. mne \in Seq(Steps)
    <3> PICK ne : ne = n \o e
      OBVIOUS
    <3> QED BY <2>4, <2>11, ConcatProperties
  <2>13. rmne \in Seq(Steps)
    <3> HIDE DEF mne
    <3> QED BY <2>3, <2>12, ConcatProperties
  <2>14. (xirm \o n) \o e = xirm \o (n \o e)
    <3> HIDE DEF xirm
    <3> QED BY <2>5, <2>6, <2>10, ConcatAssociative
  <2>15. xirm \o (n \o e) = xir \o mne
    <3> HIDE DEF xir
    <3> DEFINE ne == n \o e
    <3>1. ne \in Seq(Steps)
      BY <2>11
    <3>2. (xir \o m) \o ne = xir \o (m \o ne)
      <4> HIDE DEF ne
      <4> QED BY <2>4, <2>9, <3>1, ConcatAssociative
    <3> QED BY <3>2
  <2>16. xir \o mne = xi \o rmne
    <3> HIDE DEF xi, mne
    <3>1. (xi \o r) \o mne = xi \o (r \o mne)
      BY <2>3, <2>8, <2>12, ConcatAssociative
    <3> QED BY <3>1
  <2>17. xi \o rmne = <<x>> \o (i \o rmne)
    <3> HIDE DEF rmne
    <3> QED BY <2>2, <2>7, <2>13, ConcatAssociative
  <2>18. Graduation(p) = <<x>> \o Issuing(p)
    <3>1. Graduation(p) = (xirm \o n) \o e
      BY DEF Graduation, x, i, r, m, n, e
    <3>2. Issuing(p) = i \o rmne
      BY DEF Issuing, Revoking, Marking, Noting, x, i, r, m, n, e
    <3> HIDE DEF xi, xir, xirm, mne, rmne
    <3> QED BY <3>1, <3>2, <2>14, <2>15, <2>16, <2>17
  <2> QED BY <2>1, <2>18, ListTypes, FirstAndRest DEF Does1
<1> QED BY <1>1, <1>2, <1>3, <1>4, <1>5, <1>6, <1>7

-----------------------------------------------------------------------------
(* What the loop begins with *)

Known == \A c \in Chains : chain[c] # None => chain[c] \in registered

Registers == \E p \in Partners \ registered :
               Begins(Registration(p), registered \cup {p})
Graduates == \E p \in registered : Begins(Graduation(p), registered)
BeginsPlain == \E steps \in Seq(Steps) : Plain(steps) /\ Begins(steps, registered)

Linear == \/ Stands \/ Rewrites \/ Appends \/ Notes \/ Assesses
          \/ Registers \/ Graduates \/ BeginsPlain \/ Dies

\* Who is let in has registered.
LEMMA LetInIsKnown ==
  ASSUME IInv, SInv, NEW p \in Partners, LetIn(p)
  PROVE  p \in registered
<1>1. mem[Loop] = None
  BY LoopIsActor, IdleHasNoCopy DEF LetIn, Idle
<1>2. HoldsSandbox(p)
  BY <1>1, NoCopy DEF LetIn, HoldsSandbox
<1> QED BY <1>2 DEF SInv, PartnerOK, Unknown

LEMMA RequestLinear ==
  ASSUME Serial, IInv, SInv, NEW p \in Partners, Request(p)
  PROVE  Alone' /\ Known' /\ Linear
<1>0. Alone /\ Known /\ registered \subseteq Partners
  BY DEF SInv, Known, IInv, RestOK
<1>1. CASE Register(p)
  <2>1. /\ Start(Loop, Registration(p)) /\ registered' = registered \cup {p}
        /\ p \notin registered /\ UNCHANGED <<disk, log, mem, wiped, crashes, chain>>
    BY <1>1 DEF Register
  <2>2. Alone' /\ Begins(Registration(p), registered')
    BY <1>0, <2>1, RegistrationType, StartLinear
  <2>3. Registers
    BY <2>1, <2>2 DEF Registers
  <2> QED BY <1>0, <2>1, <2>2, <2>3 DEF Known, Linear
<1>2. ASSUME NEW steps \in Seq(Steps), Plain(steps), Start(Loop, steps),
             UNCHANGED <<disk, log, registered, mem, wiped, crashes, chain>>
      PROVE  Alone' /\ Known' /\ Linear
  <2>1. Alone' /\ Begins(steps, registered')
    BY <1>0, <1>2, StartLinear
  <2>2. BeginsPlain
    BY <1>2, <2>1 DEF BeginsPlain
  <2> QED BY <1>0, <1>2, <2>1, <2>2 DEF Known, Linear
<1>3. CASE IssueAgentKey(p)
  <2>1. /\ Start(Loop, Rewrite("production", p, {})) /\ p \in registered
        /\ UNCHANGED <<disk, log, registered, mem, wiped, crashes, chain>>
    BY <1>3 DEF IssueAgentKey
  <2>2. Rewrite("production", p, {}) \in Seq(Steps)
    BY RewriteType, KindsAreMarks
  <2> QED BY <1>2, <2>1, <2>2, PlainPieces
<1>4. CASE ValidateProfile(p)
  <2>1. /\ Start(Loop, Rewrite("registry", p, {"profile_validated"})) /\ p \in registered
        /\ UNCHANGED <<disk, log, registered, mem, wiped, crashes, chain>>
    BY <1>4, LetInIsKnown DEF ValidateProfile
  <2>2. Rewrite("registry", p, {"profile_validated"}) \in Seq(Steps)
    BY RewriteType, KindsAreMarks
  <2>3. Plain(Rewrite("registry", p, {"profile_validated"}))
    BY <2>1, PlainPieces
  <2> QED BY <1>2, <2>1, <2>2, <2>3
<1>5. ASSUME NEW kind \in Kinds, Offend(p, kind)
      PROVE  Alone' /\ Known' /\ Linear
  <2>1. /\ Start(Loop, SecurityEvent(kind, p)) /\ p \in registered
        /\ UNCHANGED <<disk, log, registered, mem, wiped, crashes, chain>>
    BY <1>5, LetInIsKnown DEF Offend
  <2>2. SecurityEvent(kind, p) \in Seq(Steps)
    BY SecurityEventType, KindsAreMarks
  <2>3. kind \in LogKinds \ {"graduation_log"}
    BY ConstantsAssumption DEF LogKinds, Offences
  <2>4. Plain(SecurityEvent(kind, p))
    BY <2>1, <2>3, PlainPieces
  <2> QED BY <1>2, <2>1, <2>2, <2>4
<1>6. ASSUME NEW a \in Operators, Graduate(a, p)
      PROVE  Alone' /\ Known' /\ Linear
  <2>1. a = Loop
    BY DEF Serial
  <2>2. /\ Start(Loop, Graduation(p)) /\ p \in registered
        /\ UNCHANGED <<disk, log, registered, mem, wiped, crashes, chain>>
    BY <1>6, <2>1 DEF Graduate
  <2>3. Alone' /\ Begins(Graduation(p), registered')
    BY <1>0, <2>2, GraduationType, StartLinear
  <2>4. Graduates
    BY <2>2, <2>3 DEF Graduates
  <2> QED BY <1>0, <2>2, <2>3, <2>4 DEF Known, Linear
<1>7. ASSUME NEW c \in Chains, StartChain(c, p)
      PROVE  Alone' /\ Known' /\ Linear
  <2>1. /\ UNCHANGED <<disk, log, registered, todo, mem, wiped, crashes>>
        /\ chain' = [chain EXCEPT ![c] = p] /\ p \in registered
    BY <1>7, LetInIsKnown DEF StartChain
  <2>2. Alone' /\ Stands
    BY <1>0, <2>1, NothingWritten
  <2>3. Known'
    BY <1>0, <2>1 DEF Known, IInv, RestOK
  <2> QED BY <2>2, <2>3 DEF Linear
<1> QED BY <1>1, <1>3, <1>4, <1>5, <1>6, <1>7 DEF Request

LEMMA RunChainLinear ==
  ASSUME Serial, IInv, SInv, NEW c \in Chains, RunChain(c)
  PROVE  Alone' /\ Known' /\ Linear
<1>0. Alone /\ Known /\ registered \subseteq Partners
  BY DEF SInv, Known, IInv, RestOK
<1>1. ~BlockTool(c)
  BY DEF Serial, BlockTool
<1>2. chain' = [chain EXCEPT ![c] = None] => (registered' = registered => Known')
  BY <1>0 DEF Known, IInv, RestOK
<1>3. CASE FailChain(c)
  <2>1. UNCHANGED <<disk, log, registered, todo, mem, wiped, crashes>>
    BY <1>3 DEF FailChain
  <2>2. Alone' /\ Stands
    BY <1>0, <2>1, NothingWritten
  <2>3. Known'
    BY <1>2, <1>3 DEF FailChain
  <2> QED BY <2>2, <2>3 DEF Linear
<1>4. ASSUME NEW summary \in Summaries, EndChain(c, summary)
      PROVE  Alone' /\ Known' /\ Linear
  <2> PICK p : p = chain[c]
    OBVIOUS
  <2>1. /\ Start(Loop, Aftermath(p, summary)) /\ p # None
        /\ UNCHANGED <<disk, log, registered, mem, wiped, crashes>>
    BY <1>4 DEF EndChain
  <2>2. p \in registered /\ p \in Partners
    BY <1>0, <2>1 DEF Known
  <2>3. Aftermath(p, summary) \in Seq(Steps) /\ Plain(Aftermath(p, summary))
    BY <2>2, AftermathType, PlainAftermath
  <2>4. Alone' /\ Begins(Aftermath(p, summary), registered')
    BY <1>0, <2>1, <2>3, StartLinear
  <2>5. BeginsPlain
    BY <2>1, <2>3, <2>4 DEF BeginsPlain
  <2>6. Known'
    BY <1>2, <1>4 DEF EndChain
  <2> QED BY <2>4, <2>5, <2>6 DEF Linear
<1> QED BY <1>1, <1>3, <1>4 DEF RunChain

LEMMA NextLinear ==
  ASSUME Serial, IInv, SInv, [Next]_vars
  PROVE  Alone' /\ Known' /\ Linear
<1>0. Alone /\ Known /\ crashes \in Nat
  BY DEF SInv, Known
<1>1. CASE UNCHANGED vars
  BY <1>0, <1>1, NothingWritten DEF vars, Known, Linear
<1>2. ASSUME NEW a \in Actors, Continue(a)
      PROVE  Alone' /\ Known' /\ Linear
  <2>1. a = Loop
    BY <1>0, <1>2, OnlyLoopGoesOn
  <2>2. Alone' /\ Linear
    BY <1>0, <1>2, <2>1, AppendRowLinear, WriteLogLinear, ReadLinear, OpenLinear, WriteLinear,
       AssessLinear DEF Continue, Linear
  <2>3. UNCHANGED <<chain, registered>>
    BY <1>2 DEF Continue, AppendRow, WriteLog, Read, Open, Write, Assess
  <2> QED BY <1>0, <2>2, <2>3 DEF Known
<1>3. CASE \E p \in Partners : Request(p)
  BY <1>3, RequestLinear
<1>4. CASE \E c \in Chains : RunChain(c)
  BY <1>4, RunChainLinear
<1>5. CASE Crash(Server) \/ Crash({Cli})
  <2>1. PICK dead \in {Server, {Cli}} : Crash(dead)
    BY <1>5
  <2>2. Alone' /\ Dies
    BY <1>0, <2>1, CrashLinear
  <2>3. Known'
    BY <1>0, <2>1 DEF Crash, Known
  <2> QED BY <2>2, <2>3 DEF Linear
<1> QED BY <1>1, <1>2, <1>3, <1>4, <1>5 DEF Next

-----------------------------------------------------------------------------
(* What the views hold *)

LEMMA ViewsTyped ==
  ASSUME IInv
  PROVE  \A f \in Files : View(f) \in Contents[f]
<1>1. \A f \in Files : disk[f] \in Contents[f]
  BY DEF IInv, DiskOK, Content
<1>2. mem[Loop] # None => mem[Loop].content \in Contents[mem[Loop].file]
  BY LoopIsActor DEF IInv, ActorsOK, CopyOK, Content
<1> QED BY <1>1, <1>2 DEF View, Opened

LEMMA PartnerTyped ==
  ASSUME IInv, NEW p \in Partners
  PROVE  /\ View("registry") \in [Partners -> Rows \cup {None}] /\ Reg(p) \in Rows \cup {None}
         /\ View("sandbox") \in [Partners -> BOOLEAN] /\ HoldsSandbox(p) \in BOOLEAN
         /\ View("production") \in [Partners -> Nat] /\ Held(p) \in Nat
         /\ \A k \in LogKinds : log[p][k] \in Nat
         /\ BadEvents(p) \in Nat
<1>1. /\ View("registry") \in [Partners -> Rows \cup {None}]
      /\ View("sandbox") \in [Partners -> BOOLEAN]
      /\ View("production") \in [Partners -> Nat]
  BY ViewsTyped, ContentsAre, KindsAreMarks
<1>2. \A k \in LogKinds : log[p][k] \in Nat
  BY DEF IInv, RestOK
<1>3. Bad \subseteq LogKinds
  BY DEF Bad, LogKinds, Offences
<1>4. BadEvents(p) \in Nat
  <2>1. /\ log[p]["emergency_stop"] \in Nat /\ log[p]["blocked_tool"] \in Nat
        /\ log[p]["blocked_path"] \in Nat
    BY <1>2, <1>3 DEF Bad
  <2> QED BY <2>1 DEF BadEvents
<1> QED BY <1>1, <1>2, <1>4 DEF Reg, HoldsSandbox, Held

LEMMA RestTyped ==
  ASSUME IInv
  PROVE  /\ Rest \in Seq(Steps)
         /\ Rest # <<>> => Head(Rest) \in Steps /\ Tail(Rest) \in Seq(Steps)
<1>1. todo[Loop] \in Seq(Steps) /\ (mem[Loop] # None => todo[Loop] # <<>>)
  BY LoopIsActor DEF IInv, ActorsOK, CopyOK, Does, Idle
<1>2. todo[Loop] # <<>> => Tail(todo[Loop]) \in Seq(Steps)
  BY <1>1
<1>3. Rest \in Seq(Steps)
  BY <1>1, <1>2 DEF Rest, Opened
<1> QED BY <1>3

\* A row that is rewritten pays for what it is charged.
LEMMA RowsRewritten ==
  ASSUME NEW row \in Rows, NEW marks, NEW burst
  PROVE  LET new == Graded(Refreshed(Applied(row, marks), burst))
         IN  /\ new \in Rows /\ (new.status = "graduated" <=> row.status = "graduated")
             /\ new.stops + new.blocked
                  >= row.stops + row.blocked + (IF marks \cap Bad # {} THEN 1 ELSE 0)
<1> DEFINE a == Applied(row, marks)
           r == Refreshed(a, burst)
           new == Graded(r)
           stop == IF marks \cap {"emergency_stop"} # {} THEN 1 ELSE 0
           block == IF marks \cap {"blocked_tool", "blocked_path"} # {} THEN 1 ELSE 0
<1>1. a \in Rows /\ r \in Rows /\ new \in Rows
  BY AppliedType, RefreshedType, GradedEarned
<1>2. /\ a.status = row.status /\ a.stops = row.stops + stop
      /\ a.blocked = row.blocked + block
  BY DEF Applied, Rows
<1>3. r.status = a.status /\ r.stops = a.stops /\ r.blocked = a.blocked
  <2> HIDE DEF a
  <2> PICK flags : flags = Flagged(a, burst)
    OBVIOUS
  <2> DEFINE f == [a EXCEPT !.flags = flags]
  <2>1. f.status = a.status /\ f.stops = a.stops /\ f.blocked = a.blocked
        /\ f = [k \in DOMAIN a |-> f[k]]
        /\ {"done", "status", "stops", "blocked"} \subseteq DOMAIN f
    BY <1>1 DEF Rows
  <2>2. \E done : r = [f EXCEPT !.done = done]
    BY DEF Refreshed
  <2> HIDE DEF f, r
  <2> QED BY <2>1, <2>2
<1>4. /\ new.stops = r.stops /\ new.blocked = r.blocked
      /\ new.status = "graduated" <=> r.status = "graduated"
  <2> HIDE DEF r
  <2> QED BY <1>1 DEF Graded, Rows
<1>5. row.stops \in Nat /\ row.blocked \in Nat
  BY DEF Rows
<1>6. stop \in Nat /\ block \in Nat
  OBVIOUS
<1>7. marks \cap Bad # {} => stop + block >= 1
  BY DEF Bad
<1> HIDE DEF a, r, stop, block
<1>8. new.stops + new.blocked >= row.stops + row.blocked + (IF marks \cap Bad # {} THEN 1 ELSE 0)
  <2> HIDE DEF new
  <2> QED BY <1>2, <1>3, <1>4, <1>5, <1>6, <1>7
<1> QED BY <1>1, <1>2, <1>3, <1>4, <1>8 DEF a, r

LEMMA MarkedRow ==
  ASSUME NEW row \in Rows
  PROVE  LET new == MarkedGraduated(row)
         IN  /\ new \in Rows /\ new.status = "graduated"
             /\ new.stops = row.stops /\ new.blocked = row.blocked
  BY DEF MarkedGraduated, Rows

-----------------------------------------------------------------------------
(* Partners a step is not about *)

SameFiles(q) ==
  Reg(q)' = Reg(q) /\ HoldsSandbox(q)' = HoldsSandbox(q) /\ Held(q)' = Held(q)
SameOwed(q) == (Keyed(q) => Keyed(q)') /\ Owed(q) <= Owed(q)'

LEMMA ViewsKept ==
  ASSUME SameViews(Files), NEW q \in Partners
  PROVE  SameFiles(q)
  BY KindsAreMarks DEF SameViews, SameFiles, Reg, HoldsSandbox, Held

LEMMA Elsewhere ==
  ASSUME NEW q, Rest # <<>> => Head(Rest).p # q \/ Head(Rest).do # "rewrite"
  PROVE  ~Keyed(q) /\ Owed(q) = 0 /\ SameOwed(q)
<1>1. ~Keyed(q) /\ Owed(q) = 0
  BY DEF Keyed, Owed, Charges
<1>2. Owed(q)' \in {0, 1}
  BY DEF Owed
<1> QED BY <1>1, <1>2 DEF SameOwed

LEMMA Unaffected ==
  ASSUME IInv, IInv', SInv, NEW q \in Partners, SameFiles(q), log'[q] = log[q], SameOwed(q),
         UNCHANGED <<wiped, crashes>>, q \in registered => q \in registered'
  PROVE  PartnerOK(q)'
<1>1. PartnerOK(q) /\ crashes \in Nat
  BY DEF SInv
<1>2. /\ HasRow(q)' = HasRow(q) /\ Marked(q)' = Marked(q) /\ Candidate(q)' = Candidate(q)
      /\ BadEvents(q)' = BadEvents(q)
      /\ (HasRow(q) => Reg(q)'.stops = Reg(q).stops /\ Reg(q)'.blocked = Reg(q).blocked)
  BY DEF SameFiles, HasRow, Marked, Candidate, BadEvents
<1>3. q \notin registered' => Unknown(q)'
  BY <1>1, <1>2 DEF PartnerOK, Unknown, SameFiles
<1>4. KeyOK(q)' /\ FinalOK(q)'
  BY <1>1, <1>2 DEF PartnerOK, KeyOK, FinalOK, SameFiles
<1>5. KeysOK(q)'
  BY <1>1, <1>2 DEF PartnerOK, KeysOK, SameFiles, SameOwed
<1>6. CleanOK(q)'
  <2>1. SUFFICES ASSUME HasRow(q)
                 PROVE  BadEvents(q) <= crashes + Reg(q).stops + Reg(q).blocked + Owed(q)'
    BY <1>2 DEF CleanOK
  <2>2. BadEvents(q) <= crashes + Reg(q).stops + Reg(q).blocked + Owed(q)
    BY <1>1, <2>1 DEF PartnerOK, CleanOK
  <2>3. /\ Reg(q).stops \in Nat /\ Reg(q).blocked \in Nat /\ BadEvents(q) \in Nat
        /\ Owed(q) \in Nat /\ Owed(q)' \in Nat
    BY <2>1, PartnerTyped DEF HasRow, Rows, Owed
  <2> QED BY <1>1, <2>2, <2>3 DEF SameOwed
<1> QED BY <1>3, <1>4, <1>5, <1>6 DEF PartnerOK

\* Everybody is, when a step changes neither files nor logs.
LEMMA NobodyAffected ==
  ASSUME IInv, IInv', SInv, SameViews(Files), UNCHANGED <<log, wiped, crashes>>,
         registered \subseteq registered', \A q \in Partners : SameOwed(q)
  PROVE  \A q \in Partners : PartnerOK(q)'
<1> SUFFICES ASSUME NEW q \in Partners PROVE PartnerOK(q)'
  OBVIOUS
<1>1. SameFiles(q) /\ SameOwed(q) /\ log'[q] = log[q]
  BY ViewsKept
<1> QED BY <1>1, Unaffected

LEMMA PlainKept ==
  ASSUME registered \subseteq registered', NEW t, Plain(t), Rest' = t
  PROVE  Course'
<1>1. Plain(Rest)'
  BY DEF Plain, PlainStep, Charges
<1> QED BY <1>1 DEF Course

-----------------------------------------------------------------------------
(* One lemma per kind of step *)

LEMMA StandsOK ==
  ASSUME IInv, IInv', SInv, Stands
  PROVE  Course' /\ \A q \in Partners : PartnerOK(q)'
<1>1. /\ SameViews(Files) /\ Rest' = Rest /\ UNCHANGED <<log, registered, wiped, crashes>>
  BY DEF Stands
<1>2. \A q \in Partners : SameOwed(q)
  BY <1>1 DEF SameOwed, Keyed, Owed, Charges
<1>3. \A q \in Partners : PartnerOK(q)'
  BY <1>1, <1>2, NobodyAffected
<1>4. CASE Plain(Rest)
  BY <1>1, <1>3, <1>4, PlainKept
<1>5. ASSUME NEW p \in registered, OnCourse(p)
      PROVE  Course'
  <2>1. p \in Partners
    BY DEF IInv, RestOK
  <2>2. SameFiles(p)
    BY <1>1, <2>1, ViewsKept
  <2>3. OnCourse(p)'
    BY <1>1, <1>5, <2>2
       DEF OnCourse, SameFiles, Unknown, Candidate, HasRow, Marked, BadEvents
  <2> QED BY <1>1, <2>3 DEF Course
<1> QED BY <1>3, <1>4, <1>5 DEF SInv, Course

LEMMA BeginsOK ==
  ASSUME IInv, IInv', SInv, NEW steps, NEW known, registered \subseteq known,
         Begins(steps, known)
  PROVE  /\ \A q \in Partners : PartnerOK(q)' /\ SameFiles(q)
         /\ Rest' = steps /\ registered' = known /\ log' = log
<1>1. /\ Rest = <<>> /\ Rest' = steps /\ registered' = known /\ SameViews(Files)
      /\ UNCHANGED <<log, wiped, crashes>>
  BY DEF Begins
<1>2. \A q \in Partners : SameOwed(q)
  BY <1>1, Elsewhere
<1> QED BY <1>1, <1>2, NobodyAffected, ViewsKept

LEMMA StartsOK ==
  ASSUME IInv, IInv', SInv, Registers \/ Graduates \/ BeginsPlain
  PROVE  Course' /\ \A q \in Partners : PartnerOK(q)'
<1>0. registered \subseteq Partners
  BY DEF IInv, RestOK
<1>1. CASE Registers
  <2>1. PICK p \in Partners \ registered : Begins(Registration(p), registered \cup {p})
    BY <1>1 DEF Registers
  <2>2. /\ \A q \in Partners : PartnerOK(q)' /\ SameFiles(q)
        /\ Rest' = Registration(p) /\ registered' = registered \cup {p} /\ log' = log
    BY <2>1, BeginsOK
  <2>3. Unknown(p)
    BY DEF SInv, PartnerOK
  <2>4. Unknown(p)'
    BY <2>2, <2>3 DEF Unknown, SameFiles, HasRow, BadEvents
  <2>5. OnCourse(p)'
    BY <2>2, <2>4 DEF OnCourse, Registration
  <2> QED BY <2>2, <2>5 DEF Course
<1>2. CASE Graduates
  <2>1. PICK p \in registered : Begins(Graduation(p), registered)
    BY <1>2 DEF Graduates
  <2>2. /\ \A q \in Partners : PartnerOK(q)'
        /\ Rest' = Graduation(p) /\ registered' = registered
    BY <2>1, BeginsOK
  <2>3. OnCourse(p)'
    BY <2>2 DEF OnCourse, Graduation
  <2> QED BY <2>2, <2>3 DEF Course
<1>3. CASE BeginsPlain
  <2>1. PICK steps \in Seq(Steps) : Plain(steps) /\ Begins(steps, registered)
    BY <1>3 DEF BeginsPlain
  <2>2. /\ \A q \in Partners : PartnerOK(q)'
        /\ Rest' = steps /\ registered' = registered
    BY <2>1, BeginsOK
  <2> QED BY <2>1, <2>2, PlainKept
<1> QED BY <1>1, <1>2, <1>3

LEMMA DiesOK ==
  ASSUME IInv, IInv', SInv, Dies
  PROVE  Course' /\ crashes' \in Nat /\ \A q \in Partners : PartnerOK(q)'
<1>1. /\ Rest' = <<>> /\ crashes' = crashes + 1 /\ crashes \in Nat
      /\ UNCHANGED <<log, registered>> /\ wiped \subseteq wiped'
      /\ \A f \in Files : View(f)' = View(f) \/ (View(f)' = Empty[f] /\ f \in wiped')
  BY DEF Dies, SInv
<1>2. Course'
  BY <1>1, PlainKept DEF Plain
<1>3. ASSUME NEW q \in Partners
      PROVE  PartnerOK(q)'
  <2>1. PartnerOK(q)
    BY DEF SInv
  <2>2. Reg(q)' = Reg(q) \/ (Reg(q)' = None /\ "registry" \in wiped')
    BY <1>1, KindsAreMarks DEF Reg, Empty
  <2>3. HoldsSandbox(q)' = HoldsSandbox(q) \/ HoldsSandbox(q)' = FALSE
    BY <1>1, KindsAreMarks DEF HoldsSandbox, Empty
  <2>4. Held(q)' = Held(q) \/ (Held(q)' = 0 /\ "production" \in wiped')
    BY <1>1, KindsAreMarks DEF Held, Empty
  <2>5. /\ HasRow(q)' => HasRow(q) /\ Reg(q)' = Reg(q)
        /\ Marked(q)' => Marked(q)
        /\ Marked(q) => Marked(q)' \/ (~HasRow(q)' /\ "registry" \in wiped')
        /\ BadEvents(q)' = BadEvents(q)
    BY <1>1, <2>2 DEF HasRow, Marked, BadEvents
  <2>6. q \notin registered' => Unknown(q)'
    BY <1>1, <2>1, <2>3, <2>4, <2>5 DEF PartnerOK, Unknown
  <2>7. KeyOK(q)'
    BY <1>1, <2>1, <2>3, <2>4, <2>5 DEF PartnerOK, KeyOK
  <2>8. FinalOK(q)'
    BY <1>1, <2>1, <2>5 DEF PartnerOK, FinalOK
  <2>9. KeysOK(q)'
    <3>1. Held(q) \in Nat /\ Held(q) <= crashes + 1
      BY <1>1, <2>1, PartnerTyped DEF PartnerOK, KeysOK
    <3> QED BY <1>1, <2>4, <3>1 DEF KeysOK
  <2>10. CleanOK(q)'
    <3>1. SUFFICES ASSUME HasRow(q)', HasRow(q), Reg(q)' = Reg(q)
                   PROVE  BadEvents(q) <= crashes + 1 + Reg(q).stops + Reg(q).blocked + Owed(q)'
      BY <1>1, <2>5 DEF CleanOK
    <3>2. BadEvents(q) <= crashes + Reg(q).stops + Reg(q).blocked + Owed(q)
      BY <2>1, <3>1 DEF PartnerOK, CleanOK
    <3>3. /\ Reg(q).stops \in Nat /\ Reg(q).blocked \in Nat /\ BadEvents(q) \in Nat
          /\ Owed(q) \in {0, 1} /\ Owed(q)' \in {0, 1}
      BY <3>1, PartnerTyped DEF HasRow, Rows, Owed
    <3> QED BY <1>1, <3>2, <3>3
  <2> QED BY <2>6, <2>7, <2>8, <2>9, <2>10 DEF PartnerOK
<1> QED BY <1>1, <1>2, <1>3

\* Where the loop may be, by the step it is at.
AtPlain ==
  /\ PlainStep(Head(Rest)) /\ Plain(Tail(Rest))
  /\ (Head(Rest).do = "note" /\ Head(Rest).kind \in Bad) =>
       Tail(Rest) # <<>> /\ Charges(Head(Tail(Rest)), Head(Rest).p)
AtOwn(p) ==
  \/ Does1(Rest, "append", p, Registering(p)) /\ Unknown(p)
  \/ Rewrites1(Rest, "sandbox", p, {"issue"}, SecurityEvent("registered", p)) /\ Candidate(p)
  \/ Does1(Rest, "assess", p, Issuing(p))
  \/ Rewrites1(Rest, "production", p, {"issue"}, Revoking(p)) /\ Candidate(p)
  \/ Rewrites1(Rest, "sandbox", p, {"revoke"}, Marking(p)) /\ Candidate(p) /\ Held(p) > 0
  \/ /\ Rewrites1(Rest, "registry", p, {"graduate"}, Noting(p))
     /\ Candidate(p) /\ Held(p) > 0 /\ ~HoldsSandbox(p)
  \/ /\ Does1(Rest, "note", p, SecurityEvent("graduated", p))
     /\ Head(Rest).kind = "graduation_log" /\ Marked(p)

LEMMA Where ==
  ASSUME IInv, SInv, Rest # <<>>
  PROVE  AtPlain \/ \E p \in registered : p \in Partners /\ AtOwn(p)
<1>1. CASE Plain(Rest)
  BY <1>1, RestTyped, PlainTail DEF AtPlain
<1>2. ASSUME NEW p \in registered, OnCourse(p)
      PROVE  p \in Partners /\ AtOwn(p)
  <2>1. p \in Partners
    BY DEF IInv, RestOK
  <2> QED BY <1>2, <2>1, ListSteps DEF OnCourse, AtOwn
<1> QED BY <1>1, <1>2 DEF SInv, Course

\* The two security events at the end of a registration and of a graduation.
LEMMA EventsPlain ==
  ASSUME NEW p \in registered
  PROVE  Plain(SecurityEvent("registered", p)) /\ Plain(SecurityEvent("graduated", p))
<1>1. {"registered", "graduated"} \subseteq LogKinds \ {"graduation_log"}
  BY KindsAreMarks
<1> QED BY <1>1, PlainPieces

LEMMA AppendsOK ==
  ASSUME IInv, IInv', SInv, Appends
  PROVE  Course' /\ \A q \in Partners : PartnerOK(q)'
<1>1. /\ Rest # <<>> /\ Rest' = Tail(Rest) /\ Head(Rest).do = "append"
      /\ View("registry")' = [View("registry") EXCEPT ![Head(Rest).p] = NewRow]
      /\ View("sandbox")' = View("sandbox") /\ View("production")' = View("production")
      /\ UNCHANGED <<log, registered, wiped, crashes>>
  BY KindsAreMarks DEF Appends, Advanced, SameViews
<1>2. PICK p \in registered : p \in Partners /\ AtOwn(p)
  BY <1>1, Where DEF AtPlain, PlainStep
<1>3. Does1(Rest, "append", p, Registering(p)) /\ Unknown(p)
  BY <1>1, <1>2 DEF AtOwn, Does1, Rewrites1
<1>4. Reg(p)' = NewRow /\ NewRow.status = "sandbox" /\ NewRow.stops = 0 /\ NewRow.blocked = 0
  BY <1>1, <1>2, <1>3, PartnerTyped DEF Reg, Does1, NewRow
<1>5. /\ Candidate(p)' /\ HasRow(p)' /\ ~Marked(p)' /\ BadEvents(p)' = 0 /\ Held(p)' = 0
      /\ log'[p]["graduation_log"] = 0
  BY <1>1, <1>3, <1>4, NewRowEarned, NoneAssumption
     DEF Candidate, HasRow, Marked, Unknown, BadEvents, Held
<1>6. Course'
  <2>1. OnCourse(p)'
    BY <1>1, <1>3, <1>5 DEF OnCourse, Does1, Registering
  <2> QED BY <1>1, <2>1 DEF Course
<1>7. PartnerOK(p)'
  <2>1. crashes \in Nat
    BY DEF SInv
  <2>2. CleanOK(p)'
    <3>1. Owed(p)' \in {0, 1}
      BY DEF Owed
    <3> QED BY <1>1, <1>4, <1>5, <2>1, <3>1 DEF CleanOK
  <2>3. KeyOK(p)' /\ FinalOK(p)' /\ KeysOK(p)'
    BY <1>1, <1>5, <2>1 DEF KeyOK, FinalOK, KeysOK
  <2> QED BY <1>1, <2>2, <2>3 DEF PartnerOK
<1>8. ASSUME NEW q \in Partners, q # p
      PROVE  PartnerOK(q)'
  <2>1. SameFiles(q)
    BY <1>1, <1>3, <1>8, PartnerTyped DEF SameFiles, Reg, HoldsSandbox, Held, Does1
  <2>2. SameOwed(q)
    BY <1>1, Elsewhere
  <2> QED BY <1>1, <2>1, <2>2, Unaffected
<1> QED BY <1>6, <1>7, <1>8

LEMMA AssessesOK ==
  ASSUME IInv, IInv', SInv, Assesses
  PROVE  Course' /\ \A q \in Partners : PartnerOK(q)'
<1>1. /\ Rest # <<>> /\ Head(Rest).do = "assess" /\ SameViews(Files)
      /\ Rest' = <<>> \/ (Rest' = Tail(Rest) /\ Candidate(Head(Rest).p))
      /\ UNCHANGED <<log, registered, wiped, crashes>>
  BY DEF Assesses
<1>2. PICK p \in registered : p \in Partners /\ AtOwn(p)
  BY <1>1, Where DEF AtPlain, PlainStep
<1>3. Does1(Rest, "assess", p, Issuing(p))
  BY <1>1, <1>2 DEF AtOwn, Does1, Rewrites1
<1>4. \A q \in Partners : PartnerOK(q)'
  <2>1. \A q \in Partners : SameOwed(q)
    BY <1>1, Elsewhere
  <2> QED BY <1>1, <2>1, NobodyAffected
<1>5. CASE Rest' = <<>>
  <2>1. Plain(<<>>)
    BY DEF Plain
  <2> QED BY <1>1, <1>4, <1>5, <2>1, PlainKept
<1>6. CASE Rest' = Tail(Rest) /\ Candidate(Head(Rest).p)
  <2>1. Rest' = Issuing(p) /\ Candidate(p)
    BY <1>3, <1>6 DEF Does1
  <2>2. SameFiles(p)
    BY <1>1, <1>2, ViewsKept
  <2>3. OnCourse(p)'
    BY <2>1, <2>2 DEF OnCourse, Issuing, Candidate, HasRow, SameFiles
  <2> QED BY <1>1, <1>4, <2>3 DEF Course
<1> QED BY <1>1, <1>5, <1>6

LEMMA NotesOK ==
  ASSUME IInv, IInv', SInv, Notes
  PROVE  Course' /\ \A q \in Partners : PartnerOK(q)'
<1>0. PICK s : s = Head(Rest)
  OBVIOUS
<1>1. /\ Rest # <<>> /\ Rest' = Tail(Rest) /\ s.do = "note" /\ SameViews(Files)
      /\ log' = [log EXCEPT ![s.p][s.kind] = @ + 1]
      /\ UNCHANGED <<registered, wiped, crashes>>
  BY <1>0 DEF Notes, Advanced
<1>2. s.p \in Partners /\ s.kind \in LogKinds
  BY <1>0, <1>1, RestTyped DEF Steps
<1>3. /\ \A q \in Partners : q # s.p => log'[q] = log[q]
      /\ \A k \in LogKinds : log'[s.p][k] = IF k = s.kind THEN log[s.p][k] + 1 ELSE log[s.p][k]
  <2>1. log \in [Partners -> [LogKinds -> Nat]]
    BY DEF IInv, RestOK
  <2>2. log[s.p] \in [LogKinds -> Nat]
    BY <1>2, <2>1
  <2> DEFINE new == [log[s.p] EXCEPT ![s.kind] = @ + 1]
  <2>3. \A k \in LogKinds : new[k] = IF k = s.kind THEN log[s.p][k] + 1 ELSE log[s.p][k]
    BY <1>2, <2>2
  <2>4. log' = [log EXCEPT ![s.p] = new]
    BY <1>1
  <2> HIDE DEF new
  <2> QED BY <1>2, <2>1, <2>3, <2>4
<1>4. \A q \in Partners : SameFiles(q) /\ SameOwed(q) /\ ~Keyed(q) /\ Owed(q) = 0
  BY <1>1, ViewsKept, <1>0, Elsewhere
<1>5. \A q \in Partners : q # s.p => PartnerOK(q)'
  BY <1>1, <1>3, <1>4, Unaffected
<1>6. PartnerOK(s.p) /\ crashes \in Nat
  BY <1>2 DEF SInv
<1>7. /\ HasRow(s.p)' = HasRow(s.p) /\ Marked(s.p)' = Marked(s.p)
      /\ Candidate(s.p)' = Candidate(s.p)
      /\ Reg(s.p)' = Reg(s.p) /\ HoldsSandbox(s.p)' = HoldsSandbox(s.p) /\ Held(s.p)' = Held(s.p)
  BY <1>2, <1>4 DEF SameFiles, HasRow, Marked, Candidate
<1>8. KeyOK(s.p)' /\ KeysOK(s.p)'
  BY <1>1, <1>2, <1>4, <1>6, <1>7 DEF PartnerOK, KeyOK, KeysOK
<1>9. /\ {"emergency_stop", "blocked_tool", "blocked_path", "graduation_log"} \subseteq LogKinds
      /\ \A k \in LogKinds : log[s.p][k] \in Nat
  BY <1>2, PartnerTyped DEF LogKinds, Offences
<1>10. BadEvents(s.p)' = BadEvents(s.p) + (IF s.kind \in Bad THEN 1 ELSE 0)
  BY <1>3, <1>9 DEF BadEvents, Bad
<1>11. /\ Course' /\ FinalOK(s.p)' /\ s.p \in registered
       /\ s.kind \in Bad => Owed(s.p)' = 1
  <2>1. CASE AtPlain
    <3>1. s.kind # "graduation_log" /\ s.p \in registered /\ Plain(Tail(Rest))
      BY <1>0, <1>1, <2>1 DEF AtPlain, PlainStep
    <3>2. log'[s.p]["graduation_log"] = log[s.p]["graduation_log"]
      BY <1>3, <1>9, <3>1
    <3>3. FinalOK(s.p)'
      BY <1>1, <1>6, <1>7, <3>2 DEF PartnerOK, FinalOK
    <3>4. s.kind \in Bad => Owed(s.p)' = 1
      BY <1>0, <1>1, <2>1 DEF AtPlain, Owed, Charges
    <3> QED BY <1>1, <3>1, <3>3, <3>4, PlainKept
  <2>2. ASSUME NEW p \in registered, p \in Partners, AtOwn(p)
        PROVE  /\ Course' /\ FinalOK(s.p)' /\ s.p \in registered
               /\ s.kind \in Bad => Owed(s.p)' = 1
    <3>1. /\ Does1(Rest, "note", p, SecurityEvent("graduated", p))
          /\ s.kind = "graduation_log" /\ Marked(p)
      BY <1>0, <1>1, <2>2 DEF AtOwn, Does1, Rewrites1
    <3>2. s.p = p /\ Rest' = SecurityEvent("graduated", p)
      BY <1>0, <1>1, <3>1 DEF Does1
    <3>3. FinalOK(s.p)'
      BY <1>7, <3>1, <3>2 DEF FinalOK
    <3>4. Course'
      BY <1>1, <3>2, EventsPlain, PlainKept
    <3> QED BY <3>1, <3>2, <3>3, <3>4 DEF Bad
  <2> QED BY <1>1, <2>1, <2>2, Where
<1>12. CleanOK(s.p)'
  <2>1. SUFFICES ASSUME HasRow(s.p)
                 PROVE  BadEvents(s.p)' <= crashes + Reg(s.p).stops + Reg(s.p).blocked + Owed(s.p)'
    BY <1>1, <1>7 DEF CleanOK
  <2>2. BadEvents(s.p) <= crashes + Reg(s.p).stops + Reg(s.p).blocked + Owed(s.p)
    BY <1>6, <2>1 DEF PartnerOK, CleanOK
  <2>3. /\ Reg(s.p).stops \in Nat /\ Reg(s.p).blocked \in Nat /\ BadEvents(s.p) \in Nat
        /\ Owed(s.p)' \in {0, 1} /\ Owed(s.p) = 0
    BY <1>2, <1>4, <2>1, PartnerTyped DEF HasRow, Rows, Owed
  <2> QED BY <1>6, <1>10, <1>11, <2>2, <2>3
<1>13. PartnerOK(s.p)'
  BY <1>1, <1>8, <1>11, <1>12 DEF PartnerOK
<1> QED BY <1>5, <1>11, <1>13

\* What a rewrite does to the partner it is about, file by file.
RegistryRewritten(p, marks) ==
  /\ HoldsSandbox(p)' = HoldsSandbox(p) /\ Held(p)' = Held(p)
  /\ ~HasRow(p) => Reg(p)' = None
  /\ HasRow(p) => \E burst \in BOOLEAN :
       Reg(p)' = IF "graduate" \in marks THEN MarkedGraduated(Reg(p))
                 ELSE Graded(Refreshed(Applied(Reg(p), marks), burst))
SandboxRewritten(p, marks) ==
  /\ Reg(p)' = Reg(p) /\ Held(p)' = Held(p)
  /\ marks = {"issue"} => HoldsSandbox(p)'
  /\ marks = {"revoke"} => ~HoldsSandbox(p)'
ProductionRewritten(p, marks) ==
  /\ Reg(p)' = Reg(p) /\ HoldsSandbox(p)' = HoldsSandbox(p)
  /\ Held(p)' = IF "issue" \in marks THEN Held(p) + 1 ELSE Held(p)

LEMMA RewriteEffect ==
  ASSUME IInv, Rewrites, NEW s, s = Head(Rest)
  PROVE  /\ Rest # <<>> /\ Rest' = Tail(Rest) /\ s.do = "rewrite" /\ s.p \in Partners
         /\ UNCHANGED <<log, registered, wiped, crashes>>
         /\ \A q \in Partners : q # s.p => SameFiles(q)
         /\ s.file = "registry" => RegistryRewritten(s.p, s.marks)
         /\ s.file = "sandbox" => SandboxRewritten(s.p, s.marks)
         /\ s.file = "production" => ProductionRewritten(s.p, s.marks)
<1>1. /\ Rest # <<>> /\ Rest' = Tail(Rest) /\ s.do = "rewrite"
      /\ UNCHANGED <<log, registered, wiped, crashes>>
      /\ \/ ~Writes(s.file, View(s.file), s.p, s.marks) /\ SameViews(Files)
         \/ /\ Writes(s.file, View(s.file), s.p, s.marks)
            /\ \E burst \in BOOLEAN :
                 View(s.file)' = Rewritten(s.file, View(s.file), s.p, s.marks, burst)
            /\ SameViews(Files \ {s.file})
  BY DEF Rewrites, Advanced
<1>2. s.p \in Partners /\ s.file \in Files
  BY <1>1, RestTyped DEF Steps
<1>3. /\ View("registry") \in [Partners -> Rows \cup {None}]
      /\ View("sandbox") \in [Partners -> BOOLEAN]
      /\ View("production") \in [Partners -> Nat]
  BY <1>2, PartnerTyped
<1>4. CASE s.file = "registry"
  <2>1. View("sandbox")' = View("sandbox") /\ View("production")' = View("production")
    BY <1>1, <1>4, KindsAreMarks DEF SameViews
  <2>2. CASE View("registry")[s.p] = None
    <3>1. View("registry")' = View("registry")
      BY <1>1, <1>4, <2>2, KindsAreMarks DEF Writes, SameViews
    <3> QED BY <1>1, <1>2, <1>4, <2>1, <2>2, <3>1
            DEF RegistryRewritten, SameFiles, HoldsSandbox, Held, HasRow, Reg
  <2>3. CASE View("registry")[s.p] # None
    <3>1. PICK burst \in BOOLEAN :
            View("registry")' = Rewritten("registry", View("registry"), s.p, s.marks, burst)
      BY <1>1, <1>4, <2>3 DEF Writes
    <3> DEFINE row == IF "graduate" \in s.marks THEN MarkedGraduated(View("registry")[s.p])
                      ELSE Graded(Refreshed(Applied(View("registry")[s.p], s.marks), burst))
    <3>2. View("registry")' = [View("registry") EXCEPT ![s.p] = row]
      BY <3>1 DEF Rewritten
    <3>3. /\ Reg(s.p)' = row
          /\ \A q \in Partners : q # s.p => Reg(q)' = Reg(q)
      <4> HIDE DEF row
      <4> QED BY <1>2, <1>3, <3>2 DEF Reg
    <3>4. \A q \in Partners : q # s.p => SameFiles(q)
      BY <2>1, <3>3 DEF SameFiles, HoldsSandbox, Held
    <3>5. RegistryRewritten(s.p, s.marks)
      BY <2>1, <2>3, <3>3 DEF RegistryRewritten, HoldsSandbox, Held, HasRow, Reg
    <3> QED BY <1>1, <1>2, <1>4, <3>4, <3>5
  <2> QED BY <2>2, <2>3
<1>5. CASE s.file = "sandbox"
  <2>1. View("registry")' = View("registry") /\ View("production")' = View("production")
    BY <1>1, <1>5, KindsAreMarks DEF SameViews
  <2>2. CASE "revoke" \in s.marks /\ ~View("sandbox")[s.p]
    <3>1. View("sandbox")' = View("sandbox")
      BY <1>1, <1>5, <2>2, KindsAreMarks DEF Writes, SameViews
    <3> QED BY <1>1, <1>2, <1>5, <2>1, <2>2, <3>1
            DEF SandboxRewritten, SameFiles, HoldsSandbox, Held, HasRow, Reg
  <2>3. CASE ~("revoke" \in s.marks /\ ~View("sandbox")[s.p])
    <3>1. View("sandbox")' = [View("sandbox") EXCEPT ![s.p] = "issue" \in s.marks]
      BY <1>1, <1>5, <2>3 DEF Writes, Rewritten
    <3> PICK old : old = View("sandbox")
      OBVIOUS
    <3>2. \A q \in Partners : q # s.p => HoldsSandbox(q)' = HoldsSandbox(q)
      <4>1. \A q \in Partners : q # s.p => View("sandbox")'[q] = View("sandbox")[q]
        BY <1>2, <1>3, <3>1
      <4> QED BY <4>1 DEF HoldsSandbox
    <3>3. HoldsSandbox(s.p)' = ("issue" \in s.marks)
      BY <1>2, <1>3, <3>1 DEF HoldsSandbox
    <3>4. \A q \in Partners : q # s.p => SameFiles(q)
      BY <2>1, <3>2 DEF SameFiles, Reg, Held
    <3>5. SandboxRewritten(s.p, s.marks)
      <4>1. s.marks = {"issue"} => HoldsSandbox(s.p)'
        BY <3>3
      <4>2. s.marks = {"revoke"} => ~HoldsSandbox(s.p)'
        BY <3>3
      <4> QED BY <2>1, <4>1, <4>2 DEF SandboxRewritten, Reg, Held
    <3> QED BY <1>1, <1>2, <1>5, <3>4, <3>5
  <2> QED BY <2>2, <2>3
<1>6. CASE s.file = "production"
  <2>1. View("registry")' = View("registry") /\ View("sandbox")' = View("sandbox")
    BY <1>1, <1>6, KindsAreMarks DEF SameViews
  <2>2. View("production")'
          = [View("production") EXCEPT ![s.p] = IF "issue" \in s.marks THEN @ + 1 ELSE @]
    BY <1>1, <1>6 DEF Writes, Rewritten
  <2>3. /\ Held(s.p)' = IF "issue" \in s.marks THEN Held(s.p) + 1 ELSE Held(s.p)
        /\ \A q \in Partners : q # s.p => Held(q)' = Held(q)
    BY <1>2, <1>3, <2>2 DEF Held
  <2>4. \A q \in Partners : q # s.p => SameFiles(q)
    BY <2>1, <2>3 DEF SameFiles, Reg, HoldsSandbox
  <2>5. ProductionRewritten(s.p, s.marks)
    BY <2>1, <2>3 DEF ProductionRewritten, Reg, HoldsSandbox
  <2> QED BY <1>1, <1>2, <1>6, <2>4, <2>5
<1> QED BY <1>2, <1>4, <1>5, <1>6 DEF Files

\* A plain rewrite of the registry pays what was owed and changes no status.
LEMMA PlainRewriteOK ==
  ASSUME IInv, SInv, Rewrites, NEW s, s = Head(Rest), AtPlain
  PROVE  Course' /\ PartnerOK(s.p)'
<1>1. /\ Rest # <<>> /\ Rest' = Tail(Rest) /\ s.do = "rewrite" /\ s.p \in Partners
      /\ UNCHANGED <<log, registered, wiped, crashes>>
      /\ s.file = "registry" => RegistryRewritten(s.p, s.marks)
      /\ s.file = "production" => ProductionRewritten(s.p, s.marks)
  BY RewriteEffect
<1>2. /\ s.p \in registered /\ Plain(Tail(Rest))
      /\ \/ s.file = "registry" /\ "graduate" \notin s.marks
         \/ s.file = "production" /\ "issue" \notin s.marks
  BY <1>1 DEF AtPlain, PlainStep
<1>3. Course'
  BY <1>1, <1>2, PlainKept
<1>4. PartnerOK(s.p) /\ crashes \in Nat /\ ~Keyed(s.p)
  BY <1>1, <1>2 DEF SInv, Keyed
<1>5. HoldsSandbox(s.p)' = HoldsSandbox(s.p) /\ Held(s.p)' = Held(s.p)
  BY <1>1, <1>2 DEF RegistryRewritten, ProductionRewritten
<1>6. /\ HasRow(s.p)' <=> HasRow(s.p)
      /\ HasRow(s.p) =>
           /\ Reg(s.p)'.status = "graduated" <=> Reg(s.p).status = "graduated"
           /\ Reg(s.p) \in Rows /\ Reg(s.p)' \in Rows
           /\ Reg(s.p)'.stops + Reg(s.p)'.blocked
                >= Reg(s.p).stops + Reg(s.p).blocked + Owed(s.p)
  <2>1. Reg(s.p) # None => Reg(s.p) \in Rows
    BY <1>1, PartnerTyped
  <2>2. CASE s.file = "registry"
    <3>1. RegistryRewritten(s.p, s.marks) /\ "graduate" \notin s.marks
      BY <1>1, <1>2, <2>2
    <3>2. Owed(s.p) = IF s.marks \cap Bad # {} THEN 1 ELSE 0
      BY <1>1, <2>2 DEF Owed, Charges
    <3>3. CASE HasRow(s.p)
      <4>1. PICK burst \in BOOLEAN :
              Reg(s.p)' = Graded(Refreshed(Applied(Reg(s.p), s.marks), burst))
        BY <3>1, <3>3 DEF RegistryRewritten
      <4>2. Reg(s.p) \in Rows
        BY <2>1, <3>3 DEF HasRow
      <4>3. /\ Reg(s.p)' \in Rows
            /\ Reg(s.p)'.status = "graduated" <=> Reg(s.p).status = "graduated"
            /\ Reg(s.p)'.stops + Reg(s.p)'.blocked
                 >= Reg(s.p).stops + Reg(s.p).blocked + (IF s.marks \cap Bad # {} THEN 1 ELSE 0)
        BY <4>1, <4>2, RowsRewritten
      <4>4. HasRow(s.p)'
        BY <4>3, NoneAssumption DEF HasRow
      <4> QED BY <3>2, <3>3, <4>2, <4>3, <4>4
    <3>4. CASE ~HasRow(s.p)
      BY <3>1, <3>4 DEF RegistryRewritten, HasRow
    <3> QED BY <3>3, <3>4
  <2>3. CASE s.file = "production"
    <3>1. Reg(s.p)' = Reg(s.p) /\ Owed(s.p) = 0
      BY <1>1, <2>3 DEF ProductionRewritten, Owed, Charges
    <3>2. HasRow(s.p) => Reg(s.p).stops \in Nat /\ Reg(s.p).blocked \in Nat /\ Reg(s.p) \in Rows
      BY <2>1 DEF HasRow, Rows
    <3> QED BY <3>1, <3>2 DEF HasRow
  <2> QED BY <1>2, <2>2, <2>3
<1>7. Marked(s.p)' = Marked(s.p) /\ Candidate(s.p)' = Candidate(s.p)
  BY <1>6 DEF Marked, Candidate
<1>8. KeyOK(s.p)' /\ FinalOK(s.p)' /\ KeysOK(s.p)'
  BY <1>1, <1>4, <1>5, <1>6, <1>7 DEF PartnerOK, KeyOK, FinalOK, KeysOK
<1>9. CleanOK(s.p)'
  <2>1. BadEvents(s.p)' = BadEvents(s.p) /\ BadEvents(s.p) \in Nat
    BY <1>1, PartnerTyped DEF BadEvents
  <2>2. SUFFICES ASSUME HasRow(s.p)
                 PROVE  BadEvents(s.p) <= crashes + Reg(s.p)'.stops + Reg(s.p)'.blocked + Owed(s.p)'
    BY <1>1, <1>6, <2>1 DEF CleanOK
  <2>3. BadEvents(s.p) <= crashes + Reg(s.p).stops + Reg(s.p).blocked + Owed(s.p)
    BY <1>4, <2>2 DEF PartnerOK, CleanOK
  <2>4. /\ Reg(s.p).stops \in Nat /\ Reg(s.p).blocked \in Nat
        /\ Reg(s.p)'.stops \in Nat /\ Reg(s.p)'.blocked \in Nat
        /\ Owed(s.p) \in {0, 1} /\ Owed(s.p)' \in {0, 1}
    BY <1>6, <2>2 DEF Rows, Owed
  <2>5. Reg(s.p)'.stops + Reg(s.p)'.blocked >= Reg(s.p).stops + Reg(s.p).blocked + Owed(s.p)
    BY <1>6, <2>2
  <2> QED BY <1>4, <2>1, <2>3, <2>4, <2>5
<1> QED BY <1>1, <1>2, <1>3, <1>8, <1>9 DEF PartnerOK

\* The rewrites of a registration and of a graduation.
LEMMA OwnRewriteOK ==
  ASSUME IInv, SInv, Rewrites, NEW p \in registered, p \in Partners, AtOwn(p)
  PROVE  Course' /\ PartnerOK(p)' /\ Head(Rest).p = p
<1>1. PICK s : s = Head(Rest)
  OBVIOUS
<1>2. /\ Rest # <<>> /\ Rest' = Tail(Rest) /\ s.do = "rewrite"
      /\ UNCHANGED <<log, registered, wiped, crashes>>
      /\ s.file = "registry" => RegistryRewritten(s.p, s.marks)
      /\ s.file = "sandbox" => SandboxRewritten(s.p, s.marks)
      /\ s.file = "production" => ProductionRewritten(s.p, s.marks)
  BY <1>1, RewriteEffect
<1>3. s.p = p /\ Candidate(p)
  BY <1>1, <1>2 DEF AtOwn, Does1, Rewrites1
<1>4. PartnerOK(p) /\ crashes \in Nat
  BY DEF SInv
<1>5. /\ Held(p) \in Nat /\ BadEvents(p) \in Nat /\ BadEvents(p)' = BadEvents(p)
      /\ HasRow(p) /\ Reg(p) \in Rows /\ Owed(p)' \in {0, 1}
  BY <1>2, <1>3, PartnerTyped DEF BadEvents, Candidate, HasRow, Owed
<1>6. Owed(p) = 0
  BY <1>1, <1>2 DEF AtOwn, Does1, Rewrites1, Owed, Charges, Bad
<1>7. ASSUME HasRow(p)', Reg(p)'.stops = Reg(p).stops, Reg(p)'.blocked = Reg(p).blocked
      PROVE  CleanOK(p)'
  <2>1. BadEvents(p) <= crashes + Reg(p).stops + Reg(p).blocked + Owed(p)
    BY <1>4, <1>5 DEF PartnerOK, CleanOK
  <2>2. Reg(p).stops \in Nat /\ Reg(p).blocked \in Nat
    BY <1>5 DEF Rows
  <2> QED BY <1>2, <1>4, <1>5, <1>6, <1>7, <2>1, <2>2 DEF CleanOK
<1>8. CASE Rewrites1(Rest, "sandbox", p, {"issue"}, SecurityEvent("registered", p))
  <2>1. /\ s.file = "sandbox" /\ s.marks = {"issue"} /\ Rest' = SecurityEvent("registered", p)
    BY <1>1, <1>2, <1>8 DEF Rewrites1, Does1
  <2>2. Reg(p)' = Reg(p) /\ Held(p)' = Held(p) /\ ~Keyed(p)
    BY <1>1, <1>2, <1>3, <2>1 DEF SandboxRewritten, Keyed
  <2>3. Course'
    BY <1>2, <2>1, EventsPlain, PlainKept
  <2>4. HasRow(p)' /\ ~Marked(p)' /\ ~Marked(p)
    BY <1>3, <2>2 DEF HasRow, Marked, Candidate
  <2>5. KeyOK(p)' /\ FinalOK(p)' /\ KeysOK(p)'
    BY <1>2, <1>3, <1>4, <1>5, <2>2, <2>4 DEF PartnerOK, KeyOK, FinalOK, KeysOK
  <2> QED BY <1>1, <1>2, <1>3, <1>7, <2>2, <2>3, <2>4, <2>5 DEF PartnerOK
<1>9. CASE Rewrites1(Rest, "production", p, {"issue"}, Revoking(p))
  <2>1. /\ s.file = "production" /\ s.marks = {"issue"} /\ Rest' = Revoking(p)
    BY <1>1, <1>2, <1>9 DEF Rewrites1, Does1
  <2>2. Reg(p)' = Reg(p) /\ Held(p)' = Held(p) + 1 /\ ~Keyed(p)
    BY <1>1, <1>2, <1>3, <2>1 DEF ProductionRewritten, Keyed
  <2>3. HasRow(p)' /\ ~Marked(p)' /\ Candidate(p)' /\ ~Marked(p)
    BY <1>3, <2>2 DEF HasRow, Marked, Candidate
  <2>4. Course'
    <3>1. OnCourse(p)'
      BY <1>5, <2>1, <2>2, <2>3 DEF OnCourse, Revoking
    <3> QED BY <1>2, <3>1 DEF Course
  <2>5. Keyed(p)'
    <3>1. Rewrites1(Revoking(p), "sandbox", p, {"revoke"}, Marking(p))
      BY ListSteps
    <3>2. /\ Rest' # <<>> /\ Head(Rest').do = "rewrite" /\ Head(Rest').p = p
          /\ Head(Rest').file = "sandbox" /\ Head(Rest').marks = {"revoke"}
      BY <2>1, <3>1 DEF Rewrites1, Does1
    <3> QED BY <3>2 DEF Keyed
  <2>6. KeyOK(p)' /\ FinalOK(p)' /\ KeysOK(p)'
    BY <1>2, <1>3, <1>4, <1>5, <2>2, <2>3, <2>5 DEF PartnerOK, KeyOK, FinalOK, KeysOK
  <2> QED BY <1>1, <1>2, <1>3, <1>7, <2>2, <2>3, <2>4, <2>6 DEF PartnerOK
<1>10. CASE Rewrites1(Rest, "sandbox", p, {"revoke"}, Marking(p)) /\ Held(p) > 0
  <2>1. /\ s.file = "sandbox" /\ s.marks = {"revoke"} /\ Rest' = Marking(p)
    BY <1>1, <1>2, <1>10 DEF Rewrites1, Does1
  <2>2. Reg(p)' = Reg(p) /\ Held(p)' = Held(p) /\ ~HoldsSandbox(p)'
    BY <1>1, <1>2, <1>3, <2>1 DEF SandboxRewritten
  <2>3. HasRow(p)' /\ ~Marked(p)' /\ Candidate(p)' /\ ~Marked(p)
    BY <1>3, <2>2 DEF HasRow, Marked, Candidate
  <2>4. Course'
    <3>1. OnCourse(p)'
      BY <1>10, <2>1, <2>2, <2>3 DEF OnCourse, Marking
    <3> QED BY <1>2, <3>1 DEF Course
  <2>5. Keyed(p)'
    <3>1. Rewrites1(Marking(p), "registry", p, {"graduate"}, Noting(p))
      BY ListSteps
    <3>2. /\ Rest' # <<>> /\ Head(Rest').do = "rewrite" /\ Head(Rest').p = p
          /\ Head(Rest').file = "registry" /\ Head(Rest').marks = {"graduate"}
      BY <2>1, <3>1 DEF Rewrites1, Does1
    <3> QED BY <3>2 DEF Keyed
  <2>6. KeyOK(p)' /\ FinalOK(p)' /\ KeysOK(p)'
    BY <1>2, <1>3, <1>4, <1>5, <2>2, <2>3, <2>5 DEF PartnerOK, KeyOK, FinalOK, KeysOK
  <2> QED BY <1>1, <1>2, <1>3, <1>7, <2>2, <2>3, <2>4, <2>6 DEF PartnerOK
<1>11. CASE /\ Rewrites1(Rest, "registry", p, {"graduate"}, Noting(p))
            /\ Held(p) > 0 /\ ~HoldsSandbox(p)
  <2>1. /\ s.file = "registry" /\ s.marks = {"graduate"} /\ Rest' = Noting(p)
    BY <1>1, <1>2, <1>11 DEF Rewrites1, Does1
  <2>2. /\ Reg(p)' = MarkedGraduated(Reg(p)) /\ Held(p)' = Held(p)
        /\ HoldsSandbox(p)' = HoldsSandbox(p)
    BY <1>2, <1>3, <1>5, <2>1 DEF RegistryRewritten
  <2>3. HasRow(p)' /\ Marked(p)' /\ ~Candidate(p)'
        /\ Reg(p)'.stops = Reg(p).stops /\ Reg(p)'.blocked = Reg(p).blocked
    BY <1>5, <2>2, MarkedRow, NoneAssumption DEF HasRow, Marked, Candidate
  <2>4. Course'
    <3>1. OnCourse(p)'
      BY <2>1, <2>3 DEF OnCourse, Noting
    <3> QED BY <1>2, <3>1 DEF Course
  <2>5. KeyOK(p)' /\ FinalOK(p)' /\ KeysOK(p)'
    BY <1>2, <1>4, <1>5, <1>11, <2>2, <2>3 DEF PartnerOK, KeyOK, FinalOK, KeysOK
  <2> QED BY <1>1, <1>2, <1>3, <1>7, <2>3, <2>4, <2>5 DEF PartnerOK
<1> QED BY <1>1, <1>2, <1>8, <1>9, <1>10, <1>11 DEF AtOwn, Does1

LEMMA RewritesOK ==
  ASSUME IInv, IInv', SInv, Rewrites
  PROVE  Course' /\ \A q \in Partners : PartnerOK(q)'
<1>1. PICK s : s = Head(Rest)
  OBVIOUS
<1>2. /\ Rest # <<>> /\ s.p \in Partners
      /\ UNCHANGED <<log, registered, wiped, crashes>>
      /\ \A q \in Partners : q # s.p => SameFiles(q)
  BY <1>1, RewriteEffect
<1>3. ASSUME NEW q \in Partners, q # s.p
      PROVE  PartnerOK(q)'
  <2>1. SameFiles(q) /\ SameOwed(q)
    BY <1>1, <1>2, <1>3, Elsewhere
  <2> QED BY <1>2, <2>1, Unaffected
<1>4. Course' /\ PartnerOK(s.p)'
  <2>1. CASE AtPlain
    BY <1>1, <2>1, PlainRewriteOK
  <2>2. ASSUME NEW p \in registered, p \in Partners, AtOwn(p)
        PROVE  Course' /\ PartnerOK(s.p)'
    BY <1>1, <2>2, OwnRewriteOK
  <2> QED BY <1>2, <2>1, <2>2, Where
<1> QED BY <1>3, <1>4

-----------------------------------------------------------------------------
(* The theorems *)

LEMMA SerialInit == Init => SInv
<1> SUFFICES ASSUME Init PROVE SInv
  OBVIOUS
<1>1. /\ disk = Empty /\ log = [p \in Partners |-> [k \in LogKinds |-> 0]]
      /\ registered = {} /\ crashes = 0 /\ chain = [c \in Chains |-> None]
      /\ \A a \in Actors : todo[a] = <<>> /\ mem[a] = None
  BY DEF Init
<1>2. ~Opened /\ Rest = <<>> /\ \A f : View(f) = Empty[f]
  BY <1>1, LoopIsActor, NoCopy
<1>3. Alone
  BY <1>1, <1>2, LoopIsActor DEF Alone
<1>4. Course
  BY <1>2 DEF Course, Plain
<1>5. ASSUME NEW p \in Partners
      PROVE  PartnerOK(p)
  <2>1. Reg(p) = None /\ ~HoldsSandbox(p) /\ Held(p) = 0
    BY <1>2 DEF Reg, HoldsSandbox, Held, Empty
  <2>2. \A k \in LogKinds : log[p][k] = 0
    BY <1>1
  <2>3. BadEvents(p) = 0 /\ log[p]["graduation_log"] = 0
    BY <2>2 DEF BadEvents, LogKinds, Offences
  <2> QED BY <1>1, <2>1, <2>3
          DEF PartnerOK, Unknown, KeyOK, FinalOK, KeysOK, CleanOK, HasRow, Marked
<1> QED BY <1>1, <1>3, <1>4, <1>5 DEF SInv

LEMMA SerialNext ==
  ASSUME Serial, IInv, SInv, [Next]_vars
  PROVE  SInv'
<1>1. IInv' /\ Alone' /\ Known' /\ Linear
  BY NextOK, NextLinear
<1>2. Course' /\ crashes' \in Nat /\ \A q \in Partners : PartnerOK(q)'
  <2>1. crashes \in Nat
    BY DEF SInv
  <2>2. CASE Dies
    BY <1>1, <2>2, DiesOK
  <2>3. CASE Stands
    BY <1>1, <2>1, <2>3, StandsOK DEF Stands
  <2>4. CASE Rewrites
    BY <1>1, <2>1, <2>4, RewritesOK DEF Rewrites
  <2>5. CASE Appends
    BY <1>1, <2>1, <2>5, AppendsOK DEF Appends
  <2>6. CASE Notes
    BY <1>1, <2>1, <2>6, NotesOK DEF Notes
  <2>7. CASE Assesses
    BY <1>1, <2>1, <2>7, AssessesOK DEF Assesses
  <2>8. CASE Registers \/ Graduates \/ BeginsPlain
    BY <1>1, <2>1, <2>8, StartsOK DEF Registers, Graduates, BeginsPlain, Begins
  <2> QED BY <1>1, <2>2, <2>3, <2>4, <2>5, <2>6, <2>7, <2>8 DEF Linear
<1> QED BY <1>1, <1>2 DEF SInv, Known

\* The inductive invariant of the serial loop.
THEOREM SerialInvariant ==
  ASSUME Serial
  PROVE  Spec => [](IInv /\ SInv)
<1>1. Init => IInv /\ SInv
  BY InitOK, SerialInit
<1>2. IInv /\ SInv /\ [Next]_vars => (IInv /\ SInv)'
  BY NextOK, SerialNext
<1> QED BY <1>1, <1>2, PTL DEF Spec

\* What the files hold, against the views.
LEMMA FileOrEmpty ==
  ASSUME IInv, SInv, NEW p \in Partners
  PROVE  /\ Row(p) = Reg(p) \/ (Row(p) = None /\ Gone("registry"))
         /\ disk.sandbox[p] = HoldsSandbox(p) \/ ~disk.sandbox[p]
         /\ disk.production[p] = Held(p) \/ (disk.production[p] = 0 /\ Gone("production"))
         /\ \A f \in wiped : Gone(f)
<1>1. \A f : View(f) = disk[f] \/ (disk[f] = Empty[f] /\ Gone(f))
  <2>1. SUFFICES ASSUME NEW f, Opened, mem[Loop].file = f
                 PROVE  disk[f] = Empty[f] /\ Gone(f)
    BY DEF View
  <2>2. Gone(f)
    BY <2>1, LoopIsActor DEF Gone, Opened
  <2> QED BY <2>1, <2>2 DEF SInv, Alone
<1>2. /\ View("registry") = disk["registry"]
           \/ (disk["registry"] = Empty["registry"] /\ Gone("registry"))
      /\ View("sandbox") = disk["sandbox"] \/ disk["sandbox"] = Empty["sandbox"]
      /\ View("production") = disk["production"]
           \/ (disk["production"] = Empty["production"] /\ Gone("production"))
  BY <1>1
<1>3. Row(p) = Reg(p) \/ (Row(p) = None /\ Gone("registry"))
  BY <1>2 DEF Row, Reg, Empty
<1>4. disk.sandbox[p] = HoldsSandbox(p) \/ ~disk.sandbox[p]
  BY <1>2 DEF HoldsSandbox, Empty
<1>5. disk.production[p] = Held(p) \/ (disk.production[p] = 0 /\ Gone("production"))
  BY <1>2 DEF Held, Empty
<1> QED BY <1>3, <1>4, <1>5 DEF Gone

\* A partner whose row says ready has a clean log, but for events a crash kept from the
\* registry: what the logs count, the row has been charged, or is about to be.
THEOREM HistoryClean ==
  ASSUME Serial
  PROVE  Spec => []CleanHistory
<1>1. IInv /\ SInv => CleanHistory
  <2>1. SUFFICES ASSUME IInv, SInv, NEW p \in Partners, Ready(p), ~Busy(p)
                 PROVE  BadEvents(p) <= crashes
    BY DEF CleanHistory, BadEvents
  <2>2. mem[Loop] = None /\ \A i \in DOMAIN todo[Loop] : todo[Loop][i].p # p
    BY <2>1, LoopIsActor DEF Busy
  <2>3. Rest = todo[Loop] /\ Row(p) = Reg(p)
    BY <2>2, NoCopy DEF Row, Reg
  <2>4. Rest # <<>> => Head(Rest).p # p
    <3>1. Rest \in Seq(Steps)
      BY <2>1, RestTyped
    <3>2. Rest # <<>> => 1 \in DOMAIN Rest /\ Head(Rest) = Rest[1]
      BY <3>1
    <3> QED BY <2>2, <2>3, <3>2
  <2>5. HasRow(p) /\ Reg(p).stops = 0 /\ Reg(p).blocked = 0
    <3>1. Content("registry", disk["registry"])
      BY <2>1 DEF IInv, DiskOK, Files
    <3>2. EarnedRow(Row(p))
      BY <2>1, <3>1 DEF Content, Row, Ready
    <3> QED BY <2>1, <2>3, <3>2 DEF EarnedRow, Ready, HasRow
  <2>6. Owed(p) = 0 /\ CleanOK(p) /\ crashes \in Nat
    BY <2>1, <2>4, Elsewhere DEF SInv, PartnerOK
  <2> QED BY <2>5, <2>6 DEF CleanOK
<1> QED BY <1>1, SerialInvariant, PTL

\* Once the graduation log has a partner, the registry says graduated, whatever requests
\* and handoffs follow, unless the whole file is lost.
THEOREM FinalGraduation ==
  ASSUME Serial
  PROVE  Spec => []GraduatedIsFinal
<1>1. IInv /\ SInv => GraduatedIsFinal
  <2>1. SUFFICES ASSUME IInv, SInv, NEW p \in Partners, log[p]["graduation_log"] > 0
                 PROVE  Graduated(p) \/ (Row(p) = None /\ Gone("registry"))
    BY DEF GraduatedIsFinal
  <2>2. Marked(p) \/ (~HasRow(p) /\ "registry" \in wiped)
    BY <2>1 DEF SInv, PartnerOK, FinalOK
  <2> QED BY <2>1, <2>2, FileOrEmpty DEF Marked, HasRow, Graduated
<1> QED BY <1>1, SerialInvariant, PTL

\* Who is graduated has a production key and no sandbox key, at every moment of the
\* graduation and after it.
THEOREM GraduatedKeyed ==
  ASSUME Serial
  PROVE  Spec => []GraduatedHoldsKey
<1>1. IInv /\ SInv => GraduatedHoldsKey
  <2>1. SUFFICES ASSUME IInv, SInv, NEW p \in Partners, Graduated(p)
                 PROVE  ~disk.sandbox[p] /\ (disk.production[p] > 0 \/ Gone("production"))
    BY DEF GraduatedHoldsKey
  <2>2. Marked(p)
    BY <2>1, FileOrEmpty DEF Marked, HasRow, Graduated
  <2>3. ~HoldsSandbox(p) /\ (Held(p) > 0 \/ "production" \in wiped)
    BY <2>1, <2>2 DEF SInv, PartnerOK, KeyOK
  <2>4. ~disk.sandbox[p]
    BY <2>1, <2>3, FileOrEmpty
  <2>5. disk.production[p] > 0 \/ Gone("production")
    BY <2>1, <2>3, FileOrEmpty
  <2> QED BY <2>4, <2>5
<1> QED BY <1>1, SerialInvariant, PTL

\* However often the operator asks, only a crash gives a partner another key.
THEOREM OneKey ==
  ASSUME Serial
  PROVE  Spec => []NoSecondKey
<1>1. IInv /\ SInv => NoSecondKey
  <2>1. SUFFICES ASSUME IInv, SInv, NEW p \in Partners
                 PROVE  disk.production[p] <= 1 + crashes
    BY DEF NoSecondKey
  <2>2. Held(p) <= crashes + 1 /\ Held(p) \in Nat /\ crashes \in Nat
    BY <2>1, PartnerTyped DEF SInv, PartnerOK, KeysOK
  <2>3. disk.production[p] = Held(p) \/ disk.production[p] = 0
    BY <2>1, FileOrEmpty
  <2> QED BY <2>2, <2>3
<1> QED BY <1>1, SerialInvariant, PTL

-----------------------------------------------------------------------------
(* The life of a partner *)

LEMMA LifeIs ==
  ASSUME NEW p \in Partners
  PROVE  /\ Stage[p] = "none" <=> ~HasRow(p)
         /\ Stage[p] = "candidate" <=> Candidate(p)
         /\ Stage[p] = "graduated" <=> Marked(p)
         /\ p \in Admitted <=> HoldsSandbox(p)
         /\ View("production")[p] = Held(p)
  BY DEF Stage, StageOf, HasRow, Candidate, Marked, Reg, Admitted, HoldsSandbox, Held

LEMMA StageChange ==
  ASSUME NEW p \in Partners, NEW x, StageOf(Reg(p))' = x,
         \A q \in Partners : q # p => Reg(q)' = Reg(q)
  PROVE  Stage' = [Stage EXCEPT ![p] = x]
<1>1. \A q \in Partners : Stage'[q] = StageOf(Reg(q))' /\ Stage[q] = StageOf(Reg(q))
  BY DEF Stage, Reg
<1>2. \A q \in Partners : q # p => StageOf(Reg(q))' = StageOf(Reg(q))
  BY DEF StageOf
<1>3. Stage = [q \in Partners |-> Stage[q]] /\ Stage' = [q \in Partners |-> Stage'[q]]
  BY DEF Stage
<1>4. \A q \in Partners : Stage'[q] = IF q = p THEN x ELSE Stage[q]
  BY <1>1, <1>2
<1> QED BY <1>3, <1>4

LEMMA StageStays ==
  ASSUME \A q \in Partners : StageOf(Reg(q))' = StageOf(Reg(q))
  PROVE  Stage' = Stage
  BY DEF Stage, Reg

LEMMA AdmittedStays ==
  ASSUME \A q \in Partners : HoldsSandbox(q)' = HoldsSandbox(q)
  PROVE  Admitted' = Admitted
<1>1. \A q \in Partners : q \in Admitted' <=> q \in Admitted
  BY DEF Admitted, HoldsSandbox
<1>2. Admitted \subseteq Partners /\ Admitted' \subseteq Partners
  BY DEF Admitted
<1> QED BY <1>1, <1>2

LEMMA AdmittedChange ==
  ASSUME NEW p \in Partners, \A q \in Partners : q # p => HoldsSandbox(q)' = HoldsSandbox(q)
  PROVE  /\ HoldsSandbox(p)' => Admitted' = Admitted \cup {p}
         /\ ~HoldsSandbox(p)' => Admitted' = Admitted \ {p}
<1>1. \A q \in Partners : q # p => (q \in Admitted' <=> q \in Admitted)
  BY DEF Admitted, HoldsSandbox
<1>2. p \in Admitted' <=> HoldsSandbox(p)'
  BY DEF Admitted, HoldsSandbox
<1>3. Admitted \subseteq Partners /\ Admitted' \subseteq Partners
  BY DEF Admitted
<1> QED BY <1>1, <1>2, <1>3

Lives == Life!Next \/ UNCHANGED Life!life

LEMMA NothingLived ==
  ASSUME registered' = registered, crashes' = crashes,
         \A q \in Partners : SameFiles(q), View("production")' = View("production")
  PROVE  UNCHANGED Life!life
<1>1. \A q \in Partners : StageOf(Reg(q))' = StageOf(Reg(q))
  BY DEF SameFiles, StageOf
<1>2. \A q \in Partners : HoldsSandbox(q)' = HoldsSandbox(q)
  BY DEF SameFiles
<1> QED BY <1>1, <1>2, StageStays, AdmittedStays DEF Life!life

LEMMA NobodyLived ==
  ASSUME SameViews(Files), registered' = registered, crashes' = crashes
  PROVE  UNCHANGED Life!life
<1>1. View("production")' = View("production")
  BY KindsAreMarks DEF SameViews
<1> QED BY <1>1, ViewsKept, NothingLived

LEMMA AppendsLives ==
  ASSUME IInv, SInv, Appends
  PROVE  Lives
<1>1. /\ Rest # <<>> /\ Head(Rest).do = "append"
      /\ View("registry")' = [View("registry") EXCEPT ![Head(Rest).p] = NewRow]
      /\ View("sandbox")' = View("sandbox") /\ View("production")' = View("production")
      /\ UNCHANGED <<log, registered, wiped, crashes>>
  BY KindsAreMarks DEF Appends, Advanced, SameViews
<1>2. PICK p \in registered : p \in Partners /\ AtOwn(p)
  BY <1>1, Where DEF AtPlain, PlainStep
<1>3. Head(Rest).p = p /\ Unknown(p)
  BY <1>1, <1>2 DEF AtOwn, Does1, Rewrites1
<1>4. Reg(p)' = NewRow /\ \A q \in Partners : q # p => Reg(q)' = Reg(q)
  BY <1>1, <1>2, <1>3, PartnerTyped DEF Reg
<1>5. StageOf(Reg(p))' = "candidate"
  <2>1. NewRow \in Rows /\ NewRow.status = "sandbox"
    BY NewRowEarned DEF NewRow
  <2> QED BY <1>4, <2>1, NoneAssumption DEF StageOf
<1>6. Stage' = [Stage EXCEPT ![p] = "candidate"]
  BY <1>2, <1>4, <1>5, StageChange
<1>7. Admitted' = Admitted
  BY <1>1 DEF Admitted
<1>8. Stage[p] = "none" /\ p \notin Admitted /\ View("production")[p] = 0
  BY <1>2, <1>3, LifeIs DEF Unknown
<1>9. Life!Join(p)
  BY <1>1, <1>6, <1>7, <1>8 DEF Life!Join
<1> QED BY <1>2, <1>9 DEF Lives, Life!Next

\* The production keys, as a whole.
LEMMA KeysEffect ==
  ASSUME IInv, Rewrites, NEW s, s = Head(Rest)
  PROVE  View("production")' = IF s.file = "production" /\ "issue" \in s.marks
                               THEN [View("production") EXCEPT ![s.p] = @ + 1]
                               ELSE View("production")
<1>1. s.p \in Partners
  BY RewriteEffect
<1>2. View("production") \in [Partners -> Nat]
  BY <1>1, PartnerTyped
<1>3. CASE s.file = "production"
  <2>1. View("production")'
          = [View("production") EXCEPT ![s.p] = IF "issue" \in s.marks THEN @ + 1 ELSE @]
    BY <1>3 DEF Rewrites, Writes, Rewritten
  <2> QED BY <1>2, <1>3, <2>1
<1>4. CASE s.file # "production"
  BY <1>4, KindsAreMarks DEF Rewrites, SameViews
<1> QED BY <1>3, <1>4

LEMMA RewritesLives ==
  ASSUME IInv, SInv, Rewrites
  PROVE  Lives
<1>1. PICK s : s = Head(Rest)
  OBVIOUS
<1>2. /\ Rest # <<>> /\ s.do = "rewrite" /\ s.p \in Partners
      /\ UNCHANGED <<log, registered, wiped, crashes>>
      /\ \A q \in Partners : q # s.p => SameFiles(q)
      /\ s.file = "registry" => RegistryRewritten(s.p, s.marks)
      /\ s.file = "sandbox" => SandboxRewritten(s.p, s.marks)
      /\ s.file = "production" => ProductionRewritten(s.p, s.marks)
  BY <1>1, RewriteEffect
<1>3. View("production")' = IF s.file = "production" /\ "issue" \in s.marks
                            THEN [View("production") EXCEPT ![s.p] = @ + 1]
                            ELSE View("production")
  BY <1>1, KeysEffect
<1>4. \A q \in Partners : q # s.p =>
        /\ Reg(q)' = Reg(q) /\ HoldsSandbox(q)' = HoldsSandbox(q)
        /\ StageOf(Reg(q))' = StageOf(Reg(q))
  BY <1>2 DEF SameFiles, StageOf
<1>5. CASE AtPlain
  <2>1. \/ s.file = "registry" /\ "graduate" \notin s.marks
        \/ s.file = "production" /\ "issue" \notin s.marks
    BY <1>1, <1>2, <1>5 DEF AtPlain, PlainStep
  <2>2. View("production")' = View("production")
    BY <1>3, <2>1
  <2>3. HoldsSandbox(s.p)' = HoldsSandbox(s.p)
    BY <1>2, <2>1 DEF RegistryRewritten, ProductionRewritten
  <2>4. StageOf(Reg(s.p))' = StageOf(Reg(s.p))
    <3>1. CASE s.file = "registry" /\ HasRow(s.p)
      <4>1. Reg(s.p) \in Rows
        BY <1>2, <3>1, PartnerTyped DEF HasRow
      <4>2. PICK burst \in BOOLEAN :
              Reg(s.p)' = Graded(Refreshed(Applied(Reg(s.p), s.marks), burst))
        BY <1>2, <2>1, <3>1 DEF RegistryRewritten
      <4>3. /\ Reg(s.p)' \in Rows
            /\ Reg(s.p)'.status = "graduated" <=> Reg(s.p).status = "graduated"
        BY <4>1, <4>2, RowsRewritten
      <4> QED BY <4>1, <4>3, NoneAssumption DEF StageOf
    <3>2. CASE s.file = "registry" /\ ~HasRow(s.p)
      BY <1>2, <3>2 DEF RegistryRewritten, StageOf, HasRow
    <3>3. CASE s.file = "production"
      BY <1>2, <3>3 DEF ProductionRewritten, StageOf
    <3> QED BY <2>1, <3>1, <3>2, <3>3
  <2>5. Stage' = Stage /\ Admitted' = Admitted
    BY <1>4, <2>3, <2>4, StageStays, AdmittedStays
  <2> QED BY <1>2, <2>2, <2>5 DEF Lives, Life!life
<1>6. ASSUME NEW p \in registered, p \in Partners, AtOwn(p)
      PROVE  Lives
  <2>1. s.p = p /\ Candidate(p) /\ Stage[p] = "candidate"
    BY <1>1, <1>2, <1>6, LifeIs DEF AtOwn, Does1, Rewrites1
  <2>2. CASE s.file = "sandbox" /\ s.marks = {"issue"}
    <3>1. View("production")' = View("production")
      BY <1>3, <2>2
    <3>2. Stage' = Stage
      <4>1. StageOf(Reg(s.p))' = StageOf(Reg(s.p))
        BY <1>2, <2>2 DEF SandboxRewritten, StageOf
      <4> QED BY <1>4, <4>1, StageStays
    <3>3. Admitted' = Admitted \cup {p}
      BY <1>2, <1>4, <1>6, <2>1, <2>2, AdmittedChange DEF SandboxRewritten
    <3>4. Life!Admit(p)
      BY <1>2, <2>1, <3>1, <3>2, <3>3 DEF Life!Admit
    <3> QED BY <1>6, <3>4 DEF Lives, Life!Next
  <2>3. CASE s.file = "production" /\ s.marks = {"issue"}
    <3>1. View("production")' = [View("production") EXCEPT ![p] = @ + 1]
      BY <1>3, <2>1, <2>3
    <3>2. Stage' = Stage /\ Admitted' = Admitted
      <4>1. /\ StageOf(Reg(s.p))' = StageOf(Reg(s.p))
            /\ HoldsSandbox(s.p)' = HoldsSandbox(s.p)
        BY <1>2, <2>3 DEF ProductionRewritten, StageOf
      <4> QED BY <1>4, <4>1, StageStays, AdmittedStays
    <3>3. View("production")[p] <= crashes
      <4>1. ~Keyed(p)
        BY <1>1, <2>3 DEF Keyed
      <4> QED BY <1>6, <2>1, <4>1, LifeIs DEF SInv, PartnerOK, KeysOK
    <3>4. Life!Issue(p)
      BY <1>2, <2>1, <3>1, <3>2, <3>3 DEF Life!Issue
    <3> QED BY <1>6, <3>4 DEF Lives, Life!Next
  <2>4. CASE s.file = "sandbox" /\ s.marks = {"revoke"} /\ Held(p) > 0
    <3>1. View("production")' = View("production") /\ View("production")[p] > 0
      BY <1>3, <1>6, <2>4, LifeIs
    <3>2. Stage' = Stage
      <4>1. StageOf(Reg(s.p))' = StageOf(Reg(s.p))
        BY <1>2, <2>4 DEF SandboxRewritten, StageOf
      <4> QED BY <1>4, <4>1, StageStays
    <3>3. Admitted' = Admitted \ {p}
      BY <1>2, <1>4, <1>6, <2>1, <2>4, AdmittedChange DEF SandboxRewritten
    <3>4. Life!Expel(p)
      BY <1>2, <2>1, <3>1, <3>2, <3>3 DEF Life!Expel
    <3> QED BY <1>6, <3>4 DEF Lives, Life!Next
  <2>5. CASE s.file = "registry" /\ s.marks = {"graduate"} /\ Held(p) > 0 /\ ~HoldsSandbox(p)
    <3>1. View("production")' = View("production") /\ View("production")[p] > 0
      BY <1>3, <1>6, <2>5, LifeIs
    <3>2. HoldsSandbox(p)' = HoldsSandbox(p) /\ Reg(p)' = MarkedGraduated(Reg(p))
      BY <1>2, <2>1, <2>5 DEF RegistryRewritten, Candidate
    <3>3. Admitted' = Admitted /\ p \notin Admitted
      BY <1>4, <1>6, <2>1, <2>5, <3>2, AdmittedStays, LifeIs
    <3>4. StageOf(Reg(p))' = "graduated"
      <4>1. Reg(p) \in Rows
        BY <1>6, <2>1, PartnerTyped DEF Candidate, HasRow
      <4> QED BY <3>2, <4>1, MarkedRow, NoneAssumption DEF StageOf
    <3>5. Stage' = [Stage EXCEPT ![p] = "graduated"]
      BY <1>4, <1>6, <2>1, <3>4, StageChange
    <3>6. Life!Graduate(p)
      BY <1>2, <2>1, <3>1, <3>3, <3>5 DEF Life!Graduate
    <3> QED BY <1>6, <3>6 DEF Lives, Life!Next
  <2> QED BY <1>1, <1>2, <1>6, <2>2, <2>3, <2>4, <2>5 DEF AtOwn, Does1, Rewrites1
<1> QED BY <1>2, <1>5, <1>6, Where

LEMMA DiesLives ==
  ASSUME Dies
  PROVE  Lives
<1>1. registered' = registered /\ crashes' = crashes + 1
  BY DEF Dies
<1>2. PICK f \in Files : SameViews(Files \ {f})
  BY DEF Dies
<1>3. View(f)' = View(f) \/ View(f)' = Empty[f]
  BY DEF Dies
<1>4. CASE View(f)' = View(f)
  <2>1. SameViews(Files)
    BY <1>2, <1>4 DEF SameViews
  <2>2. Stage' = Stage /\ Admitted' = Admitted /\ View("production")' = View("production")
    BY <2>1, KindsAreMarks DEF SameViews, Stage, StageOf, Admitted
  <2> QED BY <1>1, <2>2 DEF Lives, Life!Next, Life!Crash
<1>5. CASE f = "registry" /\ View(f)' = Empty[f]
  <2>1. View("sandbox")' = View("sandbox") /\ View("production")' = View("production")
    BY <1>2, <1>5, KindsAreMarks DEF SameViews
  <2>2. Admitted' = Admitted
    BY <2>1 DEF Admitted
  <2>3. Stage' = Life!NoStage
    BY <1>5 DEF Stage, StageOf, Empty, Life!NoStage
  <2> QED BY <1>1, <2>1, <2>2, <2>3 DEF Lives, Life!Next, Life!Crash
<1>6. CASE f = "sandbox" /\ View(f)' = Empty[f]
  <2>1. View("registry")' = View("registry") /\ View("production")' = View("production")
    BY <1>2, <1>6, KindsAreMarks DEF SameViews
  <2>2. Admitted' = {}
    BY <1>6 DEF Admitted, Empty
  <2>3. Stage' = Stage
    BY <2>1 DEF Stage, StageOf
  <2> QED BY <1>1, <2>1, <2>2, <2>3 DEF Lives, Life!Next, Life!Crash
<1>7. CASE f = "production" /\ View(f)' = Empty[f]
  <2>1. View("registry")' = View("registry") /\ View("sandbox")' = View("sandbox")
    BY <1>2, <1>7, KindsAreMarks DEF SameViews
  <2>2. Admitted' = Admitted /\ Stage' = Stage
    BY <2>1 DEF Admitted, Stage, StageOf
  <2>3. View("production")' = Life!NoKeys
    BY <1>7 DEF Empty, Life!NoKeys
  <2> QED BY <1>1, <2>2, <2>3 DEF Lives, Life!Next, Life!Crash
<1> QED BY <1>3, <1>4, <1>5, <1>6, <1>7 DEF Files

LEMMA LinearLives ==
  ASSUME IInv, SInv, Linear
  PROVE  Lives
<1>1. CASE Stands
  BY <1>1, NobodyLived DEF Stands, Lives
<1>2. CASE Notes
  BY <1>2, NobodyLived DEF Notes, Lives
<1>3. CASE Assesses
  BY <1>3, NobodyLived DEF Assesses, Lives
<1>4. CASE Registers
  <2>1. PICK p \in Partners \ registered :
          registered' = registered \cup {p} /\ SameViews(Files) /\ crashes' = crashes
    BY <1>4 DEF Registers, Begins
  <2>2. \A f \in Files : View(f)' = View(f)
    BY <2>1 DEF SameViews
  <2>3. Stage' = Stage /\ Admitted' = Admitted /\ View("production")' = View("production")
    BY <2>2, KindsAreMarks DEF Stage, StageOf, Admitted
  <2>4. Life!GiveId(p)
    BY <2>1, <2>3 DEF Life!GiveId
  <2> QED BY <2>4 DEF Lives, Life!Next
<1>5. CASE Graduates \/ BeginsPlain
  BY <1>5, NobodyLived DEF Graduates, BeginsPlain, Begins, Lives
<1> QED BY <1>1, <1>2, <1>3, <1>4, <1>5, AppendsLives, RewritesLives, DiesLives DEF Linear

LEMMA LifeInit == Init => Life!Init
<1> SUFFICES ASSUME Init PROVE Life!Init
  OBVIOUS
<1>1. mem[Loop] = None /\ disk = Empty /\ registered = {} /\ crashes = 0
  BY LoopIsActor DEF Init
<1>2. \A f : View(f) = Empty[f]
  BY <1>1, NoCopy
<1>3. Stage = Life!NoStage
  BY <1>2 DEF Stage, StageOf, Empty, Life!NoStage
<1>4. Admitted = {}
  BY <1>2 DEF Admitted, Empty
<1>5. View("production") = Life!NoKeys
  BY <1>2 DEF Empty, Life!NoKeys
<1> QED BY <1>1, <1>3, <1>4, <1>5 DEF Life!Init

\* The event loop, alone at the files, implements the life of a partner.
THEOREM LoopImplementsLifecycle ==
  ASSUME Serial
  PROVE  Spec => ImplementsLifecycle
<1>1. IInv /\ SInv /\ [Next]_vars => [Life!Next]_(Life!life)
  <2> SUFFICES ASSUME IInv, SInv, [Next]_vars
               PROVE  Life!Next \/ UNCHANGED Life!life
    OBVIOUS
  <2> QED BY NextLinear, LinearLives DEF Lives
<1> QED BY <1>1, LifeInit, SerialInvariant, PTL DEF Spec, ImplementsLifecycle, Life!Spec
=============================================================================
