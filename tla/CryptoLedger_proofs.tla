------------------------ MODULE CryptoLedger_proofs ------------------------
(***************************************************************************)
(* Confirmations and their audit records are counted, and with a clock     *)
(* that is never set back the payment and audit files implement            *)
(* PaymentLedger and intents agree with their payments, for any number of  *)
(* payments, transactions and crashes.                                     *)
(***************************************************************************)
EXTENDS CryptoPayments_proofs, FiniteSetTheorems

-----------------------------------------------------------------------------
(* Counting rows *)

ConfirmedRows(file, p) == {i \in DOMAIN file : file[i].pid = p /\ file[i].status = "confirmed"}
Records(file, p) == {k \in DOMAIN file : file[k].pid = p}

\* The rows about a payment can be counted.
LEMMA Countable ==
  ASSUME NEW S, NEW file \in Seq(S), NEW p
  PROVE  /\ Cardinality(ConfirmedRows(file, p)) \in Nat /\ IsFiniteSet(ConfirmedRows(file, p))
         /\ Cardinality(Records(file, p)) \in Nat /\ IsFiniteSet(Records(file, p))
<1>1. DOMAIN file = 1 .. Len(file) /\ Len(file) \in Nat
  OBVIOUS
<1>2. IsFiniteSet(1 .. Len(file))
  BY <1>1, FS_Interval
<1>3. /\ ConfirmedRows(file, p) \in SUBSET (1 .. Len(file))
      /\ Records(file, p) \in SUBSET (1 .. Len(file))
  BY <1>1 DEF ConfirmedRows, Records
<1> QED BY <1>2, <1>3, FS_Subset, FS_CardinalityType

\* One more payment row: the confirmations of its payment grow if it is one.
LEMMA OneMoreRow ==
  ASSUME NEW file \in Seq(Snapshot), NEW e \in Snapshot, NEW p
  PROVE  Cardinality(ConfirmedRows(Append(file, e), p)) =
         Cardinality(ConfirmedRows(file, p))
           + (IF e.pid = p /\ e.status = "confirmed" THEN 1 ELSE 0)
<1> DEFINE n == Len(file) + 1
           old == ConfirmedRows(file, p)
           new == ConfirmedRows(Append(file, e), p)
<1>1. /\ DOMAIN Append(file, e) = 1 .. n /\ DOMAIN file = 1 .. Len(file) /\ Len(file) \in Nat
      /\ Append(file, e)[n] = e /\ \A j \in DOMAIN file : Append(file, e)[j] = file[j]
  OBVIOUS
<1>2. IsFiniteSet(old) /\ Cardinality(old) \in Nat /\ n \notin old
  <2>1. n \notin old
    BY <1>1 DEF ConfirmedRows
  <2> QED BY <2>1, Countable
<1>3. CASE e.pid = p /\ e.status = "confirmed"
  <2>1. new = old \cup {n}
    BY <1>1, <1>3 DEF ConfirmedRows
  <2> QED BY <1>2, <1>3, <2>1, FS_AddElement
<1>4. CASE ~(e.pid = p /\ e.status = "confirmed")
  <2>1. new = old
    BY <1>1, <1>4 DEF ConfirmedRows
  <2> QED BY <1>2, <1>4, <2>1
<1> QED BY <1>3, <1>4

\* One more audit record.
LEMMA OneMoreRecord ==
  ASSUME NEW file \in Seq(AuditRow), NEW e \in AuditRow, NEW p
  PROVE  Cardinality(Records(Append(file, e), p)) =
         Cardinality(Records(file, p)) + (IF e.pid = p THEN 1 ELSE 0)
<1> DEFINE n == Len(file) + 1
           old == Records(file, p)
           new == Records(Append(file, e), p)
<1>1. /\ DOMAIN Append(file, e) = 1 .. n /\ DOMAIN file = 1 .. Len(file) /\ Len(file) \in Nat
      /\ Append(file, e)[n] = e /\ \A j \in DOMAIN file : Append(file, e)[j] = file[j]
  OBVIOUS
<1>2. IsFiniteSet(old) /\ Cardinality(old) \in Nat /\ n \notin old
  <2>1. n \notin old
    BY <1>1 DEF Records
  <2> QED BY <2>1, Countable
<1>3. CASE e.pid = p
  <2>1. new = old \cup {n}
    BY <1>1, <1>3 DEF Records
  <2> QED BY <1>2, <1>3, <2>1, FS_AddElement
<1>4. CASE e.pid # p
  <2>1. new = old
    BY <1>1, <1>4 DEF Records
  <2> QED BY <1>2, <1>4, <2>1
<1> QED BY <1>3, <1>4

-----------------------------------------------------------------------------
(* What a step does to the payment file: nothing, or one more row *)

\* The row e is added, by a handler that comes to confirm p or one that does not.
Adds(e) == e \in Snapshot /\ payments' = Append(payments, e)

\* A step that begins no confirmation and writes no audit record.
Calm ==
  /\ audit' = audit
  /\ \A p \in Payments : Working(p, "audit")' => Working(p, "audit")
  /\ UNCHANGED payments \/ \E e \in Snapshot : Adds(e)

\* The steps that matter are the first confirmation and the audit record.
LEMMA CalmSteps ==
  ASSUME IInv, [Next]_vars,
         ~WriteAudit, \A p \in Payments : ~(Confirm(p) /\ StatusOf(p) # "confirmed")
  PROVE  Calm
<1> USE DEF IInv
<1>1. ASSUME NEW p \in Payments, NEW mode \in {"direct", "deferred"}, NEW linked \in BOOLEAN,
             Create(p, mode, linked)
      PROVE  Calm
  <2>1. "audit" \notin due' /\ audit' = audit
    BY <1>1 DEF Create
  <2>2. \E e \in Snapshot : Adds(e)
    BY <1>1 DEF Create, Adds, Snapshot, Statuses, Times, TypeOK, Now
  <2> QED BY <2>1, <2>2 DEF Calm, Working
<1>2. ASSUME NEW p \in Payments, NEW s \in Statuses, NEW t \in Txs \cup {NoTx},
             Exists(payments, p), payments' = Append(payments, Updated(p, s, t)),
             due' = {"sync"}, audit' = audit
      PROVE  Calm
  <2>1. Updated(p, s, t) \in Snapshot
    BY <1>2, UpdatedType
  <2> QED BY <1>2, <2>1 DEF Calm, Adds, Working
<1>3. ASSUME NEW p \in Payments, NEW t \in Txs \cup {NoTx}, Submit(p, t) PROVE Calm
  <2>1. "submitted" \in Statuses
    BY DEF Statuses
  <2> QED BY <1>2, <1>3, <2>1 DEF Submit
<1>4. ASSUME NEW p \in Payments, NEW s \in Retirements, Retire(p, s) PROVE Calm
  <2>1. s \in Statuses
    BY ConstantsAssumption DEF Statuses
  <2> QED BY <1>2, <1>4, <2>1 DEF Retire
<1>5. ASSUME NEW p \in Payments, NEW s \in Retirements, RetireIntent(p, s) PROVE Calm
  BY <1>5 DEF RetireIntent, Calm, Working
<1>6. ASSUME NEW p \in Payments, Review(p) \/ Confirm(p) PROVE Calm
  BY <1>6 DEF Review, Confirm, Calm, Working, files
<1>7. ASSUME NEW ids \in SUBSET Payments, BatchSettle(ids) PROVE Calm
  BY <1>7 DEF BatchSettle, Calm, Working
<1>8. CASE Continue
  <2>1. ASSUME NEW a \in due, Done(a) PROVE \A p : Working(p, "audit")' => Working(p, "audit")
    BY <2>1 DEF Done, Working
  <2>2. CASE WriteIntent \/ WriteDeferred \/ SyncIntent
    BY <2>1, <2>2 DEF WriteIntent, WriteDeferred, SyncIntent, Calm
  <2>3. CASE WritePayment
    <3>1. row \in Snapshot
      BY <2>3 DEF WritePayment, TypeOK, Idle
    <3> QED BY <2>1, <2>3, <3>1 DEF WritePayment, Calm, Adds
  <2> QED BY <1>8, <2>2, <2>3 DEF Continue
<1>9. CASE Crash \/ (\E d \in 1 .. MaxBack : SetBack(d)) \/ UNCHANGED vars
  BY <1>9 DEF Crash, SetBack, vars, files, Calm, Working
<1> QED BY <1>1, <1>3, <1>4, <1>5, <1>6, <1>7, <1>8, <1>9 DEF Next, Request

\* No audit record without a confirmation, and at most one for each of them.
LEMMA NextAuditIsEarned ==
  ASSUME IInv, AuditIsEarned, [Next]_vars
  PROVE  AuditIsEarned'
<1> DEFINE Owed(p) == IF Working(p, "audit") THEN 1 ELSE 0
<1>1. payments \in Seq(Snapshot) /\ audit \in Seq(AuditRow)
  BY DEF IInv, TypeOK
<1>2. \A p \in Payments : Cardinality(Records(audit, p)) + Owed(p)
                            <= Cardinality(ConfirmedRows(payments, p))
  BY DEF AuditIsEarned, Records, ConfirmedRows
<1>3. \A p \in Payments : Cardinality(Records(audit, p)) \in Nat
                          /\ Cardinality(ConfirmedRows(payments, p)) \in Nat
  BY <1>1, Countable
<1>4. SUFFICES ASSUME NEW p \in Payments
               PROVE  Cardinality(Records(audit', p)) + Owed(p)'
                        <= Cardinality(ConfirmedRows(payments', p))
  BY DEF AuditIsEarned, Records, ConfirmedRows
<1>5. CASE Calm
  <2>1. Cardinality(ConfirmedRows(payments', p)) >= Cardinality(ConfirmedRows(payments, p))
    <3>1. CASE UNCHANGED payments
      BY <1>3, <3>1
    <3>2. ASSUME NEW e \in Snapshot, Adds(e)
          PROVE  Cardinality(ConfirmedRows(payments', p)) >= Cardinality(ConfirmedRows(payments, p))
      BY <1>1, <1>3, <3>2, OneMoreRow DEF Adds
    <3> QED BY <1>5, <3>1, <3>2 DEF Calm
  <2>2. Owed(p)' <= Owed(p) /\ Owed(p) \in Nat /\ Owed(p)' \in Nat
    BY <1>5 DEF Calm
  <2>3. audit' = audit /\ Cardinality(ConfirmedRows(payments', p)) \in Nat
    <3>1. payments' \in Seq(Snapshot)
      BY <1>1, <1>5 DEF Calm, Adds
    <3> QED BY <1>5, <3>1, Countable DEF Calm
  <2> HIDE DEF Owed
  <2> QED BY <1>2, <1>3, <2>1, <2>2, <2>3
<1>6. ASSUME NEW q \in Payments, Confirm(q), StatusOf(q) # "confirmed"
      PROVE  Cardinality(Records(audit', p)) + Owed(p)'
               <= Cardinality(ConfirmedRows(payments', p))
  <2>1. \E t \in Txs \cup {NoTx} : row' = Updated(q, "confirmed", t)
    BY <1>6 DEF Confirm, IInv, TypeOK
  <2>2. row' \in Snapshot /\ row'.pid = q /\ row'.status = "confirmed"
    BY <1>6, <2>1, UpdatedType DEF Confirm, IInv, Statuses
  <2>3. payments' = Append(payments, row') /\ audit' = audit /\ Idle
    BY <1>6 DEF Confirm
  <2>4. Owed(p) = 0 /\ Owed(p)' \in {0, 1} /\ (Owed(p)' = 1 => p = q)
    BY <2>2, <2>3 DEF Working, Idle
  <2>5. Cardinality(ConfirmedRows(payments', p)) =
          Cardinality(ConfirmedRows(payments, p)) + (IF p = q THEN 1 ELSE 0)
    BY <1>1, <2>2, <2>3, OneMoreRow
  <2> HIDE DEF Owed
  <2> QED BY <1>2, <1>3, <2>3, <2>4, <2>5
<1>7. CASE WriteAudit
  <2> DEFINE e == [pid |-> row.pid, tx |-> row.tx]
  <2>1. audit' = Append(audit, e) /\ payments' = payments
        /\ "audit" \in due /\ "audit" \notin due' /\ row \in Snapshot
    BY <1>7 DEF WriteAudit, Done, IInv, TypeOK, Idle
  <2>2. e \in AuditRow /\ e.pid = row.pid
    BY <2>1 DEF AuditRow, Snapshot
  <2>3. Owed(p)' = 0 /\ Owed(p) = IF row.pid = p THEN 1 ELSE 0
    BY <2>1 DEF Working
  <2> HIDE DEF e, Owed
  <2>4. Cardinality(Records(audit', p)) =
          Cardinality(Records(audit, p)) + (IF row.pid = p THEN 1 ELSE 0)
    BY <1>1, <2>1, <2>2, OneMoreRecord
  <2> QED BY <1>2, <1>3, <2>1, <2>3, <2>4
<1> QED BY <1>5, <1>6, <1>7, CalmSteps

\* An audit record never speaks of a confirmation that is not in the payment file, and
\* confirming twice does not attest twice, whatever the clock does.
THEOREM AuditEarned == Spec => []AuditIsEarned
<1>1. Init => AuditIsEarned
  <2> SUFFICES ASSUME Init, NEW p \in Payments
               PROVE  Cardinality(Records(audit, p)) + (IF Working(p, "audit") THEN 1 ELSE 0)
                        <= Cardinality(ConfirmedRows(payments, p))
    BY DEF AuditIsEarned, Records, ConfirmedRows
  <2>1. Records(audit, p) = {} /\ ConfirmedRows(payments, p) = {} /\ ~Working(p, "audit")
    BY DEF Init, Records, ConfirmedRows, Working
  <2> QED BY <2>1, FS_EmptySet
<1>2. IInv /\ AuditIsEarned /\ [Next]_vars => AuditIsEarned'
  BY NextAuditIsEarned
<1> QED BY <1>1, <1>2, Invariant, PTL DEF Spec

-----------------------------------------------------------------------------
(* The refinement *)

\* No row is newer than the clock, and the payment row that follows its intent is the
\* newest when it is appended: the clock is the one its stamp was read from.
Stamped ==
  /\ \A i \in DOMAIN payments : payments[i].at <= clock
  /\ "payment" \in due =>
       /\ row.at = clock /\ row.status \in Retirements
       /\ row.tx = Latest(payments, row.pid).tx

\* A row that is not older than the others becomes the latest of its payment, and
\* the other payments keep theirs.
LEMMA LatestAppended ==
  ASSUME TypeOK, HasLatest(payments), NEW e, Adds(e),
         \A i \in DOMAIN payments : payments[i].at <= e.at
  PROVE  /\ Exists(payments', e.pid) /\ Latest(payments', e.pid) = e
         /\ \A q \in Payments \ {e.pid} :
              /\ Exists(payments', q) <=> Exists(payments, q)
              /\ Exists(payments, q) => Latest(payments', q) = Latest(payments, q)
<1> DEFINE n == Len(payments) + 1
<1>1. /\ payments \in Seq(Snapshot) /\ e \in Snapshot /\ payments' \in Seq(Snapshot)
      /\ DOMAIN payments' = 1 .. n /\ DOMAIN payments = 1 .. Len(payments)
      /\ Len(payments) \in Nat /\ payments'[n] = e
      /\ \A j \in DOMAIN payments : payments'[j] = payments[j]
  BY DEF TypeOK, Adds
<1>2. (\A r \in Snapshot : r.at \in Nat) /\ \A j \in DOMAIN payments : payments[j].at \in Nat
  <2>1. \A j \in DOMAIN payments : payments[j] \in Snapshot
    BY <1>1
  <2>2. \A r \in Snapshot : r.at \in Nat
    BY DEF Snapshot
  <2> QED BY <2>1, <2>2
<1> HIDE DEF n
<1>3. ASSUME NEW q, NEW i, IsLatest(payments', q, i) PROVE Latest(payments', q) = payments'[i]
  <2>1. i \in DOMAIN payments'
    BY <1>3 DEF IsLatest
  <2>2. \A k \in DOMAIN payments' : IsLatest(payments', q, k) => k = i
    BY <1>1, <1>2, <1>3, LatestIsUnique
  <2>3. (CHOOSE k \in DOMAIN payments' : IsLatest(payments', q, k)) = i
    BY <1>3, <2>1, <2>2
  <2> QED BY <2>3 DEF Latest
<1>4. Exists(payments', e.pid) /\ Latest(payments', e.pid) = e
  <2>1. e.at \in Nat /\ e.pid = payments'[n].pid /\ n \in DOMAIN payments'
    BY <1>1, <1>2 DEF n
  <2>2. IsLatest(payments', e.pid, n)
    BY <1>1, <1>2, <2>1 DEF IsLatest, n
  <2> QED BY <1>1, <1>3, <2>1, <2>2 DEF Exists
<1>5. ASSUME NEW q \in Payments, q # e.pid
      PROVE  /\ Exists(payments', q) <=> Exists(payments, q)
             /\ Exists(payments, q) => Latest(payments', q) = Latest(payments, q)
  <2>1. Exists(payments', q) <=> Exists(payments, q)
    BY <1>1, <1>5 DEF Exists, n
  <2>2. ASSUME Exists(payments, q) PROVE Latest(payments', q) = Latest(payments, q)
    <3>1. PICK i \in DOMAIN payments : Latest(payments, q) = payments[i] /\ IsLatest(payments, q, i)
      BY <2>2, LatestIsARow
    <3>2. IsLatest(payments', q, i)
      BY <1>1, <1>5, <3>1 DEF IsLatest, n
    <3> QED BY <1>1, <1>3, <3>1, <3>2
  <2> QED BY <2>1, <2>2
<1> QED BY <1>4, <1>5

\* What the ledger sees of a row that is appended.
LEMMA ViewOfRow ==
  ASSUME TypeOK, HasLatest(payments), NEW e, Adds(e),
         \A i \in DOMAIN payments : payments[i].at <= e.at
  PROVE  /\ LedgerStatus' = [LedgerStatus EXCEPT ![e.pid] = e.status]
         /\ LedgerTx' = [LedgerTx EXCEPT ![e.pid] = e.tx]
         /\ Settled' = [Settled EXCEPT ![e.pid] = IF e.status = "confirmed" THEN @ + 1 ELSE @]
<1>1. e \in Snapshot /\ e.pid \in Payments /\ payments \in Seq(Snapshot)
      /\ payments' = Append(payments, e)
  BY DEF Adds, Snapshot, TypeOK
<1>2. /\ Exists(payments', e.pid) /\ Latest(payments', e.pid) = e
      /\ \A q \in Payments \ {e.pid} :
           /\ Exists(payments', q) <=> Exists(payments, q)
           /\ Exists(payments, q) => Latest(payments', q) = Latest(payments, q)
  BY LatestAppended
<1>3. \A q \in Payments : StatusOf(q)' = IF q = e.pid THEN e.status ELSE StatusOf(q)
  BY <1>2 DEF StatusOf
<1>4. LedgerStatus' = [LedgerStatus EXCEPT ![e.pid] = e.status]
  BY <1>3 DEF LedgerStatus
<1>5. LedgerTx' = [LedgerTx EXCEPT ![e.pid] = e.tx]
  BY <1>2 DEF LedgerTx
<1>6. Settled = [p \in Payments |-> Cardinality(ConfirmedRows(payments, p))]
      /\ Settled' = [p \in Payments |-> Cardinality(ConfirmedRows(payments', p))]
  BY DEF Settled, ConfirmedRows
<1>7. \A q \in Payments : Cardinality(ConfirmedRows(payments', q)) =
        Cardinality(ConfirmedRows(payments, q))
          + (IF e.pid = q /\ e.status = "confirmed" THEN 1 ELSE 0)
  BY <1>1, OneMoreRow
<1>8. \A q \in Payments : Cardinality(ConfirmedRows(payments, q)) \in Nat
  BY <1>1, Countable
<1>9. Settled' = [Settled EXCEPT ![e.pid] = IF e.status = "confirmed" THEN @ + 1 ELSE @]
  <2> DEFINE Was(q) == Cardinality(ConfirmedRows(payments, q))
             Is(q) == Cardinality(ConfirmedRows(payments', q))
  <2>1. \A q \in Payments :
          Is(q) = IF e.pid = q /\ e.status = "confirmed" THEN Was(q) + 1 ELSE Was(q)
    BY <1>7, <1>8
  <2>2. Settled = [p \in Payments |-> Was(p)] /\ Settled' = [p \in Payments |-> Is(p)]
    BY <1>6
  <2> HIDE DEF Was, Is
  <2> QED BY <1>1, <2>1, <2>2
<1> QED BY <1>4, <1>5, <1>9

\* What the ledger sees depends on the two files only.
LEMMA ViewStands ==
  /\ UNCHANGED payments => UNCHANGED <<LedgerStatus, LedgerTx, Settled>>
  /\ UNCHANGED audit => UNCHANGED Attested
  BY DEF LedgerStatus, LedgerTx, Settled, Attested, StatusOf

\* The rows handlers append carry a stamp of their own.
LEMMA UpdatedView ==
  ASSUME TypeOK, HasLatest(payments), NEW p \in Payments, Exists(payments, p),
         NEW s \in Statuses, NEW t \in Txs \cup {NoTx}
  PROVE  /\ Updated(p, s, t).at = Now
         /\ Updated(p, s, t).tx = IF t = NoTx THEN Latest(payments, p).tx ELSE t
         /\ LedgerTx[p] = Latest(payments, p).tx
         /\ LedgerStatus[p] = StatusOf(p) /\ LedgerStatus[p] # "absent"
<1>1. PICK i \in DOMAIN payments : Latest(payments, p) = payments[i] /\ IsLatest(payments, p, i)
  BY LatestIsARow
<1>2. Latest(payments, p) \in Snapshot
  BY <1>1 DEF TypeOK
<1> QED BY <1>2 DEF Updated, Snapshot, LedgerTx, LedgerStatus, StatusOf, Statuses

\* A handler appends an updated row of an existing payment.
LEMMA UpdatedRow ==
  ASSUME IInv, Stamped, NEW p \in Payments, Exists(payments, p),
         NEW s \in Statuses, NEW t \in Txs \cup {NoTx},
         payments' = Append(payments, Updated(p, s, t)), UNCHANGED audit
  PROVE  /\ LedgerStatus' = [LedgerStatus EXCEPT ![p] = s]
         /\ LedgerTx' = [LedgerTx EXCEPT ![p] = IF t = NoTx THEN @ ELSE t]
         /\ Settled' = [Settled EXCEPT ![p] = IF s = "confirmed" THEN @ + 1 ELSE @]
         /\ UNCHANGED Attested
         /\ LedgerStatus[p] = StatusOf(p) /\ LedgerStatus[p] # "absent"
<1> DEFINE e == Updated(p, s, t)
<1>1. Adds(e) /\ e.pid = p /\ e.status = s
  BY UpdatedType DEF IInv, Adds
<1>2. /\ e.at = clock + 1 /\ e.tx = IF t = NoTx THEN LedgerTx[p] ELSE t
      /\ LedgerStatus[p] = StatusOf(p) /\ LedgerStatus[p] # "absent"
  BY UpdatedView DEF IInv, Now
<1>3. \A i \in DOMAIN payments : payments[i].at <= e.at
  <2>1. payments \in Seq(Snapshot) /\ clock \in Nat
    BY DEF IInv, TypeOK
  <2>2. \A i \in DOMAIN payments : payments[i] \in Snapshot
    BY <2>1
  <2>3. \A i \in DOMAIN payments : payments[i].at \in Nat
    BY <2>2 DEF Snapshot
  <2> QED BY <1>2, <2>1, <2>3 DEF Stamped
<1> HIDE DEF e
<1>4. /\ LedgerStatus' = [LedgerStatus EXCEPT ![p] = s]
      /\ LedgerTx' = [LedgerTx EXCEPT ![p] = e.tx]
      /\ Settled' = [Settled EXCEPT ![p] = IF s = "confirmed" THEN @ + 1 ELSE @]
  BY <1>1, <1>3, ViewOfRow DEF IInv
<1>5. LedgerTx \in [Payments -> {LedgerTx[q] : q \in Payments}]
  BY DEF LedgerTx
<1> QED BY <1>2, <1>4, <1>5, ViewStands

\* Opening a payment opens it in the ledger.
LEMMA CreateOpens ==
  ASSUME IInv, Stamped, NEW p \in Payments, NEW mode \in {"direct", "deferred"},
         NEW linked \in BOOLEAN, Create(p, mode, linked)
  PROVE  Ledger!Open(p)
<1> DEFINE e == [pid |-> p, status |-> "pending", tx |-> NoTx, at |-> Now,
                 conf |-> NoTime, linked |-> linked, mode |-> mode]
<1>1. Adds(e) /\ e.pid = p /\ e.status = "pending" /\ e.tx = NoTx /\ e.at = clock + 1
  BY DEF Create, Adds, Snapshot, Statuses, Times, IInv, TypeOK, Now
<1>2. \A i \in DOMAIN payments : payments[i].at <= e.at
  <2>1. payments \in Seq(Snapshot) /\ clock \in Nat
    BY DEF IInv, TypeOK
  <2>2. \A i \in DOMAIN payments : payments[i] \in Snapshot
    BY <2>1
  <2>3. \A i \in DOMAIN payments : payments[i].at \in Nat
    BY <2>2 DEF Snapshot
  <2> QED BY <1>1, <2>1, <2>3 DEF Stamped
<1> HIDE DEF e
<1>3. /\ LedgerStatus' = [LedgerStatus EXCEPT ![p] = "pending"]
      /\ LedgerTx' = [LedgerTx EXCEPT ![p] = NoTx]
      /\ Settled' = [Settled EXCEPT ![p] = @]
  BY <1>1, <1>2, ViewOfRow DEF IInv
<1>4. LedgerStatus[p] = "absent" /\ LedgerTx[p] = NoTx
  BY DEF Create, LedgerStatus, LedgerTx, StatusOf
<1>5. LedgerTx' = LedgerTx
  <2>1. LedgerTx = [q \in Payments |-> LedgerTx[q]]
    BY DEF LedgerTx
  <2> QED BY <1>3, <1>4, <2>1
<1>6. Settled' = Settled
  <2>1. Settled = [q \in Payments |-> Settled[q]]
    BY DEF Settled
  <2> QED BY <1>3, <2>1
<1>7. UNCHANGED Attested
  BY ViewStands DEF Create
<1> QED BY <1>3, <1>4, <1>5, <1>6, <1>7 DEF Ledger!Open

\* Functions that are updated with what they hold.
LEMMA ViewsAreFunctions ==
  /\ LedgerStatus = [q \in Payments |-> LedgerStatus[q]]
  /\ LedgerTx = [q \in Payments |-> LedgerTx[q]]
  /\ Settled = [q \in Payments |-> Settled[q]]
  /\ Attested = [q \in Payments |-> Attested[q]]
  BY DEF LedgerStatus, LedgerTx, Settled, Attested

\* A submission is a claim.
LEMMA SubmitClaims ==
  ASSUME IInv, Stamped, NEW p \in Payments, NEW t \in Txs \cup {NoTx}, Submit(p, t)
  PROVE  Ledger!Claim(p, t)
<1>1. "submitted" \in Statuses
  BY DEF Statuses
<1>2. /\ LedgerStatus' = [LedgerStatus EXCEPT ![p] = "submitted"]
      /\ LedgerTx' = [LedgerTx EXCEPT ![p] = IF t = NoTx THEN @ ELSE t]
      /\ Settled' = [Settled EXCEPT ![p] = @]
      /\ UNCHANGED Attested /\ LedgerStatus[p] # "absent"
  BY <1>1, UpdatedRow DEF Submit
<1>3. Settled' = Settled
  BY <1>2, ViewsAreFunctions
<1> QED BY <1>2, <1>3 DEF Ledger!Claim

\* A library call retires the payment.
LEMMA RetireRetires ==
  ASSUME IInv, Stamped, NEW p \in Payments, NEW s \in Retirements, Retire(p, s)
  PROVE  Ledger!Retire(p, s)
<1>1. s \in Statuses /\ s # "confirmed" /\ s \in Ledger!Unsettled
  BY ConstantsAssumption DEF Statuses, Ledger!Unsettled
<1>2. /\ LedgerStatus' = [LedgerStatus EXCEPT ![p] = s]
      /\ LedgerTx' = [LedgerTx EXCEPT ![p] = @]
      /\ Settled' = [Settled EXCEPT ![p] = @]
      /\ UNCHANGED Attested /\ LedgerStatus[p] # "absent"
  BY <1>1, UpdatedRow DEF Retire
<1>3. Settled' = Settled /\ LedgerTx' = LedgerTx
  BY <1>2, ViewsAreFunctions
<1> QED BY <1>1, <1>2, <1>3 DEF Ledger!Retire

\* A first confirmation settles, with the transaction named or the one attached.
LEMMA ConfirmSettles ==
  ASSUME IInv, Stamped, NEW p \in Payments, Confirm(p), StatusOf(p) # "confirmed"
  PROVE  \E t \in Txs \cup {NoTx} : Ledger!Settle(p, t)
<1> DEFINE t == IF NamesTx THEN checked[p] ELSE NoTx
<1>1. t \in Txs \cup {NoTx} /\ payments' = Append(payments, Updated(p, "confirmed", t))
      /\ Exists(payments, p) /\ UNCHANGED audit /\ "confirmed" \in Statuses
  BY DEF Confirm, IInv, TypeOK, Statuses
<1> HIDE DEF t
<1>2. /\ LedgerStatus' = [LedgerStatus EXCEPT ![p] = "confirmed"]
      /\ LedgerTx' = [LedgerTx EXCEPT ![p] = IF t = NoTx THEN @ ELSE t]
      /\ Settled' = [Settled EXCEPT ![p] = @ + 1]
      /\ UNCHANGED Attested /\ LedgerStatus[p] = StatusOf(p) /\ LedgerStatus[p] # "absent"
  BY <1>1, UpdatedRow
<1>3. Ledger!Settle(p, t)
  BY <1>2 DEF Ledger!Settle
<1> QED BY <1>1, <1>3

\* Library calls do not settle.
LEMMA CallsRetire == Retirements \subseteq Ledger!Unsettled /\ "confirmed" \notin Retirements
  BY ConstantsAssumption DEF Statuses, Ledger!Unsettled

\* The payment row that follows its intent retires the payment.
LEMMA WritePaymentRetires ==
  ASSUME IInv, Stamped, WritePayment
  PROVE  Ledger!Retire(row.pid, row.status) /\ row.pid \in Payments
         /\ row.status \in Ledger!Unsettled
<1>1. /\ row \in Snapshot /\ row.pid \in Payments /\ Adds(row) /\ UNCHANGED audit
      /\ Exists(payments, row.pid) /\ row.at = clock
      /\ row.status \in Ledger!Unsettled /\ row.status # "confirmed"
      /\ row.tx = Latest(payments, row.pid).tx
  BY CallsRetire DEF WritePayment, IInv, TypeOK, Idle, Rooted, Adds, Snapshot, Stamped
<1>2. \A i \in DOMAIN payments : payments[i].at <= row.at
  BY <1>1 DEF Stamped
<1>3. /\ LedgerStatus' = [LedgerStatus EXCEPT ![row.pid] = row.status]
      /\ LedgerTx' = [LedgerTx EXCEPT ![row.pid] = row.tx]
      /\ Settled' = [Settled EXCEPT ![row.pid] = @]
  BY <1>1, <1>2, ViewOfRow DEF IInv
<1>4. LedgerTx[row.pid] = row.tx
  BY <1>1 DEF LedgerTx
<1>5. LedgerTx' = LedgerTx /\ Settled' = Settled
  BY <1>1, <1>3, <1>4, ViewsAreFunctions
<1>6. LedgerStatus[row.pid] # "absent"
  BY <1>1, UpdatedView DEF IInv, Snapshot
<1> QED BY <1>1, <1>3, <1>5, <1>6, ViewStands DEF Ledger!Retire

\* The audit record attests a confirmation nobody has attested.
LEMMA WriteAuditAttests ==
  ASSUME IInv, AuditIsEarned, WriteAudit
  PROVE  Ledger!Attest(row.pid) /\ row.pid \in Payments
<1> DEFINE e == [pid |-> row.pid, tx |-> row.tx]
<1>1. /\ row \in Snapshot /\ row.pid \in Payments /\ audit' = Append(audit, e)
      /\ UNCHANGED payments /\ Working(row.pid, "audit") /\ audit \in Seq(AuditRow)
      /\ payments \in Seq(Snapshot)
  BY DEF WriteAudit, IInv, TypeOK, Idle, Snapshot, Working
<1>2. e \in AuditRow /\ e.pid = row.pid
  BY <1>1 DEF AuditRow, Snapshot
<1> HIDE DEF e
<1> DEFINE Was(q) == Cardinality(Records(audit, q))
           Is(q) == Cardinality(Records(audit', q))
<1>3. \A q \in Payments : Is(q) = Was(q) + (IF q = row.pid THEN 1 ELSE 0)
  BY <1>1, <1>2, OneMoreRecord
<1>4. \A q \in Payments : Was(q) \in Nat
  BY <1>1, Countable
<1>5. Attested = [q \in Payments |-> Was(q)] /\ Attested' = [q \in Payments |-> Is(q)]
  BY DEF Attested, Records
<1>6. Was(row.pid) + 1 <= Settled[row.pid]
  BY <1>1 DEF AuditIsEarned, Settled, Records
<1>7. Settled[row.pid] \in Nat
  <2>1. Settled[row.pid] = Cardinality(ConfirmedRows(payments, row.pid))
    BY <1>1 DEF Settled, ConfirmedRows
  <2> QED BY <1>1, <2>1, Countable
<1> HIDE DEF Was, Is
<1>8. Attested[row.pid] < Settled[row.pid]
  BY <1>1, <1>4, <1>5, <1>6, <1>7
<1>9. Attested' = [Attested EXCEPT ![row.pid] = @ + 1]
  <2>1. \A q \in Payments : Is(q) = IF q = row.pid THEN Was(q) + 1 ELSE Was(q)
    BY <1>3, <1>4
  <2> QED BY <1>1, <1>5, <2>1
<1> QED BY <1>1, <1>8, <1>9, ViewStands DEF Ledger!Attest

\* Stamps stay in order as long as the clock does.
LEMMA NextStamped ==
  ASSUME MaxBack = 0, IInv, Stamped, [Next]_vars
  PROVE  Stamped'
<1>1. payments \in Seq(Snapshot) /\ clock \in Nat
  BY DEF IInv, TypeOK
<1>2. \A i \in DOMAIN payments : payments[i].at \in Nat
  <2>1. \A i \in DOMAIN payments : payments[i] \in Snapshot
    BY <1>1
  <2> QED BY <2>1 DEF Snapshot
<1>3. ASSUME NEW e \in Snapshot, payments' = Append(payments, e), e.at <= clock', clock <= clock',
             clock' \in Nat, "payment" \notin due'
      PROVE  Stamped'
  <2>1. \A i \in DOMAIN payments' : \/ payments'[i] = e
                                    \/ i \in DOMAIN payments /\ payments'[i] = payments[i]
    BY <1>3, PaymentAppended DEF IInv
  <2>2. \A i \in DOMAIN payments' : payments'[i].at <= clock'
    BY <1>1, <1>2, <1>3, <2>1 DEF Stamped
  <2> QED BY <1>3, <2>2 DEF Stamped
<1>4. ASSUME UNCHANGED <<payments, clock>>,
             "payment" \in due' => "payment" \in due /\ row' = row
      PROVE  Stamped'
  BY <1>4 DEF Stamped
<1>5. ASSUME NEW p \in Payments, NEW s \in Statuses, NEW t \in Txs \cup {NoTx}, Exists(payments, p),
             payments' = Append(payments, Updated(p, s, t)), clock' = Now, "payment" \notin due'
      PROVE  Stamped'
  <2>1. Updated(p, s, t) \in Snapshot /\ Updated(p, s, t).at = Now
    BY <1>5, UpdatedType, UpdatedView DEF IInv
  <2> QED BY <1>1, <1>3, <1>5, <2>1 DEF Now
<1>6. ASSUME NEW p \in Payments, NEW mode \in {"direct", "deferred"}, NEW linked \in BOOLEAN,
             Create(p, mode, linked)
      PROVE  Stamped'
  <2> DEFINE e == [pid |-> p, status |-> "pending", tx |-> NoTx, at |-> Now,
                   conf |-> NoTime, linked |-> linked, mode |-> mode]
  <2>1. e \in Snapshot /\ e.at = Now /\ payments' = Append(payments, e) /\ clock' = Now
        /\ "payment" \notin due'
    BY <1>1, <1>6 DEF Create, Snapshot, Statuses, Times, Now
  <2> HIDE DEF e
  <2> QED BY <1>1, <1>3, <2>1 DEF Now
<1>7. ASSUME NEW p \in Payments, NEW t \in Txs \cup {NoTx}, Submit(p, t) PROVE Stamped'
  <2>1. "submitted" \in Statuses
    BY DEF Statuses
  <2> QED BY <1>5, <1>7, <2>1 DEF Submit
<1>8. ASSUME NEW p \in Payments, NEW s \in Retirements, Retire(p, s) PROVE Stamped'
  <2>1. s \in Statuses
    BY ConstantsAssumption DEF Statuses
  <2> QED BY <1>5, <1>8, <2>1 DEF Retire
<1>9. ASSUME NEW p \in Payments, Confirm(p) PROVE Stamped'
  <2>1. CASE StatusOf(p) = "confirmed"
    BY <1>4, <1>9, <2>1 DEF Confirm
  <2>2. CASE StatusOf(p) # "confirmed"
    <3>1. "confirmed" \in Statuses /\ NoTx \in Txs \cup {NoTx} /\ checked[p] \in Txs \cup {NoTx}
      BY DEF Statuses, IInv, TypeOK
    <3>2. PICK t \in Txs \cup {NoTx} : payments' = Append(payments, Updated(p, "confirmed", t))
      BY <1>9, <2>2, <3>1 DEF Confirm
    <3>3. Exists(payments, p) /\ clock' = Now /\ "payment" \notin due'
      BY <1>9, <2>2 DEF Confirm
    <3> QED BY <1>5, <3>1, <3>2, <3>3
  <2> QED BY <2>1, <2>2
<1>10. ASSUME NEW p \in Payments, NEW s \in Retirements, RetireIntent(p, s) PROVE Stamped'
  <2>1. s \in Statuses /\ NoTx \in Txs \cup {NoTx}
    BY ConstantsAssumption DEF Statuses
  <2>2. Exists(payments, p)
    BY <1>10 DEF RetireIntent, IInv, Rooted, Exists
  <2>3. /\ row' = Updated(p, s, NoTx) /\ clock' = Now /\ payments' = payments
    BY <1>10 DEF RetireIntent
  <2>4. /\ row'.at = clock' /\ row'.status = s /\ row'.pid = p
        /\ row'.tx = Latest(payments, p).tx
    BY <2>1, <2>2, <2>3, UpdatedType, UpdatedView DEF IInv
  <2>5. \A i \in DOMAIN payments : payments[i].at <= clock'
    BY <1>1, <1>2, <2>3 DEF Stamped, Now
  <2> QED BY <2>3, <2>4, <2>5 DEF Stamped
<1>11. CASE Continue
  <2>1. CASE WritePayment
    <3>1. row \in Snapshot /\ row.at = clock /\ "payment" \notin due' /\ UNCHANGED clock
      BY <2>1 DEF WritePayment, IInv, TypeOK, Idle, Stamped, Done, time
    <3> QED BY <1>1, <1>3, <2>1, <3>1 DEF WritePayment
  <2>2. ASSUME NEW a, Done(a), UNCHANGED <<payments, clock>> PROVE Stamped'
    BY <1>4, <2>2 DEF Done
  <2> QED BY <1>11, <2>1, <2>2
          DEF Continue, WriteIntent, WriteDeferred, SyncIntent, WriteAudit, time
<1>12. ASSUME NEW p \in Payments, Review(p) PROVE Stamped'
  BY <1>4, <1>12 DEF Review, files, time
<1>13. ASSUME NEW ids \in SUBSET Payments, BatchSettle(ids) PROVE Stamped'
  BY <1>4, <1>13 DEF BatchSettle, time
<1>14. CASE Crash \/ UNCHANGED vars
  BY <1>4, <1>14 DEF Crash, vars, files, time
<1>15. 1 .. MaxBack = {}
  OBVIOUS
<1> QED BY <1>6, <1>7, <1>8, <1>9, <1>10, <1>11, <1>12, <1>13, <1>14, <1>15 DEF Next, Request

\* With a clock that is never set back every append to the payment file is one step of
\* the ledger, every audit record attests a settlement, and all else is invisible.
THEOREM FilesImplementLedger ==
  ASSUME MaxBack = 0
  PROVE  Spec => ImplementsLedger
<1>1. Init => Stamped /\ Ledger!Init
  <2> SUFFICES ASSUME Init PROVE Stamped /\ Ledger!Init
    OBVIOUS
  <2>1. Stamped
    BY DEF Init, Stamped
  <2>2. \A p \in Payments : ~Exists(payments, p) /\ ConfirmedRows(payments, p) = {}
                            /\ Records(audit, p) = {}
    BY DEF Init, Exists, ConfirmedRows, Records
  <2>3. LedgerStatus = [p \in Payments |-> "absent"] /\ LedgerTx = [p \in Payments |-> NoTx]
    BY <2>2 DEF LedgerStatus, LedgerTx, StatusOf
  <2>4. Settled = [p \in Payments |-> 0] /\ Attested = [p \in Payments |-> 0]
    BY <2>2, FS_EmptySet DEF Settled, Attested, ConfirmedRows, Records
  <2> QED BY <2>1, <2>3, <2>4 DEF Ledger!Init
<1>2. IInv /\ Stamped /\ [Next]_vars => Stamped'
  BY NextStamped
<1>3. IInv /\ Stamped /\ AuditIsEarned /\ [Next]_vars => [Ledger!Next]_(Ledger!ledger)
  <2> SUFFICES ASSUME IInv, Stamped, AuditIsEarned, [Next]_vars
               PROVE  Ledger!Next \/ UNCHANGED Ledger!ledger
    OBVIOUS
  <2>1. ASSUME UNCHANGED <<payments, audit>> PROVE UNCHANGED Ledger!ledger
    BY <2>1, ViewStands DEF Ledger!ledger
  <2>2. ASSUME NEW p \in Payments, NEW mode \in {"direct", "deferred"}, NEW linked \in BOOLEAN,
               Create(p, mode, linked)
        PROVE  Ledger!Next
    BY <2>2, CreateOpens DEF Ledger!Next
  <2>3. ASSUME NEW p \in Payments, NEW t \in Txs \cup {NoTx}, Submit(p, t) PROVE Ledger!Next
    BY <2>3, SubmitClaims DEF Ledger!Next
  <2>4. ASSUME NEW p \in Payments, NEW s \in Retirements, Retire(p, s) PROVE Ledger!Next
    BY <2>4, RetireRetires, CallsRetire DEF Ledger!Next
  <2>5. ASSUME NEW p \in Payments, Confirm(p) PROVE Ledger!Next \/ UNCHANGED Ledger!ledger
    <3>1. CASE StatusOf(p) = "confirmed"
      BY <2>1, <2>5, <3>1 DEF Confirm
    <3>2. CASE StatusOf(p) # "confirmed"
      BY <2>5, <3>2, ConfirmSettles DEF Ledger!Next
    <3> QED BY <3>1, <3>2
  <2>6. CASE WritePayment
    BY <2>6, WritePaymentRetires DEF Ledger!Next
  <2>7. CASE WriteAudit
    BY <2>7, WriteAuditAttests DEF Ledger!Next
  <2>8. CASE WriteIntent \/ WriteDeferred \/ SyncIntent \/ Crash \/ UNCHANGED vars
    BY <2>1, <2>8 DEF WriteIntent, WriteDeferred, SyncIntent, Crash, vars, files
  <2>9. ASSUME NEW p \in Payments, NEW s \in Retirements, RetireIntent(p, s)
        PROVE  UNCHANGED Ledger!ledger
    BY <2>1, <2>9 DEF RetireIntent
  <2>10. ASSUME NEW p \in Payments, Review(p) PROVE UNCHANGED Ledger!ledger
    BY <2>1, <2>10 DEF Review, files
  <2>11. ASSUME NEW ids \in SUBSET Payments, BatchSettle(ids) PROVE UNCHANGED Ledger!ledger
    BY <2>1, <2>11 DEF BatchSettle
  <2>12. ASSUME NEW d \in 1 .. MaxBack, SetBack(d) PROVE UNCHANGED Ledger!ledger
    BY <2>1, <2>12 DEF SetBack, files
  <2> QED BY <2>2, <2>3, <2>4, <2>5, <2>6, <2>7, <2>8, <2>9, <2>10, <2>11, <2>12
          DEF Next, Request, Continue
<1> QED BY <1>1, <1>2, <1>3, Invariant, AuditEarned, PTL DEF Spec, ImplementsLedger, Ledger!Spec

-----------------------------------------------------------------------------
(* Intents and their payments *)

\* What IntentMirrorsPayment asks of one payment.
Agree(p) ==
  /\ Latest(intents, p).status = Latest(payments, p).status
  /\ Latest(intents, p).tx = Latest(payments, p).tx
  /\ Latest(payments, p).status = "confirmed" =>
       Latest(intents, p).conf = Latest(payments, p).conf

\* The snapshot of the running handler is the latest row of its payment, once that is
\* appended; a fresh intent is the first of its payment; all intents of a payment carry
\* one stamp, so the one appended last is the latest; and but for an intent that is due
\* to follow, or never will after a crash, the two files agree.
Mirrored ==
  /\ \A j, k \in DOMAIN intents :
       intents[j].pid = intents[k].pid => intents[j].at = intents[k].at
  /\ \A p \in Payments : Exists(intents, p) => Latest(payments, p).linked
  /\ ~Idle => IF "payment" \in due
              THEN /\ "sync" \in due /\ "intent" \notin due
                   /\ row.linked = Latest(payments, row.pid).linked
              ELSE row = Latest(payments, row.pid)
  /\ "intent" \in due =>
       /\ row.linked /\ row.status = "pending" /\ row.tx = NoTx
       /\ ~Exists(intents, row.pid)
  /\ \A p \in Payments :
       Exists(intents, p) /\ <<p, "sync">> \notin lost /\ ~Working(p, "sync") => Agree(p)

\* A row that is not older than the other rows of its id becomes the latest one, and
\* other ids keep theirs.
LEMMA NewestIsLatest ==
  ASSUME NEW R, \A r \in R : r.at \in Nat, NEW file \in Seq(R), NEW e \in R, HasLatest(file),
         \A i \in DOMAIN file : file[i].pid = e.pid => file[i].at <= e.at
  PROVE  /\ Exists(Append(file, e), e.pid) /\ Latest(Append(file, e), e.pid) = e
         /\ \A q \in Payments \ {e.pid} :
              /\ Exists(Append(file, e), q) <=> Exists(file, q)
              /\ Exists(file, q) => Latest(Append(file, e), q) = Latest(file, q)
<1> DEFINE n == Len(file) + 1
           new == Append(file, e)
<1>1. /\ DOMAIN new = 1 .. n /\ DOMAIN file = 1 .. Len(file)
      /\ Len(file) \in Nat /\ new[n] = e /\ new \in Seq(R)
      /\ \A j \in DOMAIN file : new[j] = file[j] /\ file[j].at \in Nat
      /\ e.at \in Nat
  OBVIOUS
<1> HIDE DEF n, new
<1>2. ASSUME NEW q, NEW i, IsLatest(new, q, i) PROVE Latest(new, q) = new[i]
  <2>1. i \in DOMAIN new
    BY <1>2 DEF IsLatest
  <2>2. \A k \in DOMAIN new : IsLatest(new, q, k) => k = i
    BY <1>1, <1>2, LatestIsUnique
  <2>3. (CHOOSE k \in DOMAIN new : IsLatest(new, q, k)) = i
    BY <1>2, <2>1, <2>2
  <2> QED BY <2>3 DEF Latest
<1>3. Exists(new, e.pid) /\ Latest(new, e.pid) = e
  <2>1. e.pid = new[n].pid /\ n \in DOMAIN new
    BY <1>1 DEF n
  <2>2. IsLatest(new, e.pid, n)
    BY <1>1, <2>1 DEF IsLatest, n
  <2> QED BY <1>1, <1>2, <2>1, <2>2 DEF Exists
<1>4. ASSUME NEW q \in Payments, q # e.pid
      PROVE  /\ Exists(new, q) <=> Exists(file, q)
             /\ Exists(file, q) => Latest(new, q) = Latest(file, q)
  <2>1. Exists(new, q) <=> Exists(file, q)
    BY <1>1, <1>4 DEF Exists, n
  <2>2. ASSUME Exists(file, q) PROVE Latest(new, q) = Latest(file, q)
    <3>1. PICK i \in DOMAIN file : Latest(file, q) = file[i] /\ IsLatest(file, q, i)
      BY <2>2, LatestIsARow
    <3>2. IsLatest(new, q, i)
      BY <1>1, <1>4, <3>1 DEF IsLatest, n
    <3> QED BY <1>1, <1>2, <3>1, <3>2
  <2> QED BY <2>1, <2>2
<1> QED BY <1>3, <1>4 DEF new

\* The latest intent is an intent of its payment, with the one stamp they all carry.
LEMMA LatestIntent ==
  ASSUME IInv, Mirrored, NEW p \in Payments, Exists(intents, p)
  PROVE  /\ Latest(intents, p) \in IntentRow /\ Latest(intents, p).pid = p
         /\ \A i \in DOMAIN intents : intents[i].pid = p => intents[i].at = Latest(intents, p).at
<1>1. PICK i \in DOMAIN intents : Latest(intents, p) = intents[i] /\ IsLatest(intents, p, i)
  BY LatestIsARow DEF IInv
<1>2. intents[i] \in IntentRow /\ intents[i].pid = p
  BY <1>1 DEF IInv, TypeOK, IsLatest
<1> QED BY <1>1, <1>2 DEF Mirrored

\* An intent that keeps the stamp of its payment's intents becomes their latest.
LEMMA IntentView ==
  ASSUME IInv, NEW e \in IntentRow, intents' = Append(intents, e),
         \A i \in DOMAIN intents : intents[i].pid = e.pid => intents[i].at = e.at,
         Mirrored
  PROVE  /\ Exists(intents', e.pid) /\ Latest(intents', e.pid) = e
         /\ \A q \in Payments \ {e.pid} :
              /\ Exists(intents', q) <=> Exists(intents, q)
              /\ Exists(intents, q) => Latest(intents', q) = Latest(intents, q)
         /\ \A j, k \in DOMAIN intents' :
              intents'[j].pid = intents'[k].pid => intents'[j].at = intents'[k].at
<1>1. intents \in Seq(IntentRow) /\ HasLatest(intents) /\ (\A r \in IntentRow : r.at \in Nat)
  BY DEF IInv, TypeOK, IntentRow
<1>2. \A i \in DOMAIN intents : intents[i].pid = e.pid => intents[i].at <= e.at
  BY <1>1
<1>3. \A i \in DOMAIN intents' : \/ intents'[i] = e
                                 \/ i \in DOMAIN intents /\ intents'[i] = intents[i]
  BY <1>1
<1>4. \A j, k \in DOMAIN intents' :
        intents'[j].pid = intents'[k].pid => intents'[j].at = intents'[k].at
  BY <1>3 DEF Mirrored
<1>5. /\ Exists(intents', e.pid) /\ Latest(intents', e.pid) = e
      /\ \A q \in Payments \ {e.pid} :
           /\ Exists(intents', q) <=> Exists(intents, q)
           /\ Exists(intents, q) => Latest(intents', q) = Latest(intents, q)
  BY <1>1, <1>2, NewestIsLatest
<1> QED BY <1>4, <1>5

\* A handler appends a new payment row, and its intent is due to follow.
LEMMA RowThenIntent ==
  ASSUME IInv, Mirrored, NEW e, Adds(e), UNCHANGED <<intents, lost>>,
         \A i \in DOMAIN payments : payments[i].at <= e.at,
         Exists(intents, e.pid) => e.linked,
         due' # {} => row' = e,
         "payment" \notin due',
         \/ "sync" \in due' /\ "intent" \notin due'
         \/ /\ ~Exists(intents, e.pid) /\ e.status = "pending" /\ e.tx = NoTx
            /\ "intent" \in due' => e.linked,
         Idle
  PROVE  Mirrored'
<1>1. /\ Exists(payments', e.pid) /\ Latest(payments', e.pid) = e
      /\ \A q \in Payments \ {e.pid} :
           /\ Exists(payments', q) <=> Exists(payments, q)
           /\ Exists(payments, q) => Latest(payments', q) = Latest(payments, q)
  BY LatestAppended DEF IInv
<1>2. e.pid \in Payments
  BY DEF Adds, Snapshot
<1>3. \A q \in Payments : Exists(intents, q) => Exists(payments, q)
  BY DEF IInv, Rooted, Exists
<1>4. ASSUME NEW q \in Payments, Exists(intents, q), <<q, "sync">> \notin lost,
             ~Working(q, "sync")'
      PROVE  Agree(q)'
  <2>1. "sync" \in due' => row'.pid = e.pid
    OBVIOUS
  <2>2. q # e.pid
    BY <1>4, <2>1 DEF Working
  <2>3. Agree(q)
    BY <1>4 DEF Mirrored, Idle, Working
  <2> QED BY <1>1, <1>3, <1>4, <2>2, <2>3 DEF Agree
<1>5. \A q \in Payments : Exists(intents, q) => Latest(payments', q).linked
  BY <1>1, <1>2, <1>3 DEF Mirrored
<1>6. "intent" \in due' =>
        /\ row'.linked /\ row'.status = "pending" /\ row'.tx = NoTx
        /\ ~Exists(intents, row'.pid)
  OBVIOUS
<1>7. due' # {} => row' = Latest(payments', row'.pid)
  BY <1>1
<1> QED BY <1>4, <1>5, <1>6, <1>7 DEF Mirrored, Idle

\* The same for the handlers that update a payment.
LEMMA UpdateMirrored ==
  ASSUME IInv, Stamped, Mirrored, Idle, NEW p \in Payments, Exists(payments, p),
         NEW s \in Statuses, NEW t \in Txs \cup {NoTx},
         row' = Updated(p, s, t), payments' = Append(payments, Updated(p, s, t)),
         UNCHANGED <<intents, lost>>,
         "sync" \in due', "intent" \notin due', "payment" \notin due'
  PROVE  Mirrored'
<1> DEFINE e == Updated(p, s, t)
<1>1. e \in Snapshot /\ e.pid = p /\ e.at = Now
  BY UpdatedType, UpdatedView DEF IInv
<1>2. e.linked = Latest(payments, p).linked
  BY DEF Updated
<1>3. \A i \in DOMAIN payments : payments[i].at <= e.at
  <2>1. payments \in Seq(Snapshot) /\ clock \in Nat
    BY DEF IInv, TypeOK
  <2>2. \A i \in DOMAIN payments : payments[i] \in Snapshot
    BY <2>1
  <2>3. \A i \in DOMAIN payments : payments[i].at \in Nat
    BY <2>2 DEF Snapshot
  <2> QED BY <1>1, <2>1, <2>3 DEF Stamped, Now
<1>4. Adds(e) /\ row' = e
  BY <1>1 DEF Adds
<1>5. Exists(intents, p) => Latest(payments, p).linked
  BY DEF Mirrored
<1> HIDE DEF e
<1> QED BY <1>1, <1>2, <1>3, <1>4, <1>5, RowThenIntent

\* Nothing is written to the two files, and no append stops being due.
LEMMA FilesStand ==
  ASSUME Mirrored, UNCHANGED <<payments, intents>>, lost \subseteq lost',
         \/ UNCHANGED <<due, row>>
         \/ due' = {} /\ ("sync" \in due => <<row.pid, "sync">> \in lost')
         \/ row' = row /\ due' \subseteq due
            /\ ("sync" \in due <=> "sync" \in due') /\ ("payment" \in due <=> "payment" \in due')
  PROVE  Mirrored'
<1>1. ASSUME NEW p \in Payments, Exists(intents, p), <<p, "sync">> \notin lost',
             ~Working(p, "sync")'
      PROVE  Agree(p)'
  <2>1. ~Working(p, "sync") /\ <<p, "sync">> \notin lost
    BY <1>1 DEF Working
  <2> QED BY <1>1, <2>1 DEF Mirrored, Agree
<1>2. /\ "intent" \in due' => "intent" \in due /\ row' = row
      /\ ~Idle' => ~Idle /\ row' = row
      /\ "payment" \in due' <=> "payment" \in due /\ due' # {}
      /\ "sync" \in due' <=> "sync" \in due /\ due' # {}
  BY DEF Idle
<1>3. ~Idle' => IF "payment" \in due'
                THEN /\ "sync" \in due' /\ "intent" \notin due'
                     /\ row'.linked = Latest(payments', row'.pid).linked
                ELSE row' = Latest(payments', row'.pid)
  BY <1>2 DEF Mirrored, Idle
<1> QED BY <1>1, <1>2, <1>3 DEF Mirrored

LEMMA CreateMirrored ==
  ASSUME IInv, Stamped, Mirrored, NEW p \in Payments, NEW mode \in {"direct", "deferred"},
         NEW linked \in BOOLEAN, Create(p, mode, linked)
  PROVE  Mirrored'
<1> DEFINE e == [pid |-> p, status |-> "pending", tx |-> NoTx, at |-> Now,
                 conf |-> NoTime, linked |-> linked, mode |-> mode]
<1>1. /\ Adds(e) /\ e.pid = p /\ e.status = "pending" /\ e.tx = NoTx /\ e.at = clock + 1
      /\ e.linked = linked
  BY DEF Create, Adds, Snapshot, Statuses, Times, IInv, TypeOK, Now
<1>2. \A i \in DOMAIN payments : payments[i].at <= e.at
  <2>1. payments \in Seq(Snapshot) /\ clock \in Nat
    BY DEF IInv, TypeOK
  <2>2. \A i \in DOMAIN payments : payments[i] \in Snapshot
    BY <2>1
  <2>3. \A i \in DOMAIN payments : payments[i].at \in Nat
    BY <2>2 DEF Snapshot
  <2> QED BY <1>1, <2>1, <2>3 DEF Stamped
<1>3. /\ Idle /\ ~Exists(payments, p) /\ UNCHANGED <<intents, lost>>
      /\ "payment" \notin due' /\ "sync" \notin due' /\ "intent" \in due' => linked
      /\ row' = IF linked THEN e ELSE NoRow
      /\ due' = (IF linked THEN {"intent"} ELSE {})
            \cup (IF mode = "deferred" THEN {"deferred"} ELSE {})
      /\ linked \/ mode = "direct"
  BY DEF Create
<1>4. ~Exists(intents, p)
  BY <1>3 DEF IInv, Rooted, Exists
<1>5. due' # {} => row' = e
  BY <1>3
<1>6. "payment" \notin due' /\ ("intent" \in due' => linked)
  BY <1>3
<1> HIDE DEF e
<1> QED BY <1>1, <1>2, <1>3, <1>4, <1>5, <1>6, RowThenIntent

LEMMA WriteIntentMirrored ==
  ASSUME IInv, Mirrored, WriteIntent
  PROVE  Mirrored'
<1> DEFINE e == [pid |-> row.pid, status |-> "pending", tx |-> NoTx, at |-> row.at,
                 conf |-> NoTime]
<1>1. /\ row \in Snapshot /\ ~Idle /\ "intent" \in due /\ "payment" \notin due
      /\ row = Latest(payments, row.pid) /\ row.linked /\ row.status = "pending"
      /\ row.tx = NoTx /\ ~Exists(intents, row.pid)
      /\ intents' = Append(intents, e) /\ UNCHANGED <<payments, lost>>
      /\ due' = due \ {"intent"} /\ (due' # {} => row' = row)
  BY DEF WriteIntent, IInv, TypeOK, Idle, Mirrored, Done
<1>2. e \in IntentRow /\ e.pid = row.pid /\ e.status = "pending" /\ e.tx = NoTx
      /\ row.pid \in Payments
  BY <1>1 DEF IntentRow, Snapshot, Statuses, Times
<1> HIDE DEF e
<1>3. \A i \in DOMAIN intents : intents[i].pid = e.pid => intents[i].at = e.at
  BY <1>1, <1>2 DEF Exists
<1>4. /\ Exists(intents', e.pid) /\ Latest(intents', e.pid) = e
      /\ \A q \in Payments \ {e.pid} :
           /\ Exists(intents', q) <=> Exists(intents, q)
           /\ Exists(intents, q) => Latest(intents', q) = Latest(intents, q)
      /\ \A j, k \in DOMAIN intents' :
           intents'[j].pid = intents'[k].pid => intents'[j].at = intents'[k].at
  BY <1>1, <1>2, <1>3, IntentView
<1>5. ASSUME NEW q \in Payments, Exists(intents', q), <<q, "sync">> \notin lost',
             ~Working(q, "sync")'
      PROVE  Agree(q)'
  <2>1. CASE q = row.pid
    BY <1>1, <1>2, <1>4, <2>1 DEF Agree
  <2>2. CASE q # row.pid
    <3>1. Exists(intents, q) /\ ~Working(q, "sync") /\ <<q, "sync">> \notin lost
      BY <1>1, <1>2, <1>4, <1>5, <2>2 DEF Working
    <3> QED BY <1>1, <1>2, <1>4, <2>2, <3>1 DEF Mirrored, Agree
  <2> QED BY <2>1, <2>2
<1>6. \A q \in Payments : Exists(intents', q) => Latest(payments', q).linked
  BY <1>1, <1>2, <1>4 DEF Mirrored
<1> QED BY <1>1, <1>4, <1>5, <1>6 DEF Mirrored, Idle

LEMMA WritePaymentMirrored ==
  ASSUME IInv, Stamped, Mirrored, WritePayment
  PROVE  Mirrored'
<1>1. /\ row \in Snapshot /\ ~Idle /\ "payment" \in due /\ "sync" \in due
      /\ "intent" \notin due /\ row.linked = Latest(payments, row.pid).linked
      /\ payments' = Append(payments, row) /\ UNCHANGED <<intents, lost>>
      /\ due' = due \ {"payment"} /\ (due' # {} => row' = row)
  BY DEF WritePayment, IInv, TypeOK, Idle, Mirrored, Done
<1>2. Adds(row) /\ row.pid \in Payments /\ \A i \in DOMAIN payments : payments[i].at <= row.at
  BY <1>1 DEF Adds, Stamped, Snapshot
<1>3. /\ Exists(payments', row.pid) /\ Latest(payments', row.pid) = row
      /\ \A q \in Payments \ {row.pid} :
           /\ Exists(payments', q) <=> Exists(payments, q)
           /\ Exists(payments, q) => Latest(payments', q) = Latest(payments, q)
  BY <1>2, LatestAppended DEF IInv
<1>4. \A q \in Payments : Exists(intents, q) => Exists(payments, q)
  BY DEF IInv, Rooted, Exists
<1>5. ASSUME NEW q \in Payments, Exists(intents, q), <<q, "sync">> \notin lost,
             ~Working(q, "sync")'
      PROVE  Agree(q)'
  <2>1. q # row.pid
    BY <1>1, <1>5 DEF Working
  <2>2. Agree(q)
    BY <1>5, <2>1 DEF Mirrored, Working
  <2> QED BY <1>1, <1>3, <1>4, <1>5, <2>1, <2>2 DEF Agree
<1>6. \A q \in Payments : Exists(intents, q) => Latest(payments', q).linked
  BY <1>1, <1>2, <1>3, <1>4 DEF Mirrored
<1> QED BY <1>1, <1>3, <1>5, <1>6 DEF Mirrored, Idle

LEMMA SyncIntentMirrored ==
  ASSUME IInv, Mirrored, SyncIntent
  PROVE  Mirrored'
<1>1. /\ row \in Snapshot /\ row.pid \in Payments /\ ~Idle /\ "sync" \in due
      /\ "payment" \notin due /\ row = Latest(payments, row.pid)
      /\ UNCHANGED payments /\ lost' = lost \ {<<row.pid, "sync">>}
      /\ due' = due \ {"sync"} /\ (due' # {} => row' = row)
  BY DEF SyncIntent, IInv, TypeOK, Idle, Mirrored, Done, Snapshot
<1>2. ASSUME NEW q \in Payments, q # row.pid, Exists(intents, q), <<q, "sync">> \notin lost'
      PROVE  Agree(q)
  BY <1>1, <1>2 DEF Mirrored, Working
<1>3. CASE row.linked /\ Exists(intents, row.pid)
  <2> DEFINE old == Latest(intents, row.pid)
             e == [old EXCEPT !.status = row.status, !.tx = row.tx,
                     !.conf = IF row.status = "confirmed" THEN row.conf ELSE @]
  <2>1. /\ old \in IntentRow /\ old.pid = row.pid
        /\ \A i \in DOMAIN intents : intents[i].pid = row.pid => intents[i].at = old.at
    BY <1>1, <1>3, LatestIntent
  <2>2. intents' = Append(intents, e)
    BY <1>3 DEF SyncIntent
  <2> HIDE DEF old
  <2>3. /\ e \in IntentRow /\ e.pid = row.pid /\ e.at = old.at /\ e.status = row.status
        /\ e.tx = row.tx /\ (row.status = "confirmed" => e.conf = row.conf)
    BY <1>1, <2>1 DEF IntentRow, Snapshot
  <2> HIDE DEF e
  <2>4. /\ Exists(intents', e.pid) /\ Latest(intents', e.pid) = e
        /\ \A q \in Payments \ {e.pid} :
             /\ Exists(intents', q) <=> Exists(intents, q)
             /\ Exists(intents, q) => Latest(intents', q) = Latest(intents, q)
        /\ \A j, k \in DOMAIN intents' :
             intents'[j].pid = intents'[k].pid => intents'[j].at = intents'[k].at
    BY <2>1, <2>2, <2>3, IntentView
  <2>5. ASSUME NEW q \in Payments, Exists(intents', q), <<q, "sync">> \notin lost'
        PROVE  Agree(q)'
    <3>1. CASE q = row.pid
      BY <1>1, <2>3, <2>4, <3>1 DEF Agree
    <3>2. CASE q # row.pid
      BY <1>1, <1>2, <2>3, <2>4, <2>5, <3>2 DEF Agree
    <3> QED BY <3>1, <3>2
  <2>6. \A q \in Payments : Exists(intents', q) => Latest(payments', q).linked
    BY <1>1, <1>3, <2>3, <2>4 DEF Mirrored
  <2>7. "intent" \notin due
    BY <1>3 DEF Mirrored
  <2> QED BY <1>1, <2>4, <2>5, <2>6, <2>7 DEF Mirrored, Idle
<1>4. CASE ~(row.linked /\ Exists(intents, row.pid))
  <2>1. UNCHANGED intents
    BY <1>4 DEF SyncIntent
  <2>2. ~Exists(intents, row.pid)
    BY <1>1, <1>4 DEF Mirrored
  <2>3. ASSUME NEW q \in Payments, Exists(intents, q), <<q, "sync">> \notin lost'
        PROVE  Agree(q)'
    BY <1>1, <1>2, <2>1, <2>2, <2>3 DEF Agree
  <2> QED BY <1>1, <2>1, <2>2, <2>3 DEF Mirrored, Idle
<1> QED BY <1>3, <1>4

LEMMA RetireIntentMirrored ==
  ASSUME IInv, Mirrored, NEW p \in Payments, NEW s \in Retirements, RetireIntent(p, s)
  PROVE  Mirrored'
<1> DEFINE old == Latest(intents, p)
           e == [old EXCEPT !.status = s]
<1>1. /\ Idle /\ Exists(intents, p) /\ row' = Updated(p, s, NoTx)
      /\ intents' = Append(intents, e) /\ due' = {"payment", "sync"}
      /\ UNCHANGED <<payments, lost>>
  BY DEF RetireIntent
<1>2. /\ old \in IntentRow /\ old.pid = p
      /\ \A i \in DOMAIN intents : intents[i].pid = p => intents[i].at = old.at
  BY <1>1, LatestIntent
<1>3. s \in Statuses /\ NoTx \in Txs \cup {NoTx}
  BY ConstantsAssumption DEF Statuses
<1> HIDE DEF old
<1>4. e \in IntentRow /\ e.pid = p /\ e.at = old.at
  BY <1>2, <1>3 DEF IntentRow
<1> HIDE DEF e
<1>5. Exists(payments, p)
  BY <1>1 DEF IInv, Rooted, Exists
<1>6. row'.pid = p /\ row'.linked = Latest(payments, p).linked
  <2>1. row'.pid = p
    BY <1>1, <1>3, <1>5, UpdatedType DEF IInv
  <2>2. row'.linked = Latest(payments, p).linked
    BY <1>1 DEF Updated
  <2> QED BY <2>1, <2>2
<1>7. /\ Exists(intents', e.pid) /\ Latest(intents', e.pid) = e
      /\ \A q \in Payments \ {e.pid} :
           /\ Exists(intents', q) <=> Exists(intents, q)
           /\ Exists(intents, q) => Latest(intents', q) = Latest(intents, q)
      /\ \A j, k \in DOMAIN intents' :
           intents'[j].pid = intents'[k].pid => intents'[j].at = intents'[k].at
  BY <1>1, <1>2, <1>4, IntentView
<1>8. ASSUME NEW q \in Payments, Exists(intents', q), <<q, "sync">> \notin lost,
             ~Working(q, "sync")'
      PROVE  Agree(q)'
  <2>1. q # p
    BY <1>1, <1>6, <1>8 DEF Working
  <2>2. Agree(q)
    BY <1>1, <1>4, <1>7, <1>8, <2>1 DEF Mirrored, Working, Idle
  <2> QED BY <1>1, <1>4, <1>7, <1>8, <2>1, <2>2 DEF Agree
<1>9. \A q \in Payments : Exists(intents', q) => Latest(payments', q).linked
  BY <1>1, <1>4, <1>7 DEF Mirrored
<1> QED BY <1>1, <1>6, <1>7, <1>8, <1>9 DEF Mirrored, Idle

LEMMA NextMirrored == MaxBack = 0 /\ IInv /\ Stamped /\ Mirrored /\ [Next]_vars => Mirrored'
<1> SUFFICES ASSUME MaxBack = 0, IInv, Stamped, Mirrored, [Next]_vars PROVE Mirrored'
  OBVIOUS
<1>1. ASSUME NEW p \in Payments, NEW t \in Txs \cup {NoTx}, Submit(p, t) PROVE Mirrored'
  <2>1. "submitted" \in Statuses
    BY DEF Statuses
  <2> QED BY <1>1, <2>1, UpdateMirrored DEF Submit
<1>2. ASSUME NEW p \in Payments, NEW s \in Retirements, Retire(p, s) PROVE Mirrored'
  <2>1. s \in Statuses
    BY ConstantsAssumption DEF Statuses
  <2> QED BY <1>2, <2>1, UpdateMirrored DEF Retire
<1>3. ASSUME NEW p \in Payments, Confirm(p) PROVE Mirrored'
  <2>1. CASE StatusOf(p) = "confirmed"
    BY <1>3, <2>1, FilesStand DEF Confirm
  <2>2. CASE StatusOf(p) # "confirmed"
    <3>1. "confirmed" \in Statuses /\ NoTx \in Txs \cup {NoTx} /\ checked[p] \in Txs \cup {NoTx}
      BY DEF Statuses, IInv, TypeOK
    <3>2. PICK t \in Txs \cup {NoTx} : /\ row' = Updated(p, "confirmed", t)
                                      /\ payments' = Append(payments, Updated(p, "confirmed", t))
      BY <1>3, <2>2, <3>1 DEF Confirm
    <3>3. /\ Exists(payments, p) /\ Idle /\ due' = {"sync", "audit"}
          /\ UNCHANGED <<intents, lost>>
      BY <1>3, <2>2 DEF Confirm
    <3>4. "sync" \in due' /\ "intent" \notin due' /\ "payment" \notin due'
      BY <3>3
    <3> QED BY <3>1, <3>2, <3>3, <3>4, UpdateMirrored
  <2> QED BY <2>1, <2>2
<1>4. CASE WriteDeferred \/ WriteAudit
  <2>1. PICK a \in {"deferred", "audit"} : Done(a)
    BY <1>4 DEF WriteDeferred, WriteAudit
  <2>2. UNCHANGED <<payments, intents, lost>> /\ due' = due \ {a}
        /\ row' = IF due' = {} THEN NoRow ELSE row
    BY <1>4, <2>1 DEF WriteDeferred, WriteAudit, Done
  <2>3. CASE due' = {}
    <3>1. "sync" \notin due
      BY <2>2, <2>3
    <3> QED BY <2>2, <2>3, <3>1, FilesStand
  <2>4. CASE due' # {}
    <3>1. /\ row' = row /\ due' \subseteq due
          /\ ("sync" \in due <=> "sync" \in due') /\ ("payment" \in due <=> "payment" \in due')
      BY <2>2, <2>4
    <3> QED BY <2>2, <3>1, FilesStand
  <2> QED BY <2>3, <2>4
<1>5. CASE Crash
  <2>1. "sync" \in due => <<row.pid, "sync">> \in lost'
    BY <1>5 DEF Crash
  <2> QED BY <1>5, <2>1, FilesStand DEF Crash, files
<1>6. ASSUME NEW p \in Payments, Review(p) PROVE Mirrored'
  BY <1>6, FilesStand DEF Review, files
<1>7. ASSUME NEW ids \in SUBSET Payments, BatchSettle(ids) PROVE Mirrored'
  BY <1>7, FilesStand DEF BatchSettle
<1>8. CASE UNCHANGED vars
  BY <1>8, FilesStand DEF vars, files
<1>9. 1 .. MaxBack = {}
  OBVIOUS
<1> QED BY <1>1, <1>2, <1>3, <1>4, <1>5, <1>6, <1>7, <1>8, <1>9, CreateMirrored,
           WriteIntentMirrored, WritePaymentMirrored, SyncIntentMirrored,
           RetireIntentMirrored
        DEF Next, Request, Continue

\* With a clock that is never set back, an intent and its payment agree whenever no
\* handler is running, unless a crash came between their two appends: whatever is
\* submitted, confirmed or retired, and in whatever order.
THEOREM IntentsMirror ==
  ASSUME MaxBack = 0
  PROVE  Spec => []IntentMirrorsPayment
<1>1. Init => Stamped /\ Mirrored
  BY DEF Init, Stamped, Mirrored, Exists, Idle
<1>2. IInv /\ Stamped /\ Mirrored /\ [Next]_vars => Stamped' /\ Mirrored'
  BY NextStamped, NextMirrored
<1>3. IInv /\ Mirrored => IntentMirrorsPayment
  BY DEF Mirrored, IntentMirrorsPayment, Agree, Idle, Working
<1> QED BY <1>1, <1>2, <1>3, Invariant, PTL DEF Spec
=============================================================================
