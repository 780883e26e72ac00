----------------------- MODULE CryptoPayments_proofs -----------------------
(***************************************************************************)
(* Proofs about CryptoPayments, for any number of payments, transactions,  *)
(* crashes and clock corrections.  The invariants the runs check are not   *)
(* inductive: they are proved from IInv below, which adds that every file  *)
(* has a latest row per id, that the intent file and the running handler   *)
(* only speak of payments that exist, and what a handler in the middle of  *)
(* its appends knows.                                                      *)
(***************************************************************************)
EXTENDS CryptoPayments, TLAPS

-----------------------------------------------------------------------------
(* The inductive invariant *)

HasLatest(file) ==
  \A p \in Payments : Exists(file, p) => \E i \in DOMAIN file : IsLatest(file, p, i)

\* No intent and no handler without a payment.
Rooted ==
  /\ \A k \in DOMAIN intents : Exists(payments, intents[k].pid)
  /\ ~Idle => Exists(payments, row.pid)

\* The handler that writes an intent first does not confirm.
PaymentDue == "payment" \in due => row.status # "confirmed" /\ "audit" \notin due

\* A confirmation that is not audited yet is the one the handler is about to audit.
AuditDue ==
  \A i \in DOMAIN payments :
    payments[i].status = "confirmed" =>
      \/ \E k \in DOMAIN audit : audit[k].pid = payments[i].pid /\ audit[k].tx = payments[i].tx
      \/ "audit" \in due /\ row.pid = payments[i].pid /\ row.tx = payments[i].tx
      \/ <<payments[i].pid, "audit">> \in lost

IsRecorded(p) == p \in deferred \/ Working(p, "deferred") \/ <<p, "deferred">> \in lost

\* Neither the file nor the running handler has deferred terms without a record.
Recorded ==
  /\ \A i \in DOMAIN payments : payments[i].mode = "deferred" => IsRecorded(payments[i].pid)
  /\ ~Idle /\ row.mode = "deferred" => IsRecorded(row.pid)

IInv == TypeOK /\ HasLatest(payments) /\ HasLatest(intents) /\ Rooted
          /\ PaymentDue /\ AuditDue /\ Recorded

-----------------------------------------------------------------------------
(* Reading and appending *)

\* The collapsed view of a file is one of its rows (_latest_by_key invents none).
LEMMA LatestIsARow ==
  ASSUME NEW file, NEW p \in Payments, HasLatest(file), Exists(file, p)
  PROVE  \E i \in DOMAIN file : Latest(file, p) = file[i] /\ IsLatest(file, p, i)
  BY DEF HasLatest, Latest

\* Two rows cannot both be the latest one of an id, so the view is well defined.
LEMMA LatestIsUnique ==
  ASSUME NEW R, \A r \in R : r.at \in Nat, NEW file \in Seq(R), NEW p,
         NEW i, NEW k, IsLatest(file, p, i), IsLatest(file, p, k)
  PROVE  i = k
  BY DEF IsLatest

\* Appending a row keeps a latest row for every id, even when its stamp is older
\* than those of rows already there.
LEMMA AppendHasLatest ==
  ASSUME NEW R, \A r \in R : r.at \in Nat, NEW file \in Seq(R), NEW e \in R, HasLatest(file)
  PROVE  HasLatest(Append(file, e))
<1> DEFINE new == Append(file, e)
           n == Len(file) + 1
<1>1. /\ DOMAIN new = 1 .. n /\ DOMAIN file = 1 .. Len(file) /\ Len(file) \in Nat
      /\ new[n] = e /\ \A j \in DOMAIN file : new[j] = file[j]
      /\ \A j \in DOMAIN file : file[j].at \in Nat
  OBVIOUS
<1>2. SUFFICES ASSUME NEW p \in Payments, Exists(new, p)
               PROVE  \E i \in DOMAIN new : IsLatest(new, p, i)
  BY DEF HasLatest
<1> HIDE DEF new, n
<1>3. CASE e.pid # p
  <2>1. Exists(file, p)
    BY <1>1, <1>2, <1>3 DEF Exists, n
  <2>2. PICK i \in DOMAIN file : IsLatest(file, p, i)
    BY <2>1 DEF HasLatest
  <2>3. IsLatest(new, p, i)
    BY <1>1, <1>3, <2>2 DEF IsLatest, n
  <2> QED BY <1>1, <2>2, <2>3 DEF n
<1>4. CASE e.pid = p /\ ~Exists(file, p)
  <2>1. IsLatest(new, p, n)
    BY <1>1, <1>4 DEF IsLatest, Exists, n
  <2> QED BY <1>1, <2>1 DEF n
<1>5. CASE e.pid = p /\ Exists(file, p)
  <2>1. PICK i \in DOMAIN file : IsLatest(file, p, i)
    BY <1>5 DEF HasLatest
  <2>2. CASE e.at < file[i].at
    <3>1. e.at \in Nat
      OBVIOUS
    <3>2. IsLatest(new, p, i)
      BY <1>1, <2>1, <2>2, <3>1 DEF IsLatest, n
    <3> QED BY <1>1, <2>1, <3>2 DEF n
  <2>3. CASE ~(e.at < file[i].at)
    <3>1. e.at \in Nat
      OBVIOUS
    <3>2. \A j \in DOMAIN file : file[j].pid = p => file[j].at <= e.at
      BY <1>1, <2>1, <2>3, <3>1 DEF IsLatest
    <3>3. IsLatest(new, p, n)
      BY <1>1, <1>5, <3>1, <3>2 DEF IsLatest, n
    <3> QED BY <1>1, <3>3 DEF n
  <2> QED BY <2>2, <2>3
<1> QED BY <1>3, <1>4, <1>5

\* An id that has a row still has one when a row is appended.
LEMMA AppendKeepsExists ==
  ASSUME NEW R, NEW file \in Seq(R), NEW e \in R, NEW p
  PROVE  /\ Exists(file, p) => Exists(Append(file, e), p)
         /\ e.pid = p => Exists(Append(file, e), p)
<1>1. /\ DOMAIN Append(file, e) = 1 .. (Len(file) + 1) /\ Len(file) \in Nat
      /\ DOMAIN file = 1 .. Len(file)
      /\ Append(file, e)[Len(file) + 1] = e
      /\ \A j \in DOMAIN file : Append(file, e)[j] = file[j]
  OBVIOUS
<1> QED BY <1>1 DEF Exists

\* An updated snapshot is a snapshot of the same payment, with the same terms.
LEMMA UpdatedType ==
  ASSUME TypeOK, HasLatest(payments), NEW p \in Payments, Exists(payments, p),
         NEW s \in Statuses, NEW t \in Txs \cup {NoTx}
  PROVE  /\ Updated(p, s, t) \in Snapshot
         /\ Updated(p, s, t).pid = p /\ Updated(p, s, t).status = s
         /\ t # NoTx => Updated(p, s, t).tx = t
         /\ \E i \in DOMAIN payments : /\ payments[i].pid = p
                                       /\ payments[i].mode = Updated(p, s, t).mode
<1>1. PICK i \in DOMAIN payments : Latest(payments, p) = payments[i] /\ IsLatest(payments, p, i)
  BY LatestIsARow
<1>2. payments[i] \in Snapshot /\ payments[i].pid = p
  BY <1>1 DEF TypeOK, IsLatest
<1>3. Now \in Nat
  BY DEF Now, TypeOK
<1> DEFINE c == CASE s = "confirmed" -> Now [] s = "failed" -> NoTime [] OTHER -> payments[i].conf
<1>4. c \in Times
  BY <1>2, <1>3 DEF Snapshot, Times
<1> HIDE DEF c
<1>5. Updated(p, s, t) = [payments[i] EXCEPT !.status = s, !.at = Now,
                            !.tx = IF t = NoTx THEN @ ELSE t, !.conf = c]
  BY <1>1, <1>2 DEF Updated, c, Snapshot
<1> QED BY <1>2, <1>3, <1>4, <1>5 DEF Snapshot

-----------------------------------------------------------------------------
(* The inductive step *)

\* What appending a snapshot means for the payment file.
LEMMA PaymentAppended ==
  ASSUME TypeOK, HasLatest(payments), NEW e \in Snapshot, payments' = Append(payments, e)
  PROVE  /\ payments' \in Seq(Snapshot)
         /\ HasLatest(payments')
         /\ \A p : Exists(payments, p) => Exists(payments', p)
         /\ Exists(payments', e.pid)
         /\ \A i \in DOMAIN payments' : \/ payments'[i] = e
                                        \/ i \in DOMAIN payments /\ payments'[i] = payments[i]
<1>1. payments \in Seq(Snapshot) /\ \A r \in Snapshot : r.at \in Nat
  BY DEF TypeOK, Snapshot
<1>2. HasLatest(payments')
  BY <1>1, AppendHasLatest
<1>3. \A p : Exists(payments, p) => Exists(payments', p)
  BY <1>1, AppendKeepsExists
<1>4. Exists(payments', e.pid)
  BY <1>1, AppendKeepsExists
<1> QED BY <1>1, <1>2, <1>3, <1>4

\* The same for the intent file.
LEMMA IntentAppended ==
  ASSUME TypeOK, HasLatest(intents), NEW e \in IntentRow, intents' = Append(intents, e)
  PROVE  /\ intents' \in Seq(IntentRow)
         /\ HasLatest(intents')
         /\ \A i \in DOMAIN intents' : \/ intents'[i] = e
                                       \/ i \in DOMAIN intents /\ intents'[i] = intents[i]
<1>1. intents \in Seq(IntentRow) /\ \A r \in IntentRow : r.at \in Nat
  BY DEF TypeOK, IntentRow
<1>2. HasLatest(intents')
  BY <1>1, AppendHasLatest
<1> QED BY <1>1, <1>2

LEMMA InitIInv == Init => IInv
<1> SUFFICES ASSUME Init PROVE IInv
  OBVIOUS
<1>1. TypeOK
  BY ConstantsAssumption DEF Init, TypeOK, Idle
<1>2. HasLatest(payments) /\ HasLatest(intents)
  BY DEF Init, HasLatest, Exists
<1>3. Rooted /\ PaymentDue /\ AuditDue /\ Recorded
  BY DEF Init, Rooted, PaymentDue, AuditDue, Recorded, Idle
<1> QED BY <1>1, <1>2, <1>3 DEF IInv

\* Opening a payment.
LEMMA CreateStep ==
  ASSUME IInv, NEW p \in Payments, NEW mode \in {"direct", "deferred"}, NEW linked \in BOOLEAN,
         Create(p, mode, linked)
  PROVE  IInv'
<1> DEFINE new == [pid |-> p, status |-> "pending", tx |-> NoTx, at |-> Now,
                   conf |-> NoTime, linked |-> linked, mode |-> mode]
<1>1. new \in Snapshot /\ new.pid = p /\ new.status = "pending" /\ new.mode = mode
  BY DEF Snapshot, Statuses, Times, IInv, TypeOK, Now
<1>2. payments' = Append(payments, new) /\ row' = IF linked THEN new ELSE NoRow
  BY DEF Create
<1> HIDE DEF new
<1>3. /\ payments' \in Seq(Snapshot) /\ HasLatest(payments')
      /\ \A q : Exists(payments, q) => Exists(payments', q)
      /\ Exists(payments', p)
      /\ \A i \in DOMAIN payments' : \/ payments'[i] = new
                                     \/ i \in DOMAIN payments /\ payments'[i] = payments[i]
  BY <1>1, <1>2, PaymentAppended DEF IInv
<1>4. /\ Idle /\ ~linked => due' = {}
      /\ mode = "deferred" => "deferred" \in due' /\ linked
      /\ linked => "intent" \in due'
      /\ due' \subseteq {"intent", "deferred"}
      /\ due = {}
      /\ UNCHANGED <<intents, audit, deferred, lost>>
  BY DEF Create, Idle
<1>5. TypeOK'
  <2>1. due' \subseteq Appends /\ clock' \in Nat
    BY <1>4 DEF Create, Appends, IInv, TypeOK, Now
  <2>2. row' \in Snapshot \cup {NoRow} /\ (Idle' <=> row' = NoRow)
    BY <1>1, <1>2, <1>4, ConstantsAssumption DEF Idle
  <2> QED BY <1>3, <2>1, <2>2 DEF Create, IInv, TypeOK, Idle, operator
<1>6. HasLatest(payments)' /\ HasLatest(intents)'
  BY <1>3, <1>4 DEF IInv
<1>7. Rooted'
  BY <1>1, <1>2, <1>3, <1>4 DEF IInv, Rooted, Idle
<1>8. PaymentDue'
  BY <1>4 DEF PaymentDue
<1>9. AuditDue'
  BY <1>1, <1>3, <1>4 DEF IInv, AuditDue
<1>10. Recorded'
  BY <1>1, <1>2, <1>3, <1>4 DEF IInv, Recorded, IsRecorded, Working, Idle
<1> QED BY <1>5, <1>6, <1>7, <1>8, <1>9, <1>10 DEF IInv

\* Submitting, retiring and confirming all append an updated snapshot.
LEMMA UpdateStep ==
  ASSUME IInv, Idle, NEW p \in Payments, Exists(payments, p),
         NEW s \in Statuses, NEW t \in Txs \cup {NoTx},
         row' = Updated(p, s, t), payments' = Append(payments, row'), clock' = Now,
         due' \in {{"sync"}, {"sync", "audit"}}, s = "confirmed" => "audit" \in due',
         checked' \in [Payments -> Txs \cup {NoTx}],
         UNCHANGED <<intents, audit, deferred, batches, onchain, lost, crashes, setback>>
  PROVE  IInv'
<1>1. /\ row' \in Snapshot /\ row'.pid = p /\ row'.status = s
      /\ \E i \in DOMAIN payments : payments[i].pid = p /\ payments[i].mode = row'.mode
  BY UpdatedType DEF IInv
<1>2. /\ payments' \in Seq(Snapshot) /\ HasLatest(payments')
      /\ \A q : Exists(payments, q) => Exists(payments', q)
      /\ Exists(payments', p)
      /\ \A i \in DOMAIN payments' : \/ payments'[i] = row'
                                     \/ i \in DOMAIN payments /\ payments'[i] = payments[i]
  BY <1>1, PaymentAppended DEF IInv
<1>3. TypeOK'
  <2>1. due' \subseteq Appends /\ due' # {}
    BY DEF Appends
  <2>3. clock' \in Nat
    BY DEF IInv, TypeOK, Now
  <2>2. row' # NoRow
    BY <1>1, ConstantsAssumption
  <2> QED BY <1>1, <1>2, <2>1, <2>2, <2>3 DEF IInv, TypeOK, Idle
<1>4. HasLatest(payments)' /\ HasLatest(intents)'
  BY <1>2 DEF IInv
<1>5. Rooted'
  BY <1>1, <1>2 DEF IInv, Rooted
<1>6. PaymentDue'
  BY DEF PaymentDue
<1>7. AuditDue'
  <2>1. SUFFICES ASSUME NEW i \in DOMAIN payments', payments'[i].status = "confirmed"
                 PROVE  \/ \E k \in DOMAIN audit : /\ audit[k].pid = payments'[i].pid
                                                   /\ audit[k].tx = payments'[i].tx
                        \/ "audit" \in due' /\ row'.pid = payments'[i].pid
                             /\ row'.tx = payments'[i].tx
                        \/ <<payments'[i].pid, "audit">> \in lost
    BY DEF AuditDue
  <2>2. CASE payments'[i] = row'
    BY <1>1, <2>1, <2>2
  <2>3. CASE i \in DOMAIN payments /\ payments'[i] = payments[i]
    BY <2>1, <2>3 DEF IInv, AuditDue, Idle
  <2> QED BY <1>2, <2>2, <2>3
<1>8. Recorded'
  <2>1. \A q : IsRecorded(q) => IsRecorded(q)'
    BY DEF IsRecorded, Working, Idle
  <2>2. row'.mode = "deferred" => IsRecorded(row'.pid)
    BY <1>1 DEF IInv, Recorded
  <2>3. row'.mode = "deferred" => IsRecorded(row.pid)'
    BY <2>1, <2>2
  <2>4. \A i \in DOMAIN payments' : payments'[i].mode = "deferred" => IsRecorded(payments[i].pid)'
    BY <1>2, <2>1, <2>3 DEF IInv, Recorded
  <2> QED BY <2>3, <2>4 DEF Recorded
<1> QED BY <1>3, <1>4, <1>5, <1>6, <1>7, <1>8 DEF IInv

LEMMA SubmitStep ==
  ASSUME IInv, NEW p \in Payments, NEW t \in Txs \cup {NoTx}, Submit(p, t)
  PROVE  IInv'
<1>1. "submitted" \in Statuses
  BY DEF Statuses
<1>2. checked \in [Payments -> Txs \cup {NoTx}]
  BY DEF IInv, TypeOK
<1> QED BY <1>1, <1>2, UpdateStep DEF Submit, operator

LEMMA RetireStep ==
  ASSUME IInv, NEW p \in Payments, NEW s \in Retirements, Retire(p, s)
  PROVE  IInv'
<1>1. s \in Statuses /\ s # "confirmed"
  BY ConstantsAssumption DEF Statuses
<1>2. checked \in [Payments -> Txs \cup {NoTx}]
  BY DEF IInv, TypeOK
<1> QED BY <1>1, <1>2, UpdateStep DEF Retire, operator

LEMMA ConfirmStep ==
  ASSUME IInv, NEW p \in Payments, Confirm(p)
  PROVE  IInv'
<1>1. checked' \in [Payments -> Txs \cup {NoTx}]
  BY DEF Confirm, IInv, TypeOK
<1>2. CASE StatusOf(p) = "confirmed"
  BY <1>1, <1>2 DEF Confirm, IInv, TypeOK, HasLatest, Rooted, PaymentDue, AuditDue, Recorded,
                    IsRecorded, Working, Idle
<1>3. CASE StatusOf(p) # "confirmed"
  <2> DEFINE t == IF NamesTx THEN checked[p] ELSE NoTx
  <2>1. t \in Txs \cup {NoTx} /\ "confirmed" \in Statuses
    BY DEF IInv, TypeOK, Statuses
  <2>2. /\ Idle /\ row' = Updated(p, "confirmed", t) /\ payments' = Append(payments, row')
        /\ clock' = Now /\ due' = {"sync", "audit"}
        /\ UNCHANGED <<intents, audit, deferred, batches, onchain, lost, crashes, setback>>
    BY <1>3 DEF Confirm
  <2>3. Exists(payments, p)
    BY DEF Confirm
  <2> HIDE DEF t
  <2> QED BY <1>1, <2>1, <2>2, <2>3, UpdateStep
<1> QED BY <1>2, <1>3

\* Actions that change neither the payment file nor the running handler.
LEMMA QuietStep ==
  ASSUME IInv, \/ \E p \in Payments : Review(p)
               \/ \E ids \in SUBSET Payments : BatchSettle(ids)
               \/ \E d \in 1 .. MaxBack : SetBack(d)
               \/ UNCHANGED vars
  PROVE  IInv'
<1>1. UNCHANGED <<payments, intents, audit, deferred, due, row, lost>>
  BY DEF Review, BatchSettle, SetBack, vars, files
<1>2. TypeOK'
  <2>1. ASSUME NEW p \in Payments, Review(p) PROVE TypeOK'
    <3>1. p \in OpenPayments
      BY <2>1 DEF Review, ReviewList
    <3>2. Exists(payments, p)
      BY <3>1 DEF OpenPayments, StatusOf, OpenStatuses
    <3>3. Latest(payments, p).tx \in Txs \cup {NoTx}
      <4>1. PICK i \in DOMAIN payments : Latest(payments, p) = payments[i]
        BY <3>2, LatestIsARow DEF IInv
      <4>2. payments[i] \in Snapshot
        BY DEF IInv, TypeOK
      <4> QED BY <4>1, <4>2 DEF Snapshot
    <3> QED BY <2>1, <3>3 DEF Review, IInv, TypeOK, files, time, Idle
  <2>2. ASSUME NEW ids \in SUBSET Payments, BatchSettle(ids) PROVE TypeOK'
    BY <2>2 DEF BatchSettle, IInv, TypeOK, operator, time, Idle
  <2>3. ASSUME NEW d \in 1 .. MaxBack, SetBack(d) PROVE TypeOK'
    BY <2>3, ConstantsAssumption DEF SetBack, IInv, TypeOK, files, operator, Idle
  <2>4. CASE UNCHANGED vars
    BY <2>4 DEF vars, files, operator, time, IInv, TypeOK, Idle
  <2> QED BY <2>1, <2>2, <2>3, <2>4
<1>3. HasLatest(payments)' /\ HasLatest(intents)' /\ Rooted'
  BY <1>1 DEF IInv, Rooted, Idle
<1>4. PaymentDue' /\ AuditDue' /\ Recorded'
  BY <1>1 DEF IInv, PaymentDue, AuditDue, Recorded, IsRecorded, Working, Idle
<1> QED BY <1>2, <1>3, <1>4 DEF IInv

\* The library call that writes the intent first.
LEMMA RetireIntentStep ==
  ASSUME IInv, NEW p \in Payments, NEW s \in Retirements, RetireIntent(p, s)
  PROVE  IInv'
<1>1. Exists(payments, p)
  BY DEF RetireIntent, IInv, Rooted, Exists
<1>2. s \in Statuses /\ s # "confirmed" /\ NoTx \in Txs \cup {NoTx}
  BY ConstantsAssumption DEF Statuses
<1>3. /\ row' \in Snapshot /\ row'.pid = p /\ row'.status = s
      /\ \E i \in DOMAIN payments : payments[i].pid = p /\ payments[i].mode = row'.mode
  BY <1>1, <1>2, UpdatedType DEF RetireIntent, IInv
<1> DEFINE new == [Latest(intents, p) EXCEPT !.status = s]
<1>4. new \in IntentRow /\ new.pid = p
  <2>1. PICK k \in DOMAIN intents : Latest(intents, p) = intents[k] /\ IsLatest(intents, p, k)
    BY LatestIsARow DEF RetireIntent, IInv
  <2>2. intents[k] \in IntentRow /\ intents[k].pid = p
    BY <2>1 DEF IInv, TypeOK, IsLatest
  <2> QED BY <1>2, <2>1, <2>2 DEF IntentRow
<1>5. /\ due = {} /\ due' = {"payment", "sync"} /\ clock' = Now
      /\ intents' = Append(intents, new)
      /\ UNCHANGED <<payments, audit, deferred, batches, checked, onchain, lost, crashes,
                     setback>>
  BY DEF RetireIntent, operator, Idle
<1> HIDE DEF new
<1>6. /\ intents' \in Seq(IntentRow) /\ HasLatest(intents')
      /\ \A i \in DOMAIN intents' : \/ intents'[i] = new
                                    \/ i \in DOMAIN intents /\ intents'[i] = intents[i]
  BY <1>4, <1>5, IntentAppended DEF IInv
<1>7. TypeOK'
  <2>1. due' \subseteq Appends /\ due' # {}
    BY <1>5 DEF Appends
  <2>2. clock' \in Nat
    BY <1>5 DEF IInv, TypeOK, Now
  <2>3. row' # NoRow
    BY <1>3, ConstantsAssumption
  <2> QED BY <1>3, <1>5, <1>6, <2>1, <2>2, <2>3 DEF IInv, TypeOK, Idle
<1>8. HasLatest(payments)' /\ HasLatest(intents)'
  BY <1>5, <1>6 DEF IInv
<1>9. Rooted'
  BY <1>1, <1>3, <1>4, <1>5, <1>6 DEF IInv, Rooted
<1>10. PaymentDue'
  BY <1>2, <1>3, <1>5 DEF PaymentDue
<1>11. AuditDue'
  BY <1>5 DEF IInv, AuditDue
<1>12. Recorded'
  BY <1>3, <1>5 DEF IInv, Recorded, IsRecorded, Working, Idle
<1> QED BY <1>7, <1>8, <1>9, <1>10, <1>11, <1>12 DEF IInv

\* Finishing one append leaves a handler that is still at work, or none.
LEMMA DoneType ==
  ASSUME TypeOK, NEW a \in due, Done(a)
  PROVE  /\ due' \subseteq due /\ due' \subseteq Appends /\ a \notin due'
         /\ \A b \in due : b # a => b \in due'
         /\ row \in Snapshot
         /\ row' \in Snapshot \cup {NoRow} /\ (due' = {} <=> row' = NoRow)
         /\ due' # {} => row' = row
  BY ConstantsAssumption DEF Done, TypeOK, Idle

LEMMA WriteIntentStep == ASSUME IInv, WriteIntent PROVE IInv'
<1> DEFINE new == [pid |-> row.pid, status |-> "pending", tx |-> NoTx, at |-> row.at,
                   conf |-> NoTime]
<1>1. "intent" \in due /\ Done("intent") /\ intents' = Append(intents, new)
      /\ UNCHANGED <<payments, audit, deferred, batches, time, operator, lost, crashes>>
  BY DEF WriteIntent
<1>2. /\ due' \subseteq due /\ due' \subseteq Appends /\ row \in Snapshot
      /\ \A b \in due : b # "intent" => b \in due'
      /\ row' \in Snapshot \cup {NoRow} /\ (due' = {} <=> row' = NoRow)
      /\ due' # {} => row' = row
  BY <1>1, DoneType DEF IInv
<1>3. new \in IntentRow /\ new.pid = row.pid
  BY <1>2 DEF IntentRow, Snapshot, Statuses, Times
<1> HIDE DEF new
<1>4. /\ intents' \in Seq(IntentRow) /\ HasLatest(intents')
      /\ \A i \in DOMAIN intents' : \/ intents'[i] = new
                                    \/ i \in DOMAIN intents /\ intents'[i] = intents[i]
  BY <1>1, <1>3, IntentAppended DEF IInv
<1>5. TypeOK'
  BY <1>1, <1>2, <1>4 DEF IInv, TypeOK, Idle, time, operator
<1>6. HasLatest(payments)' /\ HasLatest(intents)'
  BY <1>1, <1>4 DEF IInv
<1>7. Rooted'
  BY <1>1, <1>2, <1>3, <1>4 DEF IInv, Rooted, Idle
<1>8. PaymentDue'
  BY <1>2 DEF IInv, PaymentDue
<1>9. AuditDue'
  BY <1>1, <1>2 DEF IInv, AuditDue
<1>10. Recorded'
  BY <1>1, <1>2 DEF IInv, Recorded, IsRecorded, Working, Idle
<1> QED BY <1>5, <1>6, <1>7, <1>8, <1>9, <1>10 DEF IInv

LEMMA WriteDeferredStep == ASSUME IInv, WriteDeferred PROVE IInv'
<1>1. "deferred" \in due /\ Done("deferred") /\ deferred' = deferred \cup {row.pid}
      /\ UNCHANGED <<payments, intents, audit, batches, time, operator, lost, crashes>>
  BY DEF WriteDeferred
<1>2. /\ due' \subseteq due /\ due' \subseteq Appends /\ row \in Snapshot
      /\ \A b \in due : b # "deferred" => b \in due'
      /\ row' \in Snapshot \cup {NoRow} /\ (due' = {} <=> row' = NoRow)
      /\ due' # {} => row' = row
  BY <1>1, DoneType DEF IInv
<1>3. TypeOK'
  <2>1. row.pid \in Payments
    BY <1>2 DEF Snapshot
  <2> QED BY <1>1, <1>2, <2>1 DEF IInv, TypeOK, Idle, time, operator
<1>4. HasLatest(payments)' /\ HasLatest(intents)' /\ Rooted'
  BY <1>1, <1>2 DEF IInv, Rooted, Idle
<1>5. PaymentDue' /\ AuditDue'
  BY <1>1, <1>2 DEF IInv, PaymentDue, AuditDue
<1>6. Recorded'
  BY <1>1, <1>2 DEF IInv, Recorded, IsRecorded, Working, Idle
<1> QED BY <1>3, <1>4, <1>5, <1>6 DEF IInv

LEMMA WritePaymentStep == ASSUME IInv, WritePayment PROVE IInv'
<1>1. "payment" \in due /\ Done("payment") /\ payments' = Append(payments, row)
      /\ UNCHANGED <<intents, audit, deferred, batches, time, operator, lost, crashes>>
  BY DEF WritePayment
<1>2. /\ due' \subseteq due /\ due' \subseteq Appends /\ row \in Snapshot
      /\ \A b \in due : b # "payment" => b \in due'
      /\ row' \in Snapshot \cup {NoRow} /\ (due' = {} <=> row' = NoRow)
      /\ due' # {} => row' = row
  BY <1>1, DoneType DEF IInv
<1>3. /\ payments' \in Seq(Snapshot) /\ HasLatest(payments')
      /\ \A q : Exists(payments, q) => Exists(payments', q)
      /\ \A i \in DOMAIN payments' : \/ payments'[i] = row
                                     \/ i \in DOMAIN payments /\ payments'[i] = payments[i]
  BY <1>1, <1>2, PaymentAppended DEF IInv
<1>4. TypeOK'
  BY <1>1, <1>2, <1>3 DEF IInv, TypeOK, Idle, time, operator
<1>5. HasLatest(payments)' /\ HasLatest(intents)'
  BY <1>1, <1>3 DEF IInv
<1>6. Rooted'
  BY <1>1, <1>2, <1>3 DEF IInv, Rooted, Idle
<1>7. PaymentDue'
  BY <1>1, <1>2 DEF IInv, PaymentDue
<1>8. AuditDue'
  <2>1. row.status # "confirmed" /\ "audit" \notin due
    BY <1>1 DEF IInv, PaymentDue
  <2> QED BY <1>1, <1>2, <1>3, <2>1 DEF IInv, AuditDue
<1>9. Recorded'
  <2>1. \A q : IsRecorded(q) => IsRecorded(q)'
    BY <1>1, <1>2 DEF IsRecorded, Working
  <2>2. row.mode = "deferred" => IsRecorded(row.pid)
    BY <1>1 DEF IInv, Recorded, Idle
  <2>3. ~Idle' => row' = row
    BY <1>2 DEF Idle
  <2> QED BY <1>3, <2>1, <2>2, <2>3 DEF IInv, Recorded
<1> QED BY <1>4, <1>5, <1>6, <1>7, <1>8, <1>9 DEF IInv

LEMMA SyncIntentStep == ASSUME IInv, SyncIntent PROVE IInv'
<1>1. /\ "sync" \in due /\ Done("sync") /\ lost' = lost \ {<<row.pid, "sync">>}
      /\ UNCHANGED <<payments, audit, deferred, batches, time, operator, crashes>>
  BY DEF SyncIntent
<1>2. /\ due' \subseteq due /\ due' \subseteq Appends /\ row \in Snapshot
      /\ \A b \in due : b # "sync" => b \in due'
      /\ row' \in Snapshot \cup {NoRow} /\ (due' = {} <=> row' = NoRow)
      /\ due' # {} => row' = row
  BY <1>1, DoneType DEF IInv
<1>3. /\ intents' \in Seq(IntentRow) /\ HasLatest(intents')
      /\ \A i \in DOMAIN intents' : \/ intents'[i].pid = row.pid
                                    \/ i \in DOMAIN intents /\ intents'[i] = intents[i]
  <2>1. CASE row.linked /\ Exists(intents, row.pid)
    <3> DEFINE old == Latest(intents, row.pid)
               new == [old EXCEPT !.status = row.status, !.tx = row.tx,
                         !.conf = IF row.status = "confirmed" THEN row.conf ELSE @]
    <3>1. old \in IntentRow /\ old.pid = row.pid
      <4>1. row.pid \in Payments
        BY <1>2 DEF Snapshot
      <4>2. PICK k \in DOMAIN intents : old = intents[k] /\ IsLatest(intents, row.pid, k)
        BY <2>1, <4>1, LatestIsARow DEF IInv
      <4>3. intents[k] \in IntentRow /\ intents[k].pid = row.pid
        BY <4>2 DEF IInv, TypeOK, IsLatest
      <4> QED BY <4>2, <4>3
    <3>2. intents' = Append(intents, new)
      BY <2>1 DEF SyncIntent
    <3> HIDE DEF old
    <3>3. new \in IntentRow /\ new.pid = row.pid
      BY <1>2, <3>1 DEF IntentRow, Snapshot
    <3> HIDE DEF new
    <3> QED BY <3>2, <3>3, IntentAppended DEF IInv
  <2>2. CASE ~(row.linked /\ Exists(intents, row.pid))
    BY <2>2 DEF SyncIntent, IInv, TypeOK
  <2> QED BY <2>1, <2>2
<1>4. TypeOK'
  BY <1>1, <1>2, <1>3 DEF IInv, TypeOK, Idle, time, operator
<1>5. HasLatest(payments)' /\ HasLatest(intents)'
  BY <1>1, <1>3 DEF IInv
<1>6. Rooted'
  BY <1>1, <1>2, <1>3 DEF IInv, Rooted, Idle
<1>7. PaymentDue'
  BY <1>2 DEF IInv, PaymentDue
<1>8. AuditDue'
  BY <1>1, <1>2 DEF IInv, AuditDue
<1>9. Recorded'
  BY <1>1, <1>2 DEF IInv, Recorded, IsRecorded, Working, Idle
<1> QED BY <1>4, <1>5, <1>6, <1>7, <1>8, <1>9 DEF IInv

LEMMA WriteAuditStep == ASSUME IInv, WriteAudit PROVE IInv'
<1> DEFINE new == [pid |-> row.pid, tx |-> row.tx]
<1>1. /\ "audit" \in due /\ Done("audit") /\ audit' = Append(audit, new)
      /\ UNCHANGED <<payments, intents, deferred, batches, time, operator, lost, crashes>>
  BY DEF WriteAudit
<1>2. /\ due' \subseteq due /\ due' \subseteq Appends /\ row \in Snapshot
      /\ \A b \in due : b # "audit" => b \in due'
      /\ row' \in Snapshot \cup {NoRow} /\ (due' = {} <=> row' = NoRow)
      /\ due' # {} => row' = row
  BY <1>1, DoneType DEF IInv
<1>3. new \in AuditRow /\ new.pid = row.pid /\ new.tx = row.tx
  BY <1>2 DEF AuditRow, Snapshot
<1> HIDE DEF new
<1>4. /\ audit' \in Seq(AuditRow)
      /\ \E k \in DOMAIN audit' : audit'[k] = new
      /\ \A k \in DOMAIN audit : k \in DOMAIN audit' /\ audit'[k] = audit[k]
  <2>1. audit \in Seq(AuditRow)
    BY DEF IInv, TypeOK
  <2> QED BY <1>1, <1>3, <2>1
<1>5. TypeOK'
  BY <1>1, <1>2, <1>4 DEF IInv, TypeOK, Idle, time, operator
<1>6. HasLatest(payments)' /\ HasLatest(intents)' /\ Rooted'
  BY <1>1, <1>2 DEF IInv, Rooted, Idle
<1>7. PaymentDue'
  BY <1>2 DEF IInv, PaymentDue
<1>8. AuditDue'
  <2>1. SUFFICES ASSUME NEW i \in DOMAIN payments, payments[i].status = "confirmed"
                 PROVE  \/ \E k \in DOMAIN audit' : /\ audit'[k].pid = payments[i].pid
                                                    /\ audit'[k].tx = payments[i].tx
                        \/ <<payments[i].pid, "audit">> \in lost
    BY <1>1 DEF AuditDue
  <2>2. \/ \E k \in DOMAIN audit : audit[k].pid = payments[i].pid /\ audit[k].tx = payments[i].tx
        \/ row.pid = payments[i].pid /\ row.tx = payments[i].tx
        \/ <<payments[i].pid, "audit">> \in lost
    BY <2>1 DEF IInv, AuditDue
  <2> QED BY <1>3, <1>4, <2>2
<1>9. Recorded'
  BY <1>1, <1>2 DEF IInv, Recorded, IsRecorded, Working, Idle
<1> QED BY <1>5, <1>6, <1>7, <1>8, <1>9 DEF IInv

LEMMA CrashStep == ASSUME IInv, Crash PROVE IInv'
<1>1. /\ lost' = lost \cup {<<row.pid, a>> : a \in due}
      /\ due' = {} /\ row' = NoRow /\ crashes' = crashes + 1 /\ row \in Snapshot
      /\ UNCHANGED <<files, time, operator>>
  BY DEF Crash, IInv, TypeOK
<1>2. TypeOK'
  <2>1. lost' \subseteq Payments \X Appends
    BY <1>1 DEF IInv, TypeOK, Snapshot
  <2> QED BY <1>1, <2>1 DEF IInv, TypeOK, Idle, files, time, operator
<1>3. HasLatest(payments)' /\ HasLatest(intents)' /\ Rooted'
  BY <1>1 DEF IInv, Rooted, Idle, files
<1>4. PaymentDue' /\ AuditDue'
  BY <1>1 DEF IInv, PaymentDue, AuditDue, files
<1>5. Recorded'
  BY <1>1 DEF IInv, Recorded, IsRecorded, Working, Idle, files
<1> QED BY <1>2, <1>3, <1>4, <1>5 DEF IInv

LEMMA NextIInv == IInv /\ [Next]_vars => IInv'
<1> SUFFICES ASSUME IInv, [Next]_vars PROVE IInv'
  OBVIOUS
<1>1. ASSUME NEW p \in Payments, NEW mode \in {"direct", "deferred"}, NEW linked \in BOOLEAN,
             Create(p, mode, linked)
      PROVE  IInv'
  BY <1>1, CreateStep
<1>2. ASSUME NEW p \in Payments, NEW t \in Txs \cup {NoTx}, Submit(p, t) PROVE IInv'
  BY <1>2, SubmitStep
<1>3. ASSUME NEW p \in Payments, NEW s \in Retirements, Retire(p, s) PROVE IInv'
  BY <1>3, RetireStep
<1>4. ASSUME NEW p \in Payments, NEW s \in Retirements, RetireIntent(p, s) PROVE IInv'
  BY <1>4, RetireIntentStep
<1>5. ASSUME NEW p \in Payments, Review(p) PROVE IInv'
  BY <1>5, QuietStep
<1>6. ASSUME NEW p \in Payments, Confirm(p) PROVE IInv'
  BY <1>6, ConfirmStep
<1>7. ASSUME NEW ids \in SUBSET Payments, BatchSettle(ids) PROVE IInv'
  BY <1>7, QuietStep
<1>8. CASE Continue
  BY <1>8, WriteIntentStep, WriteDeferredStep, WritePaymentStep, SyncIntentStep, WriteAuditStep
     DEF Continue
<1>9. CASE Crash
  BY <1>9, CrashStep
<1>10. ASSUME NEW d \in 1 .. MaxBack, SetBack(d) PROVE IInv'
  BY <1>10, QuietStep
<1>11. CASE UNCHANGED vars
  BY <1>11, QuietStep
<1> QED BY <1>1, <1>2, <1>3, <1>4, <1>5, <1>6, <1>7, <1>8, <1>9, <1>10, <1>11
        DEF Next, Request

-----------------------------------------------------------------------------
(* Theorems *)

\* The invariant holds in every state the program can reach.
THEOREM Invariant == Spec => []IInv
  BY InitIInv, NextIInv, PTL DEF Spec

\* Every variable holds values of its kind, whatever rows the files collect.
THEOREM TypeCorrect == Spec => []TypeOK
<1>1. IInv => TypeOK
  BY DEF IInv
<1> QED BY <1>1, Invariant, PTL

\* A confirmation reaches the audit log unless a crash falls between the two
\* appends, for any number of resubmissions, confirmations and crashes and for
\* any setting of the clock (confirm_payment and its audit record).
THEOREM ConfirmedAudited == Spec => []ConfirmedIsAudited
<1>1. IInv => ConfirmedIsAudited
  BY DEF IInv, AuditDue, ConfirmedIsAudited, Working
<1> QED BY <1>1, Invariant, PTL

\* A payment with deferred terms is in the deferred store unless a crash cut its
\* creation short: no later update of the payment makes up a deferred one.
THEOREM DeferredRecorded == Spec => []DeferredIsRecorded
<1>1. IInv => DeferredIsRecorded
  BY DEF IInv, Recorded, IsRecorded, DeferredIsRecorded
<1> QED BY <1>1, Invariant, PTL

-----------------------------------------------------------------------------
(* What the operator has looked up *)

\* The operator only acts on transactions that were looked up, and so far every
\* confirmation was for one of them.
CheckedInv ==
  /\ \A p \in Payments : checked[p] # NoTx => <<p, checked[p]>> \in onchain
  /\ ConfirmedAsChecked

LEMMA NextCheckedInv ==
  ASSUME NamesTx, IInv, CheckedInv, [Next]_vars
  PROVE  CheckedInv'
<1> DEFINE Safe(e) == e.status = "confirmed" => <<e.pid, e.tx>> \in onchain
<1>1. ASSUME NEW e \in Snapshot, payments' = Append(payments, e), Safe(e), UNCHANGED onchain
      PROVE  ConfirmedAsChecked'
  <2>1. \A i \in DOMAIN payments' : \/ payments'[i] = e
                                    \/ i \in DOMAIN payments /\ payments'[i] = payments[i]
    BY <1>1, PaymentAppended DEF IInv
  <2> QED BY <1>1, <2>1 DEF CheckedInv, ConfirmedAsChecked
<1>2. ASSUME NEW p \in Payments, Exists(payments, p), NEW s \in Statuses \ {"confirmed"},
             NEW t \in Txs \cup {NoTx}, payments' = Append(payments, Updated(p, s, t)),
             UNCHANGED operator
      PROVE  CheckedInv'
  <2>1. Updated(p, s, t) \in Snapshot /\ Safe(Updated(p, s, t))
    BY <1>2, UpdatedType DEF IInv
  <2>2. ConfirmedAsChecked'
    BY <1>1, <1>2, <2>1 DEF operator
  <2> QED BY <1>2, <2>2 DEF CheckedInv, operator
<1>3. ASSUME UNCHANGED <<payments, operator>> PROVE CheckedInv'
  BY <1>3 DEF CheckedInv, ConfirmedAsChecked, operator
<1>4. ASSUME NEW p \in Payments, NEW mode \in {"direct", "deferred"}, NEW linked \in BOOLEAN,
             Create(p, mode, linked)
      PROVE  CheckedInv'
  <2> DEFINE new == [pid |-> p, status |-> "pending", tx |-> NoTx, at |-> Now,
                     conf |-> NoTime, linked |-> linked, mode |-> mode]
  <2>1. new \in Snapshot /\ new.status = "pending"
    BY DEF Snapshot, Statuses, Times, IInv, TypeOK, Now
  <2>2. payments' = Append(payments, new) /\ UNCHANGED operator
    BY <1>4 DEF Create
  <2> HIDE DEF new
  <2>3. Safe(new)
    BY <2>1
  <2>4. ConfirmedAsChecked'
    BY <1>1, <2>1, <2>2, <2>3 DEF operator
  <2> QED BY <2>2, <2>4 DEF CheckedInv, operator
<1>5. ASSUME NEW p \in Payments, NEW t \in Txs \cup {NoTx}, Submit(p, t) PROVE CheckedInv'
  <2>1. "submitted" \in Statuses \ {"confirmed"}
    BY DEF Statuses
  <2> QED BY <1>2, <1>5, <2>1 DEF Submit
<1>6. ASSUME NEW p \in Payments, NEW s \in Retirements, Retire(p, s) PROVE CheckedInv'
  <2>1. s \in Statuses \ {"confirmed"}
    BY ConstantsAssumption DEF Statuses
  <2> QED BY <1>2, <1>6, <2>1 DEF Retire
<1>7. ASSUME NEW p \in Payments, Review(p) PROVE CheckedInv'
  <2>1. UNCHANGED payments
    BY <1>7 DEF Review, files
  <2>2. PICK t : /\ checked' = [checked EXCEPT ![p] = t]
                 /\ onchain' = onchain \cup {<<p, t>>}
    BY <1>7 DEF Review
  <2>3. \A q \in Payments : checked'[q] # NoTx => <<q, checked'[q]>> \in onchain'
    BY <2>2 DEF CheckedInv, IInv, TypeOK
  <2> QED BY <2>1, <2>2, <2>3 DEF CheckedInv, ConfirmedAsChecked
<1>8. ASSUME NEW p \in Payments, Confirm(p) PROVE CheckedInv'
  <2>1. \A q \in Payments : checked'[q] # NoTx => <<q, checked'[q]>> \in onchain
    BY <1>8 DEF Confirm, CheckedInv, IInv, TypeOK
  <2>2. UNCHANGED onchain
    BY <1>8 DEF Confirm
  <2>3. CASE StatusOf(p) = "confirmed"
    BY <1>8, <2>1, <2>2, <2>3 DEF Confirm, CheckedInv, ConfirmedAsChecked
  <2>4. CASE StatusOf(p) # "confirmed"
    <3> DEFINE e == Updated(p, "confirmed", checked[p])
    <3>1. payments' = Append(payments, e)
      BY <1>8, <2>4 DEF Confirm
    <3>2. e \in Snapshot /\ e.pid = p /\ e.tx = checked[p]
      <4>1. checked[p] \in Txs \cup {NoTx} /\ checked[p] # NoTx /\ Exists(payments, p)
        BY <1>8 DEF Confirm, IInv, TypeOK
      <4>2. "confirmed" \in Statuses
        BY DEF Statuses
      <4> QED BY <4>1, <4>2, UpdatedType DEF IInv
    <3>3. <<p, checked[p]>> \in onchain
      BY <1>8 DEF Confirm, CheckedInv
    <3> HIDE DEF e
    <3>4. Safe(e)
      BY <3>2, <3>3
    <3>5. ConfirmedAsChecked'
      BY <1>1, <2>2, <3>1, <3>2, <3>4
    <3> QED BY <2>1, <2>2, <3>5 DEF CheckedInv
  <2> QED BY <2>3, <2>4
<1>9. CASE WritePayment
  <2>1. row \in Snapshot /\ row.status # "confirmed"
    BY <1>9 DEF WritePayment, IInv, TypeOK, PaymentDue, Idle
  <2>2. payments' = Append(payments, row) /\ UNCHANGED operator
    BY <1>9 DEF WritePayment
  <2>3. ConfirmedAsChecked'
    BY <1>1, <2>1, <2>2 DEF operator
  <2> QED BY <2>2, <2>3 DEF CheckedInv, operator
<1>10. ASSUME NEW p \in Payments, NEW s \in Retirements, RetireIntent(p, s) PROVE CheckedInv'
  BY <1>3, <1>10 DEF RetireIntent
<1>11. ASSUME NEW ids \in SUBSET Payments, BatchSettle(ids) PROVE CheckedInv'
  BY <1>3, <1>11 DEF BatchSettle
<1>12. CASE WriteIntent \/ WriteDeferred \/ SyncIntent \/ WriteAudit
  BY <1>3, <1>12 DEF WriteIntent, WriteDeferred, SyncIntent, WriteAudit
<1>13. CASE Crash \/ (\E d \in 1 .. MaxBack : SetBack(d)) \/ UNCHANGED vars
  BY <1>3, <1>13 DEF Crash, SetBack, vars, files
<1> QED BY <1>4, <1>5, <1>6, <1>7, <1>8, <1>9, <1>10, <1>11, <1>12, <1>13
        DEF Next, Request, Continue

\* When the operator's request names the transaction (confirm_crypto_payment.py
\* --tx-hash), no payment is confirmed with one that nobody looked up, although
\* the payer may replace the transaction between the look and the request.
THEOREM NamedTransactionChecked ==
  ASSUME NamesTx
  PROVE  Spec => []ConfirmedAsChecked
<1>1. Init => CheckedInv
  BY DEF Init, CheckedInv, ConfirmedAsChecked
<1>2. IInv /\ CheckedInv /\ [Next]_vars => CheckedInv'
  BY NextCheckedInv
<1>3. CheckedInv => ConfirmedAsChecked
  BY DEF CheckedInv
<1> QED BY <1>1, <1>2, <1>3, Invariant, PTL DEF Spec
=============================================================================
