--------------------------- MODULE CryptoPayments ---------------------------
(***************************************************************************)
(* Payments and payment intents of the crypto checkout                     *)
(* (arclya2a/payments/crypto.py, server/crypto_checkout.py).               *)
(*                                                                         *)
(* Both live in append-only files of snapshots; a reader collapses a file  *)
(* to one row per id by comparing time stamps.  A request handler runs on  *)
(* the event loop without a pause, so no two handlers interleave, but it   *)
(* appends to several files, and the process may die between two appends:  *)
(* "due" is the set of appends the running handler has still to make.      *)
(***************************************************************************)
EXTENDS Naturals, Sequences, FiniteSets

CONSTANTS
  Payments,       \* payment ids; the intent of a payment is named by its payment
  Txs,            \* on-chain transaction hashes
  NoTx,           \* tx_hash is None
  NoTime,         \* confirmed_at is None
  NoRow,          \* no handler is running
  ReviewLimit,    \* length of the operator's review list: 10 in the code
  NamesTx,        \* does the operator's confirm request name the transaction?
  Retirements,    \* statuses the calls of update_crypto_payment from outside the
                  \* program give; {}: the routes alone are at work
  MaxBack,        \* bound: by how much in all the wall clock is set back
  MaxRows,        \* bound: payers and library calls stop at this many snapshots
  MaxBatches,     \* bound: how many different batches are recorded
  MaxCrashes      \* bound: how often the process dies

Statuses == {"pending", "submitted", "confirmed", "failed", "expired", "cancelled"}
OpenStatuses == {"pending", "submitted"}
Appends == {"intent", "deferred", "payment", "sync", "audit"}
Times == Nat \cup {NoTime}

Snapshot == [pid : Payments, status : Statuses, tx : Txs \cup {NoTx}, at : Nat,
             conf : Times, linked : BOOLEAN, mode : {"direct", "deferred"}]
IntentRow == [pid : Payments, status : Statuses, tx : Txs \cup {NoTx}, at : Nat,
              conf : Times]
AuditRow == [pid : Payments, tx : Txs \cup {NoTx}]

ASSUME ConstantsAssumption ==
  /\ ReviewLimit \in Nat \ {0}
  /\ NamesTx \in BOOLEAN
  /\ Retirements \subseteq Statuses \ {"confirmed"}
  /\ MaxBack \in Nat /\ MaxRows \in Nat /\ MaxBatches \in Nat
  /\ MaxCrashes \in Nat
  /\ NoTx \notin Txs
  /\ NoTime \notin Nat
  /\ NoRow \notin Snapshot

VARIABLES
  payments,       \* crypto_payments.jsonl
  intents,        \* crypto_intents.jsonl
  audit,          \* the crypto_payment_confirmed records of the audit log
  deferred,       \* payments with a record in the deferred x402 store
  batches,        \* the batches of the x402 store, each a set of payments
  due,            \* appends the running handler has still to make
  row,            \* the payment snapshot the running handler works on
  clock,          \* the wall clock, as last read
  setback,        \* by how much the wall clock has been set back so far
  checked,        \* the transaction the operator last looked up per payment
  onchain,        \* <<payment, transaction>> pairs an operator has looked up
  lost,           \* <<payment, append>> pairs a crash has prevented
  crashes         \* how often the process has died

files == <<payments, intents, audit, deferred, batches>>
operator == <<checked, onchain>>
time == <<clock, setback>>
vars == <<files, due, row, time, operator, lost, crashes>>

-----------------------------------------------------------------------------
(* Reading an append-only file *)

\* Row i is the one _latest_by_key keeps for p: a row replaces the one kept so
\* far unless it carries an older stamp, so the greatest stamp wins and, among
\* equal stamps, the row appended last.
IsLatest(file, p, i) ==
  /\ i \in DOMAIN file
  /\ file[i].pid = p
  /\ \A j \in DOMAIN file :
       file[j].pid = p => \/ file[j].at < file[i].at
                          \/ file[j].at = file[i].at /\ j <= i

Exists(file, p) == \E i \in DOMAIN file : file[i].pid = p

Latest(file, p) == file[CHOOSE i \in DOMAIN file : IsLatest(file, p, i)]

StatusOf(p) == IF Exists(payments, p) THEN Latest(payments, p).status ELSE "absent"

OpenPayments == {p \in Payments : StatusOf(p) \in OpenStatuses}

\* Payments are listed newest first; the sort keeps payments with equal stamps
\* in the order of their first rows.
ListedBefore(p, q) ==
  \/ Latest(payments, p).at > Latest(payments, q).at
  \/ /\ Latest(payments, p).at = Latest(payments, q).at
     /\ \E i \in DOMAIN payments :
          /\ payments[i].pid = p
          /\ \A j \in 1 .. i : payments[j].pid # q

\* Mutant: the list is cut after the oldest instead of the newest.
ReviewListOldest ==
  {p \in OpenPayments :
     Cardinality({q \in OpenPayments \ {p} : ListedBefore(p, q)}) < ReviewLimit}

\* The review list on the operator's dashboard shows the head of the open payments,
\* whether or not they have a transaction to look up.
ReviewList ==
  {p \in OpenPayments :
     Cardinality({q \in OpenPayments \ {p} : ListedBefore(q, p)}) < ReviewLimit}

-----------------------------------------------------------------------------
(* Handlers *)

Idle == due = {}

\* The wall clock moves on between two updates of the payment file.
Now == clock + 1

HasRoom == Len(payments) < MaxRows

\* A snapshot of the current row of p with a new status.
Updated(p, s, t) ==
  LET old == Latest(payments, p)
  IN  [old EXCEPT !.status = s,
                  !.at = Now,
                  !.tx = IF t = NoTx THEN @ ELSE t,
                  !.conf = CASE s = "confirmed" -> Now
                             [] s = "failed" -> NoTime
                             [] OTHER -> @]

\* Mutant: the route forgets the deferred store.
CreateUnrecorded(p, mode, linked) ==
  /\ Idle /\ HasRoom
  /\ ~Exists(payments, p)
  /\ linked
  /\ row' = [pid |-> p, status |-> "pending", tx |-> NoTx, at |-> Now,
              conf |-> NoTime, linked |-> linked, mode |-> mode]
  /\ payments' = Append(payments, row')
  /\ clock' = Now
  /\ due' = {"intent"}
  /\ UNCHANGED <<intents, audit, deferred, batches, operator, lost, crashes, setback>>

\* A checkout, intent or deferred-payment request, a referral payout or a deal
\* room micropayment: a fresh payment, and then its intent.  The library call
\* record_crypto_payment makes a payment without an intent.
Create(p, mode, linked) ==
  /\ Idle /\ HasRoom
  /\ ~Exists(payments, p)
  /\ linked \/ (mode = "direct" /\ Retirements # {})
  /\ LET new == [pid |-> p, status |-> "pending", tx |-> NoTx, at |-> Now,
                 conf |-> NoTime, linked |-> linked, mode |-> mode]
     IN  /\ payments' = Append(payments, new)
         /\ row' = IF linked THEN new ELSE NoRow
  /\ clock' = Now
  /\ due' = (IF linked THEN {"intent"} ELSE {})
            \cup (IF mode = "deferred" THEN {"deferred"} ELSE {})
  /\ UNCHANGED <<intents, audit, deferred, batches, operator, lost, crashes, setback>>

\* The payer hands in a transaction hash.  The status of the payment is not
\* looked at, and a hash of blanks (NoTx) is taken too: it leaves the transaction
\* of the payment as it is.
Submit(p, t) ==
  /\ Idle /\ HasRoom
  /\ Exists(payments, p)
  /\ row' = Updated(p, "submitted", t)
  /\ payments' = Append(payments, row')
  /\ clock' = Now
  /\ due' = {"sync"}
  /\ UNCHANGED <<intents, audit, deferred, batches, operator, lost, crashes, setback>>

\* A library call of update_crypto_payment with another status than confirmed,
\* which is confirm_crypto_payment's to give.
Retire(p, s) ==
  /\ Idle /\ HasRoom
  /\ Exists(payments, p)
  /\ row' = Updated(p, s, NoTx)
  /\ payments' = Append(payments, row')
  /\ clock' = Now
  /\ due' = {"sync"}
  /\ UNCHANGED <<intents, audit, deferred, batches, operator, lost, crashes, setback>>

\* The operator reads the review list and looks a transaction up on chain.
Review(p) ==
  /\ Idle
  /\ p \in ReviewList
  /\ LET t == Latest(payments, p).tx
     IN  /\ t # NoTx /\ t # checked[p]
         /\ checked' = [checked EXCEPT ![p] = t]
         /\ onchain' = onchain \cup {<<p, t>>}
  /\ UNCHANGED <<files, due, row, time, lost, crashes>>

\* Mutants of Confirm: no check for a payment that is already confirmed; a duplicate
\* request that is audited; an audit of the first confirmation only; a request whose
\* transaction is ignored.
ConfirmWith(p, skips, audits, t, skipAudits) ==
  /\ Idle
  /\ Exists(payments, p) /\ checked[p] # NoTx
  /\ checked' \in {checked, [checked EXCEPT ![p] = NoTx]}
  /\ IF skips /\ StatusOf(p) = "confirmed"
     THEN /\ UNCHANGED <<payments, clock>>
          /\ IF skipAudits THEN due' = {"audit"} /\ row' = Latest(payments, p)
             ELSE UNCHANGED <<due, row>>
     ELSE /\ row' = Updated(p, "confirmed", t)
          /\ payments' = Append(payments, row')
          /\ clock' = Now
          /\ due' = IF audits THEN {"sync", "audit"} ELSE {"sync"}
  /\ UNCHANGED <<intents, audit, deferred, batches, onchain, lost, crashes, setback>>

ConfirmTwice(p) == ConfirmWith(p, FALSE, TRUE, checked[p], FALSE)
ConfirmAuditsDuplicate(p) == ConfirmWith(p, TRUE, TRUE, checked[p], TRUE)
ConfirmAuditsOnce(p) ==
  ConfirmWith(p, TRUE, \A k \in DOMAIN audit : audit[k].pid # p, checked[p], FALSE)
ConfirmIgnoresTx(p) == ConfirmWith(p, TRUE, TRUE, NoTx, FALSE)

\* The operator confirms a payment whose transaction was found on chain, and asks
\* again when no answer arrives.  A payment that is already confirmed is reported
\* as a duplicate: no file changes.
Confirm(p) ==
  /\ Idle
  /\ Exists(payments, p) /\ checked[p] # NoTx
  /\ checked' \in {checked, [checked EXCEPT ![p] = NoTx]}
  /\ IF StatusOf(p) = "confirmed"
     THEN UNCHANGED <<payments, row, clock, due>>
     ELSE /\ row' = Updated(p, "confirmed", IF NamesTx THEN checked[p] ELSE NoTx)
          /\ payments' = Append(payments, row')
          /\ clock' = Now
          /\ due' = {"sync", "audit"}
  /\ UNCHANGED <<intents, audit, deferred, batches, onchain, lost, crashes, setback>>

\* A request to settle several payments in one batch records those that are
\* open; the payments themselves do not change.
BatchSettle(ids) ==
  /\ Idle
  /\ ids \cap OpenPayments # {}
  /\ Cardinality(batches) < MaxBatches
  /\ batches' = batches \cup {ids \cap OpenPayments}
  /\ UNCHANGED <<payments, intents, audit, deferred, due, row, time, operator,
                 lost, crashes>>

\* A library call of update_crypto_payment_intent: the intent first, then the
\* payment it is linked to.
RetireIntent(p, s) ==
  /\ Idle /\ HasRoom
  /\ Exists(intents, p)
  /\ s # "failed"
  /\ row' = Updated(p, s, NoTx)
  /\ clock' = Now
  /\ intents' = Append(intents, [Latest(intents, p) EXCEPT !.status = s])
  /\ due' = {"payment", "sync"}
  /\ UNCHANGED <<payments, audit, deferred, batches, operator, lost, crashes, setback>>

-----------------------------------------------------------------------------
(* The appends that follow, in the order the code makes them *)

\* Mutant: the snapshot outlives the handler.
DoneKeepsRow(a) == due' = due \ {a} /\ UNCHANGED row

\* The append a is made; the snapshot is forgotten when the handler returns.
Done(a) == /\ due' = due \ {a}
           /\ row' = IF due' = {} THEN NoRow ELSE row

WriteIntent ==
  /\ "intent" \in due
  /\ intents' = Append(intents, [pid |-> row.pid, status |-> "pending", tx |-> NoTx,
                                 at |-> row.at, conf |-> NoTime])
  /\ Done("intent")
  /\ UNCHANGED <<payments, audit, deferred, batches, time, operator, lost, crashes>>

WriteDeferred ==
  /\ "deferred" \in due /\ "intent" \notin due
  /\ deferred' = deferred \cup {row.pid}
  /\ Done("deferred")
  /\ UNCHANGED <<payments, intents, audit, batches, time, operator, lost, crashes>>

WritePayment ==
  /\ "payment" \in due
  /\ payments' = Append(payments, row)
  /\ Done("payment")
  /\ UNCHANGED <<intents, audit, deferred, batches, time, operator, lost, crashes>>

\* Mutant: the intent keeps its own transaction.
SyncIntentKeepsTx ==
  /\ "sync" \in due /\ "payment" \notin due
  /\ IF row.linked /\ Exists(intents, row.pid)
     THEN intents' = Append(intents,
            [Latest(intents, row.pid) EXCEPT
               !.status = row.status,
               !.conf = IF row.status = "confirmed" THEN row.conf ELSE @])
     ELSE UNCHANGED intents
  /\ Done("sync")
  /\ lost' = lost \ {<<row.pid, "sync">>}
  /\ UNCHANGED <<payments, audit, deferred, batches, time, operator, crashes>>

\* The intent takes over the status and transaction of the payment, if there is
\* an intent; its own stamp, created_at, stays.
SyncIntent ==
  /\ "sync" \in due /\ "payment" \notin due
  /\ IF row.linked /\ Exists(intents, row.pid)
     THEN intents' = Append(intents,
            [Latest(intents, row.pid) EXCEPT
               !.status = row.status,
               !.tx = row.tx,
               !.conf = IF row.status = "confirmed" THEN row.conf ELSE @])
     ELSE UNCHANGED intents
  /\ Done("sync")
  /\ lost' = lost \ {<<row.pid, "sync">>}
  /\ UNCHANGED <<payments, audit, deferred, batches, time, operator, crashes>>

WriteAudit ==
  /\ "audit" \in due /\ "sync" \notin due
  /\ audit' = Append(audit, [pid |-> row.pid, tx |-> row.tx])
  /\ Done("audit")
  /\ UNCHANGED <<payments, intents, deferred, batches, time, operator, lost, crashes>>

\* The process dies between two appends; nothing resumes the handler.
Crash ==
  /\ ~Idle /\ crashes < MaxCrashes
  /\ lost' = lost \cup {<<row.pid, a>> : a \in due}
  /\ due' = {} /\ row' = NoRow
  /\ crashes' = crashes + 1
  /\ UNCHANGED <<files, time, operator>>

\* The wall clock is corrected backwards.
SetBack(d) ==
  /\ Idle
  /\ d <= clock /\ setback + d <= MaxBack
  /\ clock' = clock - d
  /\ setback' = setback + d
  /\ UNCHANGED <<files, due, row, operator, lost, crashes>>

-----------------------------------------------------------------------------
Init ==
  /\ payments = <<>> /\ intents = <<>> /\ audit = <<>>
  /\ deferred = {} /\ batches = {}
  /\ due = {} /\ row = NoRow /\ clock = 0 /\ setback = 0
  /\ checked = [p \in Payments |-> NoTx] /\ onchain = {}
  /\ lost = {} /\ crashes = 0

Continue == WriteIntent \/ WriteDeferred \/ WritePayment \/ SyncIntent \/ WriteAudit

Request ==
  \/ \E p \in Payments :
       \/ \E mode \in {"direct", "deferred"}, linked \in BOOLEAN : Create(p, mode, linked)
       \/ \E t \in Txs \cup {NoTx} : Submit(p, t)
       \/ \E s \in Retirements : Retire(p, s) \/ RetireIntent(p, s)
       \/ Review(p)
       \/ Confirm(p)
  \/ \E ids \in SUBSET Payments : BatchSettle(ids)

Next == Request \/ Continue \/ Crash \/ \E d \in 1 .. MaxBack : SetBack(d)

Spec == Init /\ [][Next]_vars

\* A handler that has started goes on until the process dies, and the operator
\* works through the review list.
FairSpec == /\ Spec
            /\ WF_vars(Continue)
            /\ \A p \in Payments : WF_vars(Review(p)) /\ WF_vars(Confirm(p))

-----------------------------------------------------------------------------
(* Properties *)

\* Every variable holds values of its kind.
TypeOK ==
  /\ payments \in Seq(Snapshot)
  /\ intents \in Seq(IntentRow)
  /\ audit \in Seq(AuditRow)
  /\ deferred \subseteq Payments
  /\ batches \subseteq SUBSET Payments
  /\ due \subseteq Appends
  /\ row \in Snapshot \cup {NoRow}
  /\ Idle <=> row = NoRow
  /\ clock \in Nat /\ setback \in 0 .. MaxBack
  /\ checked \in [Payments -> Txs \cup {NoTx}]
  /\ onchain \subseteq Payments \X Txs
  /\ lost \subseteq Payments \X Appends
  /\ crashes \in Nat

Working(p, a) == a \in due /\ row.pid = p

\* An intent and its payment, written one after the other to two files, agree on
\* the status, the transaction and the time of confirmation whenever no handler is
\* running, unless a crash prevented the last write to the intent; the next
\* update of the payment repairs even that (_sync_intent_from_payment).
IntentMirrorsPayment ==
  \A p \in Payments :
    Exists(intents, p) /\ Idle /\ <<p, "sync">> \notin lost =>
      LET intent == Latest(intents, p)
          payment == Latest(payments, p)
      IN  /\ intent.status = payment.status
          /\ intent.tx = payment.tx
          /\ payment.status = "confirmed" => intent.conf = payment.conf

\* A confirmation reaches the audit log even when the payment is resubmitted and
\* confirmed again: only a crash between the two appends loses the record.
ConfirmedIsAudited ==
  \A i \in DOMAIN payments :
    payments[i].status = "confirmed" =>
      LET p == payments[i].pid
      IN  \/ \E k \in DOMAIN audit : audit[k].pid = p /\ audit[k].tx = payments[i].tx
          \/ Working(p, "audit")
          \/ <<p, "audit">> \in lost

\* An audit record never speaks of a confirmation that is not in the payment file,
\* and there are no more records about a payment than it has confirmations:
\* confirming twice does not attest twice.
AuditIsEarned ==
  \A p \in Payments :
    Cardinality({k \in DOMAIN audit : audit[k].pid = p})
      + (IF Working(p, "audit") THEN 1 ELSE 0)
      <= Cardinality({i \in DOMAIN payments :
                        payments[i].pid = p /\ payments[i].status = "confirmed"})

\* The transaction of a confirmed payment is one the operator has looked up on
\* chain, although the payer may replace it between the look and the confirmation.
ConfirmedAsChecked ==
  \A i \in DOMAIN payments :
    payments[i].status = "confirmed" =>
      <<payments[i].pid, payments[i].tx>> \in onchain

\* A payment whose terms are deferred has a record in the deferred store, unless
\* a crash cut its creation short: the checkout never hands out deferred terms it
\* has not recorded.
DeferredIsRecorded ==
  \A i \in DOMAIN payments :
    payments[i].mode = "deferred" =>
      LET p == payments[i].pid
      IN  p \in deferred \/ Working(p, "deferred") \/ <<p, "deferred">> \in lost

\* Abandoned payments, without a transaction anybody could look up, fill the
\* operator's list, and p comes after them.
Buried(p) ==
  /\ p \in OpenPayments
  /\ Cardinality({q \in OpenPayments \ {p} :
                    ListedBefore(q, p) /\ Latest(payments, q).tx = NoTx}) >= ReviewLimit

\* Once the process is up, a payment submitted with a transaction is in the end
\* confirmed, whatever its payer submits meanwhile and however many payments the
\* operator has to settle before the list shows it.  Only newer payments nobody
\* paid keep it out of the list (crypto.py:616 cuts after ten): from then on the
\* operator no longer sees it.
SubmittedIsConfirmed ==
  \A p \in Payments :
    StatusOf(p) = "submitted" /\ Latest(payments, p).tx # NoTx
      ~> StatusOf(p) = "confirmed" \/ Buried(p)

\* A payment reported as settled (HTTP 200) is never asked for again (HTTP 402).
SettledStaysSettled ==
  [][\A p \in Payments : StatusOf(p) = "confirmed" => StatusOf(p)' \notin OpenStatuses]_vars

-----------------------------------------------------------------------------
(* The ledger this module implements: each payment is its latest row, and a
   settlement is a row that says "confirmed". *)

LedgerStatus == [p \in Payments |-> StatusOf(p)]
LedgerTx == [p \in Payments |-> IF Exists(payments, p) THEN Latest(payments, p).tx ELSE NoTx]
Settled == [p \in Payments |->
  Cardinality({i \in DOMAIN payments : payments[i].pid = p /\ payments[i].status = "confirmed"})]
Attested == [p \in Payments |-> Cardinality({k \in DOMAIN audit : audit[k].pid = p})]

Ledger == INSTANCE PaymentLedger WITH
  status <- LedgerStatus, tx <- LedgerTx, settled <- Settled, attested <- Attested

\* The files implement the ledger: every append to the payment file is one step
\* of it, every audit record attests a settlement, and all else is invisible.
ImplementsLedger == Ledger!Spec
=============================================================================
