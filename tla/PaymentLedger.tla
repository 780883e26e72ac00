--------------------------- MODULE PaymentLedger ---------------------------
(***************************************************************************)
(* What the crypto checkout promises to its users, without files, clocks   *)
(* or crashes: every payment has one status and one transaction, a         *)
(* settlement is a single step, and the audit trail attests settlements,   *)
(* each at most once.  CryptoPayments is shown to implement this module.   *)
(***************************************************************************)
EXTENDS Naturals

CONSTANTS Payments,     \* payment ids
          Txs,          \* on-chain transaction hashes
          NoTx          \* no transaction is known

VARIABLES status,       \* [Payments -> status, or "absent"]
          tx,           \* [Payments -> transaction last attached]
          settled,      \* [Payments -> how often the payment became confirmed]
          attested      \* [Payments -> audit records about the payment]

ledger == <<status, tx, settled, attested>>

Init == /\ status = [p \in Payments |-> "absent"]
        /\ tx = [p \in Payments |-> NoTx]
        /\ settled = [p \in Payments |-> 0]
        /\ attested = [p \in Payments |-> 0]

\* A payer opens a payment.
Open(p) == /\ status[p] = "absent"
           /\ status' = [status EXCEPT ![p] = "pending"]
           /\ UNCHANGED <<tx, settled, attested>>

\* A payer claims to have paid with t, or with what was claimed before.  Nothing in
\* the program limits this to open payments.
Claim(p, t) == /\ status[p] # "absent"
               /\ status' = [status EXCEPT ![p] = "submitted"]
               /\ tx' = [tx EXCEPT ![p] = IF t = NoTx THEN @ ELSE t]
               /\ UNCHANGED <<settled, attested>>

\* The operator settles a payment that is not settled, with the transaction
\* named in the request or else the one already attached.
Settle(p, t) == /\ status[p] \notin {"absent", "confirmed"}
                /\ status' = [status EXCEPT ![p] = "confirmed"]
                /\ tx' = [tx EXCEPT ![p] = IF t = NoTx THEN @ ELSE t]
                /\ settled' = [settled EXCEPT ![p] = @ + 1]
                /\ UNCHANGED attested

\* The audit trail attests a settlement that has not been attested yet.
Attest(p) == /\ attested[p] < settled[p]
             /\ attested' = [attested EXCEPT ![p] = @ + 1]
             /\ UNCHANGED <<status, tx, settled>>

\* What a library call may make of a payment short of settling it.
Unsettled == {"pending", "submitted", "failed", "expired", "cancelled"}

\* A library call retires or reopens a payment.
Retire(p, s) == /\ status[p] # "absent"
                /\ s \in Unsettled
                /\ status' = [status EXCEPT ![p] = s]
                /\ UNCHANGED <<tx, settled, attested>>

Next == \E p \in Payments :
          \/ Open(p)
          \/ Attest(p)
          \/ \E t \in Txs \cup {NoTx} : Claim(p, t)
          \/ \E t \in Txs \cup {NoTx} : Settle(p, t)
          \/ \E s \in Unsettled : Retire(p, s)

Spec == Init /\ [][Next]_ledger
=============================================================================
