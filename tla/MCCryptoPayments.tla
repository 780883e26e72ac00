-------------------------- MODULE MCCryptoPayments --------------------------
(* Small instances of CryptoPayments for TLC. *)
EXTENDS CryptoPayments, TLC

CONSTANTS p1, p2, p3, t1, t2

TwoPayments == {p1, p2}
ThreePayments == {p1, p2, p3}
OneTx == {t1}
TwoTxs == {t1, t2}
Symmetry == Permutations(Payments) \cup Permutations(Txs)
=============================================================================
