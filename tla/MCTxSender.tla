----------------------------- MODULE MCTxSender -----------------------------
(* Three legs in a row, one retry, and an allowance that may be missing,   *)
(* too small or enough for one leg.                                        *)
EXTENDS TxSender
=============================================================================
