----------------------------- MODULE MCExecutor -----------------------------
(* Instances of Executor: whole and odd lots, both directions.             *)
EXTENDS Executor, TLC

CONSTANTS s1, s2, s3

\* s1 fills whole lots and hedges exactly, s2 leaves part of a lot open, s3
\* buys part of a lot less than it wanted, too little for min_fill_ratio.
MCDirection == [s \in Signals |->
    IF s = s2 THEN "BuyDexSellCex" ELSE "BuyCexSellDex"]
MCSize == [s \in Signals |-> IF s = s1 THEN 2 ELSE 3]
MCCreated == [s \in Signals |-> IF s = s3 THEN 1 ELSE 0]
=============================================================================
