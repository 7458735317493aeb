------------------------------ MODULE Inventory ------------------------------
(***************************************************************************)
(* The inventory tracker (inventory/src/tracker.rs), as operators over     *)
(* its books.  An asset without an entry has the balance zero.  Decimals   *)
(* become integers: an amount counts a unit small enough.                  *)
(***************************************************************************)
EXTENDS Integers

CONSTANT Assets

Venues == {"cex", "wallet"}
Other(v) == IF v = "cex" THEN "wallet" ELSE "cex"

Balances == [free : Int, locked : Nat]
Books == [Venues -> [Assets -> Balances]]

Total(t, a) == t["cex"][a].free + t["cex"][a].locked
             + t["wallet"][a].free + t["wallet"][a].locked

Available(t, v, a) == t[v][a].free

----------------------------------------------------------------------------
(* record_trade.                                                           *)

Credit(t, v, a, amount) == [t EXCEPT ![v][a].free = @ + amount]

\* A buy pays its fee in the base asset, a sale in the quote asset.
RecordTrade(t, v, side, base, quote, baseAmount, quoteAmount, fee) ==
    IF side = "buy"
    THEN Credit(Credit(t, v, base, baseAmount - fee), v, quote, -quoteAmount)
    ELSE Credit(Credit(t, v, base, -baseAmount), v, quote, quoteAmount - fee)

----------------------------------------------------------------------------
(* skew.                                                                   *)

Distance(m, n) == IF m < n THEN n - m ELSE m - n

\* A venue's share deviates from one half by 30 percent or more (exactly 30
\* counts: 0.8 - 0.5 exceeds 0.3 in floating point, as a test of the planner
\* has it).  The shares of a total of zero are zero, which deviates as well.
NeedsRebalance(t, a) ==
    \/ Total(t, a) = 0
    \/ \E v \in Venues :
          Distance(10 * (t[v][a].free + t[v][a].locked), 5 * Total(t, a))
             >= 3 * Distance(Total(t, a), 0)
=============================================================================
