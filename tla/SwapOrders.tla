----------------------------- MODULE SwapOrders -----------------------------
(***************************************************************************)
(* What the DEX leg of an execution promises about its swap, leg after     *)
(* leg: it is executed at most once, never after a later one, it may be    *)
(* executed after the leg has reported a failure, and a leg reports that   *)
(* it is filled only if it was executed.                                   *)
(***************************************************************************)
EXTENDS Naturals

CONSTANT Legs       \* the legs, numbered in the order in which they run

VARIABLES
    order,          \* order[l]: "unsent", "live" or "executed"
    report          \* report[l]: "none", "filled" or "failed"

Init ==
    /\ order = [l \in Legs |-> "unsent"]
    /\ report = [l \in Legs |-> "none"]

Send(l) ==
    /\ order[l] = "unsent" /\ report[l] = "none"
    /\ order' = [order EXCEPT ![l] = "live"]
    /\ UNCHANGED report

Execute(l) ==
    /\ order[l] = "live"
    /\ \A k \in Legs : k > l => order[k] # "executed"
    /\ order' = [order EXCEPT ![l] = "executed"]
    /\ UNCHANGED report

ReportFilled(l) ==
    /\ report[l] = "none" /\ order[l] = "executed"
    /\ report' = [report EXCEPT ![l] = "filled"]
    /\ UNCHANGED order

ReportFailed(l) ==
    /\ report[l] = "none"
    /\ report' = [report EXCEPT ![l] = "failed"]
    /\ UNCHANGED order

Next == \E l \in Legs :
            Send(l) \/ Execute(l) \/ ReportFilled(l) \/ ReportFailed(l)

Spec == Init /\ [][Next]_<<order, report>>
=============================================================================
