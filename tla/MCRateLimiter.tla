---------------------------- MODULE MCRateLimiter ----------------------------
(* Two tasks with light and heavy requests.  No property is a liveness      *)
(* property, so the tasks may be symmetric.                                 *)
EXTENDS RateLimiter, TLC

CONSTANTS t1, t2

TaskSymmetry == Permutations(Tasks)
==============================================================================
