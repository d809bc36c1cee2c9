----------------------------- MODULE MCRollout -----------------------------
(* Rollout with one constant for each of its bounds, so that a configuration
   reads as a list of what may happen and how often. *)
EXTENDS Rollout

CONSTANTS Puts, Stops, Holds, Lost, Faults, Ops, Crashes

MCLimits == [puts |-> Puts, stops |-> Stops, holds |-> Holds,
             lost |-> Lost, faults |-> Faults, ops |-> Ops, crashes |-> Crashes]

\* Of the Puts and the stops one is left over.
FewRequests == left["puts"] + left["stops"] > 0

=============================================================================
