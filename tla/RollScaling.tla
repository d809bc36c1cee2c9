---------------------------- MODULE RollScaling ----------------------------
(***************************************************************************)
(* The arithmetic of one rolling iteration, as pure operators: how many    *)
(* apps the new revision is scaled to, how many old apps may be stopped,   *)
(* and when the rollout counts as available and as complete.               *)
(*                                                                         *)
(* The wanted count is a natural in every stored deployment; surge and     *)
(* unavailability may be negative, and so may the differences below, as in *)
(* the code's int64.                                                       *)
(***************************************************************************)
EXTENDS Integers, FiniteSetsExt

\* The fewest apps the strategy wants available: reconciliation.go:449, 567.
MinAvailable(count, maxUnavailable) == count - maxUnavailable

\* (mutant) all missing apps at once, whatever is running
NewRevisionTargetUncapped(count, maxSurge, new, total) == count

\* ReconcileNewRevision: the size the new revision is scaled to when it has
\* `new` of the `total` apps found.  Down to the wanted count at once, up only
\* as far as the surge allows.
NewRevisionTarget(count, maxSurge, new, total) ==
    LET ceiling == count + maxSurge IN
    IF count <= new THEN count
    ELSE IF total >= ceiling THEN new
    ELSE new + Min({ceiling - total, count - new})

\* (mutant) new apps are held against the old ones even when they are available
MaxScaledDownAllNew(count, maxUnavailable, all, new, newAvailable) ==
    all - MinAvailable(count, maxUnavailable) - new

\* ReconcileOldRevisions, maxScaledDown: apps above the minimum, less the new
\* apps that are not available yet.
MaxScaledDown(count, maxUnavailable, all, new, newAvailable) ==
    all - MinAvailable(count, maxUnavailable) - (new - newAvailable)

\* ReconcileOldRevisions, totalScaledDownCount: available apps above the minimum.
ScaleDownBudget(count, maxUnavailable, available) ==
    available - MinAvailable(count, maxUnavailable)

\* (mutant) an old revision goes whole
RevisionShareWhole(size, budget) == size

\* The part of the budget one old revision of `size` apps gives up.
RevisionShare(size, budget) == Min({size, budget})

\* UpdateStatusStates: the deployment is available ...
IsAvailable(count, maxUnavailable, available) ==
    /\ available >= MinAvailable(count, maxUnavailable)
    /\ available > 0

\* ... and its rollout is completed (Progress goes inactive).
IsCompleted(count, maxUnavailable, new, total, available) ==
    /\ IsAvailable(count, maxUnavailable, available)
    /\ available = new
    /\ total = new
    /\ count = new

=============================================================================
