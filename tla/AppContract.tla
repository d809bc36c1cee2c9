---------------------------- MODULE AppContract ----------------------------
(***************************************************************************)
(* What the callers of the app operations (Roll, Stop, Reconcile) rely on, *)
(* whatever lies between them and the containers.  A container goes once   *)
(* through its life, and only if it was asked for; an operation that says  *)
(* it succeeded has done its work, and names only containers that have     *)
(* run; one that says it failed says nothing: the work may be done, may be *)
(* done in part, may still come.                                           *)
(***************************************************************************)
CONSTANTS Apps, Jobs

VARIABLES
    phase,    \* of each container name: "unasked", "asked", "runs", "over"
    goal,     \* of each operation: its kind and the containers it is about
    verdict,  \* of each operation: "idle", "busy", "ok", "err"
    listed,   \* of each operation: the containers its result names
    heeded    \* are the errors of single stops heeded?

vars == <<phase, goal, verdict, listed, heeded>>

Kinds == {"start", "stop", "look"}

Init ==
    /\ phase \in [Apps -> {"unasked", "runs"}]
    /\ goal = [j \in Jobs |-> [kind |-> "none", apps |-> {}]]
    /\ verdict = [j \in Jobs |-> "idle"]
    /\ listed = [j \in Jobs |-> {}]
    /\ heeded \in BOOLEAN

\* An operation begins: a start picks names nobody has used.
Begin(j, kind, S) ==
    /\ verdict[j] = "idle"
    /\ kind = "start" => \A a \in S : phase[a] = "unasked"
    /\ verdict' = [verdict EXCEPT ![j] = "busy"]
    /\ goal' = [goal EXCEPT ![j] = [kind |-> kind, apps |-> S]]
    /\ phase' = [a \in Apps |-> IF kind = "start" /\ a \in S THEN "asked" ELSE phase[a]]
    /\ UNCHANGED <<listed, heeded>>

Comes(a) ==
    /\ phase[a] = "asked"
    /\ phase' = [phase EXCEPT ![a] = "runs"]
    /\ UNCHANGED <<goal, verdict, listed, heeded>>

Goes(a) ==
    /\ phase[a] = "runs"
    /\ phase' = [phase EXCEPT ![a] = "over"]
    /\ UNCHANGED <<goal, verdict, listed, heeded>>

Done(j) ==
    /\ goal[j].kind = "start" => \A a \in goal[j].apps : phase[a] \in {"runs", "over"}
    /\ goal[j].kind = "stop" /\ heeded => \A a \in goal[j].apps : phase[a] = "over"

SaysOk(j, S) ==
    /\ verdict[j] = "busy"
    /\ Done(j)
    /\ \A a \in S : phase[a] \in {"runs", "over"}
    /\ verdict' = [verdict EXCEPT ![j] = "ok"]
    /\ listed' = [listed EXCEPT ![j] = S]
    /\ UNCHANGED <<phase, goal, heeded>>

SaysErr(j) ==
    /\ verdict[j] = "busy"
    /\ verdict' = [verdict EXCEPT ![j] = "err"]
    /\ UNCHANGED <<phase, goal, listed, heeded>>

Next ==
    \/ \E j \in Jobs : \/ \E kind \in Kinds, S \in SUBSET Apps : Begin(j, kind, S)
                       \/ \E S \in SUBSET Apps : SaysOk(j, S)
                       \/ SaysErr(j)
    \/ \E a \in Apps : Comes(a) \/ Goes(a)

Spec == Init /\ [][Next]_vars
=============================================================================
