--------------------------- MODULE MCStatusStates ---------------------------
(***************************************************************************)
(* A small instance of StatusStates: one app, an ordinary request, ones    *)
(* that differ from it where the status is concerned, and ones that differ *)
(* in one field the mapping should refuse or cannot bear.                  *)
(***************************************************************************)
EXTENDS StatusStates

Ordinary ==
    [count |-> 1, minReady |-> 0, deadline |-> 1, auto |-> TRUE, mode |-> "IndirectStar",
     type |-> "RollingUpdate", rolling |-> [surge |-> 1, unavailable |-> 0], quota |-> "mem",
     limit |-> 3, period |-> 1, labels |-> "labels", profile |-> "profile"]

\* Every default there is, and a failure that pauses.
Sparse == [Ordinary EXCEPT !.auto = FALSE, !.limit = NIL, !.period = NIL, !.type = "other"]

Odd ==
    [count |-> {-1}, minReady |-> {-1}, deadline |-> {-1}, mode |-> {"other"},
     rolling |-> {NIL, [surge |-> NIL, unavailable |-> 0], [surge |-> 1, unavailable |-> NIL]},
     quota |-> {"other"}, limit |-> {-1}, period |-> {-1}, labels |-> {NIL}, profile |-> {NIL}]

OneOdd == {Ordinary, Sparse}
          \cup UNION {{[Ordinary EXCEPT ![f] = v] : v \in Odd[f]} : f \in DOMAIN Odd}

\* A new app that is not available yet, and one that is.
OneApp == {[new |-> 1, old |-> 0, ready |-> n] : n \in 0 .. 1}
=============================================================================
