------------------------- MODULE DeploymentContract -------------------------
(***************************************************************************)
(* What the owner of a deployment can rely on, whatever the order of       *)
(* queries, batches, shares and lists in between.  A reconcile takes a     *)
(* copy of what is asked for and looks for containers; it hands both over  *)
(* as an order, and only an order starts or stops containers:              *)
(*   - it starts apps of the revision asked for, up to the surge;          *)
(*   - it stops only apps that were found, the new revision's only while   *)
(*     more of them are left than asked for, and of those found available  *)
(*     no more than there were above the minimum;                          *)
(*   - the worker is told to end, and ends, when nothing is left to do.    *)
(* Containers may exit, restart and grow old at any time.                  *)
(***************************************************************************)
EXTENDS Integers, FiniteSets

CONSTANTS
    Apps,                      \* containers, <<revision, copy>>
    MaxSurge, MaxUnavailable,  \* the strategy
    Hands,                     \* who may work on orders
    Alone                      \* is there one of them at a time?

VARIABLES
    want,     \* what is asked for: appCount, revision and flag
    copy,     \* the reconcile's copy of it, and what it has found; an order, or Nothing
    order,    \* what each hand works on, an order or Nothing
    running,  \* the containers that run
    fit,      \* those of them that are available
    worker,   \* is there a worker?
    told,     \* has it been told to end?
    calm,     \* FALSE after a lost query, a restart or a Put to a worker told to end
    sighted   \* has no query been lost?

asked == <<want, copy, order>>
fleet == <<running, fit>>
vars == <<asked, fleet, worker, told, calm, sighted>>

\* `gone': those that have been stopped on the order.
Nothing == [flag |-> "none", count |-> 0, rev |-> 0, found |-> {}, ready |-> {}, gone |-> {}]

Of(r, S) == {a \in S : a[1] = r}

Init ==
    /\ want.flag = "run"
    /\ copy = Nothing
    /\ order = [h \in Hands |-> Nothing]
    /\ running = {} /\ fit = {}
    /\ worker = TRUE /\ told = FALSE
    /\ calm = TRUE /\ sighted = TRUE

-----------------------------------------------------------------------------
\* What is asked for.  An erased deployment stays erased; revisions only get newer.

Put ==
    /\ want.flag # "erased"
    /\ want'.flag = "run" /\ want'.rev >= want.rev
    /\ worker' = TRUE
    /\ told' = (told /\ worker)
    /\ calm' = (worker => calm /\ ~told)
    /\ UNCHANGED <<copy, order, fleet, sighted>>

\* A Delete is not taken back by a Stop.
StopOrDelete ==
    /\ worker
    /\ want.flag # "erased"
    /\ \E f \in {"stop", "delete"} :
          /\ want.flag = "delete" => f = "delete"
          /\ want' = [want EXCEPT !.flag = f]
    /\ UNCHANGED <<copy, order, fleet, worker, told, calm, sighted>>

\* Nothing runs that anybody answers for.
Over == Alone /\ calm => running = {} /\ \A h \in Hands : order[h] = Nothing

Erase ==
    /\ ~worker
    /\ Over
    /\ want' = [want EXCEPT !.flag = "erased"]
    /\ UNCHANGED <<copy, order, fleet, worker, told, calm, sighted>>

Restart ==
    /\ worker' = FALSE /\ told' = FALSE /\ calm' = FALSE
    /\ copy' = Nothing
    /\ order' = [h \in Hands |-> Nothing]
    /\ UNCHANGED <<want, fleet, sighted>>

-----------------------------------------------------------------------------
\* Reconciles.

Read ==
    /\ worker
    /\ copy = Nothing
    /\ want.flag # "erased"
    /\ copy' = [Nothing EXCEPT !.flag = want.flag, !.count = want.count, !.rev = want.rev]
    /\ UNCHANGED <<want, order, fleet, worker, told, calm, sighted>>

Find(r) ==
    /\ copy # Nothing
    /\ copy' = [copy EXCEPT !.found = copy.found \cup Of(r, running),
                            !.ready = copy.ready \cup Of(r, fit)]
    /\ UNCHANGED <<want, order, fleet, worker, told, calm, sighted>>

\* What a reconcile misses, some of it or all, it does not know of.
Miss ==
    /\ copy # Nothing
    /\ calm' = FALSE /\ sighted' = FALSE
    /\ \E S \in SUBSET running :
          copy' = [copy EXCEPT !.found = copy.found \cup S, !.ready = copy.ready \cup (S \cap fit)]
    /\ UNCHANGED <<want, order, fleet, worker, told>>

GiveUp ==
    /\ copy # Nothing
    /\ copy' = Nothing
    /\ UNCHANGED <<want, order, fleet, worker, told, calm, sighted>>

HandOver(h) ==
    /\ copy # Nothing
    /\ order[h] = Nothing
    /\ order' = [order EXCEPT ![h] =
                    [copy EXCEPT !.flag = IF copy.flag = "run" THEN "run" ELSE "stop"]]
    /\ copy' = Nothing
    /\ UNCHANGED <<want, fleet, worker, told, calm, sighted>>

\* Of a stopped deployment nothing was found; a deleted one is erased.
Tell ==
    /\ copy.flag \in {"stop", "delete"} /\ copy.found = {}
    /\ Over
    /\ told' = TRUE
    /\ want' = IF copy.flag = "delete" THEN [want EXCEPT !.flag = "erased"] ELSE want
    /\ copy' = Nothing
    /\ UNCHANGED <<order, fleet, worker, calm, sighted>>

End ==
    /\ worker /\ told /\ copy = Nothing
    /\ Over
    /\ Alone /\ calm => want.flag # "run"
    /\ worker' = FALSE /\ told' = FALSE
    /\ UNCHANGED <<asked, fleet, calm, sighted>>

-----------------------------------------------------------------------------
\* Orders.

Start(h, a) ==
    LET o == order[h] IN
    /\ o.flag = "run"
    /\ a[1] = o.rev /\ a \notin running
    /\ Alone /\ sighted => Cardinality(running) < o.count + MaxSurge
    /\ Alone /\ calm => worker /\ ~told
    /\ running' = running \cup {a}
    /\ UNCHANGED <<asked, fit, worker, told, calm, sighted>>

\* May an app be stopped on this order?
Spare(o, a) ==
    \/ o.flag = "stop"
    \/ /\ o.flag = "run"
       /\ a[1] = o.rev => Cardinality(Of(o.rev, o.found) \ o.gone) > o.count
       /\ (a \in o.ready /\ Cardinality(Of(o.rev, o.found)) <= o.count) =>
             Cardinality(o.gone \cap o.ready) < Cardinality(o.ready) - (o.count - MaxUnavailable)

Stop(h, a) ==
    /\ a \in running \cap order[h].found
    /\ Spare(order[h], a)
    /\ running' = running \ {a} /\ fit' = fit \ {a}
    /\ order' = [order EXCEPT ![h] = [order[h] EXCEPT !.gone = order[h].gone \cup {a}]]
    /\ UNCHANGED <<want, copy, worker, told, calm, sighted>>

Finish(h) ==
    /\ order[h] # Nothing
    /\ order' = [order EXCEPT ![h] = Nothing]
    /\ UNCHANGED <<want, copy, fleet, worker, told, calm, sighted>>

-----------------------------------------------------------------------------
\* Containers.

Exit(a) ==
    /\ a \in running
    /\ running' = running \ {a} /\ fit' = fit \ {a}
    /\ UNCHANGED <<asked, worker, told, calm, sighted>>

Age(a) ==
    /\ a \in running
    /\ fit' = fit \cup {a} \/ fit' = fit \ {a}
    /\ UNCHANGED <<asked, running, worker, told, calm, sighted>>

-----------------------------------------------------------------------------
Next ==
    \/ Put \/ StopOrDelete \/ Erase \/ Restart
    \/ Read \/ Miss \/ GiveUp \/ Tell \/ End
    \/ \E r \in {a[1] : a \in Apps} : Find(r)
    \/ \E h \in Hands : \/ HandOver(h) \/ Finish(h)
                        \/ \E a \in Apps : Start(h, a) \/ Stop(h, a)
    \/ \E a \in Apps : Exit(a) \/ Age(a)

Spec == Init /\ [][Next]_vars

=============================================================================
