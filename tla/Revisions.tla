------------------------------ MODULE Revisions ------------------------------
(***************************************************************************)
(* The revision history of one deployment: a reconcile looks for the       *)
(* newest revision and stores another one when it does not match the       *)
(* deployment; a rollback, in the helper (a RollbackRevision task) or in   *)
(* the reconcile (a failed deployment), stores a copy of an earlier        *)
(* revision, makes the deployment ask for it, and trims the history.       *)
(*                                                                         *)
(* An app spec is a member of Specs and a tag: the name in its "revision"  *)
(* label, which a rollback leaves in the deployment's app spec and a Put   *)
(* does not set.  Creation timestamps are seconds: revisions of one second *)
(* are sorted either way.                                                  *)
(***************************************************************************)
EXTENDS Integers, FiniteSets, FiniteSetsExt

CONSTANTS
    Specs,      \* app specs that Puts ask for
    FirstSpec,  \* the one of the first Put
    Limit,      \* spec.revisionLimit
    MaxName,    \* bound: revisions ever created
    Events      \* bound: requests, failed deployments and errors

ASSUME RevisionsAssumption ==
    /\ FirstSpec \in Specs
    /\ {Limit, MaxName, Events} \subseteq Nat

VARIABLES
    hist,      \* stored revisions: name -> [spec, time]
    want,      \* the stored deployment's app spec: [spec, tag]
    proc,      \* the main loop (Reconcile) and the helper (tasks), see Idle
    intr,      \* interrupts waiting
    clock,     \* the current second
    due,       \* may the next reconcile start?
    last,      \* the last name given to a revision
    alive,     \* FALSE after a panic
    left,      \* what is left of Events
    base       \* auxiliary: last at the last event, and when the deployment last changed
               \* what it asks for or a rollback copied a revision

vars == <<hist, want, proc, intr, clock, due, last, alive, left, base>>

Names == 1 .. MaxName
Unsaved == 0     \* the name of a revision that is never stored; also: no tag, no name
Procs == {"main", "helper"}

Idle == [pc |-> "idle", want |-> <<>>, asked |-> Unsaved, new |-> <<>>, olds |-> {},
         target |-> <<>>, doomed |-> {}, extra |-> 0]

Init ==
    /\ hist = << >>
    /\ want = [spec |-> FirstSpec, tag |-> Unsaved]
    /\ proc = [p \in Procs |-> Idle]
    /\ intr = 0 /\ clock = 1 /\ due = TRUE /\ last = 0 /\ alive = TRUE
    /\ left = Events /\ base = 0

Event == left > 0 /\ left' = left - 1 /\ base' = last
At(p, pc) == alive /\ proc[p].pc = pc
Goto(p, pc) == proc' = [proc EXCEPT ![p].pc = pc]

-----------------------------------------------------------------------------
\* The stored revisions as records, and the order the code sorts them in.

Stored == {[name |-> n, spec |-> hist[n].spec, time |-> hist[n].time] : n \in DOMAIN hist}

\* (mutant) sorted the other way round
NewestReversed(S) == {r \in S : \A s \in S : s.time >= r.time}

\* Candidates for the first place after sorting by creation time, newest first.
Newest(S) == {r \in S : \A s \in S : s.time <= r.time}

\* Candidates for the last k places.
Tails(S, k) == {T \in kSubset(k, S) : \A r \in T, s \in S \ T : r.time <= s.time}

\* (mutant) the label of the revision is all that is compared
MatchesTag(d, r) == d.tag \in {Unsaved, r.name}


\* CompareAppSpecs: the labels of d's app spec are among the revision's.
Matches(d, r) == d.spec = r.spec /\ d.tag \in {Unsaved, r.name}

\* GetNewAndOldRevisions: the newest revision if it matches, else another one.
NewRevisions(d, name) ==
    LET heads == Newest(Stored)
        fresh == [name |-> name, spec |-> d.spec, time |-> clock]
    IN {r \in heads : Matches(d, r)}
         \cup (IF heads = {} \/ \E r \in heads : ~Matches(d, r) THEN {fresh} ELSE {})

\* SaveRevision: a revision is written under its name.
SaveRevision(r) ==
    hist' = [n \in DOMAIN hist \cup {r.name} |->
                IF n = r.name THEN [spec |-> r.spec, time |-> r.time] ELSE hist[n]]

\* (auxiliary) process p counts what stays beyond what its rollback reckoned with: the
\* revisions the other process adds, and those that are not deleted for an error.
Extra(p, r) ==
    IF proc[p].pc \in {"named", "copy", "trim"} /\ r.name \notin DOMAIN hist
    THEN proc[p].extra + 1 ELSE proc[p].extra

-----------------------------------------------------------------------------
\* Requests, time.

PutTask ==
    /\ At("helper", "idle")
    /\ Event
    /\ intr' = intr + 1
    /\ Goto("helper", "put")
    /\ UNCHANGED <<hist, want, clock, due, last, alive>>

RollbackTask ==
    /\ At("helper", "idle")
    /\ Event
    /\ intr' = intr + 1
    /\ \E asked \in {Unsaved} \cup DOMAIN hist :
          proc' = [proc EXCEPT !["helper"] = [Idle EXCEPT !.pc = "get", !.asked = asked]]
    /\ UNCHANGED <<hist, want, clock, due, last, alive>>

\* A second passes: the reconcile period is over, which only a main loop that waits is
\* told.  The clock need not go on while nothing has been stamped with the current second.
Tick ==
    /\ alive
    /\ due' = (due \/ proc["main"].pc = "idle")
    /\ clock' = IF \/ \E r \in Stored : r.time = clock
                   \/ proc["main"].pc \in {"check30", "store"} /\ proc["main"].new.time = clock
                THEN clock + 1 ELSE clock
    /\ UNCHANGED <<hist, want, proc, intr, last, alive, left, base>>

-----------------------------------------------------------------------------
\* HandlePutTask, and HandleRollbackTask around Rollback.

StorePut ==
    /\ At("helper", "put")
    /\ want' \in [spec : Specs, tag : {Unsaved}]
    /\ Goto("helper", "idle")
    /\ due' = TRUE /\ base' = last
    /\ UNCHANGED <<hist, intr, clock, last, alive, left>>

HelperGet ==
    /\ At("helper", "get")
    /\ proc' = [proc EXCEPT !["helper"] = [proc["helper"] EXCEPT !.pc = "rollback", !.want = want]]
    /\ UNCHANGED <<hist, want, intr, clock, due, last, alive, left, base>>

HelperSave ==
    /\ At("helper", "save")
    /\ want' = proc["helper"].want
    /\ proc' = [proc EXCEPT !["helper"] = Idle]
    /\ due' = TRUE /\ base' = last
    /\ UNCHANGED <<hist, intr, clock, last, alive, left>>

-----------------------------------------------------------------------------
\* Reconcile, as far as it touches revisions.

Start ==
    /\ At("main", "idle") /\ due
    /\ proc' = [proc EXCEPT !["main"] = [Idle EXCEPT !.pc = "read", !.want = want]]
    /\ due' = FALSE
    /\ UNCHANGED <<hist, want, intr, clock, last, alive, left, base>>

\* (mutant) interrupted without an interrupt
AbortUnguarded ==
    /\ alive /\ proc["main"].pc \in {"read", "check30", "decide", "check210"}
    /\ intr' = intr - 1
    /\ proc' = [proc EXCEPT !["main"] = Idle]
    /\ UNCHANGED <<hist, want, clock, due, last, alive, left, base>>

\* IsReconcileInterrupted.  A check before a step that no other goroutine can see is
\* one with that step.
Abort ==
    /\ alive /\ proc["main"].pc \in {"read", "check30", "decide", "check210"}
    /\ intr > 0 /\ intr' = intr - 1
    /\ proc' = [proc EXCEPT !["main"] = Idle]
    /\ UNCHANGED <<hist, want, clock, due, last, alive, left, base>>

Pass ==
    /\ alive /\ intr = 0
    /\ \/ At("main", "check30") /\ Goto("main", "store")
       \/ At("main", "check210") /\ Goto("main", "save")
    /\ UNCHANGED <<hist, want, intr, clock, due, last, alive, left, base>>

Read ==
    /\ At("main", "read") /\ intr = 0
    /\ last < MaxName
    /\ \E r \in NewRevisions(proc["main"].want, last + 1) :
          /\ proc' = [proc EXCEPT !["main"] = [proc["main"] EXCEPT !.pc = "check30", !.new = r]]
          /\ last' = IF r.name = last + 1 THEN last + 1 ELSE last
    /\ UNCHANGED <<hist, want, intr, clock, due, alive, left, base>>

\* SaveRevision of the new revision, stored already or not.
Store ==
    LET r == proc["main"].new IN
    /\ At("main", "store")
    /\ SaveRevision(r)
    /\ proc' = [proc EXCEPT
          !["main"] = [proc["main"] EXCEPT !.pc = "decide", !.new = <<>>],
          !["helper"] = [proc["helper"] EXCEPT !.extra = Extra("helper", r)]]
    /\ UNCHANGED <<want, intr, clock, due, last, alive, left, base>>

ErrorReturn ==
    /\ alive /\ proc["main"].pc \in {"read", "store", "decide"}
    /\ Event
    /\ proc' = [proc EXCEPT !["main"] = Idle]
    /\ UNCHANGED <<hist, want, intr, clock, due, last, alive>>

\* The deployment has failed and rolls back by itself, or not.
Decide ==
    /\ At("main", "decide") /\ intr = 0
    /\ \/ Goto("main", "check210") /\ UNCHANGED <<left, base>>
       \/ /\ Event
          /\ proc' = [proc EXCEPT !["main"] =
                [Idle EXCEPT !.pc = "rollback", !.want = proc["main"].want]]
    /\ UNCHANGED <<hist, want, intr, clock, due, last, alive>>

Save ==
    /\ At("main", "save")
    /\ want' = proc["main"].want
    /\ proc' = [proc EXCEPT !["main"] = Idle]
    /\ base' = IF want' = want THEN base ELSE last
    /\ UNCHANGED <<hist, intr, clock, due, last, alive, left>>

-----------------------------------------------------------------------------
\* Rollback, of either process p.

\* An error return: the task is answered, the reconcile goes on.
Return(p) == proc' = [proc EXCEPT ![p] =
    IF p = "main" THEN [Idle EXCEPT !.pc = "check210", !.want = proc[p].want] ELSE Idle]

\* Without a name the second of all revisions, sorted, is the one to go back to.
RollbackRead(p) ==
    LET s == proc[p] IN
    /\ At(p, "rollback")
    /\ \E new \in NewRevisions(s.want, Unsaved) :
       LET olds == Stored \ {new}
           all  == olds \cup {new}
       IN IF s.asked # Unsaved
          THEN proc' = [proc EXCEPT ![p] = [s EXCEPT !.pc = "named", !.new = new,
                                                       !.olds = olds]]
          ELSE IF Cardinality(all) < 2 THEN Return(p)
          ELSE \E first \in Newest(all) : \E second \in Newest(all \ {first}) :
                 proc' = [proc EXCEPT ![p] = [s EXCEPT !.pc = "copy", !.new = first,
                             !.olds = all \ {first}, !.target = second]]
    /\ due' = (due \/ (p = "helper" /\ proc'[p].pc = "idle"))
    /\ UNCHANGED <<hist, want, intr, clock, last, alive, left, base>>

\* The error of a failed read is logged, and the revision it did not return used.
RollbackPanics(p) ==
    /\ At(p, "rollback")
    /\ Event
    /\ alive' = FALSE
    /\ proc' = [q \in Procs |-> Idle]
    /\ UNCHANGED <<hist, want, intr, clock, due, last>>

GetNamed(p) ==
    /\ At(p, "named")
    /\ LET found == {r \in Stored : r.name = proc[p].asked} IN
       IF found = {} THEN Return(p) /\ due' = TRUE
       ELSE /\ \E r \in found :
                  proc' = [proc EXCEPT ![p] = [proc[p] EXCEPT !.pc = "copy", !.target = r]]
            /\ UNCHANGED due
    /\ UNCHANGED <<hist, want, intr, clock, last, alive, left, base>>

\* (mutant) the new copy is not counted
ExcessUncounted(n) == IF n > Limit THEN n - Limit ELSE 0

\* How many of the n revisions found have to go for one more.
Excess(n) == IF n + 1 > Limit /\ n + 1 - Limit <= n THEN n + 1 - Limit ELSE 0

\* The last k of the list.  Without a name it is sorted, its second entry being the
\* copy under its new name; with a name the new revision stands last.
Doomed(s, k, name) ==
    LET Named(T) == {r.name : r \in T}
        n == Cardinality(s.olds) + 1
    IN IF k = 0 THEN {{}}
       ELSE IF s.asked # Unsaved THEN {Named(T) \cup {s.new.name} : T \in Tails(s.olds, k - 1)}
       ELSE IF k + 1 < n THEN {Named(T) : T \in Tails(s.olds \ {s.target}, k)}
       ELSE IF k < n THEN {Named(s.olds \ {s.target}) \cup {name}}
       ELSE {Named(s.olds \ {s.target}) \cup {name, s.new.name}}

\* The target gets a new name, label and time, is saved, and becomes what the
\* deployment asks for.
Copy(p) ==
    LET s == proc[p]
        r == [name |-> last + 1, spec |-> s.target.spec, time |-> clock]
        q == CHOOSE q \in Procs : q # p
    IN
    /\ At(p, "copy")
    /\ last < MaxName /\ last' = last + 1 /\ base' = last + 1
    /\ SaveRevision(r)
    /\ \E doomed \in Doomed(s, Excess(Cardinality(s.olds) + 1), r.name) :
          proc' = [proc EXCEPT ![q] = [proc[q] EXCEPT !.extra = Extra(q, r)],
                               ![p] = [Idle EXCEPT !.pc = "trim", !.asked = s.asked,
                                          !.extra = s.extra, !.doomed = doomed,
                                          !.want = [spec |-> r.spec, tag |-> r.name]]]
    /\ UNCHANGED <<want, intr, clock, due, alive, left>>

CopyFails(p) ==
    /\ At(p, "copy")
    /\ Event
    /\ Return(p)
    /\ due' = (due \/ p = "helper")
    /\ UNCHANGED <<hist, want, intr, clock, last, alive>>

Trim(p) ==
    /\ At(p, "trim")
    /\ \E n \in proc[p].doomed :
          /\ hist' = [m \in DOMAIN hist \ {n} |-> hist[m]]
          /\ proc' = [proc EXCEPT ![p] = [proc[p] EXCEPT !.doomed = proc[p].doomed \ {n}]]
    /\ UNCHANGED <<want, intr, clock, due, last, alive, left, base>>

\* The error of a failed delete is ignored.
TrimFails(p) ==
    /\ At(p, "trim")
    /\ \E n \in proc[p].doomed :
          proc' = [proc EXCEPT ![p] = [proc[p] EXCEPT !.doomed = proc[p].doomed \ {n},
                                                     !.extra = proc[p].extra + 1]]
    /\ UNCHANGED <<hist, want, intr, clock, due, last, alive, left, base>>

Trimmed(p) ==
    /\ At(p, "trim") /\ proc[p].doomed = {}
    /\ proc' = [proc EXCEPT ![p] = [Idle EXCEPT !.want = proc[p].want,
                                       !.pc = IF p = "main" THEN "check210" ELSE "save"]]
    /\ UNCHANGED <<hist, want, intr, clock, due, last, alive, left, base>>

Rollback(p) == RollbackRead(p) \/ GetNamed(p) \/ Copy(p) \/ Trim(p) \/ Trimmed(p)

-----------------------------------------------------------------------------
Main == Start \/ Abort \/ Pass \/ Read \/ Store \/ Decide \/ Save \/ Rollback("main")
Helper == StorePut \/ HelperGet \/ HelperSave \/ Rollback("helper")

Next ==
    \/ PutTask \/ RollbackTask \/ Tick
    \/ Main \/ Helper
    \/ ErrorReturn \/ \E p \in Procs : RollbackPanics(p) \/ CopyFails(p) \/ TrimFails(p)

Spec == Init /\ [][Next]_vars

\* Both goroutines go on and time passes; requests, failures and errors need not.
FairSpec == Spec /\ WF_vars(Main) /\ WF_vars(Helper) /\ WF_vars(Tick)

-----------------------------------------------------------------------------
(* Properties *)

RevType == [name : Names \cup {Unsaved}, spec : Specs, time : Nat]
WantType == [spec : Specs, tag : Names \cup {Unsaved}]

ProcType ==
    [pc : {"idle", "put", "get", "rollback", "named", "copy", "trim", "read", "check30",
           "store", "decide", "check210", "save"},
     want : WantType \cup {<<>>}, asked : Names \cup {Unsaved}, new : RevType \cup {<<>>},
     olds : SUBSET RevType, target : RevType \cup {<<>>},
     doomed : SUBSET (Names \cup {Unsaved}), extra : Nat]

\* What a process has at hand where it is: the deployment it read, the revision it is to
\* store, the one it goes back to.
Held(s) ==
    /\ s.pc \notin {"idle", "put", "get"} => s.want \in WantType
    /\ s.pc \in {"check30", "store"} => s.new \in RevType /\ s.new.name \in Names
    /\ s.pc \in {"named", "copy"} => s.new \in RevType
    /\ s.pc = "copy" => s.target \in RevType

TypeOK ==
    /\ DOMAIN hist \subseteq Names
    /\ hist \in [DOMAIN hist -> [spec : Specs, time : Nat]]
    /\ want \in WantType
    /\ proc \in [Procs -> ProcType]
    /\ \A p \in Procs : Held(proc[p])
    /\ intr \in Nat /\ left \in Nat
    /\ clock \in Nat /\ last \in 0 .. MaxName /\ base \in 0 .. MaxName
    /\ due \in BOOLEAN /\ alive \in BOOLEAN

\* When a rollback has trimmed the history, no more than revisionLimit revisions are left
\* and those that the other goroutine has stored meanwhile or that could not be deleted
\* (reconciliation.go:363-372).
LimitKept ==
    \A p \in Procs : (proc[p].pc = "trim" /\ proc[p].doomed = {} /\ Limit > 0)
        => Cardinality(DOMAIN hist) <= Limit + proc[p].extra

\* A rollback without a name drops nothing newer than what it keeps, for limits of three
\* and more, if nothing else is stored meanwhile and no delete fails
\* (reconciliation.go:328, 362-371).
UnnamedDropsOldest ==
    \A p \in Procs :
        (proc[p].pc = "trim" /\ proc[p].asked = Unsaved /\ proc[p].extra = 0 /\ Limit >= 3) =>
        \A n \in proc[p].doomed \cap DOMAIN hist, m \in DOMAIN hist \ proc[p].doomed :
            hist[n].time <= hist[m].time


\* The newest revision, or one of its second, is what the deployment asks for.
Settled == alive => \E r \in Newest(Stored) : r.spec = want.spec /\ want.tag \in {Unsaved, r.name}

\* After the last Put, when no rollback follows it, the newest revision is in the end what
\* the deployment asks for, though revisions of one second are sorted either way
\* (reconciliation.go:270-285): given the names that HistoryRests allows.
PutSettles == <>[](want.tag = Unsaved /\ base + 3 < MaxName) => <>[]Settled

\* A rollback does not trim away the copy it has just stored, the newest revision of
\* all (reconciliation.go:362: "delete oldest revisions first").
CopyKept == \A p \in Procs :
    (proc[p].pc = "trim" /\ Limit > 0) => proc[p].want.tag \notin proc[p].doomed

=============================================================================
