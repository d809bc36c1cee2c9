------------------------------ MODULE Rollout ------------------------------
(***************************************************************************)
(* The rollout of one deployment: the reconcile loop looks at the running  *)
(* containers, decides, and starts a Roll or a Stop goroutine that works   *)
(* on with what the reconcile SAW while containers come and go and later   *)
(* reconciles look again.                                                  *)
(*                                                                         *)
(* An app is a pair <<revision, copy>>: every container carries its        *)
(* revision's label, and its name (fresh for every start) stands for the   *)
(* copy.  Revisions are numbered by creation, the newest one is the one    *)
(* the deployment asks for.                                                *)
(*                                                                         *)
(* A request reaches the record and the interrupt channel in one step, and *)
(* a reconcile decides and saves in one step: the window between those is  *)
(* the subject of module ControlPlane.  A query sees all there is, or is   *)
(* lost: a DirectStar deployment, whose queries ask one node at random, is *)
(* modelled on an organisation with one node.                              *)
(***************************************************************************)
EXTENDS FiniteSets, FiniteSetsExt, Functions, RollScaling

CONSTANTS
    Modes,           \* deployment modes of interest, of AllModes
    Counts,          \* values of spec.appCount
    MaxSurge,        \* spec.strategy.rollingUpdate.maxSurge
    MaxUnavailable,  \* spec.strategy.rollingUpdate.maxUnavailable
    LastRev,         \* bound: revisions ever created
    Copies,          \* bound: container names per revision
    Rolls,           \* goroutines that Reconcile may have running ...
    MaxRolls,        \* ... and how many of them at once
    Limits           \* bound: how often each of LimitKinds may happen

AllModes == {"DirectDocker", "DirectStar", "IndirectStar"}
LimitKinds == {"puts", "stops", "holds", "lost", "faults", "ops", "crashes"}

Revs == 1 .. LastRev
Apps == Revs \X (1 .. Copies)

ASSUME RolloutAssumption ==
    /\ Modes \subseteq AllModes
    /\ Counts \subseteq Nat
    /\ {MaxSurge, MaxUnavailable} \subseteq Int
    /\ {LastRev, Copies, MaxRolls} \subseteq Nat \ {0}
    /\ Limits \in [LimitKinds -> Nat]

VARIABLES
    up,        \* containers running, as the daemon or the node agents list them
    avail,     \* those running for at least minReadySeconds
    spec,      \* the stored deployment: mode, appCount, newest revision, flag
    intr,      \* interrupts waiting in interruptChan
    rec,       \* Reconcile in progress: its copy of spec, what it has seen so far
    roll,      \* the goroutines started by earlier reconciles
    worker,    \* is the worker's main loop running?
    signal,    \* is a goroutine waiting to send on stopChan?
    left,      \* what is left of Limits
    calm       \* (auxiliary) since the worker was started no query was lost, no Put reached
               \* it after it had been told to end, and the service did not restart

vars == <<up, avail, spec, intr, rec, roll, worker, signal, left, calm>>

-----------------------------------------------------------------------------
Of(r, S) == {a \in S : a[1] = r}
NewApps(r, S) == Of(r, S)
OldApps(r, S) == S \ Of(r, S)

\* (mutant) one more
LastOfOneMore(k, S, place) ==
    LET After(a, b) == place[a[1]] < place[b[1]] \/ (a[1] = b[1] /\ a[2] < b[2])
    IN {a \in S : Cardinality({b \in S : After(a, b)}) <= k}

\* "the last k of the list": the members of S with fewer than k members of S after
\* them, in a list that has the revisions in the order of their places.
LastOf(k, S, place) ==
    LET After(a, b) == place[a[1]] < place[b[1]] \/ (a[1] = b[1] /\ a[2] < b[2])
    IN {a \in S : Cardinality({b \in S : After(a, b)}) < k}

\* oldApps is built revision by revision, the newest old revision first.
NewestFirst == [r \in Revs |-> LastRev - r]

NoRec == [pc |-> "idle", spec |-> <<>>, todo |-> {}, seen |-> {}, ready |-> {}]

NoJob == [pc |-> "idle", next |-> "idle", count |-> 0, target |-> 0,
          seen |-> {}, ready |-> {}, kill |-> {}, asked |-> 0, hit |-> 0,
          bad |-> FALSE, todo |-> 0, batch |-> 0, flight |-> 0,
          olds |-> {}, budget |-> 0, gone |-> {}]

Active == {g \in Rolls : roll[g].pc # "idle"}
Spend(kind) == left[kind] > 0 /\ left' = [left EXCEPT ![kind] = left[kind] - 1]

\* Names that a goroutine or a reconcile may still use; a fresh name is none of them.
Mentioned == up \cup rec.seen
                \cup UNION {roll[g].seen \cup roll[g].gone : g \in Rolls}

Init ==
    /\ up = {}
    /\ avail = {}
    /\ spec \in [mode : Modes, count : Counts, rev : {1}, flag : {"run"}]
    /\ intr = 0
    /\ rec = NoRec
    /\ roll = [g \in Rolls |-> NoJob]
    /\ worker = TRUE
    /\ signal = FALSE
    /\ left = Limits
    /\ calm = TRUE

-----------------------------------------------------------------------------
\* Requests.  A message to the running worker leaves an interrupt behind.

\* PutDeployment: another appCount, another app spec, or both; it clears the
\* stop flags, and starts a worker where none is running.
Put ==
    /\ spec.flag # "erased"
    /\ Spend("puts")
    /\ \E c \in Counts, r \in {spec.rev, spec.rev + 1} \cap Revs :
          /\ <<c, r, "run">> # <<spec.count, spec.rev, spec.flag>>
          /\ spec' = [spec EXCEPT !.count = c, !.rev = r, !.flag = "run"]
    /\ worker' = TRUE
    /\ intr' = IF worker THEN intr + 1 ELSE 0
    /\ signal' = (signal /\ worker)
    /\ calm' = (worker => calm /\ ~signal)
    /\ UNCHANGED <<up, avail, rec, roll>>

\* StopDeployment and DeleteDeployment with a worker running.
RequestStop(flag) ==
    /\ worker
    /\ spec.flag \notin {flag, "erased"}
    /\ Spend("stops")
    /\ spec' = [spec EXCEPT !.flag = IF spec.flag = "delete" THEN "delete" ELSE flag]
    /\ intr' = intr + 1
    /\ UNCHANGED <<up, avail, rec, roll, worker, signal, calm>>

\* DeleteDeployment without a worker: the record goes at once.
DeleteWithoutWorker ==
    /\ ~worker
    /\ spec.flag # "erased"
    /\ Spend("stops")
    /\ spec' = [spec EXCEPT !.flag = "erased"]
    /\ UNCHANGED <<up, avail, intr, rec, roll, worker, signal, calm>>

\* The service restarts: goroutines and channels are gone, containers and the
\* record stay, and nothing at startup brings the workers back.
Crash ==
    /\ Spend("crashes")
    /\ worker' = FALSE
    /\ signal' = FALSE
    /\ intr' = 0
    /\ rec' = NoRec
    /\ roll' = [g \in Rolls |-> NoJob]
    /\ calm' = FALSE
    /\ UNCHANGED <<up, avail, spec>>

-----------------------------------------------------------------------------
\* Reconcile.

Tick ==
    /\ worker
    /\ rec.pc = "idle"
    /\ spec.flag # "erased"
    /\ Cardinality(Active) < MaxRolls
    /\ rec' = [pc |-> "query", spec |-> spec, todo |-> 1 .. spec.rev,
               seen |-> {}, ready |-> {}]
    /\ UNCHANGED <<up, avail, spec, intr, roll, worker, signal, left, calm>>

\* IsReconcileInterrupted: one waiting interrupt ends the reconcile.
Interrupted ==
    /\ rec.pc # "idle"
    /\ intr > 0
    /\ intr' = intr - 1
    /\ rec' = NoRec
    /\ UNCHANGED <<up, avail, spec, roll, worker, signal, left, calm>>

\* One goroutine of GetAppsDirect / GetAppsIndirect lists one revision's apps.
QueryRevision(r) ==
    /\ rec.pc = "query" /\ intr = 0
    /\ r \in rec.todo
    /\ rec' = [rec EXCEPT !.todo = rec.todo \ {r},
                          !.seen = rec.seen \cup Of(r, up),
                          !.ready = rec.ready \cup Of(r, avail)]
    /\ UNCHANGED <<up, avail, spec, intr, roll, worker, signal, left, calm>>

\* A query that fails is left out, and the callers are told nothing.  In IndirectStar every
\* node is asked, and only what the failing ones would have named is left out.
LoseQuery(r) ==
    /\ rec.pc = "query" /\ intr = 0
    /\ r \in rec.todo
    /\ Spend("lost")
    /\ calm' = FALSE
    /\ \E S \in IF rec.spec.mode = "IndirectStar" THEN SUBSET Of(r, up) ELSE {{}} :
          rec' = [rec EXCEPT !.todo = rec.todo \ {r},
                             !.seen = rec.seen \cup S,
                             !.ready = rec.ready \cup (S \cap avail)]
    /\ UNCHANGED <<up, avail, spec, intr, roll, worker, signal>>

Decides == rec.pc = "query" /\ rec.todo = {} /\ intr = 0

\* Spawning the Stop goroutine: StopApps of everything that was seen.
StopJob(s) ==
    [NoJob EXCEPT !.pc = "stop", !.next = "end", !.count = s.spec.count,
                  !.target = s.spec.rev, !.seen = s.seen, !.ready = s.ready,
                  !.kill = s.seen, !.asked = Cardinality(s.seen)]

\* Spawning Roll, with the first branch of ReconcileNewRevision taken.
RollJob(s) ==
    LET count == s.spec.count
        new   == Cardinality(NewApps(s.spec.rev, s.seen))
        size  == NewRevisionTarget(count, MaxSurge, new, Cardinality(s.seen))
        job   == [NoJob EXCEPT !.pc = "old", !.count = count, !.target = s.spec.rev,
                               !.seen = s.seen, !.ready = s.ready]
    IN IF size < new THEN [job EXCEPT !.pc = "stop", !.next = "old", !.asked = new - size,
                              !.kill = LastOf(new - size, NewApps(s.spec.rev, s.seen), NewestFirst)]
       ELSE IF size > new THEN [job EXCEPT !.pc = "start", !.todo = size - new,
                                           !.batch = 1, !.flight = 1]
       ELSE job

\* (mutants) the signal does not wait for the apps; the count is compared off by one
NothingLeftAlways(s) == TRUE
NothingLeftOffByOne(s) == Cardinality(s.seen) < 0

NothingLeft(s) == s.seen = {}

\* Stopped or Deleted: stop what was seen; nothing seen means the worker may
\* end, and a deleted deployment's record goes.
DecideStop ==
    /\ Decides /\ rec.spec.flag # "run"
    /\ IF ~NothingLeft(rec)
       THEN /\ \E g \in Rolls \ Active : roll' = [roll EXCEPT ![g] = StopJob(rec)]
            /\ UNCHANGED <<spec, signal>>
       ELSE /\ signal' = TRUE
            /\ spec' = IF rec.spec.flag = "delete" THEN [spec EXCEPT !.flag = "erased"] ELSE spec
            /\ UNCHANGED roll
    /\ rec' = NoRec
    /\ UNCHANGED <<up, avail, intr, worker, left, calm>>

Completed(s) ==
    IsCompleted(s.spec.count, MaxUnavailable, Cardinality(NewApps(s.spec.rev, s.seen)),
                Cardinality(s.seen), Cardinality(s.ready))

DecideRoll ==
    /\ Decides /\ rec.spec.flag = "run"
    /\ ~ Completed(rec)
    /\ \E g \in Rolls \ Active : roll' = [roll EXCEPT ![g] = RollJob(rec)]
    /\ rec' = NoRec
    /\ UNCHANGED <<up, avail, spec, intr, worker, signal, left, calm>>

DecideCompleted ==
    /\ Decides /\ rec.spec.flag = "run"
    /\ Completed(rec)
    /\ rec' = NoRec
    /\ UNCHANGED <<up, avail, spec, intr, roll, worker, signal, left, calm>>

\* Paused, failed past its deadline, or an error return on the way: no roll.
DecideHold ==
    /\ Decides /\ rec.spec.flag = "run"
    /\ Spend("holds")
    /\ rec' = NoRec
    /\ UNCHANGED <<up, avail, spec, intr, roll, worker, signal, calm>>

\* The main loop receives from stopChan and the worker ends.
WorkerExits ==
    /\ worker /\ signal /\ rec.pc = "idle"
    /\ worker' = FALSE
    /\ signal' = FALSE
    /\ UNCHANGED <<up, avail, spec, intr, rec, roll, left, calm>>

-----------------------------------------------------------------------------
\* StartApps: batches of 1, 2, 4, ... starts run together; a batch with an
\* error is the last one and ends the Roll.

Starting(g) == roll[g].pc = "start" /\ roll[g].flight > 0

\* The container starts; the caller may still see a timeout (unconfirmed).
StartApp(g, confirmed) ==
    LET j == roll[g] IN
    /\ Starting(g)
    /\ confirmed \/ left["ops"] > 0
    /\ \E n \in 1 .. Copies :
          /\ <<j.target, n>> \notin Mentioned
          /\ up' = up \cup {<<j.target, n>>}
    /\ roll' = [roll EXCEPT ![g] = [j EXCEPT !.flight = j.flight - 1, !.todo = j.todo - 1,
                                             !.bad = j.bad \/ ~confirmed]]
    /\ left' = IF confirmed THEN left ELSE [left EXCEPT !["ops"] = left["ops"] - 1]
    /\ UNCHANGED <<avail, spec, intr, rec, worker, signal, calm>>

StartFails(g) ==
    LET j == roll[g] IN
    /\ Starting(g)
    /\ Spend("ops")
    /\ roll' = [roll EXCEPT ![g] = [j EXCEPT !.flight = j.flight - 1, !.todo = j.todo - 1,
                                             !.bad = TRUE]]
    /\ UNCHANGED <<up, avail, spec, intr, rec, worker, signal, calm>>

\* (mutant) the last batch is not cut to what is left
NextBatchUncut(j) == 2 * j.batch

NextBatch(j) == Min({2 * j.batch, j.todo})

BatchReturns(g) ==
    LET j == roll[g] IN
    /\ j.pc = "start" /\ j.flight = 0
    /\ roll' = [roll EXCEPT ![g] =
          IF j.bad THEN NoJob
          ELSE IF j.todo = 0 THEN [j EXCEPT !.pc = "old", !.batch = 0]
          ELSE [j EXCEPT !.batch = 2 * j.batch, !.flight = NextBatch(j)]]
    /\ UNCHANGED <<up, avail, spec, intr, rec, worker, signal, left, calm>>

-----------------------------------------------------------------------------
\* ReconcileOldRevisions.

\* (mutant) the availability filter is missing
OldUnreadyAll(j) == OldApps(j.target, j.seen)

\* GetOldUnavailableApps
OldUnready(j) == OldApps(j.target, j.seen) \ j.ready

\* maxScaledDown
ScaleDownLimit(j) ==
    LET new == NewApps(j.target, j.seen)
    IN MaxScaledDown(j.count, MaxUnavailable, Cardinality(j.seen),
                     Cardinality(new), Cardinality(new \cap j.ready))

\* First the old apps that were not available, at most maxScaledDown of them, off
\* the end of totalApps: a list built in the order in which the queries returned.
StopUnready(g) ==
    LET j     == roll[g]
        limit == ScaleDownLimit(j)
    IN
    /\ j.pc = "old"
    /\ \E place \in Bijection(Revs, Revs) :
       roll' = [roll EXCEPT ![g] =
          IF limit <= 0 THEN NoJob
          ELSE [j EXCEPT !.pc = "stop", !.next = "share", !.asked = limit,
                         !.kill = LastOf(limit, OldUnready(j), place),
                         !.olds = 1 .. (j.target - 1),
                         !.budget = ScaleDownBudget(j.count, MaxUnavailable, Cardinality(j.ready))]]
    /\ UNCHANGED <<up, avail, spec, intr, rec, worker, signal, left, calm>>

\* Then the old revisions in turn, newest first, while there is budget.  Each
\* gives up its share, but the apps come off the end of the list of ALL old apps.
ShareOld(g) ==
    LET j     == roll[g]
        sized == {r \in j.olds : Of(r, j.seen) # {}}
        r     == Max(sized)
        share == RevisionShare(Cardinality(Of(r, j.seen)), j.budget)
    IN
    /\ j.pc = "share"
    /\ roll' = [roll EXCEPT ![g] =
          IF j.budget <= 0 \/ sized = {} THEN NoJob
          ELSE [j EXCEPT !.pc = "stop", !.next = "share", !.asked = share,
                         !.kill = LastOf(share, OldApps(j.target, j.seen), NewestFirst),
                         !.olds = {o \in j.olds : o < r},
                         !.budget = j.budget - share]]
    /\ UNCHANGED <<up, avail, spec, intr, rec, worker, signal, left, calm>>

-----------------------------------------------------------------------------
\* StopApps: all of them at once, each confirmed or not.

StopApp(g, a, confirmed) ==
    LET j == roll[g] IN
    /\ j.pc = "stop" /\ a \in j.kill
    /\ confirmed \/ a \notin up \/ left["ops"] > 0
    /\ up' = up \ {a}
    /\ avail' = avail \ {a}
    /\ roll' = [roll EXCEPT ![g] = [j EXCEPT !.kill = j.kill \ {a},
                                             !.hit = IF confirmed THEN j.hit + 1 ELSE j.hit,
                                             !.bad = j.bad \/ ~confirmed,
                                             !.gone = j.gone \cup ({a} \cap up)]]
    /\ left' = IF confirmed \/ a \notin up THEN left ELSE [left EXCEPT !["ops"] = left["ops"] - 1]
    /\ UNCHANGED <<spec, intr, rec, worker, signal, calm>>

StopFails(g, a) ==
    LET j == roll[g] IN
    /\ j.pc = "stop" /\ a \in j.kill \cap up
    /\ Spend("ops")
    /\ roll' = [roll EXCEPT ![g] = [j EXCEPT !.kill = j.kill \ {a}, !.bad = TRUE]]
    /\ UNCHANGED <<up, avail, spec, intr, rec, worker, signal, calm>>

\* What StopApps returns, per mode: StopDockerContainer waits on a channel that
\* only an error reaches, so a stop that succeeds may never return; DirectStar
\* assigns the error to a shadowed variable; IndirectStar counts stopped apps
\* against the number asked for, which may be more than the list had.
StopReturns(mode, j) ==
    CASE mode = "DirectDocker" -> IF j.bad THEN {"error"} ELSE
                                  IF j.hit > 0 THEN {"hang", "ok"} ELSE {"ok"}
      [] mode = "DirectStar"   -> {"ok"}
      [] OTHER -> IF (j.hit > 0 \/ j.bad) /\ j.hit < j.asked THEN {"error"} ELSE {"ok"}

StopsReturn(g) ==
    LET j == roll[g] IN
    /\ j.pc = "stop" /\ j.kill = {}
    /\ \E res \in StopReturns(spec.mode, j) :
          roll' = [roll EXCEPT ![g] =
             IF res = "ok" /\ j.next # "end"
             THEN [j EXCEPT !.pc = j.next, !.next = "idle", !.asked = 0, !.hit = 0, !.bad = FALSE]
             ELSE NoJob]
    /\ UNCHANGED <<up, avail, spec, intr, rec, worker, signal, left, calm>>

RollStep(g) ==
    \/ StartApp(g, TRUE) \/ BatchReturns(g)
    \/ StopUnready(g) \/ ShareOld(g)
    \/ \E a \in roll[g].kill : StopApp(g, a, TRUE)
    \/ StopsReturn(g)

-----------------------------------------------------------------------------
\* The containers themselves.

\* minReadySeconds have passed.
BecomesAvailable(a) ==
    /\ a \in up \ avail
    /\ avail' = avail \cup {a}
    /\ UNCHANGED <<up, spec, intr, rec, roll, worker, signal, left, calm>>

\* A container exits and is listed no more.
AppExits(a) ==
    /\ a \in up
    /\ Spend("faults")
    /\ up' = up \ {a}
    /\ avail' = avail \ {a}
    /\ UNCHANGED <<spec, intr, rec, roll, worker, signal, calm>>

\* A container is restarted: listed, but young again.
AppRestarts(a) ==
    /\ a \in avail
    /\ Spend("faults")
    /\ avail' = avail \ {a}
    /\ UNCHANGED <<up, spec, intr, rec, roll, worker, signal, calm>>

-----------------------------------------------------------------------------
Next ==
    \/ Put
    \/ RequestStop("stop") \/ RequestStop("delete")
    \/ DeleteWithoutWorker \/ Crash
    \/ Tick \/ Interrupted
    \/ \E r \in Revs : QueryRevision(r) \/ LoseQuery(r)
    \/ DecideStop \/ DecideRoll \/ DecideCompleted \/ DecideHold
    \/ WorkerExits
    \/ \E g \in Rolls :
          \/ RollStep(g)
          \/ StartApp(g, FALSE) \/ StartFails(g)
          \/ \E a \in roll[g].kill : StopApp(g, a, FALSE) \/ StopFails(g, a)
    \/ \E a \in Apps : BecomesAvailable(a) \/ AppExits(a) \/ AppRestarts(a)

Spec == Init /\ [][Next]_vars

\* The timer fires again and again, queries and decisions return, goroutines
\* run on, containers grow old; and select, which picks at random among its ready
\* cases, does not pass over stopChan for ever.  Requests, faults and lost queries
\* need not happen.
Fairness ==
    /\ WF_vars(Tick) /\ WF_vars(Interrupted)
    /\ \A r \in Revs : WF_vars(QueryRevision(r))
    /\ WF_vars(DecideStop) /\ WF_vars(DecideRoll) /\ WF_vars(DecideCompleted)
    /\ SF_vars(WorkerExits)
    /\ \A g \in Rolls : WF_vars(RollStep(g))
    /\ \A a \in Apps : WF_vars(BecomesAvailable(a))

FairSpec == Spec /\ Fairness

-----------------------------------------------------------------------------
(* Properties *)

RollType ==
    [pc : {"idle", "start", "old", "share", "stop"}, next : {"idle", "old", "share", "end"},
     count : Nat, target : Revs \cup {0}, seen : SUBSET Apps, ready : SUBSET Apps,
     kill : SUBSET Apps, gone : SUBSET Apps, asked : Nat, hit : Nat, bad : BOOLEAN,
     todo : Nat, batch : Nat, flight : Nat, olds : SUBSET Revs, budget : Int]

SpecType == [mode : Modes, count : Counts, rev : Revs,
             flag : {"run", "stop", "delete", "erased"}]

\* What a reconcile or a goroutine takes for available it has seen; a batch in flight
\* is part of what is still to be started; a reconcile knows the deployment it works for.
TypeOK ==
    /\ up \subseteq Apps /\ avail \subseteq up
    /\ spec \in SpecType
    /\ intr \in Nat
    /\ \/ rec = NoRec
       \/ rec \in [pc : {"query"}, spec : SpecType, todo : SUBSET Revs,
                   seen : SUBSET Apps, ready : SUBSET Apps] /\ rec.ready \subseteq rec.seen
    /\ roll \in [Rolls -> RollType]
    /\ \A g \in Rolls : /\ roll[g].pc # "idle" => roll[g].target \in Revs
                        /\ roll[g].flight <= roll[g].todo
                        /\ roll[g].ready \subseteq roll[g].seen
    /\ worker \in BOOLEAN /\ signal \in BOOLEAN /\ calm \in BOOLEAN
    /\ left \in [LimitKinds -> Nat]

\* As long as no query has been lost: while a Roll starts apps, those running and those
\* it has yet to start stay within appCount + maxSurge, whatever exits, restarts, times
\* out or fails meanwhile (reconciliation.go:401-418).  One goroutine at a time.
SurgeRespected ==
    \A g \in Rolls : (roll[g].pc = "start" /\ left["lost"] = Limits["lost"]) =>
        Cardinality(up) + roll[g].todo <= roll[g].count + MaxSurge

\* A Roll that need not shrink the new revision stops no more of the apps it saw
\* available than there were above appCount - maxUnavailable, over all its StopApps
\* calls together (reconciliation.go:449-502).
StopsWithinBudget ==
    \A g \in Rolls : LET j == roll[g] IN
        (j.pc # "idle" /\ j.next # "end" /\ Cardinality(NewApps(j.target, j.seen)) <= j.count) =>
            Cardinality(j.gone \cap j.ready) <=
                Max({0, ScaleDownBudget(j.count, MaxUnavailable, Cardinality(j.ready))})

\* What a Roll j starts or stops before it ends, whatever the order of the lists: it
\* starts apps, or shrinks the new revision, or goes on to old apps and stops some.
Acts(j) ==
    \/ j.pc = "start" /\ j.flight > 0
    \/ j.pc = "stop" /\ j.kill # {}
    \/ /\ j.pc = "old" /\ ScaleDownLimit(j) > 0
       /\ \/ \A place \in Bijection(Revs, Revs) :
                LastOf(ScaleDownLimit(j), OldUnready(j), place) # {}
          \/ /\ OldApps(j.target, j.seen) # {}
             /\ ScaleDownBudget(j.count, MaxUnavailable, Cardinality(j.ready)) > 0

\* A rollout is never stuck: when all the new apps found are available and it is not
\* completed, the Roll that is started does something, whatever was found of other
\* revisions and whatever was found available (reconciliation.go:396-508).  This is so
\* where surge and unavailability are naturals, not both zero: negative ones are accepted
\* as well (update_service.go:81-93), and with those a rollout can be stuck.
RollMoves ==
    LET new == NewApps(rec.spec.rev, rec.seen) IN
    (/\ Decides /\ rec.spec.flag = "run" /\ ~Completed(rec)
     /\ rec.spec.count > 0
     /\ MaxSurge >= 0 /\ MaxUnavailable >= 0 /\ MaxSurge + MaxUnavailable > 0
     /\ new \subseteq rec.ready) => Acts(RollJob(rec))

\* Nothing of a stopped or deleted deployment runs once its worker is gone (README.md:535,
\* 555), unless a query of that worker was lost, a Put reached it after it had been told to end,
\* or the service was restarted: each of the three may leave apps behind.
StopLeavesNothing ==
    (~worker /\ spec.flag # "run" /\ calm) => up = {}

\* The deployment never has more apps than its ceiling (reconciliation.go:407).
SurgeBound == Cardinality(up) <= spec.count + MaxSurge

Settled ==
    /\ up = avail
    /\ up = Of(spec.rev, up)
    /\ Cardinality(up) = spec.count

\* Every rollout of a deployment that keeps its worker and is not stopped ends with
\* exactly appCount available apps of the newest revision, and stays there, once
\* requests and faults stop (reconciliation.go:396-508).
RolloutConverges == <>[](worker /\ spec.flag = "run") => <>[]Settled

\* A requested stop ends with the worker gone, unless a Put revokes it.
StopCompletes == (worker /\ spec.flag # "run") ~> (~worker \/ spec.flag = "run")

-----------------------------------------------------------------------------
(* What its owner sees of the rollout *)

NoOrder == [flag |-> "none", count |-> 0, rev |-> 0, found |-> {}, ready |-> {}, gone |-> {}]

\* A reconcile at work.
CopyOf(s) ==
    IF s.pc = "idle" THEN NoOrder
    ELSE [flag |-> s.spec.flag, count |-> s.spec.count, rev |-> s.spec.rev,
          found |-> s.seen, ready |-> s.ready, gone |-> {}]

\* A goroutine at work.
OrderOf(j) ==
    IF j.pc = "idle" THEN NoOrder
    ELSE [flag |-> IF j.next = "end" THEN "stop" ELSE "run", count |-> j.count,
          rev |-> j.target, found |-> j.seen, ready |-> j.ready, gone |-> j.gone]

Contract == INSTANCE DeploymentContract WITH
    Hands   <- Rolls,
    Alone   <- (MaxRolls = 1),
    want    <- [count |-> spec.count, rev |-> spec.rev, flag |-> spec.flag],
    copy    <- CopyOf(rec),
    order   <- [g \in Rolls |-> OrderOf(roll[g])],
    running <- up,
    fit     <- avail,
    told    <- signal,
    sighted <- (left["lost"] = Limits["lost"])

\* Only a reconcile's order starts and stops containers, and it does so within what the
\* reconcile read and found: apps of the revision asked for up to the surge, no available
\* app but those above the minimum, no new app but those above appCount; and the worker
\* ends, or the record goes, when nothing is left (reconciliation.go:118-236, 382-508).
KeepsOrders == Contract!Spec

=============================================================================
