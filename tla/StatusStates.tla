--------------------------- MODULE StatusStates ---------------------------
(***************************************************************************)
(* The status of one deployment over time: Progress, Available and Failure,*)
(* the deadline, the pause, and the rollback of a deployment that failed.  *)
(*                                                                         *)
(* Nothing locks the record.  A handler of a Put, the helper goroutine of  *)
(* the worker and its main loop each read it whole, change their copy and  *)
(* save it whole; a reconcile that has passed its last check is not        *)
(* interrupted any more and writes its copy over whatever came meanwhile.  *)
(*                                                                         *)
(* The clock is what the deadline is compared with: age is the time since  *)
(* Progress.LastUpdateTimestamp, of the record and of every copy.  Other   *)
(* failing reads, saves and queries, replies and full queues are           *)
(* ControlPlane's, Rollout's and WorkerLoop's subject, Stop and Delete     *)
(* Rollout's.                                                              *)
(***************************************************************************)
EXTENDS PutRequest, RollScaling

CONSTANTS
    Requests,  \* the Put requests of interest
    Clients,   \* the handlers of Puts
    Found,     \* what a reconcile may find: new, old and available apps
    Horizon,   \* bound: times above it are not told apart
    Tasks      \* bound: requests, restarts

\* The specs the mapping may make of the requests, and the records they may be in.
Specs == {NewDeploymentSpec(r, RollingUpdate(r)) : r \in Requests}
Docs == [spec : Specs, states : [StateTypes -> BOOLEAN], age : 0 .. Horizon, paused : BOOLEAN]

TaskTypes == {"pause", "unpause", "rollback"}

ASSUME StatusAssumption ==
    /\ Horizon \in Nat \ {0}
    /\ Tasks \in Nat
    /\ \A r \in Requests : r.deadline < Horizon
    /\ Clients \cap (TaskTypes \cup {"helper", "main", NIL}) = {}
    /\ NIL \notin Nat /\ NIL \notin Docs /\ NIL \notin TaskTypes

VARIABLES
    doc,     \* the record: spec, states, age of Progress, paused; NIL if there is none
    worker,  \* is there a worker?
    intr,    \* interrupts waiting in interruptChan
    apps,    \* the apps a reconcile would find now
    put,     \* per client: the record its Put has made and not yet stored, or NIL
    helper,  \* the helper goroutine: its task, and its copy of the record
    main,    \* the main loop: where its reconcile is, its copy, what it did; auxiliary:
             \* whether it found the rollout completed, and how long ago it rolled back
    stale,   \* auxiliary: whose copy was made before the last Put or rollback was saved?
    blind,   \* auxiliary: whose was made before the last failure was, or without a read?
    held,    \* auxiliary: is a saved failure still to be respected?
    undone,  \* auxiliary: has a stale copy been saved since the last Put or rollback?
    since,   \* auxiliary: time since the last Put or rollback that was saved
    met,     \* auxiliary: was the wanted state met since the clock last moved?
    left     \* what is left of Tasks

copies == <<put, helper, main>>
ghosts == <<stale, blind, held, undone, since, met>>
vars == <<doc, worker, intr, apps, copies, ghosts, left>>

NoTask == [at |-> "idle", task |-> NIL, copy |-> NIL]
NoRun == [at |-> "idle", copy |-> NIL, completed |-> FALSE, what |-> "none", rolled |-> FALSE,
          ago |-> 0]

Init ==
    /\ doc = NIL
    /\ worker = FALSE
    /\ intr = 0
    /\ apps \in Found
    /\ put = [c \in Clients |-> NIL]
    /\ helper = NoTask
    /\ main = NoRun
    /\ stale = {} /\ blind = {}
    /\ held = FALSE
    /\ undone = FALSE
    /\ since = 0
    /\ met = FALSE
    /\ left = Tasks

Completed(spec, found) ==
    IsCompleted(spec.count, spec.rolling.unavailable, found.new, found.new + found.old, found.ready)

Meets(d, found) == d # NIL /\ Completed(d.spec, found)
Missing(d, found) == d # NIL /\ ~d.paused /\ ~Completed(d.spec, found)

\* What a spec is when it has gone into etcd and come back, as a table.
Etcd == [spec \in Specs |-> Stored(spec)]

\* A record goes into etcd as far as it can be mapped.
SaveDeployment(d) ==
    LET spec == Etcd[d.spec]
    IN IF spec.kind # "ok" THEN doc
       ELSE [d EXCEPT !.spec = spec.value, !.states = StoredStates(d.states)]

-----------------------------------------------------------------------------
\* Who holds a copy, and what a save of one means to the others.

Holders ==
    {c \in Clients : put[c] # NIL}
    \cup (IF helper.copy # NIL THEN {"helper"} ELSE {})
    \cup (IF main.copy # NIL THEN {"main"} ELSE {})

\* The holder h saves d: a Put or a rollback made some time ago, a failure, or something else.
Save(h, d, kind, ago) ==
    LET starts == kind \in {"put", "rollback"} IN
    /\ doc' = SaveDeployment(d)
    /\ stale' = (IF starts THEN Holders ELSE stale) \ {h}
    /\ blind' = (IF kind = "failure" THEN Holders ELSE blind) \ {h}
    /\ held' = (kind = "failure" \/ (held /\ h \notin blind /\ kind # "unpause"))
    /\ undone' = (h \in stale \/ (undone /\ ~starts))
    /\ since' = IF starts THEN ago ELSE since
    /\ met' = (met \/ Meets(doc', apps))

-----------------------------------------------------------------------------
\* Puts.

Spend == left > 0 /\ left' = left - 1

\* (mutant) the status starts anew with every Put
SetDeploymentStatusNew(d) == [states |-> NewDeploymentStatus, paused |-> FALSE]

\* A Put keeps the status of the record it replaces, but for the timestamps.
SetDeploymentStatus(d) ==
    IF d = NIL THEN [states |-> NewDeploymentStatus, paused |-> FALSE]
                ELSE [states |-> d.states, paused |-> d.paused]

\* The handler maps the request and takes the status over from the record there is,
\* or from none when the read fails.
Put(c, req) ==
    LET mapped == PutDeploymentReqToDomain(req) IN
    /\ Spend
    /\ put[c] = NIL
    /\ mapped.kind = "ok"
    /\ \E read \in {doc, NIL} :
          LET status == SetDeploymentStatus(read) IN
          /\ put' = [put EXCEPT ![c] = [spec |-> mapped.value, states |-> status.states,
                                       age |-> 0, paused |-> status.paused]]
          /\ blind' = IF read = doc THEN blind ELSE blind \cup {c}
    /\ UNCHANGED <<doc, worker, intr, apps, helper, main, stale, held, undone, since, met>>

\* Without a worker the Put starts one, which stores the record first.
StartWorker(c) ==
    /\ ~worker /\ put[c] # NIL
    /\ worker' = TRUE
    /\ Save(c, put[c], "put", put[c].age)
    /\ put' = [put EXCEPT ![c] = NIL]
    /\ UNCHANGED <<intr, apps, helper, main, left>>

\* The task or its request times out, or another Put has started the worker.
PutLost(c) ==
    /\ put[c] # NIL /\ helper.task # c
    /\ put' = [put EXCEPT ![c] = NIL]
    /\ stale' = stale \ {c} /\ blind' = blind \ {c}
    /\ UNCHANGED <<doc, worker, intr, apps, helper, main, held, undone, since, met, left>>

\* (mutant) interrupts outlive the worker they were for
ServiceEndsButQueue ==
    /\ worker' = FALSE
    /\ put' = [c \in Clients |-> NIL]
    /\ helper' = NoTask
    /\ main' = NoRun
    /\ stale' = {} /\ blind' = {}
    /\ UNCHANGED <<doc, intr, apps, held, undone, since, met>>

\* The record stays and nothing at startup brings the worker back.
ServiceEnds ==
    /\ worker' = FALSE
    /\ intr' = 0
    /\ put' = [c \in Clients |-> NIL]
    /\ helper' = NoTask
    /\ main' = NoRun
    /\ stale' = {} /\ blind' = {}
    /\ UNCHANGED <<doc, apps, held, undone, since, met>>

PutPanics(req) ==
    /\ Spend
    /\ PutDeploymentReqToDomain(req).kind = "panic"
    /\ ServiceEnds

Restart == worker /\ Spend /\ ServiceEnds

-----------------------------------------------------------------------------
\* The helper goroutine and its tasks.

\* It takes a task and interrupts the reconcile before it does anything else.
Interrupt(task) ==
    /\ worker /\ helper.at = "idle"
    /\ intr' = intr + 1
    /\ helper' = [NoTask EXCEPT !.at = "read", !.task = task]
    /\ UNCHANGED <<doc, worker, apps, put, main, ghosts>>

TakePut(c) == put[c] # NIL /\ Interrupt(c) /\ UNCHANGED left
TakeTask(task) == doc # NIL /\ Spend /\ Interrupt(task)

\* The copy a task works on; a Put brings its own record.
ReadRecord ==
    /\ helper.at = "read"
    /\ helper' = [helper EXCEPT !.at = "save",
                               !.copy = IF helper.task \in Clients THEN NIL ELSE doc]
    /\ UNCHANGED <<doc, worker, intr, apps, put, main, ghosts, left>>

Saving(tasks) == helper.at = "save" /\ helper.task \in tasks
TaskEnds == helper' = NoTask /\ UNCHANGED <<worker, intr, apps, main, left>>

HandlePutTask(c) ==
    /\ Saving({c}) /\ TaskEnds
    /\ Save(c, put[c], "put", put[c].age)
    /\ put' = [put EXCEPT ![c] = NIL]

\* HandlePauseDeploymentTask, HandleUnpauseDeploymentTask
SetPaused ==
    /\ Saving({"pause", "unpause"}) /\ TaskEnds
    /\ Save("helper", [helper.copy EXCEPT !.paused = (helper.task = "pause")], helper.task, 0)
    /\ UNCHANGED put

\* (mutant) the timestamps of the failed rollout stay
RollbackKeepsAge(d) == [d EXCEPT !.states = [d.states EXCEPT !["Failure"] = FALSE, !["Progress"] = TRUE]]

\* Rollback: Failure and Progress start over, Available stays.
Rollback(d) == [d EXCEPT !.states = [d.states EXCEPT !["Failure"] = FALSE, !["Progress"] = TRUE],
                         !.age = 0]

HandleRollbackTask ==
    /\ Saving({"rollback"}) /\ TaskEnds
    /\ Save("helper", Rollback(helper.copy), "rollback", 0)
    /\ UNCHANGED put

\* The rollback has no target, or the save fails: the task is answered and nothing stored.
TaskFails ==
    /\ Saving(Clients \cup TaskTypes) /\ TaskEnds
    /\ put' = [c \in Clients |-> IF c = helper.task THEN NIL ELSE put[c]]
    /\ stale' = stale \ {helper.task, "helper"} /\ blind' = blind \ {helper.task, "helper"}
    /\ UNCHANGED <<doc, held, undone, since, met>>

-----------------------------------------------------------------------------
\* Reconcile.  What is done to the copy between two checks for an interrupt is one step.

IsDeadlineExceeded(d) == d.age > d.spec.deadline

\* (mutant) the two timestamps of a state are swapped: Progress is always fresh
UpdateStatusStatesFresh(d, found) ==
    LET available == IsAvailable(d.spec.count, d.spec.rolling.unavailable, found.ready)
        progress  == ~Completed(d.spec, found)
    IN [d EXCEPT !.age = 0,
                 !.states = [d.states EXCEPT
                               !["Available"] = available, !["Progress"] = progress,
                               !["Failure"] = IF progress THEN FALSE ELSE d.states["Failure"]]]

\* A rollout that is not completed is in progress until its deadline has passed;
\* a completed one leaves Failure as the record had it.
UpdateStatusStates(d, found) ==
    LET progress == ~Completed(d.spec, found)
        late     == progress /\ IsDeadlineExceeded(d) /\ ~d.paused
    IN [d EXCEPT !.states =
          [d.states EXCEPT
             !["Available"] = IsAvailable(d.spec.count, d.spec.rolling.unavailable, found.ready),
             !["Progress"]  = progress /\ ~late,
             !["Failure"]   = IF progress THEN late ELSE d.states["Failure"]]]

\* A failed deployment is rolled back, which may fail, or paused.
Failing(d, ok) ==
    IF ~d.states["Failure"]
    THEN [doc |-> d, what |-> "none"]
    ELSE CASE ~d.spec.auto       -> [doc |-> [d EXCEPT !.paused = TRUE], what |-> "paused"]
           [] d.spec.auto /\ ok  -> [doc |-> Rollback(d), what |-> "rollback"]
           [] OTHER              -> [doc |-> d, what |-> "stuck"]

Rolls(d) == d.states["Progress"] /\ ~d.states["Failure"] /\ ~d.paused

Goes(at, copy) == main' = [main EXCEPT !.at = at, !.copy = copy]
Work == UNCHANGED <<doc, worker, intr, apps, put, helper, ghosts, left>>

ReadForReconcile ==
    /\ worker /\ doc # NIL /\ main.at = "idle"
    /\ Goes("update", doc) /\ Work

\* The queries have found the apps of this moment.
UpdateStates ==
    /\ main.at = "update" /\ intr = 0
    /\ main' = [main EXCEPT !.at = "fail", !.copy = UpdateStatusStates(main.copy, apps),
                           !.completed = Completed(main.copy.spec, apps)]
    /\ Work

Fail(ok) ==
    /\ main.at = "fail" /\ intr = 0
    /\ LET next == Failing(main.copy, ok) IN
       main' = [main EXCEPT !.at = "roll", !.copy = next.doc, !.what = next.what, !.ago = 0]
    /\ Work

Roll ==
    /\ main.at = "roll" /\ intr = 0
    /\ main' = [main EXCEPT !.at = "check", !.rolled = Rolls(main.copy)]
    /\ Work

LastCheck ==
    /\ main.at = "check" /\ intr = 0
    /\ Goes("save", main.copy) /\ Work

\* The whole copy goes back, whatever was saved since it was read.
SaveAtEnd ==
    /\ main.at = "save" /\ main' = NoRun
    /\ Save("main", main.copy,
            CASE main.what = "paused"   -> "failure"
              [] main.what = "rollback" -> "rollback"
              [] OTHER                  -> "reconcile",
            main.ago)
    /\ UNCHANGED <<worker, intr, apps, put, helper, left>>

\* An interrupt that a check finds ends the reconcile; nothing is saved.
Interrupted ==
    /\ main.at \in {"update", "fail", "roll", "check"} /\ intr > 0
    /\ intr' = intr - 1
    /\ main' = NoRun
    /\ stale' = stale \ {"main"} /\ blind' = blind \ {"main"}
    /\ UNCHANGED <<doc, worker, apps, put, helper, held, undone, since, met, left>>

Reconcile ==
    \/ ReadForReconcile \/ UpdateStates \/ (\E ok \in BOOLEAN : Fail(ok))
    \/ Roll \/ LastCheck \/ SaveAtEnd \/ Interrupted

-----------------------------------------------------------------------------
Later(t) == IF t < Horizon THEN t + 1 ELSE t
Aged(d) == IF d = NIL THEN NIL ELSE [d EXCEPT !.age = Later(d.age)]

Tick ==
    /\ doc # NIL
    /\ doc' = Aged(doc)
    /\ put' = [c \in Clients |-> Aged(put[c])]
    /\ helper' = [helper EXCEPT !.copy = Aged(helper.copy)]
    /\ main' = [main EXCEPT !.copy = Aged(main.copy),
                           !.ago = IF main.what = "rollback" THEN Later(main.ago) ELSE 0]
    /\ since' = Later(since)
    /\ met' = Meets(doc, apps)
    /\ UNCHANGED <<worker, intr, apps, stale, blind, held, undone, left>>

\* Containers come and go, by Roll or by themselves.
AppsChange ==
    /\ apps' \in Found \ {apps}
    /\ met' = (met \/ Meets(doc, apps'))
    /\ UNCHANGED <<doc, worker, intr, copies, stale, blind, held, undone, since, left>>

Next ==
    \/ \E c \in Clients : StartWorker(c) \/ PutLost(c) \/ TakePut(c) \/ HandlePutTask(c)
    \/ \E req \in Requests : PutPanics(req) \/ \E c \in Clients : Put(c, req)
    \/ Restart
    \/ \E task \in TaskTypes : TakeTask(task)
    \/ ReadRecord \/ SetPaused \/ HandleRollbackTask \/ TaskFails
    \/ Reconcile
    \/ Tick
    \/ AppsChange

\* Time passes, and the worker's timer has the deployment reconciled again and again.
Spec ==
    /\ Init /\ [][Next]_vars
    /\ WF_vars(Tick)
    /\ WF_vars(Reconcile)

-----------------------------------------------------------------------------
Places == {"idle", "update", "fail", "roll", "check", "save"}
Outcomes == {"none", "paused", "rollback", "stuck"}
Runs == [at : Places, copy : Docs \cup {NIL}, completed : BOOLEAN, what : Outcomes,
         rolled : BOOLEAN, ago : 0 .. Horizon]
TaskRuns == [at : {"idle", "read", "save"}, task : Clients \cup TaskTypes \cup {NIL},
             copy : Docs \cup {NIL}]

\* Every variable has its type, copies are there where they are needed, only holders of
\* one are stale or blind, and a worker that is gone leaves no interrupts and no copies.
TypeOK ==
    /\ doc \in Docs \cup {NIL}
    /\ worker \in BOOLEAN
    /\ intr \in Nat
    /\ ~worker => intr = 0 /\ helper = NoTask /\ main = NoRun
    /\ apps \in Found
    /\ put \in [Clients -> Docs \cup {NIL}]
    /\ helper \in TaskRuns
    /\ helper.copy # NIL <=> helper.at = "save" /\ helper.task \in TaskTypes
    /\ helper.task \in Clients => put[helper.task] # NIL
    /\ helper.task \in TaskTypes => doc # NIL
    /\ helper.at = "idle" <=> helper.task = NIL
    /\ main \in Runs
    /\ main.copy # NIL <=> main.at # "idle"
    /\ stale \subseteq Holders /\ blind \subseteq Holders
    /\ held \in BOOLEAN /\ undone \in BOOLEAN /\ met \in BOOLEAN
    /\ since \in 0 .. Horizon
    /\ left \in 0 .. Tasks

\* What the request mapping accepts can be stored, and is read back as it was accepted
\* (update_service.go:19-121 against domain.go:60-165): no mapping of a record that a
\* handler has made, that is stored, or that is a copy of it fails, panics or changes it.
AcceptedIsStored ==
    \A d \in ({doc, helper.copy, main.copy} \cup {put[c] : c \in Clients}) \ {NIL} :
        Etcd[d.spec] = Ok(d.spec)

\* A reconcile that finds the rollout completed does nothing, whatever the states in
\* the record say (reconciliation.go:196-228): it does not roll back or pause over a
\* failure that was declared before.
CompletedIsLeftAlone == main.completed => main.what = "none" /\ ~main.rolled

RollStarts == main.at = "roll" /\ main'.rolled

\* Once a failure without automatic rollback has been saved, no Roll is started until an
\* Unpause is saved, in spite of Puts, rollbacks and deadlines in between
\* (reconciliation.go:206, 215-217) - or until a Put, a Pause or a rollback is saved whose
\* copy was read before the failure was saved, or a Put whose read failed: these take the
\* pause back unasked (update-service-grpc.go:52-55, worker.go:77).
FailureHolds == [][held => ~RollStarts]_vars

\* The reconcile declares the deployment failed.
Declares == main.at = "update" /\ main'.at = "fail" /\ main'.copy.states["Failure"]

\* A failure is declared only when more time than the deadline has passed since the last
\* Put or rollback that was saved was made (reconciliation.go:374-377, 586) - unless an
\* older copy has been saved over it (reconciliation.go:236), or the reconcile read its own
\* before it was saved.
FailuresAreSpaced ==
    [][Declares /\ ~undone /\ "main" \notin stale => since > main.copy.spec.deadline]_vars

\* An unpaused deployment that does not reach its wanted state is declared failed in the
\* end, however its apps come and go (reconciliation.go:584-594).
DeadlineActs ==
    (worker /\ Missing(doc, apps)) ~>
        (~worker \/ ~Missing(doc, apps) \/ (main.at = "fail" /\ main.copy.states["Failure"]))

\* README.md:107: deadlineExceeded is the "Number of seconds until deployment is considered
\* to fail if it does not meet its wanted state".
DeadlineGivesTime == [][Declares /\ main.copy.spec.deadline > 0 => ~met]_vars
=============================================================================
