----------------------------- MODULE WorkerLoop -----------------------------
(***************************************************************************)
(* One worker: StartWorker's main loop, its helper goroutine and the four  *)
(* channels and the timer between them, from registration in the worker    *)
(* map to the deferred calls at the end.                                   *)
(*                                                                         *)
(* reconcileChan is signalled by closing it and is then replaced.  A       *)
(* channel that left the variable is always closed, so `shut' (is the      *)
(* channel in the variable closed?) and `woken' (is the one the main loop  *)
(* waits on closed?) are all there is to know about the generations.       *)
(*                                                                         *)
(* What a message says and what a reconcile does to apps is left out; kept *)
(* are the interrupt checks and the ways out between them.                 *)
(***************************************************************************)
EXTENDS Naturals

CONSTANTS
    MsgCap,        \* capacity of msgChan (100)
    InterruptCap,  \* capacity of interruptChan (10)
    Checks,        \* calls of IsReconcileInterrupted in Reconcile (10)
    StopCheck,     \* those before the Stopped branch (6)
    MaxLoad,       \* environment: tasks on their way plus waiting interrupts
    MaxMsgs,       \* bound: tasks published in all
    MaxErrs        \* bound: failed reads and early returns in all

ASSUME WorkerLoopAssumption ==
    /\ {MsgCap, InterruptCap, Checks, StopCheck} \subseteq Nat \ {0}
    /\ StopCheck < Checks
    /\ {MaxLoad, MaxMsgs, MaxErrs} \subseteq Nat

VARIABLES
    main,        \* where StartWorker is
    passed,      \* checks the current Reconcile has passed
    seesStop,    \* is Stopped set in the copy it works on?
    helper,      \* where the helper goroutine is
    msgs,        \* messages waiting in msgChan
    intr,        \* interrupts waiting in interruptChan
    timer,       \* cooldownTimer
    shut, woken, \* reconcileChan, see above
    stopped,     \* is Stopped set in the stored deployment?
    stopSent,    \* does a goroutine wait to send on stopChan?
    mapped,      \* is the topic in the worker map?
    subscribed,  \* does the subscription deliver?
    cancelled,   \* is parentCtx cancelled?
    current,     \* (auxiliary) has the Reconcile read what the last task stored?
    task,        \* (auxiliary) what became of that: it is stored, a reconcile that had
                 \* read it came to its end, or one that had not wrote over it
    msgsLeft, errsLeft

lifecycle == <<mapped, subscribed, cancelled>>
reconciling == <<passed, seesStop, current, task>>
vars == <<main, reconciling, helper, msgs, intr, timer, shut, woken, stopped,
          stopSent, lifecycle, msgsLeft, errsLeft>>

Init ==
    /\ main = "new" /\ helper = "none"
    /\ passed = 0 /\ seesStop = FALSE /\ current = FALSE /\ task = "reconciled"
    /\ msgs = 0 /\ intr = 0
    /\ timer = "off" /\ shut = FALSE /\ woken = FALSE
    /\ stopped = FALSE /\ stopSent = FALSE
    /\ mapped = FALSE /\ subscribed = FALSE /\ cancelled = FALSE
    /\ msgsLeft = MaxMsgs /\ errsLeft = MaxErrs

Err == errsLeft > 0 /\ errsLeft' = errsLeft - 1

-----------------------------------------------------------------------------
\* StartWorker up to its loop.

\* workerMap.Add, then SaveDeployment.
Register ==
    /\ main = "new"
    /\ mapped' = TRUE
    /\ main' = "subscribe"
    /\ UNCHANGED <<reconciling, helper, msgs, intr, timer, shut, woken, stopped,
                   stopSent, subscribed, cancelled, msgsLeft, errsLeft>>

Subscribe ==
    /\ main = "subscribe"
    /\ subscribed' = TRUE
    /\ timer' = "armed"
    /\ helper' = "select"
    /\ main' = "select" /\ woken' = shut
    /\ UNCHANGED <<reconciling, msgs, intr, shut, stopped, stopSent, mapped,
                   cancelled, msgsLeft, errsLeft>>

\* Without a subscription only workerMap.Remove is left to do.
SubscribeFails ==
    /\ main = "subscribe"
    /\ Err
    /\ main' = "remove"
    /\ UNCHANGED <<reconciling, helper, msgs, intr, timer, shut, woken, stopped,
                   stopSent, lifecycle, msgsLeft>>

-----------------------------------------------------------------------------
\* The environment: tasks are published, time passes.

\* Tasks on their way to being absorbed by a reconcile.
Load == msgs + intr + (IF helper = "push" THEN 1 ELSE 0)

\* The subscription delivers into msgChan; NATS drops what does not fit.
Publish ==
    /\ subscribed
    /\ msgsLeft > 0 /\ msgsLeft' = msgsLeft - 1
    /\ Load < MaxLoad
    /\ msgs' = IF msgs < MsgCap THEN msgs + 1 ELSE msgs
    /\ UNCHANGED <<main, reconciling, helper, intr, timer, shut, woken, stopped,
                   stopSent, lifecycle, errsLeft>>

TimerFires ==
    /\ timer = "armed"
    /\ timer' = "fired"
    /\ UNCHANGED <<main, reconciling, helper, msgs, intr, shut, woken, stopped,
                   stopSent, lifecycle, msgsLeft, errsLeft>>

-----------------------------------------------------------------------------
\* The helper goroutine.

HelperEnds ==
    /\ helper = "select" /\ cancelled
    /\ helper' = "gone"
    /\ UNCHANGED <<main, reconciling, msgs, intr, timer, shut, woken, stopped,
                   stopSent, lifecycle, msgsLeft, errsLeft>>

TakeMsg ==
    /\ helper = "select" /\ msgs > 0
    /\ msgs' = msgs - 1
    /\ helper' = "push"
    /\ UNCHANGED <<main, reconciling, intr, timer, shut, woken, stopped,
                   stopSent, lifecycle, msgsLeft, errsLeft>>

\* interruptChan <- struct{}{} blocks while the channel is full.
Push ==
    /\ helper = "push" /\ intr < InterruptCap
    /\ intr' = intr + 1
    /\ helper' = "get"
    /\ UNCHANGED <<main, reconciling, msgs, timer, shut, woken, stopped,
                   stopSent, lifecycle, msgsLeft, errsLeft>>

\* The task is dropped: no reply, and the cooldown is not restarted.
HelperGetFails ==
    /\ helper = "get"
    /\ Err
    /\ helper' = "select"
    /\ UNCHANGED <<main, reconciling, msgs, intr, timer, shut, woken, stopped,
                   stopSent, lifecycle, msgsLeft>>

\* HandleMessage stores what the task asks for: Stop and Delete set Stopped,
\* Put clears it, the others keep it.
Handle ==
    /\ helper = "get"
    /\ stopped' \in BOOLEAN
    /\ current' = FALSE /\ task' = "stored"
    /\ helper' = "rearm"
    /\ UNCHANGED <<main, passed, seesStop, msgs, intr, timer, shut, woken,
                   stopSent, lifecycle, msgsLeft, errsLeft>>

\* Stop, drain and Reset of the timer.
Rearm ==
    /\ helper = "rearm"
    /\ timer' = "armed"
    /\ helper' = "select"
    /\ UNCHANGED <<main, reconciling, msgs, intr, shut, woken, stopped,
                   stopSent, lifecycle, msgsLeft, errsLeft>>

TakeTick ==
    /\ helper = "select" /\ timer = "fired"
    /\ timer' = "off"
    /\ helper' = "tick"
    /\ UNCHANGED <<main, reconciling, msgs, intr, shut, woken, stopped,
                   stopSent, lifecycle, msgsLeft, errsLeft>>

TickGetFails ==
    /\ helper = "tick"
    /\ Err
    /\ timer' = "armed"
    /\ helper' = "select"
    /\ UNCHANGED <<main, reconciling, msgs, intr, shut, woken, stopped,
                   stopSent, lifecycle, msgsLeft>>

\* (mutant) the timer is not reset
CloseSignalOnce ==
    /\ helper = "tick"
    /\ timer' = "off"
    /\ shut' = TRUE
    /\ woken' = (woken \/ main = "select")
    /\ helper' = "replace"
    /\ UNCHANGED <<main, reconciling, msgs, intr, stopped, stopSent, lifecycle,
                   msgsLeft, errsLeft>>

\* (mutant) a periodic reconcile interrupts too
CloseSignalInterrupts ==
    /\ helper = "tick"
    /\ timer' = "armed"
    /\ shut' = TRUE
    /\ woken' = (woken \/ main = "select")
    /\ intr' = intr + 1
    /\ helper' = "replace"
    /\ UNCHANGED <<main, reconciling, msgs, stopped, stopSent, lifecycle,
                   msgsLeft, errsLeft>>

\* Reset to the reconcile period and close(reconcileChan): heard only by a main
\* loop that is waiting.
CloseSignal ==
    /\ helper = "tick"
    /\ timer' = "armed"
    /\ shut' = TRUE
    /\ woken' = (woken \/ main = "select")
    /\ helper' = "replace"
    /\ UNCHANGED <<main, reconciling, msgs, intr, stopped, stopSent, lifecycle,
                   msgsLeft, errsLeft>>

\* (mutant) the channel is not replaced
ReplaceSignalNot ==
    /\ helper = "replace"
    /\ helper' = "select"
    /\ UNCHANGED <<main, reconciling, msgs, intr, timer, shut, woken, stopped,
                   stopSent, lifecycle, msgsLeft, errsLeft>>

\* reconcileChan = make(chan struct{})
ReplaceSignal ==
    /\ helper = "replace"
    /\ shut' = FALSE
    /\ helper' = "select"
    /\ UNCHANGED <<main, reconciling, msgs, intr, timer, woken, stopped,
                   stopSent, lifecycle, msgsLeft, errsLeft>>

-----------------------------------------------------------------------------
\* The main loop.  Entering select reads the variable reconcileChan, which the helper
\* writes without synchronisation: the read may return a channel that has been
\* replaced, and every such channel is closed.

\* (mutant) a signal is heard only while waiting
EnterSelectDeaf == main' = "select" /\ woken' = FALSE /\ passed' = 0

EnterSelect == main' = "select" /\ woken' \in {shut, TRUE} /\ passed' = 0

Wake ==
    /\ main = "select" /\ woken
    /\ main' = "get" /\ woken' = FALSE
    /\ UNCHANGED <<reconciling, helper, msgs, intr, timer, shut, stopped,
                   stopSent, lifecycle, msgsLeft, errsLeft>>

MainGetFails ==
    /\ main = "get"
    /\ Err
    /\ EnterSelect
    /\ UNCHANGED <<seesStop, current, task, helper, msgs, intr, timer, shut,
                   stopped, stopSent, lifecycle, msgsLeft>>

MainGet ==
    /\ main = "get"
    /\ main' = "reconcile" /\ passed' = 0
    /\ seesStop' = stopped /\ current' = TRUE
    /\ UNCHANGED <<task, helper, msgs, intr, timer, shut, woken, stopped,
                   stopSent, lifecycle, msgsLeft, errsLeft>>

AtStopBranch == main = "reconcile" /\ passed = StopCheck /\ seesStop
\* (mutant) one check too many
AtCheckOneMore == main = "reconcile" /\ passed <= Checks /\ ~AtStopBranch
AtCheck == main = "reconcile" /\ passed < Checks /\ ~AtStopBranch

\* IsReconcileInterrupted, true: one interrupt is consumed, the reconcile ends.
Abort ==
    /\ AtCheck /\ intr > 0
    /\ intr' = intr - 1
    /\ EnterSelect
    /\ UNCHANGED <<seesStop, current, task, helper, msgs, timer, shut, stopped,
                   stopSent, lifecycle, msgsLeft, errsLeft>>

\* IsReconcileInterrupted, false.
Pass ==
    /\ AtCheck /\ intr = 0
    /\ passed' = passed + 1
    /\ UNCHANGED <<main, seesStop, current, task, helper, msgs, intr, timer, shut,
                   woken, stopped, stopSent, lifecycle, msgsLeft, errsLeft>>

\* The work between two checks fails.
ErrorReturn ==
    /\ AtCheck /\ passed > 0
    /\ Err
    /\ EnterSelect
    /\ UNCHANGED <<seesStop, current, task, helper, msgs, intr, timer, shut,
                   stopped, stopSent, lifecycle, msgsLeft>>

\* (mutant) the signal is not sent
StopBranchSilent(gone) ==
    /\ AtStopBranch
    /\ task' = IF current THEN "reconciled" ELSE task
    /\ EnterSelect
    /\ UNCHANGED <<seesStop, current, helper, msgs, intr, timer, shut, stopped,
                   stopSent, lifecycle, msgsLeft, errsLeft>>

\* Stopped: apps are left (gone = FALSE) or a goroutine sends on stopChan.
StopBranch(gone) ==
    /\ AtStopBranch
    /\ stopSent' = (stopSent \/ gone)
    /\ task' = IF current THEN "reconciled" ELSE task
    /\ EnterSelect
    /\ UNCHANGED <<seesStop, current, helper, msgs, intr, timer, shut, stopped,
                   lifecycle, msgsLeft, errsLeft>>

\* All checks passed: SaveDeployment writes the copy back, whatever a task has stored
\* since it was read.
Finish ==
    /\ main = "reconcile" /\ passed = Checks
    /\ stopped' = seesStop
    /\ task' = IF current THEN "reconciled" ELSE "overwritten"
    /\ EnterSelect
    /\ UNCHANGED <<seesStop, current, helper, msgs, intr, timer, shut, stopSent,
                   lifecycle, msgsLeft, errsLeft>>

ReceiveStop ==
    /\ main = "select" /\ stopSent
    /\ stopSent' = FALSE
    /\ main' = "cancel" /\ woken' = FALSE
    /\ UNCHANGED <<reconciling, helper, msgs, intr, timer, shut, stopped,
                   lifecycle, msgsLeft, errsLeft>>

\* (mutant) the subscription is not ended
CancelOnly ==
    /\ main = "cancel"
    /\ cancelled' = TRUE
    /\ main' = "remove"
    /\ UNCHANGED <<reconciling, helper, msgs, intr, timer, shut, woken, stopped,
                   stopSent, mapped, subscribed, msgsLeft, errsLeft>>

\* The deferred calls, last registered first.
Cancel ==
    /\ main = "cancel"
    /\ cancelled' = TRUE
    /\ main' = "drain"
    /\ UNCHANGED <<reconciling, helper, msgs, intr, timer, shut, woken, stopped,
                   stopSent, mapped, subscribed, msgsLeft, errsLeft>>

Unsubscribe ==
    /\ main = "drain"
    /\ subscribed' = FALSE
    /\ main' = "remove"
    /\ UNCHANGED <<reconciling, helper, msgs, intr, timer, shut, woken, stopped,
                   stopSent, mapped, cancelled, msgsLeft, errsLeft>>

Remove ==
    /\ main = "remove"
    /\ mapped' = FALSE
    /\ main' = "gone"
    /\ UNCHANGED <<reconciling, helper, msgs, intr, timer, shut, woken, stopped,
                   stopSent, subscribed, cancelled, msgsLeft, errsLeft>>

-----------------------------------------------------------------------------
HelperStep ==
    \/ HelperEnds \/ TakeMsg \/ Push \/ Handle \/ Rearm
    \/ TakeTick \/ CloseSignal \/ ReplaceSignal

MainStep ==
    \/ Wake \/ MainGet \/ Abort \/ Pass \/ Finish
    \/ StopBranch(TRUE) \/ StopBranch(FALSE)
    \/ Cancel \/ Unsubscribe \/ Remove

Next ==
    \/ Register \/ Subscribe \/ SubscribeFails
    \/ Publish \/ TimerFires
    \/ HelperStep \/ HelperGetFails \/ TickGetFails
    \/ MainStep \/ ReceiveStop \/ MainGetFails \/ ErrorReturn

Spec == Init /\ [][Next]_vars

\* Goroutines that can run do; timers fire; select does not neglect a ready
\* stopChan for ever, and apps do not hold up a stop for ever.
Fairness ==
    /\ WF_vars(Register) /\ WF_vars(Subscribe)
    /\ WF_vars(TimerFires)
    /\ WF_vars(HelperStep)
    /\ WF_vars(MainStep)
    /\ SF_vars(ReceiveStop) /\ SF_vars(StopBranch(TRUE))

FairSpec == Spec /\ Fairness

-----------------------------------------------------------------------------
(* Properties *)

TypeOK ==
    /\ main \in {"new", "subscribe", "select", "get", "reconcile",
                 "cancel", "drain", "remove", "gone"}
    /\ passed \in 0 .. Checks
    /\ helper \in {"none", "select", "push", "get", "rearm", "tick", "replace", "gone"}
    /\ msgs \in 0 .. MsgCap
    /\ intr \in Nat
    /\ timer \in {"off", "armed", "fired"}
    /\ seesStop \in BOOLEAN /\ current \in BOOLEAN
    /\ task \in {"reconciled", "stored", "overwritten"}
    /\ shut \in BOOLEAN /\ woken \in BOOLEAN
    /\ stopped \in BOOLEAN /\ stopSent \in BOOLEAN
    /\ mapped \in BOOLEAN /\ subscribed \in BOOLEAN /\ cancelled \in BOOLEAN
    /\ msgsLeft \in Nat /\ errsLeft \in Nat

\* As long as no more than InterruptCap tasks are on their way at a time, the
\* helper's blocking send (worker.go:75) finds room: a task is never held up.
PushFindsRoom == helper = "push" => intr < InterruptCap

\* A main loop that waits is waiting on the channel the helper will close next:
\* the close cannot miss it, though the channel is replaced behind its back
\* (worker.go:107-108, 123).
NoMissedSignal == (main = "select" /\ ~woken) => ~shut

\* The helper never closes a channel twice, which would panic (worker.go:107).
ClosedOnce == helper = "tick" => ~shut

\* A topic that is free for the next worker has no subscription left, and the
\* helper of the last worker has been told to end (worker.go:34, 49, 58).
RemovedIsQuiet == ~mapped => (~subscribed /\ (helper = "none" \/ cancelled))

\* What a task has stored does not wait for ever: a reconcile that has read it comes to
\* its end, or the worker ends (worker.go:70, README.md:110) - or the reconcile that read
\* the record before the task stored it passes all its checks, the interrupt being sent
\* before the task is stored (worker.go:75-82), and writes the older record over it
\* (reconciliation.go:236).
TaskIsReconciled == task = "stored" ~> (task # "stored" \/ main = "gone")

\* A deployment that stays stopped loses its worker.
StopEndsWorker == []<>stopped => <>(main = "gone")

\* A worker that waits for a signal has a helper that can send it: not one that
\* waits for room that only the main loop makes (worker.go:36-38, 70).
NeverWedged ==
    ~ (/\ main = "select" /\ ~woken /\ ~stopSent
       /\ helper = "push" /\ intr = InterruptCap)

=============================================================================
