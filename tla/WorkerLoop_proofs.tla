-------------------------- MODULE WorkerLoop_proofs --------------------------
(***************************************************************************)
(* For every capacity, every number of checks and every bound: the types,  *)
(* the signal protocol of reconcileChan, the order of the deferred calls,  *)
(* and room in interruptChan as long as the load stays within it.          *)
(***************************************************************************)
EXTENDS WorkerLoop, TLAPS

\* Types: the invariant is inductive on its own.
LEMMA InitType == Init => TypeOK
<1>1. MsgCap \in Nat /\ Checks \in Nat /\ MaxMsgs \in Nat /\ MaxErrs \in Nat
  BY WorkerLoopAssumption
<1> SUFFICES ASSUME Init PROVE TypeOK
  OBVIOUS
<1>2. passed \in 0 .. Checks /\ msgs \in 0 .. MsgCap /\ intr \in Nat
  BY <1>1 DEF Init
<1>3. msgsLeft \in Nat /\ errsLeft \in Nat
  BY <1>1 DEF Init
<1> QED BY <1>2, <1>3, Zenon DEF Init, TypeOK

\* Going back to wait is well-typed, whichever channel is read.
LEMMA EnterType ==
    TypeOK /\ EnterSelect => main' = "select" /\ woken' \in BOOLEAN /\ passed' = 0
<1> SUFFICES ASSUME TypeOK, EnterSelect
             PROVE  main' = "select" /\ woken' \in BOOLEAN /\ passed' = 0
  OBVIOUS
<1>1. woken' \in {shut, TRUE} /\ shut \in BOOLEAN
  BY DEF EnterSelect, TypeOK
<1>2. woken' \in BOOLEAN
  BY <1>1, Zenon
<1> QED BY <1>2 DEF EnterSelect

\* Every step writes well-typed values.
LEMMA NextType == TypeOK /\ [Next]_vars => TypeOK'
<1> SUFFICES ASSUME TypeOK, [Next]_vars PROVE TypeOK'
  OBVIOUS
<1>e. EnterSelect => main' = "select" /\ woken' \in BOOLEAN /\ passed' = 0
  BY EnterType
<1>0. /\ MsgCap \in Nat \ {0} /\ Checks \in Nat \ {0}
      /\ StopCheck \in Nat \ {0} /\ StopCheck < Checks
  BY WorkerLoopAssumption
<1> USE DEF TypeOK, reconciling, lifecycle
<1>1. CASE Register \/ Subscribe \/ SubscribeFails
  <2>1. CASE Register
    BY <2>1 DEF Register, Err
  <2>2. CASE Subscribe
    BY <2>2 DEF Subscribe, Err
  <2>3. CASE SubscribeFails
    BY <2>3 DEF SubscribeFails, Err
  <2> QED BY <1>1, <2>1, <2>2, <2>3
<1>2. CASE Publish
  BY <1>0, <1>2 DEF Publish
<1>3. CASE TimerFires
  BY <1>3 DEF TimerFires
<1>4. CASE HelperEnds \/ Rearm \/ TakeTick \/ CloseSignal
  <2>1. CASE HelperEnds
    BY <2>1 DEF HelperEnds
  <2>2. CASE Rearm
    BY <2>2 DEF Rearm
  <2>3. CASE TakeTick
    BY <2>3 DEF TakeTick
  <2>4. CASE CloseSignal
    BY <2>4 DEF CloseSignal
  <2> QED BY <1>4, <2>1, <2>2, <2>3, <2>4
<1>5. CASE Handle
  <2>1. {current', stopped'} \subseteq BOOLEAN
    BY <1>5, Zenon DEF Handle
  <2> QED BY <1>5, <2>1 DEF Handle
<1>6. CASE ReplaceSignal
  <2>1. shut' \in BOOLEAN
    BY <1>6, Zenon DEF ReplaceSignal
  <2> QED BY <1>6, <2>1 DEF ReplaceSignal
<1>7. CASE TakeMsg
  BY <1>0, <1>7 DEF TakeMsg
<1>8. CASE Push
  BY <1>8 DEF Push
<1>9. CASE HelperGetFails \/ TickGetFails
  BY <1>9 DEF HelperGetFails, TickGetFails, Err
<1>10. CASE Wake
  <2>1. woken' \in BOOLEAN
    BY <1>10, Zenon DEF Wake
  <2> QED BY <1>10, <2>1 DEF Wake
<1>11. CASE MainGet \/ Finish
  <2>1. CASE MainGet
    BY <1>0, <1>e, <2>1 DEF MainGet
  <2>2. CASE Finish
    <3>1. task' \in {"reconciled", "stored", "overwritten"}
      BY <2>2 DEF Finish
    <3> QED BY <1>0, <1>e, <2>2, <3>1 DEF Finish
  <2> QED BY <1>11, <2>1, <2>2
<1>12. CASE StopBranch(TRUE) \/ StopBranch(FALSE)
  <2>1. stopSent' \in BOOLEAN
    BY <1>12, Zenon DEF StopBranch
  <2>2. task' \in {"reconciled", "stored", "overwritten"}
    BY <1>12 DEF StopBranch
  <2> QED BY <1>0, <1>e, <1>12, <2>1, <2>2 DEF StopBranch
<1>13. CASE Abort
  BY <1>0, <1>e, <1>13 DEF Abort, AtCheck
<1>14. CASE Pass
  BY <1>0, <1>14 DEF Pass, AtCheck
<1>15. CASE MainGetFails \/ ErrorReturn
  BY <1>0, <1>e, <1>15 DEF MainGetFails, ErrorReturn, Err
<1>16. CASE ReceiveStop
  <2>1. stopSent' \in BOOLEAN /\ woken' \in BOOLEAN
    BY <1>16, Zenon DEF ReceiveStop
  <2> QED BY <1>16, <2>1 DEF ReceiveStop
<1>17. CASE Cancel
  BY <1>17 DEF Cancel
<1>18. CASE Unsubscribe
  <2>1. subscribed' \in BOOLEAN
    BY <1>18, Zenon DEF Unsubscribe
  <2> QED BY <1>18, <2>1 DEF Unsubscribe
<1>19. CASE Remove
  <2>1. mapped' \in BOOLEAN
    BY <1>19, Zenon DEF Remove
  <2> QED BY <1>19, <2>1 DEF Remove
<1>20. CASE UNCHANGED vars
  BY <1>20 DEF vars
<1> QED
  BY <1>1, <1>2, <1>3, <1>4, <1>5, <1>6, <1>7, <1>8, <1>9, <1>10, <1>11, <1>12,
     <1>13, <1>14, <1>15, <1>16, <1>17, <1>18, <1>19, <1>20
  DEF Next, HelperStep, MainStep

\* Every reachable state is well-typed.
THEOREM TypeCorrect == Spec => []TypeOK
BY InitType, NextType, PTL DEF Spec

-----------------------------------------------------------------------------
\* Where StartWorker is fixes what is registered, subscribed and cancelled.
LifecycleInv ==
    /\ mapped = (main \notin {"new", "gone"})
    /\ main \in {"new", "subscribe"} => helper = "none"
    /\ main \in {"new", "subscribe", "remove", "gone"} => ~subscribed
    /\ main \in {"drain"} => cancelled
    /\ main \in {"remove", "gone"} => (helper = "none" \/ cancelled)

\* Nothing is registered or subscribed at the start.
LEMMA InitLifecycle == Init => LifecycleInv
BY DEF Init, LifecycleInv

\* Every step keeps the lifecycle in order, the deferred calls too.
LEMMA NextLifecycle == LifecycleInv /\ [Next]_vars => LifecycleInv'
<1> SUFFICES ASSUME LifecycleInv, [Next]_vars PROVE LifecycleInv'
  OBVIOUS
<1> USE DEF LifecycleInv, reconciling, lifecycle
<1>1. CASE Register \/ Subscribe \/ SubscribeFails
  <2>1. CASE Register
    BY <2>1 DEF Register
  <2>2. CASE Subscribe
    BY <2>2 DEF Subscribe
  <2>3. CASE SubscribeFails
    BY <2>3 DEF SubscribeFails
  <2> QED BY <1>1, <2>1, <2>2, <2>3
<1>2. CASE Publish \/ TimerFires
  BY <1>2 DEF Publish, TimerFires
<1>3. CASE HelperEnds \/ TakeMsg \/ Push \/ Handle \/ Rearm
  BY <1>3 DEF HelperEnds, TakeMsg, Push, Handle, Rearm
<1>4. CASE TakeTick \/ CloseSignal \/ ReplaceSignal \/ HelperGetFails \/ TickGetFails
  BY <1>4 DEF TakeTick, CloseSignal, ReplaceSignal, HelperGetFails, TickGetFails
<1>5. CASE Wake \/ MainGet \/ Pass \/ ReceiveStop
  BY <1>5 DEF Wake, MainGet, Pass, AtCheck, ReceiveStop
<1>6. CASE MainGetFails \/ Abort \/ ErrorReturn
  BY <1>6 DEF MainGetFails, Abort, ErrorReturn, AtCheck, EnterSelect
<1>7. CASE StopBranch(TRUE) \/ StopBranch(FALSE) \/ Finish
  BY <1>7 DEF StopBranch, Finish, AtStopBranch, EnterSelect
<1>8. CASE Cancel \/ Unsubscribe \/ Remove
  <2>1. CASE Cancel
    BY <2>1 DEF Cancel
  <2>2. CASE Unsubscribe
    BY <2>2 DEF Unsubscribe
  <2>3. CASE Remove
    BY <2>3 DEF Remove
  <2> QED BY <1>8, <2>1, <2>2, <2>3
<1>9. CASE UNCHANGED vars
  BY <1>9 DEF vars
<1> QED
  BY <1>1, <1>2, <1>3, <1>4, <1>5, <1>6, <1>7, <1>8, <1>9 DEF Next, HelperStep, MainStep

\* The lifecycle is in order in every reachable state.
LEMMA LifecycleAlways == Spec => []LifecycleInv
BY InitLifecycle, NextLifecycle, PTL DEF Spec

\* The deferred calls leave nothing behind that could serve the next worker's tasks.
THEOREM RemovedIsQuietHolds == Spec => []RemovedIsQuiet
<1>1. LifecycleInv => RemovedIsQuiet
  BY DEF LifecycleInv, RemovedIsQuiet
<1> QED BY <1>1, LifecycleAlways, PTL

-----------------------------------------------------------------------------
\* The channel in the variable is closed only between close and make.
SignalInv == (shut => helper = "replace") /\ NoMissedSignal

\* The first channel is open.
LEMMA InitSignal == Init => SignalInv
BY DEF Init, SignalInv, NoMissedSignal

\* A close wakes who waits, and whoever comes later reads a closed channel or the
\* new one.
LEMMA NextSignal == TypeOK /\ LifecycleInv /\ SignalInv /\ [Next]_vars => SignalInv'
<1> SUFFICES ASSUME TypeOK, LifecycleInv, SignalInv, [Next]_vars PROVE SignalInv'
  OBVIOUS
<1> USE DEF SignalInv, NoMissedSignal, reconciling, lifecycle
<1>1. CASE Register \/ Subscribe \/ SubscribeFails \/ TimerFires
  <2>1. CASE Register
    BY <2>1 DEF Register, TypeOK
  <2>2. CASE Subscribe
    BY <2>2 DEF Subscribe, LifecycleInv
  <2>3. CASE SubscribeFails
    BY <2>3 DEF SubscribeFails, TypeOK
  <2>4. CASE TimerFires
    BY <2>4 DEF TimerFires, TypeOK
  <2> QED BY <1>1, <2>1, <2>2, <2>3, <2>4
<1>2. CASE Publish
  BY <1>2 DEF Publish
<1>3. CASE HelperEnds \/ TakeMsg \/ Push \/ Handle \/ Rearm \/ TakeTick
             \/ HelperGetFails \/ TickGetFails
  BY <1>3 DEF HelperEnds, TakeMsg, Push, Handle, Rearm, TakeTick, HelperGetFails,
              TickGetFails
<1>4. CASE CloseSignal
  BY <1>4 DEF CloseSignal
<1>5. CASE ReplaceSignal
  BY <1>5 DEF ReplaceSignal
<1>6. CASE MainGetFails \/ Abort \/ ErrorReturn \/ StopBranch(TRUE)
             \/ StopBranch(FALSE) \/ Finish
  <2>1. EnterSelect /\ shut' = shut /\ helper' = helper
    BY <1>6 DEF MainGetFails, Abort, ErrorReturn, StopBranch, Finish
  <2>2. woken' = shut \/ woken' = TRUE
    BY <2>1 DEF EnterSelect
  <2>3. ~woken' => ~shut'
    BY <2>1, <2>2, Zenon
  <2> QED BY <2>1, <2>3
<1>7. CASE Wake \/ MainGet \/ Pass \/ ReceiveStop \/ Cancel \/ Unsubscribe \/ Remove
  BY <1>7 DEF Wake, MainGet, Pass, AtCheck, ReceiveStop, Cancel, Unsubscribe, Remove
<1>8. CASE UNCHANGED vars
  BY <1>8 DEF vars
<1> QED
  BY <1>1, <1>2, <1>3, <1>4, <1>5, <1>6, <1>7, <1>8 DEF Next, HelperStep, MainStep

\* The signal protocol is kept in every reachable state.
LEMMA SignalAlways == Spec => []SignalInv
BY TypeCorrect, LifecycleAlways, InitSignal, NextSignal, PTL DEF Spec

\* A close always reaches a waiting main loop.
THEOREM NoMissedSignalHolds == Spec => []NoMissedSignal
<1>1. SignalInv => NoMissedSignal
  BY DEF SignalInv
<1> QED BY SignalAlways, <1>1, PTL

\* close(reconcileChan) never panics.
THEOREM ClosedOnceHolds == Spec => []ClosedOnce
<1>1. SignalInv => ClosedOnce
  BY DEF SignalInv, ClosedOnce
<1> QED BY SignalAlways, <1>1, PTL

-----------------------------------------------------------------------------
\* The environment's bound on tasks that are not absorbed yet.
LoadInv == Load <= MaxLoad

\* Nothing is on its way at the start.
LEMMA InitLoad == Init => LoadInv
BY WorkerLoopAssumption DEF Init, LoadInv, Load

\* One message more than a load below a bound is a load within it.
LEMMA OneMore ==
  ASSUME NEW m \in Nat, NEW n \in Nat, NEW i \in Nat, NEW h \in Nat,
         NEW bound \in Nat, n <= m + 1, m + i + h < bound
  PROVE  n + i + h <= bound
OBVIOUS

\* Handing a task on keeps the load; only Publish adds to it, within the bound.
LEMMA NextLoad == TypeOK /\ LoadInv /\ [Next]_vars => LoadInv'
<1> SUFFICES ASSUME TypeOK, LoadInv, [Next]_vars PROVE LoadInv'
  OBVIOUS
<1>0. MaxLoad \in Nat /\ MsgCap \in Nat /\ msgs \in Nat /\ intr \in Nat
  BY WorkerLoopAssumption DEF TypeOK
<1> USE DEF LoadInv, Load, reconciling, lifecycle
<1>1. CASE Publish
  <2> DEFINE inHand == IF helper = "push" THEN 1 ELSE 0
  <2>1. msgs' \in Nat /\ msgs' <= msgs + 1
    BY <1>0, <1>1 DEF Publish
  <2>2. inHand' = inHand /\ intr' = intr
    BY <1>1 DEF Publish
  <2>3. msgs + intr + inHand < MaxLoad
    BY <1>1 DEF Publish
  <2>4. inHand \in Nat
    OBVIOUS
  <2>5. msgs' + intr + inHand <= MaxLoad
    <3> HIDE DEF inHand, LoadInv, Load
    <3> QED BY <1>0, <2>1, <2>3, <2>4, OneMore
  <2>6. Load' = msgs' + intr' + inHand'
    OBVIOUS
  <2> QED
    <3> HIDE DEF inHand, Load
    <3> QED BY <2>2, <2>5, <2>6
<1>2. CASE TakeMsg
  BY <1>0, <1>2 DEF TakeMsg
<1>3. CASE Push
  <2>1. intr' = intr + 1
    BY <1>0, <1>3 DEF Push
  <2> QED BY <1>0, <1>3, <2>1 DEF Push
<1>4. CASE Abort
  <2>1. intr' = intr - 1 /\ intr' \in Nat
    BY <1>0, <1>4 DEF Abort
  <2> QED BY <1>0, <1>4, <2>1 DEF Abort
<1>5. CASE Register \/ Subscribe \/ SubscribeFails \/ TimerFires
  BY <1>0, <1>5 DEF Register, Subscribe, SubscribeFails, TimerFires, TypeOK
<1>6. CASE HelperEnds \/ Handle \/ Rearm \/ TakeTick \/ CloseSignal \/ ReplaceSignal
             \/ HelperGetFails \/ TickGetFails
  BY <1>0, <1>6 DEF HelperEnds, Handle, Rearm, TakeTick, CloseSignal, ReplaceSignal,
                    HelperGetFails, TickGetFails
<1>7. CASE Wake \/ MainGet \/ Pass \/ ReceiveStop \/ MainGetFails \/ ErrorReturn
             \/ StopBranch(TRUE) \/ StopBranch(FALSE) \/ Finish \/ Cancel
             \/ Unsubscribe \/ Remove
  BY <1>0, <1>7 DEF Wake, MainGet, Pass, ReceiveStop, MainGetFails, ErrorReturn,
                    StopBranch, Finish, Cancel, Unsubscribe, Remove
<1>8. CASE UNCHANGED vars
  BY <1>0, <1>8 DEF vars
<1> QED
  BY <1>1, <1>2, <1>3, <1>4, <1>5, <1>6, <1>7, <1>8 DEF Next, HelperStep, MainStep

\* No more load than interruptChan has room for: the helper is never held up, and
\* so the worker is never wedged.
THEOREM PushFindsRoomHolds ==
    MaxLoad <= InterruptCap => (Spec => [](PushFindsRoom /\ NeverWedged))
<1> SUFFICES ASSUME MaxLoad <= InterruptCap
             PROVE  Spec => [](PushFindsRoom /\ NeverWedged)
  OBVIOUS
<1>1. TypeOK /\ LoadInv => PushFindsRoom /\ NeverWedged
  <2> SUFFICES ASSUME TypeOK, LoadInv PROVE PushFindsRoom /\ NeverWedged
    OBVIOUS
  <2>1. /\ MaxLoad \in Nat /\ InterruptCap \in Nat
        /\ msgs \in Nat /\ intr \in Nat
    BY WorkerLoopAssumption DEF TypeOK
  <2>2. helper = "push" => intr < InterruptCap
    BY <2>1 DEF LoadInv, Load
  <2> QED BY <2>1, <2>2 DEF PushFindsRoom, NeverWedged
<1> QED BY <1>1, TypeCorrect, InitLoad, NextLoad, PTL DEF Spec

=============================================================================
