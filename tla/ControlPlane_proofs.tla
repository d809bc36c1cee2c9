------------------------ MODULE ControlPlane_proofs ------------------------
(***************************************************************************)
(* For any number of concurrent calls, failures and restarts: the types,   *)
(* that the worker map lets one worker at most run, that an OK means the   *)
(* record is written, and that a task is applied once.                     *)
(***************************************************************************)
EXTENDS ControlPlane, TLAPS

\* TypeOK is not inductive by itself: a task and a copy have the right type
\* because of where the helper and the main loop are.
WorkerOK(r) ==
    /\ r.main \in {"add", "first", "work", "save"} => r.copy \in Doc
    /\ r.helper \in {"get", "apply"} => r.task \in Clients
    /\ r.helper = "apply" => r.held \in Doc

TypeInv ==
    /\ TypeOK
    /\ \A w \in Clients : WorkerOK(wk[w])

\* Records stay records: a new one, and the updates the tasks make.
LEMMA DocUpdates ==
    /\ \A c \in Clients : NewDoc(c) \in Doc
    /\ \A d, e \in Doc : [d EXCEPT !.paused = e.paused] \in Doc
    /\ \A d \in Doc : /\ d.paused \in BOOLEAN
                      /\ [d EXCEPT !.paused = TRUE] \in Doc
                      /\ [d EXCEPT !.paused = FALSE] \in Doc
                      /\ [d EXCEPT !.paused = d.paused] \in Doc
                      /\ [d EXCEPT !.stopped = TRUE] \in Doc
                      /\ [d EXCEPT !.stopped = TRUE, !.deleted = TRUE] \in Doc
BY DEF NewDoc, Doc

\* The initial state is well-typed: nothing has been called or spawned.
LEMMA InitTypeInv == Init => TypeInv
<1> SUFFICES ASSUME Init PROVE TypeInv
  OBVIOUS
<1>1. NoWorker \in Worker
  BY DEF NoWorker, Worker
<1>2. Crashes \in Nat /\ Errs \in Nat
  BY ControlPlaneAssumption
<1>3. wk \in [Clients -> Worker]
  BY <1>1 DEF Init
<1>4. req \in [Clients -> Request]
  <2> PICK kind \in [Clients -> Kinds] :
         req = [c \in Clients |-> [pc |-> "idle", kind |-> kind[c], doc |-> NewDoc(c)]]
    BY DEF Init
  <2> QED BY DocUpdates DEF Request
<1>5. TypeOK
  BY <1>2, <1>3, <1>4 DEF Init, TypeOK
<1>6. \A w \in Clients : wk[w].main = "none" /\ wk[w].helper = "none"
  BY DEF Init, NoWorker
<1> QED BY <1>5, <1>6 DEF TypeInv, WorkerOK

\* Workers that are spawned, or that a restart ends, are well-typed.
LEMMA NewWorkers ==
    /\ NoWorker \in Worker
    /\ \A d \in Doc : LET r == [NoWorker EXCEPT !.main = "add", !.copy = d] IN
                       r \in Worker /\ WorkerOK(r) /\ r.main = "add"
    /\ LET r == [NoWorker EXCEPT !.main = "gone"] IN
       r \in Worker /\ WorkerOK(r) /\ r.main = "gone"
<1>1. NoWorker \in Worker /\ NoWorker.helper = "none"
  BY DEF NoWorker, Worker
<1>2. ASSUME NEW d \in Doc
      PROVE  LET r == [NoWorker EXCEPT !.main = "add", !.copy = d] IN
             r \in Worker /\ WorkerOK(r) /\ r.main = "add"
  BY <1>1 DEF Worker, WorkerOK
<1>3. LET r == [NoWorker EXCEPT !.main = "gone"] IN
      r \in Worker /\ WorkerOK(r) /\ r.main = "gone"
  BY <1>1 DEF Worker, WorkerOK
<1> QED BY <1>1, <1>2, <1>3

\* A step that updates one worker, and calls or not, keeps the invariant when what
\* it writes is well-typed.
LEMMA StepKeepsTypes ==
    ASSUME TypeInv, NEW w \in Clients, NEW r \in Worker, WorkerOK(r),
           wk' = [wk EXCEPT ![w] = r],
           req' \in [Clients -> Request],
           store' \in Doc \cup {None}, mapped' \in BOOLEAN, saved' \subseteq Clients,
           crashes' \in Nat, errs' \in Nat
    PROVE  TypeInv'
<1>1. wk' \in [Clients -> Worker]
  BY DEF TypeInv, TypeOK
<1>2. \A v \in Clients : wk'[v] = IF v = w THEN r ELSE wk[v]
  BY DEF TypeInv, TypeOK
<1>3. \A v \in Clients : WorkerOK(wk'[v])
  BY <1>2 DEF TypeInv
<1>4. TypeOK'
  BY <1>1 DEF TypeOK
<1> QED BY <1>3, <1>4 DEF TypeInv, WorkerOK

\* The main loop and the helper of one worker.
LEMMA WorkerTypes ==
    ASSUME TypeInv, NEW w \in Clients, Helper(w) \/ Main(w) \/ ErrorReturn(w)
    PROVE  TypeInv'
<1> USE DEF TypeInv, TypeOK
<1> DEFINE me == wk[w]
<1>0. /\ wk \in [Clients -> Worker] /\ me \in Worker /\ WorkerOK(me)
      /\ me.queue \in Seq(Clients) /\ me.intr \in Nat
      /\ store \in Doc \cup {None} /\ saved \subseteq Clients /\ errs \in Nat
  BY DEF Worker
<1>1. CASE Add(w)
  <2> DEFINE r == [me EXCEPT !.main = IF mapped THEN "gone" ELSE "first"]
  <2>2. r \in Worker /\ WorkerOK(r)
    BY <1>1, <1>0 DEF Worker, WorkerOK, Add
  <2>3. wk' = [wk EXCEPT ![w] = r]
    BY <1>1, <1>0 DEF Add
  <2>4. /\ store' \in Doc \cup {None} /\ saved' \subseteq Clients /\ errs' \in Nat
        /\ mapped' \in BOOLEAN /\ UNCHANGED <<req, crashes>>
    BY <1>1, <1>0 DEF Add
  <2> HIDE DEF r, me
  <2> QED BY <2>2, <2>3, <2>4, StepKeepsTypes
<1>2. CASE FirstSave(w)
  <2> DEFINE r == [me EXCEPT !.main = "subscribe"]
  <2>2. r \in Worker /\ WorkerOK(r)
    BY <1>2, <1>0 DEF Worker, WorkerOK, FirstSave
  <2>3. wk' = [wk EXCEPT ![w] = r]
    BY <1>2, <1>0 DEF FirstSave
  <2>4. /\ store' \in Doc \cup {None} /\ saved' \subseteq Clients /\ errs' \in Nat
        /\ mapped' \in BOOLEAN /\ UNCHANGED <<req, crashes>>
    BY <1>2, <1>0 DEF FirstSave, Err, WorkerOK
  <2> HIDE DEF r, me
  <2> QED BY <2>2, <2>3, <2>4, StepKeepsTypes
<1>3. CASE Subscribe(w)
  <2> DEFINE r == [me EXCEPT !.main = "select", !.helper = "select", !.subscribed = TRUE]
  <2> DEFINE s == [me EXCEPT !.main = "remove"]
  <2>2. /\ r \in Worker /\ WorkerOK(r)
        /\ s \in Worker /\ WorkerOK(s)
    BY <1>3, <1>0 DEF Worker, WorkerOK, Subscribe
  <2>3. wk' = [wk EXCEPT ![w] = r] \/ wk' = [wk EXCEPT ![w] = s]
    BY <1>3, <1>0 DEF Subscribe
  <2>4. /\ store' \in Doc \cup {None} /\ saved' \subseteq Clients /\ errs' \in Nat
        /\ mapped' \in BOOLEAN /\ UNCHANGED <<req, crashes>>
    BY <1>3, <1>0 DEF Subscribe, Err
  <2> HIDE DEF r, s, me
  <2> QED BY <2>2, <2>3, <2>4, StepKeepsTypes
<1>4. CASE Take(w)
  <2>1. Head(me.queue) \in Clients /\ Tail(me.queue) \in Seq(Clients) /\ me.intr + 1 \in Nat
    BY <1>4, <1>0 DEF Take
  <2> DEFINE r == [me EXCEPT !.helper = "get",
                             !.task = Head(me.queue),
                             !.queue = Tail(me.queue),
                             !.intr = me.intr + 1]
  <2>2. r \in Worker /\ WorkerOK(r)
    <3>1. r \in Worker
      BY <1>0, <2>1 DEF Worker
    <3>2. r.main = me.main /\ r.copy = me.copy /\ r.helper = "get" /\ r.task \in Clients
      BY <1>0, <2>1 DEF Worker
    <3> QED BY <3>1, <3>2, <1>0 DEF WorkerOK
  <2>3. wk' = [wk EXCEPT ![w] = r]
    BY <1>4, <1>0 DEF Take
  <2>4. /\ store' \in Doc \cup {None} /\ saved' \subseteq Clients /\ errs' \in Nat
        /\ mapped' \in BOOLEAN /\ UNCHANGED <<req, crashes>>
    BY <1>4, <1>0 DEF Take
  <2> HIDE DEF r, me
  <2> QED BY <2>2, <2>3, <2>4, StepKeepsTypes
<1>5. CASE HelperGet(w)
  <2> PICK found \in {store, None} :
           wk' = [wk EXCEPT ![w] =
                    [me EXCEPT !.helper = IF found = None THEN "select" ELSE "apply",
                               !.held = found]]
    BY <1>5 DEF HelperGet
  <2> DEFINE r == [me EXCEPT !.helper = IF found = None THEN "select" ELSE "apply",
                             !.held = found]
  <2>2. r \in Worker /\ WorkerOK(r)
    BY <1>5, <1>0 DEF Worker, WorkerOK, HelperGet
  <2>3. wk' = [wk EXCEPT ![w] = r]
    BY <1>5, <1>0 DEF HelperGet
  <2>4. /\ store' \in Doc \cup {None} /\ saved' \subseteq Clients /\ errs' \in Nat
        /\ mapped' \in BOOLEAN /\ UNCHANGED <<req, crashes>>
    BY <1>5, <1>0 DEF HelperGet, Err
  <2> HIDE DEF r, me
  <2> QED BY <2>2, <2>3, <2>4, StepKeepsTypes
<1>6. CASE HelperEnds(w)
  <2> DEFINE r == [me EXCEPT !.helper = "gone"]
  <2>2. r \in Worker /\ WorkerOK(r)
    BY <1>6, <1>0 DEF Worker, WorkerOK, HelperEnds
  <2>3. wk' = [wk EXCEPT ![w] = r]
    BY <1>6, <1>0 DEF HelperEnds
  <2>4. /\ store' \in Doc \cup {None} /\ saved' \subseteq Clients /\ errs' \in Nat
        /\ mapped' \in BOOLEAN /\ UNCHANGED <<req, crashes>>
    BY <1>6, <1>0 DEF HelperEnds
  <2> HIDE DEF r, me
  <2> QED BY <2>2, <2>3, <2>4, StepKeepsTypes
<1>7. CASE MainGet(w)
  <2> DEFINE r == [me EXCEPT !.main = "work", !.copy = store]
  <2>2. r \in Worker /\ WorkerOK(r)
    BY <1>7, <1>0 DEF Worker, WorkerOK, MainGet
  <2>3. wk' = [wk EXCEPT ![w] = r]
    BY <1>7, <1>0 DEF MainGet
  <2>4. /\ store' \in Doc \cup {None} /\ saved' \subseteq Clients /\ errs' \in Nat
        /\ mapped' \in BOOLEAN /\ UNCHANGED <<req, crashes>>
    BY <1>7, <1>0 DEF MainGet
  <2> HIDE DEF r, me
  <2> QED BY <2>2, <2>3, <2>4, StepKeepsTypes
<1>8. CASE Abort(w)
  <2>1. me.intr - 1 \in Nat
    BY <1>8, <1>0 DEF Abort
  <2> DEFINE r == [me EXCEPT !.main = "select", !.intr = me.intr - 1]
  <2>2. r \in Worker /\ WorkerOK(r)
    BY <1>8, <1>0, <2>1 DEF Worker, WorkerOK, Abort
  <2>3. wk' = [wk EXCEPT ![w] = r]
    BY <1>8, <1>0 DEF Abort
  <2>4. /\ store' \in Doc \cup {None} /\ saved' \subseteq Clients /\ errs' \in Nat
        /\ mapped' \in BOOLEAN /\ UNCHANGED <<req, crashes>>
    BY <1>8, <1>0 DEF Abort
  <2> HIDE DEF r, me
  <2> QED BY <2>2, <2>3, <2>4, StepKeepsTypes
<1>9. CASE ErrorReturn(w)
  <2> DEFINE r == [me EXCEPT !.main = "select"]
  <2>2. r \in Worker /\ WorkerOK(r)
    BY <1>9, <1>0 DEF Worker, WorkerOK, ErrorReturn
  <2>3. wk' = [wk EXCEPT ![w] = r]
    BY <1>9, <1>0 DEF ErrorReturn
  <2>4. /\ store' \in Doc \cup {None} /\ saved' \subseteq Clients /\ errs' \in Nat
        /\ mapped' \in BOOLEAN /\ UNCHANGED <<req, crashes>>
    BY <1>9, <1>0 DEF ErrorReturn, Err
  <2> HIDE DEF r, me
  <2> QED BY <2>2, <2>3, <2>4, StepKeepsTypes
<1>10. CASE DecideStopped(w)
  <2> DEFINE r == [me EXCEPT !.main = "select"]
  <2> DEFINE s == [me EXCEPT !.main = "erase"]
  <2> DEFINE t == [me EXCEPT !.main = "select", !.stopSent = TRUE]
  <2>2. /\ r \in Worker /\ WorkerOK(r)
        /\ s \in Worker /\ WorkerOK(s)
        /\ t \in Worker /\ WorkerOK(t)
    BY <1>10, <1>0 DEF Worker, WorkerOK, DecideStopped
  <2>3. wk' = [wk EXCEPT ![w] = r] \/ wk' = [wk EXCEPT ![w] = s] \/ wk' = [wk EXCEPT ![w] = t]
    BY <1>10, <1>0 DEF DecideStopped
  <2>4. /\ store' \in Doc \cup {None} /\ saved' \subseteq Clients /\ errs' \in Nat
        /\ mapped' \in BOOLEAN /\ UNCHANGED <<req, crashes>>
    BY <1>10, <1>0 DEF DecideStopped
  <2> HIDE DEF r, s, t, me
  <2> QED BY <2>2, <2>3, <2>4, StepKeepsTypes
<1>11. CASE Erase(w)
  <2> DEFINE r == [me EXCEPT !.main = "select", !.stopSent = TRUE]
  <2>2. r \in Worker /\ WorkerOK(r)
    BY <1>11, <1>0 DEF Worker, WorkerOK, Erase
  <2>3. wk' = [wk EXCEPT ![w] = r]
    BY <1>11, <1>0 DEF Erase
  <2>4. /\ store' \in Doc \cup {None} /\ saved' \subseteq Clients /\ errs' \in Nat
        /\ mapped' \in BOOLEAN /\ UNCHANGED <<req, crashes>>
    BY <1>11, <1>0 DEF Erase, Err
  <2> HIDE DEF r, me
  <2> QED BY <2>2, <2>3, <2>4, StepKeepsTypes
<1>12. CASE DecideRun(w)
  <2> PICK p \in {me.copy.paused, TRUE} :
           wk' = [wk EXCEPT ![w] =
                    [me EXCEPT !.main = "save", !.copy = [me.copy EXCEPT !.paused = p]]]
    BY <1>12 DEF DecideRun
  <2>1. [me.copy EXCEPT !.paused = p] \in Doc
    BY <1>12, <1>0, DocUpdates DEF DecideRun, WorkerOK
  <2> DEFINE r == [me EXCEPT !.main = "save", !.copy = [me.copy EXCEPT !.paused = p]]
  <2>2. r \in Worker /\ WorkerOK(r)
    BY <1>12, <1>0, <2>1 DEF Worker, WorkerOK, DecideRun
  <2>3. wk' = [wk EXCEPT ![w] = r]
    BY <1>12, <1>0 DEF DecideRun
  <2>4. /\ store' \in Doc \cup {None} /\ saved' \subseteq Clients /\ errs' \in Nat
        /\ mapped' \in BOOLEAN /\ UNCHANGED <<req, crashes>>
    BY <1>12, <1>0 DEF DecideRun
  <2> HIDE DEF r, me
  <2> QED BY <2>2, <2>3, <2>4, StepKeepsTypes
<1>13. CASE Save(w)
  <2> DEFINE r == [me EXCEPT !.main = "select"]
  <2>2. r \in Worker /\ WorkerOK(r)
    BY <1>13, <1>0 DEF Worker, WorkerOK, Save
  <2>3. wk' = [wk EXCEPT ![w] = r]
    BY <1>13, <1>0 DEF Save
  <2>4. /\ store' \in Doc \cup {None} /\ saved' \subseteq Clients /\ errs' \in Nat
        /\ mapped' \in BOOLEAN /\ UNCHANGED <<req, crashes>>
    BY <1>13, <1>0 DEF Save, Err, WorkerOK
  <2> HIDE DEF r, me
  <2> QED BY <2>2, <2>3, <2>4, StepKeepsTypes
<1>14. CASE ReceiveStop(w)
  <2> DEFINE r == [me EXCEPT !.main = "remove", !.subscribed = FALSE]
  <2>2. r \in Worker /\ WorkerOK(r)
    BY <1>14, <1>0 DEF Worker, WorkerOK, ReceiveStop
  <2>3. wk' = [wk EXCEPT ![w] = r]
    BY <1>14, <1>0 DEF ReceiveStop
  <2>4. /\ store' \in Doc \cup {None} /\ saved' \subseteq Clients /\ errs' \in Nat
        /\ mapped' \in BOOLEAN /\ UNCHANGED <<req, crashes>>
    BY <1>14, <1>0 DEF ReceiveStop
  <2> HIDE DEF r, me
  <2> QED BY <2>2, <2>3, <2>4, StepKeepsTypes
<1>15. CASE Remove(w)
  <2> DEFINE r == [me EXCEPT !.main = "gone"]
  <2>2. r \in Worker /\ WorkerOK(r)
    BY <1>15, <1>0 DEF Worker, WorkerOK, Remove
  <2>3. wk' = [wk EXCEPT ![w] = r]
    BY <1>15, <1>0 DEF Remove
  <2>4. /\ store' \in Doc \cup {None} /\ saved' \subseteq Clients /\ errs' \in Nat
        /\ UNCHANGED <<req, crashes>>
    BY <1>15, <1>0 DEF Remove
  <2>5. mapped' \in BOOLEAN
    BY <1>15, Zenon DEF Remove
  <2> HIDE DEF r, me
  <2> QED BY <2>2, <2>3, <2>4, <2>5, StepKeepsTypes
<1>16. CASE Apply(w)
  <2>1. store' \in Doc \cup {None} /\ saved' \subseteq Clients /\ errs' \in Nat
    <3>1. me.task \in Clients /\ me.held \in Doc
      BY <1>16, <1>0 DEF Apply, WorkerOK
    <3>2. req[me.task].kind \in AllKinds /\ req[me.task].doc \in Doc
      BY <3>1, ControlPlaneAssumption DEF Request
    <3>3. Applied(me.task, me.held) \in Doc
      BY <3>1, <3>2, DocUpdates DEF Applied, AllKinds
    <3> QED BY <1>16, <1>0, <3>1, <3>3 DEF Apply, Err
  <2>2. req' \in [Clients -> Request]
    BY <1>16 DEF Apply, Reply, Request
  <2> DEFINE r == [me EXCEPT !.helper = "select"]
  <2>4. r \in Worker /\ WorkerOK(r)
    BY <1>0 DEF Worker, WorkerOK
  <2>5. wk' = [wk EXCEPT ![w] = r]
    BY <1>16, <1>0 DEF Apply
  <2> HIDE DEF r, me
  <2> QED BY <1>16, <2>1, <2>2, <2>4, <2>5, StepKeepsTypes DEF Apply
<1> QED
  BY <1>1, <1>2, <1>3, <1>4, <1>5, <1>6, <1>7, <1>8, <1>9, <1>10, <1>11, <1>12, <1>13,
     <1>14, <1>15, <1>16
  DEF Helper, Main

\* The handler of one call.
LEMMA CallTypes ==
    ASSUME TypeInv, NEW c \in Clients, Handler(c) \/ SendFails(c) \/ DeleteFails(c) \/ Timeout(c)
    PROVE  TypeInv'
<1> USE DEF TypeInv, TypeOK
<1>0. req \in [Clients -> Request] /\ req[c] \in Request
  OBVIOUS
<1>1. CASE Call(c)
  <2> PICK found \in {store, None} :
           /\ IF found = store THEN UNCHANGED errs ELSE Err
           /\ req' = [req EXCEPT ![c] =
                CASE req[c].kind = "put" ->
                       [req[c] EXCEPT !.pc = "check",
                                      !.doc = IF found = None THEN req[c].doc
                                              ELSE [req[c].doc EXCEPT !.paused = found.paused]]
                  [] req[c].kind \in {"stop", "delete"} ->
                       [req[c] EXCEPT !.pc = IF found = None THEN "error" ELSE "check"]
                  [] OTHER -> [req[c] EXCEPT !.pc = "send"]]
    BY <1>1 DEF Call
  <2> DEFINE d == IF found = None THEN req[c].doc ELSE [req[c].doc EXCEPT !.paused = found.paused]
  <2>1. d \in Doc
    BY <1>0, DocUpdates DEF Request
  <2> HIDE DEF d
  <2>2. PICK q \in Request : req' = [req EXCEPT ![c] = q]
    <3>1. CASE req[c].kind = "put"
      <4> DEFINE q == [req[c] EXCEPT !.pc = "check", !.doc = d]
      <4>1. q \in Request
        BY <1>0, <2>1 DEF Request
      <4>2. req' = [req EXCEPT ![c] = q]
        BY <3>1 DEF d
      <4> QED BY <4>1, <4>2
    <3>2. CASE req[c].kind \in {"stop", "delete"}
      <4> DEFINE q == [req[c] EXCEPT !.pc = IF found = None THEN "error" ELSE "check"]
      <4>1. q \in Request
        BY <1>0, <3>2 DEF Request
      <4>2. req' = [req EXCEPT ![c] = q]
        BY <3>2
      <4> QED BY <4>1, <4>2
    <3>3. CASE req[c].kind \notin {"put", "stop", "delete"}
      <4> DEFINE q == [req[c] EXCEPT !.pc = "send"]
      <4>1. q \in Request
        BY <1>0, <3>3 DEF Request
      <4>2. req' = [req EXCEPT ![c] = q]
        BY <3>3
      <4> QED BY <4>1, <4>2
    <3> QED BY <3>1, <3>2, <3>3
  <2>3. req' \in [Clients -> Request]
    BY <1>0, <2>2
  <2>4. errs' \in Nat
    BY DEF Err
  <2> QED BY <1>1, <2>3, <2>4 DEF Call, WorkerOK
<1>2. CASE CheckWorker(c)
  <2>1. req' \in [Clients -> Request]
    BY <1>2, <1>0 DEF CheckWorker, Request
  <2> QED BY <1>2, <2>1 DEF CheckWorker, Err, WorkerOK
<1>3. CASE SendFails(c)
  <2>1. req' \in [Clients -> Request]
    BY <1>3, <1>0 DEF SendFails, Request
  <2> QED BY <1>3, <2>1 DEF SendFails, Err, WorkerOK
<1>4. CASE DeleteFails(c)
  <2>1. req' \in [Clients -> Request]
    BY <1>4, <1>0 DEF DeleteFails, Request
  <2> QED BY <1>4, <2>1 DEF DeleteFails, Err, WorkerOK
<1>5. CASE Timeout(c)
  <2>1. req' \in [Clients -> Request]
    BY <1>5, <1>0 DEF Timeout, Request
  <2> QED BY <1>5, <2>1 DEF Timeout, Err, WorkerOK
<1>6. CASE Await(c)
  <2>1. req' \in [Clients -> Request]
    BY <1>6, <1>0 DEF Await, Request
  <2> QED BY <1>6, <2>1 DEF Await, Err, WorkerOK
<1>7. CASE Send(c)
  <2>1. req' \in [Clients -> Request]
    BY <1>7, <1>0 DEF Send, Request
  <2>2. \A v \in Clients : /\ wk'[v] \in Worker
                            /\ WorkerOK(wk'[v])
    <3> TAKE v \in Clients
    <3>1. wk[v] \in Worker /\ wk[v].queue \in Seq(Clients) /\ WorkerOK(wk[v])
      BY DEF Worker
    <3> DEFINE q == Append(wk[v].queue, c)
               r == [wk[v] EXCEPT !.queue = q]
    <3>2. q \in Seq(Clients)
      BY <3>1
    <3> HIDE DEF q
    <3>3. r \in Worker /\ WorkerOK(r)
      BY <3>1, <3>2 DEF Worker, WorkerOK
    <3>4. wk'[v] = IF wk[v].subscribed THEN r ELSE wk[v]
      BY <1>7 DEF Send, q
    <3> HIDE DEF r
    <3> QED BY <3>1, <3>3, <3>4
  <2>3. wk' \in [Clients -> Worker]
    <3>1. wk' = [v \in Clients |-> wk'[v]]
      BY <1>7, Zenon DEF Send
    <3> QED BY <2>2, <3>1
  <2> QED BY <1>7, <2>1, <2>2, <2>3 DEF Send, WorkerOK
<1>8. CASE Return(c)
  <2> DEFINE r == IF req[c].kind = "put"
                  THEN [NoWorker EXCEPT !.main = "add", !.copy = req[c].doc] ELSE wk[c]
  <2>1. req' \in [Clients -> Request]
    BY <1>8, <1>0 DEF Return, Request
  <2>2. r \in Worker /\ WorkerOK(r)
    BY <1>0, NewWorkers DEF Request
  <2>3. wk' = [wk EXCEPT ![c] = r]
    <3>1. CASE req[c].kind = "put"
      BY <1>8, <3>1 DEF Return
    <3>2. CASE req[c].kind # "put"
      BY <1>8, <3>2 DEF Return
    <3> QED BY <3>1, <3>2
  <2> HIDE DEF r
  <2>4. UNCHANGED <<store, mapped, saved, crashes, errs>>
    BY <1>8 DEF Return
  <2> QED BY <2>1, <2>2, <2>3, <2>4, StepKeepsTypes
<1> QED
  BY <1>1, <1>2, <1>3, <1>4, <1>5, <1>6, <1>7, <1>8 DEF Handler

\* Every step keeps the types.
LEMMA NextTypeInv == TypeInv /\ [Next]_vars => TypeInv'
<1> SUFFICES ASSUME TypeInv, [Next]_vars PROVE TypeInv'
  OBVIOUS
<1>1. CASE Crash
  <2>1. req' \in [Clients -> Request]
    BY <1>1 DEF Crash, Request, TypeInv, TypeOK
  <2>2. wk' \in [Clients -> Worker]
    BY <1>1, NewWorkers DEF Crash, TypeInv, TypeOK
  <2>3. \A v \in Clients : WorkerOK(wk'[v])
    BY <1>1, NewWorkers DEF Crash, TypeInv
  <2>4. mapped' \in BOOLEAN
    BY <1>1, Zenon DEF Crash
  <2>5. crashes' \in Nat
    BY <1>1 DEF Crash, TypeInv, TypeOK
  <2>6. UNCHANGED <<store, saved, errs>>
    BY <1>1 DEF Crash
  <2>7. TypeOK'
    BY <2>1, <2>2, <2>4, <2>5, <2>6 DEF TypeInv, TypeOK
  <2> QED BY <2>1, <2>3, <2>7 DEF TypeInv, WorkerOK
<1>2. CASE UNCHANGED vars
  BY <1>2 DEF vars, TypeInv, TypeOK, WorkerOK
<1> QED
  BY <1>1, <1>2, WorkerTypes, CallTypes DEF Next

\* Every reachable state is well-typed, for any number of calls, failures and
\* restarts.
THEOREM TypeCorrect == Spec => []TypeOK
<1>1. TypeInv => TypeOK
  BY DEF TypeInv
<1> QED BY <1>1, InitTypeInv, NextTypeInv, PTL DEF Spec

-----------------------------------------------------------------------------
\* Who runs: the map is right, and a call that has not returned has no worker.
OneInv ==
    /\ OneWorker
    /\ \A c \in Clients : req[c].pc # "ok" => wk[c].main = "none"

\* A step that neither starts nor ends the worker it moves leaves the map right.
LEMMA StepKeepsMap ==
    ASSUME OneInv, NEW w \in Clients,
           \A v \in Clients : v # w => wk'[v] = wk[v],
           Running(w)' <=> Running(w), wk[w].main = "none" => wk'[w].main = "none",
           mapped' = mapped,
           \A c \in Clients : req'[c].pc # "ok" => req[c].pc # "ok"
    PROVE  OneInv'
<1>1. \A v \in Clients : Running(v)' <=> Running(v)
  BY DEF Running
<1>2. OneWorker'
  BY <1>1 DEF OneInv, OneWorker
<1>3. \A c \in Clients : req'[c].pc # "ok" => wk'[c].main = "none"
  BY DEF OneInv
<1> QED BY <1>2, <1>3 DEF OneInv

\* The steps of one worker.
LEMMA WorkerKeepsOne ==
    ASSUME TypeInv, OneInv, NEW w \in Clients, Helper(w) \/ Main(w) \/ ErrorReturn(w)
    PROVE  OneInv'
<1>0. wk \in [Clients -> Worker] /\ wk[w] \in Worker /\ req \in [Clients -> Request]
  BY DEF TypeInv, TypeOK
<1>a. /\ \A u, v \in Clients : (Running(u) /\ Running(v)) => u = v
      /\ mapped <=> \E v \in Clients : Running(v)
      /\ \A c \in Clients : req[c].pc # "ok" => wk[c].main = "none"
  BY DEF OneInv, OneWorker
<1>1. CASE FirstSave(w)
  <2>1. /\ \A v \in Clients : v # w => wk'[v] = wk[v]
        /\ Running(w)' <=> Running(w)
        /\ wk[w].main = "none" => wk'[w].main = "none"
    BY <1>1, <1>0 DEF FirstSave, Running, Worker
  <2>2. /\ mapped' = mapped
        /\ \A c \in Clients : req'[c].pc # "ok" => req[c].pc # "ok"
    BY <1>1, <1>0 DEF FirstSave
  <2> QED BY <2>1, <2>2, StepKeepsMap
<1>2. CASE Subscribe(w)
  <2>1. /\ \A v \in Clients : v # w => wk'[v] = wk[v]
        /\ Running(w)' <=> Running(w)
        /\ wk[w].main = "none" => wk'[w].main = "none"
    <3>1. /\ \A v \in Clients : v # w => wk'[v] = wk[v]
          /\ wk'[w].main \in {"select", "remove"}
      <4>1. CASE wk' = [wk EXCEPT ![w] = [wk[w] EXCEPT !.main = "select", !.helper = "select",
                                                       !.subscribed = TRUE]]
        BY <4>1, <1>0 DEF Worker
      <4>2. CASE wk' = [wk EXCEPT ![w].main = "remove"]
        BY <4>2, <1>0 DEF Worker
      <4> QED BY <1>2, <4>1, <4>2 DEF Subscribe
    <3>2. wk[w].main = "subscribe"
      BY <1>2 DEF Subscribe
    <3> QED BY <3>1, <3>2 DEF Running
  <2>2. /\ mapped' = mapped
        /\ \A c \in Clients : req'[c].pc # "ok" => req[c].pc # "ok"
    BY <1>2, <1>0 DEF Subscribe
  <2> QED BY <2>1, <2>2, StepKeepsMap
<1>3. CASE Take(w)
  <2>1. /\ \A v \in Clients : v # w => wk'[v] = wk[v]
        /\ Running(w)' <=> Running(w)
        /\ wk[w].main = "none" => wk'[w].main = "none"
    BY <1>3, <1>0 DEF Take, Running, Worker
  <2>2. /\ mapped' = mapped
        /\ \A c \in Clients : req'[c].pc # "ok" => req[c].pc # "ok"
    BY <1>3, <1>0 DEF Take
  <2> QED BY <2>1, <2>2, StepKeepsMap
<1>4. CASE HelperGet(w)
  <2>1. /\ \A v \in Clients : v # w => wk'[v] = wk[v]
        /\ Running(w)' <=> Running(w)
        /\ wk[w].main = "none" => wk'[w].main = "none"
    BY <1>4, <1>0 DEF HelperGet, Running, Worker
  <2>2. /\ mapped' = mapped
        /\ \A c \in Clients : req'[c].pc # "ok" => req[c].pc # "ok"
    BY <1>4, <1>0 DEF HelperGet
  <2> QED BY <2>1, <2>2, StepKeepsMap
<1>5. CASE HelperEnds(w)
  <2>1. /\ \A v \in Clients : v # w => wk'[v] = wk[v]
        /\ Running(w)' <=> Running(w)
        /\ wk[w].main = "none" => wk'[w].main = "none"
    BY <1>5, <1>0 DEF HelperEnds, Running, Worker
  <2>2. /\ mapped' = mapped
        /\ \A c \in Clients : req'[c].pc # "ok" => req[c].pc # "ok"
    BY <1>5, <1>0 DEF HelperEnds
  <2> QED BY <2>1, <2>2, StepKeepsMap
<1>6. CASE MainGet(w)
  <2>1. /\ \A v \in Clients : v # w => wk'[v] = wk[v]
        /\ Running(w)' <=> Running(w)
        /\ wk[w].main = "none" => wk'[w].main = "none"
    BY <1>6, <1>0 DEF MainGet, Running, Worker
  <2>2. /\ mapped' = mapped
        /\ \A c \in Clients : req'[c].pc # "ok" => req[c].pc # "ok"
    BY <1>6, <1>0 DEF MainGet
  <2> QED BY <2>1, <2>2, StepKeepsMap
<1>7. CASE Abort(w)
  <2>1. /\ \A v \in Clients : v # w => wk'[v] = wk[v]
        /\ Running(w)' <=> Running(w)
        /\ wk[w].main = "none" => wk'[w].main = "none"
    BY <1>7, <1>0 DEF Abort, Running, Worker
  <2>2. /\ mapped' = mapped
        /\ \A c \in Clients : req'[c].pc # "ok" => req[c].pc # "ok"
    BY <1>7, <1>0 DEF Abort
  <2> QED BY <2>1, <2>2, StepKeepsMap
<1>8. CASE ErrorReturn(w)
  <2>1. /\ \A v \in Clients : v # w => wk'[v] = wk[v]
        /\ Running(w)' <=> Running(w)
        /\ wk[w].main = "none" => wk'[w].main = "none"
    BY <1>8, <1>0 DEF ErrorReturn, Running, Worker
  <2>2. /\ mapped' = mapped
        /\ \A c \in Clients : req'[c].pc # "ok" => req[c].pc # "ok"
    BY <1>8, <1>0 DEF ErrorReturn
  <2> QED BY <2>1, <2>2, StepKeepsMap
<1>9. CASE DecideStopped(w)
  <2>1. /\ \A v \in Clients : v # w => wk'[v] = wk[v]
        /\ Running(w)' <=> Running(w)
        /\ wk[w].main = "none" => wk'[w].main = "none"
    <3>1. /\ \A v \in Clients : v # w => wk'[v] = wk[v]
          /\ wk'[w].main \in {"select", "erase"}
      <4>1. CASE wk' = [wk EXCEPT ![w].main = "select"]
        BY <4>1, <1>0 DEF Worker
      <4>2. CASE wk' = [wk EXCEPT ![w].main = "erase"]
        BY <4>2, <1>0 DEF Worker
      <4>3. CASE wk' = [wk EXCEPT ![w] = [wk[w] EXCEPT !.main = "select", !.stopSent = TRUE]]
        BY <4>3, <1>0 DEF Worker
      <4> QED BY <1>9, <4>1, <4>2, <4>3 DEF DecideStopped
    <3>2. wk[w].main = "work"
      BY <1>9 DEF DecideStopped
    <3> QED BY <3>1, <3>2 DEF Running
  <2>2. /\ mapped' = mapped
        /\ \A c \in Clients : req'[c].pc # "ok" => req[c].pc # "ok"
    BY <1>9, <1>0 DEF DecideStopped
  <2> QED BY <2>1, <2>2, StepKeepsMap
<1>10. CASE Erase(w)
  <2>1. /\ \A v \in Clients : v # w => wk'[v] = wk[v]
        /\ Running(w)' <=> Running(w)
        /\ wk[w].main = "none" => wk'[w].main = "none"
    BY <1>10, <1>0 DEF Erase, Running, Worker
  <2>2. /\ mapped' = mapped
        /\ \A c \in Clients : req'[c].pc # "ok" => req[c].pc # "ok"
    BY <1>10, <1>0 DEF Erase
  <2> QED BY <2>1, <2>2, StepKeepsMap
<1>11. CASE DecideRun(w)
  <2>1. /\ \A v \in Clients : v # w => wk'[v] = wk[v]
        /\ Running(w)' <=> Running(w)
        /\ wk[w].main = "none" => wk'[w].main = "none"
    BY <1>11, <1>0 DEF DecideRun, Running, Worker
  <2>2. /\ mapped' = mapped
        /\ \A c \in Clients : req'[c].pc # "ok" => req[c].pc # "ok"
    BY <1>11, <1>0 DEF DecideRun
  <2> QED BY <2>1, <2>2, StepKeepsMap
<1>12. CASE Save(w)
  <2>1. /\ \A v \in Clients : v # w => wk'[v] = wk[v]
        /\ Running(w)' <=> Running(w)
        /\ wk[w].main = "none" => wk'[w].main = "none"
    BY <1>12, <1>0 DEF Save, Running, Worker
  <2>2. /\ mapped' = mapped
        /\ \A c \in Clients : req'[c].pc # "ok" => req[c].pc # "ok"
    BY <1>12, <1>0 DEF Save
  <2> QED BY <2>1, <2>2, StepKeepsMap
<1>13. CASE ReceiveStop(w)
  <2>1. /\ \A v \in Clients : v # w => wk'[v] = wk[v]
        /\ Running(w)' <=> Running(w)
        /\ wk[w].main = "none" => wk'[w].main = "none"
    BY <1>13, <1>0 DEF ReceiveStop, Running, Worker
  <2>2. /\ mapped' = mapped
        /\ \A c \in Clients : req'[c].pc # "ok" => req[c].pc # "ok"
    BY <1>13, <1>0 DEF ReceiveStop
  <2> QED BY <2>1, <2>2, StepKeepsMap
<1>14. CASE Apply(w)
  <2>1. /\ \A v \in Clients : v # w => wk'[v] = wk[v]
        /\ Running(w)' <=> Running(w)
        /\ wk[w].main = "none" => wk'[w].main = "none"
    BY <1>14, <1>0 DEF Apply, Running, Worker
  <2>2. /\ mapped' = mapped
        /\ \A c \in Clients : req'[c].pc # "ok" => req[c].pc # "ok"
    <3>1. mapped' = mapped /\ \E a \in {"answered", "error"} : Reply(wk[w].task, a)
      BY <1>14 DEF Apply
    <3>2. PICK a \in {"answered", "error"} : Reply(wk[w].task, a)
      BY <3>1
    <3>3. \A c \in Clients : req'[c].pc = req[c].pc \/ req[c].pc = "wait"
      <4>1. PICK t : t = wk[w].task
        OBVIOUS
      <4>2. Reply(t, a)
        BY <3>2, <4>1
      <4>3. \A c \in Clients : c # t => req'[c] = req[c]
        BY <1>0, <4>2 DEF Reply
      <4>4. t \in Clients => req'[t].pc = IF req[t].pc = "wait" THEN a ELSE req[t].pc
        BY <1>0, <4>2 DEF Reply, Request
      <4> QED BY <4>3, <4>4
    <3> QED BY <3>1, <3>3
  <2> QED BY <2>1, <2>2, StepKeepsMap
<1>15. CASE Add(w)
  <2>1. /\ \A v \in Clients : v # w => wk'[v] = wk[v]
        /\ wk[w].main = "add" /\ mapped' = TRUE /\ req' = req
        /\ wk'[w].main = IF mapped THEN "gone" ELSE "first"
    BY <1>15, <1>0 DEF Add, Worker
  <2>2. \A v \in Clients : Running(v)' <=> (Running(v) \/ (v = w /\ ~mapped))
    BY <2>1 DEF Running
  <2>3. OneWorker'
    <3>1. CASE mapped
      BY <3>1, <2>1, <2>2, <1>a DEF OneWorker
    <3>2. CASE ~mapped
      BY <3>2, <2>1, <2>2, <1>a DEF OneWorker
    <3> QED BY <3>1, <3>2
  <2> QED BY <2>1, <2>3, <1>a DEF OneInv
<1>16. CASE Remove(w)
  <2>1. /\ \A v \in Clients : v # w => wk'[v] = wk[v]
        /\ wk[w].main = "remove" /\ mapped' = FALSE /\ req' = req
        /\ wk'[w].main = "gone"
    BY <1>16, <1>0 DEF Remove, Worker
  <2>2. \A v \in Clients : ~Running(v)'
    BY <2>1, <1>a DEF Running
  <2>3. OneWorker'
    BY <2>1, <2>2 DEF OneWorker
  <2> QED BY <2>1, <2>3, <1>a DEF OneInv
<1> QED
  BY <1>1, <1>2, <1>3, <1>4, <1>5, <1>6, <1>7, <1>8, <1>9, <1>10, <1>11, <1>12, <1>13,
     <1>14, <1>15, <1>16
  DEF Helper, Main

\* The steps of one call: only the return of a Put brings a worker, not mapped yet.
LEMMA CallKeepsOne ==
    ASSUME TypeInv, OneInv, NEW c \in Clients,
           Handler(c) \/ SendFails(c) \/ DeleteFails(c) \/ Timeout(c)
    PROVE  OneInv'
<1>0. wk \in [Clients -> Worker] /\ req \in [Clients -> Request] /\ req[c] \in Request
  BY DEF TypeInv, TypeOK
<1>1. CASE Return(c)
  <2>1. \A v \in Clients : v # c => wk'[v] = wk[v]
    BY <1>1, <1>0 DEF Return
  <2>2. wk[c].main = "none"
    BY <1>1 DEF Return, OneInv
  <2>3. wk'[c].main \in {"none", "add"}
    BY <1>1, <1>0, <2>2, NewWorkers DEF Return, Request
  <2>4. mapped' = mapped /\ \A d \in Clients : req'[d].pc = IF d = c THEN "ok" ELSE req[d].pc
    BY <1>1, <1>0 DEF Return, Request
  <2>5. \A v \in Clients : Running(v)' <=> Running(v)
    BY <2>1, <2>2, <2>3 DEF Running
  <2>6. OneWorker'
    BY <2>4, <2>5 DEF OneInv, OneWorker
  <2> QED BY <2>1, <2>4, <2>6 DEF OneInv
<1>2. CASE Send(c)
  <2>1. \A v \in Clients : wk'[v].main = wk[v].main
    <3> TAKE v \in Clients
    <3>1. wk[v] \in Worker
      BY <1>0
    <3> QED BY <1>2, <3>1 DEF Send, Worker
  <2>2. mapped' = mapped /\ \A d \in Clients : req'[d].pc # "ok" => req[d].pc # "ok"
    BY <1>2, <1>0 DEF Send, Request
  <2>3. \A v \in Clients : Running(v)' <=> Running(v)
    BY <2>1 DEF Running
  <2>4. OneWorker'
    BY <2>2, <2>3 DEF OneInv, OneWorker
  <2> QED BY <2>1, <2>2, <2>4 DEF OneInv
<1>3. CASE Call(c) \/ CheckWorker(c) \/ SendFails(c) \/ DeleteFails(c) \/ Await(c) \/ Timeout(c)
  <2>1. wk' = wk /\ mapped' = mapped
    BY <1>3 DEF Call, CheckWorker, SendFails, DeleteFails, Await, Timeout
  <2>2. \A d \in Clients : req'[d].pc # "ok" => req[d].pc # "ok"
    <3>1. req[c].pc # "ok"
      BY <1>3 DEF Call, CheckWorker, SendFails, DeleteFails, Await, Timeout
    <3>2. \A d \in Clients : d # c => req'[d] = req[d]
      <4>1. CASE Call(c)
        BY <4>1, <1>0 DEF Call
      <4>2. CASE CheckWorker(c) \/ SendFails(c) \/ DeleteFails(c) \/ Await(c) \/ Timeout(c)
        BY <4>2, <1>0 DEF CheckWorker, SendFails, DeleteFails, Await, Timeout
      <4> QED BY <1>3, <4>1, <4>2
    <3> QED BY <3>1, <3>2
  <2> QED BY <2>1, <2>2, StepKeepsMap DEF Running
<1> QED BY <1>1, <1>2, <1>3 DEF Handler

\* Every step keeps the map right.
LEMMA NextOne == TypeInv /\ OneInv /\ [Next]_vars => OneInv'
<1> SUFFICES ASSUME TypeInv, OneInv, [Next]_vars PROVE OneInv'
  OBVIOUS
<1>1. CASE Crash
  <2>1. \A v \in Clients : wk'[v].main = IF wk[v].main = "none" THEN "none" ELSE "gone"
    BY <1>1, NewWorkers DEF Crash
  <2>2. \A d \in Clients : req'[d].pc # "ok" => req[d].pc # "ok"
    BY <1>1 DEF Crash, TypeInv, TypeOK, Request
  <2>3. \A v \in Clients : ~Running(v)'
    BY <2>1 DEF Running
  <2>4. OneWorker'
    BY <1>1, <2>3 DEF Crash, OneWorker
  <2> QED BY <2>1, <2>2, <2>4 DEF OneInv
<1>2. CASE UNCHANGED vars
  BY <1>2 DEF vars, OneInv, OneWorker, Running
<1> QED BY <1>1, <1>2, WorkerKeepsOne, CallKeepsOne DEF Next

\* However many Puts spawn workers and however restarts fall between, one worker at
\* most is past the worker map, and the map says so.
THEOREM OneWorkerHolds == Spec => []OneWorker
<1>1. Init => OneInv
  BY DEF Init, OneInv, OneWorker, Running, NoWorker
<1>2. OneInv => OneWorker
  BY DEF OneInv
<1> QED BY <1>1, <1>2, InitTypeInv, NextTypeInv, NextOne, PTL DEF Spec

-----------------------------------------------------------------------------
\* What a reply says: without a helper there is no OK for a Pause or Unpause, since
\* these do not pass the look into the worker map.
AckInv ==
    \A c \in Clients : req[c].kind \in {"pause", "unpause"} =>
        /\ req[c].pc # "check"
        /\ req[c].pc \in {"answered", "ok"} => c \in saved

\* A step that answers nobody, and unsaves nothing, keeps the invariant.
LEMMA StepKeepsAck ==
    ASSUME AckInv, saved \subseteq saved', NEW c \in Clients,
           \A d \in Clients : req'[d].kind = req[d].kind,
           \A d \in Clients : d # c => req'[d].pc \in {req[d].pc, "error"},
           req[c].kind \in {"pause", "unpause"} =>
              /\ req'[c].pc # "check"
              /\ req'[c].pc \in {"answered", "ok"} => c \in saved'
    PROVE  AckInv'
BY DEF AckInv

\* The handlers: only Return moves on from an answer.
LEMMA CallKeepsAck ==
    ASSUME TypeInv, AckInv, NEW c \in Clients,
           Handler(c) \/ SendFails(c) \/ DeleteFails(c) \/ Timeout(c)
    PROVE  AckInv'
<1>0. req \in [Clients -> Request] /\ req[c] \in Request
  BY DEF TypeInv, TypeOK
<1>1. saved' = saved
  BY DEF Handler, Call, CheckWorker, Send, Await, Return, SendFails, DeleteFails, Timeout
<1>a. req[c].kind \in {"pause", "unpause"} =>
        /\ req[c].pc # "check"
        /\ req[c].pc \in {"answered", "ok"} => c \in saved
  BY DEF AckInv
<1>2. CASE Call(c)
  <2>1. \A d \in Clients : d # c => req'[d] = req[d]
    BY <1>2, <1>0 DEF Call
  <2>2. req'[c].kind = req[c].kind
    BY <1>2, <1>0 DEF Call, Request
  <2>3. req[c].kind \in {"pause", "unpause"} => req'[c].pc = "send"
    BY <1>2, <1>0 DEF Call, Request
  <2> QED BY <1>1, <2>1, <2>2, <2>3, StepKeepsAck
<1>3. CASE CheckWorker(c) \/ DeleteFails(c)
  <2>1. req[c].kind \notin {"pause", "unpause"}
    BY <1>3, <1>a DEF CheckWorker, DeleteFails
  <2>2. \A d \in Clients : req'[d].kind = req[d].kind /\ (d # c => req'[d] = req[d])
    BY <1>3, <1>0 DEF CheckWorker, DeleteFails, Request
  <2> QED BY <1>1, <2>1, <2>2, StepKeepsAck
<1>4. CASE Send(c) \/ Await(c) \/ SendFails(c) \/ Timeout(c)
  <2>1. \A d \in Clients : req'[d].kind = req[d].kind /\ (d # c => req'[d] = req[d])
    BY <1>4, <1>0 DEF Send, Await, SendFails, Timeout, Request
  <2>2. req'[c].pc \in {"sent", "wait", "error"}
    BY <1>4, <1>0 DEF Send, Await, SendFails, Timeout, Request
  <2> QED BY <1>1, <2>1, <2>2, StepKeepsAck
<1>5. CASE Return(c)
  <2>1. \A d \in Clients : req'[d].kind = req[d].kind /\ (d # c => req'[d] = req[d])
    BY <1>5, <1>0 DEF Return, Request
  <2>2. req[c].pc = "answered" /\ req'[c].pc = "ok"
    BY <1>5, <1>0 DEF Return, Request
  <2> QED BY <1>1, <1>a, <2>1, <2>2, StepKeepsAck
<1> QED BY <1>2, <1>3, <1>4, <1>5 DEF Handler

\* The workers: an answer that is OK comes with the save.
LEMMA WorkerKeepsAck ==
    ASSUME TypeInv, AckInv, NEW w \in Clients, Helper(w) \/ Main(w) \/ ErrorReturn(w)
    PROVE  AckInv'
<1>0. req \in [Clients -> Request]
  BY DEF TypeInv, TypeOK
<1>1. CASE Apply(w)
  <2> DEFINE c == wk[w].task
  <2>1. c \in Clients /\ req[c] \in Request
    BY <1>0, <1>1 DEF Apply, TypeInv, WorkerOK
  <2>2. PICK answer \in {"answered", "error"} :
           /\ Reply(c, answer) /\ saved \subseteq saved'
           /\ answer = "answered" => c \in saved'
    BY <1>1 DEF Apply
  <2> HIDE DEF c
  <2>3. \A d \in Clients : req'[d].kind = req[d].kind /\ (d # c => req'[d] = req[d])
    BY <1>0, <2>1, <2>2 DEF Reply, Request
  <2>4. req'[c].pc \in {req[c].pc, answer}
    BY <1>0, <2>1, <2>2 DEF Reply, Request
  <2> QED BY <2>1, <2>2, <2>3, <2>4, StepKeepsAck DEF AckInv
<1>2. CASE ~Apply(w)
  <2>1. req' = req /\ saved \subseteq saved'
    BY <1>2 DEF Helper, Main, ErrorReturn, Take, HelperGet, HelperEnds, Add, FirstSave,
                Subscribe, MainGet, Abort, DecideStopped, Erase, DecideRun, Save,
                ReceiveStop, Remove
  <2> QED BY <2>1 DEF AckInv
<1> QED BY <1>1, <1>2

\* Every step keeps what replies say.
LEMMA NextAck == TypeInv /\ AckInv /\ [Next]_vars => AckInv'
<1> SUFFICES ASSUME TypeInv, AckInv, [Next]_vars PROVE AckInv'
  OBVIOUS
<1>1. CASE Crash
  <2>1. saved' = saved
    BY <1>1 DEF Crash
  <2>2. \A d \in Clients : req'[d].kind = req[d].kind /\ req'[d].pc \in {req[d].pc, "error"}
    BY <1>1 DEF Crash, TypeInv, TypeOK, Request
  <2> QED BY <2>1, <2>2 DEF AckInv
<1>2. CASE UNCHANGED vars
  BY <1>2 DEF vars, AckInv
<1> QED BY <1>1, <1>2, WorkerKeepsAck, CallKeepsAck DEF Next

\* For any number of calls, failures and restarts, a Pause or Unpause that returns OK
\* has been written to the store.
THEOREM AckMeansAppliedHolds == Spec => []AckMeansApplied
<1>1. Init => AckInv
  <2> SUFFICES ASSUME Init, NEW c \in Clients PROVE req[c].pc = "idle"
    BY DEF AckInv
  <2> QED BY DEF Init
<1>2. AckInv => AckMeansApplied
  BY DEF AckInv, AckMeansApplied
<1> QED BY <1>1, <1>2, InitTypeInv, NextTypeInv, NextAck, PTL DEF Spec

-----------------------------------------------------------------------------
\* A task is in one place: with one worker's helper, or once in one worker's queue,
\* from its sending until it is applied.

\* Worker w has c's task.
Has(w, c) ==
    \/ wk[w].helper \in {"get", "apply"} /\ wk[w].task = c
    \/ \E i \in 1 .. Len(wk[w].queue) : wk[w].queue[i] = c

\* No task is twice with a worker, and one that has left its loop receives no more.
Distinct(r) ==
    /\ \A i, j \in 1 .. Len(r.queue) : r.queue[i] = r.queue[j] => i = j
    /\ r.helper \in {"get", "apply"} => \A i \in 1 .. Len(r.queue) : r.queue[i] # r.task
    /\ r.subscribed => r.main \in {"select", "work", "erase", "save"}

\* A call's task is nowhere before it is sent, nor after it is applied.
Unsent(c) == req[c].pc \in {"idle", "check", "send"}
OnItsWay(c) == req[c].pc \in {"sent", "wait", "error"} /\ c \notin saved

OnceInv ==
    /\ \A w \in Clients : Distinct(wk[w])
    /\ \A c, v, w \in Clients : (Has(v, c) /\ Has(w, c)) => v = w
    /\ \A c, w \in Clients : Has(w, c) => OnItsWay(c)
    /\ \A c \in Clients : Unsent(c) => c \notin saved

\* A step after which no worker has a task that it did not have.
LEMMA StepKeepsOnce ==
    ASSUME OnceInv, \A w \in Clients : Distinct(wk[w])',
           \A c, w \in Clients : Has(w, c)' => Has(w, c) /\ OnItsWay(c)',
           \A c \in Clients : Unsent(c)' => c \notin saved'
    PROVE  OnceInv'
BY DEF OnceInv

\* The steps of a worker that change neither calls nor what is saved.
Silent(w) ==
    \/ Add(w) \/ Subscribe(w) \/ HelperGet(w) \/ HelperEnds(w)
    \/ MainGet(w) \/ Abort(w) \/ ErrorReturn(w) \/ DecideStopped(w) \/ Erase(w)
    \/ DecideRun(w) \/ Save(w) \/ ReceiveStop(w) \/ Remove(w)

\* What such a step makes of the worker's record.
LEMMA SilentMoves ==
    ASSUME TypeInv, OnceInv, NEW w \in Clients, Silent(w)
    PROVE  /\ req' = req /\ saved' = saved
           /\ wk' \in [Clients -> Worker]
           /\ \A v \in Clients : v # w => wk'[v] = wk[v]
           /\ wk'[w].queue = wk[w].queue /\ wk'[w].task = wk[w].task
           /\ wk'[w].helper \in {"get", "apply"} => wk[w].helper \in {"get", "apply"}
           /\ wk'[w].subscribed => wk'[w].main \in {"select", "work", "erase", "save"}
<1>1. /\ wk \in [Clients -> Worker] /\ wk[w] \in Worker
      /\ wk[w].subscribed => wk[w].main \in {"select", "work", "erase", "save"}
  BY DEF TypeInv, TypeOK, OnceInv, Distinct
<1>2. wk' \in [Clients -> Worker]
  BY WorkerTypes DEF Silent, Helper, Main, TypeInv, TypeOK
<1>3. req' = req /\ saved' = saved
  BY DEF Silent, Add, Subscribe, HelperGet, HelperEnds, MainGet, Abort, ErrorReturn,
         DecideStopped, Erase, DecideRun, Save, ReceiveStop, Remove
<1>4. PICK s \in Worker : s = wk[w]
  BY <1>1
<1> DEFINE Fits(r) ==
       /\ r.queue = s.queue /\ r.task = s.task
       /\ r.helper \in {"get", "apply"} => s.helper \in {"get", "apply"}
       /\ r.subscribed => r.main \in {"select", "work", "erase", "save"}
<1>5. \E r : wk' = [wk EXCEPT ![w] = r] /\ Fits(r)
  <2> USE DEF Worker
  <2>1. CASE Add(w)
    <3>1. PICK r : r = [s EXCEPT !.main = IF mapped THEN "gone" ELSE "first"]
      OBVIOUS
    <3>2. wk' = [wk EXCEPT ![w] = r]
      BY <1>4, <2>1, <3>1 DEF Add
    <3>3. Fits(r)
      BY <1>1, <1>4, <2>1, <3>1 DEF Add
    <3> QED BY <3>2, <3>3
  <2>2. CASE Subscribe(w)
    <3>1. PICK r, q : /\ r = [s EXCEPT !.main = "select", !.helper = "select", !.subscribed = TRUE]
                      /\ q = [s EXCEPT !.main = "remove"]
      OBVIOUS
    <3>2. wk' = [wk EXCEPT ![w] = r] \/ wk' = [wk EXCEPT ![w] = q]
      BY <1>4, <2>2, <3>1 DEF Subscribe
    <3>3. Fits(r)
      BY <1>4, <3>1
    <3>4. Fits(q)
      BY <1>1, <1>4, <2>2, <3>1 DEF Subscribe
    <3> QED BY <3>2, <3>3, <3>4
  <2>3. CASE HelperGet(w)
    <3>1. PICK found : wk' = [wk EXCEPT ![w] =
                [s EXCEPT !.helper = IF found = None THEN "select" ELSE "apply", !.held = found]]
      BY <1>4, <2>3 DEF HelperGet
    <3>2. PICK r : r = [s EXCEPT !.helper = IF found = None THEN "select" ELSE "apply", !.held = found]
      OBVIOUS
    <3>3. s.helper = "get"
      BY <1>4, <2>3 DEF HelperGet
    <3>4. Fits(r)
      BY <1>1, <1>4, <3>2, <3>3
    <3> QED BY <3>1, <3>2, <3>4
  <2>4. CASE HelperEnds(w)
    <3>1. PICK r : r = [s EXCEPT !.helper = "gone"]
      OBVIOUS
    <3>2. wk' = [wk EXCEPT ![w] = r]
      BY <1>4, <2>4, <3>1 DEF HelperEnds
    <3>3. Fits(r)
      BY <1>1, <1>4, <2>4, <3>1 DEF HelperEnds
    <3> QED BY <3>2, <3>3
  <2>5. CASE MainGet(w)
    <3>1. PICK r : r = [s EXCEPT !.main = "work", !.copy = store]
      OBVIOUS
    <3>2. wk' = [wk EXCEPT ![w] = r]
      BY <1>4, <2>5, <3>1 DEF MainGet
    <3>3. Fits(r)
      BY <1>1, <1>4, <2>5, <3>1 DEF MainGet
    <3> QED BY <3>2, <3>3
  <2>6. CASE Abort(w)
    <3>1. PICK r : r = [s EXCEPT !.main = "select", !.intr = s.intr - 1]
      OBVIOUS
    <3>2. wk' = [wk EXCEPT ![w] = r]
      BY <1>4, <2>6, <3>1 DEF Abort
    <3>3. Fits(r)
      BY <1>1, <1>4, <2>6, <3>1 DEF Abort
    <3> QED BY <3>2, <3>3
  <2>7. CASE ErrorReturn(w) \/ Save(w)
    <3>1. PICK r : r = [s EXCEPT !.main = "select"]
      OBVIOUS
    <3>2. wk' = [wk EXCEPT ![w] = r]
      BY <1>4, <2>7, <3>1 DEF ErrorReturn, Save
    <3>3. Fits(r)
      BY <1>1, <1>4, <2>7, <3>1 DEF ErrorReturn, Save
    <3> QED BY <3>2, <3>3
  <2>8. CASE DecideStopped(w)
    <3>1. PICK r, q, t : /\ r = [s EXCEPT !.main = "select"]
                         /\ q = [s EXCEPT !.main = "erase"]
                         /\ t = [s EXCEPT !.main = "select", !.stopSent = TRUE]
      OBVIOUS
    <3>2. \/ wk' = [wk EXCEPT ![w] = r] \/ wk' = [wk EXCEPT ![w] = q]
          \/ wk' = [wk EXCEPT ![w] = t]
      BY <1>4, <2>8, <3>1 DEF DecideStopped
    <3>3. Fits(r) /\ Fits(q) /\ Fits(t)
      BY <1>4, <3>1
    <3> QED BY <3>2, <3>3
  <2>9. CASE Erase(w)
    <3>1. PICK r : r = [s EXCEPT !.main = "select", !.stopSent = TRUE]
      OBVIOUS
    <3>2. wk' = [wk EXCEPT ![w] = r]
      BY <1>4, <2>9, <3>1 DEF Erase
    <3>3. Fits(r)
      BY <1>1, <1>4, <2>9, <3>1 DEF Erase
    <3> QED BY <3>2, <3>3
  <2>10. CASE DecideRun(w)
    <3>1. PICK p : wk' = [wk EXCEPT ![w] =
                [s EXCEPT !.main = "save", !.copy = [s.copy EXCEPT !.paused = p]]]
      BY <1>4, <2>10 DEF DecideRun
    <3>2. PICK r : r = [s EXCEPT !.main = "save", !.copy = [s.copy EXCEPT !.paused = p]]
      OBVIOUS
    <3>3. Fits(r)
      BY <1>4, <3>2
    <3> QED BY <3>1, <3>2, <3>3
  <2>11. CASE ReceiveStop(w)
    <3>1. PICK r : r = [s EXCEPT !.main = "remove", !.subscribed = FALSE]
      OBVIOUS
    <3>2. wk' = [wk EXCEPT ![w] = r]
      BY <1>4, <2>11, <3>1 DEF ReceiveStop
    <3>3. Fits(r)
      BY <1>1, <1>4, <2>11, <3>1 DEF ReceiveStop
    <3> QED BY <3>2, <3>3
  <2>12. CASE Remove(w)
    <3>1. PICK r : r = [s EXCEPT !.main = "gone"]
      OBVIOUS
    <3>2. wk' = [wk EXCEPT ![w] = r]
      BY <1>4, <2>12, <3>1 DEF Remove
    <3>3. Fits(r)
      BY <1>1, <1>4, <2>12, <3>1 DEF Remove
    <3> QED BY <3>2, <3>3
  <2> QED BY <2>1, <2>2, <2>3, <2>4, <2>5, <2>6, <2>7, <2>8, <2>9, <2>10, <2>11, <2>12 DEF Silent
<1>6. PICK r : wk' = [wk EXCEPT ![w] = r] /\ Fits(r)
  BY <1>5
<1>7. wk'[w] = r /\ \A v \in Clients : v # w => wk'[v] = wk[v]
  BY <1>1, <1>6
<1> QED BY <1>2, <1>3, <1>4, <1>6, <1>7

\* A step that gives no worker a task, applies none, and moves calls forward only.
LEMMA SameTasks ==
    ASSUME OnceInv, \A w \in Clients : Distinct(wk[w])',
           \A c, w \in Clients : Has(w, c)' => Has(w, c), saved' = saved,
           \A c \in Clients : Unsent(c)' => Unsent(c),
           \A c \in Clients : req[c].pc \in {"sent", "wait", "error"}
                                 => req'[c].pc \in {"sent", "wait", "error"}
    PROVE  OnceInv'
<1>1. \A c, w \in Clients : Has(w, c)' => Has(w, c) /\ OnItsWay(c)'
  BY DEF OnceInv, OnItsWay
<1>2. \A c \in Clients : Unsent(c)' => c \notin saved'
  BY DEF OnceInv
<1> QED BY <1>1, <1>2, StepKeepsOnce

\* A worker's step other than taking a task, applying it and the first save.
LEMMA SilentKeepsOnce ==
    ASSUME TypeInv, OnceInv, NEW w \in Clients, Silent(w)
    PROVE  OnceInv'
<1>1. /\ req' = req /\ saved' = saved
      /\ \A v \in Clients : v # w => wk'[v] = wk[v]
      /\ wk'[w].queue = wk[w].queue /\ wk'[w].task = wk[w].task
      /\ wk'[w].helper \in {"get", "apply"} => wk[w].helper \in {"get", "apply"}
      /\ wk'[w].subscribed => wk'[w].main \in {"select", "work", "erase", "save"}
  BY SilentMoves
<1>2. \A v \in Clients : Distinct(wk[v])'
  <2>1. Distinct(wk'[w])
    BY <1>1 DEF OnceInv, Distinct
  <2>2. \A v \in Clients : Distinct(wk'[v])
    BY <1>1, <2>1 DEF OnceInv
  <2> QED BY <2>2 DEF Distinct
<1>3. \A c, v \in Clients : Has(v, c)' => Has(v, c)
  BY <1>1 DEF Has
<1>4. /\ \A c \in Clients : Unsent(c)' => Unsent(c)
      /\ \A c \in Clients : req[c].pc \in {"sent", "wait", "error"}
                                 => req'[c].pc \in {"sent", "wait", "error"}
  BY <1>1 DEF Unsent
<1> QED BY <1>1, <1>2, <1>3, <1>4, SameTasks

\* Taking a task moves it from the head of the queue to the helper.
LEMMA TakeKeepsOnce ==
    ASSUME TypeInv, OnceInv, NEW w \in Clients, Take(w)
    PROVE  OnceInv'
<1>1. wk \in [Clients -> Worker] /\ wk[w] \in Worker /\ Distinct(wk[w])
  BY DEF TypeInv, TypeOK, OnceInv
<1>2. PICK s \in Worker : s = wk[w]
  BY <1>1
<1>3. PICK r : r = [s EXCEPT !.helper = "get", !.task = Head(s.queue),
                             !.queue = Tail(s.queue), !.intr = s.intr + 1]
  OBVIOUS
<1>4. wk' = [wk EXCEPT ![w] = r] /\ s.helper = "select" /\ s.queue # <<>>
  BY <1>2, <1>3 DEF Take
<1>5. req' = req /\ saved' = saved
  BY DEF Take
<1>6. wk'[w] = r /\ \A v \in Clients : v # w => wk'[v] = wk[v]
  BY <1>1, <1>4
<1>7. /\ r.helper = "get" /\ r.task = Head(s.queue) /\ r.queue = Tail(s.queue)
      /\ r.subscribed = s.subscribed /\ r.main = s.main
  BY <1>3 DEF Worker
<1>8. s.queue \in Seq(Clients)
  BY DEF Worker
<1>9. /\ Len(s.queue) \in Nat /\ Len(s.queue) > 0 /\ Head(s.queue) = s.queue[1]
      /\ Len(r.queue) = Len(s.queue) - 1
      /\ \A i \in 1 .. Len(r.queue) : r.queue[i] = s.queue[i + 1] /\ i + 1 \in 1 .. Len(s.queue)
  BY <1>4, <1>7, <1>8
<1>10. Distinct(r)
  BY <1>1, <1>2, <1>7, <1>9 DEF Distinct
<1>11. \A v \in Clients : Distinct(wk[v])'
  <2>1. \A v \in Clients : Distinct(wk'[v])
    BY <1>6, <1>10 DEF OnceInv
  <2> QED BY <2>1 DEF Distinct
<1>12. \A c, v \in Clients : Has(v, c)' => Has(v, c)
  <2>1. ASSUME NEW c \in Clients, Has(w, c)' PROVE Has(w, c)
    <3>1. \E i \in 1 .. Len(s.queue) : s.queue[i] = c
      BY <1>6, <1>7, <1>9, <2>1 DEF Has
    <3> QED BY <1>2, <3>1 DEF Has
  <2> QED BY <1>6, <2>1 DEF Has
<1>13. /\ \A c \in Clients : Unsent(c)' => Unsent(c)
       /\ \A c \in Clients : req[c].pc \in {"sent", "wait", "error"}
                                 => req'[c].pc \in {"sent", "wait", "error"}
  BY <1>5 DEF Unsent
<1> QED BY <1>5, <1>11, <1>12, <1>13, SameTasks

\* The first save is that of a Put that has returned: its task is nowhere.
LEMMA FirstSaveKeepsOnce ==
    ASSUME TypeInv, OneInv, OnceInv, NEW w \in Clients, FirstSave(w)
    PROVE  OnceInv'
<1>1. wk \in [Clients -> Worker] /\ wk[w] \in Worker /\ Distinct(wk[w])
  BY DEF TypeInv, TypeOK, OnceInv
<1>2. PICK s \in Worker : s = wk[w]
  BY <1>1
<1>3. PICK r : r = [s EXCEPT !.main = "subscribe"]
  OBVIOUS
<1>4. wk' = [wk EXCEPT ![w] = r] /\ s.main = "first" /\ req' = req
  BY <1>2, <1>3 DEF FirstSave
<1>5. saved' \subseteq saved \cup {w} /\ req[w].pc = "ok"
  BY DEF FirstSave, OneInv
<1>6. wk'[w] = r /\ \A v \in Clients : v # w => wk'[v] = wk[v]
  BY <1>1, <1>4
<1>7. r.helper = s.helper /\ r.task = s.task /\ r.queue = s.queue /\ r.subscribed = s.subscribed
  BY <1>3 DEF Worker
<1>8. Distinct(r)
  BY <1>1, <1>2, <1>4, <1>7 DEF Distinct
<1>9. \A v \in Clients : Distinct(wk[v])'
  <2>1. \A v \in Clients : Distinct(wk'[v])
    BY <1>6, <1>8 DEF OnceInv
  <2> QED BY <2>1 DEF Distinct
<1>10. \A c, v \in Clients : Has(v, c)' => Has(v, c)
  BY <1>2, <1>6, <1>7 DEF Has
<1>11. \A c, v \in Clients : Has(v, c)' => Has(v, c) /\ OnItsWay(c)'
  BY <1>4, <1>5, <1>10 DEF OnceInv, OnItsWay
<1>12. \A c \in Clients : Unsent(c)' => c \notin saved'
  BY <1>4, <1>5 DEF OnceInv, Unsent
<1> QED BY <1>9, <1>11, <1>12, StepKeepsOnce

\* A task that is applied is nowhere any more.
LEMMA ApplyKeepsOnce ==
    ASSUME TypeInv, OnceInv, NEW w \in Clients, Apply(w)
    PROVE  OnceInv' /\ wk[w].task \notin saved
<1>1. /\ wk \in [Clients -> Worker] /\ wk[w] \in Worker /\ Distinct(wk[w])
      /\ req \in [Clients -> Request] /\ WorkerOK(wk[w])
  BY DEF TypeInv, TypeOK, OnceInv
<1>2. PICK s \in Worker : s = wk[w]
  BY <1>1
<1>3. PICK r : r = [s EXCEPT !.helper = "select"]
  OBVIOUS
<1>4. wk' = [wk EXCEPT ![w] = r] /\ s.helper = "apply"
  BY <1>2, <1>3 DEF Apply
<1>5. PICK c \in Clients : c = s.task
  BY <1>1, <1>2, <1>4 DEF WorkerOK
<1>6. PICK answer \in {"answered", "error"} :
         Reply(c, answer) /\ saved' \subseteq saved \cup {c}
  BY <1>2, <1>5 DEF Apply
<1>7. wk'[w] = r /\ \A v \in Clients : v # w => wk'[v] = wk[v]
  BY <1>1, <1>4
<1>8. /\ r.helper = "select" /\ r.task = s.task /\ r.queue = s.queue
      /\ r.subscribed = s.subscribed /\ r.main = s.main
  BY <1>3 DEF Worker
<1>9. Distinct(r)
  BY <1>1, <1>2, <1>8 DEF Distinct
<1>10. \A v \in Clients : Distinct(wk[v])'
  <2>1. \A v \in Clients : Distinct(wk'[v])
    BY <1>7, <1>9 DEF OnceInv
  <2> QED BY <2>1 DEF Distinct
<1>11. Has(w, c)
  BY <1>2, <1>4, <1>5 DEF Has
<1>12. OnItsWay(c)
  BY <1>11 DEF OnceInv
<1>13. \A d, v \in Clients : Has(v, d)' => Has(v, d) /\ d # c
  <2>1. ASSUME NEW d \in Clients, Has(w, d)' PROVE Has(w, d) /\ d # c
    <3>1. PICK i \in 1 .. Len(s.queue) : s.queue[i] = d
      BY <1>7, <1>8, <2>1 DEF Has
    <3>2. d # c
      BY <1>1, <1>2, <1>4, <1>5, <3>1 DEF Distinct
    <3>3. Has(w, d)
      BY <1>2, <3>1 DEF Has
    <3> QED BY <3>2, <3>3
  <2>2. ASSUME NEW d \in Clients, NEW v \in Clients, v # w, Has(v, d)'
        PROVE  Has(v, d) /\ d # c
    <3>1. Has(v, d)
      BY <1>7, <2>2 DEF Has
    <3>2. d # c
      BY <1>11, <2>2, <3>1 DEF OnceInv
    <3> QED BY <3>1, <3>2
  <2> QED BY <2>1, <2>2
<1>14. \A d \in Clients : d # c => req'[d] = req[d]
  BY <1>1, <1>6 DEF Reply
<1>15. req'[c].pc \in {req[c].pc, "answered", "error"}
  BY <1>1, <1>6 DEF Reply, Request
<1>16. \A d, v \in Clients : Has(v, d)' => Has(v, d) /\ OnItsWay(d)'
  BY <1>6, <1>13, <1>14 DEF OnceInv, OnItsWay
<1>17. \A d \in Clients : Unsent(d)' => d \notin saved'
  <2>1. ~Unsent(c)'
    BY <1>12, <1>15 DEF OnItsWay, Unsent
  <2> QED BY <1>6, <1>14, <2>1 DEF OnceInv, Unsent
<1>18. OnceInv'
  BY <1>10, <1>16, <1>17, StepKeepsOnce
<1> QED BY <1>2, <1>5, <1>12, <1>18 DEF OnItsWay

\* A record that has just been made holds no task.
LEMMA EmptyWorkers ==
    \A r : (\/ \E d : r = [NoWorker EXCEPT !.main = "add", !.copy = d]
            \/ r = [NoWorker EXCEPT !.main = "gone"])
        => r.helper = "none" /\ r.queue = <<>> /\ r.subscribed = FALSE
BY DEF NoWorker

\* Sending puts a task that is nowhere into the queue of the one worker there is.
LEMMA SendKeepsOnce ==
    ASSUME TypeInv, OneInv, OnceInv, NEW c \in Clients, Send(c)
    PROVE  OnceInv'
<1>1. /\ wk \in [Clients -> Worker] /\ req \in [Clients -> Request]
      /\ \A w \in Clients : wk[w].queue \in Seq(Clients)
  BY DEF TypeInv, TypeOK, Worker
<1>2. \A w \in Clients : ~Has(w, c)
  BY DEF OnceInv, OnItsWay, Send
<1>3. /\ req[c].pc = "send" /\ req'[c].pc = "sent" /\ c \notin saved /\ saved' = saved
      /\ \A d \in Clients : d # c => req'[d] = req[d]
  BY <1>1 DEF Send, Request, OnceInv, Unsent
<1>4. \A w \in Clients :
         /\ wk'[w].helper = wk[w].helper /\ wk'[w].task = wk[w].task
         /\ wk'[w].main = wk[w].main /\ wk'[w].subscribed = wk[w].subscribed
         /\ wk'[w].queue = IF wk[w].subscribed THEN Append(wk[w].queue, c) ELSE wk[w].queue
  BY <1>1 DEF Send, Worker
<1>5. \A v, w \in Clients : (wk[v].subscribed /\ wk[w].subscribed) => v = w
  BY DEF OneInv, OneWorker, OnceInv, Distinct, Running
<1>6. ASSUME NEW w \in Clients, wk[w].subscribed
      PROVE  /\ Len(wk'[w].queue) = Len(wk[w].queue) + 1 /\ Len(wk[w].queue) \in Nat
             /\ wk'[w].queue[Len(wk[w].queue) + 1] = c
             /\ \A i \in 1 .. Len(wk[w].queue) : wk'[w].queue[i] = wk[w].queue[i]
  <2>1. PICK q \in Seq(Clients) : q = wk[w].queue
    BY <1>1
  <2>2. wk'[w].queue = Append(q, c)
    BY <1>4, <1>6, <2>1
  <2>3. /\ Len(Append(q, c)) = Len(q) + 1 /\ Len(q) \in Nat
        /\ Append(q, c)[Len(q) + 1] = c
        /\ \A i \in 1 .. Len(q) : Append(q, c)[i] = q[i]
    BY <2>1
  <2> QED BY <2>1, <2>2, <2>3
<1>7. \A w \in Clients : Distinct(wk'[w])
  <2>1. ASSUME NEW w \in Clients, wk[w].subscribed PROVE Distinct(wk'[w])
    <3>1. Distinct(wk[w]) /\ \A i \in 1 .. Len(wk[w].queue) : wk[w].queue[i] # c
      BY <1>2 DEF OnceInv, Has
    <3>2. wk[w].helper \in {"get", "apply"} => wk[w].task # c
      BY <1>2 DEF Has
    <3>3. PICK n \in Nat : n = Len(wk[w].queue) /\ Len(wk'[w].queue) = n + 1
      BY <1>6, <2>1
    <3>4. \A i \in 1 .. n + 1 : i # n + 1 => i \in 1 .. n
      OBVIOUS
    <3>5. wk'[w].queue[n + 1] = c /\ \A i \in 1 .. n : wk'[w].queue[i] = wk[w].queue[i]
      BY <1>6, <2>1, <3>3
    <3>6. \A i, j \in 1 .. n : wk[w].queue[i] = wk[w].queue[j] => i = j
      BY <3>1, <3>3 DEF Distinct
    <3>7. \A i, j \in 1 .. n + 1 : wk'[w].queue[i] = wk'[w].queue[j] => i = j
      <4> SUFFICES ASSUME NEW i \in 1 .. n + 1, NEW j \in 1 .. n + 1,
                          wk'[w].queue[i] = wk'[w].queue[j]
                   PROVE  i = j
        OBVIOUS
      <4>1. CASE i \in 1 .. n /\ j \in 1 .. n
        BY <3>5, <3>6, <4>1
      <4>2. CASE (i = n + 1 /\ j \in 1 .. n) \/ (i \in 1 .. n /\ j = n + 1)
        BY <3>1, <3>3, <3>5, <4>2
      <4> QED BY <3>4, <4>1, <4>2
    <3>8. wk[w].helper \in {"get", "apply"} =>
             \A i \in 1 .. n + 1 : wk'[w].queue[i] # wk[w].task
      BY <3>1, <3>2, <3>3, <3>4, <3>5 DEF Distinct
    <3>9. wk[w].subscribed => wk[w].main \in {"select", "work", "erase", "save"}
      BY <3>1 DEF Distinct
    <3> QED BY <1>4, <3>3, <3>7, <3>8, <3>9 DEF Distinct
  <2>2. ASSUME NEW w \in Clients, ~wk[w].subscribed PROVE Distinct(wk'[w])
    BY <1>4, <2>2 DEF OnceInv, Distinct
  <2> QED BY <2>1, <2>2
<1>8. \A d, w \in Clients : Has(w, d)' => Has(w, d) \/ (d = c /\ wk[w].subscribed)
  <2>1. ASSUME NEW d \in Clients, NEW w \in Clients, Has(w, d)', wk[w].subscribed
        PROVE  Has(w, d) \/ d = c
    <3>1. CASE wk'[w].helper \in {"get", "apply"} /\ wk'[w].task = d
      BY <1>4, <3>1 DEF Has
    <3>2. CASE \E i \in 1 .. Len(wk'[w].queue) : wk'[w].queue[i] = d
      <4>1. PICK i \in 1 .. Len(wk'[w].queue) : wk'[w].queue[i] = d
        BY <3>2
      <4>2. PICK n \in Nat : n = Len(wk[w].queue) /\ Len(wk'[w].queue) = n + 1
        BY <1>6, <2>1
      <4>3. i = n + 1 => d = c
        BY <1>6, <2>1, <4>1, <4>2
      <4>4. i \in 1 .. n => wk[w].queue[i] = d
        BY <1>6, <2>1, <4>1, <4>2
      <4>5. i = n + 1 \/ i \in 1 .. n
        BY <4>1, <4>2
      <4> QED BY <4>2, <4>3, <4>4, <4>5 DEF Has
    <3> QED BY <2>1, <3>1, <3>2 DEF Has
  <2>2. ASSUME NEW d \in Clients, NEW w \in Clients, Has(w, d)', ~wk[w].subscribed
        PROVE  Has(w, d)
    BY <1>4, <2>2 DEF Has
  <2> QED BY <2>1, <2>2
<1>9. \A d, v, w \in Clients : (Has(v, d)' /\ Has(w, d)') => v = w
  BY <1>2, <1>5, <1>8 DEF OnceInv
<1>10. \A d, w \in Clients : Has(w, d)' => OnItsWay(d)'
  BY <1>2, <1>3, <1>8 DEF OnceInv, OnItsWay
<1>11. \A d \in Clients : Unsent(d)' => d \notin saved'
  BY <1>3 DEF OnceInv, Unsent
<1>12. \A w \in Clients : Distinct(wk[w])'
  BY <1>7 DEF Distinct
<1> QED BY <1>9, <1>10, <1>11, <1>12 DEF OnceInv

\* The other steps of a call send nothing.
LEMMA CallKeepsOnce ==
    ASSUME TypeInv, OnceInv, NEW c \in Clients,
           Call(c) \/ CheckWorker(c) \/ DeleteFails(c) \/ SendFails(c) \/ Await(c)
             \/ Timeout(c) \/ Return(c)
    PROVE  OnceInv'
<1>1. wk \in [Clients -> Worker] /\ req \in [Clients -> Request]
  BY DEF TypeInv, TypeOK
<1>2. saved' = saved
  BY DEF Call, CheckWorker, DeleteFails, SendFails, Await, Timeout, Return
<1>3. \A d \in Clients : d # c => req'[d] = req[d]
  BY <1>1 DEF Call, CheckWorker, DeleteFails, SendFails, Await, Timeout, Return
<1>4. /\ Unsent(c)' => Unsent(c)
      /\ req[c].pc \in {"sent", "wait", "error"} => req'[c].pc \in {"sent", "wait", "error"}
  <2>1. CASE Call(c)
    BY <2>1 DEF Call, Unsent
  <2>2. CASE CheckWorker(c)
    BY <2>2 DEF CheckWorker, Unsent
  <2>3. CASE DeleteFails(c) \/ SendFails(c) \/ Await(c) \/ Timeout(c) \/ Return(c)
    BY <1>1, <2>3 DEF DeleteFails, SendFails, Await, Timeout, Return, Unsent, Request
  <2> QED BY <2>1, <2>2, <2>3
<1>5. \/ wk' = wk
      \/ \E d : wk' = [wk EXCEPT ![c] = [NoWorker EXCEPT !.main = "add", !.copy = d]]
  BY DEF Call, CheckWorker, DeleteFails, SendFails, Await, Timeout, Return
<1>6. \A w \in Clients : wk'[w] = wk[w] \/
         (wk'[w].helper = "none" /\ wk'[w].queue = <<>> /\ wk'[w].subscribed = FALSE)
  <2>1. CASE wk' = wk
    BY <2>1
  <2>2. ASSUME NEW d, wk' = [wk EXCEPT ![c] = [NoWorker EXCEPT !.main = "add", !.copy = d]]
        PROVE  /\ \A w \in Clients : w # c => wk'[w] = wk[w]
               /\ wk'[c].helper = "none" /\ wk'[c].queue = <<>> /\ wk'[c].subscribed = FALSE
    <3>1. PICK r : r = [NoWorker EXCEPT !.main = "add", !.copy = d]
      OBVIOUS
    <3>2. wk' = [wk EXCEPT ![c] = r]
      BY <2>2, <3>1
    <3>3. wk'[c] = r /\ \A w \in Clients : w # c => wk'[w] = wk[w]
      BY <1>1, <3>2
    <3>4. r.helper = "none" /\ r.queue = <<>> /\ r.subscribed = FALSE
      BY <3>1, EmptyWorkers
    <3> QED BY <3>3, <3>4
  <2>3. CASE wk' # wk
    BY <1>5, <2>2, <2>3
  <2> QED BY <2>1, <2>3
<1>7. Len(<<>>) = 0 /\ 1 .. 0 = {}
  OBVIOUS
<1>8. \A w \in Clients : Distinct(wk'[w])
  BY <1>6, <1>7 DEF OnceInv, Distinct
<1>9. \A d, w \in Clients : Has(w, d)' => Has(w, d)
  BY <1>6, <1>7 DEF Has
<1>10. \A w \in Clients : Distinct(wk[w])'
  BY <1>8 DEF Distinct
<1>11. /\ \A d \in Clients : Unsent(d)' => Unsent(d)
       /\ \A d \in Clients : req[d].pc \in {"sent", "wait", "error"}
                                 => req'[d].pc \in {"sent", "wait", "error"}
  BY <1>3, <1>4 DEF Unsent
<1> QED BY <1>2, <1>9, <1>10, <1>11, SameTasks

\* Every step keeps a task in one place, and applies none that has been.
LEMMA NextOnce ==
    ASSUME TypeInv, OneInv, OnceInv, [Next]_vars
    PROVE  OnceInv'
<1>1. CASE Crash
  <2>1. wk \in [Clients -> Worker] /\ req \in [Clients -> Request] /\ saved' = saved
    BY <1>1 DEF TypeInv, TypeOK, Crash
  <2>2. \A w \in Clients : wk'[w] = wk[w] \/
           (wk'[w].helper = "none" /\ wk'[w].queue = <<>> /\ wk'[w].subscribed = FALSE)
    BY <1>1, EmptyWorkers DEF Crash
  <2>3. Len(<<>>) = 0 /\ 1 .. 0 = {}
    OBVIOUS
  <2>4. \A w \in Clients : Distinct(wk'[w])
    BY <2>2, <2>3 DEF OnceInv, Distinct
  <2>5. \A d, w \in Clients : Has(w, d)' => Has(w, d)
    BY <2>2, <2>3 DEF Has
  <2>6. \A d \in Clients : req'[d].pc \in {req[d].pc, "error"} /\
                           (req'[d].pc = "error" \/ req[d].pc \in {"idle", "ok"})
    BY <1>1, <2>1 DEF Crash, Request
  <2>7. \A w \in Clients : Distinct(wk[w])'
    BY <2>4 DEF Distinct
  <2>8. /\ \A d \in Clients : Unsent(d)' => Unsent(d)
        /\ \A d \in Clients : req[d].pc \in {"sent", "wait", "error"}
                                 => req'[d].pc \in {"sent", "wait", "error"}
    BY <2>6 DEF Unsent
  <2> QED BY <2>1, <2>5, <2>7, <2>8, SameTasks
<1>2. CASE UNCHANGED vars
  BY <1>2 DEF vars, OnceInv, Distinct, Has, OnItsWay, Unsent
<1>3. ASSUME NEW c \in Clients, Handler(c) \/ SendFails(c) \/ DeleteFails(c) \/ Timeout(c)
      PROVE  OnceInv'
  BY <1>3, SendKeepsOnce, CallKeepsOnce DEF Handler
<1>4. ASSUME NEW w \in Clients, Helper(w) \/ Main(w) \/ ErrorReturn(w)
      PROVE  OnceInv'
  BY <1>4, SilentKeepsOnce, TakeKeepsOnce, FirstSaveKeepsOnce, ApplyKeepsOnce
     DEF Helper, Main, Silent
<1> QED BY <1>1, <1>2, <1>3, <1>4 DEF Next

\* For any number of calls, failures and restarts, and of workers replaced while tasks
\* are under way: a task that is applied has not been applied before.
THEOREM AppliedOnceHolds == Spec => AppliedOnce
<1>1. Init => OnceInv
  <2> SUFFICES ASSUME Init PROVE OnceInv
    OBVIOUS
  <2>1. \A w \in Clients : wk[w].helper = "none" /\ wk[w].queue = <<>> /\ wk[w].subscribed = FALSE
    BY DEF Init, NoWorker
  <2>2. Len(<<>>) = 0 /\ 1 .. 0 = {}
    OBVIOUS
  <2> QED BY <2>1, <2>2 DEF Init, OnceInv, Distinct, Has
<1>2. TypeInv /\ OneInv /\ OnceInv /\ [Next]_vars =>
        [\A w \in Clients :
           (wk[w].helper = "apply" /\ wk'[w].helper = "select" /\ errs' = errs)
           => wk[w].task \notin saved]_vars
  <2> SUFFICES ASSUME TypeInv, OnceInv, NEW w \in Clients, wk[w].helper = "apply"
               PROVE  wk[w].task \notin saved
    OBVIOUS
  <2>1. PICK c \in Clients : c = wk[w].task
    BY DEF TypeInv, WorkerOK
  <2>2. Has(w, c)
    BY <2>1 DEF Has
  <2> QED BY <2>1, <2>2 DEF OnceInv, OnItsWay
<1>3. Init => OneInv
  BY DEF Init, OneInv, OneWorker, Running, NoWorker
<1>4. TypeInv /\ OneInv /\ OnceInv /\ [Next]_vars => OnceInv'
  BY NextOnce
<1> QED BY <1>1, <1>2, <1>3, <1>4, InitTypeInv, NextTypeInv, NextOne, PTL DEF Spec, AppliedOnce

=============================================================================
