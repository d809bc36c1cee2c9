----------------------- MODULE RequestContract_proofs -----------------------
(***************************************************************************)
(* ControlPlane implements RequestContract: for any number of concurrent   *)
(* calls, failures and restarts, each step of a handler, a helper or a     *)
(* main loop is a step of the contract or is not seen by clients.          *)
(***************************************************************************)
EXTENDS ControlPlane_proofs

-----------------------------------------------------------------------------
(* Where a record stems from *)

Asks == [c \in Clients |-> req[c].kind]

\* The requests in S, of the kinds k, account for the record d.
Stems(k, d, S) ==
    /\ d \in Doc /\ d.spec \in S /\ k[d.spec] = "put"
    /\ d.stopped => \E c \in S : k[c] \in {"stop", "delete"}
    /\ d.deleted => \E c \in S : k[c] = "delete"

\* A Put builds a record of its own, with the flags cleared.
Own(c, d) == d \in Doc /\ d.spec = c /\ ~d.stopped /\ ~d.deleted

\* The records a worker w holds: its helper's, its main loop's, and before the first
\* save the one it was spawned with.
Sound(k, S, w, r) ==
    /\ r.helper = "apply" => Stems(k, r.held, S)
    /\ r.main \in {"work", "save", "erase"} => Stems(k, r.copy, S)
    /\ r.main = "erase" => r.copy.deleted
    /\ r.main \in {"add", "first"} => Own(w, r.copy)
    /\ r.main # "none" => k[w] = "put"

StemInv ==
    /\ \A c \in Clients : Own(c, req[c].doc)
    /\ store # None => Stems(Asks, store, saved)
    /\ \A w \in Clients : Sound(Asks, saved, w, wk[w])

\* What accounts for a record still does when more requests have been done.
LEMMA StemsMore ==
    ASSUME NEW k, NEW S, NEW T, S \subseteq T
    PROVE  /\ \A d : Stems(k, d, S) => Stems(k, d, T)
           /\ \A w, r : Sound(k, S, w, r) => Sound(k, T, w, r)
<1>1. \A d : Stems(k, d, S) => Stems(k, d, T)
  BY DEF Stems
<1> QED BY <1>1 DEF Sound

\* No step changes what a client asks for.
LEMMA AsksStay == TypeInv /\ [Next]_vars => Asks' = Asks
<1> SUFFICES ASSUME TypeInv, [Next]_vars PROVE \A c \in Clients : req'[c].kind = req[c].kind
  BY DEF Asks
<1>0. req \in [Clients -> Request]
  BY DEF TypeInv, TypeOK
<1>1. CASE Crash
  BY <1>0, <1>1 DEF Crash, Request
<1>2. CASE UNCHANGED vars
  BY <1>2 DEF vars
<1>3. ASSUME NEW c \in Clients, Call(c)
      PROVE  \A d \in Clients : req'[d].kind = req[d].kind
  <2>1. \A d \in Clients : d # c => req'[d] = req[d]
    BY <1>0, <1>3 DEF Call
  <2>2. req'[c].kind = req[c].kind
    BY <1>0, <1>3 DEF Call, Request
  <2> QED BY <2>1, <2>2
<1>4. ASSUME NEW c \in Clients,
             CheckWorker(c) \/ Send(c) \/ Await(c) \/ Return(c) \/ SendFails(c) \/ DeleteFails(c)
               \/ Timeout(c)
      PROVE  \A d \in Clients : req'[d].kind = req[d].kind
  BY <1>0, <1>4 DEF CheckWorker, Send, Await, Return, SendFails, DeleteFails, Timeout, Request
<1>5. ASSUME NEW w \in Clients, Apply(w)
      PROVE  \A d \in Clients : req'[d].kind = req[d].kind
  <2>1. PICK t, a : Reply(t, a)
    BY <1>5 DEF Apply
  <2> QED BY <1>0, <2>1 DEF Reply, Request
<1>6. ASSUME NEW w \in Clients, Helper(w) \/ Main(w) \/ ErrorReturn(w), ~Apply(w)
      PROVE  req' = req
  BY <1>6 DEF Helper, Main, ErrorReturn, Take, HelperGet, HelperEnds, Add, FirstSave,
              Subscribe, MainGet, Abort, DecideStopped, Erase, DecideRun, Save,
              ReceiveStop, Remove
<1> QED BY <1>1, <1>2, <1>3, <1>4, <1>5, <1>6 DEF Next, Handler

\* A worker's step keeps the invariant when what it writes is accounted for.
LEMMA StepKeepsStems ==
    ASSUME TypeInv, StemInv, [Next]_vars, NEW w \in Clients, NEW r,
           wk' = [wk EXCEPT ![w] = r],
           saved \subseteq saved', Sound(Asks, saved', w, r),
           store' # None => Stems(Asks, store', saved'),
           \A c \in Clients : req'[c].doc = req[c].doc
    PROVE  StemInv'
<1>1. Asks' = Asks
  BY AsksStay
<1>2. \A c \in Clients : Own(c, req'[c].doc)
  BY DEF StemInv
<1>3. wk'[w] = r /\ \A v \in Clients : v # w => wk'[v] = wk[v]
  BY DEF TypeInv, TypeOK
<1>4. \A v \in Clients : Sound(Asks, saved', v, wk'[v])
  BY <1>3, StemsMore DEF StemInv
<1> QED BY <1>1, <1>2, <1>4 DEF StemInv

\* The steps of a main loop that save nothing: copies are what was read, what was spawned
\* with, or that and a pause.
LEMMA MainKeepsStems ==
    ASSUME TypeInv, StemInv, NEW w \in Clients,
           \/ Add(w) \/ Subscribe(w) \/ MainGet(w) \/ Abort(w) \/ ErrorReturn(w)
           \/ DecideStopped(w) \/ DecideRun(w) \/ ReceiveStop(w) \/ Remove(w)
    PROVE  StemInv'
<1>1. wk \in [Clients -> Worker] /\ wk[w] \in Worker /\ Sound(Asks, saved, w, wk[w])
  BY DEF TypeInv, TypeOK, StemInv
<1>2. req' = req /\ saved' = saved /\ store' = store
  BY DEF Add, Subscribe, MainGet, Abort, ErrorReturn, DecideStopped, DecideRun,
         ReceiveStop, Remove
<1>3. PICK s \in Worker : s = wk[w]
  BY <1>1
<1>4. Sound(Asks, saved, w, s)
  BY <1>1, <1>3
<1>5. ASSUME NEW r, wk' = [wk EXCEPT ![w] = r], Sound(Asks, saved, w, r) PROVE StemInv'
  <2>1. [Next]_vars
    BY DEF Next, Main
  <2>2. store # None => Stems(Asks, store, saved)
    BY DEF StemInv
  <2> QED BY <1>2, <1>5, <2>1, <2>2, StepKeepsStems
<1> USE DEF Worker
<1>6. CASE Add(w)
  <2>1. PICK r : r = [s EXCEPT !.main = IF mapped THEN "gone" ELSE "first"]
    OBVIOUS
  <2>2. wk' = [wk EXCEPT ![w] = r] /\ s.main = "add"
    BY <1>3, <1>6, <2>1 DEF Add
  <2>3. Sound(Asks, saved, w, r)
    BY <1>4, <2>1, <2>2 DEF Sound
  <2> QED BY <1>5, <2>2, <2>3
<1>7. CASE Subscribe(w)
  <2>1. PICK r, q : /\ r = [s EXCEPT !.main = "select", !.helper = "select", !.subscribed = TRUE]
                    /\ q = [s EXCEPT !.main = "remove"]
    OBVIOUS
  <2>2. (wk' = [wk EXCEPT ![w] = r] \/ wk' = [wk EXCEPT ![w] = q]) /\ s.main = "subscribe"
    BY <1>3, <1>7, <2>1 DEF Subscribe
  <2>3. Sound(Asks, saved, w, r) /\ Sound(Asks, saved, w, q)
    BY <1>4, <2>1, <2>2 DEF Sound
  <2> QED BY <1>5, <2>2, <2>3
<1>8. CASE MainGet(w)
  <2>1. PICK r : r = [s EXCEPT !.main = "work", !.copy = store]
    OBVIOUS
  <2>2. wk' = [wk EXCEPT ![w] = r] /\ s.main = "select" /\ store # None
    BY <1>3, <1>8, <2>1 DEF MainGet
  <2>3. Stems(Asks, store, saved)
    BY <2>2 DEF StemInv
  <2>4. Sound(Asks, saved, w, r)
    BY <1>4, <2>1, <2>2, <2>3 DEF Sound
  <2> QED BY <1>5, <2>2, <2>4
<1>9. CASE Abort(w)
  <2>1. PICK r : r = [s EXCEPT !.main = "select", !.intr = s.intr - 1]
    OBVIOUS
  <2>2. wk' = [wk EXCEPT ![w] = r] /\ s.main = "work"
    BY <1>3, <1>9, <2>1 DEF Abort
  <2>3. Sound(Asks, saved, w, r)
    BY <1>4, <2>1, <2>2 DEF Sound
  <2> QED BY <1>5, <2>2, <2>3
<1>10. CASE ErrorReturn(w)
  <2>1. PICK r : r = [s EXCEPT !.main = "select"]
    OBVIOUS
  <2>2. wk' = [wk EXCEPT ![w] = r] /\ s.main = "work"
    BY <1>3, <1>10, <2>1 DEF ErrorReturn
  <2>3. Sound(Asks, saved, w, r)
    BY <1>4, <2>1, <2>2 DEF Sound
  <2> QED BY <1>5, <2>2, <2>3
<1>11. CASE DecideStopped(w)
  <2>1. PICK r, q, t : /\ r = [s EXCEPT !.main = "select"]
                       /\ q = [s EXCEPT !.main = "erase"]
                       /\ t = [s EXCEPT !.main = "select", !.stopSent = TRUE]
    OBVIOUS
  <2>2. /\ s.main = "work"
        /\ \/ wk' = [wk EXCEPT ![w] = r] \/ wk' = [wk EXCEPT ![w] = t]
           \/ wk' = [wk EXCEPT ![w] = q] /\ s.copy.deleted
    BY <1>3, <1>11, <2>1 DEF DecideStopped
  <2>3. Sound(Asks, saved, w, r) /\ Sound(Asks, saved, w, t)
    BY <1>4, <2>1, <2>2 DEF Sound
  <2>4. s.copy.deleted => Sound(Asks, saved, w, q)
    BY <1>4, <2>1, <2>2 DEF Sound
  <2> QED BY <1>5, <2>2, <2>3, <2>4
<1>12. CASE DecideRun(w)
  <2>1. PICK p \in {s.copy.paused, TRUE} : wk' = [wk EXCEPT ![w] =
               [s EXCEPT !.main = "save", !.copy = [s.copy EXCEPT !.paused = p]]]
    BY <1>3, <1>12 DEF DecideRun
  <2>2. PICK d : d = [s.copy EXCEPT !.paused = p]
    OBVIOUS
  <2>3. PICK r : r = [s EXCEPT !.main = "save", !.copy = d]
    OBVIOUS
  <2>4. s.main = "work" /\ Stems(Asks, s.copy, saved)
    BY <1>3, <1>4, <1>12 DEF DecideRun, Sound
  <2>5. Stems(Asks, d, saved)
    BY <2>1, <2>2, <2>4 DEF Stems, Doc
  <2>6. Sound(Asks, saved, w, r)
    BY <1>4, <2>3, <2>4, <2>5 DEF Sound
  <2> QED BY <1>5, <2>1, <2>2, <2>3, <2>6
<1>13. CASE ReceiveStop(w)
  <2>1. PICK r : r = [s EXCEPT !.main = "remove", !.subscribed = FALSE]
    OBVIOUS
  <2>2. wk' = [wk EXCEPT ![w] = r] /\ s.main = "select"
    BY <1>3, <1>13, <2>1 DEF ReceiveStop
  <2>3. Sound(Asks, saved, w, r)
    BY <1>4, <2>1, <2>2 DEF Sound
  <2> QED BY <1>5, <2>2, <2>3
<1>14. CASE Remove(w)
  <2>1. PICK r : r = [s EXCEPT !.main = "gone"]
    OBVIOUS
  <2>2. wk' = [wk EXCEPT ![w] = r] /\ s.main = "remove"
    BY <1>3, <1>14, <2>1 DEF Remove
  <2>3. Sound(Asks, saved, w, r)
    BY <1>4, <2>1, <2>2 DEF Sound
  <2> QED BY <1>5, <2>2, <2>3
<1> QED BY <1>6, <1>7, <1>8, <1>9, <1>10, <1>11, <1>12, <1>13, <1>14

\* The steps of a main loop that write the store: its own Put, what it read, or nothing.
LEMMA SaveKeepsStems ==
    ASSUME TypeInv, StemInv, NEW w \in Clients, FirstSave(w) \/ Erase(w) \/ Save(w)
    PROVE  StemInv'
<1>1. wk \in [Clients -> Worker] /\ wk[w] \in Worker /\ Sound(Asks, saved, w, wk[w])
  BY DEF TypeInv, TypeOK, StemInv
<1>2. req' = req /\ (store # None => Stems(Asks, store, saved))
  BY DEF FirstSave, Erase, Save, StemInv
<1>3. PICK s \in Worker : s = wk[w]
  BY <1>1
<1>4. Sound(Asks, saved, w, s)
  BY <1>1, <1>3
<1>5. ASSUME NEW r, wk' = [wk EXCEPT ![w] = r], saved \subseteq saved', Sound(Asks, saved', w, r),
             store' # None => Stems(Asks, store', saved')
      PROVE  StemInv'
  <2>1. [Next]_vars
    BY DEF Next, Main
  <2> QED BY <1>2, <1>5, <2>1, StepKeepsStems
<1> USE DEF Worker
<1>6. CASE FirstSave(w)
  <2>1. PICK r : r = [s EXCEPT !.main = "subscribe"]
    OBVIOUS
  <2>2. wk' = [wk EXCEPT ![w] = r] /\ s.main = "first" /\ saved \subseteq saved'
    BY <1>3, <1>6, <2>1 DEF FirstSave
  <2>3. Sound(Asks, saved', w, s)
    BY <1>4, <2>2, StemsMore
  <2>4. Sound(Asks, saved', w, r)
    BY <2>1, <2>2, <2>3 DEF Sound
  <2>5. Own(w, s.copy) /\ Asks[w] = "put"
    BY <2>2, <2>3 DEF Sound
  <2>6. \/ store' = store
        \/ store' = s.copy /\ w \in saved'
    BY <1>3, <1>6 DEF FirstSave
  <2>7. store' # None => Stems(Asks, store', saved')
    BY <1>2, <2>2, <2>5, <2>6, StemsMore DEF Own, Stems
  <2> QED BY <1>5, <2>2, <2>4, <2>7
<1>7. CASE Erase(w)
  <2>1. PICK r : r = [s EXCEPT !.main = "select", !.stopSent = TRUE]
    OBVIOUS
  <2>2. wk' = [wk EXCEPT ![w] = r] /\ s.main = "erase" /\ saved' = saved
    BY <1>3, <1>7, <2>1 DEF Erase
  <2>3. Sound(Asks, saved, w, r)
    BY <1>4, <2>1, <2>2 DEF Sound
  <2>4. store' = store \/ store' = None
    BY <1>7 DEF Erase
  <2> QED BY <1>2, <1>5, <2>2, <2>3, <2>4
<1>8. CASE Save(w)
  <2>1. PICK r : r = [s EXCEPT !.main = "select"]
    OBVIOUS
  <2>2. wk' = [wk EXCEPT ![w] = r] /\ s.main = "save" /\ saved' = saved
    BY <1>3, <1>8, <2>1 DEF Save
  <2>3. Sound(Asks, saved, w, r) /\ Stems(Asks, s.copy, saved)
    BY <1>4, <2>1, <2>2 DEF Sound
  <2>4. store' = store \/ store' = s.copy
    BY <1>3, <1>8 DEF Save
  <2> QED BY <1>2, <1>5, <2>2, <2>3, <2>4
<1> QED BY <1>6, <1>7, <1>8

\* A task makes of a record that is accounted for one that is, and that shows its effect.
LEMMA AppliedStems ==
    ASSUME TypeInv, StemInv, NEW c \in Clients, NEW d \in Doc, Stems(Asks, d, saved)
    PROVE  /\ Stems(Asks, Applied(c, d), saved \cup {c})
           /\ Contract!Shows(c, Applied(c, d))
<1>1. req[c].kind \in AllKinds /\ Own(c, req[c].doc) /\ Asks[c] = req[c].kind
  BY ControlPlaneAssumption DEF TypeInv, TypeOK, Request, StemInv, Asks
<1>2. Stems(Asks, d, saved \cup {c})
  BY StemsMore
<1>3. CASE req[c].kind = "put"
  <2>1. Applied(c, d) = req[c].doc
    BY <1>3 DEF Applied
  <2> QED BY <1>1, <1>3, <2>1 DEF Own, Stems, Contract!Shows
<1>4. CASE req[c].kind = "pause"
  <2>1. Applied(c, d) = [d EXCEPT !.paused = TRUE]
    BY <1>4 DEF Applied
  <2> QED BY <1>1, <1>2, <1>4, <2>1 DEF Doc, Stems, Contract!Shows
<1>5. CASE req[c].kind = "unpause"
  <2>1. Applied(c, d) = [d EXCEPT !.paused = FALSE]
    BY <1>5 DEF Applied
  <2> QED BY <1>1, <1>2, <1>5, <2>1 DEF Doc, Stems, Contract!Shows
<1>6. CASE req[c].kind = "stop"
  <2>1. Applied(c, d) = [d EXCEPT !.stopped = TRUE]
    BY <1>6 DEF Applied
  <2>2. \E e \in saved \cup {c} : Asks[e] \in {"stop", "delete"}
    BY <1>1, <1>6
  <2> QED BY <1>1, <1>2, <1>6, <2>1, <2>2 DEF Doc, Stems, Contract!Shows
<1>7. CASE req[c].kind = "delete"
  <2>1. Applied(c, d) = [d EXCEPT !.stopped = TRUE, !.deleted = TRUE]
    BY <1>7 DEF Applied
  <2>2. /\ \E e \in saved \cup {c} : Asks[e] \in {"stop", "delete"}
        /\ \E e \in saved \cup {c} : Asks[e] = "delete"
    BY <1>1, <1>7
  <2> QED BY <1>1, <1>2, <1>7, <2>1, <2>2 DEF Doc, Stems, Contract!Shows
<1> QED BY <1>1, <1>3, <1>4, <1>5, <1>6, <1>7 DEF AllKinds

\* The helper reads what is stored, and writes what a task makes of it.
LEMMA HelperKeepsStems ==
    ASSUME TypeInv, StemInv, NEW w \in Clients, Helper(w)
    PROVE  StemInv'
<1>1. wk \in [Clients -> Worker] /\ wk[w] \in Worker /\ Sound(Asks, saved, w, wk[w])
  BY DEF TypeInv, TypeOK, StemInv
<1>2. store # None => Stems(Asks, store, saved)
  BY DEF StemInv
<1>3. PICK s \in Worker : s = wk[w]
  BY <1>1
<1>4. Sound(Asks, saved, w, s)
  BY <1>1, <1>3
<1>5. ASSUME NEW r, wk' = [wk EXCEPT ![w] = r], saved \subseteq saved', Sound(Asks, saved', w, r),
             store' # None => Stems(Asks, store', saved'),
             \A c \in Clients : req'[c].doc = req[c].doc
      PROVE  StemInv'
  <2>1. [Next]_vars
    BY DEF Next
  <2> QED BY <1>5, <2>1, StepKeepsStems
<1> USE DEF Worker
<1>6. CASE Take(w)
  <2>1. PICK r : r = [s EXCEPT !.helper = "get", !.task = Head(s.queue),
                               !.queue = Tail(s.queue), !.intr = s.intr + 1]
    OBVIOUS
  <2>2. wk' = [wk EXCEPT ![w] = r] /\ UNCHANGED <<store, saved, req>>
    BY <1>3, <1>6, <2>1 DEF Take
  <2>3. r.main = s.main /\ r.copy = s.copy /\ r.helper = "get"
    BY <2>1
  <2>4. Sound(Asks, saved, w, r)
    BY <1>4, <2>3 DEF Sound
  <2> QED BY <1>2, <1>5, <2>2, <2>4
<1>7. CASE HelperGet(w)
  <2>1. PICK found \in {store, None} : wk' = [wk EXCEPT ![w] =
           [s EXCEPT !.helper = IF found = None THEN "select" ELSE "apply", !.held = found]]
    BY <1>3, <1>7 DEF HelperGet
  <2>2. PICK r : r = [s EXCEPT !.helper = IF found = None THEN "select" ELSE "apply", !.held = found]
    OBVIOUS
  <2>3. Sound(Asks, saved, w, r)
    BY <1>2, <1>4, <2>1, <2>2 DEF Sound
  <2>4. UNCHANGED <<store, saved, req>>
    BY <1>7 DEF HelperGet
  <2> QED BY <1>2, <1>5, <2>1, <2>2, <2>3, <2>4
<1>8. CASE HelperEnds(w)
  <2>1. PICK r : r = [s EXCEPT !.helper = "gone"]
    OBVIOUS
  <2>2. wk' = [wk EXCEPT ![w] = r] /\ UNCHANGED <<store, saved, req>>
    BY <1>3, <1>8, <2>1 DEF HelperEnds
  <2>3. Sound(Asks, saved, w, r)
    BY <1>4, <2>1 DEF Sound
  <2> QED BY <1>2, <1>5, <2>2, <2>3
<1>9. CASE Apply(w)
  <2>1. PICK r : r = [s EXCEPT !.helper = "select"]
    OBVIOUS
  <2>2. wk' = [wk EXCEPT ![w] = r] /\ s.helper = "apply" /\ saved \subseteq saved'
    BY <1>3, <1>9, <2>1 DEF Apply
  <2>3. Sound(Asks, saved', w, s)
    BY <1>4, <2>2, StemsMore
  <2>4. Sound(Asks, saved', w, r)
    BY <2>1, <2>3 DEF Sound
  <2>5. s.task \in Clients /\ Stems(Asks, s.held, saved) /\ s.held \in Doc
    BY <1>3, <1>4, <2>2 DEF Sound, Stems, TypeInv, WorkerOK
  <2>6. \/ store' = store
        \/ store' = Applied(s.task, s.held) /\ saved' = saved \cup {s.task}
    BY <1>3, <1>9 DEF Apply
  <2>7. store' # None => Stems(Asks, store', saved')
    <3>1. CASE store' = store
      BY <1>2, <2>2, <3>1, StemsMore
    <3>2. CASE store' = Applied(s.task, s.held) /\ saved' = saved \cup {s.task}
      <4>1. Stems(Asks, Applied(s.task, s.held), saved \cup {s.task})
        BY <2>5, AppliedStems
      <4> QED BY <3>2, <4>1
    <3> QED BY <2>6, <3>1, <3>2
  <2>8. \A c \in Clients : req'[c].doc = req[c].doc
    <3>1. PICK t, a : Reply(t, a)
      BY <1>9 DEF Apply
    <3> QED BY <3>1 DEF Reply, TypeInv, TypeOK, Request
  <2> QED BY <1>5, <2>2, <2>4, <2>7, <2>8
<1> QED BY <1>6, <1>7, <1>8, <1>9 DEF Helper

\* The handlers: the record a Put builds is its own, and so is the one it spawns a worker with.
LEMMA CallKeepsStems ==
    ASSUME TypeInv, StemInv, NEW c \in Clients,
           Handler(c) \/ SendFails(c) \/ DeleteFails(c) \/ Timeout(c)
    PROVE  StemInv'
<1>1. /\ wk \in [Clients -> Worker] /\ req \in [Clients -> Request] /\ req[c] \in Request
      /\ Own(c, req[c].doc) /\ store \in Doc \cup {None}
      /\ store # None => Stems(Asks, store, saved)
  BY DEF TypeInv, TypeOK, StemInv
<1>2. Asks' = Asks /\ saved' = saved
  <2>1. [Next]_vars
    BY DEF Next
  <2> QED BY <2>1, AsksStay DEF Handler, Call, CheckWorker, Send, Await, Return, SendFails,
                                DeleteFails, Timeout
<1>3. store' \in {store, None}
  BY DEF Handler, Call, CheckWorker, Send, Await, Return, SendFails, DeleteFails, Timeout
<1>4. \A d \in Clients : Own(d, req'[d].doc)
  <2>1. CASE Call(c)
    <3>1. \A d \in Clients : d # c => req'[d] = req[d]
      BY <1>1, <2>1 DEF Call
    <3>2. PICK found \in {store, None} :
             req'[c].doc \in {req[c].doc, [req[c].doc EXCEPT !.paused = found.paused]}
             /\ (found = None => req'[c].doc = req[c].doc)
      BY <1>1, <2>1 DEF Call, Request
    <3>3. found # None => Own(c, [req[c].doc EXCEPT !.paused = found.paused])
      BY <1>1, <3>2 DEF Own, Doc
    <3>4. Own(c, req'[c].doc)
      BY <1>1, <3>2, <3>3
    <3> QED BY <3>1, <3>4 DEF StemInv
  <2>2. CASE CheckWorker(c) \/ Send(c) \/ Await(c) \/ Return(c) \/ SendFails(c)
               \/ DeleteFails(c) \/ Timeout(c)
    <3>1. \A d \in Clients : req'[d].doc = req[d].doc
      BY <1>1, <2>2 DEF CheckWorker, Send, Await, Return, SendFails, DeleteFails, Timeout, Request
    <3> QED BY <3>1 DEF StemInv
  <2> QED BY <2>1, <2>2 DEF Handler
<1>5. \A w \in Clients : Sound(Asks, saved, w, wk'[w])
  <2>1. CASE Send(c)
    <3>1. ASSUME NEW w \in Clients
          PROVE  /\ wk'[w].main = wk[w].main /\ wk'[w].copy = wk[w].copy
                 /\ wk'[w].helper = wk[w].helper /\ wk'[w].held = wk[w].held
      BY <1>1, <2>1 DEF Send, Worker
    <3> QED BY <3>1 DEF StemInv, Sound
  <2>2. CASE Return(c) /\ req[c].kind = "put"
    <3>1. PICK r : r = [NoWorker EXCEPT !.main = "add", !.copy = req[c].doc]
      OBVIOUS
    <3>2. wk' = [wk EXCEPT ![c] = r]
      BY <2>2, <3>1 DEF Return
    <3>3. r.main = "add" /\ r.copy = req[c].doc /\ r.helper = "none"
      BY <3>1 DEF NoWorker
    <3>4. Sound(Asks, saved, c, r)
      BY <1>1, <2>2, <3>3 DEF Sound, Asks
    <3>5. wk'[c] = r /\ \A w \in Clients : w # c => wk'[w] = wk[w]
      BY <1>1, <3>2
    <3> QED BY <3>4, <3>5 DEF StemInv
  <2>3. CASE ~Send(c) /\ ~(Return(c) /\ req[c].kind = "put")
    <3>1. wk' = wk
      BY <2>3 DEF Handler, Call, CheckWorker, Await, Return, SendFails, DeleteFails, Timeout
    <3> QED BY <3>1 DEF StemInv
  <2> QED BY <2>1, <2>2, <2>3
<1> QED BY <1>1, <1>2, <1>3, <1>4, <1>5 DEF StemInv

\* Every step keeps all records accounted for.
LEMMA NextStems == TypeInv /\ StemInv /\ [Next]_vars => StemInv'
<1> SUFFICES ASSUME TypeInv, StemInv, [Next]_vars PROVE StemInv'
  OBVIOUS
<1>1. CASE Crash
  <2>1. Asks' = Asks
    BY AsksStay
  <2>2. store' = store /\ saved' = saved /\ \A c \in Clients : req'[c].doc = req[c].doc
    BY <1>1 DEF Crash, TypeInv, TypeOK, Request
  <2>3. PICK r : r = [NoWorker EXCEPT !.main = "gone"]
    OBVIOUS
  <2>4. r.main = "gone" /\ r.helper = "none"
    BY <2>3 DEF NoWorker
  <2>5. \A w \in Clients : wk'[w] = IF wk[w].main = "none" THEN wk[w] ELSE r
    BY <1>1, <2>3 DEF Crash
  <2>6. \A w \in Clients : Sound(Asks, saved, w, wk'[w])
    BY <2>4, <2>5 DEF StemInv, Sound
  <2> QED BY <2>1, <2>2, <2>6 DEF StemInv
<1>2. CASE UNCHANGED vars
  BY <1>2, AsksStay DEF vars, StemInv
<1> QED BY <1>1, <1>2, MainKeepsStems, SaveKeepsStems, HelperKeepsStems, CallKeepsStems
        DEF Next, Main

\* Nothing is stored, and no worker has been spawned.
LEMMA InitStems == Init => StemInv
<1> SUFFICES ASSUME Init PROVE StemInv
  OBVIOUS
<1>1. PICK kind \in [Clients -> Kinds] :
         req = [c \in Clients |-> [pc |-> "idle", kind |-> kind[c], doc |-> NewDoc(c)]]
  BY DEF Init
<1>2. \A c \in Clients : Own(c, NewDoc(c))
  BY DocUpdates DEF NewDoc, Own
<1>3. \A w \in Clients : wk[w].main = "none" /\ wk[w].helper = "none"
  BY DEF Init, NoWorker
<1> QED BY <1>1, <1>2, <1>3 DEF Init, StemInv, Sound

-----------------------------------------------------------------------------
(* The steps as steps of the contract *)

Answers == [c \in Clients |-> Seen(req[c].pc)]
Holders == {w \in Clients : Running(w)}

\* All that is known of a reachable state.
KeptInv == TypeInv /\ OneInv /\ AckInv /\ OnceInv /\ StemInv

\* The contract's Asked is what accounts for a record.
LEMMA AskedStems ==
    \A S \in SUBSET Clients : \A d : d \in Contract!Asked(S) <=> Stems(Asks, d, S)
BY DEF Contract!Asked, Contract!Records, Stems, Doc, Asks

\* A step that changes nothing of what clients see.
LEMMA Stutters ==
    ASSUME Asks' = Asks, Answers' = Answers, Holders' = Holders, saved' = saved, store' = store
    PROVE  UNCHANGED Contract!vars
BY DEF Contract!vars, Asks, Answers, Holders

\* A call that moves changes its own answer, or nobody's.
LEMMA OneAnswer ==
    ASSUME TypeInv, NEW c \in Clients, \A d \in Clients : d # c => req'[d] = req[d]
    PROVE  /\ Answers' = [Answers EXCEPT ![c] = Seen(req'[c].pc)]
           /\ Answers[c] = Seen(req[c].pc)
           /\ Seen(req'[c].pc) = Seen(req[c].pc) => Answers' = Answers
<1>1. Answers' = [d \in Clients |-> Seen(req'[d].pc)]
  BY DEF Answers, Seen
<1> QED BY <1>1 DEF Answers

\* A step that runs no other workers than before leaves the holder.
LEMMA SameHolder ==
    ASSUME \A v \in Clients : Running(v)' <=> Running(v)
    PROVE  Holders' = Holders
BY DEF Holders

\* The map says whether anybody holds the deployment, and who runs is the only one.
LEMMA MapTellsHolder ==
    ASSUME OneInv
    PROVE  /\ ~mapped <=> Holders = {}
           /\ \A w \in Clients : Running(w) => Holders = {w} /\ mapped
BY DEF OneInv, OneWorker, Holders

\* The steps of a handler.
LEMMA CallKeepsContract ==
    ASSUME KeptInv, NEW c \in Clients,
           Handler(c) \/ SendFails(c) \/ DeleteFails(c) \/ Timeout(c)
    PROVE  [Contract!Next]_(Contract!vars)
<1>1. /\ wk \in [Clients -> Worker] /\ req \in [Clients -> Request] /\ req[c] \in Request
      /\ req[c].kind \in AllKinds
  BY ControlPlaneAssumption DEF KeptInv, TypeInv, TypeOK, Request
<1>2. Asks' = Asks /\ saved' = saved
  <2>1. [Next]_vars
    BY DEF Next
  <2> QED BY <2>1, AsksStay DEF KeptInv, Handler, Call, CheckWorker, Send, Await, Return,
                                SendFails, DeleteFails, Timeout
<1>3. \A d \in Clients : d # c => req'[d] = req[d]
  <2>1. CASE Call(c)
    BY <1>1, <2>1 DEF Call
  <2>2. CASE ~Call(c)
    BY <1>1, <2>2 DEF Handler, CheckWorker, Send, Await, Return, SendFails, DeleteFails, Timeout
  <2> QED BY <2>1, <2>2
<1>4. /\ Answers' = [Answers EXCEPT ![c] = Seen(req'[c].pc)]
      /\ Answers[c] = Seen(req[c].pc)
      /\ Seen(req'[c].pc) = Seen(req[c].pc) => Answers' = Answers
  BY <1>3, OneAnswer DEF KeptInv
<1>5. Holders' = Holders
  <2>1. \A v \in Clients : Running(v)' <=> Running(v)
    <3>1. CASE Send(c)
      <4>1. \A v \in Clients : wk'[v].main = wk[v].main
        BY <1>1, <3>1 DEF Send, Worker
      <4> QED BY <4>1 DEF Running
    <3>2. CASE Return(c) /\ req[c].kind = "put"
      <4>1. PICK r : r = [NoWorker EXCEPT !.main = "add", !.copy = req[c].doc]
        OBVIOUS
      <4>2. wk' = [wk EXCEPT ![c] = r] /\ r.main = "add"
        BY <3>2, <4>1 DEF Return, NoWorker
      <4>3. wk'[c].main = "add" /\ \A v \in Clients : v # c => wk'[v] = wk[v]
        BY <1>1, <4>2
      <4>4. wk[c].main = "none"
        BY <3>2 DEF KeptInv, OneInv, Return
      <4> QED BY <4>3, <4>4 DEF Running
    <3>3. CASE ~Send(c) /\ ~(Return(c) /\ req[c].kind = "put")
      <4>1. wk' = wk
        BY <3>3 DEF Handler, Call, CheckWorker, Await, Return, SendFails, DeleteFails, Timeout
      <4> QED BY <4>1 DEF Running
    <3> QED BY <3>1, <3>2, <3>3
  <2> QED BY <2>1, SameHolder
<1>6. CASE Call(c)
  <2>1. Seen(req[c].pc) = "idle" /\ Seen(req'[c].pc) \in {"open", "error"} /\ store' = store
    BY <1>1, <1>6 DEF Call, Request, Seen
  <2>2. Contract!Ask(c)
    BY <1>2, <1>4, <1>5, <2>1 DEF Contract!Ask, Contract!Becomes, Asks, Answers, Holders
  <2> QED BY <2>2 DEF Contract!Next
<1>7. CASE SendFails(c) \/ DeleteFails(c) \/ Timeout(c)
  <2>1. Seen(req[c].pc) = "open" /\ Seen(req'[c].pc) = "error" /\ store' = store
    BY <1>1, <1>7 DEF SendFails, DeleteFails, Timeout, Request, Seen
  <2>2. Contract!Refuse(c)
    BY <1>2, <1>4, <1>5, <2>1 DEF Contract!Refuse, Contract!Becomes, Asks, Answers, Holders
  <2> QED BY <2>2 DEF Contract!Next
<1>8. CASE Send(c) \/ Await(c)
  <2>1. Seen(req[c].pc) = "open" /\ Seen(req'[c].pc) = "open" /\ store' = store
    BY <1>1, <1>8 DEF Send, Await, Request, Seen
  <2> QED BY <1>2, <1>4, <1>5, <2>1, Stutters
<1>9. CASE Return(c)
  <2>1. Seen(req[c].pc) = "answered" /\ Seen(req'[c].pc) = "ok" /\ store' = store
    BY <1>1, <1>9 DEF Return, Request, Seen
  <2>2. Contract!Return(c)
    BY <1>2, <1>4, <1>5, <2>1 DEF Contract!Return, Contract!Becomes, Asks, Answers, Holders
  <2> QED BY <2>2 DEF Contract!Next
<1>10. CASE CheckWorker(c) /\ mapped
  <2>1. Seen(req[c].pc) = "open" /\ Seen(req'[c].pc) = "open" /\ store' = store
    BY <1>1, <1>10 DEF CheckWorker, Request, Seen
  <2> QED BY <1>2, <1>4, <1>5, <2>1, Stutters
<1>11. CASE CheckWorker(c) /\ ~mapped
  <2>1. Seen(req[c].pc) = "open" /\ Seen(req'[c].pc) = "answered"
    BY <1>1, <1>11 DEF CheckWorker, Request, Seen
  <2>2. store' = IF Asks[c] = "delete" THEN None ELSE store
    BY <1>11 DEF CheckWorker, Asks
  <2>3. Asks[c] \in {"put", "stop", "delete"}
    BY <1>1, <1>11 DEF CheckWorker, KeptInv, AckInv, AllKinds, Asks
  <2>4. Holders = {}
    BY <1>11, MapTellsHolder DEF KeptInv
  <2>5. Contract!Waive(c)
    BY <1>2, <1>4, <1>5, <2>1, <2>2, <2>3, <2>4
       DEF Contract!Waive, Contract!Becomes, Asks, Answers, Holders
  <2> QED BY <2>5 DEF Contract!Next
<1> QED BY <1>6, <1>7, <1>8, <1>9, <1>10, <1>11 DEF Handler

\* The steps of a worker that neither answer nor save: only Add and Remove are seen.
LEMMA SilentKeepsContract ==
    ASSUME KeptInv, NEW w \in Clients, Silent(w) \/ Take(w),
           ~Erase(w), ~Save(w)
    PROVE  [Contract!Next]_(Contract!vars)
<1>1. wk \in [Clients -> Worker] /\ wk[w] \in Worker
  BY DEF KeptInv, TypeInv, TypeOK
<1>2. Asks' = Asks /\ Answers' = Answers /\ saved' = saved /\ store' = store
  <2>1. req' = req /\ saved' = saved /\ store' = store
    BY DEF Silent, Take, Add, Subscribe, HelperGet, HelperEnds, MainGet, Abort, ErrorReturn,
           DecideStopped, DecideRun, ReceiveStop, Remove
  <2> QED BY <2>1 DEF Asks, Answers
<1>3. CASE Add(w)
  <2>1. /\ wk[w].main = "add" /\ wk'[w].main = IF mapped THEN "gone" ELSE "first"
        /\ \A v \in Clients : v # w => wk'[v] = wk[v]
    BY <1>1, <1>3 DEF Add, Worker
  <2>2. CASE mapped
    <3>1. \A v \in Clients : Running(v)' <=> Running(v)
      BY <2>1, <2>2 DEF Running
    <3> QED BY <1>2, <3>1, SameHolder, Stutters
  <2>3. CASE ~mapped
    <3>1. Holders = {}
      BY <2>3, MapTellsHolder DEF KeptInv
    <3>2. Holders' = {w}
      BY <2>1, <2>3, <3>1 DEF Holders, Running
    <3>3. Asks[w] = "put" /\ Answers[w] = "ok"
      BY <2>1 DEF KeptInv, StemInv, Sound, OneInv, Answers, Seen
    <3>4. Contract!Acquire(w)
      BY <1>2, <3>1, <3>2, <3>3 DEF Contract!Acquire, Asks, Answers, Holders
    <3> QED BY <3>4 DEF Contract!Next
  <2> QED BY <2>2, <2>3
<1>4. CASE Remove(w)
  <2>1. /\ wk[w].main = "remove" /\ wk'[w].main = "gone"
        /\ \A v \in Clients : v # w => wk'[v] = wk[v]
    BY <1>1, <1>4 DEF Remove, Worker
  <2>2. Holders = {w}
    BY <2>1, MapTellsHolder DEF KeptInv, Running
  <2>3. Holders' = {}
    BY <2>1, <2>2 DEF Holders, Running
  <2>4. Contract!Release
    BY <1>2, <2>2, <2>3 DEF Contract!Release, Asks, Answers, Holders
  <2> QED BY <2>4 DEF Contract!Next
<1>5. CASE ~Add(w) /\ ~Remove(w)
  <2>1. /\ \A v \in Clients : v # w => wk'[v] = wk[v]
        /\ wk'[w].main = wk[w].main
             \/ {wk[w].main, wk'[w].main} \subseteq {"subscribe", "select", "work", "save", "erase", "remove"}
    <3>0. PICK s \in Worker : s = wk[w]
      BY <1>1
    <3> DEFINE Still(r) ==
           r.main = s.main
             \/ {s.main, r.main} \subseteq {"subscribe", "select", "work", "save", "erase", "remove"}
    <3> HIDE DEF Still
    <3>a. ASSUME NEW r, wk' = [wk EXCEPT ![w] = r], Still(r)
          PROVE  /\ \A v \in Clients : v # w => wk'[v] = wk[v]
                 /\ wk'[w].main = wk[w].main
                      \/ {wk[w].main, wk'[w].main}
                           \subseteq {"subscribe", "select", "work", "save", "erase", "remove"}
      <4>1. wk'[w] = r /\ \A v \in Clients : v # w => wk'[v] = wk[v]
        BY <1>1, <3>a
      <4> QED BY <3>0, <3>a, <4>1 DEF Still
    <3>b. \A m : m \in {"subscribe", "select", "work", "save", "erase", "remove"} =>
             LET r == [s EXCEPT !.main = m] IN
             s.main \in {"subscribe", "select", "work", "save", "erase", "remove"} => Still(r)
      BY DEF Worker, Still
    <3>1. CASE HelperGet(w)
      <4>1. PICK h, f : wk' = [wk EXCEPT ![w] = [s EXCEPT !.helper = h, !.held = f]]
        BY <3>0, <3>1 DEF HelperGet
      <4>2. PICK r : r = [s EXCEPT !.helper = h, !.held = f]
        OBVIOUS
      <4>3. Still(r)
        BY <4>2 DEF Worker, Still
      <4> QED BY <3>a, <4>1, <4>2, <4>3
    <3>2. CASE HelperEnds(w)
      <4>1. PICK r : r = [s EXCEPT !.helper = "gone"]
        OBVIOUS
      <4>2. wk' = [wk EXCEPT ![w] = r]
        BY <3>0, <3>2, <4>1 DEF HelperEnds
      <4>3. Still(r)
        BY <4>1 DEF Worker, Still
      <4> QED BY <3>a, <4>2, <4>3
    <3>3. CASE Take(w)
      <4>1. PICK r : r = [s EXCEPT !.helper = "get", !.task = Head(s.queue),
                                   !.queue = Tail(s.queue), !.intr = s.intr + 1]
        OBVIOUS
      <4>2. wk' = [wk EXCEPT ![w] = r]
        BY <3>0, <3>3, <4>1 DEF Take
      <4>3. Still(r)
        BY <4>1 DEF Worker, Still
      <4> QED BY <3>a, <4>2, <4>3
    <3>4. CASE Subscribe(w)
      <4>1. PICK r, q : /\ r = [s EXCEPT !.main = "select", !.helper = "select", !.subscribed = TRUE]
                        /\ q = [s EXCEPT !.main = "remove"]
        OBVIOUS
      <4>2. (wk' = [wk EXCEPT ![w] = r] \/ wk' = [wk EXCEPT ![w] = q]) /\ s.main = "subscribe"
        BY <3>0, <3>4, <4>1 DEF Subscribe
      <4>3. Still(r) /\ Still(q)
        BY <4>1, <4>2 DEF Worker, Still
      <4> QED BY <3>a, <4>2, <4>3
    <3>5. CASE MainGet(w)
      <4>1. PICK r : r = [s EXCEPT !.main = "work", !.copy = store]
        OBVIOUS
      <4>2. wk' = [wk EXCEPT ![w] = r] /\ s.main = "select"
        BY <3>0, <3>5, <4>1 DEF MainGet
      <4>3. Still(r)
        BY <4>1, <4>2 DEF Worker, Still
      <4> QED BY <3>a, <4>2, <4>3
    <3>6. CASE Abort(w)
      <4>1. PICK r : r = [s EXCEPT !.main = "select", !.intr = s.intr - 1]
        OBVIOUS
      <4>2. wk' = [wk EXCEPT ![w] = r] /\ s.main = "work"
        BY <3>0, <3>6, <4>1 DEF Abort
      <4>3. Still(r)
        BY <4>1, <4>2 DEF Worker, Still
      <4> QED BY <3>a, <4>2, <4>3
    <3>7. CASE ErrorReturn(w)
      <4>1. PICK r : r = [s EXCEPT !.main = "select"]
        OBVIOUS
      <4>2. wk' = [wk EXCEPT ![w] = r] /\ s.main = "work"
        BY <3>0, <3>7, <4>1 DEF ErrorReturn
      <4> QED BY <3>a, <3>b, <4>1, <4>2
    <3>8. CASE DecideStopped(w)
      <4>1. PICK r, q, t : /\ r = [s EXCEPT !.main = "select"]
                           /\ q = [s EXCEPT !.main = "erase"]
                           /\ t = [s EXCEPT !.main = "select", !.stopSent = TRUE]
        OBVIOUS
      <4>2. /\ s.main = "work"
            /\ \/ wk' = [wk EXCEPT ![w] = r] \/ wk' = [wk EXCEPT ![w] = q]
               \/ wk' = [wk EXCEPT ![w] = t]
        BY <3>0, <3>8, <4>1 DEF DecideStopped
      <4>3. Still(t)
        BY <4>1, <4>2 DEF Worker, Still
      <4>4. Still(r) /\ Still(q)
        BY <3>b, <4>1, <4>2
      <4> QED BY <3>a, <4>2, <4>3, <4>4
    <3>9. CASE DecideRun(w)
      <4>1. PICK p : wk' = [wk EXCEPT ![w] =
               [s EXCEPT !.main = "save", !.copy = [s.copy EXCEPT !.paused = p]]]
        BY <3>0, <3>9 DEF DecideRun
      <4>2. PICK d : d = [s.copy EXCEPT !.paused = p]
        OBVIOUS
      <4>3. PICK r : r = [s EXCEPT !.main = "save", !.copy = d]
        OBVIOUS
      <4>4. s.main = "work"
        BY <3>0, <3>9 DEF DecideRun
      <4>5. Still(r)
        BY <4>3, <4>4 DEF Worker, Still
      <4> QED BY <3>a, <4>1, <4>2, <4>3, <4>5
    <3>10. CASE ReceiveStop(w)
      <4>1. PICK r : r = [s EXCEPT !.main = "remove", !.subscribed = FALSE]
        OBVIOUS
      <4>2. wk' = [wk EXCEPT ![w] = r] /\ s.main = "select"
        BY <3>0, <3>10, <4>1 DEF ReceiveStop
      <4>3. Still(r)
        BY <4>1, <4>2 DEF Worker, Still
      <4> QED BY <3>a, <4>2, <4>3
    <3> QED BY <1>5, <3>1, <3>2, <3>3, <3>4, <3>5, <3>6, <3>7, <3>8, <3>9, <3>10 DEF Silent
  <2>2. \A v \in Clients : Running(v)' <=> Running(v)
    BY <2>1 DEF Running
  <2> QED BY <1>2, <2>2, SameHolder, Stutters
<1> QED BY <1>3, <1>4, <1>5

\* The steps of a main loop that write the store are a first doing of its Put, a writing
\* back, or an erasure.
LEMMA SaveKeepsContract ==
    ASSUME KeptInv, NEW w \in Clients, FirstSave(w) \/ Erase(w) \/ Save(w)
    PROVE  [Contract!Next]_(Contract!vars)
<1>1. /\ wk \in [Clients -> Worker] /\ wk[w] \in Worker /\ saved \subseteq Clients
      /\ Sound(Asks, saved, w, wk[w])
  BY DEF KeptInv, TypeInv, TypeOK, StemInv
<1>2. Asks' = Asks /\ Answers' = Answers
  <2>1. req' = req
    BY DEF FirstSave, Erase, Save
  <2> QED BY <2>1 DEF Asks, Answers
<1>3. Running(w) /\ Holders = {w}
  BY MapTellsHolder DEF KeptInv, FirstSave, Erase, Save, Running
<1>4. Holders' = Holders
  <2>1. /\ wk'[w].main \in {"subscribe", "select"}
        /\ \A v \in Clients : v # w => wk'[v] = wk[v]
    <3>1. CASE FirstSave(w)
      BY <1>1, <3>1 DEF FirstSave, Worker
    <3>2. CASE Erase(w)
      BY <1>1, <3>2 DEF Erase, Worker
    <3>3. CASE Save(w)
      BY <1>1, <3>3 DEF Save, Worker
    <3> QED BY <3>1, <3>2, <3>3
  <2> QED BY <1>3, <2>1, SameHolder DEF Running
<1>5. CASE store' = store /\ saved' = saved
  BY <1>2, <1>4, <1>5, Stutters
<1>6. CASE FirstSave(w) /\ store' = wk[w].copy /\ saved' = saved \cup {w}
  <2>1. Own(w, wk[w].copy) /\ Asks[w] = "put"
    BY <1>1, <1>6 DEF Sound, FirstSave
  <2>2. Stems(Asks, store', saved')
    BY <1>6, <2>1 DEF Own, Stems
  <2>3. store' \in Contract!Asked(saved')
    BY <1>1, <1>6, <2>2, AskedStems
  <2>4. CASE w \notin saved
    <3>1. Answers[w] = "ok"
      BY <1>6 DEF KeptInv, OneInv, FirstSave, Answers, Seen
    <3>2. Contract!Shows(w, store')
      BY <1>6, <2>1 DEF Contract!Shows, Own, Asks
    <3>3. Contract!Do(w)
      BY <1>2, <1>4, <1>6, <2>3, <2>4, <3>1, <3>2 DEF Contract!Do, Asks, Answers, Holders
    <3> QED BY <3>3 DEF Contract!Next
  <2>5. CASE w \in saved
    <3>1. saved' = saved
      BY <1>6, <2>5
    <3>2. Contract!Rewrite
      BY <1>2, <1>3, <1>4, <2>3, <3>1 DEF Contract!Rewrite, Asks, Answers, Holders
    <3> QED BY <3>2 DEF Contract!Next
  <2> QED BY <2>4, <2>5
<1>7. CASE Save(w) /\ store' = wk[w].copy
  <2>1. Stems(Asks, store', saved) /\ saved' = saved
    BY <1>1, <1>7 DEF Sound, Save
  <2>2. store' \in Contract!Asked(saved)
    BY <1>1, <2>1, AskedStems
  <2>3. Contract!Rewrite
    BY <1>2, <1>3, <1>4, <2>1, <2>2 DEF Contract!Rewrite, Asks, Answers, Holders
  <2> QED BY <2>3 DEF Contract!Next
<1>8. CASE Erase(w) /\ store' = None
  <2>1. saved' = saved /\ \E c \in saved : Asks[c] = "delete"
    BY <1>1, <1>8 DEF Sound, Stems, Erase
  <2>2. Contract!Erase
    BY <1>1, <1>2, <1>3, <1>4, <1>8, <2>1 DEF Contract!Erase, Asks, Answers, Holders
  <2> QED BY <2>2 DEF Contract!Next
<1> QED BY <1>5, <1>6, <1>7, <1>8 DEF FirstSave, Save, Erase

\* A task that is applied is a request that is done, and answered if somebody waits; one
\* whose save fails is refused, or not even that.
LEMMA ApplyKeepsContract ==
    ASSUME KeptInv, NEW w \in Clients, Apply(w)
    PROVE  [Contract!Next]_(Contract!vars)
<1>1. /\ wk \in [Clients -> Worker] /\ wk[w] \in Worker /\ saved \subseteq Clients
      /\ req \in [Clients -> Request] /\ WorkerOK(wk[w]) /\ wk[w].helper = "apply"
      /\ Sound(Asks, saved, w, wk[w])
  BY DEF KeptInv, TypeInv, TypeOK, StemInv, Apply
<1>2. PICK c \in Clients : c = wk[w].task
  BY <1>1 DEF WorkerOK
<1>3. c \notin saved /\ req[c].pc \in {"sent", "wait", "error"}
  <2>1. Has(w, c)
    BY <1>1, <1>2 DEF Has
  <2> QED BY <2>1 DEF KeptInv, OnceInv, OnItsWay
<1>4. Asks' = Asks
  <2>1. [Next]_vars
    BY DEF Next, Helper
  <2> QED BY <2>1, AsksStay DEF KeptInv
<1>5. Holders' = Holders
  <2>1. /\ wk'[w].main = wk[w].main
        /\ \A v \in Clients : v # w => wk'[v] = wk[v]
    BY <1>1 DEF Apply, Worker
  <2>2. \A v \in Clients : Running(v)' <=> Running(v)
    BY <2>1 DEF Running
  <2> QED BY <2>2, SameHolder
<1>6. ASSUME NEW a \in {"answered", "error"}, Reply(c, a)
      PROVE  \/ Answers' = Answers
             \/ Answers[c] = "open" /\ Answers' = [Answers EXCEPT ![c] = a]
  <2>1. \A d \in Clients : d # c => req'[d] = req[d]
    BY <1>1, <1>6 DEF Reply
  <2>2. req'[c].pc = IF req[c].pc = "wait" THEN a ELSE req[c].pc
    BY <1>1, <1>6 DEF Reply, Request
  <2>3. Seen(a) = a /\ Seen("wait") = "open"
    BY DEF Seen
  <2> QED BY <2>1, <2>2, <2>3, OneAnswer DEF KeptInv
<1>7. CASE Reply(c, "answered") /\ store' = Applied(c, wk[w].held) /\ saved' = saved \cup {c}
  <2>1. wk[w].held \in Doc /\ Stems(Asks, wk[w].held, saved)
    BY <1>1 DEF WorkerOK, Sound
  <2>2. Stems(Asks, store', saved') /\ Contract!Shows(c, store')
    <3>1. /\ Stems(Asks, Applied(c, wk[w].held), saved \cup {c})
          /\ Contract!Shows(c, Applied(c, wk[w].held))
      BY <2>1, AppliedStems DEF KeptInv
    <3>2. PICK d : d = Applied(c, wk[w].held)
      OBVIOUS
    <3>3. Contract!Shows(c, d)
      BY <3>1, <3>2
    <3>4. store' = d
      BY <1>7, <3>2
    <3> QED BY <1>7, <3>1, <3>2, <3>3, <3>4 DEF Contract!Shows
  <2>3. store' \in Contract!Asked(saved')
    BY <1>1, <1>7, <2>2, AskedStems
  <2>4. Answers[c] # "idle"
    BY <1>3 DEF Answers, Seen
  <2>5. Contract!Do(c)
    BY <1>3, <1>4, <1>5, <1>6, <1>7, <2>2, <2>3, <2>4
       DEF Contract!Do, Contract!Becomes, Asks, Answers, Holders
  <2> QED BY <2>5 DEF Contract!Next
<1>8. CASE Reply(c, "error") /\ store' = store /\ saved' = saved
  <2>1. CASE Answers' = Answers
    BY <1>4, <1>5, <1>8, <2>1, Stutters
  <2>2. CASE Answers[c] = "open" /\ Answers' = [Answers EXCEPT ![c] = "error"]
    <3>1. Contract!Refuse(c)
      BY <1>4, <1>5, <1>8, <2>2 DEF Contract!Refuse, Contract!Becomes, Asks, Answers, Holders
    <3> QED BY <3>1 DEF Contract!Next
  <2> QED BY <1>6, <1>8, <2>1, <2>2
<1> QED BY <1>2, <1>7, <1>8 DEF Apply

-----------------------------------------------------------------------------
\* In the beginning nothing has been asked for, done or stored.
LEMMA InitKept == Init => KeptInv /\ Contract!Init
<1> SUFFICES ASSUME Init PROVE KeptInv /\ Contract!Init
  OBVIOUS
<1>1. TypeInv /\ StemInv
  BY InitTypeInv, InitStems
<1>2. \A c \in Clients : req[c].pc = "idle" /\ req[c].kind \in AllKinds
  BY <1>1, ControlPlaneAssumption DEF Init, TypeInv, TypeOK, Request
<1>3. \A w \in Clients : /\ wk[w].main = "none" /\ wk[w].helper = "none"
                         /\ wk[w].queue = <<>> /\ wk[w].subscribed = FALSE
  BY DEF Init, NoWorker
<1>4. OneInv /\ AckInv
  BY <1>2, <1>3 DEF Init, OneInv, OneWorker, Running, AckInv
<1>5. Len(<<>>) = 0 /\ 1 .. 0 = {}
  OBVIOUS
<1>6. OnceInv
  BY <1>3, <1>5 DEF Init, OnceInv, Distinct, Has
<1>7. /\ Asks \in [Clients -> AllKinds]
      /\ Answers = [c \in Clients |-> "idle"]
      /\ Holders = {}
  BY <1>2, <1>3 DEF Asks, Answers, Seen, Holders, Running
<1>8. Contract!Init
  BY <1>7 DEF Init, Contract!Init, Asks, Answers, Holders, AllKinds
<1> QED BY <1>1, <1>4, <1>6, <1>8 DEF KeptInv

\* The invariants together are inductive.
LEMMA NextKept == KeptInv /\ [Next]_vars => KeptInv'
BY NextTypeInv, NextOne, NextAck, NextOnce, NextStems DEF KeptInv

\* Every step is one of the contract's, or none.
LEMMA NextKeepsContract == KeptInv /\ [Next]_vars => [Contract!Next]_(Contract!vars)
<1> SUFFICES ASSUME KeptInv, [Next]_vars PROVE [Contract!Next]_(Contract!vars)
  OBVIOUS
<1>1. CASE Crash
  <2>1. Asks' = Asks
    BY AsksStay DEF KeptInv
  <2>2. store' = store /\ saved' = saved
    BY <1>1 DEF Crash
  <2>3. \A c \in Clients : req'[c].pc = IF req[c].pc \in {"idle", "ok"} THEN req[c].pc ELSE "error"
    BY <1>1 DEF Crash, KeptInv, TypeInv, TypeOK, Request
  <2>4. \A c \in Clients : Seen(req[c].pc) \in {"idle", "ok"} <=> req[c].pc \in {"idle", "ok"}
    BY DEF Seen
  <2>5. Answers' = [c \in Clients |-> IF Answers[c] \in {"idle", "ok"} THEN Answers[c] ELSE "error"]
    BY <2>3, <2>4 DEF Answers, Seen
  <2>6. \A w \in Clients : wk'[w].main \in {"none", "gone"}
    BY <1>1, NewWorkers DEF Crash
  <2>7. Holders' = {}
    BY <2>6 DEF Holders, Running
  <2>8. Contract!Restart
    BY <2>1, <2>2, <2>5, <2>7 DEF Contract!Restart, Asks, Answers, Holders
  <2> QED BY <2>8 DEF Contract!Next
<1>2. CASE UNCHANGED vars
  BY <1>2 DEF vars, Contract!vars, Running
<1>3. ASSUME NEW w \in Clients, Helper(w) \/ Main(w) \/ ErrorReturn(w)
      PROVE  [Contract!Next]_(Contract!vars)
  BY <1>3, SilentKeepsContract, SaveKeepsContract, ApplyKeepsContract DEF Helper, Main, Silent
<1> QED BY <1>1, <1>2, <1>3, CallKeepsContract DEF Next

\* Concurrent calls, tasks, replies, worker starts, stale copies and restarts together keep
\* what RequestContract promises: each request done once or not at all, an OK that means
\* what it says, one worker at a time, and a record that always stems from requests done
\* (update-service-grpc.go:40-190, worker.go:20-400).
THEOREM KeepsRequestsHolds == Spec => KeepsRequests
<1>1. Spec => []KeptInv
  BY InitKept, NextKept, PTL DEF Spec
<1> QED BY <1>1, InitKept, NextKeepsContract, PTL DEF Spec, KeepsRequests, Contract!Spec

=============================================================================
