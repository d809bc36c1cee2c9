---------------------------- MODULE ControlPlane ----------------------------
(***************************************************************************)
(* Requests for one deployment and the workers they start: gRPC handlers   *)
(* that read the record, look into the worker map and send a task or spawn *)
(* a worker; the worker's helper, which applies tasks; its main loop,      *)
(* which reconciles.  All of them read the record, work, and write it back *)
(* whole; etcd serialises single reads and writes, nothing more.           *)
(*                                                                         *)
(* Every client makes one request; the worker its Put spawns has its name, *)
(* and so has the app spec the Put asks for.  Channels and the timer are   *)
(* the subject of module WorkerLoop, and what a reconcile does to apps of  *)
(* module Rollout; here apps are gone, or not, as they please.             *)
(***************************************************************************)
EXTENDS Naturals, Sequences, FiniteSets

CONSTANTS
    Clients,     \* gRPC calls being served
    Kinds,       \* kinds of request of interest, of AllKinds
    Crashes,     \* bound: restarts of the service
    Errs,        \* bound: failed etcd and NATS calls
    None         \* no record

AllKinds == {"put", "pause", "unpause", "stop", "delete"}

Doc == [spec : Clients, paused : BOOLEAN, stopped : BOOLEAN, deleted : BOOLEAN]

ASSUME ControlPlaneAssumption ==
    /\ Kinds \subseteq AllKinds
    /\ {Crashes, Errs} \subseteq Nat
    /\ None \notin Doc

VARIABLES
    store,     \* the record in etcd, or None
    mapped,    \* is the topic in the worker map?
    req,       \* the calls: where they are, what they ask, the record a Put builds
    wk,        \* the workers, see NoWorker
    saved,     \* (auxiliary) requests that have been written to the store
    crashes, errs

vars == <<store, mapped, req, wk, saved, crashes, errs>>

NewDoc(c) == [spec |-> c, paused |-> FALSE, stopped |-> FALSE, deleted |-> FALSE]

\* main, copy: the main loop and the record it works on; helper, task, held: the
\* helper, the request it has taken and the record it has read; queue: msgChan.
NoWorker == [main |-> "none", copy |-> None, helper |-> "none", task |-> None, held |-> None,
             queue |-> <<>>, intr |-> 0, stopSent |-> FALSE, subscribed |-> FALSE]

Init ==
    /\ store = None
    /\ mapped = FALSE
    /\ \E kind \in [Clients -> Kinds] :
          req = [c \in Clients |-> [pc |-> "idle", kind |-> kind[c], doc |-> NewDoc(c)]]
    /\ wk = [w \in Clients |-> NoWorker]
    /\ saved = {}
    /\ crashes = Crashes /\ errs = Errs

Err == errs > 0 /\ errs' = errs - 1

-----------------------------------------------------------------------------
\* The handlers.

\* Put takes the pause over from the record it finds, and starts from nothing when
\* the read fails; Stop and Delete want one there; the others do not look.
Call(c) ==
    /\ req[c].pc = "idle"
    /\ \E found \in {store, None} :
          /\ IF found = store THEN UNCHANGED errs ELSE Err
          /\ req' = [req EXCEPT ![c] =
                CASE req[c].kind = "put" ->
                       [@ EXCEPT !.pc = "check",
                                 !.doc = IF found = None THEN req[c].doc
                                         ELSE [req[c].doc EXCEPT !.paused = found.paused]]
                  [] req[c].kind \in {"stop", "delete"} ->
                       [@ EXCEPT !.pc = IF found = None THEN "error" ELSE "check"]
                  [] OTHER -> [@ EXCEPT !.pc = "send"]]
    /\ UNCHANGED <<store, mapped, wk, saved, crashes>>

\* (mutant) Delete removes the record though a worker is there
CheckWorkerErases(c) ==
    /\ req[c].pc = "check"
    /\ req' = [req EXCEPT ![c].pc = IF mapped THEN "send" ELSE "answered"]
    /\ store' = IF req[c].kind = "delete" THEN None ELSE store
    /\ UNCHANGED <<mapped, wk, saved, crashes, errs>>

\* workerMap.Exists; without a worker, Delete removes the record itself.
CheckWorker(c) ==
    /\ req[c].pc = "check"
    /\ req' = [req EXCEPT ![c].pc = IF mapped THEN "send" ELSE "answered"]
    /\ store' = IF ~mapped /\ req[c].kind = "delete" THEN None ELSE store
    /\ UNCHANGED <<mapped, wk, saved, crashes, errs>>

\* ... or fails to.
DeleteFails(c) ==
    /\ req[c].pc = "check" /\ req[c].kind = "delete" /\ ~mapped
    /\ Err
    /\ req' = [req EXCEPT ![c].pc = "error"]
    /\ UNCHANGED <<store, mapped, wk, saved, crashes>>

\* Publishing the task; without a subscriber it is lost.
Send(c) ==
    /\ req[c].pc = "send"
    /\ req' = [req EXCEPT ![c].pc = "sent"]
    /\ wk' = [w \in Clients |-> IF wk[w].subscribed
                                THEN [wk[w] EXCEPT !.queue = Append(@, c)] ELSE wk[w]]
    /\ UNCHANGED <<store, mapped, saved, crashes, errs>>

SendFails(c) ==
    /\ req[c].pc = "send"
    /\ Err
    /\ req' = [req EXCEPT ![c].pc = "error"]
    /\ UNCHANGED <<store, mapped, wk, saved, crashes>>

\* Only now is there a receiver on the unbuffered replyChan.
Await(c) ==
    /\ req[c].pc = "sent"
    /\ req' = [req EXCEPT ![c].pc = "wait"]
    /\ UNCHANGED <<store, mapped, wk, saved, crashes, errs>>

Timeout(c) ==
    /\ req[c].pc = "wait"
    /\ req' = [req EXCEPT ![c].pc = "error"]
    /\ UNCHANGED <<store, mapped, wk, saved, crashes, errs>>

\* The call returns OK; a Put has spawned StartWorker.
Return(c) ==
    /\ req[c].pc = "answered"
    /\ req' = [req EXCEPT ![c].pc = "ok"]
    /\ wk' = IF req[c].kind = "put"
             THEN [wk EXCEPT ![c] = [NoWorker EXCEPT !.main = "add", !.copy = req[c].doc]]
             ELSE wk
    /\ UNCHANGED <<store, mapped, saved, crashes, errs>>

-----------------------------------------------------------------------------
\* StartWorker up to its loop.

\* (mutant) what is in the map is not looked at
AddUnchecked(w) ==
    /\ wk[w].main = "add"
    /\ mapped' = TRUE
    /\ wk' = [wk EXCEPT ![w].main = "first"]
    /\ UNCHANGED <<store, req, saved, crashes, errs>>

Add(w) ==
    /\ wk[w].main = "add"
    /\ mapped' = TRUE
    /\ wk' = [wk EXCEPT ![w].main = IF mapped THEN "gone" ELSE "first"]
    /\ UNCHANGED <<store, req, saved, crashes, errs>>

\* Whether the first save succeeds is not looked at.
FirstSave(w) ==
    /\ wk[w].main = "first"
    /\ \/ /\ store' = wk[w].copy
          /\ saved' = saved \cup {w}
          /\ UNCHANGED errs
       \/ Err /\ UNCHANGED <<store, saved>>
    /\ wk' = [wk EXCEPT ![w].main = "subscribe"]
    /\ UNCHANGED <<mapped, req, crashes>>

\* (mutant) the early return comes before the deferred Remove
SubscribeForgetsMap(w) ==
    /\ wk[w].main = "subscribe"
    /\ \/ /\ wk' = [wk EXCEPT ![w] = [@ EXCEPT !.main = "select", !.helper = "select",
                                            !.subscribed = TRUE]]
          /\ UNCHANGED errs
       \/ Err /\ wk' = [wk EXCEPT ![w].main = "gone"]
    /\ UNCHANGED <<store, mapped, req, saved, crashes>>

Subscribe(w) ==
    /\ wk[w].main = "subscribe"
    /\ \/ /\ wk' = [wk EXCEPT ![w] = [@ EXCEPT !.main = "select", !.helper = "select",
                              !.subscribed = TRUE]]
          /\ UNCHANGED errs
       \/ Err /\ wk' = [wk EXCEPT ![w].main = "remove"]
    /\ UNCHANGED <<store, mapped, req, saved, crashes>>

-----------------------------------------------------------------------------
\* The helper: take a task and push an interrupt, read the record, apply, answer.

Take(w) ==
    /\ wk[w].helper = "select" /\ wk[w].queue # <<>>
    /\ wk' = [wk EXCEPT ![w] = [@ EXCEPT !.helper = "get", !.task = Head(wk[w].queue),
                                        !.queue = Tail(wk[w].queue),
                                        !.intr = wk[w].intr + 1]]
    /\ UNCHANGED <<store, mapped, req, saved, crashes, errs>>

\* Nothing read, no answer: the task is dropped.
HelperGet(w) ==
    /\ wk[w].helper = "get"
    /\ \E found \in {store, None} :
          /\ IF found = store THEN UNCHANGED errs ELSE Err
          /\ wk' = [wk EXCEPT ![w] = [@ EXCEPT !.helper = IF found = None THEN "select" ELSE "apply",
                              !.held = found]]
    /\ UNCHANGED <<store, mapped, req, saved, crashes>>

Applied(c, d) ==
    CASE req[c].kind = "put"     -> req[c].doc
      [] req[c].kind = "pause"   -> [d EXCEPT !.paused = TRUE]
      [] req[c].kind = "unpause" -> [d EXCEPT !.paused = FALSE]
      [] req[c].kind = "stop"    -> [d EXCEPT !.stopped = TRUE]
      [] req[c].kind = "delete"  -> [d EXCEPT !.stopped = TRUE, !.deleted = TRUE]

\* A reply that finds no receiver is gone.
Reply(c, answer) ==
    req' = [req EXCEPT ![c].pc = IF @ = "wait" THEN answer ELSE @]

\* (mutant) a failed save is answered like a good one
ApplyAlwaysOk(w) ==
    LET c == wk[w].task IN
    /\ wk[w].helper = "apply"
    /\ Reply(c, "answered")
    /\ \/ /\ store' = Applied(c, wk[w].held)
          /\ saved' = saved \cup {c}
          /\ UNCHANGED errs
       \/ Err /\ UNCHANGED <<store, saved>>
    /\ wk' = [wk EXCEPT ![w].helper = "select"]
    /\ UNCHANGED <<mapped, crashes>>

Apply(w) ==
    LET c == wk[w].task IN
    /\ wk[w].helper = "apply"
    /\ \/ /\ store' = Applied(c, wk[w].held)
          /\ saved' = saved \cup {c}
          /\ Reply(c, "answered")
          /\ UNCHANGED errs
       \/ Err /\ Reply(c, "error") /\ UNCHANGED <<store, saved>>
    /\ wk' = [wk EXCEPT ![w].helper = "select"]
    /\ UNCHANGED <<mapped, crashes>>

HelperEnds(w) ==
    /\ wk[w].helper = "select" /\ wk[w].main \in {"remove", "gone"}
    /\ wk' = [wk EXCEPT ![w].helper = "gone"]
    /\ UNCHANGED <<store, mapped, req, saved, crashes, errs>>

-----------------------------------------------------------------------------
\* The main loop.

\* A signal, and the record is read; without one the loop waits again.
MainGet(w) ==
    /\ wk[w].main = "select" /\ store # None
    /\ wk' = [wk EXCEPT ![w] = [@ EXCEPT !.main = "work", !.copy = store]]
    /\ UNCHANGED <<store, mapped, req, saved, crashes, errs>>

\* (mutant) interrupted without an interrupt
AbortUnguarded(w) ==
    /\ wk[w].main = "work"
    /\ wk' = [wk EXCEPT ![w] = [@ EXCEPT !.main = "select", !.intr = wk[w].intr - 1]]
    /\ UNCHANGED <<store, mapped, req, saved, crashes, errs>>

\* Interrupted, or an error return.
Abort(w) ==
    /\ wk[w].main = "work"
    /\ wk[w].intr > 0
    /\ wk' = [wk EXCEPT ![w] = [@ EXCEPT !.main = "select", !.intr = wk[w].intr - 1]]
    /\ UNCHANGED <<store, mapped, req, saved, crashes, errs>>

ErrorReturn(w) ==
    /\ wk[w].main = "work"
    /\ Err
    /\ wk' = [wk EXCEPT ![w].main = "select"]
    /\ UNCHANGED <<store, mapped, req, saved, crashes>>

\* The last check before the stop branch has passed: some apps are left, or none.
DecideStopped(w) ==
    /\ wk[w].main = "work" /\ wk[w].intr = 0
    /\ wk[w].copy.stopped
    /\ \/ wk' = [wk EXCEPT ![w].main = "select"]
       \/ /\ wk[w].copy.deleted
          /\ wk' = [wk EXCEPT ![w].main = "erase"]
       \/ /\ ~wk[w].copy.deleted
          /\ wk' = [wk EXCEPT ![w] = [@ EXCEPT !.main = "select", !.stopSent = TRUE]]
    /\ UNCHANGED <<store, mapped, req, saved, crashes, errs>>

\* The record is deleted, and failing or not the signal goes to stopChan.
Erase(w) ==
    /\ wk[w].main = "erase"
    /\ \/ store' = None /\ UNCHANGED errs
       \/ Err /\ UNCHANGED store
    /\ wk' = [wk EXCEPT ![w] = [@ EXCEPT !.main = "select", !.stopSent = TRUE]]
    /\ UNCHANGED <<mapped, req, saved, crashes>>

\* All checks have passed; a rollout past its deadline pauses the deployment.
DecideRun(w) ==
    /\ wk[w].main = "work" /\ wk[w].intr = 0
    /\ ~wk[w].copy.stopped
    /\ \E p \in {wk[w].copy.paused, TRUE} :
          wk' = [wk EXCEPT ![w] = [@ EXCEPT !.main = "save", !.copy = [wk[w].copy EXCEPT !.paused = p]]]
    /\ UNCHANGED <<store, mapped, req, saved, crashes, errs>>

Save(w) ==
    /\ wk[w].main = "save"
    /\ \/ store' = wk[w].copy /\ UNCHANGED errs
       \/ Err /\ UNCHANGED store
    /\ wk' = [wk EXCEPT ![w].main = "select"]
    /\ UNCHANGED <<mapped, req, saved, crashes>>

\* stopChan received: cancel and Unsubscribe run, Remove comes last.
ReceiveStop(w) ==
    /\ wk[w].main = "select" /\ wk[w].stopSent
    /\ wk' = [wk EXCEPT ![w] = [@ EXCEPT !.main = "remove", !.subscribed = FALSE]]
    /\ UNCHANGED <<store, mapped, req, saved, crashes, errs>>

Remove(w) ==
    /\ wk[w].main = "remove"
    /\ mapped' = FALSE
    /\ wk' = [wk EXCEPT ![w].main = "gone"]
    /\ UNCHANGED <<store, req, saved, crashes, errs>>

-----------------------------------------------------------------------------
\* The service restarts: calls fail, workers and the map are gone.
Crash ==
    /\ crashes > 0 /\ crashes' = crashes - 1
    /\ mapped' = FALSE
    /\ req' = [c \in Clients |-> IF req[c].pc \in {"idle", "ok"} THEN req[c]
                                 ELSE [req[c] EXCEPT !.pc = "error"]]
    /\ wk' = [w \in Clients |-> IF wk[w].main = "none" THEN wk[w]
                                ELSE [NoWorker EXCEPT !.main = "gone"]]
    /\ UNCHANGED <<store, saved, errs>>

Handler(c) == Call(c) \/ CheckWorker(c) \/ Send(c) \/ Await(c) \/ Return(c)
Helper(w) == Take(w) \/ HelperGet(w) \/ Apply(w) \/ HelperEnds(w)
Main(w) ==
    \/ Add(w) \/ FirstSave(w) \/ Subscribe(w)
    \/ MainGet(w) \/ Abort(w) \/ DecideStopped(w) \/ Erase(w)
    \/ DecideRun(w) \/ Save(w) \/ ReceiveStop(w) \/ Remove(w)

Next ==
    \/ \E c \in Clients : Handler(c) \/ SendFails(c) \/ DeleteFails(c) \/ Timeout(c)
    \/ \E w \in Clients : Helper(w) \/ Main(w) \/ ErrorReturn(w)
    \/ Crash

Spec == Init /\ [][Next]_vars

-----------------------------------------------------------------------------
(* Properties *)

Request ==
    [pc : {"idle", "check", "send", "sent", "wait", "answered", "ok", "error"},
     kind : Kinds, doc : Doc]

Worker ==
    [main : {"none", "add", "first", "subscribe", "select", "work", "erase",
             "save", "remove", "gone"},
     copy : Doc \cup {None}, helper : {"none", "select", "get", "apply", "gone"},
     task : Clients \cup {None}, held : Doc \cup {None}, queue : Seq(Clients),
     intr : Nat, stopSent : BOOLEAN, subscribed : BOOLEAN]

TypeOK ==
    /\ store \in Doc \cup {None}
    /\ mapped \in BOOLEAN
    /\ req \in [Clients -> Request]
    /\ wk \in [Clients -> Worker]
    /\ saved \subseteq Clients
    /\ crashes \in Nat /\ errs \in Nat

\* Past the worker map, and not yet out of it again.
Running(w) == wk[w].main \notin {"none", "add", "gone"}

\* However many Puts spawn workers at once, and however stops and restarts fall
\* between: one worker at most is past the worker map, and it is the mapped one
\* (worker.go:25, internal/worker/worker.go:69).
OneWorker ==
    /\ \A v, w \in Clients : (Running(v) /\ Running(w)) => v = w
    /\ mapped <=> \E w \in Clients : Running(w)

\* A task reaches one worker only and is written at most once, also when a worker
\* is replaced while the task is under way.
AppliedOnce ==
    [][\A w \in Clients :
         (wk[w].helper = "apply" /\ wk'[w].helper = "select" /\ errs' = errs)
         => wk[w].task \notin saved]_vars

\* A Pause or Unpause that returns OK has been written to the store, whatever
\* timeouts, lost replies and failed saves there were (worker.go:211-230, 261-269).
AckMeansApplied ==
    \A c \in Clients :
        (req[c].kind \in {"pause", "unpause"} /\ req[c].pc \in {"answered", "ok"})
            => c \in saved

\* Where a call stands, to its client.
Seen(pc) == IF pc \in {"check", "send", "sent", "wait"} THEN "open" ELSE pc

Contract == INSTANCE RequestContract WITH
    kind <- [c \in Clients |-> req[c].kind],
    answer <- [c \in Clients |-> Seen(req[c].pc)],
    done <- saved,
    holders <- {w \in Clients : Running(w)},
    record <- store

\* Concurrent calls, tasks, replies, worker starts, stale copies and restarts together keep
\* what RequestContract promises: each request done once or not at all, an OK that means
\* what it says, one worker at a time, and a record that always stems from requests done
\* (update-service-grpc.go:40-190, worker.go:20-400).
KeepsRequests == Contract!Spec

\* When everything has come to rest, the deployment that a Put stored and was told
\* OK for has a worker, unless it has been stopped (README.md:30,
\* update-service-grpc.go:90).
AtRest ==
    /\ \A c \in Clients : req[c].pc \in {"idle", "ok", "error"}
    /\ \A w \in Clients : wk[w].main \in {"none", "gone"} /\ wk[w].helper \in {"none", "gone"}

AckedPutRuns ==
    (AtRest /\ store # None /\ req[store.spec].pc = "ok") => store.stopped

=============================================================================
