--------------------------- MODULE RequestContract ---------------------------
(***************************************************************************)
(* What the clients of one deployment can rely on, whatever lies between   *)
(* them and the store.  A request is done at most once, and only if it was *)
(* made; an OK is only said of what has been done, or, but for Pause and   *)
(* Unpause, while nobody holds the deployment.  One worker at a time holds *)
(* it.  The record shows the request done last at the moment it is done;   *)
(* later the holder may write an older record over it, but never one that  *)
(* no request has asked for, and the record goes only because of a Delete. *)
(***************************************************************************)
CONSTANTS Clients, None

VARIABLES
    kind,      \* what each client asks for
    answer,    \* "idle", "open" (asked), "answered", "ok" or "error" (returned)
    done,      \* the requests that have been done
    holders,   \* the worker that holds the deployment, named after its Put, or nobody
    record     \* the stored record, or None

vars == <<kind, answer, done, holders, record>>

Records == [spec : Clients, paused : BOOLEAN, stopped : BOOLEAN, deleted : BOOLEAN]

\* What the requests in S have asked for: the spec of a Put, and no flag but for a reason.
Asked(S) ==
    {d \in Records :
        /\ d.spec \in S /\ kind[d.spec] = "put"
        /\ d.stopped => \E c \in S : kind[c] \in {"stop", "delete"}
        /\ d.deleted => \E c \in S : kind[c] = "delete"}

\* The record shows that c's request has been done.
Shows(c, d) ==
    CASE kind[c] = "put"     -> d.spec = c /\ ~d.stopped /\ ~d.deleted
      [] kind[c] = "pause"   -> d.paused
      [] kind[c] = "unpause" -> ~d.paused
      [] kind[c] = "stop"    -> d.stopped
      [] kind[c] = "delete"  -> d.stopped /\ d.deleted

Init ==
    /\ kind \in [Clients -> {"put", "pause", "unpause", "stop", "delete"}]
    /\ answer = [c \in Clients |-> "idle"]
    /\ done = {} /\ holders = {}
    /\ record = None

Becomes(c, a) == answer' = [answer EXCEPT ![c] = a]

Ask(c) ==
    /\ answer[c] = "idle"
    /\ Becomes(c, "open") \/ Becomes(c, "error")
    /\ UNCHANGED <<kind, done, holders, record>>

\* A request that fails may still be done later.
Refuse(c) ==
    /\ answer[c] = "open"
    /\ Becomes(c, "error")
    /\ UNCHANGED <<kind, done, holders, record>>

Do(c) ==
    /\ c \notin done /\ answer[c] # "idle"
    /\ done' = done \cup {c}
    /\ record' \in {d \in Asked(done') : Shows(c, d)}
    /\ \/ UNCHANGED answer
       \/ answer[c] = "open" /\ Becomes(c, "answered")
    /\ UNCHANGED <<kind, holders>>

\* Nobody holds the deployment: there is nothing to be told, and a Delete is done at once.
Waive(c) ==
    /\ answer[c] = "open" /\ kind[c] \in {"put", "stop", "delete"}
    /\ holders = {}
    /\ Becomes(c, "answered")
    /\ record' = IF kind[c] = "delete" THEN None ELSE record
    /\ UNCHANGED <<kind, done, holders>>

Return(c) ==
    /\ answer[c] = "answered"
    /\ Becomes(c, "ok")
    /\ UNCHANGED <<kind, done, holders, record>>

Acquire(w) ==
    /\ holders = {}
    /\ kind[w] = "put" /\ answer[w] = "ok"
    /\ holders' = {w}
    /\ UNCHANGED <<kind, answer, done, record>>

Release ==
    /\ holders # {}
    /\ holders' = {}
    /\ UNCHANGED <<kind, answer, done, record>>

\* The holder writes back what it read before, or what its own Put asked for.
Rewrite ==
    /\ holders # {}
    /\ record' \in Asked(done)
    /\ UNCHANGED <<kind, answer, done, holders>>

Erase ==
    /\ holders # {}
    /\ \E c \in done : kind[c] = "delete"
    /\ record' = None
    /\ UNCHANGED <<kind, answer, done, holders>>

\* The service restarts: calls that have not returned fail.
Restart ==
    /\ holders' = {}
    /\ answer' = [c \in Clients |-> IF answer[c] \in {"idle", "ok"} THEN answer[c] ELSE "error"]
    /\ UNCHANGED <<kind, done, record>>

Next ==
    \/ \E c \in Clients : Ask(c) \/ Refuse(c) \/ Do(c) \/ Waive(c) \/ Return(c) \/ Acquire(c)
    \/ Release \/ Rewrite \/ Erase \/ Restart

Spec == Init /\ [][Next]_vars
=============================================================================
