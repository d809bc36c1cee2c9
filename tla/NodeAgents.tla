----------------------------- MODULE NodeAgents -----------------------------
(***************************************************************************)
(* The app operations of Roll, Stop and Reconcile down to the containers:  *)
(* one goroutine per container, node or both, each with one command to a   *)
(* node agent over NATS and a wait for one answer, or with calls of the    *)
(* local docker daemon.                                                    *)
(*                                                                         *)
(* Answers carry no id: they go to the subject                             *)
(*     <node>.app_operation.<operation>_app.<name>                         *)
(* and reach whoever is subscribed to it at the time.  The command is      *)
(* published BEFORE the caller subscribes.                                 *)
(*                                                                         *)
(* The agents are external: one command at a time, in the callback of one  *)
(* subscription (update_service_async.go), done or refused.                *)
(***************************************************************************)
EXTENDS Naturals, FiniteSets

CONSTANTS
    Nodes,      \* the nodes of the organisation; magnetar lists all of them
    Local,      \* the one whose docker daemon the service itself can call
    Apps,       \* container names, all of one revision
    Rev,        \* that revision's name, what the queries ask for
    Jobs,       \* bound: operations ever begun
    None,
    Modes,      \* deployment modes of interest
    Ops,        \* operations of interest in each mode
    MaxCalls,   \* bound, per mode: goroutines of several operations together
    MaxFaults   \* bound, per mode: lost, failed and refused calls, containers that exit

AllModes == {"DirectDocker", "DirectStar", "IndirectStar"}
QueryOps == {"query", "query_healthy", "query_available", "query_all"}
CheckOps == {"healthcheck", "availabilitycheck"}
AllOps == {"start", "stop"} \cup QueryOps \cup CheckOps

ASSUME NodesAssumption ==
    /\ Local \in Nodes
    /\ IsFiniteSet(Nodes) /\ IsFiniteSet(Apps)
    /\ Rev \notin Apps
    /\ None \notin Nodes
    /\ Modes \subseteq AllModes
    /\ Ops \in [Modes -> SUBSET AllOps]
    /\ MaxCalls \in [Modes -> Nat]
    /\ MaxFaults \in [Modes -> Nat]

Targets == Apps \cup {Rev}
Calls == Jobs \X Targets \X Nodes

VARIABLES
    mode,  \* spec.mode of the deployment
    life,  \* of each name: unused, named, created, up, available, gone
    at,    \* the node a container was sent to
    job,   \* the operations: their arguments, and what they have so far
    call,  \* their goroutines, one per operation, target and node
    sent,  \* commands on their way to an agent
    out,   \* the answer an agent is about to publish
    left   \* what is left of MaxFaults

vars == <<mode, life, at, job, call, sent, out, left>>

Up(a) == life[a] \in {"up", "available"}
Ran(a) == life[a] \in {"up", "available", "gone"}

Spend == left > 0 /\ left' = left - 1

\* (mutant) a subject without the node
SubjectNoNode(o, c) == <<o, c[2]>>

Subject(o, c) == <<c[3], o, c[2]>>
SubjectOf(c) == Subject(job[c[1]].op, c)

NoJob == [op |-> "none", verdict |-> "idle", apps |-> {}, todo |-> {}, batch |-> 0,
          nodes |-> {}, asked |-> 0, found |-> {}, fit |-> {},
          before |-> {}, fitBefore |-> {}, beyond |-> {}, skipped |-> {}, crossed |-> FALSE]

Init ==
    /\ mode \in Modes
    /\ life \in [Apps -> {"unused", "up"}]
    /\ at \in [Apps -> Nodes \cup {None}]
    /\ \A a \in Apps : IF Up(a) THEN at[a] \in (IF mode = "DirectDocker" THEN {Local} ELSE Nodes)
                                ELSE at[a] = None
    /\ job = [j \in Jobs |-> NoJob]
    /\ call = [c \in Calls |-> "none"]
    /\ sent = {}
    /\ out = [n \in Nodes |-> None]
    /\ left = MaxFaults[mode]

-----------------------------------------------------------------------------
\* The operations of apps.go.

Of(j) == {c \in Calls : c[1] = j /\ call[c] # "none"}
Finished(j) == \A c \in Of(j) : call[c] \in {"ok", "failed"}
Fails(j) == \E c \in Of(j) : call[c] = "failed"
Oks(j) == {c \in Of(j) : call[c] = "ok"}

\* The nodes an operation addresses: the docker daemon, one node picked at random,
\* or every node.
NodeSets ==
    CASE mode = "DirectDocker" -> {{Local}}
      [] mode = "DirectStar"   -> {{n} : n \in Nodes}
      [] OTHER                 -> {Nodes}

\* Goroutines start; with node agents the first thing each does is to publish its command.
Open(C) ==
    /\ call' = [c \in Calls |-> IF c \in C THEN "begun" ELSE call[c]]
    /\ sent' = IF mode = "DirectDocker" THEN sent ELSE sent \cup C

Begin(j, o, C) ==
    /\ job[j].verdict = "idle"
    /\ o \in Ops[mode]
    /\ LET others == {c \in Calls : call[c] # "none"}
       IN others = {} \/ Cardinality(others) + Cardinality(C) <= MaxCalls[mode]

\* StartApps; GenerateUniqueName makes the names.
BeginStart(j) ==
    \E S \in SUBSET {a \in Apps : life[a] = "unused"}, ns \in NodeSets :
       /\ Begin(j, "start", {j} \X S \X {Local})
       /\ S # {}
       /\ job' = [job EXCEPT ![j] = [NoJob EXCEPT !.op = "start", !.verdict = "busy", !.apps = S,
                                                  !.todo = S, !.batch = 1, !.nodes = ns]]
       /\ life' = [a \in Apps |-> IF a \in S THEN "named" ELSE life[a]]
       /\ UNCHANGED <<mode, at, call, sent, out, left>>

\* Batches of 1, 2, 4 ... starts, each on one node, until one fails.
NextBatch(j) ==
    /\ job[j].verdict = "busy" /\ job[j].todo # {}
    /\ Finished(j) /\ ~Fails(j)
    /\ \E B \in SUBSET job[j].todo :
          /\ B # {}
          /\ Cardinality(B) = job[j].batch \/ (Cardinality(B) < job[j].batch /\ B = job[j].todo)
          /\ \E f \in [B -> job[j].nodes] :
                /\ Open({<<j, a, f[a]>> : a \in B})
                /\ at' = [a \in Apps |-> IF a \in B THEN f[a] ELSE at[a]]
          /\ job' = [job EXCEPT ![j] = [job[j] EXCEPT !.todo = job[j].todo \ B,
                                                    !.batch = 2 * job[j].batch]]
    /\ UNCHANGED <<mode, life, out, left>>

\* StopApps of apps that a query has named; Roll may ask for more of them than it has.
BeginStop(j) ==
    \E S \in SUBSET {a \in Apps : Ran(a)}, more \in {0, 1}, ns \in NodeSets :
       /\ Begin(j, "stop", {j} \X S \X ns)
       /\ job' = [job EXCEPT ![j] = [NoJob EXCEPT !.op = "stop", !.verdict = "busy", !.apps = S,
                                                  !.asked = Cardinality(S) + more]]
       /\ Open({j} \X S \X ns)
       /\ UNCHANGED <<mode, life, at, out, left>>

\* GetRevisionOwned[All|Available]Apps.  Auxiliary: before and fitBefore are the containers
\* that run and are available, beyond those that run on a node that is not asked, crossed
\* says that an answer to an earlier query of the same subject is about to be published.
BeginQuery(j, o) ==
    \E ns \in NodeSets :
       /\ Begin(j, o, {j} \X {Rev} \X ns)
       /\ LET running == {a \in Apps : Up(a)}
              fit     == {a \in running : life[a] = "available"}
          IN job' = [job EXCEPT ![j] =
                [NoJob EXCEPT !.op = o, !.verdict = "busy",
                    !.before = IF o = "query_available" THEN fit ELSE running,
                    !.fitBefore = IF o = "query_all" THEN fit ELSE {},
                    !.beyond = {a \in running : at[a] \notin ns},
                    !.crossed = \E n \in ns : /\ out[n] # None
                                              /\ SubjectOf(out[n].from) = Subject(o, <<j, Rev, n>>)]]
       /\ Open({j} \X {Rev} \X ns)
       /\ UNCHANGED <<mode, life, at, out, left>>

\* GetReadyApps and GetAvailableApps: every node is asked about every app, or one
\* random node for each; without a node id the direct ones leave every app out.
BeginCheck(j, o) ==
    \E S \in SUBSET {a \in Apps : Ran(a)} :
       /\ Begin(j, o, {j} \X S \X UNION NodeSets)
       /\ job' = [job EXCEPT ![j] = [NoJob EXCEPT !.op = o, !.verdict = "busy", !.apps = S]]
       /\ CASE mode = "IndirectStar" -> Open({j} \X S \X Nodes)
            [] mode = "DirectStar"   -> \E f \in [S -> Nodes] : Open({<<j, a, f[a]>> : a \in S})
            [] OTHER                 -> \E T \in {S, {}} : Open({j} \X T \X {Local})
       /\ UNCHANGED <<mode, life, at, out, left>>

\* StopAppsIndirect counts the stops that succeeded, of whichever app and node.
Enough(j) == Cardinality(Oks(j)) >= job[j].asked

\* What the operation returns when its last goroutine is done.  DirectStar assigns
\* the error of a stop to a shadowed variable; the indirect queries and all checks
\* leave out what failed.
Succeeds(j) ==
    /\ job[j].op = "start" => ~Fails(j)
    /\ job[j].op = "stop" => IF mode = "IndirectStar" THEN job[j].apps = {} \/ Enough(j)
                                                     ELSE mode = "DirectStar" \/ ~Fails(j)
    /\ job[j].op \in QueryOps => mode = "IndirectStar" \/ ~Fails(j)

\* (mutant) without waitGroup.Wait
ReturnAtOnce(j) ==
    /\ job[j].verdict = "busy"
    /\ job[j].todo = {} \/ Fails(j)
    /\ job' = [job EXCEPT ![j] = [job[j] EXCEPT !.verdict = IF Succeeds(j) THEN "ok" ELSE "err"]]
    /\ UNCHANGED <<mode, life, at, call, sent, out, left>>

\* The goroutines are waited for.
Return(j) ==
    /\ job[j].verdict = "busy"
    /\ Finished(j)
    /\ job[j].todo = {} \/ Fails(j)
    /\ job' = [job EXCEPT ![j] = [job[j] EXCEPT !.verdict = IF Succeeds(j) THEN "ok" ELSE "err"]]
    /\ UNCHANGED <<mode, life, at, call, sent, out, left>>

-----------------------------------------------------------------------------
\* One call of a node agent: publish, subscribe, wait.

OverNats(c) == mode # "DirectDocker" /\ call[c] = "begun"

Subscribe(c) ==
    /\ OverNats(c)
    /\ call' = [call EXCEPT ![c] = "waiting"]
    /\ UNCHANGED <<mode, life, at, job, sent, out, left>>

\* Publish fails, or what comes after it.
CallFails(c) ==
    /\ OverNats(c)
    /\ Spend
    /\ call' = [call EXCEPT ![c] = "failed"]
    /\ sent' \in {sent, sent \ {c}}
    /\ UNCHANGED <<mode, life, at, job, out>>

\* ctx.Done(), before, after or without the agent's work.
Timeout(c) ==
    /\ call[c] = "waiting"
    /\ call' = [call EXCEPT ![c] = "failed"]
    /\ UNCHANGED <<mode, life, at, job, sent, out, left>>

\* NATS delivers at most once.
LoseCommand(c) ==
    /\ c \in sent
    /\ Spend
    /\ sent' = sent \ {c}
    /\ UNCHANGED <<mode, life, at, job, call, out>>

\* What an operation of this kind says of a container.
Seen(o, a) == IF o \in {"query_available", "availabilitycheck"} THEN life[a] = "available"
                                                               ELSE Up(a)

Here(c) == {a \in Apps : at[a] = c[3] /\ Ran(a)}

Named(c) ==
    LET o == job[c[1]].op IN
    CASE o \in QueryOps -> {a \in Here(c) : Seen(o, a)}
      [] o \in CheckOps -> {a \in Here(c) : a = c[2] /\ Seen(o, a)}
      [] OTHER          -> {}

\* Unknown containers are refused.
Known(c) == job[c[1]].op \in {"stop"} \cup CheckOps => c[2] \in Here(c)

AfterCommand(c) ==
    CASE job[c[1]].op = "start" /\ life[c[2]] = "named" -> [life EXCEPT ![c[2]] = "up"]
      [] job[c[1]].op = "stop" /\ c[2] \in Here(c)      -> [life EXCEPT ![c[2]] = "gone"]
      [] OTHER                                          -> life

Handle(c) ==
    /\ c \in sent /\ out[c[3]] = None
    /\ life' = AfterCommand(c)
    /\ out' = [out EXCEPT ![c[3]] =
                 [from |-> c, ok |-> Known(c), found |-> Named(c),
                  fit |-> {a \in Named(c) : life[a] = "available"}]]
    /\ sent' = sent \ {c}
    /\ UNCHANGED <<mode, at, job, call, left>>

Refuse(c) ==
    /\ c \in sent /\ out[c[3]] = None
    /\ Spend
    /\ out' = [out EXCEPT ![c[3]] = [from |-> c, ok |-> FALSE, found |-> {}, fit |-> {}]]
    /\ sent' = sent \ {c}
    /\ UNCHANGED <<mode, life, at, job, call>>

Hears(c, r) == call[c] = "waiting" /\ SubjectOf(c) = SubjectOf(r.from)

\* The answer goes to everyone who is subscribed, and to nobody else.
Answer(n) ==
    LET r    == out[n]
        Told == {c \in Calls : Hears(c, r)}
    IN
    /\ r # None
    /\ call' = [c \in Calls |-> IF c \notin Told THEN call[c]
                                ELSE IF r.ok THEN "ok" ELSE "failed"]
    /\ job' = [j \in Jobs |->
                 IF r.ok /\ (\E c \in Told : c[1] = j)
                 THEN [job[j] EXCEPT !.found = job[j].found \cup r.found,
                                     !.fit = job[j].fit \cup r.fit]
                 ELSE job[j]]
    /\ out' = [out EXCEPT ![n] = None]
    /\ UNCHANGED <<mode, life, at, sent, left>>

-----------------------------------------------------------------------------
\* The local docker daemon.

AtDocker(c, o, state) == mode = "DirectDocker" /\ job[c[1]].op \in o /\ call[c] = state

\* StartDockerContainer
DockerCreate(c) ==
    /\ AtDocker(c, {"start"}, "begun")
    /\ call' = [call EXCEPT ![c] = "created"]
    /\ life' = [life EXCEPT ![c[2]] = "created"]
    /\ UNCHANGED <<mode, at, job, sent, out, left>>

DockerStart(c) ==
    /\ AtDocker(c, {"start"}, "created")
    /\ call' = [call EXCEPT ![c] = "ok"]
    /\ life' = [life EXCEPT ![c[2]] = "up"]
    /\ UNCHANGED <<mode, at, job, sent, out, left>>

\* StopDockerContainer: after a stop it waits on a channel that only an error reaches.
DockerStop(c) ==
    /\ AtDocker(c, {"stop"}, "begun")
    /\ life' = [life EXCEPT ![c[2]] = "gone"]
    /\ \/ call' = [call EXCEPT ![c] = "stuck"] /\ UNCHANGED left
       \/ call' = [call EXCEPT ![c] = "failed"] /\ Spend
    /\ UNCHANGED <<mode, at, job, sent, out>>

\* HealthCheckDockerContainer, AvailabilityCheckDockerContainer
DockerCheck(c) ==
    /\ AtDocker(c, CheckOps, "begun")
    /\ call' = [call EXCEPT ![c] = "ok"]
    /\ job' = [job EXCEPT ![c[1]] = [job[c[1]] EXCEPT !.found = job[c[1]].found \cup Named(c)]]
    /\ UNCHANGED <<mode, life, at, sent, out, left>>

\* ContainerList; all but the plain query then inspect what it lists, one by one.
DockerList(c) ==
    /\ AtDocker(c, QueryOps, "begun")
    /\ LET running == {a \in Here(c) : Up(a)}
           plain   == job[c[1]].op = "query"
       IN /\ job' = [job EXCEPT ![c[1]] =
                [job[c[1]] EXCEPT !.found = IF plain THEN running ELSE {},
                                  !.todo = IF plain THEN {} ELSE running]]
          /\ call' = [call EXCEPT ![c] = IF plain \/ running = {} THEN "ok" ELSE "inspect"]
    /\ UNCHANGED <<mode, life, at, sent, out, left>>

\* query_all lists what it has inspected, running or not; the other two do not.
DockerInspect(c, a) ==
    LET j == c[1] IN
    /\ AtDocker(c, QueryOps, "inspect") /\ a \in job[j].todo
    /\ job' = [job EXCEPT ![j] =
          [job[j] EXCEPT
             !.todo  = job[j].todo \ {a},
             !.found = job[j].found \cup
                       (IF job[j].op = "query_all" \/ Seen(job[j].op, a) THEN {a} ELSE {}),
             !.fit   = job[j].fit \cup (IF life[a] = "available" THEN {a} ELSE {})]]
    /\ call' = IF job[j].todo = {a} THEN [call EXCEPT ![c] = "ok"] ELSE call
    /\ UNCHANGED <<mode, life, at, sent, out, left>>

\* (mutant) an error skips the container in query_all too
DockerInspectSkips(c, a) ==
    /\ AtDocker(c, QueryOps, "inspect") /\ a \in job[c[1]].todo
    /\ Spend
    /\ job' = [job EXCEPT ![c[1]] = [job[c[1]] EXCEPT !.todo = job[c[1]].todo \ {a}]]
    /\ call' = IF job[c[1]].todo = {a} THEN [call EXCEPT ![c] = "ok"] ELSE call
    /\ UNCHANGED <<mode, life, at, sent, out>>

\* An error ends query_all and skips the container in the other two.
DockerInspectFails(c, a) ==
    LET j == c[1] IN
    /\ AtDocker(c, QueryOps, "inspect") /\ a \in job[j].todo
    /\ Spend
    /\ IF job[j].op = "query_all"
       THEN /\ job' = [job EXCEPT ![j] = [job[j] EXCEPT !.todo = {}, !.found = {}, !.fit = {}]]
            /\ call' = [call EXCEPT ![c] = "failed"]
       ELSE /\ job' = [job EXCEPT ![j] = [job[j] EXCEPT !.todo = job[j].todo \ {a},
                                                       !.skipped = job[j].skipped \cup {a}]]
            /\ call' = IF job[j].todo = {a} THEN [call EXCEPT ![c] = "ok"] ELSE call
    /\ UNCHANGED <<mode, life, at, sent, out>>

\* The daemon refuses, or its deadline passes.
DockerFails(c) ==
    /\ mode = "DirectDocker" /\ call[c] \in {"begun", "created"}
    /\ Spend
    /\ call' = [call EXCEPT ![c] = "failed"]
    /\ UNCHANGED <<mode, life, at, job, sent, out>>

-----------------------------------------------------------------------------
\* Containers.

BecomesAvailable(a) ==
    /\ life[a] = "up"
    /\ life' = [life EXCEPT ![a] = "available"]
    /\ UNCHANGED <<mode, at, job, call, sent, out, left>>

AppExits(a) ==
    /\ Up(a)
    /\ Spend
    /\ life' = [life EXCEPT ![a] = "gone"]
    /\ UNCHANGED <<mode, at, job, call, sent, out>>

Next ==
    \/ \E j \in Jobs : \/ BeginStart(j) \/ BeginStop(j)
                       \/ \E o \in QueryOps : BeginQuery(j, o)
                       \/ \E o \in CheckOps : BeginCheck(j, o)
                       \/ NextBatch(j) \/ Return(j)
    \/ \E c \in Calls : \/ Subscribe(c) \/ CallFails(c) \/ Timeout(c)
                        \/ LoseCommand(c) \/ Handle(c) \/ Refuse(c)
                        \/ DockerCreate(c) \/ DockerStart(c) \/ DockerStop(c) \/ DockerCheck(c)
                        \/ DockerList(c) \/ DockerFails(c)
                        \/ \E a \in Apps : DockerInspect(c, a) \/ DockerInspectFails(c, a)
    \/ \E n \in Nodes : Answer(n)
    \/ \E a \in Apps : BecomesAvailable(a) \/ AppExits(a)

Spec == Init /\ [][Next]_vars

-----------------------------------------------------------------------------
Lives == {"unused", "named", "created", "up", "available", "gone"}
CallStates == {"none", "begun", "waiting", "created", "inspect", "ok", "failed", "stuck"}

JobType == [op : AllOps \cup {"none"}, verdict : {"idle", "busy", "ok", "err"},
            apps : SUBSET Apps, todo : SUBSET Apps, batch : Nat, nodes : SUBSET Nodes,
            asked : Nat, found : SUBSET Apps, fit : SUBSET Apps,
            before : SUBSET Apps, fitBefore : SUBSET Apps, beyond : SUBSET Apps,
            skipped : SUBSET Apps, crossed : BOOLEAN]
ReplyType == [from : Calls, ok : BOOLEAN, found : SUBSET Apps, fit : SUBSET Apps]

\* Every variable has its type, and no goroutine outlives its operation (the WaitGroups
\* of apps.go).
TypeOK ==
    /\ mode \in AllModes
    /\ life \in [Apps -> Lives]
    /\ at \in [Apps -> Nodes \cup {None}]
    /\ job \in [Jobs -> JobType]
    /\ \A j \in Jobs : job[j].verdict \in {"ok", "err"} => Finished(j)
    /\ call \in [Calls -> CallStates]
    /\ sent \in SUBSET Calls
    /\ out \in [Nodes -> ReplyType \cup {None}]
    /\ left \in Nat

\* The containers a query owes its caller: those that were running when it began and still
\* are, on whatever node.  In DirectStar a query asks one node picked at random
\* (apps.go:465) and owes only that node's.  The two queries that inspect for health and
\* availability owe nothing of a container whose inspection failed (containers.go:266-283).
Owed(j) ==
    {a \in job[j].before \ job[j].skipped :
        Up(a) /\ (mode = "DirectStar" => a \notin job[j].beyond)}

\* A query that succeeds, with no call of it failed and no answer to an earlier query of
\* the same subject about to be published when it began, lists every container it owes its
\* caller, and as available those of them that were (containers.go:805-885,
\* apps.go:607-638): of its own answers, one that comes too early, late or to the wrong
\* caller costs time or an error, never a container.
FreshListing ==
    \A j \in Jobs :
       job[j].op \in QueryOps /\ job[j].verdict = "ok" /\ ~Fails(j) /\ ~job[j].crossed
       => /\ Owed(j) \subseteq job[j].found
          /\ Owed(j) \cap job[j].fitBefore \subseteq job[j].fit

Phase(l) ==
    CASE l = "unused" -> "unasked"
      [] l \in {"named", "created"} -> "asked"
      [] l \in {"up", "available"} -> "runs"
      [] OTHER -> "over"

KindOf(o) == IF o \in {"none", "start", "stop"} THEN o ELSE "look"

Contract == INSTANCE AppContract WITH
    phase   <- [a \in Apps |-> Phase(life[a])],
    goal    <- [j \in Jobs |-> [kind |-> KindOf(job[j].op), apps |-> job[j].apps]],
    verdict <- [j \in Jobs |-> job[j].verdict],
    listed  <- [j \in Jobs |-> IF job[j].verdict = "ok" THEN job[j].found ELSE {}],
    heeded  <- (mode # "DirectStar")

\* The operations keep what their callers rely on: an OK means the containers asked for
\* have been started or stopped, and results name containers that have run (StartApps,
\* StopApps, apps.go:13-87), for all modes but DirectStar, whose stops always succeed.
KeepsContract == Contract!Spec
=============================================================================
