------------------------ MODULE FreshListing_proofs ------------------------
(***************************************************************************)
(* An undisturbed query that succeeds misses no container it owes its      *)
(* caller: for any nodes, containers, operations and failures, and any     *)
(* number of calls that share a subject.                                   *)
(***************************************************************************)
EXTENDS NodeAgents_proofs

-----------------------------------------------------------------------------
(* What a query that is under way is sure of *)

\* The query's call of the node a container is on.
Asked(j, a) == <<j, Rev, at[a]>>

\* What it has to bring: the containers that ran on the nodes it asks, but for those whose
\* inspection has failed.
Due(j) == job[j].before \ (job[j].skipped \cup job[j].beyond)

Got(j, a) == a \in job[j].found /\ (a \in job[j].fitBefore => a \in job[j].fit)

\* The container's node has been asked, and what the query looks for has not changed.
Placed(j, a) ==
    /\ Ran(a) /\ at[a] \in Nodes /\ call[Asked(j, a)] # "none"
    /\ Up(a) /\ (job[j].op = "query_available" \/ a \in job[j].fitBefore) => life[a] = "available"

\* A call that has succeeded has brought the container, one that inspects still may.
Listed(j, a) ==
    Up(a) => /\ call[Asked(j, a)] = "ok" => Got(j, a)
             /\ call[Asked(j, a)] = "inspect" => a \in job[j].todo \/ Got(j, a)

\* An answer the query would take, to whichever call, has the container.
Promised(j, a) ==
    LET r == out[at[a]] IN
    Up(a) /\ r # None /\ r.ok /\ SubjectOf(r.from) = SubjectOf(Asked(j, a))
    => a \in r.found /\ (a \in job[j].fitBefore => a \in r.fit)

Sure(j, a) == Placed(j, a) /\ Listed(j, a) /\ Promised(j, a)

QueryInv(j) ==
    job[j].op \in QueryOps =>
      /\ job[j].op # "query_all" => job[j].fitBefore = {}
      /\ ~job[j].crossed => \A a \in Due(j) : Sure(j, a)

\* The calls of a query ask for the revision.
RevInv == \A c \in Calls : call[c] # "none" /\ job[c[1]].op \in QueryOps => c[2] = Rev

FreshInv == RevInv /\ \A j \in Jobs : QueryInv(j)

\* The nodes that containers can be on.
Home == IF mode = "DirectDocker" THEN {Local} ELSE Nodes

\* Containers that have run, and those that a start has a goroutine for, are there; and
\* but in DirectStar none is on a node that a query does not ask.
ReachInv ==
    /\ \A a \in Apps : Ran(a) => at[a] \in Home
    /\ \A j \in Jobs : job[j].nodes \subseteq Home
    /\ \A c \in Calls : call[c] # "none" /\ job[c[1]].op = "start" => at[c[2]] \in Home
    /\ mode # "DirectStar" => \A j \in Jobs : job[j].beyond = {}

\* No operation changes what it says of nodes.
SameReach ==
    \A i \in Jobs : /\ job'[i].op = job[i].op /\ job'[i].nodes = job[i].nodes
                     /\ job'[i].beyond = job[i].beyond

\* The invariant says what FreshListing says of the queries that have returned.
LEMMA FreshEnough == IInv /\ FreshInv /\ ReachInv => FreshListing
<1> SUFFICES ASSUME IInv, FreshInv, ReachInv, NEW j \in Jobs, job[j].op \in QueryOps, job[j].verdict = "ok",
                    ~Fails(j), ~job[j].crossed
             PROVE  /\ Owed(j) \subseteq job[j].found
                    /\ Owed(j) \cap job[j].fitBefore \subseteq job[j].fit
  BY DEF FreshListing
<1>1. Finished(j)
  BY DEF IInv, TypeOK
<1>2. \A a \in Due(j) : Sure(j, a)
  BY DEF FreshInv, QueryInv
<1>3. ASSUME NEW a \in Due(j), Up(a) PROVE Got(j, a)
  <2>1. Placed(j, a) /\ Listed(j, a)
    BY <1>2 DEF Sure
  <2>2. Asked(j, a) \in Calls /\ Asked(j, a)[1] = j
    BY <2>1 DEF Placed, Asked, Calls, Targets
  <2>3. Asked(j, a) \in Of(j)
    BY <2>1, <2>2 DEF Placed, Of
  <2>4. call[Asked(j, a)] = "ok"
    BY <1>1, <2>3 DEF Finished, Fails
  <2> QED BY <1>3, <2>1, <2>4 DEF Listed
<1>4. \A a \in Owed(j) : a \in Due(j) /\ Up(a)
  BY DEF Owed, Due, ReachInv
<1> QED BY <1>3, <1>4 DEF Got

\* Nothing has been asked.
LEMMA InitFresh == Init => FreshInv /\ ReachInv
<1> SUFFICES ASSUME Init PROVE FreshInv /\ ReachInv
  OBVIOUS
<1>1. \A j \in Jobs : job[j].op = "none" /\ job[j].nodes = {} /\ job[j].beyond = {}
  BY DEF Init, NoJob
<1>2. \A c \in Calls : call[c] = "none"
  BY DEF Init
<1>3. \A a \in Apps : Ran(a) => at[a] \in Home
  <2>1. \A a \in Apps : Ran(a) => Up(a)
    BY DEF Init, Ran, Up
  <2> QED BY <2>1 DEF Init, Home
<1>4. ReachInv
  BY <1>1, <1>2, <1>3 DEF ReachInv
<1> QED BY <1>1, <1>2, <1>4 DEF FreshInv, RevInv, QueryInv, QueryOps

-----------------------------------------------------------------------------
(* How containers age *)

\* A container that has run stays where it is, never comes up again and never
\* becomes unavailable while it runs.
Ages ==
    \A a \in Apps : Ran(a) =>
      /\ at'[a] = at[a] /\ Ran(a)'
      /\ Up(a)' => Up(a) /\ (life[a] = "available" => life'[a] = "available")

\* Steps that leave the containers alone.
LEMMA AgesUnchanged == ASSUME UNCHANGED <<life, at>> PROVE Ages
BY DEF Ages, Ran, Up

\* One container changes its state, and not back to running.
LEMMA AgesOne ==
  ASSUME TypeOK, NEW x, NEW l, life' = [life EXCEPT ![x] = l], at' = at,
         x \in Apps => \/ l = "gone"
                       \/ ~Ran(x)
                       \/ l = "available" /\ life[x] = "up"
  PROVE  Ages
<1> SUFFICES ASSUME NEW a \in Apps, Ran(a)
             PROVE  Ran(a)' /\ (Up(a)' => Up(a) /\ (life[a] = "available" => life'[a] = "available"))
  BY DEF Ages
<1>1. life'[a] = IF a = x THEN l ELSE life[a]
  BY DEF TypeOK
<1> QED BY <1>1 DEF Ran, Up

\* A start names unused containers.
LEMMA AgesBeginStart == ASSUME TypeOK, NEW j \in Jobs, BeginStart(j) PROVE Ages
<1>1. PICK S \in SUBSET {a \in Apps : life[a] = "unused"} :
        life' = [a \in Apps |-> IF a \in S THEN "named" ELSE life[a]]
  BY DEF BeginStart
<1>2. \A a \in Apps : Ran(a) => life'[a] = life[a]
  BY <1>1 DEF Ran
<1>3. at' = at
  BY DEF BeginStart
<1> QED BY <1>2, <1>3 DEF Ages, Ran, Up

\* A batch sends containers to their nodes that do not exist yet.
LEMMA AgesNextBatch == ASSUME IInv, NEW j \in Jobs, NextBatch(j) PROVE Ages
<1>1. PICK B \in SUBSET job[j].todo :
        /\ B # {}
        /\ \E f \in [B -> job[j].nodes] :
              at' = [a \in Apps |-> IF a \in B THEN f[a] ELSE at[a]]
  BY DEF NextBatch
<1>2. PICK f \in [B -> job[j].nodes] : at' = [a \in Apps |-> IF a \in B THEN f[a] ELSE at[a]]
  BY <1>1
<1>3. job[j].op = "start"
  <2> SUFFICES ASSUME job[j].op # "start" PROVE FALSE
    OBVIOUS
  <2>1. job[j].nodes = {}
    BY DEF IInv, WorkInv, FoundInv
  <2> QED BY <1>1, <1>2, <2>1
<1>4. \A a \in B : life[a] = "named"
  BY <1>3 DEF IInv, WorkInv, StartInv
<1>5. \A a \in Apps : Ran(a) => at'[a] = at[a]
  BY <1>2, <1>4 DEF Ran
<1>6. life' = life
  BY DEF NextBatch
<1> QED BY <1>5, <1>6 DEF Ages, Ran, Up

\* An agent starts what was named and stops what has run.
LEMMA AgesHandle == ASSUME IInv, NEW c \in Calls, Handle(c) PROVE Ages
<1>1. life' = AfterCommand(c) /\ at' = at /\ TypeOK
  BY DEF Handle, IInv
<1>2. CASE job[c[1]].op = "start" /\ life[c[2]] = "named"
  <2>1. life' = [life EXCEPT ![c[2]] = "up"]
    BY <1>1, <1>2 DEF AfterCommand
  <2> QED BY <1>1, <1>2, <2>1, AgesOne DEF Ran
<1>3. CASE job[c[1]].op = "stop" /\ c[2] \in Here(c)
  <2>1. life' = [life EXCEPT ![c[2]] = "gone"]
    BY <1>1, <1>3 DEF AfterCommand
  <2> QED BY <1>1, <2>1, AgesOne
<1>4. CASE /\ ~(job[c[1]].op = "start" /\ life[c[2]] = "named")
           /\ ~(job[c[1]].op = "stop" /\ c[2] \in Here(c))
  <2>1. life' = life
    BY <1>1, <1>4 DEF AfterCommand
  <2> QED BY <1>1, <2>1, AgesUnchanged
<1> QED BY <1>2, <1>3, <1>4

\* The docker daemon creates, starts and stops.
LEMMA AgesDocker ==
  ASSUME IInv, NEW c \in Calls, DockerCreate(c) \/ DockerStart(c) \/ DockerStop(c)
  PROVE  Ages
<1>1. TypeOK /\ GoodCall(c)
  BY DEF IInv, DoneInv
<1>2. CASE DockerCreate(c)
  <2>1. life' = [life EXCEPT ![c[2]] = "created"] /\ at' = at
    BY <1>2 DEF DockerCreate
  <2>2. life[c[2]] = "named"
    BY <1>1, <1>2 DEF GoodCall, DockerCreate, AtDocker
  <2> QED BY <1>1, <2>1, <2>2, AgesOne DEF Ran
<1>3. CASE DockerStart(c)
  <2>1. life' = [life EXCEPT ![c[2]] = "up"] /\ at' = at
    BY <1>3 DEF DockerStart
  <2>2. life[c[2]] = "created"
    BY <1>1, <1>3 DEF GoodCall, DockerStart, AtDocker
  <2> QED BY <1>1, <2>1, <2>2, AgesOne DEF Ran
<1>4. CASE DockerStop(c)
  <2>1. life' = [life EXCEPT ![c[2]] = "gone"] /\ at' = at
    BY <1>4 DEF DockerStop
  <2> QED BY <1>1, <2>1, AgesOne
<1> QED BY <1>2, <1>3, <1>4

\* A container becomes available or exits by itself.
LEMMA AgesContainer ==
  ASSUME TypeOK, NEW a \in Apps, BecomesAvailable(a) \/ AppExits(a)
  PROVE  Ages
<1>1. CASE BecomesAvailable(a)
  BY <1>1, AgesOne DEF BecomesAvailable
<1>2. CASE AppExits(a)
  BY <1>2, AgesOne DEF AppExits
<1> QED BY <1>1, <1>2

-----------------------------------------------------------------------------
(* Steps that tell a query nothing *)

\* The query's call of a node is a call.
LEMMA AskedCall ==
  ASSUME NEW j \in Jobs, NEW a, at[a] \in Nodes
  PROVE  Asked(j, a) \in Calls /\ Asked(j, a)[1] = j /\ Asked(j, a)[2] = Rev
         /\ Asked(j, a)[3] = at[a]
BY DEF Asked, Calls, Targets

\* An operation that has begun stays what it is.
OpsStay == \A i \in Jobs : job[i].verdict # "idle" => job'[i].op = job[i].op

\* What is known of the container's place stays true.
LEMMA KeptPlaced ==
  ASSUME NEW j \in Jobs, NEW a \in Apps, Placed(j, a), Ages, job'[j].op = job[j].op,
         job'[j].fitBefore = job[j].fitBefore, call'[Asked(j, a)] # "none"
  PROVE  Placed(j, a)'
<1>1. at'[a] = at[a] /\ Ran(a)' /\ (Up(a)' => Up(a))
      /\ (Up(a)' /\ life[a] = "available" => life'[a] = "available")
  BY DEF Placed, Ages
<1>2. Asked(j, a)' = Asked(j, a)
  BY <1>1 DEF Asked
<1> QED BY <1>1, <1>2 DEF Placed

\* An answer that has not changed promises what it did.
LEMMA KeptPromised ==
  ASSUME IInv, NEW j \in Jobs, NEW a \in Apps, Placed(j, a), Promised(j, a), Ages, OpsStay,
         job[j].op \in QueryOps, job'[j].op = job[j].op, job'[j].fitBefore = job[j].fitBefore,
         \/ out'[at[a]] = out[at[a]]
         \/ out'[at[a]] = None
         \/ ~out'[at[a]].ok
  PROVE  Promised(j, a)'
<1>1. at'[a] = at[a] /\ (Up(a)' => Up(a)) /\ at[a] \in Nodes
  BY DEF Placed, Ages
<1>2. Asked(j, a)' = Asked(j, a) /\ Asked(j, a)[1] = j
  BY <1>1, AskedCall DEF Asked
<1>3. CASE out'[at[a]] = out[at[a]] /\ out[at[a]] # None
  <2> SUFFICES ASSUME NEW r, r = out[at[a]], Up(a)', r.ok, (SubjectOf(r.from) = SubjectOf(Asked(j, a)))'
               PROVE  a \in r.found /\ (a \in job'[j].fitBefore => a \in r.fit)
    BY <1>1, <1>3 DEF Promised
  <2>1. r' = r
    BY <1>1, <1>3
  <2>2. r.from \in Calls /\ call[r.from] # "none"
    BY <1>1, <1>3 DEF IInv, AnswerInv, GoodAnswer, TypeOK, ReplyType
  <2>3. job'[r.from[1]].op = job[r.from[1]].op
    BY <2>2, CallsOf DEF IInv, CallInv, OpsStay
  <2>4. SubjectOf(r.from) = SubjectOf(Asked(j, a))
    BY <1>2, <2>1, <2>3 DEF SubjectOf
  <2> QED BY <1>1, <1>3, <2>4 DEF Promised
<1>4. CASE out'[at[a]] = None \/ ~out'[at[a]].ok
  BY <1>1, <1>4 DEF Promised
<1> QED BY <1>3, <1>4

\* Nothing that the query has heard is lost.
LEMMA KeptListed ==
  ASSUME NEW j \in Jobs, NEW a \in Apps, Placed(j, a), Listed(j, a), Ages,
         job'[j].fitBefore = job[j].fitBefore, job[j].todo \subseteq job'[j].todo,
         job[j].found \subseteq job'[j].found, job[j].fit \subseteq job'[j].fit,
         \/ call'[Asked(j, a)] = call[Asked(j, a)]
         \/ call'[Asked(j, a)] \notin {"ok", "inspect"}
  PROVE  Listed(j, a)'
<1>1. at'[a] = at[a] /\ (Up(a)' => Up(a))
  BY DEF Placed, Ages
<1>2. Asked(j, a)' = Asked(j, a)
  BY <1>1 DEF Asked
<1>3. Got(j, a) => Got(j, a)'
  BY DEF Got
<1> QED BY <1>1, <1>2, <1>3 DEF Listed

\* What a query has, and what it looks for.
SameQuery(i) ==
    /\ job'[i].op = job[i].op /\ Due(i)' = Due(i)
    /\ job'[i].fitBefore = job[i].fitBefore /\ job'[i].crossed = job[i].crossed
    /\ job'[i].todo = job[i].todo /\ job'[i].found = job[i].found /\ job'[i].fit = job[i].fit

\* No call of it has succeeded or goes on to inspect.
SameCalls(i) ==
    \A c \in Calls : c[1] = i /\ call[c] # "none"
       => call'[c] = call[c] \/ call'[c] \notin {"none", "ok", "inspect"}

\* Then it is as sure as it was.
LEMMA KeptQuery ==
  ASSUME IInv, NEW j \in Jobs, QueryInv(j), Ages, OpsStay, SameQuery(j), SameCalls(j),
         \A n \in Nodes : out'[n] = out[n] \/ out'[n] = None \/ ~out'[n].ok
  PROVE  QueryInv(j)'
<1> SUFFICES ASSUME job[j].op \in QueryOps PROVE QueryInv(j)'
  BY DEF QueryInv, SameQuery, Due
<1> SUFFICES ASSUME ~job[j].crossed, NEW a \in Due(j) PROVE Sure(j, a)'
  BY DEF QueryInv, SameQuery, Due
<1>1. a \in Apps /\ Placed(j, a) /\ Listed(j, a) /\ Promised(j, a)
  BY DEF QueryInv, Sure, IInv, TypeOK, JobType, Due
<1>2. at[a] \in Nodes /\ call[Asked(j, a)] # "none" /\ Asked(j, a) \in Calls /\ Asked(j, a)[1] = j
  BY <1>1, AskedCall DEF Placed
<1>3. \/ call'[Asked(j, a)] = call[Asked(j, a)]
      \/ call'[Asked(j, a)] \notin {"none", "ok", "inspect"}
  BY <1>2 DEF SameCalls
<1>4. Placed(j, a)'
  BY <1>1, <1>2, <1>3, KeptPlaced DEF SameQuery, Due
<1>5. Listed(j, a)'
  BY <1>1, <1>3, KeptListed DEF SameQuery, Due
<1>6. Promised(j, a)'
  BY <1>1, <1>2, KeptPromised DEF SameQuery, Due
<1> QED BY <1>4, <1>5, <1>6 DEF Sure

\* Goroutines that are new ask for what they should.
LEMMA KeptRev ==
  ASSUME IInv, RevInv, OpsStay,
         \A c \in Calls : call'[c] # "none"
           => call[c] # "none" \/ job'[c[1]].op \notin QueryOps \/ c[2] = Rev
  PROVE  RevInv'
<1> SUFFICES ASSUME NEW c \in Calls, call'[c] # "none", job'[c[1]].op \in QueryOps PROVE c[2] = Rev
  BY DEF RevInv
<1>1. CASE call[c] # "none"
  <2>1. job'[c[1]].op = job[c[1]].op
    BY <1>1, CallsOf DEF IInv, CallInv, OpsStay
  <2> QED BY <1>1, <2>1 DEF RevInv
<1>2. CASE call[c] = "none"
  BY <1>2
<1> QED BY <1>1, <1>2

\* A step that tells no query anything and begins none keeps the invariant.
LEMMA FreshQuiet ==
  ASSUME IInv, FreshInv, Ages,
         \A i \in Jobs : \/ SameQuery(i)
                         \/ job'[i].op = job[i].op /\ job[i].op \notin QueryOps,
         \A c \in Calls : \/ call'[c] = call[c]
                          \/ call[c] # "none" /\ call'[c] \notin {"none", "ok", "inspect"}
                          \/ call[c] # "none" /\ job[c[1]].op \notin QueryOps,
         \A n \in Nodes : out'[n] = out[n] \/ out'[n] = None \/ ~out'[n].ok
  PROVE  FreshInv'
<1>1. OpsStay
  BY DEF OpsStay, SameQuery, Due
<1>2. RevInv'
  <2>1. \A c \in Calls : call'[c] # "none" => call[c] # "none"
    OBVIOUS
  <2> QED BY <1>1, <2>1, KeptRev DEF FreshInv
<1>3. ASSUME NEW i \in Jobs PROVE QueryInv(i)'
  <2>1. CASE job'[i].op = job[i].op /\ job[i].op \notin QueryOps
    BY <2>1 DEF QueryInv
  <2>2. CASE SameQuery(i) /\ job[i].op \in QueryOps
    <3>1. SameCalls(i)
      BY <2>2 DEF SameCalls
    <3> QED BY <1>1, <2>2, <3>1, KeptQuery DEF FreshInv
  <2> QED BY <2>1, <2>2 DEF SameQuery, Due
<1> QED BY <1>2, <1>3 DEF FreshInv

\* The caller's side of a call: nothing is heard yet, or no longer.
LEMMA FreshCaller ==
  ASSUME IInv, FreshInv, NEW c \in Calls, Subscribe(c) \/ CallFails(c) \/ Timeout(c) \/ DockerFails(c)
  PROVE  FreshInv'
<1>1. /\ UNCHANGED <<life, at, job, out>> /\ call[c] # "none"
      /\ \/ call' = [call EXCEPT ![c] = "waiting"]
         \/ call' = [call EXCEPT ![c] = "failed"]
  BY DEF Subscribe, CallFails, Timeout, DockerFails, OverNats
<1>2. \A i \in Jobs : SameQuery(i)
  BY <1>1 DEF SameQuery, Due
<1>3. \A x \in Calls : call'[x] = call[x] \/ (x = c /\ call'[x] \in {"waiting", "failed"})
  BY <1>1 DEF IInv, TypeOK
<1> QED BY <1>1, <1>2, <1>3, AgesUnchanged, FreshQuiet

\* Commands that are lost or refused bring no container.
LEMMA FreshRefused ==
  ASSUME IInv, FreshInv, NEW c \in Calls, LoseCommand(c) \/ Refuse(c)
  PROVE  FreshInv'
<1>1. UNCHANGED <<life, at, job, call>>
  BY DEF LoseCommand, Refuse
<1>2. \A i \in Jobs : SameQuery(i)
  BY <1>1 DEF SameQuery, Due
<1>3. \A n \in Nodes : out'[n] = out[n] \/ ~out'[n].ok
  <2>1. CASE LoseCommand(c)
    BY <2>1 DEF LoseCommand
  <2>2. CASE Refuse(c)
    BY <2>2 DEF Refuse, IInv, TypeOK
  <2> QED BY <2>1, <2>2
<1> QED BY <1>1, <1>2, <1>3, AgesUnchanged, FreshQuiet

\* The docker daemon's work for a start, a stop or a check is not a query's.
LEMMA FreshDocker ==
  ASSUME IInv, FreshInv, NEW c \in Calls,
         DockerCreate(c) \/ DockerStart(c) \/ DockerStop(c) \/ DockerCheck(c)
  PROVE  FreshInv'
<1>1. TypeOK /\ c[1] \in Jobs
  BY CallsOf DEF IInv
<1>2. /\ out' = out /\ call[c] # "none" /\ job[c[1]].op \notin QueryOps
      /\ \E s \in CallStates : call' = [call EXCEPT ![c] = s]
  BY DEF DockerCreate, DockerStart, DockerStop, DockerCheck, AtDocker, QueryOps, CheckOps, CallStates
<1>3. \A x \in Calls : call'[x] = call[x] \/ x = c
  BY <1>1, <1>2 DEF TypeOK
<1>4. Ages
  <2>1. CASE DockerCheck(c)
    BY <2>1, AgesUnchanged DEF DockerCheck
  <2>2. CASE DockerCreate(c) \/ DockerStart(c) \/ DockerStop(c)
    BY <2>2, AgesDocker
  <2> QED BY <2>1, <2>2
<1>5. ASSUME NEW i \in Jobs
      PROVE  SameQuery(i) \/ (job'[i].op = job[i].op /\ job[i].op \notin QueryOps)
  <2>1. CASE DockerCheck(c)
    <3>1. job' = [job EXCEPT ![c[1]] = [job[c[1]] EXCEPT !.found = job[c[1]].found \cup Named(c)]]
      BY <2>1 DEF DockerCheck
    <3>2. CASE i = c[1]
      <4>1. job'[i] = [job[i] EXCEPT !.found = job[i].found \cup Named(c)] /\ job[i] \in JobType
        BY <1>1, <3>1, <3>2 DEF TypeOK
      <4> QED BY <1>2, <3>2, <4>1 DEF JobType
    <3>3. CASE i # c[1]
      <4>1. job'[i] = job[i]
        BY <1>1, <3>1, <3>3 DEF TypeOK
      <4> QED BY <4>1 DEF SameQuery, Due
    <3> QED BY <3>2, <3>3
  <2>2. CASE DockerCreate(c) \/ DockerStart(c) \/ DockerStop(c)
    BY <2>2 DEF DockerCreate, DockerStart, DockerStop, SameQuery, Due
  <2> QED BY <2>1, <2>2
<1> QED BY <1>2, <1>3, <1>4, <1>5, FreshQuiet

\* A container's own steps.
LEMMA FreshContainer ==
  ASSUME IInv, FreshInv, NEW a \in Apps, BecomesAvailable(a) \/ AppExits(a)
  PROVE  FreshInv'
<1>1. UNCHANGED <<job, call, out>>
  BY DEF BecomesAvailable, AppExits
<1>2. \A i \in Jobs : SameQuery(i)
  BY <1>1 DEF SameQuery, Due
<1>3. Ages
  BY AgesContainer DEF IInv
<1> QED BY <1>1, <1>2, <1>3, FreshQuiet

\* A return tells what there is.
LEMMA FreshReturn == ASSUME IInv, FreshInv, NEW j \in Jobs, Return(j) PROVE FreshInv'
<1>1. UNCHANGED <<life, at, call, out>>
  BY DEF Return
<1>2. ASSUME NEW i \in Jobs PROVE SameQuery(i)
  <2> PICK v : job' = [job EXCEPT ![j] = [job[j] EXCEPT !.verdict = v]]
    BY DEF Return
  <2>1. job'[i] = IF i = j THEN [job[j] EXCEPT !.verdict = v] ELSE job[i]
    BY DEF IInv, TypeOK
  <2>2. job[j] \in JobType
    BY DEF IInv, TypeOK
  <2>3. CASE i = j
    <3>1. job'[i] = [job[i] EXCEPT !.verdict = v]
      BY <2>1, <2>3
    <3> QED BY <2>2, <2>3, <3>1 DEF SameQuery, Due, JobType
  <2>4. CASE i # j
    BY <2>1, <2>4 DEF SameQuery, Due
  <2> QED BY <2>3, <2>4
<1> QED BY <1>1, <1>2, AgesUnchanged, FreshQuiet

-----------------------------------------------------------------------------
(* Answers *)

\* An agent that handles a query looks at all its containers, after the query began.
LEMMA FreshHandle == ASSUME IInv, FreshInv, NEW c \in Calls, Handle(c) PROVE FreshInv'
<1> SUFFICES ASSUME NEW r, r = [from |-> c, ok |-> Known(c), found |-> Named(c),
                                fit |-> {a \in Named(c) : life[a] = "available"}]
             PROVE  FreshInv'
  OBVIOUS
<1>1. TypeOK /\ c[1] \in Jobs /\ c[3] \in Nodes
  BY CallsOf DEF IInv
<1>2. UNCHANGED <<at, job, call>> /\ out' = [out EXCEPT ![c[3]] = r] /\ life' = AfterCommand(c)
  BY DEF Handle
<1>3. Ages
  BY AgesHandle
<1>4. /\ OpsStay /\ \A i \in Jobs : SameQuery(i) /\ SameCalls(i)
  BY <1>2 DEF OpsStay, SameQuery, Due, SameCalls
<1>5. RevInv'
  BY <1>2 DEF FreshInv, RevInv
<1>6. \A n \in Nodes : out'[n] = IF n = c[3] THEN r ELSE out[n]
  BY <1>1, <1>2 DEF TypeOK
<1>7. ASSUME NEW j \in Jobs PROVE QueryInv(j)'
  <2> SUFFICES ASSUME job[j].op \in QueryOps PROVE QueryInv(j)'
    BY <1>2 DEF QueryInv
  <2> SUFFICES ASSUME ~job[j].crossed, NEW a \in Due(j) PROVE Sure(j, a)'
    BY <1>2 DEF FreshInv, QueryInv, Due
  <2>1. a \in Apps /\ Placed(j, a) /\ Listed(j, a) /\ Promised(j, a)
    BY <1>1 DEF FreshInv, QueryInv, Sure, TypeOK, JobType, Due
  <2>2. at[a] \in Nodes /\ call'[Asked(j, a)] # "none" /\ at'[a] = at[a] /\ (Up(a)' => Up(a))
        /\ Asked(j, a)[1] = j /\ Asked(j, a)[3] = at[a] /\ Asked(j, a)' = Asked(j, a)
    <3>1. at[a] \in Nodes /\ call[Asked(j, a)] # "none" /\ Ran(a)
      BY <2>1 DEF Placed
    <3>2. Up(a)' => Up(a)
      BY <1>3, <2>1, <3>1 DEF Ages
    <3> QED BY <1>2, <3>1, <3>2, AskedCall DEF Asked
  <2>3. Placed(j, a)' /\ Listed(j, a)'
    BY <1>2, <1>3, <2>1, <2>2, KeptPlaced, KeptListed
  <2>4. CASE at[a] # c[3]
    <3>1. out'[at[a]] = out[at[a]]
      BY <1>6, <2>2, <2>4
    <3>2. Promised(j, a)'
      BY <1>2, <1>3, <1>4, <2>1, <3>1, KeptPromised
    <3> QED BY <2>3, <3>2 DEF Sure
  <2>5. CASE at[a] = c[3]
    <3> SUFFICES ASSUME Up(a)', SubjectOf(r.from) = SubjectOf(Asked(j, a))
                 PROVE  a \in r.found /\ (a \in job[j].fitBefore => a \in r.fit)
      <4>1. out'[at'[a]] = r
        BY <1>6, <2>2, <2>5
      <4>2. SubjectOf(r.from)' = SubjectOf(r.from) /\ SubjectOf(Asked(j, a))' = SubjectOf(Asked(j, a))
        BY <1>2, <2>2 DEF SubjectOf
      <4> QED BY <1>2, <2>3, <4>1, <4>2 DEF Sure, Promised
    <3>1. job[c[1]].op = job[j].op
      BY <2>2 DEF SubjectOf, Subject
    <3>2. Up(a) /\ a \in Here(c) /\ Seen(job[c[1]].op, a)
      BY <2>1, <2>2, <2>5, <3>1 DEF Placed, Here, Seen, QueryOps
    <3>3. a \in Named(c)
      BY <3>1, <3>2 DEF Named, QueryOps, CheckOps
    <3> QED BY <2>1, <3>2, <3>3 DEF Placed
  <2> QED BY <2>4, <2>5
<1> QED BY <1>5, <1>7 DEF FreshInv

\* Whoever hears an answer has what it promised.
LEMMA FreshAnswer == ASSUME IInv, FreshInv, NEW n \in Nodes, Answer(n) PROVE FreshInv'
<1> SUFFICES ASSUME NEW r, r = out[n], NEW Told, Told = {c \in Calls : Hears(c, r)} PROVE FreshInv'
  OBVIOUS
<1>1. TypeOK /\ r \in ReplyType /\ r # None
  BY DEF IInv, TypeOK, Answer
<1>2. /\ call' = [c \in Calls |-> IF c \notin Told THEN call[c]
                                  ELSE IF r.ok THEN "ok" ELSE "failed"]
      /\ job' = [j \in Jobs |->
                   IF r.ok /\ (\E c \in Told : c[1] = j)
                   THEN [job[j] EXCEPT !.found = job[j].found \cup r.found,
                                       !.fit = job[j].fit \cup r.fit]
                   ELSE job[j]]
      /\ out' = [out EXCEPT ![n] = None]
      /\ UNCHANGED <<mode, life, at, sent, left>>
  BY DEF Answer
<1>3. r.from[3] = n
  BY <1>1 DEF IInv, AnswerInv, GoodAnswer
<1>4. ASSUME NEW i \in Jobs
      PROVE  /\ job'[i].op = job[i].op /\ Due(i)' = Due(i)
             /\ job'[i].fitBefore = job[i].fitBefore /\ job'[i].crossed = job[i].crossed
             /\ job'[i].todo = job[i].todo
             /\ job[i].found \subseteq job'[i].found /\ job[i].fit \subseteq job'[i].fit
             /\ r.ok /\ (\E c \in Told : c[1] = i)
                  => r.found \subseteq job'[i].found /\ r.fit \subseteq job'[i].fit
  <2>1. job[i] \in JobType
    BY <1>1 DEF TypeOK
  <2>2. CASE r.ok /\ \E c \in Told : c[1] = i
    <3>1. job'[i] = [job[i] EXCEPT !.found = job[i].found \cup r.found,
                                   !.fit = job[i].fit \cup r.fit]
      BY <1>2, <2>2
    <3> QED BY <2>1, <3>1 DEF JobType, Due
  <2>3. CASE ~(r.ok /\ \E c \in Told : c[1] = i)
    <3>1. job'[i] = job[i]
      BY <1>2, <2>3
    <3> QED BY <2>3, <3>1 DEF Due
  <2> QED BY <2>2, <2>3
<1>5. Ages /\ OpsStay
  BY <1>2, <1>4, AgesUnchanged DEF OpsStay
<1>6. \A c \in Calls : call'[c] # "none" => call[c] # "none"
  BY <1>2 DEF Hears
<1>7. RevInv'
  BY <1>5, <1>6, KeptRev DEF FreshInv
<1>8. ASSUME NEW j \in Jobs PROVE QueryInv(j)'
  <2> SUFFICES ASSUME job[j].op \in QueryOps PROVE QueryInv(j)'
    BY <1>4 DEF QueryInv
  <2> SUFFICES ASSUME ~job[j].crossed, NEW a \in Due(j) PROVE Sure(j, a)'
    BY <1>4 DEF FreshInv, QueryInv
  <2>1. a \in Apps /\ Placed(j, a) /\ Listed(j, a) /\ Promised(j, a)
    BY <1>1 DEF FreshInv, QueryInv, Sure, TypeOK, JobType, Due
  <2>2. at[a] \in Nodes /\ call[Asked(j, a)] # "none" /\ Asked(j, a) \in Calls
        /\ Asked(j, a)[1] = j /\ Asked(j, a)[3] = at[a] /\ Asked(j, a)' = Asked(j, a)
    BY <1>2, <2>1, AskedCall DEF Placed, Asked
  <2>3. call'[Asked(j, a)] # "none"
    BY <1>2, <2>2
  <2>4. Placed(j, a)'
    BY <1>4, <1>5, <2>1, <2>3, KeptPlaced
  <2>5. out'[at[a]] = out[at[a]] \/ out'[at[a]] = None
    BY <1>1, <1>2, <2>2 DEF TypeOK
  <2>6. Promised(j, a)'
    BY <1>4, <1>5, <2>1, <2>5, KeptPromised
  <2>7. CASE Asked(j, a) \notin Told \/ ~r.ok
    <3>1. call'[Asked(j, a)] = call[Asked(j, a)] \/ call'[Asked(j, a)] = "failed"
      BY <1>2, <2>2, <2>7
    <3>2. Listed(j, a)'
      BY <1>4, <1>5, <2>1, <3>1, KeptListed
    <3> QED BY <2>4, <2>6, <3>2 DEF Sure
  <2>8. CASE Asked(j, a) \in Told /\ r.ok
    <3>1. SubjectOf(r.from) = SubjectOf(Asked(j, a)) /\ at[a] = n
      BY <1>3, <2>2, <2>8 DEF Hears, SubjectOf, Subject
    <3>2. Up(a) => a \in r.found /\ (a \in job[j].fitBefore => a \in r.fit)
      BY <1>1, <2>1, <2>8, <3>1 DEF Promised
    <3>3. r.found \subseteq job'[j].found /\ r.fit \subseteq job'[j].fit
      BY <1>4, <2>2, <2>8
    <3>4. Up(a)' => Got(j, a)'
      BY <1>2, <1>4, <3>2, <3>3 DEF Got, Up
    <3> QED BY <2>4, <2>6, <3>4 DEF Sure, Listed
  <2> QED BY <2>7, <2>8
<1> QED BY <1>7, <1>8 DEF FreshInv

-----------------------------------------------------------------------------
(* The docker daemon's queries *)

\* A query of the docker daemon has one call.
LEMMA OnlyAsked ==
  ASSUME IInv, RevInv, mode = "DirectDocker", NEW c \in Calls, call[c] # "none",
         job[c[1]].op \in QueryOps, NEW a, Placed(c[1], a)
  PROVE  c = Asked(c[1], a) /\ c[3] = at[a]
<1>1. c[1] \in Jobs /\ c[2] = Rev /\ c = <<c[1], c[2], c[3]>>
  BY CallsOf DEF RevInv
<1>2. at[a] \in Nodes /\ call[Asked(c[1], a)] # "none"
  BY DEF Placed
<1>3. Asked(c[1], a) \in Calls /\ Asked(c[1], a)[3] = at[a]
  BY <1>1, <1>2, AskedCall
<1>4. c[3] = Local /\ at[a] = Local
  BY <1>2, <1>3 DEF IInv, TargetInv
<1> QED BY <1>1, <1>4 DEF Asked

\* A step of that call keeps the invariant if the call has what it should.
LEMMA FreshDockerQuery ==
  ASSUME IInv, FreshInv, NEW c \in Calls, call[c] # "none", UNCHANGED <<life, at, out>>,
         call'[c] # "none", \A x \in Calls : x # c => call'[x] = call[x],
         \A i \in Jobs : i # c[1] => job'[i] = job[i],
         job'[c[1]].op = job[c[1]].op, job'[c[1]].crossed = job[c[1]].crossed,
         job'[c[1]].fitBefore = job[c[1]].fitBefore,
         Due(c[1])' \subseteq Due(c[1]),
         ~job[c[1]].crossed => \A a \in Due(c[1])' : Listed(c[1], a)'
  PROVE  FreshInv'
<1>1. c[1] \in Jobs
  BY CallsOf
<1>2. Ages /\ OpsStay
  BY AgesUnchanged DEF OpsStay
<1>3. RevInv'
  BY <1>2, KeptRev DEF FreshInv
<1>4. ASSUME NEW i \in Jobs, i # c[1] PROVE QueryInv(i)'
  <2>1. SameQuery(i) /\ SameCalls(i)
    BY <1>4 DEF SameQuery, Due, SameCalls
  <2> QED BY <1>2, <2>1, KeptQuery DEF FreshInv
<1>5. QueryInv(c[1])'
  <2> SUFFICES ASSUME job[c[1]].op \in QueryOps PROVE QueryInv(c[1])'
    BY DEF QueryInv
  <2>1. QueryInv(c[1]) /\ Due(c[1]) \in SUBSET Apps
    BY <1>1 DEF FreshInv, IInv, TypeOK, JobType, Due
  <2>2. job'[c[1]].op # "query_all" => job'[c[1]].fitBefore = {}
    BY <2>1 DEF QueryInv
  <2>3. ASSUME ~job[c[1]].crossed, NEW a \in Due(c[1])' PROVE Sure(c[1], a)'
    <3>1. a \in Apps /\ Placed(c[1], a) /\ Promised(c[1], a)
      BY <2>1, <2>3 DEF QueryInv, Sure
    <3>2. call'[Asked(c[1], a)] # "none"
      <4>1. Asked(c[1], a) \in Calls /\ call[Asked(c[1], a)] # "none"
        BY <1>1, <3>1, AskedCall DEF Placed
      <4> QED BY <4>1
    <3>3. Placed(c[1], a)'
      BY <1>1, <1>2, <3>1, <3>2, KeptPlaced
    <3>4. Promised(c[1], a)'
      BY <1>1, <1>2, <3>1, KeptPromised
    <3>5. Listed(c[1], a)'
      BY <2>3
    <3> QED BY <3>3, <3>4, <3>5 DEF Sure
  <2> QED BY <2>2, <2>3 DEF QueryInv
<1> QED BY <1>3, <1>4, <1>5 DEF FreshInv

\* The list has every running container.
LEMMA FreshDockerList == ASSUME IInv, FreshInv, NEW c \in Calls, DockerList(c) PROVE FreshInv'
<1> SUFFICES ASSUME NEW running, running = {a \in Here(c) : Up(a)},
                    NEW k \in Jobs, k = c[1],
                    NEW plain, plain = (job[k].op = "query")
             PROVE  FreshInv'
  BY CallsOf
<1>1. /\ mode = "DirectDocker" /\ job[k].op \in QueryOps /\ call[c] = "begun"
      /\ UNCHANGED <<mode, life, at, sent, out, left>>
      /\ call' = [call EXCEPT ![c] = IF plain \/ running = {} THEN "ok" ELSE "inspect"]
      /\ job' = [job EXCEPT ![k] = [job[k] EXCEPT !.found = IF plain THEN running ELSE {},
                                                  !.todo = IF plain THEN {} ELSE running]]
  BY DEF DockerList, AtDocker
<1>2. TypeOK /\ job[k] \in JobType /\ QueryInv(k) /\ RevInv
  BY DEF IInv, TypeOK, FreshInv
<1>3. /\ call'[c] = IF plain \/ running = {} THEN "ok" ELSE "inspect"
      /\ \A x \in Calls : x # c => call'[x] = call[x]
  BY <1>1, <1>2 DEF TypeOK
<1>4. \A i \in Jobs : i # k => job'[i] = job[i]
  BY <1>1, <1>2 DEF TypeOK
<1>5. /\ job'[k].op = job[k].op /\ job'[k].crossed = job[k].crossed
      /\ job'[k].fitBefore = job[k].fitBefore /\ Due(k)' = Due(k)
      /\ job'[k].fit = job[k].fit
      /\ job'[k].found = IF plain THEN running ELSE {}
      /\ job'[k].todo = IF plain THEN {} ELSE running
  <2>1. job'[k] = [job[k] EXCEPT !.found = IF plain THEN running ELSE {},
                                 !.todo = IF plain THEN {} ELSE running]
    BY <1>1, <1>2 DEF TypeOK
  <2> QED BY <1>2, <2>1 DEF JobType, Due
<1>6. ASSUME ~job[k].crossed, NEW a \in Due(k), Up(a)'
      PROVE  /\ call'[Asked(k, a)'] = "ok" => Got(k, a)'
             /\ call'[Asked(k, a)'] = "inspect" => a \in job'[k].todo
  <2>1. a \in Apps /\ Placed(k, a)
    BY <1>1, <1>2, <1>6 DEF QueryInv, Sure, JobType, Due
  <2>2. c = Asked(k, a) /\ c[3] = at[a]
    BY <1>1, <1>2, <2>1, OnlyAsked
  <2>3. Asked(k, a)' = c
    BY <1>1, <2>2 DEF Asked
  <2>4. a \in running
    BY <1>1, <1>6, <2>1, <2>2 DEF Here, Placed, Up
  <2>5. plain => job'[k].fitBefore = {}
    BY <1>2, <1>5, <1>1 DEF QueryInv
  <2> QED BY <1>3, <1>5, <2>3, <2>4, <2>5 DEF Got
<1>7. ~job[k].crossed => \A a \in Due(k)' : Listed(k, a)'
  BY <1>5, <1>6 DEF Listed
<1>8. call[c] # "none" /\ call'[c] # "none"
  BY <1>1, <1>3
<1> QED BY <1>1, <1>3, <1>4, <1>5, <1>7, <1>8, FreshDockerQuery

\* A container that is inspected is kept if it is what the query looks for.
LEMMA FreshDockerInspect ==
  ASSUME IInv, FreshInv, NEW c \in Calls, NEW a \in Apps, DockerInspect(c, a)
  PROVE  FreshInv'
<1> SUFFICES ASSUME NEW k \in Jobs, k = c[1] PROVE FreshInv'
  BY CallsOf
<1>1. /\ mode = "DirectDocker" /\ job[k].op \in QueryOps /\ call[c] = "inspect"
      /\ UNCHANGED <<mode, life, at, sent, out, left>>
      /\ call' = IF job[k].todo = {a} THEN [call EXCEPT ![c] = "ok"] ELSE call
      /\ job' = [job EXCEPT ![k] =
           [job[k] EXCEPT
              !.todo  = job[k].todo \ {a},
              !.found = job[k].found \cup
                        (IF job[k].op = "query_all" \/ Seen(job[k].op, a) THEN {a} ELSE {}),
              !.fit   = job[k].fit \cup (IF life[a] = "available" THEN {a} ELSE {})]]
  BY DEF DockerInspect, AtDocker
<1>2. TypeOK /\ job[k] \in JobType /\ QueryInv(k) /\ RevInv
  BY DEF IInv, TypeOK, FreshInv
<1>3. /\ call'[c] = IF job[k].todo = {a} THEN "ok" ELSE "inspect"
      /\ \A x \in Calls : x # c => call'[x] = call[x]
  BY <1>1, <1>2 DEF TypeOK
<1>4. \A i \in Jobs : i # k => job'[i] = job[i]
  BY <1>1, <1>2 DEF TypeOK
<1>5. /\ job'[k].op = job[k].op /\ job'[k].crossed = job[k].crossed
      /\ job'[k].fitBefore = job[k].fitBefore /\ Due(k)' = Due(k)
      /\ job'[k].todo = job[k].todo \ {a}
      /\ job'[k].found = job[k].found \cup
                           (IF job[k].op = "query_all" \/ Seen(job[k].op, a) THEN {a} ELSE {})
      /\ job'[k].fit = job[k].fit \cup (IF life[a] = "available" THEN {a} ELSE {})
  <2>1. job'[k] = [job[k] EXCEPT
              !.todo  = job[k].todo \ {a},
              !.found = job[k].found \cup
                        (IF job[k].op = "query_all" \/ Seen(job[k].op, a) THEN {a} ELSE {}),
              !.fit   = job[k].fit \cup (IF life[a] = "available" THEN {a} ELSE {})]
    BY <1>1, <1>2 DEF TypeOK
  <2> QED BY <1>2, <2>1 DEF JobType, Due
<1>6. ASSUME ~job[k].crossed, NEW b \in Due(k), Up(b)'
      PROVE  /\ call'[Asked(k, b)'] = "ok" => Got(k, b)'
             /\ call'[Asked(k, b)'] = "inspect" => b \in job'[k].todo \/ Got(k, b)'
  <2>1. b \in Apps /\ Placed(k, b) /\ Listed(k, b)
    BY <1>1, <1>2, <1>6 DEF QueryInv, Sure, JobType, Due
  <2>2. c = Asked(k, b)
    BY <1>1, <1>2, <2>1, OnlyAsked
  <2>3. Asked(k, b)' = c /\ Up(b)
    BY <1>1, <1>6, <2>2 DEF Asked, Up
  <2>4. b \in job[k].todo \/ Got(k, b)
    BY <1>1, <2>1, <2>2, <2>3 DEF Listed
  <2>5. Got(k, b) => Got(k, b)'
    BY <1>5 DEF Got
  <2>6. b = a => Got(k, b)'
    <3>1. Seen(job[k].op, b)
      BY <2>1, <2>3, <1>1 DEF Seen, Placed, QueryOps
    <3>2. b \in job[k].fitBefore => life[b] = "available"
      BY <2>1, <2>3 DEF Placed
    <3> QED BY <1>5, <3>1, <3>2 DEF Got
  <2>7. b \in job'[k].todo \/ Got(k, b)'
    BY <1>5, <2>4, <2>5, <2>6
  <2>8. call'[c] = "ok" => job'[k].todo = {}
    BY <1>3, <1>5
  <2> QED BY <2>3, <2>7, <2>8
<1>7. ~job[k].crossed => \A b \in Due(k)' : Listed(k, b)'
  BY <1>5, <1>6 DEF Listed
<1>8. call[c] # "none" /\ call'[c] # "none"
  BY <1>1, <1>3
<1> QED BY <1>1, <1>3, <1>4, <1>5, <1>7, <1>8, FreshDockerQuery

\* One that cannot be inspected is no longer looked for, or ends the query.
LEMMA FreshInspectFails ==
  ASSUME IInv, FreshInv, NEW c \in Calls, NEW a \in Apps, DockerInspectFails(c, a)
  PROVE  FreshInv'
<1> SUFFICES ASSUME NEW k \in Jobs, k = c[1] PROVE FreshInv'
  BY CallsOf
<1>1. /\ mode = "DirectDocker" /\ job[k].op \in QueryOps /\ call[c] = "inspect"
      /\ UNCHANGED <<mode, life, at, sent, out>>
  BY DEF DockerInspectFails, AtDocker
<1>2. TypeOK /\ job[k] \in JobType /\ QueryInv(k) /\ RevInv
  BY DEF IInv, TypeOK, FreshInv
<1>3. ASSUME NEW b, ~job[k].crossed, b \in Due(k)
      PROVE  /\ b \in Apps /\ c = Asked(k, b) /\ Asked(k, b)' = c
             /\ Up(b) <=> Up(b)'
             /\ Up(b) => b \in job[k].todo \/ Got(k, b)
  <2>1. b \in Apps /\ Placed(k, b) /\ Listed(k, b)
    BY <1>1, <1>2, <1>3 DEF QueryInv, Sure, JobType, Due
  <2>2. c = Asked(k, b)
    BY <1>1, <1>2, <2>1, OnlyAsked
  <2>3. Asked(k, b)' = c /\ Up(b) <=> Up(b)'
    BY <1>1, <2>2 DEF Asked, Up
  <2> QED BY <1>1, <2>1, <2>2, <2>3 DEF Listed, Asked, Up
<1>4. CASE job[k].op = "query_all"
  <2>1. /\ job' = [job EXCEPT ![k] = [job[k] EXCEPT !.todo = {}, !.found = {}, !.fit = {}]]
        /\ call' = [call EXCEPT ![c] = "failed"]
    BY <1>4 DEF DockerInspectFails
  <2>2. call'[c] = "failed" /\ \A x \in Calls : x # c => call'[x] = call[x]
    BY <1>2, <2>1 DEF TypeOK
  <2>3. \A i \in Jobs : i # k => job'[i] = job[i]
    BY <1>2, <2>1 DEF TypeOK
  <2>4. /\ job'[k].op = job[k].op /\ job'[k].crossed = job[k].crossed
        /\ job'[k].fitBefore = job[k].fitBefore /\ Due(k)' = Due(k)
    <3>1. job'[k] = [job[k] EXCEPT !.todo = {}, !.found = {}, !.fit = {}]
      BY <1>2, <2>1 DEF TypeOK
    <3> QED BY <1>2, <3>1 DEF JobType, Due
  <2>5. ~job[k].crossed => \A b \in Due(k)' : Listed(k, b)'
    BY <1>3, <2>2, <2>4 DEF Listed
  <2>6. call[c] # "none" /\ call'[c] # "none"
    BY <1>1, <2>2
  <2> QED BY <1>1, <2>2, <2>3, <2>4, <2>5, <2>6, FreshDockerQuery
<1>5. CASE job[k].op # "query_all"
  <2>1. /\ job' = [job EXCEPT ![k] = [job[k] EXCEPT !.todo = job[k].todo \ {a},
                                                    !.skipped = job[k].skipped \cup {a}]]
        /\ call' = IF job[k].todo = {a} THEN [call EXCEPT ![c] = "ok"] ELSE call
    BY <1>5 DEF DockerInspectFails
  <2>2. /\ call'[c] = IF job[k].todo = {a} THEN "ok" ELSE "inspect"
        /\ \A x \in Calls : x # c => call'[x] = call[x]
    BY <1>1, <1>2, <2>1 DEF TypeOK
  <2>3. \A i \in Jobs : i # k => job'[i] = job[i]
    BY <1>2, <2>1 DEF TypeOK
  <2>4. /\ job'[k].op = job[k].op /\ job'[k].crossed = job[k].crossed
        /\ job'[k].fitBefore = job[k].fitBefore /\ Due(k)' = Due(k) \ {a}
        /\ job'[k].found = job[k].found /\ job'[k].fit = job[k].fit
        /\ job'[k].todo = job[k].todo \ {a}
    <3>1. job'[k] = [job[k] EXCEPT !.todo = job[k].todo \ {a}, !.skipped = job[k].skipped \cup {a}]
      BY <1>2, <2>1 DEF TypeOK
    <3> QED BY <1>2, <3>1 DEF JobType, Due
  <2>5. ASSUME ~job[k].crossed, NEW b \in Due(k)' PROVE Listed(k, b)'
    <3>1. b # a /\ b \in Due(k)
      BY <2>4, <2>5
    <3>2. /\ Asked(k, b)' = c /\ (Up(b) <=> Up(b)')
          /\ Up(b) => b \in job[k].todo \/ Got(k, b)
      BY <1>3, <2>5, <3>1
    <3>3. Got(k, b) => Got(k, b)'
      BY <2>4 DEF Got
    <3> QED BY <2>2, <2>4, <3>1, <3>2, <3>3 DEF Listed
  <2>6. call[c] # "none" /\ call'[c] # "none"
    BY <1>1, <2>2
  <2> QED BY <1>1, <1>5, <2>2, <2>3, <2>4, <2>5, <2>6, FreshDockerQuery
<1> QED BY <1>4, <1>5

-----------------------------------------------------------------------------
(* Operations begin *)

\* What one operation begins or goes on with does not disturb the other ones.
LEMMA FreshBegins ==
  ASSUME IInv, FreshInv, Ages, NEW j \in Jobs, out' = out,
         job[j].verdict = "idle" \/ job'[j].op = job[j].op,
         \A i \in Jobs : i # j => job'[i] = job[i],
         \A c \in Calls : IF c[1] = j THEN call'[c] # "none" => \/ job'[j].op \notin QueryOps
                                                               \/ c[2] = Rev
                                      ELSE call'[c] = call[c],
         QueryInv(j)'
  PROVE  FreshInv'
<1>1. OpsStay
  BY DEF OpsStay
<1>2. RevInv'
  BY <1>1, KeptRev DEF FreshInv
<1>3. ASSUME NEW i \in Jobs, i # j PROVE QueryInv(i)'
  <2>1. SameQuery(i) /\ SameCalls(i)
    BY <1>3 DEF SameQuery, Due, SameCalls
  <2> QED BY <1>1, <2>1, KeptQuery DEF FreshInv
<1> QED BY <1>2, <1>3 DEF FreshInv

\* Starts, stops and checks.
LEMMA FreshBeginOther ==
  ASSUME IInv, FreshInv, NEW j \in Jobs,
         BeginStart(j) \/ BeginStop(j) \/ (\E o \in CheckOps : BeginCheck(j, o))
  PROVE  FreshInv'
<1>1. TypeOK /\ out' = out /\ job[j].verdict = "idle"
  BY DEF IInv, BeginStart, BeginStop, BeginCheck, Begin
<1>2. PICK C \in SUBSET Calls :
        /\ \E r : r.op \notin QueryOps /\ job' = [job EXCEPT ![j] = r]
        /\ \A c \in Calls : call'[c] = IF c \in C THEN "begun" ELSE call[c]
        /\ \A c \in C : c[1] = j
  <2>1. CASE BeginStart(j)
    <3>1. PICK S, ns :
            /\ job' = [job EXCEPT ![j] = [NoJob EXCEPT !.op = "start", !.verdict = "busy", !.apps = S,
                                                       !.todo = S, !.batch = 1, !.nodes = ns]]
            /\ UNCHANGED call
      BY <2>1 DEF BeginStart
    <3>2. PICK r : r = [NoJob EXCEPT !.op = "start", !.verdict = "busy", !.apps = S,
                                     !.todo = S, !.batch = 1, !.nodes = ns]
      OBVIOUS
    <3>3. r.op = "start"
      BY <3>2 DEF NoJob
    <3>4. job' = [job EXCEPT ![j] = r]
      BY <3>1, <3>2
    <3>5. r.op \notin QueryOps
      BY <3>3 DEF QueryOps
    <3>6. PICK C \in SUBSET Calls : C = {}
      OBVIOUS
    <3>7. (\A c \in Calls : call'[c] = IF c \in C THEN "begun" ELSE call[c]) /\ \A c \in C : c[1] = j
      BY <3>1, <3>6
    <3>8. \E x : x.op \notin QueryOps /\ job' = [job EXCEPT ![j] = x]
      BY <3>4, <3>5
    <3> QED BY <3>7, <3>8
  <2>2. CASE BeginStop(j)
    <3>1. PICK S \in SUBSET {a \in Apps : Ran(a)}, more \in {0, 1}, ns \in NodeSets :
            /\ job' = [job EXCEPT ![j] = [NoJob EXCEPT !.op = "stop", !.verdict = "busy", !.apps = S,
                                                       !.asked = Cardinality(S) + more]]
            /\ Open({j} \X S \X ns)
      BY <2>2 DEF BeginStop
    <3>2. PICK r : r = [NoJob EXCEPT !.op = "stop", !.verdict = "busy", !.apps = S,
                                     !.asked = Cardinality(S) + more]
      OBVIOUS
    <3>3. r.op = "stop"
      BY <3>2 DEF NoJob
    <3>4. PICK C : C = {j} \X S \X ns
      OBVIOUS
    <3>5. C \in SUBSET Calls /\ \A c \in C : c[1] = j
      BY <3>4, NodeSetsType DEF Calls, Targets
    <3>6. job' = [job EXCEPT ![j] = r] /\ Open(C)
      BY <3>1, <3>2, <3>4
    <3>7. r.op \notin QueryOps
      BY <3>3 DEF QueryOps
    <3> QED BY <1>1, <3>5, <3>6, <3>7, OpenType
  <2>3. ASSUME NEW o \in CheckOps, BeginCheck(j, o)
        PROVE  \E C \in SUBSET Calls :
                 /\ \E r : r.op \notin QueryOps /\ job' = [job EXCEPT ![j] = r]
                 /\ \A c \in Calls : call'[c] = IF c \in C THEN "begun" ELSE call[c]
                 /\ \A c \in C : c[1] = j
    <3>1. PICK S \in SUBSET {a \in Apps : Ran(a)} :
        /\ job' = [job EXCEPT ![j] = [NoJob EXCEPT !.op = o, !.verdict = "busy", !.apps = S]]
        /\ CASE mode = "IndirectStar" -> Open({j} \X S \X Nodes)
             [] mode = "DirectStar"   -> \E f \in [S -> Nodes] : Open({<<j, a, f[a]>> : a \in S})
             [] OTHER                 -> \E T \in {S, {}} : Open({j} \X T \X {Local})
      BY <2>3 DEF BeginCheck
    <3>2. PICK C \in SUBSET Calls : Open(C) /\ \A c \in C : c[1] = j
      <4>1. CASE mode = "IndirectStar"
        <5>1. {j} \X S \X Nodes \in SUBSET Calls
          BY DEF Calls, Targets
        <5> QED BY <3>1, <4>1, <5>1
      <4>2. CASE mode = "DirectStar"
        <5>1. PICK f \in [S -> Nodes] : Open({<<j, a, f[a]>> : a \in S})
          BY <3>1, <4>2
        <5>2. {<<j, a, f[a]>> : a \in S} \in SUBSET Calls
          BY DEF Calls, Targets
        <5> QED BY <5>1, <5>2
      <4>3. CASE mode \notin {"IndirectStar", "DirectStar"}
        <5>1. PICK T \in {S, {}} : Open({j} \X T \X {Local})
          BY <3>1, <4>3
        <5>2. {j} \X T \X {Local} \in SUBSET Calls
          BY NodesAssumption DEF Calls, Targets
        <5> QED BY <5>1, <5>2
      <4> QED BY <4>1, <4>2, <4>3
    <3>3. PICK r : r = [NoJob EXCEPT !.op = o, !.verdict = "busy", !.apps = S]
      OBVIOUS
    <3>4. r.op = o
      BY <3>3 DEF NoJob
    <3>5. job' = [job EXCEPT ![j] = r]
      BY <3>1, <3>3
    <3>6. r.op \notin QueryOps
      BY <3>4 DEF QueryOps, CheckOps
    <3> QED BY <1>1, <3>2, <3>5, <3>6, OpenType
  <2> QED BY <2>1, <2>2, <2>3
<1>3. job'[j].op \notin QueryOps /\ \A i \in Jobs : i # j => job'[i] = job[i]
  <2>1. PICK r : r.op \notin QueryOps /\ job' = [job EXCEPT ![j] = r]
    BY <1>2
  <2> QED BY <1>1, <2>1 DEF TypeOK
<1>4. Ages
  <2>1. CASE BeginStart(j)
    BY <1>1, <2>1, AgesBeginStart
  <2>2. CASE BeginStop(j) \/ \E o \in CheckOps : BeginCheck(j, o)
    BY <2>2, AgesUnchanged DEF BeginStop, BeginCheck
  <2> QED BY <2>1, <2>2
<1>5. QueryInv(j)'
  BY <1>2, <1>3 DEF QueryInv
<1>6. \A c \in Calls : IF c[1] = j THEN job'[j].op \notin QueryOps ELSE call'[c] = call[c]
  BY <1>2, <1>3
<1> QED BY <1>1, <1>3, <1>4, <1>5, <1>6, FreshBegins

\* The next batch of a start.
LEMMA FreshNextBatch == ASSUME IInv, FreshInv, NEW j \in Jobs, NextBatch(j) PROVE FreshInv'
<1>1. PICK B \in SUBSET job[j].todo :
        /\ B # {}
        /\ \E f \in [B -> job[j].nodes] : Open({<<j, a, f[a]>> : a \in B})
        /\ job' = [job EXCEPT ![j] = [job[j] EXCEPT !.todo = job[j].todo \ B,
                                                    !.batch = 2 * job[j].batch]]
  BY DEF NextBatch
<1>2. PICK f \in [B -> job[j].nodes] : Open({<<j, a, f[a]>> : a \in B})
  BY <1>1
<1>3. TypeOK /\ job[j] \in JobType /\ out' = out
  BY DEF IInv, TypeOK, NextBatch
<1>4. job[j].op = "start"
  <2> SUFFICES ASSUME job[j].op # "start" PROVE FALSE
    OBVIOUS
  <2>1. job[j].nodes = {}
    BY DEF IInv, WorkInv, FoundInv
  <2> QED BY <1>1, <1>2, <2>1
<1>5. PICK C : C = {<<j, a, f[a]>> : a \in B}
  OBVIOUS
<1>6. C \in SUBSET Calls /\ \A c \in C : c[1] = j
  BY <1>3, <1>5 DEF Calls, Targets, JobType
<1>7. \A c \in Calls : call'[c] = IF c \in C THEN "begun" ELSE call[c]
  BY <1>2, <1>3, <1>5, <1>6, OpenType
<1>8. job'[j].op = "start" /\ \A i \in Jobs : i # j => job'[i] = job[i]
  <2>1. job'[j] = [job[j] EXCEPT !.todo = job[j].todo \ B, !.batch = 2 * job[j].batch]
        /\ \A i \in Jobs : i # j => job'[i] = job[i]
    BY <1>1, <1>3 DEF TypeOK
  <2> QED BY <1>3, <1>4, <2>1 DEF JobType
<1>9. job'[j].op \notin QueryOps /\ QueryInv(j)'
  BY <1>8 DEF QueryInv, QueryOps
<1>10. Ages
  BY AgesNextBatch
<1>11. \A c \in Calls : IF c[1] = j THEN job'[j].op \notin QueryOps ELSE call'[c] = call[c]
  BY <1>6, <1>7, <1>9
<1> QED BY <1>3, <1>4, <1>8, <1>9, <1>10, <1>11, FreshBegins

\* A query is sure of what it is about to ask for, unless an answer is under way.
LEMMA FreshBeginQuery ==
  ASSUME IInv, FreshInv, NEW j \in Jobs, NEW o \in QueryOps, BeginQuery(j, o)
  PROVE  FreshInv'
<1>1. PICK ns \in NodeSets :
        /\ LET running == {a \in Apps : Up(a)}
               fit     == {a \in running : life[a] = "available"}
           IN job' = [job EXCEPT ![j] =
                 [NoJob EXCEPT !.op = o, !.verdict = "busy",
                     !.before = IF o = "query_available" THEN fit ELSE running,
                     !.fitBefore = IF o = "query_all" THEN fit ELSE {},
                     !.beyond = {a \in running : at[a] \notin ns},
                     !.crossed = \E n \in ns : /\ out[n] # None
                                               /\ SubjectOf(out[n].from) = Subject(o, <<j, Rev, n>>)]]
        /\ Open({j} \X {Rev} \X ns)
        /\ UNCHANGED <<mode, life, at, out, left>>
  BY DEF BeginQuery
<1>2. PICK running : running = {a \in Apps : Up(a)}
  OBVIOUS
<1>3. PICK fit : fit = {a \in running : life[a] = "available"}
  OBVIOUS
<1>4. PICK before, fitBefore : /\ before = IF o = "query_available" THEN fit ELSE running
                               /\ fitBefore = IF o = "query_all" THEN fit ELSE {}
  OBVIOUS
<1>5. PICK crossed : crossed = \E n \in ns : /\ out[n] # None
                                             /\ SubjectOf(out[n].from) = Subject(o, <<j, Rev, n>>)
  OBVIOUS
<1>6. PICK r : r = [NoJob EXCEPT !.op = o, !.verdict = "busy", !.before = before,
                                 !.fitBefore = fitBefore,
                                 !.beyond = {a \in running : at[a] \notin ns},
                                 !.crossed = crossed]
  OBVIOUS
<1>7. PICK C : C = {j} \X {Rev} \X ns
  OBVIOUS
<1>8. job' = [job EXCEPT ![j] = r] /\ Open(C)
  BY <1>1, <1>2, <1>3, <1>4, <1>5, <1>6, <1>7, Zenon
<1>9. TypeOK /\ job[j].verdict = "idle" /\ ns \in SUBSET Nodes
  BY NodeSetsType DEF IInv, BeginQuery, Begin
<1>10. r.op = o /\ r.before = before /\ r.skipped = {} /\ r.beyond = {a \in running : at[a] \notin ns}
       /\ r.fitBefore = fitBefore /\ r.crossed = crossed
  BY <1>6 DEF NoJob
<1>11. job'[j] = r /\ \A i \in Jobs : i # j => job'[i] = job[i]
  BY <1>8, <1>9 DEF TypeOK
<1>12. /\ C \in SUBSET Calls /\ \A c \in C : c[1] = j /\ c[2] = Rev
       /\ \A n \in ns : <<j, Rev, n>> \in C
  BY <1>7, <1>9 DEF Calls, Targets
<1>13. \A c \in Calls : call'[c] = IF c \in C THEN "begun" ELSE call[c]
  BY <1>8, <1>9, <1>12, OpenType
<1>14. ASSUME ~crossed, NEW a \in before, at[a] \in ns PROVE Sure(j, a)'
  <2>1. /\ a \in Apps /\ Up(a) /\ at[a] \in ns /\ at[a] \in Nodes
        /\ o = "query_available" \/ a \in fitBefore => life[a] = "available"
    BY <1>2, <1>3, <1>4, <1>9, <1>14
  <2>2. at' = at /\ life' = life /\ out' = out
    BY <1>1
  <2>3. Asked(j, a)' = <<j, Rev, at[a]>> /\ call'[<<j, Rev, at[a]>>] = "begun"
    BY <1>12, <1>13, <2>1, <2>2 DEF Asked
  <2>4. Placed(j, a)' /\ Listed(j, a)'
    BY <1>10, <1>11, <2>1, <2>2, <2>3 DEF Placed, Listed, Ran, Up
  <2>5. out[at[a]] # None => SubjectOf(out[at[a]].from)' # SubjectOf(Asked(j, a))'
    <3> SUFFICES ASSUME out[at[a]] # None
                 PROVE  SubjectOf(out[at[a]].from)' # SubjectOf(Asked(j, a))'
      OBVIOUS
    <3>1. PICK x : x = out[at[a]].from
      OBVIOUS
    <3>2. x \in Calls /\ call[x] # "none"
      BY <2>1, <3>1 DEF IInv, AnswerInv, GoodAnswer, TypeOK, ReplyType
    <3>3. x[1] \in Jobs /\ x[1] # j
      BY <1>9, <3>2, CallsOf, NoCalls
    <3>4. SubjectOf(x)' = SubjectOf(x)
      BY <1>11, <3>3 DEF SubjectOf
    <3>5. SubjectOf(x) # Subject(o, <<j, Rev, at[a]>>)
      BY <1>5, <1>14, <2>1, <3>1
    <3>6. SubjectOf(Asked(j, a))' = Subject(o, <<j, Rev, at[a]>>)
      BY <1>10, <1>11, <2>3 DEF SubjectOf
    <3>7. SubjectOf(out[at[a]].from)' = SubjectOf(x)'
      BY <2>2, <3>1 DEF SubjectOf
    <3> QED BY <3>4, <3>5, <3>6, <3>7
  <2>6. Promised(j, a)'
    BY <2>2, <2>5 DEF Promised
  <2> QED BY <2>4, <2>6 DEF Sure
<1>15. QueryInv(j)'
  <2>1. o # "query_all" => fitBefore = {}
    BY <1>4
  <2>2. before \subseteq running
    BY <1>3, <1>4
  <2>3. \A a \in Due(j)' : a \in before /\ at[a] \in ns
    BY <1>10, <1>11, <2>2 DEF Due
  <2> QED BY <1>10, <1>11, <1>14, <2>1, <2>3 DEF QueryInv
<1>16. ASSUME NEW c \in Calls
       PROVE  IF c[1] = j THEN call'[c] # "none" => c[2] = Rev ELSE call'[c] = call[c]
  BY <1>9, <1>12, <1>13, NoCalls
<1>17. Ages
  BY <1>1, AgesUnchanged
<1> QED BY <1>1, <1>9, <1>11, <1>15, <1>16, <1>17, FreshBegins

-----------------------------------------------------------------------------
\* Every step keeps the invariant.
LEMMA NextFresh == IInv /\ FreshInv /\ [Next]_vars => FreshInv'
<1> SUFFICES ASSUME IInv, FreshInv, [Next]_vars PROVE FreshInv'
  OBVIOUS
<1>1. ASSUME NEW j \in Jobs,
             \/ BeginStart(j) \/ BeginStop(j)
             \/ \E o \in QueryOps : BeginQuery(j, o)
             \/ \E o \in CheckOps : BeginCheck(j, o)
             \/ NextBatch(j) \/ Return(j)
      PROVE  FreshInv'
  BY <1>1, FreshBeginOther, FreshBeginQuery, FreshNextBatch, FreshReturn
<1>2. ASSUME NEW c \in Calls,
             \/ Subscribe(c) \/ CallFails(c) \/ Timeout(c)
             \/ LoseCommand(c) \/ Handle(c) \/ Refuse(c)
             \/ DockerCreate(c) \/ DockerStart(c) \/ DockerStop(c) \/ DockerCheck(c)
             \/ DockerList(c) \/ DockerFails(c)
             \/ \E a \in Apps : DockerInspect(c, a) \/ DockerInspectFails(c, a)
      PROVE  FreshInv'
  <2>1. CASE Subscribe(c) \/ CallFails(c) \/ Timeout(c) \/ DockerFails(c)
    BY <2>1, FreshCaller
  <2>2. CASE LoseCommand(c) \/ Refuse(c)
    BY <2>2, FreshRefused
  <2>3. CASE Handle(c)
    BY <2>3, FreshHandle
  <2>4. CASE DockerCreate(c) \/ DockerStart(c) \/ DockerStop(c) \/ DockerCheck(c)
    BY <2>4, FreshDocker
  <2>5. CASE DockerList(c)
    BY <2>5, FreshDockerList
  <2>6. ASSUME NEW a \in Apps, DockerInspect(c, a) \/ DockerInspectFails(c, a) PROVE FreshInv'
    BY <2>6, FreshDockerInspect, FreshInspectFails
  <2> QED BY <1>2, <2>1, <2>2, <2>3, <2>4, <2>5, <2>6
<1>3. ASSUME NEW n \in Nodes, Answer(n) PROVE FreshInv'
  BY <1>3, FreshAnswer
<1>4. ASSUME NEW a \in Apps, BecomesAvailable(a) \/ AppExits(a) PROVE FreshInv'
  BY <1>4, FreshContainer
<1>5. CASE UNCHANGED vars
  <2>1. UNCHANGED <<life, at, job, call, out>>
    BY <1>5 DEF vars
  <2>2. \A i \in Jobs : SameQuery(i)
    BY <2>1 DEF SameQuery, Due
  <2> QED BY <2>1, <2>2, AgesUnchanged, FreshQuiet
<1> QED BY <1>1, <1>2, <1>3, <1>4, <1>5 DEF Next

-----------------------------------------------------------------------------
(* Where containers are, and what a query does not ask *)

\* One operation's record changes, and says the same of nodes.
LEMMA ReachOne ==
  ASSUME TypeOK, NEW j \in Jobs, NEW r, job' = [job EXCEPT ![j] = r],
         r.op = job[j].op, r.nodes = job[j].nodes, r.beyond = job[j].beyond
  PROVE  SameReach
<1> SUFFICES ASSUME NEW i \in Jobs
             PROVE  /\ job'[i].op = job[i].op /\ job'[i].nodes = job[i].nodes
                    /\ job'[i].beyond = job[i].beyond
  BY DEF SameReach
<1>1. job'[i] = IF i = j THEN r ELSE job[i]
  BY DEF TypeOK
<1> QED BY <1>1

\* A step that begins nothing: a container that comes up is one that has been sent to a node.
LEMMA ReachQuiet ==
  ASSUME ReachInv, UNCHANGED <<mode, at>>, SameReach,
         \A c \in Calls : call'[c] # "none" => call[c] # "none",
         \A a \in Apps : Ran(a)' => at[a] \in Home
  PROVE  ReachInv'
<1>1. Home' = Home
  BY DEF Home
<1>2. \A c \in Calls : c[1] \in Jobs
  BY CallsOf
<1> QED BY <1>1, <1>2 DEF ReachInv, SameReach

\* Most of them leave the containers alone.
LEMMA ReachCaller ==
  ASSUME TypeOK, ReachInv, NEW c \in Calls,
         \/ Subscribe(c) \/ CallFails(c) \/ Timeout(c) \/ DockerFails(c)
         \/ LoseCommand(c) \/ Refuse(c)
  PROVE  ReachInv'
<1>1. UNCHANGED <<mode, life, at, job>>
  BY DEF Subscribe, CallFails, Timeout, DockerFails, LoseCommand, Refuse
<1>2. call' = call \/ (call[c] # "none" /\ \E s : call' = [call EXCEPT ![c] = s])
  BY DEF Subscribe, CallFails, Timeout, DockerFails, LoseCommand, Refuse, OverNats
<1>3. \A d \in Calls : call'[d] # "none" => call[d] # "none"
  BY <1>2 DEF TypeOK
<1>4. \A a \in Apps : Ran(a)' => at[a] \in Home
  BY <1>1 DEF ReachInv, Ran
<1> QED BY <1>1, <1>3, <1>4, ReachQuiet DEF SameReach

\* So do those that add to what an operation has.
LEMMA ReachLook ==
  ASSUME TypeOK, ReachInv, NEW c \in Calls,
         \/ DockerCheck(c) \/ DockerList(c)
         \/ \E a \in Apps : DockerInspect(c, a) \/ DockerInspectFails(c, a)
  PROVE  ReachInv'
<1>1. /\ UNCHANGED <<mode, life, at>> /\ c[1] \in Jobs /\ job[c[1]] \in JobType
      /\ call[c] # "none" /\ (call' = call \/ \E s : call' = [call EXCEPT ![c] = s])
  BY CallsOf DEF DockerCheck, DockerList, DockerInspect, DockerInspectFails, AtDocker, TypeOK
<1>2. \E r : /\ job' = [job EXCEPT ![c[1]] = r]
             /\ r.op = job[c[1]].op /\ r.nodes = job[c[1]].nodes /\ r.beyond = job[c[1]].beyond
  <2>1. CASE DockerCheck(c) \/ DockerList(c)
    BY <1>1, <2>1 DEF DockerCheck, DockerList, JobType
  <2>2. ASSUME NEW a \in Apps, DockerInspect(c, a)
        PROVE  \E r : /\ job' = [job EXCEPT ![c[1]] = r]
                      /\ r.op = job[c[1]].op /\ r.nodes = job[c[1]].nodes
                      /\ r.beyond = job[c[1]].beyond
    <3>1. PICK found, fit, r :
            /\ r = [job[c[1]] EXCEPT !.todo = job[c[1]].todo \ {a}, !.found = found, !.fit = fit]
            /\ job' = [job EXCEPT ![c[1]] = r]
      BY <2>2, Zenon DEF DockerInspect
    <3>2. /\ r.op = job[c[1]].op /\ r.nodes = job[c[1]].nodes
          /\ r.beyond = job[c[1]].beyond
      BY <1>1, <3>1 DEF JobType
    <3> QED BY <3>1, <3>2
  <2>3. ASSUME NEW a \in Apps, DockerInspectFails(c, a)
        PROVE  \E r : /\ job' = [job EXCEPT ![c[1]] = r]
                      /\ r.op = job[c[1]].op /\ r.nodes = job[c[1]].nodes
                      /\ r.beyond = job[c[1]].beyond
    BY <1>1, <2>3 DEF DockerInspectFails, JobType
  <2> QED BY <2>1, <2>2, <2>3
<1>3. \A d \in Calls : call'[d] # "none" => call[d] # "none"
  BY <1>1 DEF TypeOK
<1>4. \A a \in Apps : Ran(a)' => at[a] \in Home
  BY <1>1 DEF ReachInv, Ran
<1> QED BY <1>1, <1>2, <1>3, <1>4, ReachOne, ReachQuiet

\* A node answers, an operation returns.
LEMMA ReachAnswer ==
  ASSUME TypeOK, ReachInv, (\E n \in Nodes : Answer(n)) \/ (\E j \in Jobs : Return(j))
  PROVE  ReachInv'
<1>1. UNCHANGED <<mode, life, at>>
  BY DEF Answer, Return
<1>2. \A a \in Apps : Ran(a)' => at[a] \in Home
  BY <1>1 DEF ReachInv, Ran
<1>3. ASSUME NEW n \in Nodes, Answer(n) PROVE ReachInv'
  <2>1. \A d \in Calls : call'[d] # "none" => call[d] # "none"
    BY <1>3 DEF Answer, Hears
  <2>2. ASSUME NEW i \in Jobs
        PROVE  /\ job'[i].op = job[i].op /\ job'[i].nodes = job[i].nodes
               /\ job'[i].beyond = job[i].beyond
    <3>1. job[i] \in JobType
      BY DEF TypeOK
    <3>2. \/ job'[i] = job[i]
          \/ job'[i] = [job[i] EXCEPT !.found = job[i].found \cup out[n].found,
                                      !.fit = job[i].fit \cup out[n].fit]
      BY <1>3 DEF Answer
    <3> QED BY <3>1, <3>2 DEF JobType
  <2> QED BY <1>1, <1>2, <2>1, <2>2, ReachQuiet DEF SameReach
<1>4. ASSUME NEW j \in Jobs, Return(j) PROVE ReachInv'
  <2>1. job[j] \in JobType
    BY DEF TypeOK
  <2>2. \E r : /\ job' = [job EXCEPT ![j] = r]
               /\ r.op = job[j].op /\ r.nodes = job[j].nodes /\ r.beyond = job[j].beyond
    <3>1. PICK v, r : r = [job[j] EXCEPT !.verdict = v] /\ job' = [job EXCEPT ![j] = r]
      BY <1>4, Zenon DEF Return
    <3>2. r.op = job[j].op /\ r.nodes = job[j].nodes /\ r.beyond = job[j].beyond
      BY <2>1, <3>1 DEF JobType
    <3> QED BY <3>1, <3>2
  <2> QED BY <1>1, <1>2, <1>4, <2>2, ReachOne, ReachQuiet DEF Return
<1> QED BY <1>3, <1>4

\* What comes up is a start's, whose goroutine has sent it to a node.
LEMMA ReachLife ==
  ASSUME IInv, ReachInv,
         \/ \E c \in Calls : Handle(c) \/ DockerCreate(c) \/ DockerStart(c) \/ DockerStop(c)
         \/ \E a \in Apps : BecomesAvailable(a) \/ AppExits(a)
  PROVE  ReachInv'
<1>1. TypeOK /\ UNCHANGED <<mode, at, job>>
  BY DEF IInv, Handle, DockerCreate, DockerStart, DockerStop, BecomesAvailable, AppExits
<1>2. ASSUME NEW c \in Calls, Handle(c) \/ DockerCreate(c) \/ DockerStart(c) \/ DockerStop(c)
      PROVE  ReachInv'
  <2>1. call[c] # "none" /\ (call' = call \/ \E s : call' = [call EXCEPT ![c] = s])
    BY <1>2 DEF IInv, CallInv, Handle, DockerCreate, DockerStart, DockerStop, AtDocker
  <2>2. \A d \in Calls : call'[d] # "none" => call[d] # "none"
    BY <1>1, <2>1 DEF TypeOK
  <2>3. ASSUME NEW a \in Apps, Ran(a)' PROVE at[a] \in Home
    <3>1. CASE Ran(a)
      BY <3>1 DEF ReachInv
    <3>2. CASE ~Ran(a)
      <4>1. a = c[2] /\ job[c[1]].op \in {"start", "stop"}
        BY <1>1, <1>2, <2>3, <3>2
           DEF Handle, AfterCommand, DockerCreate, DockerStart, DockerStop, AtDocker, TypeOK, Ran
      <4>2. job[c[1]].op = "start"
        <5>1. job[c[1]].op = "stop" => c[2] \in job[c[1]].apps /\ c[1] \in Jobs
          BY <2>1, CallsOf DEF IInv, TargetInv
        <5> QED BY <3>2, <4>1, <5>1 DEF IInv, WorkInv, StopInv
      <4> QED BY <2>1, <4>1, <4>2 DEF ReachInv
    <3> QED BY <3>1, <3>2
  <2> QED BY <1>1, <2>2, <2>3, ReachQuiet DEF SameReach
<1>3. ASSUME NEW x \in Apps, BecomesAvailable(x) \/ AppExits(x) PROVE ReachInv'
  <2>1. call' = call
    BY <1>3 DEF BecomesAvailable, AppExits
  <2>2. \A a \in Apps : Ran(a)' => Ran(a)
    BY <1>1, <1>3 DEF BecomesAvailable, AppExits, Up, Ran, TypeOK
  <2> QED BY <1>1, <2>1, <2>2, ReachQuiet DEF SameReach, ReachInv
<1> QED BY <1>2, <1>3

\* An operation begins, with no goroutine of a start yet.  Outside DirectStar a query asks
\* every node that a container can be on.
LEMMA ReachBegins ==
  ASSUME IInv, ReachInv, NEW j \in Jobs,
         \/ BeginStart(j) \/ BeginStop(j)
         \/ \E o \in QueryOps : BeginQuery(j, o)
         \/ \E o \in CheckOps : BeginCheck(j, o)
  PROVE  ReachInv'
<1>1. /\ TypeOK /\ UNCHANGED <<mode, at>> /\ job[j].verdict = "idle"
      /\ \A a \in Apps : Ran(a)' => Ran(a)
  BY DEF IInv, TypeOK, BeginStart, BeginStop, BeginQuery, BeginCheck, Begin, Ran
<1>2. \A ns \in NodeSets : ns \subseteq Home /\ (mode # "DirectStar" => Home \subseteq ns)
  BY NodesAssumption, NodeSetsType DEF NodeSets, Home, IInv, TypeOK, AllModes
<1> DEFINE Opens(r) == /\ r.nodes \subseteq Home
                       /\ mode # "DirectStar" => r.beyond = {}
                       /\ r.op = "start" => call' = call
<1>3. \E r : Opens(r) /\ job' = [job EXCEPT ![j] = r]
  <2>1. CASE BeginStart(j)
    BY <1>2, <2>1 DEF BeginStart, NoJob
  <2>2. CASE BeginStop(j) \/ \E o \in CheckOps : BeginCheck(j, o)
    BY <2>2 DEF BeginStop, BeginCheck, NoJob, CheckOps
  <2>3. ASSUME NEW o \in QueryOps, BeginQuery(j, o)
        PROVE  \E r : Opens(r) /\ job' = [job EXCEPT ![j] = r]
    <3>1. PICK ns \in NodeSets : \E r :
            /\ job' = [job EXCEPT ![j] = r] /\ r.op = o /\ r.nodes = {}
            /\ r.beyond = {a \in {b \in Apps : Up(b)} : at[a] \notin ns}
      <4>1. PICK ns \in NodeSets :
              LET running == {a \in Apps : Up(a)}
                  fit     == {a \in running : life[a] = "available"}
              IN job' = [job EXCEPT ![j] =
                    [NoJob EXCEPT !.op = o, !.verdict = "busy",
                        !.before = IF o = "query_available" THEN fit ELSE running,
                        !.fitBefore = IF o = "query_all" THEN fit ELSE {},
                        !.beyond = {a \in running : at[a] \notin ns},
                        !.crossed = \E n \in ns : /\ out[n] # None
                                                  /\ SubjectOf(out[n].from) = Subject(o, <<j, Rev, n>>)]]
        BY <2>3 DEF BeginQuery
      <4>2. PICK before, fitBefore, beyond, crossed, r :
              /\ beyond = {a \in {b \in Apps : Up(b)} : at[a] \notin ns}
              /\ r = [NoJob EXCEPT !.op = o, !.verdict = "busy", !.before = before,
                                   !.fitBefore = fitBefore, !.beyond = beyond, !.crossed = crossed]
              /\ job' = [job EXCEPT ![j] = r]
        BY <4>1, Zenon
      <4>3. /\ r.op = o /\ r.nodes = {}
            /\ r.beyond = {a \in {b \in Apps : Up(b)} : at[a] \notin ns}
        BY <4>2 DEF NoJob
      <4> QED BY <4>2, <4>3
    <3>2. mode # "DirectStar" => {a \in {b \in Apps : Up(b)} : at[a] \notin ns} = {}
      BY <1>2 DEF ReachInv, Up, Ran
    <3> QED BY <3>1, <3>2 DEF QueryOps
  <2> QED BY <2>1, <2>2, <2>3
<1>4. PICK r : Opens(r) /\ job' = [job EXCEPT ![j] = r]
  BY <1>3
<1>5. job'[j] = r /\ \A i \in Jobs : i # j => job'[i] = job[i]
  BY <1>1, <1>4 DEF TypeOK
<1>6. \A c \in Calls : c[1] # j => (call'[c] # "none" => call[c] # "none")
  <2>1. CASE BeginStart(j)
    BY <2>1 DEF BeginStart
  <2>2. CASE \E C : Open(C) /\ \A c \in C : c[1] = j
    BY <2>2 DEF Open
  <2>3. BeginStart(j) \/ \E C : Open(C) /\ \A c \in C : c[1] = j
    <3>1. ASSUME NEW S, NEW ns, Open({j} \X S \X ns)
          PROVE  \E C : Open(C) /\ \A c \in C : c[1] = j
      <4>1. PICK C : C = {j} \X S \X ns
        OBVIOUS
      <4>2. Open(C)
        BY <3>1, <4>1
      <4>3. \A c \in C : c[1] = j
        BY <4>1
      <4> QED BY <4>2, <4>3
    <3>2. ASSUME NEW S, NEW f, Open({<<j, a, f[a]>> : a \in S})
          PROVE  \E C : Open(C) /\ \A c \in C : c[1] = j
      <4>1. PICK C : C = {<<j, a, f[a]>> : a \in S}
        OBVIOUS
      <4>2. Open(C)
        BY <3>2, <4>1
      <4>3. \A c \in C : c[1] = j
        BY <4>1
      <4> QED BY <4>2, <4>3
    <3>3. CASE BeginStop(j) \/ \E o \in QueryOps : BeginQuery(j, o)
      BY <3>1, <3>3, Zenon DEF BeginStop, BeginQuery
    <3>4. CASE \E o \in CheckOps : BeginCheck(j, o)
      <4>1. PICK S :
              CASE mode = "IndirectStar" -> Open({j} \X S \X Nodes)
                [] mode = "DirectStar"   -> \E f \in [S -> Nodes] : Open({<<j, a, f[a]>> : a \in S})
                [] OTHER                 -> \E T \in {S, {}} : Open({j} \X T \X {Local})
        BY <3>4 DEF BeginCheck
      <4>2. \/ Open({j} \X S \X Nodes)
            \/ \E f \in [S -> Nodes] : Open({<<j, a, f[a]>> : a \in S})
            \/ \E T \in {S, {}} : Open({j} \X T \X {Local})
        BY <4>1
      <4> QED BY <3>1, <3>2, <4>2, Zenon
    <3> QED BY <3>3, <3>4
  <2> QED BY <2>1, <2>2, <2>3
<1>7. \A c \in Calls : call'[c] # "none" /\ job'[c[1]].op = "start"
                        => call[c] # "none" /\ c[1] # j
  <2> SUFFICES ASSUME NEW c \in Calls, call'[c] # "none", job'[c[1]].op = "start"
               PROVE  call[c] # "none" /\ c[1] # j
    OBVIOUS
  <2>1. CASE c[1] = j
    <3>1. call'[c] = call[c]
      BY <1>4, <1>5, <2>1
    <3> QED BY <1>1, <2>1, <3>1, NoCalls
  <2>2. CASE c[1] # j
    BY <1>6, <2>2
  <2> QED BY <2>1, <2>2
<1>8. Home' = Home
  BY <1>1 DEF Home
<1>9. \A c \in Calls : call'[c] # "none" /\ job'[c[1]].op = "start" => at'[c[2]] \in Home
  <2> SUFFICES ASSUME NEW c \in Calls, call'[c] # "none", job'[c[1]].op = "start"
               PROVE  at'[c[2]] \in Home
    OBVIOUS
  <2>1. call[c] # "none" /\ c[1] # j /\ c[1] \in Jobs
    BY <1>7, CallsOf
  <2>2. job[c[1]].op = "start"
    BY <1>5, <2>1
  <2> QED BY <1>1, <2>1, <2>2 DEF ReachInv
<1>10. \A i \in Jobs : job'[i].nodes \subseteq Home /\ (mode # "DirectStar" => job'[i].beyond = {})
  BY <1>4, <1>5 DEF ReachInv
<1>11. \A a \in Apps : Ran(a)' => at'[a] \in Home
  BY <1>1 DEF ReachInv
<1> QED BY <1>1, <1>8, <1>9, <1>10, <1>11 DEF ReachInv

\* A batch sends what it starts to nodes of its own.
LEMMA ReachNextBatch == ASSUME IInv, ReachInv, NEW j \in Jobs, NextBatch(j) PROVE ReachInv'
<1>1. PICK B \in SUBSET job[j].todo :
        /\ \E f \in [B -> job[j].nodes] :
              /\ Open({<<j, a, f[a]>> : a \in B})
              /\ at' = [a \in Apps |-> IF a \in B THEN f[a] ELSE at[a]]
        /\ job' = [job EXCEPT ![j] = [job[j] EXCEPT !.todo = job[j].todo \ B,
                                                    !.batch = 2 * job[j].batch]]
  BY DEF NextBatch
<1>2. PICK f \in [B -> job[j].nodes] :
        /\ Open({<<j, a, f[a]>> : a \in B})
        /\ at' = [a \in Apps |-> IF a \in B THEN f[a] ELSE at[a]]
  BY <1>1
<1>3. TypeOK /\ job[j] \in JobType /\ UNCHANGED <<mode, life>>
  BY DEF IInv, TypeOK, NextBatch
<1>4. SameReach
  <2>1. \E r : /\ job' = [job EXCEPT ![j] = r]
               /\ r.op = job[j].op /\ r.nodes = job[j].nodes /\ r.beyond = job[j].beyond
    <3>1. PICK r : /\ r = [job[j] EXCEPT !.todo = job[j].todo \ B, !.batch = 2 * job[j].batch]
                  /\ job' = [job EXCEPT ![j] = r]
      BY <1>1
    <3>2. r.op = job[j].op /\ r.nodes = job[j].nodes /\ r.beyond = job[j].beyond
      BY <1>3, <3>1 DEF JobType
    <3> QED BY <3>1, <3>2
  <2> QED BY <1>3, <2>1, ReachOne
<1>5. Home' = Home /\ B \subseteq Apps /\ \A a \in B : f[a] \in Home
  BY <1>3 DEF Home, ReachInv, JobType
<1>6. \A a \in Apps : at[a] \in Home \/ a \in B => at'[a] \in Home
  BY <1>2, <1>5
<1>7. ASSUME NEW c \in Calls, call'[c] # "none", job'[c[1]].op = "start" PROVE at'[c[2]] \in Home
  <2>1. CASE call[c] # "none"
    <3>1. c[2] \in Apps /\ at[c[2]] \in Home
      BY <1>3, <1>4, <1>7, <2>1, CallsOf DEF ReachInv, SameReach, IInv, TargetInv, TypeOK, JobType
    <3> QED BY <1>6, <3>1
  <2>2. CASE call[c] = "none"
    <3>1. c[2] \in B
      BY <1>2, <1>7, <2>2 DEF Open
    <3> QED BY <1>5, <1>6, <3>1
  <2> QED BY <2>1, <2>2
<1>8. \A a \in Apps : Ran(a)' => at'[a] \in Home
  BY <1>3, <1>6 DEF ReachInv, Ran
<1> QED BY <1>3, <1>4, <1>5, <1>7, <1>8 DEF ReachInv, SameReach

\* Every step keeps it.
LEMMA NextReach == IInv /\ ReachInv /\ [Next]_vars => ReachInv'
<1> SUFFICES ASSUME IInv, ReachInv, [Next]_vars PROVE ReachInv'
  OBVIOUS
<1>1. TypeOK
  BY DEF IInv
<1>2. ASSUME NEW j \in Jobs,
             \/ BeginStart(j) \/ BeginStop(j)
             \/ \E o \in QueryOps : BeginQuery(j, o)
             \/ \E o \in CheckOps : BeginCheck(j, o)
             \/ NextBatch(j) \/ Return(j)
      PROVE  ReachInv'
  BY <1>1, <1>2, ReachBegins, ReachNextBatch, ReachAnswer
<1>3. ASSUME NEW c \in Calls,
             \/ Subscribe(c) \/ CallFails(c) \/ Timeout(c)
             \/ LoseCommand(c) \/ Handle(c) \/ Refuse(c)
             \/ DockerCreate(c) \/ DockerStart(c) \/ DockerStop(c) \/ DockerCheck(c)
             \/ DockerList(c) \/ DockerFails(c)
             \/ \E a \in Apps : DockerInspect(c, a) \/ DockerInspectFails(c, a)
      PROVE  ReachInv'
  BY <1>1, <1>3, ReachCaller, ReachLife, ReachLook
<1>4. ASSUME NEW n \in Nodes, Answer(n) PROVE ReachInv'
  BY <1>1, <1>4, ReachAnswer
<1>5. ASSUME NEW a \in Apps, BecomesAvailable(a) \/ AppExits(a) PROVE ReachInv'
  BY <1>5, ReachLife
<1>6. CASE UNCHANGED vars
  BY <1>6 DEF vars, ReachInv, Home, Ran
<1> QED BY <1>2, <1>3, <1>4, <1>5, <1>6 DEF Next

-----------------------------------------------------------------------------
\* A query that succeeds, with no call of it failed and no answer to an earlier query of
\* its subject about to be published when it began, lists every container that ran when it
\* began and still does: on whatever node, but in DirectStar on the one node it asks, and
\* but for what a query for health or availability could not inspect.
THEOREM FreshListingHolds == Spec => []FreshListing
<1>1. Init => IInv /\ FreshInv /\ ReachInv
  BY InitInv, InitFresh
<1>2. IInv /\ FreshInv /\ ReachInv /\ [Next]_vars => (IInv /\ FreshInv /\ ReachInv)'
  BY NextInv, NextFresh, NextReach
<1>3. IInv /\ FreshInv /\ ReachInv => FreshListing
  BY FreshEnough
<1> QED BY <1>1, <1>2, <1>3, PTL DEF Spec
=============================================================================
