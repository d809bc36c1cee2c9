------------------------- MODULE NodeAgents_proofs -------------------------
(***************************************************************************)
(* The app operations are well-typed and keep their callers' contract, for *)
(* any sets of nodes, containers and operations, and any number of         *)
(* failures.                                                               *)
(***************************************************************************)
EXTENDS NodeAgents, FiniteSetTheorems, TLAPS

-----------------------------------------------------------------------------
(* Types *)

\* One operation's record changes.
LEMMA OneJob ==
  ASSUME TypeOK, NEW j \in Jobs, NEW r \in JobType, job' = [job EXCEPT ![j] = r]
  PROVE  /\ job' \in [Jobs -> JobType] /\ job'[j] = r
         /\ \A i \in Jobs : i # j => job'[i] = job[i]
BY DEF TypeOK

\* A goroutine that ends or goes on does so for an operation that waits for it.
LEMMA StillFinished ==
  ASSUME TypeOK,
         \A i \in Jobs : job'[i].verdict \in {"ok", "err"} => job[i].verdict \in {"ok", "err"},
         \A c \in Calls : call'[c] # call[c]
                          => \/ call[c] \notin {"none", "ok", "failed"}
                             \/ job'[c[1]].verdict = "busy"
  PROVE  (\A i \in Jobs : job[i].verdict \in {"ok", "err"} => Finished(i))'
<1> SUFFICES ASSUME NEW i \in Jobs, job'[i].verdict \in {"ok", "err"},
                    NEW c \in Calls, c[1] = i, call'[c] # "none"
             PROVE  call'[c] \in {"ok", "failed"}
  BY DEF Finished, Of
<1>1. Finished(i)
  BY DEF TypeOK
<1>2. CASE call'[c] = call[c]
  BY <1>1, <1>2 DEF Finished, Of
<1>3. CASE call'[c] # call[c]
  <2>1. call[c] \notin {"none", "ok", "failed"}
    BY <1>3
  <2> QED BY <1>1, <1>3, <2>1 DEF Finished, Of
<1> QED BY <1>2, <1>3

\* The goroutines that begin.
LEMMA OpenType ==
  ASSUME TypeOK, NEW C \in SUBSET Calls, Open(C)
  PROVE  /\ call' \in [Calls -> CallStates] /\ sent' \in SUBSET Calls
         /\ \A c \in Calls : call'[c] = IF c \in C THEN "begun" ELSE call[c]
BY DEF Open, TypeOK, CallStates

\* An empty record of an operation.
LEMMA NoJobType == NoJob \in JobType
BY DEF NoJob, JobType

\* Names come from Apps, nodes from Nodes.
LEMMA CallsOf ==
  ASSUME NEW c \in Calls
  PROVE  c[1] \in Jobs /\ c[2] \in Targets /\ c[3] \in Nodes /\ c = <<c[1], c[2], c[3]>>
BY DEF Calls

\* Nodes that are picked are nodes.
LEMMA NodeSetsType == \A ns \in NodeSets : ns \in SUBSET Nodes
BY NodesAssumption DEF NodeSets

\* Nothing has begun.
LEMMA InitType == Init => TypeOK
<1> SUFFICES ASSUME Init PROVE TypeOK
  OBVIOUS
<1>1. mode \in AllModes /\ left \in Nat
  BY NodesAssumption DEF Init
<1>2. job \in [Jobs -> JobType] /\ \A j \in Jobs : job[j].verdict = "idle"
  BY NoJobType DEF Init, NoJob
<1> QED BY <1>1, <1>2 DEF Init, TypeOK, Lives, CallStates

\* A start has its names before it has goroutines.
LEMMA TypeBeginStart == ASSUME TypeOK, NEW j \in Jobs, BeginStart(j) PROVE TypeOK'
<1>1. PICK S \in SUBSET {a \in Apps : life[a] = "unused"}, ns \in NodeSets :
        /\ job' = [job EXCEPT ![j] = [NoJob EXCEPT !.op = "start", !.verdict = "busy", !.apps = S,
                                                   !.todo = S, !.batch = 1, !.nodes = ns]]
        /\ life' = [a \in Apps |-> IF a \in S THEN "named" ELSE life[a]]
        /\ UNCHANGED <<mode, at, call, sent, out, left>>
  BY DEF BeginStart
<1> DEFINE r == [NoJob EXCEPT !.op = "start", !.verdict = "busy", !.apps = S,
                              !.todo = S, !.batch = 1, !.nodes = ns]
<1>2. r \in JobType /\ r.verdict = "busy"
  BY NodeSetsType DEF NoJob, JobType, AllOps
<1>3. job' = [job EXCEPT ![j] = r]
  BY <1>1
<1> HIDE DEF r
<1>4. /\ job' \in [Jobs -> JobType] /\ job'[j].verdict = "busy"
      /\ \A i \in Jobs : i # j => job'[i] = job[i]
  BY <1>2, <1>3, OneJob
<1>5. (\A i \in Jobs : job[i].verdict \in {"ok", "err"} => Finished(i))'
  BY <1>1, <1>4, StillFinished
<1> QED BY <1>1, <1>4, <1>5 DEF TypeOK, Lives

\* The next batch belongs to an operation that is busy.
LEMMA TypeNextBatch == ASSUME TypeOK, NEW j \in Jobs, NextBatch(j) PROVE TypeOK'
<1>1. PICK B \in SUBSET job[j].todo :
        /\ \E f \in [B -> job[j].nodes] :
              /\ Open({<<j, a, f[a]>> : a \in B})
              /\ at' = [a \in Apps |-> IF a \in B THEN f[a] ELSE at[a]]
        /\ job' = [job EXCEPT ![j] = [job[j] EXCEPT !.todo = job[j].todo \ B,
                                                    !.batch = 2 * job[j].batch]]
  BY DEF NextBatch
<1>2. PICK f \in [B -> job[j].nodes] :
        /\ Open({<<j, a, f[a]>> : a \in B})
        /\ at' = [a \in Apps |-> IF a \in B THEN f[a] ELSE at[a]]
  BY <1>1
<1> DEFINE C == {<<j, a, f[a]>> : a \in B}
           r == [job[j] EXCEPT !.todo = job[j].todo \ B, !.batch = 2 * job[j].batch]
<1>3. job[j] \in JobType /\ job[j].todo \in SUBSET Apps /\ job[j].nodes \in SUBSET Nodes
      /\ job[j].batch \in Nat /\ job[j].verdict = "busy"
  BY DEF TypeOK, JobType, NextBatch
<1>4. 2 * job[j].batch \in Nat
  BY <1>3
<1>5. r \in JobType /\ r.verdict = "busy"
  BY <1>3, <1>4 DEF JobType
<1>6. C \in SUBSET Calls
  BY <1>3 DEF Calls, Targets
<1>7. at' \in [Apps -> Nodes \cup {None}]
  BY <1>2, <1>3 DEF TypeOK
<1>8. job' = [job EXCEPT ![j] = r] /\ Open(C)
  BY <1>1, <1>2
<1> HIDE DEF r, C
<1>9. /\ job' \in [Jobs -> JobType] /\ job'[j].verdict = "busy"
      /\ \A i \in Jobs : i # j => job'[i] = job[i]
  BY <1>5, <1>8, OneJob
<1>10. /\ call' \in [Calls -> CallStates] /\ sent' \in SUBSET Calls
       /\ \A c \in Calls : call'[c] = IF c \in C THEN "begun" ELSE call[c]
  BY <1>6, <1>8, OpenType
<1>11. \A c \in C : c[1] = j
  BY DEF C
<1>12. (\A i \in Jobs : job[i].verdict \in {"ok", "err"} => Finished(i))'
  <2>1. \A i \in Jobs : job'[i].verdict \in {"ok", "err"} => job[i].verdict \in {"ok", "err"}
    BY <1>9
  <2>2. \A c \in Calls : call'[c] # call[c] => job'[c[1]].verdict = "busy"
    BY <1>9, <1>10, <1>11
  <2> QED BY <2>1, <2>2, StillFinished
<1> QED BY <1>7, <1>9, <1>10, <1>12 DEF TypeOK, NextBatch

\* An operation that begins with its goroutines.
LEMMA TypeBegun ==
  ASSUME TypeOK, NEW j \in Jobs, NEW r \in JobType, r.verdict = "busy",
         job' = [job EXCEPT ![j] = r], NEW C \in SUBSET Calls, \A c \in C : c[1] = j, Open(C),
         UNCHANGED <<mode, life, at, out, left>>
  PROVE  TypeOK'
<1>1. /\ job' \in [Jobs -> JobType] /\ job'[j].verdict = "busy"
      /\ \A i \in Jobs : i # j => job'[i] = job[i]
  BY OneJob
<1>2. /\ call' \in [Calls -> CallStates] /\ sent' \in SUBSET Calls
      /\ \A c \in Calls : call'[c] = IF c \in C THEN "begun" ELSE call[c]
  BY OpenType
<1>3. (\A i \in Jobs : job[i].verdict \in {"ok", "err"} => Finished(i))'
  BY <1>1, <1>2, StillFinished
<1> QED BY <1>1, <1>2, <1>3 DEF TypeOK

\* A stop begins with all its goroutines.
LEMMA TypeBeginStop == ASSUME TypeOK, NEW j \in Jobs, BeginStop(j) PROVE TypeOK'
<1>1. PICK S \in SUBSET {a \in Apps : Ran(a)}, more \in {0, 1}, ns \in NodeSets :
        /\ job' = [job EXCEPT ![j] = [NoJob EXCEPT !.op = "stop", !.verdict = "busy", !.apps = S,
                                                   !.asked = Cardinality(S) + more]]
        /\ Open({j} \X S \X ns)
        /\ UNCHANGED <<mode, life, at, out, left>>
  BY DEF BeginStop
<1> DEFINE n == Cardinality(S) + more
           C == {j} \X S \X ns
           r == [NoJob EXCEPT !.op = "stop", !.verdict = "busy", !.apps = S, !.asked = n]
<1>2. n \in Nat
  <2>1. IsFiniteSet(S)
    BY NodesAssumption, FS_Subset
  <2> QED BY <2>1, FS_CardinalityType
<1> HIDE DEF n
<1>3. r \in JobType /\ r.verdict = "busy"
  BY <1>2 DEF NoJob, JobType, AllOps
<1>4. C \in SUBSET Calls /\ \A c \in C : c[1] = j
  BY NodeSetsType DEF Calls, Targets
<1>5. job' = [job EXCEPT ![j] = r] /\ Open(C)
  BY <1>1 DEF n
<1> HIDE DEF r, C
<1> QED BY <1>1, <1>3, <1>4, <1>5, TypeBegun

\* So does a query.
LEMMA TypeBeginQuery ==
  ASSUME TypeOK, NEW j \in Jobs, NEW o \in QueryOps, BeginQuery(j, o) PROVE TypeOK'
<1>1. PICK ns \in NodeSets :
        /\ LET running == {a \in Apps : Up(a)}
               fit     == {a \in running : life[a] = "available"}
           IN job' = [job EXCEPT ![j] =
                 [NoJob EXCEPT !.op = o, !.verdict = "busy",
                     !.before = IF o = "query_available" THEN fit ELSE running,
                     !.fitBefore = IF o = "query_all" THEN fit ELSE {},
                     !.beyond = {a \in running : at[a] \notin ns},
                     !.crossed = \E n \in ns : /\ out[n] # None
                                               /\ SubjectOf(out[n].from) = Subject(o, <<j, Rev, n>>)]]
        /\ Open({j} \X {Rev} \X ns)
        /\ UNCHANGED <<mode, life, at, out, left>>
  BY DEF BeginQuery
<1> DEFINE running == {a \in Apps : Up(a)}
           fit == {a \in running : life[a] = "available"}
           before == IF o = "query_available" THEN fit ELSE running
           fitBefore == IF o = "query_all" THEN fit ELSE {}
           beyond == {a \in running : at[a] \notin ns}
           crossed == \E n \in ns : /\ out[n] # None
                                    /\ SubjectOf(out[n].from) = Subject(o, <<j, Rev, n>>)
           r == [NoJob EXCEPT !.op = o, !.verdict = "busy", !.before = before,
                              !.fitBefore = fitBefore, !.beyond = beyond, !.crossed = crossed]
           C == {j} \X {Rev} \X ns
<1>2. /\ before \in SUBSET Apps /\ fitBefore \in SUBSET Apps
      /\ beyond \in SUBSET Apps /\ crossed \in BOOLEAN
  OBVIOUS
<1>3. job' = [job EXCEPT ![j] = r] /\ Open(C)
  BY <1>1
<1> HIDE DEF before, fitBefore, beyond, crossed
<1>4. r \in JobType /\ r.verdict = "busy"
  BY <1>2 DEF NoJob, JobType, AllOps
<1>5. C \in SUBSET Calls /\ \A c \in C : c[1] = j
  BY NodeSetsType DEF Calls, Targets
<1> HIDE DEF r, C
<1> QED BY <1>1, <1>3, <1>4, <1>5, TypeBegun

\* And a check.
LEMMA TypeBeginCheck ==
  ASSUME TypeOK, NEW j \in Jobs, NEW o \in CheckOps, BeginCheck(j, o) PROVE TypeOK'
<1>1. PICK S \in SUBSET {a \in Apps : Ran(a)} :
        /\ job' = [job EXCEPT ![j] = [NoJob EXCEPT !.op = o, !.verdict = "busy", !.apps = S]]
        /\ CASE mode = "IndirectStar" -> Open({j} \X S \X Nodes)
             [] mode = "DirectStar"   -> \E f \in [S -> Nodes] : Open({<<j, a, f[a]>> : a \in S})
             [] OTHER                 -> \E T \in {S, {}} : Open({j} \X T \X {Local})
        /\ UNCHANGED <<mode, life, at, out, left>>
  BY DEF BeginCheck
<1>2. PICK C \in SUBSET Calls : Open(C) /\ \A c \in C : c[1] = j
  <2>1. CASE mode = "IndirectStar"
    <3>1. {j} \X S \X Nodes \in SUBSET Calls
      BY DEF Calls, Targets
    <3> QED BY <1>1, <2>1, <3>1
  <2>2. CASE mode = "DirectStar"
    <3>1. PICK f \in [S -> Nodes] : Open({<<j, a, f[a]>> : a \in S})
      BY <1>1, <2>2
    <3>2. {<<j, a, f[a]>> : a \in S} \in SUBSET Calls
      BY DEF Calls, Targets
    <3> QED BY <3>1, <3>2
  <2>3. CASE mode \notin {"IndirectStar", "DirectStar"}
    <3>1. PICK T \in {S, {}} : Open({j} \X T \X {Local})
      BY <1>1, <2>3
    <3>2. {j} \X T \X {Local} \in SUBSET Calls
      BY NodesAssumption DEF Calls, Targets
    <3> QED BY <3>1, <3>2
  <2> QED BY <2>1, <2>2, <2>3
<1> DEFINE r == [NoJob EXCEPT !.op = o, !.verdict = "busy", !.apps = S]
<1>3. r \in JobType /\ r.verdict = "busy"
  BY DEF NoJob, JobType, AllOps
<1>4. job' = [job EXCEPT ![j] = r]
  BY <1>1
<1> HIDE DEF r
<1> QED BY <1>1, <1>2, <1>3, <1>4, TypeBegun

\* An operation returns when its goroutines are done.
LEMMA TypeReturn == ASSUME TypeOK, NEW j \in Jobs, Return(j) PROVE TypeOK'
<1> DEFINE verdict == IF Succeeds(j) THEN "ok" ELSE "err"
           r == [job[j] EXCEPT !.verdict = verdict]
<1>1. job[j] \in JobType /\ Finished(j)
  BY DEF TypeOK, Return
<1>2. r \in JobType
  BY <1>1 DEF JobType
<1>3. job' = [job EXCEPT ![j] = r]
  BY DEF Return
<1> HIDE DEF r
<1>4. job' \in [Jobs -> JobType] /\ \A i \in Jobs : i # j => job'[i] = job[i]
  BY <1>2, <1>3, OneJob
<1>5. UNCHANGED <<mode, life, at, call, sent, out, left>>
  BY DEF Return
<1>6. (\A i \in Jobs : job[i].verdict \in {"ok", "err"} => Finished(i))'
  BY <1>1, <1>4, <1>5 DEF TypeOK, Finished, Of
<1> QED BY <1>4, <1>5, <1>6 DEF TypeOK

\* A call that is not over changes its state, and no operation is the wiser.
LEMMA TypeCall ==
  ASSUME TypeOK, NEW c \in Calls, call[c] \notin {"none", "ok", "failed"},
         NEW state \in CallStates, call' = [call EXCEPT ![c] = state], UNCHANGED job
  PROVE  /\ call' \in [Calls -> CallStates]
         /\ (\A i \in Jobs : job[i].verdict \in {"ok", "err"} => Finished(i))'
<1>1. call' \in [Calls -> CallStates] /\ \A d \in Calls : d # c => call'[d] = call[d]
  BY DEF TypeOK
<1>2. (\A i \in Jobs : job[i].verdict \in {"ok", "err"} => Finished(i))'
  BY <1>1, StillFinished
<1> QED BY <1>1, <1>2

\* The caller's side of a call of a node agent.
LEMMA TypeCaller ==
  ASSUME TypeOK, NEW c \in Calls, Subscribe(c) \/ CallFails(c) \/ Timeout(c)
  PROVE  TypeOK'
<1>1. CASE Subscribe(c)
  <2>1. /\ call[c] = "begun" /\ call' = [call EXCEPT ![c] = "waiting"]
        /\ UNCHANGED <<mode, life, at, job, sent, out, left>>
    BY <1>1 DEF Subscribe, OverNats
  <2> QED BY <2>1, TypeCall DEF TypeOK, CallStates
<1>2. CASE CallFails(c)
  <2>1. /\ call[c] = "begun" /\ call' = [call EXCEPT ![c] = "failed"]
        /\ sent' \in {sent, sent \ {c}} /\ left > 0 /\ left' = left - 1
        /\ UNCHANGED <<mode, life, at, job, out>>
    BY <1>2 DEF CallFails, OverNats, Spend
  <2> QED
    <3>1. left' \in Nat
      BY <2>1 DEF TypeOK
    <3>2. sent' \in SUBSET Calls
      BY <2>1 DEF TypeOK
    <3> QED BY <2>1, <3>1, <3>2, TypeCall DEF TypeOK, CallStates
<1>3. CASE Timeout(c)
  <2>1. /\ call[c] = "waiting" /\ call' = [call EXCEPT ![c] = "failed"]
        /\ UNCHANGED <<mode, life, at, job, sent, out, left>>
    BY <1>3 DEF Timeout
  <2> QED BY <2>1, TypeCall DEF TypeOK, CallStates
<1> QED BY <1>1, <1>2, <1>3

\* While calls and operations stay as they are, so does what they wait for.
LEMMA FinishedSame ==
  ASSUME TypeOK, UNCHANGED <<job, call>>
  PROVE  (\A i \in Jobs : job[i].verdict \in {"ok", "err"} => Finished(i))'
BY DEF TypeOK, Finished, Of

\* What an agent says is an answer.
LEMMA NamedType == \A c : Named(c) \in SUBSET Apps
<1> SUFFICES ASSUME NEW c PROVE Named(c) \in SUBSET Apps
  OBVIOUS
<1> QED BY DEF Named, Here, QueryOps, CheckOps

\* The agents' side of it.
LEMMA TypeAgent ==
  ASSUME TypeOK, NEW c \in Calls, LoseCommand(c) \/ Handle(c) \/ Refuse(c)
  PROVE  TypeOK'
<1>1. CASE LoseCommand(c)
  BY <1>1, FinishedSame DEF LoseCommand, Spend, TypeOK
<1>2. CASE Handle(c)
  <2> DEFINE found == Named(c)
             fit == {a \in Named(c) : life[a] = "available"}
             r == [from |-> c, ok |-> Known(c), found |-> found, fit |-> fit]
  <2>1. found \in SUBSET Apps /\ fit \in SUBSET Apps
    BY NamedType
  <2>2. Known(c) \in BOOLEAN
    BY DEF Known
  <2> HIDE DEF found, fit
  <2>3. r \in ReplyType
    BY <2>1, <2>2 DEF ReplyType
  <2>4. /\ out' = [out EXCEPT ![c[3]] = r] /\ sent' = sent \ {c} /\ life' = AfterCommand(c)
        /\ UNCHANGED <<mode, at, job, call, left>>
    BY <1>2 DEF Handle, found, fit
  <2>5. life' \in [Apps -> Lives]
    BY <2>4 DEF AfterCommand, TypeOK, Lives
  <2> HIDE DEF r
  <2>6. out' \in [Nodes -> ReplyType \cup {None}]
    BY <2>3, <2>4 DEF TypeOK
  <2> QED BY <2>4, <2>5, <2>6, FinishedSame DEF TypeOK
<1>3. CASE Refuse(c)
  <2> DEFINE r == [from |-> c, ok |-> FALSE, found |-> {}, fit |-> {}]
  <2>1. FALSE \in BOOLEAN
    OBVIOUS
  <2>2. r \in ReplyType
    BY <2>1 DEF ReplyType
  <2>3. /\ out' = [out EXCEPT ![c[3]] = r] /\ sent' = sent \ {c}
        /\ left > 0 /\ left' = left - 1
        /\ UNCHANGED <<mode, life, at, job, call>>
    BY <1>3 DEF Refuse, Spend
  <2> HIDE DEF r
  <2>4. out' \in [Nodes -> ReplyType \cup {None}]
    BY <2>2, <2>3 DEF TypeOK
  <2> QED BY <2>3, <2>4, FinishedSame DEF TypeOK
<1> QED BY <1>1, <1>2, <1>3

\* An answer goes to goroutines that wait for one.
LEMMA TypeAnswer == ASSUME TypeOK, NEW n \in Nodes, Answer(n) PROVE TypeOK'
<1> DEFINE r == out[n]
           Told == {c \in Calls : Hears(c, r)}
<1>1. /\ r # None
      /\ call' = [c \in Calls |-> IF c \notin Told THEN call[c]
                                  ELSE IF r.ok THEN "ok" ELSE "failed"]
      /\ job' = [j \in Jobs |->
                   IF r.ok /\ (\E c \in Told : c[1] = j)
                   THEN [job[j] EXCEPT !.found = job[j].found \cup r.found,
                                       !.fit = job[j].fit \cup r.fit]
                   ELSE job[j]]
      /\ out' = [out EXCEPT ![n] = None]
      /\ UNCHANGED <<mode, life, at, sent, left>>
  BY DEF Answer
<1>2. r \in ReplyType
  BY <1>1 DEF TypeOK
<1>3. \A c \in Told : call[c] = "waiting"
  BY DEF Hears
<1> HIDE DEF r, Told
<1>4. job' \in [Jobs -> JobType] /\ \A i \in Jobs : job'[i].verdict = job[i].verdict
  <2> SUFFICES ASSUME NEW i \in Jobs PROVE job'[i] \in JobType /\ job'[i].verdict = job[i].verdict
    BY <1>1
  <2>1. job[i] \in JobType /\ r.found \in SUBSET Apps /\ r.fit \in SUBSET Apps
    BY <1>2 DEF TypeOK, ReplyType
  <2>2. CASE r.ok /\ \E c \in Told : c[1] = i
    <3>1. PICK o, f, g : o = job[i] /\ f = o.found \cup r.found /\ g = o.fit \cup r.fit
      OBVIOUS
    <3>2. job'[i] = [o EXCEPT !.found = f, !.fit = g]
      BY <1>1, <2>2, <3>1
    <3>3. o \in JobType /\ f \in SUBSET Apps /\ g \in SUBSET Apps
      BY <2>1, <3>1 DEF JobType
    <3>4. PICK q : q = [o EXCEPT !.found = f]
      OBVIOUS
    <3>5. q \in JobType /\ q.verdict = o.verdict
      BY <3>3, <3>4 DEF JobType
    <3>6. job'[i] = [q EXCEPT !.fit = g]
      BY <3>2, <3>4
    <3> QED BY <3>1, <3>3, <3>5, <3>6 DEF JobType
  <2>3. CASE ~(r.ok /\ \E c \in Told : c[1] = i)
    <3>1. job'[i] = job[i]
      BY <1>1, <2>3
    <3> QED BY <2>1, <3>1
  <2> QED BY <2>2, <2>3
<1>5. call' \in [Calls -> CallStates]
  BY <1>1 DEF TypeOK, CallStates
<1>6. (\A i \in Jobs : job[i].verdict \in {"ok", "err"} => Finished(i))'
  BY <1>1, <1>3, <1>4, StillFinished
<1>7. out' \in [Nodes -> ReplyType \cup {None}]
  BY <1>1 DEF TypeOK
<1> QED BY <1>1, <1>4, <1>5, <1>6, <1>7 DEF TypeOK

\* A call of the docker daemon changes its state and, for a query, what was found.
LEMMA TypeDockerCall ==
  ASSUME TypeOK, NEW c \in Calls, call[c] \notin {"none", "ok", "failed"},
         NEW state \in CallStates, call' = [call EXCEPT ![c] = state],
         NEW r \in JobType, r.verdict = job[c[1]].verdict, job' = [job EXCEPT ![c[1]] = r],
         UNCHANGED <<mode, life, at, sent, out>>, left' \in Nat
  PROVE  TypeOK'
<1>1. c[1] \in Jobs
  BY CallsOf
<1>2. /\ job' \in [Jobs -> JobType] /\ \A i \in Jobs : job'[i].verdict = job[i].verdict
  BY <1>1, OneJob
<1>3. call' \in [Calls -> CallStates] /\ \A d \in Calls : d # c => call'[d] = call[d]
  BY DEF TypeOK
<1>4. (\A i \in Jobs : job[i].verdict \in {"ok", "err"} => Finished(i))'
  BY <1>2, <1>3, StillFinished
<1> QED BY <1>2, <1>3, <1>4 DEF TypeOK

\* Starts and stops at the docker daemon, and the calls it fails.
LEMMA TypeDockerLife ==
  ASSUME TypeOK, NEW c \in Calls,
         DockerCreate(c) \/ DockerStart(c) \/ DockerStop(c) \/ DockerFails(c)
  PROVE  TypeOK'
<1>1. CASE DockerCreate(c)
  <2>1. /\ call[c] = "begun" /\ call' = [call EXCEPT ![c] = "created"]
        /\ life' = [life EXCEPT ![c[2]] = "created"]
        /\ UNCHANGED <<mode, at, job, sent, out, left>>
    BY <1>1 DEF DockerCreate, AtDocker
  <2>2. life' \in [Apps -> Lives]
    BY <2>1 DEF TypeOK, Lives
  <2> QED BY <2>1, <2>2, TypeCall DEF TypeOK, CallStates
<1>2. CASE DockerStart(c)
  <2>1. /\ call[c] = "created" /\ call' = [call EXCEPT ![c] = "ok"]
        /\ life' = [life EXCEPT ![c[2]] = "up"]
        /\ UNCHANGED <<mode, at, job, sent, out, left>>
    BY <1>2 DEF DockerStart, AtDocker
  <2>2. life' \in [Apps -> Lives]
    BY <2>1 DEF TypeOK, Lives
  <2> QED BY <2>1, <2>2, TypeCall DEF TypeOK, CallStates
<1>3. CASE DockerStop(c)
  <2>1. /\ call[c] = "begun" /\ life' = [life EXCEPT ![c[2]] = "gone"]
        /\ \/ call' = [call EXCEPT ![c] = "stuck"]
           \/ call' = [call EXCEPT ![c] = "failed"]
        /\ UNCHANGED <<mode, at, job, sent, out>>
    BY <1>3 DEF DockerStop, AtDocker
  <2>2. left' \in Nat
    BY <1>3 DEF DockerStop, Spend, TypeOK
  <2>3. life' \in [Apps -> Lives]
    BY <2>1 DEF TypeOK, Lives
  <2>4. /\ call' \in [Calls -> CallStates]
        /\ (\A i \in Jobs : job[i].verdict \in {"ok", "err"} => Finished(i))'
    <3>1. "stuck" \in CallStates /\ "failed" \in CallStates
      BY DEF CallStates
    <3> QED BY <2>1, <3>1, TypeCall
  <2> QED BY <2>1, <2>2, <2>3, <2>4 DEF TypeOK
<1>4. CASE DockerFails(c)
  <2>1. /\ call[c] \in {"begun", "created"} /\ call' = [call EXCEPT ![c] = "failed"]
        /\ UNCHANGED <<mode, life, at, job, sent, out>>
    BY <1>4 DEF DockerFails
  <2>2. left' \in Nat
    BY <1>4 DEF DockerFails, Spend, TypeOK
  <2> QED BY <2>1, <2>2, TypeCall DEF TypeOK, CallStates
<1> QED BY <1>1, <1>2, <1>3, <1>4

\* A check at the docker daemon, and the list of a query.
LEMMA TypeDockerLook ==
  ASSUME TypeOK, NEW c \in Calls, DockerCheck(c) \/ DockerList(c)
  PROVE  TypeOK'
<1>1. c[1] \in Jobs /\ job[c[1]] \in JobType /\ left \in Nat
  BY CallsOf DEF TypeOK
<1>2. CASE DockerCheck(c)
  <2> DEFINE found == job[c[1]].found \cup Named(c)
             r == [job[c[1]] EXCEPT !.found = found]
  <2>1. found \in SUBSET Apps
    BY <1>1, NamedType DEF JobType
  <2> HIDE DEF found
  <2>2. r \in JobType /\ r.verdict = job[c[1]].verdict
    BY <1>1, <2>1 DEF JobType
  <2>3. /\ call[c] = "begun" /\ call' = [call EXCEPT ![c] = "ok"]
        /\ job' = [job EXCEPT ![c[1]] = r]
        /\ UNCHANGED <<mode, life, at, sent, out, left>>
    BY <1>2 DEF DockerCheck, AtDocker, found
  <2> HIDE DEF r
  <2> QED BY <1>1, <2>2, <2>3, TypeDockerCall DEF CallStates
<1>3. CASE DockerList(c)
  <2> DEFINE running == {a \in Here(c) : Up(a)}
             plain == job[c[1]].op = "query"
             found == IF plain THEN running ELSE {}
             todo == IF plain THEN {} ELSE running
             state == IF plain \/ running = {} THEN "ok" ELSE "inspect"
             r == [job[c[1]] EXCEPT !.found = found, !.todo = todo]
  <2>1. found \in SUBSET Apps /\ todo \in SUBSET Apps /\ state \in CallStates
    BY DEF Here, CallStates
  <2>2. /\ call[c] = "begun" /\ call' = [call EXCEPT ![c] = state]
        /\ job' = [job EXCEPT ![c[1]] = r]
        /\ UNCHANGED <<mode, life, at, sent, out, left>>
    BY <1>3 DEF DockerList, AtDocker
  <2> HIDE DEF found, todo, state
  <2>3. r \in JobType /\ r.verdict = job[c[1]].verdict
    BY <1>1, <2>1 DEF JobType
  <2> HIDE DEF r
  <2> QED BY <1>1, <2>1, <2>2, <2>3, TypeDockerCall
<1> QED BY <1>2, <1>3

\* The inspection of one container.
LEMMA TypeDockerInspect ==
  ASSUME TypeOK, NEW c \in Calls, NEW a \in Apps, DockerInspect(c, a) \/ DockerInspectFails(c, a)
  PROVE  TypeOK'
<1>1. c[1] \in Jobs /\ job[c[1]] \in JobType /\ left \in Nat
  BY CallsOf DEF TypeOK
<1>2. /\ job[c[1]].todo \ {a} \in SUBSET Apps /\ job[c[1]].skipped \cup {a} \in SUBSET Apps
      /\ job[c[1]].found \in SUBSET Apps /\ job[c[1]].fit \in SUBSET Apps
  BY <1>1 DEF JobType
<1>3. \E state \in {"ok", "inspect"} : call' = [call EXCEPT ![c] = state]
      \/ call' = [call EXCEPT ![c] = "failed"]
  <2>1. call = [call EXCEPT ![c] = call[c]]
    BY DEF TypeOK
  <2>2. call[c] = "inspect"
    BY DEF DockerInspect, DockerInspectFails, AtDocker
  <2> QED BY <2>1, <2>2 DEF DockerInspect, DockerInspectFails
<1>4. PICK state \in CallStates : call' = [call EXCEPT ![c] = state]
  BY <1>3 DEF CallStates
<1>5. call[c] \notin {"none", "ok", "failed"}
  BY DEF DockerInspect, DockerInspectFails, AtDocker
<1>6. UNCHANGED <<mode, life, at, sent, out>> /\ left' \in Nat
  BY <1>1 DEF DockerInspect, DockerInspectFails, Spend
<1>7. \E r \in JobType : r.verdict = job[c[1]].verdict /\ job' = [job EXCEPT ![c[1]] = r]
  <2>1. CASE DockerInspect(c, a)
    <3> DEFINE found == job[c[1]].found \cup
                        (IF job[c[1]].op = "query_all" \/ Seen(job[c[1]].op, a) THEN {a} ELSE {})
               fit == job[c[1]].fit \cup (IF life[a] = "available" THEN {a} ELSE {})
               r == [job[c[1]] EXCEPT !.todo = job[c[1]].todo \ {a}, !.found = found, !.fit = fit]
    <3>1. found \in SUBSET Apps /\ fit \in SUBSET Apps
      BY <1>2
    <3>2. job' = [job EXCEPT ![c[1]] = r]
      BY <2>1 DEF DockerInspect
    <3> HIDE DEF found, fit
    <3>3. r \in JobType /\ r.verdict = job[c[1]].verdict
      BY <1>1, <1>2, <3>1 DEF JobType
    <3> QED BY <3>2, <3>3
  <2>2. CASE DockerInspectFails(c, a) /\ job[c[1]].op = "query_all"
    <3> DEFINE r == [job[c[1]] EXCEPT !.todo = {}, !.found = {}, !.fit = {}]
    <3>1. r \in JobType /\ r.verdict = job[c[1]].verdict
      BY <1>1 DEF JobType
    <3>2. job' = [job EXCEPT ![c[1]] = r]
      BY <2>2 DEF DockerInspectFails
    <3> QED BY <3>1, <3>2
  <2>3. CASE DockerInspectFails(c, a) /\ job[c[1]].op # "query_all"
    <3> DEFINE r == [job[c[1]] EXCEPT !.todo = job[c[1]].todo \ {a},
                                      !.skipped = job[c[1]].skipped \cup {a}]
    <3>1. r \in JobType /\ r.verdict = job[c[1]].verdict
      BY <1>1, <1>2 DEF JobType
    <3>2. job' = [job EXCEPT ![c[1]] = r]
      BY <2>3 DEF DockerInspectFails
    <3> QED BY <3>1, <3>2
  <2> QED BY <2>1, <2>2, <2>3
<1>8. PICK r \in JobType : r.verdict = job[c[1]].verdict /\ job' = [job EXCEPT ![c[1]] = r]
  BY <1>7
<1> QED BY <1>4, <1>5, <1>6, <1>8, TypeDockerCall

\* Containers by themselves.
LEMMA TypeContainer ==
  ASSUME TypeOK, NEW a \in Apps, BecomesAvailable(a) \/ AppExits(a)
  PROVE  TypeOK'
<1>1. life' \in [Apps -> Lives] /\ left' \in Nat
  BY DEF BecomesAvailable, AppExits, Spend, TypeOK, Lives
<1>2. UNCHANGED <<mode, at, job, call, sent, out>>
  BY DEF BecomesAvailable, AppExits
<1> QED BY <1>1, <1>2, FinishedSame DEF TypeOK

\* Every step keeps the types.
LEMMA NextType == TypeOK /\ [Next]_vars => TypeOK'
<1> SUFFICES ASSUME TypeOK, [Next]_vars PROVE TypeOK'
  OBVIOUS
<1>1. ASSUME NEW j \in Jobs,
             \/ BeginStart(j) \/ BeginStop(j)
             \/ \E o \in QueryOps : BeginQuery(j, o)
             \/ \E o \in CheckOps : BeginCheck(j, o)
             \/ NextBatch(j) \/ Return(j)
      PROVE  TypeOK'
  BY <1>1, TypeBeginStart, TypeBeginStop, TypeBeginQuery, TypeBeginCheck, TypeNextBatch, TypeReturn
<1>2. ASSUME NEW c \in Calls,
             \/ Subscribe(c) \/ CallFails(c) \/ Timeout(c)
             \/ LoseCommand(c) \/ Handle(c) \/ Refuse(c)
             \/ DockerCreate(c) \/ DockerStart(c) \/ DockerStop(c) \/ DockerCheck(c)
             \/ DockerList(c) \/ DockerFails(c)
             \/ \E a \in Apps : DockerInspect(c, a) \/ DockerInspectFails(c, a)
      PROVE  TypeOK'
  BY <1>2, TypeCaller, TypeAgent, TypeDockerLife, TypeDockerLook, TypeDockerInspect
<1>3. ASSUME NEW n \in Nodes, Answer(n) PROVE TypeOK'
  BY <1>3, TypeAnswer
<1>4. ASSUME NEW a \in Apps, BecomesAvailable(a) \/ AppExits(a) PROVE TypeOK'
  BY <1>4, TypeContainer
<1>5. CASE UNCHANGED vars
  BY <1>5 DEF vars, TypeOK, Finished, Of
<1> QED BY <1>1, <1>2, <1>3, <1>4, <1>5 DEF Next

\* Every reachable state of the app operations is well-typed, and no goroutine outlives
\* its operation (apps.go), for any nodes, containers, operations and failures.
THEOREM TypeCorrect == Spec => []TypeOK
BY InitType, NextType, PTL DEF Spec

-----------------------------------------------------------------------------
(* What the operations have behind them *)

\* Goroutines and commands are some operation's.
CallInv ==
    /\ \A c \in Calls : call[c] # "none" => job[c[1]].verdict # "idle"
    /\ \A c \in sent : call[c] # "none" /\ mode # "DirectDocker"

\* A start's names are its own, and every one is still to do or has a goroutine.
StartInv(j) ==
    job[j].op = "start" =>
      /\ job[j].todo \subseteq job[j].apps
      /\ \A a \in job[j].apps : life[a] # "unused"
      /\ \A a \in job[j].todo : life[a] = "named"
      /\ \A a \in job[j].apps \ job[j].todo : \E n \in Nodes : call[<<j, a, n>>] # "none"
      /\ \A i \in Jobs : i # j /\ job[i].op = "start" => job[i].apps \cap job[j].apps = {}
      /\ mode = "DirectDocker" => job[j].nodes \subseteq {Local}

\* A stop is about containers that have run, and asks for no fewer than it has.
StopInv(j) ==
    job[j].op = "stop" =>
      /\ \A a \in job[j].apps : Ran(a)
      /\ job[j].asked >= Cardinality(job[j].apps)
      /\ mode = "DirectDocker" => \A a \in job[j].apps : call[<<j, a, Local>>] # "none"

\* What was found has run, and only a start has batches.
FoundInv(j) ==
    /\ job[j].op # "start" => job[j].nodes = {} /\ \A a \in job[j].todo : Ran(a)
    /\ \A a \in job[j].found : Ran(a)

WorkInv == \A j \in Jobs : StartInv(j) /\ StopInv(j) /\ FoundInv(j)

\* A goroutine is about one of its operation's containers.
TargetInv ==
    \A c \in Calls : call[c] # "none" =>
      /\ job[c[1]].op = "start" => c[2] \in job[c[1]].apps \ job[c[1]].todo
      /\ job[c[1]].op = "stop" => c[2] \in job[c[1]].apps
      /\ mode = "DirectDocker" => c[3] = Local

\* A goroutine that succeeded has done its work; a stop, on the container's node.
GoodCall(c) ==
    /\ job[c[1]].op = "start" /\ call[c] = "ok" => Ran(c[2])
    /\ job[c[1]].op = "stop" /\ call[c] = "ok"
         => mode # "DirectDocker" /\ life[c[2]] = "gone" /\ at[c[2]] = c[3]
    /\ mode = "DirectDocker" /\ job[c[1]].op = "start"
         => /\ call[c] = "begun" => life[c[2]] = "named"
            /\ call[c] = "created" => life[c[2]] = "created"

DoneInv == \A c \in Calls : GoodCall(c)

\* An answer comes from its node, to some operation's command, and says the truth.
GoodAnswer(n) ==
    out[n] # None =>
      /\ out[n].from[3] = n /\ call[out[n].from] # "none" /\ mode # "DirectDocker"
      /\ \A a \in out[n].found : Ran(a)
      /\ out[n].ok /\ job[out[n].from[1]].op = "start" => Ran(out[n].from[2])
      /\ out[n].ok /\ job[out[n].from[1]].op = "stop"
           => life[out[n].from[2]] = "gone" /\ at[out[n].from[2]] = n

AnswerInv ==
    /\ \A n \in Nodes : GoodAnswer(n)
    /\ mode # "DirectDocker" => \A a \in Apps : life[a] # "created"

IInv == TypeOK /\ CallInv /\ WorkInv /\ TargetInv /\ DoneInv /\ AnswerInv

\* Nothing has begun.
LEMMA InitInv == Init => IInv
<1> SUFFICES ASSUME Init PROVE IInv
  OBVIOUS
<1>1. TypeOK
  BY InitType
<1>2. \A j \in Jobs : /\ job[j].op = "none" /\ job[j].todo = {} /\ job[j].found = {}
                      /\ job[j].nodes = {} /\ job[j].verdict = "idle"
  BY DEF Init, NoJob
<1>3. /\ \A c \in Calls : call[c] = "none"
      /\ sent = {} /\ \A n \in Nodes : out[n] = None
      /\ \A a \in Apps : life[a] # "created"
  BY DEF Init
<1>4. WorkInv
  BY <1>2 DEF WorkInv, StartInv, StopInv, FoundInv
<1>5. CallInv /\ TargetInv /\ DoneInv /\ AnswerInv
  BY <1>2, <1>3 DEF CallInv, TargetInv, DoneInv, AnswerInv, GoodCall, GoodAnswer
<1> QED BY <1>1, <1>4, <1>5 DEF IInv

-----------------------------------------------------------------------------
(* Steps that begin nothing *)

\* A container goes on in its life, and stays where it is.
LivesOn ==
    /\ mode' = mode /\ at' = at
    /\ \A a \in Apps : /\ Ran(a) => Ran(a)'
                       /\ life[a] = "gone" => life'[a] = "gone"
                       /\ life[a] # "unused" => life'[a] # "unused"

\* No operation and no goroutine is new, and names that wait for theirs go on waiting.
NoneNew ==
    /\ \A i \in Jobs : /\ job'[i].op = job[i].op /\ job'[i].apps = job[i].apps
                       /\ job'[i].asked = job[i].asked /\ job'[i].nodes = job[i].nodes
                       /\ job[i].verdict # "idle" => job'[i].verdict # "idle"
                       /\ job[i].op = "start" => /\ job'[i].todo = job[i].todo
                                                 /\ \A a \in job[i].todo : life'[a] = life[a]
    /\ \A c \in Calls : call'[c] = "none" <=> call[c] = "none"

\* Then every operation has behind it what it had.
LEMMA KeptWork ==
  ASSUME TypeOK, WorkInv, LivesOn, NoneNew, \A i \in Jobs : FoundInv(i)'
  PROVE  WorkInv'
<1> SUFFICES ASSUME NEW j \in Jobs PROVE StartInv(j)' /\ StopInv(j)'
  BY DEF WorkInv
<1>1. StartInv(j) /\ StopInv(j) /\ job[j].apps \in SUBSET Apps
  BY DEF WorkInv, TypeOK, JobType
<1>2. /\ job'[j].op = job[j].op /\ job'[j].apps = job[j].apps /\ job'[j].asked = job[j].asked
      /\ job'[j].nodes = job[j].nodes
      /\ job[j].op = "start" => /\ job'[j].todo = job[j].todo
                                /\ \A a \in job[j].todo : life'[a] = life[a]
  BY DEF NoneNew
<1>3. \A a \in Apps, n \in Nodes : <<j, a, n>> \in Calls
  BY DEF Calls, Targets
<1>4. \A a \in Apps, n \in Nodes : call'[<<j, a, n>>] = "none" <=> call[<<j, a, n>>] = "none"
  BY <1>3 DEF NoneNew
<1>5. Local \in Nodes
  BY NodesAssumption
<1>6. StartInv(j)'
  <2> SUFFICES ASSUME job[j].op = "start" PROVE StartInv(j)'
    BY <1>2 DEF StartInv
  <2>1. /\ job[j].todo \subseteq job[j].apps
        /\ \A a \in job[j].apps : life[a] # "unused"
        /\ \A a \in job[j].todo : life[a] = "named"
        /\ \A a \in job[j].apps \ job[j].todo : \E n \in Nodes : call[<<j, a, n>>] # "none"
        /\ \A i \in Jobs : i # j /\ job[i].op = "start" => job[i].apps \cap job[j].apps = {}
        /\ mode = "DirectDocker" => job[j].nodes \subseteq {Local}
    BY <1>1 DEF StartInv
  <2>2. \A i \in Jobs : job'[i].op = job[i].op /\ job'[i].apps = job[i].apps
    BY DEF NoneNew
  <2>3. mode' = mode /\ \A a \in Apps : life[a] # "unused" => life'[a] # "unused"
    BY DEF LivesOn
  <2> QED BY <1>1, <1>2, <1>4, <2>1, <2>2, <2>3 DEF StartInv
<1>7. StopInv(j)'
  <2> SUFFICES ASSUME job[j].op = "stop" PROVE StopInv(j)'
    BY <1>2 DEF StopInv
  <2>1. /\ \A a \in job[j].apps : Ran(a)
        /\ job[j].asked >= Cardinality(job[j].apps)
        /\ mode = "DirectDocker" => \A a \in job[j].apps : call[<<j, a, Local>>] # "none"
    BY <1>1 DEF StopInv
  <2>2. \A a \in job[j].apps : Ran(a)'
    BY <1>1, <2>1 DEF LivesOn
  <2>3. mode' = mode
    BY DEF LivesOn
  <2> QED BY <1>1, <1>2, <1>4, <1>5, <2>1, <2>2, <2>3 DEF StopInv
<1> QED BY <1>6, <1>7

\* ... and every goroutine its container.
LEMMA KeptTarget ==
  ASSUME TypeOK, TargetInv, LivesOn, NoneNew
  PROVE  TargetInv' /\ \A c \in Calls : call'[c] # "none" => job'[c[1]].op = job[c[1]].op
<1> SUFFICES ASSUME NEW c \in Calls, call'[c] # "none"
             PROVE  /\ job'[c[1]].op = job[c[1]].op
                    /\ job'[c[1]].op = "start" => c[2] \in job'[c[1]].apps \ job'[c[1]].todo
                    /\ job'[c[1]].op = "stop" => c[2] \in job'[c[1]].apps
                    /\ mode' = "DirectDocker" => c[3] = Local
  BY DEF TargetInv
<1>1. c[1] \in Jobs /\ call[c] # "none"
  BY CallsOf DEF NoneNew
<1> QED BY <1>1 DEF TargetInv, NoneNew, LivesOn

\* Containers that a start or a stop is about.
LEMMA Targeted ==
  ASSUME TypeOK, WorkInv, TargetInv, NEW c \in Calls, call[c] # "none"
  PROVE  /\ job[c[1]].op = "start"
              => /\ c[2] \in Apps /\ life[c[2]] # "unused"
                 /\ \A i \in Jobs : job[i].op = "start" => c[2] \notin job[i].todo
         /\ job[c[1]].op = "stop"
              => c[2] \in Apps /\ Ran(c[2])
<1>1. c[1] \in Jobs /\ job[c[1]].apps \in SUBSET Apps
  BY CallsOf DEF TypeOK, JobType
<1>2. StartInv(c[1]) /\ StopInv(c[1]) /\ \A i \in Jobs : StartInv(i)
  BY <1>1 DEF WorkInv
<1>3. ASSUME job[c[1]].op = "start"
      PROVE  /\ c[2] \in Apps /\ life[c[2]] # "unused"
             /\ \A i \in Jobs : job[i].op = "start" => c[2] \notin job[i].todo
  <2>1. c[2] \in job[c[1]].apps \ job[c[1]].todo
    BY <1>3 DEF TargetInv
  <2>2. ASSUME NEW i \in Jobs, job[i].op = "start" PROVE c[2] \notin job[i].todo
    <3>1. job[i].todo \subseteq job[i].apps
      BY <1>2, <2>2 DEF StartInv
    <3>2. CASE i = c[1]
      BY <2>1, <3>2
    <3>3. CASE i # c[1]
      <4>1. job[i].apps \cap job[c[1]].apps = {}
        BY <1>1, <1>2, <1>3, <2>2, <3>3 DEF StartInv
      <4> QED BY <2>1, <3>1, <4>1
    <3> QED BY <3>2, <3>3
  <2> QED BY <1>1, <1>2, <1>3, <2>1, <2>2 DEF StartInv
<1>4. ASSUME job[c[1]].op = "stop" PROVE c[2] \in Apps /\ Ran(c[2])
  <2>1. c[2] \in job[c[1]].apps
    BY <1>4 DEF TargetInv
  <2> QED BY <1>1, <1>2, <1>4, <2>1 DEF StopInv
<1> QED BY <1>3, <1>4

\* What a step that begins nothing must see to.
LEMMA Kept ==
  ASSUME IInv, TypeOK', LivesOn, NoneNew,
         \A i \in Jobs : FoundInv(i)',
         sent' \subseteq sent,
         \A c \in Calls : call'[c] = call[c] \/ GoodCall(c)',
         \A c \in Calls : /\ mode = "DirectDocker" /\ job[c[1]].op = "start"
                          /\ call'[c] = call[c] /\ call[c] \in {"begun", "created"}
                          => life'[c[2]] = life[c[2]],
         \A n \in Nodes : out'[n] = out[n] \/ GoodAnswer(n)',
         mode # "DirectDocker" => \A a \in Apps : life'[a] # "created"
  PROVE  IInv'
<1>1. TypeOK /\ CallInv /\ WorkInv /\ TargetInv /\ DoneInv /\ AnswerInv
  BY DEF IInv
<1>2. WorkInv' /\ TargetInv'
  BY <1>1, KeptWork, KeptTarget
<1>3. mode' = mode /\ at' = at
  BY DEF LivesOn
<1>4. CallInv'
  <2>1. ASSUME NEW c \in Calls, call'[c] # "none" PROVE job'[c[1]].verdict # "idle"
    BY <1>1, <2>1, CallsOf DEF CallInv, NoneNew
  <2>2. ASSUME NEW c \in sent' PROVE call'[c] # "none" /\ mode' # "DirectDocker"
    BY <1>1, <1>3, <2>2 DEF CallInv, NoneNew, TypeOK
  <2> QED BY <2>1, <2>2 DEF CallInv
<1>5. ASSUME NEW c \in Calls, call'[c] = call[c] PROVE GoodCall(c)'
  <2>1. c[1] \in Jobs /\ GoodCall(c)
    BY <1>1, CallsOf DEF DoneInv
  <2>2. job'[c[1]].op = job[c[1]].op
    BY <2>1 DEF NoneNew
  <2>3. CASE call[c] = "ok"
    <3>1. job[c[1]].op \in {"start", "stop"} => c[2] \in Apps
      BY <1>1, <2>3, Targeted
    <3> QED BY <1>3, <1>5, <2>1, <2>2, <2>3, <3>1 DEF GoodCall, LivesOn
  <2>4. CASE call[c] \in {"begun", "created"}
    BY <1>3, <1>5, <2>1, <2>2, <2>4 DEF GoodCall
  <2>5. CASE call[c] \notin {"ok", "begun", "created"}
    BY <1>5, <2>5 DEF GoodCall
  <2> QED BY <2>3, <2>4, <2>5
<1>6. ASSUME NEW n \in Nodes, out'[n] = out[n], out[n] # None PROVE GoodAnswer(n)'
  <2> SUFFICES ASSUME NEW r, r = out[n], NEW d, d = out[n].from PROVE GoodAnswer(n)'
    OBVIOUS
  <2>1. r \in ReplyType /\ d \in Calls /\ d[1] \in Jobs /\ r.found \in SUBSET Apps
    BY <1>1, <1>6, CallsOf DEF TypeOK, ReplyType
  <2>2. GoodAnswer(n)
    BY <1>1 DEF AnswerInv
  <2>3. /\ d[3] = n /\ call[d] # "none" /\ mode # "DirectDocker"
        /\ \A a \in r.found : Ran(a)
        /\ r.ok /\ job[d[1]].op = "start" => Ran(d[2])
        /\ r.ok /\ job[d[1]].op = "stop" => life[d[2]] = "gone" /\ at[d[2]] = n
    BY <1>6, <2>2 DEF GoodAnswer
  <2>4. job'[d[1]].op = job[d[1]].op /\ call'[d] # "none"
    BY <2>1, <2>3 DEF NoneNew
  <2>5. job[d[1]].op \in {"start", "stop"} => d[2] \in Apps
    BY <1>1, <2>1, <2>3, Targeted
  <2>6. out'[n] = r /\ out'[n].from = d
    BY <1>6
  <2>7. \A a \in r.found : Ran(a)'
    BY <2>1, <2>3 DEF LivesOn
  <2>8. /\ r.ok /\ job'[d[1]].op = "start" => Ran(d[2])'
        /\ r.ok /\ job'[d[1]].op = "stop" => life'[d[2]] = "gone" /\ at'[d[2]] = n
    BY <1>3, <2>3, <2>4, <2>5 DEF LivesOn
  <2> QED BY <1>3, <2>3, <2>4, <2>6, <2>7, <2>8 DEF GoodAnswer
<1>7. DoneInv'
  BY <1>5 DEF DoneInv
<1>8. AnswerInv'
  <2>1. \A n \in Nodes : GoodAnswer(n)'
    BY <1>6 DEF GoodAnswer
  <2> QED BY <1>3, <2>1 DEF AnswerInv
<1> QED BY <1>2, <1>4, <1>7, <1>8 DEF IInv

\* What has been found runs or has run.
LEMMA KeptFound ==
  ASSUME TypeOK, WorkInv, LivesOn, NoneNew,
         \A i \in Jobs : /\ \A a \in job'[i].found : a \in job[i].found \/ (a \in Apps /\ Ran(a))
                         /\ \A a \in job'[i].todo : a \in job[i].todo \/ (a \in Apps /\ Ran(a))
  PROVE  \A i \in Jobs : FoundInv(i)'
<1> SUFFICES ASSUME NEW i \in Jobs PROVE FoundInv(i)'
  OBVIOUS
<1>1. FoundInv(i) /\ job[i].found \in SUBSET Apps /\ job[i].todo \in SUBSET Apps
      /\ job'[i].op = job[i].op /\ job'[i].nodes = job[i].nodes
  BY DEF WorkInv, TypeOK, JobType, NoneNew
<1> QED BY <1>1 DEF FoundInv, LivesOn

\* A call that is under way goes on, or fails.
LEMMA KeptCall ==
  ASSUME IInv, TypeOK', NEW c \in Calls, call[c] # "none",
         NEW state \in {"waiting", "failed"}, call' = [call EXCEPT ![c] = state],
         sent' \subseteq sent, UNCHANGED <<mode, life, at, job, out>>
  PROVE  IInv'
<1>1. TypeOK /\ WorkInv /\ AnswerInv
  BY DEF IInv
<1>2. call'[c] = state /\ \A d \in Calls : d # c => call'[d] = call[d]
  BY <1>1 DEF TypeOK
<1>3. LivesOn
  BY DEF LivesOn, Ran
<1>4. NoneNew
  BY <1>2 DEF NoneNew
<1>5. \A i \in Jobs : FoundInv(i)'
  BY <1>1, <1>3, <1>4, KeptFound
<1>6. GoodCall(c)'
  BY <1>2 DEF GoodCall
<1>7. mode # "DirectDocker" => \A a \in Apps : life'[a] # "created"
  BY <1>1 DEF AnswerInv
<1> QED BY <1>2, <1>3, <1>4, <1>5, <1>6, <1>7, Kept

\* The caller's side of a call of a node agent.
LEMMA InvCaller ==
  ASSUME IInv, TypeOK', NEW c \in Calls, Subscribe(c) \/ CallFails(c) \/ Timeout(c)
  PROVE  IInv'
<1>1. CASE Subscribe(c)
  BY <1>1, KeptCall DEF Subscribe, OverNats
<1>2. CASE CallFails(c)
  BY <1>2, KeptCall DEF CallFails, OverNats
<1>3. CASE Timeout(c)
  BY <1>3, KeptCall DEF Timeout
<1> QED BY <1>1, <1>2, <1>3

\* An agent's step takes a command, and tells the truth about it.
LEMMA KeptAgent ==
  ASSUME IInv, TypeOK', NEW c \in Calls, LivesOn, sent' \subseteq sent,
         \A a \in Apps : life'[a] # life[a]
                         => life'[a] # "created" /\ \A i \in Jobs : job[i].op = "start"
                                                                    => a \notin job[i].todo,
         UNCHANGED <<job, call>>, mode = "DirectDocker" => UNCHANGED life,
         \A n \in Nodes : out'[n] = out[n] \/ GoodAnswer(n)'
  PROVE  IInv'
<1>1. TypeOK /\ WorkInv /\ TargetInv /\ AnswerInv
  BY DEF IInv
<1>2. NoneNew
  <2> SUFFICES ASSUME NEW i \in Jobs, job[i].op = "start", NEW a \in job[i].todo
               PROVE  life'[a] = life[a]
    BY DEF NoneNew
  <2>1. a \in Apps
    BY <1>1 DEF TypeOK, JobType
  <2> QED BY <2>1
<1>3. \A i \in Jobs : FoundInv(i)'
  BY <1>1, <1>2, KeptFound
<1>4. mode # "DirectDocker" => \A a \in Apps : life'[a] # "created"
  BY <1>1 DEF AnswerInv
<1> QED BY <1>2, <1>3, <1>4, Kept

\* Commands are handled, refused or lost.
LEMMA InvAgent ==
  ASSUME IInv, TypeOK', NEW c \in Calls, LoseCommand(c) \/ Handle(c) \/ Refuse(c)
  PROVE  IInv'
<1>1. TypeOK /\ CallInv /\ WorkInv /\ TargetInv /\ AnswerInv
  BY DEF IInv
<1>2. c[1] \in Jobs /\ c[3] \in Nodes /\ call[c] # "none" /\ mode # "DirectDocker"
  BY <1>1, CallsOf DEF CallInv, LoseCommand, Handle, Refuse
<1>3. CASE LoseCommand(c)
  <2>1. sent' \subseteq sent /\ UNCHANGED <<mode, life, at, job, call, out>>
    BY <1>3 DEF LoseCommand
  <2>2. LivesOn
    BY <2>1 DEF LivesOn, Ran
  <2> QED BY <2>1, <2>2, KeptAgent
<1>4. CASE Refuse(c)
  <2>1. /\ sent' \subseteq sent /\ UNCHANGED <<mode, life, at, job, call>>
        /\ out' = [out EXCEPT ![c[3]] = [from |-> c, ok |-> FALSE, found |-> {}, fit |-> {}]]
    BY <1>4 DEF Refuse
  <2>2. LivesOn
    BY <2>1 DEF LivesOn, Ran
  <2>3. /\ out'[c[3]] = [from |-> c, ok |-> FALSE, found |-> {}, fit |-> {}]
        /\ \A n \in Nodes : n # c[3] => out'[n] = out[n]
    BY <1>1, <1>2, <2>1 DEF TypeOK
  <2>4. GoodAnswer(c[3])'
    BY <1>2, <2>1, <2>3 DEF GoodAnswer
  <2> QED BY <2>1, <2>2, <2>3, <2>4, KeptAgent
<1>5. CASE Handle(c)
  <2> DEFINE r == [from |-> c, ok |-> Known(c), found |-> Named(c),
                   fit |-> {a \in Named(c) : life[a] = "available"}]
  <2>1. /\ sent' \subseteq sent /\ UNCHANGED <<mode, at, job, call>>
        /\ life' = AfterCommand(c) /\ out' = [out EXCEPT ![c[3]] = r]
    BY <1>5 DEF Handle
  <2>2. /\ job[c[1]].op = "start"
             => /\ c[2] \in Apps /\ life[c[2]] # "unused"
                /\ \A i \in Jobs : job[i].op = "start" => c[2] \notin job[i].todo
        /\ job[c[1]].op = "stop" => c[2] \in Apps /\ Ran(c[2])
    BY <1>1, <1>2, Targeted
  <2>3. CASE job[c[1]].op = "start" /\ life[c[2]] = "named"
    <3>1. life' = [life EXCEPT ![c[2]] = "up"]
      BY <2>1, <2>3 DEF AfterCommand
    <3>2. /\ life'[c[2]] = "up" /\ \A a \in Apps : a # c[2] => life'[a] = life[a]
      BY <1>1, <2>2, <2>3, <3>1 DEF TypeOK
    <3>3. Ran(c[2])'
      BY <3>2 DEF Ran
    <3>4. LivesOn
      BY <2>1, <2>3, <3>2 DEF LivesOn, Ran
    <3>5. Named(c) = {}
      BY <2>3 DEF Named, QueryOps, CheckOps
    <3>6. GoodAnswer(c[3])'
      <4>1. out'[c[3]] = r
        BY <1>1, <1>2, <2>1 DEF TypeOK
      <4>2. out'[c[3]].from = c /\ out'[c[3]].found = {}
        BY <4>1, <3>5
      <4> QED BY <1>2, <2>1, <2>3, <3>3, <4>2 DEF GoodAnswer
    <3>7. \A n \in Nodes : n # c[3] => out'[n] = out[n]
      BY <1>1, <1>2, <2>1 DEF TypeOK
    <3> QED BY <1>2, <2>1, <2>2, <2>3, <3>2, <3>4, <3>6, <3>7, KeptAgent
  <2>4. CASE job[c[1]].op = "stop" /\ c[2] \in Here(c)
    <3>1. life' = [life EXCEPT ![c[2]] = "gone"]
      BY <2>1, <2>4 DEF AfterCommand
    <3>2. /\ life'[c[2]] = "gone" /\ \A a \in Apps : a # c[2] => life'[a] = life[a]
      BY <1>1, <2>2, <2>4, <3>1 DEF TypeOK
    <3>3. at'[c[2]] = c[3] /\ Ran(c[2])
      BY <2>1, <2>4 DEF Here
    <3>4. LivesOn
      BY <2>1, <3>2, <3>3 DEF LivesOn, Ran
    <3>5. Named(c) = {}
      BY <2>4 DEF Named, QueryOps, CheckOps
    <3>6. GoodAnswer(c[3])'
      <4>1. out'[c[3]] = r
        BY <1>1, <1>2, <2>1 DEF TypeOK
      <4>2. out'[c[3]].from = c /\ out'[c[3]].found = {}
        BY <4>1, <3>5
      <4> QED BY <1>2, <2>1, <2>4, <3>2, <3>3, <4>2 DEF GoodAnswer
    <3>7. \A n \in Nodes : n # c[3] => out'[n] = out[n]
      BY <1>1, <1>2, <2>1 DEF TypeOK
    <3>8. \A i \in Jobs : job[i].op = "start" => c[2] \notin job[i].todo
      BY <1>1, <3>3 DEF WorkInv, StartInv, Ran
    <3> QED BY <1>2, <2>1, <2>2, <2>4, <3>2, <3>4, <3>6, <3>7, <3>8, KeptAgent
  <2>5. CASE /\ ~(job[c[1]].op = "start" /\ life[c[2]] = "named")
             /\ ~(job[c[1]].op = "stop" /\ c[2] \in Here(c))
    <3>1. life' = life
      BY <2>1, <2>5 DEF AfterCommand
    <3>2. LivesOn
      BY <2>1, <3>1 DEF LivesOn, Ran
    <3>3. \A a \in Named(c) : Ran(a)
      BY DEF Named, Here, QueryOps, CheckOps
    <3>4. job[c[1]].op = "start" => Ran(c[2])
      BY <1>1, <1>2, <2>2, <2>5 DEF AnswerInv, TypeOK, Lives, Ran
    <3>5. job[c[1]].op = "stop" => ~Known(c)
      BY <2>5 DEF Known
    <3>6. GoodAnswer(c[3])'
      <4>1. out'[c[3]] = r
        BY <1>1, <1>2, <2>1 DEF TypeOK
      <4>2. out'[c[3]].from = c /\ out'[c[3]].found = Named(c) /\ out'[c[3]].ok = Known(c)
        BY <4>1
      <4>3. \A a \in Named(c) : Ran(a)'
        BY <3>1, <3>3 DEF Ran
      <4>4. job[c[1]].op = "start" => Ran(c[2])'
        BY <3>1, <3>4 DEF Ran
      <4> QED BY <1>2, <2>1, <3>5, <4>2, <4>3, <4>4 DEF GoodAnswer
    <3>7. \A n \in Nodes : n # c[3] => out'[n] = out[n]
      BY <1>1, <1>2, <2>1 DEF TypeOK
    <3> QED BY <2>1, <3>1, <3>2, <3>6, <3>7, KeptAgent
  <2> QED BY <2>3, <2>4, <2>5
<1> QED BY <1>3, <1>4, <1>5

\* Whoever hears an answer is told the truth about the same operation and name.
LEMMA InvAnswer == ASSUME IInv, TypeOK', NEW n \in Nodes, Answer(n) PROVE IInv'
<1> SUFFICES ASSUME NEW r, r = out[n], NEW Told, Told = {c \in Calls : Hears(c, r)} PROVE IInv'
  OBVIOUS
<1>1. TypeOK /\ WorkInv /\ TargetInv /\ AnswerInv /\ r \in ReplyType
  BY DEF IInv, TypeOK, Answer
<1>2. /\ r # None
      /\ call' = [c \in Calls |-> IF c \notin Told THEN call[c]
                                  ELSE IF r.ok THEN "ok" ELSE "failed"]
      /\ job' = [j \in Jobs |->
                   IF r.ok /\ (\E c \in Told : c[1] = j)
                   THEN [job[j] EXCEPT !.found = job[j].found \cup r.found,
                                       !.fit = job[j].fit \cup r.fit]
                   ELSE job[j]]
      /\ out' = [out EXCEPT ![n] = None]
      /\ UNCHANGED <<mode, life, at, sent, left>>
  BY DEF Answer
<1>3. /\ r.from \in Calls /\ r.from[3] = n /\ call[r.from] # "none" /\ mode # "DirectDocker"
      /\ r.found \in SUBSET Apps /\ \A a \in r.found : Ran(a)
      /\ r.ok /\ job[r.from[1]].op = "start" => Ran(r.from[2])
      /\ r.ok /\ job[r.from[1]].op = "stop" => life[r.from[2]] = "gone" /\ at[r.from[2]] = n
  BY <1>1, <1>2 DEF AnswerInv, GoodAnswer, ReplyType
<1>4. \A c \in Told : /\ c \in Calls /\ call[c] = "waiting" /\ c[3] = n /\ c[2] = r.from[2]
                      /\ job[c[1]].op = job[r.from[1]].op
  BY <1>3 DEF Hears, SubjectOf, Subject
<1>5. LivesOn
  BY <1>2 DEF LivesOn, Ran
<1>6. ASSUME NEW i \in Jobs
      PROVE  /\ job'[i].op = job[i].op /\ job'[i].apps = job[i].apps
             /\ job'[i].asked = job[i].asked /\ job'[i].nodes = job[i].nodes
             /\ job'[i].verdict = job[i].verdict /\ job'[i].todo = job[i].todo
             /\ \A a \in job'[i].found : a \in job[i].found \/ (a \in Apps /\ Ran(a))
  <2>1. job[i] \in JobType
    BY <1>1 DEF TypeOK
  <2>2. CASE r.ok /\ \E c \in Told : c[1] = i
    <3>1. job'[i] = [job[i] EXCEPT !.found = job[i].found \cup r.found,
                                   !.fit = job[i].fit \cup r.fit]
      BY <1>2, <2>2
    <3> QED BY <1>3, <2>1, <3>1 DEF JobType
  <2>3. CASE ~(r.ok /\ \E c \in Told : c[1] = i)
    <3>1. job'[i] = job[i]
      BY <1>2, <2>3
    <3> QED BY <3>1
  <2> QED BY <2>2, <2>3
<1>7. NoneNew
  BY <1>2, <1>4, <1>6 DEF NoneNew
<1>8. \A i \in Jobs : FoundInv(i)'
  BY <1>1, <1>5, <1>6, <1>7, KeptFound
<1>9. ASSUME NEW c \in Calls PROVE call'[c] = call[c] \/ GoodCall(c)'
  <2>1. CASE c \in Told /\ r.ok
    <3>1. c[1] \in Jobs
      BY CallsOf
    <3>2. job'[c[1]].op = job[r.from[1]].op /\ c[2] = r.from[2] /\ c[3] = n
      BY <1>4, <1>6, <2>1, <3>1
    <3>3. job'[c[1]].op = "start" => Ran(c[2])'
      BY <1>2, <1>3, <2>1, <3>2 DEF Ran
    <3>4. job'[c[1]].op = "stop" => life'[c[2]] = "gone" /\ at'[c[2]] = c[3]
      BY <1>2, <1>3, <2>1, <3>2
    <3> QED BY <1>2, <1>3, <3>3, <3>4 DEF GoodCall
  <2>2. CASE c \in Told /\ ~r.ok
    <3>1. call'[c] = "failed"
      BY <1>2, <2>2
    <3> QED BY <3>1 DEF GoodCall
  <2>3. CASE c \notin Told
    BY <1>2, <2>3
  <2> QED BY <2>1, <2>2, <2>3
<1>10. \A m \in Nodes : out'[m] = out[m] \/ GoodAnswer(m)'
  BY <1>1, <1>2 DEF TypeOK, GoodAnswer
<1>11. mode # "DirectDocker" => \A a \in Apps : life'[a] # "created"
  BY <1>1, <1>2 DEF AnswerInv
<1> QED BY <1>2, <1>3, <1>5, <1>7, <1>8, <1>9, <1>10, <1>11, Kept

\* At the docker daemon, a start's call is the only one about its container.
LEMMA OneCall ==
  ASSUME IInv, mode = "DirectDocker", NEW c \in Calls, NEW d \in Calls, c[2] = d[2],
         call[c] # "none", call[d] # "none", job[c[1]].op = "start", job[d[1]].op = "start"
  PROVE  c = d
<1>1. WorkInv /\ TargetInv /\ c[1] \in Jobs /\ d[1] \in Jobs
  BY CallsOf DEF IInv
<1>2. c[2] \in job[c[1]].apps /\ d[2] \in job[d[1]].apps /\ c[3] = Local /\ d[3] = Local
  BY <1>1 DEF TargetInv
<1>3. c[1] = d[1]
  BY <1>1, <1>2 DEF WorkInv, StartInv
<1> QED BY <1>2, <1>3, CallsOf

\* A start or a stop at the docker daemon gets a container on.
LEMMA KeptDocker ==
  ASSUME IInv, TypeOK', NEW c \in Calls, mode = "DirectDocker",
         NEW l \in {"created", "up", "gone"}, life' = [life EXCEPT ![c[2]] = l],
         NEW state \in {"created", "ok", "stuck", "failed"}, call' = [call EXCEPT ![c] = state],
         \/ job[c[1]].op = "start" /\ call[c] = "begun" /\ l = "created" /\ state = "created"
         \/ job[c[1]].op = "start" /\ call[c] = "created" /\ l = "up" /\ state = "ok"
         \/ job[c[1]].op = "stop" /\ call[c] = "begun" /\ l = "gone" /\ state \in {"stuck", "failed"},
         UNCHANGED <<mode, at, job, sent, out>>
  PROVE  IInv'
<1>1. TypeOK /\ WorkInv /\ TargetInv /\ DoneInv
  BY DEF IInv
<1>2. /\ job[c[1]].op = "start"
           => /\ c[2] \in Apps /\ life[c[2]] # "unused"
              /\ \A i \in Jobs : job[i].op = "start" => c[2] \notin job[i].todo
      /\ job[c[1]].op = "stop" => c[2] \in Apps /\ Ran(c[2])
  BY <1>1, Targeted
<1>3. c[2] \in Apps
  BY <1>2
<1>4. call'[c] = state /\ \A d \in Calls : d # c => call'[d] = call[d]
  BY <1>1 DEF TypeOK
<1>5. life'[c[2]] = l /\ \A a \in Apps : a # c[2] => life'[a] = life[a]
  BY <1>1, <1>3 DEF TypeOK
<1>6. GoodCall(c)
  BY <1>1 DEF DoneInv
<1>7. LivesOn
  <2>1. Ran(c[2]) => Ran(c[2])'
    BY <1>5, <1>6 DEF GoodCall, Ran
  <2>2. \A a \in Apps : a # c[2] /\ Ran(a) => Ran(a)'
    BY <1>5 DEF Ran
  <2>3. life[c[2]] = "gone" => life'[c[2]] = "gone"
    BY <1>5, <1>6 DEF GoodCall
  <2> QED BY <1>5, <2>1, <2>2, <2>3 DEF LivesOn
<1>8. \A i \in Jobs : job[i].op = "start" => c[2] \notin job[i].todo
  BY <1>1, <1>2 DEF WorkInv, StartInv, Ran
<1>9. NoneNew
  <2>1. ASSUME NEW i \in Jobs, job[i].op = "start", NEW a \in job[i].todo PROVE life'[a] = life[a]
    <3>1. a \in Apps
      BY <1>1 DEF TypeOK, JobType
    <3> QED BY <1>5, <1>8, <2>1, <3>1
  <2> QED BY <1>4, <2>1 DEF NoneNew
<1>10. \A i \in Jobs : FoundInv(i)'
  BY <1>1, <1>7, <1>9, KeptFound
<1>11. GoodCall(c)'
  BY <1>4, <1>5 DEF GoodCall, Ran
<1>12. ASSUME NEW d \in Calls, job[d[1]].op = "start", call'[d] = call[d],
              call[d] \in {"begun", "created"}
       PROVE  life'[d[2]] = life[d[2]]
  <2>1. GoodCall(d) /\ d[2] \in Apps
    BY <1>1, <1>12, Targeted DEF DoneInv
  <2>2. d # c
    BY <1>4, <1>12
  <2>3. d[2] # c[2]
    <3>1. CASE job[c[1]].op = "start"
      BY <1>12, <2>2, <3>1, OneCall
    <3>2. CASE job[c[1]].op = "stop"
      BY <1>2, <1>12, <2>1, <3>2 DEF GoodCall, Ran
    <3> QED BY <3>1, <3>2
  <2> QED BY <1>5, <2>1, <2>3
<1> QED BY <1>4, <1>7, <1>9, <1>10, <1>11, <1>12, Kept

\* Starts and stops at the docker daemon, and the calls it fails.
LEMMA InvDockerLife ==
  ASSUME IInv, TypeOK', NEW c \in Calls,
         DockerCreate(c) \/ DockerStart(c) \/ DockerStop(c) \/ DockerFails(c)
  PROVE  IInv'
<1>1. CASE DockerCreate(c)
  BY <1>1, KeptDocker DEF DockerCreate, AtDocker
<1>2. CASE DockerStart(c)
  BY <1>2, KeptDocker DEF DockerStart, AtDocker
<1>3. CASE DockerStop(c)
  <2>1. /\ mode = "DirectDocker" /\ job[c[1]].op = "stop" /\ call[c] = "begun"
        /\ life' = [life EXCEPT ![c[2]] = "gone"]
        /\ \E state \in {"stuck", "failed"} : call' = [call EXCEPT ![c] = state]
        /\ UNCHANGED <<mode, at, job, sent, out>>
    BY <1>3 DEF DockerStop, AtDocker
  <2> QED BY <2>1, KeptDocker
<1>4. CASE DockerFails(c)
  BY <1>4, KeptCall DEF DockerFails
<1> QED BY <1>1, <1>2, <1>3, <1>4

\* A check or a query at the docker daemon learns what runs.
LEMMA KeptLook ==
  ASSUME IInv, TypeOK', NEW c \in Calls, mode = "DirectDocker",
         job[c[1]].op \in QueryOps \cup CheckOps, call[c] # "none",
         NEW state \in {"inspect", "ok", "failed"}, call' = [call EXCEPT ![c] = state],
         NEW r \in JobType, job' = [job EXCEPT ![c[1]] = r],
         r.op = job[c[1]].op, r.apps = job[c[1]].apps, r.asked = job[c[1]].asked,
         r.nodes = job[c[1]].nodes, r.verdict = job[c[1]].verdict,
         \A a \in r.found : a \in job[c[1]].found \/ (a \in Apps /\ Ran(a)),
         \A a \in r.todo : a \in job[c[1]].todo \/ (a \in Apps /\ Ran(a)),
         UNCHANGED <<mode, life, at, sent, out>>
  PROVE  IInv'
<1>1. TypeOK /\ WorkInv /\ c[1] \in Jobs
  BY CallsOf DEF IInv
<1>2. job'[c[1]] = r /\ \A i \in Jobs : i # c[1] => job'[i] = job[i]
  BY <1>1, OneJob
<1>3. call'[c] = state /\ \A d \in Calls : d # c => call'[d] = call[d]
  BY <1>1 DEF TypeOK
<1>4. LivesOn
  BY DEF LivesOn, Ran
<1>5. job[c[1]].op \notin {"start", "stop"}
  BY DEF QueryOps, CheckOps
<1>6. NoneNew
  BY <1>2, <1>3, <1>5 DEF NoneNew
<1>7. \A i \in Jobs : FoundInv(i)'
  BY <1>1, <1>2, <1>4, <1>6, KeptFound
<1>8. GoodCall(c)'
  BY <1>2, <1>5 DEF GoodCall
<1> QED BY <1>3, <1>4, <1>6, <1>7, <1>8, Kept

\* A check at the docker daemon, and the list of a query.
LEMMA InvDockerLook ==
  ASSUME IInv, TypeOK', NEW c \in Calls, DockerCheck(c) \/ DockerList(c)
  PROVE  IInv'
<1>1. c[1] \in Jobs /\ job[c[1]] \in JobType /\ mode = "DirectDocker"
      /\ job[c[1]].op \in QueryOps \cup CheckOps /\ call[c] # "none"
  BY CallsOf DEF IInv, TypeOK, DockerCheck, DockerList, AtDocker
<1>2. CASE DockerCheck(c)
  <2> DEFINE found == job[c[1]].found \cup Named(c)
             r == [job[c[1]] EXCEPT !.found = found]
  <2>1. found \in SUBSET Apps
    BY <1>1, NamedType DEF JobType
  <2>2. \A a \in found : a \in job[c[1]].found \/ (a \in Apps /\ Ran(a))
    BY DEF Named, Here, QueryOps, CheckOps
  <2>3. /\ call' = [call EXCEPT ![c] = "ok"] /\ job' = [job EXCEPT ![c[1]] = r]
        /\ UNCHANGED <<mode, life, at, sent, out>>
    BY <1>2 DEF DockerCheck, AtDocker
  <2> HIDE DEF found
  <2>4. /\ r \in JobType /\ r.op = job[c[1]].op /\ r.apps = job[c[1]].apps
        /\ r.asked = job[c[1]].asked /\ r.nodes = job[c[1]].nodes
        /\ r.verdict = job[c[1]].verdict /\ r.found = found /\ r.todo = job[c[1]].todo
    BY <1>1, <2>1 DEF JobType
  <2> HIDE DEF r
  <2> QED BY <1>1, <2>2, <2>3, <2>4, KeptLook
<1>3. CASE DockerList(c)
  <2> DEFINE running == {a \in Here(c) : Up(a)}
             plain == job[c[1]].op = "query"
             found == IF plain THEN running ELSE {}
             todo == IF plain THEN {} ELSE running
             state == IF plain \/ running = {} THEN "ok" ELSE "inspect"
             r == [job[c[1]] EXCEPT !.found = found, !.todo = todo]
  <2>1. /\ found \in SUBSET Apps /\ todo \in SUBSET Apps /\ state \in {"inspect", "ok", "failed"}
        /\ \A a \in found \cup todo : a \in Apps /\ Ran(a)
    BY DEF Here
  <2>2. /\ call' = [call EXCEPT ![c] = state] /\ job' = [job EXCEPT ![c[1]] = r]
        /\ UNCHANGED <<mode, life, at, sent, out>>
    BY <1>3 DEF DockerList, AtDocker
  <2> HIDE DEF found, todo, state
  <2>3. /\ r \in JobType /\ r.op = job[c[1]].op /\ r.apps = job[c[1]].apps
        /\ r.asked = job[c[1]].asked /\ r.nodes = job[c[1]].nodes
        /\ r.verdict = job[c[1]].verdict /\ r.found = found /\ r.todo = todo
    BY <1>1, <2>1 DEF JobType
  <2> HIDE DEF r
  <2> QED BY <1>1, <2>1, <2>2, <2>3, KeptLook
<1> QED BY <1>2, <1>3

\* The inspection of one container, which its list has found running.
LEMMA InvDockerInspect ==
  ASSUME IInv, TypeOK', NEW c \in Calls, NEW a \in Apps,
         DockerInspect(c, a) \/ DockerInspectFails(c, a)
  PROVE  IInv'
<1>1. c[1] \in Jobs /\ job[c[1]] \in JobType /\ mode = "DirectDocker" /\ call[c] = "inspect"
      /\ job[c[1]].op \in QueryOps \cup CheckOps /\ a \in job[c[1]].todo
  BY CallsOf DEF IInv, TypeOK, DockerInspect, DockerInspectFails, AtDocker
<1>2. /\ job[c[1]].todo \ {a} \in SUBSET Apps /\ job[c[1]].skipped \cup {a} \in SUBSET Apps
      /\ job[c[1]].found \in SUBSET Apps /\ job[c[1]].fit \in SUBSET Apps
  BY <1>1 DEF JobType
<1>3. Ran(a)
  BY <1>1 DEF IInv, WorkInv, FoundInv, QueryOps, CheckOps
<1>4. PICK state \in {"inspect", "ok", "failed"} : call' = [call EXCEPT ![c] = state]
  <2>1. call = [call EXCEPT ![c] = "inspect"]
    BY <1>1 DEF IInv, TypeOK
  <2> QED BY <2>1 DEF DockerInspect, DockerInspectFails
<1>5. UNCHANGED <<mode, life, at, sent, out>>
  BY DEF DockerInspect, DockerInspectFails
<1>6. \E r \in JobType :
        /\ job' = [job EXCEPT ![c[1]] = r]
        /\ r.op = job[c[1]].op /\ r.apps = job[c[1]].apps
        /\ r.asked = job[c[1]].asked /\ r.nodes = job[c[1]].nodes
        /\ r.verdict = job[c[1]].verdict
        /\ r.found \subseteq job[c[1]].found \cup {a} /\ r.todo \subseteq job[c[1]].todo
  <2>1. CASE DockerInspect(c, a)
    <3> DEFINE found == job[c[1]].found \cup
                        (IF job[c[1]].op = "query_all" \/ Seen(job[c[1]].op, a) THEN {a} ELSE {})
               fit == job[c[1]].fit \cup (IF life[a] = "available" THEN {a} ELSE {})
               r == [job[c[1]] EXCEPT !.todo = job[c[1]].todo \ {a}, !.found = found, !.fit = fit]
    <3>1. found \in SUBSET Apps /\ fit \in SUBSET Apps /\ found \subseteq job[c[1]].found \cup {a}
      BY <1>2
    <3>2. job' = [job EXCEPT ![c[1]] = r]
      BY <2>1 DEF DockerInspect
    <3> HIDE DEF found, fit
    <3>3. r \in JobType
      BY <1>1, <1>2, <3>1 DEF JobType
    <3>4. /\ r.op = job[c[1]].op /\ r.apps = job[c[1]].apps
          /\ r.asked = job[c[1]].asked /\ r.nodes = job[c[1]].nodes
          /\ r.verdict = job[c[1]].verdict /\ r.found = found /\ r.todo = job[c[1]].todo \ {a}
      BY <1>1 DEF JobType
    <3> HIDE DEF r
    <3> QED BY <3>1, <3>2, <3>3, <3>4
  <2>2. CASE DockerInspectFails(c, a) /\ job[c[1]].op = "query_all"
    <3> DEFINE r == [job[c[1]] EXCEPT !.todo = {}, !.found = {}, !.fit = {}]
    <3>1. job' = [job EXCEPT ![c[1]] = r]
      BY <2>2 DEF DockerInspectFails
    <3>2. /\ r \in JobType /\ r.op = job[c[1]].op /\ r.apps = job[c[1]].apps
          /\ r.asked = job[c[1]].asked /\ r.nodes = job[c[1]].nodes
          /\ r.verdict = job[c[1]].verdict /\ r.found = {} /\ r.todo = {}
      BY <1>1 DEF JobType
    <3> HIDE DEF r
    <3> QED BY <3>1, <3>2
  <2>3. CASE DockerInspectFails(c, a) /\ job[c[1]].op # "query_all"
    <3> DEFINE r == [job[c[1]] EXCEPT !.todo = job[c[1]].todo \ {a},
                                      !.skipped = job[c[1]].skipped \cup {a}]
    <3>1. job' = [job EXCEPT ![c[1]] = r]
      BY <2>3 DEF DockerInspectFails
    <3>2. /\ r \in JobType /\ r.op = job[c[1]].op /\ r.apps = job[c[1]].apps
          /\ r.asked = job[c[1]].asked /\ r.nodes = job[c[1]].nodes
          /\ r.verdict = job[c[1]].verdict /\ r.found = job[c[1]].found
          /\ r.todo = job[c[1]].todo \ {a}
      BY <1>1, <1>2 DEF JobType
    <3> HIDE DEF r
    <3> QED BY <3>1, <3>2
  <2> QED BY <2>1, <2>2, <2>3
<1>7. PICK r \in JobType :
        /\ job' = [job EXCEPT ![c[1]] = r]
        /\ r.op = job[c[1]].op /\ r.apps = job[c[1]].apps
        /\ r.asked = job[c[1]].asked /\ r.nodes = job[c[1]].nodes
        /\ r.verdict = job[c[1]].verdict
        /\ r.found \subseteq job[c[1]].found \cup {a} /\ r.todo \subseteq job[c[1]].todo
  BY <1>6
<1>8. /\ \A b \in r.found : b \in job[c[1]].found \/ (b \in Apps /\ Ran(b))
      /\ \A b \in r.todo : b \in job[c[1]].todo \/ (b \in Apps /\ Ran(b))
  BY <1>3, <1>7
<1> QED BY <1>1, <1>4, <1>5, <1>7, <1>8, KeptLook

\* Containers by themselves.
LEMMA InvContainer ==
  ASSUME IInv, TypeOK', NEW a \in Apps, BecomesAvailable(a) \/ AppExits(a)
  PROVE  IInv'
<1>1. TypeOK /\ WorkInv /\ DoneInv /\ AnswerInv
  BY DEF IInv
<1>2. PICK l \in {"available", "gone"} : life' = [life EXCEPT ![a] = l]
  BY DEF BecomesAvailable, AppExits
<1>3. UNCHANGED <<mode, at, job, call, sent, out>> /\ Up(a)
  BY DEF BecomesAvailable, AppExits, Up
<1>4. life'[a] = l /\ \A b \in Apps : b # a => life'[b] = life[b]
  BY <1>1, <1>2 DEF TypeOK
<1>5. LivesOn
  BY <1>3, <1>4 DEF LivesOn, Ran, Up
<1>6. NoneNew
  <2>1. ASSUME NEW i \in Jobs, job[i].op = "start", NEW b \in job[i].todo PROVE life'[b] = life[b]
    <3>1. b \in Apps /\ life[b] = "named"
      BY <1>1, <2>1 DEF TypeOK, JobType, WorkInv, StartInv
    <3> QED BY <1>3, <1>4, <3>1 DEF Up
  <2> QED BY <1>3, <2>1 DEF NoneNew
<1>7. \A i \in Jobs : FoundInv(i)'
  BY <1>1, <1>3, <1>5, <1>6, KeptFound
<1>8. ASSUME NEW c \in Calls, mode = "DirectDocker", job[c[1]].op = "start",
             call[c] \in {"begun", "created"}
      PROVE  life'[c[2]] = life[c[2]]
  <2>1. c[2] # a /\ c[2] \in Apps
    BY <1>1, <1>3, <1>8, Targeted DEF DoneInv, GoodCall, Up, IInv
  <2> QED BY <1>4, <2>1
<1>9. mode # "DirectDocker" => \A b \in Apps : life'[b] # "created"
  BY <1>1, <1>4 DEF AnswerInv
<1> QED BY <1>3, <1>5, <1>6, <1>7, <1>8, <1>9, Kept

\* An operation returns.
LEMMA InvReturn == ASSUME IInv, TypeOK', NEW j \in Jobs, Return(j) PROVE IInv'
<1>1. TypeOK /\ WorkInv /\ AnswerInv /\ job[j] \in JobType
  BY DEF IInv, TypeOK
<1>2. PICK v \in {"ok", "err"} : job' = [job EXCEPT ![j] = [job[j] EXCEPT !.verdict = v]]
  BY DEF Return
<1>3. UNCHANGED <<mode, life, at, call, sent, out>>
  BY DEF Return
<1>4. \A i \in Jobs : i # j => job'[i] = job[i]
  BY <1>1, <1>2 DEF TypeOK
<1>5. /\ job'[j].op = job[j].op /\ job'[j].apps = job[j].apps /\ job'[j].verdict = v
      /\ job'[j].asked = job[j].asked /\ job'[j].nodes = job[j].nodes
      /\ job'[j].todo = job[j].todo /\ job'[j].found = job[j].found
  BY <1>1, <1>2 DEF TypeOK, JobType
<1>6. LivesOn
  BY <1>3 DEF LivesOn, Ran
<1>7. NoneNew
  <2>1. ASSUME NEW i \in Jobs
        PROVE  /\ job'[i].op = job[i].op /\ job'[i].apps = job[i].apps
               /\ job'[i].asked = job[i].asked /\ job'[i].nodes = job[i].nodes
               /\ job[i].verdict # "idle" => job'[i].verdict # "idle"
               /\ job'[i].todo = job[i].todo
    BY <1>4, <1>5
  <2> QED BY <1>3, <2>1 DEF NoneNew
<1>8. \A i \in Jobs : FoundInv(i)'
  <2>1. \A i \in Jobs : job'[i].found = job[i].found /\ job'[i].todo = job[i].todo
    BY <1>4, <1>5
  <2> QED BY <1>1, <1>6, <1>7, <2>1, KeptFound
<1>9. mode # "DirectDocker" => \A b \in Apps : life'[b] # "created"
  BY <1>1, <1>3 DEF AnswerInv
<1> QED BY <1>3, <1>6, <1>7, <1>8, <1>9, Kept

-----------------------------------------------------------------------------
(* Steps that begin something *)

\* An operation that has not begun has no goroutine.
LEMMA NoCalls ==
  ASSUME IInv, NEW j \in Jobs, job[j].verdict = "idle", NEW c \in Calls, call[c] # "none"
  PROVE  c[1] # j
BY DEF IInv, CallInv

\* An operation other than a start begins with all its goroutines.
BeginsWith(j, r, C) ==
    /\ job[j].verdict = "idle" /\ r.verdict = "busy" /\ r.op # "start"
    /\ r.todo = {} /\ r.found = {} /\ r.nodes = {}
    /\ \A c \in C : /\ c[1] = j
                    /\ r.op = "stop" => c[2] \in r.apps
                    /\ mode = "DirectDocker" => c[3] = Local
    /\ r.op = "stop" => /\ \A a \in r.apps : Ran(a)
                        /\ r.asked >= Cardinality(r.apps)
                        /\ mode = "DirectDocker" => \A a \in r.apps : <<j, a, Local>> \in C
    /\ job' = [job EXCEPT ![j] = r] /\ Open(C)
    /\ UNCHANGED <<mode, life, at, out, left>>

\* Then the invariant goes on to hold.
LEMMA InvBegun ==
  ASSUME IInv, TypeOK', NEW j \in Jobs, NEW r \in JobType, NEW C \in SUBSET Calls,
         BeginsWith(j, r, C)
  PROVE  IInv'
<1> SUFFICES ASSUME job[j].verdict = "idle", r.verdict = "busy", r.op # "start",
                    r.todo = {}, r.found = {}, r.nodes = {},
                    \A c \in C : /\ c[1] = j
                                 /\ r.op = "stop" => c[2] \in r.apps
                                 /\ mode = "DirectDocker" => c[3] = Local,
                    r.op = "stop" => /\ \A a \in r.apps : Ran(a)
                                     /\ r.asked >= Cardinality(r.apps)
                                     /\ mode = "DirectDocker"
                                          => \A a \in r.apps : <<j, a, Local>> \in C,
                    job' = [job EXCEPT ![j] = r], Open(C),
                    UNCHANGED <<mode, life, at, out, left>>
             PROVE  IInv'
  BY DEF BeginsWith
<1>1. TypeOK /\ CallInv /\ WorkInv /\ TargetInv /\ DoneInv /\ AnswerInv
  BY DEF IInv
<1>2. job'[j] = r /\ \A i \in Jobs : i # j => job'[i] = job[i]
  BY <1>1, OneJob
<1>3. \A c \in Calls : call'[c] = IF c \in C THEN "begun" ELSE call[c]
  BY <1>1, OpenType
<1>4. sent' \subseteq sent \cup C /\ (mode = "DirectDocker" => sent' = sent)
  BY DEF Open
<1>5. \A c \in Calls : c[1] \in Jobs /\ (call[c] # "none" => c[1] # j)
  BY CallsOf, NoCalls
<1>6. CallInv'
  <2>1. ASSUME NEW c \in Calls, call'[c] # "none" PROVE job'[c[1]].verdict # "idle"
    BY <1>1, <1>2, <1>3, <1>5, <2>1 DEF CallInv
  <2>2. ASSUME NEW c \in sent' PROVE call'[c] # "none" /\ mode' # "DirectDocker"
    <3>1. CASE c \in C
      BY <1>1, <1>3, <1>4, <2>2, <3>1 DEF CallInv
    <3>2. CASE c \in sent
      BY <1>1, <1>3, <3>2 DEF CallInv, TypeOK
    <3> QED BY <1>4, <3>1, <3>2
  <2> QED BY <2>1, <2>2 DEF CallInv
<1>7. WorkInv'
  <2>1. StartInv(j)' /\ FoundInv(j)'
    BY <1>2 DEF StartInv, FoundInv
  <2>2. StopInv(j)'
    <3>1. ASSUME r.op = "stop", mode = "DirectDocker", NEW a \in r.apps
          PROVE  call'[<<j, a, Local>>] # "none"
      BY <1>3, <3>1
    <3> QED BY <1>2, <3>1 DEF StopInv, Ran
  <2>3. ASSUME NEW i \in Jobs, i # j PROVE StartInv(i)' /\ StopInv(i)' /\ FoundInv(i)'
    <3>1. job'[i] = job[i] /\ StartInv(i) /\ StopInv(i) /\ FoundInv(i) /\ job[i].apps \in SUBSET Apps
      BY <1>1, <1>2, <2>3 DEF WorkInv, TypeOK, JobType
    <3>2. \A a \in Apps, n \in Nodes : <<i, a, n>> \in Calls
      BY DEF Calls, Targets
    <3>3. \A a \in Apps, n \in Nodes : call[<<i, a, n>>] # "none" => call'[<<i, a, n>>] # "none"
      BY <1>3, <3>2
    <3>4. StartInv(i)'
      <4> SUFFICES ASSUME job[i].op = "start" PROVE StartInv(i)'
        BY <3>1 DEF StartInv
      <4>1. \A k \in Jobs : job'[k].op = "start" => job'[k].op = job[k].op /\ job'[k].apps = job[k].apps
        BY <1>2
      <4>2. /\ job[i].todo \subseteq job[i].apps
            /\ \A a \in job[i].apps : life'[a] # "unused"
            /\ \A a \in job[i].todo : life'[a] = "named"
            /\ mode' = "DirectDocker" => job[i].nodes \subseteq {Local}
        BY <3>1 DEF StartInv
      <4>3. \A a \in job[i].apps \ job[i].todo : \E n \in Nodes : call'[<<i, a, n>>] # "none"
        BY <3>1, <3>3 DEF StartInv
      <4>4. \A k \in Jobs : k # i /\ job'[k].op = "start" => job'[k].apps \cap job[i].apps = {}
        BY <3>1, <4>1 DEF StartInv
      <4> QED BY <3>1, <4>2, <4>3, <4>4 DEF StartInv
    <3>5. StopInv(i)'
      <4>1. Local \in Nodes
        BY NodesAssumption
      <4> QED BY <3>1, <3>3, <4>1 DEF StopInv, Ran
    <3>6. FoundInv(i)'
      BY <3>1 DEF FoundInv, Ran
    <3> QED BY <3>4, <3>5, <3>6
  <2> QED BY <2>1, <2>2, <2>3 DEF WorkInv
<1>8. TargetInv'
  BY <1>1, <1>2, <1>3, <1>5 DEF TargetInv
<1>9. DoneInv'
  <2> SUFFICES ASSUME NEW c \in Calls PROVE GoodCall(c)'
    BY DEF DoneInv
  <2>1. CASE c[1] = j
    BY <1>2, <1>3, <1>5, <2>1 DEF GoodCall
  <2>2. CASE c[1] # j
    <3>1. call'[c] = call[c] /\ job'[c[1]] = job[c[1]] /\ GoodCall(c)
      BY <1>1, <1>2, <1>3, <1>5, <2>2 DEF DoneInv
    <3> QED BY <3>1 DEF GoodCall, Ran
  <2> QED BY <2>1, <2>2
<1>10. AnswerInv'
  <2>1. ASSUME NEW n \in Nodes PROVE GoodAnswer(n)'
    <3> SUFFICES ASSUME out[n] # None PROVE GoodAnswer(n)'
      BY DEF GoodAnswer
    <3>1. GoodAnswer(n) /\ out[n].from \in Calls
      BY <1>1 DEF AnswerInv, TypeOK, ReplyType
    <3>2. call[out[n].from] # "none"
      BY <3>1 DEF GoodAnswer
    <3>3. call'[out[n].from] # "none" /\ job'[out[n].from[1]] = job[out[n].from[1]]
      BY <1>2, <1>3, <1>5, <3>1, <3>2
    <3> QED BY <3>1, <3>3 DEF GoodAnswer, Ran
  <2> QED BY <1>1, <2>1 DEF AnswerInv
<1> QED BY <1>6, <1>7, <1>8, <1>9, <1>10 DEF IInv

\* A stop.
LEMMA InvBeginStop == ASSUME IInv, TypeOK', NEW j \in Jobs, BeginStop(j) PROVE IInv'
<1>1. PICK S \in SUBSET {a \in Apps : Ran(a)}, more \in {0, 1}, ns \in NodeSets :
        /\ job' = [job EXCEPT ![j] = [NoJob EXCEPT !.op = "stop", !.verdict = "busy", !.apps = S,
                                                   !.asked = Cardinality(S) + more]]
        /\ Open({j} \X S \X ns)
        /\ UNCHANGED <<mode, life, at, out, left>>
  BY DEF BeginStop
<1> DEFINE n == Cardinality(S) + more
           C == {j} \X S \X ns
           r == [NoJob EXCEPT !.op = "stop", !.verdict = "busy", !.apps = S, !.asked = n]
<1>2. n \in Nat /\ n >= Cardinality(S)
  <2>1. IsFiniteSet(S)
    BY NodesAssumption, FS_Subset
  <2> QED BY <2>1, FS_CardinalityType
<1>3. C \in SUBSET Calls /\ \A c \in C : c[1] = j /\ c[2] \in S /\ c[3] \in ns
  BY NodeSetsType DEF Calls, Targets
<1>4. mode = "DirectDocker" => ns = {Local} /\ \A a \in S : <<j, a, Local>> \in C
  BY DEF NodeSets
<1>5. job' = [job EXCEPT ![j] = r] /\ Open(C) /\ job[j].verdict = "idle"
  BY <1>1 DEF BeginStop, Begin
<1> HIDE DEF n
<1>6. /\ r \in JobType /\ r.verdict = "busy" /\ r.op = "stop" /\ r.apps = S /\ r.asked = n
      /\ r.todo = {} /\ r.found = {} /\ r.nodes = {}
  BY <1>2 DEF NoJob, JobType, AllOps
<1> HIDE DEF r, C
<1>7. \A c \in C : /\ c[1] = j
                   /\ r.op = "stop" => c[2] \in r.apps
                   /\ mode = "DirectDocker" => c[3] = Local
  BY <1>3, <1>4, <1>6
<1>8. r.op = "stop" => /\ \A a \in r.apps : Ran(a)
                       /\ r.asked >= Cardinality(r.apps)
                       /\ mode = "DirectDocker" => \A a \in r.apps : <<j, a, Local>> \in C
  BY <1>1, <1>2, <1>4, <1>6
<1>9. UNCHANGED <<mode, life, at, out, left>>
  BY <1>1
<1>10. BeginsWith(j, r, C)
  BY <1>3, <1>5, <1>6, <1>7, <1>8, <1>9 DEF BeginsWith
<1> QED BY <1>3, <1>6, <1>10, InvBegun

\* A query.
LEMMA InvBeginQuery ==
  ASSUME IInv, TypeOK', NEW j \in Jobs, NEW o \in QueryOps, BeginQuery(j, o) PROVE IInv'
<1>1. PICK ns \in NodeSets :
        /\ LET running == {a \in Apps : Up(a)}
               fit     == {a \in running : life[a] = "available"}
           IN job' = [job EXCEPT ![j] =
                 [NoJob EXCEPT !.op = o, !.verdict = "busy",
                     !.before = IF o = "query_available" THEN fit ELSE running,
                     !.fitBefore = IF o = "query_all" THEN fit ELSE {},
                     !.beyond = {a \in running : at[a] \notin ns},
                     !.crossed = \E n \in ns : /\ out[n] # None
                                               /\ SubjectOf(out[n].from) = Subject(o, <<j, Rev, n>>)]]
        /\ Open({j} \X {Rev} \X ns)
        /\ UNCHANGED <<mode, life, at, out, left>>
  BY DEF BeginQuery
<1> DEFINE running == {a \in Apps : Up(a)}
           fit == {a \in running : life[a] = "available"}
           before == IF o = "query_available" THEN fit ELSE running
           fitBefore == IF o = "query_all" THEN fit ELSE {}
           beyond == {a \in running : at[a] \notin ns}
           crossed == \E n \in ns : /\ out[n] # None
                                    /\ SubjectOf(out[n].from) = Subject(o, <<j, Rev, n>>)
           r == [NoJob EXCEPT !.op = o, !.verdict = "busy", !.before = before,
                              !.fitBefore = fitBefore, !.beyond = beyond, !.crossed = crossed]
           C == {j} \X {Rev} \X ns
<1>2. /\ before \in SUBSET Apps /\ fitBefore \in SUBSET Apps
      /\ beyond \in SUBSET Apps /\ crossed \in BOOLEAN
  OBVIOUS
<1>3. job' = [job EXCEPT ![j] = r] /\ Open(C) /\ job[j].verdict = "idle"
  BY <1>1 DEF BeginQuery, Begin
<1>4. mode = "DirectDocker" => ns = {Local}
  BY DEF NodeSets
<1>5. C \in SUBSET Calls /\ \A c \in C : c[1] = j /\ c[3] \in ns
  BY NodeSetsType DEF Calls, Targets
<1> HIDE DEF before, fitBefore, beyond, crossed
<1>6. /\ r \in JobType /\ r.verdict = "busy" /\ r.op = o
      /\ r.todo = {} /\ r.found = {} /\ r.nodes = {}
  BY <1>2 DEF NoJob, JobType, AllOps
<1>7. r.op \notin {"start", "stop"}
  BY <1>6 DEF QueryOps
<1> HIDE DEF r, C
<1>8. \A c \in C : /\ c[1] = j
                   /\ r.op = "stop" => c[2] \in r.apps
                   /\ mode = "DirectDocker" => c[3] = Local
  BY <1>4, <1>5, <1>7
<1>9. r.op = "stop" => /\ \A a \in r.apps : Ran(a)
                       /\ r.asked >= Cardinality(r.apps)
                       /\ mode = "DirectDocker" => \A a \in r.apps : <<j, a, Local>> \in C
  BY <1>7
<1>10. UNCHANGED <<mode, life, at, out, left>>
  BY <1>1
<1>11. BeginsWith(j, r, C)
  BY <1>3, <1>5, <1>6, <1>7, <1>8, <1>9, <1>10 DEF BeginsWith
<1> QED BY <1>5, <1>6, <1>11, InvBegun

\* A check.
LEMMA InvBeginCheck ==
  ASSUME IInv, TypeOK', NEW j \in Jobs, NEW o \in CheckOps, BeginCheck(j, o) PROVE IInv'
<1>1. PICK S \in SUBSET {a \in Apps : Ran(a)} :
        /\ job' = [job EXCEPT ![j] = [NoJob EXCEPT !.op = o, !.verdict = "busy", !.apps = S]]
        /\ CASE mode = "IndirectStar" -> Open({j} \X S \X Nodes)
             [] mode = "DirectStar"   -> \E f \in [S -> Nodes] : Open({<<j, a, f[a]>> : a \in S})
             [] OTHER                 -> \E T \in {S, {}} : Open({j} \X T \X {Local})
        /\ UNCHANGED <<mode, life, at, out, left>>
  BY DEF BeginCheck
<1>2. PICK C \in SUBSET Calls : /\ Open(C)
                                /\ \A c \in C : c[1] = j /\ (mode = "DirectDocker" => c[3] = Local)
  <2>1. CASE mode = "IndirectStar"
    <3>1. {j} \X S \X Nodes \in SUBSET Calls
      BY DEF Calls, Targets
    <3> QED BY <1>1, <2>1, <3>1
  <2>2. CASE mode = "DirectStar"
    <3>1. PICK f \in [S -> Nodes] : Open({<<j, a, f[a]>> : a \in S})
      BY <1>1, <2>2
    <3>2. {<<j, a, f[a]>> : a \in S} \in SUBSET Calls
      BY DEF Calls, Targets
    <3> QED BY <2>2, <3>1, <3>2
  <2>3. CASE mode \notin {"IndirectStar", "DirectStar"}
    <3>1. PICK T \in {S, {}} : Open({j} \X T \X {Local})
      BY <1>1, <2>3
    <3>2. {j} \X T \X {Local} \in SUBSET Calls
      BY NodesAssumption DEF Calls, Targets
    <3> QED BY <3>1, <3>2
  <2> QED BY <2>1, <2>2, <2>3
<1> DEFINE r == [NoJob EXCEPT !.op = o, !.verdict = "busy", !.apps = S]
<1>3. /\ r \in JobType /\ r.verdict = "busy" /\ r.op = o
      /\ r.todo = {} /\ r.found = {} /\ r.nodes = {}
  BY DEF NoJob, JobType, AllOps
<1>4. r.op \notin {"start", "stop"}
  BY <1>3 DEF CheckOps
<1>5. job' = [job EXCEPT ![j] = r] /\ job[j].verdict = "idle"
  BY <1>1 DEF BeginCheck, Begin
<1> HIDE DEF r
<1>6. \A c \in C : /\ c[1] = j
                   /\ r.op = "stop" => c[2] \in r.apps
                   /\ mode = "DirectDocker" => c[3] = Local
  BY <1>2, <1>4
<1>7. r.op = "stop" => /\ \A a \in r.apps : Ran(a)
                       /\ r.asked >= Cardinality(r.apps)
                       /\ mode = "DirectDocker" => \A a \in r.apps : <<j, a, Local>> \in C
  BY <1>4
<1>8. UNCHANGED <<mode, life, at, out, left>>
  BY <1>1
<1>9. BeginsWith(j, r, C)
  BY <1>2, <1>3, <1>4, <1>5, <1>6, <1>7, <1>8 DEF BeginsWith
<1> QED BY <1>2, <1>3, <1>9, InvBegun

\* A start takes names that nobody uses.
LEMMA InvBeginStart == ASSUME IInv, TypeOK', NEW j \in Jobs, BeginStart(j) PROVE IInv'
<1>1. PICK S \in SUBSET {a \in Apps : life[a] = "unused"}, ns \in NodeSets :
        /\ job' = [job EXCEPT ![j] = [NoJob EXCEPT !.op = "start", !.verdict = "busy", !.apps = S,
                                                   !.todo = S, !.batch = 1, !.nodes = ns]]
        /\ life' = [a \in Apps |-> IF a \in S THEN "named" ELSE life[a]]
        /\ UNCHANGED <<mode, at, call, sent, out, left>>
  BY DEF BeginStart
<1> DEFINE r == [NoJob EXCEPT !.op = "start", !.verdict = "busy", !.apps = S,
                              !.todo = S, !.batch = 1, !.nodes = ns]
<1>2. /\ r \in JobType /\ r.op = "start" /\ r.verdict = "busy" /\ r.apps = S /\ r.todo = S
      /\ r.found = {} /\ r.nodes = ns
  BY NodeSetsType DEF NoJob, JobType, AllOps
<1>3. job' = [job EXCEPT ![j] = r] /\ job[j].verdict = "idle"
  BY <1>1 DEF BeginStart, Begin
<1> HIDE DEF r
<1>4. UNCHANGED <<mode, at, call, sent, out, left>>
  BY <1>1
<1>5. \A a \in Apps : life'[a] = IF a \in S THEN "named" ELSE life[a]
  BY <1>1
<1>6. \A a \in S : a \in Apps /\ life[a] = "unused"
  OBVIOUS
<1>7. TypeOK /\ CallInv /\ WorkInv /\ TargetInv /\ DoneInv /\ AnswerInv
  BY DEF IInv
<1>8. job'[j] = r /\ \A i \in Jobs : i # j => job'[i] = job[i]
  BY <1>2, <1>3, <1>7, OneJob
<1>9. \A c \in Calls : c[1] \in Jobs /\ (call[c] # "none" => c[1] # j)
  BY <1>3, CallsOf, NoCalls
<1>10. \A a \in Apps : life[a] # "unused" => life'[a] = life[a]
  BY <1>5, <1>6
<1>11. CallInv'
  BY <1>4, <1>7, <1>8, <1>9 DEF CallInv
<1>12. StartInv(j)'
  <2>1. ASSUME NEW i \in Jobs, i # j, job[i].op = "start" PROVE job[i].apps \cap S = {}
    BY <1>6, <1>7, <2>1 DEF WorkInv, StartInv
  <2>2. \A a \in S : life'[a] = "named"
    BY <1>5, <1>6
  <2>3. mode' = "DirectDocker" => ns \subseteq {Local}
    BY <1>4 DEF NodeSets
  <2>4. \A i \in Jobs : i # j /\ job'[i].op = "start" => job'[i].apps \cap S = {}
    BY <1>8, <2>1
  <2> QED BY <1>2, <1>8, <2>2, <2>3, <2>4 DEF StartInv
<1>13. StopInv(j)' /\ FoundInv(j)'
  BY <1>2, <1>8 DEF StopInv, FoundInv
<1>14. ASSUME NEW i \in Jobs, i # j PROVE StartInv(i)' /\ StopInv(i)' /\ FoundInv(i)'
  <2>1. job'[i] = job[i] /\ StartInv(i) /\ StopInv(i) /\ FoundInv(i)
        /\ job[i].apps \in SUBSET Apps /\ job[i].todo \in SUBSET Apps /\ job[i].found \in SUBSET Apps
    BY <1>7, <1>8, <1>14 DEF WorkInv, TypeOK, JobType
  <2>2. StartInv(i)'
    <3> SUFFICES ASSUME job[i].op = "start" PROVE StartInv(i)'
      BY <2>1 DEF StartInv
    <3>1. /\ job[i].todo \subseteq job[i].apps
          /\ \A a \in job[i].apps : life'[a] # "unused"
          /\ \A a \in job[i].todo : life'[a] = "named"
          /\ mode' = "DirectDocker" => job[i].nodes \subseteq {Local}
          /\ \A a \in job[i].apps \ job[i].todo : \E n \in Nodes : call'[<<i, a, n>>] # "none"
      BY <1>4, <1>10, <2>1 DEF StartInv
    <3>2. \A k \in Jobs : k # i /\ job'[k].op = "start" => job'[k].apps \cap job[i].apps = {}
      <4>1. job'[j].apps = S /\ \A a \in job[i].apps : a \notin S
        BY <1>2, <1>6, <1>8, <2>1 DEF StartInv
      <4>2. ASSUME NEW k \in Jobs, k # i, job'[k].op = "start"
            PROVE  job'[k].apps \cap job[i].apps = {}
        BY <1>8, <2>1, <4>1, <4>2 DEF StartInv
      <4> QED BY <4>2
    <3> QED BY <2>1, <3>1, <3>2 DEF StartInv
  <2>3. \A a \in Apps : Ran(a) => Ran(a)'
    BY <1>10 DEF Ran
  <2>4. StopInv(i)'
    BY <1>4, <2>1, <2>3 DEF StopInv
  <2>5. FoundInv(i)'
    BY <2>1, <2>3 DEF FoundInv
  <2> QED BY <2>2, <2>4, <2>5
<1>15. TargetInv'
  BY <1>4, <1>7, <1>8, <1>9 DEF TargetInv
<1>16. ASSUME NEW c \in Calls, call[c] # "none", job[c[1]].op \in {"start", "stop"}
       PROVE  c[2] \in Apps /\ life'[c[2]] = life[c[2]]
  <2>1. c[2] \in Apps /\ life[c[2]] # "unused"
    BY <1>7, <1>16, Targeted DEF Ran
  <2> QED BY <1>10, <2>1
<1>17. DoneInv'
  <2> SUFFICES ASSUME NEW c \in Calls, call[c] # "none" PROVE GoodCall(c)'
    BY <1>4 DEF DoneInv, GoodCall
  <2>1. GoodCall(c) /\ job'[c[1]] = job[c[1]]
    BY <1>7, <1>8, <1>9 DEF DoneInv
  <2> QED BY <1>4, <1>16, <2>1 DEF GoodCall, Ran
<1>18. AnswerInv'
  <2>1. ASSUME NEW n \in Nodes, out[n] # None PROVE GoodAnswer(n)'
    <3> SUFFICES ASSUME NEW q, q = out[n], NEW d, d = out[n].from PROVE GoodAnswer(n)'
      OBVIOUS
    <3>1. q \in ReplyType /\ d \in Calls /\ q.found \in SUBSET Apps
      BY <1>7, <2>1 DEF TypeOK, ReplyType
    <3>2. /\ d[3] = n /\ call[d] # "none" /\ mode # "DirectDocker"
          /\ \A a \in q.found : Ran(a)
          /\ q.ok /\ job[d[1]].op = "start" => Ran(d[2])
          /\ q.ok /\ job[d[1]].op = "stop" => life[d[2]] = "gone" /\ at[d[2]] = n
      BY <1>7, <2>1 DEF AnswerInv, GoodAnswer
    <3>3. job'[d[1]] = job[d[1]]
      BY <1>8, <1>9, <3>1, <3>2
    <3>4. \A a \in q.found : Ran(a)'
      BY <1>10, <3>1, <3>2 DEF Ran
    <3>5. /\ q.ok /\ job[d[1]].op = "start" => Ran(d[2])'
          /\ q.ok /\ job[d[1]].op = "stop" => life'[d[2]] = "gone" /\ at'[d[2]] = n
      BY <1>4, <1>16, <3>1, <3>2 DEF Ran
    <3>6. out'[n] = q /\ out'[n].from = d
      BY <1>4
    <3> QED BY <1>4, <3>2, <3>3, <3>4, <3>5, <3>6 DEF GoodAnswer
  <2>2. \A n \in Nodes : GoodAnswer(n)'
    BY <1>4, <2>1 DEF GoodAnswer
  <2>3. mode' # "DirectDocker" => \A a \in Apps : life'[a] # "created"
    BY <1>4, <1>5, <1>7 DEF AnswerInv
  <2> QED BY <2>2, <2>3 DEF AnswerInv
<1>19. WorkInv'
  BY <1>12, <1>13, <1>14 DEF WorkInv
<1> QED BY <1>11, <1>15, <1>17, <1>18, <1>19 DEF IInv

\* The next batch of a start is about names that wait for it.
LEMMA InvNextBatch == ASSUME IInv, TypeOK', NEW j \in Jobs, NextBatch(j) PROVE IInv'
<1>1. PICK B \in SUBSET job[j].todo :
        /\ B # {}
        /\ \E f \in [B -> job[j].nodes] :
              /\ Open({<<j, a, f[a]>> : a \in B})
              /\ at' = [a \in Apps |-> IF a \in B THEN f[a] ELSE at[a]]
        /\ job' = [job EXCEPT ![j] = [job[j] EXCEPT !.todo = job[j].todo \ B,
                                                    !.batch = 2 * job[j].batch]]
  BY DEF NextBatch
<1>2. PICK f \in [B -> job[j].nodes] :
        /\ Open({<<j, a, f[a]>> : a \in B})
        /\ at' = [a \in Apps |-> IF a \in B THEN f[a] ELSE at[a]]
  BY <1>1
<1>3. TypeOK /\ CallInv /\ WorkInv /\ TargetInv /\ DoneInv /\ AnswerInv
  BY DEF IInv
<1>4. /\ job[j] \in JobType /\ job[j].todo \in SUBSET Apps /\ job[j].apps \in SUBSET Apps
      /\ job[j].nodes \in SUBSET Nodes /\ job[j].verdict = "busy"
  BY <1>3 DEF TypeOK, JobType, NextBatch
<1>5. job[j].op = "start"
  <2>1. job[j].nodes # {}
    BY <1>1, <1>2
  <2> QED BY <1>3, <2>1 DEF WorkInv, FoundInv
<1>6. /\ B \subseteq job[j].apps /\ job[j].todo \subseteq job[j].apps
      /\ \A a \in B : a \in Apps /\ life[a] = "named"
      /\ mode = "DirectDocker" => job[j].nodes \subseteq {Local}
  BY <1>3, <1>4, <1>5 DEF WorkInv, StartInv
<1> DEFINE C == {<<j, a, f[a]>> : a \in B}
<1>7. C \in SUBSET Calls /\ \A a \in B : <<j, a, f[a]>> \in C
  BY <1>4, <1>6 DEF Calls, Targets
<1>8. \A c \in C : c[1] = j /\ c[2] \in B /\ (mode = "DirectDocker" => c[3] = Local)
  BY <1>6
<1>9. Open(C)
  BY <1>2
<1> HIDE DEF C
<1>10. \A c \in Calls : call'[c] = IF c \in C THEN "begun" ELSE call[c]
  BY <1>3, <1>7, <1>9, OpenType
<1>11. \A a \in Apps : a \notin B => at'[a] = at[a]
  BY <1>2
<1>12. UNCHANGED <<mode, life, out>>
  BY DEF NextBatch
<1>13. /\ job'[j].todo = job[j].todo \ B /\ job'[j].op = "start" /\ job'[j].apps = job[j].apps
       /\ job'[j].found = job[j].found /\ job'[j].nodes = job[j].nodes
       /\ job'[j].verdict = "busy"
  BY <1>1, <1>3, <1>4, <1>5 DEF TypeOK, JobType
<1>14. \A i \in Jobs : i # j => job'[i] = job[i]
  BY <1>1, <1>3 DEF TypeOK
<1>15. sent' \subseteq sent \cup C /\ (mode = "DirectDocker" => sent' = sent)
  BY <1>9 DEF Open
<1>16. \A c \in Calls : c[1] \in Jobs /\ (call[c] # "none" => call'[c] # "none")
  BY <1>10, CallsOf
<1>17. CallInv'
  <2>1. ASSUME NEW c \in Calls, call'[c] # "none" PROVE job'[c[1]].verdict # "idle"
    BY <1>3, <1>8, <1>10, <1>13, <1>14, <1>16, <2>1 DEF CallInv
  <2>2. ASSUME NEW c \in sent' PROVE call'[c] # "none" /\ mode' # "DirectDocker"
    <3>1. CASE c \in C
      BY <1>3, <1>7, <1>10, <1>12, <1>15, <2>2, <3>1 DEF CallInv
    <3>2. CASE c \in sent
      BY <1>3, <1>12, <1>16, <3>2 DEF CallInv, TypeOK
    <3> QED BY <1>15, <3>1, <3>2
  <2> QED BY <2>1, <2>2 DEF CallInv
<1>18. \A i \in Jobs : job'[i].op = job[i].op /\ job'[i].apps = job[i].apps
                       /\ job'[i].asked = job[i].asked /\ job'[i].nodes = job[i].nodes
  <2>1. job'[j].asked = job[j].asked
    BY <1>1, <1>3, <1>4 DEF TypeOK, JobType
  <2> QED BY <1>5, <1>13, <1>14, <2>1
<1>19. WorkInv'
  <2> SUFFICES ASSUME NEW i \in Jobs PROVE StartInv(i)' /\ StopInv(i)' /\ FoundInv(i)'
    BY DEF WorkInv
  <2>1. StartInv(i) /\ StopInv(i) /\ FoundInv(i) /\ job[i].apps \in SUBSET Apps
    BY <1>3 DEF WorkInv, TypeOK, JobType
  <2>2. \A a \in Apps, n \in Nodes : <<i, a, n>> \in Calls
    BY DEF Calls, Targets
  <2>3. \A a \in Apps, n \in Nodes : call[<<i, a, n>>] # "none" => call'[<<i, a, n>>] # "none"
    BY <1>16, <2>2
  <2>4. StartInv(i)'
    <3> SUFFICES ASSUME job[i].op = "start" PROVE StartInv(i)'
      BY <1>18 DEF StartInv
    <3>1. job'[i].todo \subseteq job[i].todo
      BY <1>13, <1>14
    <3>2. ASSUME NEW a \in job[i].apps \ job'[i].todo PROVE \E n \in Nodes : call'[<<i, a, n>>] # "none"
      <4>1. CASE a \in job[i].todo
        <5>1. i = j /\ a \in B
          BY <1>13, <1>14, <3>2, <4>1
        <5>2. <<i, a, f[a]>> \in C /\ f[a] \in Nodes
          BY <1>4, <1>7, <5>1
        <5> QED BY <1>7, <1>10, <5>2
      <4>2. CASE a \notin job[i].todo
        BY <2>1, <2>3, <3>2, <4>2 DEF StartInv
      <4> QED BY <4>1, <4>2
    <3>3. /\ job'[i].todo \subseteq job[i].apps
          /\ \A a \in job[i].apps : life'[a] # "unused"
          /\ \A a \in job'[i].todo : life'[a] = "named"
          /\ mode' = "DirectDocker" => job[i].nodes \subseteq {Local}
      BY <1>12, <2>1, <3>1 DEF StartInv
    <3>4. \A k \in Jobs : k # i /\ job'[k].op = "start" => job'[k].apps \cap job[i].apps = {}
      BY <1>18, <2>1 DEF StartInv
    <3> QED BY <1>18, <3>2, <3>3, <3>4 DEF StartInv
  <2>5. StopInv(i)'
    <3>1. Local \in Nodes
      BY NodesAssumption
    <3> QED BY <1>12, <1>18, <2>1, <2>3, <3>1 DEF StopInv, Ran
  <2>6. FoundInv(i)'
    <3>1. job'[i].found = job[i].found /\ (job[i].op # "start" => job'[i].todo = job[i].todo)
      BY <1>5, <1>13, <1>14
    <3> QED BY <1>12, <1>18, <2>1, <3>1 DEF FoundInv, Ran
  <2> QED BY <2>4, <2>5, <2>6
<1>20. TargetInv'
  <2> SUFFICES ASSUME NEW c \in Calls, call'[c] # "none"
               PROVE  /\ job'[c[1]].op = "start" => c[2] \in job'[c[1]].apps \ job'[c[1]].todo
                      /\ job'[c[1]].op = "stop" => c[2] \in job'[c[1]].apps
                      /\ mode' = "DirectDocker" => c[3] = Local
    BY DEF TargetInv
  <2>1. CASE c \in C
    BY <1>6, <1>8, <1>12, <1>13, <2>1
  <2>2. CASE c \notin C
    <3>1. call[c] # "none" /\ c[1] \in Jobs
      BY <1>10, <1>16, <2>2
    <3>2. job'[c[1]].todo \subseteq job[c[1]].todo
      BY <1>13, <1>14, <3>1
    <3> QED BY <1>3, <1>12, <1>18, <3>1, <3>2 DEF TargetInv
  <2> QED BY <2>1, <2>2
<1>21. \A a \in Apps : life[a] = "gone" => at'[a] = at[a]
  BY <1>6, <1>11
<1>22. DoneInv'
  <2> SUFFICES ASSUME NEW c \in Calls PROVE GoodCall(c)'
    BY DEF DoneInv
  <2>1. CASE c \in C
    BY <1>6, <1>8, <1>10, <1>12, <1>13, <2>1 DEF GoodCall
  <2>2. CASE c \notin C
    <3>1. GoodCall(c) /\ call'[c] = call[c] /\ job'[c[1]].op = job[c[1]].op
      BY <1>3, <1>10, <1>16, <1>18, <2>2 DEF DoneInv
    <3>2. job[c[1]].op = "stop" /\ call[c] = "ok" => c[2] \in Apps
      BY <1>3, Targeted
    <3> QED BY <1>12, <1>21, <3>1, <3>2 DEF GoodCall, Ran
  <2> QED BY <2>1, <2>2
<1>23. AnswerInv'
  <2>1. ASSUME NEW n \in Nodes, out[n] # None PROVE GoodAnswer(n)'
    <3> SUFFICES ASSUME NEW q, q = out[n], NEW d, d = out[n].from PROVE GoodAnswer(n)'
      OBVIOUS
    <3>1. q \in ReplyType /\ d \in Calls /\ q.found \in SUBSET Apps
      BY <1>3, <2>1 DEF TypeOK, ReplyType
    <3>2. /\ d[3] = n /\ call[d] # "none" /\ mode # "DirectDocker"
          /\ \A a \in q.found : Ran(a)
          /\ q.ok /\ job[d[1]].op = "start" => Ran(d[2])
          /\ q.ok /\ job[d[1]].op = "stop" => life[d[2]] = "gone" /\ at[d[2]] = n
      BY <1>3, <2>1 DEF AnswerInv, GoodAnswer
    <3>3. job'[d[1]].op = job[d[1]].op /\ call'[d] # "none"
      BY <1>16, <1>18, <3>1, <3>2
    <3>4. q.ok /\ job[d[1]].op = "stop" => at'[d[2]] = n
      BY <1>3, <1>21, <3>1, <3>2, Targeted
    <3>5. out'[n] = q /\ out'[n].from = d
      BY <1>12
    <3> QED BY <1>12, <3>2, <3>3, <3>4, <3>5 DEF GoodAnswer, Ran
  <2>2. \A n \in Nodes : GoodAnswer(n)'
    BY <1>12, <2>1 DEF GoodAnswer
  <2> QED BY <1>3, <1>12, <2>2 DEF AnswerInv
<1> QED BY <1>17, <1>19, <1>20, <1>22, <1>23 DEF IInv

\* Every step keeps the invariant.
LEMMA NextInv == IInv /\ [Next]_vars => IInv'
<1> SUFFICES ASSUME IInv, [Next]_vars PROVE IInv'
  OBVIOUS
<1>1. TypeOK'
  BY NextType DEF IInv
<1>2. ASSUME NEW j \in Jobs,
             \/ BeginStart(j) \/ BeginStop(j)
             \/ \E o \in QueryOps : BeginQuery(j, o)
             \/ \E o \in CheckOps : BeginCheck(j, o)
             \/ NextBatch(j) \/ Return(j)
      PROVE  IInv'
  BY <1>1, <1>2, InvBeginStart, InvBeginStop, InvBeginQuery, InvBeginCheck, InvNextBatch, InvReturn
<1>3. ASSUME NEW c \in Calls,
             \/ Subscribe(c) \/ CallFails(c) \/ Timeout(c)
             \/ LoseCommand(c) \/ Handle(c) \/ Refuse(c)
             \/ DockerCreate(c) \/ DockerStart(c) \/ DockerStop(c) \/ DockerCheck(c)
             \/ DockerList(c) \/ DockerFails(c)
             \/ \E a \in Apps : DockerInspect(c, a) \/ DockerInspectFails(c, a)
      PROVE  IInv'
  BY <1>1, <1>3, InvCaller, InvAgent, InvDockerLife, InvDockerLook, InvDockerInspect
<1>4. ASSUME NEW n \in Nodes, Answer(n) PROVE IInv'
  BY <1>1, <1>4, InvAnswer
<1>5. ASSUME NEW a \in Apps, BecomesAvailable(a) \/ AppExits(a) PROVE IInv'
  BY <1>1, <1>5, InvContainer
<1>6. CASE UNCHANGED vars
  <2>1. UNCHANGED <<mode, life, at, job, call, sent, out>>
    BY <1>6 DEF vars
  <2>2. LivesOn /\ NoneNew
    BY <2>1 DEF LivesOn, NoneNew, Ran
  <2>3. \A i \in Jobs : FoundInv(i)'
    BY <2>1 DEF IInv, WorkInv, FoundInv, Ran
  <2>4. mode # "DirectDocker" => \A a \in Apps : life'[a] # "created"
    BY <2>1 DEF IInv, AnswerInv
  <2> QED BY <1>1, <2>1, <2>2, <2>3, <2>4, Kept
<1> QED BY <1>2, <1>3, <1>4, <1>5, <1>6 DEF Next

-----------------------------------------------------------------------------
(* The contract *)

\* What the callers see.
Phases == [a \in Apps |-> Phase(life[a])]
Goals == [j \in Jobs |-> [kind |-> KindOf(job[j].op), apps |-> job[j].apps]]
Verdicts == [j \in Jobs |-> job[j].verdict]
Listings == [j \in Jobs |-> IF job[j].verdict = "ok" THEN job[j].found ELSE {}]
Heeded == mode # "DirectStar"

\* Containers that look the same.
LEMMA SamePhases ==
  ASSUME \A a \in Apps : Phase(life'[a]) = Phase(life[a])
  PROVE  Phases' = Phases
BY DEF Phases

\* Operations that look the same.
LEMMA SameOps ==
  ASSUME \A i \in Jobs : /\ job'[i].op = job[i].op /\ job'[i].apps = job[i].apps
                         /\ job'[i].verdict = job[i].verdict
                         /\ job[i].verdict = "ok" => job'[i].found = job[i].found
  PROVE  Goals' = Goals /\ Verdicts' = Verdicts /\ Listings' = Listings
<1>1. Goals' = Goals
  BY DEF Goals
<1>2. Verdicts' = Verdicts
  BY DEF Verdicts
<1>3. Listings' = Listings
  BY DEF Listings
<1> QED BY <1>1, <1>2, <1>3

\* Then nothing has happened.
LEMMA Stutters ==
  ASSUME Phases' = Phases, Goals' = Goals, Verdicts' = Verdicts, Listings' = Listings, mode' = mode
  PROVE  UNCHANGED Contract!vars
BY DEF Contract!vars, Phases, Goals, Verdicts, Listings

\* A container comes.
LEMMA Comes ==
  ASSUME TypeOK, NEW a \in Apps, life[a] \in {"named", "created"},
         life' = [life EXCEPT ![a] = "up"],
         Goals' = Goals, Verdicts' = Verdicts, Listings' = Listings, mode' = mode
  PROVE  Contract!Next
<1>1. Phases' = [Phases EXCEPT ![a] = "runs"]
  BY DEF TypeOK, Phases, Phase
<1>2. Phases[a] = "asked"
  BY DEF Phases, Phase
<1>3. Contract!Comes(a)
  BY <1>1, <1>2 DEF Contract!Comes, Phases, Goals, Verdicts, Listings
<1> QED BY <1>3 DEF Contract!Next

\* A container goes, or was gone.
LEMMA Goes ==
  ASSUME TypeOK, NEW a \in Apps, Ran(a), life' = [life EXCEPT ![a] = "gone"],
         Goals' = Goals, Verdicts' = Verdicts, Listings' = Listings, mode' = mode
  PROVE  [Contract!Next]_(Contract!vars)
<1>1. CASE Up(a)
  <2>1. Phases' = [Phases EXCEPT ![a] = "over"]
    BY DEF TypeOK, Phases, Phase
  <2>2. Phases[a] = "runs"
    BY <1>1 DEF Phases, Phase, Up
  <2>3. Contract!Goes(a)
    BY <2>1, <2>2 DEF Contract!Goes, Phases, Goals, Verdicts, Listings
  <2> QED BY <2>3 DEF Contract!Next
<1>2. CASE life[a] = "gone"
  <2>1. Phases' = Phases
    BY <1>2, SamePhases DEF TypeOK
  <2> QED BY <2>1, Stutters
<1> QED BY <1>1, <1>2 DEF Ran, Up

\* An operation begins.
LEMMA Begins ==
  ASSUME TypeOK, NEW j \in Jobs, job[j].verdict = "idle",
         NEW r \in JobType, r.verdict = "busy", r.op # "none", job' = [job EXCEPT ![j] = r],
         r.op = "start" => \A a \in r.apps : life[a] = "unused",
         \A a \in Apps : life'[a] = IF r.op = "start" /\ a \in r.apps THEN "named" ELSE life[a],
         mode' = mode
  PROVE  Contract!Next
<1> DEFINE kind == KindOf(r.op)
<1>1. job'[j] = r /\ \A i \in Jobs : i # j => job'[i] = job[i]
  BY OneJob
<1>2. kind \in Contract!Kinds /\ (kind = "start" <=> r.op = "start")
  BY DEF KindOf, Contract!Kinds
<1>3. r.apps \in SUBSET Apps
  BY DEF JobType
<1>4. Verdicts' = [Verdicts EXCEPT ![j] = "busy"] /\ Verdicts[j] = "idle"
  <2>1. Verdicts' = [i \in Jobs |-> job'[i].verdict] /\ Verdicts = [i \in Jobs |-> job[i].verdict]
    BY DEF Verdicts
  <2>2. \A i \in Jobs : job'[i].verdict = IF i = j THEN "busy" ELSE job[i].verdict
    BY <1>1
  <2> QED BY <2>1, <2>2
<1>5. Goals' = [Goals EXCEPT ![j] = [kind |-> kind, apps |-> r.apps]]
  BY <1>1 DEF Goals
<1>6. Listings' = Listings
  BY <1>1 DEF Listings
<1>7. Phases' = [a \in Apps |-> IF kind = "start" /\ a \in r.apps THEN "asked" ELSE Phases[a]]
  BY <1>2 DEF Phases, Phase
<1>8. kind = "start" => \A a \in r.apps : Phases[a] = "unasked"
  BY <1>2, <1>3 DEF Phases, Phase
<1> HIDE DEF kind
<1>9. Contract!Begin(j, kind, r.apps)
  BY <1>4, <1>5, <1>6, <1>7, <1>8 DEF Contract!Begin, Phases, Goals, Verdicts, Listings
<1> QED BY <1>2, <1>3, <1>9 DEF Contract!Next

\* A start that succeeds has had a goroutine succeed for every name.
LEMMA StartDone ==
  ASSUME IInv, NEW j \in Jobs, Finished(j), job[j].todo = {} \/ Fails(j), Succeeds(j),
         job[j].op = "start"
  PROVE  \A a \in job[j].apps : Ran(a)
<1>1. ~Fails(j) /\ job[j].todo = {}
  BY DEF Succeeds
<1> SUFFICES ASSUME NEW a \in job[j].apps PROVE Ran(a)
  OBVIOUS
<1>2. StartInv(j) /\ a \in Apps
  BY DEF IInv, WorkInv, TypeOK, JobType
<1>3. PICK n \in Nodes : call[<<j, a, n>>] # "none"
  BY <1>1, <1>2 DEF StartInv
<1>4. <<j, a, n>> \in Of(j)
  BY <1>2, <1>3 DEF Of, Calls, Targets
<1>5. call[<<j, a, n>>] = "ok"
  BY <1>1, <1>4 DEF Finished, Fails
<1>6. GoodCall(<<j, a, n>>)
  BY <1>4 DEF IInv, DoneInv, Of
<1> QED BY <1>5, <1>6 DEF GoodCall

\* A stop that has succeeded often enough has succeeded for every container: a stop
\* succeeds on a container's own node, so no two of them are about the same one.
LEMMA EnoughStops ==
  ASSUME IInv, NEW j \in Jobs, job[j].op = "stop", Enough(j)
  PROVE  \A a \in job[j].apps : life[a] = "gone"
<1> DEFINE S == job[j].apps
           D == {a \in S : <<j, a, at[a]>> \in Oks(j)}
           g == [a \in D |-> <<j, a, at[a]>>]
<1>1. S \in SUBSET Apps /\ job[j].asked \in Nat /\ job[j].asked >= Cardinality(S)
  BY DEF IInv, TypeOK, JobType, WorkInv, StopInv
<1>2. IsFiniteSet(S) /\ Cardinality(S) \in Nat
  BY <1>1, NodesAssumption, FS_Subset, FS_CardinalityType
<1>3. IsFiniteSet(D) /\ Cardinality(D) \in Nat /\ Cardinality(D) <= Cardinality(S)
      /\ (Cardinality(S) = Cardinality(D) => S = D)
  <2>1. D \in SUBSET S
    OBVIOUS
  <2> HIDE DEF S, D
  <2> QED BY <1>2, <2>1, FS_Subset, FS_CardinalityType
<1>4. \A c \in Oks(j) : c[2] \in S /\ life[c[2]] = "gone" /\ c = <<j, c[2], at[c[2]]>>
  <2> SUFFICES ASSUME NEW c \in Oks(j)
               PROVE  c[2] \in S /\ life[c[2]] = "gone" /\ c = <<j, c[2], at[c[2]]>>
    OBVIOUS
  <2>1. c \in Calls /\ c[1] = j /\ call[c] = "ok"
    BY DEF Oks, Of
  <2>2. GoodCall(c) /\ c[2] \in S
    BY <2>1 DEF IInv, DoneInv, TargetInv
  <2> QED BY <2>1, <2>2, CallsOf DEF GoodCall
<1>5. g \in Surjection(D, Oks(j))
  <2>1. \A a \in D : <<j, a, at[a]>> \in Oks(j)
    OBVIOUS
  <2>2. \A c \in Oks(j) : c[2] \in D /\ c = <<j, c[2], at[c[2]]>>
    BY <1>4
  <2> HIDE DEF D
  <2>3. g \in [D -> Oks(j)]
    BY <2>1
  <2>4. \A c \in Oks(j) : \E a \in D : g[a] = c
    BY <2>2
  <2> HIDE DEF g
  <2> QED BY <2>3, <2>4 DEF Surjection
<1>6. IsFiniteSet(Oks(j)) /\ Cardinality(Oks(j)) <= Cardinality(D) /\ Cardinality(Oks(j)) \in Nat
  <2> HIDE DEF D, g
  <2> QED BY <1>3, <1>5, FS_Surjection, FS_CardinalityType
<1>7. Cardinality(Oks(j)) >= job[j].asked
  BY DEF Enough
<1>8. S = D
  <2> HIDE DEF S, D
  <2> QED BY <1>1, <1>2, <1>3, <1>6, <1>7
<1>9. \A a \in S : <<j, a, at[a]>> \in Oks(j)
  BY <1>8
<1> QED BY <1>4, <1>9

\* An operation that succeeds has done its work.
LEMMA ReallyDone ==
  ASSUME IInv, NEW j \in Jobs, Finished(j), job[j].todo = {} \/ Fails(j), Succeeds(j)
  PROVE  Contract!Done(j)
<1>1. job[j].apps \in SUBSET Apps
  BY DEF IInv, TypeOK, JobType
<1>2. ASSUME job[j].op = "start" PROVE \A a \in job[j].apps : Phases[a] \in {"runs", "over"}
  <2>1. \A a \in job[j].apps : Ran(a)
    BY <1>2, StartDone
  <2> QED BY <1>1, <2>1 DEF Phases, Phase, Ran
<1>3. ASSUME job[j].op = "stop", Heeded PROVE \A a \in job[j].apps : Phases[a] = "over"
  <2>1. CASE mode = "IndirectStar"
    <3>1. job[j].apps = {} \/ Enough(j)
      BY <1>3, <2>1 DEF Succeeds
    <3>2. \A a \in job[j].apps : life[a] = "gone"
      BY <1>3, <3>1, EnoughStops
    <3> QED BY <1>1, <3>2 DEF Phases, Phase
  <2>2. CASE mode = "DirectDocker"
    <3> SUFFICES ASSUME NEW a \in job[j].apps PROVE FALSE
      OBVIOUS
    <3>1. ~Fails(j)
      BY <1>3, <2>2 DEF Succeeds
    <3>2. <<j, a, Local>> \in Calls /\ call[<<j, a, Local>>] # "none"
      BY <1>1, <1>3, <2>2, NodesAssumption DEF IInv, WorkInv, StopInv, Calls, Targets
    <3>3. call[<<j, a, Local>>] = "ok"
      BY <3>1, <3>2 DEF Finished, Fails, Of
    <3>4. GoodCall(<<j, a, Local>>)
      BY <3>2 DEF IInv, DoneInv
    <3> QED BY <1>3, <2>2, <3>3, <3>4 DEF GoodCall
  <2> QED BY <1>3, <2>1, <2>2 DEF Heeded, IInv, TypeOK, AllModes
<1>4. /\ Goals[j].kind = "start" => job[j].op = "start"
      /\ Goals[j].kind = "stop" => job[j].op = "stop"
      /\ Goals[j].apps = job[j].apps
  BY DEF Goals, KindOf
<1> QED BY <1>2, <1>3, <1>4 DEF Contract!Done, Goals, Phases, Heeded

\* Its answer names what has run; a failure says nothing.
LEMMA StepReturn ==
  ASSUME IInv, NEW j \in Jobs, Return(j)
  PROVE  Contract!Next
<1>1. /\ job[j].verdict = "busy" /\ Finished(j) /\ (job[j].todo = {} \/ Fails(j))
      /\ job' = [job EXCEPT ![j] = [job[j] EXCEPT !.verdict = IF Succeeds(j) THEN "ok" ELSE "err"]]
      /\ UNCHANGED <<mode, life>>
  BY DEF Return
<1>2. job[j] \in JobType
  BY DEF IInv, TypeOK
<1>3. /\ job'[j].op = job[j].op /\ job'[j].apps = job[j].apps /\ job'[j].found = job[j].found
      /\ job'[j].verdict = IF Succeeds(j) THEN "ok" ELSE "err"
      /\ \A i \in Jobs : i # j => job'[i] = job[i]
  BY <1>1, <1>2 DEF IInv, TypeOK, JobType
<1>4. Phases' = Phases
  BY <1>1 DEF Phases
<1>5. Goals' = Goals
  <2>1. \A i \in Jobs : job'[i].op = job[i].op /\ job'[i].apps = job[i].apps
    BY <1>3
  <2> QED BY <2>1 DEF Goals
<1>6. Verdicts[j] = "busy"
  BY <1>1 DEF Verdicts
<1>7. CASE Succeeds(j)
  <2>1. Contract!Done(j)
    BY <1>1, <1>7, ReallyDone
  <2>2. PICK S \in SUBSET Apps : S = job[j].found
    BY <1>2 DEF JobType
  <2>3. Verdicts' = [Verdicts EXCEPT ![j] = "ok"]
    <3>1. \A i \in Jobs : job'[i].verdict = IF i = j THEN "ok" ELSE job[i].verdict
      BY <1>3, <1>7
    <3> QED BY <3>1 DEF Verdicts
  <2>4. Listings' = [Listings EXCEPT ![j] = S]
    BY <1>3, <1>7, <2>2 DEF Listings
  <2>5. \A a \in S : Phases[a] \in {"runs", "over"}
    BY <2>2 DEF IInv, WorkInv, FoundInv, Phases, Phase, Ran
  <2>6. Contract!SaysOk(j, S)
    BY <1>1, <1>4, <1>5, <1>6, <2>1, <2>3, <2>4, <2>5
       DEF Contract!SaysOk, Phases, Goals, Verdicts, Listings
  <2> QED BY <2>6 DEF Contract!Next
<1>8. CASE ~Succeeds(j)
  <2>1. Verdicts' = [Verdicts EXCEPT ![j] = "err"]
    <3>1. \A i \in Jobs : job'[i].verdict = IF i = j THEN "err" ELSE job[i].verdict
      BY <1>3, <1>8
    <3> QED BY <3>1 DEF Verdicts
  <2>2. Listings' = Listings
    BY <1>1, <1>3, <1>8 DEF Listings
  <2>3. Contract!SaysErr(j)
    BY <1>1, <1>4, <1>5, <1>6, <2>1, <2>2 DEF Contract!SaysErr, Phases, Goals, Verdicts, Listings
  <2> QED BY <2>3 DEF Contract!Next
<1> QED BY <1>7, <1>8

\* Operations begin.
LEMMA StepBegin ==
  ASSUME TypeOK, NEW j \in Jobs,
         \/ BeginStart(j) \/ BeginStop(j)
         \/ \E o \in QueryOps : BeginQuery(j, o)
         \/ \E o \in CheckOps : BeginCheck(j, o)
  PROVE  Contract!Next
<1>1. job[j].verdict = "idle" /\ mode' = mode
  BY DEF BeginStart, BeginStop, BeginQuery, BeginCheck, Begin
<1>2. CASE BeginStart(j)
  <2>1. PICK S \in SUBSET {a \in Apps : life[a] = "unused"}, ns \in NodeSets :
          /\ job' = [job EXCEPT ![j] = [NoJob EXCEPT !.op = "start", !.verdict = "busy", !.apps = S,
                                                     !.todo = S, !.batch = 1, !.nodes = ns]]
          /\ life' = [a \in Apps |-> IF a \in S THEN "named" ELSE life[a]]
    BY <1>2 DEF BeginStart
  <2> DEFINE r == [NoJob EXCEPT !.op = "start", !.verdict = "busy", !.apps = S,
                                !.todo = S, !.batch = 1, !.nodes = ns]
  <2>2. r \in JobType /\ r.op = "start" /\ r.verdict = "busy" /\ r.apps = S
    BY NodeSetsType DEF NoJob, JobType, AllOps
  <2>3. job' = [job EXCEPT ![j] = r]
    BY <2>1
  <2> HIDE DEF r
  <2>4. \A a \in r.apps : life[a] = "unused"
    BY <2>2
  <2>5. \A a \in Apps : life'[a] = IF r.op = "start" /\ a \in r.apps THEN "named" ELSE life[a]
    BY <2>1, <2>2
  <2> QED BY <1>1, <2>2, <2>3, <2>4, <2>5, Begins
<1>3. ASSUME NEW r \in JobType, r.verdict = "busy", r.op \notin {"none", "start"},
             job' = [job EXCEPT ![j] = r], life' = life
      PROVE  Contract!Next
  BY <1>1, <1>3, Begins
<1>4. CASE BeginStop(j)
  <2>1. PICK S \in SUBSET {a \in Apps : Ran(a)}, more \in {0, 1} :
          job' = [job EXCEPT ![j] = [NoJob EXCEPT !.op = "stop", !.verdict = "busy", !.apps = S,
                                                  !.asked = Cardinality(S) + more]]
    BY <1>4 DEF BeginStop
  <2> DEFINE n == Cardinality(S) + more
             r == [NoJob EXCEPT !.op = "stop", !.verdict = "busy", !.apps = S, !.asked = n]
  <2>2. n \in Nat
    <3>1. IsFiniteSet(S)
      BY NodesAssumption, FS_Subset
    <3> QED BY <3>1, FS_CardinalityType
  <2>3. job' = [job EXCEPT ![j] = r] /\ life' = life
    BY <1>4, <2>1 DEF BeginStop
  <2> HIDE DEF n
  <2>4. r \in JobType /\ r.verdict = "busy" /\ r.op = "stop"
    BY <2>2 DEF NoJob, JobType, AllOps
  <2> HIDE DEF r
  <2> QED BY <1>3, <2>3, <2>4
<1>5. ASSUME NEW o \in QueryOps, BeginQuery(j, o) PROVE Contract!Next
  <2>1. PICK ns \in NodeSets :
          LET running == {a \in Apps : Up(a)}
              fit     == {a \in running : life[a] = "available"}
          IN job' = [job EXCEPT ![j] =
                [NoJob EXCEPT !.op = o, !.verdict = "busy",
                    !.before = IF o = "query_available" THEN fit ELSE running,
                    !.fitBefore = IF o = "query_all" THEN fit ELSE {},
                    !.beyond = {a \in running : at[a] \notin ns},
                    !.crossed = \E n \in ns : /\ out[n] # None
                                              /\ SubjectOf(out[n].from) = Subject(o, <<j, Rev, n>>)]]
    BY <1>5 DEF BeginQuery
  <2> DEFINE running == {a \in Apps : Up(a)}
             fit == {a \in running : life[a] = "available"}
             before == IF o = "query_available" THEN fit ELSE running
             fitBefore == IF o = "query_all" THEN fit ELSE {}
             beyond == {a \in running : at[a] \notin ns}
             crossed == \E n \in ns : /\ out[n] # None
                                      /\ SubjectOf(out[n].from) = Subject(o, <<j, Rev, n>>)
             r == [NoJob EXCEPT !.op = o, !.verdict = "busy", !.before = before,
                                !.fitBefore = fitBefore, !.beyond = beyond, !.crossed = crossed]
  <2>2. /\ before \in SUBSET Apps /\ fitBefore \in SUBSET Apps
      /\ beyond \in SUBSET Apps /\ crossed \in BOOLEAN
    OBVIOUS
  <2>3. job' = [job EXCEPT ![j] = r] /\ life' = life
    BY <1>5, <2>1 DEF BeginQuery
  <2> HIDE DEF before, fitBefore, beyond, crossed
  <2>4. r \in JobType /\ r.verdict = "busy" /\ r.op = o
    BY <2>2 DEF NoJob, JobType, AllOps
  <2>5. r.op \notin {"none", "start"}
    BY <2>4 DEF QueryOps
  <2> HIDE DEF r
  <2> QED BY <1>3, <2>3, <2>4, <2>5
<1>6. ASSUME NEW o \in CheckOps, BeginCheck(j, o) PROVE Contract!Next
  <2>1. PICK S \in SUBSET {a \in Apps : Ran(a)} :
          job' = [job EXCEPT ![j] = [NoJob EXCEPT !.op = o, !.verdict = "busy", !.apps = S]]
    BY <1>6 DEF BeginCheck
  <2> DEFINE r == [NoJob EXCEPT !.op = o, !.verdict = "busy", !.apps = S]
  <2>2. r \in JobType /\ r.verdict = "busy" /\ r.op = o
    BY DEF NoJob, JobType, AllOps
  <2>3. job' = [job EXCEPT ![j] = r] /\ life' = life
    BY <1>6, <2>1 DEF BeginCheck
  <2>4. r.op \notin {"none", "start"}
    BY <2>2 DEF CheckOps
  <2> HIDE DEF r
  <2> QED BY <1>3, <2>2, <2>3, <2>4
<1> QED BY <1>2, <1>4, <1>5, <1>6

\* What goes on between callers and agents, nobody sees.
LEMMA Unseen ==
  ASSUME \A a \in Apps : Phase(life'[a]) = Phase(life[a]),
         \A i \in Jobs : /\ job'[i].op = job[i].op /\ job'[i].apps = job[i].apps
                         /\ job'[i].verdict = job[i].verdict
                         /\ job[i].verdict = "ok" => job'[i].found = job[i].found,
         mode' = mode
  PROVE  [Contract!Next]_(Contract!vars)
<1>1. Phases' = Phases
  BY SamePhases
<1>2. Goals' = Goals /\ Verdicts' = Verdicts /\ Listings' = Listings
  BY SameOps
<1> QED BY <1>1, <1>2, Stutters

\* The next batch.
LEMMA StepBatch ==
  ASSUME IInv, NEW j \in Jobs, NextBatch(j) PROVE [Contract!Next]_(Contract!vars)
<1>1. PICK B : job' = [job EXCEPT ![j] = [job[j] EXCEPT !.todo = job[j].todo \ B,
                                                        !.batch = 2 * job[j].batch]]
  BY DEF NextBatch
<1>2. UNCHANGED <<mode, life>>
  BY DEF NextBatch
<1>3. job[j] \in JobType
  BY DEF IInv, TypeOK
<1>4. /\ job'[j].op = job[j].op /\ job'[j].apps = job[j].apps
      /\ job'[j].verdict = job[j].verdict /\ job'[j].found = job[j].found
  BY <1>1, <1>3 DEF IInv, TypeOK, JobType
<1>5. \A i \in Jobs : i # j => job'[i] = job[i]
  BY <1>1 DEF IInv, TypeOK
<1>6. \A i \in Jobs : /\ job'[i].op = job[i].op /\ job'[i].apps = job[i].apps
                      /\ job'[i].verdict = job[i].verdict /\ job'[i].found = job[i].found
  BY <1>4, <1>5
<1> QED BY <1>2, <1>6, Unseen

\* The agents get containers started and stopped.
LEMMA StepAgent ==
  ASSUME IInv, NEW c \in Calls,
         Subscribe(c) \/ CallFails(c) \/ Timeout(c) \/ LoseCommand(c) \/ Handle(c) \/ Refuse(c)
  PROVE  [Contract!Next]_(Contract!vars)
<1>1. UNCHANGED <<mode, job>>
  BY DEF Subscribe, CallFails, Timeout, LoseCommand, Handle, Refuse
<1>2. Goals' = Goals /\ Verdicts' = Verdicts /\ Listings' = Listings
  BY <1>1, SameOps
<1>3. CASE life' = life
  BY <1>1, <1>3, Unseen
<1>4. CASE Handle(c)
  <2>1. TypeOK /\ WorkInv /\ TargetInv /\ call[c] # "none" /\ life' = AfterCommand(c)
    BY <1>4 DEF IInv, CallInv, Handle
  <2>2. CASE job[c[1]].op = "start" /\ life[c[2]] = "named"
    <3>1. life' = [life EXCEPT ![c[2]] = "up"] /\ c[2] \in Apps
      BY <2>1, <2>2, Targeted DEF AfterCommand
    <3> QED BY <1>1, <1>2, <2>1, <2>2, <3>1, Comes
  <2>3. CASE job[c[1]].op = "stop" /\ c[2] \in Here(c)
    <3>1. life' = [life EXCEPT ![c[2]] = "gone"] /\ c[2] \in Apps /\ Ran(c[2])
      BY <2>1, <2>3 DEF AfterCommand, Here
    <3> QED BY <1>1, <1>2, <2>1, <3>1, Goes
  <2>4. CASE /\ ~(job[c[1]].op = "start" /\ life[c[2]] = "named")
             /\ ~(job[c[1]].op = "stop" /\ c[2] \in Here(c))
    BY <1>3, <2>1, <2>4 DEF AfterCommand
  <2> QED BY <2>2, <2>3, <2>4
<1> QED BY <1>3, <1>4 DEF Subscribe, CallFails, Timeout, LoseCommand, Refuse

\* Whoever waits for an answer, or for the docker daemon, has not returned.
LEMMA StillBusy ==
  ASSUME TypeOK, NEW c \in Calls, call[c] \notin {"none", "ok", "failed"}
  PROVE  c[1] \in Jobs /\ job[c[1]].verdict # "ok"
BY CallsOf DEF TypeOK, Finished, Of

\* Answers arrive.
LEMMA StepAnswer ==
  ASSUME IInv, NEW n \in Nodes, Answer(n) PROVE [Contract!Next]_(Contract!vars)
<1> SUFFICES ASSUME NEW r, r = out[n], NEW Told, Told = {c \in Calls : Hears(c, r)}
             PROVE  [Contract!Next]_(Contract!vars)
  OBVIOUS
<1>1. /\ job' = [j \in Jobs |->
                   IF r.ok /\ (\E c \in Told : c[1] = j)
                   THEN [job[j] EXCEPT !.found = job[j].found \cup r.found,
                                       !.fit = job[j].fit \cup r.fit]
                   ELSE job[j]]
      /\ UNCHANGED <<mode, life>>
  BY DEF Answer
<1>2. ASSUME NEW i \in Jobs
      PROVE  /\ job'[i].op = job[i].op /\ job'[i].apps = job[i].apps
             /\ job'[i].verdict = job[i].verdict
             /\ job[i].verdict = "ok" => job'[i].found = job[i].found
  <2>1. job[i] \in JobType
    BY DEF IInv, TypeOK
  <2>2. CASE r.ok /\ \E c \in Told : c[1] = i
    <3>1. job[i].verdict # "ok"
      BY <2>2, StillBusy DEF IInv, Hears
    <3>2. job'[i] = [job[i] EXCEPT !.found = job[i].found \cup r.found,
                                   !.fit = job[i].fit \cup r.fit]
      BY <1>1, <2>2
    <3> QED BY <2>1, <3>1, <3>2 DEF JobType
  <2>3. CASE ~(r.ok /\ \E c \in Told : c[1] = i)
    <3>1. job'[i] = job[i]
      BY <1>1, <2>3
    <3> QED BY <3>1
  <2> QED BY <2>2, <2>3
<1> QED BY <1>1, <1>2, Unseen

\* The docker daemon gets containers created, started and stopped.
LEMMA StepDockerLife ==
  ASSUME IInv, NEW c \in Calls,
         DockerCreate(c) \/ DockerStart(c) \/ DockerStop(c) \/ DockerFails(c)
  PROVE  [Contract!Next]_(Contract!vars)
<1>1. UNCHANGED <<mode, job>>
  BY DEF DockerCreate, DockerStart, DockerStop, DockerFails
<1>2. Goals' = Goals /\ Verdicts' = Verdicts /\ Listings' = Listings
  BY <1>1, SameOps
<1>3. TypeOK /\ WorkInv /\ TargetInv /\ GoodCall(c)
  BY DEF IInv, DoneInv
<1>4. CASE DockerCreate(c)
  <2>1. /\ mode = "DirectDocker" /\ job[c[1]].op = "start" /\ call[c] = "begun"
        /\ life' = [life EXCEPT ![c[2]] = "created"]
    BY <1>4 DEF DockerCreate, AtDocker
  <2>2. life[c[2]] = "named"
    BY <1>3, <2>1 DEF GoodCall
  <2>3. \A a \in Apps : Phase(life'[a]) = Phase(life[a])
    BY <1>3, <2>1, <2>2 DEF TypeOK, Phase
  <2> QED BY <1>1, <2>3, Unseen
<1>5. CASE DockerStart(c)
  <2>1. /\ mode = "DirectDocker" /\ job[c[1]].op = "start" /\ call[c] = "created"
        /\ life' = [life EXCEPT ![c[2]] = "up"]
    BY <1>5 DEF DockerStart, AtDocker
  <2>2. life[c[2]] = "created" /\ c[2] \in Apps
    BY <1>3, <2>1, Targeted DEF GoodCall
  <2> QED BY <1>1, <1>2, <1>3, <2>1, <2>2, Comes
<1>6. CASE DockerStop(c)
  <2>1. job[c[1]].op = "stop" /\ call[c] = "begun" /\ life' = [life EXCEPT ![c[2]] = "gone"]
    BY <1>6 DEF DockerStop, AtDocker
  <2>2. Ran(c[2]) /\ c[2] \in Apps
    BY <1>3, <2>1, Targeted
  <2> QED BY <1>1, <1>2, <1>3, <2>1, <2>2, Goes
<1>7. CASE DockerFails(c)
  <2>1. life' = life
    BY <1>7 DEF DockerFails
  <2> QED BY <1>1, <2>1, Unseen
<1> QED BY <1>4, <1>5, <1>6, <1>7

\* It also answers checks and queries, of operations that have not returned.
LEMMA StepDockerLook ==
  ASSUME IInv, NEW c \in Calls,
         \/ DockerCheck(c) \/ DockerList(c)
         \/ \E a \in Apps : DockerInspect(c, a) \/ DockerInspectFails(c, a)
  PROVE  [Contract!Next]_(Contract!vars)
<1>1. UNCHANGED <<mode, life>> /\ call[c] \notin {"none", "ok", "failed"}
  BY DEF DockerCheck, DockerList, DockerInspect, DockerInspectFails, AtDocker
<1>2. c[1] \in Jobs /\ job[c[1]].verdict # "ok" /\ job[c[1]] \in JobType
  BY <1>1, StillBusy DEF IInv, TypeOK
<1>3. job'[c[1]].op = job[c[1]].op /\ job'[c[1]].apps = job[c[1]].apps
      /\ job'[c[1]].verdict = job[c[1]].verdict
      /\ \A i \in Jobs : i # c[1] => job'[i] = job[i]
  <2>1. CASE DockerCheck(c)
    BY <1>2, <2>1 DEF DockerCheck, IInv, TypeOK, JobType
  <2>2. CASE DockerList(c)
    BY <1>2, <2>2 DEF DockerList, IInv, TypeOK, JobType
  <2>3. ASSUME NEW a \in Apps, DockerInspect(c, a)
        PROVE  /\ job'[c[1]].op = job[c[1]].op /\ job'[c[1]].apps = job[c[1]].apps
               /\ job'[c[1]].verdict = job[c[1]].verdict
               /\ \A i \in Jobs : i # c[1] => job'[i] = job[i]
    <3> DEFINE found == job[c[1]].found \cup
                        (IF job[c[1]].op = "query_all" \/ Seen(job[c[1]].op, a) THEN {a} ELSE {})
               fit == job[c[1]].fit \cup (IF life[a] = "available" THEN {a} ELSE {})
    <3>1. job' = [job EXCEPT ![c[1]] = [job[c[1]] EXCEPT !.todo = job[c[1]].todo \ {a},
                                                         !.found = found, !.fit = fit]]
      BY <2>3 DEF DockerInspect
    <3> HIDE DEF found, fit
    <3> QED BY <1>2, <3>1 DEF IInv, TypeOK, JobType
  <2>4. ASSUME NEW a \in Apps, DockerInspectFails(c, a)
        PROVE  /\ job'[c[1]].op = job[c[1]].op /\ job'[c[1]].apps = job[c[1]].apps
               /\ job'[c[1]].verdict = job[c[1]].verdict
               /\ \A i \in Jobs : i # c[1] => job'[i] = job[i]
    <3>1. \/ job' = [job EXCEPT ![c[1]] = [job[c[1]] EXCEPT !.todo = {}, !.found = {}, !.fit = {}]]
          \/ job' = [job EXCEPT ![c[1]] = [job[c[1]] EXCEPT !.todo = job[c[1]].todo \ {a},
                                                            !.skipped = job[c[1]].skipped \cup {a}]]
      BY <2>4 DEF DockerInspectFails
    <3>2. CASE job' = [job EXCEPT ![c[1]] = [job[c[1]] EXCEPT !.todo = {}, !.found = {}, !.fit = {}]]
      BY <1>2, <3>2 DEF IInv, TypeOK, JobType
    <3>3. CASE job' = [job EXCEPT ![c[1]] = [job[c[1]] EXCEPT !.todo = job[c[1]].todo \ {a},
                                                             !.skipped = job[c[1]].skipped \cup {a}]]
      BY <1>2, <3>3 DEF IInv, TypeOK, JobType
    <3> QED BY <3>1, <3>2, <3>3
  <2> QED BY <2>1, <2>2, <2>3, <2>4
<1>4. ASSUME NEW i \in Jobs
      PROVE  /\ job'[i].op = job[i].op /\ job'[i].apps = job[i].apps
             /\ job'[i].verdict = job[i].verdict
             /\ job[i].verdict = "ok" => job'[i].found = job[i].found
  BY <1>2, <1>3
<1> QED BY <1>1, <1>4, Unseen

\* Containers by themselves.
LEMMA StepContainer ==
  ASSUME IInv, NEW a \in Apps, BecomesAvailable(a) \/ AppExits(a)
  PROVE  [Contract!Next]_(Contract!vars)
<1>1. UNCHANGED <<mode, job>> /\ TypeOK
  BY DEF BecomesAvailable, AppExits, IInv
<1>2. Goals' = Goals /\ Verdicts' = Verdicts /\ Listings' = Listings
  BY <1>1, SameOps
<1>3. CASE BecomesAvailable(a)
  <2>1. life[a] = "up" /\ life' = [life EXCEPT ![a] = "available"]
    BY <1>3 DEF BecomesAvailable
  <2>2. \A b \in Apps : Phase(life'[b]) = Phase(life[b])
    BY <1>1, <2>1 DEF TypeOK, Phase
  <2> QED BY <1>1, <2>2, Unseen
<1>4. CASE AppExits(a)
  <2>1. Ran(a) /\ life' = [life EXCEPT ![a] = "gone"]
    BY <1>4 DEF AppExits, Up, Ran
  <2> QED BY <1>1, <1>2, <2>1, Goes
<1> QED BY <1>3, <1>4

\* At first nothing has been asked for but what runs.
LEMMA InitContract == Init => Contract!Init
<1> SUFFICES ASSUME Init PROVE Contract!Init
  OBVIOUS
<1>1. Phases \in [Apps -> {"unasked", "runs"}]
  <2>1. \A a \in Apps : Phase(life[a]) \in {"unasked", "runs"}
    BY DEF Init, Phase
  <2> QED BY <2>1 DEF Phases
<1>2. \A i \in Jobs : job[i].op = "none" /\ job[i].apps = {} /\ job[i].verdict = "idle"
  BY DEF Init, NoJob
<1>3. Goals = [i \in Jobs |-> [kind |-> "none", apps |-> {}]]
  BY <1>2 DEF Goals, KindOf
<1>4. Verdicts = [i \in Jobs |-> "idle"]
  BY <1>2 DEF Verdicts
<1>5. Listings = [i \in Jobs |-> {}]
  BY <1>2 DEF Listings
<1>6. Heeded \in BOOLEAN
  BY DEF Heeded
<1> QED BY <1>1, <1>3, <1>4, <1>5, <1>6
        DEF Contract!Init, Phases, Goals, Verdicts, Listings, Heeded

\* Every step is one of the contract's, or none.
LEMMA NextContract == IInv /\ [Next]_vars => [Contract!Next]_(Contract!vars)
<1> SUFFICES ASSUME IInv, [Next]_vars PROVE [Contract!Next]_(Contract!vars)
  OBVIOUS
<1>1. TypeOK
  BY DEF IInv
<1>2. ASSUME NEW j \in Jobs,
             \/ BeginStart(j) \/ BeginStop(j)
             \/ \E o \in QueryOps : BeginQuery(j, o)
             \/ \E o \in CheckOps : BeginCheck(j, o)
             \/ NextBatch(j) \/ Return(j)
      PROVE  [Contract!Next]_(Contract!vars)
  BY <1>1, <1>2, StepBegin, StepBatch, StepReturn
<1>3. ASSUME NEW c \in Calls,
             \/ Subscribe(c) \/ CallFails(c) \/ Timeout(c)
             \/ LoseCommand(c) \/ Handle(c) \/ Refuse(c)
             \/ DockerCreate(c) \/ DockerStart(c) \/ DockerStop(c) \/ DockerCheck(c)
             \/ DockerList(c) \/ DockerFails(c)
             \/ \E a \in Apps : DockerInspect(c, a) \/ DockerInspectFails(c, a)
      PROVE  [Contract!Next]_(Contract!vars)
  BY <1>3, StepAgent, StepDockerLife, StepDockerLook
<1>4. ASSUME NEW n \in Nodes, Answer(n) PROVE [Contract!Next]_(Contract!vars)
  BY <1>4, StepAnswer
<1>5. ASSUME NEW a \in Apps, BecomesAvailable(a) \/ AppExits(a)
      PROVE  [Contract!Next]_(Contract!vars)
  BY <1>5, StepContainer
<1>6. CASE UNCHANGED vars
  <2>1. UNCHANGED <<mode, life, job>>
    BY <1>6 DEF vars
  <2> QED BY <2>1, Unseen
<1> QED BY <1>2, <1>3, <1>4, <1>5, <1>6 DEF Next

\* The app operations keep their contract (StartApps, StopApps, apps.go:13-87) for any
\* nodes, containers, operations and failures: an OK means that the containers asked for
\* have been started or stopped, and results name only containers that have run.
THEOREM KeepsContractHolds == Spec => KeepsContract
<1>1. Spec => []IInv
  BY InitInv, NextInv, PTL DEF Spec
<1> QED BY <1>1, InitContract, NextContract, PTL DEF Spec, KeepsContract, Contract!Spec
=============================================================================
