------------------------ MODULE StatusStates_proofs ------------------------
(***************************************************************************)
(* What StatusStates' run checks, for every set of requests, everything a  *)
(* reconcile may find, and any bound on time and tasks.                    *)
(***************************************************************************)
EXTENDS StatusStates, TLAPS

\* If some check strikes, one of them strikes first.
LEMMA FirstStrike ==
  ASSUME NEW checks, NEW n \in 1 .. 8, DOMAIN checks = 1 .. n,
         \E i \in 1 .. n : checks[i].bad
  PROVE  \E i \in 1 .. n : checks[i].bad /\ \A k \in 1 .. (i - 1) : ~checks[k].bad
OBVIOUS

\* A mapping that succeeds has met no check, and returns what it was given.
LEMMA OutcomeOk ==
  ASSUME NEW checks, NEW n \in 1 .. 8, DOMAIN checks = 1 .. n, NEW x,
         \A i \in 1 .. n : checks[i].how \in {"error", "panic"},
         Outcome(checks, x).kind = "ok"
  PROVE  Outcome(checks, x) = Ok(x) /\ \A i \in 1 .. n : ~checks[i].bad
<1>1. CASE \E i \in 1 .. n : checks[i].bad
  <2> DEFINE first == CHOOSE i \in DOMAIN checks :
                        checks[i].bad /\ \A k \in 1 .. (i - 1) : ~checks[k].bad
  <2>1. first \in 1 .. n
    BY <1>1, FirstStrike
  <2>2. Outcome(checks, x) = Fails(checks[first].how)
    BY <1>1 DEF Outcome
  <2>3. checks[first].how # "ok"
    BY <2>1
  <2> HIDE DEF first
  <2> QED BY <2>2, <2>3 DEF Fails
<1>2. CASE ~\E i \in 1 .. n : checks[i].bad
  BY <1>2 DEF Outcome
<1> QED BY <1>1, <1>2

\* A mapping that meets no check succeeds.
LEMMA OutcomeUnchecked ==
  ASSUME NEW checks, NEW x, \A i \in DOMAIN checks : ~checks[i].bad
  PROVE  Outcome(checks, x) = Ok(x)
BY DEF Outcome

-----------------------------------------------------------------------------
(* Requests and records *)

\* What a request has passed when the mapping accepts it.
LEMMA Accepted ==
  ASSUME NEW req, PutDeploymentReqToDomain(req).kind = "ok"
  PROVE  /\ PutDeploymentReqToDomain(req) = Ok(NewDeploymentSpec(req, RollingUpdate(req)))
         /\ req.quota \in Quotas /\ req.mode \in ValidModes
         /\ RollingUpdate(req) # NIL
         /\ RollingUpdate(req).surge # NIL /\ RollingUpdate(req).unavailable # NIL
<1> DEFINE roll == RollingUpdate(req)
           checks == <<Check(req.profile = NIL, "panic"),
                       Check(req.quota \notin Quotas, "error"),
                       Check(roll # NIL /\ (roll.unavailable = NIL \/ roll.surge = NIL), "panic"),
                       Check(req.mode \notin ValidModes, "error"),
                       Check(req.labels = NIL, "panic"),
                       Check(req.count < 0 \/ req.minReady < 0 \/ req.deadline < 0, "error"),
                       Check(Negative(req.limit) \/ Negative(req.period), "error"),
                       Check(roll = NIL, "panic")>>
<1>1. PutDeploymentReqToDomain(req) = Outcome(checks, NewDeploymentSpec(req, roll))
  BY DEF PutDeploymentReqToDomain
<1>2. DOMAIN checks = 1 .. 8 /\ \A i \in 1 .. 8 : checks[i].how \in {"error", "panic"}
  BY DEF Check
<1>3. /\ Outcome(checks, NewDeploymentSpec(req, roll)) = Ok(NewDeploymentSpec(req, roll))
      /\ \A i \in 1 .. 8 : ~checks[i].bad
  <2> HIDE DEF checks
  <2> QED BY <1>1, <1>2, OutcomeOk
<1>4. ~checks[2].bad /\ ~checks[3].bad /\ ~checks[4].bad /\ ~checks[8].bad
  BY <1>3
<1> QED BY <1>1, <1>3, <1>4 DEF Check

\* A spec with an allowed mode and quota and all its parameters is read back as it is.
LEMMA ReadBack ==
  ASSUME NEW spec, spec.quota \in Quotas, spec.mode \in ValidModes,
         spec.rolling # NIL, spec.rolling.surge # NIL, spec.rolling.unavailable # NIL,
         spec.limit # NIL, spec.period # NIL
  PROVE  Stored(spec) = Ok(spec)
<1>1. DeploymentSpecFromDomain(spec) = Ok(spec)
  <2> DEFINE checks == <<Check(spec.rolling = NIL, "panic"),
                         Check(spec.rolling # NIL /\ (spec.rolling.surge = NIL \/ spec.rolling.unavailable = NIL), "panic"),
                         Check(spec.mode \notin ValidModes, "error"),
                         Check(spec.limit = NIL \/ spec.period = NIL, "panic")>>
  <2>1. ~checks[1].bad /\ ~checks[2].bad /\ ~checks[3].bad /\ ~checks[4].bad
    BY DEF Check
  <2>2. DOMAIN checks = 1 .. 4
    OBVIOUS
  <2>3. DeploymentSpecFromDomain(spec) = Outcome(checks, spec)
    BY DEF DeploymentSpecFromDomain
  <2> HIDE DEF checks
  <2> QED BY <2>1, <2>2, <2>3, OutcomeUnchecked
<1>2. DeploymentSpecToDomain(spec) = Ok(spec)
  <2> DEFINE checks == <<Check(spec.quota \notin Quotas, "error"),
                         Check(spec.rolling = NIL, "panic"),
                         Check(spec.rolling # NIL /\ (spec.rolling.surge = NIL \/ spec.rolling.unavailable = NIL), "panic"),
                         Check(spec.mode \notin ValidModes, "error")>>
  <2>1. ~checks[1].bad /\ ~checks[2].bad /\ ~checks[3].bad /\ ~checks[4].bad
    BY DEF Check
  <2>2. DOMAIN checks = 1 .. 4
    OBVIOUS
  <2>3. DeploymentSpecToDomain(spec) = Outcome(checks, spec)
    BY DEF DeploymentSpecToDomain
  <2> HIDE DEF checks
  <2> QED BY <2>1, <2>2, <2>3, OutcomeUnchecked
<1> QED BY <1>1, <1>2 DEF Stored, Ok

\* So whatever the request mapping accepts can be stored, and is read back unchanged.
LEMMA AcceptedReadBack ==
  ASSUME NEW req \in Requests, PutDeploymentReqToDomain(req).kind = "ok"
  PROVE  LET spec == NewDeploymentSpec(req, RollingUpdate(req))
         IN /\ PutDeploymentReqToDomain(req).value = spec
            /\ Etcd[spec] = Ok(spec)
            /\ spec \in Specs
<1> DEFINE spec == NewDeploymentSpec(req, RollingUpdate(req))
<1>1. /\ spec.quota = req.quota /\ spec.mode = req.mode /\ spec.rolling = RollingUpdate(req)
      /\ spec.limit = Default(req.limit, 10) /\ spec.period = Default(req.period, 30)
  BY DEF NewDeploymentSpec
<1>2. spec.limit # NIL /\ spec.period # NIL
  BY <1>1, StatusAssumption DEF Default
<1>3. PutDeploymentReqToDomain(req) = Ok(spec)
  BY Accepted
<1>4. Stored(spec) = Ok(spec)
  <2> HIDE DEF spec
  <2> QED BY <1>1, <1>2, Accepted, ReadBack
<1>5. spec \in Specs
  BY DEF Specs
<1>6. Etcd[spec] = Ok(spec)
  <2> HIDE DEF spec
  <2> QED BY <1>4, <1>5 DEF Etcd
<1> QED BY <1>3, <1>5, <1>6 DEF Ok

\* Every state is read back inactive.
LEMMA AllInactive ==
  ASSUME NEW states
  PROVE  StoredStates(states) = [s \in StateTypes |-> FALSE]
BY DEF StoredStates, DeploymentStateToDomain, DepoymentStateFromDomain

-----------------------------------------------------------------------------
(* What is done to one copy *)

\* A record as etcd gives it back: no state is active.
Quiet(d) == d.states = [s \in StateTypes |-> FALSE]

\* The states a reconcile decides on: the stored ones play no part in it.
LEMMA Updated ==
  ASSUME NEW d \in Docs, Quiet(d), NEW found,
         NEW u, u = UpdateStatusStates(d, found)
  PROVE  /\ u \in Docs
         /\ u.spec = d.spec /\ u.age = d.age /\ u.paused = d.paused
         /\ u.states["Failure"] => IsDeadlineExceeded(d) /\ ~d.paused
         /\ Completed(d.spec, found) => ~u.states["Failure"] /\ ~u.states["Progress"]
<1> DEFINE available == IsAvailable(d.spec.count, d.spec.rolling.unavailable, found.ready)
           progress == ~Completed(d.spec, found)
           late == progress /\ IsDeadlineExceeded(d) /\ ~d.paused
           states == [d.states EXCEPT !["Available"] = available,
                                      !["Progress"] = progress /\ ~late,
                                      !["Failure"] = IF progress THEN late ELSE d.states["Failure"]]
<1>1. available \in BOOLEAN /\ progress \in BOOLEAN /\ late \in BOOLEAN
  BY DEF IsAvailable
<1>2. u = [d EXCEPT !.states = states]
  BY DEF UpdateStatusStates
<1>3. states["Progress"] = (progress /\ ~late) /\ states["Failure"] = (progress /\ late)
  <2> HIDE DEF available, progress, late
  <2> QED BY <1>1 DEF StateTypes, Docs, Quiet
<1>4. states \in [StateTypes -> BOOLEAN]
  <2> HIDE DEF available, progress, late
  <2> QED BY <1>1 DEF StateTypes, Docs
<1>5. /\ u \in Docs /\ u.states = states
      /\ u.spec = d.spec /\ u.age = d.age /\ u.paused = d.paused
  <2> HIDE DEF states
  <2> QED BY <1>2, <1>4 DEF Docs
<1> QED
  <2> HIDE DEF states
  <2> QED BY <1>3, <1>5


\* A rollback starts the record's time over.
LEMMA RolledBack ==
  ASSUME NEW d \in Docs, NEW r, r = Rollback(d)
  PROVE  r \in Docs /\ r.age = 0 /\ r.spec = d.spec /\ r.paused = d.paused
<1> DEFINE states == [d.states EXCEPT !["Failure"] = FALSE, !["Progress"] = TRUE]
<1>1. states \in [StateTypes -> BOOLEAN]
  BY DEF Docs, StateTypes
<1>2. r = [d EXCEPT !.states = states, !.age = 0]
  BY DEF Rollback
<1>3. 0 \in 0 .. Horizon
  BY StatusAssumption
<1> HIDE DEF states
<1> QED BY <1>1, <1>2, <1>3 DEF Docs

\* A pause or its end is all that a Pause, an Unpause or a failure changes.
LEMMA PausedDoc ==
  ASSUME NEW d \in Docs, NEW p \in BOOLEAN, NEW r, r = [d EXCEPT !.paused = p]
  PROVE  r \in Docs /\ r.age = d.age /\ r.spec = d.spec /\ r.paused = p
BY DEF Docs

\* What a reconcile does about a failure: never the end of a pause.
LEMMA Decided ==
  ASSUME NEW u \in Docs, NEW ok \in BOOLEAN, NEW next, next = Failing(u, ok)
  PROVE  /\ next.doc \in Docs /\ next.what \in Outcomes
         /\ next.doc.spec = u.spec
         /\ next.doc.age = IF next.what = "rollback" THEN 0 ELSE u.age
         /\ u.paused \/ next.what = "paused" => next.doc.paused
         /\ ~u.states["Failure"] => next.what = "none" /\ next.doc = u
<1>1. CASE ~u.states["Failure"]
  <2>1. next = [doc |-> u, what |-> "none"]
    BY <1>1 DEF Failing
  <2> QED BY <1>1, <2>1 DEF Outcomes
<1>2. CASE u.states["Failure"]
  <2>1. \/ next = [doc |-> [u EXCEPT !.paused = TRUE], what |-> "paused"]
        \/ next = [doc |-> Rollback(u), what |-> "rollback"]
        \/ next = [doc |-> u, what |-> "stuck"]
    BY <1>2 DEF Failing
  <2>2. CASE next = [doc |-> [u EXCEPT !.paused = TRUE], what |-> "paused"]
    <3>1. next.doc = [u EXCEPT !.paused = TRUE] /\ next.what = "paused"
      BY <2>2
    <3>2. next.doc \in Docs /\ next.doc.age = u.age /\ next.doc.spec = u.spec /\ next.doc.paused = TRUE
      BY <3>1, PausedDoc
    <3> QED BY <1>2, <3>1, <3>2 DEF Outcomes
  <2>3. CASE next = [doc |-> Rollback(u), what |-> "rollback"]
    <3>1. next.doc = Rollback(u) /\ next.what = "rollback"
      BY <2>3
    <3> QED BY <1>2, <3>1, RolledBack DEF Outcomes
  <2>4. CASE next = [doc |-> u, what |-> "stuck"]
    <3>1. next.doc = u /\ next.what = "stuck"
      BY <2>4
    <3> QED BY <1>2, <3>1 DEF Outcomes
  <2> QED BY <2>1, <2>2, <2>3, <2>4
<1> QED BY <1>1, <1>2

\* A save leaves all of a record but its states.
LEMMA SavedDoc ==
  ASSUME NEW d \in Docs, Etcd[d.spec] = Ok(d.spec), NEW r, r = SaveDeployment(d)
  PROVE  r \in Docs /\ r.spec = d.spec /\ r.age = d.age /\ r.paused = d.paused /\ Quiet(r)
<1> DEFINE none == [s \in StateTypes |-> FALSE]
<1>1. none \in [StateTypes -> BOOLEAN]
  BY Zenon
<1>2. r = [d EXCEPT !.spec = d.spec, !.states = none]
  <2>1. Etcd[d.spec].kind = "ok" /\ Etcd[d.spec].value = d.spec
    BY DEF Ok
  <2> QED BY <2>1, AllInactive DEF SaveDeployment
<1> HIDE DEF none
<1>3. r \in Docs /\ r.spec = d.spec /\ r.age = d.age /\ r.paused = d.paused /\ r.states = none
  BY <1>1, <1>2 DEF Docs
<1> QED BY <1>3 DEF none, Quiet

\* A record that is there is no NIL.
LEMMA DocIsDoc == ASSUME NEW d \in Docs PROVE d # NIL
BY StatusAssumption

\* Time changes the age of a record and nothing else.
LEMMA AgedDoc ==
  ASSUME NEW d \in Docs \cup {NIL}, NEW r, r = Aged(d)
  PROVE  /\ r \in Docs \cup {NIL}
         /\ d = NIL <=> r = NIL
         /\ d # NIL => /\ r \in Docs /\ r.age = Later(d.age)
                       /\ r.spec = d.spec /\ r.states = d.states /\ r.paused = d.paused
<1>1. CASE d = NIL
  BY <1>1 DEF Aged
<1>2. CASE d # NIL
  <2>1. d \in Docs /\ r = [d EXCEPT !.age = Later(d.age)]
    BY <1>2 DEF Aged
  <2>2. d.age \in 0 .. Horizon
    BY <2>1 DEF Docs
  <2>3. Later(d.age) \in 0 .. Horizon
    BY <2>2, StatusAssumption DEF Later
  <2>4. /\ r \in Docs /\ r.age = Later(d.age)
        /\ r.spec = d.spec /\ r.states = d.states /\ r.paused = d.paused
    BY <2>1, <2>3 DEF Docs
  <2> QED BY <1>2, <2>4, DocIsDoc
<1> QED BY <1>1, <1>2

-----------------------------------------------------------------------------
(* The inductive invariant *)

\* What a reconcile has done by the place it is at.
RunInv ==
    /\ main.at = "idle" => main = NoRun
    /\ main.at = "update" => Quiet(main.copy)
    /\ main.at \in {"update", "fail"} => main.what = "none"
    /\ main.rolled => main.at \in {"check", "save"}
    /\ main.completed => /\ main.what = "none" /\ ~main.rolled
                         /\ ~main.copy.states["Failure"] /\ ~main.copy.states["Progress"]
    /\ main.what = "paused" => main.copy.paused
    /\ main.what = "rollback" => main.copy.age = main.ago

\* After a saved failure the record is paused, and so is every copy that was read since.
HeldInv ==
    /\ "main" \notin blind
    /\ held => doc # NIL /\ doc.paused
    /\ held /\ main.copy # NIL => main.copy.paused
    /\ held /\ helper.copy # NIL /\ "helper" \notin blind => helper.copy.paused
    /\ \A c \in Clients : held /\ put[c] # NIL /\ c \notin blind => put[c].paused

\* Until an older copy is saved, the record and every copy of it that is not stale carry
\* the time of the last Put or rollback.
SpacedInv ==
    /\ ~undone /\ doc # NIL => doc.age = since
    /\ ~undone /\ main.copy # NIL /\ "main" \notin stale /\ main.what # "rollback" => main.copy.age = since
    /\ ~undone /\ helper.copy # NIL /\ "helper" \notin stale => helper.copy.age = since

\* The records are well-typed and readable, and the copies of them follow the record.
IInv ==
    /\ TypeOK
    /\ doc # NIL => Quiet(doc)
    /\ AcceptedIsStored
    /\ RunInv
    /\ HeldInv
    /\ SpacedInv

\* The copies one by one.
LEMMA AllAccepted ==
  AcceptedIsStored <=> /\ doc # NIL => Etcd[doc.spec] = Ok(doc.spec)
                       /\ helper.copy # NIL => Etcd[helper.copy.spec] = Ok(helper.copy.spec)
                       /\ main.copy # NIL => Etcd[main.copy.spec] = Ok(main.copy.spec)
                       /\ \A c \in Clients : put[c] # NIL => Etcd[put[c].spec] = Ok(put[c].spec)
BY DEF AcceptedIsStored

\* The same of the next state.
LEMMA AllAcceptedNext ==
  AcceptedIsStored' <=> /\ doc' # NIL => Etcd[doc'.spec] = Ok(doc'.spec)
                        /\ helper'.copy # NIL => Etcd[helper'.copy.spec] = Ok(helper'.copy.spec)
                        /\ main'.copy # NIL => Etcd[main'.copy.spec] = Ok(main'.copy.spec)
                        /\ \A c \in Clients : put'[c] # NIL => Etcd[put'[c].spec] = Ok(put'[c].spec)
BY DEF AcceptedIsStored

-----------------------------------------------------------------------------
(* What steps have in common *)

\* The types of the two goroutines' variables and of what they start with.
LEMMA Starting ==
  /\ NoRun \in Runs /\ NoRun.at = "idle" /\ NoRun.copy = NIL /\ NoRun.completed = FALSE
  /\ NoRun.what = "none" /\ NoRun.rolled = FALSE
  /\ NoTask \in TaskRuns /\ NoTask.at = "idle" /\ NoTask.task = NIL /\ NoTask.copy = NIL
BY StatusAssumption DEF NoRun, Runs, Places, Outcomes, NoTask, TaskRuns

\* Who holds a copy.
LEMMA Holding ==
  /\ \A c \in Clients : c \in Holders <=> put[c] # NIL
  /\ "helper" \in Holders <=> helper.copy # NIL
  /\ "main" \in Holders <=> main.copy # NIL
  /\ Holders \subseteq Clients \cup {"helper", "main"}
BY StatusAssumption DEF Holders

\* The same of the next state.
LEMMA HoldingNext ==
  /\ \A c \in Clients : c \in Holders' <=> put'[c] # NIL
  /\ "helper" \in Holders' <=> helper'.copy # NIL
  /\ "main" \in Holders' <=> main'.copy # NIL
  /\ Holders' \subseteq Clients \cup {"helper", "main"}
BY StatusAssumption DEF Holders

\* A save stores what it is given but for the states.
LEMMA Saved ==
  ASSUME TypeOK, NEW d \in Docs, Etcd[d.spec] = Ok(d.spec), NEW h, NEW kind,
         NEW ago \in 0 .. Horizon, Save(h, d, kind, ago)
  PROVE  /\ doc' \in Docs /\ doc' # NIL /\ Quiet(doc')
         /\ doc'.spec = d.spec /\ doc'.age = d.age /\ doc'.paused = d.paused
         /\ Etcd[doc'.spec] = Ok(doc'.spec)
         /\ held' \in BOOLEAN /\ undone' \in BOOLEAN /\ met' \in BOOLEAN
         /\ since' \in 0 .. Horizon
         /\ stale' \subseteq Holders \ {h} /\ blind' \subseteq Holders \ {h}
<1>1. doc' = SaveDeployment(d)
  BY DEF Save
<1>2. doc' \in Docs /\ doc'.spec = d.spec /\ doc'.age = d.age /\ doc'.paused = d.paused /\ Quiet(doc')
  BY <1>1, SavedDoc
<1>3. doc' # NIL
  BY <1>2, DocIsDoc
<1>4. held' \in BOOLEAN /\ undone' \in BOOLEAN /\ met' \in BOOLEAN
  BY DEF Save
<1>5. since' \in 0 .. Horizon
  BY DEF Save, TypeOK
<1>6. stale' \subseteq Holders \ {h} /\ blind' \subseteq Holders \ {h}
  BY DEF Save, TypeOK
<1> QED BY <1>2, <1>3, <1>4, <1>5, <1>6

\* A step of the main loop on its own copy keeps the invariant when the copy does.
LEMMA Works ==
  ASSUME IInv, Work, worker, main' \in Runs, main'.copy \in Docs, main'.at # "idle",
         Etcd[main'.copy.spec] = Ok(main'.copy.spec), RunInv',
         held => main'.copy.paused,
         ~undone /\ "main" \notin stale /\ main'.what # "rollback" => main'.copy.age = since
  PROVE  IInv'
<1>1. /\ TypeOK /\ AcceptedIsStored /\ RunInv /\ HeldInv /\ SpacedInv
      /\ doc # NIL => Quiet(doc)
  BY DEF IInv
<1>2. UNCHANGED <<doc, worker, intr, apps, put, helper, stale, blind, held, undone, since, met, left>>
  BY DEF Work, ghosts
<1>3. main'.copy # NIL
  BY DocIsDoc
<1>4. Holders \subseteq Holders'
  BY <1>2, <1>3, Holding, HoldingNext
<1>5. TypeOK'
  BY <1>1, <1>2, <1>3, <1>4 DEF TypeOK
<1>6. AcceptedIsStored'
  BY <1>1, <1>2, AllAccepted, AllAcceptedNext
<1>7. HeldInv'
  BY <1>1, <1>2 DEF HeldInv
<1>8. SpacedInv'
  BY <1>1, <1>2 DEF SpacedInv
<1> QED BY <1>1, <1>2, <1>5, <1>6, <1>7, <1>8 DEF IInv

\* When the main loop is idle nothing is asked of its copy.
LEMMA IdleRun == ASSUME main' = NoRun PROVE RunInv' /\ main'.copy = NIL
BY Starting DEF RunInv

\* What is left of the bound.
LEMMA Spending == ASSUME TypeOK, Spend PROVE left' \in 0 .. Tasks
BY StatusAssumption DEF TypeOK, Spend

-----------------------------------------------------------------------------
(* The reconcile *)

\* A reconcile starts from the record as it is.
LEMMA NextRead == ASSUME IInv, ReadForReconcile PROVE IInv'
<1>1. /\ TypeOK /\ AcceptedIsStored /\ RunInv /\ HeldInv /\ SpacedInv
      /\ doc \in Docs /\ doc # NIL /\ Quiet(doc) /\ Work /\ worker
  BY DEF IInv, ReadForReconcile, TypeOK
<1>2. main = NoRun /\ main \in Runs
  BY <1>1 DEF TypeOK, RunInv, ReadForReconcile
<1>3. main' = [main EXCEPT !.at = "update", !.copy = doc]
  BY DEF ReadForReconcile, Goes
<1>4. /\ main' \in Runs /\ main'.at = "update" /\ main'.copy = doc
      /\ main'.what = "none" /\ main'.rolled = FALSE /\ main'.completed = FALSE
  BY <1>1, <1>2, <1>3, Starting DEF Runs, Places
<1>5. RunInv'
  BY <1>1, <1>4 DEF RunInv, Quiet
<1>6. Etcd[doc.spec] = Ok(doc.spec)
  BY <1>1, AllAccepted
<1> QED BY <1>1, <1>4, <1>5, <1>6, Works DEF HeldInv, SpacedInv

\* The copy of a reconcile that has one.
LEMMA MainCopy ==
  ASSUME IInv, main.at # "idle"
  PROVE  /\ worker /\ main \in Runs /\ main.copy \in Docs /\ main.copy # NIL
         /\ Etcd[main.copy.spec] = Ok(main.copy.spec)
         /\ RunInv /\ (held => main.copy.paused)
         /\ ~undone /\ "main" \notin stale /\ main.what # "rollback" => main.copy.age = since
<1>1. main \in Runs /\ main.copy # NIL /\ main.copy \in Docs \cup {NIL} /\ worker
  BY Starting DEF IInv, TypeOK, Runs
<1> QED BY <1>1, AllAccepted DEF IInv, HeldInv, SpacedInv

\* The states are decided; of a completed rollout none but Available is active.
LEMMA NextUpdate == ASSUME IInv, UpdateStates PROVE IInv'
<1> DEFINE new == UpdateStatusStates(main.copy, apps)
           done == Completed(main.copy.spec, apps)
<1>1. main.at = "update" /\ Work
  BY DEF UpdateStates
<1>2. Quiet(main.copy) /\ main.what = "none" /\ ~main.rolled
  BY <1>1, MainCopy DEF RunInv
<1>3. /\ new \in Docs /\ new.spec = main.copy.spec /\ new.age = main.copy.age
      /\ new.paused = main.copy.paused
      /\ done => ~new.states["Failure"] /\ ~new.states["Progress"]
  BY <1>1, <1>2, MainCopy, Updated
<1>4. done \in BOOLEAN
  BY DEF Completed, IsCompleted
<1>5. main' = [main EXCEPT !.at = "fail", !.copy = new, !.completed = done]
  BY DEF UpdateStates
<1> HIDE DEF new, done
<1>6. /\ main' \in Runs /\ main'.at = "fail" /\ main'.copy = new /\ main'.completed = done
      /\ main'.what = main.what /\ main'.rolled = main.rolled
  BY <1>1, <1>3, <1>4, <1>5, MainCopy DEF Runs, Places
<1>7. RunInv'
  BY <1>2, <1>3, <1>6 DEF RunInv
<1> QED BY <1>1, <1>2, <1>3, <1>6, <1>7, MainCopy, Works

\* A failure is acted upon; there is none in a completed rollout.
LEMMA NextFail == ASSUME IInv, NEW ok \in BOOLEAN, Fail(ok) PROVE IInv'
<1> DEFINE next == Failing(main.copy, ok)
<1>1. main.at = "fail" /\ Work
  BY DEF Fail
<1>2. /\ main.what = "none" /\ ~main.rolled
      /\ main.completed => ~main.copy.states["Failure"] /\ ~main.copy.states["Progress"]
  BY <1>1, MainCopy DEF RunInv
<1>3. /\ next.doc \in Docs /\ next.what \in Outcomes
      /\ next.doc.spec = main.copy.spec
      /\ next.doc.age = IF next.what = "rollback" THEN 0 ELSE main.copy.age
      /\ main.copy.paused \/ next.what = "paused" => next.doc.paused
      /\ ~main.copy.states["Failure"] => next.what = "none" /\ next.doc = main.copy
  BY <1>1, MainCopy, Decided
<1>4. main' = [main EXCEPT !.at = "roll", !.copy = next.doc, !.what = next.what, !.ago = 0]
  BY DEF Fail
<1> HIDE DEF next
<1>5. /\ main' \in Runs /\ main'.at = "roll" /\ main'.copy = next.doc /\ main'.what = next.what
      /\ main'.completed = main.completed /\ main'.rolled = main.rolled /\ main'.ago = 0
  <2>1. main \in Runs /\ 0 \in 0 .. Horizon /\ next.doc \in Docs \cup {NIL}
    BY <1>1, <1>3, MainCopy, StatusAssumption
  <2> QED BY <1>3, <1>4, <2>1 DEF Runs, Places
<1>6. RunInv'
  BY <1>2, <1>3, <1>5 DEF RunInv
<1> QED BY <1>1, <1>2, <1>3, <1>5, <1>6, MainCopy, Works

\* Roll starts, of a deployment in progress that is not paused.
LEMMA NextRoll == ASSUME IInv, Roll PROVE IInv'
<1> DEFINE rolls == Rolls(main.copy)
<1>1. main.at = "roll" /\ Work
  BY DEF Roll
<1>2. rolls \in BOOLEAN /\ (rolls => main.copy.states["Progress"])
  BY DEF Rolls
<1>3. main' = [main EXCEPT !.at = "check", !.rolled = rolls]
  BY DEF Roll
<1> HIDE DEF rolls
<1>4. /\ main' \in Runs /\ main'.at = "check" /\ main'.copy = main.copy /\ main'.what = main.what
      /\ main'.completed = main.completed /\ main'.rolled = rolls /\ main'.ago = main.ago
  BY <1>1, <1>2, <1>3, MainCopy DEF Runs, Places
<1>5. RunInv'
  BY <1>1, <1>2, <1>4, MainCopy DEF RunInv
<1> QED BY <1>1, <1>4, <1>5, MainCopy, Works

\* The last check lets the reconcile save.
LEMMA NextLastCheck == ASSUME IInv, LastCheck PROVE IInv'
<1>1. main.at = "check" /\ Work /\ main' = [main EXCEPT !.at = "save", !.copy = main.copy]
  BY DEF LastCheck, Goes
<1>2. /\ main' \in Runs /\ main'.at = "save" /\ main'.copy = main.copy /\ main'.what = main.what
      /\ main'.completed = main.completed /\ main'.rolled = main.rolled /\ main'.ago = main.ago
  BY <1>1, MainCopy DEF Runs, Places
<1>3. RunInv'
  BY <1>1, <1>2, MainCopy DEF RunInv
<1> QED BY <1>1, <1>2, <1>3, MainCopy, Works

\* The copy is written over the record: a pause stays, and the time unless it is stale.
LEMMA NextSaveAtEnd == ASSUME IInv, SaveAtEnd PROVE IInv'
<1> DEFINE kind == CASE main.what = "paused"   -> "failure"
                     [] main.what = "rollback" -> "rollback"
                     [] OTHER                  -> "reconcile"
<1>1. /\ TypeOK /\ AcceptedIsStored /\ RunInv /\ HeldInv /\ SpacedInv
      /\ main.at = "save" /\ main' = NoRun /\ Save("main", main.copy, kind, main.ago)
      /\ UNCHANGED <<worker, intr, apps, put, helper, left>>
  BY DEF IInv, SaveAtEnd
<1>2. main.copy \in Docs /\ Etcd[main.copy.spec] = Ok(main.copy.spec) /\ main.ago \in 0 .. Horizon
  BY <1>1, MainCopy DEF Runs
<1>3. /\ kind = "failure" <=> main.what = "paused"
      /\ kind = "rollback" <=> main.what = "rollback"
      /\ kind \notin {"put", "unpause"}
  OBVIOUS
<1> HIDE DEF kind
<1>4. /\ doc' \in Docs /\ doc' # NIL /\ Quiet(doc')
      /\ doc'.age = main.copy.age /\ doc'.paused = main.copy.paused
      /\ Etcd[doc'.spec] = Ok(doc'.spec)
      /\ held' \in BOOLEAN /\ undone' \in BOOLEAN /\ met' \in BOOLEAN /\ since' \in 0 .. Horizon
      /\ stale' \subseteq Holders \ {"main"} /\ blind' \subseteq Holders \ {"main"}
  BY <1>1, <1>2, Saved
<1>5. RunInv' /\ main'.copy = NIL /\ main' \in Runs /\ main'.at = "idle"
  BY <1>1, IdleRun, Starting
<1>6. Holders \ {"main"} \subseteq Holders'
  BY <1>1, Holding, HoldingNext
<1>7. TypeOK'
  BY <1>1, <1>4, <1>5, <1>6, MainCopy DEF TypeOK
<1>8. AcceptedIsStored'
  BY <1>1, <1>4, <1>5, AllAccepted, AllAcceptedNext
<1>9. HeldInv'
  <2>1. held' = (kind = "failure" \/ held)
    BY <1>1, <1>3 DEF Save, HeldInv
  <2>2. blind' = (IF kind = "failure" THEN Holders ELSE blind) \ {"main"}
    BY <1>1 DEF Save
  <2>3. CASE kind = "failure"
    <3>1. main.copy.paused
      BY <1>1, <1>3, <2>3 DEF RunInv
    <3>2. /\ \A c \in Clients : put'[c] # NIL => c \in blind'
          /\ helper'.copy # NIL => "helper" \in blind'
      BY <1>1, <2>2, <2>3, Holding, StatusAssumption
    <3> QED BY <1>4, <1>5, <3>1, <3>2 DEF HeldInv
  <2>4. CASE kind # "failure"
    <3>1. held' = held /\ blind' = blind \ {"main"}
      BY <2>1, <2>2, <2>4, <1>1 DEF TypeOK
    <3>2. held => main.copy.paused
      BY <1>1, MainCopy
    <3> QED BY <1>1, <1>4, <1>5, <3>1, <3>2, StatusAssumption DEF HeldInv
  <2> QED BY <2>3, <2>4
<1>10. SpacedInv'
  <2>1. /\ undone' = ("main" \in stale \/ (undone /\ kind # "rollback"))
        /\ since' = IF kind = "rollback" THEN main.ago ELSE since
        /\ stale' = (IF kind = "rollback" THEN Holders ELSE stale) \ {"main"}
    BY <1>1, <1>3 DEF Save
  <2>2. CASE kind = "rollback"
    <3>1. main.copy.age = main.ago
      BY <1>1, <1>3, <2>2 DEF RunInv
    <3>2. helper'.copy # NIL => "helper" \in stale'
      BY <1>1, <2>1, <2>2, Holding
    <3> QED BY <1>4, <1>5, <2>1, <2>2, <3>1, <3>2 DEF SpacedInv
  <2>3. CASE kind # "rollback"
    <3>1. ~undone /\ "main" \notin stale => main.copy.age = since
      BY <1>1, <1>3, <2>3, MainCopy
    <3> QED BY <1>1, <1>4, <1>5, <2>1, <2>3, <3>1 DEF SpacedInv
  <2> QED BY <2>2, <2>3
<1> QED BY <1>4, <1>5, <1>7, <1>8, <1>9, <1>10 DEF IInv

\* An interrupted reconcile leaves nothing behind.
LEMMA NextInterrupted == ASSUME IInv, Interrupted PROVE IInv'
<1>1. TypeOK /\ AcceptedIsStored /\ HeldInv /\ SpacedInv /\ (doc # NIL => Quiet(doc))
  BY DEF IInv
<1>2. /\ intr > 0 /\ intr' = intr - 1 /\ main' = NoRun
      /\ stale' = stale \ {"main"} /\ blind' = blind \ {"main"}
      /\ UNCHANGED <<doc, worker, apps, put, helper, held, undone, since, met, left>>
  BY DEF Interrupted
<1>3. RunInv' /\ main'.copy = NIL /\ main' \in Runs /\ main'.at = "idle"
  BY <1>2, IdleRun, Starting
<1>4. Holders \ {"main"} \subseteq Holders'
  BY <1>2, Holding, HoldingNext
<1>5. TypeOK'
  <2>1. intr' \in Nat /\ worker
    BY <1>1, <1>2 DEF TypeOK
  <2> QED BY <1>1, <1>2, <1>3, <1>4, <2>1 DEF TypeOK
<1>6. AcceptedIsStored'
  BY <1>1, <1>2, <1>3, AllAccepted, AllAcceptedNext
<1>7. HeldInv'
  BY <1>1, <1>2, <1>3, StatusAssumption DEF HeldInv
<1>8. SpacedInv'
  BY <1>1, <1>2, <1>3 DEF SpacedInv
<1> QED BY <1>1, <1>2, <1>3, <1>5, <1>6, <1>7, <1>8 DEF IInv

-----------------------------------------------------------------------------
(* Puts *)

\* A handler makes a record of a request it accepts; a pause it has read stays.
LEMMA NextPut == ASSUME IInv, NEW c \in Clients, NEW req \in Requests, Put(c, req) PROVE IInv'
<1> DEFINE spec == NewDeploymentSpec(req, RollingUpdate(req))
<1>1. TypeOK /\ AcceptedIsStored /\ RunInv /\ HeldInv /\ SpacedInv /\ (doc # NIL => Quiet(doc))
  BY DEF IInv
<1>2. /\ Spend /\ put[c] = NIL /\ PutDeploymentReqToDomain(req).kind = "ok"
      /\ UNCHANGED <<doc, worker, intr, apps, helper, main, stale, held, undone, since, met>>
  BY DEF Put
<1>3. /\ PutDeploymentReqToDomain(req).value = spec
      /\ Etcd[spec] = Ok(spec) /\ spec \in Specs
  BY <1>2, AcceptedReadBack
<1>4. PICK read \in {doc, NIL} :
        /\ put' = [put EXCEPT ![c] = [spec |-> spec, states |-> SetDeploymentStatus(read).states,
                                      age |-> 0, paused |-> SetDeploymentStatus(read).paused]]
        /\ blind' = IF read = doc THEN blind ELSE blind \cup {c}
  BY <1>3 DEF Put
<1> HIDE DEF spec
<1> DEFINE status == SetDeploymentStatus(read)
<1>5. status.states \in [StateTypes -> BOOLEAN] /\ status.paused \in BOOLEAN
  <2>1. CASE read = NIL
    <3>1. status.states = NewDeploymentStatus /\ status.paused = FALSE
      BY <2>1 DEF SetDeploymentStatus
    <3>2. NewDeploymentStatus \in [StateTypes -> BOOLEAN] /\ FALSE \in BOOLEAN
      BY DEF NewDeploymentStatus
    <3> QED BY <3>1, <3>2, Zenon
  <2>2. CASE read # NIL
    <3>1. read \in Docs
      BY <1>1, <2>2 DEF TypeOK
    <3>2. status.states = read.states /\ status.paused = read.paused
      BY <2>2 DEF SetDeploymentStatus
    <3> QED BY <3>1, <3>2 DEF Docs
  <2> QED BY <2>1, <2>2
<1>6. held /\ read = doc => status.paused
  BY <1>1 DEF SetDeploymentStatus, HeldInv
<1> HIDE DEF status
<1> DEFINE new == [spec |-> spec, states |-> status.states, age |-> 0, paused |-> status.paused]
<1>7. new \in Docs
  BY <1>3, <1>5, StatusAssumption DEF Docs
<1>8. new # NIL /\ new.spec = spec /\ new.paused = status.paused
  BY <1>7, DocIsDoc
<1>9. put' = [put EXCEPT ![c] = new]
  BY <1>4 DEF status
<1> HIDE DEF new
<1>10. put' \in [Clients -> Docs \cup {NIL}] /\ \A k \in Clients : put'[k] = IF k = c THEN new ELSE put[k]
  BY <1>1, <1>7, <1>9 DEF TypeOK
<1>11. left' \in 0 .. Tasks
  BY <1>1, <1>2, Spending
<1>12. Holders' = Holders \cup {c}
  BY <1>2, <1>8, <1>10, Holding, HoldingNext
<1>13. TypeOK'
  BY <1>1, <1>2, <1>4, <1>8, <1>10, <1>11, <1>12 DEF TypeOK
<1>14. AcceptedIsStored'
  BY <1>1, <1>2, <1>3, <1>8, <1>10, AllAccepted, AllAcceptedNext
<1>15. HeldInv'
  <2>1. "main" \notin blind' /\ ("helper" \notin blind' => "helper" \notin blind)
    BY <1>1, <1>4, StatusAssumption DEF HeldInv
  <2>2. c \notin blind' => read = doc
    BY <1>4
  <2>3. \A k \in Clients : k \notin blind' => k \notin blind
    BY <1>4
  <2> QED BY <1>1, <1>2, <1>6, <1>8, <1>10, <2>1, <2>2, <2>3 DEF HeldInv
<1>16. RunInv' /\ SpacedInv'
  BY <1>1, <1>2 DEF RunInv, SpacedInv
<1> QED BY <1>1, <1>2, <1>13, <1>14, <1>15, <1>16 DEF IInv

\* A Put is stored: what is made of the record by the two ways there are.
LEMMA PutStored ==
  ASSUME IInv, NEW c \in Clients, put[c] # NIL, Save(c, put[c], "put", put[c].age),
         put' = [put EXCEPT ![c] = NIL], helper'.copy = helper.copy, UNCHANGED main
  PROVE  /\ doc' \in Docs /\ doc' # NIL /\ Quiet(doc')
         /\ Etcd[doc'.spec] = Ok(doc'.spec)
         /\ put' \in [Clients -> Docs \cup {NIL}]
         /\ \A k \in Clients : put'[k] = IF k = c THEN NIL ELSE put[k]
         /\ held' \in BOOLEAN /\ undone' \in BOOLEAN /\ met' \in BOOLEAN
         /\ since' \in 0 .. Horizon
         /\ stale' \subseteq Holders' /\ blind' \subseteq Holders'
         /\ RunInv' /\ HeldInv' /\ SpacedInv'
<1>1. TypeOK /\ AcceptedIsStored /\ RunInv /\ HeldInv /\ SpacedInv
  BY DEF IInv
<1>2. put[c] \in Docs /\ Etcd[put[c].spec] = Ok(put[c].spec)
  BY <1>1, AllAccepted DEF TypeOK
<1>3. put[c].age \in 0 .. Horizon
  BY <1>2 DEF Docs
<1>4. /\ doc' \in Docs /\ doc' # NIL /\ Quiet(doc')
      /\ doc'.age = put[c].age /\ doc'.paused = put[c].paused
      /\ Etcd[doc'.spec] = Ok(doc'.spec)
      /\ held' \in BOOLEAN /\ undone' \in BOOLEAN /\ met' \in BOOLEAN /\ since' \in 0 .. Horizon
      /\ stale' \subseteq Holders \ {c} /\ blind' \subseteq Holders \ {c}
  BY <1>1, <1>2, <1>3, Saved
<1>5. /\ put' \in [Clients -> Docs \cup {NIL}]
      /\ \A k \in Clients : put'[k] = IF k = c THEN NIL ELSE put[k]
  BY <1>1 DEF TypeOK
<1>6. Holders \ {c} \subseteq Holders'
  BY <1>5, Holding, HoldingNext
<1>7. RunInv'
  BY <1>1 DEF RunInv
<1>8. HeldInv'
  <2>1. held' = (held /\ c \notin blind) /\ blind' = blind \ {c}
    BY <1>1 DEF Save, TypeOK
  <2> QED BY <1>1, <1>4, <1>5, <2>1, StatusAssumption DEF HeldInv
<1>9. SpacedInv'
  <2>1. since' = put[c].age /\ stale' = Holders \ {c}
    BY DEF Save
  <2>2. /\ main'.copy # NIL => "main" \in stale'
        /\ helper'.copy # NIL => "helper" \in stale'
    BY <2>1, Holding, StatusAssumption
  <2> QED BY <1>4, <2>1, <2>2 DEF SpacedInv
<1> QED BY <1>4, <1>5, <1>6, <1>7, <1>8, <1>9

\* The worker of a Put that found none stores its record.
LEMMA NextStartWorker == ASSUME IInv, NEW c \in Clients, StartWorker(c) PROVE IInv'
<1>1. TypeOK /\ AcceptedIsStored
  BY DEF IInv
<1>2. /\ ~worker /\ put[c] # NIL /\ worker' = TRUE /\ Save(c, put[c], "put", put[c].age)
      /\ put' = [put EXCEPT ![c] = NIL] /\ UNCHANGED <<intr, apps, helper, main, left>>
  BY DEF StartWorker
<1>3. helper.at = "idle" /\ helper.task = NIL
  BY <1>1, <1>2, Starting DEF TypeOK
<1>4. /\ doc' \in Docs /\ doc' # NIL /\ Quiet(doc')
      /\ Etcd[doc'.spec] = Ok(doc'.spec)
      /\ put' \in [Clients -> Docs \cup {NIL}]
      /\ \A k \in Clients : put'[k] = IF k = c THEN NIL ELSE put[k]
      /\ held' \in BOOLEAN /\ undone' \in BOOLEAN /\ met' \in BOOLEAN
      /\ since' \in 0 .. Horizon
      /\ stale' \subseteq Holders' /\ blind' \subseteq Holders'
      /\ RunInv' /\ HeldInv' /\ SpacedInv'
  BY <1>2, PutStored
<1>5. TypeOK'
  BY <1>1, <1>2, <1>3, <1>4, StatusAssumption DEF TypeOK
<1>6. AcceptedIsStored'
  BY <1>1, <1>2, <1>4, AllAccepted, AllAcceptedNext
<1> QED BY <1>4, <1>5, <1>6 DEF IInv

\* The helper stores the record a Put has sent it.
LEMMA NextPutTask == ASSUME IInv, NEW c \in Clients, HandlePutTask(c) PROVE IInv'
<1>1. TypeOK /\ AcceptedIsStored
  BY DEF IInv
<1>2. /\ helper.at = "save" /\ helper.task = c /\ helper' = NoTask
      /\ Save(c, put[c], "put", put[c].age)
      /\ put' = [put EXCEPT ![c] = NIL] /\ UNCHANGED <<worker, intr, apps, main, left>>
  BY DEF HandlePutTask, Saving, TaskEnds
<1>3. put[c] # NIL /\ helper.copy = NIL
  BY <1>1, <1>2, StatusAssumption DEF TypeOK
<1>4. helper'.copy = helper.copy
  BY <1>2, <1>3, Starting
<1>5. /\ doc' \in Docs /\ doc' # NIL /\ Quiet(doc')
      /\ Etcd[doc'.spec] = Ok(doc'.spec)
      /\ put' \in [Clients -> Docs \cup {NIL}]
      /\ \A k \in Clients : put'[k] = IF k = c THEN NIL ELSE put[k]
      /\ held' \in BOOLEAN /\ undone' \in BOOLEAN /\ met' \in BOOLEAN
      /\ since' \in 0 .. Horizon
      /\ stale' \subseteq Holders' /\ blind' \subseteq Holders'
      /\ RunInv' /\ HeldInv' /\ SpacedInv'
  BY <1>2, <1>3, <1>4, PutStored
<1>6. TypeOK'
  BY <1>1, <1>2, <1>5, Starting, StatusAssumption DEF TypeOK
<1>7. AcceptedIsStored'
  BY <1>1, <1>2, <1>3, <1>4, <1>5, AllAccepted, AllAcceptedNext
<1> QED BY <1>5, <1>6, <1>7 DEF IInv

\* A Put that is lost leaves no record.
LEMMA NextPutLost == ASSUME IInv, NEW c \in Clients, PutLost(c) PROVE IInv'
<1>1. TypeOK /\ AcceptedIsStored /\ RunInv /\ HeldInv /\ SpacedInv /\ (doc # NIL => Quiet(doc))
  BY DEF IInv
<1>2. /\ helper.task # c /\ put' = [put EXCEPT ![c] = NIL]
      /\ stale' = stale \ {c} /\ blind' = blind \ {c}
      /\ UNCHANGED <<doc, worker, intr, apps, helper, main, held, undone, since, met, left>>
  BY DEF PutLost
<1>3. /\ put' \in [Clients -> Docs \cup {NIL}]
      /\ \A k \in Clients : put'[k] = IF k = c THEN NIL ELSE put[k]
  BY <1>1, <1>2 DEF TypeOK
<1>4. Holders \ {c} \subseteq Holders'
  BY <1>2, <1>3, Holding, HoldingNext
<1>5. TypeOK'
  BY <1>1, <1>2, <1>3, <1>4, StatusAssumption DEF TypeOK
<1>6. AcceptedIsStored'
  BY <1>1, <1>2, <1>3, AllAccepted, AllAcceptedNext
<1>7. HeldInv'
  BY <1>1, <1>2, <1>3, StatusAssumption DEF HeldInv
<1>8. RunInv' /\ SpacedInv'
  BY <1>1, <1>2, StatusAssumption DEF RunInv, SpacedInv
<1> QED BY <1>1, <1>2, <1>5, <1>6, <1>7, <1>8 DEF IInv

\* An end of the service ends all copies and leaves the record to nobody.
LEMMA NextServiceEnds == ASSUME IInv, Spend, ServiceEnds PROVE IInv'
<1>1. TypeOK /\ AcceptedIsStored /\ HeldInv /\ SpacedInv /\ (doc # NIL => Quiet(doc))
  BY DEF IInv
<1>2. /\ worker' = FALSE /\ intr' = 0 /\ put' = [c \in Clients |-> NIL] /\ helper' = NoTask
      /\ main' = NoRun /\ stale' = {} /\ blind' = {}
      /\ UNCHANGED <<doc, apps, held, undone, since, met>>
  BY DEF ServiceEnds
<1>3. left' \in 0 .. Tasks /\ worker' \in BOOLEAN
  BY <1>1, <1>2, Spending
<1>4. \A c \in Clients : put'[c] = NIL
  BY <1>2
<1>5. TypeOK'
  BY <1>1, <1>2, <1>3, <1>4, Starting, StatusAssumption DEF TypeOK
<1>6. AcceptedIsStored'
  BY <1>1, <1>2, <1>4, Starting, AllAccepted, AllAcceptedNext
<1>7. HeldInv' /\ RunInv' /\ SpacedInv'
  BY <1>1, <1>2, <1>4, Starting, IdleRun DEF HeldInv, SpacedInv
<1> QED BY <1>1, <1>2, <1>5, <1>6, <1>7 DEF IInv

-----------------------------------------------------------------------------
(* The other tasks *)

\* The helper takes a task; nothing is read yet.
LEMMA NextInterrupt ==
  ASSUME IInv, NEW task \in Clients \cup TaskTypes,
         task \in Clients => put[task] # NIL, task \in TaskTypes => doc # NIL,
         Interrupt(task), left' \in 0 .. Tasks
  PROVE  IInv'
<1>1. TypeOK /\ AcceptedIsStored /\ RunInv /\ HeldInv /\ SpacedInv /\ (doc # NIL => Quiet(doc))
  BY DEF IInv
<1>2. /\ worker /\ helper.at = "idle" /\ intr' = intr + 1
      /\ helper' = [NoTask EXCEPT !.at = "read", !.task = task]
      /\ UNCHANGED <<doc, worker, apps, put, main, stale, blind, held, undone, since, met>>
  BY DEF Interrupt, ghosts
<1>3. helper' \in TaskRuns /\ helper'.at = "read" /\ helper'.task = task /\ helper'.copy = NIL
  BY <1>2, Starting DEF TaskRuns
<1>4. helper.copy = NIL /\ task # NIL
  BY <1>1, <1>2, StatusAssumption DEF TypeOK
<1>5. Holders \subseteq Holders'
  BY <1>2, <1>3, <1>4, Holding, HoldingNext
<1>6. TypeOK'
  BY <1>1, <1>2, <1>3, <1>4, <1>5 DEF TypeOK
<1>7. AcceptedIsStored'
  BY <1>1, <1>2, <1>3, AllAccepted, AllAcceptedNext
<1>8. RunInv' /\ HeldInv' /\ SpacedInv'
  BY <1>1, <1>2, <1>3 DEF RunInv, HeldInv, SpacedInv
<1> QED BY <1>1, <1>2, <1>6, <1>7, <1>8 DEF IInv

\* It reads the record, or needs none.
LEMMA NextReadRecord == ASSUME IInv, ReadRecord PROVE IInv'
<1>1. TypeOK /\ AcceptedIsStored /\ RunInv /\ HeldInv /\ SpacedInv /\ (doc # NIL => Quiet(doc))
  BY DEF IInv
<1> DEFINE copy == IF helper.task \in Clients THEN NIL ELSE doc
<1>2. /\ helper.at = "read" /\ helper' = [helper EXCEPT !.at = "save", !.copy = copy]
      /\ UNCHANGED <<doc, worker, intr, apps, put, main, stale, blind, held, undone, since, met, left>>
  BY DEF ReadRecord, ghosts
<1>3. /\ helper \in TaskRuns /\ copy \in Docs \cup {NIL} /\ helper.task # NIL
      /\ copy # NIL => copy = doc
      /\ copy # NIL <=> helper.task \in TaskTypes
  BY <1>1, <1>2, StatusAssumption DEF TypeOK, TaskRuns
<1> HIDE DEF copy
<1>4. helper' \in TaskRuns /\ helper'.at = "save" /\ helper'.task = helper.task /\ helper'.copy = copy
  BY <1>2, <1>3 DEF TaskRuns
<1>5. Holders \subseteq Holders'
  <2>1. helper.copy = NIL
    BY <1>1, <1>2 DEF TypeOK
  <2> QED BY <1>2, <2>1, Holding, HoldingNext
<1>6. TypeOK'
  BY <1>1, <1>2, <1>3, <1>4, <1>5, Starting DEF TypeOK
<1>7. AcceptedIsStored'
  BY <1>1, <1>2, <1>3, <1>4, AllAccepted, AllAcceptedNext
<1>8. RunInv' /\ HeldInv' /\ SpacedInv'
  BY <1>1, <1>2, <1>3, <1>4 DEF RunInv, HeldInv, SpacedInv
<1> QED BY <1>1, <1>2, <1>6, <1>7, <1>8 DEF IInv

\* A task of the helper's own is done: what is left of it.
LEMMA TaskDone ==
  ASSUME IInv, NEW tasks \in SUBSET TaskTypes, Saving(tasks), TaskEnds
  PROVE  /\ helper.copy \in Docs /\ helper.copy # NIL /\ doc # NIL
         /\ Etcd[helper.copy.spec] = Ok(helper.copy.spec)
         /\ held /\ "helper" \notin blind => helper.copy.paused
         /\ ~undone /\ "helper" \notin stale => helper.copy.age = since
         /\ helper'.copy = NIL /\ helper' \in TaskRuns /\ helper'.at = "idle" /\ helper'.task = NIL
         /\ UNCHANGED <<worker, intr, apps, main, left>>
<1>1. helper.at = "save" /\ helper.task \in TaskTypes
  BY DEF Saving
<1>2. TypeOK /\ AcceptedIsStored /\ HeldInv /\ SpacedInv
  BY DEF IInv
<1>3. helper.copy \in Docs /\ helper.copy # NIL /\ doc # NIL
  BY <1>1, <1>2 DEF TypeOK, TaskRuns
<1>4. Etcd[helper.copy.spec] = Ok(helper.copy.spec)
  BY <1>2, <1>3, AllAccepted
<1> QED BY <1>2, <1>3, <1>4, Starting DEF HeldInv, SpacedInv, TaskEnds

\* A record that the helper saves keeps the invariant if its pause and its age do.
LEMMA TaskSaves ==
  ASSUME IInv, NEW tasks \in SUBSET TaskTypes, Saving(tasks), TaskEnds, UNCHANGED put,
         NEW d \in Docs, d.spec = helper.copy.spec, NEW kind, kind \notin {"put", "failure"},
         Save("helper", d, kind, 0),
         held /\ kind # "unpause" /\ "helper" \notin blind => d.paused,
         IF kind = "rollback" THEN d.age = 0
                              ELSE ~undone /\ "helper" \notin stale => d.age = since
  PROVE  IInv'
<1>1. TypeOK /\ AcceptedIsStored /\ RunInv /\ HeldInv /\ SpacedInv
  BY DEF IInv
<1>2. Etcd[d.spec] = Ok(d.spec) /\ 0 \in 0 .. Horizon
  BY TaskDone, StatusAssumption
<1>3. /\ doc' \in Docs /\ doc' # NIL /\ Quiet(doc')
      /\ doc'.age = d.age /\ doc'.paused = d.paused /\ Etcd[doc'.spec] = Ok(doc'.spec)
      /\ held' \in BOOLEAN /\ undone' \in BOOLEAN /\ met' \in BOOLEAN /\ since' \in 0 .. Horizon
      /\ stale' \subseteq Holders \ {"helper"} /\ blind' \subseteq Holders \ {"helper"}
  BY <1>1, <1>2, Saved
<1>4. /\ helper'.copy = NIL /\ helper' \in TaskRuns /\ helper'.at = "idle" /\ helper'.task = NIL
      /\ UNCHANGED <<worker, intr, apps, main, left>>
  BY TaskDone
<1>5. Holders \ {"helper"} \subseteq Holders'
  BY <1>4, Holding, HoldingNext
<1>6. TypeOK'
  <2>1. helper' = NoTask
    BY DEF TaskEnds
  <2> QED BY <1>1, <1>3, <1>4, <1>5, <2>1, StatusAssumption DEF TypeOK
<1>7. AcceptedIsStored'
  BY <1>1, <1>3, <1>4, AllAccepted, AllAcceptedNext
<1>8. HeldInv'
  <2>1. held' = (held /\ "helper" \notin blind /\ kind # "unpause") /\ blind' = blind \ {"helper"}
    BY <1>1 DEF Save, TypeOK
  <2> QED BY <1>1, <1>3, <1>4, <2>1, StatusAssumption DEF HeldInv
<1>9. SpacedInv'
  <2>1. /\ undone' = ("helper" \in stale \/ (undone /\ kind # "rollback"))
        /\ since' = IF kind = "rollback" THEN 0 ELSE since
        /\ stale' = (IF kind = "rollback" THEN Holders ELSE stale) \ {"helper"}
    BY DEF Save
  <2>2. CASE kind = "rollback"
    <3>1. main'.copy # NIL => "main" \in stale'
      BY <1>4, <2>1, <2>2, Holding
    <3> QED BY <1>3, <1>4, <2>1, <2>2, <3>1 DEF SpacedInv
  <2>3. CASE kind # "rollback"
    BY <1>1, <1>3, <1>4, <2>1, <2>3 DEF SpacedInv
  <2> QED BY <2>2, <2>3
<1>10. RunInv'
  BY <1>1, <1>4 DEF RunInv
<1> QED BY <1>3, <1>6, <1>7, <1>8, <1>9, <1>10 DEF IInv

\* A Pause keeps the hold of a failure, an Unpause ends it.
LEMMA NextSetPaused == ASSUME IInv, SetPaused PROVE IInv'
<1> DEFINE p == (helper.task = "pause")
           d == [helper.copy EXCEPT !.paused = p]
<1>1. /\ Saving({"pause", "unpause"}) /\ TaskEnds /\ UNCHANGED put
      /\ Save("helper", d, helper.task, 0)
  BY DEF SetPaused
<1>2. {"pause", "unpause"} \in SUBSET TaskTypes
  BY DEF TaskTypes
<1>3. /\ helper.copy \in Docs /\ UNCHANGED <<worker, intr, apps, main, left>>
      /\ ~undone /\ "helper" \notin stale => helper.copy.age = since
  BY <1>1, <1>2, TaskDone
<1>4. d \in Docs /\ d.spec = helper.copy.spec /\ d.age = helper.copy.age /\ d.paused = p
  BY <1>3 DEF Docs
<1>5. helper.task \in {"pause", "unpause"}
  BY <1>1 DEF Saving
<1> HIDE DEF d
<1> QED BY <1>1, <1>2, <1>3, <1>4, <1>5, TaskSaves

\* A rollback on request starts the time over.
LEMMA NextRollbackTask == ASSUME IInv, HandleRollbackTask PROVE IInv'
<1> DEFINE d == Rollback(helper.copy)
<1>1. Saving({"rollback"}) /\ TaskEnds /\ UNCHANGED put /\ Save("helper", d, "rollback", 0)
  BY DEF HandleRollbackTask
<1>2. {"rollback"} \in SUBSET TaskTypes
  BY DEF TaskTypes
<1>3. helper.copy \in Docs /\ (held /\ "helper" \notin blind => helper.copy.paused)
  BY <1>1, <1>2, TaskDone
<1>4. d \in Docs /\ d.age = 0 /\ d.spec = helper.copy.spec /\ d.paused = helper.copy.paused
  BY <1>3, RolledBack
<1> HIDE DEF d
<1> QED BY <1>1, <1>2, <1>3, <1>4, TaskSaves

\* A task that fails leaves no copy.
LEMMA NextTaskFails == ASSUME IInv, TaskFails PROVE IInv'
<1>1. TypeOK /\ AcceptedIsStored /\ RunInv /\ HeldInv /\ SpacedInv /\ (doc # NIL => Quiet(doc))
  BY DEF IInv
<1>2. /\ helper' = NoTask
      /\ put' = [c \in Clients |-> IF c = helper.task THEN NIL ELSE put[c]]
      /\ stale' = stale \ {helper.task, "helper"} /\ blind' = blind \ {helper.task, "helper"}
      /\ UNCHANGED <<doc, worker, intr, apps, main, held, undone, since, met, left>>
      /\ helper.task \in Clients \cup TaskTypes
  BY DEF TaskFails, TaskEnds, Saving
<1>3. /\ put' \in [Clients -> Docs \cup {NIL}]
      /\ \A c \in Clients : put'[c] = IF c = helper.task THEN NIL ELSE put[c]
  BY <1>1, <1>2 DEF TypeOK
<1>4. "main" # helper.task
  BY <1>2, StatusAssumption DEF TaskTypes
<1>5. Holders \ {helper.task, "helper"} \subseteq Holders'
  BY <1>2, <1>3, Holding, HoldingNext
<1>6. TypeOK'
  BY <1>1, <1>2, <1>3, <1>5, Starting, StatusAssumption DEF TypeOK
<1>7. AcceptedIsStored'
  BY <1>1, <1>2, <1>3, Starting, AllAccepted, AllAcceptedNext
<1>8. HeldInv'
  BY <1>1, <1>2, <1>3, <1>4, Starting, StatusAssumption DEF HeldInv
<1>9. RunInv' /\ SpacedInv'
  BY <1>1, <1>2, <1>4, Starting DEF RunInv, SpacedInv
<1> QED BY <1>1, <1>2, <1>6, <1>7, <1>8, <1>9 DEF IInv

-----------------------------------------------------------------------------
(* The world *)

\* Time passes for the record, its copies and the auxiliary clock alike.
LEMMA NextTick == ASSUME IInv, Tick PROVE IInv'
<1>1. TypeOK /\ AcceptedIsStored /\ RunInv /\ HeldInv /\ SpacedInv /\ doc # NIL /\ Quiet(doc)
  BY DEF IInv, Tick
<1>2. /\ doc' = Aged(doc) /\ put' = [c \in Clients |-> Aged(put[c])]
      /\ helper' = [helper EXCEPT !.copy = Aged(helper.copy)]
      /\ main' = [main EXCEPT !.copy = Aged(main.copy),
                              !.ago = IF main.what = "rollback" THEN Later(main.ago) ELSE 0]
      /\ since' = Later(since)
      /\ UNCHANGED <<worker, intr, apps, stale, blind, held, undone, left>>
  BY DEF Tick
<1>3. /\ doc' \in Docs /\ doc' # NIL /\ doc'.age = Later(doc.age) /\ doc'.spec = doc.spec
      /\ Quiet(doc') /\ doc'.paused = doc.paused
  BY <1>1, <1>2, AgedDoc, DocIsDoc DEF TypeOK, Quiet
<1>4. /\ put' \in [Clients -> Docs \cup {NIL}]
      /\ \A c \in Clients : put'[c] = NIL <=> put[c] = NIL
      /\ \A c \in Clients : put[c] # NIL => put'[c].spec = put[c].spec /\ put'[c].paused = put[c].paused
  <2>1. \A c \in Clients : put[c] \in Docs \cup {NIL} /\ put'[c] = Aged(put[c])
    BY <1>1, <1>2 DEF TypeOK
  <2>2. \A c \in Clients : Aged(put[c]) \in Docs \cup {NIL}
    BY <2>1, AgedDoc
  <2> QED BY <1>2, <2>1, <2>2, AgedDoc
<1>5. /\ helper' \in TaskRuns /\ helper'.at = helper.at /\ helper'.task = helper.task
      /\ helper'.copy = NIL <=> helper.copy = NIL
      /\ helper.copy # NIL => /\ helper'.copy.spec = helper.copy.spec
                              /\ helper'.copy.paused = helper.copy.paused
                              /\ helper'.copy.age = Later(helper.copy.age)
  <2>1. helper \in TaskRuns /\ helper.copy \in Docs \cup {NIL}
    BY <1>1 DEF TypeOK, TaskRuns
  <2>2. Aged(helper.copy) \in Docs \cup {NIL}
    BY <2>1, AgedDoc
  <2>3. /\ helper' \in TaskRuns /\ helper'.at = helper.at /\ helper'.task = helper.task
        /\ helper'.copy = Aged(helper.copy)
    BY <1>2, <2>1, <2>2 DEF TaskRuns
  <2> QED BY <2>1, <2>3, AgedDoc
<1>6. /\ main' \in Runs /\ main'.at = main.at /\ main'.what = main.what
      /\ main'.rolled = main.rolled /\ main'.completed = main.completed
      /\ main'.copy = NIL <=> main.copy = NIL
      /\ main.copy # NIL => /\ main'.copy.spec = main.copy.spec
                            /\ main'.copy.paused = main.copy.paused
                            /\ main'.copy.states = main.copy.states
                            /\ main'.copy.age = Later(main.copy.age)
      /\ main.what = "rollback" => main'.ago = Later(main.ago)
  <2>1. main \in Runs /\ main.copy \in Docs \cup {NIL} /\ main.ago \in 0 .. Horizon
    BY <1>1 DEF TypeOK, Runs
  <2>2. Aged(main.copy) \in Docs \cup {NIL}
    BY <2>1, AgedDoc
  <2> DEFINE ago == IF main.what = "rollback" THEN Later(main.ago) ELSE 0
  <2>3. ago \in 0 .. Horizon /\ (main.what = "rollback" => ago = Later(main.ago))
    BY <2>1, StatusAssumption DEF Later
  <2>4. main' = [main EXCEPT !.copy = Aged(main.copy), !.ago = ago]
    BY <1>2
  <2> HIDE DEF ago
  <2>5. /\ main' \in Runs /\ main'.at = main.at /\ main'.what = main.what
        /\ main'.rolled = main.rolled /\ main'.completed = main.completed
        /\ main'.copy = Aged(main.copy) /\ main'.ago = ago
    BY <2>1, <2>2, <2>3, <2>4 DEF Runs
  <2> QED BY <2>1, <2>3, <2>5, AgedDoc
<1>7. since' \in 0 .. Horizon /\ met' \in BOOLEAN
  <2>1. since' \in 0 .. Horizon
    BY <1>1, <1>2, StatusAssumption DEF TypeOK, Later
  <2>2. met' = Meets(doc, apps)
    BY DEF Tick
  <2> QED BY <2>1, <2>2 DEF Meets
<1>8. Holders' = Holders
  <2>1. ASSUME NEW h \in Holders PROVE h \in Holders'
    BY <2>1, <1>4, <1>5, <1>6 DEF Holders
  <2>2. ASSUME NEW h \in Holders' PROVE h \in Holders
    BY <2>2, <1>4, <1>5, <1>6 DEF Holders
  <2> QED BY <2>1, <2>2
<1>9. main = NoRun => main' = NoRun
  <2>1. CASE main = NoRun
    <3>1. main' = [NoRun EXCEPT !.copy = NIL, !.ago = 0]
      BY <1>2, <2>1, Starting DEF Aged
    <3> QED BY <3>1 DEF NoRun
  <2> QED BY <2>1
<1>10. helper = NoTask => helper' = NoTask
  <2>1. CASE helper = NoTask
    <3>1. helper' = [NoTask EXCEPT !.copy = NIL]
      BY <1>2, <2>1, Starting DEF Aged
    <3> QED BY <3>1 DEF NoTask
  <2> QED BY <2>1
<1>11. TypeOK'
  BY <1>1, <1>2, <1>3, <1>4, <1>5, <1>6, <1>7, <1>8, <1>9, <1>10 DEF TypeOK
<1>12. AcceptedIsStored'
  BY <1>1, <1>3, <1>4, <1>5, <1>6, AllAccepted, AllAcceptedNext
<1>13. RunInv'
  <2>1. main.copy # NIL <=> main.at # "idle"
    BY <1>1 DEF TypeOK
  <2> QED BY <1>1, <1>6, <1>9, <2>1, Starting DEF RunInv, Quiet
<1>14. HeldInv'
  BY <1>1, <1>2, <1>3, <1>4, <1>5, <1>6 DEF HeldInv
<1>15. SpacedInv'
  BY <1>1, <1>2, <1>3, <1>5, <1>6 DEF SpacedInv
<1> QED BY <1>3, <1>11, <1>12, <1>13, <1>14, <1>15 DEF IInv

\* Apps do not touch the record.
LEMMA NextAppsChange == ASSUME IInv, AppsChange PROVE IInv'
<1>1. TypeOK /\ AcceptedIsStored /\ RunInv /\ HeldInv /\ SpacedInv /\ (doc # NIL => Quiet(doc))
  BY DEF IInv
<1>2. UNCHANGED <<doc, worker, intr, put, helper, main, stale, blind, held, undone, since, left>>
  BY DEF AppsChange, copies
<1>3. apps' \in Found /\ met' \in BOOLEAN
  BY DEF AppsChange, Meets
<1>4. Holders' = Holders
  BY <1>2 DEF Holders
<1>5. TypeOK'
  BY <1>1, <1>2, <1>3, <1>4 DEF TypeOK
<1>6. AcceptedIsStored'
  BY <1>1, <1>2 DEF AcceptedIsStored
<1> QED BY <1>1, <1>2, <1>5, <1>6 DEF IInv, RunInv, HeldInv, SpacedInv

\* Nothing has happened.
LEMMA InitInv == Init => IInv
<1> SUFFICES ASSUME Init PROVE IInv
  OBVIOUS
<1>1. /\ doc = NIL /\ worker = FALSE /\ intr = 0 /\ apps \in Found /\ helper = NoTask /\ main = NoRun
      /\ put = [c \in Clients |-> NIL] /\ stale = {} /\ blind = {}
      /\ held = FALSE /\ undone = FALSE /\ since = 0 /\ met = FALSE /\ left = Tasks
  BY DEF Init
<1>2. worker \in BOOLEAN /\ held \in BOOLEAN /\ undone \in BOOLEAN /\ met \in BOOLEAN
  BY <1>1, Zenon
<1>3. \A c \in Clients : put[c] = NIL
  BY <1>1
<1>4. TypeOK
  BY <1>1, <1>2, <1>3, Starting, StatusAssumption DEF TypeOK
<1>5. AcceptedIsStored
  BY <1>1, <1>3, Starting, AllAccepted
<1>6. RunInv /\ HeldInv /\ SpacedInv
  BY <1>1, <1>3, Starting DEF RunInv, HeldInv, SpacedInv
<1> QED BY <1>1, <1>4, <1>5, <1>6 DEF IInv

\* Every step keeps the invariant.
LEMMA NextInv == IInv /\ [Next]_vars => IInv'
<1> SUFFICES ASSUME IInv, [Next]_vars PROVE IInv'
  OBVIOUS
<1> USE DEF IInv
<1>1. ASSUME NEW c \in Clients, NEW req \in Requests, Put(c, req) PROVE IInv'
  BY <1>1, NextPut
<1>2. ASSUME NEW c \in Clients, StartWorker(c) \/ PutLost(c) \/ HandlePutTask(c) PROVE IInv'
  BY <1>2, NextStartWorker, NextPutLost, NextPutTask
<1>3. ASSUME NEW c \in Clients, TakePut(c) PROVE IInv'
  <2>1. left' \in 0 .. Tasks
    BY <1>3 DEF TakePut, TypeOK
  <2>2. c \notin TaskTypes
    BY StatusAssumption
  <2> QED BY <1>3, <2>1, <2>2, NextInterrupt DEF TakePut
<1>4. ASSUME NEW task \in TaskTypes, TakeTask(task) PROVE IInv'
  <2>1. left' \in 0 .. Tasks
    BY <1>4, Spending DEF TakeTask
  <2>2. task \notin Clients
    BY StatusAssumption
  <2> QED BY <1>4, <2>1, <2>2, NextInterrupt DEF TakeTask
<1>5. ASSUME NEW req \in Requests, PutPanics(req) PROVE IInv'
  BY <1>5, NextServiceEnds DEF PutPanics
<1>6. CASE Restart
  BY <1>6, NextServiceEnds DEF Restart
<1>7. CASE ReadRecord \/ SetPaused \/ HandleRollbackTask \/ TaskFails
  BY <1>7, NextReadRecord, NextSetPaused, NextRollbackTask, NextTaskFails
<1>8. CASE Reconcile
  BY <1>8, NextRead, NextUpdate, NextFail, NextRoll, NextLastCheck, NextSaveAtEnd, NextInterrupted
     DEF Reconcile
<1>9. CASE Tick \/ AppsChange
  BY <1>9, NextTick, NextAppsChange
<1>10. CASE UNCHANGED vars
  <2>1. UNCHANGED <<doc, worker, intr, apps, put, helper, main, stale, blind, held, undone, since, met, left>>
    BY <1>10 DEF vars, copies, ghosts
  <2>2. Holders' = Holders
    BY <2>1 DEF Holders
  <2>3. TypeOK'
    BY <2>1, <2>2 DEF TypeOK
  <2> QED BY <2>1, <2>3 DEF RunInv, HeldInv, SpacedInv, AcceptedIsStored
<1> QED BY <1>1, <1>2, <1>3, <1>4, <1>5, <1>6, <1>7, <1>8, <1>9, <1>10 DEF Next

-----------------------------------------------------------------------------
(* What follows *)

\* The invariant holds in every reachable state.
LEMMA InvAlways == Spec => []IInv
BY InitInv, NextInv, PTL DEF Spec

\* Every reachable state of the status is well-typed: no copy is where none is needed
\* (worker.go:70-133, reconciliation.go:174-237).
THEOREM TypeCorrect == Spec => []TypeOK
<1>1. IInv => TypeOK
  BY DEF IInv
<1> QED BY InvAlways, <1>1, PTL

\* What the request mapping accepts can be stored and is read back as it was accepted,
\* whatever is requested (update_service.go:19-121, domain.go:60-165).
THEOREM AcceptedIsStoredHolds == Spec => []AcceptedIsStored
<1>1. IInv => AcceptedIsStored
  BY DEF IInv
<1> QED BY InvAlways, <1>1, PTL

\* A completed rollout is neither rolled back nor paused nor rolled on
\* (reconciliation.go:196-228): the stored failure comes back inactive.
THEOREM CompletedIsLeftAloneHolds == Spec => []CompletedIsLeftAlone
<1>1. IInv => CompletedIsLeftAlone
  BY DEF IInv, RunInv, CompletedIsLeftAlone
<1> QED BY InvAlways, <1>1, PTL

\* Roll starts in the step that decides it, and in no other.
LEMMA RollIsStarted == ASSUME IInv, Next, RollStarts PROVE Roll
<1>1. main.at = "roll" /\ ~main.rolled /\ main # NoRun /\ NoRun.rolled = FALSE /\ main'.rolled
  BY Starting DEF IInv, RunInv, RollStarts
<1>2. main' # main /\ main' # NoRun
  BY <1>1
<1>3. CASE Reconcile
  BY <1>1, <1>2, <1>3 DEF Reconcile, ReadForReconcile, UpdateStates, Fail, LastCheck, SaveAtEnd, Interrupted
<1>4. CASE Tick
  <2>1. main'.rolled = main.rolled
    BY <1>4 DEF Tick, IInv, TypeOK, Runs
  <2> QED BY <1>1, <2>1
<1>5. main' = main \/ main' = NoRun \/ Reconcile \/ Tick
  BY DEF Next, Put, PutPanics, Restart, ServiceEnds, StartWorker, PutLost, TakePut, TakeTask,
         Interrupt, HandlePutTask, SetPaused, HandleRollbackTask, TaskFails, TaskEnds, ReadRecord,
         AppsChange, copies
<1> QED BY <1>2, <1>3, <1>4, <1>5

\* A saved failure without automatic rollback stops all rolling until an Unpause is saved
\* (reconciliation.go:206), for any requests, clients, restarts and interrupts - unless a
\* copy from before the failure takes the pause back.
THEOREM FailureHoldsAlways == Spec => FailureHolds
<1>1. IInv /\ [Next]_vars => [held => ~RollStarts]_vars
  <2> SUFFICES ASSUME IInv, Next, held, RollStarts PROVE FALSE
    OBVIOUS
  <2>1. Roll
    BY RollIsStarted
  <2>2. main.at = "roll" /\ main' = [main EXCEPT !.at = "check", !.rolled = Rolls(main.copy)]
    BY <2>1 DEF Roll
  <2>3. main.copy.paused
    BY <2>2, MainCopy
  <2>4. ~Rolls(main.copy)
    BY <2>3 DEF Rolls
  <2>5. main'.rolled = Rolls(main.copy)
    BY <2>2, MainCopy DEF Runs
  <2> QED BY <2>4, <2>5 DEF RollStarts
<1> QED BY InvAlways, <1>1, PTL DEF Spec, FailureHolds

\* A failure is declared in the step that decides it, and in no other.
LEMMA FailureIsDeclared == ASSUME IInv, Next, Declares PROVE UpdateStates
<1>1. main.at = "update" /\ main'.at = "fail" /\ NoRun.at = "idle"
  BY Starting DEF Declares
<1>2. main' # main /\ main' # NoRun
  BY <1>1
<1>3. CASE Reconcile
  BY <1>1, <1>2, <1>3 DEF Reconcile, ReadForReconcile, Fail, Roll, LastCheck, SaveAtEnd, Interrupted
<1>4. CASE Tick
  <2>1. main'.at = main.at
    BY <1>4 DEF Tick, IInv, TypeOK, Runs
  <2> QED BY <1>1, <2>1
<1>5. main' = main \/ main' = NoRun \/ Reconcile \/ Tick
  BY DEF Next, Put, PutPanics, Restart, ServiceEnds, StartWorker, PutLost, TakePut, TakeTask,
         Interrupt, HandlePutTask, SetPaused, HandleRollbackTask, TaskFails, TaskEnds, ReadRecord,
         AppsChange, copies
<1> QED BY <1>2, <1>3, <1>4, <1>5

\* A failure is declared only when more than the deadline has passed since the last saved
\* Put or rollback was made (reconciliation.go:374-377, 586), by a reconcile that has read
\* it and while no older copy has been saved over it (reconciliation.go:236).
THEOREM FailuresAreSpacedHolds == Spec => FailuresAreSpaced
<1>1. IInv /\ [Next]_vars
        => [Declares /\ ~undone /\ "main" \notin stale => since > main.copy.spec.deadline]_vars
  <2> SUFFICES ASSUME IInv, Next, Declares, ~undone, "main" \notin stale
               PROVE  since > main.copy.spec.deadline
    OBVIOUS
  <2> DEFINE new == UpdateStatusStates(main.copy, apps)
             done == Completed(main.copy.spec, apps)
  <2>1. main.at = "update" /\ main' = [main EXCEPT !.at = "fail", !.copy = new, !.completed = done]
    BY FailureIsDeclared DEF UpdateStates
  <2>2. /\ main \in Runs /\ main.copy \in Docs /\ RunInv
        /\ main.what # "rollback" => main.copy.age = since
    BY <2>1, MainCopy
  <2>3. Quiet(main.copy) /\ main.what = "none"
    BY <2>1, <2>2 DEF RunInv
  <2>4. new.states["Failure"] => IsDeadlineExceeded(main.copy)
    BY <2>2, <2>3, Updated
  <2> HIDE DEF new, done
  <2>5. main'.copy = new
    BY <2>1, <2>2 DEF Runs
  <2>6. IsDeadlineExceeded(main.copy)
    BY <2>4, <2>5 DEF Declares
  <2> QED BY <2>2, <2>3, <2>6 DEF IsDeadlineExceeded
<1> QED BY InvAlways, <1>1, PTL DEF Spec, FailuresAreSpaced
=============================================================================
