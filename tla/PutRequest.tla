---------------------------- MODULE PutRequest ----------------------------
(***************************************************************************)
(* What becomes of a PutDeployment request on its way into the record and  *)
(* of the record on its way through etcd and back: the checks in their     *)
(* order, the defaults, the mapping to protobuf and from it.  Pure         *)
(* operators.                                                              *)
(*                                                                         *)
(* A request is a record; NIL stands for a field or a message that is not  *)
(* there.  A mapping ends in "ok" with a value, in "error", which the      *)
(* caller gets to see, or in "panic", a nil that is used, which ends the   *)
(* service: no handler recovers.                                           *)
(***************************************************************************)
EXTENDS Integers, Sequences

CONSTANT NIL

ValidModes == {"DirectDocker", "DirectStar", "IndirectStar"}
Quotas == {"mem", "cpu", "disk"}

Ok(x) == [kind |-> "ok", value |-> x]
Fails(how) == [kind |-> how, value |-> NIL]

Check(bad, how) == [bad |-> bad, how |-> how]

\* The first check that strikes decides.
Outcome(checks, x) ==
    LET Strikes(i) == checks[i].bad /\ \A k \in 1 .. (i - 1) : ~checks[k].bad
    IN IF \E i \in DOMAIN checks : checks[i].bad
       THEN Fails(checks[CHOOSE i \in DOMAIN checks : Strikes(i)].how)
       ELSE Ok(x)

Negative(n) == n # NIL /\ n < 0
Default(n, d) == IF n = NIL THEN d ELSE n

\* A strategy of type RollingUpdate without its parameters gets empty ones.
RollingUpdate(req) ==
    IF req.rolling = NIL /\ req.type = "RollingUpdate" THEN [surge |-> NIL, unavailable |-> NIL]
                                                       ELSE req.rolling

\* NewDeploymentSpec; automaticRollback and the limits have defaults.
NewDeploymentSpec(req, roll) ==
    [count |-> req.count, minReady |-> req.minReady, deadline |-> req.deadline,
     auto |-> Default(req.auto, TRUE), mode |-> req.mode, type |-> req.type,
     rolling |-> roll, quota |-> req.quota,
     limit |-> Default(req.limit, 10), period |-> Default(req.period, 30)]

\* (mutant) the mode is not looked at
PutDeploymentReqToDomainAnyMode(req) ==
    LET roll == RollingUpdate(req) IN
    Outcome(<<Check(req.profile = NIL, "panic"),
              Check(req.quota \notin Quotas, "error"),
              Check(roll # NIL /\ (roll.unavailable = NIL \/ roll.surge = NIL), "panic"),
              Check(req.labels = NIL, "panic"),
              Check(req.count < 0 \/ req.minReady < 0 \/ req.deadline < 0, "error"),
              Check(Negative(req.limit) \/ Negative(req.period), "error"),
              Check(roll = NIL, "panic")>>,
            NewDeploymentSpec(req, roll))

\* CalculateDefaultRollingValue is handed the nil pointer itself and writes through
\* it, so a surge or unavailability that is left out is no default but a panic.
PutDeploymentReqToDomain(req) ==
    LET roll == RollingUpdate(req) IN
    Outcome(<<Check(req.profile = NIL, "panic"),
              Check(req.quota \notin Quotas, "error"),
              Check(roll # NIL /\ (roll.unavailable = NIL \/ roll.surge = NIL), "panic"),
              Check(req.mode \notin ValidModes, "error"),
              Check(req.labels = NIL, "panic"),
              Check(req.count < 0 \/ req.minReady < 0 \/ req.deadline < 0, "error"),
              Check(Negative(req.limit) \/ Negative(req.period), "error"),
              Check(roll = NIL, "panic")>>,
            NewDeploymentSpec(req, roll))

\* From the record to protobuf: the parameters must be there and the mode be one.
DeploymentSpecFromDomain(spec) ==
    Outcome(<<Check(spec.rolling = NIL, "panic"),
              Check(spec.rolling # NIL /\ (spec.rolling.surge = NIL \/ spec.rolling.unavailable = NIL), "panic"),
              Check(spec.mode \notin ValidModes, "error"),
              Check(spec.limit = NIL \/ spec.period = NIL, "panic")>>,
            spec)

\* From protobuf to the record, where the app spec is checked again.
DeploymentSpecToDomain(spec) ==
    Outcome(<<Check(spec.quota \notin Quotas, "error"),
              Check(spec.rolling = NIL, "panic"),
              Check(spec.rolling # NIL /\ (spec.rolling.surge = NIL \/ spec.rolling.unavailable = NIL), "panic"),
              Check(spec.mode \notin ValidModes, "error")>>,
            spec)

\* Marshal, Unmarshal: a spec that goes into etcd and comes back.
Stored(spec) ==
    LET out == DeploymentSpecFromDomain(spec)
    IN IF out.kind = "ok" THEN DeploymentSpecToDomain(out.value) ELSE out

-----------------------------------------------------------------------------
\* The status: which of the three states are active.

StateTypes == {"Progress", "Available", "Failure"}

NewDeploymentStatus == [s \in StateTypes |-> s = "Progress"]

\* (mutant) the mapping carries Active over
DepoymentStateFromDomainActive(active) == active

\* It has type, timestamps and message, and leaves Active at false.
DepoymentStateFromDomain(active) == FALSE

DeploymentStateToDomain(active) == active

\* A status that goes into etcd and comes back.
StoredStates(states) ==
    [s \in StateTypes |-> DeploymentStateToDomain(DepoymentStateFromDomain(states[s]))]
=============================================================================
