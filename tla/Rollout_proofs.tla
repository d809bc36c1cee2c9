-------------------------- MODULE Rollout_proofs --------------------------
(***************************************************************************)
(* The rollout is well-typed, a Roll stops no more available apps than its *)
(* budget, for any number of goroutines at work, one that works alone      *)
(* starts no more apps than the surge allows, and a worker that is told to *)
(* end leaves no app behind; a Roll that is started does something; and    *)
(* the rollout implements DeploymentContract: for any constants.           *)
(***************************************************************************)
EXTENDS Rollout, FiniteSetTheorems, WellFoundedInduction, TLAPS

-----------------------------------------------------------------------------
(* Finite sets and lists of apps *)

\* The apps are finitely many, and so is any set of them.
LEMMA FewApps ==
  ASSUME NEW S \in SUBSET Apps
  PROVE  IsFiniteSet(S) /\ Cardinality(S) \in Nat
<1>1. IsFiniteSet(Revs) /\ IsFiniteSet(1 .. Copies)
  BY RolloutAssumption, FS_Interval DEF Revs
<1>2. IsFiniteSet(Apps)
  BY <1>1, FS_Product DEF Apps
<1> QED BY <1>2, FS_Subset, FS_CardinalityType

\* The smaller of two numbers.
LEMMA MinOfTwo ==
  ASSUME NEW a \in Int, NEW b \in Int
  PROVE  Min({a, b}) \in {a, b} /\ Min({a, b}) <= a /\ Min({a, b}) <= b
<1>1. \E x \in {a, b} : \A y \in {a, b} : x =< y
  OBVIOUS
<1> QED BY <1>1 DEF Min

\* The larger of two numbers.
LEMMA MaxOfTwo ==
  ASSUME NEW a \in Int, NEW b \in Int
  PROVE  Max({a, b}) \in {a, b} /\ a <= Max({a, b}) /\ b <= Max({a, b})
<1>1. \E x \in {a, b} : \A y \in {a, b} : x >= y
  OBVIOUS
<1> QED BY <1>1 DEF Max

\* The last k apps of a list are at most k, whatever the order of the revisions: of
\* two apps one is after the other, and so has fewer after it.
LEMMA LastOfSome ==
  ASSUME NEW k \in Nat, NEW S \in SUBSET Apps, NEW place \in [Revs -> Int],
         \A r, q \in Revs : place[r] = place[q] => r = q
  PROVE  LastOf(k, S, place) \subseteq S /\ Cardinality(LastOf(k, S, place)) <= k
<1> DEFINE After(a, b) == place[a[1]] < place[b[1]] \/ (a[1] = b[1] /\ a[2] < b[2])
           Later(a) == {b \in S : After(a, b)}
           L == LastOf(k, S, place)
<1>1. L = {a \in S : Cardinality(Later(a)) < k}
  BY DEF LastOf
<1>2. \A a \in Apps : a[1] \in Revs /\ a[1] \in Int /\ a[2] \in Int /\ a = <<a[1], a[2]>>
  BY RolloutAssumption DEF Apps, Revs
<1>3. \A a \in S : IsFiniteSet(Later(a)) /\ Cardinality(Later(a)) \in Nat
  <2> SUFFICES ASSUME NEW a \in S PROVE IsFiniteSet(Later(a)) /\ Cardinality(Later(a)) \in Nat
    OBVIOUS
  <2>1. Later(a) \in SUBSET Apps
    OBVIOUS
  <2> QED BY <2>1, FewApps
<1>4. ASSUME NEW a \in S, NEW b \in S, After(a, b)
      PROVE  Cardinality(Later(b)) < Cardinality(Later(a))
  <2>1. b \in Later(a) /\ b \notin Later(b)
    BY <1>2, <1>4
  <2>2. Later(b) \subseteq Later(a)
    BY <1>2, <1>4
  <2> HIDE DEF Later
  <2>3. /\ Cardinality(Later(b)) <= Cardinality(Later(a))
        /\ Cardinality(Later(a)) = Cardinality(Later(b)) => Later(a) = Later(b)
    BY <1>3, <2>2, FS_Subset
  <2> QED BY <1>3, <2>1, <2>3
<1>5. ASSUME NEW a \in S, NEW b \in S, a # b
      PROVE  After(a, b) \/ After(b, a)
  BY <1>2, <1>5
<1> HIDE DEF After, Later
<1>6. IsFiniteSet(L) /\ Cardinality(L) \in Nat
  BY <1>1, FewApps
<1>7. SUFFICES ASSUME Cardinality(L) > k PROVE FALSE
  BY <1>1, <1>6
<1>8. IsFiniteSet(0 .. k - 1) /\ Cardinality(0 .. k - 1) = k
  BY FS_Interval
<1> DEFINE f == [a \in L |-> Cardinality(Later(a))]
<1>9. f \in [L -> 0 .. k - 1]
  BY <1>1, <1>3
<1>10. PICK a \in L, b \in L : a # b /\ f[a] = f[b]
  <2> HIDE DEF f, L
  <2> QED BY <1>6, <1>7, <1>8, <1>9, FS_PigeonHole
<1>11. a \in S /\ b \in S /\ Cardinality(Later(a)) = Cardinality(Later(b))
  BY <1>1, <1>10
<1> QED BY <1>3, <1>4, <1>5, <1>10, <1>11

-----------------------------------------------------------------------------
(* Types *)

\* What is left of the bounds.
LEMMA SpendType ==
  ASSUME TypeOK, NEW kind \in LimitKinds, Spend(kind)
  PROVE  /\ left' \in [LimitKinds -> Nat]
         /\ left'[kind] < left[kind]
         /\ \A k \in LimitKinds : k # kind => left'[k] = left[k]
BY DEF Spend, TypeOK

\* The record of one goroutine, and the two invariants it carries.
LEMMA OneRoll ==
  ASSUME TypeOK, NEW g \in Rolls,
         NEW r \in RollType, r.flight <= r.todo, r.ready \subseteq r.seen,
         r.pc # "idle" => r.target \in Revs,
         roll' = [roll EXCEPT ![g] = r]
  PROVE  /\ roll' \in [Rolls -> RollType] /\ roll'[g] = r
         /\ \A h \in Rolls : h # g => roll'[h] = roll[h]
         /\ \A h \in Rolls : /\ roll'[h].pc # "idle" => roll'[h].target \in Revs
                             /\ roll'[h].flight <= roll'[h].todo
                             /\ roll'[h].ready \subseteq roll'[h].seen
BY DEF TypeOK

\* A goroutine that is not at work.
LEMMA NoJobType ==
  /\ NoJob \in RollType /\ NoJob.flight <= NoJob.todo /\ NoJob.ready \subseteq NoJob.seen
  /\ NoJob.pc = "idle"
BY DEF NoJob, RollType

\* A goroutine at work.
LEMMA RollIs ==
  ASSUME TypeOK, NEW g \in Rolls
  PROVE  /\ roll[g] \in RollType /\ (roll[g].pc # "idle" => roll[g].target \in Revs)
         /\ roll[g].flight <= roll[g].todo /\ roll[g].ready \subseteq roll[g].seen
BY DEF TypeOK

\* The initial state.
LEMMA TypeInit == Init => TypeOK
<1> SUFFICES ASSUME Init PROVE TypeOK
  OBVIOUS
<1>1. spec \in SpecType
  BY RolloutAssumption DEF Init, SpecType, Revs
<1>2. roll \in [Rolls -> RollType] /\ \A g \in Rolls : roll[g] = NoJob
  BY NoJobType DEF Init
<1> QED BY <1>1, <1>2, NoJobType, RolloutAssumption DEF Init, TypeOK, NoRec

\* Requests.
LEMMA TypeRequest ==
  ASSUME TypeOK,
         \/ Put \/ RequestStop("stop") \/ RequestStop("delete")
         \/ DeleteWithoutWorker \/ Crash \/ WorkerExits
  PROVE  TypeOK'
<1>1. CASE Put
  <2>1. spec' \in SpecType
    <3>1. PICK c \in Counts, r \in Revs :
             spec' = [spec EXCEPT !.count = c, !.rev = r, !.flag = "run"]
      BY <1>1 DEF Put
    <3> QED BY <3>1 DEF TypeOK, SpecType
  <2>2. left' \in [LimitKinds -> Nat]
    BY <1>1, SpendType DEF Put, LimitKinds
  <2>3. worker' \in BOOLEAN /\ signal' \in BOOLEAN
    <3>1. worker' = TRUE /\ signal' = (signal /\ worker)
      BY <1>1 DEF Put
    <3>2. signal' = TRUE \/ signal' = FALSE
      BY <3>1, Zenon
    <3> QED BY <3>1, <3>2, Zenon
  <2>4. intr' \in Nat
    <3>1. intr' = IF worker THEN intr + 1 ELSE 0
      BY <1>1 DEF Put
    <3>2. intr \in Nat
      BY DEF TypeOK
    <3> QED BY <3>1, <3>2
  <2> QED BY <1>1, <2>1, <2>2, <2>3, <2>4 DEF Put, TypeOK
<1>2. ASSUME NEW flag \in {"stop", "delete"}, RequestStop(flag)
      PROVE  TypeOK'
  <2>1. spec' \in SpecType
    BY <1>2 DEF RequestStop, TypeOK, SpecType
  <2>2. left' \in [LimitKinds -> Nat]
    BY <1>2, SpendType DEF RequestStop, LimitKinds
  <2> QED BY <1>2, <2>1, <2>2 DEF RequestStop, TypeOK
<1>3. CASE DeleteWithoutWorker
  <2>1. spec' \in SpecType
    BY <1>3 DEF DeleteWithoutWorker, TypeOK, SpecType
  <2>2. left' \in [LimitKinds -> Nat]
    BY <1>3, SpendType DEF DeleteWithoutWorker, LimitKinds
  <2> QED BY <1>3, <2>1, <2>2 DEF DeleteWithoutWorker, TypeOK
<1>4. CASE Crash
  <2>1. left' \in [LimitKinds -> Nat]
    BY <1>4, SpendType DEF Crash, LimitKinds
  <2>2. roll' \in [Rolls -> RollType] /\ \A g \in Rolls : roll'[g] = NoJob
    BY <1>4, NoJobType DEF Crash
  <2>3. worker' \in BOOLEAN /\ signal' \in BOOLEAN
    <3>1. worker' = FALSE /\ signal' = FALSE
      BY <1>4 DEF Crash
    <3> QED BY <3>1, Zenon
  <2> QED BY <1>4, <2>1, <2>2, <2>3, NoJobType DEF Crash, TypeOK
<1>5. CASE WorkerExits
  <2>1. worker' \in BOOLEAN /\ signal' \in BOOLEAN
    <3>1. worker' = FALSE /\ signal' = FALSE
      BY <1>5 DEF WorkerExits
    <3> QED BY <3>1, Zenon
  <2> QED BY <1>5, <2>1 DEF WorkerExits, TypeOK
<1> QED BY <1>1, <1>2, <1>3, <1>4, <1>5

\* A record that a reconcile decides on.
RecType == [pc : {"query"}, spec : SpecType, todo : SUBSET Revs,
            seen : SUBSET Apps, ready : SUBSET Apps]

\* What a reconcile has at hand while it queries.
LEMMA RecIs ==
  ASSUME TypeOK, rec.pc = "query"
  PROVE  rec \in RecType /\ rec.ready \subseteq rec.seen
BY DEF TypeOK, NoRec, RecType

\* A lost query still may have found some of the apps.
LEMMA Lost ==
  ASSUME NEW r \in Revs, LoseQuery(r)
  PROVE  \E S \in SUBSET up :
           rec' = [rec EXCEPT !.todo = rec.todo \ {r}, !.seen = rec.seen \cup S,
                              !.ready = rec.ready \cup (S \cap avail)]
<1>1. \A S \in SUBSET Of(r, up) : S \in SUBSET up
  BY DEF Of
<1>2. (IF rec.spec.mode = "IndirectStar" THEN SUBSET Of(r, up) ELSE {{}}) \subseteq SUBSET up
  BY <1>1
<1> QED BY <1>2 DEF LoseQuery

\* The queries of a reconcile.
LEMMA TypeQuery ==
  ASSUME TypeOK,
         \/ Tick \/ Interrupted
         \/ \E r \in Revs : QueryRevision(r) \/ LoseQuery(r)
         \/ DecideCompleted \/ DecideHold
  PROVE  TypeOK'
<1>1. CASE Tick
  <2>1. 1 .. spec.rev \subseteq Revs
    BY RolloutAssumption DEF TypeOK, SpecType, Revs
  <2> QED BY <1>1, <2>1 DEF Tick, TypeOK
<1>2. CASE Interrupted
  BY <1>2 DEF Interrupted, TypeOK
<1>3. ASSUME NEW r \in Revs, QueryRevision(r)
      PROVE  TypeOK'
  <2>1. Of(r, up) \subseteq Apps /\ Of(r, avail) \subseteq Of(r, up)
    BY DEF Of, TypeOK
  <2>2. rec.pc = "query"
    BY <1>3 DEF QueryRevision
  <2> QED BY <1>3, <2>1, <2>2, RecIs DEF QueryRevision, TypeOK, RecType
<1>4. ASSUME NEW r \in Revs, LoseQuery(r)
      PROVE  TypeOK'
  <2>1. left' \in [LimitKinds -> Nat]
    BY <1>4, SpendType DEF LoseQuery, LimitKinds
  <2>2. rec.pc = "query"
    BY <1>4 DEF LoseQuery
  <2>3. \E S \in SUBSET up :
           rec' = [rec EXCEPT !.todo = rec.todo \ {r}, !.seen = rec.seen \cup S,
                              !.ready = rec.ready \cup (S \cap avail)]
    BY <1>4, Lost
  <2>4. PICK S \in SUBSET up :
           rec' = [rec EXCEPT !.todo = rec.todo \ {r}, !.seen = rec.seen \cup S,
                              !.ready = rec.ready \cup (S \cap avail)]
    BY <2>3
  <2>5. S \subseteq Apps
    BY DEF TypeOK
  <2> QED BY <1>4, <2>1, <2>2, <2>4, <2>5, RecIs DEF LoseQuery, TypeOK, RecType
<1>5. CASE DecideCompleted
  BY <1>5 DEF DecideCompleted, TypeOK
<1>6. CASE DecideHold
  <2>1. left' \in [LimitKinds -> Nat]
    BY <1>6, SpendType DEF DecideHold, LimitKinds
  <2> QED BY <1>6, <2>1 DEF DecideHold, TypeOK
<1> QED BY <1>1, <1>2, <1>3, <1>4, <1>5, <1>6

\* What the new revision is scaled to: down only to the wanted count, up only as far
\* as the surge allows.
LEMMA TargetIs ==
  ASSUME NEW count \in Nat, NEW surge \in Int, NEW new \in Nat, NEW total \in Nat,
         NEW size, size = NewRevisionTarget(count, surge, new, total)
  PROVE  /\ size \in Int
         /\ size < new => count < new /\ size = count
         /\ size > new => size + total <= new + count + surge
<1>1. CASE count <= new
  <2>1. size = count
    BY <1>1 DEF NewRevisionTarget
  <2> QED BY <1>1, <2>1
<1>2. CASE count > new /\ total >= count + surge
  <2>1. size = new
    BY <1>2 DEF NewRevisionTarget
  <2> QED BY <1>2, <2>1
<1>3. CASE count > new /\ ~(total >= count + surge)
  <2>1. PICK a \in Int, b \in Int : a = count + surge - total /\ b = count - new
    OBVIOUS
  <2>2. PICK m : m = Min({a, b})
    OBVIOUS
  <2>3. size = new + m
    BY <1>3, <2>1, <2>2 DEF NewRevisionTarget
  <2>4. m \in {a, b} /\ m <= a /\ m <= b
    BY <2>2, MinOfTwo
  <2> QED BY <1>3, <2>1, <2>3, <2>4
<1> QED BY <1>1, <1>2, <1>3

\* Its fields.
LEMMA NoJobIs ==
  /\ NoJob.flight = 0 /\ NoJob.todo = 0 /\ NoJob.pc = "idle" /\ NoJob.next = "idle"
  /\ NoJob.kill = {} /\ NoJob.gone = {} /\ NoJob.seen = {} /\ NoJob.ready = {}
BY DEF NoJob

\* The goroutine of a stop has everything that was seen to stop.
LEMMA StopJobIs ==
  ASSUME NEW s \in RecType, s.ready \subseteq s.seen, NEW j, j = StopJob(s)
  PROVE  /\ j \in RollType /\ j.flight <= j.todo /\ j.ready \subseteq j.seen
         /\ j.pc = "stop" /\ j.next = "end" /\ j.target = s.spec.rev
         /\ j.count = s.spec.count /\ j.seen = s.seen /\ j.ready = s.ready
         /\ j.kill = s.seen /\ j.gone = {}
<1>1. s.spec.count \in Nat /\ s.spec.rev \in Revs
  BY RolloutAssumption DEF RecType, SpecType
<1>2. Cardinality(s.seen) \in Nat
  BY FewApps DEF RecType
<1>3. s.seen \in SUBSET Apps /\ s.ready \in SUBSET Apps
  BY DEF RecType
<1>4. PICK k, c, r : k = Cardinality(s.seen) /\ c = s.spec.count /\ r = s.spec.rev
  OBVIOUS
<1>5. j = [NoJob EXCEPT !.pc = "stop", !.next = "end", !.count = c,
                  !.target = r, !.seen = s.seen, !.ready = s.ready,
                  !.kill = s.seen, !.asked = k]
  BY <1>4 DEF StopJob
<1>6. c \in Nat /\ r \in Revs \cup {0} /\ k \in Nat
  <2>1. c \in Nat
    BY <1>1, <1>4
  <2>2. r \in Revs \cup {0}
    BY <1>1, <1>4
  <2>3. k \in Nat
    BY <1>2, <1>4
  <2> QED BY <2>1, <2>2, <2>3
<1>7. j \in RollType
  <2>1. NoJob \in RollType
    BY NoJobType
  <2>2. PICK m : m = [NoJob EXCEPT !.pc = "stop", !.next = "end", !.count = c, !.target = r]
    OBVIOUS
  <2>3. m \in RollType
    BY <1>6, <2>1, <2>2 DEF RollType
  <2>4. PICK q : q = [m EXCEPT !.seen = s.seen, !.ready = s.ready]
    OBVIOUS
  <2>5. q \in RollType
    BY <1>3, <2>3, <2>4 DEF RollType
  <2>6. j = [q EXCEPT !.kill = s.seen, !.asked = k]
    BY <1>5, <2>2, <2>4
  <2> QED BY <1>3, <1>6, <2>5, <2>6 DEF RollType
<1>8. /\ j.pc = "stop" /\ j.next = "end" /\ j.flight = 0 /\ j.todo = 0
      /\ j.seen = s.seen /\ j.ready = s.ready /\ j.target = r
      /\ j.count = c /\ j.kill = s.seen /\ j.gone = {}
  BY <1>5, NoJobType, NoJobIs DEF RollType
<1> QED BY <1>3, <1>4, <1>7, <1>8

\* A goroutine that begins to start apps.
LEMMA StartType ==
  ASSUME NEW m \in RollType, NEW d \in Nat
  PROVE  [m EXCEPT !.pc = "start", !.todo = d, !.batch = 1, !.flight = 1] \in RollType
<1>1. PICK n : n = [m EXCEPT !.pc = "start"]
  OBVIOUS
<1>2. n \in RollType
  BY <1>1 DEF RollType
<1>3. PICK o : o = [n EXCEPT !.todo = d]
  OBVIOUS
<1>4. o \in RollType
  BY <1>2, <1>3 DEF RollType
<1>5. ASSUME NEW b \in Nat
      PROVE  [o EXCEPT !.batch = b, !.flight = b] \in RollType
  BY <1>4 DEF RollType
<1>6. [o EXCEPT !.batch = 1, !.flight = 1] \in RollType
  BY <1>5
<1>7. [m EXCEPT !.pc = "start", !.todo = d, !.batch = 1, !.flight = 1]
        = [o EXCEPT !.batch = 1, !.flight = 1]
  BY <1>1, <1>3
<1> QED BY <1>6, <1>7

\* The old revisions come newest first.
LEMMA PlacesDiffer ==
  /\ NewestFirst \in [Revs -> Int]
  /\ \A r, q \in Revs : NewestFirst[r] = NewestFirst[q] => r = q
BY RolloutAssumption DEF NewestFirst, Revs

\* The goroutine of a Roll has apps of the new revision to stop only if there are more
\* than wanted, and to start only as many as the surge allows.
LEMMA RollJobIs ==
  ASSUME NEW s \in RecType, s.ready \subseteq s.seen, NEW j, j = RollJob(s)
  PROVE  /\ j \in RollType /\ j.flight <= j.todo /\ j.ready \subseteq j.seen
         /\ j.pc \in {"old", "start", "stop"} /\ j.gone = {}
         /\ j.target = s.spec.rev /\ j.count = s.spec.count
         /\ j.seen = s.seen /\ j.ready = s.ready
         /\ j.pc # "stop" => j.next = "idle" /\ j.kill = {}
         /\ j.pc = "stop" =>
              /\ j.next = "old" /\ j.count < Cardinality(NewApps(j.target, j.seen))
              /\ j.kill \subseteq j.seen
              /\ j.count + Cardinality(j.kill) <= Cardinality(NewApps(j.target, j.seen))
         /\ j.pc = "start" => j.todo + Cardinality(j.seen) <= j.count + MaxSurge
<1>1. s.spec.count \in Nat /\ s.spec.rev \in Revs /\ MaxSurge \in Int
  BY RolloutAssumption DEF RecType, SpecType
<1>2. s.seen \in SUBSET Apps /\ s.ready \in SUBSET Apps
  BY DEF RecType
<1>3. NewApps(s.spec.rev, s.seen) \in SUBSET Apps
  BY <1>2 DEF NewApps, Of
<1>4. PICK c, r, total, new, size :
        /\ c = s.spec.count /\ r = s.spec.rev
        /\ total = Cardinality(s.seen)
        /\ new = Cardinality(NewApps(s.spec.rev, s.seen))
        /\ size = NewRevisionTarget(c, MaxSurge, new, total)
  BY Zenon
<1>5. c \in Nat /\ new \in Nat /\ total \in Nat
  <2>1. c \in Nat
    BY <1>1, <1>4
  <2>2. new \in Nat /\ total \in Nat
    BY <1>2, <1>3, <1>4, FewApps
  <2> QED BY <2>1, <2>2
<1>6. /\ size \in Int
      /\ size < new => c < new /\ size = c
      /\ size > new => size + total <= new + c + MaxSurge
  <2>1. MaxSurge \in Int /\ size = NewRevisionTarget(c, MaxSurge, new, total)
    BY <1>1, <1>4
  <2>2. size \in Int /\ (size < new => c < new)
    BY <1>5, <2>1, TargetIs
  <2>3. size < new => size = c
    BY <1>5, <2>1, TargetIs
  <2>4. size > new => size + total <= new + c + MaxSurge
    BY <1>5, <2>1, TargetIs
  <2> QED BY <2>2, <2>3, <2>4
<1>7. PICK job : job = [NoJob EXCEPT !.pc = "old", !.count = c, !.target = r,
                                     !.seen = s.seen, !.ready = s.ready]
  OBVIOUS
<1>8. /\ job \in RollType /\ job.flight = 0 /\ job.todo = 0 /\ job.ready \subseteq job.seen
      /\ job.pc = "old" /\ job.gone = {} /\ job.kill = {} /\ job.next = "idle"
      /\ job.target = r /\ job.count = c /\ job.seen = s.seen /\ job.ready = s.ready
  BY <1>1, <1>2, <1>4, <1>7, NoJobType, NoJobIs DEF RollType
<1>9. CASE size < new
  <2>1. PICK K : K = LastOf(new - size, NewApps(s.spec.rev, s.seen), NewestFirst)
    OBVIOUS
  <2>2. K \in SUBSET Apps
    BY <2>1, <1>3 DEF LastOf
  <2>3. PICK d \in Nat : d = new - size
    BY <1>5, <1>6, <1>9
  <2>4. j = [job EXCEPT !.pc = "stop", !.next = "old", !.asked = d, !.kill = K]
    BY <1>4, <1>7, <1>9, <2>1, <2>3 DEF RollJob
  <2>5. j \in RollType
    <3>1. PICK m : m = [job EXCEPT !.pc = "stop", !.next = "old"]
      OBVIOUS
    <3>2. m \in RollType
      BY <1>8, <3>1 DEF RollType
    <3>3. j = [m EXCEPT !.asked = d, !.kill = K]
      BY <2>4, <3>1
    <3> QED BY <2>2, <3>2, <3>3 DEF RollType
  <2>6. /\ j.flight <= j.todo /\ j.ready \subseteq j.seen
        /\ j.pc = "stop" /\ j.next = "old" /\ j.gone = {}
        /\ j.target = r /\ j.count = c /\ j.seen = s.seen /\ j.ready = s.ready /\ j.kill = K
    BY <1>8, <2>4 DEF RollType
  <2>7. K \subseteq s.seen /\ Cardinality(K) \in Nat /\ Cardinality(K) <= d
    <3>1. K \subseteq NewApps(s.spec.rev, s.seen) /\ Cardinality(K) <= d
      BY <1>3, <2>1, <2>3, PlacesDiffer, LastOfSome
    <3> QED BY <2>2, <3>1, FewApps DEF NewApps, Of
  <2>8. c + Cardinality(K) <= new
    BY <1>5, <1>6, <1>9, <2>3, <2>7
  <2> QED BY <1>4, <1>6, <1>9, <2>5, <2>6, <2>7, <2>8
<1>10. CASE size > new
  <2>1. PICK d \in Nat : d = size - new
    BY <1>5, <1>6, <1>10
  <2>2. j = [job EXCEPT !.pc = "start", !.todo = d, !.batch = 1, !.flight = 1]
    <3>1. ~(size < new)
      BY <1>5, <1>6, <1>10
    <3> QED BY <1>4, <1>7, <1>10, <2>1, <3>1, Zenon DEF RollJob
  <2>3. j \in RollType
    <3>1. job \in RollType
      BY <1>8
    <3> QED BY <2>1, <2>2, <3>1, StartType
  <2>4. /\ j.flight = 1 /\ j.todo = d /\ j.pc = "start"
        /\ j.gone = job.gone /\ j.kill = job.kill /\ j.next = job.next
        /\ j.target = job.target /\ j.count = job.count
        /\ j.seen = job.seen /\ j.ready = job.ready
    <3>1. job \in RollType
      BY <1>8
    <3> QED BY <2>2, <3>1 DEF RollType
  <2>5. 1 <= d /\ d + total <= c + MaxSurge
    BY <1>1, <1>4, <1>5, <1>6, <1>10, <2>1
  <2> QED BY <1>4, <1>8, <2>3, <2>4, <2>5
<1>11. CASE size = new
  <2>1. j = job
    <3>1. ~(size < new) /\ ~(size > new)
      BY <1>5, <1>6, <1>11
    <3> QED BY <1>4, <1>7, <3>1, Zenon DEF RollJob
  <2> QED BY <1>4, <1>8, <2>1
<1> QED BY <1>5, <1>6, <1>9, <1>10, <1>11

\* The decisions that start a goroutine.
LEMMA TypeDecide ==
  ASSUME TypeOK, DecideStop \/ DecideRoll
  PROVE  TypeOK'
<1>1. rec \in RecType /\ rec.ready \subseteq rec.seen
  BY RecIs DEF DecideStop, DecideRoll, Decides
<1>2. rec' = NoRec /\ UNCHANGED <<up, avail, intr, worker, left, calm>>
  BY DEF DecideStop, DecideRoll
<1>3. spec' \in SpecType
  BY DEF DecideStop, DecideRoll, TypeOK, SpecType
<1>4. signal' \in BOOLEAN
  <2>1. signal' = signal \/ signal' = TRUE
    BY DEF DecideStop, DecideRoll
  <2>2. CASE signal' = signal
    BY <2>2 DEF TypeOK
  <2>3. CASE signal' = TRUE
    BY <2>3, Zenon
  <2> QED BY <2>1, <2>2, <2>3
<1>5. /\ roll' \in [Rolls -> RollType]
      /\ \A g \in Rolls : /\ roll'[g].pc # "idle" => roll'[g].target \in Revs
                          /\ roll'[g].flight <= roll'[g].todo
                          /\ roll'[g].ready \subseteq roll'[g].seen
  <2>1. \/ \E g \in Rolls : roll' = [roll EXCEPT ![g] = StopJob(rec)]
        \/ \E g \in Rolls : roll' = [roll EXCEPT ![g] = RollJob(rec)]
        \/ UNCHANGED roll
    BY Zenon DEF DecideStop, DecideRoll
  <2>2. CASE UNCHANGED roll
    BY <2>2 DEF TypeOK
  <2>3. CASE ~ UNCHANGED roll
    <3>1. PICK g \in Rolls, j \in {StopJob(rec), RollJob(rec)} : roll' = [roll EXCEPT ![g] = j]
      BY <2>1, <2>3
    <3>2. /\ j \in RollType /\ j.flight <= j.todo /\ j.ready \subseteq j.seen
          /\ j.target = rec.spec.rev
      BY <1>1, <3>1, StopJobIs, RollJobIs
    <3>3. rec.spec.rev \in Revs
      BY <1>1 DEF RecType, SpecType
    <3> QED BY <3>1, <3>2, <3>3, OneRoll
  <2> QED BY <2>2, <2>3
<1> QED BY <1>2, <1>3, <1>4, <1>5 DEF TypeOK

-----------------------------------------------------------------------------
(* The steps of a goroutine *)

\* The apps a goroutine saw available and has stopped, or is about to, and what is
\* left of its budget are no more than the budget it started with, unless it began by
\* shrinking the new revision.
JobInv(j) ==
    /\ j.pc # "stop" => j.next = "idle"
    /\ (j.pc # "idle" /\ j.next # "end" /\ Cardinality(NewApps(j.target, j.seen)) <= j.count) =>
         /\ j.pc \in {"start", "old"} => j.gone = {} /\ j.kill = {}
         /\ j.pc = "stop" => j.next = "share"
         /\ j.pc = "share" => j.kill = {}
         /\ j.pc \in {"share", "stop"} =>
              /\ Cardinality(j.gone \cap j.ready) + Cardinality(j.kill \cap j.ready) + j.budget
                   <= ScaleDownBudget(j.count, MaxUnavailable, Cardinality(j.ready))
              /\ j.budget >= 0 \/ (j.gone \cap j.ready = {} /\ j.kill \cap j.ready = {})

\* What a goroutine is about to stop it has seen: old apps, or as many new ones as were seen
\* above appCount.
KillInv(j) ==
    /\ j.kill \subseteq j.seen
    /\ j.pc = "stop" /\ j.next # "end" =>
         /\ j.next \in {"old", "share"}
         /\ j.next = "share" => \A a \in j.kill : a[1] # j.target
         /\ j.next = "old" =>
              j.count + Cardinality(j.kill) <= Cardinality(NewApps(j.target, j.seen) \ j.gone)

\* Goroutine g's record becomes r, which keeps what a goroutine keeps.
Becomes(g, r) ==
    /\ roll' = [roll EXCEPT ![g] = r]
    /\ r \in RollType /\ r.flight <= r.todo /\ r.ready \subseteq r.seen
    /\ JobInv(roll[g]) => JobInv(r)
    /\ r.pc # "idle" => r.target = roll[g].target /\ roll[g].pc # "idle"
    /\ KillInv(roll[g]) => KillInv(r)
    /\ r.pc # "idle" => /\ r.count = roll[g].count /\ r.seen = roll[g].seen
                        /\ r.ready = roll[g].ready /\ r.gone = roll[g].gone \cup (up \ up')
                        /\ JobInv(roll[g]) => (r.next = "end" <=> roll[g].next = "end")
    /\ r.pc = "start" => /\ roll[g].pc = "start"
                         /\ r.count = roll[g].count /\ r.todo <= roll[g].todo

\* A goroutine that ends.
LEMMA StepEnds ==
  ASSUME NEW g, roll' = [roll EXCEPT ![g] = NoJob]
  PROVE  Becomes(g, NoJob)
BY NoJobType, NoJobIs DEF Becomes, JobInv, KillInv

\* Starts, one by one and batch by batch.
LEMMA StepStart ==
  ASSUME TypeOK, NEW g \in Rolls,
         StartApp(g, TRUE) \/ StartApp(g, FALSE) \/ StartFails(g)
  PROVE  \E r : Becomes(g, r) /\ r.pc = "start" /\ r.todo = roll[g].todo - 1
<1>1. PICK j : j = roll[g]
  OBVIOUS
<1>2. /\ j \in RollType /\ j.flight <= j.todo /\ j.ready \subseteq j.seen
  BY <1>1, RollIs
<1>3. j.pc = "start" /\ j.flight > 0
  BY <1>1 DEF StartApp, StartFails, Starting
<1>4. PICK bad \in BOOLEAN :
        roll' = [roll EXCEPT ![g] = [j EXCEPT !.flight = j.flight - 1, !.todo = j.todo - 1,
                                              !.bad = bad]]
  <2>1. ASSUME NEW confirmed \in BOOLEAN, StartApp(g, confirmed)
        PROVE  \E bad \in BOOLEAN :
                 roll' = [roll EXCEPT ![g] = [j EXCEPT !.flight = j.flight - 1,
                                                       !.todo = j.todo - 1, !.bad = bad]]
    <3>1. (j.bad \/ ~confirmed) \in BOOLEAN
      BY Zenon
    <3>2. roll' = [roll EXCEPT ![g] = [j EXCEPT !.flight = j.flight - 1, !.todo = j.todo - 1,
                                                !.bad = (j.bad \/ ~confirmed)]]
      BY <1>1, <2>1, Zenon DEF StartApp
    <3> QED BY <3>1, <3>2, Zenon
  <2>2. ASSUME StartFails(g)
        PROVE  \E bad \in BOOLEAN :
                 roll' = [roll EXCEPT ![g] = [j EXCEPT !.flight = j.flight - 1,
                                                       !.todo = j.todo - 1, !.bad = bad]]
    <3>1. roll' = [roll EXCEPT ![g] = [j EXCEPT !.flight = j.flight - 1, !.todo = j.todo - 1,
                                                !.bad = TRUE]]
      BY <1>1, <2>2, Zenon DEF StartFails
    <3>2. TRUE \in BOOLEAN
      BY Zenon
    <3> QED BY <3>1, <3>2, Zenon
  <2>3. TRUE \in BOOLEAN /\ FALSE \in BOOLEAN
    BY Zenon
  <2> QED BY <2>1, <2>2, <2>3, Zenon
<1>5. PICK f \in Nat, t \in Nat : f = j.flight - 1 /\ t = j.todo - 1
  BY <1>2, <1>3 DEF RollType
<1>6. PICK r : r = [j EXCEPT !.flight = f, !.todo = t, !.bad = bad]
  OBVIOUS
<1>7. r \in RollType
  BY <1>2, <1>6 DEF RollType
<1>8. /\ r.flight = f /\ r.todo = t /\ r.pc = j.pc /\ r.next = j.next
      /\ r.seen = j.seen /\ r.ready = j.ready /\ r.count = j.count /\ r.target = j.target
      /\ r.gone = j.gone /\ r.kill = j.kill /\ r.budget = j.budget
  BY <1>2, <1>6 DEF RollType
<1>9. f <= t /\ t <= j.todo
  BY <1>2, <1>5 DEF RollType
<1>10. (JobInv(j) => JobInv(r)) /\ (KillInv(j) => KillInv(r))
  BY <1>3, <1>8 DEF JobInv, KillInv
<1>11. r.gone = j.gone \cup (up \ up')
  <2>1. up \ up' = {}
    BY DEF StartApp, StartFails
  <2> QED BY <1>8, <2>1
<1>12. roll' = [roll EXCEPT ![g] = r]
  BY <1>4, <1>5, <1>6
<1>13. Becomes(g, r)
  BY <1>1, <1>2, <1>3, <1>7, <1>8, <1>9, <1>10, <1>11, <1>12 DEF Becomes
<1> QED BY <1>1, <1>3, <1>5, <1>8, <1>13

\* The end of a batch: the next one, or on to the old revisions.
LEMMA StepBatch ==
  ASSUME TypeOK, NEW g \in Rolls, BatchReturns(g)
  PROVE  \E r : Becomes(g, r)
<1>1. PICK j : j = roll[g]
  OBVIOUS
<1>2. /\ j \in RollType /\ j.flight <= j.todo /\ j.ready \subseteq j.seen
      /\ j.pc = "start" /\ j.flight = 0
  BY <1>1, RollIs DEF BatchReturns
<1>6. \A S : S = S \cup (up \ up')
  BY DEF BatchReturns
<1>3. CASE j.bad
  <2>1. roll' = [roll EXCEPT ![g] = NoJob]
    BY <1>1, <1>3, Zenon DEF BatchReturns
  <2> QED BY <2>1, StepEnds
<1>4. CASE ~j.bad /\ j.todo = 0
  <2>1. PICK r : r = [j EXCEPT !.pc = "old", !.batch = 0]
    OBVIOUS
  <2>2. roll' = [roll EXCEPT ![g] = r]
    BY <1>1, <1>4, <2>1, Zenon DEF BatchReturns
  <2>3. r \in RollType
    BY <1>2, <2>1 DEF RollType
  <2>4. /\ r.flight = 0 /\ r.todo = j.todo /\ r.pc = "old" /\ r.next = j.next
        /\ r.seen = j.seen /\ r.ready = j.ready /\ r.count = j.count /\ r.target = j.target
        /\ r.gone = j.gone /\ r.kill = j.kill /\ r.budget = j.budget
    BY <1>2, <2>1 DEF RollType
  <2>5. (JobInv(j) => JobInv(r)) /\ (KillInv(j) => KillInv(r))
    BY <1>2, <2>4 DEF JobInv, KillInv
  <2> QED BY <1>1, <1>2, <1>4, <1>6, <2>2, <2>3, <2>4, <2>5 DEF Becomes
<1>5. CASE ~j.bad /\ j.todo # 0
  <2>1. PICK b \in Nat : b = 2 * j.batch
    BY <1>2 DEF RollType
  <2>2. PICK f \in Nat : f = NextBatch(j) /\ f <= j.todo
    <3>1. b \in Int /\ j.todo \in Int /\ j.todo \in Nat
      BY <1>2 DEF RollType
    <3>2. Min({b, j.todo}) \in {b, j.todo} /\ Min({b, j.todo}) <= j.todo
      BY <3>1, MinOfTwo
    <3>3. Min({b, j.todo}) \in Nat
      BY <3>1, <3>2
    <3> QED BY <2>1, <3>2, <3>3 DEF NextBatch
  <2>3. PICK r : r = [j EXCEPT !.batch = b, !.flight = f]
    OBVIOUS
  <2>4. roll' = [roll EXCEPT ![g] = r]
    BY <1>1, <1>5, <2>1, <2>2, <2>3, Zenon DEF BatchReturns
  <2>5. r \in RollType
    BY <1>2, <2>3 DEF RollType
  <2>6. /\ r.flight = f /\ r.todo = j.todo /\ r.pc = j.pc /\ r.next = j.next
        /\ r.seen = j.seen /\ r.ready = j.ready /\ r.count = j.count /\ r.target = j.target
        /\ r.gone = j.gone /\ r.kill = j.kill /\ r.budget = j.budget
    BY <1>2, <2>3 DEF RollType
  <2>7. (JobInv(j) => JobInv(r)) /\ (KillInv(j) => KillInv(r))
    BY <1>2, <2>6 DEF JobInv, KillInv
  <2>8. r.todo <= j.todo
    BY <1>2, <2>6 DEF RollType
  <2> QED BY <1>1, <1>2, <1>6, <2>2, <2>4, <2>5, <2>6, <2>7, <2>8 DEF Becomes
<1> QED BY <1>3, <1>4, <1>5

\* Old apps that were not available are stopped: none of those available.
LEMMA StepUnready ==
  ASSUME TypeOK, NEW g \in Rolls, StopUnready(g)
  PROVE  \E r : Becomes(g, r)
<1>1. PICK j : j = roll[g]
  OBVIOUS
<1>2. /\ j \in RollType /\ j.flight <= j.todo /\ j.ready \subseteq j.seen /\ j.pc = "old"
  BY <1>1, RollIs DEF StopUnready
<1>3. /\ j.seen \in SUBSET Apps /\ j.ready \in SUBSET Apps
      /\ j.count \in Nat /\ j.target \in Int /\ MaxUnavailable \in Int
  BY <1>2, RolloutAssumption DEF RollType, Revs
<1>4. PICK limit, budget :
        /\ limit = ScaleDownLimit(j)
        /\ budget = ScaleDownBudget(j.count, MaxUnavailable, Cardinality(j.ready))
  BY Zenon
<1>5. PICK place :
        roll' = [roll EXCEPT ![g] =
          IF limit <= 0 THEN NoJob
          ELSE [j EXCEPT !.pc = "stop", !.next = "share", !.asked = limit,
                         !.kill = LastOf(limit, OldUnready(j), place),
                         !.olds = 1 .. (j.target - 1), !.budget = budget]]
  BY <1>1, <1>4, Zenon DEF StopUnready
<1>6. CASE limit <= 0
  <2>1. roll' = [roll EXCEPT ![g] = NoJob]
    BY <1>5, <1>6
  <2> QED BY <2>1, StepEnds
<1>7. CASE ~(limit <= 0)
  <2>1. limit \in Int /\ budget \in Int
    <3>1. NewApps(j.target, j.seen) \in SUBSET Apps
      BY <1>3 DEF NewApps, Of
    <3>2. Cardinality(j.seen) \in Nat /\ Cardinality(j.ready) \in Nat
      BY <1>3, FewApps
    <3>3. /\ Cardinality(NewApps(j.target, j.seen)) \in Nat
          /\ Cardinality(NewApps(j.target, j.seen) \cap j.ready) \in Nat
      BY <3>1, FewApps
    <3> QED BY <1>3, <1>4, <3>2, <3>3
            DEF ScaleDownLimit, MaxScaledDown, MinAvailable, ScaleDownBudget
  <2>2. limit \in Nat
    BY <1>7, <2>1
  <2>3. PICK K : K = LastOf(limit, OldUnready(j), place)
    OBVIOUS
  <2>4. K \in SUBSET Apps /\ K \cap j.ready = {}
    BY <1>3, <2>3 DEF LastOf, OldUnready, OldApps, Of
  <2>5. PICK olds : olds = 1 .. (j.target - 1)
    OBVIOUS
  <2>6. olds \in SUBSET Revs
    <3>1. j.target \in Revs \cup {0}
      BY <1>2 DEF RollType
    <3> QED BY <2>5, <3>1, RolloutAssumption DEF Revs
  <2>7. PICK r : r = [j EXCEPT !.pc = "stop", !.next = "share", !.asked = limit,
                               !.kill = K, !.olds = olds, !.budget = budget]
    OBVIOUS
  <2>8. roll' = [roll EXCEPT ![g] = r]
    BY <1>5, <1>7, <2>3, <2>5, <2>7, Zenon
  <2>9. r \in RollType
    BY <1>2, <2>1, <2>2, <2>4, <2>6, <2>7 DEF RollType
  <2>10. /\ r.flight = j.flight /\ r.todo = j.todo /\ r.pc = "stop" /\ r.next = "share"
         /\ r.seen = j.seen /\ r.ready = j.ready /\ r.count = j.count /\ r.target = j.target
         /\ r.gone = j.gone /\ r.kill = K /\ r.budget = budget
    BY <1>2, <2>7 DEF RollType
  <2>11. JobInv(j) => JobInv(r)
    <3> SUFFICES ASSUME JobInv(j), Cardinality(NewApps(j.target, j.seen)) <= j.count
                 PROVE  JobInv(r)
      BY <2>10 DEF JobInv
    <3>1. j.gone = {}
      BY <1>2 DEF JobInv
    <3>2. Cardinality(j.gone \cap j.ready) = 0 /\ Cardinality(K \cap j.ready) = 0
      <4>1. j.gone \cap j.ready = {}
        BY <3>1
      <4> QED BY <4>1, <2>4, FS_EmptySet
    <3>3. 0 + 0 + budget <= budget
      BY <2>1
    <3> QED BY <1>4, <2>4, <2>10, <3>1, <3>2, <3>3 DEF JobInv
  <2>12. KillInv(r)
    <3>1. K \subseteq j.seen /\ \A a \in K : a[1] # j.target
      BY <2>3 DEF LastOf, OldUnready, OldApps, Of
    <3> QED BY <2>10, <3>1 DEF KillInv
  <2>13. JobInv(j) => j.next # "end"
    BY <1>2 DEF JobInv
  <2>14. \A S : S = S \cup (up \ up')
    BY DEF StopUnready
  <2> QED BY <1>1, <1>2, <2>8, <2>9, <2>10, <2>11, <2>12, <2>13, <2>14 DEF Becomes
<1> QED BY <1>6, <1>7

\* One old revision's share of the budget, paid before the apps are stopped.
LEMMA StepShare ==
  ASSUME TypeOK, NEW g \in Rolls, ShareOld(g)
  PROVE  \E r : Becomes(g, r)
<1>1. PICK j : j = roll[g]
  OBVIOUS
<1>2. /\ j \in RollType /\ j.flight <= j.todo /\ j.ready \subseteq j.seen /\ j.pc = "share"
  BY <1>1, RollIs DEF ShareOld
<1>3. /\ j.seen \in SUBSET Apps /\ j.ready \in SUBSET Apps /\ j.gone \in SUBSET Apps
      /\ j.olds \in SUBSET Revs /\ j.budget \in Int
      /\ j.count \in Nat /\ j.target \in Int /\ MaxUnavailable \in Int
  BY <1>2, RolloutAssumption DEF RollType, Revs
<1>4. PICK sized, o :
        sized = {r \in j.olds : Of(r, j.seen) # {}} /\ o = Max(sized)
  BY Zenon
<1>5. PICK share : share = RevisionShare(Cardinality(Of(o, j.seen)), j.budget)
  OBVIOUS
<1>6. roll' = [roll EXCEPT ![g] =
          IF j.budget <= 0 \/ sized = {} THEN NoJob
          ELSE [j EXCEPT !.pc = "stop", !.next = "share", !.asked = share,
                         !.kill = LastOf(share, OldApps(j.target, j.seen), NewestFirst),
                         !.olds = {p \in j.olds : p < o},
                         !.budget = j.budget - share]]
  BY <1>1, <1>4, <1>5, ZenonT(60) DEF ShareOld
<1>7. CASE j.budget <= 0 \/ sized = {}
  <2>1. roll' = [roll EXCEPT ![g] = NoJob]
    BY <1>6, <1>7
  <2> QED BY <2>1, StepEnds
<1>8. CASE ~(j.budget <= 0 \/ sized = {})
  <2>1. share \in Nat /\ share <= j.budget
    <3>1. Of(o, j.seen) \in SUBSET Apps
      BY <1>3 DEF Of
    <3>2. PICK size \in Nat : size = Cardinality(Of(o, j.seen))
      BY <3>1, FewApps
    <3>3. PICK b \in Int : b = j.budget /\ b > 0
      BY <1>3, <1>8
    <3>4. Min({size, b}) \in {size, b} /\ Min({size, b}) <= b
      <4>1. size \in Int
        OBVIOUS
      <4> QED BY <4>1, MinOfTwo
    <3>5. share = Min({size, b})
      BY <1>5, <3>2, <3>3 DEF RevisionShare
    <3> QED BY <3>3, <3>4, <3>5
  <2>2. PICK K : K = LastOf(share, OldApps(j.target, j.seen), NewestFirst)
    OBVIOUS
  <2>3. K \in SUBSET Apps /\ Cardinality(K) <= share
    <3>1. OldApps(j.target, j.seen) \in SUBSET Apps
      BY <1>3 DEF OldApps
    <3>2. K \subseteq OldApps(j.target, j.seen) /\ Cardinality(K) <= share
      BY <2>1, <2>2, <3>1, PlacesDiffer, LastOfSome
    <3> QED BY <3>1, <3>2
  <2>4. PICK olds : olds = {p \in j.olds : p < o}
    OBVIOUS
  <2>5. olds \in SUBSET Revs
    BY <1>3, <2>4
  <2>6. PICK budget : budget = j.budget - share
    OBVIOUS
  <2>7. budget \in Int /\ budget >= 0
    BY <1>3, <2>1, <2>6
  <2>8. PICK r : r = [j EXCEPT !.pc = "stop", !.next = "share", !.asked = share,
                               !.kill = K, !.olds = olds, !.budget = budget]
    OBVIOUS
  <2>9. roll' = [roll EXCEPT ![g] = r]
    BY <1>6, <1>8, <2>2, <2>4, <2>6, <2>8, Zenon
  <2>10. r \in RollType
    BY <1>2, <2>1, <2>3, <2>5, <2>7, <2>8 DEF RollType
  <2>11. /\ r.flight = j.flight /\ r.todo = j.todo /\ r.pc = "stop" /\ r.next = "share"
         /\ r.seen = j.seen /\ r.ready = j.ready /\ r.count = j.count /\ r.target = j.target
         /\ r.gone = j.gone /\ r.kill = K /\ r.budget = budget
    BY <1>2, <2>8 DEF RollType
  <2>12. JobInv(j) => JobInv(r)
    <3> SUFFICES ASSUME JobInv(j), Cardinality(NewApps(j.target, j.seen)) <= j.count
                 PROVE  JobInv(r)
      BY <2>11 DEF JobInv
    <3>1. PICK all : all = ScaleDownBudget(j.count, MaxUnavailable, Cardinality(j.ready))
      OBVIOUS
    <3>2. j.next = "idle" /\ j.kill = {}
      BY <1>2 DEF JobInv
    <3>3. Cardinality(j.gone \cap j.ready) + Cardinality(j.kill \cap j.ready) + j.budget <= all
      BY <1>2, <3>1, <3>2 DEF JobInv
    <3>4. Cardinality(j.kill \cap j.ready) = 0
      <4>1. j.kill \cap j.ready = {}
        BY <3>2
      <4> QED BY <4>1, FS_EmptySet
    <3>5. Cardinality(K \cap j.ready) \in Nat /\ Cardinality(K \cap j.ready) <= share
      <4>1. /\ IsFiniteSet(K) /\ Cardinality(K) \in Nat /\ K \cap j.ready \in SUBSET K
            /\ Cardinality(K \cap j.ready) \in Nat
        BY <2>3, FewApps
      <4>2. Cardinality(K \cap j.ready) <= Cardinality(K)
        BY <4>1, FS_Subset
      <4> QED BY <2>1, <2>3, <4>1, <4>2
    <3>6. Cardinality(j.gone \cap j.ready) \in Nat
      BY <1>3, FewApps
    <3>7. all \in Int
      <4>1. Cardinality(j.ready) \in Nat
        BY <1>3, FewApps
      <4> QED BY <1>3, <3>1, <4>1 DEF ScaleDownBudget, MinAvailable
    <3>8. Cardinality(j.gone \cap j.ready) + Cardinality(K \cap j.ready) + budget <= all
      BY <1>3, <2>1, <2>6, <3>3, <3>4, <3>5, <3>6, <3>7
    <3> QED BY <2>7, <2>11, <3>1, <3>8 DEF JobInv
  <2>13. KillInv(r)
    <3>1. K \subseteq j.seen /\ \A a \in K : a[1] # j.target
      BY <2>2 DEF LastOf, OldApps, Of
    <3> QED BY <2>11, <3>1 DEF KillInv
  <2>14. JobInv(j) => j.next # "end"
    BY <1>2 DEF JobInv
  <2>15. \A S : S = S \cup (up \ up')
    BY DEF ShareOld
  <2> QED BY <1>1, <1>2, <2>9, <2>10, <2>11, <2>12, <2>13, <2>14, <2>15 DEF Becomes
<1> QED BY <1>7, <1>8

\* An app less to stop: it counts as stopped, or not.
LEMMA StepStop ==
  ASSUME TypeOK, NEW g \in Rolls, NEW a \in roll[g].kill,
         StopApp(g, a, TRUE) \/ StopApp(g, a, FALSE) \/ StopFails(g, a)
  PROVE  roll[g].pc = "stop" /\ \E r : Becomes(g, r) /\ r.pc = "stop"
<1>1. PICK j : j = roll[g]
  OBVIOUS
<1>2. /\ j \in RollType /\ j.flight <= j.todo /\ j.ready \subseteq j.seen /\ j.pc = "stop"
      /\ a \in j.kill
  BY <1>1, RollIs DEF StopApp, StopFails
<1>3. /\ j.kill \in SUBSET Apps /\ j.ready \in SUBSET Apps /\ j.gone \in SUBSET Apps
      /\ j.budget \in Int /\ j.count \in Nat /\ MaxUnavailable \in Int /\ a \in Apps
  BY <1>2, RolloutAssumption DEF RollType
<1>4. PICK bad \in BOOLEAN, hit \in Nat, gone \in {j.gone \cup (up \ up')} :
        roll' = [roll EXCEPT ![g] = [j EXCEPT !.kill = j.kill \ {a}, !.hit = hit,
                                              !.bad = bad, !.gone = gone]]
  <2> DEFINE To(hit, bad, gone) ==
        roll' = [roll EXCEPT ![g] = [j EXCEPT !.kill = j.kill \ {a}, !.hit = hit,
                                              !.bad = bad, !.gone = gone]]
  <2>1. ASSUME NEW confirmed \in BOOLEAN, StopApp(g, a, confirmed)
        PROVE  \E bad \in BOOLEAN, hit \in Nat, gone \in {j.gone \cup (up \ up')} :
                  To(hit, bad, gone)
    <3>1. (j.bad \/ ~confirmed) \in BOOLEAN
      BY Zenon
    <3>2. (IF confirmed THEN j.hit + 1 ELSE j.hit) \in Nat
      BY <1>2 DEF RollType
    <3>3. j.gone \cup ({a} \cap up) \in {j.gone \cup (up \ up')}
      <4>1. up \ up' = {a} \cap up
        BY <2>1 DEF StopApp
      <4> QED BY <4>1
    <3>4. To(IF confirmed THEN j.hit + 1 ELSE j.hit, (j.bad \/ ~confirmed),
             j.gone \cup ({a} \cap up))
      BY <1>1, <2>1, Zenon DEF StopApp
    <3> HIDE DEF To
    <3> QED BY <3>1, <3>2, <3>3, <3>4, Zenon
  <2>2. ASSUME StopFails(g, a)
        PROVE  \E bad \in BOOLEAN, hit \in Nat, gone \in {j.gone \cup (up \ up')} :
                  To(hit, bad, gone)
    <3>1. roll' = [roll EXCEPT ![g] = [j EXCEPT !.kill = j.kill \ {a}, !.bad = TRUE]]
      BY <1>1, <2>2, Zenon DEF StopFails
    <3>2. [j EXCEPT !.kill = j.kill \ {a}, !.bad = TRUE]
            = [j EXCEPT !.kill = j.kill \ {a}, !.hit = j.hit, !.bad = TRUE, !.gone = j.gone]
      BY <1>2 DEF RollType
    <3>3. TRUE \in BOOLEAN
      BY Zenon
    <3>4. j.hit \in Nat /\ j.gone \in {j.gone \cup (up \ up')}
      <4>1. up \ up' = {}
        BY <2>2 DEF StopFails
      <4> QED BY <1>2, <4>1 DEF RollType
    <3>5. To(j.hit, TRUE, j.gone)
      BY <3>1, <3>2, Zenon
    <3> HIDE DEF To
    <3> QED BY <3>3, <3>4, <3>5, Zenon
  <2>3. TRUE \in BOOLEAN /\ FALSE \in BOOLEAN
    BY Zenon
  <2> HIDE DEF To
  <2>4. \E bad \in BOOLEAN, hit \in Nat, gone \in {j.gone \cup (up \ up')} : To(hit, bad, gone)
    BY <2>1, <2>2, <2>3, Zenon
  <2> QED BY <2>4, Zenon DEF To
<1>5. PICK K : K = j.kill \ {a}
  OBVIOUS
<1>6. gone = j.gone \cup (up \ up') /\ gone \in {j.gone, j.gone \cup {a}}
  <2>1. up \ up' = {} \/ up \ up' = {a}
    BY DEF StopApp, StopFails
  <2> QED BY <1>4, <2>1
<1>7. K \in SUBSET Apps /\ gone \in SUBSET Apps
  BY <1>3, <1>5, <1>6
<1>8. PICK r : r = [j EXCEPT !.kill = K, !.hit = hit, !.bad = bad, !.gone = gone]
  OBVIOUS
<1>9. r \in RollType
  BY <1>2, <1>7, <1>8 DEF RollType
<1>10. /\ r.flight = j.flight /\ r.todo = j.todo /\ r.pc = j.pc /\ r.next = j.next
      /\ r.seen = j.seen /\ r.ready = j.ready /\ r.count = j.count /\ r.target = j.target
      /\ r.gone = gone /\ r.kill = K /\ r.budget = j.budget
  BY <1>2, <1>8 DEF RollType
<1>11. /\ Cardinality(gone \cap j.ready) + Cardinality(K \cap j.ready)
            <= Cardinality(j.gone \cap j.ready) + Cardinality(j.kill \cap j.ready)
       /\ j.gone \cap j.ready = {} /\ j.kill \cap j.ready = {}
            => gone \cap j.ready = {} /\ K \cap j.ready = {}
  <2>1. PICK G, H, L, M : /\ G = j.gone \cap j.ready /\ H = gone \cap j.ready
                          /\ L = j.kill \cap j.ready /\ M = K \cap j.ready
    BY Zenon
  <2>2. /\ IsFiniteSet(G) /\ Cardinality(G) \in Nat
        /\ IsFiniteSet(L) /\ Cardinality(L) \in Nat
    <3>1. G \in SUBSET Apps /\ L \in SUBSET Apps
      BY <1>3, <2>1
    <3> QED BY <3>1, FewApps
  <2>3. /\ Cardinality(H) + Cardinality(M) <= Cardinality(G) + Cardinality(L)
        /\ (G = {} /\ L = {}) => (H = {} /\ M = {})
    <3>1. CASE a \in j.ready
      <4>1. M = L \ {a} /\ a \in L
        BY <1>2, <1>5, <2>1, <3>1
      <4>2. Cardinality(M) = Cardinality(L) - 1
        BY <2>2, <4>1, FS_RemoveElement
      <4>3. H = G \/ H = G \cup {a}
        BY <1>6, <2>1, <3>1
      <4>4. Cardinality(H) = Cardinality(G) \/ Cardinality(H) = Cardinality(G) + 1
        BY <2>2, <4>3, FS_AddElement
      <4> QED BY <2>2, <4>1, <4>2, <4>4
    <3>2. CASE a \notin j.ready
      <4>1. H = G /\ M = L
        BY <1>5, <1>6, <2>1, <3>2
      <4> QED BY <2>2, <4>1
    <3> QED BY <3>1, <3>2
  <2> QED BY <2>1, <2>3
<1>12. /\ Cardinality(gone \cap j.ready) \in Nat /\ Cardinality(K \cap j.ready) \in Nat
       /\ Cardinality(j.gone \cap j.ready) \in Nat /\ Cardinality(j.kill \cap j.ready) \in Nat
       /\ Cardinality(j.ready) \in Nat
  BY <1>3, <1>7, FewApps
<1>13. JobInv(j) => JobInv(r)
  <2> SUFFICES ASSUME JobInv(j), j.next # "end", Cardinality(NewApps(j.target, j.seen)) <= j.count
               PROVE  JobInv(r)
    BY <1>2, <1>10 DEF JobInv
  <2>1. PICK all \in Int : all = ScaleDownBudget(j.count, MaxUnavailable, Cardinality(j.ready))
    BY <1>3, <1>12 DEF ScaleDownBudget, MinAvailable
  <2>2. /\ j.next = "share"
        /\ Cardinality(j.gone \cap j.ready) + Cardinality(j.kill \cap j.ready) + j.budget <= all
        /\ j.budget >= 0 \/ (j.gone \cap j.ready = {} /\ j.kill \cap j.ready = {})
    BY <1>2, <2>1 DEF JobInv
  <2>3. Cardinality(gone \cap j.ready) + Cardinality(K \cap j.ready) + j.budget <= all
    BY <1>3, <1>11, <1>12, <2>2
  <2> QED BY <1>2, <1>10, <1>11, <2>1, <2>2, <2>3 DEF JobInv
<1>14. KillInv(j) => KillInv(r)
  <2> SUFFICES ASSUME KillInv(j) PROVE KillInv(r)
    OBVIOUS
  <2>1. K \subseteq j.seen
    BY <1>5 DEF KillInv
  <2>2. j.next = "share" => \A b \in K : b[1] # j.target
    BY <1>2, <1>5 DEF KillInv
  <2>3. j.next = "old" =>
          j.count + Cardinality(K) <= Cardinality(NewApps(j.target, j.seen) \ gone)
    <3> SUFFICES ASSUME j.next = "old"
                 PROVE  j.count + Cardinality(K) <= Cardinality(NewApps(j.target, j.seen) \ gone)
      OBVIOUS
    <3>1. PICK N, M : N = NewApps(j.target, j.seen) \ j.gone /\ M = NewApps(j.target, j.seen) \ gone
      OBVIOUS
    <3>2. j.count + Cardinality(j.kill) <= Cardinality(N)
      BY <1>2, <3>1 DEF KillInv
    <3>3. N \in SUBSET Apps
      BY <1>2, <3>1 DEF NewApps, Of, RollType
    <3>4. /\ IsFiniteSet(N) /\ Cardinality(N) \in Nat
          /\ IsFiniteSet(j.kill) /\ Cardinality(j.kill) \in Nat
      BY <1>3, <3>3, FewApps
    <3>5. Cardinality(K) = Cardinality(j.kill) - 1
      BY <1>2, <1>5, <3>4, FS_RemoveElement
    <3>6. M = N \/ (a \in N /\ M = N \ {a})
      BY <1>6, <3>1
    <3>7. CASE M = N
      <4>1. j.count + Cardinality(K) <= Cardinality(N)
        BY <1>3, <3>2, <3>4, <3>5
      <4> QED BY <3>1, <3>7, <4>1
    <3>8. CASE a \in N /\ M = N \ {a}
      <4>1. Cardinality(M) = Cardinality(N) - 1
        BY <3>4, <3>8, FS_RemoveElement
      <4>2. j.count + Cardinality(K) <= Cardinality(M)
        BY <1>3, <3>2, <3>4, <3>5, <4>1
      <4> QED BY <3>1, <4>2
    <3> QED BY <3>6, <3>7, <3>8
  <2> QED BY <1>2, <1>10, <2>1, <2>2, <2>3 DEF KillInv
<1> QED BY <1>1, <1>2, <1>4, <1>5, <1>8, <1>9, <1>10, <1>13, <1>6, <1>14 DEF Becomes

\* The end of a StopApps call.
LEMMA StepReturn ==
  ASSUME TypeOK, NEW g \in Rolls, StopsReturn(g)
  PROVE  \E r : Becomes(g, r)
<1>1. PICK j : j = roll[g]
  OBVIOUS
<1>2. /\ j \in RollType /\ j.flight <= j.todo /\ j.ready \subseteq j.seen
      /\ j.pc = "stop" /\ j.kill = {}
  BY <1>1, RollIs DEF StopsReturn
<1>3. PICK res : roll' = [roll EXCEPT ![g] =
             IF res = "ok" /\ j.next # "end"
             THEN [j EXCEPT !.pc = j.next, !.next = "idle", !.asked = 0, !.hit = 0, !.bad = FALSE]
             ELSE NoJob]
  BY <1>1, Zenon DEF StopsReturn
<1>4. CASE ~(res = "ok" /\ j.next # "end")
  <2>1. roll' = [roll EXCEPT ![g] = NoJob]
    BY <1>3, <1>4, Zenon
  <2> QED BY <2>1, StepEnds
<1>5. CASE res = "ok" /\ j.next # "end"
  <2>1. PICK r : r = [j EXCEPT !.pc = j.next, !.next = "idle", !.asked = 0, !.hit = 0, !.bad = FALSE]
    OBVIOUS
  <2>2. roll' = [roll EXCEPT ![g] = r]
    BY <1>3, <1>5, <2>1, Zenon
  <2>3. j.next \in {"idle", "old", "share"}
    BY <1>2, <1>5 DEF RollType
  <2>4. FALSE \in BOOLEAN
    BY Zenon
  <2>5. r \in RollType
    BY <1>2, <2>1, <2>3, <2>4 DEF RollType
  <2>6. /\ r.flight = j.flight /\ r.todo = j.todo /\ r.pc = j.next /\ r.next = "idle"
        /\ r.seen = j.seen /\ r.ready = j.ready /\ r.count = j.count /\ r.target = j.target
        /\ r.gone = j.gone /\ r.kill = {} /\ r.budget = j.budget
    BY <1>2, <2>1 DEF RollType
  <2>7. JobInv(j) => JobInv(r)
    BY <1>2, <1>5, <2>6 DEF JobInv
  <2>8. r.pc # "start"
    BY <2>3, <2>6
  <2>9. KillInv(r)
    BY <2>3, <2>6 DEF KillInv
  <2>10. \A S : S = S \cup (up \ up')
    BY DEF StopsReturn
  <2> QED BY <1>1, <1>2, <1>5, <2>2, <2>5, <2>6, <2>7, <2>8, <2>9, <2>10 DEF Becomes
<1> QED BY <1>4, <1>5

\* A step of goroutine g, with what may go wrong in it.
RollOrFail(g) ==
    \/ RollStep(g)
    \/ StartApp(g, FALSE) \/ StartFails(g)
    \/ \E a \in roll[g].kill : StopApp(g, a, FALSE) \/ StopFails(g, a)

\* Whatever a goroutine does, its record is one of the above.
LEMMA StepIs ==
  ASSUME TypeOK, NEW g \in Rolls, RollOrFail(g)
  PROVE  \E r : Becomes(g, r)
<1>1. CASE StartApp(g, TRUE) \/ StartApp(g, FALSE) \/ StartFails(g)
  BY <1>1, StepStart
<1>2. CASE BatchReturns(g)
  BY <1>2, StepBatch
<1>3. CASE StopUnready(g)
  BY <1>3, StepUnready
<1>4. CASE ShareOld(g)
  BY <1>4, StepShare
<1>5. CASE StopsReturn(g)
  BY <1>5, StepReturn
<1>6. ASSUME NEW a \in roll[g].kill,
             StopApp(g, a, TRUE) \/ StopApp(g, a, FALSE) \/ StopFails(g, a)
      PROVE  \E r : Becomes(g, r)
  BY <1>6, StepStop
<1> QED BY <1>1, <1>2, <1>3, <1>4, <1>5, <1>6, Zenon DEF RollOrFail, RollStep

\* The containers a goroutine leaves: one more, of its own revision, or fewer.
LEMMA StepApps ==
  ASSUME TypeOK, NEW g \in Rolls, RollOrFail(g)
  PROVE  /\ UNCHANGED <<spec, intr, rec, worker, signal, calm>>
         /\ up' \subseteq Apps /\ avail' \subseteq up'
         /\ left' \in [LimitKinds -> Nat] /\ left'["lost"] = left["lost"]
         /\ up' \subseteq up \/ (roll[g].pc = "start" /\ \E n \in 1 .. Copies :
                                   up' = up \cup {<<roll[g].target, n>>})
<1>1. avail \subseteq up /\ up \subseteq Apps /\ left \in [LimitKinds -> Nat]
  BY DEF TypeOK
<1>2. ASSUME NEW confirmed \in BOOLEAN, StartApp(g, confirmed)
      PROVE  /\ UNCHANGED <<spec, intr, rec, worker, signal, calm>>
             /\ up' \subseteq Apps /\ avail' \subseteq up'
             /\ left' \in [LimitKinds -> Nat] /\ left'["lost"] = left["lost"]
             /\ roll[g].pc = "start" /\ \E n \in 1 .. Copies :
                                          up' = up \cup {<<roll[g].target, n>>}
  <2>1. PICK n \in 1 .. Copies : up' = up \cup {<<roll[g].target, n>>}
    BY <1>2 DEF StartApp
  <2>2. roll[g].target \in Revs /\ roll[g].pc = "start"
    BY <1>2, RollIs DEF StartApp, Starting
  <2>3. up' \subseteq Apps /\ avail' \subseteq up'
    BY <1>1, <1>2, <2>1, <2>2 DEF StartApp, Apps
  <2>4. left' = IF confirmed THEN left ELSE [left EXCEPT !["ops"] = left["ops"] - 1]
    BY <1>2 DEF StartApp
  <2>5. left' \in [LimitKinds -> Nat] /\ left'["lost"] = left["lost"]
    <3>1. confirmed \/ left["ops"] > 0
      BY <1>2 DEF StartApp
    <3> QED BY <1>1, <2>4, <3>1 DEF LimitKinds
  <2> QED BY <1>2, <2>1, <2>2, <2>3, <2>5 DEF StartApp
<1>3. ASSUME NEW a, NEW confirmed \in BOOLEAN, StopApp(g, a, confirmed)
      PROVE  /\ UNCHANGED <<spec, intr, rec, worker, signal, calm>>
             /\ up' \subseteq Apps /\ avail' \subseteq up' /\ up' \subseteq up
             /\ left' \in [LimitKinds -> Nat] /\ left'["lost"] = left["lost"]
  <2>1. up' = up \ {a} /\ avail' = avail \ {a}
    BY <1>3 DEF StopApp
  <2>2. left' = IF confirmed \/ a \notin up THEN left ELSE [left EXCEPT !["ops"] = left["ops"] - 1]
    BY <1>3 DEF StopApp
  <2>3. left' \in [LimitKinds -> Nat] /\ left'["lost"] = left["lost"]
    <3>1. confirmed \/ a \notin up \/ left["ops"] > 0
      BY <1>3 DEF StopApp
    <3> QED BY <1>1, <2>2, <3>1 DEF LimitKinds
  <2> QED BY <1>1, <1>3, <2>1, <2>3 DEF StopApp
<1>4. ASSUME \/ BatchReturns(g) \/ StopUnready(g) \/ ShareOld(g) \/ StopsReturn(g)
      PROVE  UNCHANGED <<up, avail, spec, intr, rec, worker, signal, left, calm>>
  BY <1>4 DEF BatchReturns, StopUnready, ShareOld, StopsReturn
<1>5. ASSUME NEW a, StartFails(g) \/ StopFails(g, a)
      PROVE  /\ UNCHANGED <<up, avail, spec, intr, rec, worker, signal, calm>>
             /\ left' \in [LimitKinds -> Nat] /\ left'["lost"] = left["lost"]
  <2>1. Spend("ops") /\ UNCHANGED <<up, avail, spec, intr, rec, worker, signal, calm>>
    BY <1>5 DEF StartFails, StopFails
  <2> QED BY <2>1, SpendType DEF LimitKinds
<1>6. CASE BatchReturns(g) \/ StopUnready(g) \/ ShareOld(g) \/ StopsReturn(g)
  BY <1>1, <1>4, <1>6
<1>7. CASE StartApp(g, TRUE) \/ StartApp(g, FALSE)
  <2>1. TRUE \in BOOLEAN /\ FALSE \in BOOLEAN
    BY Zenon
  <2> QED BY <1>2, <1>7, <2>1
<1>8. CASE StartFails(g)
  BY <1>1, <1>5, <1>8
<1>9. ASSUME NEW a \in roll[g].kill,
             StopApp(g, a, TRUE) \/ StopApp(g, a, FALSE) \/ StopFails(g, a)
      PROVE  /\ UNCHANGED <<spec, intr, rec, worker, signal, calm>>
             /\ up' \subseteq Apps /\ avail' \subseteq up' /\ up' \subseteq up
             /\ left' \in [LimitKinds -> Nat] /\ left'["lost"] = left["lost"]
  <2>1. TRUE \in BOOLEAN /\ FALSE \in BOOLEAN
    BY Zenon
  <2>2. CASE StopFails(g, a)
    BY <1>1, <1>5, <2>2
  <2>3. CASE StopApp(g, a, TRUE) \/ StopApp(g, a, FALSE)
    BY <1>3, <2>1, <2>3
  <2> QED BY <1>9, <2>2, <2>3
<1> QED BY <1>6, <1>7, <1>8, <1>9, Zenon DEF RollOrFail, RollStep

\* A goroutine's step keeps the types.
LEMMA TypeRoll ==
  ASSUME TypeOK, NEW g \in Rolls, RollOrFail(g)
  PROVE  TypeOK'
<1>1. PICK r : Becomes(g, r)
  BY StepIs
<1>2. /\ r \in RollType /\ r.flight <= r.todo /\ r.ready \subseteq r.seen
      /\ roll' = [roll EXCEPT ![g] = r]
      /\ r.pc # "idle" => r.target \in Revs
  BY <1>1, RollIs DEF Becomes
<1>3. /\ roll' \in [Rolls -> RollType]
      /\ \A h \in Rolls : /\ roll'[h].pc # "idle" => roll'[h].target \in Revs
                          /\ roll'[h].flight <= roll'[h].todo
                          /\ roll'[h].ready \subseteq roll'[h].seen
  BY <1>2, OneRoll
<1> QED BY <1>3, StepApps DEF TypeOK

\* Containers grow old, exit, restart.
LEMMA TypeContainer ==
  ASSUME TypeOK, NEW a \in Apps, BecomesAvailable(a) \/ AppExits(a) \/ AppRestarts(a)
  PROVE  TypeOK'
<1>1. CASE BecomesAvailable(a)
  BY <1>1 DEF BecomesAvailable, TypeOK
<1>2. CASE AppExits(a) \/ AppRestarts(a)
  <2>1. left' \in [LimitKinds -> Nat]
    BY <1>2, SpendType DEF AppExits, AppRestarts, LimitKinds
  <2> QED BY <1>2, <2>1 DEF AppExits, AppRestarts, TypeOK
<1> QED BY <1>1, <1>2

\* The kinds of step there are.
LEMMA Cases ==
  ASSUME [Next]_vars
  PROVE  \/ Put \/ RequestStop("stop") \/ RequestStop("delete")
         \/ DeleteWithoutWorker \/ Crash \/ WorkerExits
         \/ Tick \/ Interrupted
         \/ \E r \in Revs : QueryRevision(r) \/ LoseQuery(r)
         \/ DecideCompleted \/ DecideHold
         \/ DecideStop \/ DecideRoll
         \/ \E g \in Rolls : RollOrFail(g)
         \/ \E a \in Apps : BecomesAvailable(a) \/ AppExits(a) \/ AppRestarts(a)
         \/ UNCHANGED vars
BY Zenon DEF Next, RollOrFail

\* Every step keeps the types.
LEMMA TypeNext == TypeOK /\ [Next]_vars => TypeOK'
<1> SUFFICES ASSUME TypeOK, [Next]_vars PROVE TypeOK'
  OBVIOUS
<1>1. CASE UNCHANGED vars
  BY <1>1 DEF vars, TypeOK
<1>2. ASSUME NEW g \in Rolls, RollOrFail(g)
      PROVE  TypeOK'
  BY <1>2, TypeRoll
<1>3. ASSUME NEW a \in Apps, BecomesAvailable(a) \/ AppExits(a) \/ AppRestarts(a)
      PROVE  TypeOK'
  BY <1>3, TypeContainer
<1>4. CASE DecideStop \/ DecideRoll
  BY <1>4, TypeDecide
<1>5. CASE \/ Tick \/ Interrupted
           \/ \E r \in Revs : QueryRevision(r) \/ LoseQuery(r)
           \/ DecideCompleted \/ DecideHold
  BY <1>5, TypeQuery
<1>6. CASE \/ Put \/ RequestStop("stop") \/ RequestStop("delete")
           \/ DeleteWithoutWorker \/ Crash \/ WorkerExits
  BY <1>6, TypeRequest
<1> QED BY <1>1, <1>2, <1>3, <1>4, <1>5, <1>6, Cases

\* Every reachable state of the rollout is well-typed.
THEOREM TypeCorrect == Spec => []TypeOK
<1>1. Init => TypeOK
  BY TypeInit
<1>2. TypeOK /\ [Next]_vars => TypeOK'
  BY TypeNext
<1> QED BY <1>1, <1>2, PTL DEF Spec

-----------------------------------------------------------------------------
(* The budget of a Roll *)

JobsInv == \A g \in Rolls : JobInv(roll[g])
KillsInv == \A g \in Rolls : KillInv(roll[g])

\* Steps that start no goroutine and belong to none leave their records alone, or end all.
LEMMA OtherSteps ==
  ASSUME \/ Put \/ RequestStop("stop") \/ RequestStop("delete")
         \/ DeleteWithoutWorker \/ Crash \/ WorkerExits
         \/ Tick \/ Interrupted
         \/ \E r \in Revs : QueryRevision(r) \/ LoseQuery(r)
         \/ DecideCompleted \/ DecideHold
         \/ \E a \in Apps : BecomesAvailable(a) \/ AppExits(a) \/ AppRestarts(a)
         \/ UNCHANGED vars
  PROVE  roll' = roll \/ roll' = [g \in Rolls |-> NoJob]
BY DEF Put, RequestStop, DeleteWithoutWorker, Crash, WorkerExits, Tick, Interrupted,
       QueryRevision, LoseQuery, DecideCompleted, DecideHold, BecomesAvailable, AppExits,
       AppRestarts, vars

\* A new goroutine has stopped nothing.
LEMMA NewJob ==
  ASSUME TypeOK, DecideStop \/ DecideRoll
  PROVE  \/ UNCHANGED roll
         \/ \E g \in Rolls : \E j : /\ roll' = [roll EXCEPT ![g] = j] /\ JobInv(j) /\ KillInv(j)
                                    /\ g \notin Active /\ j.target = rec.spec.rev
                                    /\ j.pc = "start" =>
                                         j.todo + Cardinality(rec.seen) <= j.count + MaxSurge
<1>1. rec \in RecType /\ rec.ready \subseteq rec.seen
  BY RecIs DEF DecideStop, DecideRoll, Decides
<1>2. \/ \E g \in Rolls \ Active : roll' = [roll EXCEPT ![g] = StopJob(rec)]
      \/ \E g \in Rolls \ Active : roll' = [roll EXCEPT ![g] = RollJob(rec)]
      \/ UNCHANGED roll
  BY Zenon DEF DecideStop, DecideRoll
<1>3. ASSUME ~ UNCHANGED roll
      PROVE  \E g \in Rolls : \E j : /\ roll' = [roll EXCEPT ![g] = j] /\ JobInv(j) /\ KillInv(j)
                                     /\ g \notin Active /\ j.target = rec.spec.rev
                                     /\ j.pc = "start" =>
                                          j.todo + Cardinality(rec.seen) <= j.count + MaxSurge
  <2>1. PICK g \in Rolls \ Active, j \in {StopJob(rec), RollJob(rec)} :
          roll' = [roll EXCEPT ![g] = j]
    BY <1>2, <1>3
  <2>2. CASE j = StopJob(rec)
    <3>1. j.pc = "stop" /\ j.next = "end" /\ j.target = rec.spec.rev
      BY <1>1, <2>2, StopJobIs
    <3>2. JobInv(j)
      BY <3>1 DEF JobInv
    <3>3. KillInv(j)
      <4>1. j.kill = rec.seen /\ j.seen = rec.seen
        BY <1>1, <2>2, StopJobIs
      <4> QED BY <3>1, <4>1 DEF KillInv
    <3> QED BY <2>1, <3>1, <3>2, <3>3
  <2>3. CASE j = RollJob(rec)
    <3>1. /\ j.pc \in {"old", "start", "stop"} /\ j.gone = {}
          /\ j.target = rec.spec.rev /\ j.count = rec.spec.count /\ j.seen = rec.seen
          /\ j.pc # "stop" => j.next = "idle" /\ j.kill = {}
          /\ j.pc = "stop" =>
               /\ j.next = "old" /\ j.count < Cardinality(NewApps(j.target, j.seen))
               /\ j.kill \subseteq j.seen
               /\ j.count + Cardinality(j.kill) <= Cardinality(NewApps(j.target, j.seen))
          /\ j.pc = "start" => j.todo + Cardinality(j.seen) <= j.count + MaxSurge
      BY <1>1, <2>3, RollJobIs
    <3>2. j.count \in Nat /\ Cardinality(NewApps(j.target, j.seen)) \in Nat
      <4>1. j.count \in Nat
        BY <1>1, <3>1, RolloutAssumption DEF RecType, SpecType
      <4>2. NewApps(j.target, j.seen) \in SUBSET Apps
        BY <1>1, <3>1 DEF RecType, NewApps, Of
      <4> QED BY <4>1, <4>2, FewApps
    <3>3. JobInv(j)
      BY <3>1, <3>2 DEF JobInv
    <3>4. KillInv(j)
      <4>1. NewApps(j.target, j.seen) \ j.gone = NewApps(j.target, j.seen)
        BY <3>1
      <4> QED BY <3>1, <4>1 DEF KillInv
    <3> QED BY <2>1, <3>1, <3>3, <3>4
  <2> QED BY <2>1, <2>2, <2>3
<1> QED BY <1>3

\* Every step keeps every goroutine within its budget.
LEMMA JobsNext == TypeOK /\ JobsInv /\ [Next]_vars => JobsInv'
<1> SUFFICES ASSUME TypeOK, JobsInv, [Next]_vars PROVE JobsInv'
  OBVIOUS
<1>1. roll \in [Rolls -> RollType]
  BY DEF TypeOK
<1>2. ASSUME NEW g \in Rolls, NEW j, roll' = [roll EXCEPT ![g] = j], JobInv(j)
      PROVE  JobsInv'
  BY <1>1, <1>2 DEF JobsInv
<1>3. ASSUME NEW g \in Rolls, RollOrFail(g)
      PROVE  JobsInv'
  <2>1. PICK r : Becomes(g, r)
    BY <1>3, StepIs
  <2> QED BY <1>2, <2>1 DEF Becomes, JobsInv
<1>4. CASE DecideStop \/ DecideRoll
  <2>1. CASE UNCHANGED roll
    BY <2>1 DEF JobsInv
  <2> QED BY <1>2, <1>4, <2>1, NewJob
<1>5. JobInv(NoJob)
  BY NoJobIs DEF JobInv
<1>6. CASE roll' = roll \/ roll' = [g \in Rolls |-> NoJob]
  BY <1>5, <1>6 DEF JobsInv
<1> QED BY <1>3, <1>4, <1>6, Cases, OtherSteps

\* Every step keeps to what was seen.
LEMMA KillsNext == TypeOK /\ KillsInv /\ [Next]_vars => KillsInv'
<1> SUFFICES ASSUME TypeOK, KillsInv, [Next]_vars PROVE KillsInv'
  OBVIOUS
<1>1. roll \in [Rolls -> RollType]
  BY DEF TypeOK
<1>2. ASSUME NEW g \in Rolls, NEW j, roll' = [roll EXCEPT ![g] = j], KillInv(j)
      PROVE  KillsInv'
  BY <1>1, <1>2 DEF KillsInv
<1>3. ASSUME NEW g \in Rolls, RollOrFail(g)
      PROVE  KillsInv'
  <2>1. PICK r : Becomes(g, r)
    BY <1>3, StepIs
  <2> QED BY <1>2, <2>1 DEF Becomes, KillsInv
<1>4. CASE DecideStop \/ DecideRoll
  <2>1. CASE UNCHANGED roll
    BY <2>1 DEF KillsInv
  <2> QED BY <1>2, <1>4, <2>1, NewJob
<1>5. KillInv(NoJob)
  BY NoJobIs DEF KillInv
<1>6. CASE roll' = roll \/ roll' = [g \in Rolls |-> NoJob]
  BY <1>5, <1>6 DEF KillsInv
<1> QED BY <1>3, <1>4, <1>6, Cases, OtherSteps

\* A Roll that need not shrink the new revision stops no more of the apps it saw
\* available than there were above appCount - maxUnavailable, however many goroutines are
\* at work (reconciliation.go:449-502).
THEOREM StopsWithinBudgetHolds == Spec => []StopsWithinBudget
<1>1. Init => TypeOK /\ JobsInv
  <2>1. Init => JobsInv
    BY NoJobIs DEF Init, JobsInv, JobInv
  <2> QED BY <2>1, TypeInit
<1>2. TypeOK /\ JobsInv /\ [Next]_vars => TypeOK' /\ JobsInv'
  BY TypeNext, JobsNext
<1>3. TypeOK /\ JobsInv => StopsWithinBudget
  <2> SUFFICES ASSUME TypeOK, JobsInv, NEW g \in Rolls, NEW j, j = roll[g],
                      j.pc # "idle", j.next # "end",
                      Cardinality(NewApps(j.target, j.seen)) <= j.count
               PROVE  Cardinality(j.gone \cap j.ready) <=
                        Max({0, ScaleDownBudget(j.count, MaxUnavailable, Cardinality(j.ready))})
    BY DEF StopsWithinBudget
  <2>1. JobInv(j)
    BY DEF JobsInv
  <2>2. /\ j.ready \in SUBSET Apps /\ j.gone \in SUBSET Apps /\ j.kill \in SUBSET Apps
        /\ j.budget \in Int /\ j.count \in Nat /\ MaxUnavailable \in Int
        /\ j.pc \in {"idle", "start", "old", "share", "stop"}
    BY RollIs, RolloutAssumption DEF RollType
  <2>3. /\ Cardinality(j.gone \cap j.ready) \in Nat /\ Cardinality(j.kill \cap j.ready) \in Nat
        /\ Cardinality(j.ready) \in Nat
    BY <2>2, FewApps
  <2>4. PICK all \in Int : all = ScaleDownBudget(j.count, MaxUnavailable, Cardinality(j.ready))
    BY <2>2, <2>3 DEF ScaleDownBudget, MinAvailable
  <2>5. 0 <= Max({0, all}) /\ all <= Max({0, all}) /\ Max({0, all}) \in {0, all}
    BY MaxOfTwo
  <2>6. j.gone \cap j.ready = {} => Cardinality(j.gone \cap j.ready) = 0
    BY FS_EmptySet
  <2>7. CASE j.pc \in {"start", "old"}
    <3>1. j.gone \cap j.ready = {}
      BY <2>1, <2>7 DEF JobInv
    <3> QED BY <2>4, <2>5, <2>6, <3>1
  <2>8. CASE j.pc \in {"share", "stop"}
    <3>1. /\ Cardinality(j.gone \cap j.ready) + Cardinality(j.kill \cap j.ready) + j.budget <= all
          /\ j.budget >= 0 \/ j.gone \cap j.ready = {}
      BY <2>1, <2>4, <2>8 DEF JobInv
    <3>2. Cardinality(j.gone \cap j.ready) <= all \/ Cardinality(j.gone \cap j.ready) = 0
      BY <2>2, <2>3, <2>6, <3>1
    <3> QED BY <2>3, <2>4, <2>5, <3>2
  <2> QED BY <2>2, <2>7, <2>8
<1> QED BY <1>1, <1>2, <1>3, PTL DEF Spec

-----------------------------------------------------------------------------
(* The surge *)

\* One goroutine at most, and none while a reconcile looks; what a reconcile has not
\* seen it has yet to ask for; revisions are those of the deployment so far.
SurgeInv ==
    /\ left["lost"] <= Limits["lost"]
    /\ \A g, h \in Active : g = h
    /\ rec.pc = "query" => Active = {} /\ rec.spec.rev <= spec.rev
    /\ \A a \in up : a[1] <= spec.rev
    /\ \A g \in Active : roll[g].target <= spec.rev
    /\ (rec.pc = "query" /\ left["lost"] = Limits["lost"]) =>
          \A a \in up : a \in rec.seen \/ a[1] \in rec.todo
    /\ SurgeRespected

\* A step that starts nothing and looks at nothing.
Quiet ==
    /\ roll' = roll \/ roll' = [g \in Rolls |-> NoJob]
    /\ rec' = rec \/ rec' = NoRec
    /\ up' \subseteq up
    /\ left'["lost"] = left["lost"]
    /\ spec'.rev >= spec.rev

\* Fewer apps are fewer.
LEMMA FewerApps ==
  ASSUME NEW S \in SUBSET Apps, NEW T \in SUBSET S
  PROVE  /\ Cardinality(S) \in Nat /\ Cardinality(T) \in Nat
         /\ Cardinality(T) <= Cardinality(S)
<1>1. IsFiniteSet(S) /\ T \in SUBSET Apps
  BY FewApps
<1> QED BY <1>1, FewApps, FS_Subset

\* Which steps those are.
LEMMA QuietSteps ==
  ASSUME TypeOK,
         \/ Put \/ RequestStop("stop") \/ RequestStop("delete")
         \/ DeleteWithoutWorker \/ Crash \/ WorkerExits
         \/ Interrupted \/ DecideCompleted \/ DecideHold
         \/ \E a \in Apps : BecomesAvailable(a) \/ AppExits(a) \/ AppRestarts(a)
         \/ UNCHANGED vars
  PROVE  Quiet
<1>1. spec \in SpecType /\ spec.rev \in Int
  BY RolloutAssumption DEF TypeOK, SpecType, Revs
<1>2. roll' = roll \/ roll' = [g \in Rolls |-> NoJob]
  BY OtherSteps
<1>3. rec' = rec \/ rec' = NoRec
  BY DEF Put, RequestStop, DeleteWithoutWorker, Crash, WorkerExits, Interrupted,
         DecideCompleted, DecideHold, BecomesAvailable, AppExits, AppRestarts, vars
<1>4. up' \subseteq up
  BY DEF Put, RequestStop, DeleteWithoutWorker, Crash, WorkerExits, Interrupted,
         DecideCompleted, DecideHold, BecomesAvailable, AppExits, AppRestarts, vars
<1>5. \/ Spend("puts") \/ Spend("stops") \/ Spend("crashes") \/ Spend("holds")
      \/ Spend("faults") \/ left' = left
  BY DEF Put, RequestStop, DeleteWithoutWorker, Crash, WorkerExits, Interrupted,
         DecideCompleted, DecideHold, BecomesAvailable, AppExits, AppRestarts, vars
<1>6. left'["lost"] = left["lost"]
  BY <1>5, SpendType DEF LimitKinds
<1>7. spec'.rev >= spec.rev
  <2>1. CASE Put
    <3>1. PICK c \in Counts, r \in {spec.rev, spec.rev + 1} \cap Revs :
             spec' = [spec EXCEPT !.count = c, !.rev = r, !.flag = "run"]
      BY <2>1 DEF Put
    <3>2. spec'.rev = r
      BY <1>1, <3>1 DEF SpecType
    <3> QED BY <1>1, <3>1, <3>2
  <2>2. CASE spec' = spec
    BY <1>1, <2>2
  <2>3. CASE \/ RequestStop("stop") \/ RequestStop("delete") \/ DeleteWithoutWorker
    <3>1. PICK f : spec' = [spec EXCEPT !.flag = f]
      <4>1. ASSUME NEW flag, RequestStop(flag)
            PROVE  \E f : spec' = [spec EXCEPT !.flag = f]
        <5>1. spec' = [spec EXCEPT !.flag = IF spec.flag = "delete" THEN "delete" ELSE flag]
          BY <4>1 DEF RequestStop
        <5> QED BY <5>1, Zenon
      <4>2. CASE DeleteWithoutWorker
        <5>1. spec' = [spec EXCEPT !.flag = "erased"]
          BY <4>2 DEF DeleteWithoutWorker
        <5> QED BY <5>1, Zenon
      <4> QED BY <2>3, <4>1, <4>2
    <3>2. spec'.rev = spec.rev
      BY <1>1, <3>1 DEF SpecType
    <3> QED BY <1>1, <3>2
  <2> QED BY <2>1, <2>2, <2>3
       DEF Crash, WorkerExits, Interrupted,
           DecideCompleted, DecideHold, BecomesAvailable, AppExits, AppRestarts, vars
<1> QED BY <1>2, <1>3, <1>4, <1>6, <1>7 DEF Quiet

\* Steps of the quiet kind start nothing.
LEMMA SurgeQuiet ==
  ASSUME TypeOK, TypeOK', SurgeInv, Quiet
  PROVE  SurgeInv'
<1>1. /\ spec.rev \in Int /\ spec'.rev \in Int /\ up \in SUBSET Apps /\ up' \in SUBSET up
      /\ MaxSurge \in Int
  BY RolloutAssumption DEF TypeOK, SpecType, Revs, Quiet
<1>2. /\ left'["lost"] = left["lost"] /\ spec.rev <= spec'.rev
  BY <1>1 DEF Quiet
<1>3. rec'.pc = "query" => rec' = rec
  BY DEF Quiet, NoRec
<1>4. \A g \in Active' : g \in Active /\ roll'[g] = roll[g]
  BY NoJobIs DEF Quiet, Active
<1>5. \A g \in Active : roll[g].target \in Int
  BY DEF Active, TypeOK, Revs
<1>6. \A a \in up' : a[1] \in Int
  BY <1>1 DEF Apps, Revs
<1>7. (\A a \in up : a[1] <= spec.rev)'
  BY <1>1, <1>2, <1>6 DEF SurgeInv
<1>8. (\A g \in Active : roll[g].target <= spec.rev)'
  BY <1>1, <1>2, <1>4, <1>5 DEF SurgeInv
<1>9. (rec.pc = "query" => Active = {} /\ rec.spec.rev <= spec.rev)'
  <2> SUFFICES ASSUME rec'.pc = "query" PROVE Active' = {} /\ rec'.spec.rev <= spec'.rev
    OBVIOUS
  <2>1. rec' = rec /\ rec.pc = "query"
    BY <1>3
  <2>2. rec.spec.rev \in Int
    BY <2>1, RecIs, RolloutAssumption DEF RecType, SpecType, Revs
  <2> QED BY <1>1, <1>2, <1>4, <2>1, <2>2 DEF SurgeInv
<1>10. SurgeRespected'
  <2> SUFFICES ASSUME NEW g \in Rolls, roll'[g].pc = "start", left'["lost"] = Limits["lost"]
               PROVE  Cardinality(up') + roll'[g].todo <= roll'[g].count + MaxSurge
    BY DEF SurgeRespected
  <2>1. roll'[g] = roll[g]
    BY <1>4 DEF Active
  <2>2. Cardinality(up) + roll[g].todo <= roll[g].count + MaxSurge
    BY <1>2, <2>1 DEF SurgeInv, SurgeRespected
  <2>3. roll[g].todo \in Nat /\ roll[g].count \in Nat
    BY RollIs DEF RollType
  <2> QED BY <1>1, <2>1, <2>2, <2>3, FewerApps
<1>11. ((rec.pc = "query" /\ left["lost"] = Limits["lost"]) =>
          \A a \in up : a \in rec.seen \/ a[1] \in rec.todo)'
  BY <1>1, <1>2, <1>3 DEF SurgeInv
<1> QED BY <1>2, <1>4, <1>7, <1>8, <1>9, <1>10, <1>11 DEF SurgeInv

\* A goroutine that works alone.
LEMMA Alone ==
  ASSUME MaxRolls = 1, \A g, h \in Active : g = h, Cardinality(Active) < MaxRolls
  PROVE  Active = {}
<1> SUFFICES ASSUME NEW g \in Active PROVE FALSE
  OBVIOUS
<1>1. Active = {g}
  OBVIOUS
<1>2. Cardinality({g}) = 1
  BY FS_Singleton
<1>3. ~(Cardinality(Active) < MaxRolls)
  BY <1>1, <1>2
<1> QED BY <1>3

\* A reconcile looks, and has seen what it has asked for.
LEMMA SurgeQuery ==
  ASSUME MaxRolls = 1, TypeOK, TypeOK', SurgeInv,
         Tick \/ \E r \in Revs : QueryRevision(r) \/ LoseQuery(r)
  PROVE  SurgeInv'
<1>1. UNCHANGED <<up, spec, roll>>
  BY DEF Tick, QueryRevision, LoseQuery
<1>2. Active' = Active
  BY <1>1 DEF Active
<1>3. spec.rev \in Int /\ spec.rev \in Revs /\ up \subseteq Apps
  BY RolloutAssumption DEF TypeOK, SpecType, Revs
<1>4. left'["lost"] \in Int /\ left["lost"] \in Int /\ Limits["lost"] \in Int
  BY RolloutAssumption DEF TypeOK, LimitKinds
<1>5. /\ left'["lost"] <= left["lost"]
      /\ (\E r \in Revs : LoseQuery(r)) => left'["lost"] < left["lost"]
      /\ ~(\E r \in Revs : LoseQuery(r)) => left' = left
  <2>1. ASSUME NEW r \in Revs, LoseQuery(r)
        PROVE  left'["lost"] < left["lost"]
    BY <2>1, SpendType DEF LoseQuery, LimitKinds
  <2>2. ASSUME ~(\E r \in Revs : LoseQuery(r))
        PROVE  left' = left
    BY <2>2 DEF Tick, QueryRevision
  <2> QED BY <1>4, <2>1, <2>2
<1>6. left'["lost"] <= Limits["lost"]
  BY <1>4, <1>5 DEF SurgeInv
<1>7. left'["lost"] = Limits["lost"] => /\ ~(\E r \in Revs : LoseQuery(r))
                                        /\ left["lost"] = Limits["lost"]
  BY <1>4, <1>5 DEF SurgeInv
<1>8. SurgeRespected'
  BY <1>1, <1>7 DEF SurgeInv, SurgeRespected
<1>9. (rec.pc = "query" => Active = {} /\ rec.spec.rev <= spec.rev)'
  <2>1. CASE Tick
    <3>1. Active = {}
      BY <2>1, Alone DEF Tick, SurgeInv
    <3>2. rec'.spec = spec
      BY <2>1 DEF Tick
    <3> QED BY <1>1, <1>2, <1>3, <3>1, <3>2
  <2>2. ASSUME NEW r \in Revs, QueryRevision(r) \/ LoseQuery(r)
        PROVE  Active' = {} /\ rec'.spec.rev <= spec'.rev
    <3>1. rec.pc = "query"
      BY <2>2 DEF QueryRevision, LoseQuery
    <3>2. rec'.spec = rec.spec
      BY <2>2, <3>1, RecIs DEF QueryRevision, LoseQuery, RecType
    <3> QED BY <1>1, <1>2, <3>1, <3>2 DEF SurgeInv
  <2> QED BY <2>1, <2>2
<1>10. ((rec.pc = "query" /\ left["lost"] = Limits["lost"]) =>
           \A a \in up : a \in rec.seen \/ a[1] \in rec.todo)'
  <2> SUFFICES ASSUME left'["lost"] = Limits["lost"], NEW a \in up
               PROVE  a \in rec'.seen \/ a[1] \in rec'.todo
    BY <1>1
  <2>1. CASE Tick
    <3>1. rec'.todo = 1 .. spec.rev
      BY <2>1 DEF Tick
    <3>2. a[1] \in Revs /\ a[1] <= spec.rev
      BY <1>3 DEF SurgeInv, Apps
    <3> QED BY <1>3, <3>1, <3>2 DEF Revs
  <2>2. ASSUME NEW r \in Revs, QueryRevision(r)
        PROVE  a \in rec'.seen \/ a[1] \in rec'.todo
    <3>1. rec.pc = "query" /\ (a \in rec.seen \/ a[1] \in rec.todo)
      BY <1>7, <2>2 DEF QueryRevision, SurgeInv
    <3>2. rec'.todo = rec.todo \ {r} /\ rec'.seen = rec.seen \cup Of(r, up)
      BY <2>2, <3>1, RecIs DEF QueryRevision, RecType
    <3> QED BY <3>1, <3>2 DEF Of
  <2> QED BY <1>7, <2>1, <2>2
<1> QED BY <1>1, <1>2, <1>6, <1>8, <1>9, <1>10 DEF SurgeInv

\* A reconcile decides: what a Roll is to start fits above what has been seen.
LEMMA SurgeDecide ==
  ASSUME TypeOK, TypeOK', SurgeInv, DecideStop \/ DecideRoll
  PROVE  SurgeInv'
<1>1. /\ rec.pc = "query" /\ rec.todo = {} /\ rec' = NoRec
      /\ UNCHANGED <<up, left>> /\ Active = {}
  BY DEF DecideStop, DecideRoll, Decides, SurgeInv
<1>2. spec'.rev = spec.rev
  <2>1. \E f : spec' = [spec EXCEPT !.flag = f] \/ spec' = spec
    BY Zenon DEF DecideStop, DecideRoll
  <2> QED BY <2>1 DEF TypeOK, SpecType
<1>3. rec'.pc # "query"
  BY <1>1 DEF NoRec
<1>4. CASE UNCHANGED roll
  <2>1. Active' = Active
    BY <1>4 DEF Active
  <2> QED BY <1>1, <1>2, <1>3, <1>4, <2>1 DEF SurgeInv, SurgeRespected
<1>5. ASSUME NEW g \in Rolls, NEW j, roll' = [roll EXCEPT ![g] = j],
             j.target = rec.spec.rev,
             j.pc = "start" => j.todo + Cardinality(rec.seen) <= j.count + MaxSurge
      PROVE  SurgeInv'
  <2>1. roll'[g] = j /\ \A h \in Rolls : h # g => roll'[h] = roll[h]
    BY <1>5 DEF TypeOK
  <2>2. \A h \in Active' : h = g
    BY <1>1, <2>1 DEF Active
  <2>3. (\A h \in Active : roll[h].target <= spec.rev)'
    BY <1>1, <1>2, <1>5, <2>1, <2>2 DEF SurgeInv
  <2>4. SurgeRespected'
    <3> SUFFICES ASSUME NEW h \in Rolls, roll'[h].pc = "start", left'["lost"] = Limits["lost"]
                 PROVE  Cardinality(up') + roll'[h].todo <= roll'[h].count + MaxSurge
      BY DEF SurgeRespected
    <3>1. h = g /\ roll'[h] = j
      BY <2>1, <2>2 DEF Active
    <3>2. up \subseteq rec.seen /\ rec.seen \in SUBSET Apps
      BY <1>1, RecIs DEF SurgeInv, RecType
    <3>3. /\ Cardinality(up) \in Nat /\ Cardinality(rec.seen) \in Nat
          /\ Cardinality(up) <= Cardinality(rec.seen)
      BY <3>2, FewerApps
    <3>4. j.todo \in Nat /\ j.count \in Nat /\ MaxSurge \in Int
      BY <2>1, RolloutAssumption DEF TypeOK, RollType
    <3>5. j.todo + Cardinality(rec.seen) <= j.count + MaxSurge
      BY <1>5, <3>1
    <3>6. Cardinality(up) + j.todo <= j.count + MaxSurge
      BY <3>3, <3>4, <3>5
    <3> QED BY <1>1, <3>1, <3>6
  <2> QED BY <1>1, <1>2, <1>3, <2>2, <2>3, <2>4 DEF SurgeInv
<1> QED BY <1>4, <1>5, NewJob

\* A goroutine starts an app less than it had to, or none.
LEMMA StepSurge ==
  ASSUME TypeOK, NEW g \in Rolls, RollOrFail(g)
  PROVE  \E r : /\ Becomes(g, r)
                /\ \/ up' \subseteq up
                   \/ /\ roll[g].pc = "start"
                      /\ \E n \in 1 .. Copies : up' = up \cup {<<roll[g].target, n>>}
                      /\ r.pc = "start" => r.todo = roll[g].todo - 1
<1>1. CASE StartApp(g, TRUE) \/ StartApp(g, FALSE)
  <2>1. PICK r : Becomes(g, r) /\ r.todo = roll[g].todo - 1
    BY <1>1, StepStart
  <2> QED BY <2>1, StepApps
<1>2. CASE /\ up' \subseteq up
           /\ ~(StartApp(g, TRUE) \/ StartApp(g, FALSE))
  BY <1>2, StepIs
<1>3. ASSUME ~(StartApp(g, TRUE) \/ StartApp(g, FALSE))
      PROVE  up' \subseteq up
  <2>1. ASSUME \/ BatchReturns(g) \/ StopUnready(g) \/ ShareOld(g) \/ StopsReturn(g)
               \/ StartFails(g)
        PROVE  up' \subseteq up
    BY <2>1 DEF BatchReturns, StopUnready, ShareOld, StopsReturn, StartFails
  <2>2. ASSUME NEW a, StopApp(g, a, TRUE) \/ StopApp(g, a, FALSE) \/ StopFails(g, a)
        PROVE  up' \subseteq up
    BY <2>2 DEF StopApp, StopFails
  <2> QED BY <1>3, <2>1, <2>2, Zenon DEF RollOrFail, RollStep
<1> QED BY <1>1, <1>2, <1>3

\* A goroutine at work: what it starts, it has no longer to start.
LEMMA SurgeRoll ==
  ASSUME TypeOK, TypeOK', SurgeInv, NEW g \in Rolls, RollOrFail(g)
  PROVE  SurgeInv'
<1>1. PICK r : /\ Becomes(g, r)
               /\ \/ up' \subseteq up
                  \/ /\ roll[g].pc = "start"
                     /\ \E n \in 1 .. Copies : up' = up \cup {<<roll[g].target, n>>}
                     /\ r.pc = "start" => r.todo = roll[g].todo - 1
  BY StepSurge
<1>2. UNCHANGED <<spec, rec>> /\ left'["lost"] = left["lost"]
  BY StepApps
<1>3. roll'[g] = r /\ \A h \in Rolls : h # g => roll'[h] = roll[h]
  BY <1>1 DEF TypeOK, Becomes
<1>4. \A h \in Active' : h \in Active /\ roll'[h].target = roll[h].target
  BY <1>1, <1>3 DEF Active, Becomes
<1>5. spec.rev \in Int /\ up \in SUBSET Apps /\ up' \in SUBSET Apps /\ MaxSurge \in Int
  BY RolloutAssumption DEF TypeOK, SpecType, Revs
<1>6. (\A h \in Active : roll[h].target <= spec.rev)'
  BY <1>2, <1>4 DEF SurgeInv
<1>7. (\A a \in up : a[1] <= spec.rev)'
  <2>1. CASE up' \subseteq up
    BY <1>2, <2>1 DEF SurgeInv
  <2>2. CASE roll[g].pc = "start" /\ \E n \in 1 .. Copies : up' = up \cup {<<roll[g].target, n>>}
    <3>1. PICK n : up' = up \cup {<<roll[g].target, n>>}
      BY <2>2
    <3>2. roll[g].target <= spec.rev
      BY <2>2 DEF SurgeInv, Active
    <3> QED BY <1>2, <3>1, <3>2 DEF SurgeInv
  <2> QED BY <1>1, <2>1, <2>2
<1>8. (rec.pc = "query" => Active = {} /\ rec.spec.rev <= spec.rev)'
  BY <1>2, <1>4 DEF SurgeInv
<1>9. ((rec.pc = "query" /\ left["lost"] = Limits["lost"]) =>
          \A a \in up : a \in rec.seen \/ a[1] \in rec.todo)'
  <2> SUFFICES ASSUME rec.pc = "query", left["lost"] = Limits["lost"], NEW a \in up'
               PROVE  a \in rec.seen \/ a[1] \in rec.todo
    BY <1>2
  <2>1. Active = {}
    BY DEF SurgeInv
  <2>2. up' \subseteq up
    BY <1>1, <2>1 DEF Active
  <2> QED BY <2>2 DEF SurgeInv
<1>10. SurgeRespected'
  <2> SUFFICES ASSUME NEW h \in Rolls, roll'[h].pc = "start", left'["lost"] = Limits["lost"]
               PROVE  Cardinality(up') + roll'[h].todo <= roll'[h].count + MaxSurge
    BY DEF SurgeRespected
  <2>1. /\ roll[h].pc = "start" /\ roll'[h].count = roll[h].count
        /\ roll'[h].todo <= roll[h].todo
    <3>1. CASE h = g
      BY <1>1, <1>3, <3>1 DEF Becomes
    <3>2. CASE h # g
      <4>1. roll[h].todo \in Nat
        BY RollIs DEF RollType
      <4> QED BY <1>3, <3>2, <4>1
    <3> QED BY <3>1, <3>2
  <2>2. Cardinality(up) + roll[h].todo <= roll[h].count + MaxSurge
    BY <1>2, <2>1 DEF SurgeInv, SurgeRespected
  <2>3. /\ roll[h].todo \in Nat /\ roll[h].count \in Nat /\ roll'[h].todo \in Nat
        /\ Cardinality(up) \in Nat /\ Cardinality(up') \in Nat
    BY <1>5, RollIs, FewApps DEF TypeOK, RollType
  <2>4. CASE up' \subseteq up
    <3>1. Cardinality(up') <= Cardinality(up)
      BY <1>5, <2>4, FewerApps
    <3> QED BY <1>5, <2>1, <2>2, <2>3, <3>1
  <2>5. CASE ~(up' \subseteq up)
    <3>1. PICK n : up' = up \cup {<<roll[g].target, n>>}
      BY <1>1, <2>5
    <3>2. h = g
      BY <1>1, <2>1, <2>5 DEF SurgeInv, Active
    <3>3. roll'[h].todo = roll[h].todo - 1
      BY <1>1, <1>3, <2>5, <3>2
    <3>4. IsFiniteSet(up)
      BY <1>5, FewApps
    <3>5. Cardinality(up') <= Cardinality(up) + 1
      <4>1. PICK x : up' = up \cup {x}
        BY <3>1
      <4>2. \/ Cardinality(up \cup {x}) = Cardinality(up) + 1
            \/ Cardinality(up \cup {x}) = Cardinality(up)
        BY <3>4, FS_AddElement
      <4> QED BY <2>3, <4>1, <4>2
    <3> QED BY <1>5, <2>1, <2>2, <2>3, <3>3, <3>5
  <2> QED BY <2>4, <2>5
<1> QED BY <1>2, <1>4, <1>6, <1>7, <1>8, <1>9, <1>10 DEF SurgeInv

\* At first nothing has been started.
LEMMA SurgeInit == Init => TypeOK /\ SurgeInv
<1> SUFFICES ASSUME Init PROVE TypeOK /\ SurgeInv
  OBVIOUS
<1>1. Active = {} /\ rec.pc # "query" /\ up = {} /\ left = Limits
  BY NoJobIs DEF Init, Active, NoRec
<1>2. Limits["lost"] <= Limits["lost"]
  BY RolloutAssumption DEF LimitKinds
<1>3. SurgeRespected
  BY NoJobIs DEF Init, SurgeRespected
<1> QED BY <1>1, <1>2, <1>3, TypeInit DEF SurgeInv

\* A Roll that works alone keeps to the surge.
LEMMA SurgeNext ==
  MaxRolls = 1 /\ TypeOK /\ SurgeInv /\ [Next]_vars => SurgeInv'
<1> SUFFICES ASSUME MaxRolls = 1, TypeOK, SurgeInv, [Next]_vars PROVE SurgeInv'
  OBVIOUS
<1>1. TypeOK'
  BY TypeNext
<1>2. ASSUME NEW g \in Rolls, RollOrFail(g)
      PROVE  SurgeInv'
  BY <1>1, <1>2, SurgeRoll
<1>3. CASE DecideStop \/ DecideRoll
  BY <1>1, <1>3, SurgeDecide
<1>4. CASE Tick \/ \E r \in Revs : QueryRevision(r) \/ LoseQuery(r)
  BY <1>1, <1>4, SurgeQuery
<1>5. CASE \/ Put \/ RequestStop("stop") \/ RequestStop("delete")
           \/ DeleteWithoutWorker \/ Crash \/ WorkerExits
           \/ Interrupted \/ DecideCompleted \/ DecideHold
           \/ \E a \in Apps : BecomesAvailable(a) \/ AppExits(a) \/ AppRestarts(a)
           \/ UNCHANGED vars
  BY <1>1, <1>5, QuietSteps, SurgeQuiet
<1> QED BY <1>1, <1>2, <1>3, <1>4, <1>5, Cases

\* As long as no query has been lost, a Roll that works alone keeps the apps that run and
\* those it has yet to start within appCount + maxSurge, whatever exits, restarts, times out
\* or fails meanwhile (reconciliation.go:401-418); surge_overlap has two of them.
THEOREM SurgeRespectedHolds == MaxRolls = 1 => (Spec => []SurgeRespected)
<1> SUFFICES ASSUME MaxRolls = 1 PROVE Spec => []SurgeRespected
  OBVIOUS
<1>1. Init => TypeOK /\ SurgeInv
  BY SurgeInit
<1>2. TypeOK /\ SurgeInv /\ [Next]_vars => TypeOK' /\ SurgeInv'
  BY TypeNext, SurgeNext
<1>3. SurgeInv => SurgeRespected
  BY DEF SurgeInv
<1> QED BY <1>1, <1>2, <1>3, PTL DEF Spec

-----------------------------------------------------------------------------
(* The end of a worker *)

\* A reconcile that is not interrupted works for the deployment as it is, and what it has
\* not seen it has yet to ask for; a worker that has been told to end, or has ended, has
\* left nothing behind that runs or will start anything.
EndInv ==
    /\ rec.pc = "query" => Active = {} /\ rec.spec.rev <= spec.rev
                           /\ worker /\ (intr = 0 => rec.spec = spec)
    /\ \A g, h \in Active : g = h
    /\ \A a \in up : a[1] <= spec.rev
    /\ \A g \in Active : roll[g].target <= spec.rev
    /\ (calm /\ rec.pc = "query") => \A a \in up : a \in rec.seen \/ a[1] \in rec.todo
    /\ (calm /\ (signal \/ ~worker)) =>
          /\ up = {} /\ Active = {} /\ spec.flag # "run"
          /\ rec.pc = "query" => rec.seen = {}

\* The parts of it that Put, Delete and the like can disturb.
LEMMA EndRequest ==
  ASSUME TypeOK, EndInv, Quiet,
         \/ Put \/ RequestStop("stop") \/ RequestStop("delete")
         \/ DeleteWithoutWorker \/ Crash \/ WorkerExits
  PROVE  EndInv'
<1>1. /\ spec \in SpecType /\ spec.rev \in Int /\ spec'.rev \in Int /\ spec'.rev >= spec.rev
      /\ up \subseteq Apps /\ intr \in Nat
  <2>1. spec' \in SpecType
    BY TypeRequest DEF TypeOK
  <2> QED BY <2>1, RolloutAssumption DEF TypeOK, SpecType, Revs, Quiet
<1>2. /\ rec' = rec \/ rec' = NoRec
      /\ roll' = roll \/ roll' = [g \in Rolls |-> NoJob]
      /\ up' = up
  BY DEF Quiet, Put, RequestStop, DeleteWithoutWorker, Crash, WorkerExits
<1>3. /\ Active' \subseteq Active
      /\ \A g \in Active' : roll'[g] = roll[g]
  <2>1. CASE roll' = roll
    BY <2>1 DEF Active
  <2>2. CASE roll' = [g \in Rolls |-> NoJob]
    <3>1. Active' = {}
      BY <2>2, NoJobIs DEF Active
    <3> QED BY <3>1
  <2> QED BY <1>2, <2>1, <2>2
<1>4. rec'.pc = "query" => rec' = rec /\ rec.pc = "query"
  BY <1>2 DEF NoRec
<1>5. /\ \A g, h \in Active' : g = h
      /\ \A a \in up' : a[1] <= spec'.rev
  <2>1. \A a \in up : a[1] \in Int
    BY <1>1 DEF Apps, Revs
  <2> QED BY <1>1, <1>2, <1>3, <2>1 DEF EndInv
<1>6. \A g \in Active' : roll'[g].target <= spec'.rev
  <2>1. \A g \in Active : roll[g].target \in Int
    BY RollIs, RolloutAssumption DEF Active, Revs
  <2> QED BY <1>1, <1>3, <2>1 DEF EndInv
<1>7. rec.pc = "query" => rec.spec.rev \in Int
  BY RecIs DEF RecType, SpecType, Revs
<1>8. rec'.pc = "query" => Active' = {} /\ rec'.spec.rev <= spec'.rev
  BY <1>1, <1>3, <1>4, <1>7 DEF EndInv
<1>9. rec'.pc = "query" => worker' /\ (intr' = 0 => rec'.spec = spec')
  <2> SUFFICES ASSUME rec'.pc = "query" PROVE worker' /\ (intr' = 0 => rec'.spec = spec')
    OBVIOUS
  <2>1. rec' = rec /\ rec.pc = "query" /\ worker
    BY <1>4 DEF EndInv
  <2>2. intr + 1 # 0
    BY <1>1
  <2>3. CASE Put
    BY <2>1, <2>2, <2>3 DEF Put
  <2>4. ASSUME NEW flag \in {"stop", "delete"}, RequestStop(flag)
        PROVE  worker' /\ (intr' = 0 => rec'.spec = spec')
    <3>1. worker' = worker /\ intr' = intr + 1
      BY <2>4 DEF RequestStop
    <3> QED BY <2>1, <2>2, <3>1
  <2>5. CASE DeleteWithoutWorker \/ WorkerExits
    BY <2>1, <2>5 DEF DeleteWithoutWorker, WorkerExits
  <2>6. CASE Crash
    <3>1. rec'.pc = "idle"
      BY <2>6 DEF Crash, NoRec
    <3> QED BY <3>1
  <2> QED BY <2>3, <2>4, <2>5, <2>6
<1>11. ~worker => rec.pc # "query"
  BY DEF EndInv
<1>12. calm' /\ rec'.pc = "query" => calm
  BY <1>4, <1>11 DEF Put, RequestStop, DeleteWithoutWorker, Crash, WorkerExits
<1>13. (calm' /\ rec'.pc = "query") => \A a \in up' : a \in rec'.seen \/ a[1] \in rec'.todo
  BY <1>2, <1>4, <1>12 DEF EndInv
<1>14. ASSUME calm', signal' \/ ~worker'
       PROVE  calm /\ (signal \/ ~worker) /\ spec'.flag # "run"
  <2>1. CASE Put
    BY <1>14, <2>1 DEF Put
  <2>2. ASSUME NEW flag \in {"stop", "delete"}, RequestStop(flag)
        PROVE  calm /\ (signal \/ ~worker) /\ spec'.flag # "run"
    BY <1>1, <1>14, <2>2 DEF RequestStop, SpecType
  <2>3. CASE DeleteWithoutWorker
    BY <1>1, <1>14, <2>3 DEF DeleteWithoutWorker, SpecType
  <2>4. CASE Crash
    BY <1>14, <2>4 DEF Crash
  <2>5. CASE WorkerExits
    BY <1>14, <2>5 DEF WorkerExits, EndInv
  <2> QED BY <2>1, <2>2, <2>3, <2>4, <2>5
<1>15. (calm' /\ (signal' \/ ~worker')) =>
          /\ up' = {} /\ Active' = {} /\ spec'.flag # "run"
          /\ rec'.pc = "query" => rec'.seen = {}
  BY <1>2, <1>3, <1>4, <1>14 DEF EndInv
<1> QED BY <1>5, <1>6, <1>8, <1>9, <1>13, <1>15 DEF EndInv

\* A reconcile begins or ends without deciding anything, or containers come and go.
LEMMA EndQuiet ==
  ASSUME TypeOK, EndInv,
         \/ Interrupted \/ DecideCompleted \/ DecideHold
         \/ \E a \in Apps : BecomesAvailable(a) \/ AppExits(a) \/ AppRestarts(a)
         \/ UNCHANGED vars
  PROVE  EndInv'
<1>1. /\ UNCHANGED <<spec, roll, worker, signal, calm>>
      /\ up' \subseteq up
      /\ rec' = NoRec \/ (rec' = rec /\ intr' = intr)
  BY DEF Interrupted, DecideCompleted, DecideHold, BecomesAvailable, AppExits,
         AppRestarts, vars
<1>2. Active' = Active
  BY <1>1 DEF Active
<1>3. rec'.pc = "query" => rec' = rec /\ intr' = intr
  BY <1>1 DEF NoRec
<1>4. rec'.pc = "query" => Active' = {} /\ rec'.spec.rev <= spec'.rev
                           /\ worker' /\ (intr' = 0 => rec'.spec = spec')
  BY <1>1, <1>2, <1>3 DEF EndInv
<1>5. /\ \A g, h \in Active' : g = h
      /\ \A a \in up' : a[1] <= spec'.rev
      /\ \A g \in Active' : roll'[g].target <= spec'.rev
  BY <1>1, <1>2 DEF EndInv
<1>6. (calm' /\ rec'.pc = "query") => \A a \in up' : a \in rec'.seen \/ a[1] \in rec'.todo
  BY <1>1, <1>3 DEF EndInv
<1>7. (calm' /\ (signal' \/ ~worker')) =>
          /\ up' = {} /\ Active' = {} /\ spec'.flag # "run"
          /\ rec'.pc = "query" => rec'.seen = {}
  BY <1>1, <1>2, <1>3 DEF EndInv
<1> QED BY <1>4, <1>5, <1>6, <1>7 DEF EndInv

\* A reconcile looks.
LEMMA EndQuery ==
  ASSUME MaxRolls = 1, TypeOK, EndInv,
         Tick \/ \E r \in Revs : QueryRevision(r) \/ LoseQuery(r)
  PROVE  EndInv'
<1>1. UNCHANGED <<up, spec, intr, roll, worker, signal>>
  BY DEF Tick, QueryRevision, LoseQuery
<1>2. Active' = Active
  BY <1>1 DEF Active
<1>3. spec.rev \in Int /\ spec.rev \in Revs /\ up \subseteq Apps
  BY RolloutAssumption DEF TypeOK, SpecType, Revs
<1>4. calm' => calm /\ ~(\E r \in Revs : LoseQuery(r))
  BY DEF Tick, QueryRevision, LoseQuery
<1>5. CASE Tick
  <2>1. Active = {}
    BY <1>5, Alone DEF Tick, EndInv
  <2>2. rec'.spec = spec /\ rec'.todo = 1 .. spec.rev /\ rec'.seen = {} /\ worker
    BY <1>5 DEF Tick
  <2>3. \A a \in up : a[1] \in 1 .. spec.rev
    <3>1. \A a \in up : a[1] \in Int /\ 1 <= a[1] /\ a[1] <= spec.rev
      BY <1>3 DEF EndInv, Apps, Revs
    <3> QED BY <1>3, <3>1
  <2> QED BY <1>1, <1>2, <1>3, <1>4, <2>1, <2>2, <2>3 DEF EndInv
<1>6. ASSUME NEW r \in Revs, QueryRevision(r) \/ LoseQuery(r)
      PROVE  EndInv'
  <2>1. rec.pc = "query" /\ rec \in RecType
    BY <1>6, RecIs DEF QueryRevision, LoseQuery
  <2>2. rec'.spec = rec.spec
    BY <1>6, <2>1 DEF QueryRevision, LoseQuery, RecType
  <2>3. QueryRevision(r) => rec'.todo = rec.todo \ {r} /\ rec'.seen = rec.seen \cup Of(r, up)
    BY <2>1 DEF QueryRevision, RecType
  <2>4. calm' => QueryRevision(r)
    BY <1>4, <1>6
  <2>5. calm' => \A a \in up : a \in rec'.seen \/ a[1] \in rec'.todo
    <3> SUFFICES ASSUME calm', NEW a \in up PROVE a \in rec'.seen \/ a[1] \in rec'.todo
      OBVIOUS
    <3>1. a \in rec.seen \/ a[1] \in rec.todo
      BY <1>4, <2>1 DEF EndInv
    <3> QED BY <2>3, <2>4, <3>1 DEF Of
  <2>6. calm' /\ (signal' \/ ~worker') =>
           up' = {} /\ Active' = {} /\ spec'.flag # "run" /\ rec'.seen = {}
    BY <1>1, <1>2, <1>4, <2>1, <2>3, <2>4 DEF EndInv, Of
  <2> QED BY <1>1, <1>2, <2>1, <2>2, <2>5, <2>6 DEF EndInv
<1> QED BY <1>5, <1>6

\* A reconcile decides: it tells the worker to end only when nothing runs.
LEMMA EndDecide ==
  ASSUME TypeOK, EndInv, DecideStop \/ DecideRoll
  PROVE  EndInv'
<1>1. /\ rec.pc = "query" /\ rec.todo = {} /\ rec' = NoRec /\ intr = 0
      /\ UNCHANGED <<up, calm, worker>> /\ Active = {} /\ rec.spec = spec /\ worker
  BY DEF DecideStop, DecideRoll, Decides, EndInv
<1>2. spec'.rev = spec.rev
  <2>1. \E f : spec' = [spec EXCEPT !.flag = f] \/ spec' = spec
    BY Zenon DEF DecideStop, DecideRoll
  <2> QED BY <2>1 DEF TypeOK, SpecType
<1>3. rec'.pc # "query"
  BY <1>1 DEF NoRec
<1>4. /\ \A g, h \in Active' : g = h
      /\ \A g \in Active' : roll'[g].target <= spec'.rev
  <2>1. CASE UNCHANGED roll
    <3>1. Active' = {}
      BY <1>1, <2>1 DEF Active
    <3> QED BY <3>1
  <2>2. ASSUME NEW g \in Rolls, NEW j, roll' = [roll EXCEPT ![g] = j], j.target = rec.spec.rev
        PROVE  /\ \A h, k \in Active' : h = k
               /\ \A h \in Active' : roll'[h].target <= spec'.rev
    <3>1. roll'[g] = j /\ \A h \in Rolls : h # g => roll'[h] = roll[h]
      BY <2>2 DEF TypeOK
    <3>2. \A h \in Active' : h = g
      BY <1>1, <3>1 DEF Active
    <3>3. spec.rev \in Int
      BY DEF TypeOK, SpecType, Revs
    <3> QED BY <1>1, <1>2, <2>2, <3>1, <3>2, <3>3
  <2> QED BY <2>1, <2>2, NewJob
<1>5. (\A a \in up : a[1] <= spec.rev)'
  BY <1>1, <1>2 DEF EndInv
<1>6. ASSUME calm', signal'
      PROVE  up' = {} /\ Active' = {} /\ spec'.flag # "run"
  <2>1. spec.flag # "run" /\ DecideStop
    <3>1. CASE signal
      BY <1>1, <1>6, <3>1 DEF EndInv, DecideRoll
    <3>2. CASE ~signal
      <4>1. DecideStop
        BY <1>6, <3>2 DEF DecideRoll
      <4> QED BY <1>1, <4>1 DEF DecideStop
    <3> QED BY <3>1, <3>2
  <2>2. rec.seen = {} /\ UNCHANGED roll
    <3>1. CASE NothingLeft(rec)
      BY <2>1, <3>1 DEF DecideStop, NothingLeft
    <3>2. CASE ~NothingLeft(rec)
      <4>1. signal' = signal
        BY <2>1, <3>2 DEF DecideStop
      <4>2. rec.seen = {}
        BY <1>1, <1>6, <4>1 DEF EndInv
      <4> QED BY <3>2, <4>2 DEF NothingLeft
    <3> QED BY <3>1, <3>2
  <2>3. up = {}
    BY <1>1, <1>6, <2>2 DEF EndInv
  <2>4. Active' = {}
    BY <1>1, <2>2 DEF Active
  <2>5. spec'.flag # "run"
    <3>1. spec' = spec \/ spec' = [spec EXCEPT !.flag = "erased"]
      BY <2>1 DEF DecideStop
    <3> QED BY <2>1, <3>1 DEF TypeOK, SpecType
  <2> QED BY <1>1, <2>3, <2>4, <2>5
<1> QED BY <1>1, <1>3, <1>4, <1>5, <1>6 DEF EndInv

\* A goroutine at work: there is none when a worker has been told to end.
LEMMA EndRoll ==
  ASSUME TypeOK, EndInv, NEW g \in Rolls, RollOrFail(g)
  PROVE  EndInv'
<1>1. PICK r : /\ Becomes(g, r)
               /\ \/ up' \subseteq up
                  \/ /\ roll[g].pc = "start"
                     /\ \E n \in 1 .. Copies : up' = up \cup {<<roll[g].target, n>>}
  BY StepSurge
<1>2. UNCHANGED <<spec, intr, rec, worker, signal, calm>>
  BY StepApps
<1>3. roll'[g] = r /\ \A h \in Rolls : h # g => roll'[h] = roll[h]
  BY <1>1 DEF TypeOK, Becomes
<1>4. \A h \in Active' : h \in Active /\ roll'[h].target = roll[h].target
  BY <1>1, <1>3 DEF Active, Becomes
<1>5. (\A a \in up : a[1] <= spec.rev)'
  <2>1. CASE up' \subseteq up
    BY <1>2, <2>1 DEF EndInv
  <2>2. CASE roll[g].pc = "start" /\ \E n \in 1 .. Copies : up' = up \cup {<<roll[g].target, n>>}
    <3>1. PICK n : up' = up \cup {<<roll[g].target, n>>}
      BY <2>2
    <3>2. roll[g].target <= spec.rev
      BY <2>2 DEF EndInv, Active
    <3> QED BY <1>2, <3>1, <3>2 DEF EndInv
  <2> QED BY <1>1, <2>1, <2>2
<1>6. Active = {} => up' \subseteq up
  BY <1>1 DEF Active
<1> QED BY <1>2, <1>4, <1>5, <1>6 DEF EndInv

\* At first nobody has been told to end.
LEMMA EndInit == Init => TypeOK /\ EndInv
<1> SUFFICES ASSUME Init PROVE TypeOK /\ EndInv
  OBVIOUS
<1>1. Active = {} /\ rec.pc # "query" /\ up = {} /\ worker /\ ~signal
  BY NoJobIs DEF Init, Active, NoRec
<1> QED BY <1>1, TypeInit DEF EndInv

\* A worker that works with one goroutine at a time leaves nothing behind.
LEMMA EndNext ==
  MaxRolls = 1 /\ TypeOK /\ EndInv /\ [Next]_vars => EndInv'
<1> SUFFICES ASSUME MaxRolls = 1, TypeOK, EndInv, [Next]_vars PROVE EndInv'
  OBVIOUS
<1>1. TypeOK'
  BY TypeNext
<1>2. ASSUME NEW g \in Rolls, RollOrFail(g)
      PROVE  EndInv'
  BY <1>2, EndRoll
<1>3. CASE DecideStop \/ DecideRoll
  BY <1>1, <1>3, EndDecide
<1>4. CASE Tick \/ \E r \in Revs : QueryRevision(r) \/ LoseQuery(r)
  BY <1>1, <1>4, EndQuery
<1>5. CASE \/ Put \/ RequestStop("stop") \/ RequestStop("delete")
           \/ DeleteWithoutWorker \/ Crash \/ WorkerExits
  BY <1>1, <1>5, QuietSteps, EndRequest
<1>6. CASE \/ Interrupted \/ DecideCompleted \/ DecideHold
           \/ \E a \in Apps : BecomesAvailable(a) \/ AppExits(a) \/ AppRestarts(a)
           \/ UNCHANGED vars
  BY <1>1, <1>6, EndQuiet
<1> QED BY <1>1, <1>2, <1>3, <1>4, <1>5, <1>6, Cases

\* With one goroutine at a time: nothing of a stopped or deleted deployment runs once its
\* worker is gone, unless a query was lost, a Put reached the worker after it had been told to
\* end, or the service restarted (reconciliation.go:160-187).
THEOREM StopLeavesNothingHolds == MaxRolls = 1 => (Spec => []StopLeavesNothing)
<1> SUFFICES ASSUME MaxRolls = 1 PROVE Spec => []StopLeavesNothing
  OBVIOUS
<1>1. Init => TypeOK /\ EndInv
  BY EndInit
<1>2. TypeOK /\ EndInv /\ [Next]_vars => TypeOK' /\ EndInv'
  BY TypeNext, EndNext
<1>3. EndInv => StopLeavesNothing
  BY DEF EndInv, StopLeavesNothing
<1> QED BY <1>1, <1>2, <1>3, PTL DEF Spec

-----------------------------------------------------------------------------
(* A rollout is never stuck *)

\* The last k apps of a list are some, if k and the list are not empty: an app with as
\* few as possible after it has none after it.
LEMMA LastTakesSome ==
  ASSUME NEW k \in Nat, k > 0, NEW S \in SUBSET Apps, S # {}, NEW place \in [Revs -> Int]
  PROVE  LastOf(k, S, place) # {}
<1> DEFINE After(a, b) == place[a[1]] < place[b[1]] \/ (a[1] = b[1] /\ a[2] < b[2])
           Later(a) == {b \in S : After(a, b)}
           Tails == {Later(a) : a \in S}
<1>1. LastOf(k, S, place) = {a \in S : Cardinality(Later(a)) < k}
  BY DEF LastOf
<1>2. \A a \in Apps : a[1] \in Revs /\ a[1] \in Int /\ a[2] \in Int
  BY RolloutAssumption DEF Apps, Revs
<1>3. Tails \subseteq SUBSET S /\ Tails # {}
  <2>1. \A a \in S : Later(a) \in SUBSET S
    OBVIOUS
  <2> HIDE DEF Later
  <2>2. PICK a : a \in S
    OBVIOUS
  <2>3. Later(a) \in Tails
    BY <2>2
  <2> QED BY <2>1, <2>3
<1>4. ASSUME NEW a \in S, NEW b \in Later(a)
      PROVE  b \in S /\ Later(b) \subseteq Later(a) /\ b \notin Later(b)
  BY <1>2, <1>4
<1> HIDE DEF After, Later
<1>5. PICK T \in Tails : \A U \in Tails : <<U, T>> \notin StrictSubsetOrdering(S)
  <2>1. IsWellFoundedOn(StrictSubsetOrdering(S), SUBSET S)
    <3>1. IsFiniteSet(S)
      BY FewApps
    <3> QED BY <3>1, FS_FiniteSubsetsOfFinite, FS_StrictSubsetOrderingWellFounded
  <2> HIDE DEF Tails
  <2> QED BY <1>3, <2>1, WFMin
<1>6. PICK a \in S : T = Later(a)
  OBVIOUS
<1>7. Later(a) = {}
  <2> SUFFICES ASSUME NEW b \in Later(a) PROVE FALSE
    OBVIOUS
  <2>1. b \in S /\ Later(b) \subseteq Later(a) /\ Later(b) # Later(a)
    BY <1>4
  <2>2. Later(b) \in Tails /\ Later(b) \in SUBSET S /\ Later(a) \in SUBSET S
    BY <1>3, <2>1
  <2> QED BY <1>5, <1>6, <2>1, <2>2 DEF StrictSubsetOrdering
<1>8. Cardinality(Later(a)) = 0
  BY <1>7, FS_EmptySet
<1> QED BY <1>1, <1>8

\* How many apps of which kind a reconcile has found.
LEMMA CountsAre ==
  ASSUME NEW S \in SUBSET Apps, NEW R \in SUBSET S, NEW r, NewApps(r, S) \subseteq R
  PROVE  /\ {Cardinality(S), Cardinality(R), Cardinality(NewApps(r, S))} \subseteq Nat
         /\ Cardinality(NewApps(r, S)) <= Cardinality(R)
         /\ Cardinality(R) <= Cardinality(S)
         /\ Cardinality(NewApps(r, S)) < Cardinality(S) => OldApps(r, S) # {}
         /\ OldApps(r, S) = {} => Cardinality(NewApps(r, S)) = Cardinality(S)
         /\ OldApps(r, S) \subseteq R => Cardinality(R) = Cardinality(S)
         /\ NewApps(r, S) \cap R = NewApps(r, S)
<1>1. PICK N, O : N = NewApps(r, S) /\ O = OldApps(r, S)
  OBVIOUS
<1>2. N \subseteq R /\ N \cap R = N /\ S = N \cup O /\ N \in SUBSET Apps /\ R \in SUBSET Apps
  BY <1>1 DEF NewApps, OldApps, Of
<1>3. /\ IsFiniteSet(S) /\ IsFiniteSet(R) /\ IsFiniteSet(N)
      /\ Cardinality(S) \in Nat /\ Cardinality(R) \in Nat /\ Cardinality(N) \in Nat
  BY <1>2, FewApps
<1>4. Cardinality(N) <= Cardinality(R) /\ Cardinality(R) <= Cardinality(S)
  BY <1>2, <1>3, FS_Subset
<1>5. O = {} => N = S
  BY <1>2
<1>6. O \subseteq R => R = S
  BY <1>2
<1> QED BY <1>1, <1>2, <1>3, <1>4, <1>5, <1>6

\* What RollMoves comes to, as arithmetic: c apps wanted, t found, a of them available, n
\* new and all of those available, o old ones found.
LEMMA RoomToMove ==
  ASSUME NEW c \in Nat, NEW t \in Nat, NEW a \in Nat, NEW n \in Nat,
         NEW surge \in Nat, NEW unavailable \in Nat,
         c > 0, surge + unavailable > 0, n <= a, a <= t, n <= c,
         NewRevisionTarget(c, surge, n, t) = n,
         ~IsCompleted(c, unavailable, n, t, a)
  PROVE  n < t /\ t - (c - unavailable) > 0
<1>1. CASE n = c
  <2>1. n # t
    <3> SUFFICES ASSUME n = t PROVE FALSE
      OBVIOUS
    <3> QED BY <1>1 DEF IsCompleted, IsAvailable, MinAvailable
  <2> QED BY <1>1, <2>1
<1>2. CASE n < c
  <2>1. t >= c + surge
    <3> SUFFICES ASSUME t < c + surge PROVE FALSE
      OBVIOUS
    <3>1. PICK x \in Int, y \in Int : x = c + surge - t /\ y = c - n /\ x > 0 /\ y > 0
      BY <1>2
    <3>2. PICK m : m = Min({x, y})
      OBVIOUS
    <3>3. m \in Int /\ m > 0
      BY <3>1, <3>2, MinOfTwo
    <3>4. NewRevisionTarget(c, surge, n, t) = n + m
      BY <1>2, <3>1, <3>2 DEF NewRevisionTarget
    <3> QED BY <3>3, <3>4
  <2> QED BY <1>2, <2>1
<1> QED BY <1>1, <1>2

\* A Roll that begins by stopping or starting apps has some to stop or start.
LEMMA FirstBranchActs ==
  ASSUME NEW s \in RecType, s.ready \subseteq s.seen,
         NewRevisionTarget(s.spec.count, MaxSurge, Cardinality(NewApps(s.spec.rev, s.seen)),
                           Cardinality(s.seen)) # Cardinality(NewApps(s.spec.rev, s.seen))
  PROVE  Acts(RollJob(s))
<1>1. PICK c, total, N, new, size :
        /\ c = s.spec.count /\ N = NewApps(s.spec.rev, s.seen)
        /\ total = Cardinality(s.seen) /\ new = Cardinality(N)
        /\ size = NewRevisionTarget(c, MaxSurge, new, total)
  BY Zenon
<1>2. c \in Nat /\ total \in Nat /\ new \in Nat /\ MaxSurge \in Int /\ N \in SUBSET Apps
  <2>1. s.spec.count \in Nat /\ s.seen \in SUBSET Apps /\ MaxSurge \in Int
    BY RolloutAssumption DEF RecType, SpecType
  <2>2. N \in SUBSET Apps
    BY <1>1, <2>1 DEF NewApps, Of
  <2> QED BY <1>1, <2>1, <2>2, FewApps
<1>3. size \in Int /\ size # new /\ (size < new => size = c)
  <2>1. size = NewRevisionTarget(c, MaxSurge, new, total)
    BY <1>1
  <2>2. size \in Int /\ (size < new => c < new)
    BY <1>2, <2>1, TargetIs
  <2>3. c < new => size = c
    BY <1>1, <1>2 DEF NewRevisionTarget
  <2> QED BY <1>1, <2>1, <2>2, <2>3
<1>4. PICK job : job = [NoJob EXCEPT !.pc = "old", !.count = c, !.target = s.spec.rev,
                                     !.seen = s.seen, !.ready = s.ready]
  OBVIOUS
<1>5. PICK j : j = RollJob(s)
  OBVIOUS
<1>6. CASE size < new
  <2>1. PICK d \in Nat : d = new - size /\ d > 0
    BY <1>2, <1>3, <1>6
  <2>2. PICK K : K = LastOf(d, N, NewestFirst)
    OBVIOUS
  <2>3. K # {}
    <3>1. N # {}
      BY <1>1, <1>2, <1>3, <1>6, FS_EmptySet
    <3>2. NewestFirst \in [Revs -> Int]
      BY RolloutAssumption DEF NewestFirst, Revs
    <3> QED BY <1>2, <2>1, <2>2, <3>1, <3>2, LastTakesSome
  <2>4. j = [job EXCEPT !.pc = "stop", !.next = "old", !.asked = d, !.kill = K]
    BY <1>1, <1>4, <1>5, <1>6, <2>1, <2>2 DEF RollJob
  <2>5. j.pc = "stop" /\ j.kill = K
    BY <1>4, <2>4 DEF NoJob
  <2> QED BY <1>5, <2>3, <2>5, Zenon DEF Acts
<1>7. CASE size > new
  <2>1. PICK d : d = size - new
    OBVIOUS
  <2>2. j = [job EXCEPT !.pc = "start", !.todo = d, !.batch = 1, !.flight = 1]
    <3>1. ~(size < new)
      BY <1>2, <1>3, <1>7
    <3> QED BY <1>1, <1>4, <1>5, <1>7, <2>1, <3>1, Zenon DEF RollJob
  <2>3. j.pc = "start" /\ j.flight = 1
    BY <1>4, <2>2 DEF NoJob
  <2>4. j.flight > 0
    BY <2>3
  <2> QED BY <1>5, <2>3, <2>4, Zenon DEF Acts
<1> QED BY <1>2, <1>3, <1>6, <1>7

\* A Roll that leaves the new revision as it is stops old apps.
LEMMA OldBranchActs ==
  ASSUME NEW s \in RecType, s.ready \subseteq s.seen,
         s.spec.count > 0, MaxSurge >= 0, MaxUnavailable >= 0, MaxSurge + MaxUnavailable > 0,
         NewApps(s.spec.rev, s.seen) \subseteq s.ready, ~Completed(s),
         NewRevisionTarget(s.spec.count, MaxSurge, Cardinality(NewApps(s.spec.rev, s.seen)),
                           Cardinality(s.seen)) = Cardinality(NewApps(s.spec.rev, s.seen))
  PROVE  Acts(RollJob(s))
<1>1. PICK S, R, r, c, N, O :
        /\ S = s.seen /\ R = s.ready /\ r = s.spec.rev /\ c = s.spec.count
        /\ N = NewApps(r, S) /\ O = OldApps(r, S)
  BY Zenon
<1>2. /\ c \in Nat /\ S \in SUBSET Apps /\ R \in SUBSET S /\ R \in SUBSET Apps
      /\ MaxSurge \in Int /\ MaxUnavailable \in Int
  BY <1>1, RolloutAssumption DEF RecType, SpecType
<1>3. PICK t, a, n : t = Cardinality(S) /\ a = Cardinality(R) /\ n = Cardinality(N)
  BY Zenon
<1>4. /\ t \in Nat /\ a \in Nat /\ n \in Nat /\ n <= a /\ a <= t /\ N \cap R = N
      /\ n < t => O # {}
      /\ O \subseteq R => a = t
  BY <1>1, <1>2, <1>3, CountsAre
<1>5. NewRevisionTarget(c, MaxSurge, n, t) = n /\ ~IsCompleted(c, MaxUnavailable, n, t, a)
  BY <1>1, <1>3, Zenon DEF Completed
<1>6. n <= c
  BY <1>2, <1>4, <1>5 DEF NewRevisionTarget
<1>7. O # {} /\ t - (c - MaxUnavailable) > 0
  <2>1. MaxSurge \in Nat /\ MaxUnavailable \in Nat
    BY <1>2
  <2> QED BY <1>1, <1>2, <1>4, <1>5, <1>6, <2>1, RoomToMove
<1>8. PICK j : j = [NoJob EXCEPT !.pc = "old", !.count = c, !.target = r, !.seen = S, !.ready = R]
  OBVIOUS
<1>9. RollJob(s) = j
  <2>1. PICK size : size = NewRevisionTarget(c, MaxSurge, n, t)
    OBVIOUS
  <2>2. ~(size < n) /\ ~(size > n)
    BY <1>4, <1>5, <2>1
  <2> QED BY <1>1, <1>3, <1>8, <2>1, <2>2, Zenon DEF RollJob
<1>10. j.pc = "old" /\ j.count = c /\ j.target = r /\ j.seen = S /\ j.ready = R
  BY <1>8 DEF NoJob
<1>11. PICK limit, budget : /\ limit = ScaleDownLimit(j)
                            /\ budget = ScaleDownBudget(j.count, MaxUnavailable, Cardinality(j.ready))
  BY Zenon
<1>12. limit = t - (c - MaxUnavailable)
  <2>1. limit = t - (c - MaxUnavailable) - (n - n)
    BY <1>1, <1>3, <1>4, <1>10, <1>11 DEF ScaleDownLimit, MaxScaledDown, MinAvailable
  <2> QED BY <1>2, <1>4, <2>1
<1>13. limit \in Nat /\ limit > 0
  BY <1>2, <1>4, <1>7, <1>12
<1>14. CASE OldUnready(j) # {}
  <2>1. OldUnready(j) \in SUBSET Apps
    BY <1>2, <1>10 DEF OldUnready, OldApps
  <2>2. \A place \in Bijection(Revs, Revs) : LastOf(limit, OldUnready(j), place) # {}
    <3> SUFFICES ASSUME NEW place \in Bijection(Revs, Revs)
                 PROVE  LastOf(limit, OldUnready(j), place) # {}
      OBVIOUS
    <3>1. place \in [Revs -> Int]
      BY DEF Bijection, Injection, Revs
    <3> QED BY <1>13, <1>14, <2>1, <3>1, LastTakesSome
  <2> QED BY <1>9, <1>10, <1>11, <1>13, <2>2, Zenon DEF Acts
<1>15. CASE OldUnready(j) = {}
  <2>1. O \subseteq R
    BY <1>1, <1>10, <1>15 DEF OldUnready
  <2>2. budget = a - (c - MaxUnavailable)
    BY <1>3, <1>10, <1>11 DEF ScaleDownBudget, MinAvailable
  <2>3. budget > 0
    BY <1>4, <1>7, <2>1, <2>2
  <2> QED BY <1>1, <1>7, <1>9, <1>10, <1>11, <1>13, <2>3, Zenon DEF Acts
<1> QED BY <1>14, <1>15

\* A rollout is never stuck: when all the new apps found are available and it is not
\* completed, the Roll that is started does something (reconciliation.go:396-508), for all
\* counts of apps, with any surge and unavailability that are naturals, not both zero.
THEOREM RollMovesHolds == Spec => []RollMoves
<1>1. TypeOK => RollMoves
  <2> SUFFICES ASSUME TypeOK,
                      Decides, ~Completed(rec), rec.spec.count > 0,
                      MaxSurge >= 0, MaxUnavailable >= 0, MaxSurge + MaxUnavailable > 0,
                      NewApps(rec.spec.rev, rec.seen) \subseteq rec.ready
               PROVE  Acts(RollJob(rec))
    BY DEF RollMoves
  <2>1. PICK s : s = rec
    OBVIOUS
  <2>2. s \in RecType /\ s.ready \subseteq s.seen
    BY <2>1, RecIs DEF Decides
  <2>3. CASE NewRevisionTarget(s.spec.count, MaxSurge, Cardinality(NewApps(s.spec.rev, s.seen)),
                               Cardinality(s.seen)) = Cardinality(NewApps(s.spec.rev, s.seen))
    BY <2>1, <2>2, <2>3, OldBranchActs
  <2>4. CASE NewRevisionTarget(s.spec.count, MaxSurge, Cardinality(NewApps(s.spec.rev, s.seen)),
                               Cardinality(s.seen)) # Cardinality(NewApps(s.spec.rev, s.seen))
    BY <2>1, <2>2, <2>4, FirstBranchActs
  <2> QED BY <2>3, <2>4
<1> QED BY <1>1, TypeCorrect, PTL

-----------------------------------------------------------------------------
(* The contract with the owner of a deployment *)

\* Queries are only ever lost, and no reconcile works for an erased deployment.
LooseInv ==
    /\ left["lost"] <= Limits["lost"]
    /\ rec.pc = "query" => rec.spec.flag # "erased"

\* All that is kept, and what only a goroutine that works alone keeps.
KeptInv ==
    /\ TypeOK /\ JobsInv /\ KillsInv /\ LooseInv
    /\ MaxRolls = 1 => SurgeInv /\ EndInv

\* Steps that belong to no query lose none.
LEMMA LostKept ==
  ASSUME TypeOK, [Next]_vars, ~(\E r \in Revs : LoseQuery(r))
  PROVE  left'["lost"] = left["lost"]
<1>1. CASE \E g \in Rolls : RollOrFail(g)
  BY <1>1, StepApps
<1>2. CASE \/ Tick \/ \E r \in Revs : QueryRevision(r)
           \/ DecideStop \/ DecideRoll
  <2>1. left' = left
    BY <1>2 DEF Tick, QueryRevision, DecideStop, DecideRoll
  <2> QED BY <2>1
<1>3. CASE \/ Put \/ RequestStop("stop") \/ RequestStop("delete")
           \/ DeleteWithoutWorker \/ Crash \/ WorkerExits
           \/ Interrupted \/ DecideCompleted \/ DecideHold
           \/ \E a \in Apps : BecomesAvailable(a) \/ AppExits(a) \/ AppRestarts(a)
           \/ UNCHANGED vars
  BY <1>3, QuietSteps DEF Quiet
<1> QED BY <1>1, <1>2, <1>3, Cases

\* What a step makes of the reconcile's copy.
LEMMA CopyKept ==
  ASSUME TypeOK, [Next]_vars
  PROVE  \/ rec' = rec \/ rec' = NoRec
         \/ Tick
         \/ rec.pc = "query" /\ rec'.spec = rec.spec
<1>1. CASE \E g \in Rolls : RollOrFail(g)
  BY <1>1, StepApps
<1>2. ASSUME NEW r \in Revs, QueryRevision(r) \/ LoseQuery(r)
      PROVE  rec.pc = "query" /\ rec'.spec = rec.spec
  <2>1. rec.pc = "query" /\ rec \in RecType
    BY <1>2, RecIs DEF QueryRevision, LoseQuery
  <2> QED BY <1>2, <2>1 DEF QueryRevision, LoseQuery, RecType
<1>3. CASE DecideStop \/ DecideRoll
  BY <1>3 DEF DecideStop, DecideRoll
<1>4. CASE \/ Put \/ RequestStop("stop") \/ RequestStop("delete")
           \/ DeleteWithoutWorker \/ Crash \/ WorkerExits
           \/ Interrupted \/ DecideCompleted \/ DecideHold
           \/ \E a \in Apps : BecomesAvailable(a) \/ AppExits(a) \/ AppRestarts(a)
           \/ UNCHANGED vars
  BY <1>4, QuietSteps DEF Quiet
<1> QED BY <1>1, <1>2, <1>3, <1>4, Cases

\* Every step keeps that.
LEMMA LooseNext == TypeOK /\ LooseInv /\ [Next]_vars => LooseInv'
<1> SUFFICES ASSUME TypeOK, LooseInv, [Next]_vars PROVE LooseInv'
  OBVIOUS
<1>1. left["lost"] \in Nat /\ Limits["lost"] \in Nat
  BY RolloutAssumption DEF TypeOK, LimitKinds
<1>2. left'["lost"] <= Limits["lost"]
  <2>1. CASE \E r \in Revs : LoseQuery(r)
    <3>1. left'["lost"] < left["lost"] /\ left' \in [LimitKinds -> Nat]
      BY <2>1, SpendType DEF LoseQuery, LimitKinds
    <3>2. left'["lost"] \in Nat
      BY <3>1 DEF LimitKinds
    <3> QED BY <1>1, <3>1, <3>2 DEF LooseInv
  <2>2. CASE ~(\E r \in Revs : LoseQuery(r))
    BY <1>1, <2>2, LostKept DEF LooseInv
  <2> QED BY <2>1, <2>2
<1>3. rec'.pc = "query" => rec'.spec.flag # "erased"
  <2>1. CASE Tick
    BY <2>1 DEF Tick
  <2>2. CASE rec' = NoRec
    BY <2>2 DEF NoRec
  <2> QED BY <2>1, <2>2, CopyKept DEF LooseInv
<1> QED BY <1>2, <1>3 DEF LooseInv

\* The inductive invariant.
LEMMA KeptHolds == Spec => []KeptInv
<1>1. Init => KeptInv
  <2> SUFFICES ASSUME Init PROVE KeptInv
    OBVIOUS
  <2>1. TypeOK /\ SurgeInv /\ EndInv
    BY SurgeInit, EndInit
  <2>2. JobsInv /\ KillsInv
    BY NoJobIs DEF Init, JobsInv, JobInv, KillsInv, KillInv
  <2>3. LooseInv
    <3>1. Limits["lost"] <= Limits["lost"]
      BY RolloutAssumption DEF LimitKinds
    <3> QED BY <3>1 DEF Init, LooseInv, NoRec
  <2> QED BY <2>1, <2>2, <2>3 DEF KeptInv
<1>2. KeptInv /\ [Next]_vars => KeptInv'
  BY TypeNext, JobsNext, KillsNext, LooseNext, SurgeNext, EndNext DEF KeptInv
<1> QED BY <1>1, <1>2, PTL DEF Spec

\* What the owner sees of it.
Want == [count |-> spec.count, rev |-> spec.rev, flag |-> spec.flag]
Copy == CopyOf(rec)
Orders == [g \in Rolls |-> OrderOf(roll[g])]
Sighted == left["lost"] = Limits["lost"]
Lone == MaxRolls = 1

\* The record and what is asked for.
LEMMA WantIs ==
  ASSUME TypeOK
  PROVE  /\ spec \in SpecType /\ spec.rev \in Int
         /\ Want = [count |-> spec.count, rev |-> spec.rev, flag |-> spec.flag]
         /\ Want.count = spec.count /\ Want.rev = spec.rev /\ Want.flag = spec.flag
BY RolloutAssumption DEF TypeOK, SpecType, Revs, Want

\* A new flag in the record is a new flag in what is asked for.
LEMMA WantFlag ==
  ASSUME TypeOK, NEW f, spec' = [spec EXCEPT !.flag = f]
  PROVE  Want' = [Want EXCEPT !.flag = f]
BY DEF TypeOK, SpecType, Want

\* A reconcile at work has a copy.
LEMMA CopyIs ==
  ASSUME TypeOK
  PROVE  /\ rec.pc = "idle" => Copy = NoOrder
         /\ rec.pc # "idle" =>
              /\ rec.pc = "query" /\ rec \in RecType /\ Copy # NoOrder
              /\ Copy = [flag |-> rec.spec.flag, count |-> rec.spec.count, rev |-> rec.spec.rev,
                         found |-> rec.seen, ready |-> rec.ready, gone |-> {}]
<1>1. rec = NoRec \/ (rec.pc = "query" /\ rec \in RecType)
  BY DEF TypeOK, RecType
<1>2. rec.pc = "query" /\ rec \in RecType => rec.spec.flag # "none"
  BY DEF RecType, SpecType
<1> QED BY <1>1, <1>2 DEF Copy, CopyOf, NoOrder, NoRec

\* And so will one that goes on.
LEMMA CopyThen ==
  ASSUME rec'.pc # "idle"
  PROVE  Copy' = [flag |-> rec'.spec.flag, count |-> rec'.spec.count, rev |-> rec'.spec.rev,
                  found |-> rec'.seen, ready |-> rec'.ready, gone |-> {}]
BY DEF Copy, CopyOf

\* A goroutine at work has an order.
LEMMA OrderIs ==
  ASSUME NEW j
  PROVE  /\ j.pc = "idle" <=> OrderOf(j) = NoOrder
         /\ j.pc # "idle" =>
              OrderOf(j) = [flag |-> IF j.next = "end" THEN "stop" ELSE "run", count |-> j.count,
                            rev |-> j.target, found |-> j.seen, ready |-> j.ready,
                            gone |-> j.gone]
BY DEF OrderOf, NoOrder

\* Another record of a goroutine is another order.
LEMMA OneOrder ==
  ASSUME TypeOK, NEW g \in Rolls, NEW j, roll' = [roll EXCEPT ![g] = j]
  PROVE  Orders' = [Orders EXCEPT ![g] = OrderOf(j)]
<1>1. \A h \in Rolls : roll'[h] = IF h = g THEN j ELSE roll[h]
  BY DEF TypeOK
<1>2. \A h \in Rolls : OrderOf(roll'[h]) = IF h = g THEN OrderOf(j) ELSE OrderOf(roll[h])
  BY <1>1
<1>3. Orders' = [h \in Rolls |-> IF h = g THEN OrderOf(j) ELSE OrderOf(roll[h])]
  BY <1>2, Zenon DEF Orders
<1> QED BY <1>3 DEF Orders

\* Nothing that shows has happened.
LEMMA Unseen ==
  ASSUME Want' = Want, Copy' = Copy, Orders' = Orders, Sighted' = Sighted,
         UNCHANGED <<up, avail, worker, signal, calm>>
  PROVE  UNCHANGED Contract!vars
BY DEF Contract!vars, Contract!asked, Contract!fleet, Want, Copy, Orders, Sighted

\* Whose part has not changed looks the same.
LEMMA SameLooks ==
  /\ spec' = spec => Want' = Want
  /\ rec' = rec => Copy' = Copy
  /\ roll' = roll => Orders' = Orders
  /\ left'["lost"] = left["lost"] => Sighted' = Sighted
<1>1. left'["lost"] = left["lost"] => Sighted' = Sighted
  BY DEF Sighted
<1> QED BY <1>1 DEF Want, Copy, Orders

\* Nobody reconciles, nobody works.
LEMMA NoneLeft ==
  /\ rec' = NoRec => Copy' = NoOrder
  /\ roll' = [g \in Rolls |-> NoJob] => Orders' = [g \in Rolls |-> NoOrder]
  /\ Active = {} => \A g \in Rolls : Orders[g] = NoOrder
<1>1. OrderOf(NoJob) = NoOrder
  BY NoJobIs, OrderIs
<1>2. Active = {} => \A g \in Rolls : Orders[g] = NoOrder
  BY OrderIs DEF Active, Orders
<1> QED BY <1>1, <1>2 DEF Copy, CopyOf, NoRec, Orders

\* Nothing runs that anybody answers for, once the worker is told to end.
LEMMA OverIs ==
  ASSUME Lone /\ calm => up = {} /\ Active = {}
  PROVE  Contract!Over
<1>1. Lone /\ calm => up = {} /\ \A g \in Rolls : Orders[g] = NoOrder
  BY NoneLeft
<1> QED BY <1>1 DEF Contract!Over, Contract!Nothing, NoOrder, Orders, Lone

\* Put.
LEMMA PutContract ==
  ASSUME KeptInv, KeptInv', Put
  PROVE  Contract!Next
<1>1. spec.flag # "erased" /\ spec'.flag = "run" /\ spec'.rev >= spec.rev
  <2>1. PICK c, r : spec' = [spec EXCEPT !.count = c, !.rev = r, !.flag = "run"]
    BY DEF Put
  <2>2. spec'.flag = "run"
    BY <2>1, WantIs DEF KeptInv, SpecType
  <2> QED BY <2>2, QuietSteps DEF Put, KeptInv, Quiet
<1>2. Want.flag # "erased" /\ Want'.flag = "run" /\ Want'.rev >= Want.rev
  BY <1>1 DEF Want
<1>3. Copy' = Copy /\ Orders' = Orders /\ Sighted' = Sighted
  <2>1. left'["lost"] = left["lost"]
    BY QuietSteps DEF KeptInv, Quiet
  <2> QED BY <2>1, SameLooks DEF Put
<1>4. /\ worker' = TRUE /\ signal' = (signal /\ worker)
      /\ calm' = (worker => calm /\ ~signal)
      /\ up' = up /\ avail' = avail
  BY DEF Put
<1>5. Contract!Put
  BY <1>2, <1>3, <1>4, Zenon DEF Contract!Put, Contract!fleet, Want, Copy, Orders, Sighted
<1> QED BY <1>5 DEF Contract!Next

\* Stop, and Delete with a worker.
LEMMA StopContract ==
  ASSUME KeptInv, NEW flag \in {"stop", "delete"}, RequestStop(flag)
  PROVE  Contract!Next
<1>1. PICK f : f = IF spec.flag = "delete" THEN "delete" ELSE flag
  OBVIOUS
<1>2. f \in {"stop", "delete"} /\ (Want.flag = "delete" => f = "delete")
  BY <1>1 DEF Want
<1>3. Want' = [Want EXCEPT !.flag = f]
  <2>1. spec' = [spec EXCEPT !.flag = f]
    BY <1>1 DEF RequestStop
  <2> QED BY <2>1, WantFlag DEF KeptInv
<1>4. /\ worker /\ Want.flag # "erased"
      /\ UNCHANGED <<up, avail, worker, signal, calm>>
  BY DEF RequestStop, Want
<1>5. Copy' = Copy /\ Orders' = Orders /\ Sighted' = Sighted
  <2>1. left'["lost"] = left["lost"]
    BY QuietSteps DEF KeptInv, Quiet
  <2> QED BY <2>1, SameLooks DEF RequestStop
<1>6. Contract!StopOrDelete
  BY <1>2, <1>3, <1>4, <1>5 DEF Contract!StopOrDelete, Contract!fleet, Want, Copy, Orders, Sighted
<1> QED BY <1>6 DEF Contract!Next

\* Delete without a worker.
LEMMA EraseContract ==
  ASSUME KeptInv, DeleteWithoutWorker
  PROVE  Contract!Next
<1>1. ~worker /\ UNCHANGED <<up, avail, worker, signal, calm>>
  BY DEF DeleteWithoutWorker
<1>2. Contract!Over
  BY <1>1, OverIs DEF KeptInv, EndInv, Lone
<1>3. Want' = [Want EXCEPT !.flag = "erased"]
  BY WantFlag DEF DeleteWithoutWorker, KeptInv
<1>4. Copy' = Copy /\ Orders' = Orders /\ Sighted' = Sighted
  <2>1. left'["lost"] = left["lost"]
    BY QuietSteps DEF KeptInv, Quiet
  <2> QED BY <2>1, SameLooks DEF DeleteWithoutWorker
<1>5. Contract!Erase
  BY <1>1, <1>2, <1>3, <1>4 DEF Contract!Erase, Contract!fleet, Want, Copy, Orders, Sighted
<1> QED BY <1>5 DEF Contract!Next

\* The service restarts.
LEMMA RestartContract ==
  ASSUME KeptInv, Crash
  PROVE  Contract!Next
<1>1. /\ worker' = FALSE /\ signal' = FALSE /\ calm' = FALSE
      /\ up' = up /\ avail' = avail
  BY DEF Crash
<1>2. /\ Copy' = Contract!Nothing
      /\ Orders' = [g \in Rolls |-> Contract!Nothing]
  BY NoneLeft DEF Crash, Contract!Nothing, NoOrder
<1>3. Want' = Want /\ Sighted' = Sighted
  <2>1. left'["lost"] = left["lost"]
    BY QuietSteps DEF KeptInv, Quiet
  <2> QED BY <2>1, SameLooks DEF Crash
<1>4. Contract!Restart
  BY <1>1, <1>2, <1>3, Zenon DEF Contract!Restart, Contract!fleet, Want, Copy, Orders, Sighted
<1> QED BY <1>4 DEF Contract!Next

\* What a reconcile reads, it writes on its copy.
LEMMA CopyRead ==
  ASSUME NEW f, NEW c, NEW v
  PROVE  [Contract!Nothing EXCEPT !.flag = f, !.count = c, !.rev = v]
           = [flag |-> f, count |-> c, rev |-> v, found |-> {}, ready |-> {}, gone |-> {}]
<1>1. PICK o : o = [Contract!Nothing EXCEPT !.flag = f]
  OBVIOUS
<1>2. o = [flag |-> f, count |-> 0, rev |-> 0, found |-> {}, ready |-> {}, gone |-> {}]
  BY <1>1 DEF Contract!Nothing
<1>3. PICK p : p = [o EXCEPT !.count = c]
  OBVIOUS
<1>4. p = [flag |-> f, count |-> c, rev |-> 0, found |-> {}, ready |-> {}, gone |-> {}]
  BY <1>2, <1>3
<1>5. [p EXCEPT !.rev = v]
        = [flag |-> f, count |-> c, rev |-> v, found |-> {}, ready |-> {}, gone |-> {}]
  BY <1>4
<1> QED BY <1>1, <1>3, <1>5

\* A reconcile reads what is asked for.
LEMMA ReadContract ==
  ASSUME KeptInv, Tick
  PROVE  Contract!Next
<1>1. /\ worker /\ rec.pc = "idle" /\ spec.flag # "erased"
      /\ UNCHANGED <<up, avail, spec, roll, worker, signal, left, calm>>
  BY DEF Tick
<1>2. Copy = Contract!Nothing
  BY <1>1, CopyIs DEF KeptInv, Contract!Nothing, NoOrder
<1>3. Copy' = [Contract!Nothing EXCEPT !.flag = Want.flag, !.count = Want.count, !.rev = Want.rev]
  <2>1. /\ rec'.pc = "query" /\ rec'.spec = spec /\ rec'.seen = {} /\ rec'.ready = {}
    BY DEF Tick
  <2>2. Copy' = [flag |-> spec.flag, count |-> spec.count, rev |-> spec.rev,
                 found |-> {}, ready |-> {}, gone |-> {}]
    BY <2>1, CopyThen
  <2>3. PICK f, c, v : f = Want.flag /\ c = Want.count /\ v = Want.rev
    BY Zenon
  <2>4. Copy' = [flag |-> f, count |-> c, rev |-> v, found |-> {}, ready |-> {}, gone |-> {}]
    BY <2>2, <2>3 DEF Want
  <2>5. [Contract!Nothing EXCEPT !.flag = f, !.count = c, !.rev = v]
          = [flag |-> f, count |-> c, rev |-> v, found |-> {}, ready |-> {}, gone |-> {}]
    BY CopyRead
  <2> QED BY <2>3, <2>4, <2>5
<1>4. Want.flag # "erased" /\ Want' = Want /\ Orders' = Orders /\ Sighted' = Sighted
  BY <1>1, SameLooks DEF Want
<1>5. Contract!Read
  BY <1>1, <1>2, <1>3, <1>4 DEF Contract!Read, Contract!fleet, Want, Copy, Orders, Sighted
<1> QED BY <1>5 DEF Contract!Next

\* The copy of a reconcile that has seen more.
LEMMA CopyGrows ==
  ASSUME TypeOK, rec.pc = "query", NEW S, NEW R,
         rec'.pc = "query", rec'.spec = rec.spec,
         rec'.seen = rec.seen \cup S, rec'.ready = rec.ready \cup R
  PROVE  Copy' = [Copy EXCEPT !.found = Copy.found \cup S, !.ready = Copy.ready \cup R]
<1>1. PICK f, c, v, F, E, F2, E2, o :
        /\ f = rec.spec.flag /\ c = rec.spec.count /\ v = rec.spec.rev
        /\ F = rec.seen /\ E = rec.ready /\ o = Copy
        /\ F2 = rec.seen \cup S /\ E2 = rec.ready \cup R
  BY Zenon
<1>2. o = [flag |-> f, count |-> c, rev |-> v, found |-> F, ready |-> E, gone |-> {}]
  BY <1>1, CopyIs
<1>3. Copy' = [flag |-> f, count |-> c, rev |-> v, found |-> F2, ready |-> E2, gone |-> {}]
  BY <1>1, CopyThen
<1>4. o.found \cup S = F2 /\ o.ready \cup R = E2
  BY <1>1, <1>2
<1>5. [o EXCEPT !.found = F2, !.ready = E2]
        = [flag |-> f, count |-> c, rev |-> v, found |-> F2, ready |-> E2, gone |-> {}]
  <2>1. PICK p : p = [o EXCEPT !.found = F2]
    OBVIOUS
  <2>2. p = [flag |-> f, count |-> c, rev |-> v, found |-> F2, ready |-> E, gone |-> {}]
    BY <1>2, <2>1
  <2>3. [p EXCEPT !.ready = E2]
          = [flag |-> f, count |-> c, rev |-> v, found |-> F2, ready |-> E2, gone |-> {}]
    BY <2>2
  <2> QED BY <2>1, <2>3
<1>6. Copy' = [o EXCEPT !.found = F2, !.ready = E2]
  BY <1>3, <1>5
<1> QED BY <1>1, <1>4, <1>6

\* A query returns.
LEMMA FindContract ==
  ASSUME KeptInv, NEW r \in Revs, QueryRevision(r)
  PROVE  Contract!Next
<1>1. rec.pc = "query" /\ UNCHANGED <<up, avail, spec, roll, worker, signal, left, calm>>
  BY DEF QueryRevision
<1>2. rec \in RecType /\ Copy # NoOrder
  BY <1>1, CopyIs DEF KeptInv
<1>3. Copy' = [Copy EXCEPT !.found = Copy.found \cup Contract!Of(r, up),
                           !.ready = Copy.ready \cup Contract!Of(r, avail)]
  <2>1. /\ rec'.pc = "query" /\ rec'.spec = rec.spec
        /\ rec'.seen = rec.seen \cup Contract!Of(r, up)
        /\ rec'.ready = rec.ready \cup Contract!Of(r, avail)
    BY <1>2 DEF QueryRevision, RecType, Of, Contract!Of
  <2> QED BY <1>1, <2>1, CopyGrows DEF KeptInv
<1>4. Want' = Want /\ Orders' = Orders /\ Sighted' = Sighted
  BY <1>1, SameLooks
<1>5. Contract!Find(r)
  BY <1>1, <1>2, <1>3, <1>4
     DEF Contract!Find, Contract!fleet, Contract!Nothing, NoOrder, Want, Copy, Orders, Sighted
<1>6. r \in {a[1] : a \in Apps}
  <2>1. <<r, 1>> \in Apps
    BY RolloutAssumption DEF Apps
  <2> QED BY <2>1
<1> QED BY <1>5, <1>6 DEF Contract!Next

\* A query is lost.
LEMMA MissContract ==
  ASSUME KeptInv, NEW r \in Revs, LoseQuery(r)
  PROVE  Contract!Next
<1>1. /\ rec.pc = "query" /\ calm' = FALSE
      /\ UNCHANGED <<up, avail, spec, roll, worker, signal>>
  BY DEF LoseQuery
<1>2. Copy # NoOrder /\ rec \in RecType
  BY <1>1, CopyIs DEF KeptInv
<1>3. \E S \in SUBSET up :
        Copy' = [Copy EXCEPT !.found = Copy.found \cup S,
                             !.ready = Copy.ready \cup (S \cap avail)]
  <2>1. \E S \in SUBSET up :
           rec' = [rec EXCEPT !.todo = rec.todo \ {r}, !.seen = rec.seen \cup S,
                              !.ready = rec.ready \cup (S \cap avail)]
    BY Lost
  <2>2. PICK S \in SUBSET up :
           rec' = [rec EXCEPT !.todo = rec.todo \ {r}, !.seen = rec.seen \cup S,
                              !.ready = rec.ready \cup (S \cap avail)]
    BY <2>1
  <2>3. /\ rec'.pc = "query" /\ rec'.spec = rec.spec
        /\ rec'.seen = rec.seen \cup S /\ rec'.ready = rec.ready \cup (S \cap avail)
    BY <1>1, <1>2, <2>2 DEF RecType
  <2>4. PICK R : R = S \cap avail
    OBVIOUS
  <2>5. Copy' = [Copy EXCEPT !.found = Copy.found \cup S, !.ready = Copy.ready \cup R]
    BY <1>1, <2>3, <2>4, CopyGrows DEF KeptInv
  <2> QED BY <2>4, <2>5
<1>4. Sighted' = FALSE
  <2>1. left'["lost"] < left["lost"] /\ left'["lost"] \in Nat
    BY SpendType DEF LoseQuery, LimitKinds, KeptInv
  <2>2. left["lost"] <= Limits["lost"] /\ left["lost"] \in Nat /\ Limits["lost"] \in Nat
    BY RolloutAssumption DEF KeptInv, LooseInv, TypeOK, LimitKinds
  <2>3. left'["lost"] # Limits["lost"]
    BY <2>1, <2>2
  <2> QED BY <2>3, Zenon DEF Sighted
<1>5. Want' = Want /\ Orders' = Orders
  BY <1>1, SameLooks
<1>6. Contract!Miss
  BY <1>1, <1>2, <1>3, <1>4, <1>5, Zenon
     DEF Contract!Miss, Contract!asked, Contract!fleet, Contract!Nothing, NoOrder, Want, Copy,
         Orders, Sighted
<1> QED BY <1>6 DEF Contract!Next

\* A reconcile that is interrupted, or finds nothing to do, or cannot go on.
LEMMA GiveUpContract ==
  ASSUME KeptInv, Interrupted \/ DecideCompleted \/ DecideHold
  PROVE  Contract!Next
<1>1. /\ rec.pc # "idle" /\ rec' = NoRec
      /\ UNCHANGED <<up, avail, spec, roll, worker, signal, calm>>
  BY DEF Interrupted, DecideCompleted, DecideHold, Decides
<1>2. Copy # Contract!Nothing /\ Copy' = Contract!Nothing
  BY <1>1, CopyIs, NoneLeft DEF KeptInv, Contract!Nothing, NoOrder
<1>3. Want' = Want /\ Orders' = Orders /\ Sighted' = Sighted
  <2>1. left'["lost"] = left["lost"]
    BY QuietSteps DEF KeptInv, Quiet
  <2> QED BY <1>1, <2>1, SameLooks
<1>4. Contract!GiveUp
  BY <1>1, <1>2, <1>3 DEF Contract!GiveUp, Contract!fleet, Want, Copy, Orders, Sighted
<1> QED BY <1>4 DEF Contract!Next

\* A reconcile hands over what it has read and found to a goroutine that was idle.
LEMMA HandOverContract ==
  ASSUME KeptInv, rec.pc = "query", rec' = NoRec, NEW g \in Rolls \ Active,
         NEW j, roll' = [roll EXCEPT ![g] = j],
         \/ rec.spec.flag = "run" /\ j = RollJob(rec)
         \/ rec.spec.flag # "run" /\ j = StopJob(rec),
         UNCHANGED <<up, avail, spec, worker, signal, left, calm>>
  PROVE  Contract!Next
<1>1. /\ rec \in RecType /\ rec.ready \subseteq rec.seen /\ Copy # NoOrder
      /\ Copy = [flag |-> rec.spec.flag, count |-> rec.spec.count, rev |-> rec.spec.rev,
                 found |-> rec.seen, ready |-> rec.ready, gone |-> {}]
  BY CopyIs, RecIs DEF KeptInv
<1>2. /\ j.pc # "idle" /\ j.count = rec.spec.count /\ j.target = rec.spec.rev
      /\ j.seen = rec.seen /\ j.ready = rec.ready /\ j.gone = {}
      /\ j.next = "end" <=> rec.spec.flag # "run"
  <2>1. CASE rec.spec.flag # "run"
    BY <1>1, <2>1, StopJobIs
  <2>2. CASE rec.spec.flag = "run"
    BY <1>1, <2>2, RollJobIs
  <2> QED BY <2>1, <2>2
<1>3. OrderOf(j) = [Copy EXCEPT !.flag = IF Copy.flag = "run" THEN "run" ELSE "stop"]
  <2>1. OrderOf(j) = [flag |-> IF j.next = "end" THEN "stop" ELSE "run", count |-> j.count,
                      rev |-> j.target, found |-> j.seen, ready |-> j.ready, gone |-> j.gone]
    BY <1>2, OrderIs
  <2> QED BY <1>1, <1>2, <2>1
<1>4. Orders' = [Orders EXCEPT ![g] = OrderOf(j)]
  BY OneOrder DEF KeptInv
<1>5. g \in Rolls /\ Orders[g] = NoOrder
  BY OrderIs DEF Active, Orders
<1>6. Copy' = NoOrder /\ Want' = Want /\ Sighted' = Sighted
  BY NoneLeft, SameLooks
<1>7. Contract!HandOver(g)
  BY <1>1, <1>3, <1>4, <1>5, <1>6
     DEF Contract!HandOver, Contract!fleet, Contract!Nothing, NoOrder, Want, Copy, Orders, Sighted
<1> QED BY <1>5, <1>7 DEF Contract!Next

\* The decision to roll hands over.
LEMMA RollContract ==
  ASSUME KeptInv, DecideRoll
  PROVE  Contract!Next
<1>1. PICK g \in Rolls \ Active : roll' = [roll EXCEPT ![g] = RollJob(rec)]
  BY DEF DecideRoll
<1>2. /\ rec.pc = "query" /\ rec' = NoRec /\ rec.spec.flag = "run"
      /\ UNCHANGED <<up, avail, spec, worker, signal, left, calm>>
  BY DEF DecideRoll, Decides
<1> QED BY <1>1, <1>2, HandOverContract

\* The decision to stop hands over, or tells the worker to end.
LEMMA TellContract ==
  ASSUME KeptInv, DecideStop
  PROVE  Contract!Next
<1>1. /\ rec.pc = "query" /\ rec.todo = {} /\ rec' = NoRec /\ rec.spec.flag # "run"
      /\ UNCHANGED <<up, avail, worker, left, calm>>
  BY DEF DecideStop, Decides
<1>2. CASE ~NothingLeft(rec)
  <2>1. PICK g \in Rolls \ Active : roll' = [roll EXCEPT ![g] = StopJob(rec)]
    BY <1>2 DEF DecideStop
  <2>2. UNCHANGED <<spec, signal>>
    BY <1>2 DEF DecideStop
  <2> QED BY <1>1, <2>1, <2>2, HandOverContract
<1>3. CASE NothingLeft(rec)
  <2>1. /\ rec.seen = {} /\ signal' = TRUE /\ roll' = roll
        /\ spec' = IF rec.spec.flag = "delete" THEN [spec EXCEPT !.flag = "erased"] ELSE spec
    BY <1>3 DEF DecideStop, NothingLeft
  <2>2. Copy.flag = rec.spec.flag /\ Copy.found = {}
    BY <1>1, <2>1, CopyIs DEF KeptInv
  <2>3. Copy.flag \in {"stop", "delete"}
    BY <1>1, <2>2, RecIs DEF KeptInv, LooseInv, RecType, SpecType
  <2>4. Contract!Over
    <3>1. Lone /\ calm => up = {} /\ Active = {}
      BY <1>1, <2>1 DEF KeptInv, EndInv, Lone
    <3> QED BY <3>1, OverIs
  <2>5. Want' = IF Copy.flag = "delete" THEN [Want EXCEPT !.flag = "erased"] ELSE Want
    BY <2>1, <2>2, WantFlag, SameLooks DEF KeptInv
  <2>6. Copy' = Contract!Nothing /\ Orders' = Orders /\ Sighted' = Sighted
    BY <1>1, <2>1, NoneLeft, SameLooks DEF Contract!Nothing, NoOrder
  <2>7. Contract!Tell
    BY <1>1, <2>1, <2>2, <2>3, <2>4, <2>5, <2>6, Zenon
       DEF Contract!Tell, Contract!fleet, Want, Copy, Orders, Sighted
  <2> QED BY <2>7 DEF Contract!Next
<1> QED BY <1>2, <1>3

\* The worker ends.
LEMMA EndContract ==
  ASSUME KeptInv, WorkerExits
  PROVE  Contract!Next
<1>1. /\ worker /\ signal /\ rec.pc = "idle" /\ worker' = FALSE /\ signal' = FALSE
      /\ UNCHANGED <<up, avail, spec, rec, roll, left, calm>>
  BY DEF WorkerExits
<1>2. Lone /\ calm => up = {} /\ Active = {} /\ Want.flag # "run"
  BY <1>1 DEF KeptInv, EndInv, Lone, Want
<1>3. Contract!Over
  BY <1>2, OverIs
<1>4. Copy = Contract!Nothing
  BY <1>1, CopyIs DEF KeptInv, Contract!Nothing, NoOrder
<1>5. Want' = Want /\ Copy' = Copy /\ Orders' = Orders /\ Sighted' = Sighted
  BY <1>1, SameLooks
<1>6. Contract!End
  BY <1>1, <1>2, <1>3, <1>4, <1>5, Zenon
     DEF Contract!End, Contract!asked, Contract!fleet, Want, Copy, Orders, Sighted, Lone
<1> QED BY <1>6 DEF Contract!Next

\* Both sides count alike.
LEMMA SameCount == \A S : Contract!Cardinality(S) = Cardinality(S)
BY Zenon DEF Contract!Cardinality, Cardinality

\* Only what it has stopped changes in the order of a goroutine that goes on.
LEMMA GoesOn ==
  ASSUME KeptInv, NEW g \in Rolls, NEW r, Becomes(g, r), r.pc # "idle"
  PROVE  /\ roll[g].pc # "idle" /\ Orders[g] = OrderOf(roll[g])
         /\ Orders' = [Orders EXCEPT ![g] = OrderOf(r)]
         /\ up' = up \/ up \ up' = {} => Orders' = Orders
         /\ OrderOf(r) = [OrderOf(roll[g]) EXCEPT !.gone = OrderOf(roll[g]).gone \cup (up \ up')]
<1>1. PICK j, D : j = roll[g] /\ D = up \ up'
  OBVIOUS
<1>2. /\ j.pc # "idle" /\ r.target = j.target /\ r.count = j.count /\ r.seen = j.seen
      /\ r.ready = j.ready /\ r.gone = j.gone \cup D /\ (r.next = "end" <=> j.next = "end")
  BY <1>1 DEF KeptInv, JobsInv, Becomes
<1>3. OrderOf(r) = [flag |-> IF j.next = "end" THEN "stop" ELSE "run", count |-> j.count,
                    rev |-> j.target, found |-> j.seen, ready |-> j.ready, gone |-> j.gone \cup D]
  BY <1>2, OrderIs
<1>4. OrderOf(j) = [flag |-> IF j.next = "end" THEN "stop" ELSE "run", count |-> j.count,
                    rev |-> j.target, found |-> j.seen, ready |-> j.ready, gone |-> j.gone]
  BY <1>2, OrderIs
<1>5. OrderOf(r) = [OrderOf(j) EXCEPT !.gone = OrderOf(j).gone \cup D]
  BY <1>3, <1>4
<1>6. Orders[g] = OrderOf(j)
  BY <1>1 DEF Orders
<1>7. Orders' = [Orders EXCEPT ![g] = OrderOf(r)]
  BY OneOrder DEF KeptInv, Becomes
<1>8. D = {} => Orders' = Orders
  <2> SUFFICES ASSUME D = {} PROVE Orders' = Orders
    OBVIOUS
  <2>1. OrderOf(r) = OrderOf(j)
    BY <1>3, <1>4
  <2> QED BY <1>6, <1>7, <2>1 DEF Orders
<1> QED BY <1>1, <1>2, <1>5, <1>6, <1>7, <1>8

\* A goroutine takes a step that touches no container: it goes on or finishes.
LEMMA WorkContract ==
  ASSUME KeptInv, NEW g \in Rolls, NEW r, Becomes(g, r),
         UNCHANGED <<up, avail, spec, rec, worker, signal, calm>>, left'["lost"] = left["lost"]
  PROVE  [Contract!Next]_(Contract!vars)
<1>1. Want' = Want /\ Copy' = Copy /\ Sighted' = Sighted
  BY SameLooks
<1>2. Orders' = [Orders EXCEPT ![g] = OrderOf(r)] /\ Orders[g] = OrderOf(roll[g])
  <2>1. Orders[g] = OrderOf(roll[g])
    BY DEF Orders
  <2> QED BY <2>1, OneOrder DEF KeptInv, Becomes
<1>3. CASE Orders' = Orders
  BY <1>1, <1>3, Unseen
<1>4. CASE Orders' # Orders
  <2>1. OrderOf(r) = NoOrder
    BY <1>4, GoesOn, OrderIs
  <2>2. Orders[g] # NoOrder
    BY <1>2, <1>4, <2>1 DEF Orders
  <2>3. Contract!Finish(g)
    BY <1>1, <1>2, <2>1, <2>2
       DEF Contract!Finish, Contract!fleet, Contract!Nothing, NoOrder, Want, Copy, Orders, Sighted
  <2> QED BY <2>3 DEF Contract!Next
<1> QED BY <1>3, <1>4

\* A goroutine starts an app: of the revision asked for, up to the surge, and only while the
\* worker has not been told to end.
LEMMA StartContract ==
  ASSUME KeptInv, KeptInv', NEW g \in Rolls, StartApp(g, TRUE) \/ StartApp(g, FALSE)
  PROVE  Contract!Next
<1>1. PICK r : Becomes(g, r) /\ r.pc = "start"
  BY StepStart DEF KeptInv
<1>2. PICK j, o : j = roll[g] /\ o = Orders[g]
  OBVIOUS
<1>3. /\ j.pc = "start" /\ j.flight > 0
      /\ UNCHANGED <<avail, spec, rec, worker, signal, calm>>
  BY <1>2 DEF StartApp, Starting
<1>4. /\ j.count \in Nat /\ j.todo \in Nat /\ j.flight \in Nat /\ j.flight <= j.todo
      /\ j.target \in Revs /\ g \in Active
  BY <1>2, <1>3, RollIs DEF KeptInv, RollType, Active
<1>5. o.flag = "run" /\ o.rev = j.target /\ o.count = j.count
  <2>1. j.next = "idle"
    BY <1>2, <1>3 DEF KeptInv, JobsInv, JobInv
  <2>2. o = OrderOf(j)
    BY <1>2 DEF Orders
  <2> QED BY <1>3, <2>1, <2>2, OrderIs
<1>6. PICK n \in 1 .. Copies : /\ <<j.target, n>> \notin up
                               /\ up' = up \cup {<<j.target, n>>}
  BY <1>2 DEF StartApp, Mentioned
<1>7. PICK a \in Apps : a[1] = j.target /\ a \notin up /\ up' = up \cup {a}
  BY <1>4, <1>6 DEF Apps
<1>8. Lone /\ Sighted => Cardinality(up) < j.count + MaxSurge
  <2> SUFFICES ASSUME Lone, Sighted PROVE Cardinality(up) < j.count + MaxSurge
    OBVIOUS
  <2>1. Cardinality(up) + j.todo <= j.count + MaxSurge
    BY <1>2, <1>3 DEF KeptInv, SurgeInv, SurgeRespected, Lone, Sighted
  <2>2. Cardinality(up) \in Nat /\ MaxSurge \in Int
    BY FewApps, RolloutAssumption DEF KeptInv, TypeOK
  <2> QED BY <1>3, <1>4, <2>1, <2>2
<1>9. Lone /\ calm => worker /\ ~signal
  BY <1>4 DEF KeptInv, EndInv, Lone
<1>10. Want' = Want /\ Copy' = Copy /\ Orders' = Orders /\ Sighted' = Sighted
  <2>1. left'["lost"] = left["lost"]
    BY StepApps DEF KeptInv, RollOrFail, RollStep
  <2>2. up \ up' = {}
    BY <1>7
  <2> QED BY <1>1, <1>3, <2>1, <2>2, SameLooks, GoesOn
<1>11. Contract!Start(g, a)
  BY <1>2, <1>3, <1>5, <1>7, <1>8, <1>9, <1>10, SameCount
     DEF Contract!Start, Contract!asked, Want, Copy, Orders, Sighted, Lone
<1> QED BY <1>11 DEF Contract!Next

\* What a goroutine is about to stop may be stopped: all there is, or a new app too many, or
\* an old one, and of those that were available no more than the budget.
LEMMA MayBeSpared ==
  ASSUME KeptInv, NEW g \in Rolls, NEW a \in roll[g].kill, roll[g].pc = "stop",
         NEW o, o = OrderOf(roll[g])
  PROVE  a \in o.found /\ Contract!Spare(o, a)
<1>1. PICK j : j = roll[g]
  OBVIOUS
<1>2. /\ j.pc = "stop" /\ a \in j.kill /\ JobInv(j) /\ KillInv(j) /\ j \in RollType
  BY <1>1, RollIs DEF KeptInv, JobsInv, KillsInv
<1>3. /\ o.flag = (IF j.next = "end" THEN "stop" ELSE "run") /\ o.count = j.count
      /\ o.rev = j.target /\ o.found = j.seen /\ o.ready = j.ready /\ o.gone = j.gone
  BY <1>1, <1>2, OrderIs
<1>4. a \in o.found
  BY <1>2, <1>3 DEF KillInv
<1>5. CASE j.next = "end"
  BY <1>3, <1>4, <1>5 DEF Contract!Spare
<1>6. CASE j.next # "end"
  <2>1. PICK N, G, L, c, b :
          /\ N = NewApps(j.target, j.seen) /\ G = j.gone \cap j.ready /\ L = j.kill \cap j.ready
          /\ c = j.count /\ b = j.budget
    BY Zenon
  <2>2. /\ j.kill \in SUBSET Apps /\ L \in SUBSET Apps /\ G \in SUBSET Apps
        /\ N \in SUBSET Apps /\ N \ j.gone \in SUBSET Apps /\ j.ready \in SUBSET Apps
        /\ c \in Nat /\ b \in Int /\ MaxUnavailable \in Int
    BY <1>2, <2>1, RolloutAssumption DEF RollType, NewApps, Of
  <2>3. /\ IsFiniteSet(j.kill) /\ Cardinality(j.kill) \in Nat
        /\ IsFiniteSet(L) /\ Cardinality(L) \in Nat
        /\ Cardinality(G) \in Nat /\ Cardinality(N) \in Nat /\ Cardinality(N \ j.gone) \in Nat
        /\ Cardinality(j.ready) \in Nat
    BY <2>2, FewApps
  <2>4. a[1] = o.rev => Cardinality(N \ j.gone) > c
    <3> SUFFICES ASSUME a[1] = j.target PROVE Cardinality(N \ j.gone) > c
      BY <1>3
    <3>1. j.next = "old" /\ c + Cardinality(j.kill) <= Cardinality(N \ j.gone)
      BY <1>2, <1>6, <2>1 DEF KillInv
    <3>2. Cardinality(j.kill) # 0
      BY <1>2, <2>3, FS_EmptySet
    <3> QED BY <2>2, <2>3, <3>1, <3>2
  <2>5. (a \in j.ready /\ Cardinality(N) <= c) =>
           Cardinality(G) < Cardinality(j.ready) - (c - MaxUnavailable)
    <3> SUFFICES ASSUME a \in j.ready, Cardinality(N) <= c
                 PROVE  Cardinality(G) < Cardinality(j.ready) - (c - MaxUnavailable)
      OBVIOUS
    <3>1. /\ Cardinality(G) + Cardinality(L) + b
               <= ScaleDownBudget(c, MaxUnavailable, Cardinality(j.ready))
          /\ b >= 0 \/ L = {}
      BY <1>2, <1>6, <2>1 DEF JobInv
    <3>2. Cardinality(L) # 0 /\ L # {}
      BY <1>2, <2>1, <2>3, FS_EmptySet
    <3>3. ScaleDownBudget(c, MaxUnavailable, Cardinality(j.ready))
            = Cardinality(j.ready) - (c - MaxUnavailable)
      BY DEF ScaleDownBudget, MinAvailable
    <3> QED BY <2>2, <2>3, <3>1, <3>2, <3>3
  <2>6. Contract!Of(o.rev, o.found) = N
    BY <1>3, <2>1 DEF Contract!Of, NewApps, Of
  <2>7. Contract!Spare(o, a)
    <3>1. /\ o.flag = "run" /\ o.count = c /\ o.gone \cap o.ready = G /\ o.ready = j.ready
          /\ Contract!Of(o.rev, o.found) \ o.gone = N \ j.gone
      BY <1>3, <1>6, <2>1, <2>6
    <3> QED BY <2>4, <2>5, <2>6, <3>1, SameCount, Zenon DEF Contract!Spare
  <2> QED BY <1>4, <2>7
<1> QED BY <1>5, <1>6

\* A goroutine stops an app, if it is still there.
LEMMA StopAppContract ==
  ASSUME KeptInv, NEW g \in Rolls, NEW a \in roll[g].kill,
         StopApp(g, a, TRUE) \/ StopApp(g, a, FALSE)
  PROVE  [Contract!Next]_(Contract!vars)
<1>1. PICK r : Becomes(g, r) /\ r.pc = "stop"
  BY StepStop DEF KeptInv
<1>2. /\ roll[g].pc = "stop" /\ up' = up \ {a} /\ avail' = avail \ {a}
      /\ UNCHANGED <<spec, rec, worker, signal, calm>>
  BY DEF StopApp
<1>3. Want' = Want /\ Copy' = Copy /\ Sighted' = Sighted /\ left'["lost"] = left["lost"]
  <2>1. left'["lost"] = left["lost"]
    BY StepApps, Zenon DEF KeptInv, RollOrFail, RollStep
  <2> QED BY <1>2, <2>1, SameLooks
<1>4. CASE a \notin up
  <2>1. up' = up /\ avail' = avail
    BY <1>2, <1>4 DEF KeptInv, TypeOK
  <2> QED BY <1>1, <1>2, <1>3, <2>1, WorkContract
<1>5. CASE a \in up
  <2>1. PICK o : o = OrderOf(roll[g])
    OBVIOUS
  <2>2. a \in o.found /\ Contract!Spare(o, a)
    BY <1>2, <2>1, MayBeSpared
  <2>3. Orders[g] = o /\ Orders' = [Orders EXCEPT ![g] = [o EXCEPT !.gone = o.gone \cup {a}]]
    <3>1. up \ up' = {a}
      BY <1>2, <1>5
    <3> QED BY <1>1, <2>1, <3>1, GoesOn
  <2>4. a \in Apps
    BY <1>5 DEF KeptInv, TypeOK
  <2>5. Contract!Stop(g, a)
    BY <1>2, <1>3, <1>5, <2>2, <2>3
       DEF Contract!Stop, Want, Copy, Orders, Sighted
  <2> QED BY <2>4, <2>5 DEF Contract!Next
<1> QED BY <1>4, <1>5

\* Whatever a goroutine does.
LEMMA StepContract ==
  ASSUME KeptInv, KeptInv', NEW g \in Rolls, RollOrFail(g)
  PROVE  [Contract!Next]_(Contract!vars)
<1>1. CASE StartApp(g, TRUE) \/ StartApp(g, FALSE)
  BY <1>1, StartContract
<1>2. ASSUME NEW a \in roll[g].kill, StopApp(g, a, TRUE) \/ StopApp(g, a, FALSE)
      PROVE  [Contract!Next]_(Contract!vars)
  BY <1>2, StopAppContract
<1>3. ASSUME UNCHANGED <<up, avail>>
      PROVE  [Contract!Next]_(Contract!vars)
  <2>1. PICK r : Becomes(g, r)
    BY StepIs DEF KeptInv
  <2>2. UNCHANGED <<spec, rec, worker, signal, calm>> /\ left'["lost"] = left["lost"]
    BY StepApps DEF KeptInv
  <2> QED BY <1>3, <2>1, <2>2, WorkContract
<1>4. CASE BatchReturns(g) \/ StopUnready(g) \/ ShareOld(g) \/ StopsReturn(g) \/ StartFails(g)
  BY <1>3, <1>4 DEF BatchReturns, StopUnready, ShareOld, StopsReturn, StartFails
<1>5. ASSUME NEW a \in roll[g].kill, StopFails(g, a)
      PROVE  [Contract!Next]_(Contract!vars)
  BY <1>3, <1>5 DEF StopFails
<1> QED BY <1>1, <1>2, <1>4, <1>5, Zenon DEF RollOrFail, RollStep

\* Containers grow old, restart and exit.
LEMMA ContainerContract ==
  ASSUME KeptInv, NEW a \in Apps, BecomesAvailable(a) \/ AppExits(a) \/ AppRestarts(a)
  PROVE  Contract!Next
<1>1. a \in up /\ UNCHANGED <<spec, rec, roll, worker, signal, calm>>
  BY DEF BecomesAvailable, AppExits, AppRestarts, KeptInv, TypeOK
<1>2. Want' = Want /\ Copy' = Copy /\ Orders' = Orders /\ Sighted' = Sighted
  <2>1. left'["lost"] = left["lost"]
    BY QuietSteps DEF KeptInv, Quiet
  <2> QED BY <1>1, <2>1, SameLooks
<1>3. CASE AppExits(a)
  <2>1. up' = up \ {a} /\ avail' = avail \ {a}
    BY <1>3 DEF AppExits
  <2>2. Contract!Exit(a)
    BY <1>1, <1>2, <2>1 DEF Contract!Exit, Contract!asked, Want, Copy, Orders, Sighted
  <2> QED BY <2>2 DEF Contract!Next
<1>4. CASE BecomesAvailable(a) \/ AppRestarts(a)
  <2>1. up' = up /\ (avail' = avail \cup {a} \/ avail' = avail \ {a})
    BY <1>4 DEF BecomesAvailable, AppRestarts
  <2>2. Contract!Age(a)
    BY <1>1, <1>2, <2>1 DEF Contract!Age, Contract!asked, Want, Copy, Orders, Sighted
  <2> QED BY <2>2 DEF Contract!Next
<1> QED BY <1>3, <1>4

\* At first nothing runs and nobody works.
LEMMA InitContract == Init => Contract!Init
<1> SUFFICES ASSUME Init PROVE Contract!Init
  OBVIOUS
<1>1. Want.flag = "run"
  <2>1. spec.flag = "run"
    BY DEF Init
  <2> QED BY <2>1 DEF Want
<1>2. Copy = Contract!Nothing
  BY DEF Init, Copy, CopyOf, NoRec, Contract!Nothing, NoOrder
<1>3. Orders = [h \in Rolls |-> Contract!Nothing]
  <2>1. OrderOf(NoJob) = Contract!Nothing
    BY NoJobIs, OrderIs DEF Contract!Nothing, NoOrder
  <2>2. \A g \in Rolls : OrderOf(roll[g]) = Contract!Nothing
    BY <2>1 DEF Init
  <2> QED BY <2>2 DEF Orders
<1>4. up = {} /\ avail = {} /\ worker = TRUE /\ ~signal /\ calm = TRUE
  BY Zenon DEF Init
<1>5. Sighted
  BY DEF Init, Sighted
<1>6. /\ signal = FALSE /\ Sighted = TRUE
  <2>1. signal = FALSE
    BY Zenon DEF Init
  <2>2. Sighted = TRUE
    BY <1>5, Zenon DEF Sighted
  <2> QED BY <2>1, <2>2
<1> QED BY <1>1, <1>2, <1>3, <1>4, <1>6, Zenon DEF Contract!Init, Want, Copy, Orders, Sighted

\* Every step is one of the contract's, or none.
LEMMA NextContract == KeptInv /\ KeptInv' /\ [Next]_vars => [Contract!Next]_(Contract!vars)
<1> SUFFICES ASSUME KeptInv, KeptInv', [Next]_vars PROVE [Contract!Next]_(Contract!vars)
  OBVIOUS
<1>1. CASE \/ Put \/ RequestStop("stop") \/ RequestStop("delete")
           \/ DeleteWithoutWorker \/ Crash \/ WorkerExits
  BY <1>1, PutContract, StopContract, EraseContract, RestartContract, EndContract
<1>2. CASE \/ Tick \/ \E r \in Revs : QueryRevision(r) \/ LoseQuery(r)
           \/ Interrupted \/ DecideCompleted \/ DecideHold
  BY <1>2, ReadContract, FindContract, MissContract, GiveUpContract
<1>3. CASE DecideStop \/ DecideRoll
  BY <1>3, TellContract, RollContract
<1>4. ASSUME NEW g \in Rolls, RollOrFail(g)
      PROVE  [Contract!Next]_(Contract!vars)
  BY <1>4, StepContract
<1>5. ASSUME NEW a \in Apps, BecomesAvailable(a) \/ AppExits(a) \/ AppRestarts(a)
      PROVE  [Contract!Next]_(Contract!vars)
  BY <1>5, ContainerContract
<1>6. CASE UNCHANGED vars
  <2>1. /\ UNCHANGED <<up, avail, spec, rec, roll, worker, signal, calm>>
        /\ left'["lost"] = left["lost"]
    BY <1>6 DEF vars
  <2> QED BY <2>1, SameLooks, Unseen
<1> QED BY <1>1, <1>2, <1>3, <1>4, <1>5, <1>6, Cases

\* Only a reconcile's order starts and stops containers, and within what that reconcile read
\* and found (reconciliation.go:118-236, 382-508): for any constants, any number of
\* goroutines and any failures; what one goroutine at a time guarantees besides is part of
\* it where MaxRolls = 1.
THEOREM KeepsOrdersHolds == Spec => KeepsOrders
<1>1. Spec => []KeptInv
  BY KeptHolds
<1> QED BY <1>1, InitContract, NextContract, PTL DEF Spec, KeepsOrders, Contract!Spec

=============================================================================
