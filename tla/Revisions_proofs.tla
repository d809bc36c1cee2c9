------------------------- MODULE Revisions_proofs -------------------------
(***************************************************************************)
(* The revision history is well-typed, a rollback leaves no more revisions *)
(* than the limit allows, and one without a name drops none newer than it  *)
(* keeps: for any specs, limits, names and number of requests and errors.  *)
(***************************************************************************)
EXTENDS Revisions, FiniteSetTheorems, TLAPS

-----------------------------------------------------------------------------
(* What a process relies on *)

Labels(S) == {r.name : r \in S}

\* The revisions a rollback has read: one for each name, none that is yet to be named;
\* what is stored besides them has been counted; times are those of the store.
Snap(s) ==
    /\ IsFiniteSet(s.olds) /\ s.new \notin s.olds
    /\ \A r, t \in s.olds \cup {s.new} : r.name = t.name => r = t
    /\ Cardinality(DOMAIN hist \ Labels(s.olds \cup {s.new})) <= s.extra
    /\ \A r \in s.olds \cup {s.new} :
          /\ r.name <= last
          /\ s.extra = 0 /\ r.name \in DOMAIN hist => hist[r.name].time = r.time
    /\ s.pc = "copy" /\ s.asked = Unsaved =>
          /\ s.target \in s.olds
          /\ \A r \in s.olds : r.time <= s.new.time /\ r.time <= s.target.time

\* A trim will leave no more than the limit, and nothing older than what it takes.
Trims(s) ==
    /\ Limit > 0 => Cardinality(DOMAIN hist \ s.doomed) <= Limit + s.extra
    /\ (s.asked = Unsaved /\ s.extra = 0 /\ Limit >= 3) =>
          \A n \in s.doomed \cap DOMAIN hist, m \in DOMAIN hist \ s.doomed :
              hist[n].time <= hist[m].time

\* A revision that a reconcile is to store has been given its name, and is the one of
\* that name if there is one.
Storing(r) ==
    /\ r.name <= last /\ r.time <= clock
    /\ r.name \in DOMAIN hist => hist[r.name].time = r.time

RecInv(p, s) ==
    /\ s.pc \in {"check30", "store"} => p = "main" /\ Storing(s.new)
    /\ s.pc \in {"named", "copy"} => Snap(s)
    /\ s.pc = "trim" => Trims(s)

HistInv == \A n \in DOMAIN hist : n <= last /\ hist[n].time <= clock

IInv == TypeOK /\ HistInv /\ \A p \in Procs : RecInv(p, proc[p])

-----------------------------------------------------------------------------
(* Steps that leave the history alone *)

\* Names and times only grow: what a process relies on still holds.
LEMMA Frame ==
  ASSUME TypeOK, hist' = hist, last' \in Nat, last' >= last, clock' \in Nat, clock' >= clock,
         NEW p, NEW s \in ProcType, Held(s), RecInv(p, s)
  PROVE  RecInv(p, s)'
<1>1. last \in Nat /\ clock \in Nat
  BY DEF TypeOK
<1>2. s.pc \in {"check30", "store"} => p = "main" /\ Storing(s.new)'
  <2> SUFFICES ASSUME s.pc \in {"check30", "store"} PROVE p = "main" /\ Storing(s.new)'
    OBVIOUS
  <2>1. s.new \in RevType /\ s.new.name \in Int /\ s.new.time \in Int
    BY DEF Held, RevType, Names, Unsaved
  <2> QED BY <1>1, <2>1 DEF RecInv, Storing
<1>3. s.pc \in {"named", "copy"} => Snap(s)'
  <2> SUFFICES ASSUME s.pc \in {"named", "copy"} PROVE Snap(s)'
    OBVIOUS
  <2>1. \A r \in s.olds \cup {s.new} : r.name \in Int
    BY DEF Held, RevType, Names, Unsaved, ProcType
  <2>2. \A r \in s.olds \cup {s.new} : r.name <= last'
    BY <1>1, <2>1 DEF RecInv, Snap
  <2> QED BY <2>2 DEF RecInv, Snap
<1>4. s.pc = "trim" => Trims(s)'
  BY DEF RecInv, Trims
<1> QED BY <1>2, <1>3, <1>4 DEF RecInv

\* Process p's record becomes r, and nothing is stored.
Moves(p, r) ==
    /\ proc' = [proc EXCEPT ![p] = r]
    /\ hist' = hist
    /\ r \in ProcType /\ Held(r) /\ RecInv(p, r)

\* The other variables.
Elsewhere ==
    /\ want' \in WantType
    /\ intr' \in Nat /\ left' \in Nat
    /\ clock' \in Nat /\ clock' >= clock
    /\ last' \in 0 .. MaxName /\ last' >= last /\ base' \in 0 .. MaxName
    /\ due' \in BOOLEAN /\ alive' \in BOOLEAN

\* A step of one process that stores nothing.
LEMMA InvMoves ==
  ASSUME IInv, NEW p \in Procs, NEW r, Moves(p, r), Elsewhere
  PROVE  IInv'
<1>1. TypeOK /\ TypeOK'
  <2>1. proc' \in [Procs -> ProcType] /\ \A q \in Procs : Held(proc'[q])
    BY DEF IInv, TypeOK, Moves
  <2> QED BY <2>1 DEF IInv, TypeOK, Moves, Elsewhere, Held
<1>2. HistInv'
  <2>1. \A n \in DOMAIN hist : n \in Int /\ hist[n].time \in Int
    BY <1>1 DEF TypeOK, Names
  <2>2. last \in Int /\ clock \in Int /\ last' \in Int
    BY <1>1 DEF TypeOK
  <2> QED BY <2>1, <2>2 DEF IInv, HistInv, Moves, Elsewhere
<1>3. ASSUME NEW q \in Procs
      PROVE  RecInv(q, proc[q])'
  <2>1. PICK s : s = proc'[q]
    OBVIOUS
  <2>2. s \in ProcType /\ Held(s) /\ RecInv(q, s)
    <3>1. CASE q = p
      BY <1>1, <2>1, <3>1 DEF Moves, TypeOK
    <3>2. CASE q # p
      BY <1>1, <2>1, <3>2 DEF Moves, TypeOK, IInv
    <3> QED BY <3>1, <3>2
  <2>3. RecInv(q, s)'
    BY <1>1, <2>2, Frame DEF Moves, Elsewhere, TypeOK
  <2> QED BY <2>1, <2>3
<1> QED BY <1>1, <1>2, <1>3 DEF IInv

\* A process that has read no revisions relies on nothing.
LEMMA AtEase ==
  ASSUME NEW p, NEW r, r.pc \notin {"check30", "store", "named", "copy", "trim"}
  PROVE  RecInv(p, r)
BY DEF RecInv

\* A process at rest.
LEMMA IdleType == Idle \in ProcType /\ Held(Idle) /\ \A p : RecInv(p, Idle)
<1>1. Idle.pc = "idle"
  BY DEF Idle
<1>2. Idle \in ProcType
  BY DEF Idle, ProcType, RevType, Unsaved
<1> QED BY <1>1, <1>2, AtEase DEF Held

\* The initial state.
LEMMA InvInit == Init => IInv
<1> SUFFICES ASSUME Init PROVE IInv
  OBVIOUS
<1>1. hist \in [DOMAIN hist -> [spec : Specs, time : Nat]] /\ DOMAIN hist = {}
  BY DEF Init
<1>2. want \in WantType
  BY RevisionsAssumption DEF Init, WantType, Names, Unsaved
<1>3. proc \in [Procs -> ProcType] /\ \A p \in Procs : proc[p] = Idle
  BY IdleType DEF Init
<1>4. TypeOK
  BY <1>1, <1>2, <1>3, IdleType, RevisionsAssumption DEF Init, TypeOK
<1>5. HistInv
  BY <1>1 DEF HistInv
<1> QED BY <1>3, <1>4, <1>5, IdleType DEF IInv

\* Requests, and the steps of the helper around a rollback.
LEMMA InvTask ==
  ASSUME IInv, PutTask \/ RollbackTask \/ StorePut \/ HelperGet \/ HelperSave
  PROVE  IInv'
<1> USE DEF IInv, TypeOK
<1>1. proc["helper"] \in ProcType /\ Held(proc["helper"]) /\ "helper" \in Procs
  BY DEF Procs
<1>2. CASE PutTask
  <2>1. PICK r : r = [proc["helper"] EXCEPT !.pc = "put"]
    OBVIOUS
  <2>2. r \in ProcType /\ r.pc = "put"
    BY <1>1, <2>1 DEF ProcType
  <2>3. Moves("helper", r)
    BY <1>2, <2>1, <2>2, AtEase DEF Moves, PutTask, Goto, Held
  <2>4. Elsewhere
    BY <1>2 DEF Elsewhere, PutTask, Event
  <2> QED BY <1>1, <2>3, <2>4, InvMoves
<1>3. CASE RollbackTask
  <2>1. PICK asked \in {Unsaved} \cup DOMAIN hist :
          proc' = [proc EXCEPT !["helper"] = [Idle EXCEPT !.pc = "get", !.asked = asked]]
    BY <1>3 DEF RollbackTask
  <2>2. PICK r : r = [Idle EXCEPT !.pc = "get", !.asked = asked]
    OBVIOUS
  <2>3. r \in ProcType /\ r.pc = "get"
    BY <2>1, <2>2, IdleType DEF ProcType
  <2>4. Moves("helper", r)
    BY <1>3, <2>1, <2>2, <2>3, AtEase DEF Moves, RollbackTask, Held
  <2>5. Event /\ intr' = intr + 1 /\ UNCHANGED <<hist, want, clock, due, last, alive>>
    BY <1>3 DEF RollbackTask
  <2>6. Elsewhere
    BY <2>5 DEF Elsewhere, Event
  <2> QED BY <1>1, <2>4, <2>6, InvMoves
<1>4. CASE StorePut
  <2>1. PICK r : r = [proc["helper"] EXCEPT !.pc = "idle"]
    OBVIOUS
  <2>2. r \in ProcType /\ r.pc = "idle"
    BY <1>1, <2>1 DEF ProcType
  <2>3. Moves("helper", r)
    BY <1>4, <2>1, <2>2, AtEase DEF Moves, StorePut, Goto, Held
  <2>4. want' \in WantType
    BY <1>4 DEF StorePut, WantType
  <2>5. due' \in BOOLEAN
    <3>1. TRUE \in BOOLEAN
      BY Zenon
    <3> QED BY <1>4, <3>1 DEF StorePut
  <2>6. Elsewhere
    BY <1>4, <2>4, <2>5 DEF Elsewhere, StorePut
  <2> QED BY <1>1, <2>3, <2>6, InvMoves
<1>5. CASE HelperGet
  <2>1. PICK r : r = [proc["helper"] EXCEPT !.pc = "rollback", !.want = want]
    OBVIOUS
  <2>2. r \in ProcType /\ r.pc = "rollback" /\ r.want \in WantType
    BY <1>1, <2>1 DEF ProcType
  <2>3. Moves("helper", r)
    BY <1>5, <2>1, <2>2, AtEase DEF Moves, HelperGet, Held
  <2>4. Elsewhere
    BY <1>5 DEF Elsewhere, HelperGet
  <2> QED BY <1>1, <2>3, <2>4, InvMoves
<1>6. CASE HelperSave
  <2>1. want' \in WantType
    BY <1>1, <1>6 DEF HelperSave, At, Held
  <2>2. Moves("helper", Idle)
    BY <1>6, IdleType DEF Moves, HelperSave
  <2>3. due' \in BOOLEAN
    <3>1. TRUE \in BOOLEAN
      BY Zenon
    <3> QED BY <1>6, <3>1 DEF HelperSave
  <2>4. Elsewhere
    BY <1>6, <2>1, <2>3 DEF Elsewhere, HelperSave
  <2> QED BY <1>1, <2>2, <2>4, InvMoves
<1> QED BY <1>2, <1>3, <1>4, <1>5, <1>6

\* The steps of a reconcile, and of time, that read no revisions and store none.
LEMMA InvReconcile ==
  ASSUME IInv, Tick \/ Start \/ Abort \/ Pass \/ ErrorReturn \/ Decide \/ Save
  PROVE  IInv'
<1> USE DEF IInv, TypeOK
<1>1. proc["main"] \in ProcType /\ Held(proc["main"]) /\ "main" \in Procs
  BY DEF Procs
<1>2. TRUE \in BOOLEAN /\ FALSE \in BOOLEAN
  BY Zenon
<1>3. CASE Tick
  <2>1. clock' \in Nat /\ clock' >= clock
    BY <1>3 DEF Tick
  <2>2. due' \in BOOLEAN
    <3>1. due' = (due \/ proc["main"].pc = "idle")
      BY <1>3 DEF Tick
    <3>2. (due \/ proc["main"].pc = "idle") \in BOOLEAN
      BY Zenon
    <3> QED BY <3>1, <3>2
  <2>3. Elsewhere
    BY <1>3, <2>1, <2>2 DEF Elsewhere, Tick
  <2>4. proc' = [proc EXCEPT !["main"] = proc["main"]]
    BY <1>3 DEF Tick
  <2>5. RecInv("main", proc["main"])
    BY <1>1
  <2>6. Moves("main", proc["main"])
    BY <1>1, <1>3, <2>4, <2>5 DEF Moves, Tick
  <2> QED BY <1>1, <2>3, <2>6, InvMoves
<1>4. CASE Start
  <2>1. PICK r : r = [Idle EXCEPT !.pc = "read", !.want = want]
    OBVIOUS
  <2>2. r \in ProcType /\ r.pc = "read" /\ r.want \in WantType
    BY <2>1, IdleType DEF ProcType
  <2>3. Moves("main", r)
    BY <1>4, <2>1, <2>2, AtEase DEF Moves, Start, Held
  <2>4. due' \in BOOLEAN
    BY <1>2, <1>4 DEF Start
  <2>5. Elsewhere
    BY <1>4, <2>4 DEF Elsewhere, Start
  <2> QED BY <1>1, <2>3, <2>5, InvMoves
<1>5. CASE Abort
  <2>1. Moves("main", Idle)
    BY <1>5, IdleType DEF Moves, Abort
  <2>2. Elsewhere
    BY <1>5 DEF Elsewhere, Abort
  <2> QED BY <1>1, <2>1, <2>2, InvMoves
<1>6. CASE Pass
  <2>1. Elsewhere
    BY <1>6 DEF Elsewhere, Pass
  <2>2. CASE At("main", "check30") /\ Goto("main", "store")
    <3>1. PICK r : r = [proc["main"] EXCEPT !.pc = "store"]
      OBVIOUS
    <3>2. r \in ProcType /\ r.pc = "store" /\ r.new = proc["main"].new /\ r.want = proc["main"].want
      BY <1>1, <3>1 DEF ProcType
    <3>3. Held(r) /\ RecInv("main", r)
      BY <1>1, <2>2, <3>2 DEF At, Held, RecInv
    <3>4. Moves("main", r)
      BY <1>6, <2>2, <3>1, <3>2, <3>3 DEF Moves, Pass, Goto
    <3> QED BY <1>1, <2>1, <3>4, InvMoves
  <2>3. CASE At("main", "check210") /\ Goto("main", "save")
    <3>1. PICK r : r = [proc["main"] EXCEPT !.pc = "save"]
      OBVIOUS
    <3>2. r \in ProcType /\ r.pc = "save" /\ r.want = proc["main"].want
      BY <1>1, <3>1 DEF ProcType
    <3>3. Held(r)
      BY <1>1, <2>3, <3>2 DEF At, Held
    <3>4. Moves("main", r)
      BY <1>6, <2>3, <3>1, <3>2, <3>3, AtEase DEF Moves, Pass, Goto
    <3> QED BY <1>1, <2>1, <3>4, InvMoves
  <2> QED BY <1>6, <2>2, <2>3 DEF Pass
<1>7. CASE ErrorReturn
  <2>1. Moves("main", Idle)
    BY <1>7, IdleType DEF Moves, ErrorReturn
  <2>2. Elsewhere
    BY <1>7 DEF Elsewhere, ErrorReturn, Event
  <2> QED BY <1>1, <2>1, <2>2, InvMoves
<1>8. CASE Decide
  <2>1. Elsewhere
    BY <1>8 DEF Elsewhere, Decide, Event
  <2>2. proc["main"].want \in WantType
    BY <1>1, <1>8 DEF Decide, At, Held
  <2>3. CASE Goto("main", "check210")
    <3>1. PICK r : r = [proc["main"] EXCEPT !.pc = "check210"]
      OBVIOUS
    <3>2. r \in ProcType /\ r.pc = "check210" /\ r.want \in WantType
      BY <1>1, <2>2, <3>1 DEF ProcType
    <3>3. Moves("main", r)
      BY <1>8, <2>3, <3>1, <3>2, AtEase DEF Moves, Decide, Goto, Held
    <3> QED BY <1>1, <2>1, <3>3, InvMoves
  <2>4. CASE proc' = [proc EXCEPT !["main"] =
                        [Idle EXCEPT !.pc = "rollback", !.want = proc["main"].want]]
    <3>1. PICK r : r = [Idle EXCEPT !.pc = "rollback", !.want = proc["main"].want]
      OBVIOUS
    <3>2. r \in ProcType /\ r.pc = "rollback" /\ r.want \in WantType
      BY <2>2, <3>1, IdleType DEF ProcType
    <3>3. Moves("main", r)
      BY <1>8, <2>4, <3>1, <3>2, AtEase DEF Moves, Decide, Held
    <3> QED BY <1>1, <2>1, <3>3, InvMoves
  <2> QED BY <1>8, <2>3, <2>4 DEF Decide
<1>9. CASE Save
  <2>1. want' \in WantType
    BY <1>1, <1>9 DEF Save, At, Held
  <2>2. Moves("main", Idle)
    BY <1>9, IdleType DEF Moves, Save
  <2>3. Elsewhere
    BY <1>9, <2>1 DEF Elsewhere, Save
  <2> QED BY <1>1, <2>2, <2>3, InvMoves
<1> QED BY <1>3, <1>4, <1>5, <1>6, <1>7, <1>8, <1>9

-----------------------------------------------------------------------------
(* What a read of the revisions gives *)

\* No more names than revisions, and as many if no two share one.
LEMMA LabelsOf ==
  ASSUME NEW S, IsFiniteSet(S)
  PROVE  /\ IsFiniteSet(Labels(S)) /\ Cardinality(Labels(S)) <= Cardinality(S)
         /\ (\A r, t \in S : r.name = t.name => r = t) => Cardinality(Labels(S)) = Cardinality(S)
<1>1. PICK f : f = [r \in S |-> r.name]
  OBVIOUS
<1>2. f \in Surjection(S, Labels(S))
  BY <1>1 DEF Surjection, Labels
<1>3. ASSUME \A r, t \in S : r.name = t.name => r = t
      PROVE  f \in Injection(S, Labels(S))
  BY <1>1, <1>2, <1>3 DEF Injection, IsInjective, Surjection
<1> QED BY <1>2, <1>3, FS_Surjection

\* The names are finitely many.
LEMMA FewNames == IsFiniteSet(Names)
<1>1. 1 \in Int /\ MaxName \in Int
  BY RevisionsAssumption
<1> QED BY <1>1, FS_Interval DEF Names

\* The stored revisions: one for each name, with its time.
LEMMA StoredIs ==
  ASSUME IInv
  PROVE  /\ IsFiniteSet(Stored) /\ IsFiniteSet(DOMAIN hist)
         /\ Stored \subseteq RevType /\ Labels(Stored) = DOMAIN hist
         /\ \A r \in Stored : r.name \in DOMAIN hist /\ hist[r.name].time = r.time
         /\ \A r, t \in Stored : r.name = t.name => r = t
<1> USE DEF IInv, TypeOK
<1>1. \A n \in DOMAIN hist : n \in Names /\ hist[n] \in [spec : Specs, time : Nat]
  OBVIOUS
<1>2. IsFiniteSet(DOMAIN hist)
  <2>1. DOMAIN hist \in SUBSET Names
    OBVIOUS
  <2> QED BY <2>1, FewNames, FS_Subset
<1>3. PICK f : f = [n \in DOMAIN hist |->
                      [name |-> n, spec |-> hist[n].spec, time |-> hist[n].time]]
  OBVIOUS
<1>4. f \in Surjection(DOMAIN hist, Stored)
  BY <1>3 DEF Surjection, Stored
<1>5. IsFiniteSet(Stored)
  BY <1>2, <1>4, FS_Surjection
<1>6. Stored \subseteq RevType
  BY <1>1 DEF Stored, RevType
<1>7. Labels(Stored) = DOMAIN hist
  <2>1. \A r \in Stored : r.name \in DOMAIN hist
    BY DEF Stored
  <2>2. \A n \in DOMAIN hist : f[n] \in Stored /\ f[n].name = n
    BY <1>3 DEF Stored
  <2>3. \A n \in Labels(Stored) : n \in DOMAIN hist
    BY <2>1 DEF Labels
  <2>4. \A n \in DOMAIN hist : n \in Labels(Stored)
    BY <2>2, Zenon DEF Labels
  <2> QED BY <2>3, <2>4
<1> QED BY <1>2, <1>5, <1>6, <1>7 DEF Stored

\* The newest revision is a stored one, or another with the given name, made now.
LEMMA NewRevisionIs ==
  ASSUME IInv, NEW d \in WantType, NEW name \in Names \cup {Unsaved}, NEW r \in NewRevisions(d, name)
  PROVE  r \in RevType /\ (r \in Stored \/ (r.name = name /\ r.time = clock))
<1>1. PICK f : f = [name |-> name, spec |-> d.spec, time |-> clock]
  OBVIOUS
<1>2. f \in RevType /\ f.name = name /\ f.time = clock
  BY <1>1 DEF RevType, WantType, IInv, TypeOK
<1>3. r \in Stored \/ r = f
  BY <1>1 DEF NewRevisions, Newest
<1> QED BY <1>2, <1>3, StoredIs

\* What a rollback has read, split into a new revision and old ones.
LEMMA SnapOfRead ==
  ASSUME IInv, NEW new \in RevType, new \in Stored \/ (new.name = Unsaved /\ new.time = clock),
         NEW s \in ProcType, s.olds = (Stored \cup {new}) \ {s.new}, s.new \in Stored \cup {new},
         s.pc = "copy" /\ s.asked = Unsaved =>
            /\ s.target \in s.olds
            /\ \A r \in s.olds : r.time <= s.new.time /\ r.time <= s.target.time
  PROVE  Snap(s)
<1> USE DEF IInv, TypeOK
<1>1. s.olds \cup {s.new} = Stored \cup {new}
  OBVIOUS
<1>2. IsFiniteSet(s.olds) /\ s.new \notin s.olds
  <2>1. IsFiniteSet(Stored \cup {new})
    BY StoredIs, FS_AddElement
  <2>2. PICK S : S = Stored \cup {new}
    OBVIOUS
  <2>3. IsFiniteSet(S \ {s.new})
    BY <2>1, <2>2, FS_RemoveElement
  <2>4. s.olds = S \ {s.new}
    BY <2>2
  <2> QED BY <2>3, <2>4
<1>3. \A r \in Stored : r.name \in Names /\ r.name # Unsaved /\ r.name <= last
  <2> SUFFICES ASSUME NEW r \in Stored PROVE r.name \in Names /\ r.name # Unsaved /\ r.name <= last
    OBVIOUS
  <2>1. r.name \in DOMAIN hist
    BY StoredIs
  <2> QED BY <2>1 DEF HistInv, Names, Unsaved
<1>4. \A r, t \in Stored \cup {new} : r.name = t.name => r = t
  BY <1>3, StoredIs
<1>5. Cardinality(DOMAIN hist \ Labels(Stored \cup {new})) <= s.extra
  <2>1. DOMAIN hist \ Labels(Stored \cup {new}) = {}
    BY StoredIs DEF Labels
  <2>2. s.extra \in Nat
    BY DEF ProcType
  <2>3. Cardinality(DOMAIN hist \ Labels(Stored \cup {new})) = 0
    BY <2>1, FS_EmptySet
  <2> QED BY <2>2, <2>3
<1>6. \A r \in Stored \cup {new} :
        r.name <= last /\ (r.name \in DOMAIN hist => hist[r.name].time = r.time)
  <2>1. last >= Unsaved /\ Unsaved \notin DOMAIN hist
    BY DEF Unsaved, Names
  <2>2. \A r \in Stored : r.name \in DOMAIN hist => hist[r.name].time = r.time
    BY StoredIs
  <2> QED BY <1>3, <2>1, <2>2
<1> QED BY <1>1, <1>2, <1>4, <1>5, <1>6 DEF Snap

\* Returning with an error, or with the rollback done.
LEMMA ReturnMoves ==
  ASSUME IInv, NEW p \in Procs, proc[p].want \in WantType, hist' = hist, Return(p)
  PROVE  \E r : Moves(p, r)
<1>1. CASE p = "main"
  <2>1. PICK r : r = [Idle EXCEPT !.pc = "check210", !.want = proc[p].want]
    OBVIOUS
  <2>2. r \in ProcType /\ r.pc = "check210" /\ r.want \in WantType
    BY <2>1, IdleType DEF ProcType
  <2>3. proc' = [proc EXCEPT ![p] = r]
    BY <1>1, <2>1, Zenon DEF Return
  <2>4. Moves(p, r)
    BY <2>2, <2>3, AtEase DEF Moves, Held
  <2> QED BY <2>4
<1>2. CASE p # "main"
  <2>1. proc' = [proc EXCEPT ![p] = Idle]
    BY <1>2, Zenon DEF Return
  <2> QED BY <2>1, IdleType DEF Moves
<1> QED BY <1>1, <1>2

\* The steps of a rollback that store nothing.
LEMMA InvRollback ==
  ASSUME IInv, NEW p \in Procs, RollbackRead(p) \/ GetNamed(p) \/ CopyFails(p) \/ Trimmed(p)
  PROVE  IInv'
<1> USE DEF IInv, TypeOK
<1>1. PICK s : s = proc[p]
  OBVIOUS
<1>2. s \in ProcType /\ Held(s) /\ RecInv(p, s)
  BY <1>1
<1>3. TRUE \in BOOLEAN
  BY Zenon
<1>4. CASE RollbackRead(p)
  <2>1. s.pc = "rollback" /\ s.want \in WantType /\ hist' = hist
    BY <1>1, <1>2, <1>4 DEF RollbackRead, At, Held
  <2>2. due' \in BOOLEAN
    BY <1>4, Zenon DEF RollbackRead
  <2>3. Elsewhere
    <3>1. UNCHANGED <<want, intr, clock, last, alive, left, base>>
      BY <1>4 DEF RollbackRead
    <3> QED BY <2>2, <3>1 DEF Elsewhere
  <2>4. Unsaved \in Names \cup {Unsaved}
    OBVIOUS
  <2>5. PICK new \in NewRevisions(s.want, Unsaved) :
          LET olds == Stored \ {new}
              all  == olds \cup {new}
          IN  IF s.asked # Unsaved
              THEN proc' = [proc EXCEPT ![p] = [s EXCEPT !.pc = "named", !.new = new, !.olds = olds]]
              ELSE IF Cardinality(all) < 2 THEN Return(p)
              ELSE \E first \in Newest(all) : \E second \in Newest(all \ {first}) :
                     proc' = [proc EXCEPT ![p] = [s EXCEPT !.pc = "copy", !.new = first,
                                 !.olds = all \ {first}, !.target = second]]
    BY <1>1, <1>4, Zenon DEF RollbackRead
  <2>6. new \in RevType /\ (new \in Stored \/ (new.name = Unsaved /\ new.time = clock))
    BY <2>1, <2>4, NewRevisionIs
  <2>7. Stored \cup {new} \subseteq RevType
    BY <2>6, StoredIs
  <2>8. CASE s.asked # Unsaved
    <3>1. PICK r : r = [s EXCEPT !.pc = "named", !.new = new, !.olds = Stored \ {new}]
      OBVIOUS
    <3>2. proc' = [proc EXCEPT ![p] = r]
      BY <2>5, <2>8, <3>1, Zenon
    <3>3. /\ r \in ProcType /\ r.pc = "named" /\ r.new = new /\ r.olds = Stored \ {new}
          /\ r.want = s.want
      BY <1>2, <2>7, <3>1 DEF ProcType
    <3>4. Snap(r)
      BY <2>6, <3>3, SnapOfRead
    <3>5. Moves(p, r)
      BY <2>1, <2>6, <3>2, <3>3, <3>4 DEF Moves, Held, RecInv
    <3> QED BY <2>3, <3>5, InvMoves
  <2>9. CASE Return(p)
    BY <1>1, <2>1, <2>3, <2>9, ReturnMoves, InvMoves
  <2>10. CASE /\ s.asked = Unsaved
              /\ \E first \in Newest((Stored \ {new}) \cup {new}) :
                 \E second \in Newest(((Stored \ {new}) \cup {new}) \ {first}) :
                     proc' = [proc EXCEPT ![p] = [s EXCEPT !.pc = "copy", !.new = first,
                                 !.olds = ((Stored \ {new}) \cup {new}) \ {first},
                                 !.target = second]]
    <3>1. (Stored \ {new}) \cup {new} = Stored \cup {new}
      OBVIOUS
    <3>2. PICK first \in Newest(Stored \cup {new}) :
            \E second \in Newest((Stored \cup {new}) \ {first}) :
                proc' = [proc EXCEPT ![p] = [s EXCEPT !.pc = "copy", !.new = first,
                            !.olds = (Stored \cup {new}) \ {first}, !.target = second]]
      BY <2>10, <3>1, Zenon
    <3>3. PICK second \in Newest((Stored \cup {new}) \ {first}) :
            proc' = [proc EXCEPT ![p] = [s EXCEPT !.pc = "copy", !.new = first,
                            !.olds = (Stored \cup {new}) \ {first}, !.target = second]]
      BY <3>2
    <3>4. PICK r : r = [s EXCEPT !.pc = "copy", !.new = first,
                                 !.olds = (Stored \cup {new}) \ {first}, !.target = second]
      OBVIOUS
    <3>5. /\ first \in Stored \cup {new} /\ second \in (Stored \cup {new}) \ {first}
          /\ \A t \in (Stored \cup {new}) \ {first} : t.time <= first.time /\ t.time <= second.time
      BY <3>2, <3>3 DEF Newest
    <3>6. /\ r \in ProcType /\ r.pc = "copy" /\ r.new = first /\ r.target = second
          /\ r.olds = (Stored \cup {new}) \ {first} /\ r.want = s.want
      BY <1>2, <2>7, <3>4, <3>5 DEF ProcType
    <3>7. Snap(r)
      BY <2>6, <3>5, <3>6, SnapOfRead
    <3>8. Moves(p, r)
      BY <2>1, <2>7, <3>3, <3>4, <3>5, <3>6, <3>7 DEF Moves, Held, RecInv
    <3> QED BY <2>3, <3>8, InvMoves
  <2> QED BY <2>5, <2>8, <2>9, <2>10
<1>5. CASE GetNamed(p)
  <2>1. s.pc = "named" /\ s.want \in WantType /\ hist' = hist
    BY <1>1, <1>2, <1>5 DEF GetNamed, At, Held
  <2>2. due' \in BOOLEAN
    BY <1>3, <1>5, Zenon DEF GetNamed
  <2>3. Elsewhere
    <3>1. UNCHANGED <<want, intr, clock, last, alive, left, base>>
      BY <1>5 DEF GetNamed
    <3> QED BY <2>2, <3>1 DEF Elsewhere
  <2>4. CASE Return(p)
    BY <1>1, <2>1, <2>3, <2>4, ReturnMoves, InvMoves
  <2>5. CASE \E r \in {t \in Stored : t.name = proc[p].asked} :
                proc' = [proc EXCEPT ![p] = [proc[p] EXCEPT !.pc = "copy", !.target = r]]
    <3>1. PICK t \in Stored : /\ t.name = s.asked
                              /\ proc' = [proc EXCEPT ![p] = [s EXCEPT !.pc = "copy", !.target = t]]
      BY <1>1, <2>5
    <3>2. PICK r : r = [s EXCEPT !.pc = "copy", !.target = t]
      OBVIOUS
    <3>3. t \in RevType /\ t.name # Unsaved
      <4>1. t \in RevType /\ t.name \in DOMAIN hist
        BY StoredIs
      <4> QED BY <4>1 DEF Names, Unsaved
    <3>4. /\ r \in ProcType /\ r.pc = "copy" /\ r.target = t /\ r.asked = s.asked
          /\ r.new = s.new /\ r.olds = s.olds /\ r.extra = s.extra /\ r.want = s.want
      BY <1>2, <3>2, <3>3 DEF ProcType
    <3>5. Snap(s)
      BY <1>2, <2>1 DEF RecInv
    <3>6. Snap(r)
      BY <3>1, <3>3, <3>4, <3>5 DEF Snap
    <3>7. Moves(p, r)
      BY <1>2, <2>1, <3>1, <3>2, <3>3, <3>4, <3>6 DEF Moves, Held, RecInv
    <3> QED BY <2>3, <3>7, InvMoves
  <2> QED BY <1>5, <2>4, <2>5, Zenon DEF GetNamed
<1>6. CASE CopyFails(p)
  <2>1. s.want \in WantType /\ hist' = hist /\ Return(p)
    BY <1>1, <1>2, <1>6 DEF CopyFails, At, Held
  <2>2. due' \in BOOLEAN
    BY <1>6, Zenon DEF CopyFails
  <2>3. Elsewhere
    BY <1>6, <2>2 DEF Elsewhere, CopyFails, Event
  <2> QED BY <1>1, <2>1, <2>3, ReturnMoves, InvMoves
<1>7. CASE Trimmed(p)
  <2>1. s.want \in WantType /\ hist' = hist
    BY <1>1, <1>2, <1>7 DEF Trimmed, At, Held
  <2>2. PICK r : r = [Idle EXCEPT !.want = s.want,
                                 !.pc = IF p = "main" THEN "check210" ELSE "save"]
    OBVIOUS
  <2>3. r \in ProcType /\ r.pc \in {"check210", "save"} /\ r.want = s.want
    BY <2>1, <2>2, IdleType DEF ProcType
  <2>4. Moves(p, r)
    BY <1>1, <1>7, <2>1, <2>2, <2>3, AtEase DEF Moves, Trimmed, Held
  <2>5. Elsewhere
    BY <1>7 DEF Elsewhere, Trimmed
  <2> QED BY <2>4, <2>5, InvMoves
<1> QED BY <1>4, <1>5, <1>6, <1>7

-----------------------------------------------------------------------------
(* Steps that store a revision or drop one *)

\* What saving a revision does to the history.
LEMMA SaveIs ==
  ASSUME TypeOK, NEW r \in RevType, SaveRevision(r)
  PROVE  /\ DOMAIN hist' = DOMAIN hist \cup {r.name}
         /\ hist'[r.name].time = r.time
         /\ \A m \in DOMAIN hist : m # r.name => hist'[m] = hist[m]
         /\ hist' \in [DOMAIN hist' -> [spec : Specs, time : Nat]]
<1>1. hist' = [n \in DOMAIN hist \cup {r.name} |->
                 IF n = r.name THEN [spec |-> r.spec, time |-> r.time] ELSE hist[n]]
  BY DEF SaveRevision
<1>2. r.spec \in Specs /\ r.time \in Nat
  BY DEF RevType
<1>3. hist \in [DOMAIN hist -> [spec : Specs, time : Nat]]
  BY DEF TypeOK
<1> QED BY <1>1, <1>2, <1>3

\* One more revision: what a process has not read has become one more, and it has
\* been counted.
LEMMA OneMore ==
  ASSUME TypeOK, NEW r \in RevType, SaveRevision(r), NEW S, NEW k \in Nat,
         Cardinality(DOMAIN hist \ S) <= k
  PROVE  Cardinality(DOMAIN hist' \ S) <= k + 1
<1>1. DOMAIN hist' = DOMAIN hist \cup {r.name}
  BY SaveIs
<1>2. IsFiniteSet(DOMAIN hist)
  BY FewNames, FS_Subset DEF TypeOK
<1>3. PICK D : D = DOMAIN hist \ S
  OBVIOUS
<1>4. IsFiniteSet(D) /\ Cardinality(D) \in Nat
  BY <1>2, <1>3, FS_Subset, FS_CardinalityType
<1>5. IsFiniteSet(D \cup {r.name}) /\ Cardinality(D \cup {r.name}) <= Cardinality(D) + 1
  BY <1>4, FS_AddElement
<1>6. DOMAIN hist' \ S \in SUBSET (D \cup {r.name})
  BY <1>1, <1>3
<1>7. /\ Cardinality(DOMAIN hist' \ S) <= Cardinality(D \cup {r.name})
      /\ Cardinality(DOMAIN hist' \ S) \in Nat /\ Cardinality(D \cup {r.name}) \in Nat
  BY <1>5, <1>6, FS_Subset, FS_CardinalityType
<1> QED BY <1>3, <1>4, <1>5, <1>7

\* A process while the other one saves a revision.
LEMMA FrameSave ==
  ASSUME IInv, NEW p, NEW s \in ProcType, Held(s), RecInv(p, s),
         NEW r \in RevType, SaveRevision(r),
         r.name \in DOMAIN hist => hist[r.name].time = r.time,
         r.name \notin DOMAIN hist /\ s.pc \in {"check30", "store"} => s.new.name # r.name,
         last' \in Nat, last' >= last, clock' = clock,
         NEW n \in Nat,
         n = IF s.pc \in {"named", "copy", "trim"} /\ r.name \notin DOMAIN hist
             THEN s.extra + 1 ELSE s.extra
  PROVE  RecInv(p, [s EXCEPT !.extra = n])'
<1> USE DEF IInv
<1>1. TypeOK
  OBVIOUS
<1>2. PICK t : t = [s EXCEPT !.extra = n]
  OBVIOUS
<1>3. /\ t.pc = s.pc /\ t.new = s.new /\ t.olds = s.olds /\ t.target = s.target
      /\ t.asked = s.asked /\ t.doomed = s.doomed /\ t.extra = n /\ s.extra \in Nat
  BY <1>2 DEF ProcType
<1>4. /\ DOMAIN hist' = DOMAIN hist \cup {r.name}
      /\ \A m \in DOMAIN hist : hist'[m].time = hist[m].time
      /\ hist'[r.name].time = r.time
  BY <1>1, SaveIs
<1>5. last \in Nat /\ clock \in Nat
  BY DEF TypeOK
<1>6. t.pc \in {"check30", "store"} => p = "main" /\ Storing(t.new)'
  <2> SUFFICES ASSUME s.pc \in {"check30", "store"} PROVE p = "main" /\ Storing(s.new)'
    BY <1>3
  <2>1. p = "main" /\ Storing(s.new) /\ s.new.name \in Nat
    BY DEF RecInv, Held, Names
  <2>2. s.new.name \in DOMAIN hist' => hist'[s.new.name].time = s.new.time
    BY <1>4, <2>1 DEF Storing
  <2> QED BY <1>5, <2>1, <2>2 DEF Storing
<1>7. t.pc \in {"named", "copy"} => Snap(t)'
  <2> SUFFICES ASSUME s.pc \in {"named", "copy"} PROVE Snap(t)'
    BY <1>3
  <2>1. Snap(s)
    BY DEF RecInv
  <2>2. \A x \in s.olds \cup {s.new} : x.name \in Int /\ x.name <= last'
    BY <1>5, <2>1 DEF Snap, Held, ProcType, RevType, Names, Unsaved
  <2>3. CASE r.name \in DOMAIN hist
    <3>1. n = s.extra /\ DOMAIN hist' = DOMAIN hist
      BY <1>4, <2>3
    <3>2. /\ IsFiniteSet(t.olds) /\ t.new \notin t.olds
          /\ \A x, y \in t.olds \cup {t.new} : x.name = y.name => x = y
          /\ Cardinality(DOMAIN hist' \ Labels(t.olds \cup {t.new})) <= t.extra
      BY <1>3, <2>1, <3>1 DEF Snap
    <3>3. \A x \in t.olds \cup {t.new} :
            x.name <= last' /\ (t.extra = 0 /\ x.name \in DOMAIN hist' => hist'[x.name].time = x.time)
      BY <1>3, <1>4, <2>1, <2>2, <3>1 DEF Snap
    <3>4. t.pc = "copy" /\ t.asked = Unsaved =>
            /\ t.target \in t.olds
            /\ \A x \in t.olds : x.time <= t.new.time /\ x.time <= t.target.time
      BY <1>3, <2>1 DEF Snap
    <3> QED BY <3>2, <3>3, <3>4 DEF Snap
  <2>4. CASE r.name \notin DOMAIN hist
    <3>1. n = s.extra + 1
      BY <2>4
    <3>2. Cardinality(DOMAIN hist' \ Labels(s.olds \cup {s.new})) <= n
      BY <1>1, <1>3, <2>1, <3>1, OneMore DEF Snap
    <3> QED BY <1>3, <2>1, <2>2, <3>1, <3>2 DEF Snap
  <2> QED BY <2>3, <2>4
<1>8. t.pc = "trim" => Trims(t)'
  <2> SUFFICES ASSUME s.pc = "trim" PROVE Trims(t)'
    BY <1>3
  <2>1. Trims(s) /\ Limit \in Nat
    BY RevisionsAssumption DEF RecInv
  <2>2. CASE r.name \in DOMAIN hist
    <3>1. n = s.extra /\ DOMAIN hist' = DOMAIN hist
      BY <1>4, <2>2
    <3> QED BY <1>3, <1>4, <2>1, <3>1 DEF Trims
  <2>3. CASE r.name \notin DOMAIN hist
    <3>1. n = s.extra + 1
      BY <2>3
    <3>2. Limit > 0 => Cardinality(DOMAIN hist' \ s.doomed) <= Limit + s.extra + 1
      <4>1. Limit + s.extra \in Nat
        BY <1>3, <2>1
      <4> QED BY <1>1, <2>1, <4>1, OneMore DEF Trims
    <3> QED BY <1>3, <2>1, <3>1, <3>2 DEF Trims
  <2> QED BY <2>2, <2>3
<1>9. RecInv(p, t)'
  BY <1>6, <1>7, <1>8 DEF RecInv
<1> QED BY <1>2, <1>9

\* Dropping a revision leaves no more of those a process has not read.
LEMMA OneLess ==
  ASSUME TypeOK, NEW d, hist' = [m \in DOMAIN hist \ {d} |-> hist[m]]
  PROVE  /\ DOMAIN hist' = DOMAIN hist \ {d}
         /\ \A m \in DOMAIN hist' : hist'[m] = hist[m]
         /\ hist' \in [DOMAIN hist' -> [spec : Specs, time : Nat]]
         /\ \A S : Cardinality(DOMAIN hist' \ S) <= Cardinality(DOMAIN hist \ S)
<1>1. IsFiniteSet(DOMAIN hist) /\ hist \in [DOMAIN hist -> [spec : Specs, time : Nat]]
  BY FewNames, FS_Subset DEF TypeOK
<1>2. ASSUME NEW S
      PROVE  Cardinality(DOMAIN hist' \ S) <= Cardinality(DOMAIN hist \ S)
  <2>1. IsFiniteSet(DOMAIN hist \ S)
    BY <1>1, FS_Subset
  <2>2. DOMAIN hist' \ S \in SUBSET (DOMAIN hist \ S)
    OBVIOUS
  <2> QED BY <2>1, <2>2, FS_Subset
<1> QED BY <1>1, <1>2

\* A process while the other one trims.
LEMMA FrameTrim ==
  ASSUME IInv, NEW p, NEW s \in ProcType, Held(s), RecInv(p, s),
         NEW d, hist' = [m \in DOMAIN hist \ {d} |-> hist[m]], last' = last, clock' = clock
  PROVE  RecInv(p, s)'
<1> USE DEF IInv
<1>1. TypeOK
  OBVIOUS
<1>2. /\ DOMAIN hist' = DOMAIN hist \ {d}
      /\ \A m \in DOMAIN hist' : hist'[m] = hist[m]
      /\ \A S : /\ Cardinality(DOMAIN hist' \ S) <= Cardinality(DOMAIN hist \ S)
                /\ Cardinality(DOMAIN hist' \ S) \in Int
                /\ Cardinality(DOMAIN hist \ S) \in Int
  <2>1. IsFiniteSet(DOMAIN hist)
    BY <1>1, FewNames, FS_Subset DEF TypeOK
  <2>2. \A S : /\ Cardinality(DOMAIN hist' \ S) \in Int
               /\ Cardinality(DOMAIN hist \ S) \in Int
    <3> TAKE S
    <3>1. IsFiniteSet(DOMAIN hist \ S) /\ IsFiniteSet(DOMAIN hist' \ S)
      <4>1. DOMAIN hist \ S \in SUBSET DOMAIN hist /\ DOMAIN hist' \ S \in SUBSET DOMAIN hist
        BY <1>1, OneLess
      <4> QED BY <2>1, <4>1, FS_Subset
    <3> QED BY <3>1, FS_CardinalityType
  <2> QED BY <1>1, <2>2, OneLess
<1>3. s.pc \in {"check30", "store"} => p = "main" /\ Storing(s.new)'
  BY <1>2 DEF RecInv, Storing
<1>4. s.pc \in {"named", "copy"} => Snap(s)'
  <2> SUFFICES ASSUME s.pc \in {"named", "copy"} PROVE Snap(s)'
    OBVIOUS
  <2>1. Snap(s) /\ s.extra \in Int
    BY DEF RecInv, ProcType
  <2>2. Cardinality(DOMAIN hist' \ Labels(s.olds \cup {s.new})) <= s.extra
    <3>1. PICK a, b : /\ a = Cardinality(DOMAIN hist' \ Labels(s.olds \cup {s.new}))
                      /\ b = Cardinality(DOMAIN hist \ Labels(s.olds \cup {s.new}))
      OBVIOUS
    <3>2. a \in Int /\ b \in Int /\ a <= b
      BY <1>2, <3>1
    <3>3. b <= s.extra
      BY <2>1, <3>1 DEF Snap
    <3>4. a <= s.extra
      BY <2>1, <3>2, <3>3
    <3> QED BY <3>1, <3>4
  <2> QED BY <1>2, <2>1, <2>2 DEF Snap
<1>5. s.pc = "trim" => Trims(s)'
  <2> SUFFICES ASSUME s.pc = "trim" PROVE Trims(s)'
    OBVIOUS
  <2>1. Trims(s) /\ s.extra \in Int /\ Limit \in Int
    BY RevisionsAssumption DEF RecInv, ProcType
  <2>2. Limit > 0 => Cardinality(DOMAIN hist' \ s.doomed) <= Limit + s.extra
    <3>1. PICK a, b : /\ a = Cardinality(DOMAIN hist' \ s.doomed)
                      /\ b = Cardinality(DOMAIN hist \ s.doomed)
      OBVIOUS
    <3>2. a \in Int /\ b \in Int /\ a <= b
      BY <1>2, <3>1
    <3>3. Limit > 0 => b <= Limit + s.extra
      BY <2>1, <3>1 DEF Trims
    <3>4. Limit > 0 => a <= Limit + s.extra
      BY <2>1, <3>2, <3>3
    <3> QED BY <3>1, <3>4
  <2> QED BY <1>2, <2>1, <2>2 DEF Trims
<1> QED BY <1>3, <1>4, <1>5 DEF RecInv

\* Trim: what is left without the doomed ones stays as it is.
LEMMA InvTrim ==
  ASSUME IInv, NEW p \in Procs, Trim(p)
  PROVE  IInv'
<1> USE DEF IInv
<1>1. PICK s : s = proc[p]
  OBVIOUS
<1>2. s \in ProcType /\ Held(s) /\ RecInv(p, s) /\ s.pc = "trim"
  BY <1>1 DEF TypeOK, Trim, At
<1>3. PICK d \in s.doomed :
        /\ hist' = [m \in DOMAIN hist \ {d} |-> hist[m]]
        /\ proc' = [proc EXCEPT ![p] = [s EXCEPT !.doomed = s.doomed \ {d}]]
  BY <1>1 DEF Trim
<1>4. UNCHANGED <<want, intr, clock, due, last, alive, left, base>>
  BY DEF Trim
<1>5. PICK t : t = [s EXCEPT !.doomed = s.doomed \ {d}]
  OBVIOUS
<1>6. /\ t \in ProcType /\ t.pc = "trim" /\ t.asked = s.asked /\ t.extra = s.extra
      /\ t.doomed = s.doomed \ {d} /\ t.want = s.want
  BY <1>2, <1>5 DEF ProcType
<1>7. /\ DOMAIN hist' = DOMAIN hist \ {d}
      /\ \A m \in DOMAIN hist' : hist'[m] = hist[m]
      /\ hist' \in [DOMAIN hist' -> [spec : Specs, time : Nat]]
  BY <1>3, OneLess
<1>8. RecInv(p, t)'
  <2>1. Trims(s)
    BY <1>2 DEF RecInv
  <2>2. DOMAIN hist' \ t.doomed = DOMAIN hist \ s.doomed
    BY <1>3, <1>6, <1>7
  <2>3. Trims(t)'
    BY <1>6, <1>7, <2>1, <2>2 DEF Trims
  <2> QED BY <1>6, <2>3 DEF RecInv
<1>9. Held(t)
  BY <1>2, <1>6 DEF Held
<1>10. proc' = [proc EXCEPT ![p] = t]
  BY <1>3, <1>5
<1>11. TypeOK'
  BY <1>4, <1>6, <1>7, <1>9, <1>10 DEF TypeOK, Held
<1>12. HistInv'
  BY <1>4, <1>7 DEF HistInv
<1>13. ASSUME NEW q \in Procs
       PROVE  RecInv(q, proc[q])'
  <2>1. CASE q = p
    BY <1>8, <1>10, <2>1 DEF TypeOK
  <2>2. CASE q # p
    <3>1. PICK u : u = proc[q]
      OBVIOUS
    <3>2. u \in ProcType /\ Held(u) /\ RecInv(q, u) /\ proc'[q] = u
      BY <1>10, <2>2, <3>1 DEF TypeOK
    <3>3. RecInv(q, u)'
      BY <1>3, <1>4, <3>2, FrameTrim
    <3> QED BY <3>2, <3>3
  <2> QED BY <2>1, <2>2
<1> QED BY <1>11, <1>12, <1>13

\* A delete that fails: the revision stays, and is counted.
LEMMA InvTrimFails ==
  ASSUME IInv, NEW p \in Procs, TrimFails(p)
  PROVE  IInv'
<1> USE DEF IInv
<1>1. PICK s : s = proc[p]
  OBVIOUS
<1>2. s \in ProcType /\ Held(s) /\ RecInv(p, s) /\ s.pc = "trim" /\ s.extra \in Nat
  BY <1>1 DEF TypeOK, TrimFails, At, ProcType
<1>3. PICK d \in s.doomed :
        proc' = [proc EXCEPT ![p] = [s EXCEPT !.doomed = s.doomed \ {d}, !.extra = s.extra + 1]]
  BY <1>1 DEF TrimFails
<1>4. UNCHANGED <<hist, want, intr, clock, due, last, alive, left, base>>
  BY DEF TrimFails
<1>5. PICK t : t = [s EXCEPT !.doomed = s.doomed \ {d}, !.extra = s.extra + 1]
  OBVIOUS
<1>6. /\ t \in ProcType /\ t.pc = "trim" /\ t.extra = s.extra + 1
      /\ t.doomed = s.doomed \ {d} /\ t.want = s.want
  <2>1. PICK n, D : n = s.extra + 1 /\ D = s.doomed \ {d}
    OBVIOUS
  <2>2. n \in Nat /\ D \in SUBSET (Names \cup {Unsaved})
    BY <1>2, <2>1 DEF ProcType
  <2>3. t = [s EXCEPT !.doomed = D, !.extra = n]
    BY <1>5, <2>1
  <2>4. t \in ProcType /\ t.pc = "trim" /\ t.extra = n /\ t.doomed = D /\ t.want = s.want
    BY <1>2, <2>2, <2>3 DEF ProcType
  <2> QED BY <2>1, <2>4
<1>7. Trims(t)
  <2> DEFINE A == DOMAIN hist \ s.doomed
             B == DOMAIN hist \ t.doomed
  <2>1. Trims(s) /\ Limit \in Nat
    BY <1>2, RevisionsAssumption DEF RecInv
  <2>2. IsFiniteSet(DOMAIN hist)
    BY FewNames, FS_Subset DEF TypeOK
  <2>3. IsFiniteSet(A) /\ IsFiniteSet(A \cup {d})
    BY <2>2, FS_Subset, FS_AddElement
  <2>4. B \subseteq A \cup {d}
    BY <1>6
  <2>5. /\ Cardinality(A) \in Nat /\ Cardinality(B) \in Nat
        /\ Cardinality(A \cup {d}) \in Nat
        /\ Cardinality(A \cup {d}) <= Cardinality(A) + 1
        /\ Cardinality(B) <= Cardinality(A \cup {d})
    <3>1. IsFiniteSet(B) /\ Cardinality(B) <= Cardinality(A \cup {d})
      BY <2>3, <2>4, FS_Subset
    <3>2. /\ Cardinality(A) \in Nat /\ Cardinality(B) \in Nat /\ Cardinality(A \cup {d}) \in Nat
      BY <2>3, <3>1, FS_CardinalityType
    <3>3. Cardinality(A \cup {d}) = Cardinality(A) \/ Cardinality(A \cup {d}) = Cardinality(A) + 1
      BY <2>3, FS_AddElement
    <3> HIDE DEF A, B
    <3> QED BY <3>1, <3>2, <3>3
  <2>6. Limit > 0 => Cardinality(A) <= Limit + s.extra
    BY <2>1 DEF Trims
  <2>7. Limit > 0 => Cardinality(B) <= Limit + t.extra
    <3> HIDE DEF A, B
    <3> QED BY <1>2, <1>6, <2>1, <2>5, <2>6
  <2>8. t.extra # 0
    BY <1>2, <1>6
  <2> QED BY <2>7, <2>8 DEF Trims
<1>8. Moves(p, t)
  <2>1. Held(t)
    BY <1>2, <1>6 DEF Held
  <2>2. RecInv(p, t)
    BY <1>6, <1>7 DEF RecInv
  <2>3. proc' = [proc EXCEPT ![p] = t] /\ hist' = hist
    BY <1>3, <1>4, <1>5
  <2> QED BY <1>6, <2>1, <2>2, <2>3 DEF Moves
<1>9. Elsewhere
  BY <1>4 DEF Elsewhere, TypeOK
<1> QED BY <1>8, <1>9, InvMoves

\* Read: the revision to store is a stored one, or has a name that none had before.
LEMMA InvRead ==
  ASSUME IInv, Read
  PROVE  IInv'
<1> USE DEF IInv
<1>1. "main" \in Procs
  BY DEF Procs
<1>2. PICK s : s = proc["main"]
  OBVIOUS
<1>3. s \in ProcType /\ Held(s) /\ s.pc = "read" /\ s.want \in WantType
  BY <1>1, <1>2 DEF TypeOK, Read, At, Held
<1>4. PICK r \in NewRevisions(s.want, last + 1) :
        /\ proc' = [proc EXCEPT !["main"] = [s EXCEPT !.pc = "check30", !.new = r]]
        /\ last' = IF r.name = last + 1 THEN last + 1 ELSE last
  BY <1>2 DEF Read
<1>5. UNCHANGED <<hist, want, intr, clock, due, alive, left, base>> /\ last < MaxName
  BY DEF Read
<1>6. last \in 0 .. MaxName /\ last + 1 \in Names /\ MaxName \in Nat /\ clock \in Nat
  BY <1>5, RevisionsAssumption DEF TypeOK, Names
<1>7. r \in RevType /\ (r \in Stored \/ (r.name = last + 1 /\ r.time = clock))
  BY <1>3, <1>6, NewRevisionIs
<1>8. last' \in 0 .. MaxName /\ last' >= last /\ last' \in Nat
  BY <1>4, <1>5, <1>6
<1>9. PICK t : t = [s EXCEPT !.pc = "check30", !.new = r]
  OBVIOUS
<1>10. t \in ProcType /\ t.pc = "check30" /\ t.new = r /\ t.want = s.want
  BY <1>3, <1>7, <1>9 DEF ProcType
<1>11. proc' = [proc EXCEPT !["main"] = t]
  BY <1>4, <1>9
<1>12. r.name \in Names /\ r.name <= last' /\ r.time <= clock
       /\ (r.name \in DOMAIN hist => hist[r.name].time = r.time)
  <2>1. CASE r \in Stored
    <3>1. r.name \in DOMAIN hist /\ hist[r.name].time = r.time
      BY <2>1, StoredIs
    <3>2. r.name \in Int
      BY <3>1 DEF TypeOK, Names
    <3> QED BY <1>6, <1>8, <3>1, <3>2 DEF HistInv, TypeOK
  <2>2. CASE r.name = last + 1 /\ r.time = clock
    <3>1. r.name \notin DOMAIN hist
      BY <1>6, <2>2 DEF HistInv, TypeOK, Names
    <3> QED BY <1>4, <1>6, <2>2, <3>1
  <2> QED BY <1>7, <2>1, <2>2
<1>13. Held(t)
  BY <1>3, <1>7, <1>10, <1>12 DEF Held
<1>14. RecInv("main", t)'
  BY <1>5, <1>10, <1>12 DEF RecInv, Storing
<1>15. TypeOK'
  BY <1>5, <1>8, <1>10, <1>11, <1>13 DEF TypeOK, Held
<1>16. HistInv'
  BY <1>5, <1>6, <1>8 DEF HistInv, TypeOK, Names
<1>17. ASSUME NEW q \in Procs
       PROVE  RecInv(q, proc[q])'
  <2>1. CASE q = "main"
    BY <1>11, <1>14, <2>1 DEF TypeOK
  <2>2. CASE q # "main"
    <3>1. PICK u : u = proc[q]
      OBVIOUS
    <3>2. u \in ProcType /\ Held(u) /\ RecInv(q, u) /\ proc'[q] = u
      BY <1>11, <2>2, <3>1 DEF TypeOK
    <3>3. clock' \in Nat /\ clock' >= clock /\ hist' = hist
      BY <1>5, <1>6
    <3>4. RecInv(q, u)'
      BY <1>8, <3>2, <3>3, Frame
    <3> QED BY <3>2, <3>4
  <2> QED BY <2>1, <2>2
<1> QED BY <1>15, <1>16, <1>17

\* A panic: nothing is at work any more.
LEMMA InvPanics ==
  ASSUME IInv, NEW p \in Procs, RollbackPanics(p)
  PROVE  IInv'
<1>1. /\ proc' = [q \in Procs |-> Idle] /\ alive' = FALSE
      /\ UNCHANGED <<hist, want, intr, clock, due, last>> /\ left > 0 /\ left' = left - 1
      /\ base' = last
  BY DEF RollbackPanics, Event
<1>2. FALSE \in BOOLEAN
  BY Zenon
<1>3. TypeOK'
  <2>1. proc' \in [Procs -> ProcType] /\ \A q \in Procs : Held(proc'[q])
    BY <1>1, IdleType
  <2>2. alive' \in BOOLEAN
    BY <1>1, <1>2
  <2> QED BY <1>1, <2>1, <2>2 DEF IInv, TypeOK, Held
<1>4. HistInv'
  BY <1>1 DEF IInv, HistInv
<1>5. \A q \in Procs : proc'[q] = Idle /\ Idle.pc = "idle"
  BY <1>1 DEF Idle
<1>6. \A q \in Procs : RecInv(q, proc[q])'
  BY <1>5 DEF RecInv
<1> QED BY <1>3, <1>4, <1>6 DEF IInv

\* What the other process counts is a number, and nothing else of it changes.
LEMMA ExtraIs ==
  ASSUME TypeOK, NEW q \in Procs, NEW r
  PROVE  /\ [proc[q] EXCEPT !.extra = Extra(q, r)] \in ProcType
         /\ Held([proc[q] EXCEPT !.extra = Extra(q, r)])
         /\ Extra(q, r) \in Nat
<1>1. PICK s : s = proc[q]
  OBVIOUS
<1>2. s \in ProcType /\ Held(s) /\ s.extra \in Nat
  BY <1>1 DEF TypeOK, ProcType
<1>3. Extra(q, r) \in Nat
  BY <1>1, <1>2 DEF Extra
<1>4. PICK t : t = [s EXCEPT !.extra = Extra(q, r)]
  OBVIOUS
<1>5. t \in ProcType /\ t.pc = s.pc /\ t.want = s.want /\ t.new = s.new /\ t.target = s.target
  BY <1>2, <1>3, <1>4 DEF ProcType
<1>6. Held(t)
  BY <1>2, <1>5 DEF Held
<1> QED BY <1>1, <1>3, <1>4, <1>5, <1>6

\* Store.
LEMMA InvStore ==
  ASSUME IInv, Store
  PROVE  IInv'
<1> USE DEF IInv
<1>1. "main" \in Procs /\ "helper" \in Procs /\ \A q \in Procs : q = "main" \/ q = "helper"
  BY DEF Procs
<1>2. PICK s : s = proc["main"]
  OBVIOUS
<1>3. PICK r : r = s.new
  OBVIOUS
<1>4. s \in ProcType /\ Held(s) /\ s.pc = "store" /\ RecInv("main", s) /\ SaveRevision(r)
  BY <1>1, <1>2, <1>3 DEF TypeOK, Store, At
<1>5. r \in RevType /\ r.name \in Names /\ Storing(r) /\ s.want \in WantType
  BY <1>3, <1>4 DEF RecInv, Held
<1>6. PICK n : n = Extra("helper", r)
  OBVIOUS
<1>7. PICK m : m = [s EXCEPT !.pc = "decide", !.new = <<>>]
  OBVIOUS
<1>8. PICK h : h = [proc["helper"] EXCEPT !.extra = n]
  OBVIOUS
<1>9. proc' = [proc EXCEPT !["main"] = m, !["helper"] = h]
  BY <1>2, <1>3, <1>6, <1>7, <1>8 DEF Store
<1>10. m \in ProcType /\ m.pc = "decide" /\ m.want = s.want
  BY <1>4, <1>7 DEF ProcType
<1>11. Held(m)
  BY <1>5, <1>10 DEF Held
<1>12. h \in ProcType /\ Held(h) /\ n \in Nat
  BY <1>1, <1>6, <1>8, ExtraIs
<1>13. UNCHANGED <<want, intr, clock, due, last, alive, left, base>>
  BY DEF Store
<1>14. /\ DOMAIN hist' = DOMAIN hist \cup {r.name}
       /\ hist'[r.name].time = r.time
       /\ \A k \in DOMAIN hist : k # r.name => hist'[k] = hist[k]
       /\ hist' \in [DOMAIN hist' -> [spec : Specs, time : Nat]]
  BY <1>4, <1>5, SaveIs
<1>15. proc'["main"] = m /\ proc'["helper"] = h
  BY <1>1, <1>9 DEF TypeOK
<1>16. TypeOK'
  <2>1. proc' \in [Procs -> ProcType]
    BY <1>9, <1>10, <1>12 DEF TypeOK
  <2>2. \A q \in Procs : Held(proc'[q])
    BY <1>1, <1>11, <1>12, <1>15
  <2>3. DOMAIN hist' \subseteq Names
    BY <1>5, <1>14 DEF TypeOK
  <2> QED BY <1>13, <1>14, <2>1, <2>2, <2>3 DEF TypeOK, Held
<1>17. HistInv'
  BY <1>5, <1>13, <1>14 DEF HistInv, Storing
<1>18. RecInv("main", m)'
  BY <1>10 DEF RecInv
<1>19. RecInv("helper", h)'
  <2>1. PICK u : u = proc["helper"]
    OBVIOUS
  <2>2. u \in ProcType /\ Held(u) /\ RecInv("helper", u)
    BY <1>1, <2>1 DEF TypeOK
  <2>3. u.pc \notin {"check30", "store"}
    BY <2>2 DEF RecInv
  <2>4. n = IF u.pc \in {"named", "copy", "trim"} /\ r.name \notin DOMAIN hist
            THEN u.extra + 1 ELSE u.extra
    BY <1>6, <2>1 DEF Extra
  <2>5. last' \in Nat /\ last' >= last /\ clock' = clock
    BY <1>13 DEF TypeOK
  <2>6. r.name \in DOMAIN hist => hist[r.name].time = r.time
    BY <1>5 DEF Storing
  <2>7. RecInv("helper", [u EXCEPT !.extra = n])'
    BY <1>4, <1>5, <1>12, <2>2, <2>3, <2>4, <2>5, <2>6, FrameSave
  <2> QED BY <1>8, <2>1, <2>7
<1>20. \A q \in Procs : RecInv(q, proc[q])'
  BY <1>1, <1>15, <1>18, <1>19
<1> QED BY <1>16, <1>17, <1>20

-----------------------------------------------------------------------------
(* The copy, and what is to be trimmed for it *)

\* How many have to go: with the copy, no more than the limit is left.
LEMMA ExcessIs ==
  ASSUME NEW n \in Nat
  PROVE  /\ Excess(n) \in 0 .. n
         /\ Limit > 0 => n + 1 - Excess(n) <= Limit
         /\ Limit >= 3 /\ Excess(n) # 0 => Excess(n) + 1 < n
<1>1. Limit \in Nat
  BY RevisionsAssumption
<1> QED BY <1>1 DEF Excess

\* A set of k revisions with different names, and one more name or two.
LEMMA LabelsAnd ==
  ASSUME NEW T, IsFiniteSet(T), \A r, t \in T : r.name = t.name => r = t,
         NEW a, a \notin Labels(T), NEW b, b \notin Labels(T), a # b
  PROVE  /\ IsFiniteSet(Labels(T)) /\ Cardinality(Labels(T)) = Cardinality(T)
         /\ Cardinality(T) \in Nat
         /\ IsFiniteSet(Labels(T) \cup {a}) /\ IsFiniteSet(Labels(T) \cup {a, b})
         /\ Cardinality(Labels(T) \cup {a}) = Cardinality(T) + 1
         /\ Cardinality(Labels(T) \cup {a, b}) = Cardinality(T) + 2
<1>1. IsFiniteSet(Labels(T)) /\ Cardinality(Labels(T)) = Cardinality(T)
  BY LabelsOf
<1>2. Cardinality(T) \in Nat
  BY FS_CardinalityType
<1>3. PICK L : L = Labels(T) \cup {a}
  OBVIOUS
<1>4. IsFiniteSet(L) /\ Cardinality(L) = Cardinality(T) + 1
  BY <1>1, <1>3, FS_AddElement
<1>5. Cardinality(L \cup {b}) = Cardinality(T) + 2
  <2>1. b \notin L
    BY <1>3
  <2>2. Cardinality(L \cup {b}) = Cardinality(L) + 1
    BY <1>4, <2>1, FS_AddElement
  <2> QED BY <1>2, <1>4, <2>2
<1>6. Labels(T) \cup {a, b} = L \cup {b}
  BY <1>3
<1>7. IsFiniteSet(L \cup {b})
  BY <1>4, FS_AddElement
<1> QED BY <1>1, <1>2, <1>3, <1>4, <1>5, <1>6, <1>7

\* The doomed: k of the names read and the copy's; without a name and with two or more
\* to spare they are the oldest of those the rollback does not go back to.
LEMMA DoomedIs ==
  ASSUME NEW s \in ProcType, s.new \in RevType, Snap(s), s.pc = "copy",
         NEW name, name \notin Labels(s.olds \cup {s.new}),
         NEW n, n = Cardinality(s.olds) + 1,
         NEW k \in 0 .. n, NEW doomed \in Doomed(s, k, name)
  PROVE  /\ doomed \subseteq Labels(s.olds \cup {s.new}) \cup {name}
         /\ IsFiniteSet(doomed) /\ Cardinality(doomed) = k /\ n \in Nat
         /\ (s.asked = Unsaved /\ k + 1 < n) =>
               \E T \in SUBSET (s.olds \ {s.target}) :
                  /\ doomed = Labels(T)
                  /\ \A r \in T, t \in (s.olds \ {s.target}) \ T : r.time <= t.time
<1> DEFINE all == s.olds \cup {s.new}
<1>1. /\ IsFiniteSet(s.olds) /\ s.new \notin s.olds
      /\ \A r, t \in all : r.name = t.name => r = t
      /\ s.asked = Unsaved => s.target \in s.olds
  BY DEF Snap
<1>2. Cardinality(s.olds) \in Nat /\ n \in Nat /\ k \in Nat /\ k <= n
  BY <1>1, FS_CardinalityType
<1>3. ASSUME NEW T \in SUBSET s.olds
      PROVE  /\ IsFiniteSet(T) /\ Cardinality(T) \in Nat
             /\ IsFiniteSet(Labels(T)) /\ Labels(T) \subseteq Labels(all)
             /\ s.new.name \notin Labels(T) /\ name \notin Labels(T)
             /\ s.new.name # name /\ s.new.name \in Labels(all)
             /\ Cardinality(Labels(T)) = Cardinality(T)
             /\ IsFiniteSet(Labels(T) \cup {s.new.name}) /\ IsFiniteSet(Labels(T) \cup {name})
             /\ IsFiniteSet(Labels(T) \cup {name, s.new.name})
             /\ Cardinality(Labels(T) \cup {s.new.name}) = Cardinality(T) + 1
             /\ Cardinality(Labels(T) \cup {name}) = Cardinality(T) + 1
             /\ Cardinality(Labels(T) \cup {name, s.new.name}) = Cardinality(T) + 2
  <2>1. IsFiniteSet(T)
    BY <1>1, FS_Subset
  <2>2. \A r, t \in T : r.name = t.name => r = t
    BY <1>1
  <2>3. Labels(T) \subseteq Labels(all) /\ s.new.name \in Labels(all) /\ s.new.name # name
    BY DEF Labels
  <2>4. s.new.name \notin Labels(T)
    BY <1>1 DEF Labels
  <2>5. name \notin Labels(T)
    BY <2>3
  <2> QED BY <2>1, <2>2, <2>3, <2>4, <2>5, LabelsAnd
<1>4. CASE k = 0
  <2>1. doomed = {}
    BY <1>4, Zenon DEF Doomed
  <2>2. {} \in SUBSET (s.olds \ {s.target}) /\ doomed = Labels({})
    BY <2>1 DEF Labels
  <2>3. \A r \in {}, t \in (s.olds \ {s.target}) \ {} : r.time <= t.time
    OBVIOUS
  <2>4. IsFiniteSet(doomed) /\ Cardinality(doomed) = k
    BY <1>4, <2>1, FS_EmptySet
  <2> QED BY <1>2, <2>1, <2>2, <2>3, <2>4
<1>5. CASE k # 0 /\ s.asked # Unsaved
  <2>1. PICK T \in Tails(s.olds, k - 1) : doomed = Labels(T) \cup {s.new.name}
    BY <1>5, Zenon DEF Doomed, Labels
  <2>2. T \in SUBSET s.olds /\ Cardinality(T) = k - 1
    BY <2>1 DEF Tails, kSubset
  <2>3. IsFiniteSet(doomed) /\ Cardinality(doomed) = Cardinality(T) + 1
    BY <1>3, <2>1, <2>2
  <2>4. doomed \subseteq Labels(all) \cup {name}
    BY <1>3, <2>1, <2>2
  <2>5. Cardinality(doomed) = k
    BY <1>2, <2>2, <2>3
  <2> QED BY <1>2, <1>5, <2>3, <2>4, <2>5
<1>6. CASE k # 0 /\ s.asked = Unsaved /\ k + 1 < n
  <2>1. PICK T \in Tails(s.olds \ {s.target}, k) : doomed = Labels(T)
    <3>1. n = Cardinality(s.olds) + 1 /\ k + 1 < n
      BY <1>6
    <3> QED BY <1>6, <3>1, Zenon DEF Doomed, Labels
  <2>2. /\ T \in SUBSET (s.olds \ {s.target}) /\ T \in SUBSET s.olds /\ Cardinality(T) = k
        /\ \A r \in T, t \in (s.olds \ {s.target}) \ T : r.time <= t.time
    BY <2>1 DEF Tails, kSubset
  <2> QED BY <1>2, <1>3, <2>1, <2>2
<1>7. CASE k # 0 /\ s.asked = Unsaved /\ ~(k + 1 < n)
  <2>1. PICK T : T = s.olds \ {s.target}
    OBVIOUS
  <2>2. T \in SUBSET s.olds /\ Cardinality(T) = n - 2
    <3>1. Cardinality(T) = Cardinality(s.olds) - 1
      BY <1>1, <1>7, <2>1, FS_RemoveElement
    <3> QED BY <1>2, <2>1, <3>1
  <2>3. doomed = IF k < n THEN Labels(T) \cup {name} ELSE Labels(T) \cup {name, s.new.name}
    <3>1. n = Cardinality(s.olds) + 1 /\ ~(k + 1 < n)
      BY <1>7
    <3>2. doomed \in IF k < n THEN {Labels(T) \cup {name}} ELSE {Labels(T) \cup {name, s.new.name}}
      BY <1>7, <2>1, <3>1, Zenon DEF Doomed, Labels
    <3> QED BY <3>2
  <2>4. /\ IsFiniteSet(doomed) /\ doomed \subseteq Labels(all) \cup {name}
        /\ Cardinality(doomed) = IF k < n THEN Cardinality(T) + 1 ELSE Cardinality(T) + 2
    <3>1. CASE k < n
      <4>1. doomed = Labels(T) \cup {name}
        BY <2>3, <3>1
      <4> QED BY <1>3, <2>2, <3>1, <4>1
    <3>2. CASE ~(k < n)
      <4>1. doomed = Labels(T) \cup {name, s.new.name}
        BY <2>3, <3>2
      <4> QED BY <1>3, <2>2, <3>2, <4>1
    <3> QED BY <3>1, <3>2
  <2>5. Cardinality(doomed) = k
    BY <1>2, <1>7, <2>2, <2>4
  <2> QED BY <1>2, <1>7, <2>4, <2>5
<1> QED BY <1>4, <1>5, <1>6, <1>7

\* What is to be trimmed when the copy has been stored: enough for the limit, and
\* without a name nothing newer than what stays.
LEMMA CopyTrims ==
  ASSUME IInv, NEW s \in ProcType, Held(s), Snap(s), s.pc = "copy",
         NEW r \in RevType, r.name = last + 1, r.time = clock, SaveRevision(r),
         NEW doomed \in Doomed(s, Excess(Cardinality(s.olds) + 1), r.name),
         NEW t, t.asked = s.asked, t.extra = s.extra, t.doomed = doomed
  PROVE  Trims(t)' /\ doomed \subseteq Names \cup {Unsaved}
<1> USE DEF IInv
<1>1. TypeOK /\ s.new \in RevType /\ s.extra \in Nat /\ Limit \in Nat
  BY RevisionsAssumption DEF Held, ProcType
<1>2. PICK L : L = Labels(s.olds \cup {s.new})
  OBVIOUS
<1>3. r.name \notin L /\ r.name \notin DOMAIN hist /\ last \in Nat /\ clock \in Nat
  <2>1. last \in Nat /\ clock \in Nat
    BY <1>1 DEF TypeOK
  <2>2. \A x \in s.olds \cup {s.new} : x.name \in Int /\ x.name <= last
    BY <1>1 DEF Snap, ProcType, RevType, Names, Unsaved
  <2>3. \A x \in DOMAIN hist : x \in Int /\ x <= last
    BY <1>1 DEF HistInv, TypeOK, Names
  <2> QED BY <1>2, <2>1, <2>2, <2>3 DEF Labels
<1>4. PICK n : n = Cardinality(s.olds) + 1
  OBVIOUS
<1>5. PICK k : k = Excess(n)
  OBVIOUS
<1>6. n \in Nat /\ IsFiniteSet(s.olds) /\ s.new \notin s.olds
      /\ (\A x, y \in s.olds \cup {s.new} : x.name = y.name => x = y)
  BY <1>4, FS_CardinalityType DEF Snap
<1>7. /\ k \in 0 .. n /\ k \in Nat
      /\ Limit > 0 => n + 1 - k <= Limit
      /\ Limit >= 3 /\ k # 0 => k + 1 < n
  BY <1>5, <1>6, ExcessIs
<1>8. doomed \in Doomed(s, k, r.name)
  BY <1>4, <1>5
<1>9. /\ doomed \subseteq L \cup {r.name} /\ IsFiniteSet(doomed) /\ Cardinality(doomed) = k
      /\ (s.asked = Unsaved /\ k + 1 < n) =>
            \E T \in SUBSET (s.olds \ {s.target}) :
               /\ doomed = Labels(T)
               /\ \A x \in T, y \in (s.olds \ {s.target}) \ T : x.time <= y.time
  BY <1>1, <1>2, <1>3, <1>4, <1>7, <1>8, DoomedIs
<1>10. /\ DOMAIN hist' = DOMAIN hist \cup {r.name}
       /\ hist'[r.name].time = r.time
       /\ \A m \in DOMAIN hist : hist'[m] = hist[m]
  BY <1>1, <1>3, SaveIs
<1>11. Limit > 0 => Cardinality(DOMAIN hist' \ doomed) <= Limit + s.extra
  <2>1. IsFiniteSet(L) /\ Cardinality(L) = n
    <3>1. IsFiniteSet(s.olds \cup {s.new}) /\ Cardinality(s.olds \cup {s.new}) = n
      BY <1>4, <1>6, FS_AddElement
    <3> QED BY <1>2, <1>6, <3>1, LabelsOf
  <2>2. PICK M : M = L \cup {r.name}
    OBVIOUS
  <2>3. IsFiniteSet(M) /\ Cardinality(M) = n + 1
    BY <1>3, <2>1, <2>2, FS_AddElement
  <2>4. IsFiniteSet(M \ doomed) /\ Cardinality(M \ doomed) = n + 1 - k
    <3>1. M \cap doomed = doomed
      BY <1>9, <2>2
    <3>2. IsFiniteSet(M \ doomed) /\ Cardinality(M \ doomed) = Cardinality(M) - Cardinality(M \cap doomed)
      BY <2>3, FS_Difference
    <3>3. Cardinality(M \cap doomed) = k
      BY <1>9, <3>1
    <3> QED BY <1>6, <1>7, <2>3, <3>2, <3>3
  <2>5. PICK D : D = DOMAIN hist \ L
    OBVIOUS
  <2>6. IsFiniteSet(D) /\ Cardinality(D) <= s.extra /\ Cardinality(D) \in Nat
    <3>1. IsFiniteSet(DOMAIN hist)
      BY StoredIs
    <3>2. IsFiniteSet(D)
      BY <2>5, <3>1, FS_Subset
    <3>3. Cardinality(D) <= s.extra
      BY <1>2, <2>5 DEF Snap
    <3> QED BY <3>2, <3>3, FS_CardinalityType
  <2>7. PICK U : U = D \cup (M \ doomed)
    OBVIOUS
  <2>8. IsFiniteSet(U) /\ Cardinality(U) <= s.extra + (n + 1 - k) /\ Cardinality(U) \in Nat
    <3>1. /\ IsFiniteSet(U)
          /\ Cardinality(U) = Cardinality(D) + Cardinality(M \ doomed) - Cardinality(D \cap (M \ doomed))
      BY <2>4, <2>6, <2>7, FS_Union
    <3>2. Cardinality(D \cap (M \ doomed)) \in Nat
      <4>1. IsFiniteSet(D \cap (M \ doomed))
        BY <2>6, FS_Intersection
      <4> QED BY <4>1, FS_CardinalityType
    <3>3. Cardinality(U) \in Nat
      BY <3>1, FS_CardinalityType
    <3> QED BY <1>1, <1>6, <1>7, <2>4, <2>6, <3>1, <3>2, <3>3
  <2>9. DOMAIN hist' \ doomed \in SUBSET U
    BY <1>10, <2>2, <2>5, <2>7
  <2>10. /\ Cardinality(DOMAIN hist' \ doomed) <= Cardinality(U)
         /\ Cardinality(DOMAIN hist' \ doomed) \in Nat
    BY <2>8, <2>9, FS_Subset, FS_CardinalityType
  <2> QED BY <1>1, <1>6, <1>7, <2>8, <2>10
<1>12. ASSUME s.asked = Unsaved, s.extra = 0, Limit >= 3,
              NEW x \in doomed \cap DOMAIN hist', NEW y \in DOMAIN hist' \ doomed
       PROVE  hist'[x].time <= hist'[y].time
  <2>1. k # 0
    <3>1. k = 0 => doomed = {}
      BY <1>9, FS_EmptySet
    <3> QED BY <1>12, <3>1
  <2>2. PICK T \in SUBSET (s.olds \ {s.target}) :
          /\ doomed = Labels(T)
          /\ \A a \in T, b \in (s.olds \ {s.target}) \ T : a.time <= b.time
    BY <1>7, <1>9, <1>12, <2>1
  <2>3. PICK a \in T : a.name = x
    BY <1>12, <2>2 DEF Labels
  <2>4. a \in s.olds /\ a # s.target /\ a \in RevType
    BY <2>2, <2>3 DEF ProcType
  <2>5. x \in DOMAIN hist /\ hist[x].time = a.time
    <3>1. x \in L
      BY <1>2, <2>3, <2>4 DEF Labels
    <3>2. x \in DOMAIN hist
      BY <1>3, <1>10, <1>12, <3>1
    <3> QED BY <1>12, <2>3, <2>4, <3>2 DEF Snap
  <2>6. CASE y = r.name
    <3>1. hist'[x].time <= clock
      BY <1>10, <2>5 DEF HistInv
    <3> QED BY <1>10, <2>6, <3>1
  <2>7. CASE y \in DOMAIN hist
    <3>1. y \in L
      <4>1. IsFiniteSet(DOMAIN hist \ L)
        BY StoredIs, FS_Subset
      <4>2. Cardinality(DOMAIN hist \ L) \in Nat /\ Cardinality(DOMAIN hist \ L) <= 0
        BY <1>2, <1>12, <4>1, FS_CardinalityType DEF Snap
      <4>3. Cardinality(DOMAIN hist \ L) = 0
        BY <4>2
      <4>4. DOMAIN hist \ L = {}
        BY <4>1, <4>3, FS_EmptySet
      <4> QED BY <2>7, <4>4
    <3>2. PICK b \in s.olds \cup {s.new} : b.name = y
      BY <1>2, <3>1 DEF Labels
    <3>3. hist[y].time = b.time
      BY <1>12, <2>7, <3>2 DEF Snap
    <3>4. b \notin T
      BY <1>12, <2>2, <3>2 DEF Labels
    <3>5. a.time <= b.time
      <4>1. CASE b = s.new \/ b = s.target
        BY <1>12, <2>4, <4>1 DEF Snap
      <4>2. CASE b \in (s.olds \ {s.target}) \ T
        BY <2>2, <2>3, <4>2
      <4> QED BY <3>2, <3>4, <4>1, <4>2
    <3> QED BY <1>10, <2>5, <2>7, <3>3, <3>5
  <2> QED BY <1>10, <1>12, <2>6, <2>7
<1>13. L \subseteq Names \cup {Unsaved}
  BY <1>1, <1>2 DEF Labels, RevType, ProcType
<1>14. r.name \in Names \cup {Unsaved}
  BY DEF RevType
<1> QED BY <1>9, <1>11, <1>12, <1>13, <1>14 DEF Trims

\* Copy.
LEMMA InvCopy ==
  ASSUME IInv, NEW p \in Procs, Copy(p)
  PROVE  IInv'
<1> USE DEF IInv
<1>1. PICK s : s = proc[p]
  OBVIOUS
<1>2. s \in ProcType /\ Held(s) /\ RecInv(p, s) /\ s.pc = "copy" /\ last < MaxName
  BY <1>1 DEF TypeOK, Copy, At
<1>3. Snap(s) /\ s.target \in RevType
  BY <1>2 DEF RecInv, Held
<1>4. PICK q : q = CHOOSE x \in Procs : x # p
  OBVIOUS
<1>5. q \in Procs /\ q # p /\ \A x \in Procs : x = p \/ x = q
  <2>1. \E x \in Procs : x # p
    BY DEF Procs
  <2>2. q \in Procs /\ q # p
    BY <1>4, <2>1
  <2> QED BY <2>2 DEF Procs
<1>6. PICK r : r = [name |-> last + 1, spec |-> s.target.spec, time |-> clock]
  OBVIOUS
<1>7. MaxName \in Nat /\ last \in 0 .. MaxName /\ clock \in Nat
  BY RevisionsAssumption DEF TypeOK
<1>8. /\ r \in RevType /\ r.name = last + 1 /\ r.time = clock /\ r.name \in Names
      /\ r.spec \in Specs
  BY <1>2, <1>3, <1>6, <1>7 DEF RevType, Names
<1>9. /\ SaveRevision(r) /\ last' = last + 1 /\ base' = last + 1
      /\ UNCHANGED <<want, intr, clock, due, alive, left>>
  BY <1>1, <1>6, Zenon DEF Copy
<1>10. PICK doomed \in Doomed(s, Excess(Cardinality(s.olds) + 1), r.name) :
         proc' = [proc EXCEPT ![q] = [proc[q] EXCEPT !.extra = Extra(q, r)],
                              ![p] = [Idle EXCEPT !.pc = "trim", !.asked = s.asked,
                                         !.extra = s.extra, !.doomed = doomed,
                                         !.want = [spec |-> r.spec, tag |-> r.name]]]
  BY <1>1, <1>4, <1>6, Zenon DEF Copy
<1>11. PICK w : w = [spec |-> r.spec, tag |-> r.name]
  OBVIOUS
<1>12. w \in WantType
  BY <1>8, <1>11 DEF WantType
<1>13. PICK t : t = [Idle EXCEPT !.pc = "trim", !.asked = s.asked, !.extra = s.extra,
                                 !.doomed = doomed, !.want = w]
  OBVIOUS
<1>14. PICK n : n = Extra(q, r)
  OBVIOUS
<1>15. PICK h : h = [proc[q] EXCEPT !.extra = n]
  OBVIOUS
<1>16. proc' = [proc EXCEPT ![q] = h, ![p] = t]
  BY <1>10, <1>11, <1>13, <1>14, <1>15
<1>17. /\ t.pc = "trim" /\ t.asked = s.asked /\ t.extra = s.extra /\ t.doomed = doomed
       /\ t.want = w
  BY <1>13 DEF Idle
<1>18. Trims(t)' /\ doomed \subseteq Names \cup {Unsaved}
  BY <1>2, <1>3, <1>8, <1>9, <1>10, <1>17, CopyTrims
<1>19. t \in ProcType
  BY <1>2, <1>12, <1>13, <1>18, IdleType DEF ProcType
<1>20. Held(t)
  BY <1>12, <1>17 DEF Held
<1>21. h \in ProcType /\ Held(h) /\ n \in Nat
  BY <1>5, <1>14, <1>15, ExtraIs
<1>22. /\ DOMAIN hist' = DOMAIN hist \cup {r.name}
       /\ hist'[r.name].time = r.time
       /\ \A k \in DOMAIN hist : k # r.name => hist'[k] = hist[k]
       /\ hist' \in [DOMAIN hist' -> [spec : Specs, time : Nat]]
  BY <1>8, <1>9, SaveIs
<1>23. r.name \notin DOMAIN hist /\ \A m \in DOMAIN hist : m \in Int /\ m <= last
  BY <1>7, <1>8 DEF HistInv, TypeOK, Names
<1>24. proc'[p] = t /\ proc'[q] = h
  BY <1>5, <1>16 DEF TypeOK
<1>25. TypeOK'
  <2>1. proc' \in [Procs -> ProcType]
    BY <1>16, <1>19, <1>21 DEF TypeOK
  <2>2. \A x \in Procs : Held(proc'[x])
    BY <1>5, <1>20, <1>21, <1>24
  <2>3. DOMAIN hist' \subseteq Names
    BY <1>8, <1>22 DEF TypeOK
  <2>4. last' \in 0 .. MaxName
    BY <1>2, <1>7, <1>9
  <2> QED BY <1>9, <1>22, <2>1, <2>2, <2>3, <2>4 DEF TypeOK, Held
<1>26. HistInv'
  BY <1>7, <1>8, <1>9, <1>22, <1>23 DEF HistInv
<1>27. RecInv(p, t)'
  BY <1>17, <1>18 DEF RecInv
<1>28. RecInv(q, h)'
  <2>1. PICK u : u = proc[q]
    OBVIOUS
  <2>2. u \in ProcType /\ Held(u) /\ RecInv(q, u)
    BY <1>5, <2>1 DEF TypeOK
  <2>3. u.pc \in {"check30", "store"} => u.new.name # r.name
    BY <1>7, <1>8, <2>2 DEF RecInv, Storing, Held, Names
  <2>4. n = IF u.pc \in {"named", "copy", "trim"} /\ r.name \notin DOMAIN hist
            THEN u.extra + 1 ELSE u.extra
    BY <1>14, <2>1 DEF Extra
  <2>5. last' \in Nat /\ last' >= last /\ clock' = clock
    BY <1>7, <1>9
  <2>6. RecInv(q, [u EXCEPT !.extra = n])'
    BY <1>8, <1>9, <1>21, <1>23, <2>2, <2>3, <2>4, <2>5, FrameSave
  <2> QED BY <1>15, <2>1, <2>6
<1>29. \A x \in Procs : RecInv(x, proc[x])'
  BY <1>5, <1>24, <1>27, <1>28
<1> QED BY <1>25, <1>26, <1>29

-----------------------------------------------------------------------------
(* The theorems *)

\* Every step keeps the invariant.
LEMMA InvNext == IInv /\ [Next]_vars => IInv'
<1> SUFFICES ASSUME IInv, [Next]_vars PROVE IInv'
  OBVIOUS
<1>1. CASE UNCHANGED vars
  <2>1. "main" \in Procs
    BY DEF Procs
  <2>2. Moves("main", proc["main"])
    BY <1>1, <2>1 DEF Moves, vars, IInv, TypeOK
  <2>3. Elsewhere
    BY <1>1 DEF Elsewhere, vars, IInv, TypeOK
  <2> QED BY <2>1, <2>2, <2>3, InvMoves
<1>2. CASE Next
  <2>1. CASE PutTask \/ RollbackTask \/ StorePut \/ HelperGet \/ HelperSave
    BY <2>1, InvTask
  <2>2. CASE Tick \/ Start \/ Abort \/ Pass \/ ErrorReturn \/ Decide \/ Save
    BY <2>2, InvReconcile
  <2>3. ASSUME NEW p \in Procs, Rollback(p) \/ CopyFails(p) \/ TrimFails(p)
        PROVE  IInv'
    BY <2>3, InvRollback, InvCopy, InvTrim, InvTrimFails DEF Rollback
  <2>4. ASSUME NEW p \in Procs, RollbackPanics(p)
        PROVE  IInv'
    BY <2>4, InvPanics
  <2>5. "main" \in Procs /\ "helper" \in Procs
    BY DEF Procs
  <2> QED BY <1>2, <2>1, <2>2, <2>3, <2>4, <2>5, InvRead, InvStore DEF Next, Main, Helper
<1> QED BY <1>1, <1>2

\* The invariant holds in every reachable state.
THEOREM Invariance == Spec => []IInv
BY InvInit, InvNext, PTL DEF Spec

\* The revision history is well-typed, and a process has at hand what it goes on with.
THEOREM TypeCorrect == Spec => []TypeOK
<1>1. IInv => TypeOK
  BY DEF IInv
<1> QED BY <1>1, Invariance, PTL

\* A rollback that has trimmed the history leaves no more revisions than the limit, but for
\* those that the other goroutine has stored meanwhile or that could not be deleted
\* (reconciliation.go:363-372).
THEOREM LimitKeptHolds == Spec => []LimitKept
<1>1. IInv => LimitKept
  <2> SUFFICES ASSUME IInv, NEW p \in Procs, proc[p].pc = "trim", proc[p].doomed = {}, Limit > 0
               PROVE  Cardinality(DOMAIN hist) <= Limit + proc[p].extra
    BY DEF LimitKept
  <2>1. DOMAIN hist \ {} = DOMAIN hist
    OBVIOUS
  <2> QED BY <2>1 DEF IInv, RecInv, Trims
<1> QED BY <1>1, Invariance, PTL

\* A rollback without a name drops nothing newer than what it keeps, if the limit is at
\* least three, nothing else is stored meanwhile and no delete fails
\* (reconciliation.go:328, 362-371).
THEOREM UnnamedDropsOldestHolds == Spec => []UnnamedDropsOldest
<1>1. IInv => UnnamedDropsOldest
  BY DEF IInv, RecInv, Trims, UnnamedDropsOldest
<1> QED BY <1>1, Invariance, PTL

=============================================================================
