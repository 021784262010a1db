-------------------------- MODULE TaskWorkers_proofs --------------------------
(***************************************************************************)
(* Proofs about TaskWorkers, for any number of tasks, any plan of artifacts *)
(* and any set of faults.  The inductive invariant says, besides the types, *)
(* who may hold the lock (Locks), what a worker has written by the time it  *)
(* is where it is (Progress), what its result says about its row (Results), *)
(* and that a judged run does not move any more (Settled).                  *)
(***************************************************************************)
EXTENDS TaskWorkers, SequenceTheorems, TLAPS

Mandatory == Kinds \ (Optional \cup {"tests_passed"})

Locks == /\ cancelled => "cancel" \in faults
         /\ \A w \in Tasks : txn[w] # db[w] => lock = w
         /\ LockIsShort

(* The mandatory artifacts among the first n statements are in the worker's *)
(* transaction.                                                             *)
Written(w, n) == \A k \in 1..n : Plan[k] \in Mandatory => Plan[k] \in txn[w].arts

Earned(w, image) ==
    image.success = "yes" => /\ outcome[w] = "yes" /\ Mandatory \subseteq image.arts
                             /\ image.status = "completed" \/ "commit" \in faults

Unwritten(w) == db[w].success = "none" /\ txn[w].success = "none"

At(w) ==
    /\ pc[w] = "acquire" => step[w] = 1 /\ Unwritten(w) /\ db[w].status = "pending"
    /\ pc[w] = "harness" => step[w] = 1 /\ Unwritten(w)
    /\ pc[w] = "stmt" => Unwritten(w) /\ Written(w, step[w] - 1)
    /\ pc[w] = "commit" =>
           /\ db[w].success = "none" /\ Written(w, step[w])
           /\ Plan[step[w]] # "completed" => txn[w].success = "none"
           /\ Plan[step[w]] = "completed" =>
                  txn[w].success = outcome[w] /\ txn[w].status = "completed"
    /\ pc[w] = "failCommit" => txn[w].status = "failed"
    /\ pc[w] \in Handler /\ "commit" \notin faults =>
           db[w].success # "yes" /\ txn[w].success # "yes"

Through(w) == pc[w] \in {"release", "closing", "closed"}

Progress == \A w \in Tasks : At(w) /\ Earned(w, db[w]) /\ (~Through(w) => Earned(w, txn[w]))

Results ==
    \A w \in Tasks :
        /\ result[w] = "yes" =>
               Through(w) /\ db[w].status = "completed" /\ db[w].success = "yes"
        /\ Through(w) /\ result[w] # "yes" /\ ~cancelled
           /\ faults \cap {"release", "commit"} = {} => db[w].success # "yes"
        /\ Through(w) /\ faults \cap {"busy", "commit", "cancel"} = {} =>
               \/ db[w].status \in {"completed", "failed"}
               \/ db[w].status = "pending" /\ "acquire" \in faults

Settled == verdict # "none" => \A w \in Tasks : pc[w] = "closed"

WorkersInv == TypeOK /\ Locks /\ Progress /\ Results /\ Settled /\ VerdictMatchesRows

(* Every statement of the plan but the first and the last records an artifact. *)
LEMMA PlanShape ==
    /\ Len(Plan) \in Nat /\ Len(Plan) >= 2
    /\ \A i \in 1..Len(Plan) : /\ Plan[i] = "running" <=> i = 1
                               /\ Plan[i] = "completed" <=> i = Len(Plan)
                               /\ i \notin {1, Len(Plan)} => Plan[i] \in Kinds
    /\ \A k \in Kinds : \E i \in 1..Len(Plan) : Plan[i] = k
<1>1. /\ ArtifactKinds \in Seq(Kinds)
      /\ "running" \notin Kinds /\ "completed" \notin Kinds
  BY WorkersAssumption DEF WorkersAssumption
<1>2. Len(ArtifactKinds) \in Nat /\ DOMAIN ArtifactKinds = 1..Len(ArtifactKinds)
  BY <1>1
<1> DEFINE Opening == <<"running">> \o ArtifactKinds
<1>3. /\ Opening \in Seq(Kinds \cup {"running"}) /\ Len(Opening) = 1 + Len(ArtifactKinds)
      /\ Opening[1] = "running" /\ \A i \in 1..Len(ArtifactKinds) : Opening[i + 1] = ArtifactKinds[i]
  BY <1>1
<1>4. /\ Len(Plan) = Len(ArtifactKinds) + 2
      /\ \A i \in 1..Len(Opening) : Plan[i] = Opening[i]
      /\ Plan[Len(Plan)] = "completed"
  BY <1>2, <1>3 DEF Plan
<1>5. \A i \in 2..(Len(Plan) - 1) : Plan[i] = ArtifactKinds[i - 1] /\ Plan[i] \in Kinds
  <2> SUFFICES ASSUME NEW i \in 2..(Len(Plan) - 1)
               PROVE  Plan[i] = ArtifactKinds[i - 1] /\ Plan[i] \in Kinds
    OBVIOUS
  <2>1. i - 1 \in 1..Len(ArtifactKinds) /\ i \in 1..Len(Opening)
    BY <1>2, <1>3, <1>4
  <2> HIDE DEF Opening
  <2>2. Plan[i] = Opening[i] /\ Opening[(i - 1) + 1] = ArtifactKinds[i - 1] /\ (i - 1) + 1 = i
    BY <2>1, <1>3, <1>4
  <2>3. ArtifactKinds[i - 1] \in Kinds
    BY <2>1, <1>2 DEF Kinds
  <2> QED
    BY <2>2, <2>3
<1>6. Plan[1] = "running"
  BY <1>2, <1>3, <1>4
<1>7. \A k \in Kinds : \E i \in 1..Len(Plan) : Plan[i] = k
  <2> SUFFICES ASSUME NEW j \in DOMAIN ArtifactKinds
               PROVE  \E i \in 1..Len(Plan) : Plan[i] = ArtifactKinds[j]
    BY DEF Kinds
  <2> HIDE DEF Opening
  <2>1. j + 1 \in 2..(Len(Plan) - 1) /\ (j + 1) - 1 = j
    BY <1>2, <1>4
  <2>2. Plan[j + 1] = ArtifactKinds[(j + 1) - 1]
    BY <2>1, <1>5
  <2> QED
    BY <2>1, <2>2, <1>2, <1>4
<1> QED
  BY <1>1, <1>2, <1>4, <1>5, <1>6, <1>7

USE DEF Goto, Result, FreeLock, Main, Handler, TypeOK

(* What a statement makes of a row is a row. *)
LEMMA ApplyType ==
  ASSUME TypeOK, NEW w \in Tasks, NEW image \in Image,
         NEW s \in Kinds \cup {"running", "completed", "failed"}
  PROVE  Apply(w, s, image) \in Image
BY DEF Apply, Image

LEMMA StatementType ==
  ASSUME TypeOK, NEW w \in Tasks
  PROVE  Plan[step[w]] \in Kinds \cup {"running", "completed", "failed"}
BY PlanShape

LEMMA WriteType ==
  ASSUME TypeOK, NEW w \in Tasks, NEW s \in Kinds \cup {"running", "completed", "failed"},
         Write(w, s)
  PROVE  txn' \in [Tasks -> Image] /\ lock' \in Tasks \cup {Nobody}
BY ApplyType DEF Write

(* A worker that has not come to the end of its plan can go on. *)
LEMMA NextStatement ==
  ASSUME TypeOK, NEW w \in Tasks, Plan[step[w]] # "completed"
  PROVE  step[w] + 1 \in 1..Len(Plan)
BY PlanShape

LEMMA StepTypeOK ==
  ASSUME TypeOK, NEW w \in Tasks, WorkerStep(w), pc[w] = "harness" => step[w] = 1
  PROVE  TypeOK'
<1>1. CASE Acquire(w)
  BY <1>1 DEF Acquire
<1>2. CASE AcquireRaises(w)
  BY <1>2 DEF AcquireRaises
<1>3. CASE Execute(w)
  BY <1>3, StatementType, WriteType DEF Execute
<1>4. CASE SkipOptional(w)
  BY <1>4, NextStatement, WorkersAssumption DEF SkipOptional, MaySkip, WorkersAssumption
<1>5. CASE Commit(w)
  BY <1>5, NextStatement, ZenonT(60) DEF Commit, AfterCommit
<1>6. CASE Harness(w)
  BY <1>6, NextStatement, PlanShape DEF Harness
<1>7. CASE RunTaskRaises(w)
  BY <1>7 DEF RunTaskRaises, ToHandler
<1>8. CASE CollectRaises(w)
  BY <1>8 DEF CollectRaises, ToHandler
<1>9. CASE FailExecute(w)
  BY <1>9, WriteType DEF FailExecute
<1>10. CASE FailCommit(w)
  BY <1>10 DEF FailCommit
<1>11. CASE BusyRaises(w)
  BY <1>11 DEF BusyRaises, LockKept, StoreRaised, ToHandler
<1>12. CASE CommitRaises(w)
  BY <1>12 DEF CommitRaises, StoreRaised, ToHandler
<1>13. CASE Release(w)
  BY <1>13 DEF Release
<1>14. CASE ReleaseRaises(w)
  BY <1>14 DEF ReleaseRaises
<1>15. CASE Close(w)
  BY <1>15 DEF Close, CloseStore
<1>16. CASE CancelAcquiring(w)
  BY <1>16 DEF CancelAcquiring
<1>17. CASE CancelWorker(w)
  <2>1. /\ pc' = [pc EXCEPT ![w] = "release"] /\ result' = [result EXCEPT ![w] = "cancelled"]
        /\ UNCHANGED <<faults, step, outcome, cancelled, verdict>>
    BY <1>17 DEF CancelWorker
  <2>2. CASE db' = db
    <3>1. \/ UNCHANGED <<txn, lock>>
          \/ Write(w, Plan[step[w]])
          \/ Write(w, "failed")
          \/ UNCHANGED txn /\ FreeLock(w)
      BY <1>17 DEF CancelWorker
    <3>2. txn' \in [Tasks -> Image] /\ lock' \in Tasks \cup {Nobody}
      BY <3>1, StatementType, WriteType
    <3> QED
      BY <2>1, <2>2, <3>2
  <2>3. CASE db' = [db EXCEPT ![w] = txn[w]] /\ FreeLock(w) /\ UNCHANGED txn
    BY <2>1, <2>3
  <2> QED
    BY <1>17, <2>2, <2>3 DEF CancelWorker
<1>18. CASE CancelReleasing(w)
  BY <1>18 DEF CancelReleasing
<1>19. CASE CancelClosing(w)
  BY <1>19 DEF CancelClosing, CloseStore
<1> QED
  BY <1>1, <1>2, <1>3, <1>4, <1>5, <1>6, <1>7, <1>8, <1>9, <1>10,
     <1>11, <1>12, <1>13, <1>14, <1>15, <1>16, <1>17, <1>18, <1>19 DEF WorkerStep, Waits, Works

LEMMA NobodyIsNoTask == Nobody \notin Tasks
BY WorkersAssumption DEF WorkersAssumption

(* Only the holder of the lock has an open transaction. *)
LEMMA StepLocks ==
  ASSUME TypeOK, Locks, NEW w \in Tasks, WorkerStep(w)
  PROVE  Locks'
<1>1. CASE Acquire(w)
  BY <1>1, NobodyIsNoTask DEF Acquire, Locks, LockIsShort
<1>2. CASE AcquireRaises(w)
  BY <1>2, NobodyIsNoTask DEF AcquireRaises, Locks, LockIsShort
<1>3. CASE Execute(w)
  BY <1>3, NobodyIsNoTask DEF Execute, Write, MayWrite, Locks, LockIsShort
<1>4. CASE SkipOptional(w)
  BY <1>4, NobodyIsNoTask DEF SkipOptional, MaySkip, Locks, LockIsShort
<1>5. CASE Commit(w)
  BY <1>5, NobodyIsNoTask DEF Commit, AfterCommit, Locks, LockIsShort
<1>6. CASE Harness(w)
  BY <1>6, NobodyIsNoTask DEF Harness, Locks, LockIsShort
<1>7. CASE RunTaskRaises(w)
  BY <1>7, NobodyIsNoTask DEF RunTaskRaises, ToHandler, Locks, LockIsShort
<1>8. CASE CollectRaises(w)
  BY <1>8, NobodyIsNoTask DEF CollectRaises, ToHandler, Locks, LockIsShort
<1>9. CASE FailExecute(w)
  BY <1>9, NobodyIsNoTask DEF FailExecute, Write, Locks, LockIsShort
<1>10. CASE FailCommit(w)
  BY <1>10, NobodyIsNoTask DEF FailCommit, Locks, LockIsShort
<1>11. CASE BusyRaises(w)
  BY <1>11, NobodyIsNoTask DEF BusyRaises, LockKept, StoreRaised, ToHandler, Locks, LockIsShort
<1>12. CASE CommitRaises(w)
  BY <1>12, NobodyIsNoTask DEF CommitRaises, StoreRaised, ToHandler, Locks, LockIsShort
<1>13. CASE Release(w)
  BY <1>13, NobodyIsNoTask DEF Release, Locks, LockIsShort
<1>14. CASE ReleaseRaises(w)
  BY <1>14, NobodyIsNoTask DEF ReleaseRaises, Locks, LockIsShort
<1>15. CASE Close(w)
  BY <1>15, NobodyIsNoTask DEF Close, CloseStore, Locks, LockIsShort
<1>16. CASE CancelAcquiring(w)
  BY <1>16, NobodyIsNoTask DEF CancelAcquiring, Locks, LockIsShort
<1>17. CASE CancelWorker(w)
  BY <1>17, NobodyIsNoTask DEF CancelWorker, MayWrite, Write, Locks, LockIsShort
<1>18. CASE CancelReleasing(w)
  BY <1>18, NobodyIsNoTask DEF CancelReleasing, Locks, LockIsShort
<1>19. CASE CancelClosing(w)
  BY <1>19, NobodyIsNoTask DEF CancelClosing, CloseStore, Locks, LockIsShort
<1> QED
  BY <1>1, <1>2, <1>3, <1>4, <1>5, <1>6, <1>7, <1>8, <1>9, <1>10,
     <1>11, <1>12, <1>13, <1>14, <1>15, <1>16, <1>17, <1>18, <1>19 DEF WorkerStep, Waits, Works

(* The first and the last statement are no artifacts, the skipped ones not mandatory. *)
LEMMA MandatoryKinds ==
    /\ {"running", "completed", "failed"} \cap Mandatory = {}
    /\ Optional \cap Mandatory = {} /\ "tests_passed" \notin Mandatory
    /\ Mandatory \subseteq Kinds
BY WorkersAssumption DEF WorkersAssumption, Mandatory

LEMMA ExecuteProgress ==
  ASSUME TypeOK, Progress, NEW w \in Tasks, Execute(w)
  PROVE  Progress'
<1> DEFINE s == Plan[step[w]]
<1>1. s \in Kinds \cup {"running", "completed", "failed"} /\ txn[w] \in Image
  BY StatementType
<1>2. /\ pc[w] = "stmt" /\ pc' = [pc EXCEPT ![w] = "commit"]
      /\ txn' = [txn EXCEPT ![w] = Apply(w, s, txn[w])]
      /\ UNCHANGED <<faults, step, outcome, db>>
  BY DEF Execute, Write
<1>3. s # "failed"
  BY PlanShape, WorkersAssumption DEF WorkersAssumption
<1>4. ASSUME NEW v \in Tasks \ {w}
      PROVE  (At(v) /\ Earned(v, db[v]) /\ (~Through(v) => Earned(v, txn[v])))'
  BY <1>2, <1>4 DEF Progress, At, Earned, Unwritten, Written, Through
<1>5. Unwritten(w) /\ Written(w, step[w] - 1) /\ Earned(w, db[w])
  BY <1>2 DEF Progress, At
<1>6. CASE s \in Kinds
  <2>1. txn[w]' = [txn[w] EXCEPT !.arts = @ \cup {s}] /\ s # "completed"
    BY <1>1, <1>2, <1>6, WorkersAssumption DEF WorkersAssumption, Apply
  <2>2. txn[w]'.arts = txn[w].arts \cup {s} /\ txn[w]'.success = "none"
    BY <1>1, <1>5, <2>1 DEF Image, Unwritten
  <2>3. Written(w, step[w])'
    BY <1>2, <1>5, <2>2 DEF Written
  <2> QED
    BY <1>2, <1>4, <1>5, <2>1, <2>2, <2>3 DEF Progress, At, Earned, Unwritten
<1>7. CASE s = "running"
  <2>1. txn[w]'.arts = txn[w].arts /\ txn[w]'.success = "none"
    BY <1>1, <1>2, <1>5, <1>7 DEF Apply, Image, Unwritten
  <2>2. Written(w, step[w])'
    BY <1>2, <1>5, <1>7, <2>1, MandatoryKinds DEF Written
  <2> QED
    BY <1>2, <1>4, <1>5, <1>7, <2>1, <2>2 DEF Progress, At, Earned, Unwritten
<1>8. CASE s = "completed"
  <2>1. /\ txn[w]'.arts = txn[w].arts /\ txn[w]'.status = "completed"
        /\ txn[w]'.success = outcome[w]
    BY <1>1, <1>2, <1>8 DEF Apply, Image
  <2>2. Written(w, step[w])'
    BY <1>2, <1>5, <1>8, <2>1, MandatoryKinds DEF Written
  <2>3. Mandatory \subseteq txn[w]'.arts
    <3>1. step[w] = Len(Plan)
      BY <1>8, PlanShape
    <3> QED
      BY <1>2, <2>2, <3>1, MandatoryKinds, PlanShape DEF Written
  <2> QED
    BY <1>2, <1>4, <1>5, <1>8, <2>1, <2>2, <2>3 DEF Progress, At, Earned, Unwritten
<1> QED
  BY <1>1, <1>3, <1>6, <1>7, <1>8

(* A worker has written what its place in execute says. *)
LEMMA StepProgress ==
  ASSUME TypeOK, Progress, NEW w \in Tasks, WorkerStep(w)
  PROVE  Progress'
<1>1. CASE Acquire(w)
  BY <1>1 DEF Acquire, Progress, At, Earned, Unwritten, Written, Through
<1>2. CASE AcquireRaises(w)
  BY <1>2 DEF AcquireRaises, Progress, At, Earned, Unwritten, Written, Through
<1>3. CASE Execute(w)
  BY ExecuteProgress, <1>3 
<1>4. CASE SkipOptional(w)
  BY <1>4, NextStatement, MandatoryKinds DEF SkipOptional, MaySkip, Progress, At, Earned, Unwritten, Written, Through
<1>5. CASE Commit(w)
  BY <1>5, NextStatement, PlanShape DEF Commit, AfterCommit, Progress, At, Earned, Unwritten, Written, Through
<1>6. CASE Harness(w)
  BY <1>6, NextStatement, PlanShape, MandatoryKinds DEF Harness, Progress, At, Earned, Unwritten, Written, Through
<1>7. CASE RunTaskRaises(w)
  BY <1>7 DEF RunTaskRaises, ToHandler, Progress, At, Earned, Unwritten, Written, Through
<1>8. CASE CollectRaises(w)
  BY <1>8 DEF CollectRaises, ToHandler, Progress, At, Earned, Unwritten, Written, Through
<1>9. CASE FailExecute(w)
  BY <1>9, StatementType DEF FailExecute, Write, Apply, Progress, At, Earned, Unwritten, Written, Through
<1>10. CASE FailCommit(w)
  BY <1>10 DEF FailCommit, Progress, At, Earned, Unwritten, Written, Through
<1>11. CASE BusyRaises(w)
  BY <1>11 DEF BusyRaises, LockKept, StoreRaised, ToHandler, Progress, At, Earned, Unwritten, Written, Through
<1>12. CASE CommitRaises(w)
  BY <1>12 DEF CommitRaises, StoreRaised, ToHandler, Progress, At, Earned, Unwritten, Written, Through
<1>13. CASE Release(w)
  BY <1>13 DEF Release, Progress, At, Earned, Unwritten, Written, Through
<1>14. CASE ReleaseRaises(w)
  BY <1>14 DEF ReleaseRaises, Progress, At, Earned, Unwritten, Written, Through
<1>15. CASE Close(w)
  BY <1>15 DEF Close, CloseStore, Progress, At, Earned, Unwritten, Written, Through
<1>16. CASE CancelAcquiring(w)
  BY <1>16 DEF CancelAcquiring, Progress, At, Earned, Unwritten, Written, Through
<1>17. CASE CancelWorker(w)
  BY <1>17 DEF CancelWorker, MayWrite, Write, Progress, At, Earned, Unwritten, Written, Through
<1>18. CASE CancelReleasing(w)
  BY <1>18 DEF CancelReleasing, Progress, At, Earned, Unwritten, Written, Through
<1>19. CASE CancelClosing(w)
  BY <1>19 DEF CancelClosing, CloseStore, Progress, At, Earned, Unwritten, Written, Through
<1> QED
  BY <1>1, <1>2, <1>3, <1>4, <1>5, <1>6, <1>7, <1>8, <1>9, <1>10,
     <1>11, <1>12, <1>13, <1>14, <1>15, <1>16, <1>17, <1>18, <1>19 DEF WorkerStep, Waits, Works

(* The result of a worker agrees with its row. *)
LEMMA StepResults ==
  ASSUME TypeOK, Locks, Progress, Results, NEW w \in Tasks, WorkerStep(w)
  PROVE  Results'
<1>1. CASE Acquire(w)
  BY <1>1 DEF Acquire, Results, Progress, At, Earned, Unwritten, Through
<1>2. CASE AcquireRaises(w)
  BY <1>2 DEF AcquireRaises, Results, Progress, At, Earned, Unwritten, Through
<1>3. CASE Execute(w)
  BY <1>3 DEF Execute, Write, MayWrite, Results, Progress, At, Earned, Unwritten, Through
<1>4. CASE SkipOptional(w)
  BY <1>4 DEF SkipOptional, MaySkip, Results, Progress, At, Earned, Unwritten, Through
<1>5. CASE Commit(w)
  BY <1>5 DEF Commit, AfterCommit, Results, Progress, At, Earned, Unwritten, Through
<1>6. CASE Harness(w)
  BY <1>6 DEF Harness, Results, Progress, At, Earned, Unwritten, Through
<1>7. CASE RunTaskRaises(w)
  BY <1>7 DEF RunTaskRaises, ToHandler, Results, Progress, At, Earned, Unwritten, Through
<1>8. CASE CollectRaises(w)
  BY <1>8 DEF CollectRaises, ToHandler, Results, Progress, At, Earned, Unwritten, Through
<1>9. CASE FailExecute(w)
  BY <1>9 DEF FailExecute, Write, Results, Progress, At, Earned, Unwritten, Through
<1>10. CASE FailCommit(w)
  BY <1>10 DEF FailCommit, Results, Progress, At, Earned, Unwritten, Through
<1>11. CASE BusyRaises(w)
  BY <1>11 DEF BusyRaises, LockKept, Locks, LockIsShort, StoreRaised, ToHandler, Results, Progress, At, Earned, Unwritten, Through
<1>12. CASE CommitRaises(w)
  BY <1>12 DEF Locks, CommitRaises, StoreRaised, ToHandler, Results, Progress, At, Earned, Unwritten, Through
<1>13. CASE Release(w)
  BY <1>13 DEF Release, Results, Progress, At, Earned, Unwritten, Through
<1>14. CASE ReleaseRaises(w)
  BY <1>14 DEF ReleaseRaises, Results, Progress, At, Earned, Unwritten, Through
<1>15. CASE Close(w)
  BY <1>15 DEF Close, CloseStore, Results, Progress, At, Earned, Unwritten, Through
<1>16. CASE CancelAcquiring(w)
  BY <1>16 DEF Locks, CancelAcquiring, Results, Progress, At, Earned, Unwritten, Through
<1>17. CASE CancelWorker(w)
  BY <1>17 DEF Locks, CancelWorker, Results, Progress, At, Earned, Unwritten, Through
<1>18. CASE CancelReleasing(w)
  BY <1>18 DEF Locks, CancelReleasing, Results, Progress, At, Earned, Unwritten, Through
<1>19. CASE CancelClosing(w)
  BY <1>19 DEF Locks, CancelClosing, CloseStore, Results, Progress, At, Earned, Unwritten, Through
<1> QED
  BY <1>1, <1>2, <1>3, <1>4, <1>5, <1>6, <1>7, <1>8, <1>9, <1>10,
     <1>11, <1>12, <1>13, <1>14, <1>15, <1>16, <1>17, <1>18, <1>19 DEF WorkerStep, Waits, Works

(* No worker has a step once it is closed, so a judged run is at rest. *)
LEMMA ClosedStops ==
  ASSUME NEW w \in Tasks, WorkerStep(w)
  PROVE  pc[w] # "closed" /\ verdict' = verdict
BY DEF WorkerStep, Waits, Works, Acquire, AcquireRaises, Execute, SkipOptional, Commit, Harness,
       RunTaskRaises, CollectRaises, FailExecute, FailCommit, BusyRaises, CommitRaises,
       Release, ReleaseRaises, Close, CancelAcquiring, CancelWorker, CancelReleasing, CancelClosing

LEMMA StepSettled ==
  ASSUME Settled, VerdictMatchesRows, NEW w \in Tasks, WorkerStep(w)
  PROVE  Settled' /\ VerdictMatchesRows'
<1>1. verdict = "none" /\ verdict' = "none"
  BY ClosedStops DEF Settled
<1> QED
  BY <1>1 DEF Settled, VerdictMatchesRows

LEMMA InitWorkersInv == Init => WorkersInv
<1> SUFFICES ASSUME Init PROVE WorkersInv
  OBVIOUS
<1> USE DEF Init
<1>1. TypeOK
  <2>1. Fresh \in Image
    BY DEF Fresh, Image
  <2>2. 1 \in 1..Len(Plan)
    BY PlanShape
  <2>3. faults \in SUBSET FaultKinds
    BY WorkersAssumption DEF WorkersAssumption
  <2> QED
    BY <2>1, <2>2, <2>3
<1>2. Locks
  BY NobodyIsNoTask DEF Locks, LockIsShort
<1>3. Progress
  BY DEF Progress, At, Earned, Unwritten, Fresh, Through
<1>4. Results
  BY DEF Results, Through
<1>5. Settled /\ VerdictMatchesRows
  BY DEF Settled, VerdictMatchesRows
<1> QED
  BY <1>1, <1>2, <1>3, <1>4, <1>5 DEF WorkersInv

(* The verdict is what the results of the workers say about their rows. *)
LEMMA JudgeInv ==
  ASSUME WorkersInv, Judge
  PROVE  WorkersInv'
<1> USE DEF WorkersInv
<1>1. /\ \A w \in Tasks : pc[w] = "closed"
      /\ cancelled => verdict' = "cancelled"
      /\ ~cancelled /\ (\E w \in Tasks : result[w] # "yes") => verdict' = "failed"
      /\ ~cancelled /\ (\A w \in Tasks : result[w] = "yes") => verdict' = "completed"
      /\ UNCHANGED <<faults, pc, step, outcome, db, txn, lock, result, cancelled>>
  <2>1. /\ \A w \in Tasks : pc[w] = "closed"
        /\ UNCHANGED <<faults, pc, step, outcome, db, txn, lock, result, cancelled>>
    BY DEF Judge
  <2>2. cancelled => verdict' = "cancelled"
    BY Zenon DEF Judge
  <2>3. ~cancelled /\ (\E w \in Tasks : result[w] # "yes") => verdict' = "failed"
    BY Zenon DEF Judge
  <2>4. ~cancelled /\ (\A w \in Tasks : result[w] = "yes") => verdict' = "completed"
    BY Zenon DEF Judge
  <2> QED
    BY <2>1, <2>2, <2>3, <2>4
<1>2. TypeOK'
  <2>1. verdict' \in {"cancelled", "failed", "completed"}
    BY <1>1
  <2> QED
    BY <1>1, <2>1
<1>3. Locks' /\ Progress' /\ Results' /\ Settled'
  BY <1>1 DEF Locks, LockIsShort, Progress, At, Earned, Unwritten, Written, Results, Through, Settled
<1>4. VerdictMatchesRows'
  <2>1. CASE cancelled
    BY <1>1, <2>1 DEF VerdictMatchesRows
  <2>2. CASE ~cancelled /\ \E w \in Tasks : result[w] # "yes"
    BY <1>1, <2>2 DEF VerdictMatchesRows, Results, Through
  <2>3. CASE ~cancelled /\ \A w \in Tasks : result[w] = "yes"
    BY <1>1, <2>3 DEF VerdictMatchesRows, Results
  <2> QED
    BY <2>1, <2>2, <2>3
<1> QED
  BY <1>2, <1>3, <1>4

LEMMA CancelRunInv ==
  ASSUME WorkersInv, CancelRun
  PROVE  WorkersInv'
BY DEF WorkersInv, CancelRun, Locks, LockIsShort, Progress, At, Earned, Unwritten, Written, Results,
       Through, Settled, VerdictMatchesRows

LEMMA NextWorkersInv == WorkersInv /\ [Next]_vars => WorkersInv'
<1> SUFFICES ASSUME WorkersInv, [Next]_vars PROVE WorkersInv'
  OBVIOUS
<1>1. ASSUME NEW w \in Tasks, WorkerStep(w) PROVE WorkersInv'
  <2>1. TypeOK /\ Locks /\ Progress /\ Results /\ Settled /\ VerdictMatchesRows
    BY DEF WorkersInv
  <2>2. pc[w] = "harness" => step[w] = 1
    BY <2>1 DEF Progress, At
  <2>3. TypeOK'
    BY <1>1, <2>1, <2>2, StepTypeOK
  <2>4. Locks' /\ Progress' /\ Results'
    BY <1>1, <2>1, StepLocks, StepProgress, StepResults
  <2>5. Settled' /\ VerdictMatchesRows'
    BY <1>1, <2>1, StepSettled
  <2> QED
    BY <2>3, <2>4, <2>5 DEF WorkersInv
<1>2. CASE CancelRun
  BY <1>2, CancelRunInv
<1>3. CASE Judge
  BY <1>3, JudgeInv
<1>4. CASE UNCHANGED vars
  BY <1>4 DEF vars, WorkersInv, Locks, LockIsShort, Progress, At, Earned, Unwritten, Written, Results,
              Through, Settled, VerdictMatchesRows
<1> QED
  BY <1>1, <1>2, <1>3, <1>4 DEF Next

(* The inductive invariant holds in every reachable state. *)
THEOREM Invariant == Spec => []WorkersInv
BY InitWorkersInv, NextWorkersInv, PTL DEF Spec

(* The workers and the store keep their types (task_worker.py, db.py). *)
THEOREM TypeCorrect == Spec => []TypeOK
<1>1. WorkersInv => TypeOK
  BY DEF WorkersInv
<1> QED
  BY <1>1, Invariant, PTL

(* A row with success has the success of its harness and every mandatory    *)
(* artifact, whatever raises or is cancelled (task_worker.py:46-154).        *)
THEOREM SuccessEarned == Spec => []SuccessIsEarned
<1>1. WorkersInv => SuccessIsEarned
  BY DEF WorkersInv, Progress, Earned, Mandatory, SuccessIsEarned
<1> QED
  BY <1>1, Invariant, PTL

(* The write lock is kept past a commit only after one that raised or a     *)
(* cancellation, and never through a wait for a sandbox, a harness or the   *)
(* collection of artifacts (run_store.py:105-132, orchestrator.py:354-357).  *)
THEOREM LocksAreShort == Spec => []LockIsShort
<1>1. WorkersInv => LockIsShort
  BY DEF WorkersInv, Locks
<1> QED
  BY <1>1, Invariant, PTL

(* The verdict of the run agrees with the rows of its tasks                 *)
(* (orchestrator.py:293-300).                                                *)
THEOREM VerdictCorrect == Spec => []VerdictMatchesRows
<1>1. WorkersInv => VerdictMatchesRows
  BY DEF WorkersInv
<1> QED
  BY <1>1, Invariant, PTL

(* A judged run has no row that is left running (task_worker.py:144-154). *)
THEOREM NoneLeftRunning == Spec => []NoRowLeftRunning
<1>1. WorkersInv => NoRowLeftRunning
  BY DEF WorkersInv, Results, Through, Settled, NoRowLeftRunning
<1> QED
  BY <1>1, Invariant, PTL
===============================================================================
