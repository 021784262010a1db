----------------------------- MODULE TaskWorkers -----------------------------
(***************************************************************************)
(* The task workers of one run (orchestrator.py _run_tasks_concurrent,     *)
(* task_worker.py) and what they write to the SQLite store                 *)
(* (run_store.py).  Every worker has a connection of its own.  A store     *)
(* operation is two awaits, execute and commit: execute opens a            *)
(* transaction and takes the one write lock of the database, commit        *)
(* publishes the transaction and frees the lock.  A commit that raises can *)
(* leave the transaction open; the next statement then joins it.           *)
(*                                                                         *)
(* The sandbox of a worker is the business of SandboxPool: here acquiring  *)
(* it works, raises or never ends, and releasing it works or raises.       *)
(***************************************************************************)
EXTENDS Naturals, Sequences, FiniteSets

CONSTANTS Tasks,         \* one worker per task
          ArtifactKinds, \* the artifacts a worker records, in their order
          Optional,      \* those it records only when there is something to record
          FaultSets      \* the sets of faults that may happen in one behavior

(* acquire: the connection or the sandbox cannot be had; harness: run_task *)
(* raises; collect: saving or collecting an artifact raises; busy: another *)
(* process keeps the write lock for the whole busy_timeout; commit: a      *)
(* commit raises; release: giving the sandbox back raises; cancel: Ctrl-C. *)
FaultKinds == {"acquire", "harness", "collect", "busy", "commit", "release", "cancel"}

Kinds == {ArtifactKinds[i] : i \in DOMAIN ArtifactKinds}

Nobody == "nobody"

ASSUME WorkersAssumption ==
    /\ IsFiniteSet(Tasks) /\ Nobody \notin Tasks
    /\ ArtifactKinds \in Seq(Kinds) /\ Kinds \cap {"running", "completed", "failed"} = {}
    /\ Optional \subseteq Kinds
    /\ FaultSets \subseteq SUBSET FaultKinds

(* The statements of execute, in order.  "tests_passed" is the update that  *)
(* follows the artifact "test_result".                                     *)
Plan == <<"running">> \o ArtifactKinds \o <<"completed">>

VARIABLES faults,    \* the faults of this behavior, fixed
          pc,        \* where each worker is
          step,      \* its statement in Plan
          outcome,   \* HarnessResult.success, "none" before the harness ended
          db,        \* the committed row and artifacts of each task
          txn,       \* the same as seen by the worker's open transaction
          lock,      \* the worker whose transaction holds the write lock
          result,    \* what gather gets from the worker
          cancelled, \* the run was cancelled
          verdict    \* how _execute_run judges the results

vars == <<faults, pc, step, outcome, db, txn, lock, result, cancelled, verdict>>

Image == [status: {"pending", "running", "completed", "failed"},
          success: {"none", "yes", "no"}, arts: SUBSET Kinds]

Fresh == [status |-> "pending", success |-> "none", arts |-> {}]

Main    == {"stmt", "commit", "harness"}
Handler == {"failStmt", "failCommit"}

Init == /\ faults \in FaultSets
        /\ pc = [w \in Tasks |-> "acquire"] /\ step = [w \in Tasks |-> 1]
        /\ outcome = [w \in Tasks |-> "none"]
        /\ db = [w \in Tasks |-> Fresh] /\ txn = [w \in Tasks |-> Fresh]
        /\ lock = Nobody
        /\ result = [w \in Tasks |-> "none"]
        /\ cancelled = FALSE /\ verdict = "none"

Goto(w, at) == pc' = [pc EXCEPT ![w] = at]
Result(w, r) == result' = [result EXCEPT ![w] = r]
FreeLock(w) == lock' = IF lock = w THEN Nobody ELSE lock

-----------------------------------------------------------------------------
Acquire(w) ==
    /\ pc[w] = "acquire"
    /\ Goto(w, "stmt")
    /\ UNCHANGED <<faults, step, outcome, db, txn, lock, result, cancelled, verdict>>

(* Nothing catches it inside the worker: the row stays pending. *)
AcquireRaises(w) ==
    /\ "acquire" \in faults /\ pc[w] = "acquire"
    /\ Goto(w, "closed") /\ Result(w, "no")
    /\ UNCHANGED <<faults, step, outcome, db, txn, lock, cancelled, verdict>>

Bug_CompletedMeansSuccess(w, s, image) ==
    CASE s = "running"   -> [image EXCEPT !.status = "running"]
      [] s = "completed" -> [image EXCEPT !.status = "completed", !.success = "yes"]
      [] s = "failed"    -> [image EXCEPT !.status = "failed"]
      [] OTHER           -> [image EXCEPT !.arts = @ \cup {s}]

(* update_task sets only the columns it is given: a failure leaves success alone. *)
Apply(w, s, image) ==
    CASE s = "running"   -> [image EXCEPT !.status = "running"]
      [] s = "completed" -> [image EXCEPT !.status = "completed", !.success = outcome[w]]
      [] s = "failed"    -> [image EXCEPT !.status = "failed"]
      [] OTHER           -> [image EXCEPT !.arts = @ \cup {s}]

Write(w, s) ==
    /\ lock \in {Nobody, w}
    /\ lock' = w
    /\ txn' = [txn EXCEPT ![w] = Apply(w, s, @)]

(* changed_files, diff and test_result are recorded only if there are any, *)
(* tests_passed exactly when test_result was.                              *)
MaySkip(w) ==
    \/ Plan[step[w]] \in Optional
    \/ Plan[step[w]] = "tests_passed" /\ "test_result" \notin txn[w].arts

MayWrite(w) == Plan[step[w]] = "tests_passed" => "test_result" \in txn[w].arts

Bug_RunningUncommitted(w) ==
    /\ pc[w] = "stmt" /\ MayWrite(w)
    /\ Write(w, Plan[step[w]])
    /\ Goto(w, IF Plan[step[w]] = "running" THEN "harness" ELSE "commit")
    /\ UNCHANGED <<faults, step, outcome, db, result, cancelled, verdict>>

Execute(w) ==
    /\ pc[w] = "stmt" /\ MayWrite(w)
    /\ Write(w, Plan[step[w]]) /\ Goto(w, "commit")
    /\ UNCHANGED <<faults, step, outcome, db, result, cancelled, verdict>>

SkipOptional(w) ==
    /\ pc[w] = "stmt" /\ MaySkip(w)
    /\ step' = [step EXCEPT ![w] = @ + 1]
    /\ UNCHANGED <<faults, pc, outcome, db, txn, lock, result, cancelled, verdict>>

Bug_StepAfterLast(w) ==
    CASE Plan[step[w]] = "running" ->
             Goto(w, "harness") /\ UNCHANGED <<step, result>>
      [] Plan[step[w]] = "completed" ->
             Goto(w, "release") /\ Result(w, outcome[w]) /\ step' = [step EXCEPT ![w] = @ + 1]
      [] OTHER ->
             Goto(w, "stmt") /\ step' = [step EXCEPT ![w] = @ + 1] /\ UNCHANGED result

(* What follows a commit: the harness after the first, the return after the last. *)
AfterCommit(w) ==
    CASE Plan[step[w]] = "running" ->
             Goto(w, "harness") /\ UNCHANGED <<step, result>>
      [] Plan[step[w]] = "completed" ->
             Goto(w, "release") /\ Result(w, outcome[w]) /\ UNCHANGED step
      [] OTHER ->
             Goto(w, "stmt") /\ step' = [step EXCEPT ![w] = @ + 1] /\ UNCHANGED result

Commit(w) ==
    /\ pc[w] = "commit"
    /\ db' = [db EXCEPT ![w] = txn[w]] /\ FreeLock(w)
    /\ AfterCommit(w)
    /\ UNCHANGED <<faults, outcome, txn, cancelled, verdict>>

Harness(w) ==
    /\ pc[w] = "harness"
    /\ \E r \in {"yes", "no"} : outcome' = [outcome EXCEPT ![w] = r]
    /\ Goto(w, "stmt") /\ step' = [step EXCEPT ![w] = @ + 1]
    /\ UNCHANGED <<faults, db, txn, lock, result, cancelled, verdict>>

-----------------------------------------------------------------------------
(* The except clause of execute: one more update, whose failure is swallowed. *)
ToHandler(w) == Goto(w, "failStmt")

RunTaskRaises(w) ==
    /\ "harness" \in faults /\ pc[w] = "harness"
    /\ ToHandler(w)
    /\ UNCHANGED <<faults, step, outcome, db, txn, lock, result, cancelled, verdict>>

CollectRaises(w) ==
    /\ "collect" \in faults /\ pc[w] = "stmt"
    /\ Plan[step[w]] \in Kinds
    /\ ToHandler(w)
    /\ UNCHANGED <<faults, step, outcome, db, txn, lock, result, cancelled, verdict>>

Bug_HandlerGivesUp(w) ==
    /\ pc[w] = "failStmt"
    /\ Goto(w, "release") /\ Result(w, "no")
    /\ UNCHANGED <<faults, step, outcome, db, txn, lock, cancelled, verdict>>

FailExecute(w) ==
    /\ pc[w] = "failStmt"
    /\ Write(w, "failed") /\ Goto(w, "failCommit")
    /\ UNCHANGED <<faults, step, outcome, db, result, cancelled, verdict>>

FailCommit(w) ==
    /\ pc[w] = "failCommit"
    /\ db' = [db EXCEPT ![w] = txn[w]] /\ FreeLock(w)
    /\ Goto(w, "release") /\ Result(w, "no")
    /\ UNCHANGED <<faults, step, outcome, txn, cancelled, verdict>>

Bug_StoreRetried(w) == ToHandler(w) /\ UNCHANGED result

(* Where an exception of the store takes the worker. *)
StoreRaised(w) ==
    IF pc[w] \in Handler THEN Goto(w, "release") /\ Result(w, "no")
                         ELSE ToHandler(w) /\ UNCHANGED result

(* busy_timeout is longer than a commit takes: to raise, the lock has to be *)
(* kept by another process, or by a worker that holds it past its commit.   *)
LockKept(w) == lock \in Tasks \ {w} /\ pc[lock] \notin {"commit", "failCommit"}

BusyRaises(w) ==
    /\ pc[w] \in {"stmt", "failStmt"} /\ lock # w
    /\ "busy" \in faults \/ LockKept(w)
    /\ StoreRaised(w)
    /\ UNCHANGED <<faults, step, outcome, db, txn, lock, cancelled, verdict>>

(* The transaction is rolled back or stays open, with the lock. *)
CommitRaises(w) ==
    /\ "commit" \in faults /\ pc[w] \in {"commit", "failCommit"}
    /\ \/ UNCHANGED <<txn, lock>>
       \/ txn' = [txn EXCEPT ![w] = db[w]] /\ FreeLock(w)
    /\ StoreRaised(w)
    /\ UNCHANGED <<faults, step, outcome, db, cancelled, verdict>>

-----------------------------------------------------------------------------
(* The first finally clause: cleanup of the sandbox, up to the 300 s of its *)
(* command, with the connection as it is.                                   *)
Release(w) ==
    /\ pc[w] = "release"
    /\ Goto(w, "closing")
    /\ UNCHANGED <<faults, step, outcome, db, txn, lock, result, cancelled, verdict>>

(* A raising release replaces the result that was about to be returned. *)
ReleaseRaises(w) ==
    /\ "release" \in faults /\ pc[w] = "release"
    /\ Goto(w, "closing") /\ Result(w, "no")
    /\ UNCHANGED <<faults, step, outcome, db, txn, lock, cancelled, verdict>>

(* Closing the connection rolls an open transaction back. *)
CloseStore(w) ==
    /\ txn' = [txn EXCEPT ![w] = db[w]] /\ FreeLock(w)
    /\ Goto(w, "closed")

(* The second finally clause *)
Close(w) ==
    /\ pc[w] = "closing"
    /\ CloseStore(w)
    /\ UNCHANGED <<faults, step, outcome, db, result, cancelled, verdict>>

CancelRun ==
    /\ "cancel" \in faults /\ ~cancelled /\ verdict = "none"
    /\ cancelled' = TRUE
    /\ UNCHANGED <<faults, pc, step, outcome, db, txn, lock, result, verdict>>

CancelAcquiring(w) ==
    /\ cancelled /\ pc[w] = "acquire"
    /\ Goto(w, "closed") /\ Result(w, "cancelled")
    /\ UNCHANGED <<faults, step, outcome, db, txn, lock, cancelled, verdict>>

(* CancelledError passes both except clauses and goes to the release.  The *)
(* call in flight is still carried out by the thread of the connection:    *)
(* the statement of an execute, the commit of a commit.  An open           *)
(* transaction stays open until the connection is closed.                  *)
CancelWorker(w) ==
    /\ cancelled /\ pc[w] \in Main \cup Handler
    /\ \/ UNCHANGED <<db, txn, lock>>
       \/ pc[w] = "stmt" /\ MayWrite(w) /\ Write(w, Plan[step[w]]) /\ UNCHANGED db
       \/ pc[w] = "failStmt" /\ Write(w, "failed") /\ UNCHANGED db
       \/ /\ pc[w] \in {"commit", "failCommit"}
          /\ db' = [db EXCEPT ![w] = txn[w]] /\ FreeLock(w) /\ UNCHANGED txn
    /\ Goto(w, "release") /\ Result(w, "cancelled")
    /\ UNCHANGED <<faults, step, outcome, cancelled, verdict>>

(* The connection is closed even if the release is cancelled. *)
CancelReleasing(w) ==
    /\ cancelled /\ pc[w] = "release" /\ result[w] # "cancelled"
    /\ Goto(w, "closing") /\ Result(w, "cancelled")
    /\ UNCHANGED <<faults, step, outcome, db, txn, lock, cancelled, verdict>>

CancelClosing(w) ==
    /\ cancelled /\ pc[w] = "closing" /\ result[w] # "cancelled"
    /\ Result(w, "cancelled") /\ CloseStore(w)
    /\ UNCHANGED <<faults, step, outcome, db, cancelled, verdict>>

-----------------------------------------------------------------------------
Bug_AnyTaskDecides ==
    /\ verdict = "none" /\ \A w \in Tasks : pc[w] = "closed"
    /\ verdict' = CASE cancelled -> "cancelled"
                    [] ~cancelled /\ (\E w \in Tasks : result[w] = "yes") -> "completed"
                    [] OTHER -> "failed"
    /\ UNCHANGED <<faults, pc, step, outcome, db, txn, lock, result, cancelled>>

(* gather has every result; one unsuccessful task fails the run, and after *)
(* a cancellation nobody judges: the status of the run stays as it is.     *)
Judge ==
    /\ verdict = "none" /\ \A w \in Tasks : pc[w] = "closed"
    /\ verdict' = CASE cancelled -> "cancelled"
                    [] ~cancelled /\ (\E w \in Tasks : result[w] # "yes") -> "failed"
                    [] OTHER -> "completed"
    /\ UNCHANGED <<faults, pc, step, outcome, db, txn, lock, result, cancelled>>

Waits(w) == Acquire(w) \/ AcquireRaises(w)

Works(w) ==
    \/ Execute(w) \/ SkipOptional(w) \/ Commit(w) \/ Harness(w) \/ RunTaskRaises(w)
    \/ CollectRaises(w) \/ FailExecute(w) \/ FailCommit(w) \/ BusyRaises(w)
    \/ CommitRaises(w) \/ Release(w) \/ ReleaseRaises(w) \/ Close(w)
    \/ CancelAcquiring(w) \/ CancelWorker(w) \/ CancelReleasing(w) \/ CancelClosing(w)

WorkerStep(w) == Waits(w) \/ Works(w)

Next == (\E w \in Tasks : WorkerStep(w)) \/ CancelRun \/ Judge

Spec == Init /\ [][Next]_vars

(* Commands carry timeouts, SQLite serves the waiters of the lock or refuses *)
(* them, and asyncio delivers a cancellation, so a worker whose step stays  *)
(* possible takes it; nobody needs the lock infinitely often, so weak       *)
(* fairness is enough.  Nothing bounds the wait for a sandbox: Acquire is   *)
(* not fair.                                                                *)
FairSpec == Spec /\ WF_vars(Judge) /\ \A w \in Tasks : WF_vars(Works(w))

-----------------------------------------------------------------------------
(* Type invariant of the workers and the store (task_worker.py, db.py).     *)
TypeOK ==
    /\ faults \in SUBSET FaultKinds
    /\ pc \in [Tasks -> {"acquire", "release", "closing", "closed"} \cup Main \cup Handler]
    /\ step \in [Tasks -> 1..Len(Plan)]
    /\ outcome \in [Tasks -> {"none", "yes", "no"}]
    /\ db \in [Tasks -> Image] /\ txn \in [Tasks -> Image]
    /\ lock \in Tasks \cup {Nobody}
    /\ result \in [Tasks -> {"none", "yes", "no", "cancelled"}]
    /\ cancelled \in BOOLEAN
    /\ verdict \in {"none", "completed", "failed", "cancelled"}

(* What the exporter takes (the rows with success, openai_messages.py:31)   *)
(* was earned: the harness succeeded and every mandatory artifact is stored. *)
(* Only a commit that raised can leave such a row with status failed         *)
(* (task_worker.py:137-150, run_store.py:105-115).                            *)
SuccessIsEarned ==
    \A w \in Tasks : db[w].success = "yes" =>
        /\ outcome[w] = "yes" /\ Kinds \ (Optional \cup {"tests_passed"}) \subseteq db[w].arts
        /\ db[w].status = "completed" \/ "commit" \in faults

(* The verdict of a run agrees with what the database holds, whatever was   *)
(* swallowed on the way: a completed run has only rows committed as         *)
(* completed and successful, and a failed one has a row that is not, unless *)
(* a release replaced the result of a task whose row was already committed  *)
(* or a failing commit left the row half updated (orchestrator.py:293-300,  *)
(* 354-369, task_worker.py:137-154).                                         *)
VerdictMatchesRows ==
    /\ verdict = "completed" =>
           \A w \in Tasks : db[w].status = "completed" /\ db[w].success = "yes"
    /\ verdict = "failed" /\ faults \cap {"release", "commit"} = {} =>
           \E w \in Tasks : db[w].success # "yes"

(* When the run is judged no row is left running, and none is left pending *)
(* whose worker had a sandbox: it takes a store error or a cancellation     *)
(* (task_worker.py:144-154).                                                *)
NoRowLeftRunning ==
    verdict # "none" /\ faults \cap {"busy", "commit", "cancel"} = {} =>
        \A w \in Tasks : \/ db[w].status \in {"completed", "failed"}
                         \/ db[w].status = "pending" /\ "acquire" \in faults

(* No worker keeps the others from writing while it waits for a sandbox,    *)
(* runs its harness or collects artifacts, whatever failed before; and only *)
(* a commit that raised or a cancellation makes it keep the write lock      *)
(* through its handler and the release of its sandbox, until the            *)
(* connection is closed (run_store.py:105-132, orchestrator.py:354-357).    *)
LockIsShort ==
    \A w \in Tasks : lock = w =>
        \/ pc[w] \in {"commit", "failCommit"}
        \/ pc[w] \in {"failStmt", "release", "closing"} /\ faults \cap {"commit", "cancel"} # {}

(* Only a worker that waits for a sandbox for ever, in a run nobody cancels, *)
(* can keep the run from being judged: no order of statements, failing       *)
(* commits, kept locks and cancellations does (db.py:8-16, task_worker.py:   *)
(* 144-154, orchestrator.py:348-360).                                         *)
RunIsJudged ==
    \/ <>(verdict # "none")
    \/ \E w \in Tasks : <>[](pc[w] = "acquire" /\ ~cancelled)
=============================================================================
