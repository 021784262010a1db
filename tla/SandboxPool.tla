----------------------------- MODULE SandboxPool -----------------------------
(***************************************************************************)
(* The pool of sandbox containers of one run (sandbox/pool.py), with the   *)
(* clients that use it: the setup check, the harness task generator, then  *)
(* all task workers at once (orchestrator.py), who return their sandbox    *)
(* through ContainerIsolation (sandbox/isolation.py); with the container   *)
(* engine behind it (sandbox/manager.py, sandbox/clients); and with        *)
(* destroy_all at the end of the run.                                      *)
(*                                                                         *)
(* Every await at which the code can be suspended, fail or be cancelled is *)
(* a step of its own.  A sandbox is its index in the list _all_sandboxes,  *)
(* which is also the suffix of its container name.  The semaphore is its   *)
(* counter: which of the waiters it wakes first is left open.  Which       *)
(* failures can happen in a behavior is drawn once, at Init.               *)
(***************************************************************************)
EXTENDS Integers, FiniteSets

CONSTANTS Setup,      \* the client that checks the first sandbox
          TaskGen,    \* the client that generates the tasks
          Workers,    \* one client per task
          MaxSize,    \* max_size, the effective concurrency of the run
          FaultSets   \* the sets of faults that may happen in one behavior

Client == {Setup, TaskGen} \cup Workers

(* reset, cleanup, start, init: that call raises; destroy: a removal fails; *)
(* silent: a git checkout exits non-zero or times out, which nobody looks   *)
(* at; timeout: the exec of a client's command times out, and the command   *)
(* goes on in the container; cancel: Ctrl-C cancels the run.                *)
FaultKinds == {"reset", "cleanup", "start", "init", "destroy", "silent", "timeout", "cancel"}

ASSUME PoolAssumption ==
    /\ IsFiniteSet(Workers)
    /\ Setup \notin Workers /\ TaskGen \notin Workers /\ Setup # TaskGen
    /\ MaxSize \in Nat \ {0}
    /\ FaultSets \subseteq SUBSET FaultKinds

NoBox == -1

VARIABLES faults,     \* the faults of this behavior, fixed
          phase,      \* where the run is
          cancelled,  \* the run was cancelled
          hit,        \* clients the cancellation was delivered to
          permits,    \* value of the semaphore
          idle,       \* _idle
          made,       \* len(_all_sandboxes)
          gone,       \* how many of them destroy_all has dealt with
          pc, held,   \* where each client is, and its sandbox
          known,      \* sandboxes whose container_id is set
          up,         \* sandboxes whose container exists in the engine
          ghost,      \* abandoned starts that still run in a thread
          dirty,      \* sandboxes with changes a git checkout would undo
          missed,     \* sandboxes whose last git checkout failed
          stray       \* sandboxes in which a client left a command running

(* dirty is about unstaged changes and untracked files.  What a user staged *)
(* or committed, and what git ignores, stays in the sandbox for all later   *)
(* users: git checkout -- . && git clean -fd leaves it and exits with 0.    *)
vars == <<faults, phase, cancelled, hit, permits, idle, made, gone, pc, held,
          known, up, ghost, dirty, missed, stray>>
boxVars == <<known, up, ghost>>
treeVars == <<dirty, missed, stray>>
runVars == <<faults, phase, cancelled, gone>>

Ended    == {"done", "failed", "leaked"}
InPool   == {"resetting", "starting", "initializing", "using", "cleaning"}
Phases   == {"setup", "taskgen", "tasks", "teardown", "destroyed"}

ActiveIn(c) == CASE c = Setup -> "setup" [] c = TaskGen -> "taskgen" [] OTHER -> "tasks"

-----------------------------------------------------------------------------
Init == /\ faults \in FaultSets
        /\ phase = "setup" /\ cancelled = FALSE /\ hit = {}
        /\ permits = MaxSize /\ idle = {} /\ made = 0 /\ gone = 0
        /\ pc = [c \in Client |-> "waiting"]
        /\ held = [c \in Client |-> NoBox]
        /\ known = {} /\ up = {} /\ ghost = {} /\ dirty = {} /\ missed = {} /\ stray = {}

(* Mutants: the definitions named Bug_ are the ways the next definition    *)
(* could be wrong; PROJECT.json says which property each of them breaks.   *)
Bug_AcquireIdlePeeks(c) ==
    /\ phase = ActiveIn(c) /\ pc[c] = "waiting" /\ permits > 0
    /\ \E s \in idle : held' = [held EXCEPT ![c] = s]
    /\ permits' = permits - 1
    /\ pc' = [pc EXCEPT ![c] = "resetting"]
    /\ UNCHANGED <<runVars, hit, idle, made, boxVars, treeVars>>

(* acquire, with a sandbox in the idle queue *)
AcquireIdle(c) ==
    /\ phase = ActiveIn(c) /\ pc[c] = "waiting" /\ permits > 0
    /\ \E s \in idle : /\ idle' = idle \ {s}
                       /\ held' = [held EXCEPT ![c] = s]
    /\ permits' = permits - 1
    /\ pc' = [pc EXCEPT ![c] = "resetting"]
    /\ UNCHANGED <<runVars, hit, made, boxVars, treeVars>>

Bug_AcquireIgnoresIdle(c) ==
    /\ phase = ActiveIn(c) /\ pc[c] = "waiting" /\ permits > 0
    /\ permits' = permits - 1
    /\ made' = made + 1
    /\ held' = [held EXCEPT ![c] = made]
    /\ pc' = [pc EXCEPT ![c] = "starting"]
    /\ UNCHANGED <<runVars, hit, idle, boxVars, treeVars>>

(* acquire, with an empty queue: the new sandbox joins the list before it starts *)
AcquireCreate(c) ==
    /\ phase = ActiveIn(c) /\ pc[c] = "waiting" /\ permits > 0
    /\ idle = {}
    /\ permits' = permits - 1
    /\ made' = made + 1
    /\ held' = [held EXCEPT ![c] = made]
    /\ pc' = [pc EXCEPT ![c] = "starting"]
    /\ UNCHANGED <<runVars, hit, idle, boxVars, treeVars>>

(* git checkout -- . && git clean -fd in a sandbox, exit code ignored. *)
CheckedOut(s) ==
    /\ \/ dirty' = dirty \ {s} /\ missed' = missed \ {s}
       \/ "silent" \in faults /\ missed' = missed \cup {s} /\ UNCHANGED dirty
    /\ UNCHANGED stray

Bug_NoReset(c) ==
    /\ pc[c] = "resetting"
    /\ pc' = [pc EXCEPT ![c] = "using"]
    /\ UNCHANGED <<runVars, hit, permits, idle, made, held, boxVars, treeVars>>

ResetDone(c) ==
    /\ pc[c] = "resetting"
    /\ pc' = [pc EXCEPT ![c] = "using"]
    /\ CheckedOut(held[c])
    /\ UNCHANGED <<runVars, hit, permits, idle, made, held, boxVars>>

(* The client leaves the pool with neither its sandbox nor its permit returned. *)
Leak(c) ==
    /\ pc' = [pc EXCEPT ![c] = "leaked"]
    /\ held' = [held EXCEPT ![c] = NoBox]
    /\ UNCHANGED <<runVars, permits, idle, made, boxVars, treeVars>>

ResetRaises(c) ==
    /\ "reset" \in faults /\ pc[c] = "resetting"
    /\ Leak(c) /\ UNCHANGED hit

Bug_StartForgetsId(c) ==
    /\ pc[c] = "starting"
    /\ pc' = [pc EXCEPT ![c] = "initializing"]
    /\ up' = up \cup {held[c]}
    /\ UNCHANGED <<runVars, hit, permits, idle, made, held, known, ghost, treeVars>>

StartDone(c) ==
    /\ pc[c] = "starting"
    /\ pc' = [pc EXCEPT ![c] = "initializing"]
    /\ known' = known \cup {held[c]}
    /\ up' = up \cup {held[c]}
    /\ UNCHANGED <<runVars, hit, permits, idle, made, held, ghost, treeVars>>

InitDone(c) ==
    /\ pc[c] = "initializing"
    /\ pc' = [pc EXCEPT ![c] = "using"]
    /\ UNCHANGED <<runVars, hit, permits, idle, made, held, boxVars, treeVars>>

Bug_CreateKeepsPermit(c) ==
    /\ pc' = [pc EXCEPT ![c] = "failed"]
    /\ held' = [held EXCEPT ![c] = NoBox]
    /\ UNCHANGED <<runVars, permits, idle, made, known, treeVars>>

(* The except clause of acquire: the permit returns, the sandbox stays listed. *)
CreateFails(c) ==
    /\ permits' = permits + 1
    /\ pc' = [pc EXCEPT ![c] = "failed"]
    /\ held' = [held EXCEPT ![c] = NoBox]
    /\ UNCHANGED <<runVars, idle, made, known, treeVars>>

(* A start that fails or times out may have made the container all the same. *)
StartRaises(c) ==
    /\ "start" \in faults /\ pc[c] = "starting"
    /\ up' \in {up, up \cup {held[c]}}
    /\ CreateFails(c) /\ UNCHANGED <<hit, ghost>>

InitRaises(c) ==
    /\ "init" \in faults /\ pc[c] = "initializing"
    /\ CreateFails(c) /\ UNCHANGED <<hit, up, ghost>>

Bug_ReleaseForgets(c) ==
    /\ held' = [held EXCEPT ![c] = NoBox]
    /\ idle' = idle \cup {held'[c]}
    /\ permits' = permits + 1
    /\ pc' = [pc EXCEPT ![c] = "done"]

(* pool.release: idle.put and semaphore.release, with no suspension between *)
Release(c) ==
    /\ idle' = idle \cup {held[c]}
    /\ permits' = permits + 1
    /\ pc' = [pc EXCEPT ![c] = "done"]
    /\ held' = [held EXCEPT ![c] = NoBox]

(* The finally of a user: setup and task generation release, workers clean up first. *)
EndUse(c) ==
    IF c \in Workers
    THEN /\ pc' = [pc EXCEPT ![c] = "cleaning"]
         /\ UNCHANGED <<permits, idle, held>>
    ELSE Release(c)

(* What a user leaves in its sandbox; a command it no longer waits for may go on. *)
Worked(s, abandoned) ==
    /\ dirty' \in {dirty, dirty \cup {s}}
    /\ stray' \in {stray, stray \cup abandoned}
    /\ UNCHANGED missed

FinishUse(c) ==
    /\ pc[c] = "using"
    /\ Worked(held[c], IF "timeout" \in faults THEN {held[c]} ELSE {})
    /\ EndUse(c)
    /\ UNCHANGED <<runVars, hit, made, boxVars>>

CleanupDone(c) ==
    /\ pc[c] = "cleaning"
    /\ CheckedOut(held[c])
    /\ Release(c)
    /\ UNCHANGED <<runVars, hit, made, boxVars>>

CleanupRaises(c) ==
    /\ "cleanup" \in faults /\ pc[c] = "cleaning"
    /\ Leak(c) /\ UNCHANGED hit

-----------------------------------------------------------------------------
(* Ctrl-C cancels the main task; gather passes it on to every worker.  A   *)
(* cancellation during destroy_all leaves its loop: CancelledError is not  *)
(* an Exception.                                                           *)
CancelRun ==
    /\ "cancel" \in faults /\ ~cancelled /\ phase # "destroyed"
    /\ cancelled' = TRUE
    /\ phase' = IF phase = "teardown" THEN "destroyed" ELSE phase
    /\ UNCHANGED <<faults, gone, hit, permits, idle, made, pc, held, boxVars, treeVars>>

Bug_AcquireShielded(c) ==
    cancelled /\ phase = ActiveIn(c) /\ c \notin hit /\ pc[c] # "waiting"

Deliverable(c) == cancelled /\ phase = ActiveIn(c) /\ c \notin hit

CancelWaiting(c) ==
    /\ Deliverable(c) /\ pc[c] = "waiting"
    /\ hit' = hit \cup {c}
    /\ pc' = [pc EXCEPT ![c] = "failed"]
    /\ UNCHANGED <<runVars, permits, idle, made, held, boxVars, treeVars>>

(* asyncio.to_thread cannot stop its thread: docker run goes on without its awaiter. *)
CancelCreating(c) ==
    /\ Deliverable(c) /\ pc[c] \in {"starting", "initializing"}
    /\ hit' = hit \cup {c}
    /\ ghost' = IF pc[c] = "starting" THEN ghost \cup {held[c]} ELSE ghost
    /\ CreateFails(c) /\ UNCHANGED up

(* The command of the client runs in a thread that the cancellation does not stop. *)
CancelUsing(c) ==
    /\ Deliverable(c) /\ pc[c] = "using"
    /\ hit' = hit \cup {c}
    /\ Worked(held[c], {held[c]})
    /\ EndUse(c)
    /\ UNCHANGED <<runVars, made, boxVars>>

(* Neither the reset in acquire nor the cleanup in release is protected. *)
CancelCheckout(c) ==
    /\ Deliverable(c) /\ pc[c] \in {"resetting", "cleaning"}
    /\ hit' = hit \cup {c}
    /\ Leak(c)

GhostEnds(s) ==
    /\ s \in ghost
    /\ ghost' = ghost \ {s}
    /\ up' \in {up, up \cup {s}}
    /\ UNCHANGED <<runVars, hit, permits, idle, made, pc, held, known, treeVars>>

(* A command whose exec has timed out edits the worktree under whoever has it. *)
StrayEdits(s) ==
    /\ s \in stray \ dirty
    /\ dirty' = dirty \cup {s}
    /\ UNCHANGED <<runVars, hit, permits, idle, made, pc, held, boxVars, missed, stray>>

-----------------------------------------------------------------------------
NextPhase(p) == CASE p = "setup" -> {"taskgen", "tasks"}
                  [] p = "taskgen" -> {"tasks"}
                  [] OTHER -> {"teardown"}

(* gather without return_exceptions: the first failure ends it *)
Bug_GatherFirstFailure ==
    /\ phase \in {"setup", "taskgen", "tasks"}
    /\ \/ \A c \in Client : ActiveIn(c) = phase => pc[c] \in Ended
       \/ \E c \in Client : ActiveIn(c) = phase /\ pc[c] = "failed"
    /\ phase' \in {"teardown"} \cup
           (IF ~cancelled /\ \A c \in Client : ActiveIn(c) = phase => pc[c] = "done"
            THEN NextPhase(phase) ELSE {})
    /\ UNCHANGED <<faults, cancelled, gone, hit, permits, idle, made, pc, held, boxVars, treeVars>>

(* All clients of a phase have ended: gather waits for every worker.  A    *)
(* client that failed, a body that raised and a cancellation all go to the *)
(* finally clause of the run.                                              *)
PhaseEnds ==
    /\ phase \in {"setup", "taskgen", "tasks"}
    /\ \A c \in Client : ActiveIn(c) = phase => pc[c] \in Ended
    /\ phase' \in {"teardown"} \cup
           (IF ~cancelled /\ \A c \in Client : ActiveIn(c) = phase => pc[c] = "done"
            THEN NextPhase(phase) ELSE {})
    /\ UNCHANGED <<faults, cancelled, gone, hit, permits, idle, made, pc, held, boxVars, treeVars>>

(* One round of destroy_all: a raising removal is logged and its sandbox   *)
(* kept; rm -f runs with check=False, so a failing one is not noticed.     *)
DestroyNext ==
    /\ phase = "teardown" /\ gone < made
    /\ gone' = gone + 1
    /\ \/ gone \notin known /\ UNCHANGED <<known, up>>
       \/ gone \in known /\ known' = known \ {gone} /\ up' = up \ {gone}
       \/ "destroy" \in faults /\ gone \in known /\ known' = known \ {gone} /\ UNCHANGED up
       \/ "destroy" \in faults /\ gone \in known /\ UNCHANGED <<known, up>>
    /\ UNCHANGED <<faults, phase, cancelled, hit, permits, idle, made, pc, held, ghost, treeVars>>

DestroyEnds ==
    /\ phase = "teardown" /\ gone = made
    /\ phase' = "destroyed"
    /\ UNCHANGED <<faults, cancelled, gone, hit, permits, idle, made, pc, held, boxVars, treeVars>>

Progress(c) ==
    \/ AcquireIdle(c) \/ AcquireCreate(c) \/ ResetDone(c) \/ ResetRaises(c)
    \/ StartDone(c) \/ StartRaises(c) \/ InitDone(c) \/ InitRaises(c)
    \/ FinishUse(c) \/ CleanupDone(c) \/ CleanupRaises(c)

Cancelled(c) == CancelWaiting(c) \/ CancelCreating(c) \/ CancelUsing(c) \/ CancelCheckout(c)

RunStep == PhaseEnds \/ DestroyNext \/ DestroyEnds

(* What goes on in threads and containers that nobody waits for. *)
Background == (\E s \in ghost : GhostEnds(s)) \/ (\E s \in stray : StrayEdits(s))

Next == \/ \E c \in Client : Progress(c) \/ Cancelled(c)
        \/ Background
        \/ CancelRun \/ RunStep

Spec == Init /\ [][Next]_vars

(* Every command the pool awaits carries a timeout and asyncio delivers a  *)
(* cancellation, so a client whose step stays possible takes it.  No       *)
(* client has to acquire twice, so weak fairness is enough for waiters.    *)
FairSpec == Spec /\ WF_vars(RunStep)
                 /\ \A c \in Client : WF_vars(Progress(c)) /\ WF_vars(Cancelled(c))

-----------------------------------------------------------------------------
(* Type invariant of the pool, its clients and the engine (pool.py:17-30). *)
TypeOK ==
    /\ faults \in SUBSET FaultKinds
    /\ phase \in Phases /\ cancelled \in BOOLEAN /\ hit \subseteq Client
    /\ permits \in Nat /\ made \in Nat /\ gone \in Nat
    /\ pc \in [Client -> {"waiting"} \cup InPool \cup Ended]
    /\ held \in [Client -> Nat \cup {NoBox}]
    /\ idle \subseteq Nat /\ known \subseteq Nat /\ up \subseteq Nat
    /\ ghost \subseteq Nat /\ dirty \subseteq Nat
    /\ missed \subseteq Nat /\ stray \subseteq Nat

Occupying == {c \in Client : pc[c] \in InPool \cup {"leaked"}}
Failing   == {c \in Client : pc[c] = "failed"}

(* No sandbox is ever with two clients, or with a client and in the idle   *)
(* queue, whatever fails or is cancelled on the way (acquire and release,  *)
(* pool.py:32-47): two tasks never edit one worktree.                      *)
ExclusiveUse ==
    \A c \in Client : held[c] # NoBox =>
        /\ held[c] \notin idle
        /\ \A d \in Client \ {c} : held[d] # held[c]

(* The semaphore is exact: a permit is in the counter, with a client inside *)
(* the pool, or lost with a client whose reset or cleanup did not complete; *)
(* a failed creation always gives its permit back (pool.py:38-43).          *)
PermitAccounting == permits + Cardinality(Occupying) = MaxSize

(* The engine never holds more containers than max_size plus one for every *)
(* client whose creation failed: such a sandbox keeps its container until  *)
(* destroy_all although its permit is given back (pool.py:38-43, 61).       *)
ContainerBound == Cardinality(up) <= MaxSize + Cardinality(Failing)

(* A user finds unstaged changes or untracked files of an earlier user only *)
(* where the last git checkout of that very sandbox failed unseen, or where *)
(* an earlier user left a command running: in every other case the reset on *)
(* acquire covers the users that release without a cleanup, and those whose *)
(* cleanup failed (pool.py:34-37, 53-54, isolation.py:44-45, 56-58).        *)
CleanStart ==
    \A c \in Client :
        pc[c] = "using" /\ held[c] \in dirty => held[c] \in missed \cup stray

(* The container of a sandbox a client works in exists and is known to its *)
(* manager: destroy_all never runs under a client, since gather waits for  *)
(* cancelled workers too (orchestrator.py:359-360, pool.py:67-73).          *)
InUseIsUp ==
    \A c \in Client : pc[c] \in InPool \ {"starting"} => held[c] \in up \cap known

(* After destroy_all no container of the run is left in the engine, even if *)
(* resets, cleanups and initialisations failed; it takes a failed start, a  *)
(* failed removal or a cancellation to leave one (pool.py:56-73).            *)
NoContainerLeft ==
    phase = "destroyed" /\ faults \cap {"start", "destroy", "cancel"} = {} => up = {}

(* The run reaches the end of destroy_all unless every permit was lost to  *)
(* an unprotected reset or cleanup: that is the only way gather waits for  *)
(* ever (pool.py:33-37, isolation.py:56-58).                                *)
HangsOnlyWhenDrained ==
    <>(phase = "destroyed" \/ Cardinality({c \in Client : pc[c] = "leaked"}) = MaxSize)

(* Cancelling the run ends it even when permits were lost: the waiters are *)
(* cancelled too (orchestrator.py:359-360).                                *)
CancelTearsDown == cancelled ~> phase = "destroyed"

(* The pool implements ResourcePool: seen by its clients, every step of it, *)
(* failures and cancellations included, is one of the six that ResourcePool *)
(* allows, or none (pool.py:32-47, isolation.py:56-58).                     *)
Stage(at) == CASE at = "waiting" -> "out"
               [] at \in InPool -> "in"
               [] at = "done" -> "back"
               [] at = "failed" -> "failed"
               [] OTHER -> "lost"

RP == INSTANCE ResourcePool WITH None <- NoBox, owns <- held,
                                 stage <- [c \in Client |-> Stage(pc[c])]

ImplementsResourcePool == RP!RPSpec

(* The claim of tests/test_sandbox_pool.py:194, acquire releases the        *)
(* semaphore on an exception: once every client has ended or never started, *)
(* all the permits are back.  It fails for an exception of the reset.       *)
AcquireReturnsPermitOnException ==
    (\A c \in Client : pc[c] \in Ended \cup {"waiting"}) => permits = MaxSize

=============================================================================
