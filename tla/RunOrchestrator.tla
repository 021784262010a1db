--------------------------- MODULE RunOrchestrator ---------------------------
(***************************************************************************)
(* One run from run() to its answer (orchestrator/orchestrator.py): the    *)
(* row of the run, the rows of its tasks, the resources it takes (logging  *)
(* proxy, network, containers), its events, and the except and finally     *)
(* clauses that end it; then the cleanup command.                          *)
(*                                                                         *)
(* The steps of the body are the awaits of _execute_run, in their order; a *)
(* step is skipped when the configuration does not need it.  Inside, the   *)
(* pool is SandboxPool and the task phase is TaskWorkers: here they yield  *)
(* containers and a verdict.                                               *)
(***************************************************************************)
EXTENDS Naturals, Sequences

CONSTANTS Configs,  \* the configurations that are run
          FaultSets \* the sets of faults that may happen in one behavior

(* mock: harness.type; taskgen: the tasks are in the plan, or a harness,   *)
(* real or mock, makes them; proxyOnly: the network mode; dry: dry_run;    *)
(* engine: sandbox.engine; found: the engine auto_detect_runtime finds.    *)
Config == [mock: BOOLEAN, taskgen: {"planned", "harness", "mock"},
           proxyOnly: BOOLEAN, dry: BOOLEAN,
           engine: {"podman", "docker"}, found: {"podman", "docker"}]

(* error: a step other than a store operation raises; store: a store       *)
(* operation does; duplicate: two tasks of the plan have one id; port: the *)
(* port of the proxy is taken; drained: the task phase waits for ever for  *)
(* permits; removal: the engine does not remove what it is told to, or not *)
(* in time; slow: a request is with the proxy for longer than _stop_proxy  *)
(* waits; cancel: Ctrl-C; crash: the process dies.                          *)
FaultKinds == {"error", "store", "duplicate", "port", "drained", "removal",
               "slow", "cancel", "crash"}

(* A podman that is installed is preferred to docker. *)
ASSUME OrchestratorAssumption ==
    /\ Configs \subseteq {c \in Config : c.engine = "podman" => c.found = "podman"}
    /\ FaultSets \subseteq SUBSET FaultKinds

VARIABLES cfg, faults, \* fixed in a behavior
          pc,          \* the step the run is at
          row,         \* committed status of the run
          taskRows,    \* the committed task rows: none, some or all of them
          proxy,       \* off, on, draining: told to exit, it waits for its requests,
                       \* or orphan: it runs and nobody can stop it
          net,         \* the network of the run exists
          created,     \* created_network is set
          pool,        \* pool is set
          boxes,       \* kinds of containers that exist: known to the pool or lost
          verdict,     \* what the results of the tasks say
          events,      \* the events emitted so far
          exc,         \* the exception on its way; cut: it left the finally clause
          answer,      \* what the caller of run() got
          cleaned      \* where the cleanup command after the run is

vars == <<cfg, faults, pc, row, taskRows, proxy, net, created, pool, boxes,
          verdict, events, exc, answer, cleaned>>
given    == <<cfg, faults>>
resources == <<proxy, net, created, pool, boxes>>
reports  == <<events, answer, cleaned>>

NeedsTaskgen == cfg.taskgen # "planned"
NeedsSandbox == ~cfg.mock \/ NeedsTaskgen
NeedsProxy   == ~cfg.mock \/ cfg.taskgen = "harness"

(* The run up to the end of the try statement, in order. *)
Steps == <<"create", "register", "dry", "proxy", "network", "pool", "probe",
           "taskgen", "registerLate", "start", "tasks", "distribute", "judge">>

Needed(p) ==
    CASE p = "register"          -> ~NeedsTaskgen
      [] p = "dry"               -> cfg.dry
      [] p = "proxy"             -> NeedsProxy
      [] p = "network"           -> NeedsSandbox /\ cfg.proxyOnly
      [] p \in {"pool", "probe"} -> NeedsSandbox
      [] p \in {"taskgen", "registerLate"} -> NeedsTaskgen
      [] p = "distribute"        -> ~cfg.mock
      [] OTHER                   -> TRUE

(* On to the next step this run does not skip. *)
GoOn == \E i, j \in DOMAIN Steps :
            /\ Steps[i] = pc /\ i < j /\ Needed(Steps[j])
            /\ \A k \in (i + 1)..(j - 1) : ~Needed(Steps[k])
            /\ pc' = Steps[j]

(* The steps before the try statement, those in it, and the finally clause. *)
Outside == {"create", "register", "dry"}
Inside  == {Steps[i] : i \in DOMAIN Steps} \ Outside
Ending  == {"removeNetwork", "destroyAll", "stopProxy"}

StatusAfter(p, v) ==
    CASE p = "create" -> "pending"
      [] p = "dry"    -> "completed"
      [] p = "start"  -> "running"
      [] p = "judge"  -> IF v = "bad" THEN "failed" ELSE "completed"
      [] p = "except" -> "failed"
      [] OTHER        -> row

Answer(a) == pc' = "end" /\ answer' = a
Emit(e)   == events' = Append(events, e)

-----------------------------------------------------------------------------
Init == /\ cfg \in Configs /\ faults \in FaultSets
        /\ pc = "create" /\ row = "none" /\ taskRows = "none"
        /\ proxy = "off" /\ net = FALSE /\ created = FALSE
        /\ pool = FALSE /\ boxes = {}
        /\ verdict = "none" /\ events = <<>> /\ exc = "none"
        /\ answer = "none" /\ cleaned = "no"

CreateRun ==
    /\ pc = "create" /\ GoOn
    /\ row' = StatusAfter(pc, verdict)
    /\ UNCHANGED <<given, taskRows, resources, verdict, exc, reports>>

(* create_task for every task of the plan, before the try statement when the *)
(* plan has its tasks, else after the generator made them.                    *)
RegisterTasks ==
    /\ pc \in {"register", "registerLate"}
    /\ pc = "register" => "duplicate" \notin faults
    /\ taskRows' = "all" /\ GoOn
    /\ UNCHANGED <<given, row, resources, verdict, exc, reports>>

DryRun ==
    /\ pc = "dry"
    /\ row' = StatusAfter(pc, verdict) /\ Answer("returned")
    /\ UNCHANGED <<given, taskRows, resources, verdict, exc, events, cleaned>>

StartProxy ==
    /\ pc = "proxy" /\ "port" \notin faults
    /\ proxy' = "on" /\ GoOn
    /\ UNCHANGED <<given, row, taskRows, net, created, pool, boxes, verdict, exc, reports>>

CreateNetwork ==
    /\ pc = "network"
    /\ net' = TRUE /\ created' = TRUE /\ GoOn
    /\ UNCHANGED <<given, row, taskRows, proxy, pool, boxes, verdict, exc, reports>>

(* The pool, and the first sandbox from it. *)
OpenPool ==
    /\ pc = "pool"
    /\ pool' = TRUE /\ boxes' = boxes \cup {"known"} /\ GoOn
    /\ UNCHANGED <<given, row, taskRows, proxy, net, created, verdict, exc, reports>>

(* The setup check, the task generation, and the distribution of the trace *)
(* leave nothing behind that matters here.                                 *)
PassThrough ==
    /\ pc \in {"probe", "taskgen", "distribute"} /\ GoOn
    /\ UNCHANGED <<given, row, taskRows, resources, verdict, exc, reports>>

StartRun ==
    /\ pc = "start" /\ GoOn
    /\ row' = StatusAfter(pc, verdict) /\ Emit("run_started")
    /\ UNCHANGED <<given, taskRows, resources, verdict, exc, answer, cleaned>>

(* The results of the tasks.  gather turns exceptions into failed results; *)
(* mock tasks succeed or raise.                                            *)
RunTasks ==
    /\ pc = "tasks" /\ GoOn
    /\ ~cfg.mock => "drained" \notin faults
    /\ verdict' \in IF cfg.mock THEN {"ok"} ELSE {"ok", "bad"}
    /\ boxes' \in {boxes} \cup
           (IF ~cfg.mock /\ "error" \in faults THEN {boxes \cup {"lost"}} ELSE {})
    /\ UNCHANGED <<given, row, taskRows, proxy, net, created, pool, exc, reports>>

Bug_JudgeAlwaysCompleted ==
    /\ pc = "judge"
    /\ row' = StatusAfter(pc, verdict) /\ pc' = "removeNetwork" /\ Emit("run_completed")
    /\ UNCHANGED <<given, taskRows, resources, verdict, exc, answer, cleaned>>

Bug_JudgeStoresVerdict ==
    /\ pc = "judge"
    /\ row' = verdict /\ pc' = "removeNetwork" /\ Emit("run_completed")
    /\ UNCHANGED <<given, taskRows, resources, verdict, exc, answer, cleaned>>

Judge ==
    /\ pc = "judge"
    /\ row' = StatusAfter(pc, verdict) /\ pc' = "removeNetwork"
    /\ Emit(IF verdict = "bad" THEN "run_failed" ELSE "run_completed")
    /\ UNCHANGED <<given, taskRows, resources, verdict, exc, answer, cleaned>>

-----------------------------------------------------------------------------
(* What a step that raises or is cancelled may have done by then. *)
Partly ==
    /\ taskRows' \in {taskRows} \cup
           (IF pc \in {"register", "registerLate"} THEN {"some"} ELSE {})
    /\ net' \in {net} \cup (IF pc = "network" THEN {TRUE} ELSE {})
    /\ pool' \in {pool} \cup (IF pc = "pool" THEN {TRUE} ELSE {})
    /\ boxes' \in {boxes} \cup
           (CASE pc = "pool" /\ pool' -> {{"known"}, {"lost"}}
              [] pc = "tasks" /\ ~cfg.mock -> {boxes \cup {"lost"}}
              [] OTHER -> {})

StoreRaises == "store" \in faults /\
    pc \in {"create", "register", "dry", "probe", "registerLate", "start", "judge", "except"}
TasksRaise == "duplicate" \in faults /\ pc = "register"
StepRaises == "error" \in faults /\
    pc \in {"create", "proxy", "network", "pool", "probe", "taskgen", "distribute"}
MockRaises == pc = "tasks" /\ cfg.mock /\ faults \cap {"error", "store"} # {}

(* Before the try statement nothing marks the run and nothing is torn down. *)
RaiseOutside ==
    /\ pc \in Outside /\ (StoreRaises \/ TasksRaise \/ StepRaises)
    /\ Partly /\ exc' = "error" /\ Answer("raised")
    /\ UNCHANGED <<given, row, proxy, created, verdict, events, cleaned>>

(* A proxy that does not start in time is told to exit; if it still starts, *)
(* uvicorn returns without closing the socket that it has just opened.      *)
RaiseInside ==
    /\ pc \in Inside /\ (StoreRaises \/ StepRaises \/ MockRaises)
    /\ Partly /\ exc' = "error" /\ pc' = "except"
    /\ proxy' \in {proxy} \cup (IF pc = "proxy" THEN {"orphan"} ELSE {})
    /\ UNCHANGED <<given, row, created, verdict, reports>>

(* uvicorn calls sys.exit when it cannot bind: SystemExit ends the event   *)
(* loop, which cancels the run.                                            *)
PortTaken ==
    /\ "port" \in faults /\ pc = "proxy"
    /\ exc' = "cancelled" /\ pc' = "removeNetwork"
    /\ UNCHANGED <<given, row, taskRows, resources, verdict, reports>>

Bug_MarkFailedOnlyEmits ==
    /\ pc = "except"
    /\ Emit("run_failed") /\ pc' = "removeNetwork"
    /\ UNCHANGED <<given, row, taskRows, resources, verdict, exc, answer, cleaned>>

(* The except clause. *)
MarkFailed ==
    /\ pc = "except"
    /\ row' = StatusAfter(pc, verdict) /\ Emit("run_failed") /\ pc' = "removeNetwork"
    /\ UNCHANGED <<given, taskRows, resources, verdict, exc, answer, cleaned>>

MarkFailedRaises ==
    /\ pc = "except" /\ StoreRaises
    /\ pc' = "removeNetwork"
    /\ UNCHANGED <<given, row, taskRows, resources, verdict, exc, reports>>

-----------------------------------------------------------------------------
(* The finally clause.  network rm goes first and runs with check=False:   *)
(* podman refuses it while containers are attached, which they are.  The   *)
(* docker client attaches none to it.                                      *)
Attached == cfg.engine = "podman" /\ boxes # {}

RemoveNetwork ==
    /\ pc = "removeNetwork" /\ pc' = "destroyAll"
    /\ \/ net' = (net /\ (~created \/ Attached))
       \/ "removal" \in faults /\ UNCHANGED net
    /\ UNCHANGED <<given, row, taskRows, proxy, created, pool, boxes, verdict, exc, reports>>

Bug_DestroyUnlessFailed ==
    /\ pc = "destroyAll" /\ pc' = "stopProxy"
    /\ boxes' = IF pool /\ exc = "none" THEN boxes \ {"known"} ELSE boxes
    /\ UNCHANGED <<given, row, taskRows, proxy, net, created, pool, verdict, exc, reports>>

DestroyAll ==
    /\ pc = "destroyAll" /\ pc' = "stopProxy"
    /\ \/ boxes' = IF pool THEN boxes \ {"known"} ELSE boxes
       \/ "removal" \in faults /\ UNCHANGED boxes
    /\ UNCHANGED <<given, row, taskRows, proxy, net, created, pool, verdict, exc, reports>>

Bug_StopNeedsProxy ==
    /\ pc = "stopProxy" /\ proxy = "on"
    /\ proxy' = "off"
    /\ Answer(CASE exc = "none" -> "returned" [] exc = "error" -> "raised"
                [] OTHER -> "cancelled")
    /\ UNCHANGED <<given, row, taskRows, net, created, pool, boxes, verdict, exc, events, cleaned>>

Bug_ReturnInFinally ==
    /\ pc = "stopProxy"
    /\ proxy' = IF proxy = "on" THEN "off" ELSE proxy
    /\ Answer("returned")
    /\ UNCHANGED <<given, row, taskRows, net, created, pool, boxes, verdict, exc, events, cleaned>>

(* asyncio.wait gives up after ten seconds: the server goes on by itself, *)
(* without its socket, until the requests it serves have their answers.    *)
Stopped == IF proxy = "on"
           THEN {"off"} \cup (IF "slow" \in faults THEN {"draining"} ELSE {})
           ELSE {proxy}

StopProxy ==
    /\ pc = "stopProxy"
    /\ proxy' \in Stopped
    /\ Answer(CASE exc = "none" -> "returned" [] exc = "error" -> "raised"
                [] OTHER -> "cancelled")
    /\ UNCHANGED <<given, row, taskRows, net, created, pool, boxes, verdict, exc, events, cleaned>>

ProxyDrained ==
    /\ proxy = "draining" /\ proxy' = "off"
    /\ UNCHANGED <<given, pc, row, taskRows, net, created, pool, boxes, verdict, exc, reports>>

-----------------------------------------------------------------------------
(* Ctrl-C: CancelledError passes except Exception.  The store operation it *)
(* interrupts may still be committed, and the proxy that is just starting  *)
(* is in nobody's hands.                                                   *)
Interrupt == "cancel" \in faults /\ exc # "cancelled"

CancelOutside ==
    /\ pc \in Outside /\ Interrupt /\ exc' = "cancelled"
    /\ Partly /\ row' \in {row, StatusAfter(pc, verdict)} /\ Answer("cancelled")
    /\ UNCHANGED <<given, proxy, created, verdict, events, cleaned>>

CancelInside ==
    /\ pc \in Inside \cup {"except"} /\ Interrupt /\ exc' = "cancelled"
    /\ Partly /\ row' \in {row, StatusAfter(pc, verdict)}
    /\ proxy' = IF pc = "proxy" THEN "orphan" ELSE proxy
    /\ pc' = "removeNetwork"
    /\ UNCHANGED <<given, created, verdict, reports>>

(* It also leaves the finally clause, at whatever call it is. *)
CancelEnding ==
    /\ pc \in Ending /\ Interrupt /\ exc' = "cut"
    /\ net' \in {net} \cup (IF pc = "removeNetwork" /\ created THEN {FALSE} ELSE {})
    /\ boxes' \in {boxes} \cup (IF pc = "destroyAll" THEN {boxes \ {"known"}} ELSE {})
    /\ proxy' = IF pc = "stopProxy" /\ proxy = "on" THEN "draining" ELSE proxy
    /\ Answer("cancelled")
    /\ UNCHANGED <<given, row, taskRows, created, pool, verdict, events, cleaned>>

Crash ==
    /\ "crash" \in faults /\ pc # "end"
    /\ Partly /\ row' \in {row, StatusAfter(pc, verdict)}
    /\ proxy' = "off" /\ Answer("dead")
    /\ UNCHANGED <<given, created, verdict, exc, events, cleaned>>

-----------------------------------------------------------------------------
(* distill-gym cleanup, after the run and when its commands have ended: it *)
(* lists by label, on the engine it finds, first the containers and then   *)
(* the networks, and removes what it lists one by one.  Volumes are left   *)
(* out: no run makes any.                                                  *)
CleanupLeaves == <<given, pc, row, taskRows, proxy, created, pool, verdict, exc, events, answer>>

(* podman lists its containers as one JSON array with the key Id. docker    *)
(* prints one object per line: several do not parse and are taken for none, *)
(* a single one is taken for a list and raises.                             *)
Bug_ListsRunningOnly ==
    /\ pc = "end" /\ cleaned = "no" /\ cleaned' = "networks"
    /\ boxes' \in SUBSET boxes
    /\ UNCHANGED <<CleanupLeaves, net>>

CleanContainers ==
    /\ pc = "end" /\ cleaned = "no" /\ cleaned' = "networks"
    /\ \/ cfg.engine = "podman" /\ boxes' = {}
       \/ cfg.engine = "podman" /\ "removal" \in faults /\ boxes' \in SUBSET boxes
       \/ cfg.engine = "docker" /\ UNCHANGED boxes
    /\ UNCHANGED <<CleanupLeaves, net>>

(* A stop or a removal that times out ends the command, as the single       *)
(* container of docker does.                                                *)
CleanupRaises ==
    /\ pc = "end" /\ cleaned \in {"no", "networks"} /\ cleaned' = "raised"
    /\ \/ "removal" \in faults
       \/ cfg.found = "docker" /\ cleaned = "no" /\ boxes # {}
    /\ boxes' \in {boxes} \cup
           (IF cfg.engine = "podman" /\ cleaned = "no" THEN SUBSET boxes ELSE {})
    /\ UNCHANGED <<CleanupLeaves, net>>

(* Only podman networks carry the label; podman refuses to remove one that  *)
(* a container is attached to.                                              *)
CleanNetworks ==
    /\ pc = "end" /\ cleaned = "networks" /\ cleaned' = "done"
    /\ \/ net' = (net /\ (cfg.engine = "docker" \/ Attached))
       \/ "removal" \in faults /\ UNCHANGED net
    /\ UNCHANGED <<CleanupLeaves, boxes>>

Cleanup == CleanContainers \/ CleanupRaises \/ CleanNetworks

RunStep == \/ CreateRun \/ RegisterTasks \/ DryRun \/ StartProxy \/ CreateNetwork
           \/ OpenPool \/ PassThrough \/ StartRun \/ RunTasks \/ Judge
           \/ RaiseOutside \/ RaiseInside \/ PortTaken \/ MarkFailed
           \/ MarkFailedRaises \/ RemoveNetwork \/ DestroyAll \/ StopProxy

Next == RunStep \/ CancelOutside \/ CancelInside \/ CancelEnding \/ Crash
        \/ ProxyDrained \/ Cleanup

Spec == Init /\ [][Next]_vars

(* Every await of a step has a timeout, but for the wait for a permit. *)
FairSpec == Spec /\ WF_vars(RunStep)

-----------------------------------------------------------------------------
(* Type invariant of a run and its resources (orchestrator.py:162-182).      *)
TypeOK ==
    /\ cfg \in Config /\ faults \in SUBSET FaultKinds
    /\ pc \in {Steps[i] : i \in DOMAIN Steps} \cup Ending \cup {"except", "end"}
    /\ row \in {"none", "pending", "running", "completed", "failed"}
    /\ taskRows \in {"none", "some", "all"}
    /\ proxy \in {"off", "on", "draining", "orphan"}
    /\ net \in BOOLEAN /\ created \in BOOLEAN /\ pool \in BOOLEAN
    /\ boxes \in SUBSET {"known", "lost"}
    /\ verdict \in {"none", "ok", "bad"}
    /\ events \in Seq({"run_started", "run_completed", "run_failed"})
    /\ exc \in {"none", "error", "cancelled", "cut"}
    /\ answer \in {"none", "returned", "raised", "cancelled", "dead"}
    /\ cleaned \in {"no", "networks", "done", "raised"}

(* A recorded run whose caller got an exception is marked failed, unless    *)
(* the store itself failed or the tasks of its plan could not be registered, *)
(* which happens before the try statement (orchestrator.py:166-170, 302-308). *)
FailureIsRecorded ==
    /\ answer = "raised" /\ row # "none" /\ "store" \notin faults
    /\ "duplicate" \in faults => NeedsTaskgen
    => row = "failed"

(* Whatever raises or is cancelled, the ending that was announced last is   *)
(* the one in the database, and a run that returned announced it            *)
(* (orchestrator.py:293-308).                                                 *)
Announced == IF events = <<>> THEN "run_started" ELSE events[Len(events)]
EventsMatchRow ==
    /\ Announced = "run_completed" => row = "completed"
    /\ Announced = "run_failed" => row = "failed"
    /\ answer = "returned" /\ ~cfg.dry => Announced # "run_started"

(* The finally clause does its work even when the run was cancelled in its  *)
(* body.  Unless it is itself cut short or the process dies, no proxy is on  *)
(* (one may be draining, and one cancelled or given up while it starts is    *)
(* lost), no container the pool knows is left but by an engine that did not  *)
(* remove it, and no network but one that podman refused to remove or whose  *)
(* creation failed or was cancelled half-way (orchestrator.py:75-79,         *)
(* 310-320).                                                                  *)
TeardownComplete ==
    pc = "end" /\ cleaned = "no" /\ answer # "dead" /\ exc # "cut" =>
        /\ proxy # "on"
        /\ proxy = "draining" => "slow" \in faults
        /\ proxy = "orphan" => exc = "cancelled" \/ "error" \in faults
        /\ "known" \in boxes => "removal" \in faults
        /\ "lost" \in boxes => "error" \in faults \/ exc = "cancelled"
        /\ net => /\ cfg.proxyOnly
                  /\ \/ cfg.engine = "podman" \/ exc = "cancelled"
                     \/ faults \cap {"error", "removal"} # {}

(* However a run on podman ended, also cut short or by the death of its     *)
(* process, one cleanup command gets its network too, which the run itself  *)
(* could not remove: the containers go first.  It takes a removal that the  *)
(* engine did not do for the command to finish and leave something          *)
(* (runtimes/podman.py:29-45, clients/podman.py:57-61, 120-124).             *)
CleanupReclaims ==
    cleaned = "done" /\ cfg.engine = "podman" /\ "removal" \notin faults => boxes = {} /\ ~net

(* A run ends: unless the tasks wait for permits that are lost, and even    *)
(* then when an exception or a cancellation reaches it (orchestrator.py:184-320). *)
RunEnds == (exc # "none" \/ "drained" \notin faults) ~> pc = "end"

(* The run keeps the promises of RunLifecycle: its status moves forward     *)
(* only, and whoever gets its id finds it settled (orchestrator.py:155-322). *)
Lifecycle == INSTANCE RunLifecycle WITH status <- row
ImplementsRunLifecycle == Lifecycle!RLSpec

(* tests/test_orchestrator.py:323: an exception during the execution marks  *)
(* the run failed.  An exception before the try statement does not.          *)
ExceptionMarksRun == answer = "raised" => row = "failed"

(* cli/main.py:170: cleanup removes all containers, volumes, and networks. *)
CleanupRemovesAll == cleaned = "done" => boxes = {} /\ ~net
=============================================================================
