------------------------ MODULE RunOrchestrator_proofs ------------------------
(***************************************************************************)
(* Proofs about RunOrchestrator, for any set of configurations and faults. *)
(* First which step can follow which (NextStep); then the inductive        *)
(* invariant: where the run can be (Placed), what row, events and          *)
(* exception are there (Reported), what it holds (Holding), and what is    *)
(* left after its finally clause or a cleanup (Reclaimed).                 *)
(***************************************************************************)
EXTENDS RunOrchestrator, SequenceTheorems, TLAPS

(* The steps before the run is marked running, and those after. *)
Early == {"register", "dry", "proxy", "network", "pool", "probe", "taskgen",
          "registerLate", "start"}
Late  == {"tasks", "distribute", "judge"}

LEMMA StepSet ==
    /\ {Steps[i] : i \in DOMAIN Steps} = {"create"} \cup Early \cup Late
    /\ Inside = (Early \ {"register", "dry"}) \cup Late
<1>1. DOMAIN Steps = 1..13
  BY DEF Steps
<1>2. /\ Steps[1] = "create" /\ Steps[2] = "register" /\ Steps[3] = "dry"
      /\ Steps[4] = "proxy" /\ Steps[5] = "network" /\ Steps[6] = "pool"
      /\ Steps[7] = "probe" /\ Steps[8] = "taskgen" /\ Steps[9] = "registerLate"
      /\ Steps[10] = "start" /\ Steps[11] = "tasks" /\ Steps[12] = "distribute"
      /\ Steps[13] = "judge"
  BY DEF Steps
<1>3. {Steps[i] : i \in DOMAIN Steps} = {"create"} \cup Early \cup Late
  BY <1>1, <1>2 DEF Early, Late
<1> QED
  BY <1>3 DEF Inside, Outside, Early, Late

(* The run passes neither the start nor the tasks nor the judgement, and    *)
(* takes only the steps its configuration needs.                            *)
LEMMA NextStep ==
  ASSUME GoOn
  PROVE  /\ Needed(pc')
         /\ pc \in ({"create"} \cup Early) \ {"start"} => pc' \in Early
         /\ pc = "start" => pc' = "tasks"
         /\ pc = "tasks" => pc' \in {"distribute", "judge"}
         /\ pc = "distribute" => pc' = "judge"
         /\ pc # "judge" /\ (pc \notin Outside => pc' \notin Outside)
<1>1. DOMAIN Steps = 1..13
  BY DEF Steps
<1>2. /\ Steps[1] = "create" /\ Steps[2] = "register" /\ Steps[3] = "dry"
      /\ Steps[4] = "proxy" /\ Steps[5] = "network" /\ Steps[6] = "pool"
      /\ Steps[7] = "probe" /\ Steps[8] = "taskgen" /\ Steps[9] = "registerLate"
      /\ Steps[10] = "start" /\ Steps[11] = "tasks" /\ Steps[12] = "distribute"
      /\ Steps[13] = "judge"
  BY DEF Steps
<1>3. PICK i \in 1..13, j \in 1..13 :
            /\ Steps[i] = pc /\ i < j /\ Needed(Steps[j])
            /\ \A k \in (i + 1)..(j - 1) : ~Needed(Steps[k])
            /\ pc' = Steps[j]
  BY <1>1 DEF GoOn
<1>4. Needed("start") /\ Needed("tasks") /\ Needed("judge")
  BY DEF Needed
<1>5. 10 \notin (i + 1)..(j - 1) /\ 11 \notin (i + 1)..(j - 1)
  BY <1>2, <1>3, <1>4
<1>6. i < 10 => j <= 10
  BY <1>3, <1>5
<1>7. i = 10 => j = 11
  BY <1>3, <1>5
<1> QED
  BY <1>2, <1>3, <1>6, <1>7 DEF Early, Outside

-----------------------------------------------------------------------------
(* What row, events and exception say about the place of the run, and what *)
(* its configuration says about the steps it takes.                        *)
Placed ==
    /\ pc = "create" => row = "none" /\ events = <<>>
    /\ pc \in Early => row = "pending" /\ events = <<>>
    /\ pc \in Late => row = "running" /\ events = <<"run_started">>
    /\ pc = "except" => \/ row = "pending" /\ events = <<>>
                        \/ row = "running" /\ events = <<"run_started">>
    /\ pc \in {"create"} \cup Early \cup Late => exc = "none"
    /\ pc = "except" => exc = "error"
    /\ pc = "register" => ~NeedsTaskgen
    /\ pc = "dry" => cfg.dry
    /\ pc = "network" => cfg.proxyOnly

(* What the end of the run makes of them. *)
Reported ==
    /\ pc \in Ending /\ exc = "none" =>
           row \in {"completed", "failed"} /\ Announced # "run_started"
    /\ pc \in Ending /\ exc = "error" => row = "failed" \/ "store" \in faults
    /\ Announced = "run_completed" => row = "completed"
    /\ Announced = "run_failed" => row = "failed"
    /\ answer # "none" <=> pc = "end"
    /\ answer = "raised" => \/ row \in {"none", "failed"} \/ "store" \in faults
                            \/ "duplicate" \in faults /\ ~NeedsTaskgen
    /\ answer = "returned" /\ ~cfg.dry => Announced # "run_started"

(* How far the cleanup command is, and what it has removed by then. *)
Reclaimed ==
    /\ cfg \in Configs
    /\ cleaned # "no" => pc = "end"
    /\ cfg.engine = "podman" /\ "removal" \notin faults =>
           /\ cleaned \in {"networks", "done"} => boxes = {}
           /\ cleaned = "done" => ~net

(* What a run holds whose finally clause was not cut short. *)
Holding ==
    exc # "cut" /\ answer # "dead" =>
        /\ pc \in Outside => proxy = "off" /\ boxes = {} /\ ~net
        /\ proxy = "on" => pc # "end"
        /\ proxy = "draining" => "slow" \in faults
        /\ proxy = "orphan" => exc = "cancelled" \/ "error" \in faults
        /\ "known" \in boxes => pool /\ (pc \notin {"stopProxy", "end"} \/ "removal" \in faults)
        /\ "lost" \in boxes => "error" \in faults \/ exc = "cancelled"
        /\ net => cfg.proxyOnly /\ (created \/ "error" \in faults \/ exc = "cancelled")
        /\ net /\ pc \in {"destroyAll", "stopProxy", "end"} =>
               \/ cfg.engine = "podman" \/ exc = "cancelled"
               \/ faults \cap {"error", "removal"} # {}

RunInv == TypeOK /\ Placed /\ Reported /\ Reclaimed /\ Holding

USE DEF given, resources, reports, Answer, Ending, Early, Late

LEMMA Announcements ==
  ASSUME events \in Seq({"run_started", "run_completed", "run_failed"})
  PROVE  /\ events = <<>> => Announced = "run_started"
         /\ events = <<"run_started">> => Announced = "run_started"
         /\ \A e \in {"run_started", "run_completed", "run_failed"} :
                Emit(e) => /\ Announced' = e
                           /\ events' \in Seq({"run_started", "run_completed", "run_failed"})
                           /\ events = <<>> => events' = <<e>>
<1>1. \A e \in {"run_started", "run_completed", "run_failed"} :
          LET es == Append(events, e) IN
          /\ es \in Seq({"run_started", "run_completed", "run_failed"})
          /\ Len(es) = Len(events) + 1 /\ es[Len(es)] = e /\ es # <<>>
          /\ events = <<>> => es = <<e>>
  <2> SUFFICES ASSUME NEW e \in {"run_started", "run_completed", "run_failed"}
               PROVE  LET es == Append(events, e) IN
          /\ es \in Seq({"run_started", "run_completed", "run_failed"})
          /\ Len(es) = Len(events) + 1 /\ es[Len(es)] = e /\ es # <<>>
          /\ events = <<>> => es = <<e>>
    OBVIOUS
  <2> DEFINE es == Append(events, e)
  <2>1. /\ es \in Seq({"run_started", "run_completed", "run_failed"})
        /\ Len(es) = Len(events) + 1 /\ es[Len(events) + 1] = e
    BY AppendProperties
  <2>2. es # <<>>
    BY <2>1
  <2>3. events = <<>> => es = <<e>>
    OBVIOUS
  <2> QED
    BY <2>1, <2>2, <2>3
<1>2. events = <<>> => Announced = "run_started"
  BY DEF Announced
<1>3. events = <<"run_started">> => Announced = "run_started"
  BY DEF Announced
<1> QED
  BY <1>1, <1>2, <1>3 DEF Announced, Emit

(* A step that emits nothing leaves what was announced. *)
LEMMA Silence == events' = events => Announced' = Announced
BY DEF Announced

LEMMA InitRunInv == Init => RunInv
<1> SUFFICES ASSUME Init PROVE RunInv
  OBVIOUS
<1> USE DEF Init
<1>1. TypeOK
  <2>1. cfg \in Config /\ faults \in SUBSET FaultKinds
    BY OrchestratorAssumption DEF OrchestratorAssumption
  <2>2. pc \in {Steps[i] : i \in DOMAIN Steps}
    BY StepSet
  <2>3. events \in Seq({"run_started", "run_completed", "run_failed"})
    OBVIOUS
  <2> QED
    BY <2>1, <2>2, <2>3 DEF TypeOK
<1>2. Placed /\ Reported /\ Reclaimed /\ Holding
  BY DEF Placed, Reported, Announced, Reclaimed, Holding
<1> QED
  BY <1>1, <1>2 DEF RunInv

LEMMA StoreRaisesType == StoreRaises => "store" \in faults
BY DEF StoreRaises

LEMMA GoOnType == GoOn => pc' \in {Steps[i] : i \in DOMAIN Steps}
BY DEF GoOn

LEMMA PartlyType ==
  ASSUME TypeOK, Partly
  PROVE  /\ taskRows' \in {"none", "some", "all"}
         /\ net' \in BOOLEAN /\ pool' \in BOOLEAN /\ boxes' \in SUBSET {"known", "lost"}
<1>1. taskRows' \in {"none", "some", "all"}
  BY DEF TypeOK, Partly
<1>2. net' \in BOOLEAN /\ pool' \in BOOLEAN
  BY DEF TypeOK, Partly
<1>3. CASE pc = "pool" /\ pool'
  BY <1>1, <1>2, <1>3 DEF TypeOK, Partly
<1>4. CASE pc = "tasks" /\ ~cfg.mock
  BY <1>1, <1>2, <1>4 DEF TypeOK, Partly
<1>5. CASE ~(pc = "pool" /\ pool') /\ ~(pc = "tasks" /\ ~cfg.mock)
  BY <1>1, <1>2, <1>5 DEF TypeOK, Partly
<1> QED
  BY <1>3, <1>4, <1>5

LEMMA StatusType ==
  ASSUME TypeOK
  PROVE  StatusAfter(pc, verdict) \in {"none", "pending", "running", "completed", "failed"}
BY DEF TypeOK, StatusAfter

(* The run keeps its types. *)
LEMMA StepTypeOK ==
  ASSUME TypeOK, Next
  PROVE  TypeOK'
<1>1. CASE CreateRun
  BY <1>1, GoOnType, StatusType DEF CreateRun, TypeOK
<1>2. CASE RegisterTasks
  BY <1>2, GoOnType DEF RegisterTasks, TypeOK
<1>3. CASE DryRun
  BY <1>3, StatusType DEF DryRun, TypeOK
<1>4. CASE StartProxy
  BY <1>4, GoOnType DEF StartProxy, TypeOK
<1>5. CASE CreateNetwork
  BY <1>5, GoOnType DEF CreateNetwork, TypeOK
<1>6. CASE OpenPool
  BY <1>6, GoOnType DEF OpenPool, TypeOK
<1>7. CASE PassThrough
  BY <1>7, GoOnType DEF PassThrough, TypeOK
<1>8. CASE StartRun
  BY <1>8, GoOnType, StatusType, Announcements DEF StartRun, TypeOK
<1>9. CASE RunTasks
  BY <1>9, GoOnType DEF RunTasks, TypeOK
<1>10. CASE Judge
  BY <1>10, StatusType, Announcements DEF Judge, TypeOK
<1>11. CASE RaiseOutside
  BY <1>11, PartlyType DEF RaiseOutside, TypeOK
<1>12. CASE RaiseInside
  BY <1>12, PartlyType DEF RaiseInside, TypeOK
<1>13. CASE PortTaken
  BY <1>13 DEF PortTaken, TypeOK
<1>14. CASE MarkFailed
  BY <1>14, StatusType, Announcements DEF MarkFailed, TypeOK
<1>15. CASE MarkFailedRaises
  BY <1>15 DEF MarkFailedRaises, TypeOK
<1>16. CASE RemoveNetwork
  <2>1. net' \in BOOLEAN
    BY <1>16 DEF RemoveNetwork, TypeOK
  <2> QED
    BY <1>16, <2>1 DEF RemoveNetwork, TypeOK
<1>17. CASE DestroyAll
  <2>1. boxes' \in SUBSET {"known", "lost"}
    BY <1>17 DEF DestroyAll, TypeOK
  <2> QED
    BY <1>17, <2>1 DEF DestroyAll, TypeOK
<1>18. CASE StopProxy
  BY <1>18 DEF StopProxy, Stopped, TypeOK
<1>19. CASE CancelOutside
  BY <1>19, StatusType, PartlyType DEF CancelOutside, TypeOK, Interrupt
<1>20. CASE CancelInside
  BY <1>20, StatusType, PartlyType DEF CancelInside, TypeOK, Interrupt
<1>21. CASE CancelEnding
  <2>1. net' \in BOOLEAN
    BY <1>21 DEF CancelEnding, TypeOK
  <2>2. boxes' \in SUBSET {"known", "lost"}
    BY <1>21 DEF CancelEnding, TypeOK
  <2>3. proxy' \in {"off", "on", "draining", "orphan"}
    BY <1>21 DEF CancelEnding, TypeOK
  <2> QED
    BY <1>21, <2>1, <2>2, <2>3 DEF CancelEnding, TypeOK
<1>22. CASE Crash
  BY <1>22, StatusType, PartlyType DEF Crash, TypeOK
<1>23. CASE CleanContainers
  <2>1. boxes' \in SUBSET {"known", "lost"}
    BY <1>23 DEF CleanContainers, TypeOK
  <2> QED
    BY <1>23, <2>1 DEF CleanContainers, CleanupLeaves, TypeOK
<1>24. CASE CleanupRaises
  BY <1>24 DEF CleanupRaises, CleanupLeaves, TypeOK
<1>25. CASE CleanNetworks
  <2>1. net' \in BOOLEAN
    BY <1>25 DEF CleanNetworks, TypeOK
  <2> QED
    BY <1>25, <2>1 DEF CleanNetworks, CleanupLeaves, TypeOK
<1>26. CASE ProxyDrained
  BY <1>26 DEF ProxyDrained, TypeOK
<1> QED
  BY <1>1, <1>2, <1>3, <1>4, <1>5, <1>6, <1>7, <1>8, <1>9, <1>10, <1>11, <1>12, <1>13, <1>14, <1>15, <1>16, <1>17, <1>18, <1>19, <1>20, <1>21, <1>22, <1>23, <1>24, <1>25, <1>26 DEF Next, RunStep, Cleanup

(* Every step leads where row, events and configuration say. *)
LEMMA StepPlaced ==
  ASSUME TypeOK, Placed, Next
  PROVE  Placed'
<1>1. CASE CreateRun
  BY <1>1, NextStep DEF CreateRun, StatusAfter, TypeOK, Placed, NeedsTaskgen, Needed, NeedsSandbox
<1>2. CASE RegisterTasks
  BY <1>2, NextStep DEF RegisterTasks, TypeOK, Placed, NeedsTaskgen, Needed, NeedsSandbox
<1>3. CASE DryRun
  BY <1>3 DEF DryRun, StatusAfter, TypeOK, Placed, NeedsTaskgen
<1>4. CASE StartProxy
  BY <1>4, NextStep DEF StartProxy, TypeOK, Placed, NeedsTaskgen, Needed, NeedsSandbox
<1>5. CASE CreateNetwork
  BY <1>5, NextStep DEF CreateNetwork, TypeOK, Placed, NeedsTaskgen, Needed, NeedsSandbox
<1>6. CASE OpenPool
  BY <1>6, NextStep DEF OpenPool, TypeOK, Placed, NeedsTaskgen, Needed, NeedsSandbox
<1>7. CASE PassThrough
  BY <1>7, NextStep DEF PassThrough, TypeOK, Placed, NeedsTaskgen, Needed, NeedsSandbox
<1>8. CASE StartRun
  BY <1>8, NextStep, Announcements DEF StartRun, StatusAfter, TypeOK, Placed, NeedsTaskgen, Needed, NeedsSandbox
<1>9. CASE RunTasks
  BY <1>9, NextStep DEF RunTasks, TypeOK, Placed, NeedsTaskgen, Needed, NeedsSandbox
<1>10. CASE Judge
  BY <1>10, Announcements DEF Judge, StatusAfter, TypeOK, Placed, NeedsTaskgen
<1>11. CASE RaiseOutside
  BY <1>11 DEF RaiseOutside, Partly, StoreRaises, StepRaises, TasksRaise, Outside, TypeOK, Placed, NeedsTaskgen
<1>12. CASE RaiseInside
  BY <1>12, StepSet DEF RaiseInside, Partly, StoreRaises, StepRaises, MockRaises, TypeOK, Placed, NeedsTaskgen
<1>13. CASE PortTaken
  BY <1>13 DEF PortTaken, TypeOK, Placed, NeedsTaskgen
<1>14. CASE MarkFailed
  BY <1>14, Announcements DEF MarkFailed, StatusAfter, TypeOK, Placed, NeedsTaskgen
<1>15. CASE MarkFailedRaises
  BY <1>15 DEF MarkFailedRaises, StoreRaises, TypeOK, Placed, NeedsTaskgen
<1>16. CASE RemoveNetwork
  BY <1>16 DEF RemoveNetwork, Attached, TypeOK, Placed, NeedsTaskgen
<1>17. CASE DestroyAll
  BY <1>17 DEF DestroyAll, TypeOK, Placed, NeedsTaskgen
<1>18. CASE StopProxy
  BY <1>18 DEF StopProxy, Stopped, TypeOK, Placed, NeedsTaskgen
<1>19. CASE CancelOutside
  BY <1>19 DEF CancelOutside, StatusAfter, Partly, Interrupt, Outside, TypeOK, Placed, NeedsTaskgen
<1>20. CASE CancelInside
  BY <1>20, StepSet DEF CancelInside, StatusAfter, Partly, Interrupt, TypeOK, Placed, NeedsTaskgen
<1>21. CASE CancelEnding
  BY <1>21 DEF CancelEnding, Interrupt, TypeOK, Placed, NeedsTaskgen
<1>22. CASE Crash
  BY <1>22 DEF Crash, StatusAfter, Partly, TypeOK, Placed, NeedsTaskgen
<1>23. CASE CleanContainers
  BY <1>23 DEF CleanContainers, CleanupLeaves, TypeOK, Placed, NeedsTaskgen
<1>24. CASE CleanupRaises
  BY <1>24 DEF CleanupRaises, CleanupLeaves, TypeOK, Placed, NeedsTaskgen
<1>25. CASE CleanNetworks
  BY <1>25 DEF CleanNetworks, CleanupLeaves, Attached, TypeOK, Placed, NeedsTaskgen
<1>26. CASE ProxyDrained
  BY <1>26 DEF ProxyDrained, TypeOK, Placed, NeedsTaskgen
<1> QED
  BY <1>1, <1>2, <1>3, <1>4, <1>5, <1>6, <1>7, <1>8, <1>9, <1>10, <1>11, <1>12, <1>13, <1>14, <1>15, <1>16, <1>17, <1>18, <1>19, <1>20, <1>21, <1>22, <1>23, <1>24, <1>25, <1>26 DEF Next, RunStep, Cleanup

(* Row, last event and answer agree at the end. *)
LEMMA StepReported ==
  ASSUME TypeOK, Placed, Reported, Next
  PROVE  Reported'
<1>1. CASE CreateRun
  BY <1>1, NextStep, Silence, Announcements DEF CreateRun, StatusAfter, TypeOK, Placed, Reported, NeedsTaskgen
<1>2. CASE RegisterTasks
  BY <1>2, NextStep, Silence, Announcements DEF RegisterTasks, TypeOK, Placed, Reported, NeedsTaskgen
<1>3. CASE DryRun
  BY <1>3, Silence, Announcements DEF DryRun, StatusAfter, TypeOK, Placed, Reported, NeedsTaskgen
<1>4. CASE StartProxy
  BY <1>4, NextStep, Silence, Announcements DEF StartProxy, TypeOK, Placed, Reported, NeedsTaskgen
<1>5. CASE CreateNetwork
  BY <1>5, NextStep, Silence, Announcements DEF CreateNetwork, TypeOK, Placed, Reported, NeedsTaskgen
<1>6. CASE OpenPool
  BY <1>6, NextStep, Silence, Announcements DEF OpenPool, TypeOK, Placed, Reported, NeedsTaskgen
<1>7. CASE PassThrough
  BY <1>7, NextStep, Silence, Announcements DEF PassThrough, TypeOK, Placed, Reported, NeedsTaskgen
<1>8. CASE StartRun
  BY <1>8, NextStep, Announcements DEF StartRun, StatusAfter, TypeOK, Placed, Reported, NeedsTaskgen
<1>9. CASE RunTasks
  BY <1>9, NextStep, Silence, Announcements DEF RunTasks, TypeOK, Placed, Reported, NeedsTaskgen
<1>10. CASE Judge
  BY <1>10, Announcements DEF Judge, StatusAfter, TypeOK, Placed, Reported, NeedsTaskgen
<1>11. CASE RaiseOutside
  BY <1>11, Silence, Announcements DEF RaiseOutside, Partly, StoreRaises, StepRaises, TasksRaise, Outside, TypeOK, Placed, Reported, NeedsTaskgen
<1>12. CASE RaiseInside
  BY <1>12, StepSet, Silence, Announcements DEF RaiseInside, Partly, StoreRaises, StepRaises, MockRaises, TypeOK, Placed, Reported, NeedsTaskgen
<1>13. CASE PortTaken
  BY <1>13, Silence, Announcements DEF PortTaken, TypeOK, Placed, Reported, NeedsTaskgen
<1>14. CASE MarkFailed
  BY <1>14, Announcements DEF MarkFailed, StatusAfter, TypeOK, Placed, Reported, NeedsTaskgen
<1>15. CASE MarkFailedRaises
  BY <1>15, Silence, Announcements DEF MarkFailedRaises, StoreRaises, TypeOK, Placed, Reported, NeedsTaskgen
<1>16. CASE RemoveNetwork
  BY <1>16, Silence, Announcements DEF RemoveNetwork, Attached, TypeOK, Placed, Reported, NeedsTaskgen
<1>17. CASE DestroyAll
  BY <1>17, Silence, Announcements DEF DestroyAll, TypeOK, Placed, Reported, NeedsTaskgen
<1>18. CASE StopProxy
  BY <1>18, Silence, Announcements DEF StopProxy, Stopped, TypeOK, Placed, Reported, NeedsTaskgen
<1>19. CASE CancelOutside
  BY <1>19, Silence, Announcements DEF CancelOutside, StatusAfter, Partly, Interrupt, Outside, TypeOK, Placed, Reported, NeedsTaskgen
<1>20. CASE CancelInside
  BY <1>20, StepSet, Silence, Announcements DEF CancelInside, StatusAfter, Partly, Interrupt, TypeOK, Placed, Reported, NeedsTaskgen
<1>21. CASE CancelEnding
  BY <1>21, Silence, Announcements DEF CancelEnding, Interrupt, TypeOK, Placed, Reported, NeedsTaskgen
<1>22. CASE Crash
  BY <1>22, Silence, Announcements DEF Crash, StatusAfter, Partly, TypeOK, Placed, Reported, NeedsTaskgen
<1>23. CASE CleanContainers
  BY <1>23, Silence, Announcements DEF CleanContainers, CleanupLeaves, TypeOK, Placed, Reported, NeedsTaskgen
<1>24. CASE CleanupRaises
  BY <1>24, Silence, Announcements DEF CleanupRaises, CleanupLeaves, TypeOK, Placed, Reported, NeedsTaskgen
<1>25. CASE CleanNetworks
  BY <1>25, Silence, Announcements DEF CleanNetworks, CleanupLeaves, Attached, TypeOK, Placed, Reported, NeedsTaskgen
<1>26. CASE ProxyDrained
  BY <1>26, Silence, Announcements DEF ProxyDrained, TypeOK, Placed, Reported, NeedsTaskgen
<1> QED
  BY <1>1, <1>2, <1>3, <1>4, <1>5, <1>6, <1>7, <1>8, <1>9, <1>10, <1>11, <1>12, <1>13, <1>14, <1>15, <1>16, <1>17, <1>18, <1>19, <1>20, <1>21, <1>22, <1>23, <1>24, <1>25, <1>26 DEF Next, RunStep, Cleanup

(* The command leaves nothing of what it passed. *)
LEMMA StepReclaimed ==
  ASSUME TypeOK, Reclaimed, Next
  PROVE  Reclaimed'
<1>1. CASE CreateRun
  BY <1>1, OrchestratorAssumption, NextStep DEF CreateRun, StatusAfter, TypeOK, Reclaimed, OrchestratorAssumption
<1>2. CASE RegisterTasks
  BY <1>2, OrchestratorAssumption, NextStep DEF RegisterTasks, TypeOK, Reclaimed, OrchestratorAssumption
<1>3. CASE DryRun
  BY <1>3, OrchestratorAssumption DEF DryRun, StatusAfter, TypeOK, Reclaimed, OrchestratorAssumption
<1>4. CASE StartProxy
  BY <1>4, OrchestratorAssumption, NextStep DEF StartProxy, TypeOK, Reclaimed, OrchestratorAssumption
<1>5. CASE CreateNetwork
  BY <1>5, OrchestratorAssumption, NextStep DEF CreateNetwork, TypeOK, Reclaimed, OrchestratorAssumption
<1>6. CASE OpenPool
  BY <1>6, OrchestratorAssumption, NextStep DEF OpenPool, TypeOK, Reclaimed, OrchestratorAssumption
<1>7. CASE PassThrough
  BY <1>7, OrchestratorAssumption, NextStep DEF PassThrough, TypeOK, Reclaimed, OrchestratorAssumption
<1>8. CASE StartRun
  BY <1>8, OrchestratorAssumption, NextStep DEF StartRun, StatusAfter, TypeOK, Reclaimed, OrchestratorAssumption
<1>9. CASE RunTasks
  BY <1>9, OrchestratorAssumption, NextStep DEF RunTasks, TypeOK, Reclaimed, OrchestratorAssumption
<1>10. CASE Judge
  BY <1>10, OrchestratorAssumption DEF Judge, StatusAfter, TypeOK, Reclaimed, OrchestratorAssumption
<1>11. CASE RaiseOutside
  BY <1>11, OrchestratorAssumption DEF RaiseOutside, Partly, StoreRaises, StepRaises, TasksRaise, Outside, TypeOK, Reclaimed, OrchestratorAssumption
<1>12. CASE RaiseInside
  BY <1>12, OrchestratorAssumption, StepSet DEF RaiseInside, Partly, StoreRaises, StepRaises, MockRaises, TypeOK, Reclaimed, OrchestratorAssumption
<1>13. CASE PortTaken
  BY <1>13, OrchestratorAssumption DEF PortTaken, TypeOK, Reclaimed, OrchestratorAssumption
<1>14. CASE MarkFailed
  BY <1>14, OrchestratorAssumption DEF MarkFailed, StatusAfter, TypeOK, Reclaimed, OrchestratorAssumption
<1>15. CASE MarkFailedRaises
  BY <1>15, OrchestratorAssumption DEF MarkFailedRaises, StoreRaises, TypeOK, Reclaimed, OrchestratorAssumption
<1>16. CASE RemoveNetwork
  BY <1>16, OrchestratorAssumption DEF RemoveNetwork, Attached, TypeOK, Reclaimed, OrchestratorAssumption
<1>17. CASE DestroyAll
  BY <1>17, OrchestratorAssumption DEF DestroyAll, TypeOK, Reclaimed, OrchestratorAssumption
<1>18. CASE StopProxy
  BY <1>18, OrchestratorAssumption DEF StopProxy, Stopped, TypeOK, Reclaimed, OrchestratorAssumption
<1>19. CASE CancelOutside
  BY <1>19, OrchestratorAssumption DEF CancelOutside, StatusAfter, Partly, Interrupt, Outside, TypeOK, Reclaimed, OrchestratorAssumption
<1>20. CASE CancelInside
  BY <1>20, OrchestratorAssumption, StepSet DEF CancelInside, StatusAfter, Partly, Interrupt, TypeOK, Reclaimed, OrchestratorAssumption
<1>21. CASE CancelEnding
  BY <1>21, OrchestratorAssumption DEF CancelEnding, Interrupt, TypeOK, Reclaimed, OrchestratorAssumption
<1>22. CASE Crash
  BY <1>22, OrchestratorAssumption DEF Crash, StatusAfter, Partly, TypeOK, Reclaimed, OrchestratorAssumption
<1>23. CASE CleanContainers
  BY <1>23, OrchestratorAssumption DEF CleanContainers, CleanupLeaves, TypeOK, Reclaimed, OrchestratorAssumption
<1>24. CASE CleanupRaises
  BY <1>24, OrchestratorAssumption DEF CleanupRaises, CleanupLeaves, TypeOK, Reclaimed, OrchestratorAssumption
<1>25. CASE CleanNetworks
  BY <1>25, OrchestratorAssumption DEF CleanNetworks, CleanupLeaves, Attached, TypeOK, Reclaimed, OrchestratorAssumption
<1>26. CASE ProxyDrained
  BY <1>26, OrchestratorAssumption DEF ProxyDrained, TypeOK, Reclaimed, OrchestratorAssumption
<1> QED
  BY <1>1, <1>2, <1>3, <1>4, <1>5, <1>6, <1>7, <1>8, <1>9, <1>10, <1>11, <1>12, <1>13, <1>14, <1>15, <1>16, <1>17, <1>18, <1>19, <1>20, <1>21, <1>22, <1>23, <1>24, <1>25, <1>26 DEF Next, RunStep, Cleanup

(* A run whose finally clause is not cut short loses track of nothing. *)
LEMMA StepHolding ==
  ASSUME TypeOK, Placed, Holding, pc # "end" => answer = "none", Next
  PROVE  Holding'
<1>1. CASE CreateRun
  BY <1>1, NextStep DEF CreateRun, StatusAfter, TypeOK, Placed, Holding, Outside
<1>2. CASE RegisterTasks
  BY <1>2, NextStep DEF RegisterTasks, TypeOK, Placed, Holding, Outside
<1>3. CASE DryRun
  BY <1>3 DEF DryRun, StatusAfter, TypeOK, Placed, Holding, Outside
<1>4. CASE StartProxy
  BY <1>4, NextStep DEF StartProxy, TypeOK, Placed, Holding, Outside
<1>5. CASE CreateNetwork
  BY <1>5, NextStep DEF CreateNetwork, TypeOK, Placed, Holding, Outside
<1>6. CASE OpenPool
  BY <1>6, NextStep DEF OpenPool, TypeOK, Placed, Holding, Outside
<1>7. CASE PassThrough
  BY <1>7, NextStep DEF PassThrough, TypeOK, Placed, Holding, Outside
<1>8. CASE StartRun
  BY <1>8, NextStep DEF StartRun, StatusAfter, TypeOK, Placed, Holding, Outside
<1>9. CASE RunTasks
  BY <1>9, NextStep DEF RunTasks, TypeOK, Placed, Holding, Outside
<1>10. CASE Judge
  BY <1>10 DEF Judge, StatusAfter, TypeOK, Placed, Holding, Outside
<1>11. CASE RaiseOutside
  BY <1>11 DEF RaiseOutside, Partly, StoreRaises, StepRaises, TasksRaise, Outside, TypeOK, Placed, Holding
<1>12. CASE RaiseInside
  BY <1>12, StepSet DEF RaiseInside, Partly, StoreRaises, StepRaises, MockRaises, TypeOK, Placed, Holding, Outside
<1>13. CASE PortTaken
  BY <1>13 DEF PortTaken, TypeOK, Placed, Holding, Outside
<1>14. CASE MarkFailed
  BY <1>14 DEF MarkFailed, StatusAfter, TypeOK, Placed, Holding, Outside
<1>15. CASE MarkFailedRaises
  BY <1>15 DEF MarkFailedRaises, StoreRaises, TypeOK, Placed, Holding, Outside
<1>16. CASE RemoveNetwork
  BY <1>16 DEF RemoveNetwork, Attached, TypeOK, Placed, Holding, Outside
<1>17. CASE DestroyAll
  BY <1>17 DEF DestroyAll, TypeOK, Placed, Holding, Outside
<1>18. CASE StopProxy
  BY <1>18 DEF StopProxy, Stopped, TypeOK, Placed, Holding, Outside
<1>19. CASE CancelOutside
  BY <1>19 DEF CancelOutside, StatusAfter, Partly, Interrupt, Outside, TypeOK, Placed, Holding
<1>20. CASE CancelInside
  BY <1>20, StepSet, ZenonT(60) DEF CancelInside, StatusAfter, Partly, Interrupt, TypeOK, Placed, Holding, Outside
<1>21. CASE CancelEnding
  BY <1>21 DEF CancelEnding, Interrupt, TypeOK, Placed, Holding, Outside
<1>22. CASE Crash
  BY <1>22 DEF Crash, StatusAfter, Partly, TypeOK, Placed, Holding, Outside
<1>23. CASE CleanContainers
  BY <1>23 DEF CleanContainers, CleanupLeaves, TypeOK, Placed, Holding, Outside
<1>24. CASE CleanupRaises
  BY <1>24 DEF CleanupRaises, CleanupLeaves, TypeOK, Placed, Holding, Outside
<1>25. CASE CleanNetworks
  BY <1>25 DEF CleanNetworks, CleanupLeaves, Attached, TypeOK, Placed, Holding, Outside
<1>26. CASE ProxyDrained
  BY <1>26 DEF ProxyDrained, TypeOK, Placed, Holding, Outside
<1> QED
  BY <1>1, <1>2, <1>3, <1>4, <1>5, <1>6, <1>7, <1>8, <1>9, <1>10, <1>11, <1>12, <1>13, <1>14, <1>15, <1>16, <1>17, <1>18, <1>19, <1>20, <1>21, <1>22, <1>23, <1>24, <1>25, <1>26 DEF Next, RunStep, Cleanup

LEMMA NextRunInv == RunInv /\ [Next]_vars => RunInv'
<1> SUFFICES ASSUME RunInv, [Next]_vars PROVE RunInv'
  OBVIOUS
<1>1. CASE Next
  <2>1. TypeOK /\ Placed /\ Reported /\ Reclaimed /\ Holding /\ (pc # "end" => answer = "none")
    BY DEF RunInv, Reported
  <2> QED
    BY <1>1, <2>1, StepTypeOK, StepPlaced, StepReported, StepReclaimed, StepHolding DEF RunInv
<1>2. CASE UNCHANGED vars
  BY <1>2 DEF vars, RunInv, TypeOK, Placed, Reported, Announced, Reclaimed, Holding,
              NeedsTaskgen
<1> QED
  BY <1>1, <1>2

(* The inductive invariant holds in every reachable state. *)
THEOREM Invariant == Spec => []RunInv
BY InitRunInv, NextRunInv, PTL DEF Spec

(* A run and its resources keep their types (orchestrator.py:162-322). *)
THEOREM TypeCorrect == Spec => []TypeOK
<1>1. RunInv => TypeOK
  BY DEF RunInv
<1> QED
  BY <1>1, Invariant, PTL

(* An exception that reaches the caller is in the row of the run, but for   *)
(* those of the store and of duplicate ids (orchestrator.py:166-170, 302-308). *)
THEOREM FailuresRecorded == Spec => []FailureIsRecorded
<1>1. RunInv => FailureIsRecorded
  BY DEF RunInv, Reported, FailureIsRecorded
<1> QED
  BY <1>1, Invariant, PTL

(* The ending that was announced is the one in the row (orchestrator.py:293-308). *)
THEOREM EventsAgree == Spec => []EventsMatchRow
<1>1. RunInv => EventsMatchRow
  BY DEF RunInv, Reported, EventsMatchRow
<1> QED
  BY <1>1, Invariant, PTL

(* A run whose finally clause was not cut short has no proxy on, and holds   *)
(* containers and networks only where the engine, a failed start or the      *)
(* cancellation of a start left them (orchestrator.py:75-79, 310-320).        *)
THEOREM TornDown == Spec => []TeardownComplete
<1>1. RunInv => TeardownComplete
  BY DEF RunInv, Holding, TeardownComplete
<1> QED
  BY <1>1, Invariant, PTL

(* A cleanup command that ran through has removed all that podman held, in  *)
(* whatever state the run left it, unless the engine failed to remove        *)
(* something it was told to (runtimes/podman.py:29-45).                       *)
THEOREM PodmanReclaimed == Spec => []CleanupReclaims
<1>1. RunInv => CleanupReclaims
  BY DEF RunInv, Reclaimed, CleanupReclaims
<1> QED
  BY <1>1, Invariant, PTL

-----------------------------------------------------------------------------
USE DEF Lifecycle!Settled

LEMMA Moves ==
    /\ Lifecycle!Forward["none"] = {"pending"}
    /\ Lifecycle!Forward["pending"] = {"running", "completed", "failed"}
    /\ Lifecycle!Forward["running"] = {"completed", "failed"}
BY DEF Lifecycle!Forward

(* Every step is one of RunLifecycle, or changes neither status nor answer. *)
LEMMA StepRefines ==
  ASSUME RunInv, Next
  PROVE  Lifecycle!RLNext \/ UNCHANGED <<row, answer>>
<1>a. TypeOK /\ Placed /\ Reported /\ (pc # "end" => answer = "none")
  BY DEF RunInv, Reported
<1>1. CASE CreateRun
  BY <1>a, <1>1, Moves DEF CreateRun, StatusAfter, TypeOK, Placed, Reported, Lifecycle!RLNext, Lifecycle!Move, Lifecycle!Respond
<1>2. CASE RegisterTasks
  BY <1>a, <1>2, Moves DEF RegisterTasks, TypeOK, Placed, Reported, Lifecycle!RLNext, Lifecycle!Move, Lifecycle!Respond
<1>3. CASE DryRun
  BY <1>a, <1>3, Moves DEF DryRun, StatusAfter, TypeOK, Placed, Reported, Lifecycle!RLNext, Lifecycle!Move, Lifecycle!Respond
<1>4. CASE StartProxy
  BY <1>a, <1>4, Moves DEF StartProxy, TypeOK, Placed, Reported, Lifecycle!RLNext, Lifecycle!Move, Lifecycle!Respond
<1>5. CASE CreateNetwork
  BY <1>a, <1>5, Moves DEF CreateNetwork, TypeOK, Placed, Reported, Lifecycle!RLNext, Lifecycle!Move, Lifecycle!Respond
<1>6. CASE OpenPool
  BY <1>a, <1>6, Moves DEF OpenPool, TypeOK, Placed, Reported, Lifecycle!RLNext, Lifecycle!Move, Lifecycle!Respond
<1>7. CASE PassThrough
  BY <1>a, <1>7, Moves DEF PassThrough, TypeOK, Placed, Reported, Lifecycle!RLNext, Lifecycle!Move, Lifecycle!Respond
<1>8. CASE StartRun
  BY <1>a, <1>8, Moves DEF StartRun, StatusAfter, TypeOK, Placed, Reported, Lifecycle!RLNext, Lifecycle!Move, Lifecycle!Respond
<1>9. CASE RunTasks
  BY <1>a, <1>9, Moves DEF RunTasks, TypeOK, Placed, Reported, Lifecycle!RLNext, Lifecycle!Move, Lifecycle!Respond
<1>10. CASE Judge
  BY <1>a, <1>10, Moves DEF Judge, StatusAfter, TypeOK, Placed, Reported, Lifecycle!RLNext, Lifecycle!Move, Lifecycle!Respond
<1>11. CASE RaiseOutside
  BY <1>a, <1>11, Moves DEF RaiseOutside, Outside, TypeOK, Placed, Reported, Lifecycle!RLNext, Lifecycle!Move, Lifecycle!Respond
<1>12. CASE RaiseInside
  BY <1>a, <1>12, Moves, StepSet DEF RaiseInside, TypeOK, Placed, Reported, Lifecycle!RLNext, Lifecycle!Move, Lifecycle!Respond
<1>13. CASE PortTaken
  BY <1>a, <1>13, Moves DEF PortTaken, TypeOK, Placed, Reported, Lifecycle!RLNext, Lifecycle!Move, Lifecycle!Respond
<1>14. CASE MarkFailed
  BY <1>a, <1>14, Moves DEF MarkFailed, StatusAfter, TypeOK, Placed, Reported, Lifecycle!RLNext, Lifecycle!Move, Lifecycle!Respond
<1>15. CASE MarkFailedRaises
  BY <1>a, <1>15, Moves DEF MarkFailedRaises, TypeOK, Placed, Reported, Lifecycle!RLNext, Lifecycle!Move, Lifecycle!Respond
<1>16. CASE RemoveNetwork
  BY <1>a, <1>16, Moves DEF RemoveNetwork, TypeOK, Placed, Reported, Lifecycle!RLNext, Lifecycle!Move, Lifecycle!Respond
<1>17. CASE DestroyAll
  BY <1>a, <1>17, Moves DEF DestroyAll, TypeOK, Placed, Reported, Lifecycle!RLNext, Lifecycle!Move, Lifecycle!Respond
<1>18. CASE StopProxy
  BY <1>a, <1>18, Moves DEF StopProxy, Stopped, TypeOK, Placed, Reported, Lifecycle!RLNext, Lifecycle!Move, Lifecycle!Respond
<1>19. CASE CancelOutside
  BY <1>a, <1>19, Moves DEF CancelOutside, StatusAfter, Interrupt, Outside, TypeOK, Placed, Reported, Lifecycle!RLNext, Lifecycle!Move, Lifecycle!Respond
<1>20. CASE CancelInside
  BY <1>a, <1>20, Moves, StepSet DEF CancelInside, StatusAfter, Interrupt, TypeOK, Placed, Reported, Lifecycle!RLNext, Lifecycle!Move, Lifecycle!Respond, Outside
<1>21. CASE CancelEnding
  BY <1>a, <1>21, Moves DEF CancelEnding, Interrupt, TypeOK, Placed, Reported, Lifecycle!RLNext, Lifecycle!Move, Lifecycle!Respond
<1>22. CASE Crash
  BY <1>a, <1>22, Moves DEF Crash, StatusAfter, TypeOK, Placed, Reported, Lifecycle!RLNext, Lifecycle!Move, Lifecycle!Respond, Outside
<1>23. CASE CleanContainers
  BY <1>a, <1>23, Moves DEF CleanContainers, CleanupLeaves, TypeOK, Placed, Reported, Lifecycle!RLNext, Lifecycle!Move, Lifecycle!Respond
<1>24. CASE CleanupRaises
  BY <1>a, <1>24, Moves DEF CleanupRaises, CleanupLeaves, TypeOK, Placed, Reported, Lifecycle!RLNext, Lifecycle!Move, Lifecycle!Respond
<1>25. CASE CleanNetworks
  BY <1>a, <1>25, Moves DEF CleanNetworks, CleanupLeaves, Attached, TypeOK, Placed, Reported, Lifecycle!RLNext, Lifecycle!Move, Lifecycle!Respond
<1>26. CASE ProxyDrained
  BY <1>a, <1>26, Moves DEF ProxyDrained, TypeOK, Placed, Reported, Lifecycle!RLNext, Lifecycle!Move, Lifecycle!Respond
<1> QED
  BY <1>1, <1>2, <1>3, <1>4, <1>5, <1>6, <1>7, <1>8, <1>9, <1>10, <1>11, <1>12, <1>13, <1>14, <1>15, <1>16, <1>17, <1>18, <1>19, <1>20, <1>21, <1>22, <1>23, <1>24, <1>25, <1>26 DEF Next, RunStep, Cleanup

(* A run implements RunLifecycle: its status only moves forward, its caller *)
(* hears of it once, and gets its id only when it is settled                *)
(* (orchestrator.py:155-322).                                                *)
THEOREM Implementation == Spec => ImplementsRunLifecycle
<1>1. Init => Lifecycle!RLInit
  BY DEF Init, Lifecycle!RLInit
<1>2. RunInv /\ [Next]_vars => [Lifecycle!RLNext]_<<row, answer>>
  <2> SUFFICES ASSUME RunInv, [Next]_vars PROVE [Lifecycle!RLNext]_<<row, answer>>
    OBVIOUS
  <2>1. CASE Next
    BY <2>1, StepRefines
  <2>2. CASE UNCHANGED vars
    BY <2>2 DEF vars
  <2> QED
    BY <2>1, <2>2
<1> QED
  BY <1>1, <1>2, Invariant, PTL DEF Spec, ImplementsRunLifecycle, Lifecycle!RLSpec
===============================================================================
