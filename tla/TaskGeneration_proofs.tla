------------------------ MODULE TaskGeneration_proofs ------------------------
(***************************************************************************)
(* Proofs about TaskGeneration, for any offers, counts, rounds and faults. *)
(* The inductive invariant follows the loop of the generator: the file     *)
(* belongs to the round it is read in (Fresh), and the tasks so far are    *)
(* usable, distinct and no more than asked for (Exact).                     *)
(***************************************************************************)
EXTENDS TaskGeneration, SequenceTheorems, TLAPS

InRound == {"run", "read", "take"}

Fresh ==
    /\ pc \in InRound => round < MaxRounds
    /\ pc = "run" => file = <<>>
    /\ pc \in {"read", "take"} /\ file # <<>> => file.round = round
    /\ batch # <<>> => pc = "take" /\ file # <<>>
    /\ pc \notin {"planned", "registered", "clash", "raised"} => rows = 0

Exact ==
    /\ pc \in InRound \cup {"round", "cleanup"} => cfg.kind = "harness"
    /\ cfg.kind = "harness" =>
        /\ pc = "plan" => tasks = <<>>
        /\ Distinct(tasks) /\ pc # "clash"
        /\ \A i \in DOMAIN tasks : tasks[i].id # NoId /\ tasks[i].form = "good"
        /\ Len(tasks) = 0 \/ Len(tasks) <= cfg.count
        /\ pc \in {"cleanup", "planned", "registered"} => Len(tasks) >= cfg.count

GenerationInv ==
    TypeOK /\ Fresh /\ Exact /\ OnlyFreshTasks /\ GivesUpOnlyWhenExhausted

USE DEF Id, NoId, InRound

LEMMA SliceType ==
  ASSUME NEW S, NEW s \in Seq(S), NEW n \in Int
  PROVE  SliceTo(s, n) \in Seq(S) /\ Len(SliceTo(s, n)) <= Len(s)
<1> DEFINE end == IF n >= 0 THEN n ELSE Len(s) + n
           last == IF end <= Len(s) THEN end ELSE Len(s)
<1>1. last \in Int /\ last <= Len(s)
  OBVIOUS
<1>2. SliceTo(s, n) = SubSeq(s, 1, last)
  BY DEF SliceTo
<1> HIDE DEF last, end
<1>3. SubSeq(s, 1, last) \in Seq(S) /\ Len(SubSeq(s, 1, last)) <= Len(s)
  BY <1>1
<1> QED
  BY <1>2, <1>3

LEMMA InitGenerationInv == Init => GenerationInv
BY GenerationAssumption DEF GenerationAssumption, Init, GenerationInv, TypeOK, Places,
   Fresh, Exact, Distinct, OnlyFreshTasks, GivesUpOnlyWhenExhausted

(* What a plan takes from the configuration or from the model is a task. *)
LEMMA PlanType ==
  ASSUME TypeOK, PlanStatic \/ PlanByModel \/ PlanDefaults
  PROVE  /\ tasks' \in Seq(Task)
         /\ \A i \in DOMAIN tasks' : tasks'[i].written = tasks'[i].read
<1>1. \A s \in Seq(Item), n \in Int : SliceTo(s, n) \in Seq(Item) /\ Len(SliceTo(s, n)) <= Len(s)
  BY SliceType
<1>2. \A item \in Item : Planned(item) \in Task /\ Planned(item).written = Planned(item).read
  BY DEF Planned, Task, Item
<1>3. CASE PlanStatic
  <2> DEFINE s == SliceTo(cfg.static, cfg.count)
  <2>1. cfg.static \in Seq(Item) /\ cfg.count \in Int
    BY DEF TypeOK, Config
  <2>2. s \in Seq(Item) /\ DOMAIN s = 1..Len(s) /\ Len(s) \in Nat /\ Len(s) <= Len(cfg.static)
    BY <1>1, <2>1
  <2>3. tasks' = [i \in DOMAIN s |-> Planned(cfg.static[i])]
    BY <1>3 DEF PlanStatic
  <2> HIDE DEF s
  <2>4. \A i \in 1..Len(s) : cfg.static[i] \in Item
    BY <2>1, <2>2
  <2> QED
    BY <1>2, <2>2, <2>3, <2>4
<1>4. CASE PlanByModel
  <2>1. PICK offer \in Offers :
           tasks' = [i \in DOMAIN SliceTo(offer, cfg.count) |->
                  Planned([SliceTo(offer, cfg.count)[i] EXCEPT !.id = IF @ = NoId THEN i - 1 ELSE @])]
    BY <1>4 DEF PlanByModel
  <2> DEFINE s == SliceTo(offer, cfg.count)
             Named(i) == [s[i] EXCEPT !.id = IF @ = NoId THEN i - 1 ELSE @]
  <2>2. offer \in Seq(Item) /\ cfg.count \in Int
    BY GenerationAssumption DEF GenerationAssumption, TypeOK, Config
  <2>3. s \in Seq(Item) /\ DOMAIN s = 1..Len(s) /\ Len(s) \in Nat
    BY <1>1, <2>2
  <2>4. tasks' = [i \in DOMAIN s |-> Planned(Named(i))]
    BY <2>1
  <2> HIDE DEF s
  <2>5. \A i \in 1..Len(s) : Named(i) \in Item
    <3> SUFFICES ASSUME NEW i \in 1..Len(s) PROVE Named(i) \in Item
      OBVIOUS
    <3>1. s[i] \in Item /\ i - 1 \in Nat
      BY <2>3
    <3>2. CASE s[i].id = NoId
      <4>1. Named(i) = [s[i] EXCEPT !.id = i - 1]
        BY <3>2
      <4> QED
        BY <3>1, <4>1 DEF Item
    <3>3. CASE s[i].id # NoId
      <4>1. Named(i) = s[i]
        BY <3>1, <3>3 DEF Item
      <4> QED
        BY <3>1, <4>1
    <3> QED
      BY <3>2, <3>3
  <2> HIDE DEF Named
  <2> QED
    BY <1>2, <2>3, <2>4, <2>5
<1>5. CASE PlanDefaults
  <2>1. tasks' = [i \in 1..cfg.count |-> Planned([id |-> i - 1, form |-> "good"])]
    BY <1>5 DEF PlanDefaults
  <2>2. \A i \in 1..cfg.count : [id |-> i - 1, form |-> "good"] \in Item
    BY DEF Item, TypeOK, Config
  <2>3. tasks' \in [1..cfg.count -> Task] /\ \A i \in 1..cfg.count : tasks'[i].written = tasks'[i].read
    BY <1>2, <2>1, <2>2
  <2>4. tasks' \in Seq(Task) /\ DOMAIN tasks' = 1..cfg.count
    <3>1. cfg.count \in Int
      BY DEF TypeOK, Config
    <3>2. CASE cfg.count \in Nat
      BY <2>3, <3>2
    <3>3. CASE cfg.count \notin Nat
      <4>1. 1..cfg.count = 1..0
        BY <3>1, <3>3
      <4>2. tasks' \in [1..0 -> Task]
        BY <2>3, <4>1
      <4> QED
        BY <4>1, <4>2
    <3> QED
      BY <3>2, <3>3
  <2> QED
    BY <2>3, <2>4
<1> QED
  BY <1>3, <1>4, <1>5

(* A usable item makes one more task, with an id of its own. *)
LEMMA TakeItemInv ==
  ASSUME GenerationInv, TakeItem
  PROVE  GenerationInv'
<1> USE DEF GenerationInv
<1>1. /\ pc = "take" /\ batch # <<>> /\ Len(tasks) < cfg.count
      /\ batch' = Tail(batch) /\ UNCHANGED <<cfg, faults, pc, round, file, rows>>
  BY DEF TakeItem
<1>2. /\ cfg.kind = "harness" /\ file \in [round: -1..MaxRounds, items: Seq(Item)]
      /\ file.round = round /\ round < MaxRounds /\ round \in Nat /\ cfg.count \in Int
  BY <1>1, GenerationAssumption DEF GenerationAssumption, Exact, Fresh, TypeOK, Config
<1>3. Head(batch) \in Item /\ Tail(batch) \in Seq(Item)
  BY <1>1 DEF TypeOK
<1>4. CASE ~Usable(Head(batch))
  <2>1. tasks' = tasks
    BY <1>4 DEF TakeItem
  <2> QED
    BY <1>1, <1>2, <1>3, <2>1 DEF TypeOK, Fresh, Exact, Distinct, OnlyFreshTasks, GivesUpOnlyWhenExhausted
<1>5. CASE Usable(Head(batch))
  <2> DEFINE t == Generated(Head(batch))
  <2>1. tasks' = Append(tasks, t)
    BY <1>5 DEF TakeItem
  <2>2. /\ t \in Task /\ t.written = t.read /\ t.id # NoId /\ t.form = "good"
        /\ \A i \in DOMAIN tasks : tasks[i].id # t.id
    BY <1>2, <1>3, <1>5 DEF Generated, Task, Item, Usable, Ids
  <2> HIDE DEF t
  <2>3. /\ tasks \in Seq(Task) /\ tasks' \in Seq(Task) /\ Len(tasks') = Len(tasks) + 1
        /\ DOMAIN tasks = 1..Len(tasks) /\ DOMAIN tasks' = 1..(Len(tasks) + 1)
        /\ \A i \in 1..Len(tasks) : tasks'[i] = tasks[i]
        /\ tasks'[Len(tasks) + 1] = t
    BY <2>1, <2>2 DEF TypeOK
  <2>4. Distinct(tasks) /\ OnlyFreshTasks
    BY <1>2 DEF Exact
  <2>5. Distinct(tasks')
    BY <2>2, <2>3, <2>4 DEF Distinct
  <2>6. TypeOK'
    BY <1>1, <1>2, <1>3, <2>3 DEF TypeOK
  <2>7. Fresh' /\ GivesUpOnlyWhenExhausted'
    BY <1>1, <1>2 DEF Fresh, GivesUpOnlyWhenExhausted
  <2>9. OnlyFreshTasks'
    BY <2>2, <2>3, <2>4 DEF OnlyFreshTasks
  <2>8. Exact'
    <3>1. \A i \in DOMAIN tasks' : tasks'[i].id # NoId /\ tasks'[i].form = "good"
      <4>1. \A i \in DOMAIN tasks : tasks[i].id # NoId /\ tasks[i].form = "good"
        BY <1>2 DEF Exact
      <4> QED
        BY <2>2, <2>3, <4>1
    <3>2. Len(tasks') <= cfg.count
      BY <1>1, <1>2, <2>3
    <3>3. cfg' = cfg /\ pc' = "take"
      BY <1>1
    <3> QED
      BY <1>2, <2>5, <3>1, <3>2, <3>3 DEF Exact
  <2> QED
    BY <2>6, <2>7, <2>8, <2>9
<1> QED
  BY <1>4, <1>5

(* Rows are inserted one by one: distinct ids never clash. *)
LEMMA NoClash ==
  ASSUME TypeOK, RegisterClashes
  PROVE  ~Distinct(tasks)
<1>1. rows \in 0..Len(tasks) /\ rows < Len(tasks) /\ tasks \in Seq(Task)
  BY DEF TypeOK, RegisterClashes
<1>2. PICK k \in DOMAIN SubSeq(tasks, 1, rows) :
          tasks[rows + 1].id = SubSeq(tasks, 1, rows)[k].id
  BY DEF RegisterClashes, Ids
<1>3. k \in 1..rows /\ SubSeq(tasks, 1, rows)[k] = tasks[k]
  BY <1>1, <1>2
<1>4. k \in DOMAIN tasks /\ rows + 1 \in DOMAIN tasks /\ k # rows + 1
  BY <1>1, <1>3
<1> QED
  BY <1>2, <1>3, <1>4 DEF Distinct

LEMMA NextGenerationInv == GenerationInv /\ [Next]_vars => GenerationInv'
<1> SUFFICES ASSUME GenerationInv, [Next]_vars PROVE GenerationInv'
  OBVIOUS
<1> USE DEF GenerationInv, TypeOK, Fresh, Exact, OnlyFreshTasks, GivesUpOnlyWhenExhausted
<1>1. CASE PlanStatic
  <2>1. /\ pc = "plan" /\ cfg.kind # "harness" /\ pc' = "planned"
        /\ UNCHANGED <<cfg, faults, round, file, batch, rows>>
    BY <1>1 DEF PlanStatic
  <2>2. rows' \in 0..Len(tasks')
    <3>1. rows' = 0 /\ Len(tasks') \in Nat
      BY <1>1, PlanType, <2>1
    <3> QED
      BY <3>1
  <2> QED
    BY <1>1, PlanType, <2>1, <2>2 DEF Places
<1>2. CASE PlanByModel
  <2>1. /\ pc = "plan" /\ cfg.kind # "harness" /\ pc' = "planned"
        /\ UNCHANGED <<cfg, faults, round, file, batch, rows>>
    BY <1>2 DEF PlanByModel
  <2>2. rows' \in 0..Len(tasks')
    <3>1. rows' = 0 /\ Len(tasks') \in Nat
      BY <1>2, PlanType, <2>1
    <3> QED
      BY <3>1
  <2> QED
    BY <1>2, PlanType, <2>1, <2>2 DEF Places
<1>3. CASE PlanDefaults
  <2>1. /\ pc = "plan" /\ cfg.kind # "harness" /\ pc' = "planned"
        /\ UNCHANGED <<cfg, faults, round, file, batch, rows>>
    BY <1>3 DEF PlanDefaults
  <2>2. rows' \in 0..Len(tasks')
    <3>1. rows' = 0 /\ Len(tasks') \in Nat
      BY <1>3, PlanType, <2>1
    <3> QED
      BY <3>1
  <2> QED
    BY <1>3, PlanType, <2>1, <2>2 DEF Places
<1>4. CASE PlanByHarness
  BY <1>4 DEF PlanByHarness, Places, Distinct
<1>5. CASE Prepare
  BY <1>5 DEF Prepare, Places, Distinct, MoreRounds
<1>6. CASE PrepareRaises
  BY <1>6 DEF PrepareRaises, Places, Distinct, MoreRounds
<1>7. CASE RunHarness
  BY <1>7, GenerationAssumption DEF RunHarness, Places, Distinct, Written, GenerationAssumption
<1>8. CASE HarnessFails
  BY <1>8, GenerationAssumption DEF HarnessFails, Places, Distinct, Written, GenerationAssumption
<1>9. CASE ReadFile
  BY <1>9 DEF ReadFile, Places, Distinct
<1>10. CASE TakeItem
  BY <1>10, TakeItemInv
<1>11. CASE EndRound
  <2>1. /\ pc = "take" /\ round' = round + 1 /\ batch' = <<>> /\ pc' = "round"
        /\ UNCHANGED <<cfg, faults, tasks, file, rows>>
    BY <1>11 DEF EndRound
  <2>2. round \in 0..MaxRounds /\ round < MaxRounds /\ MaxRounds \in Nat
    BY <2>1, GenerationAssumption DEF GenerationAssumption
  <2>3. round' \in 0..MaxRounds
    BY <2>1, <2>2
  <2> QED
    BY <2>1, <2>3 DEF Places, Distinct
<1>12. CASE EndGeneration
  <2>1. /\ pc = "round" /\ UNCHANGED <<cfg, faults, round, tasks, file, batch, rows>>
        /\ round >= MaxRounds \/ Len(tasks) >= cfg.count
        /\ pc' = IF Len(tasks) < cfg.count THEN "raised" ELSE "cleanup"
    <3>1. pc = "round" /\ ~MoreRounds /\ UNCHANGED <<cfg, faults, round, tasks, file, batch, rows>>
      BY <1>12 DEF EndGeneration
    <3>2. pc' = IF Len(tasks) < cfg.count THEN "raised" ELSE "cleanup"
      BY <1>12 DEF EndGeneration
    <3>3. Len(tasks) \in Nat /\ cfg.count \in Int /\ round \in Nat /\ MaxRounds \in Nat
      BY GenerationAssumption DEF GenerationAssumption, Config
    <3> QED
      BY <3>1, <3>2, <3>3 DEF MoreRounds
  <2>2. Len(tasks) \in Nat /\ cfg.count \in Int /\ round \in 0..MaxRounds /\ MaxRounds \in Nat
    BY GenerationAssumption DEF GenerationAssumption, Config
  <2>3. CASE Len(tasks) < cfg.count
    <3>1. pc' = "raised" /\ round = MaxRounds
      BY <2>1, <2>2, <2>3
    <3> QED
      BY <2>1, <2>3, <3>1 DEF Places, Distinct
  <2>4. CASE ~(Len(tasks) < cfg.count)
    <3>1. pc' = "cleanup" /\ Len(tasks) >= cfg.count
      BY <2>1, <2>2, <2>4
    <3> QED
      BY <2>1, <3>1 DEF Places, Distinct
  <2> QED
    BY <2>3, <2>4
<1>13. CASE CleanupOutputFile
  BY <1>13 DEF CleanupOutputFile, Places, Distinct
<1>14. CASE ExecRaises
  BY <1>14 DEF ExecRaises, Places, Distinct
<1>15. CASE RegisterTask
  BY <1>15 DEF RegisterTask, Places, Distinct
<1>16. CASE RegisterClashes
  BY <1>16, NoClash DEF RegisterClashes, Places
<1>17. CASE StoreRaises
  BY <1>17 DEF StoreRaises, Places, Distinct
<1>18. CASE EndRegistration
  BY <1>18 DEF EndRegistration, Places, Distinct
<1>19. CASE UNCHANGED vars
  BY <1>19 DEF vars, Distinct
<1> QED
  BY <1>1, <1>2, <1>3, <1>4, <1>5, <1>6, <1>7, <1>8, <1>9, <1>10, <1>11, <1>12, <1>13, <1>14, <1>15, <1>16, <1>17, <1>18, <1>19 DEF Next

(* The inductive invariant holds in every reachable state. *)
THEOREM Invariant == Spec => []GenerationInv
BY InitGenerationInv, NextGenerationInv, PTL DEF Spec

(* Planning keeps its types (run_plan.py, harness_task_generator.py). *)
THEOREM TypeCorrect == Spec => []TypeOK
<1>1. GenerationInv => TypeOK
  BY DEF GenerationInv
<1> QED
  BY <1>1, Invariant, PTL

(* A harness yields exactly the tasks asked for, whose rows can be inserted *)
(* (harness_task_generator.py:24-64, orchestrator.py:269-272).                *)
THEOREM HarnessExact == Spec => []HarnessPlanIsExact
<1>1. GenerationInv => HarnessPlanIsExact
  BY DEF GenerationInv, TypeOK, Config, Exact, HarnessPlanIsExact
<1> QED
  BY <1>1, Invariant, PTL

(* No task comes from a file of an earlier round                           *)
(* (harness_task_generator.py:34, 98-107).                                    *)
THEOREM TasksFresh == Spec => []OnlyFreshTasks
<1>1. GenerationInv => OnlyFreshTasks
  BY DEF GenerationInv
<1> QED
  BY <1>1, Invariant, PTL

(* All rounds are used before generation gives up                          *)
(* (harness_task_generator.py:27-64).                                         *)
THEOREM RoundsExhausted == Spec => []GivesUpOnlyWhenExhausted
<1>1. GenerationInv => GivesUpOnlyWhenExhausted
  BY DEF GenerationInv
<1> QED
  BY <1>1, Invariant, PTL
===============================================================================
