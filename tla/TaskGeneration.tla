---------------------------- MODULE TaskGeneration ----------------------------
(***************************************************************************)
(* Where the tasks of a run come from (orchestrator/run_plan.py, taskgen/):*)
(* the configuration, a model that is asked for them about the repository  *)
(* (RepoTaskGenerator), or a harness that writes them to a file in the     *)
(* sandbox, round after round (HarnessTaskGenerator); and the insertion of *)
(* their rows.                                                             *)
(*                                                                         *)
(* The agent that writes the file, and the model, are external: they offer *)
(* any of Offers.  One item of an offer is one step, as one iteration of   *)
(* the loop over it.                                                       *)
(***************************************************************************)
EXTENDS Integers, Sequences

CONSTANTS Configs,   \* the configurations that are planned
          Offers,    \* what may be offered at a time: sequences of items
          MaxRounds, \* taskgen.max_rounds
          FaultSets  \* the sets of faults that may happen in one behavior

NoId == -1

(* Ids are numbers: task_000, the id that the generators give, is 0.  An   *)
(* invalid item has no prompt at all, an empty one an empty prompt.        *)
Id   == Nat \cup {NoId}
Item == [id: Id, form: {"good", "empty", "invalid"}]

(* kind: how the plan is made; count: task_count; static: taskgen.tasks,   *)
(* prompts: taskgen.prompts has items.                                     *)
Config == [kind: {"static", "repo", "harness"}, count: Int,
           static: Seq(Item), prompts: BOOLEAN]

(* model: no repository, no key, no mirror, or no answer that can be read; *)
(* exec: a call of the sandbox raises, or preparing the file fails;        *)
(* harness: so does the agent; read: reading or removing the file fails,   *)
(* which goes unnoticed; store: create_task raises.                        *)
FaultKinds == {"model", "exec", "harness", "read", "store"}

ASSUME GenerationAssumption ==
    /\ Configs \subseteq Config /\ Offers \subseteq Seq(Item)
    /\ MaxRounds \in Nat \ {0} /\ FaultSets \subseteq SUBSET FaultKinds

VARIABLES cfg, faults, \* fixed in a behavior
          pc,          \* where planning is
          round,       \* round_index
          tasks,       \* the tasks so far: id, form, and for generated ones
                       \* the round their file was written in and was read in
          file,        \* the output file: <<>>, or its round and its items
          batch,       \* the items of the file that are still to be looked at
          rows         \* how many rows of tasks were inserted

vars == <<cfg, faults, pc, round, tasks, file, batch, rows>>

(* Python's s[:n]: a negative n counts from the end. *)
SliceTo(s, n) ==
    LET end == IF n >= 0 THEN n ELSE Len(s) + n
    IN  SubSeq(s, 1, IF end <= Len(s) THEN end ELSE Len(s))

Planned(item) == [id |-> item.id, form |-> item.form, written |-> 0, read |-> 0]
Ids(ts) == {ts[i].id : i \in DOMAIN ts}

(* The repository may have a file of that name already. *)
Init == /\ cfg \in Configs /\ faults \in FaultSets
        /\ pc = "plan" /\ round = 0 /\ tasks = <<>> /\ batch = <<>> /\ rows = 0
        /\ \/ file = <<>>
           \/ /\ cfg.kind = "harness"
              /\ \E offer \in Offers : file = [round |-> -1, items |-> offer]

-----------------------------------------------------------------------------
PlanStatic ==
    /\ pc = "plan" /\ cfg.kind = "static"
    /\ tasks' = [i \in DOMAIN SliceTo(cfg.static, cfg.count) |-> Planned(cfg.static[i])]
    /\ pc' = "planned"
    /\ UNCHANGED <<cfg, faults, round, file, batch, rows>>

(* An item without an id gets the one of its position. *)
PlanByModel ==
    /\ pc = "plan" /\ cfg.kind = "repo"
    /\ \E offer \in Offers :
           LET taken == SliceTo(offer, cfg.count) IN
           /\ taken # <<>> /\ \A i \in DOMAIN taken : taken[i].form # "invalid"
           /\ tasks' = [i \in DOMAIN taken |->
                  Planned([taken[i] EXCEPT !.id = IF @ = NoId THEN i - 1 ELSE @])]
    /\ pc' = "planned"
    /\ UNCHANGED <<cfg, faults, round, file, batch, rows>>

(* The default tasks, when the model cannot be had or offers nothing usable: *)
(* every exception on the way there is swallowed.                            *)
PlanDefaults ==
    /\ pc = "plan" /\ cfg.kind = "repo"
    /\ \/ "model" \in faults
       \/ \E offer \in Offers :
              LET taken == SliceTo(offer, cfg.count) IN
              taken = <<>> \/ \E i \in DOMAIN taken : taken[i].form = "invalid"
    /\ tasks' = [i \in 1..cfg.count |-> Planned([id |-> i - 1, form |-> "good"])]
    /\ pc' = "planned"
    /\ UNCHANGED <<cfg, faults, round, file, batch, rows>>

PlanByHarness ==
    /\ pc = "plan" /\ cfg.kind = "harness"
    /\ pc' = IF cfg.prompts THEN "round" ELSE "raised"
    /\ UNCHANGED <<cfg, faults, round, tasks, file, batch, rows>>

-----------------------------------------------------------------------------
Bug_OneRoundMore == round <= MaxRounds /\ Len(tasks) < cfg.count

MoreRounds == round < MaxRounds /\ Len(tasks) < cfg.count

Bug_PrepareKeepsFile ==
    /\ pc = "round" /\ MoreRounds
    /\ pc' = "run"
    /\ UNCHANGED <<cfg, faults, round, tasks, file, batch, rows>>

(* _prepare_output_file: mkdir -p and rm -f *)
Prepare ==
    /\ pc = "round" /\ MoreRounds
    /\ file' = <<>> /\ pc' = "run"
    /\ UNCHANGED <<cfg, faults, round, tasks, batch, rows>>

PrepareRaises ==
    /\ "exec" \in faults /\ pc = "round" /\ MoreRounds
    /\ pc' = "raised"
    /\ UNCHANGED <<cfg, faults, round, tasks, file, batch, rows>>

(* The agent writes the file, or does not. *)
Written == {file} \cup {[round |-> round, items |-> offer] : offer \in Offers}

RunHarness ==
    /\ pc = "run"
    /\ file' \in Written /\ pc' = "read"
    /\ UNCHANGED <<cfg, faults, round, tasks, batch, rows>>

HarnessFails ==
    /\ "harness" \in faults /\ pc = "run"
    /\ file' \in Written /\ pc' = "raised"
    /\ UNCHANGED <<cfg, faults, round, tasks, batch, rows>>

(* _read_generated_tasks: what cannot be read or parsed is an empty list. *)
ReadFile ==
    /\ pc = "read"
    /\ \/ batch' = IF file = <<>> THEN <<>> ELSE file.items
       \/ "read" \in faults /\ batch' = <<>>
    /\ pc' = "take"
    /\ UNCHANGED <<cfg, faults, round, tasks, file, rows>>

Usable(item) == item.form = "good" /\ item.id # NoId /\ item.id \notin Ids(tasks)

Generated(item) == [id |-> item.id, form |-> item.form,
                    written |-> file.round, read |-> round]

Bug_TakeAllOfBatch ==
    /\ pc = "take" /\ batch # <<>>
    /\ tasks' = IF Usable(Head(batch)) THEN Append(tasks, Generated(Head(batch))) ELSE tasks
    /\ batch' = Tail(batch)
    /\ UNCHANGED <<cfg, faults, pc, round, file, rows>>

TakeItem ==
    /\ pc = "take" /\ batch # <<>> /\ Len(tasks) < cfg.count
    /\ tasks' = IF Usable(Head(batch)) THEN Append(tasks, Generated(Head(batch))) ELSE tasks
    /\ batch' = Tail(batch)
    /\ UNCHANGED <<cfg, faults, pc, round, file, rows>>

Bug_RoundKeepsIndex ==
    /\ pc = "take" /\ (batch = <<>> \/ Len(tasks) >= cfg.count)
    /\ round' = IF batch = <<>> /\ tasks = <<>> THEN round ELSE round + 1
    /\ batch' = <<>> /\ pc' = "round"
    /\ UNCHANGED <<cfg, faults, tasks, file, rows>>

EndRound ==
    /\ pc = "take" /\ (batch = <<>> \/ Len(tasks) >= cfg.count)
    /\ round' = round + 1 /\ batch' = <<>> /\ pc' = "round"
    /\ UNCHANGED <<cfg, faults, tasks, file, rows>>

Bug_GiveUpOnEmptyRound ==
    /\ pc = "round" /\ (~MoreRounds \/ (round > 0 /\ tasks = <<>>))
    /\ pc' = IF Len(tasks) < cfg.count THEN "raised" ELSE "cleanup"
    /\ UNCHANGED <<cfg, faults, round, tasks, file, batch, rows>>

EndGeneration ==
    /\ pc = "round" /\ ~MoreRounds
    /\ pc' = IF Len(tasks) < cfg.count THEN "raised" ELSE "cleanup"
    /\ UNCHANGED <<cfg, faults, round, tasks, file, batch, rows>>

CleanupOutputFile ==
    /\ pc = "cleanup" /\ pc' = "planned"
    /\ \/ file' = <<>>
       \/ "read" \in faults /\ UNCHANGED file
    /\ UNCHANGED <<cfg, faults, round, tasks, batch, rows>>

(* No runtime binary, or the file is not text. *)
ExecRaises ==
    /\ "exec" \in faults /\ pc \in {"read", "cleanup"}
    /\ pc' = "raised"
    /\ UNCHANGED <<cfg, faults, round, tasks, file, batch, rows>>

(* create_task, one row after the other, each committed. *)
RegisterTask ==
    /\ pc = "planned" /\ rows < Len(tasks)
    /\ tasks[rows + 1].id \notin Ids(SubSeq(tasks, 1, rows))
    /\ rows' = rows + 1
    /\ UNCHANGED <<cfg, faults, pc, round, tasks, file, batch>>

(* The second row with an id violates the primary key. *)
RegisterClashes ==
    /\ pc = "planned" /\ rows < Len(tasks)
    /\ tasks[rows + 1].id \in Ids(SubSeq(tasks, 1, rows))
    /\ pc' = "clash"
    /\ UNCHANGED <<cfg, faults, round, tasks, file, batch, rows>>

StoreRaises ==
    /\ "store" \in faults /\ pc = "planned" /\ rows < Len(tasks)
    /\ pc' = "raised"
    /\ UNCHANGED <<cfg, faults, round, tasks, file, batch, rows>>

EndRegistration ==
    /\ pc = "planned" /\ rows = Len(tasks)
    /\ pc' = "registered"
    /\ UNCHANGED <<cfg, faults, round, tasks, file, batch, rows>>

Next == \/ PlanStatic \/ PlanByModel \/ PlanDefaults \/ PlanByHarness
        \/ Prepare \/ PrepareRaises \/ RunHarness \/ HarnessFails \/ ReadFile
        \/ TakeItem \/ EndRound \/ EndGeneration \/ CleanupOutputFile \/ ExecRaises
        \/ RegisterTask \/ RegisterClashes \/ StoreRaises \/ EndRegistration

Spec == Init /\ [][Next]_vars

(* Planning is one coroutine whose calls all carry timeouts. *)
FairSpec == Spec /\ WF_vars(Next)

-----------------------------------------------------------------------------
(* Type invariant of planning (run_plan.py, harness_task_generator.py). *)
Places == {"plan", "round", "run", "read", "take", "cleanup", "planned",
           "registered", "clash", "raised"}
Task == [id: Id, form: {"good", "empty", "invalid"}, written: Nat, read: Nat]
TypeOK ==
    /\ cfg \in Config /\ faults \in SUBSET FaultKinds
    /\ pc \in Places /\ round \in 0..MaxRounds
    /\ tasks \in Seq(Task) /\ batch \in Seq(Item)
    /\ file = <<>> \/ file \in [round: -1..MaxRounds, items: Seq(Item)]
    /\ rows \in 0..Len(tasks)

Distinct(ts) == \A i, k \in DOMAIN ts : ts[i].id = ts[k].id => i = k

(* A harness yields exactly the tasks asked for, each with an id of its own *)
(* and a prompt, whatever it writes; so the insertion of their rows, which *)
(* RunOrchestrator has in the try statement, never meets an id twice        *)
(* (harness_task_generator.py:24-64, orchestrator.py:269-272).               *)
HarnessPlanIsExact ==
    cfg.kind = "harness" =>
        /\ pc # "clash"
        /\ pc \in {"planned", "registered"} =>
               /\ Len(tasks) = IF cfg.count > 0 THEN cfg.count ELSE 0
               /\ Distinct(tasks)
               /\ \A i \in DOMAIN tasks : tasks[i].id # NoId /\ tasks[i].form = "good"

(* Every generated task was read in the round its file was written in: what *)
(* the repository had, or an earlier round left and could not be read then,  *)
(* is never taken for the answer to a later prompt                           *)
(* (harness_task_generator.py:34, 98-107).                                   *)
OnlyFreshTasks == \A i \in DOMAIN tasks : tasks[i].written = tasks[i].read

(* Generation gives up only when all the rounds were used, or a call failed *)
(* that is not swallowed (harness_task_generator.py:27-64).                   *)
GivesUpOnlyWhenExhausted ==
    pc = "raised" /\ cfg.kind = "harness" /\ cfg.prompts
                  /\ faults \cap {"exec", "harness", "store"} = {} =>
        round = MaxRounds /\ Len(tasks) < cfg.count

(* Planning ends, with all the rows inserted or an exception               *)
(* (run_plan.py:16-27, harness_task_generator.py:27-64).                      *)
PlanningEnds ==
    <>(pc \in {"clash", "raised"} \/ (pc = "registered" /\ rows = Len(tasks)))
===============================================================================
