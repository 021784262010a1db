---------------------------- MODULE RunLifecycle ----------------------------
(* What a run promises to those who look at the runs table and to the      *)
(* caller of run(): its status only moves forward, and whoever gets a run  *)
(* id back finds the run settled.  How the orchestrator gets there is the  *)
(* business of RunOrchestrator, which implements this module.              *)

VARIABLES status, \* the committed status of the run
          answer  \* what the caller of run() got

Settled == {"completed", "failed"}

RLInit == status = "none" /\ answer = "none"

(* Completing without having started is what a dry run does. *)
Forward == [none      |-> {"pending"},
            pending   |-> {"running", "completed", "failed"},
            running   |-> Settled,
            completed |-> {},
            failed    |-> {}]

Move == status' \in {status} \cup Forward[status]

(* The caller gets an answer once: the run's id only when the run is        *)
(* settled, else an exception, a cancellation or, from a crash, nothing.    *)
Respond == \/ UNCHANGED answer
           \/ answer' = "returned" /\ status' \in Settled
           \/ answer' \in {"raised", "cancelled", "dead"}

RLNext == answer = "none" /\ Move /\ Respond

RLSpec == RLInit /\ [][RLNext]_<<status, answer>>
=============================================================================
