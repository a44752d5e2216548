---------------------------- MODULE StressState ----------------------------
(***************************************************************************)
(* StressState of src/src/bin/bench/generic_stress.rs: one mutex and one   *)
(* condition variable by which the main thread starts all workers at once  *)
(* and waits until the last one has completed.  The workers' wait and the  *)
(* main thread's share the condition variable, so everyone is woken for    *)
(* either event and tests again.                                           *)
(*                                                                         *)
(* A critical section is one step: between lock and unlock nothing else is *)
(* waited for, and wait gives the mutex back in the moment it sleeps.      *)
(***************************************************************************)
EXTENDS Naturals

CONSTANT Expected   \* explected_complete: how often complete is called

VARIABLES
  running, n_completed,  \* StressInnerState
  asleep                 \* threads inside condvar.wait

state == <<running, n_completed, asleep>>

InitState ==
  /\ running = FALSE
  /\ n_completed = 0
  /\ asleep = {}

(* One turn of the loop of wait_for_start; it returns if running.          *)
WaitForStart(t) ==
  /\ t \notin asleep
  /\ asleep' = IF running THEN asleep ELSE asleep \cup {t}
  /\ UNCHANGED <<running, n_completed>>

TriggerStart ==
  /\ running' = TRUE
  /\ asleep' = {}
  /\ UNCHANGED n_completed

AllCompleted == n_completed >= Expected

(* One turn of the loop of wait_for_complete; it returns if AllCompleted.  *)
WaitForComplete(t) ==
  /\ t \notin asleep
  /\ asleep' = IF AllCompleted THEN asleep ELSE asleep \cup {t}
  /\ UNCHANGED <<running, n_completed>>

(* Mutant: the last to complete tells nobody.                              *)
CompleteQuiet ==
  /\ n_completed' = n_completed + 1
  /\ UNCHANGED <<running, asleep>>

Complete ==
  /\ n_completed' = n_completed + 1
  /\ asleep' = {}
  /\ UNCHANGED running

(* A condition variable may wake a thread for no reason.                   *)
SpuriousWake(t) ==
  /\ t \in asleep
  /\ asleep' = asleep \ {t}
  /\ UNCHANGED <<running, n_completed>>
=============================================================================
