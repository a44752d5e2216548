---------------------------- MODULE MCSpscTable ----------------------------
(***************************************************************************)
(* Small instances of SpscTable for TLC: the threads are model values, and *)
(* threads of one kind are interchangeable.  A behaviour has one of the    *)
(* Casts: the threads that come to the table, the others never do.         *)
(***************************************************************************)
EXTENDS SpscInvariant, WordBits, TLC

CONSTANT Casts

VARIABLE cast

MCInit == Init /\ cast \in Casts
MCNext == Next /\ UNCHANGED cast /\ \A t \in Threads \ cast : pc'[t] = "out"

MCSpec     == MCInit /\ [][MCNext]_<<vars, cast>>
MCFairSpec == MCSpec /\ Fairness

ThreadSymmetry ==
  Permutations(StrongObservers) \cup Permutations(WeakObservers)
=============================================================================
