------------------------------- MODULE Views -------------------------------
(***************************************************************************)
(* What one thread knows of the others' memory accesses, for the modules   *)
(* RingOrdering and WeakOrdering.  A view has a vector clock (which        *)
(* accesses to plain memory happen before what the thread does next) and,  *)
(* for every atomic, how much of its modification order the thread may no  *)
(* longer ignore.  A store with release ordering publishes the view of its *)
(* thread, a load with acquire ordering that reads it joins it.            *)
(*                                                                         *)
(* This is the promise-free part of the C11 model that Rust has: a thread  *)
(* may read old values, but no value that is yet to be written.            *)
(***************************************************************************)
EXTENDS Integers

CONSTANTS Threads, Atomics

Views == [clock : [Threads -> Nat], seen : [Atomics -> Nat \ {0}]]

(* The first entry of an atomic is what it is created with.                *)
NoView == [clock |-> [t \in Threads |-> 0], seen |-> [a \in Atomics |-> 1]]

Later(m, n) == IF m > n THEN m ELSE n

Join(u, v) ==
  [clock |-> [t \in Threads |-> Later(u.clock[t], v.clock[t])],
   seen  |-> [a \in Atomics |-> Later(u.seen[a], v.seen[a])]]

(* The view of a thread that has seen entry i of atomic a.                 *)
See(u, a, i) == [u EXCEPT !.seen[a] = Later(@, i)]

(* The view of thread t after one more access to plain memory.             *)
Tick(u, t) == [u EXCEPT !.clock[t] = @ + 1]

(* An access is [by, at]: thread and its clock.  Does it happen before     *)
(* what the owner of view u does next?                                     *)
Before(access, u) == access.at <= u.clock[access.by]
=============================================================================
