------------------------------- MODULE Table -------------------------------
(***************************************************************************)
(* What the table traits of src/src/table_ipc/mod.rs promise, with no ring *)
(* buffer in sight: an append-only history of rows, the position of the    *)
(* (single) stream of consumed rows, and a position of its own for every   *)
(* attached strong observer.  A put, a take and an observation are atomic. *)
(*                                                                         *)
(* The payload of the row with global index i is written Row(i); the       *)
(* program never inspects a payload, so naming it by its index loses       *)
(* nothing and makes any mix-up of rows visible.                           *)
(***************************************************************************)
EXTENDS Integers

CONSTANTS
  Capacity,         \* rows an attached reader may be behind the producer
  Consumers,        \* threads that may hold the consumer handle
  StrongObservers,  \* threads that may hold a strong-observer handle
  WeakObservers     \* threads that may hold a weak-observer handle

VARIABLES
  rows,      \* number of rows ever appended: the history is Row(0 .. rows-1)
  taken,     \* number of rows handed to consumers
  position,  \* next row of each strong observer; Detached without a handle
  result     \* what the last receive or observe call of a thread returned

vars == <<rows, taken, position, result>>

Detached == -1
Row(i)   == [lo |-> i, hi |-> i]    \* a payload, in its two machine words
None     == Row(-2)                 \* Option::None

Init ==
  /\ rows = 0
  /\ taken = 0
  /\ position = [o \in StrongObservers |-> Detached]
  /\ result = [t \in Consumers \cup StrongObservers \cup WeakObservers |-> None]

Attached == {o \in StrongObservers : position[o] # Detached}

(* A put never overwrites a row that an attached reader has still to get.  *)
Put ==
  /\ rows - taken < Capacity
  /\ \A o \in Attached : rows - position[o] < Capacity
  /\ rows' = rows + 1
  /\ UNCHANGED <<taken, position, result>>

(* "Exactly once to exactly one": whichever thread is the consumer.        *)
Take(c) ==
  /\ taken < rows
  /\ taken' = taken + 1
  /\ result' = [result EXCEPT ![c] = Row(taken)]
  /\ UNCHANGED <<rows, position>>

(* "Exactly once to each observer".                                        *)
StrongObserve(o) ==
  /\ o \in Attached
  /\ position[o] < rows
  /\ position' = [position EXCEPT ![o] = @ + 1]
  /\ result' = [result EXCEPT ![o] = Row(position[o])]
  /\ UNCHANGED <<rows, taken>>

(* try_take and try_strong_observe fail only when there is no row to give. *)
ReceiveNone(t) ==
  /\ \/ t \in Consumers /\ taken = rows
     \/ t \in Attached /\ position[t] = rows
  /\ result' = [result EXCEPT ![t] = None]
  /\ UNCHANGED <<rows, taken, position>>

(* A new observer joins the stream where the consumer is.                  *)
AttachStrong(o) ==
  /\ o \notin Attached
  /\ position' = [position EXCEPT ![o] = taken]
  /\ UNCHANGED <<rows, taken, result>>

DetachStrong(o) ==
  /\ o \in Attached
  /\ position' = [position EXCEPT ![o] = Detached]
  /\ UNCHANGED <<rows, taken, result>>

(* Best effort: nothing, or a whole row.  A row may be seen just before    *)
(* the put that appends it takes effect, hence 0 .. rows.                  *)
WeakObserve(w) ==
  /\ \/ result' = [result EXCEPT ![w] = None]
     \/ \E i \in 0 .. rows : result' = [result EXCEPT ![w] = Row(i)]
  /\ UNCHANGED <<rows, taken, position>>

Next ==
  \/ Put
  \/ \E c \in Consumers : Take(c)
  \/ \E o \in StrongObservers :
       StrongObserve(o) \/ AttachStrong(o) \/ DetachStrong(o)
  \/ \E t \in Consumers \cup StrongObservers : ReceiveNone(t)
  \/ \E w \in WeakObservers : WeakObserve(w)

Spec == Init /\ [][Next]_vars
=============================================================================
