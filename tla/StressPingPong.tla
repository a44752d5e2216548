--------------------------- MODULE StressPingPong ---------------------------
(***************************************************************************)
(* stress_ping_pong of src/src/bin/bench/generic_stress.rs: two threads    *)
(* that answer every message with the next one, over a call table and a    *)
(* reply table, with observers on both.  The handler of a message sends    *)
(* the answer itself, so it waits for the space that the other table's     *)
(* readers leave.  The rendezvous is StressState.                          *)
(*                                                                         *)
(* The two tables keep the promise of Table; as functions of the table     *)
(* they are written out here.  A message is its x.  What weak observers    *)
(* read is only printed; they matter because the main thread waits.        *)
(***************************************************************************)
EXTENDS Integers, Sequences, FiniteSetsExt

CONSTANTS
  Capacity,        \* rows each table holds
  Caller, Callee,  \* the ping-pong threads; Callee takes from the call table
  CallObservers, ReplyObservers,          \* strong observers of each table
  CallWeakObservers, ReplyWeakObservers,  \* weak observers of each table
  Main,
  NMessages        \* n_messages

Players       == {Caller, Callee}
Observers     == CallObservers \cup ReplyObservers
WeakObservers == CallWeakObservers \cup ReplyWeakObservers
Workers       == Players \cup Observers \cup WeakObservers
Tables        == {"call", "reply"}

ASSUME PingPongAssumption ==
  /\ Capacity \in Nat \ {0} /\ NMessages \in Nat \ {0}
  /\ Caller # Callee /\ Main \notin Workers
  /\ Players \cap (Observers \cup WeakObservers) = {}
  /\ Observers \cap WeakObservers = {} /\ IsFiniteSet(Workers)

VARIABLES
  rows,      \* the messages put into each table
  taken,     \* how many of them its consumer has taken
  position,  \* how many each observer has observed; Detached at the end
  running, n_completed, asleep,   \* StressState
  pc,        \* where each thread is
  count,     \* messages a thread has handled
  tracker,   \* the tracker of each worker
  debug      \* cfg!(debug_assertions): do the trackers count?

tables == <<rows, taken, position>>
state  == <<running, n_completed, asleep>>
vars   == <<rows, taken, position, running, n_completed, asleep, pc, count,
            tracker, debug>>

Detached == -1
Panicked == {"panicked", "lost"}

Expected == Cardinality(Workers)

S == INSTANCE StressState

In(t)  == IF t = Callee \/ t \in CallObservers \cup CallWeakObservers
          THEN "call" ELSE "reply"
Out(t) == IF t = Callee THEN "reply" ELSE "call"

(* Mutant: a first message in each table.                                  *)
FirstInBoth == [b \in Tables |-> <<0>>]

(* The first message is sent before a thread is spawned.                   *)
First == [b \in Tables |-> IF b = "call" THEN <<0>> ELSE <<>>]

Init ==
  /\ rows = First
  /\ taken = [b \in Tables |-> 0]
  /\ position = [o \in Observers |-> 0]
  /\ S!InitState
  /\ pc = [t \in Workers \cup {Main} |-> IF t = Main THEN "trigger" ELSE "start"]
  /\ count = [t \in Workers |-> 0]
  /\ tracker = [t \in Workers |-> {}]
  /\ debug \in BOOLEAN

Goto(t, label) == pc' = [pc EXCEPT ![t] = label]

(* Mutant: a tracker keeps the last message only.                          *)
UpdateLast(t, x) ==
  tracker' = [tracker EXCEPT ![t] = IF debug THEN {x} ELSE @]

Update(t, x) ==
  tracker' = [tracker EXCEPT ![t] = IF debug THEN SymDiff(@, {x}) ELSE @]
-----------------------------------------------------------------------------
Start(t) ==
  /\ pc[t] = "start"
  /\ S!WaitForStart(t)
  /\ IF running THEN Goto(t, "receive") ELSE UNCHANGED pc
  /\ UNCHANGED <<tables, count, tracker, debug>>

Complete(t) ==
  /\ pc[t] = "complete"
  /\ S!Complete
  /\ Goto(t, "ended")
  /\ UNCHANGED <<tables, count, tracker, debug>>

(* Mutant: the threads handle a message too many.                          *)
LastLate(t) == count[t] >= NMessages

Last(t) == count[t] + 1 >= NMessages

(* The consumer of a player takes a message, and its handler begins.       *)
Take(t) ==
  /\ pc[t] = "receive" /\ taken[In(t)] < Len(rows[In(t)])
  /\ taken' = [taken EXCEPT ![In(t)] = @ + 1]
  /\ Goto(t, "send")
  /\ UNCHANGED <<rows, position, state, count, tracker, debug>>

HasSpace(b) ==
  /\ Len(rows[b]) - taken[b] < Capacity
  /\ \A o \in Observers :
       In(o) = b /\ position[o] # Detached =>
         Len(rows[b]) - position[o] < Capacity

(* The rest of the handler: the answer is sent, and the message counted.   *)
Answer(t) ==
  /\ pc[t] = "send" /\ HasSpace(Out(t))
  /\ LET x == rows[In(t)][taken[In(t)]] IN
       /\ rows' = [rows EXCEPT ![Out(t)] = Append(@, x + 1)]
       /\ Update(t, x)
  /\ count' = [count EXCEPT ![t] = @ + 1]
  /\ Goto(t, IF Last(t) THEN "complete" ELSE "receive")
  /\ UNCHANGED <<taken, position, state, debug>>

Observe(o) ==
  /\ pc[o] = "receive" /\ position[o] < Len(rows[In(o)])
  /\ position' = [position EXCEPT ![o] = @ + 1]
  /\ Update(o, rows[In(o)][position[o] + 1])
  /\ count' = [count EXCEPT ![o] = @ + 1]
  /\ Goto(o, IF Last(o) THEN "leave" ELSE "receive")
  /\ UNCHANGED <<rows, taken, state, debug>>

(* handle owns the observer and drops it.                                  *)
Leave(o) ==
  /\ pc[o] = "leave"
  /\ position' = [position EXCEPT ![o] = Detached]
  /\ Goto(o, "complete")
  /\ UNCHANGED <<rows, taken, state, count, tracker, debug>>

(* A weak observer's loop ends when the last row was put.                  *)
WeakEnd(w) ==
  /\ pc[w] = "receive"
  /\ Len(rows[In(w)]) >= NMessages \/ NMessages = 1
  /\ Goto(w, "complete")
  /\ UNCHANGED <<tables, state, count, tracker, debug>>

(* A worker may panic while it waits for a message, or for room to answer  *)
(* one; then the ball is lost.  Unwinding drops the worker's handles.      *)
Panic(t) ==
  /\ pc[t] \in {"receive", "send"}
  /\ Goto(t, IF pc[t] = "send" THEN "lost" ELSE "panicked")
  /\ position' = [o \in Observers |-> IF o = t THEN Detached ELSE position[o]]
  /\ UNCHANGED <<rows, taken, state, count, tracker, debug>>
-----------------------------------------------------------------------------
Trigger ==
  /\ pc[Main] = "trigger"
  /\ S!TriggerStart
  /\ Goto(Main, "wait")
  /\ UNCHANGED <<tables, count, tracker, debug>>

Measure ==
  /\ pc[Main] = "wait"
  /\ S!WaitForComplete(Main)
  /\ IF S!AllCompleted THEN Goto(Main, "join") ELSE UNCHANGED pc
  /\ UNCHANGED <<tables, count, tracker, debug>>

(* The trackers of both players are combined, each observer's is compared. *)
Join ==
  /\ pc[Main] = "join"
  /\ Goto(Main,
       IF \A o \in Observers :
            tracker[o] = SymDiff(tracker[Caller], tracker[Callee])
       THEN "done" ELSE "failed")
  /\ UNCHANGED <<tables, state, count, tracker, debug>>

MainStep == Trigger \/ Measure \/ Join
-----------------------------------------------------------------------------
Work(t) ==
  \/ Start(t) \/ Complete(t)
  \/ t \in Players /\ (Take(t) \/ Answer(t))
  \/ t \in Observers /\ (Observe(t) \/ Leave(t))
  \/ t \in WeakObservers /\ WeakEnd(t)

Wake(t) == S!SpuriousWake(t) /\ UNCHANGED <<tables, pc, count, tracker, debug>>

Terminated == pc[Main] \in {"done", "failed"} /\ UNCHANGED vars

Next ==
  \/ \E t \in Workers : Work(t) \/ Panic(t)
  \/ \E t \in Workers \cup {Main} : Wake(t)
  \/ MainStep
  \/ Terminated

Spec == Init /\ [][Next]_vars

(* The threads are scheduled.                                              *)
FairSpec == Spec /\ WF_vars(MainStep) /\ \A t \in Workers : WF_vars(Work(t))
-----------------------------------------------------------------------------
(* There is one ball: exactly one message is waiting in a table, being     *)
(* answered, or gone with the thread that was answering it, from the first *)
(* message (generic_stress.rs:297) to the last, which stays in the call    *)
(* table.                                                                  *)
OneBall ==
  Len(rows["call"]) - taken["call"] + Len(rows["reply"]) - taken["reply"]
    + Cardinality({t \in Players : pc[t] \in {"send", "lost"}}) = 1

(* The measurement comes to an end, though a handler waits for the         *)
(* observers of the other table (generic_stress.rs:304-312), and by then   *)
(* every message has its answer, the last one included - unless a worker   *)
(* panics.                                                                 *)
MeasurementEnds ==
  <>(\/ \E t \in Workers : pc[t] \in Panicked
     \/ /\ pc[Main] = "join"
        /\ rows["reply"] = [i \in 1 .. NMessages |-> 2 * i - 1]
        /\ rows["call"] = [i \in 1 .. NMessages + 1 |-> 2 * i - 2])

(* assert_eq!(overall_produce_tracker.get(), tracker.get())                *)
(* (generic_stress.rs:387): each observer has tracked the messages that    *)
(* both players have, together.                                            *)
TrackersAgree == pc[Main] # "failed"

(* An observer that was measured (generic_stress.rs:325-345) has tracked   *)
(* what the player of its table had to handle, each message once, and      *)
(* nothing of the other table.                                             *)
ObserversSeeTheirs ==
  \A o \in Observers :
    LET player == IF In(o) = "call" THEN Callee ELSE Caller IN
      /\ pc[o] \in {"complete", "ended"} =>
           tracker[o] = {x \in 0 .. 2 * NMessages - 1 :
                          debug /\ x % 2 = IF In(o) = "call" THEN 0 ELSE 1}
      /\ pc[Main] = "join" => tracker[o] = tracker[player]
=============================================================================
