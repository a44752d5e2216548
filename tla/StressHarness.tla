--------------------------- MODULE StressHarness ---------------------------
(***************************************************************************)
(* stress_produce_consume of src/src/bin/bench/generic_stress.rs: the      *)
(* threads of a benchmark, their rendezvous (StressState) and the table    *)
(* they work on (Table).  The main thread has attached every handle before *)
(* it spawns a thread.  send and handle are the promise of the adapters: a *)
(* put or a receive that waits for as long as it must (WaitTable).         *)
(*                                                                         *)
(* A MessageTracker is the set of messages with an odd number of updates:  *)
(* what the xor of hashes is, as far as hashes tell sets of messages       *)
(* apart.  Trackers are kept as in a debug build.                          *)
(***************************************************************************)
EXTENDS Integers, Sequences, FiniteSetsExt

CONSTANTS
  Size,        \* elements of the ring; the table holds Size - 1 rows
  Producers, Consumers, Observers, WeakObservers,  \* one thread each
  Main,        \* the thread that calls stress_produce_consume
  NMessages    \* n_messages

Receivers == Consumers \cup Observers
Workers   == Producers \cup Receivers \cup WeakObservers

(* The divisibility is asserted, by numbers that may not be 0; without a   *)
(* message every receiver still waits for one.                             *)
ASSUME StressAssumption ==
  /\ Size \in Nat \ {0, 1} /\ NMessages \in Nat \ {0}
  /\ Main \notin Workers /\ IsFiniteSet(Workers)
  /\ Producers # {} /\ Consumers # {}
  /\ Producers \cap Receivers = {} /\ Consumers \cap Observers = {}
  /\ WeakObservers \cap (Producers \cup Receivers) = {}
  /\ NMessages % Cardinality(Producers) = 0
  /\ NMessages % Cardinality(Consumers) = 0

VARIABLES
  rows, taken, position, result,  \* the table
  running, n_completed, asleep,   \* StressState
  pc,       \* where each thread is
  sent,     \* the messages put so far, in order
  count,    \* messages a producer sent or a receiver handled
  tracker,  \* the tracker of each worker
  cursor,   \* c in a weak observer's loop over first..last
  last      \* last in that loop

table  == <<rows, taken, position, result>>
state  == <<running, n_completed, asleep>>
locals == <<sent, count, tracker, cursor, last>>
vars   == <<rows, taken, position, result, running, n_completed, asleep, pc,
            sent, count, tracker, cursor, last>>

T == INSTANCE Table WITH Capacity <- Size - 1, StrongObservers <- Observers

(* Mutant: the weak observers are not counted.                             *)
ExpectedReaders == Cardinality(Producers \cup Receivers)

Expected == Cardinality(Workers)

S == INSTANCE StressState

Init ==
  /\ rows = 0 /\ taken = 0
  /\ position = [o \in Observers |-> 0]
  /\ result = [t \in Receivers \cup WeakObservers |-> T!None]
  /\ S!InitState
  /\ pc = [t \in Workers \cup {Main} |-> IF t = Main THEN "trigger" ELSE "start"]
  /\ sent = <<>>
  /\ count = [t \in Workers |-> 0]
  /\ tracker = [t \in Workers |-> {}]
  /\ cursor = [w \in WeakObservers |-> 0]
  /\ last = [w \in WeakObservers |-> 0]

Goto(t, label) == pc' = [pc EXCEPT ![t] = label]

(* fetch_xor.                                                              *)
Update(t, messages) == tracker' = [tracker EXCEPT ![t] = SymDiff(@, messages)]
-----------------------------------------------------------------------------
(* What every worker does first and last.                                  *)

Start(t) ==
  /\ pc[t] = "start"
  /\ S!WaitForStart(t)
  /\ IF running THEN Goto(t, "work") ELSE UNCHANGED pc
  /\ UNCHANGED <<table, locals>>

Complete(t) ==
  /\ pc[t] = "complete"
  /\ S!Complete
  /\ Goto(t, "ended")
  /\ UNCHANGED <<table, locals>>

(* A worker may panic in its work (WaitTable, CallTable and SpscTable say  *)
(* where); this unwinds through the worker and drops its handle.           *)
Panic(t) ==
  /\ pc[t] = "work"
  /\ Goto(t, "panicked")
  /\ IF t \in Observers THEN T!DetachStrong(t) ELSE UNCHANGED table
  /\ UNCHANGED <<state, locals>>
-----------------------------------------------------------------------------
(* The producers.                                                          *)

Share(threads) == NMessages \div Cardinality(threads)

Produce(p) ==
  /\ pc[p] = "work"
  /\ T!Put
  /\ LET v == [src |-> p, x |-> count[p]] IN
       /\ sent' = Append(sent, v)
       /\ Update(p, {v})
  /\ count' = [count EXCEPT ![p] = @ + 1]
  /\ Goto(p, IF count'[p] = Share(Producers) THEN "complete" ELSE "work")
  /\ UNCHANGED <<state, cursor, last>>

(* The consumers share the messages, every observer gets them all.         *)

(* Mutant: handle returns one message early.                               *)
QuotaButOne(r) == Share(Consumers) - 1

Quota(r) == IF r \in Consumers THEN Share(Consumers) ELSE NMessages

Receive(r) ==
  /\ pc[r] = "work"
  /\ IF r \in Consumers THEN T!Take(r) ELSE T!StrongObserve(r)
  /\ Update(r, {sent[result'[r].lo + 1]})
  /\ count' = [count EXCEPT ![r] = @ + 1]
  /\ Goto(r, IF count'[r] >= Quota(r) THEN "leave" ELSE "work")
  /\ UNCHANGED <<state, sent, cursor, last>>

(* handle owns its handle and drops it.                                    *)
Leave(r) ==
  /\ pc[r] = "leave"
  /\ IF r \in Observers THEN T!DetachStrong(r) ELSE UNCHANGED table
  /\ Goto(r, "complete")
  /\ UNCHANGED <<state, locals>>
-----------------------------------------------------------------------------
(* The weak observers.                                                     *)

RecentCursor == IF rows = 0 THEN 0 ELSE rows - 1
OldestCursor == IF RecentCursor < Size THEN 0 ELSE RecentCursor - (Size - 1)

WeakTest(w) ==
  /\ pc[w] = "work"
  /\ Goto(w, IF RecentCursor < NMessages - 1 THEN "first" ELSE "complete")
  /\ UNCHANGED <<table, state, locals>>

WeakFirst(w) ==
  /\ pc[w] = "first"
  /\ cursor' = [cursor EXCEPT ![w] = OldestCursor]
  /\ Goto(w, "last")
  /\ UNCHANGED <<table, state, sent, count, tracker, last>>

(* Mutant: the loop is over first..=last.                                  *)
WeakLastInclusive(w) ==
  /\ pc[w] = "last"
  /\ last' = [last EXCEPT ![w] = RecentCursor + 1]
  /\ Goto(w, "observe")
  /\ UNCHANGED <<table, state, sent, count, tracker, cursor>>

WeakLast(w) ==
  /\ pc[w] = "last"
  /\ last' = [last EXCEPT ![w] = RecentCursor]
  /\ Goto(w, "observe")
  /\ UNCHANGED <<table, state, sent, count, tracker, cursor>>

(* Best effort: the row at the cursor or nothing.                          *)
WeakObserve(w) ==
  /\ pc[w] = "observe"
  /\ IF cursor[w] < last[w]
     THEN /\ \/ /\ cursor[w] < rows
                /\ Update(w, {sent[cursor[w] + 1]})
             \/ UNCHANGED tracker
          /\ cursor' = [cursor EXCEPT ![w] = @ + 1]
          /\ UNCHANGED pc
     ELSE Goto(w, "work") /\ UNCHANGED <<tracker, cursor>>
  /\ UNCHANGED <<table, state, sent, count, last>>

Weak(w) == WeakTest(w) \/ WeakFirst(w) \/ WeakLast(w) \/ WeakObserve(w)
-----------------------------------------------------------------------------
(* The main thread.                                                        *)

Trigger ==
  /\ pc[Main] = "trigger"
  /\ S!TriggerStart
  /\ Goto(Main, "wait")
  /\ UNCHANGED <<table, locals>>

Measure ==
  /\ pc[Main] = "wait"
  /\ S!WaitForComplete(Main)
  /\ IF S!AllCompleted THEN Goto(Main, "join") ELSE UNCHANGED pc
  /\ UNCHANGED <<table, locals>>

(* The xor of their trackers: what an odd number of them has.              *)
Combined(threads) ==
  {v \in UNION {tracker[t] : t \in threads} :
     Cardinality({t \in threads : v \in tracker[t]}) % 2 = 1}

(* The threads are joined and the trackers compared.                       *)
Join ==
  /\ pc[Main] = "join"
  /\ \A t \in Workers : pc[t] \in {"ended", "panicked"}
  /\ Goto(Main,
       IF /\ \A t \in Workers : pc[t] = "ended"
          /\ Combined(Producers) = Combined(Consumers)
          /\ \A o \in Observers : Combined(Producers) = tracker[o]
       THEN "done" ELSE "failed")
  /\ UNCHANGED <<table, state, locals>>

MainStep == Trigger \/ Measure \/ Join
-----------------------------------------------------------------------------
Work(t) ==
  \/ Start(t) \/ Complete(t)
  \/ t \in Producers /\ Produce(t)
  \/ t \in Receivers /\ (Receive(t) \/ Leave(t))
  \/ t \in WeakObservers /\ Weak(t)

Wake(t) == S!SpuriousWake(t) /\ UNCHANGED <<table, pc, locals>>

Terminated == pc[Main] \in {"done", "failed"} /\ UNCHANGED vars

Next ==
  \/ \E t \in Workers : Work(t) \/ Panic(t)
  \/ \E t \in Workers \cup {Main} : Wake(t)
  \/ MainStep
  \/ Terminated

Spec == Init /\ [][Next]_vars

(* The threads are scheduled.                                              *)
FairSpec == Spec /\ WF_vars(MainStep) /\ \A t \in Workers : WF_vars(Work(t))
-----------------------------------------------------------------------------
(* The main thread's assertions (generic_stress.rs:246 and 250) hold: what *)
(* was produced, was consumed, all together, and was observed by each      *)
(* observer; and no join fails.                                            *)
HashesAgree == pc[Main] # "failed"

(* The duration is measured (generic_stress.rs:229-232) from before the    *)
(* first message until after every worker's last one.                      *)
MeasuredAll ==
  /\ pc[Main] = "trigger" => sent = <<>>
  /\ pc[Main] \in {"join", "done"} =>
       /\ \A t \in Workers : pc[t] = "ended"
       /\ rows = NMessages /\ taken = NMessages

(* A weak observer asks for rows that were put only (193-196), though the  *)
(* recent cursor of an empty table is that of a table with one row.        *)
WeakCursorsExist ==
  \A w \in WeakObservers :
    pc[w] = "observe" /\ cursor[w] < last[w] => cursor[w] < rows

(* A step is open to the main thread or a worker that gets it on: a weak   *)
(* observer's turns on a table that is not full yet do not count.          *)
MainGoesOn ==
  \/ pc[Main] = "trigger"
  \/ pc[Main] = "wait" /\ Main \notin asleep /\ S!AllCompleted
  \/ pc[Main] = "join" /\ \A t \in Workers : pc[t] = "ended"
GoesOn(t) ==
  \/ pc[t] = "start" /\ t \notin asleep /\ running
  \/ pc[t] \in {"first", "last", "observe", "leave", "complete"}
  \/ /\ pc[t] = "work" /\ t \in Producers /\ rows - taken < Size - 1
     /\ \A o \in T!Attached : rows - position[o] < Size - 1
  \/ pc[t] = "work" /\ t \in Consumers /\ taken < rows
  \/ pc[t] = "work" /\ t \in Observers /\ position[t] < rows
  \/ pc[t] = "work" /\ t \in WeakObservers /\ RecentCursor >= NMessages - 1

(* Until the benchmark is done somebody can go on, unless a worker         *)
(* panicked: no wait on the condition variable (generic_stress.rs:57-80)   *)
(* outlasts its event, and the shares of the threads (136-139) add up, so  *)
(* nobody waits for a message or for room that is not to come.             *)
NeverStuck ==
  \/ pc[Main] \in {"done", "failed"} \/ \E t \in Workers : pc[t] = "panicked"
  \/ MainGoesOn \/ \E t \in Workers : GoesOn(t)

(* The benchmark comes to an end (generic_stress.rs:75-80), whoever is     *)
(* woken by the shared condition variable, unless a worker panicked.       *)
MainReturns ==
  <>(pc[Main] = "done" \/ \E t \in Workers : pc[t] = "panicked")
=============================================================================
