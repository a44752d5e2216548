------------------------ MODULE StressPingPongProofs ------------------------
(***************************************************************************)
(* Theorems about StressPingPong, for every number of messages and of      *)
(* observers and every capacity of the tables: there is one ball, and the  *)
(* observers track what the player of their table handles.                 *)
(*                                                                         *)
(* How far the players are determines all that was put: each table is one  *)
(* answer behind what was taken from the other (BallInv), so its rows are  *)
(* the even or the odd numbers in order (RowsInv).  The main thread        *)
(* compares when as many have completed as there are workers (EndInv).     *)
(***************************************************************************)
EXTENDS StressPingPong, FiniteSetTheorems, TLAPS

Labels     == {"start", "receive", "send", "leave", "complete", "ended"} \cup Panicked
MainLabels == {"trigger", "wait", "join", "done", "failed"}
Readers    == Players \cup Observers

(* Types of all variables.                                                 *)
TypeOK ==
  /\ rows \in [Tables -> Seq(Nat)] /\ taken \in [Tables -> Nat]
  /\ position \in [Observers -> Nat \cup {Detached}]
  /\ running \in BOOLEAN /\ n_completed \in Nat
  /\ asleep \subseteq Workers \cup {Main}
  /\ pc \in [Workers \cup {Main} -> Labels \cup MainLabels]
  /\ \A t \in Workers : pc[t] \in Labels
  /\ pc[Main] \in MainLabels
  /\ count \in [Workers -> Nat]
  /\ tracker \in [Workers -> SUBSET Nat]
  /\ debug \in BOOLEAN

Sending(t) == IF pc[t] \in {"send", "lost"} THEN 1 ELSE 0

(* Each message that was taken is answered, or the ball is with the taker  *)
(* or lost with it; the call table has the first message besides.          *)
BallInv ==
  /\ Len(rows["call"]) = taken["reply"] - Sending(Caller) + 1
  /\ Len(rows["reply"]) = taken["call"] - Sending(Callee)

Message(b, i) == IF b = "call" THEN 2 * i - 2 ELSE 2 * i - 1

RowsInv ==
  \A b \in Tables : \A i \in 1 .. Len(rows[b]) : rows[b][i] = Message(b, i)

(* What a reader has got, how often it has counted, and when it is done.   *)
CountInv ==
  /\ \A t \in Players : /\ taken[In(t)] = count[t] + Sending(t)
                        /\ taken[In(t)] <= Len(rows[In(t)])
                        /\ pc[t] # "leave"
  /\ \A o \in Observers :
       /\ count[o] <= Len(rows[In(o)]) /\ pc[o] \notin {"send", "lost"}
       /\ pc[o] \in {"start", "receive"} => position[o] = count[o]
  /\ \A t \in Readers :
       IF pc[t] \in {"start", "receive", "send"} THEN count[t] < NMessages
       ELSE count[t] = NMessages \/ pc[t] \in Panicked

(* A reader has tracked the first messages of its table.                   *)
TrackerInv ==
  \A t \in Readers :
    tracker[t] = {x \in Nat : debug /\ \E i \in 1 .. count[t] : x = Message(In(t), i)}

Ended == {t \in Workers : pc[t] = "ended"}

(* Every worker completes once.                                            *)
EndInv ==
  /\ n_completed = Cardinality(Ended)
  /\ pc[Main] = "join" => Ended = Workers

PingPongInv ==
  TypeOK /\ BallInv /\ RowsInv /\ CountInv /\ TrackerInv /\ EndInv

(***************************************************************************)
(* Who is who.                                                             *)
(***************************************************************************)
LEMMA Roles ==
  /\ Players = {Caller, Callee} /\ Caller # Callee
  /\ In(Callee) = "call" /\ Out(Callee) = "reply"
  /\ In(Caller) = "reply" /\ Out(Caller) = "call"
  /\ Readers \subseteq Workers /\ WeakObservers \subseteq Workers
  /\ Players \cap Observers = {} /\ Readers \cap WeakObservers = {}
  /\ Main \notin Workers
  BY PingPongAssumption
  DEF Players, Observers, WeakObservers, Workers, Readers, In, Out

LEMMA TableOf == \A t : In(t) \in Tables
  BY DEF In, Tables

(***************************************************************************)
(* Who has completed.                                                      *)
(***************************************************************************)
LEMMA EndedFinite == IsFiniteSet(Ended) /\ Ended \subseteq Workers
  BY PingPongAssumption, FS_Subset DEF Ended

LEMMA EndFrame ==
  ASSUME EndInv, \A t \in Workers : pc'[t] = "ended" <=> pc[t] = "ended",
         n_completed' = n_completed, pc'[Main] = "join" => pc[Main] = "join"
  PROVE  EndInv'
<1>1. Ended' = Ended
  BY DEF Ended
<1> QED
  BY <1>1 DEF EndInv

(***************************************************************************)
(* Steps that leave the tables and the trackers alone.                     *)
(***************************************************************************)
LEMMA QuietFrame ==
  ASSUME PingPongInv, TypeOK', EndInv', UNCHANGED <<tables, count, tracker, debug>>,
         \A t \in Readers :
           \/ pc'[t] = pc[t]
           \/ pc[t] = "start" /\ pc'[t] = "receive"
           \/ pc[t] = "complete" /\ pc'[t] = "ended"
  PROVE  PingPongInv'
<1> USE Roles DEF PingPongInv, tables
<1>1. \A t \in Players : Sending(t)' = Sending(t) /\ pc[t] # "leave"
  BY DEF Sending, Readers, CountInv
<1>2. BallInv'
  BY <1>1 DEF BallInv
<1>3. RowsInv'
  BY DEF RowsInv
<1>4. CountInv'
  <2>1. \A t \in Players : pc'[t] # "leave"
    BY <1>1 DEF Readers
  <2>2. \A t \in Players : taken'[In(t)] = count'[t] + Sending(t)'
                           /\ taken'[In(t)] <= Len(rows'[In(t)])
    BY <1>1 DEF CountInv
  <2>3. \A o \in Observers :
          /\ count'[o] <= Len(rows'[In(o)]) /\ pc'[o] \notin {"send", "lost"}
          /\ pc'[o] \in {"start", "receive"} => position'[o] = count'[o]
    BY DEF CountInv, Readers
  <2>4. \A t \in Readers :
          IF pc'[t] \in {"start", "receive", "send"} THEN count'[t] < NMessages
          ELSE count'[t] = NMessages \/ pc'[t] \in Panicked
    BY DEF CountInv, Panicked
  <2> QED
    BY <2>1, <2>2, <2>3, <2>4 DEF CountInv
<1>5. TrackerInv'
  BY DEF TrackerInv
<1> QED
  BY <1>2, <1>3, <1>4, <1>5

LEMMA StartKeeps ==
  ASSUME PingPongInv, NEW t \in Workers, Start(t) PROVE PingPongInv'
<1> USE Roles DEF PingPongInv
<1>1. /\ pc[t] = "start" /\ UNCHANGED <<tables, count, tracker, debug>>
      /\ pc' = [pc EXCEPT ![t] = "receive"] \/ pc' = pc
      /\ UNCHANGED <<running, n_completed>>
      /\ asleep' = asleep \/ asleep' = asleep \cup {t}
  BY DEF Start, S!WaitForStart, Goto
<1>2. TypeOK'
  BY <1>1 DEF TypeOK, tables, Labels
<1>3. EndInv'
  BY <1>1, EndFrame DEF TypeOK
<1> QED
  BY <1>1, <1>2, <1>3, QuietFrame DEF TypeOK

LEMMA CompleteKeeps ==
  ASSUME PingPongInv, NEW t \in Workers, Complete(t) PROVE PingPongInv'
<1> USE Roles DEF PingPongInv
<1>1. /\ pc[t] = "complete" /\ UNCHANGED <<tables, count, tracker, debug>>
      /\ pc' = [pc EXCEPT ![t] = "ended"]
      /\ n_completed' = n_completed + 1 /\ asleep' = {} /\ running' = running
  BY DEF Complete, S!Complete, Goto
<1>2. TypeOK'
  BY <1>1 DEF TypeOK, tables, Labels
<1>3. EndInv'
  <2>1. Ended' = Ended \cup {t} /\ t \notin Ended
    BY <1>1 DEF Ended, TypeOK
  <2>2. Cardinality(Ended') = Cardinality(Ended) + 1
    BY <2>1, EndedFinite, FS_AddElement
  <2>3. pc'[Main] = pc[Main]
    BY <1>1 DEF TypeOK
  <2> QED
    BY <1>1, <2>1, <2>2, <2>3 DEF EndInv
<1> QED
  BY <1>1, <1>2, <1>3, QuietFrame DEF TypeOK

LEMMA WeakEndKeeps ==
  ASSUME PingPongInv, NEW w \in WeakObservers, WeakEnd(w) PROVE PingPongInv'
<1> USE Roles DEF PingPongInv
<1>1. /\ pc[w] = "receive" /\ pc' = [pc EXCEPT ![w] = "complete"]
      /\ UNCHANGED <<tables, state, count, tracker, debug>>
  BY DEF WeakEnd, Goto
<1>2. TypeOK'
  BY <1>1 DEF TypeOK, tables, state, Labels
<1>3. EndInv'
  BY <1>1, EndFrame DEF TypeOK, state
<1> QED
  BY <1>1, <1>2, <1>3, QuietFrame DEF TypeOK

LEMMA WakeKeeps ==
  ASSUME PingPongInv, NEW t \in Workers \cup {Main}, Wake(t) PROVE PingPongInv'
<1> USE DEF PingPongInv
<1>1. /\ asleep' = asleep \ {t} /\ UNCHANGED <<running, n_completed>>
      /\ UNCHANGED <<tables, pc, count, tracker, debug>>
  BY DEF Wake, S!SpuriousWake
<1>2. TypeOK'
  BY <1>1 DEF TypeOK, tables
<1>3. EndInv'
  BY <1>1, EndFrame
<1> QED
  BY <1>1, <1>2, <1>3, QuietFrame

(* The main thread goes on to compare when every worker has completed.     *)
LEMMA MainKeeps ==
  ASSUME PingPongInv, MainStep PROVE PingPongInv'
<1> USE Roles DEF PingPongInv
<1>1. /\ UNCHANGED <<tables, count, tracker, debug>>
      /\ running' \in BOOLEAN /\ n_completed' = n_completed
      /\ asleep' \subseteq Workers \cup {Main}
      /\ \E l \in MainLabels : pc' = [pc EXCEPT ![Main] = l]
  <2>1. pc = [pc EXCEPT ![Main] = pc[Main]] /\ pc[Main] \in MainLabels
    BY DEF TypeOK
  <2>2. CASE Trigger
    BY <2>2 DEF Trigger, S!TriggerStart, Goto, MainLabels
  <2>3. CASE Measure
    BY <2>1, <2>3 DEF Measure, S!WaitForComplete, Goto, MainLabels, TypeOK
  <2>4. CASE Join
    BY <2>4 DEF Join, Goto, MainLabels, state, TypeOK
  <2> QED
    BY <2>2, <2>3, <2>4 DEF MainStep
<1>2. /\ pc' \in [Workers \cup {Main} -> Labels \cup MainLabels]
      /\ pc'[Main] \in MainLabels /\ \A t \in Workers : pc'[t] = pc[t]
  BY <1>1 DEF TypeOK
<1>3. TypeOK'
  BY <1>1, <1>2 DEF TypeOK, tables
<1>4. pc'[Main] = "join" => Ended = Workers
  <2>1. CASE Trigger
    BY <2>1 DEF Trigger, Goto, TypeOK
  <2>2. CASE Measure
    <3>1. CASE S!AllCompleted
      <4>1. Cardinality(Ended) >= Cardinality(Workers)
        BY <3>1 DEF S!AllCompleted, Expected, EndInv
      <4>2. Cardinality(Ended) \in Nat /\ Cardinality(Workers) \in Nat
        BY EndedFinite, PingPongAssumption, FS_CardinalityType
      <4>3. Cardinality(Ended) <= Cardinality(Workers)
        BY EndedFinite, PingPongAssumption, FS_Subset
      <4>4. Cardinality(Ended) = Cardinality(Workers)
        BY <4>1, <4>2, <4>3
      <4> QED
        BY <4>4, EndedFinite, PingPongAssumption, FS_Subset
    <3>2. CASE ~S!AllCompleted
      BY <2>2, <3>2 DEF Measure
    <3> QED
      BY <3>1, <3>2
  <2>3. CASE Join
    BY <2>3 DEF Join, Goto, TypeOK
  <2> QED
    BY <2>1, <2>2, <2>3 DEF MainStep
<1>5. EndInv'
  <2>1. Ended' = Ended
    BY <1>2 DEF Ended
  <2> QED
    BY <1>1, <1>4, <2>1 DEF EndInv
<1> QED
  BY <1>1, <1>2, <1>3, <1>5, QuietFrame

(***************************************************************************)
(* The readers' steps.                                                     *)
(***************************************************************************)

(* A tracker counts a message that it had not counted.                     *)
LEMMA TrackNext ==
  ASSUME PingPongInv, NEW t \in Readers, Update(t, Message(In(t), count[t] + 1)),
         count' = [count EXCEPT ![t] = @ + 1], debug' = debug
  PROVE  tracker' \in [Workers -> SUBSET Nat] /\ TrackerInv'
<1> USE Roles DEF PingPongInv
<1> DEFINE b == In(t)  x == Message(b, count[t] + 1)
<1>1. t \in Workers /\ count[t] \in Nat /\ b \in Tables
  BY TableOf DEF TypeOK
<1>2. x \in Nat /\ \A i \in 1 .. count[t] : x # Message(b, i)
  BY <1>1 DEF Message
<1>3. tracker[t] = {y \in Nat : debug /\ \E i \in 1 .. count[t] : y = Message(b, i)}
  BY DEF TrackerInv
<1>4. count'[t] = count[t] + 1 /\ \A u \in Readers \ {t} : count'[u] = count[u]
  BY <1>1 DEF TypeOK
<1>5. /\ tracker'[t] = IF debug THEN SymDiff(tracker[t], {x}) ELSE tracker[t]
      /\ \A u \in Readers \ {t} : tracker'[u] = tracker[u]
  BY <1>1 DEF Update, TypeOK
<1>6. SymDiff(tracker[t], {x}) = tracker[t] \cup {x}
  <2> HIDE DEF x, b
  <2>1. x \notin tracker[t]
    BY <1>2, <1>3
  <2> QED
    BY <2>1 DEF SymDiff
<1>7. \A i : i \in 1 .. count[t] + 1 <=> i \in 1 .. count[t] \/ i = count[t] + 1
  BY <1>1
<1>8. tracker'[t] = {y \in Nat : debug /\ \E i \in 1 .. count[t] + 1 : y = Message(b, i)}
  <2>1. debug \in BOOLEAN
    BY DEF TypeOK
  <2> HIDE DEF b
  <2>2. ASSUME NEW y
        PROVE  y \in tracker'[t] <=>
                 y \in Nat /\ debug /\ \E i \in 1 .. count[t] + 1 : y = Message(b, i)
    <3>1. CASE debug
      <4>1. y \in tracker'[t] <=> y \in tracker[t] \/ y = x
        BY <1>5, <1>6, <3>1
      <4> QED
        BY <1>2, <1>3, <1>7, <3>1, <4>1
    <3>2. CASE ~debug
      BY <1>3, <1>5, <3>2
    <3> QED
      BY <3>1, <3>2
  <2> QED
    BY <2>2
<1>9. TrackerInv'
  <2> SUFFICES ASSUME NEW u \in Readers
               PROVE  tracker'[u] = {y \in Nat : debug' /\ \E i \in 1 .. count'[u] :
                                                   y = Message(In(u), i)}
    BY DEF TrackerInv
  <2>1. CASE u = t
    BY <1>4, <1>8, <2>1
  <2>2. CASE u # t
    <3>1. tracker[u] = {y \in Nat : debug /\ \E i \in 1 .. count[u] : y = Message(In(u), i)}
      BY DEF TrackerInv
    <3> QED
      BY <1>4, <1>5, <2>2, <3>1
  <2> QED
    BY <2>1, <2>2
<1>10. tracker' \in [Workers -> SUBSET Nat]
  <2>1. tracker' = [tracker EXCEPT ![t] =
                      IF debug THEN SymDiff(@, {x}) ELSE @]
    BY DEF Update
  <2> HIDE DEF x
  <2>2. SymDiff(tracker[t], {x}) \in SUBSET Nat
    BY <1>1, <1>2, <1>6 DEF TypeOK
  <2> QED
    BY <1>1, <2>1, <2>2 DEF TypeOK
<1> QED
  BY <1>9, <1>10

LEMMA TakeKeeps ==
  ASSUME PingPongInv, NEW t \in Players, Take(t) PROVE PingPongInv'
<1> USE Roles DEF PingPongInv
<1>1. /\ pc[t] = "receive" /\ taken[In(t)] < Len(rows[In(t)])
      /\ taken' = [taken EXCEPT ![In(t)] = @ + 1]
      /\ pc' = [pc EXCEPT ![t] = "send"]
      /\ UNCHANGED <<rows, position, state, count, tracker, debug>>
  BY DEF Take, Goto
<1>2. /\ taken[In(t)] \in Nat /\ taken'[In(t)] = taken[In(t)] + 1
      /\ \A b \in Tables : b # In(t) => taken'[b] = taken[b]
      /\ \A b \in Tables : taken[b] \in Nat /\ Len(rows[b]) \in Nat
  BY <1>1, TableOf DEF TypeOK
<1>3. pc'[t] = "send" /\ \A u \in Workers \cup {Main} : u # t => pc'[u] = pc[u]
  BY <1>1 DEF TypeOK, Readers
<1>4. t \in Readers /\ t \in Workers /\ Players \subseteq Readers
  BY DEF Readers
<1>5. TypeOK'
  BY <1>1, <1>2, <1>3, <1>4 DEF TypeOK, state, Labels
<1>6. /\ Sending(t) = 0 /\ Sending(t)' = 1
      /\ \A u \in Players : u # t => Sending(u)' = Sending(u)
      /\ \A u \in Players : Sending(u) \in {0, 1}
  BY <1>1, <1>3, <1>4 DEF Sending
<1>7. BallInv'
  BY <1>1, <1>2, <1>6 DEF BallInv, Tables
<1>8. RowsInv'
  BY <1>1 DEF RowsInv
<1>9. CountInv'
  <2>1. ASSUME NEW u \in Players
        PROVE  /\ taken'[In(u)] = count'[u] + Sending(u)'
               /\ taken'[In(u)] <= Len(rows'[In(u)]) /\ pc'[u] # "leave"
    <3>1. CASE u = t
      BY <1>1, <1>2, <1>3, <1>4, <1>6, <3>1, TableOf DEF CountInv, TypeOK
    <3>2. CASE u # t
      <4>1. taken'[In(u)] = taken[In(u)]
        BY <1>2, <3>2, TableOf
      <4> QED
        BY <1>1, <1>3, <1>4, <1>6, <3>2, <4>1 DEF CountInv
    <3> QED
      BY <3>1, <3>2
  <2>2. \A o \in Observers : pc'[o] = pc[o]
    BY <1>3, <1>4 DEF Readers
  <2>3. \A u \in Readers :
          IF pc'[u] \in {"start", "receive", "send"} THEN count'[u] < NMessages
          ELSE count'[u] = NMessages \/ pc'[u] \in Panicked
    BY <1>1, <1>3, <1>4 DEF CountInv
  <2> QED
    BY <1>1, <2>1, <2>2, <2>3 DEF CountInv
<1>10. TrackerInv'
  BY <1>1 DEF TrackerInv
<1>11. EndInv'
  BY <1>1, <1>3, <1>4, EndFrame DEF state
<1> QED
  BY <1>5, <1>7, <1>8, <1>9, <1>10, <1>11

(* The answer to a table's message i is the other table's next message.    *)
LEMMA AnswerKeeps ==
  ASSUME PingPongInv, NEW t \in Players, Answer(t) PROVE PingPongInv'
<1> USE Roles DEF PingPongInv
<1> DEFINE x == rows[In(t)][taken[In(t)]]
<1>1. /\ pc[t] = "send"
      /\ rows' = [rows EXCEPT ![Out(t)] = Append(@, x + 1)]
      /\ Update(t, x)
      /\ count' = [count EXCEPT ![t] = @ + 1]
      /\ pc' = [pc EXCEPT ![t] = IF Last(t) THEN "complete" ELSE "receive"]
      /\ UNCHANGED <<taken, position, state, debug>>
  BY DEF Answer, Goto
<1>2. t \in Readers /\ t \in Workers /\ Players \subseteq Readers
      /\ In(t) \in Tables /\ Out(t) \in Tables /\ Tables = {"call", "reply"}
  BY DEF Readers, Tables
<1>3. \A b \in Tables : rows[b] \in Seq(Nat) /\ Len(rows[b]) \in Nat /\ taken[b] \in Nat
  BY DEF TypeOK
<1>4. count[t] \in Nat /\ taken[In(t)] = count[t] + 1 /\ taken[In(t)] <= Len(rows[In(t)])
  BY <1>1, <1>2 DEF CountInv, Sending, TypeOK
<1>5. x = Message(In(t), count[t] + 1) /\ x \in Nat
  <2>1. taken[In(t)] \in 1 .. Len(rows[In(t)])
    BY <1>2, <1>3, <1>4
  <2>2. x = Message(In(t), count[t] + 1)
    BY <1>2, <1>4, <2>1 DEF RowsInv
  <2> QED
    BY <1>4, <2>2 DEF Message
<1> HIDE DEF x
<1>6. pc'[t] \in {"complete", "receive"} 
      /\ \A u \in Workers \cup {Main} : u # t => pc'[u] = pc[u]
  BY <1>1, <1>2 DEF TypeOK
<1>7. /\ Sending(t) = 1 /\ Sending(t)' = 0
      /\ \A u \in Players : u # t => Sending(u)' = Sending(u)
      /\ \A u \in Players : Sending(u) \in {0, 1}
  BY <1>1, <1>2, <1>6 DEF Sending
<1>8. /\ rows'[Out(t)] = Append(rows[Out(t)], x + 1)
      /\ \A b \in Tables : b # Out(t) => rows'[b] = rows[b]
      /\ rows' \in [Tables -> Seq(Nat)]
  BY <1>1, <1>2, <1>3, <1>5 DEF TypeOK
<1>9. /\ Len(rows'[Out(t)]) = Len(rows[Out(t)]) + 1
      /\ rows'[Out(t)][Len(rows[Out(t)]) + 1] = x + 1
      /\ \A i \in 1 .. Len(rows[Out(t)]) : rows'[Out(t)][i] = rows[Out(t)][i]
  BY <1>2, <1>3, <1>5, <1>8
<1>10. tracker' \in [Workers -> SUBSET Nat] /\ TrackerInv'
  BY <1>1, <1>2, <1>5, TrackNext
<1>11. TypeOK'
  <2>1. /\ pc' \in [Workers \cup {Main} -> Labels \cup MainLabels]
        /\ \A u \in Workers : pc'[u] \in Labels
        /\ pc'[Main] \in MainLabels
    BY <1>1, <1>2, <1>6 DEF TypeOK, Labels
  <2>2. count' \in [Workers -> Nat]
    BY <1>1, <1>2 DEF TypeOK
  <2> QED
    BY <1>1, <1>8, <1>10, <2>1, <2>2 DEF TypeOK, state
<1>12. BallInv'
  BY <1>1, <1>2, <1>3, <1>7, <1>8, <1>9 DEF BallInv
<1>13. RowsInv'
  <2> SUFFICES ASSUME NEW b \in Tables, NEW i \in 1 .. Len(rows'[b])
               PROVE  rows'[b][i] = Message(b, i)
    BY DEF RowsInv
  <2>1. CASE b # Out(t)
    BY <1>8, <2>1 DEF RowsInv
  <2>2. CASE b = Out(t) /\ i \in 1 .. Len(rows[b])
    BY <1>9, <2>2 DEF RowsInv
  <2>3. CASE b = Out(t) /\ i = Len(rows[b]) + 1
    <3>1. rows'[b][i] = Message(In(t), count[t] + 1) + 1
      BY <1>5, <1>9, <2>3
    <3>2. CASE t = Caller
      <4>1. i = count[t] + 2
        BY <1>3, <1>4, <1>7, <2>3, <3>2 DEF BallInv, Tables
      <4>2. Message(In(t), count[t] + 1) = 2 * (count[t] + 1) - 1
        BY <3>2 DEF Message
      <4>3. Message(b, i) = 2 * (count[t] + 2) - 2
        BY <2>3, <3>2, <4>1 DEF Message
      <4> QED
        BY <1>4, <3>1, <4>2, <4>3
    <3>3. CASE t = Callee
      <4>1. i = count[t] + 1
        BY <1>3, <1>4, <1>7, <2>3, <3>3 DEF BallInv, Tables
      <4> QED
        BY <1>4, <2>3, <3>1, <3>3, <4>1 DEF Message
    <3> QED
      BY <3>2, <3>3
  <2> QED
    BY <1>2, <1>3, <1>9, <2>1, <2>2, <2>3
<1>14. CountInv'
  <2>0. \A b \in Tables : Len(rows[b]) <= Len(rows'[b]) /\ Len(rows'[b]) \in Nat
    <3> HIDE DEF PingPongInv
    <3> SUFFICES ASSUME NEW b \in Tables
                 PROVE  Len(rows[b]) <= Len(rows'[b]) /\ Len(rows'[b]) \in Nat
      OBVIOUS
    <3>1. Len(rows[b]) \in Nat
      BY <1>3
    <3>2. CASE b = Out(t)
      BY <1>9, <3>1, <3>2
    <3>3. CASE b # Out(t)
      BY <1>8, <3>1, <3>3
    <3> QED
      BY <3>2, <3>3
  <2>1. ASSUME NEW u \in Players
        PROVE  /\ taken'[In(u)] = count'[u] + Sending(u)'
               /\ taken'[In(u)] <= Len(rows'[In(u)]) /\ pc'[u] # "leave"
    <3>1. In(u) \in Tables /\ u \in Workers /\ count[u] \in Nat
      BY <1>2, TableOf DEF TypeOK
    <3>2. taken[In(u)] <= Len(rows[In(u)])
      BY DEF CountInv
    <3>3. taken'[In(u)] <= Len(rows'[In(u)])
      BY <1>1, <1>3, <2>0, <3>1, <3>2
    <3>4. CASE u = t
      BY <1>1, <1>2, <1>4, <1>6, <1>7, <3>3, <3>4 DEF TypeOK
    <3>5. CASE u # t
      BY <1>1, <1>2, <1>6, <1>7, <3>1, <3>3, <3>5 DEF CountInv, TypeOK
    <3> QED
      BY <3>4, <3>5
  <2>2. ASSUME NEW o \in Observers
        PROVE  /\ count'[o] <= Len(rows'[In(o)]) /\ pc'[o] \notin {"send", "lost"}
               /\ pc'[o] \in {"start", "receive"} => position'[o] = count'[o]
    <3>1. o # t /\ o \in Workers /\ In(o) \in Tables /\ count[o] \in Nat
      BY TableOf DEF Readers, TypeOK
    <3>2. count'[o] = count[o] /\ pc'[o] = pc[o] /\ position' = position
      BY <1>1, <1>6, <3>1 DEF TypeOK
    <3>3. count[o] <= Len(rows[In(o)])
      BY DEF CountInv
    <3>4. count'[o] <= Len(rows'[In(o)])
      BY <1>3, <2>0, <3>1, <3>2, <3>3
    <3> QED
      BY <3>2, <3>4 DEF CountInv
  <2>3. ASSUME NEW u \in Readers
        PROVE  IF pc'[u] \in {"start", "receive", "send"} THEN count'[u] < NMessages
               ELSE count'[u] = NMessages \/ pc'[u] \in Panicked
    <3>1. CASE u = t
      <4>1. count'[t] = count[t] + 1 /\ count[t] < NMessages
        BY <1>1, <1>2 DEF CountInv, TypeOK
      <4>2. pc'[t] = IF count[t] + 1 >= NMessages THEN "complete" ELSE "receive"
        BY <1>1, <1>2 DEF Last, TypeOK
      <4> QED
        BY <1>4, <3>1, <4>1, <4>2, PingPongAssumption
    <3>2. CASE u # t
      BY <1>1, <1>2, <1>6, <3>2 DEF CountInv, TypeOK
    <3> QED
      BY <3>1, <3>2
  <2> QED
    BY <2>1, <2>2, <2>3 DEF CountInv
<1>15. EndInv'
  BY <1>1, <1>2, <1>6, EndFrame DEF state
<1> QED
  BY <1>10, <1>11, <1>12, <1>13, <1>14, <1>15

LEMMA ObserveKeeps ==
  ASSUME PingPongInv, NEW o \in Observers, Observe(o) PROVE PingPongInv'
<1> USE Roles DEF PingPongInv
<1>1. /\ pc[o] = "receive" /\ position[o] < Len(rows[In(o)])
      /\ position' = [position EXCEPT ![o] = @ + 1]
      /\ Update(o, rows[In(o)][position[o] + 1])
      /\ count' = [count EXCEPT ![o] = @ + 1]
      /\ pc' = [pc EXCEPT ![o] = IF Last(o) THEN "leave" ELSE "receive"]
      /\ UNCHANGED <<rows, taken, state, debug>>
  BY DEF Observe, Goto
<1>2. o \in Readers /\ o \in Workers /\ o \notin Players /\ In(o) \in Tables
  BY TableOf DEF Readers
<1>3. count[o] \in Nat /\ position[o] = count[o] /\ Len(rows[In(o)]) \in Nat
  BY <1>1, <1>2 DEF CountInv, TypeOK
<1>4. rows[In(o)][position[o] + 1] = Message(In(o), count[o] + 1)
  BY <1>1, <1>2, <1>3 DEF RowsInv
<1>5. tracker' \in [Workers -> SUBSET Nat] /\ TrackerInv'
  BY <1>1, <1>2, <1>4, TrackNext
<1>6. pc'[o] = (IF count[o] + 1 >= NMessages THEN "leave" ELSE "receive")
      /\ \A u \in Workers \cup {Main} : u # o => pc'[u] = pc[u]
  BY <1>1, <1>2 DEF TypeOK, Last
<1>7. count'[o] = count[o] + 1 /\ \A u \in Workers : u # o => count'[u] = count[u]
  BY <1>1, <1>2 DEF TypeOK
<1>8. position'[o] = count[o] + 1 /\ \A u \in Observers : u # o => position'[u] = position[u]
  BY <1>1, <1>3 DEF TypeOK
<1>9. TypeOK'
  <2>1. /\ pc' \in [Workers \cup {Main} -> Labels \cup MainLabels]
        /\ \A u \in Workers : pc'[u] \in Labels
        /\ pc'[Main] \in MainLabels
    BY <1>1, <1>2, <1>6 DEF TypeOK, Labels
  <2>2. count' \in [Workers -> Nat]
    BY <1>1, <1>2 DEF TypeOK
  <2>3. position' \in [Observers -> Nat \cup {Detached}]
    BY <1>1, <1>3 DEF TypeOK
  <2> QED
    BY <1>1, <1>5, <2>1, <2>2, <2>3 DEF TypeOK, state
<1>10. BallInv'
  <2>1. \A u \in Players : Sending(u)' = Sending(u)
    BY <1>2, <1>6 DEF Sending, Readers
  <2> QED
    BY <1>1, <2>1 DEF BallInv
<1>11. RowsInv'
  BY <1>1 DEF RowsInv
<1>12. CountInv'
  <2>1. \A u \in Players : pc'[u] = pc[u] /\ count'[u] = count[u]
    BY <1>2, <1>6, <1>7 DEF Readers
  <2>2. \A u \in Players : /\ taken'[In(u)] = count'[u] + Sending(u)'
                           /\ taken'[In(u)] <= Len(rows'[In(u)]) /\ pc'[u] # "leave"
    BY <1>1, <2>1 DEF CountInv, Sending
  <2>3. ASSUME NEW u \in Observers
        PROVE  /\ count'[u] <= Len(rows'[In(u)]) /\ pc'[u] \notin {"send", "lost"}
               /\ pc'[u] \in {"start", "receive"} => position'[u] = count'[u]
    <3>1. CASE u = o
      BY <1>1, <1>3, <1>6, <1>7, <1>8, <3>1
    <3>2. CASE u # o
      <4>1. u \in Workers
        BY DEF Readers
      <4> QED
        BY <1>1, <1>6, <1>7, <1>8, <3>2, <4>1 DEF CountInv
    <3> QED
      BY <3>1, <3>2
  <2>4. ASSUME NEW u \in Readers
        PROVE  IF pc'[u] \in {"start", "receive", "send"} THEN count'[u] < NMessages
               ELSE count'[u] = NMessages \/ pc'[u] \in Panicked
    <3>1. CASE u = o
      <4>1. count[o] < NMessages
        BY <1>1, <1>2 DEF CountInv
      <4> QED
        BY <1>3, <1>6, <1>7, <3>1, <4>1, PingPongAssumption
    <3>2. CASE u # o
      BY <1>6, <1>7, <3>2 DEF CountInv
    <3> QED
      BY <3>1, <3>2
  <2> QED
    BY <2>2, <2>3, <2>4 DEF CountInv
<1>13. EndInv'
  BY <1>1, <1>2, <1>6, EndFrame DEF state
<1> QED
  BY <1>5, <1>9, <1>10, <1>11, <1>12, <1>13

LEMMA LeaveKeeps ==
  ASSUME PingPongInv, NEW o \in Observers, Leave(o) PROVE PingPongInv'
<1> USE Roles DEF PingPongInv
<1>1. /\ pc[o] = "leave" /\ pc' = [pc EXCEPT ![o] = "complete"]
      /\ position' = [position EXCEPT ![o] = Detached]
      /\ UNCHANGED <<rows, taken, state, count, tracker, debug>>
  BY DEF Leave, Goto
<1>2. o \in Readers /\ o \in Workers /\ o \notin Players
  BY DEF Readers
<1>3. pc'[o] = "complete" /\ \A u \in Workers \cup {Main} : u # o => pc'[u] = pc[u]
  BY <1>1, <1>2 DEF TypeOK
<1>4. \A u \in Observers : u # o => position'[u] = position[u]
  BY <1>1 DEF TypeOK
<1>5. TypeOK'
  BY <1>1, <1>2, <1>3 DEF TypeOK, state, Labels
<1>6. \A u \in Players : Sending(u)' = Sending(u) /\ pc'[u] = pc[u]
  BY <1>2, <1>3 DEF Sending, Readers
<1>7. BallInv' /\ RowsInv' /\ TrackerInv'
  BY <1>1, <1>6 DEF BallInv, RowsInv, TrackerInv
<1>8. CountInv'
  <2>1. \A u \in Readers :
          IF pc'[u] \in {"start", "receive", "send"} THEN count'[u] < NMessages
          ELSE count'[u] = NMessages \/ pc'[u] \in Panicked
    BY <1>1, <1>2, <1>3 DEF CountInv, Panicked
  <2>2. \A u \in Observers :
          /\ count'[u] <= Len(rows'[In(u)]) /\ pc'[u] \notin {"send", "lost"}
          /\ pc'[u] \in {"start", "receive"} => position'[u] = count'[u]
    BY <1>1, <1>2, <1>3, <1>4 DEF CountInv, Readers
  <2> QED
    BY <1>1, <1>6, <2>1, <2>2 DEF CountInv
<1>9. EndInv'
  BY <1>1, <1>2, <1>3, EndFrame DEF state
<1> QED
  BY <1>5, <1>7, <1>8, <1>9

(* Nobody counts on who has panicked, and a lost ball has its place.       *)
LEMMA PanicKeeps ==
  ASSUME PingPongInv, NEW t \in Workers, Panic(t) PROVE PingPongInv'
<1> USE Roles DEF PingPongInv
<1> DEFINE l == IF pc[t] = "send" THEN "lost" ELSE "panicked"
<1>1. /\ pc[t] \in {"receive", "send"} /\ pc' = [pc EXCEPT ![t] = l]
      /\ UNCHANGED <<rows, taken, state, count, tracker, debug>>
      /\ position' = [o \in Observers |-> IF o = t THEN Detached ELSE position[o]]
  BY DEF Panic, Goto
<1>2. pc'[t] = l /\ \A u \in Workers \cup {Main} : u # t => pc'[u] = pc[u]
  BY <1>1 DEF TypeOK
<1>3. l \in Panicked /\ (l = "lost" <=> pc[t] = "send")
  BY DEF Panicked
<1> HIDE DEF l
<1>4. TypeOK'
  BY <1>1, <1>2, <1>3 DEF TypeOK, state, Labels
<1>5. \A u \in Players : Sending(u)' = Sending(u) /\ pc'[u] # "leave"
  BY <1>1, <1>2, <1>3 DEF Sending, Panicked, CountInv, Readers
<1>6. BallInv' /\ RowsInv' /\ TrackerInv'
  BY <1>1, <1>5 DEF BallInv, RowsInv, TrackerInv
<1>7. CountInv'
  <2>1. \A u \in Readers :
          IF pc'[u] \in {"start", "receive", "send"} THEN count'[u] < NMessages
          ELSE count'[u] = NMessages \/ pc'[u] \in Panicked
    BY <1>1, <1>2, <1>3 DEF CountInv, Panicked
  <2>2. \A u \in Observers :
          /\ count'[u] <= Len(rows'[In(u)]) /\ pc'[u] \notin {"send", "lost"}
          /\ pc'[u] \in {"start", "receive"} => position'[u] = count'[u]
    BY <1>1, <1>2, <1>3 DEF CountInv, Panicked, Readers
  <2> QED
    BY <1>1, <1>5, <2>1, <2>2 DEF CountInv
<1>8. EndInv'
  BY <1>1, <1>2, <1>3, EndFrame DEF state, Panicked
<1> QED
  BY <1>4, <1>6, <1>7, <1>8

(***************************************************************************)
(* The theorems.                                                           *)
(***************************************************************************)
LEMMA InitPingPong == Init => PingPongInv
<1> SUFFICES ASSUME Init PROVE PingPongInv
  OBVIOUS
<1> USE Roles
<1>1. /\ rows["call"] = <<0>> /\ rows["reply"] = <<>>
      /\ rows \in [Tables -> Seq(Nat)]
  BY DEF Init, First, Tables
<1>2. \A t \in Workers : pc[t] = "start" /\ count[t] = 0 /\ tracker[t] = {}
  BY DEF Init
<1>3. pc[Main] = "trigger" /\ taken["call"] = 0 /\ taken["reply"] = 0
  BY DEF Init, Tables
<1>4. TypeOK
  BY <1>1, <1>2, <1>3 DEF Init, S!InitState, TypeOK, Labels, MainLabels
<1>5. Players \subseteq Readers /\ Observers \subseteq Readers
  BY DEF Readers
<1>6. \A t \in Players : Sending(t) = 0
  BY <1>2, <1>5 DEF Sending
<1>7. BallInv
  BY <1>1, <1>3, <1>6 DEF BallInv
<1>8. RowsInv
  BY <1>1 DEF RowsInv, Tables, Message
<1>9. CountInv
  <2>1. \A b \in Tables : taken[b] = 0 /\ Len(rows[b]) \in Nat
    BY <1>1 DEF Init
  <2>2. \A o \in Observers : position[o] = 0
    BY DEF Init
  <2> QED
    BY <1>2, <1>5, <1>6, <2>1, <2>2, TableOf, PingPongAssumption DEF CountInv
<1>10. TrackerInv
  BY <1>2 DEF TrackerInv
<1>11. EndInv
  <2>1. Ended = {}
    BY <1>2 DEF Ended
  <2> QED
    BY <1>3, <2>1, FS_EmptySet DEF EndInv, Init, S!InitState
<1> QED
  BY <1>4, <1>7, <1>8, <1>9, <1>10, <1>11 DEF PingPongInv

LEMMA NextPingPong == PingPongInv /\ [Next]_vars => PingPongInv'
<1> SUFFICES ASSUME PingPongInv, [Next]_vars PROVE PingPongInv'
  OBVIOUS
<1>1. ASSUME NEW t \in Workers, Work(t) PROVE PingPongInv'
  BY <1>1, StartKeeps, CompleteKeeps, TakeKeeps, AnswerKeeps, ObserveKeeps,
     LeaveKeeps, WeakEndKeeps DEF Work
<1>2. ASSUME NEW t \in Workers \cup {Main}, Wake(t) PROVE PingPongInv'
  BY <1>2, WakeKeeps
<1>5. ASSUME NEW t \in Workers, Panic(t) PROVE PingPongInv'
  BY <1>5, PanicKeeps
<1>3. CASE MainStep
  BY <1>3, MainKeeps
<1>4. CASE UNCHANGED vars
  <2>1. TypeOK' /\ EndInv'
    BY <1>4 DEF vars, PingPongInv, TypeOK, EndInv, Ended
  <2> QED
    BY <1>4, <2>1, QuietFrame DEF vars, tables
<1> QED
  BY <1>1, <1>2, <1>3, <1>4, <1>5 DEF Next, Terminated

(* The inductive invariant: what was put follows from what was taken.      *)
THEOREM PingPongCorrect == Spec => []PingPongInv
  BY InitPingPong, NextPingPong, PTL DEF Spec

(* One message is waiting or being answered, never two and never none.     *)
THEOREM OneBallCorrect == Spec => []OneBall
<1>1. PingPongInv => OneBall
  <2> SUFFICES ASSUME PingPongInv PROVE OneBall
    OBVIOUS
  <2> DEFINE Playing(t) == pc[t] \in {"send", "lost"}
  <2> DEFINE U == {t \in Players : Playing(t)}
  <2>1. Cardinality(U) = Sending(Caller) + Sending(Callee)
    <3>1. CASE Playing(Caller) /\ Playing(Callee)
      <4>1. U = {Caller} \cup {Callee} /\ Callee \notin {Caller}
        BY <3>1, Roles
      <4>2. IsFiniteSet({Caller}) /\ Cardinality({Caller}) = 1
        BY FS_Singleton
      <4>3. Cardinality({Caller} \cup {Callee}) = 2
        BY <4>1, <4>2, FS_AddElement
      <4> HIDE DEF U
      <4> QED
        BY <3>1, <4>1, <4>3 DEF Sending
    <3>2. CASE Playing(Caller) /\ ~Playing(Callee)
      <4>1. U = {Caller}
        BY <3>2, Roles
      <4>2. Sending(Caller) + Sending(Callee) = 1
        BY <3>2 DEF Sending
      <4> HIDE DEF U
      <4> QED
        BY <4>1, <4>2, FS_Singleton
    <3>3. CASE ~Playing(Caller) /\ Playing(Callee)
      <4>1. U = {Callee}
        BY <3>3, Roles
      <4>2. Sending(Caller) + Sending(Callee) = 1
        BY <3>3 DEF Sending
      <4> HIDE DEF U
      <4> QED
        BY <4>1, <4>2, FS_Singleton
    <3>4. CASE ~Playing(Caller) /\ ~Playing(Callee)
      <4>1. U = {}
        BY <3>4, Roles
      <4> QED
        BY <3>4, <4>1, FS_EmptySet DEF Sending
    <3> QED
      BY <3>1, <3>2, <3>3, <3>4
  <2>2. taken["call"] \in Nat /\ taken["reply"] \in Nat
        /\ Sending(Caller) \in {0, 1} /\ Sending(Callee) \in {0, 1}
    BY DEF PingPongInv, TypeOK, Tables, Sending
  <2> HIDE DEF U
  <2>3. Len(rows["call"]) - taken["call"] + Len(rows["reply"]) - taken["reply"]
          + Cardinality(U) = 1
    BY <2>1, <2>2 DEF PingPongInv, BallInv
  <2> QED
    BY <2>3 DEF OneBall, U
<1> QED
  BY <1>1, PingPongCorrect, PTL

(* A measured observer has tracked its table's messages, each once, as has *)
(* the player that handles them.                                           *)
THEOREM ObserversSeeCorrect == Spec => []ObserversSeeTheirs
<1>1. PingPongInv => ObserversSeeTheirs
  <2> SUFFICES ASSUME PingPongInv, NEW o \in Observers
               PROVE  LET player == IF In(o) = "call" THEN Callee ELSE Caller IN
                 /\ pc[o] \in {"complete", "ended"} =>
                      tracker[o] = {x \in 0 .. 2 * NMessages - 1 :
                                     debug /\ x % 2 = IF In(o) = "call" THEN 0 ELSE 1}
                 /\ pc[Main] = "join" => tracker[o] = tracker[player]
    BY DEF ObserversSeeTheirs
  <2> DEFINE player == IF In(o) = "call" THEN Callee ELSE Caller
             b == In(o)
  <2>1. o \in Readers /\ player \in Readers /\ In(player) = b /\ b \in Tables
    BY Roles, TableOf DEF Readers, Tables
  <2>2. ASSUME pc[o] \in {"complete", "ended"}
        PROVE  tracker[o] = {x \in 0 .. 2 * NMessages - 1 :
                              debug /\ x % 2 = IF b = "call" THEN 0 ELSE 1}
    <3>1. count[o] = NMessages /\ NMessages \in Nat
      BY <2>1, <2>2, PingPongAssumption DEF PingPongInv, CountInv, Panicked
    <3>2. tracker[o] = {x \in Nat : debug /\ \E i \in 1 .. NMessages : x = Message(b, i)}
      BY <2>1, <3>1 DEF PingPongInv, TrackerInv
    <3>3. ASSUME NEW x \in Nat
          PROVE  (\E i \in 1 .. NMessages : x = Message(b, i)) <=>
                   /\ x \in 0 .. 2 * NMessages - 1
                   /\ x % 2 = IF b = "call" THEN 0 ELSE 1
      <4>1. CASE b = "call"
        <5>1. \A i \in 1 .. NMessages : Message(b, i) = 2 * i - 2
          BY <4>1 DEF Message
        <5>2. ASSUME NEW i \in 1 .. NMessages, x = 2 * i - 2
              PROVE  x \in 0 .. 2 * NMessages - 1 /\ x % 2 = 0
          BY <3>1, <5>2
        <5>3. ASSUME x \in 0 .. 2 * NMessages - 1, x % 2 = 0
              PROVE  \E i \in 1 .. NMessages : x = 2 * i - 2
          <6>1. x \div 2 + 1 \in 1 .. NMessages /\ x = 2 * (x \div 2 + 1) - 2
            BY <3>1, <5>3
          <6> QED
            BY <6>1
        <5> QED
          BY <4>1, <5>1, <5>2, <5>3
      <4>2. CASE b # "call"
        <5>1. \A i \in 1 .. NMessages : Message(b, i) = 2 * i - 1
          BY <4>2 DEF Message
        <5>2. ASSUME NEW i \in 1 .. NMessages, x = 2 * i - 1
              PROVE  x \in 0 .. 2 * NMessages - 1 /\ x % 2 = 1
          BY <3>1, <5>2
        <5>3. ASSUME x \in 0 .. 2 * NMessages - 1, x % 2 = 1
              PROVE  \E i \in 1 .. NMessages : x = 2 * i - 1
          <6>1. x \div 2 + 1 \in 1 .. NMessages /\ x = 2 * (x \div 2 + 1) - 1
            BY <3>1, <5>3
          <6> QED
            BY <6>1
        <5> QED
          BY <4>2, <5>1, <5>2, <5>3
      <4> QED
        BY <4>1, <4>2
    <3>4. \A x \in 0 .. 2 * NMessages - 1 : x \in Nat
      BY <3>1
    <3> HIDE DEF b
    <3> QED
      BY <3>2, <3>3, <3>4
  <2>3. ASSUME pc[Main] = "join" PROVE tracker[o] = tracker[player]
    <3>1. pc[o] = "ended" /\ pc[player] = "ended"
      BY <2>1, <2>3, Roles DEF PingPongInv, EndInv, Ended
    <3>2. count[o] = NMessages /\ count[player] = NMessages
      BY <2>1, <3>1 DEF PingPongInv, CountInv, Panicked
    <3> HIDE DEF player, b
    <3>3. In(o) = b /\ In(player) = b
      BY <2>1 DEF b
    <3>4. /\ tracker[o] =
               {x \in Nat : debug /\ \E i \in 1 .. count[o] : x = Message(In(o), i)}
          /\ tracker[player] =
               {x \in Nat : debug /\ \E i \in 1 .. count[player] :
                                       x = Message(In(player), i)}
      BY <2>1 DEF PingPongInv, TrackerInv
    <3> QED
      BY <3>2, <3>3, <3>4
  <2> QED
    BY <2>2, <2>3
<1> QED
  BY <1>1, PingPongCorrect, PTL

(***************************************************************************)
(* How the benchmark ends.                                                 *)
(***************************************************************************)

(* If the main thread ends, everybody has and every message has its        *)
(* answer; and in a debug build with an observer it ends in the assertion. *)
EndsAsSaid ==
  pc[Main] \in {"done", "failed"} =>
    /\ pc[Main] = IF debug /\ Observers # {} THEN "failed" ELSE "done"
    /\ rows["reply"] = [i \in 1 .. NMessages |-> 2 * i - 1]
    /\ rows["call"] = [i \in 1 .. NMessages + 1 |-> 2 * i - 2]

OutcomeInv ==
  pc[Main] \in {"done", "failed"} =>
    /\ Ended = Workers
    /\ pc[Main] = IF debug /\ Observers # {} THEN "failed" ELSE "done"

(* The two sides of the assertion are the same in a release build only.    *)
LEMMA SidesDiffer ==
  ASSUME PingPongInv, Ended = Workers, NEW o \in Observers
  PROVE  tracker[o] = SymDiff(tracker[Caller], tracker[Callee]) <=> ~debug
<1> USE Roles DEF PingPongInv
<1>1. {o, Caller, Callee} \subseteq Readers /\ debug \in BOOLEAN /\ NMessages \in Nat \ {0}
  BY PingPongAssumption DEF Readers, TypeOK
<1>2. \A t \in Readers : count[t] = NMessages
  BY DEF Ended, CountInv, Panicked
<1>3. ASSUME NEW t \in Readers
      PROVE  tracker[t] = {x \in Nat : debug /\ \E i \in 1 .. NMessages : x = Message(In(t), i)}
  BY <1>2 DEF TrackerInv
<1>4. CASE ~debug
  <2>1. \A t \in Readers : tracker[t] = {}
    BY <1>3, <1>4
  <2> QED
    BY <1>1, <1>4, <2>1 DEF SymDiff
<1>5. CASE debug
  <2>1. ASSUME NEW t \in Readers
        PROVE  /\ 0 \in tracker[t] <=> In(t) = "call"
               /\ 1 \in tracker[t] <=> In(t) # "call"
    <3>1. 1 \in 1 .. NMessages /\ 0 \in Nat /\ 1 \in Nat
      BY <1>1
    <3>2. \A i \in 1 .. NMessages : i \in Int
      OBVIOUS
    <3>3. CASE In(t) = "call"
      <4>1. /\ Message(In(t), 1) = 0
            /\ \A i \in Int : Message(In(t), i) # 1
        BY <3>3 DEF Message
      <4> QED
        BY <1>3, <1>5, <3>1, <3>2, <3>3, <4>1
    <3>4. CASE In(t) # "call"
      <4>1. /\ Message(In(t), 1) = 1
            /\ \A i \in Int : Message(In(t), i) # 0
        BY <3>4 DEF Message
      <4> QED
        BY <1>3, <1>5, <3>1, <3>2, <3>4, <4>1
    <3> QED
      BY <3>3, <3>4
  <2>2. {0, 1} \subseteq SymDiff(tracker[Caller], tracker[Callee])
    BY <1>1, <2>1 DEF SymDiff
  <2>3. ~({0, 1} \subseteq tracker[o])
    BY <1>1, <2>1
  <2> QED
    BY <1>5, <2>2, <2>3
<1> QED
  BY <1>1, <1>4, <1>5

LEMMA NextOutcome == PingPongInv /\ OutcomeInv /\ [Next]_vars => OutcomeInv'
<1> SUFFICES ASSUME PingPongInv, OutcomeInv, [Next]_vars PROVE OutcomeInv'
  OBVIOUS
<1> USE Roles
<1>0. pc \in [Workers \cup {Main} -> Labels \cup MainLabels] /\ pc[Main] \in MainLabels
  BY DEF PingPongInv, TypeOK
<1>1. ASSUME pc[Main] \in {"done", "failed"}
      PROVE  UNCHANGED <<pc, debug>>
  <2>1. \A t \in Workers : pc[t] = "ended"
    BY <1>1 DEF OutcomeInv, Ended
  <2>2. \A t \in Workers : ~Work(t) /\ ~Panic(t)
    BY <2>1 DEF Work, Start, Complete, Take, Answer, Observe, Leave, WeakEnd, Panic
  <2>3. ~MainStep
    BY <1>1 DEF MainStep, Trigger, Measure, Join
  <2> QED
    BY <2>2, <2>3 DEF Next, Wake, Terminated, vars
<1>2. ASSUME pc[Main] \notin {"done", "failed"}, pc'[Main] \in {"done", "failed"}
      PROVE  Join
  <2>1. ~(UNCHANGED vars) /\ ~Terminated
    BY <1>2 DEF vars, Terminated
  <2>2. \A t \in Workers \cup {Main} : ~Wake(t)
    BY <1>2 DEF Wake
  <2>3. ASSUME NEW t \in Workers, Work(t) \/ Panic(t) PROVE FALSE
    <3>1. t # Main /\ \E l : pc' = [pc EXCEPT ![t] = l] \/ pc' = pc
      BY <2>3 DEF Work, Start, Complete, Take, Answer, Observe, Leave, WeakEnd, Panic, Goto
    <3> QED
      BY <1>0, <1>2, <3>1
  <2>4. ~Trigger /\ ~Measure
    BY <1>0, <1>2 DEF Trigger, Measure, Goto
  <2> QED
    BY <2>1, <2>2, <2>3, <2>4 DEF Next, MainStep
<1>3. CASE Join
  <2>1. /\ pc[Main] = "join" /\ debug' = debug
        /\ pc' = [pc EXCEPT ![Main] =
                    IF \A o \in Observers :
                         tracker[o] = SymDiff(tracker[Caller], tracker[Callee])
                    THEN "done" ELSE "failed"]
    BY <1>3 DEF Join, Goto
  <2>2. Ended = Workers /\ Ended' = Ended
    BY <1>0, <2>1 DEF PingPongInv, EndInv, Ended
  <2>3. pc'[Main] = IF \A o \in Observers :
                         tracker[o] = SymDiff(tracker[Caller], tracker[Callee])
                    THEN "done" ELSE "failed"
    BY <1>0, <2>1
  <2>4. (\A o \in Observers : tracker[o] = SymDiff(tracker[Caller], tracker[Callee]))
          <=> ~(debug /\ Observers # {})
    BY <2>2, SidesDiffer DEF PingPongInv, TypeOK
  <2>5. debug \in BOOLEAN
    BY DEF PingPongInv, TypeOK
  <2> QED
    BY <2>1, <2>2, <2>3, <2>4, <2>5 DEF OutcomeInv
<1> QED
  BY <1>1, <1>2, <1>3 DEF OutcomeInv, Ended

(* Where the benchmark ends every message has its answer; and in a debug   *)
(* build with an observer it ends in the assertion of generic_stress.rs:   *)
(* 387, which is never true.                                               *)
THEOREM EndsAsSaidCorrect == Spec => []EndsAsSaid
<1>1. Init => OutcomeInv
  BY DEF Init, OutcomeInv
<1>2. ASSUME PingPongInv, OutcomeInv PROVE EndsAsSaid
  <2> SUFFICES ASSUME pc[Main] \in {"done", "failed"}
               PROVE  /\ rows["reply"] = [i \in 1 .. NMessages |-> 2 * i - 1]
                      /\ rows["call"] = [i \in 1 .. NMessages + 1 |-> 2 * i - 2]
    BY <1>2 DEF EndsAsSaid, OutcomeInv
  <2>1. \A t \in Players : pc[t] = "ended" /\ count[t] = NMessages /\ Sending(t) = 0
    BY <1>2, Roles DEF OutcomeInv, Ended, PingPongInv, CountInv, Readers, Sending, Panicked
  <2>2. taken["call"] = NMessages /\ taken["reply"] = NMessages /\ NMessages \in Nat
    BY <1>2, <2>1, Roles, PingPongAssumption DEF PingPongInv, CountInv
  <2>3. Len(rows["call"]) = NMessages + 1 /\ Len(rows["reply"]) = NMessages
    BY <1>2, <2>1, <2>2, Roles DEF PingPongInv, BallInv
  <2>4. rows["call"] \in Seq(Nat) /\ rows["reply"] \in Seq(Nat)
    BY <1>2 DEF PingPongInv, TypeOK, Tables
  <2>5. /\ \A i \in 1 .. NMessages + 1 : rows["call"][i] = 2 * i - 2
        /\ \A i \in 1 .. NMessages : rows["reply"][i] = 2 * i - 1
    BY <1>2, <2>3 DEF PingPongInv, RowsInv, Tables, Message
  <2>6. \A s \in Seq(Nat) : s = [i \in 1 .. Len(s) |-> s[i]]
    OBVIOUS
  <2>7. rows["reply"] = [i \in 1 .. NMessages |-> 2 * i - 1]
    <3>1. rows["reply"] = [i \in 1 .. NMessages |-> rows["reply"][i]]
      BY <2>3, <2>4, <2>6, Zenon
    <3> QED
      BY <2>5, <3>1, Zenon
  <2>8. rows["call"] = [i \in 1 .. NMessages + 1 |-> 2 * i - 2]
    <3>1. rows["call"] = [i \in 1 .. NMessages + 1 |-> rows["call"][i]]
      BY <2>3, <2>4, <2>6, Zenon
    <3> QED
      BY <2>5, <3>1, Zenon
  <2> QED
    BY <2>7, <2>8
<1> QED
  BY <1>1, <1>2, NextOutcome, PingPongCorrect, PTL DEF Spec
-----------------------------------------------------------------------------
MainGoesOn ==
  \/ pc[Main] \in {"trigger", "join"}
  \/ pc[Main] = "wait" /\ Main \notin asleep /\ S!AllCompleted
GoesOn(t) ==
  \/ pc[t] = "start" /\ t \notin asleep /\ running
  \/ pc[t] \in {"leave", "complete"}
  \/ pc[t] = "receive" /\ t \in Players /\ taken[In(t)] < Len(rows[In(t)])
  \/ pc[t] = "send" /\ t \in Players /\ HasSpace(Out(t))
  \/ pc[t] = "receive" /\ t \in Observers /\ position[t] < Len(rows[In(t)])
  \/ /\ pc[t] = "receive" /\ t \in WeakObservers
     /\ Len(rows[In(t)]) >= NMessages \/ NMessages = 1

(* Until the benchmark is done or a worker panicked somebody can go on: a  *)
(* handler that waits for space (generic_stress.rs:304-312) is waited for  *)
(* by nobody who would have to make it, and nobody sleeps after what he    *)
(* waits for.                                                              *)
NeverStuck ==
  \/ pc[Main] \in {"done", "failed"} \/ \E t \in Workers : pc[t] \in Panicked
  \/ MainGoesOn \/ \E t \in Workers : GoesOn(t)

(* Who sleeps waits for what has not happened.                             *)
SleepInv ==
  /\ Main \in asleep => pc[Main] = "wait" /\ ~S!AllCompleted
  /\ \A t \in Workers : t \in asleep => ~running /\ pc[t] = "start"

(* An observer that a player must wait for is on its way.                  *)
AttachedInv ==
  \A o \in Observers :
    position[o] # Detached => pc[o] \in {"start", "receive", "leave"}

WakeInv ==
  /\ SleepInv /\ AttachedInv
  /\ \A w \in WeakObservers : pc[w] \notin {"send", "leave"}
  /\ running <=> pc[Main] # "trigger"

(* What a worker's step has to keep of WakeInv.                            *)
LEMMA WakeFrame ==
  ASSUME TypeOK, WakeInv, NEW t \in Workers, NEW l, pc' = [pc EXCEPT ![t] = l],
         running' = running, n_completed' = n_completed \/ asleep' = {},
         \A u \in asleep' : \/ u \in asleep /\ u # t
                            \/ u = t /\ ~running /\ l = "start",
         t \in WeakObservers => l \notin {"send", "leave"},
         \A o \in Observers : o # t => position'[o] = position[o],
         t \in Observers => position'[t] = Detached \/ l \in {"start", "receive", "leave"}
  PROVE  WakeInv'
<1> USE Roles
<1>1. pc'[t] = l /\ \A u \in Workers \cup {Main} : u # t => pc'[u] = pc[u]
  BY DEF TypeOK
<1>2. SleepInv'
  <2>1. Main \in asleep' => pc'[Main] = "wait" /\ ~S!AllCompleted'
    <3> SUFFICES ASSUME Main \in asleep' PROVE pc'[Main] = "wait" /\ ~S!AllCompleted'
      OBVIOUS
    <3>1. Main \in asleep /\ n_completed' = n_completed /\ pc'[Main] = pc[Main]
      BY <1>1
    <3> QED
      BY <3>1 DEF WakeInv, SleepInv, S!AllCompleted
  <2>2. \A u \in Workers : u \in asleep' => ~running' /\ pc'[u] = "start"
    BY <1>1 DEF WakeInv, SleepInv
  <2> QED
    BY <2>1, <2>2 DEF SleepInv
<1>3. AttachedInv'
  BY <1>1 DEF WakeInv, AttachedInv, Detached
<1>4. \A w \in WeakObservers : pc'[w] \notin {"send", "leave"}
  BY <1>1 DEF WakeInv
<1>5. running' <=> pc'[Main] # "trigger"
  BY <1>1 DEF WakeInv
<1> QED
  BY <1>2, <1>3, <1>4, <1>5 DEF WakeInv

(* Who works does not sleep.                                               *)
LEMMA Awake ==
  ASSUME WakeInv, NEW t \in Workers, pc[t] # "start"
  PROVE  \A u \in asleep : u \in asleep /\ u # t
  BY DEF WakeInv, SleepInv

LEMMA WakeWorker ==
  ASSUME PingPongInv, WakeInv, NEW t \in Workers, Work(t)
  PROVE  WakeInv'
<1> USE Roles
<1>0. TypeOK /\ pc = [pc EXCEPT ![t] = pc[t]]
  BY DEF PingPongInv, TypeOK
<1>1. CASE Start(t)
  <2>1. /\ pc[t] = "start" /\ t \notin asleep /\ position' = position
        /\ running' = running /\ n_completed' = n_completed
        /\ asleep' = IF running THEN asleep ELSE asleep \cup {t}
        /\ pc' = [pc EXCEPT ![t] = IF running THEN "receive" ELSE "start"]
    BY <1>0, <1>1 DEF Start, S!WaitForStart, Goto, tables
  <2> DEFINE l == IF running THEN "receive" ELSE "start"
  <2>2. \A u \in asleep' : (u \in asleep /\ u # t) \/ (u = t /\ ~running /\ l = "start")
    BY <2>1
  <2>3. l \in {"start", "receive"}
    OBVIOUS
  <2>4. pc' = [pc EXCEPT ![t] = l]
    BY <2>1
  <2> HIDE DEF l
  <2> QED
    BY <1>0, <2>1, <2>2, <2>3, <2>4, WakeFrame
<1>2. CASE Complete(t)
  <2>1. /\ pc' = [pc EXCEPT ![t] = "ended"] /\ asleep' = {} /\ running' = running
        /\ position' = position /\ pc[t] = "complete"
    BY <1>2 DEF Complete, S!Complete, Goto, tables
  <2>2. t \in Observers => position'[t] = Detached
    BY <2>1 DEF WakeInv, AttachedInv
  <2> QED
    BY <1>0, <2>1, <2>2, WakeFrame
<1>3. CASE t \in Players /\ (Take(t) \/ Answer(t))
  <2>1. /\ \E l \in {"send", "receive", "complete"} : pc' = [pc EXCEPT ![t] = l]
        /\ UNCHANGED <<running, n_completed, asleep, position>> /\ pc[t] # "start"
    BY <1>3 DEF Take, Answer, Goto, state
  <2>2. t \notin Observers /\ t \notin WeakObservers
    BY <1>3 DEF Readers
  <2> QED
    BY <1>0, <2>1, <2>2, Awake, WakeFrame
<1>4. CASE t \in Observers /\ Observe(t)
  <2>1. /\ \E l \in {"receive", "leave"} : pc' = [pc EXCEPT ![t] = l]
        /\ UNCHANGED <<running, n_completed, asleep>> /\ pc[t] = "receive"
        /\ \A o \in Observers : o # t => position'[o] = position[o]
    BY <1>0, <1>4 DEF Observe, Goto, state, TypeOK
  <2>2. t \notin WeakObservers
    BY <1>4 DEF Readers
  <2> QED
    BY <1>0, <2>1, <2>2, Awake, WakeFrame
<1>5. CASE t \in Observers /\ Leave(t)
  <2>1. /\ pc' = [pc EXCEPT ![t] = "complete"] /\ pc[t] = "leave"
        /\ UNCHANGED <<running, n_completed, asleep>>
        /\ position' = [position EXCEPT ![t] = Detached]
    BY <1>5 DEF Leave, Goto, state
  <2>2. /\ \A o \in Observers : o # t => position'[o] = position[o]
        /\ position'[t] = Detached
    BY <1>0, <1>5, <2>1 DEF TypeOK
  <2> QED
    BY <1>0, <2>1, <2>2, Awake, WakeFrame
<1>6. CASE t \in WeakObservers /\ WeakEnd(t)
  <2>1. /\ pc' = [pc EXCEPT ![t] = "complete"] /\ pc[t] = "receive"
        /\ UNCHANGED <<running, n_completed, asleep, position>>
    BY <1>6 DEF WeakEnd, Goto, state, tables
  <2>2. t \notin Observers
    BY <1>6 DEF Readers
  <2> QED
    BY <1>0, <2>1, <2>2, Awake, WakeFrame
<1> QED
  BY <1>1, <1>2, <1>3, <1>4, <1>5, <1>6 DEF Work

LEMMA WakePanic ==
  ASSUME PingPongInv, WakeInv, NEW t \in Workers, Panic(t)
  PROVE  WakeInv'
<1> USE Roles
<1>1. /\ \E l \in Panicked : pc' = [pc EXCEPT ![t] = l]
      /\ UNCHANGED <<running, n_completed, asleep>> /\ pc[t] # "start"
      /\ position' = [o \in Observers |-> IF o = t THEN Detached ELSE position[o]]
  BY DEF Panic, Goto, state, Panicked
<1>2. \A l \in Panicked : l \notin {"send", "leave"}
  BY DEF Panicked
<1>3. TypeOK
  BY DEF PingPongInv
<1> QED
  BY <1>1, <1>2, <1>3, Awake, WakeFrame

LEMMA WakeMain ==
  ASSUME PingPongInv, WakeInv, MainStep
  PROVE  WakeInv'
<1> USE Roles
<1>1. /\ \A t \in Workers : pc'[t] = pc[t]
      /\ position' = position /\ n_completed' = n_completed
  BY DEF MainStep, Trigger, Measure, Join, Goto, tables, state, S!TriggerStart,
    S!WaitForComplete, PingPongInv, TypeOK
<1>2. AttachedInv' /\ \A w \in WeakObservers : pc'[w] \notin {"send", "leave"}
  BY <1>1 DEF WakeInv, AttachedInv, Detached, Readers
<1>3. SleepInv'
  <2>1. CASE Trigger
    BY <2>1 DEF Trigger, S!TriggerStart, SleepInv
  <2>2. CASE Measure
    <3>1. /\ pc[Main] = "wait" /\ Main \notin asleep /\ running' = running
          /\ asleep' = IF S!AllCompleted THEN asleep ELSE asleep \cup {Main}
          /\ ~S!AllCompleted => pc' = pc
      BY <2>2 DEF Measure, S!WaitForComplete
    <3>2. S!AllCompleted' <=> S!AllCompleted
      BY <1>1 DEF S!AllCompleted
    <3>3. Main \in asleep' => pc'[Main] = "wait" /\ ~S!AllCompleted'
      BY <3>1, <3>2
    <3>4. \A t \in Workers : t \in asleep' => t \in asleep
      BY <3>1
    <3> QED
      BY <1>1, <3>1, <3>3, <3>4 DEF WakeInv, SleepInv
  <2>3. CASE Join
    <3>1. pc[Main] = "join" /\ asleep' = asleep /\ running' = running
      BY <2>3 DEF Join, state
    <3> QED
      BY <1>1, <3>1 DEF WakeInv, SleepInv
  <2> QED
    BY <2>1, <2>2, <2>3 DEF MainStep
<1>4. running' <=> pc'[Main] # "trigger"
  BY DEF MainStep, Trigger, Measure, Join, Goto, state, S!TriggerStart,
    S!WaitForComplete, PingPongInv, TypeOK, WakeInv
<1> QED
  BY <1>2, <1>3, <1>4 DEF WakeInv

LEMMA NextWake == PingPongInv /\ WakeInv /\ [Next]_vars => WakeInv'
<1> SUFFICES ASSUME PingPongInv, WakeInv, [Next]_vars PROVE WakeInv'
  OBVIOUS
<1>1. ASSUME NEW t \in Workers \cup {Main}, Wake(t) PROVE WakeInv'
  <2>1. asleep' = asleep \ {t} /\ UNCHANGED <<running, n_completed, pc, position>>
    BY <1>1 DEF Wake, S!SpuriousWake, tables
  <2> QED
    BY <2>1 DEF WakeInv, SleepInv, AttachedInv, S!AllCompleted, Detached
<1>2. CASE UNCHANGED vars
  BY <1>2 DEF vars, WakeInv, SleepInv, AttachedInv, S!AllCompleted, Detached
<1> QED
  BY <1>1, <1>2, WakeWorker, WakePanic, WakeMain DEF Next, Terminated

(* Who has the ball finds room: its table is empty for its reader, and who *)
(* observes it has something to observe or has observed everything.        *)
LEMMA RoomForBall ==
  ASSUME PingPongInv, WakeInv, running,
         \A t \in Workers : pc[t] \notin Panicked /\ ~GoesOn(t)
  PROVE  \A t \in Players : pc[t] # "send"
<1> USE Roles, PingPongAssumption DEF PingPongInv
<1> SUFFICES ASSUME NEW t \in Players, pc[t] = "send" PROVE FALSE
  OBVIOUS
<1>1. /\ \A b \in Tables : taken[b] \in Nat /\ Len(rows[b]) \in Nat
      /\ \A p \in Players : Sending(p) \in {0, 1}
      /\ Sending(t) = 1 /\ {"call", "reply"} = Tables
  BY DEF TypeOK, Tables, Sending
<1>2. taken["call"] <= Len(rows["call"]) /\ taken["reply"] <= Len(rows["reply"])
  BY DEF CountInv
<1>3. taken[Out(t)] = Len(rows[Out(t)])
  BY <1>1, <1>2 DEF BallInv
<1>4. ASSUME NEW o \in Observers, In(o) = Out(t), position[o] # Detached
      PROVE  Len(rows[Out(t)]) - position[o] < Capacity
  <2>1. pc[o] = "receive" /\ position[o] \in Nat
    BY <1>4 DEF WakeInv, AttachedInv, SleepInv, GoesOn, TypeOK, Readers
  <2>2. ~(position[o] < Len(rows[Out(t)]))
    BY <1>4, <2>1 DEF GoesOn, Readers
  <2>3. Len(rows[Out(t)]) \in Nat
    BY <1>1 DEF Out
  <2> QED
    BY <2>1, <2>2, <2>3
<1>5. HasSpace(Out(t))
  <2>1. Len(rows[Out(t)]) - taken[Out(t)] < Capacity
    BY <1>1, <1>3
  <2> QED
    BY <1>4, <2>1 DEF HasSpace
<1> QED
  BY <1>5 DEF GoesOn, Readers

(* Where no message can be taken, answered or observed, all is done.       *)
LEMMA AllDone ==
  ASSUME PingPongInv, WakeInv, running,
         \A t \in Workers : pc[t] \notin Panicked /\ ~GoesOn(t)
  PROVE  \A t \in Workers : pc[t] = "ended"
<1> USE Roles DEF PingPongInv
<1>1. \A t \in Workers : pc[t] \in {"receive", "ended"}
  <2>1. \A t \in Workers : pc[t] \in {"receive", "send", "ended"}
    BY DEF GoesOn, WakeInv, SleepInv, TypeOK, Labels
  <2>2. \A t \in Workers : pc[t] # "send"
    BY RoomForBall DEF CountInv, WakeInv, Workers
  <2> QED
    BY <2>1, <2>2
<1>2. /\ \A b \in Tables : taken[b] \in Nat /\ Len(rows[b]) \in Nat
      /\ NMessages \in Nat \ {0} /\ {"call", "reply"} = Tables
  BY PingPongAssumption DEF TypeOK, Tables
<1>3. /\ Len(rows["call"]) = taken["reply"] + 1 /\ Len(rows["reply"]) = taken["call"]
      /\ count[Caller] = taken["reply"] /\ count[Callee] = taken["call"]
      /\ taken["call"] <= Len(rows["call"]) /\ taken["reply"] <= Len(rows["reply"])
  <2>1. Sending(Caller) = 0 /\ Sending(Callee) = 0
    BY <1>1 DEF Sending, Readers
  <2>2. \A n \in Nat : n - 0 + 1 = n + 1 /\ n - 0 = n /\ n + 0 = n
    OBVIOUS
  <2>3. count \in [Workers -> Nat]
    BY DEF TypeOK
  <2> QED
    <3>1. /\ taken["reply"] = count[Caller] + 0 /\ taken["call"] = count[Callee] + 0
          /\ taken["call"] <= Len(rows["call"]) /\ taken["reply"] <= Len(rows["reply"])
      BY <2>1 DEF CountInv
    <3>2. count[Caller] \in Nat /\ count[Callee] \in Nat
      BY <2>3 DEF Readers
    <3> QED
      BY <1>2, <2>1, <2>2, <3>1, <3>2 DEF BallInv
<1>4. ASSUME NEW t \in Readers
      PROVE  \/ pc[t] = "receive" /\ count[t] < NMessages
             \/ pc[t] = "ended" /\ count[t] = NMessages
  BY <1>1 DEF CountInv
<1>5. /\ pc[Callee] = "receive" => taken["call"] >= Len(rows["call"])
      /\ pc[Caller] = "receive" => taken["reply"] >= Len(rows["reply"])
  <2>1. \A t \in Players : pc[t] = "receive" => ~(taken[In(t)] < Len(rows[In(t)]))
    BY DEF GoesOn, Readers
  <2> QED
    BY <1>2, <2>1
<1>6. /\ pc[Caller] = "ended" /\ pc[Callee] = "ended"
      /\ Len(rows["call"]) = NMessages + 1 /\ Len(rows["reply"]) = NMessages
  BY <1>2, <1>3, <1>4, <1>5 DEF Readers
<1>7. \A b \in Tables : Len(rows[b]) >= NMessages
  BY <1>2, <1>6 DEF Tables
<1>8. ASSUME NEW o \in Observers PROVE pc[o] = "ended"
  <2> SUFFICES ASSUME pc[o] = "receive" PROVE FALSE
    BY <1>1 DEF Readers
  <2>1. position[o] = count[o] /\ count[o] < NMessages /\ count[o] \in Nat
    BY <1>4 DEF CountInv, Readers, TypeOK
  <2>2. ~(position[o] < Len(rows[In(o)]))
    BY DEF GoesOn, Readers
  <2> QED
    BY <1>2, <1>7, <2>1, <2>2, TableOf
<1>9. ASSUME NEW w \in WeakObservers PROVE pc[w] = "ended"
  BY <1>1, <1>7, TableOf DEF GoesOn
<1> QED
  BY <1>6, <1>8, <1>9 DEF Workers

(* The benchmark is never stuck, whatever the capacity and the numbers of  *)
(* messages and of observers.                                              *)
THEOREM NeverStuckCorrect == Spec => []NeverStuck
<1>1. Init => WakeInv
  <2> SUFFICES ASSUME Init PROVE WakeInv
    OBVIOUS
  <2>1. \A t \in Workers : pc[t] = "start"
    BY Roles DEF Init
  <2>2. asleep = {} /\ running = FALSE /\ pc[Main] = "trigger"
    BY DEF Init, S!InitState
  <2> QED
    BY <2>1, <2>2, Roles DEF WakeInv, SleepInv, AttachedInv, Readers
<1>2. ASSUME PingPongInv, WakeInv PROVE NeverStuck
  <2> SUFFICES ASSUME pc[Main] \notin {"done", "failed"}, ~MainGoesOn,
                      \A t \in Workers : pc[t] \notin Panicked /\ ~GoesOn(t)
               PROVE  FALSE
    BY DEF NeverStuck
  <2>1. pc[Main] = "wait" /\ running
    BY <1>2 DEF MainGoesOn, PingPongInv, TypeOK, MainLabels, WakeInv
  <2>2. \A t \in Workers : pc[t] = "ended"
    BY <1>2, <2>1, AllDone
  <2>3. S!AllCompleted
    <3>1. Ended = Workers
      BY <2>2 DEF Ended
    <3>2. n_completed = Cardinality(Workers) /\ n_completed \in Nat
      BY <1>2, <3>1 DEF PingPongInv, EndInv, TypeOK
    <3> QED
      BY <3>2 DEF S!AllCompleted, Expected
  <2> QED
    BY <1>2, <2>1, <2>3 DEF MainGoesOn, WakeInv, SleepInv
<1> QED
  BY <1>1, <1>2, NextWake, PingPongCorrect, PTL DEF Spec
=============================================================================
