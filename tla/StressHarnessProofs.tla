------------------------ MODULE StressHarnessProofs ------------------------
(***************************************************************************)
(* Theorems about StressHarness, for every number of threads of each kind, *)
(* of messages and of elements: the assertions at the end of the benchmark *)
(* hold, it has measured all of the work, and weak observers ask for rows  *)
(* that were put only.                                                     *)
(*                                                                         *)
(* The main thread compares when as many have completed as there are       *)
(* workers, that is all of them (EndInv).  By then each producer and each  *)
(* consumer has done its share (CountInv).  The messages sent are those    *)
(* that the producers count, each once (SentInv), and the first of them    *)
(* are spread over the consumers (ConsumedInv); so as many were sent and   *)
(* as many taken as the shares add up to, and the trackers agree.          *)
(***************************************************************************)
EXTENDS StressHarness, FiniteSetTheorems, TLAPS

Labels == {"start", "work", "first", "last", "observe", "leave",
           "complete", "ended", "panicked"}
MainLabels == {"trigger", "wait", "join", "done", "failed"}
Messages == [src : Producers, x : Nat]
Counting == Producers \cup Receivers

(* Types of all variables.                                                 *)
TypeOK ==
  /\ rows \in Nat /\ taken \in Nat
  /\ position \in [Observers -> Nat \cup {T!Detached}]
  /\ result \in [Receivers \cup WeakObservers -> [lo : Int, hi : Int]]
  /\ running \in BOOLEAN /\ n_completed \in Nat
  /\ asleep \subseteq Workers \cup {Main}
  /\ pc \in [Workers \cup {Main} -> Labels \cup MainLabels]
  /\ \A t \in Workers : pc[t] \in Labels
  /\ pc[Main] \in MainLabels
  /\ sent \in Seq(Messages)
  /\ count \in [Workers -> Nat]
  /\ tracker \in [Workers -> SUBSET Messages]
  /\ cursor \in [WeakObservers -> Nat] /\ last \in [WeakObservers -> Nat]

Message(p, k) == [src |-> p, x |-> k]

(* The messages sent are those the producers have counted, each once.      *)
SentInv ==
  /\ Len(sent) = rows
  /\ \A i \in 1 .. rows : sent[i].x < count[sent[i].src]
  /\ \A p \in Producers, k \in Nat : k < count[p] =>
       \E i \in 1 .. rows : sent[i] = Message(p, k)
  /\ \A i, j \in 1 .. rows : sent[i] = sent[j] => i = j

FirstSent(n) == {sent[i] : i \in 1 .. n}

(* What producers and observers have tracked.                              *)
TrackerInv ==
  /\ \A p \in Producers : tracker[p] = {v \in Messages : v.src = p /\ v.x < count[p]}
  /\ \A o \in Observers : count[o] <= rows /\ tracker[o] = FirstSent(count[o])

(* What was taken is spread over the consumers.                            *)
ConsumedInv ==
  /\ taken <= rows
  /\ UNION {tracker[c] : c \in Consumers} = FirstSent(taken)
  /\ \A c, d \in Consumers : c # d => tracker[c] \cap tracker[d] = {}
  /\ \A c \in Consumers :
       IsFiniteSet(tracker[c]) /\ Cardinality(tracker[c]) = count[c]

Limit(t) == IF t \in Producers THEN Share(Producers) ELSE Quota(t)

(* A worker is in its loop until it has done its share.                    *)
CountInv ==
  /\ \A t \in Counting :
       /\ pc[t] \in {"start", "work"} => count[t] < Limit(t)
       /\ pc[t] \in {"leave", "complete", "ended"} => count[t] = Limit(t)
  /\ \A o \in Observers : pc[o] \in {"start", "work"} => position[o] = count[o]

(* Nothing happens before the main thread's trigger.                       *)
StartInv ==
  /\ running <=> pc[Main] # "trigger"
  /\ ~running => rows = 0 /\ \A t \in Workers : pc[t] = "start"

Ended == {t \in Workers : pc[t] = "ended"}

(* Every worker completes at most once, and the assertions hold.           *)
EndInv ==
  /\ n_completed = Cardinality(Ended)
  /\ pc[Main] \in {"join", "done"} => Ended = Workers
  /\ pc[Main] # "failed"

(* A recent cursor is that of a row, or of none in an empty table.         *)
CursorInv == \A w \in WeakObservers : last[w] = 0 \/ last[w] < rows

HarnessInv ==
  /\ TypeOK /\ SentInv /\ TrackerInv /\ ConsumedInv /\ CountInv
  /\ StartInv /\ EndInv /\ CursorInv

(***************************************************************************)
(* Who is who, and the shares.                                             *)
(***************************************************************************)
LEMMA Roles ==
  /\ Producers \subseteq Counting /\ Consumers \subseteq Counting
  /\ Observers \subseteq Counting /\ Counting \subseteq Workers
  /\ Counting = Producers \cup Consumers \cup Observers
  /\ Receivers = Consumers \cup Observers
  /\ WeakObservers \subseteq Workers /\ WeakObservers \cap Counting = {}
  /\ Producers \cap Consumers = {} /\ Producers \cap Observers = {}
  /\ Consumers \cap Observers = {} /\ Main \notin Workers
  BY StressAssumption DEF Counting, Receivers, Workers

LEMMA Division ==
  ASSUME NEW i \in Int, NEW m \in Nat \ {0}
  PROVE  /\ i = m * (i \div m) + (i % m)
         /\ i \div m \in Int
         /\ i % m \in 0 .. m - 1
  BY Z3

(* The shares of the producers add up, and so do those of the consumers.   *)
LEMMA Shares ==
  ASSUME NEW threads \in {Producers, Consumers}
  PROVE  /\ IsFiniteSet(threads) /\ Cardinality(threads) \in Nat \ {0}
         /\ Share(threads) \in Nat \ {0}
         /\ Cardinality(threads) * Share(threads) = NMessages
<1>1. threads \subseteq Workers /\ threads # {} /\ NMessages \in Nat \ {0}
      /\ NMessages % Cardinality(threads) = 0
  BY StressAssumption, Roles
<1>2. IsFiniteSet(threads)
  BY <1>1, StressAssumption, FS_Subset
<1>3. Cardinality(threads) \in Nat \ {0}
  BY <1>1, <1>2, FS_CardinalityType, FS_EmptySet
<1> DEFINE m == Cardinality(threads)  q == NMessages \div m
<1>4. m \in Nat \ {0} /\ NMessages % m = 0 /\ NMessages \in Nat \ {0}
  BY <1>1, <1>3
<1>5. NMessages = m * q /\ q \in Int /\ q > 0
  <2> HIDE DEF m
  <2>1. NMessages = m * q + (NMessages % m) /\ q \in Int
    BY <1>4, Division
  <2> HIDE DEF q
  <2>2. m * q \in Int
    BY <1>4, <2>1
  <2>3. NMessages = m * q
    BY <1>4, <2>1, <2>2
  <2>4. q > 0
    BY <1>4, <2>1, <2>3, Z3
  <2> QED
    BY <2>1, <2>3, <2>4
<1> QED
  BY <1>2, <1>3, <1>4, <1>5 DEF Share

LEMMA LimitType ==
  \A t \in Counting : /\ Limit(t) \in Nat \ {0}
                      /\ t \in Producers => Limit(t) = Share(Producers)
                      /\ t \in Consumers => Limit(t) = Share(Consumers)
                      /\ t \in Observers => Limit(t) = NMessages
<1>1. NMessages \in Nat \ {0}
  BY StressAssumption
<1> QED
  BY <1>1, Roles, Shares DEF Limit, Quota

(***************************************************************************)
(* Who has completed.                                                      *)
(***************************************************************************)
LEMMA EndedFinite == IsFiniteSet(Ended) /\ Ended \subseteq Workers
  BY StressAssumption, FS_Subset DEF Ended

LEMMA EndFrame ==
  ASSUME EndInv, \A t \in Workers : pc'[t] = "ended" <=> pc[t] = "ended",
         n_completed' = n_completed, pc'[Main] = pc[Main]
  PROVE  EndInv'
<1>1. Ended' = Ended
  BY DEF Ended
<1> QED
  BY <1>1 DEF EndInv

(***************************************************************************)
(* Steps that put, take and track nothing of a counted worker's.           *)
(***************************************************************************)
Onward(t) ==
  \/ pc'[t] = pc[t]
  \/ pc[t] = "start" /\ pc'[t] = "work"
  \/ pc[t] = "leave" /\ pc'[t] = "complete"
  \/ pc[t] = "complete" /\ pc'[t] = "ended"
  \/ pc'[t] = "panicked"

LEMMA QuietFrame ==
  ASSUME HarnessInv, TypeOK', StartInv', EndInv', CursorInv',
         UNCHANGED <<rows, taken, sent, count>>,
         \A t \in Counting : tracker'[t] = tracker[t] /\ Onward(t),
         \A o \in Observers : pc'[o] \in {"start", "work"} => position'[o] = position[o]
  PROVE  HarnessInv'
<1> USE Roles DEF HarnessInv
<1>1. SentInv'
  BY DEF SentInv
<1>2. TrackerInv'
  <2>1. \A n : FirstSent(n)' = FirstSent(n)
    BY DEF FirstSent
  <2> QED
    BY <2>1 DEF TrackerInv
<1>3. ConsumedInv'
  <2>1. FirstSent(taken)' = FirstSent(taken)
    BY DEF FirstSent
  <2>2. {tracker'[c] : c \in Consumers} = {tracker[c] : c \in Consumers}
    OBVIOUS
  <2>3. \A c \in Consumers : tracker'[c] = tracker[c]
    OBVIOUS
  <2> QED
    BY <2>1, <2>2, <2>3 DEF ConsumedInv
<1>4. CountInv'
  <2>1. ASSUME NEW t \in Counting
        PROVE  /\ pc'[t] \in {"start", "work"} => count'[t] < Limit(t)
               /\ pc'[t] \in {"leave", "complete", "ended"} => count'[t] = Limit(t)
    BY DEF CountInv, Onward
  <2>2. ASSUME NEW o \in Observers, pc'[o] \in {"start", "work"}
        PROVE  position'[o] = count'[o]
    BY <2>2 DEF CountInv, Onward
  <2> QED
    BY <2>1, <2>2 DEF CountInv, Limit, Share, Quota
<1> QED
  BY <1>1, <1>2, <1>3, <1>4

(* The step of one worker that the others do not notice: what it has to    *)
(* keep of its own.                                                        *)
LEMMA WorkerFrame ==
  ASSUME HarnessInv, NEW t \in Workers, NEW l \in Labels, pc' = [pc EXCEPT ![t] = l],
         Onward(t) \/ t \in WeakObservers, pc[t] # "ended", l # "ended",
         running \/ l = "start", UNCHANGED <<rows, taken, sent, count, running, n_completed>>,
         result' = result, asleep' \subseteq Workers \cup {Main},
         position' \in [Observers -> Nat \cup {T!Detached}],
         \A o \in Observers : l \in {"start", "work"} \/ o # t => position'[o] = position[o],
         tracker' \in [Workers -> SUBSET Messages],
         \A u \in Counting : tracker'[u] = tracker[u],
         cursor' \in [WeakObservers -> Nat], last' \in [WeakObservers -> Nat], CursorInv'
  PROVE  HarnessInv'
<1> USE Roles DEF HarnessInv
<1>1. pc'[t] = l /\ \A u \in Workers \cup {Main} : u # t => pc'[u] = pc[u]
  BY DEF TypeOK
<1>2. TypeOK'
  BY <1>1 DEF TypeOK
<1>3. EndInv'
  BY <1>1, EndFrame
<1>4. StartInv'
  BY <1>1 DEF StartInv
<1>5. \A u \in Counting : Onward(u)
  BY <1>1 DEF Onward
<1>6. \A o \in Observers : pc'[o] \in {"start", "work"} => position'[o] = position[o]
  BY <1>1, <1>4 DEF StartInv
<1> QED
  BY <1>2, <1>3, <1>4, <1>5, <1>6, QuietFrame

LEMMA StartKeeps ==
  ASSUME HarnessInv, NEW t \in Workers, Start(t) PROVE HarnessInv'
<1> USE Roles DEF HarnessInv
<1>1. /\ pc[t] = "start" /\ UNCHANGED <<table, locals, running, n_completed>>
      /\ asleep' \subseteq Workers \cup {Main}
      /\ running => pc' = [pc EXCEPT ![t] = "work"]
      /\ ~running => pc' = [pc EXCEPT ![t] = "start"]
  BY DEF Start, S!WaitForStart, Goto, TypeOK
<1>2. CursorInv'
  BY <1>1 DEF CursorInv, table, locals
<1>3. CASE running
  <2>1. pc' = [pc EXCEPT ![t] = "work"] /\ Onward(t)
    BY <1>1, <1>3 DEF Onward, TypeOK
  <2> QED
    BY <1>1, <1>2, <1>3, <2>1, WorkerFrame DEF TypeOK, table, locals, Labels
<1>4. CASE ~running
  <2>1. pc' = [pc EXCEPT ![t] = "start"] /\ Onward(t)
    BY <1>1, <1>4 DEF Onward, TypeOK
  <2> QED
    BY <1>1, <1>2, <1>4, <2>1, WorkerFrame DEF TypeOK, table, locals, Labels
<1> QED
  BY <1>3, <1>4

LEMMA PanicKeeps ==
  ASSUME HarnessInv, NEW t \in Workers, Panic(t) PROVE HarnessInv'
<1> USE Roles DEF HarnessInv
<1>1. /\ pc[t] = "work" /\ pc' = [pc EXCEPT ![t] = "panicked"]
      /\ UNCHANGED <<state, locals>>
      /\ IF t \in Observers THEN T!DetachStrong(t) ELSE UNCHANGED table
  BY DEF Panic, Goto
<1>2. /\ UNCHANGED <<rows, taken, result>>
      /\ position' \in [Observers -> Nat \cup {T!Detached}]
      /\ \A o \in Observers : o # t => position'[o] = position[o]
  <2>1. position \in [Observers -> Nat \cup {T!Detached}]
    BY DEF TypeOK
  <2>2. CASE t \in Observers
    BY <1>1, <2>1, <2>2 DEF T!DetachStrong
  <2>3. CASE t \notin Observers
    BY <1>1, <2>1, <2>3 DEF table
  <2> QED
    BY <2>2, <2>3
<1>3. CursorInv' /\ Onward(t) /\ running
  BY <1>1, <1>2 DEF CursorInv, locals, Onward, TypeOK, StartInv
<1>4. /\ "panicked" \in Labels /\ "panicked" # "ended" /\ pc[t] # "ended" /\ t \in Workers
      /\ UNCHANGED <<sent, count, running, n_completed>>
      /\ asleep' \subseteq Workers \cup {Main}
  BY <1>1 DEF TypeOK, state, locals, Labels
<1>5. /\ tracker' \in [Workers -> SUBSET Messages]
      /\ \A u \in Counting : tracker'[u] = tracker[u]
      /\ cursor' \in [WeakObservers -> Nat] /\ last' \in [WeakObservers -> Nat]
  BY <1>1 DEF TypeOK, locals
<1> HIDE DEF HarnessInv
<1>6. \A o \in Observers : "panicked" \in {"start", "work"} \/ o # t =>
      position'[o] = position[o]
  BY <1>2
<1>7. UNCHANGED <<rows, taken, sent, count, running, n_completed>> /\ result' = result
  BY <1>2, <1>4
<1> QED
  BY <1>1, <1>2, <1>3, <1>4, <1>5, <1>6, <1>7, WorkerFrame

LEMMA LeaveKeeps ==
  ASSUME HarnessInv, NEW t \in Receivers, Leave(t) PROVE HarnessInv'
<1> USE Roles DEF HarnessInv
<1>1. /\ pc[t] = "leave" /\ pc' = [pc EXCEPT ![t] = "complete"]
      /\ UNCHANGED <<state, locals>>
      /\ IF t \in Observers THEN T!DetachStrong(t) ELSE UNCHANGED table
  BY DEF Leave, Goto
<1>2. /\ UNCHANGED <<rows, taken, result>>
      /\ position' \in [Observers -> Nat \cup {T!Detached}]
      /\ \A o \in Observers : o # t => position'[o] = position[o]
  <2>1. position \in [Observers -> Nat \cup {T!Detached}]
    BY DEF TypeOK
  <2>2. CASE t \in Observers
    BY <1>1, <2>1, <2>2 DEF T!DetachStrong
  <2>3. CASE t \notin Observers
    BY <1>1, <2>1, <2>3 DEF table
  <2> QED
    BY <2>2, <2>3
<1>3. CursorInv' /\ Onward(t) /\ running
  BY <1>1, <1>2 DEF CursorInv, locals, Onward, TypeOK, StartInv
<1>4. /\ "complete" \in Labels /\ "complete" # "ended" /\ pc[t] # "ended" /\ t \in Workers
      /\ UNCHANGED <<sent, count, running, n_completed>>
      /\ asleep' \subseteq Workers \cup {Main}
  BY <1>1 DEF TypeOK, state, locals, Labels
<1>5. /\ tracker' \in [Workers -> SUBSET Messages]
      /\ \A u \in Counting : tracker'[u] = tracker[u]
      /\ cursor' \in [WeakObservers -> Nat] /\ last' \in [WeakObservers -> Nat]
  BY <1>1 DEF TypeOK, locals
<1> HIDE DEF HarnessInv
<1>6. \A o \in Observers : "complete" \in {"start", "work"} \/ o # t =>
      position'[o] = position[o]
  BY <1>2
<1>7. UNCHANGED <<rows, taken, sent, count, running, n_completed>> /\ result' = result
  BY <1>2, <1>4
<1> QED
  BY <1>1, <1>2, <1>3, <1>4, <1>5, <1>6, <1>7, WorkerFrame

(* A weak observer's cursors are those of rows, and rows stay.             *)
LEMMA WeakKeeps ==
  ASSUME HarnessInv, NEW w \in WeakObservers, Weak(w) PROVE HarnessInv'
<1> USE Roles DEF HarnessInv
<1>1. /\ RecentCursor \in Nat /\ OldestCursor \in Nat
      /\ RecentCursor = 0 \/ RecentCursor < rows
  BY StressAssumption DEF RecentCursor, OldestCursor, TypeOK
<1>2. /\ pc[w] \in {"work", "first", "last", "observe"}
      /\ \E l \in Labels \ {"ended"} : pc' = [pc EXCEPT ![w] = l]
      /\ UNCHANGED <<table, state, sent, count>>
  <2>1. pc = [pc EXCEPT ![w] = pc[w]]
    BY DEF TypeOK
  <2>2. CASE WeakTest(w)
    BY <2>2 DEF WeakTest, Goto, Labels, locals
  <2>3. CASE WeakFirst(w)
    BY <2>3 DEF WeakFirst, Goto, Labels
  <2>4. CASE WeakLast(w)
    BY <2>4 DEF WeakLast, Goto, Labels
  <2>5. CASE WeakObserve(w)
    <3>1. pc[w] \in Labels \ {"ended"}
      BY <2>5 DEF WeakObserve, Labels
    <3> QED
      BY <2>1, <2>5, <3>1 DEF WeakObserve, Goto, Labels
  <2> QED
    BY <2>2, <2>3, <2>4, <2>5 DEF Weak
<1>3. /\ tracker' \in [Workers -> SUBSET Messages]
      /\ \A u \in Counting : tracker'[u] = tracker[u]
  <2>1. CASE tracker' = tracker
    BY <2>1 DEF TypeOK
  <2>2. CASE tracker' # tracker
    <3>1. cursor[w] < rows /\ Update(w, {sent[cursor[w] + 1]})
      BY <2>2 DEF Weak, WeakTest, WeakFirst, WeakLast, WeakObserve, locals
    <3>2. sent[cursor[w] + 1] \in Messages
      <4>1. cursor[w] + 1 \in 1 .. Len(sent)
        BY <3>1 DEF TypeOK, SentInv
      <4> QED
        BY <4>1 DEF TypeOK
    <3>3. SymDiff(tracker[w], {sent[cursor[w] + 1]}) \in SUBSET Messages
      BY <3>2 DEF SymDiff, TypeOK
    <3> QED
      BY <3>1, <3>3 DEF Update, TypeOK
  <2> QED
    BY <2>1, <2>2
<1>4. /\ cursor' \in [WeakObservers -> Nat] /\ last' \in [WeakObservers -> Nat]
      /\ CursorInv'
  <2>1. cursor' = cursor \/ cursor' = [cursor EXCEPT ![w] = OldestCursor]
          \/ cursor' = [cursor EXCEPT ![w] = @ + 1]
    BY DEF Weak, WeakTest, WeakFirst, WeakLast, WeakObserve, locals
  <2>2. last' = last \/ last' = [last EXCEPT ![w] = RecentCursor]
    BY DEF Weak, WeakTest, WeakFirst, WeakLast, WeakObserve, locals
  <2>3. cursor \in [WeakObservers -> Nat] /\ last \in [WeakObservers -> Nat]
        /\ rows' = rows
    BY <1>2 DEF TypeOK, table
  <2>4. cursor' \in [WeakObservers -> Nat]
    BY <1>1, <2>1, <2>3
  <2>5. last' \in [WeakObservers -> Nat] /\ CursorInv'
    BY <1>1, <2>2, <2>3 DEF CursorInv
  <2> QED
    BY <2>4, <2>5
<1>5. running
  BY <1>2 DEF StartInv
<1>6. PICK l \in Labels \ {"ended"} : pc' = [pc EXCEPT ![w] = l]
  BY <1>2
<1> QED
  BY <1>2, <1>3, <1>4, <1>5, <1>6, WorkerFrame DEF TypeOK, table, state

LEMMA WakeKeeps ==
  ASSUME HarnessInv, NEW t \in Workers \cup {Main}, Wake(t) PROVE HarnessInv'
<1> USE Roles DEF HarnessInv
<1>1. /\ asleep' = asleep \ {t} /\ UNCHANGED <<table, locals, pc, running, n_completed>>
  BY DEF Wake, S!SpuriousWake
<1>2. TypeOK'
  BY <1>1 DEF TypeOK, table, locals
<1>3. EndInv'
  BY <1>1, EndFrame
<1>4. StartInv' /\ CursorInv'
  BY <1>1 DEF StartInv, CursorInv, table, locals
<1>5. \A u \in Counting : Onward(u)
  BY <1>1 DEF Onward
<1> QED
  BY <1>1, <1>2, <1>3, <1>4, <1>5, QuietFrame DEF table, locals

LEMMA CompleteKeeps ==
  ASSUME HarnessInv, NEW t \in Workers, Complete(t) PROVE HarnessInv'
<1> USE Roles DEF HarnessInv
<1>1. /\ pc[t] = "complete" /\ pc' = [pc EXCEPT ![t] = "ended"]
      /\ n_completed' = n_completed + 1 /\ asleep' = {} /\ running' = running
      /\ UNCHANGED <<table, locals>>
  BY DEF Complete, S!Complete, Goto
<1>2. pc'[t] = "ended" /\ \A u \in Workers \cup {Main} : u # t => pc'[u] = pc[u]
  BY <1>1 DEF TypeOK
<1>3. TypeOK'
  BY <1>1, <1>2 DEF TypeOK, table, locals, Labels
<1>4. EndInv'
  <2>1. Ended' = Ended \cup {t} /\ t \notin Ended
    BY <1>1, <1>2 DEF Ended
  <2>2. Cardinality(Ended') = Cardinality(Ended) + 1
    BY <2>1, EndedFinite, FS_AddElement
  <2>3. pc'[Main] = pc[Main]
    BY <1>2
  <2> QED
    BY <1>1, <2>1, <2>2, <2>3 DEF EndInv
<1>5. StartInv' /\ CursorInv'
  BY <1>1, <1>2 DEF StartInv, CursorInv, table, locals
<1>6. \A u \in Counting : Onward(u)
  BY <1>1, <1>2 DEF Onward
<1>7. \A o \in Observers : pc'[o] \in {"start", "work"} => position'[o] = position[o]
  BY <1>1 DEF table
<1> QED
  BY <1>1, <1>3, <1>4, <1>5, <1>6, <1>7, QuietFrame DEF table, locals

(***************************************************************************)
(* How much was sent and taken, by the shares that are done.               *)
(***************************************************************************)

(* The messages sent are as many as the pairs of a producer and a number   *)
(* it has counted: all when the producers have done their shares, fewer    *)
(* before.                                                                 *)
LEMMA SentCount ==
  ASSUME HarnessInv, \A p \in Producers : count[p] <= Share(Producers)
  PROVE  /\ rows <= NMessages
         /\ rows = NMessages <=> \A p \in Producers : count[p] = Share(Producers)
<1> USE Roles DEF HarnessInv
<1> DEFINE q == Share(Producers)
           D == Producers \X (0 .. q - 1)
           P == {z \in D : z[2] < count[z[1]]}
           f == [z \in P |-> Message(z[1], z[2])]
           R == {sent[i] : i \in 1 .. rows}
<1>1. /\ q \in Nat \ {0} /\ IsFiniteSet(Producers) /\ Cardinality(Producers) \in Nat \ {0}
      /\ Cardinality(Producers) * q = NMessages
  BY Shares
<1>2. \A p \in Producers : count[p] \in Nat /\ count[p] <= q
  BY DEF TypeOK
<1>3. /\ rows \in Nat
      /\ \A i \in 1 .. rows : sent[i] \in Messages /\ sent[i].x < count[sent[i].src]
      /\ \A p \in Producers, k \in Nat : k < count[p] => Message(p, k) \in R
      /\ \A i, j \in 1 .. rows : sent[i] = sent[j] => i = j
  <2>1. \A i \in 1 .. rows : sent[i] \in Messages
    BY DEF TypeOK, SentInv
  <2> QED
    BY <2>1 DEF SentInv, TypeOK
<1> HIDE DEF q
<1>4. f \in Bijection(P, R)
  <2>1. ASSUME NEW z \in P PROVE f[z] \in R
    BY <1>3
  <2>2. ASSUME NEW y \in P, NEW z \in P, f[y] = f[z] PROVE y = z
    <3>1. Message(y[1], y[2]) = Message(z[1], z[2])
      BY <2>2
    <3> QED
      BY <3>1 DEF Message
  <2>3. ASSUME NEW v \in R PROVE \E z \in P : f[z] = v
    <3>1. v \in Messages /\ v.x < count[v.src]
      BY <1>3
    <3>2. v.src \in Producers /\ v.x \in Nat /\ Message(v.src, v.x) = v
      BY <3>1 DEF Messages, Message
    <3>3. v.x \in 0 .. q - 1
      BY <1>1, <1>2, <3>1, <3>2
    <3>4. <<v.src, v.x>> \in P
      BY <3>1, <3>2, <3>3
    <3> QED
      BY <3>2, <3>4
  <2> HIDE DEF f, P, R
  <2>4. f \in [P -> R]
    BY <2>1 DEF f
  <2> QED
    BY <2>2, <2>3, <2>4 DEF Bijection, Injection, IsInjective, Surjection
<1>5. IsFiniteSet(D) /\ Cardinality(D) = NMessages
  <2>1. IsFiniteSet(0 .. q - 1) /\ Cardinality(0 .. q - 1) = q
    <3>1. 0 \in Int /\ q - 1 \in Int /\ ~(0 > q - 1) /\ (q - 1) - 0 + 1 = q
      BY <1>1
    <3> QED
      BY <3>1, FS_Interval
  <2> QED
    BY <1>1, <2>1, FS_Product
<1>6. /\ IsFiniteSet(P) /\ Cardinality(P) <= Cardinality(D)
      /\ Cardinality(P) = Cardinality(D) => P = D
  <2>1. P \subseteq D
    OBVIOUS
  <2> HIDE DEF P, D
  <2> QED
    BY <1>5, <2>1, FS_Subset
<1>7. Cardinality(R) = Cardinality(P)
  <2> HIDE DEF f, P, R
  <2> QED
    BY <1>4, <1>6, FS_Bijection DEF ExistsBijection
<1>8. Cardinality(R) = rows
  <2> DEFINE g == [i \in 1 .. rows |-> sent[i]]
  <2>1. g \in Bijection(1 .. rows, R)
    BY <1>3 DEF Bijection, Injection, IsInjective, Surjection
  <2> HIDE DEF g, R
  <2> QED
    BY <1>3, <2>1, FS_CountingElements DEF ExistsBijection
<1>9. P = D <=> \A p \in Producers : count[p] = q
  <2>1. ASSUME P = D, NEW p \in Producers PROVE count[p] = q
    <3>1. <<p, q - 1>> \in D
      BY <1>1
    <3>2. q - 1 < count[p]
      BY <2>1, <3>1
    <3> QED
      BY <1>1, <1>2, <3>2
  <2>2. ASSUME \A p \in Producers : count[p] = q PROVE P = D
    BY <1>1, <2>2
  <2> QED
    BY <2>1, <2>2
<1> HIDE DEF P, D, R
<1> QED
  BY <1>5, <1>6, <1>7, <1>8, <1>9 DEF q

(* And those taken as the pairs of a consumer and a number.                *)
LEMMA TakenCount ==
  ASSUME HarnessInv, \A c \in Consumers : count[c] <= Share(Consumers)
  PROVE  /\ taken <= NMessages
         /\ taken = NMessages <=> \A c \in Consumers : count[c] = Share(Consumers)
<1> USE Roles DEF HarnessInv
<1> DEFINE q == Share(Consumers)
           D == Consumers \X (1 .. q)
           P == {z \in D : z[2] <= count[z[1]]}
           b == [c \in Consumers |->
                   CHOOSE g : g \in Bijection(1 .. count[c], tracker[c])]
           f == [z \in P |-> b[z[1]][z[2]]]
           R == FirstSent(taken)
<1>1. /\ q \in Nat \ {0} /\ IsFiniteSet(Consumers) /\ Cardinality(Consumers) \in Nat \ {0}
      /\ Cardinality(Consumers) * q = NMessages
  BY Shares
<1>2. \A c \in Consumers :
        /\ count[c] \in Nat /\ count[c] <= q
        /\ IsFiniteSet(tracker[c]) /\ Cardinality(tracker[c]) = count[c]
  BY DEF TypeOK, ConsumedInv
<1> HIDE DEF q
<1>3. \A c \in Consumers : b[c] \in Bijection(1 .. count[c], tracker[c])
  <2> SUFFICES ASSUME NEW c \in Consumers
               PROVE  \E g : g \in Bijection(1 .. count[c], tracker[c])
    OBVIOUS
  <2> QED
    BY <1>2, FS_CardinalityType DEF ExistsBijection
<1>4. \A c \in Consumers :
        /\ \A k \in 1 .. count[c] : b[c][k] \in tracker[c]
        /\ \A k, m \in 1 .. count[c] : b[c][k] = b[c][m] => k = m
        /\ \A v \in tracker[c] : \E k \in 1 .. count[c] : b[c][k] = v
  <2>1. ASSUME NEW n, NEW U, NEW g \in Bijection(1 .. n, U)
        PROVE  /\ \A k \in 1 .. n : g[k] \in U
               /\ \A k, m \in 1 .. n : g[k] = g[m] => k = m
               /\ \A v \in U : \E k \in 1 .. n : g[k] = v
    BY DEF Bijection, Injection, IsInjective, Surjection
  <2> HIDE DEF b
  <2> QED
    BY <1>3, <2>1
<1> HIDE DEF b
<1>5. f \in Bijection(P, R)
  <2>0. /\ R = UNION {tracker[c] : c \in Consumers}
        /\ \A c, d \in Consumers : c # d => tracker[c] \cap tracker[d] = {}
    BY DEF ConsumedInv
  <2> HIDE DEF R
  <2>1. ASSUME NEW z \in P
        PROVE  /\ z[1] \in Consumers /\ z[2] \in 1 .. count[z[1]]
               /\ z = <<z[1], z[2]>> /\ f[z] = b[z[1]][z[2]]
               /\ f[z] \in R /\ f[z] \in tracker[z[1]]
    <3>1. /\ z[1] \in Consumers /\ z[2] \in 1 .. q /\ z[2] <= count[z[1]]
          /\ z = <<z[1], z[2]>> /\ f[z] = b[z[1]][z[2]]
      OBVIOUS
    <3>2. z[2] \in 1 .. count[z[1]]
      BY <1>1, <1>2, <3>1
    <3>3. f[z] \in tracker[z[1]]
      BY <1>4, <3>1, <3>2
    <3> QED
      BY <2>0, <3>1, <3>2, <3>3
  <2>2. ASSUME NEW y \in P, NEW z \in P, f[y] = f[z] PROVE y = z
    <3>1. y[1] = z[1]
      BY <2>0, <2>1, <2>2
    <3>2. y[2] = z[2]
      BY <1>4, <2>1, <2>2, <3>1
    <3> QED
      BY <2>1, <3>1, <3>2
  <2>3. ASSUME NEW v \in R PROVE \E z \in P : f[z] = v
    <3>1. PICK c \in Consumers : v \in tracker[c]
      BY <2>0
    <3>2. PICK k \in 1 .. count[c] : b[c][k] = v
      BY <1>4, <3>1
    <3>3. k \in 1 .. q /\ k <= count[c]
      BY <1>1, <1>2, <3>2
    <3>4. <<c, k>> \in P
      BY <3>3
    <3> QED
      BY <3>2, <3>4
  <2>4. f \in [P -> R]
    BY <2>1
  <2> HIDE DEF f, P
  <2> QED
    BY <2>2, <2>3, <2>4 DEF Bijection, Injection, IsInjective, Surjection
<1>6. IsFiniteSet(D) /\ Cardinality(D) = NMessages
  <2>1. IsFiniteSet(1 .. q) /\ Cardinality(1 .. q) = q
    <3>1. 1 \in Int /\ q \in Int /\ ~(1 > q) /\ q - 1 + 1 = q
      BY <1>1
    <3> QED
      BY <3>1, FS_Interval
  <2> QED
    BY <1>1, <2>1, FS_Product
<1>7. /\ IsFiniteSet(P) /\ Cardinality(P) <= Cardinality(D)
      /\ Cardinality(P) = Cardinality(D) => P = D
  <2>1. P \subseteq D
    OBVIOUS
  <2> HIDE DEF P, D
  <2> QED
    BY <1>6, <2>1, FS_Subset
<1>8. Cardinality(R) = Cardinality(P)
  <2> HIDE DEF f, P, R
  <2> QED
    BY <1>5, <1>7, FS_Bijection DEF ExistsBijection
<1>9. Cardinality(R) = taken
  <2>1. /\ taken \in Nat /\ R = {sent[i] : i \in 1 .. taken}
        /\ \A i, j \in 1 .. taken : sent[i] = sent[j] => i = j
    BY DEF TypeOK, ConsumedInv, SentInv, FirstSent
  <2> DEFINE g == [i \in 1 .. taken |-> sent[i]]
  <2> HIDE DEF R
  <2>2. g \in Bijection(1 .. taken, R)
    BY <2>1 DEF Bijection, Injection, IsInjective, Surjection
  <2> HIDE DEF g
  <2> QED
    BY <2>1, <2>2, FS_CountingElements DEF ExistsBijection
<1>10. P = D <=> \A c \in Consumers : count[c] = q
  <2>1. ASSUME P = D, NEW c \in Consumers PROVE count[c] = q
    <3>1. <<c, q>> \in D
      BY <1>1
    <3>2. q <= count[c]
      BY <2>1, <3>1
    <3> QED
      BY <1>1, <1>2, <3>2
  <2>2. ASSUME \A c \in Consumers : count[c] = q PROVE P = D
    BY <1>1, <2>2
  <2> QED
    BY <2>1, <2>2
<1> HIDE DEF P, D, R
<1> QED
  BY <1>6, <1>7, <1>8, <1>9, <1>10 DEF q

(* In the end all messages were sent and taken.                            *)
LEMMA AllSentAndTaken ==
  ASSUME HarnessInv, Ended = Workers
  PROVE  rows = NMessages /\ taken = NMessages
<1>1. /\ \A p \in Producers : count[p] = Share(Producers)
      /\ \A c \in Consumers : count[c] = Share(Consumers)
  BY Roles, LimitType DEF HarnessInv, Ended, CountInv
<1>2. Share(Producers) \in Nat /\ Share(Consumers) \in Nat
  BY Shares
<1> QED
  BY <1>1, <1>2, SentCount, TakenCount

(* The xor of trackers that have nothing in common is all they have.       *)
LEMMA CombinedDisjoint ==
  ASSUME NEW threads, \A t, u \in threads : t # u => tracker[t] \cap tracker[u] = {}
  PROVE  Combined(threads) = UNION {tracker[t] : t \in threads}
<1> SUFFICES ASSUME NEW t \in threads, NEW v \in tracker[t]
             PROVE  Cardinality({u \in threads : v \in tracker[u]}) % 2 = 1
  BY DEF Combined
<1>1. {u \in threads : v \in tracker[u]} = {t}
  OBVIOUS
<1>2. Cardinality({t}) = 1
  BY FS_Singleton
<1>3. Cardinality({u \in threads : v \in tracker[u]}) = 1
  BY <1>1, <1>2
<1> QED
  BY <1>3

(* In the end the trackers agree.                                          *)
LEMMA TrackersAgree ==
  ASSUME HarnessInv, Ended = Workers
  PROVE  /\ Combined(Producers) = Combined(Consumers)
         /\ \A o \in Observers : Combined(Producers) = tracker[o]
<1> USE Roles DEF HarnessInv
<1>1. rows = NMessages /\ taken = NMessages
  BY AllSentAndTaken
<1>2. UNION {tracker[p] : p \in Producers} = FirstSent(rows)
  <2>1. \A p \in Producers : tracker[p] = {v \in Messages : v.src = p /\ v.x < count[p]}
    BY DEF TrackerInv
  <2>2. ASSUME NEW v \in FirstSent(rows)
        PROVE  \E p \in Producers : v \in tracker[p]
    <3>1. PICK i \in 1 .. rows : v = sent[i]
      BY DEF FirstSent
    <3>2. v \in Messages /\ v.x < count[v.src]
      BY <3>1 DEF TypeOK, SentInv
    <3> QED
      BY <2>1, <3>2 DEF Messages
  <2>3. ASSUME NEW p \in Producers, NEW v \in tracker[p]
        PROVE  v \in FirstSent(rows)
    <3>1. v \in Messages /\ v.src = p /\ v.x < count[p]
      BY <2>1, <2>3
    <3>2. v = Message(p, v.x) /\ v.x \in Nat
      BY <3>1 DEF Messages, Message
    <3>3. PICK i \in 1 .. rows : sent[i] = Message(p, v.x)
      BY <3>1, <3>2 DEF SentInv
    <3> QED
      BY <3>2, <3>3 DEF FirstSent
  <2> QED
    BY <2>2, <2>3
<1>3. \A t, u \in Producers : t # u => tracker[t] \cap tracker[u] = {}
  BY DEF TrackerInv
<1>4. Combined(Producers) = FirstSent(NMessages)
  BY <1>1, <1>2, <1>3, CombinedDisjoint
<1>5. Combined(Consumers) = FirstSent(NMessages)
  BY <1>1, CombinedDisjoint DEF ConsumedInv
<1>6. \A o \in Observers : tracker[o] = FirstSent(NMessages)
  BY LimitType DEF Ended, CountInv, TrackerInv
<1> QED
  BY <1>4, <1>5, <1>6

(* The main thread goes on to compare when every worker has completed.     *)
LEMMA MainKeeps ==
  ASSUME HarnessInv, MainStep PROVE HarnessInv'
<1> USE Roles DEF HarnessInv
<1>1. /\ UNCHANGED <<table, locals>> /\ n_completed' = n_completed
      /\ asleep' \subseteq Workers \cup {Main}
      /\ \/ /\ pc[Main] = "trigger" /\ running' = TRUE
            /\ pc' = [pc EXCEPT ![Main] = "wait"]
         \/ /\ pc[Main] = "wait" /\ running' = running
            /\ \/ pc' = [pc EXCEPT ![Main] = "wait"]
               \/ S!AllCompleted /\ pc' = [pc EXCEPT ![Main] = "join"]
         \/ /\ pc[Main] = "join" /\ running' = running
            /\ pc' = [pc EXCEPT ![Main] = "done"]
  <2>1. CASE Trigger
    BY <2>1 DEF Trigger, S!TriggerStart, Goto
  <2>2. CASE Measure
    <3>1. pc[Main] = "wait" => pc = [pc EXCEPT ![Main] = "wait"]
      BY DEF TypeOK
    <3>2. /\ pc[Main] = "wait" /\ UNCHANGED <<table, locals, running, n_completed>>
          /\ asleep' = asleep \/ asleep' = asleep \cup {Main}
          /\ IF S!AllCompleted THEN pc' = [pc EXCEPT ![Main] = "join"] ELSE pc' = pc
      BY <2>2 DEF Measure, S!WaitForComplete, Goto
    <3>3. asleep' \subseteq Workers \cup {Main}
      BY <3>2 DEF TypeOK
    <3>4. UNCHANGED <<table, locals>> /\ running' = running /\ n_completed' = n_completed
      BY <3>2
    <3>5. \/ pc' = [pc EXCEPT ![Main] = "wait"]
          \/ S!AllCompleted /\ pc' = [pc EXCEPT ![Main] = "join"]
      BY <3>1, <3>2
    <3> QED
      BY <3>2, <3>3, <3>4, <3>5
  <2>3. CASE Join
    <3>1. pc[Main] = "join" /\ Ended = Workers
      BY <2>3 DEF Join, EndInv
    <3>2. \A t \in Workers : pc[t] = "ended"
      BY <3>1 DEF Ended
    <3>3. pc' = [pc EXCEPT ![Main] = "done"]
      BY <2>3, <3>1, <3>2, TrackersAgree DEF Join, Goto
    <3> QED
      BY <2>3, <3>1, <3>3 DEF Join, state, TypeOK
  <2> QED
    BY <2>1, <2>2, <2>3 DEF MainStep
<1>2. /\ \A t \in Workers : pc'[t] = pc[t]
      /\ pc' \in [Workers \cup {Main} -> Labels \cup MainLabels]
      /\ pc'[Main] \in {"wait", "join", "done"} /\ running' = TRUE
      /\ pc'[Main] = "join" => S!AllCompleted
      /\ pc'[Main] = "done" => pc[Main] = "join"
  BY <1>1 DEF TypeOK, MainLabels, StartInv
<1>3. TypeOK'
  BY <1>1, <1>2 DEF TypeOK, table, locals, MainLabels
<1>4. StartInv' /\ CursorInv'
  BY <1>1, <1>2 DEF StartInv, CursorInv, table, locals
<1>5. EndInv'
  <2>1. Ended' = Ended
    BY <1>2 DEF Ended
  <2>2. ASSUME S!AllCompleted PROVE Ended = Workers
    <3>1. Cardinality(Ended) >= Cardinality(Workers)
      BY <2>2 DEF S!AllCompleted, Expected, EndInv
    <3>2. Cardinality(Ended) \in Nat /\ Cardinality(Workers) \in Nat
      BY EndedFinite, StressAssumption, FS_CardinalityType
    <3>3. Cardinality(Ended) <= Cardinality(Workers)
      BY EndedFinite, StressAssumption, FS_Subset
    <3>4. Cardinality(Ended) = Cardinality(Workers)
      BY <3>1, <3>2, <3>3
    <3> QED
      BY <3>4, EndedFinite, StressAssumption, FS_Subset
  <2> QED
    BY <1>1, <1>2, <2>1, <2>2 DEF EndInv
<1>6. \A u \in Counting : Onward(u)
  BY <1>2 DEF Onward
<1> QED
  BY <1>1, <1>3, <1>4, <1>5, <1>6, QuietFrame DEF table, locals

(***************************************************************************)
(* The steps of producers and receivers.                                   *)
(***************************************************************************)

(* A worker tracks one more message and has counted it; after the last one *)
(* of its share it leaves the loop.                                        *)
LEMMA CountStep ==
  ASSUME HarnessInv, NEW t \in Counting, pc[t] = "work",
         NEW X \in SUBSET Messages, tracker' = [tracker EXCEPT ![t] = X],
         count' = [count EXCEPT ![t] = @ + 1],
         NEW l \in {"leave", "complete"},
         pc' = [pc EXCEPT ![t] = IF count[t] + 1 >= Limit(t) THEN l ELSE "work"],
         UNCHANGED <<running, n_completed, asleep, cursor, last>>,
         rows' \in Nat, rows <= rows', taken' \in Nat, sent' \in Seq(Messages),
         position' \in [Observers -> Nat \cup {T!Detached}],
         \A o \in Observers : o # t => position'[o] = position[o],
         t \in Observers => position'[t] = count[t] + 1,
         result' \in [Receivers \cup WeakObservers -> [lo : Int, hi : Int]]
  PROVE  /\ TypeOK' /\ CountInv' /\ StartInv' /\ EndInv' /\ CursorInv'
         /\ count'[t] = count[t] + 1 /\ tracker'[t] = X
         /\ \A u \in Workers : u # t => count'[u] = count[u] /\ tracker'[u] = tracker[u]
<1> USE Roles DEF HarnessInv
<1>1. /\ count[t] \in Nat /\ count'[t] = count[t] + 1 /\ tracker'[t] = X
      /\ \A u \in Workers : u # t => count'[u] = count[u] /\ tracker'[u] = tracker[u]
  BY DEF TypeOK
<1>2. /\ pc'[t] = (IF count[t] + 1 >= Limit(t) THEN l ELSE "work")
      /\ \A u \in Workers \cup {Main} : u # t => pc'[u] = pc[u]
  BY DEF TypeOK
<1>3. TypeOK'
  <2>1. count' \in [Workers -> Nat] /\ tracker' \in [Workers -> SUBSET Messages]
    BY <1>1 DEF TypeOK
  <2>2. /\ pc' \in [Workers \cup {Main} -> Labels \cup MainLabels]
        /\ \A u \in Workers : pc'[u] \in Labels
        /\ pc'[Main] \in MainLabels
    BY <1>2 DEF TypeOK, Labels
  <2>3. /\ running' \in BOOLEAN /\ n_completed' \in Nat
        /\ asleep' \subseteq Workers \cup {Main}
        /\ cursor' \in [WeakObservers -> Nat] /\ last' \in [WeakObservers -> Nat]
    BY DEF TypeOK
  <2> QED
    BY <2>1, <2>2, <2>3 DEF TypeOK
<1>4. CountInv'
  <2>1. ASSUME NEW u \in Counting
        PROVE  /\ pc'[u] \in {"start", "work"} => count'[u] < Limit(u)
               /\ pc'[u] \in {"leave", "complete", "ended"} => count'[u] = Limit(u)
    <3>1. CASE u = t
      <4>1. count[t] < Limit(t) /\ Limit(t) \in Nat
        BY LimitType DEF CountInv
      <4> QED
        BY <1>1, <1>2, <3>1, <4>1
    <3>2. CASE u # t
      BY <1>1, <1>2, <3>2 DEF CountInv
    <3> QED
      BY <3>1, <3>2
  <2>2. ASSUME NEW o \in Observers, pc'[o] \in {"start", "work"}
        PROVE  position'[o] = count'[o]
    BY <1>1, <1>2, <2>2 DEF CountInv
  <2>3. \A u : Limit(u)' = Limit(u)
    BY DEF Limit, Share, Quota
  <2> QED
    BY <2>1, <2>2, <2>3 DEF CountInv
<1>5. StartInv'
  BY <1>2 DEF StartInv
<1>6. EndInv'
  <2>1. \A u \in Workers : pc'[u] = "ended" <=> pc[u] = "ended"
    BY <1>2
  <2> QED
    BY <1>2, <2>1, EndFrame
<1>7. CursorInv'
  BY DEF CursorInv, TypeOK
<1> QED
  BY <1>1, <1>3, <1>4, <1>5, <1>6, <1>7

LEMMA ProduceKeeps ==
  ASSUME HarnessInv, NEW p \in Producers, Produce(p) PROVE HarnessInv'
<1> USE Roles DEF HarnessInv
<1> DEFINE v == Message(p, count[p])
<1>1. /\ pc[p] = "work" /\ rows' = rows + 1 /\ UNCHANGED <<taken, position, result>>
      /\ sent' = Append(sent, v)
      /\ tracker' = [tracker EXCEPT ![p] = SymDiff(@, {v})]
      /\ count' = [count EXCEPT ![p] = @ + 1]
      /\ pc' = [pc EXCEPT ![p] =
                  IF count'[p] = Share(Producers) THEN "complete" ELSE "work"]
      /\ UNCHANGED <<state, cursor, last>>
  BY DEF Produce, T!Put, Update, Goto, Message
<1>2. rows \in Nat /\ count[p] \in Nat /\ v \in Messages /\ v.src = p /\ v.x = count[p]
      /\ sent \in Seq(Messages) /\ Len(sent) = rows
  BY DEF TypeOK, Messages, Message, SentInv
<1>3. SymDiff(tracker[p], {v}) = {m \in Messages : m.src = p /\ m.x < count[p] + 1}
  <2> HIDE DEF v
  <2>1. tracker[p] = {m \in Messages : m.src = p /\ m.x < count[p]}
    BY DEF TrackerInv
  <2>2. \A m \in Messages : m.src = p /\ m.x = count[p] => m = v
    BY <1>2 DEF Messages
  <2>3. \A m \in Messages : m.x < count[p] + 1 <=> m.x < count[p] \/ m.x = count[p]
    BY <1>2 DEF Messages
  <2>4. v \notin tracker[p]
    BY <1>2, <2>1
  <2>5. SymDiff(tracker[p], {v}) = tracker[p] \cup {v}
    BY <2>4 DEF SymDiff
  <2> QED
    BY <1>2, <2>1, <2>2, <2>3, <2>5
<1> HIDE DEF v
<1>4. /\ Len(sent') = rows' /\ sent' \in Seq(Messages) /\ rows' \in Nat
      /\ sent'[rows'] = v /\ \A i \in 1 .. rows : sent'[i] = sent[i]
      /\ \A i : i \in 1 .. rows' <=> i \in 1 .. rows \/ i = rows'
  BY <1>1, <1>2
<1>5. /\ TypeOK' /\ CountInv' /\ StartInv' /\ EndInv' /\ CursorInv'
      /\ count'[p] = count[p] + 1 /\ tracker'[p] = SymDiff(tracker[p], {v})
      /\ \A u \in Workers : u # p => count'[u] = count[u] /\ tracker'[u] = tracker[u]
  <2>1. SymDiff(tracker[p], {v}) \in SUBSET Messages
    BY <1>3
  <2>2. count[p] < Limit(p) /\ Limit(p) = Share(Producers) /\ Limit(p) \in Nat
    BY <1>1, LimitType DEF CountInv
  <2>3. pc' = [pc EXCEPT ![p] = IF count[p] + 1 >= Limit(p) THEN "complete" ELSE "work"]
    <3>1. count'[p] = count[p] + 1
      BY <1>1 DEF TypeOK
    <3>2. count'[p] = Share(Producers) <=> count[p] + 1 >= Limit(p)
      BY <1>2, <2>2, <3>1
    <3> QED
      BY <1>1, <3>2
  <2>4. UNCHANGED <<running, n_completed, asleep, cursor, last>>
    BY <1>1 DEF state
  <2>5. /\ position' \in [Observers -> Nat \cup {T!Detached}] /\ position' = position
        /\ taken' \in Nat /\ rows <= rows'
        /\ result' \in [Receivers \cup WeakObservers -> [lo : Int, hi : Int]]
    BY <1>1, <1>2 DEF TypeOK
  <2>6. tracker' = [tracker EXCEPT ![p] = SymDiff(tracker[p], {v})]
    BY <1>1
  <2>7. p \notin Observers /\ p \in Counting
    OBVIOUS
  <2> HIDE DEF HarnessInv
  <2> QED
    BY <1>1, <1>4, <2>1, <2>3, <2>4, <2>5, <2>6, <2>7, CountStep
<1>6. \A u \in Producers : count[u] \in Nat /\ count'[u] \in Nat
  BY <1>5 DEF TypeOK
<1>7. \A i \in 1 .. rows : sent[i] \in Messages /\ sent[i].src \in Producers
  <2>1. \A i \in 1 .. rows : sent[i] \in Messages
    BY <1>2
  <2> QED
    BY <2>1 DEF Messages
<1>8. SentInv'
  <2>1. \A i \in 1 .. rows' : sent'[i].x < count'[sent'[i].src]
    <3>1. ASSUME NEW i \in 1 .. rows PROVE sent'[i].x < count'[sent'[i].src]
      <4>1. sent[i].x < count[sent[i].src] /\ sent[i].x \in Nat
        BY <1>7 DEF SentInv, Messages
      <4>2. count[sent[i].src] <= count'[sent[i].src]
        BY <1>5, <1>6, <1>7
      <4> QED
        BY <1>4, <1>6, <1>7, <4>1, <4>2
    <3>2. sent'[rows'].x < count'[sent'[rows'].src]
      BY <1>2, <1>4, <1>5
    <3> QED
      BY <1>4, <3>1, <3>2
  <2>2. ASSUME NEW u \in Producers, NEW k \in Nat, k < count'[u]
        PROVE  \E i \in 1 .. rows' : sent'[i] = Message(u, k)
    <3>1. CASE k < count[u]
      <4>1. PICK i \in 1 .. rows : sent[i] = Message(u, k)
        BY <3>1 DEF SentInv
      <4> QED
        BY <1>4, <4>1
    <3>2. CASE ~(k < count[u])
      <4>1. u = p /\ k = count[p]
        BY <1>2, <1>5, <2>2, <3>2
      <4>2. sent'[rows'] = Message(u, k)
        BY <1>4, <4>1 DEF v
      <4> QED
        BY <1>4, <4>2
    <3> QED
      BY <3>1, <3>2
  <2>3. \A i, j \in 1 .. rows' : sent'[i] = sent'[j] => i = j
    <3>1. \A i \in 1 .. rows : sent[i] # v
      BY <1>2, <1>7 DEF SentInv
    <3> QED
      BY <1>4, <3>1 DEF SentInv
  <2> QED
    BY <1>4, <2>1, <2>2, <2>3 DEF SentInv
<1>9. \A n \in Nat : n <= rows =>
        {sent'[i] : i \in 1 .. n} = {sent[i] : i \in 1 .. n}
  BY <1>2, <1>4
<1>10. TrackerInv'
  <2>1. \A u \in Producers : tracker'[u] = {m \in Messages : m.src = u /\ m.x < count'[u]}
    BY <1>3, <1>5 DEF TrackerInv
  <2>2. ASSUME NEW o \in Observers
        PROVE  count'[o] <= rows' /\ tracker'[o] = {sent'[i] : i \in 1 .. count'[o]}
    <3>1. /\ count[o] \in Nat /\ count[o] <= rows
          /\ tracker[o] = {sent[i] : i \in 1 .. count[o]}
      BY DEF TrackerInv, TypeOK, FirstSent
    <3>2. count'[o] = count[o] /\ tracker'[o] = tracker[o]
      BY <1>5
    <3> QED
      BY <1>1, <1>2, <1>9, <3>1, <3>2
  <2> QED
    BY <2>1, <2>2 DEF TrackerInv, FirstSent
<1>11. ConsumedInv'
  <2>1. \A c \in Consumers : tracker'[c] = tracker[c] /\ count'[c] = count[c]
    BY <1>5
  <2>2. FirstSent(taken)' = FirstSent(taken)
    BY <1>1, <1>9 DEF FirstSent, ConsumedInv, TypeOK
  <2>3. {tracker'[c] : c \in Consumers} = {tracker[c] : c \in Consumers}
    BY <2>1
  <2>4. taken' <= rows'
    BY <1>1, <1>2 DEF ConsumedInv, TypeOK
  <2> QED
    BY <2>1, <2>2, <2>3, <2>4 DEF ConsumedInv
<1> QED
  BY <1>5, <1>8, <1>10, <1>11

LEMMA TakeKeeps ==
  ASSUME HarnessInv, NEW c \in Consumers, Receive(c) PROVE HarnessInv'
<1> USE Roles DEF HarnessInv
<1> DEFINE v == sent[taken + 1]
<1>1. /\ pc[c] = "work" /\ taken < rows /\ taken' = taken + 1
      /\ result' = [result EXCEPT ![c] = [lo |-> taken, hi |-> taken]]
      /\ tracker' = [tracker EXCEPT ![c] = SymDiff(@, {sent[result'[c].lo + 1]})]
      /\ count' = [count EXCEPT ![c] = @ + 1]
      /\ pc' = [pc EXCEPT ![c] = IF count'[c] >= Quota(c) THEN "leave" ELSE "work"]
      /\ UNCHANGED <<rows, position, state, sent, cursor, last>>
  BY DEF Receive, T!Take, T!Row, Update, Goto
<1>2. /\ rows \in Nat /\ taken \in Nat /\ count[c] \in Nat
      /\ \A i \in 1 .. rows : sent[i] \in Messages
      /\ \A i \in 1 .. rows, j \in 1 .. rows : sent[i] = sent[j] => i = j
  <2>1. rows \in Nat /\ taken \in Nat /\ count[c] \in Nat /\ sent \in Seq(Messages)
    BY DEF TypeOK
  <2>2. Len(sent) = rows /\ \A i, j \in 1 .. rows : sent[i] = sent[j] => i = j
    BY DEF SentInv
  <2> QED
    BY <2>1, <2>2
<1>3. /\ taken + 1 \in 1 .. rows /\ v \in Messages
      /\ \A i \in 1 .. taken : i \in 1 .. rows /\ sent[i] # v
      /\ \A i : i \in 1 .. taken + 1 <=> i \in 1 .. taken \/ i = taken + 1
  BY <1>1, <1>2
<1>4. /\ result'[c].lo = taken
      /\ result' \in [Receivers \cup WeakObservers -> [lo : Int, hi : Int]]
  BY <1>1, <1>2 DEF TypeOK
<1> HIDE DEF v
<1>5. /\ UNION {tracker[d] : d \in Consumers} = FirstSent(taken)
      /\ \A d \in Consumers : v \notin tracker[d]
  <2>1. UNION {tracker[d] : d \in Consumers} = FirstSent(taken)
    BY DEF ConsumedInv
  <2>2. v \notin FirstSent(taken)
    BY <1>3 DEF FirstSent
  <2> QED
    BY <2>1, <2>2
<1>6. tracker' = [tracker EXCEPT ![c] = tracker[c] \cup {v}]
  <2>1. SymDiff(tracker[c], {v}) = tracker[c] \cup {v}
    BY <1>5 DEF SymDiff
  <2>2. sent[result'[c].lo + 1] = v
    BY <1>4 DEF v
  <2> QED
    BY <1>1, <2>1, <2>2
<1>7. /\ TypeOK' /\ CountInv' /\ StartInv' /\ EndInv' /\ CursorInv'
      /\ count'[c] = count[c] + 1 /\ tracker'[c] = tracker[c] \cup {v}
      /\ \A u \in Workers : u # c => count'[u] = count[u] /\ tracker'[u] = tracker[u]
  <2>1. tracker[c] \cup {v} \in SUBSET Messages
    BY <1>3 DEF TypeOK
  <2>2. pc' = [pc EXCEPT ![c] = IF count[c] + 1 >= Limit(c) THEN "leave" ELSE "work"]
    <3>1. count'[c] = count[c] + 1 /\ Limit(c) = Quota(c)
      BY <1>1 DEF TypeOK, Limit
    <3> QED
      BY <1>1, <3>1
  <2>3. UNCHANGED <<running, n_completed, asleep, cursor, last>>
    BY <1>1 DEF state
  <2>4. /\ position' \in [Observers -> Nat \cup {T!Detached}] /\ position' = position
        /\ taken' \in Nat /\ rows' \in Nat /\ rows <= rows' /\ sent' \in Seq(Messages)
    BY <1>1, <1>2 DEF TypeOK
  <2>5. c \notin Observers /\ c \in Counting
    OBVIOUS
  <2> HIDE DEF HarnessInv
  <2> QED
    BY <1>1, <1>4, <1>6, <2>1, <2>2, <2>3, <2>4, <2>5, CountStep
<1>8. SentInv'
  <2>1. \A p \in Producers : count'[p] = count[p]
    BY <1>7
  <2>2. \A i \in 1 .. rows : sent[i].src \in Producers
    BY <1>2 DEF Messages
  <2> QED
    BY <1>1, <2>1, <2>2 DEF SentInv
<1>9. TrackerInv'
  <2>1. \A u \in Producers \cup Observers : count'[u] = count[u] /\ tracker'[u] = tracker[u]
    BY <1>7
  <2> QED
    BY <1>1, <2>1 DEF TrackerInv, FirstSent
<1>10. ConsumedInv'
  <2>1. \A d \in Consumers : d # c => tracker'[d] = tracker[d] /\ count'[d] = count[d]
    BY <1>7
  <2>2. taken' <= rows'
    BY <1>1, <1>2
  <2>3. UNION {tracker'[d] : d \in Consumers} = {sent'[i] : i \in 1 .. taken'}
    <3> SUFFICES ASSUME NEW m
                 PROVE  m \in UNION {tracker'[d] : d \in Consumers} <=>
                          m \in {sent'[i] : i \in 1 .. taken'}
      OBVIOUS
    <3>1. (\E d \in Consumers : m \in tracker'[d]) <=>
            (\E d \in Consumers : m \in tracker[d]) \/ m = v
      BY <1>7, <2>1
    <3>2. (\E d \in Consumers : m \in tracker[d]) <=> (\E i \in 1 .. taken : m = sent[i])
      BY <1>5 DEF FirstSent
    <3>3. (\E i \in 1 .. taken' : m = sent'[i]) <=>
            (\E i \in 1 .. taken : m = sent[i]) \/ m = v
      BY <1>1, <1>3 DEF v
    <3>4. m \in UNION {tracker'[d] : d \in Consumers} <=>
            (\E d \in Consumers : m \in tracker'[d])
      OBVIOUS
    <3>5. m \in {sent'[i] : i \in 1 .. taken'} <=> (\E i \in 1 .. taken' : m = sent'[i])
      OBVIOUS
    <3> QED
      BY <3>1, <3>2, <3>3, <3>4, <3>5
  <2>4. \A d, e \in Consumers : d # e => tracker'[d] \cap tracker'[e] = {}
    <3>1. \A d, e \in Consumers : d # e => tracker[d] \cap tracker[e] = {}
      BY DEF ConsumedInv
    <3> QED
      BY <1>5, <1>7, <2>1, <3>1
  <2>5. \A d \in Consumers :
          IsFiniteSet(tracker'[d]) /\ Cardinality(tracker'[d]) = count'[d]
    <3>1. \A d \in Consumers : IsFiniteSet(tracker[d]) /\ Cardinality(tracker[d]) = count[d]
      BY DEF ConsumedInv
    <3>2. /\ IsFiniteSet(tracker[c] \cup {v})
          /\ Cardinality(tracker[c] \cup {v}) = count[c] + 1
      BY <1>5, <3>1, FS_AddElement
    <3> QED
      BY <1>7, <2>1, <3>1, <3>2
  <2> QED
    BY <2>2, <2>3, <2>4, <2>5 DEF ConsumedInv, FirstSent
<1> QED
  BY <1>7, <1>8, <1>9, <1>10

LEMMA ObserveKeeps ==
  ASSUME HarnessInv, NEW o \in Observers, Receive(o) PROVE HarnessInv'
<1> USE Roles DEF HarnessInv
<1> DEFINE v == sent[count[o] + 1]
<1>1. /\ pc[o] = "work" /\ position[o] < rows
      /\ position' = [position EXCEPT ![o] = @ + 1]
      /\ result' = [result EXCEPT ![o] = [lo |-> position[o], hi |-> position[o]]]
      /\ tracker' = [tracker EXCEPT ![o] = SymDiff(@, {sent[result'[o].lo + 1]})]
      /\ count' = [count EXCEPT ![o] = @ + 1]
      /\ pc' = [pc EXCEPT ![o] = IF count'[o] >= Quota(o) THEN "leave" ELSE "work"]
      /\ UNCHANGED <<rows, taken, state, sent, cursor, last>>
  BY DEF Receive, T!StrongObserve, T!Row, Update, Goto
<1>2. /\ rows \in Nat /\ count[o] \in Nat /\ position[o] = count[o]
      /\ \A i \in 1 .. rows : sent[i] \in Messages
      /\ \A i \in 1 .. rows, j \in 1 .. rows : sent[i] = sent[j] => i = j
  BY <1>1 DEF TypeOK, SentInv, CountInv
<1>3. /\ count[o] + 1 \in 1 .. rows /\ v \in Messages
      /\ \A i \in 1 .. count[o] : i \in 1 .. rows /\ sent[i] # v
      /\ \A i : i \in 1 .. count[o] + 1 <=> i \in 1 .. count[o] \/ i = count[o] + 1
  BY <1>1, <1>2
<1>4. /\ result'[o].lo = count[o]
      /\ result' \in [Receivers \cup WeakObservers -> [lo : Int, hi : Int]]
  BY <1>1, <1>2 DEF TypeOK
<1> HIDE DEF v
<1>5. /\ tracker[o] = {sent[i] : i \in 1 .. count[o]}
      /\ v \notin tracker[o]
  <2>1. tracker[o] = {sent[i] : i \in 1 .. count[o]}
    BY DEF TrackerInv, FirstSent
  <2> QED
    BY <1>3, <2>1
<1>6. tracker' = [tracker EXCEPT ![o] = tracker[o] \cup {v}]
  <2>1. SymDiff(tracker[o], {v}) = tracker[o] \cup {v}
    BY <1>5 DEF SymDiff
  <2>2. sent[result'[o].lo + 1] = v
    BY <1>4 DEF v
  <2> QED
    BY <1>1, <2>1, <2>2
<1>7. /\ TypeOK' /\ CountInv' /\ StartInv' /\ EndInv' /\ CursorInv'
      /\ count'[o] = count[o] + 1 /\ tracker'[o] = tracker[o] \cup {v}
      /\ \A u \in Workers : u # o => count'[u] = count[u] /\ tracker'[u] = tracker[u]
  <2>1. tracker[o] \cup {v} \in SUBSET Messages
    BY <1>3 DEF TypeOK
  <2>2. pc' = [pc EXCEPT ![o] = IF count[o] + 1 >= Limit(o) THEN "leave" ELSE "work"]
    <3>1. count'[o] = count[o] + 1 /\ Limit(o) = Quota(o)
      BY <1>1 DEF TypeOK, Limit
    <3> QED
      BY <1>1, <3>1
  <2>3. UNCHANGED <<running, n_completed, asleep, cursor, last>>
    BY <1>1 DEF state
  <2>4. /\ position' \in [Observers -> Nat \cup {T!Detached}]
        /\ position'[o] = count[o] + 1
        /\ \A u \in Observers : u # o => position'[u] = position[u]
    BY <1>1, <1>2 DEF TypeOK
  <2>5. taken' \in Nat /\ rows' \in Nat /\ rows <= rows' /\ sent' \in Seq(Messages)
    BY <1>1, <1>2 DEF TypeOK
  <2> HIDE DEF HarnessInv
  <2> QED
    BY <1>1, <1>4, <1>6, <2>1, <2>2, <2>3, <2>4, <2>5, CountStep
<1>8. SentInv'
  <2>1. \A p \in Producers : count'[p] = count[p]
    BY <1>7
  <2>2. \A i \in 1 .. rows : sent[i].src \in Producers
    BY <1>2 DEF Messages
  <2> QED
    BY <1>1, <2>1, <2>2 DEF SentInv
<1>9. TrackerInv'
  <2>1. \A p \in Producers : count'[p] = count[p] /\ tracker'[p] = tracker[p]
    BY <1>7
  <2>2. ASSUME NEW u \in Observers
        PROVE  count'[u] <= rows' /\ tracker'[u] = {sent'[i] : i \in 1 .. count'[u]}
    <3>1. CASE u = o
      <4>1. count'[o] <= rows'
        BY <1>1, <1>2, <1>7
      <4>2. tracker'[o] = {sent[i] : i \in 1 .. count[o] + 1}
        BY <1>3, <1>5, <1>7 DEF v
      <4>3. count'[o] = count[o] + 1 /\ sent' = sent
        BY <1>1, <1>7
      <4>4. tracker'[o] = {sent'[i] : i \in 1 .. count'[o]}
        BY <4>2, <4>3
      <4> QED
        BY <3>1, <4>1, <4>4
    <3>2. CASE u # o
      BY <1>1, <1>7, <3>2 DEF TrackerInv, FirstSent
    <3> QED
      BY <3>1, <3>2
  <2> QED
    BY <2>1, <2>2 DEF TrackerInv, FirstSent
<1>10. ConsumedInv'
  <2>1. \A c \in Consumers : count'[c] = count[c] /\ tracker'[c] = tracker[c]
    BY <1>7
  <2>2. {tracker'[c] : c \in Consumers} = {tracker[c] : c \in Consumers}
    BY <2>1
  <2>3. FirstSent(taken)' = FirstSent(taken)
    BY <1>1 DEF FirstSent
  <2> QED
    BY <1>1, <2>1, <2>2, <2>3 DEF ConsumedInv
<1> QED
  BY <1>7, <1>8, <1>9, <1>10

(***************************************************************************)
(* The theorems.                                                           *)
(***************************************************************************)
LEMMA InitHarness == Init => HarnessInv
<1> SUFFICES ASSUME Init PROVE HarnessInv
  OBVIOUS
<1> USE Roles
<1>1. /\ \A t \in Workers : pc[t] = "start" /\ count[t] = 0 /\ tracker[t] = {}
      /\ pc[Main] = "trigger" /\ rows = 0 /\ taken = 0 /\ sent = <<>>
      /\ running = FALSE /\ n_completed = 0 /\ asleep = {}
      /\ \A o \in Observers : position[o] = 0
      /\ \A w \in WeakObservers : last[w] = 0
  BY DEF Init, S!InitState
<1>2. TypeOK
  <2>1. result \in [Receivers \cup WeakObservers -> [lo : Int, hi : Int]]
    BY DEF Init, T!None, T!Row
  <2>2. pc \in [Workers \cup {Main} -> Labels \cup MainLabels]
    BY DEF Init, Labels, MainLabels
  <2>3. /\ position \in [Observers -> Nat \cup {T!Detached}]
        /\ count \in [Workers -> Nat] /\ tracker \in [Workers -> SUBSET Messages]
        /\ cursor \in [WeakObservers -> Nat] /\ last \in [WeakObservers -> Nat]
    BY DEF Init
  <2>4. sent \in Seq(Messages)
    BY <1>1
  <2> QED
    BY <1>1, <2>1, <2>2, <2>3, <2>4 DEF TypeOK, Labels, MainLabels
<1>3. SentInv
  BY <1>1 DEF SentInv
<1>4. FirstSent(0) = {}
  BY DEF FirstSent
<1>5. TrackerInv
  <2>1. \A v \in Messages : ~(v.x < 0)
    BY DEF Messages
  <2>2. \A p \in Producers :
          tracker[p] = {v \in Messages : v.src = p /\ v.x < count[p]}
    BY <1>1, <2>1
  <2>3. \A o \in Observers : count[o] = 0 /\ tracker[o] = {}
    BY <1>1
  <2>4. ASSUME NEW o \in Observers
        PROVE  count[o] <= rows /\ tracker[o] = FirstSent(count[o])
    <3>1. count[o] = 0 /\ tracker[o] = {}
      BY <2>3
    <3>2. FirstSent(count[o]) = {}
      BY <1>4, <3>1
    <3> QED
      BY <1>1, <3>1, <3>2
  <2> QED
    BY <2>2, <2>4 DEF TrackerInv
<1>6. ConsumedInv
  <2>1. UNION {tracker[c] : c \in Consumers} = {}
    BY <1>1
  <2>2. \A c \in Consumers : tracker[c] = {} /\ count[c] = 0
    BY <1>1
  <2>3. \A c \in Consumers : IsFiniteSet(tracker[c]) /\ Cardinality(tracker[c]) = count[c]
    BY <2>2, FS_EmptySet
  <2>4. FirstSent(taken) = {} /\ taken <= rows
    BY <1>1, <1>4
  <2> QED
    BY <2>1, <2>2, <2>3, <2>4 DEF ConsumedInv
<1>7. CountInv
  BY <1>1, LimitType DEF CountInv
<1>8. StartInv /\ CursorInv
  BY <1>1 DEF StartInv, CursorInv
<1>9. EndInv
  <2>1. Ended = {}
    BY <1>1 DEF Ended
  <2> QED
    BY <1>1, <2>1, FS_EmptySet DEF EndInv
<1> QED
  BY <1>2, <1>3, <1>5, <1>6, <1>7, <1>8, <1>9 DEF HarnessInv

LEMMA NextHarness == HarnessInv /\ [Next]_vars => HarnessInv'
<1> SUFFICES ASSUME HarnessInv, [Next]_vars PROVE HarnessInv'
  OBVIOUS
<1>1. ASSUME NEW t \in Workers, Work(t) PROVE HarnessInv'
  <2>1. CASE t \in Receivers /\ Receive(t)
    BY <2>1, Roles, TakeKeeps, ObserveKeeps
  <2> QED
    BY <1>1, <2>1, StartKeeps, CompleteKeeps, ProduceKeeps, LeaveKeeps, WeakKeeps DEF Work
<1>2. ASSUME NEW t \in Workers, Panic(t) PROVE HarnessInv'
  BY <1>2, PanicKeeps
<1>3. ASSUME NEW t \in Workers \cup {Main}, Wake(t) PROVE HarnessInv'
  BY <1>3, WakeKeeps
<1>4. CASE MainStep
  BY <1>4, MainKeeps
<1>5. CASE UNCHANGED vars
  <2>1. TypeOK' /\ StartInv' /\ CursorInv'
    BY <1>5 DEF vars, HarnessInv, TypeOK, StartInv, CursorInv
  <2>2. EndInv'
    BY <1>5 DEF vars, HarnessInv, EndInv, Ended
  <2>3. \A t \in Counting : tracker'[t] = tracker[t] /\ Onward(t)
    BY <1>5 DEF vars, Onward
  <2>4. UNCHANGED <<rows, taken, sent, count>> /\ position' = position
    BY <1>5 DEF vars
  <2> QED
    BY <2>1, <2>2, <2>3, <2>4, QuietFrame
<1> QED
  BY <1>1, <1>2, <1>3, <1>4, <1>5 DEF Next, Terminated

(* The inductive invariant: what each thread counts and tracks is what was *)
(* put and taken.                                                          *)
THEOREM HarnessCorrect == Spec => []HarnessInv
  BY InitHarness, NextHarness, PTL DEF Spec

(* No assertion of the main thread fails, however the messages are spread  *)
(* over the consumers.                                                     *)
THEOREM HashesCorrect == Spec => []HashesAgree
<1>1. HarnessInv => HashesAgree
  BY DEF HarnessInv, EndInv, HashesAgree
<1> QED
  BY <1>1, HarnessCorrect, PTL

(* The measurement covers the first message and the last.                  *)
THEOREM MeasuredCorrect == Spec => []MeasuredAll
<1>1. HarnessInv => MeasuredAll
  <2> SUFFICES ASSUME HarnessInv PROVE MeasuredAll
    OBVIOUS
  <2>1. ASSUME pc[Main] = "trigger" PROVE sent = <<>>
    <3>1. sent \in Seq(Messages) /\ Len(sent) = 0
      BY <2>1 DEF HarnessInv, TypeOK, SentInv, StartInv
    <3> QED
      BY <3>1
  <2>2. ASSUME pc[Main] \in {"join", "done"}
        PROVE  /\ \A t \in Workers : pc[t] = "ended"
               /\ rows = NMessages /\ taken = NMessages
    <3>1. Ended = Workers
      BY <2>2 DEF HarnessInv, EndInv
    <3> QED
      BY <3>1, AllSentAndTaken DEF Ended
  <2> QED
    BY <2>1, <2>2 DEF MeasuredAll
<1> QED
  BY <1>1, HarnessCorrect, PTL

(* What a weak observer asks for exists, whatever was put between its      *)
(* loads of the two cursors.                                               *)
THEOREM CursorsCorrect == Spec => []WeakCursorsExist
<1>1. HarnessInv => WeakCursorsExist
  <2> SUFFICES ASSUME HarnessInv, NEW w \in WeakObservers, cursor[w] < last[w]
               PROVE  cursor[w] < rows
    BY DEF WeakCursorsExist
  <2>1. cursor[w] \in Nat /\ last[w] \in Nat /\ rows \in Nat
    BY DEF HarnessInv, TypeOK
  <2> QED
    BY <2>1 DEF HarnessInv, CursorInv
<1> QED
  BY <1>1, HarnessCorrect, PTL

(***************************************************************************)
(* Nobody is stuck.                                                        *)
(***************************************************************************)

(* Which places a thread's role brings it to.                              *)
PlaceInv ==
  \A t \in Workers :
    /\ pc[t] \in {"first", "last", "observe"} => t \in WeakObservers
    /\ pc[t] = "leave" => t \in Receivers

(* Who sleeps waits for what has not happened.                             *)
SleepInv ==
  /\ Main \in asleep => pc[Main] = "wait" /\ ~S!AllCompleted
  /\ \A t \in Workers : t \in asleep => ~running /\ pc[t] = "start"

(* An observer that the producers must wait for is on its way.             *)
AttachedInv ==
  \A o \in Observers :
    position[o] # T!Detached => pc[o] \in {"start", "work", "leave"}

WakeInv == PlaceInv /\ SleepInv /\ AttachedInv

(* What a worker's step has to keep of WakeInv.                            *)
LEMMA WakeFrame ==
  ASSUME TypeOK, WakeInv, NEW t \in Workers, NEW l, pc' = [pc EXCEPT ![t] = l],
         running' = running, n_completed' = n_completed \/ asleep' = {},
         \A u \in asleep' : \/ u \in asleep /\ u # t
                            \/ u = t /\ ~running /\ l = "start",
         l \in {"first", "last", "observe"} => t \in WeakObservers,
         l = "leave" => t \in Receivers,
         \A o \in Observers : o # t => position'[o] = position[o],
         t \in Observers => position'[t] = T!Detached \/ l \in {"start", "work", "leave"}
  PROVE  WakeInv'
<1> USE Roles
<1>1. pc'[t] = l /\ \A u \in Workers \cup {Main} : u # t => pc'[u] = pc[u]
  BY DEF TypeOK
<1>2. PlaceInv'
  BY <1>1 DEF WakeInv, PlaceInv
<1>3. SleepInv'
  <2>1. Main \in asleep' => pc'[Main] = "wait" /\ ~S!AllCompleted'
    <3> SUFFICES ASSUME Main \in asleep' PROVE pc'[Main] = "wait" /\ ~S!AllCompleted'
      OBVIOUS
    <3>1. Main \in asleep /\ n_completed' = n_completed /\ pc'[Main] = pc[Main]
      BY <1>1
    <3> QED
      BY <3>1 DEF WakeInv, SleepInv, S!AllCompleted
  <2>2. \A u \in Workers : u \in asleep' => ~running' /\ pc'[u] = "start"
    BY <1>1 DEF WakeInv, SleepInv
  <2> QED
    BY <2>1, <2>2 DEF SleepInv
<1>4. AttachedInv'
  BY <1>1 DEF WakeInv, AttachedInv, T!Detached
<1> QED
  BY <1>2, <1>3, <1>4 DEF WakeInv

(* Who works does not sleep.                                               *)
LEMMA Awake ==
  ASSUME WakeInv, NEW t \in Workers, pc[t] # "start"
  PROVE  \A u \in asleep : u \in asleep /\ u # t
  BY DEF WakeInv, SleepInv

LEMMA WakeWorker ==
  ASSUME HarnessInv, WakeInv, NEW t \in Workers, Work(t) \/ Panic(t)
  PROVE  WakeInv'
<1> USE Roles
<1>0. TypeOK /\ pc = [pc EXCEPT ![t] = pc[t]]
  BY DEF HarnessInv, TypeOK
<1>1. CASE Start(t)
  <2>1. /\ pc[t] = "start" /\ t \notin asleep /\ position' = position
        /\ running' = running /\ n_completed' = n_completed
        /\ asleep' = IF running THEN asleep ELSE asleep \cup {t}
        /\ pc' = [pc EXCEPT ![t] = IF running THEN "work" ELSE "start"]
    BY <1>0, <1>1 DEF Start, S!WaitForStart, Goto, table
  <2> DEFINE l == IF running THEN "work" ELSE "start"
  <2>2. \A u \in asleep' : (u \in asleep /\ u # t) \/ (u = t /\ ~running /\ l = "start")
    BY <2>1
  <2>3. l \in {"start", "work"}
    OBVIOUS
  <2>4. pc' = [pc EXCEPT ![t] = l]
    BY <2>1
  <2> HIDE DEF l
  <2> QED
    BY <1>0, <2>1, <2>2, <2>3, <2>4, WakeFrame
<1>2. CASE Complete(t)
  <2>1. /\ pc' = [pc EXCEPT ![t] = "ended"] /\ asleep' = {} /\ running' = running
        /\ position' = position /\ pc[t] = "complete"
    BY <1>2 DEF Complete, S!Complete, Goto, table
  <2>2. t \in Observers => position'[t] = T!Detached
    BY <2>1 DEF WakeInv, AttachedInv
  <2> QED
    BY <1>0, <2>1, <2>2, WakeFrame
<1>3. CASE Panic(t)
  <2>1. /\ pc' = [pc EXCEPT ![t] = "panicked"] /\ pc[t] = "work"
        /\ UNCHANGED <<running, n_completed, asleep>>
        /\ IF t \in Observers THEN T!DetachStrong(t) ELSE UNCHANGED table
    BY <1>3 DEF Panic, Goto, state
  <2>2. /\ \A o \in Observers : o # t => position'[o] = position[o]
        /\ t \in Observers => position'[t] = T!Detached
    BY <1>0, <2>1 DEF T!DetachStrong, TypeOK, table
  <2> QED
    BY <1>0, <2>1, <2>2, Awake, WakeFrame
<1>4. CASE t \in Producers /\ Produce(t)
  <2>1. /\ pc' = [pc EXCEPT ![t] = IF count'[t] = Share(Producers) THEN "complete" ELSE "work"]
        /\ UNCHANGED <<running, n_completed, asleep, position>> /\ pc[t] = "work"
    BY <1>4 DEF Produce, T!Put, Goto, state
  <2>2. \E l \in {"complete", "work"} : pc' = [pc EXCEPT ![t] = l]
    BY <2>1
  <2> QED
    BY <1>0, <1>4, <2>1, <2>2, Awake, WakeFrame
<1>5. CASE t \in Receivers /\ Receive(t)
  <2>1. /\ pc' = [pc EXCEPT ![t] = IF count'[t] >= Quota(t) THEN "leave" ELSE "work"]
        /\ UNCHANGED <<running, n_completed, asleep>> /\ pc[t] = "work"
        /\ IF t \in Consumers THEN T!Take(t) ELSE T!StrongObserve(t)
    BY <1>5 DEF Receive, Goto, state
  <2>2. \E l \in {"leave", "work"} : pc' = [pc EXCEPT ![t] = l]
    BY <2>1
  <2>3. \A o \in Observers : o # t => position'[o] = position[o]
    BY <1>0, <1>5, <2>1 DEF T!Take, T!StrongObserve, TypeOK
  <2> QED
    BY <1>0, <1>5, <2>1, <2>2, <2>3, Awake, WakeFrame
<1>6. CASE t \in Receivers /\ Leave(t)
  <2>1. /\ pc' = [pc EXCEPT ![t] = "complete"] /\ pc[t] = "leave"
        /\ UNCHANGED <<running, n_completed, asleep>>
        /\ IF t \in Observers THEN T!DetachStrong(t) ELSE UNCHANGED table
    BY <1>6 DEF Leave, Goto, state
  <2>2. /\ \A o \in Observers : o # t => position'[o] = position[o]
        /\ t \in Observers => position'[t] = T!Detached
    BY <1>0, <2>1 DEF T!DetachStrong, TypeOK, table
  <2> QED
    BY <1>0, <2>1, <2>2, Awake, WakeFrame
<1>7. CASE t \in WeakObservers /\ Weak(t)
  <2>1. /\ pc[t] # "start"
        /\ \E l \in {"work", "first", "last", "observe", "complete"} :
             pc' = [pc EXCEPT ![t] = l]
        /\ UNCHANGED <<running, n_completed, asleep, position>>
    <3>1. CASE WeakTest(t)
      BY <3>1 DEF WeakTest, Goto, state, table
    <3>2. CASE WeakFirst(t)
      BY <3>2 DEF WeakFirst, Goto, state, table
    <3>3. CASE WeakLast(t)
      BY <3>3 DEF WeakLast, Goto, state, table
    <3>4. CASE WeakObserve(t)
      BY <1>0, <3>4 DEF WeakObserve, Goto, state, table
    <3> QED
      BY <1>7, <3>1, <3>2, <3>3, <3>4 DEF Weak
  <2>2. t \notin Observers /\ t \notin Receivers
    BY <1>7 DEF Counting
  <2> QED
    BY <1>0, <1>7, <2>1, <2>2, Awake, WakeFrame
<1> QED
  BY <1>1, <1>2, <1>3, <1>4, <1>5, <1>6, <1>7 DEF Work

LEMMA WakeMain ==
  ASSUME HarnessInv, WakeInv, MainStep
  PROVE  WakeInv'
<1> USE Roles
<1>1. /\ \A t \in Workers : pc'[t] = pc[t]
      /\ position' = position /\ n_completed' = n_completed
  BY DEF MainStep, Trigger, Measure, Join, Goto, table, state, S!TriggerStart,
    S!WaitForComplete, HarnessInv, TypeOK
<1>2. PlaceInv' /\ AttachedInv'
  BY <1>1 DEF WakeInv, PlaceInv, AttachedInv, T!Detached
<1>3. SleepInv'
  <2>1. CASE Trigger
    BY <2>1 DEF Trigger, S!TriggerStart, SleepInv
  <2>2. CASE Measure
    <3>1. /\ pc[Main] = "wait" /\ Main \notin asleep /\ running' = running
          /\ asleep' = IF S!AllCompleted THEN asleep ELSE asleep \cup {Main}
          /\ ~S!AllCompleted => pc' = pc
      BY <2>2 DEF Measure, S!WaitForComplete
    <3>2. S!AllCompleted' <=> S!AllCompleted
      BY <1>1 DEF S!AllCompleted
    <3>3. Main \in asleep' => pc'[Main] = "wait" /\ ~S!AllCompleted'
      BY <3>1, <3>2
    <3>4. \A t \in Workers : t \in asleep' => t \in asleep
      BY <3>1
    <3> QED
      BY <1>1, <3>1, <3>3, <3>4 DEF WakeInv, SleepInv
  <2>3. CASE Join
    <3>1. pc[Main] = "join" /\ asleep' = asleep /\ running' = running
      BY <2>3 DEF Join, state
    <3> QED
      BY <1>1, <3>1 DEF WakeInv, SleepInv
  <2> QED
    BY <2>1, <2>2, <2>3 DEF MainStep
<1> QED
  BY <1>2, <1>3 DEF WakeInv

LEMMA NextWake == HarnessInv /\ WakeInv /\ [Next]_vars => WakeInv'
<1> SUFFICES ASSUME HarnessInv, WakeInv, [Next]_vars PROVE WakeInv'
  OBVIOUS
<1>1. ASSUME NEW t \in Workers \cup {Main}, Wake(t) PROVE WakeInv'
  <2>1. asleep' = asleep \ {t} /\ UNCHANGED <<running, n_completed, pc, position>>
    BY <1>1 DEF Wake, S!SpuriousWake, table
  <2> QED
    BY <2>1 DEF WakeInv, PlaceInv, SleepInv, AttachedInv, S!AllCompleted, T!Detached
<1>2. CASE UNCHANGED vars
  BY <1>2 DEF vars, WakeInv, PlaceInv, SleepInv, AttachedInv, S!AllCompleted, T!Detached
<1> QED
  BY <1>1, <1>2, WakeWorker, WakeMain DEF Next, Terminated

(* Where no message can be sent, taken or observed, every share is done.   *)
LEMMA SharesDone ==
  ASSUME HarnessInv, WakeInv, running, \A t \in Workers : pc[t] # "panicked" /\ ~GoesOn(t)
  PROVE  \A t \in Workers : pc[t] = "ended"
<1> USE Roles DEF HarnessInv
<1>1. \A t \in Workers : pc[t] \in {"work", "ended"}
  BY DEF GoesOn, WakeInv, SleepInv, TypeOK, Labels
<1>2. ASSUME NEW t \in Counting
      PROVE  /\ count[t] \in Nat /\ Limit(t) \in Nat /\ count[t] <= Limit(t)
             /\ pc[t] = "ended" <=> count[t] = Limit(t)
  BY <1>1, LimitType DEF CountInv, TypeOK
<1>3. /\ rows \in Nat /\ taken \in Nat /\ taken <= rows /\ NMessages \in Nat \ {0}
      /\ Size - 1 \in Nat \ {0}
  BY StressAssumption DEF TypeOK, ConsumedInv
<1>4. /\ rows <= NMessages /\ taken <= NMessages
      /\ rows = NMessages <=> \A p \in Producers : pc[p] = "ended"
      /\ taken = NMessages <=> \A c \in Consumers : pc[c] = "ended"
  BY <1>2, LimitType, SentCount, TakenCount
<1>5. taken = rows
  <2>1. \A c \in Consumers : pc[c] = "work" => taken >= rows
    BY <1>3 DEF GoesOn
  <2>2. CASE \E c \in Consumers : pc[c] = "work"
    BY <1>3, <2>1, <2>2
  <2>3. CASE \A c \in Consumers : pc[c] = "ended"
    BY <1>3, <1>4, <2>3
  <2> QED
    BY <1>1, <2>2, <2>3
<1>6. ASSUME NEW o \in T!Attached PROVE position[o] \in Nat /\ position[o] = rows
  <2>1. o \in Observers /\ pc[o] = "work"
    BY <1>1 DEF WakeInv, AttachedInv, T!Attached, T!Detached
  <2>2. position[o] = count[o] /\ count[o] <= rows
    BY <2>1 DEF CountInv, TrackerInv
  <2>3. ~(position[o] < rows)
    BY <2>1 DEF GoesOn
  <2> QED
    BY <1>2, <1>3, <2>1, <2>2, <2>3
<1>7. \A p \in Producers : pc[p] = "ended"
  <2> SUFFICES ASSUME NEW p \in Producers, pc[p] = "work" PROVE FALSE
    BY <1>1
  <2>1. rows - rows < Size - 1
    BY <1>3, StressAssumption
  <2>2. \A o \in T!Attached : position[o] = rows
    BY <1>6
  <2>3. rows - taken < Size - 1 /\ \A o \in T!Attached : rows - position[o] < Size - 1
    BY <1>5, <2>1, <2>2
  <2> QED
    BY <2>3 DEF GoesOn
<1>8. rows = NMessages /\ \A c \in Consumers : pc[c] = "ended"
  BY <1>4, <1>5, <1>7
<1>9. ASSUME NEW o \in Observers PROVE pc[o] = "ended"
  <2> SUFFICES ASSUME pc[o] = "work" PROVE FALSE
    BY <1>1
  <2>1. position[o] = count[o] /\ count[o] < NMessages
    BY <1>2, LimitType DEF CountInv
  <2> QED
    BY <1>2, <1>8, <2>1 DEF GoesOn
<1>10. ASSUME NEW w \in WeakObservers PROVE pc[w] = "ended"
  <2>1. RecentCursor >= NMessages - 1
    BY <1>3, <1>8 DEF RecentCursor
  <2> QED
    BY <1>1, <2>1 DEF GoesOn
<1> QED
  BY <1>7, <1>8, <1>9, <1>10 DEF Workers

(* Unless a worker panicked somebody can go on until the benchmark is      *)
(* done, whatever the numbers of threads and messages.                     *)
THEOREM NeverStuckCorrect == Spec => []NeverStuck
<1>1. Init => WakeInv
  <2> SUFFICES ASSUME Init PROVE WakeInv
    OBVIOUS
  <2>1. \A t \in Workers : pc[t] = "start"
    BY Roles DEF Init
  <2>2. asleep = {}
    BY DEF Init, S!InitState
  <2> QED
    BY <2>1, <2>2, Roles DEF WakeInv, PlaceInv, SleepInv, AttachedInv
<1>2. ASSUME HarnessInv, WakeInv PROVE NeverStuck
  <2> SUFFICES ASSUME pc[Main] \in {"trigger", "wait", "join"}, ~MainGoesOn,
                      \A t \in Workers : pc[t] # "panicked" /\ ~GoesOn(t)
               PROVE  FALSE
    BY <1>2 DEF NeverStuck, HarnessInv, TypeOK, MainLabels
  <2>1. running
    BY <1>2 DEF MainGoesOn, HarnessInv, StartInv
  <2>2. \A t \in Workers : pc[t] = "ended"
    BY <1>2, <2>1, SharesDone
  <2>3. S!AllCompleted
    <3>1. Ended = Workers
      BY <2>2 DEF Ended
    <3>2. n_completed = Cardinality(Workers) /\ n_completed \in Nat
      BY <1>2, <3>1 DEF HarnessInv, EndInv, TypeOK
    <3> QED
      BY <3>2 DEF S!AllCompleted, Expected
  <2> QED
    BY <1>2, <2>2, <2>3 DEF MainGoesOn, WakeInv, SleepInv
<1> QED
  BY <1>1, <1>2, NextWake, HarnessCorrect, PTL DEF Spec
=============================================================================
