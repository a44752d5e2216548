-------------------------- MODULE SpscRingProofs --------------------------
(***************************************************************************)
(* Why the ring is safe: the inductive invariant RingInv of SpscInvariant  *)
(* is preserved by every step, for every size of the ring and every number *)
(* of threads, and what follows from it.                                   *)
(*                                                                         *)
(* First indices, free lists, the shape of steps, types and handles; then  *)
(* the rest of the invariant, by groups of its parts.                      *)
(***************************************************************************)
EXTENDS SpscInvariant, SequenceTheorems, TLAPS

(***************************************************************************)
(* Arithmetic of a ring of Size elements.                                  *)
(***************************************************************************)

(* Division with a positive divisor leaves a remainder below it.           *)
LEMMA Division ==
  ASSUME NEW i \in Int, NEW m \in Nat \ {0}
  PROVE  /\ i = m * (i \div m) + (i % m)
         /\ i \div m \in Int
         /\ i % m \in 0 .. m - 1
  BY Z3

(* mod_len maps every index, the sentinel included, to a slot.             *)
LEMMA SlotOfIndex ==
  ASSUME NEW i \in Int
  PROVE  mod_len(i) \in Slots
  BY ConfigAssumption, Division DEF mod_len, Slots

(* Two indices less than a lap apart that share a slot are equal.          *)
LEMMA SameSlot ==
  ASSUME NEW i \in Int, NEW j \in Int, mod_len(i) = mod_len(j),
         i - j < Size, j - i < Size
  PROVE  i = j
<1>1. Size \in Nat \ {0}
  BY ConfigAssumption
<1>2. \A a, b \in Int : Size * a - Size * b < Size /\ Size * b - Size * a < Size
                          => a = b
  <2> TAKE a \in Int, b \in Int
  <2>1. CASE a > b
    <3>1. Size * a = Size * b + Size * (a - b) /\ Size * (a - b) >= Size
      BY <1>1, <2>1, Z3
    <3> QED
      BY <1>1, <3>1
  <2>2. CASE a < b
    <3>1. Size * b = Size * a + Size * (b - a) /\ Size * (b - a) >= Size
      BY <1>1, <2>2, Z3
    <3> QED
      BY <1>1, <3>1
  <2> QED
    BY <2>1, <2>2
<1>3. /\ i = Size * (i \div Size) + (i % Size) /\ i \div Size \in Int
      /\ j = Size * (j \div Size) + (j % Size) /\ j \div Size \in Int
      /\ i % Size = j % Size /\ i % Size \in Int
  BY <1>1, Division DEF mod_len
<1>4. i \div Size = j \div Size
  BY <1>1, <1>2, <1>3
<1> QED
  BY <1>3, <1>4

(***************************************************************************)
(* Lists of free slots: Vec::pop and Vec::push keep the element type.      *)
(***************************************************************************)
LEMMA PopList ==
  ASSUME NEW S, NEW list \in Seq(S), list # <<>>
  PROVE  /\ Len(list) \in Nat \ {0}
         /\ Top(list) \in S
         /\ Popped(list) \in Seq(S)
         /\ Len(Popped(list)) = Len(list) - 1
         /\ \A k \in 1 .. Len(list) - 1 : Popped(list)[k] = list[k]
<1> DEFINE n == Len(list) - 1
<1>1. Len(list) \in Nat \ {0}
  BY EmptySeq, LenProperties
<1>2. \A k \in 1 .. Len(list) : list[k] \in S
  BY ElementOfSeq
<1>3. n \in Nat /\ \A k \in 1 .. n : list[k] \in S
  BY <1>1, <1>2
<1>4. Top(list) \in S
  BY <1>1, <1>2 DEF Top
<1>5. Popped(list) = SubSeq(list, 1, n)
  BY DEF Popped
<1> HIDE DEF n
<1>6. /\ SubSeq(list, 1, n) \in Seq(S)
      /\ Len(SubSeq(list, 1, n)) = IF 1 <= n THEN n - 1 + 1 ELSE 0
      /\ \A i \in 1 .. n - 1 + 1 : SubSeq(list, 1, n)[i] = list[1 + i - 1]
  BY <1>3, SubSeqProperties
<1>7. Len(SubSeq(list, 1, n)) = n
  BY <1>3, <1>6
<1>8. \A k \in 1 .. n : SubSeq(list, 1, n)[k] = list[k]
  <2> TAKE k \in 1 .. n
  <2>1. k \in 1 .. n - 1 + 1 /\ 1 + k - 1 = k
    BY <1>3
  <2> QED
    BY <1>6, <2>1
<1>9. /\ Popped(list) \in Seq(S)
      /\ Len(Popped(list)) = n
      /\ \A k \in 1 .. n : Popped(list)[k] = list[k]
  BY <1>5, <1>6, <1>7, <1>8
<1> QED
  BY <1>1, <1>4, <1>9 DEF n

LEMMA PushList ==
  ASSUME NEW S, NEW list \in Seq(S), NEW x \in S
  PROVE  /\ Len(list) \in Nat
         /\ Append(list, x) \in Seq(S)
         /\ Len(Append(list, x)) = Len(list) + 1
         /\ \A k \in 1 .. Len(list) : Append(list, x)[k] = list[k]
         /\ Append(list, x)[Len(list) + 1] = x
  BY LenProperties, AppendProperties

(* The word a producer stores is well formed whatever its index.           *)
LEMMA StateWordType ==
  ASSUME NEW i \in Int, NEW valid \in BOOLEAN
  PROVE  StateWord(i, valid) \in [generation : 0 .. GenMod - 1,
                                  valid : BOOLEAN, reading : SUBSET Nat]
<1>1. i \div Size \in Int
  BY ConfigAssumption, Division
<1>2. (i \div Size) % GenMod \in 0 .. GenMod - 1
  BY <1>1, ConfigAssumption, Division
<1> QED
  BY <1>2 DEF StateWord, get_generation_for_index

(***************************************************************************)
(* Type correctness.                                                       *)
(***************************************************************************)

(* Every thread is a producer or a reader, and a taker's head is one of    *)
(* the heads.                                                              *)
LEMMA ThreadTypes ==
  /\ Producers \subseteq Threads /\ Readers \subseteq Threads
  /\ Takers \subseteq Readers /\ WeakObservers \subseteq Readers
  /\ Consumers \subseteq Takers /\ StrongObservers \subseteq Takers
  BY DEF Threads, Readers, Takers

LEMMA HeadOfTaker ==
  ASSUME TypeOK, NEW r \in Takers
  PROVE  HeadOf(r) \in Heads
  BY ConfigAssumption DEF TypeOK, HeadOf, Takers, Heads

LEMMA TypeInit == Init => TypeOK
<1> SUFFICES ASSUME Init PROVE TypeOK
  OBVIOUS
<1>1. free_strong_observer_heads \in Seq(Heads)
  BY SeqDef, ConfigAssumption DEF Init, Heads
<1>2. free_weak_observer_bits \in Seq(Nat)
  <2>1. free_weak_observer_bits \in [1 .. MaxWeak -> Nat]
    BY ConfigAssumption DEF Init
  <2> QED
    BY <2>1, SeqDef, ConfigAssumption
<1>3. heads \in [Heads -> Usize]
  BY DEF Init, Heads, Usize, UsizeMax
<1>4. buffer \in [Slots -> Payload]
  BY DEF Init, Uninit, Row, Payload
<1>5. weak_readers \in [Slots -> [generation : 0 .. GenMod - 1,
                                  valid : BOOLEAN, reading : SUBSET Nat]]
  BY ConfigAssumption DEF Init
<1>6. data \in [Readers -> Payload] /\ result \in [Readers -> Payload]
  BY DEF Init, Uninit, None, Row, Payload
<1>7. \A o \in StrongObservers : slot[o] \in Heads
  BY ConfigAssumption DEF Init, Heads
<1> QED
  BY <1>1, <1>2, <1>3, <1>4, <1>5, <1>6, <1>7
  DEF Init, TypeOK, Labels, Usize

LEMMA TypeStep == TypeOK /\ [Next]_vars => TypeOK'
<1> SUFFICES ASSUME TypeOK, [Next]_vars PROVE TypeOK'
  OBVIOUS
<1> USE ConfigAssumption, ThreadTypes
<1>0. /\ \A t \in Threads : index[t] \in Int /\ index[t] + 1 \in Nat
      /\ \A t \in Threads : mod_len(index[t]) \in Slots
      /\ Heads \subseteq Nat
  <2>1. \A t \in Threads : index[t] \in Int /\ index[t] + 1 \in Nat
    BY DEF TypeOK, Usize, UsizeMax
  <2> QED
    BY <2>1, SlotOfIndex DEF Heads
<1>1. ASSUME NEW p \in Producers, CallPut(p) PROVE TypeOK'
  BY <1>0, <1>1 DEF TypeOK, CallPut, Goto, Labels, WorkingLabels, ring, registry, Usize
<1>2. ASSUME NEW p \in Producers, TableFull(p) PROVE TypeOK'
  BY <1>0, <1>2 DEF TypeOK, TableFull, Goto, Labels, ring, registry
<1>3. ASSUME NEW p \in Producers, PassHead(p) PROVE TypeOK'
  BY <1>0, <1>3 DEF TypeOK, PassHead, Goto, Labels, WorkingLabels, ring, registry
<1>4. ASSUME NEW p \in Producers, Claim(p) PROVE TypeOK'
  <2>1. StateWord(index[p], FALSE) \in [generation : 0 .. GenMod - 1,
                                     valid : BOOLEAN, reading : SUBSET Nat]
    BY <1>0, StateWordType
  <2>2. weak_readers' \in [Slots -> [generation : 0 .. GenMod - 1,
                                   valid : BOOLEAN, reading : SUBSET Nat]]
    BY <1>4, <2>1 DEF TypeOK, Claim, SetStateWord
  <2> QED
    BY <1>4, <2>2 DEF TypeOK, Claim, Goto, Labels, WorkingLabels, registry
<1>5. ASSUME NEW p \in Producers, WriteLo(p) PROVE TypeOK'
  <2>1. buffer' \in [Slots -> Payload]
    BY <1>0, <1>5 DEF TypeOK, WriteLo, Payload
  <2> QED
    BY <1>5, <2>1 DEF TypeOK, WriteLo, Goto, Labels, WorkingLabels, registry
<1>6. ASSUME NEW p \in Producers, WriteHi(p) PROVE TypeOK'
  <2>1. buffer' \in [Slots -> Payload]
    BY <1>0, <1>6 DEF TypeOK, WriteHi, Payload
  <2> QED
    BY <1>6, <2>1 DEF TypeOK, WriteHi, Goto, Labels, WorkingLabels, registry
<1>7. ASSUME NEW p \in Producers, Validate(p) PROVE TypeOK'
  <2>1. StateWord(index[p], TRUE) \in [generation : 0 .. GenMod - 1,
                                     valid : BOOLEAN, reading : SUBSET Nat]
    BY <1>0, StateWordType
  <2>2. weak_readers' \in [Slots -> [generation : 0 .. GenMod - 1,
                                   valid : BOOLEAN, reading : SUBSET Nat]]
    BY <1>7, <2>1 DEF TypeOK, Validate, SetStateWord
  <2> QED
    BY <1>7, <2>2 DEF TypeOK, Validate, Goto, Labels, WorkingLabels, registry
<1>8. ASSUME NEW p \in Producers, Publish(p) PROVE TypeOK'
  BY <1>0, <1>8 DEF TypeOK, Publish, Goto, Labels, registry
<1>9. ASSUME NEW r \in Takers, TakeNone(r) PROVE TypeOK'
  BY <1>9 DEF TypeOK, TakeNone, Return, Goto, Labels, ring, registry,
    Uninit, None, Row, Payload
<1>10. ASSUME NEW r \in Takers, TakeSome(r) PROVE TypeOK'
  BY <1>10, HeadOfTaker DEF TypeOK, TakeSome, Goto, Labels, WorkingLabels,
    ring, registry
<1>11. ASSUME NEW r \in Readers, ReadLo(r) PROVE TypeOK'
  <2>1. buffer[mod_len(index[r])].lo \in Int
    BY <1>0 DEF TypeOK, Payload
  <2>2. data' \in [Readers -> Payload]
    BY <1>11, <2>1 DEF TypeOK, ReadLo, Payload
  <2> QED
    BY <1>11, <2>2 DEF TypeOK, ReadLo, Goto, Labels, WorkingLabels, ring, registry
<1>12. ASSUME NEW r \in Readers, ReadHi(r) PROVE TypeOK'
  <2>1. buffer[mod_len(index[r])].hi \in Int
    BY <1>0 DEF TypeOK, Payload
  <2>2. data' \in [Readers -> Payload]
    BY <1>12, <2>1 DEF TypeOK, ReadHi, Payload
  <2> QED
    BY <1>12, <2>2 DEF TypeOK, ReadHi, Goto, Labels, WorkingLabels, ring, registry
<1>13. ASSUME NEW r \in Takers, Advance(r) PROVE TypeOK'
  <2>1. index[r] + 1 \in Usize /\ data[r] \in Payload
    BY <1>0 DEF TypeOK, Usize
  <2>2. heads' \in [Heads -> Usize] /\ result' \in [Readers -> Payload]
    BY <1>13, <2>1 DEF TypeOK, Advance, Return
  <2>3. data' \in [Readers -> Payload]
    BY <1>13 DEF TypeOK, Advance, Return, Uninit, Row, Payload
  <2> QED
    BY <1>13, <2>2, <2>3 DEF TypeOK, Advance, Return, Goto, Labels, registry
<1>14. ASSUME NEW w \in WeakObservers, NEW i \in 0 .. MaxRows,
              CallWeakObserve(w, i)
       PROVE  TypeOK'
  <2>1. pc' \in [Threads -> Labels]
    BY <1>14 DEF TypeOK, CallWeakObserve, Goto, Labels, WorkingLabels
  <2>2. result' \in [Readers -> Payload] /\ index' \in [Threads -> Usize]
    BY <1>14 DEF TypeOK, CallWeakObserve, None, Row, Payload, Usize
  <2> QED
    BY <1>14, <2>1, <2>2 DEF TypeOK, CallWeakObserve, ring, registry
<1>15. ASSUME NEW w \in WeakObservers, Enter(w) PROVE TypeOK'
  <2>1. slot[w] \in Nat
    BY DEF TypeOK
  <2>2. weak_readers' \in [Slots -> [generation : 0 .. GenMod - 1,
                                   valid : BOOLEAN, reading : SUBSET Nat]]
    BY <1>0, <1>15, <2>1 DEF TypeOK, Enter
  <2>3. pc' \in [Threads -> Labels]
    BY <1>15 DEF TypeOK, Enter, Return, Goto, Labels, WorkingLabels
  <2> QED
    BY <1>15, <2>2, <2>3 DEF TypeOK, Enter, registry
<1>16. ASSUME NEW w \in WeakObservers, Leave(w) PROVE TypeOK'
  <2>1. slot[w] \in Nat
    BY DEF TypeOK
  <2>2. weak_readers' \in [Slots -> [generation : 0 .. GenMod - 1,
                                   valid : BOOLEAN, reading : SUBSET Nat]]
    <3>1. mod_len(index[w]) \in Slots
      BY <1>0
    <3>2. weak_readers[mod_len(index[w])].reading \ {slot[w]} \in SUBSET Nat
      BY <3>1 DEF TypeOK
    <3>3. weak_readers' = [weak_readers EXCEPT ![mod_len(index[w])].reading
                             = @ \ {slot[w]}]
      BY <1>16 DEF Leave
    <3> QED
      BY <3>1, <3>2, <3>3 DEF TypeOK
  <2>3. pc' \in [Threads -> Labels]
    BY <1>16 DEF TypeOK, Leave, Return, Goto, Labels, WorkingLabels
  <2>4. data' \in [Readers -> Payload] /\ result' \in [Readers -> Payload]
    <3>1. /\ data' = data \/ data' = [data EXCEPT ![w] = Uninit]
          /\ \/ result' = result
             \/ result' = [result EXCEPT ![w] = None]
             \/ result' = [result EXCEPT ![w] = data[w]]
      BY <1>16 DEF Leave, Return
    <3>2. Uninit \in Payload /\ None \in Payload /\ data[w] \in Payload
      BY DEF TypeOK, Uninit, None, Row, Payload
    <3> QED
      BY <3>1, <3>2 DEF TypeOK
  <2> QED
    BY <1>16, <2>2, <2>3, <2>4 DEF TypeOK, Leave, registry
<1>17. ASSUME NEW p \in Producers, AttachProducer(p) PROVE TypeOK'
  BY <1>17 DEF TypeOK, AttachProducer, Goto, Labels, ring
<1>18. ASSUME NEW p \in Producers, DropProducer(p) PROVE TypeOK'
  BY <1>18 DEF TypeOK, DropProducer, Goto, Labels, ring
<1>19. ASSUME NEW c \in Consumers, AttachConsumer(c) PROVE TypeOK'
  BY <1>19 DEF TypeOK, AttachConsumer, Goto, Labels, ring
<1>20. ASSUME NEW c \in Consumers, DropConsumer(c) PROVE TypeOK'
  BY <1>20 DEF TypeOK, DropConsumer, Goto, Labels, ring
<1>21. ASSUME NEW o \in StrongObservers, AttachStrongLoad(o) PROVE TypeOK'
  <2>1. /\ Top(free_strong_observer_heads) \in Heads
        /\ Popped(free_strong_observer_heads) \in Seq(Heads)
    BY <1>21, PopList DEF TypeOK, AttachStrongLoad
  <2>2. heads[0] \in Usize
    BY DEF TypeOK, Heads
  <2>3. slot' \in [StrongObservers \cup WeakObservers -> Nat]
        /\ \A u \in StrongObservers : slot'[u] \in Heads
    BY <1>21, <2>1 DEF TypeOK, AttachStrongLoad, Heads
  <2> QED
    BY <1>21, <2>1, <2>2, <2>3 DEF TypeOK, AttachStrongLoad, Goto, Labels, ring
<1>22. ASSUME NEW o \in StrongObservers, AttachStrongStore(o) PROVE TypeOK'
  BY <1>22 DEF TypeOK, AttachStrongStore, Goto, Labels, registry
<1>23. ASSUME NEW o \in StrongObservers, DropStrong(o) PROVE TypeOK'
  <2>1. slot[o] \in Heads
    BY DEF TypeOK
  <2>2. free_strong_observer_heads' \in Seq(Heads)
    BY <1>23, <2>1, PushList DEF TypeOK, DropStrong
  <2> QED
    BY <1>23, <2>2 DEF TypeOK, DropStrong, Goto, Labels, Usize
<1>24. ASSUME NEW w \in WeakObservers, AttachWeak(w) PROVE TypeOK'
  <2>1. /\ Top(free_weak_observer_bits) \in Nat
        /\ Popped(free_weak_observer_bits) \in Seq(Nat)
    BY <1>24, PopList DEF TypeOK, AttachWeak
  <2>2. slot' \in [StrongObservers \cup WeakObservers -> Nat]
        /\ \A u \in StrongObservers : slot'[u] \in Heads
    BY <1>24, <2>1, ThreadsAssumption DEF TypeOK, AttachWeak
  <2> QED
    BY <1>24, <2>1, <2>2 DEF TypeOK, AttachWeak, Goto, Labels, ring
<1>25. ASSUME NEW w \in WeakObservers, DropWeak(w) PROVE TypeOK'
  <2>1. slot[w] \in Nat
    BY DEF TypeOK
  <2>2. free_weak_observer_bits' \in Seq(Nat)
    BY <1>25, <2>1, PushList DEF TypeOK, DropWeak
  <2> QED
    BY <1>25, <2>2 DEF TypeOK, DropWeak, Goto, Labels, ring, Uninit, Row, Payload
<1>26. ASSUME UNCHANGED vars PROVE TypeOK'
  BY <1>26 DEF TypeOK, vars
<1> QED
  BY <1>1, <1>2, <1>3, <1>4, <1>5, <1>6, <1>7, <1>8, <1>9, <1>10, <1>11,
     <1>12, <1>13, <1>14, <1>15, <1>16, <1>17, <1>18, <1>19, <1>20, <1>21,
     <1>22, <1>23, <1>24, <1>25, <1>26
  DEF Next, PutSteps, TakeSteps, WeakSteps

(* Every variable keeps its type: no index, head or slot number ever leaves *)
(* its range, for any number of threads and any size of the ring.          *)
THEOREM TypeCorrect == Spec => []TypeOK
  BY TypeInit, TypeStep, PTL DEF Spec

(***************************************************************************)
(* Where threads are, and which handles they hold.                         *)
(***************************************************************************)

(* A thread has one role.                                                  *)
LEMMA Roles ==
  /\ \A p \in Producers : p \in Threads /\ p \notin Takers
                          /\ p \notin WeakObservers
  /\ \A c \in Consumers : c \in Threads /\ c \notin Producers
                          /\ c \notin StrongObservers /\ c \notin WeakObservers
  /\ \A o \in StrongObservers : o \in Threads /\ o \notin Producers
                          /\ o \notin Consumers /\ o \notin WeakObservers
  /\ \A w \in WeakObservers : w \in Threads /\ w \notin Producers
                          /\ w \notin Takers
  BY ThreadsAssumption DEF Threads, Readers, Takers

(* The actions by what they do to the handles.                             *)
AttachSteps ==
  \/ \E p \in Producers : AttachProducer(p)
  \/ \E c \in Consumers : AttachConsumer(c)
  \/ \E o \in StrongObservers : AttachStrongLoad(o) \/ AttachStrongStore(o)
  \/ \E w \in WeakObservers : AttachWeak(w)

DropSteps ==
  \/ \E p \in Producers : DropProducer(p)
  \/ \E c \in Consumers : DropConsumer(c)
  \/ \E o \in StrongObservers : DropStrong(o)
  \/ \E w \in WeakObservers : DropWeak(w)

LEMMA NextSplit ==
  ASSUME [Next]_vars
  PROVE  \/ \E p \in Producers : PutSteps(p)
         \/ \E r \in Takers : TakeSteps(r)
         \/ \E w \in WeakObservers : WeakSteps(w)
         \/ AttachSteps \/ DropSteps \/ UNCHANGED vars
  BY DEF Next, AttachSteps, DropSteps

(* Inside its calls a thread only visits the labels of those calls.        *)
LEMMA PutMoves ==
  ASSUME NEW p \in Producers, PutSteps(p)
  PROVE  /\ pc[p] \in {"idle"} \cup PutLabels
         /\ \E l \in {"idle"} \cup PutLabels : pc' = [pc EXCEPT ![p] = l]
<1>1. pc[p] \in {"idle"} \cup PutLabels
  BY DEF PutSteps, CallPut, TableFull, PassHead, Claim, WriteLo, WriteHi,
    Validate, Publish, PutLabels
<1>2. \E l \in {"idle"} \cup PutLabels : pc' = [pc EXCEPT ![p] = l]
  BY DEF PutSteps, CallPut, TableFull, PassHead, Claim, WriteLo, WriteHi,
    Validate, Publish, Goto, PutLabels
<1> QED
  BY <1>1, <1>2

LEMMA TakeMoves ==
  ASSUME NEW r \in Takers, TakeSteps(r)
  PROVE  /\ pc[r] \in {"idle"} \cup CopyLabels
         /\ \E l \in {"idle"} \cup CopyLabels : pc' = [pc EXCEPT ![r] = l]
<1>1. pc[r] \in {"idle"} \cup CopyLabels
  BY DEF TakeSteps, TakeNone, TakeSome, ReadLo, ReadHi, Advance, CopyLabels
<1>2. \E l \in {"idle"} \cup CopyLabels : pc' = [pc EXCEPT ![r] = l]
  BY DEF TakeSteps, TakeNone, TakeSome, ReadLo, ReadHi, Advance, Return, Goto,
    CopyLabels
<1> QED
  BY <1>1, <1>2

LEMMA WeakMoves ==
  ASSUME TypeOK, NEW w \in WeakObservers, WeakSteps(w)
  PROVE  /\ pc[w] \in {"idle", "enter"} \cup CopyLabels
         /\ \E l \in {"idle", "enter", "panicked"} \cup CopyLabels :
              pc' = [pc EXCEPT ![w] = l]
<1>1. pc[w] \in {"idle", "enter"} \cup CopyLabels
  BY DEF WeakSteps, CallWeakObserve, Enter, ReadLo, ReadHi, Leave, CopyLabels
<1>2. pc = [pc EXCEPT ![w] = pc[w]]
  BY Roles DEF TypeOK
<1>3. \E l \in {"idle", "enter", "panicked"} \cup CopyLabels :
        pc' = [pc EXCEPT ![w] = l]
  BY <1>1, <1>2 DEF WeakSteps, CallWeakObserve, Enter, ReadLo, ReadHi, Leave,
    Return, Goto, CopyLabels
<1> QED
  BY <1>1, <1>3

LEMMA LabelStep ==
  ASSUME TypeOK, LabelInv, [Next]_vars
  PROVE  LabelInv'
<1>1. ASSUME NEW p \in Producers, PutSteps(p) PROVE LabelInv'
  <2>1. PICK l \in {"idle"} \cup PutLabels : pc' = [pc EXCEPT ![p] = l]
    BY <1>1, PutMoves
  <2> QED
    BY <2>1, Roles DEF TypeOK, LabelInv, Takers
<1>2. ASSUME NEW r \in Takers, TakeSteps(r) PROVE LabelInv'
  <2>1. PICK l \in {"idle"} \cup CopyLabels : pc' = [pc EXCEPT ![r] = l]
    BY <1>2, TakeMoves
  <2> QED
    BY <2>1, Roles DEF TypeOK, LabelInv, Takers
<1>3. ASSUME NEW w \in WeakObservers, WeakSteps(w) PROVE LabelInv'
  <2>1. PICK l \in {"idle", "enter", "panicked"} \cup CopyLabels :
          pc' = [pc EXCEPT ![w] = l]
    BY <1>3, WeakMoves
  <2> QED
    BY <2>1, Roles DEF TypeOK, LabelInv, Takers, PutLabels, CopyLabels
<1>4. ASSUME AttachSteps PROVE LabelInv'
  <2>1. \E t \in Threads, l \in {"idle", "attaching"} :
          /\ l = "attaching" => t \in StrongObservers
          /\ pc' = [pc EXCEPT ![t] = l]
    BY <1>4, Roles DEF AttachSteps, AttachProducer, AttachConsumer,
      AttachStrongLoad, AttachStrongStore, AttachWeak, Goto
  <2> QED
    BY <2>1, Roles DEF TypeOK, LabelInv, Takers, PutLabels, CopyLabels
<1>5. ASSUME DropSteps PROVE LabelInv'
  <2>1. \E t \in Threads : pc' = [pc EXCEPT ![t] = "out"]
    BY <1>5, Roles DEF DropSteps, DropProducer, DropConsumer, DropStrong,
      DropWeak, Goto
  <2> QED
    BY <2>1, Roles DEF TypeOK, LabelInv, Takers, PutLabels, CopyLabels
<1>6. CASE UNCHANGED vars
  BY <1>6 DEF LabelInv, vars
<1> QED
  BY NextSplit, <1>1, <1>2, <1>3, <1>4, <1>5, <1>6

(* Puts, takes and observations neither gain nor lose a handle.            *)
LEMMA CallsKeepHandles ==
  ASSUME TypeOK,
         \/ \E p \in Producers : PutSteps(p)
         \/ \E r \in Takers : TakeSteps(r)
         \/ \E w \in WeakObservers : WeakSteps(w)
  PROVE  /\ UNCHANGED <<registry, slot>>
         /\ \A t \in Threads : Holding(t)' <=> Holding(t)
         /\ \A o \in StrongObservers :
              (pc[o] = "attaching")' <=> pc[o] = "attaching"
<1> DEFINE Away == {"out", "attaching"}
           Moves == \E t \in Threads, l \in Labels \ Away :
                      pc[t] \notin Away /\ pc' = [pc EXCEPT ![t] = l]
<1> USE Roles DEF Labels, WorkingLabels, PutLabels, CopyLabels
<1>1. ASSUME NEW p \in Producers, PutSteps(p)
      PROVE  UNCHANGED <<registry, slot>> /\ Moves
  BY <1>1, PutMoves DEF PutSteps, CallPut, TableFull, PassHead, Claim, WriteLo,
    WriteHi, Validate, Publish, registry
<1>2. ASSUME NEW r \in Takers, TakeSteps(r)
      PROVE  UNCHANGED <<registry, slot>> /\ Moves
  BY <1>2, TakeMoves DEF TakeSteps, TakeNone, TakeSome, ReadLo, ReadHi,
    Advance, Takers, registry
<1>3. ASSUME NEW w \in WeakObservers, WeakSteps(w)
      PROVE  UNCHANGED <<registry, slot>> /\ Moves
  <2>1. UNCHANGED <<registry, slot>>
    BY <1>3 DEF WeakSteps, CallWeakObserve, Enter, ReadLo, ReadHi, Leave,
      registry
  <2>2. Moves
    BY <1>3, WeakMoves
  <2> QED
    BY <2>1, <2>2
<1>4. UNCHANGED <<registry, slot>> /\ Moves
  BY <1>1, <1>2, <1>3
<1> QED
  BY <1>4 DEF Holding, TypeOK

LEMMA SingleStep ==
  ASSUME TypeOK, SingleInv, [Next]_vars
  PROVE  SingleInv'
<1> USE DEF TypeOK, SingleInv, Holding
<1>1. ASSUME \/ \E p \in Producers : PutSteps(p)
             \/ \E r \in Takers : TakeSteps(r)
             \/ \E w \in WeakObservers : WeakSteps(w)
      PROVE  SingleInv'
  BY <1>1, CallsKeepHandles, Roles DEF registry
<1>2. ASSUME NEW p \in Producers, AttachProducer(p) \/ DropProducer(p)
      PROVE  SingleInv'
  <2>1. CASE AttachProducer(p)
    BY <2>1, Roles DEF AttachProducer, ProducerFree, Goto
  <2>2. CASE DropProducer(p)
    BY <2>2, Roles DEF DropProducer, Goto
  <2> QED
    BY <1>2, <2>1, <2>2
<1>3. ASSUME NEW c \in Consumers, AttachConsumer(c) \/ DropConsumer(c)
      PROVE  SingleInv'
  <2>1. CASE AttachConsumer(c)
    BY <2>1, Roles DEF AttachConsumer, ConsumerFree, Goto
  <2>2. CASE DropConsumer(c)
    BY <2>2, Roles DEF DropConsumer, Goto
  <2> QED
    BY <1>3, <2>1, <2>2
<1>4. ASSUME NEW o \in StrongObservers,
             AttachStrongLoad(o) \/ AttachStrongStore(o) \/ DropStrong(o)
      PROVE  SingleInv'
  <2>1. CASE AttachStrongLoad(o)
    BY <2>1, Roles DEF AttachStrongLoad, LockFree, Goto
  <2>2. CASE AttachStrongStore(o)
    BY <2>2, Roles DEF AttachStrongStore, Goto, registry
  <2>3. CASE DropStrong(o)
    BY <2>3, Roles DEF DropStrong, Goto
  <2> QED
    BY <1>4, <2>1, <2>2, <2>3
<1>5. ASSUME NEW w \in WeakObservers, AttachWeak(w) \/ DropWeak(w)
      PROVE  SingleInv'
  <2>1. CASE AttachWeak(w)
    BY <2>1, Roles DEF AttachWeak, Goto
  <2>2. CASE DropWeak(w)
    BY <2>2, Roles DEF DropWeak, Goto
  <2> QED
    BY <1>5, <2>1, <2>2
<1>6. CASE UNCHANGED vars
  BY <1>6 DEF vars
<1> QED
  BY NextSplit, <1>1, <1>2, <1>3, <1>4, <1>5, <1>6 DEF AttachSteps, DropSteps

LEMMA SlotStep ==
  ASSUME TypeOK, SlotInv, [Next]_vars
  PROVE  SlotInv'
<1> DEFINE list == free_strong_observer_heads
<1>a. list # <<>> =>
         /\ Len(list) \in Nat \ {0}
         /\ Len(Popped(list)) = Len(list) - 1
         /\ \A k \in 1 .. Len(list) - 1 : Popped(list)[k] = list[k]
  BY PopList DEF TypeOK
<1> USE DEF SlotInv, DistinctSlots, Holding
<1>0. list \in Seq(Heads) /\ \A o \in StrongObservers : slot[o] \in Heads
  BY DEF TypeOK
<1>1. ASSUME \/ \E p \in Producers : PutSteps(p)
             \/ \E r \in Takers : TakeSteps(r)
             \/ \E w \in WeakObservers : WeakSteps(w)
      PROVE  SlotInv'
  BY <1>1, CallsKeepHandles, Roles DEF registry
<1>2. ASSUME \/ \E p \in Producers : AttachProducer(p) \/ DropProducer(p)
             \/ \E c \in Consumers : AttachConsumer(c) \/ DropConsumer(c)
             \/ \E w \in WeakObservers : AttachWeak(w) \/ DropWeak(w)
      PROVE  SlotInv'
  <2>1. list' = list /\ \A o \in StrongObservers :
                          pc'[o] = pc[o] /\ slot'[o] = slot[o]
    BY <1>2, Roles DEF TypeOK, AttachProducer, DropProducer, AttachConsumer,
      DropConsumer, AttachWeak, DropWeak, Goto
  <2> QED
    BY <2>1
<1>3. ASSUME NEW o \in StrongObservers, AttachStrongLoad(o) PROVE SlotInv'
  <2>1. /\ list # <<>> /\ pc[o] = "out" /\ list' = Popped(list)
        /\ slot'[o] = list[Len(list)] /\ pc'[o] = "attaching"
        /\ \A u \in StrongObservers \ {o} :
             slot'[u] = slot[u] /\ pc'[u] = pc[u]
    BY <1>3, Roles DEF TypeOK, AttachStrongLoad, Goto, Top
  <2>2. /\ Len(list) \in Nat \ {0} /\ Len(list') = Len(list) - 1
        /\ \A k \in 1 .. Len(list) - 1 : list'[k] = list[k]
    BY <1>a, <2>1
  <2>3. \A u \in StrongObservers : Holding(u)' =>
          /\ slot'[u] \in 1 .. MaxStrong
          /\ \A k \in 1 .. Len(list') : list'[k] # slot'[u]
    BY <2>1, <2>2
  <2>4. \A u, v \in StrongObservers :
          Holding(u)' /\ Holding(v)' /\ slot'[u] = slot'[v] => u = v
    BY <2>1, <2>2
  <2>5. /\ \A k \in 1 .. Len(list') : list'[k] \in 1 .. MaxStrong
        /\ \A j, k \in 1 .. Len(list') : list'[j] = list'[k] => j = k
    <3>1. \A k \in 1 .. Len(list') : k \in 1 .. Len(list) /\ list'[k] = list[k]
      BY <2>2
    <3> QED
      BY <3>1
  <2> QED
    BY <2>3, <2>4, <2>5
<1>4. ASSUME NEW o \in StrongObservers, AttachStrongStore(o) PROVE SlotInv'
  BY <1>4, Roles DEF TypeOK, AttachStrongStore, Goto, registry
<1>5. ASSUME NEW o \in StrongObservers, DropStrong(o) PROVE SlotInv'
  <2>1. /\ pc[o] = "idle" /\ list' = Append(list, slot[o])
        /\ pc'[o] = "out" /\ slot' = slot
        /\ \A u \in StrongObservers \ {o} : pc'[u] = pc[u]
    BY <1>5, Roles DEF TypeOK, DropStrong, Goto
  <2>2. /\ Len(list) \in Nat /\ Len(list') = Len(list) + 1
        /\ \A k \in 1 .. Len(list) : list'[k] = list[k]
        /\ list'[Len(list) + 1] = slot[o]
    BY <1>0, <2>1, PushList
  <2> QED
    BY <2>1, <2>2
<1>6. CASE UNCHANGED vars
  BY <1>6 DEF vars
<1> QED
  BY NextSplit, <1>1, <1>2, <1>3, <1>4, <1>5, <1>6 DEF AttachSteps, DropSteps

(* One lap further is the same slot.                                       *)
LEMMA NextLap ==
  ASSUME NEW i \in Int
  PROVE  mod_len(i + Size) = mod_len(i)
<1>1. Size \in Nat \ {0}
  BY ConfigAssumption
<1>2. \A a, b, r, s \in Int :
        /\ Size * b + s = Size * a + r + Size
        /\ r \in 0 .. Size - 1 /\ s \in 0 .. Size - 1
        => s = r
  <2> TAKE a \in Int, b \in Int, r \in Int, s \in Int
  <2> HAVE /\ Size * b + s = Size * a + r + Size
           /\ r \in 0 .. Size - 1 /\ s \in 0 .. Size - 1
  <2> DEFINE d == b - (a + 1)
  <2>1. d \in Int /\ Size * d = Size * b - Size * a - Size
    BY <1>1, Z3
  <2>2. Size * d = r - s
    BY <1>1, <2>1
  <2>3. d = 0
    <3>1. \A e \in Int : Size * e < Size /\ -Size < Size * e => e = 0
      BY <1>1, Z3
    <3> HIDE DEF d
    <3> QED
      BY <1>1, <2>1, <2>2, <3>1
  <2> QED
    BY <2>2, <2>3, <1>1
<1>3. /\ i = Size * (i \div Size) + (i % Size)
      /\ i \div Size \in Int /\ i % Size \in 0 .. Size - 1
  BY <1>1, Division
<1>4. i + Size \in Int
  BY <1>1
<1>5. /\ i + Size = Size * ((i + Size) \div Size) + ((i + Size) % Size)
      /\ (i + Size) \div Size \in Int /\ (i + Size) % Size \in 0 .. Size - 1
  BY <1>1, <1>4, Division
<1>6. Size * ((i + Size) \div Size) + ((i + Size) % Size)
        = Size * (i \div Size) + (i % Size) + Size
  BY <1>3, <1>5
<1>7. i % Size \in Int /\ (i + Size) % Size \in Int
  BY <1>1, <1>3, <1>5
<1>8. (i + Size) % Size = i % Size
  BY <1>2, <1>3, <1>5, <1>6, <1>7, Zenon
<1> QED
  BY <1>8 DEF mod_len

(* What the invariant says of the indices, as arithmetic needs it.         *)
LEMMA Indices ==
  ASSUME RingInv
  PROVE  /\ Size \in Nat \ {0} /\ MaxStrong \in Nat /\ Heads \subseteq Nat
         /\ tail_index \in Nat
         /\ 0 \in Heads /\ heads[0] \in Nat
         /\ \A h \in Heads : heads[h] \in Int /\ (Heeded(h) => heads[h] \in Nat)
         /\ \A t \in Threads : index[t] \in Int /\ index[t] + 1 \in Nat
         /\ \A o \in StrongObservers :
              /\ slot[o] \in Heads
              /\ Holding(o) => slot[o] \in 1 .. MaxStrong
              /\ AttachedStrong(o) => heads[slot[o]] \in Nat
  BY ConfigAssumption, Roles DEF RingInv, HandleInv, ProtocolInv, TypeOK, SlotInv,
    DistinctSlots, HeadInv, Heads, Usize, UsizeMax, Heeded

(* A taker in the middle of a copy has its head to itself.                 *)
LEMMA OwnHead ==
  ASSUME RingInv, NEW r \in Takers, NEW q \in Takers, Receiving(r),
         pc[q] \notin {"out", "attaching"}, HeadOf(q) = HeadOf(r)
  PROVE  q = r
  BY ConfigAssumption, Roles DEF RingInv, HandleInv, SingleInv, SlotInv,
    DistinctSlots, Holding, Receiving, CopyLabels, HeadOf, Takers

(* A row that a reader has yet to take is whole in its element.            *)
LEMMA RowInPlace ==
  ASSUME RingInv, NEW r \in Takers, Receiving(r), Heeded(HeadOf(r))
  PROVE  buffer[mod_len(index[r])] = Row(index[r])
<1>1. HeadOf(r) \in Heads
  BY HeadOfTaker DEF RingInv, HandleInv
<1>2. /\ index[r] = heads[HeadOf(r)] /\ index[r] < tail_index
      /\ tail_index <= heads[HeadOf(r)] + Size - 1
  BY <1>1 DEF RingInv, ProtocolInv, TakeInv, WindowInv
<1>3. index[r] \in Nat /\ tail_index \in Nat /\ Size \in Nat
  BY <1>1, <1>2, Indices
<1>4. index[r] \in 0 .. tail_index - 1 /\ tail_index < index[r] + Size
  BY <1>2, <1>3
<1> QED
  BY <1>4 DEF RingInv, ProtocolInv, ContentInv
(***************************************************************************)
(* One lemma per step that disturbs the invariant.                         *)
(***************************************************************************)
LEMMA CallPutKeeps ==
  ASSUME RingInv, NEW p \in Producers, CallPut(p)
  PROVE  ProtocolInv'
<1> USE Roles DEF RingInv, HandleInv, ProtocolInv, TypeOK, Takers
<1>1. /\ UNCHANGED <<tail_index, heads, buffer, scan, data, slot>>
      /\ pc[p] = "idle" /\ pc'[p] = "scan" /\ index'[p] = tail_index
      /\ \A t \in Threads \ {p} : pc'[t] = pc[t] /\ index'[t] = index[t]
  BY DEF CallPut, Goto, ring
<1>2. PutInv'
  <2>1. scan[p] = 0 /\ \A h \in Heads : ~(h < 0)
    <3>1. scan[p] = 0
      BY <1>1 DEF PutInv, Putting, PutLabels
    <3> QED
      BY <3>1, ConfigAssumption DEF Heads
  <2>2. ASSUME NEW q \in Producers \ {p}
        PROVE  /\ ~Putting(q)' => scan'[q] = 0
               /\ Putting(q)' =>
                    /\ index'[q] = tail_index'
                    /\ pc'[q] = "scan" <=> scan'[q] <= MaxStrong
                    /\ \A h \in Heads : h < scan'[q] /\ Heeded(h)' =>
                         tail_index' + 1 <= heads'[h] + Size - 1
    BY <1>1 DEF PutInv, Putting, Heeded
  <2> QED
    BY <1>1, <2>1, <2>2, ConfigAssumption DEF PutInv, Putting, PutLabels, Heeded
<1>3. HeadInv' /\ WindowInv'
  BY <1>1 DEF HeadInv, AttachedStrong, WindowInv, Heeded
<1>4. AttachInv' /\ ContentInv'
  BY <1>1 DEF AttachInv, Receiving, CopyLabels, ContentInv
<1>5. TakeInv'
  BY <1>1 DEF TakeInv, Receiving, CopyLabels, Heeded, HeadOf
<1> QED
  BY <1>2, <1>3, <1>4, <1>5

LEMMA TableFullKeeps ==
  ASSUME RingInv, NEW p \in Producers, TableFull(p)
  PROVE  ProtocolInv'
  BY Roles DEF RingInv, HandleInv, ProtocolInv, TypeOK, Takers, TableFull, Goto,
    ring, HeadInv, AttachedStrong, WindowInv, Heeded, AttachInv, Receiving,
    CopyLabels, PutInv, Putting, PutLabels, TakeInv, HeadOf, ContentInv

(* The check of one head: a head a full lap behind would share its slot.   *)
LEMMA PassHeadKeeps ==
  ASSUME RingInv, NEW p \in Producers, PassHead(p)
  PROVE  ProtocolInv'
<1> USE Roles DEF RingInv, HandleInv, ProtocolInv, TypeOK, Takers
<1>1. /\ UNCHANGED <<tail_index, heads, buffer, index, data, slot>>
      /\ pc[p] = "scan" /\ ~HeadBlocks(scan[p], index[p])
      /\ scan'[p] = scan[p] + 1
      /\ pc'[p] = IF scan[p] < MaxStrong THEN "scan" ELSE "claim"
      /\ \A t \in Threads \ {p} : pc'[t] = pc[t]
      /\ \A q \in Producers \ {p} : scan'[q] = scan[q]
  BY DEF PassHead, Goto, ring
<1>2. PutInv'
  <2>1. /\ index[p] = tail_index /\ scan[p] \in Nat /\ scan[p] <= MaxStrong
        /\ \A h \in Heads : h < scan[p] /\ Heeded(h) =>
             tail_index + 1 <= heads[h] + Size - 1
    BY <1>1 DEF PutInv, Putting, PutLabels
  <2>2. scan[p] \in Heads
    BY <2>1, Indices DEF Heads
  <2>3. ASSUME Heeded(scan[p])
        PROVE  tail_index + 1 <= heads[scan[p]] + Size - 1
    <3>1. mod_len(tail_index + 1) # mod_len(heads[scan[p]])
      BY <1>1, <2>1, <2>3 DEF HeadBlocks, Heeded
    <3>2. heads[scan[p]] \in Int
      BY <2>2, Indices
    <3>3. tail_index + 1 # heads[scan[p]] + Size
      BY <3>1, <3>2, NextLap
    <3>4. tail_index <= heads[scan[p]] + Size - 1
      BY <2>2, <2>3 DEF WindowInv
    <3>5. tail_index \in Int /\ Size \in Int
      BY Indices
    <3> HIDE DEF RingInv, HandleInv, ProtocolInv, TypeOK
    <3> QED
      BY <3>2, <3>3, <3>4, <3>5
  <2>4. \A h \in Heads : h < scan[p] + 1 /\ Heeded(h) =>
          tail_index + 1 <= heads[h] + Size - 1
    BY <2>1, <2>3, Indices
  <2>5. pc'[p] = "scan" <=> scan'[p] <= MaxStrong
    BY <1>1, <2>1, Indices
  <2>6. pc'[p] \in PutLabels
    BY <1>1 DEF PutLabels
  <2>7. ASSUME NEW q \in Producers \ {p}
        PROVE  /\ ~Putting(q)' => scan'[q] = 0
               /\ Putting(q)' =>
                    /\ index'[q] = tail_index'
                    /\ pc'[q] = "scan" <=> scan'[q] <= MaxStrong
                    /\ \A h \in Heads : h < scan'[q] /\ Heeded(h)' =>
                         tail_index' + 1 <= heads'[h] + Size - 1
    BY <1>1 DEF PutInv, Putting, Heeded
  <2> QED
    BY <1>1, <2>1, <2>4, <2>5, <2>6, <2>7 DEF PutInv, Putting, Heeded
<1>3. HeadInv' /\ WindowInv'
  BY <1>1 DEF HeadInv, AttachedStrong, WindowInv, Heeded
<1>4. AttachInv' /\ ContentInv'
  BY <1>1 DEF AttachInv, Receiving, CopyLabels, ContentInv
<1>5. TakeInv'
  BY <1>1 DEF TakeInv, Receiving, CopyLabels, Heeded, HeadOf
<1> QED
  BY <1>2, <1>3, <1>4, <1>5

(* The element being written holds none of the last Size - 1 rows.         *)
LEMMA WriteKeeps ==
  ASSUME RingInv, NEW p \in Producers, WriteLo(p) \/ WriteHi(p)
  PROVE  ProtocolInv'
<1> USE Roles DEF RingInv, HandleInv, ProtocolInv, TypeOK, Takers
<1>1. /\ UNCHANGED <<tail_index, heads, index, data, slot, scan>>
      /\ \A t \in Threads \ {p} : pc'[t] = pc[t]
      /\ \/ pc[p] = "write_lo" /\ pc'[p] = "write_hi"
            /\ buffer' = [buffer EXCEPT ![mod_len(index[p])].lo = index[p]]
         \/ pc[p] = "write_hi" /\ pc'[p] = "validate"
            /\ buffer' = [buffer EXCEPT ![mod_len(index[p])].hi = index[p]]
  BY DEF WriteLo, WriteHi, Goto
<1>2. /\ index[p] = tail_index /\ mod_len(tail_index) \in Slots
      /\ tail_index \in Nat /\ Size \in Nat
  BY <1>1, Indices, SlotOfIndex DEF PutInv, Putting, PutLabels
<1>3. ContentInv'
  <2>1. ASSUME NEW i \in 0 .. tail_index - 1, tail_index < i + Size
        PROVE  buffer'[mod_len(i)] = Row(i)
    <3>1. i # tail_index /\ i \in Int /\ i - tail_index < Size
          /\ tail_index - i < Size
      BY <1>2, <2>1
    <3>2. mod_len(i) # mod_len(tail_index)
      BY <1>2, <3>1, SameSlot
    <3>3. mod_len(i) \in Slots
      BY <3>1, SlotOfIndex
    <3>4. buffer'[mod_len(i)] = buffer[mod_len(i)]
      BY <1>1, <1>2, <3>2, <3>3
    <3> QED
      BY <2>1, <3>4 DEF ContentInv
  <2>2. /\ pc'[p] \in {"write_hi", "validate", "publish"} =>
             buffer'[mod_len(index[p])].lo = index[p]
        /\ pc'[p] \in {"validate", "publish"} =>
             buffer'[mod_len(index[p])].hi = index[p]
    BY <1>1, <1>2 DEF ContentInv, Payload
  <2>3. \A q \in Producers \ {p} : pc[q] = "out"
    BY <1>1 DEF SingleInv, Holding
  <2> QED
    BY <1>1, <2>1, <2>2, <2>3 DEF ContentInv
<1>4. PutInv'
  <2>1. scan[p] \in Nat /\ ~(scan[p] <= MaxStrong) /\ pc'[p] \in PutLabels
        /\ \A h \in Heads : h < scan[p] /\ Heeded(h) =>
             tail_index + 1 <= heads[h] + Size - 1
    BY <1>1 DEF PutInv, Putting, PutLabels
  <2>2. ASSUME NEW q \in Producers \ {p}
        PROVE  /\ ~Putting(q)' => scan'[q] = 0
               /\ Putting(q)' =>
                    /\ index'[q] = tail_index'
                    /\ pc'[q] = "scan" <=> scan'[q] <= MaxStrong
                    /\ \A h \in Heads : h < scan'[q] /\ Heeded(h)' =>
                         tail_index' + 1 <= heads'[h] + Size - 1
    BY <1>1 DEF PutInv, Putting, Heeded
  <2> QED
    BY <1>1, <1>2, <2>1, <2>2 DEF PutInv, Putting, Heeded
<1> QED
  BY <1>1, <1>3, <1>4 DEF HeadInv, AttachedStrong, WindowInv, Heeded,
    AttachInv, Receiving, CopyLabels, TakeInv, HeadOf

(* Publishing the row: every head was seen to leave room for it.           *)
LEMMA PublishKeeps ==
  ASSUME RingInv, NEW p \in Producers, Publish(p)
  PROVE  ProtocolInv'
<1> USE Roles DEF RingInv, HandleInv, ProtocolInv, TypeOK, Takers
<1>1. /\ UNCHANGED <<heads, buffer, index, data, slot>>
      /\ tail_index' = index[p] + 1 /\ scan'[p] = 0
      /\ pc[p] = "publish" /\ pc'[p] = "idle"
      /\ \A t \in Threads \ {p} : pc'[t] = pc[t]
      /\ \A q \in Producers \ {p} : scan'[q] = scan[q]
  BY DEF Publish, Goto
<1>2. /\ index[p] = tail_index /\ scan[p] \in Nat /\ ~(scan[p] <= MaxStrong)
      /\ \A h \in Heads : h < scan[p] /\ Heeded(h) =>
           tail_index + 1 <= heads[h] + Size - 1
  BY <1>1 DEF PutInv, Putting, PutLabels
<1>3. \A h \in Heads : Heeded(h) =>
        heads[h] <= tail_index /\ tail_index + 1 <= heads[h] + Size - 1
  BY <1>2, Indices DEF WindowInv, Heads
<1>4. WindowInv'
  BY <1>1, <1>2, <1>3, Indices DEF WindowInv, Heeded
<1>5. \A q \in Producers \ {p} : pc[q] = "out"
  BY <1>1 DEF SingleInv, Holding
<1>6. PutInv'
  BY <1>1, <1>5 DEF PutInv, Putting, PutLabels
<1>7. TakeInv'
  <2> SUFFICES ASSUME NEW r \in Takers, Receiving(r)', Heeded(HeadOf(r))'
               PROVE  /\ index[r] = heads[HeadOf(r)]
                      /\ index[r] < tail_index + 1
                      /\ pc[r] \in {"read_hi", "copied"} => data[r].lo = index[r]
                      /\ pc[r] = "copied" => data[r].hi = index[r]
    BY <1>1, <1>2 DEF TakeInv, HeadOf
  <2>1. Receiving(r) /\ Heeded(HeadOf(r))
    BY <1>1 DEF Receiving, Heeded, HeadOf
  <2>2. index[r] < tail_index /\ index[r] \in Int
    BY <2>1, Indices DEF TakeInv
  <2>3. /\ index[r] = heads[HeadOf(r)]
        /\ pc[r] \in {"read_hi", "copied"} => data[r].lo = index[r]
        /\ pc[r] = "copied" => data[r].hi = index[r]
    BY <2>1 DEF TakeInv
  <2>4. index[r] < tail_index + 1
    BY <2>2, Indices
  <2> QED
    BY <2>3, <2>4
<1>8. ContentInv'
  <2>1. mod_len(tail_index) \in Slots
    BY Indices, SlotOfIndex
  <2>2. buffer[mod_len(tail_index)] = Row(tail_index)
    BY <1>1, <1>2, <2>1 DEF ContentInv, Payload, Row
  <2>3. \A i \in 0 .. tail_index : tail_index + 1 < i + Size =>
          buffer[mod_len(i)] = Row(i)
    <3> TAKE i \in 0 .. tail_index
    <3> HAVE tail_index + 1 < i + Size
    <3>1. CASE i = tail_index
      BY <2>2, <3>1
    <3>2. CASE i # tail_index
      <4>1. i \in 0 .. tail_index - 1 /\ tail_index < i + Size
        BY <3>2, Indices
      <4> QED
        BY <4>1 DEF ContentInv
    <3> QED
      BY <3>1, <3>2
  <2>4. tail_index' - 1 = tail_index /\ tail_index' = tail_index + 1
    BY <1>1, <1>2, Indices
  <2>5. \A q \in Producers : pc'[q] \in {"idle", "out"}
    BY <1>1, <1>5
  <2> QED
    BY <1>1, <2>3, <2>4, <2>5 DEF ContentInv
<1> QED
  BY <1>1, <1>4, <1>6, <1>7, <1>8 DEF HeadInv, AttachedStrong, AttachInv,
    Receiving, CopyLabels

(* A reader past the empty check: its head is behind the tail.             *)
LEMMA TakeSomeKeeps ==
  ASSUME RingInv, NEW r \in Takers, TakeSome(r)
  PROVE  ProtocolInv'
<1> USE Roles DEF RingInv, HandleInv, ProtocolInv, TypeOK
<1>1. /\ UNCHANGED <<tail_index, heads, buffer, scan, data, slot>>
      /\ pc[r] = "idle" /\ pc'[r] = "read_lo" /\ MayTake(r) /\ ~Empty(r)
      /\ index'[r] = heads[HeadOf(r)]
      /\ \A t \in Threads \ {r} : pc'[t] = pc[t] /\ index'[t] = index[t]
  BY DEF TakeSome, Goto, ring, Takers
<1>2. HeadOf(r) \in Heads
  BY HeadOfTaker
<1>3. TakeInv'
  <2>1. heads[HeadOf(r)] # tail_index
    BY <1>1 DEF Empty
  <2>2. Heeded(HeadOf(r)) => heads[HeadOf(r)] < tail_index
    BY <1>2, <2>1, Indices DEF WindowInv
  <2>3. ASSUME NEW q \in Takers \ {r}, Receiving(q)', Heeded(HeadOf(q))'
        PROVE  /\ index'[q] = heads'[HeadOf(q)']
               /\ index'[q] < tail_index'
               /\ pc'[q] \in {"read_hi", "copied"} => data'[q].lo = index'[q]
               /\ pc'[q] = "copied" => data'[q].hi = index'[q]
    <3>1. q \in Threads \ {r}
      BY DEF Takers
    <3>2. Receiving(q) /\ Heeded(HeadOf(q)) /\ HeadOf(q)' = HeadOf(q)
      BY <1>1, <2>3, <3>1 DEF Receiving, Heeded, HeadOf
    <3> QED
      BY <1>1, <3>1, <3>2 DEF TakeInv
  <2> QED
    BY <1>1, <2>2, <2>3 DEF TakeInv, HeadOf, Heeded
<1>4. AttachInv'
  BY <1>1 DEF AttachInv, Receiving, CopyLabels, MayTake, LockFree, Takers
<1>5. PutInv' /\ ContentInv'
  <2>1. \A p \in Producers : pc'[p] = pc[p] /\ index'[p] = index[p]
    BY <1>1
  <2> QED
    BY <1>1, <2>1 DEF PutInv, Putting, Heeded, ContentInv
<1>6. HeadInv' /\ WindowInv'
  BY <1>1 DEF HeadInv, AttachedStrong, WindowInv, Heeded
<1> QED
  BY <1>3, <1>4, <1>5, <1>6

(* What is copied is the row at the head.                                  *)
LEMMA ReadKeeps ==
  ASSUME RingInv, NEW r \in Readers, ReadLo(r) \/ ReadHi(r)
  PROVE  ProtocolInv'
<1> USE Roles DEF RingInv, HandleInv, ProtocolInv, TypeOK
<1>1. /\ UNCHANGED <<tail_index, heads, buffer, scan, slot, index>>
      /\ \A t \in Threads \ {r} : pc'[t] = pc[t]
      /\ \A q \in Readers \ {r} : data'[q] = data[q]
      /\ \/ pc[r] = "read_lo" /\ pc'[r] = "read_hi"
            /\ data' = [data EXCEPT ![r].lo = buffer[mod_len(index[r])].lo]
         \/ pc[r] = "read_hi" /\ pc'[r] = "copied"
            /\ data' = [data EXCEPT ![r].hi = buffer[mod_len(index[r])].hi]
  <2>1. CASE ReadLo(r)
    BY <2>1, ThreadTypes DEF ReadLo, Goto, ring
  <2>2. CASE ReadHi(r)
    BY <2>2, ThreadTypes DEF ReadHi, Goto, ring
  <2> QED
    BY <2>1, <2>2
<1>2. r \in Threads
  BY DEF Threads
<1>3. TakeInv'
  <2> SUFFICES ASSUME NEW q \in Takers, Receiving(q)', Heeded(HeadOf(q))'
               PROVE  /\ index[q] = heads[HeadOf(q)]
                      /\ index[q] < tail_index
                      /\ pc'[q] \in {"read_hi", "copied"} => data'[q].lo = index[q]
                      /\ pc'[q] = "copied" => data'[q].hi = index[q]
    BY <1>1 DEF TakeInv, HeadOf
  <2>1. q \in Readers /\ q \in Threads
    BY DEF Readers, Threads
  <2>2. Receiving(q) /\ Heeded(HeadOf(q))
    BY <1>1, <2>1 DEF Receiving, CopyLabels, Heeded, HeadOf
  <2>3. index[q] = heads[HeadOf(q)] /\ index[q] < tail_index
    BY <2>2 DEF TakeInv
  <2>4. CASE q = r
    <3>1. buffer[mod_len(index[r])] = [lo |-> index[r], hi |-> index[r]]
      BY <2>2, <2>4, RowInPlace DEF Row
    <3>2. data[r] \in Payload
      BY <2>1, <2>4
    <3> QED
      BY <1>1, <1>2, <2>2, <2>3, <2>4, <3>1, <3>2 DEF TakeInv, Payload
  <2>5. CASE q # r
    BY <1>1, <2>1, <2>2, <2>3, <2>5 DEF TakeInv
  <2> QED
    BY <2>4, <2>5
<1>4. AttachInv'
  BY <1>1, <1>2 DEF AttachInv, Receiving, CopyLabels, Takers
<1>5. PutInv' /\ ContentInv'
  <2>1. \A p \in Producers : pc'[p] = pc[p]
    BY <1>1, Roles DEF Readers
  <2> QED
    BY <1>1, <2>1 DEF PutInv, Putting, Heeded, ContentInv
<1>6. HeadInv'
  BY <1>1, Roles DEF HeadInv, AttachedStrong
<1> QED
  BY <1>1, <1>3, <1>4, <1>5, <1>6 DEF WindowInv, Heeded

(* Moving a head releases one row and touches nobody else's head.          *)
LEMMA AdvanceKeeps ==
  ASSUME RingInv, NEW r \in Takers, Advance(r)
  PROVE  ProtocolInv'
<1> DEFINE h == HeadOf(r)
<1>1. /\ UNCHANGED <<tail_index, buffer, scan, slot, index>>
      /\ pc[r] = "copied" /\ pc'[r] = "idle"
      /\ heads' = [heads EXCEPT ![h] = index[r] + 1]
      /\ \A t \in Threads \ {r} : pc'[t] = pc[t]
      /\ \A q \in Readers \ {r} : data'[q] = data[q]
  BY ThreadTypes DEF RingInv, HandleInv, TypeOK, Advance, Return, Goto
<1>2. /\ h \in Heads /\ r \in Threads /\ Receiving(r)
      /\ \A k \in Heads : heads'[k] = IF k = h THEN index[r] + 1 ELSE heads[k]
  BY <1>1, HeadOfTaker, ThreadTypes DEF RingInv, HandleInv, TypeOK, Receiving,
    CopyLabels
<1>3. heads[h] # UsizeMax /\ heads'[h] \in Nat /\ heads'[h] # UsizeMax
  <2>1. heads[h] # UsizeMax
    BY <1>1, Roles DEF RingInv, ProtocolInv, HeadInv, AttachedStrong, HeadOf,
      Takers
  <2> QED
    BY <1>1, <1>2, <2>1, Indices DEF UsizeMax
<1>4. \A k \in Heads : /\ Heeded(k)' <=> Heeded(k)
                       /\ heads'[k] = UsizeMax <=> heads[k] = UsizeMax
  BY <1>2, <1>3 DEF Heeded
<1>5. Heeded(h) => /\ index[r] = heads[h] /\ heads'[h] = heads[h] + 1
                   /\ heads[h] < tail_index
  BY <1>1, <1>2 DEF RingInv, ProtocolInv, TakeInv
<1>6. HeadInv'
  <2>1. 0 \in Heads /\ \A o \in StrongObservers : slot[o] \in Heads
    BY Indices
  <2>2. \A o \in StrongObservers : AttachedStrong(o)' <=> AttachedStrong(o)
    BY <1>1, Roles DEF AttachedStrong
  <2> QED
    BY <1>1, <1>4, <2>1, <2>2 DEF RingInv, ProtocolInv, HeadInv
<1>7. WindowInv'
  <2> SUFFICES ASSUME NEW k \in Heads, Heeded(k)
               PROVE  heads'[k] <= tail_index /\ tail_index <= heads'[k] + Size - 1
    BY <1>1, <1>4 DEF WindowInv
  <2>1. heads[k] <= tail_index /\ tail_index <= heads[k] + Size - 1
    BY DEF RingInv, ProtocolInv, WindowInv
  <2> QED
    BY <1>2, <1>5, <2>1, Indices
<1>8. AttachInv'
  <2>1. CASE r \in Consumers
    <3>1. ~AttachWhileTaking => \A o \in StrongObservers : pc[o] # "attaching"
      BY <1>2, <2>1 DEF RingInv, ProtocolInv, AttachInv
    <3> QED
      BY <1>1, <2>1, <3>1, Roles DEF RingInv, ProtocolInv, AttachInv
  <2>2. CASE r \in StrongObservers
    <3>1. slot[r] \in 1 .. MaxStrong /\ h = slot[r]
      BY <1>1, <2>2, Roles, Indices DEF Holding, HeadOf
    <3>2. heads'[0] = heads[0]
      BY <1>2, <3>1, Indices
    <3>3. \A c \in Consumers : Receiving(c)' <=> Receiving(c)
      BY <1>1, <2>2, Roles DEF Receiving
    <3> QED
      BY <1>1, <2>2, <3>2, <3>3, Roles DEF RingInv, ProtocolInv, AttachInv
  <2> QED
    BY <2>1, <2>2 DEF Takers
<1>9. PutInv'
  <2>1. \A p \in Producers : pc'[p] = pc[p]
    BY <1>1, Roles
  <2>2. ASSUME NEW k \in Heads, Heeded(k), tail_index + 1 <= heads[k] + Size - 1
        PROVE  tail_index + 1 <= heads'[k] + Size - 1
    BY <1>2, <1>5, <2>2, Indices
  <2> QED
    BY <1>1, <1>4, <2>1, <2>2 DEF RingInv, ProtocolInv, PutInv, Putting
<1>10. TakeInv'
  <2> SUFFICES ASSUME NEW q \in Takers, Receiving(q)', Heeded(HeadOf(q))'
               PROVE  /\ index[q] = heads'[HeadOf(q)]
                      /\ index[q] < tail_index
                      /\ pc'[q] \in {"read_hi", "copied"} => data'[q].lo = index[q]
                      /\ pc'[q] = "copied" => data'[q].hi = index[q]
    BY <1>1 DEF TakeInv, HeadOf
  <2>1. q # r /\ q \in Readers /\ q \in Threads
    BY <1>1, ThreadTypes DEF Receiving, CopyLabels
  <2>2. Receiving(q) /\ HeadOf(q) \in Heads /\ HeadOf(q)' = HeadOf(q)
    BY <1>1, <2>1, HeadOfTaker DEF Receiving, HeadOf, RingInv, HandleInv
  <2>3. HeadOf(q) # h
    BY <1>2, <2>1, <2>2, OwnHead DEF Receiving, CopyLabels
  <2> QED
    BY <1>1, <1>2, <1>4, <2>1, <2>2, <2>3 DEF RingInv, ProtocolInv, TakeInv
<1>11. ContentInv'
  BY <1>1, Roles DEF RingInv, ProtocolInv, ContentInv
<1> QED
  BY <1>6, <1>7, <1>8, <1>9, <1>10, <1>11 DEF ProtocolInv

(* A new observer's slot belongs to nobody else.                           *)
LEMMA AttachStrongLoadKeeps ==
  ASSUME RingInv, NEW o \in StrongObservers, AttachStrongLoad(o)
  PROVE  ProtocolInv'
<1> USE Roles DEF RingInv, HandleInv, ProtocolInv, TypeOK
<1>1. /\ UNCHANGED <<tail_index, heads, buffer, scan, data>>
      /\ pc[o] = "out" /\ pc'[o] = "attaching" /\ index'[o] = heads[0]
      /\ LockFree
      /\ AttachWhileTaking
           \/ \A c \in Consumers : pc[c] \in {"out", "idle"}
      /\ \A t \in Threads \ {o} : pc'[t] = pc[t] /\ index'[t] = index[t]
      /\ \A u \in StrongObservers \ {o} : slot'[u] = slot[u]
  BY DEF AttachStrongLoad, Goto, ring
<1>2. AttachInv'
  BY <1>1 DEF AttachInv, Receiving, CopyLabels, LockFree, HeadInv
<1>3. PutInv' /\ ContentInv'
  <2>1. \A p \in Producers : pc'[p] = pc[p] /\ index'[p] = index[p]
    BY <1>1
  <2> QED
    BY <1>1, <2>1 DEF PutInv, Putting, Heeded, ContentInv
<1>4. TakeInv'
  BY <1>1 DEF TakeInv, Receiving, CopyLabels, Heeded, HeadOf, Takers
<1> QED
  BY <1>1, <1>2, <1>3, <1>4 DEF HeadInv, AttachedStrong, WindowInv, Heeded

(* The observer's head enters the window where the consumer's head is.     *)
LEMMA AttachStrongStoreKeeps ==
  ASSUME RingInv, NEW o \in StrongObservers, AttachStrongStore(o)
  PROVE  ProtocolInv'
<1>1. /\ UNCHANGED <<tail_index, buffer, scan, data, slot, index>>
      /\ pc[o] = "attaching" /\ pc'[o] = "idle"
      /\ \A t \in Threads \ {o} : pc'[t] = pc[t]
      /\ heads' = [heads EXCEPT ![slot[o]] = index[o]]
  BY Roles DEF RingInv, HandleInv, TypeOK, AttachStrongStore, Goto, registry
<1>2. slot[o] \in 1 .. MaxStrong /\ slot[o] \in Heads /\ o \in Threads
  BY <1>1, Indices, Roles DEF Holding
<1>3. \A k \in Heads : heads'[k] = IF k = slot[o] THEN index[o] ELSE heads[k]
  BY <1>1 DEF RingInv, HandleInv, TypeOK
<1>4. /\ index[o] # UsizeMax
      /\ ~AttachWhileTaking =>
           /\ index[o] = heads[0]
           /\ \A c \in Consumers : ~Receiving(c)
  BY <1>1 DEF RingInv, ProtocolInv, AttachInv
<1>5. \A k \in Heads : Heeded(k)' =>
        heads'[k] = heads[IF k = slot[o] THEN 0 ELSE k]
        /\ Heeded(IF k = slot[o] THEN 0 ELSE k)
  BY <1>2, <1>3, <1>4, Indices DEF Heeded, RingInv, ProtocolInv, HeadInv
<1>6. HeadInv'
  <2>1. heads'[0] = heads[0]
    BY <1>2, <1>3, Indices
  <2>2. ASSUME NEW u \in StrongObservers, AttachedStrong(u)'
        PROVE  heads'[slot[u]] # UsizeMax
    BY <1>1, <1>2, <1>3, <1>4, <2>2, Indices, Roles
    DEF AttachedStrong, RingInv, ProtocolInv, HeadInv
  <2> QED
    BY <1>1, <2>1, <2>2 DEF RingInv, ProtocolInv, HeadInv
<1>7. WindowInv'
  BY <1>1, <1>5, Indices DEF RingInv, ProtocolInv, WindowInv
<1>8. AttachInv'
  <2>1. \A u \in StrongObservers : pc'[u] # "attaching"
    BY <1>1, Roles DEF RingInv, HandleInv, SingleInv
  <2> QED
    BY <2>1 DEF AttachInv
<1>9. PutInv'
  <2>1. \A p \in Producers : pc'[p] = pc[p]
    BY <1>1, Roles
  <2>2. ASSUME NEW p \in Producers, Putting(p), NEW k \in Heads, k < scan[p],
               Heeded(k)'
        PROVE  tail_index + 1 <= heads'[k] + Size - 1
    <3>1. scan[p] \in Nat
      BY DEF RingInv, HandleInv, TypeOK
    <3>2. (IF k = slot[o] THEN 0 ELSE k) < scan[p]
      BY <1>2, <2>2, <3>1, Indices
    <3>3. (IF k = slot[o] THEN 0 ELSE k) \in Heads
      BY Indices
    <3> QED
      BY <1>5, <2>2, <3>2, <3>3 DEF RingInv, ProtocolInv, PutInv
  <2> QED
    BY <1>1, <2>1, <2>2 DEF RingInv, ProtocolInv, PutInv, Putting
<1>10. TakeInv'
  <2> SUFFICES ASSUME NEW r \in Takers, Receiving(r)', Heeded(HeadOf(r))'
               PROVE  /\ index[r] = heads'[HeadOf(r)]
                      /\ index[r] < tail_index
                      /\ pc'[r] \in {"read_hi", "copied"} => data[r].lo = index[r]
                      /\ pc'[r] = "copied" => data[r].hi = index[r]
    BY <1>1 DEF TakeInv, HeadOf
  <2>1. r # o /\ r \in Threads
    BY <1>1, ThreadTypes DEF Receiving, CopyLabels
  <2>2. Receiving(r) /\ HeadOf(r)' = HeadOf(r) /\ HeadOf(r) \in Heads
    BY <1>1, <2>1, HeadOfTaker DEF Receiving, HeadOf, RingInv, HandleInv
  <2>3. HeadOf(r) # slot[o]
    <3>1. CASE r \in Consumers
      BY <1>2, <3>1 DEF HeadOf
    <3>2. CASE r \in StrongObservers
      BY <1>1, <2>1, <2>2, <3>2, Roles DEF HeadOf, Receiving, CopyLabels, Holding,
        RingInv, HandleInv, SlotInv, DistinctSlots
    <3> QED
      BY <3>1, <3>2 DEF Takers
  <2>4. Heeded(HeadOf(r)) /\ heads'[HeadOf(r)] = heads[HeadOf(r)]
    BY <1>5, <2>2, <2>3
  <2> QED
    BY <1>1, <2>1, <2>2, <2>4 DEF RingInv, ProtocolInv, TakeInv
<1>11. ContentInv'
  BY <1>1, Roles DEF RingInv, ProtocolInv, ContentInv
<1> QED
  BY <1>6, <1>7, <1>8, <1>9, <1>10, <1>11 DEF ProtocolInv

(* A dropped head is no one else's, and no longer holds the producer back. *)
LEMMA DropStrongKeeps ==
  ASSUME RingInv, NEW o \in StrongObservers, DropStrong(o)
  PROVE  ProtocolInv'
<1> USE Roles DEF RingInv, HandleInv, ProtocolInv, TypeOK
<1>1. /\ UNCHANGED <<tail_index, buffer, scan, data, slot, index>>
      /\ pc[o] = "idle" /\ pc'[o] = "out"
      /\ \A t \in Threads \ {o} : pc'[t] = pc[t]
      /\ heads' = [heads EXCEPT ![slot[o]] = UsizeMax]
  BY DEF DropStrong, Goto
<1>2. slot[o] \in 1 .. MaxStrong /\ slot[o] \in Heads
  BY <1>1, Indices DEF Holding
<1>3. /\ \A k \in Heads : heads'[k] = IF k = slot[o] THEN UsizeMax ELSE heads[k]
      /\ heads'[0] = heads[0]
  BY <1>1, <1>2, Indices
<1>4. HeadInv'
  <2>1. ASSUME NEW u \in StrongObservers, AttachedStrong(u)'
        PROVE  heads'[slot[u]] # UsizeMax
    <3>1. u # o /\ AttachedStrong(u)
      BY <1>1, <2>1 DEF AttachedStrong
    <3>2. slot[u] # slot[o] /\ slot[u] \in Heads
      BY <1>1, <3>1, Indices DEF AttachedStrong, SlotInv, DistinctSlots, Holding
    <3> QED
      BY <1>3, <3>1, <3>2 DEF HeadInv
  <2> QED
    BY <1>1, <1>3, <2>1 DEF HeadInv
<1>5. AttachInv'
  BY <1>1, <1>3 DEF AttachInv, Receiving, CopyLabels
<1>6. WindowInv' /\ PutInv' /\ ContentInv'
  <2>1. \A k \in Heads : Heeded(k)' => Heeded(k) /\ heads'[k] = heads[k]
    BY <1>3 DEF Heeded
  <2>2. \A p \in Producers : pc'[p] = pc[p]
    BY <1>1
  <2>3. WindowInv'
    BY <1>1, <2>1 DEF WindowInv
  <2>4. PutInv'
    BY <1>1, <2>1, <2>2 DEF PutInv, Putting
  <2>5. ContentInv'
    BY <1>1, <2>2 DEF ContentInv
  <2> QED
    BY <2>3, <2>4, <2>5
<1>7. TakeInv'
  <2> SUFFICES ASSUME NEW r \in Takers, Receiving(r)', Heeded(HeadOf(r))'
               PROVE  /\ index[r] = heads'[HeadOf(r)]
                      /\ index[r] < tail_index
                      /\ pc'[r] \in {"read_hi", "copied"} =>
                           data[r].lo = index[r]
                      /\ pc'[r] = "copied" => data[r].hi = index[r]
    BY <1>1 DEF TakeInv, HeadOf
  <2>1. r # o /\ r \in Threads
    BY <1>1, ThreadTypes DEF Receiving, CopyLabels
  <2>2. Receiving(r) /\ HeadOf(r)' = HeadOf(r) /\ HeadOf(r) \in Heads
    BY <1>1, <2>1, HeadOfTaker DEF Receiving, HeadOf
  <2>3. Heeded(HeadOf(r)) /\ heads'[HeadOf(r)] = heads[HeadOf(r)]
    BY <1>3, <2>2 DEF Heeded
  <2> QED
    BY <1>1, <2>1, <2>2, <2>3 DEF TakeInv
<1> QED
  BY <1>4, <1>5, <1>6, <1>7

(* The calls of weak observers touch nothing that the others rely on.      *)
LEMMA WeakCallKeeps ==
  ASSUME RingInv, NEW w \in WeakObservers,
         Leave(w) \/ \E i \in 0 .. MaxRows : CallWeakObserve(w, i)
  PROVE  ProtocolInv'
<1>1. /\ UNCHANGED <<tail_index, heads, buffer, scan, slot>>
      /\ \A t \in Threads \ {w} : pc'[t] = pc[t] /\ index'[t] = index[t]
      /\ \A r \in Readers \ {w} : data'[r] = data[r]
  BY DEF CallWeakObserve, Leave, Return, Goto, ring, RingInv, HandleInv, TypeOK
<1>2. /\ \A p \in Producers : pc'[p] = pc[p] /\ index'[p] = index[p]
      /\ \A r \in Takers : pc'[r] = pc[r] /\ index'[r] = index[r]
                           /\ data'[r] = data[r]
  BY <1>1, Roles, ThreadTypes
<1>3. HeadInv' /\ WindowInv' /\ AttachInv'
  BY <1>1, <1>2 DEF RingInv, ProtocolInv, HeadInv, AttachedStrong, WindowInv,
    Heeded, AttachInv, Receiving, Takers
<1>4. PutInv' /\ ContentInv'
  BY <1>1, <1>2 DEF RingInv, ProtocolInv, PutInv, Putting, Heeded, ContentInv
<1>5. TakeInv'
  BY <1>1, <1>2 DEF RingInv, ProtocolInv, TakeInv, Receiving, Heeded, HeadOf
<1> QED
  BY <1>3, <1>4, <1>5 DEF ProtocolInv

(* The remaining steps only move a thread to its next label, or hand over  *)
(* a handle that is not a strong observer's.                               *)
LEMMA QuietKeeps ==
  ASSUME RingInv,
         \/ \E p \in Producers : Claim(p) \/ Validate(p) \/ AttachProducer(p)
                                   \/ DropProducer(p)
         \/ \E r \in Takers : TakeNone(r)
         \/ \E c \in Consumers : AttachConsumer(c) \/ DropConsumer(c)
         \/ \E w \in WeakObservers :
              \/ \E i \in 0 .. MaxRows : CallWeakObserve(w, i)
              \/ Enter(w) \/ Leave(w) \/ AttachWeak(w) \/ DropWeak(w)
         \/ UNCHANGED vars
  PROVE  ProtocolInv'
<1> USE ConfigAssumption, Roles DEF RingInv, HandleInv, ProtocolInv, TypeOK,
      Takers, Readers, HeadInv, AttachedStrong, WindowInv, Heeded, AttachInv,
      Receiving, CopyLabels, PutInv, Putting, PutLabels, TakeInv, HeadOf,
      ContentInv
<1>1. ASSUME NEW p \in Producers, Claim(p) PROVE ProtocolInv'
  BY <1>1 DEF Claim, Goto, registry
<1>2. ASSUME NEW p \in Producers, Validate(p) PROVE ProtocolInv'
  BY <1>2 DEF Validate, Goto, registry
<1>3. ASSUME NEW r \in Takers, TakeNone(r) PROVE ProtocolInv'
  BY <1>3 DEF TakeNone, Return, Goto, ring, registry
<1>4. ASSUME NEW w \in WeakObservers, Enter(w) PROVE ProtocolInv'
  BY <1>4 DEF Enter, Goto, registry
<1>5. ASSUME NEW w \in WeakObservers,
             Leave(w) \/ \E i \in 0 .. MaxRows : CallWeakObserve(w, i)
      PROVE  ProtocolInv'
  BY <1>5, WeakCallKeeps
<1>6. ASSUME NEW p \in Producers, AttachProducer(p) PROVE ProtocolInv'
  BY <1>6 DEF AttachProducer, Goto, ring
<1>7. ASSUME NEW p \in Producers, DropProducer(p) PROVE ProtocolInv'
  BY <1>7 DEF DropProducer, Goto, ring
<1>8. ASSUME NEW c \in Consumers, AttachConsumer(c) PROVE ProtocolInv'
  BY <1>8 DEF AttachConsumer, Goto, ring
<1>9. ASSUME NEW c \in Consumers, DropConsumer(c) PROVE ProtocolInv'
  BY <1>9 DEF DropConsumer, Goto, ring
<1>10. ASSUME NEW w \in WeakObservers, AttachWeak(w) PROVE ProtocolInv'
  BY <1>10 DEF AttachWeak, Goto, ring
<1>11. ASSUME NEW w \in WeakObservers, DropWeak(w) PROVE ProtocolInv'
  BY <1>11 DEF DropWeak, Goto, ring
<1>12. CASE UNCHANGED vars
  BY <1>12 DEF vars
<1> QED
  BY <1>1, <1>2, <1>3, <1>4, <1>5, <1>6, <1>7, <1>8, <1>9, <1>10, <1>11,
     <1>12
(***************************************************************************)
(* The invariant.                                                          *)
(***************************************************************************)
LEMMA RingInit == Init => RingInv
<1> SUFFICES ASSUME Init PROVE RingInv
  OBVIOUS
<1> USE ConfigAssumption DEF Init
<1>1. TypeOK
  BY TypeInit
<1>2. LabelInv /\ SingleInv
  BY Roles DEF LabelInv, SingleInv, Holding
<1>3. SlotInv
  <2>1. /\ Len(free_strong_observer_heads) = MaxStrong
        /\ \A k \in 1 .. MaxStrong : free_strong_observer_heads[k] = k
    OBVIOUS
  <2> QED
    BY <2>1, Roles DEF SlotInv, DistinctSlots, Holding
<1>4. HeadInv /\ AttachInv /\ TakeInv
  BY Roles DEF HeadInv, AttachedStrong, AttachInv, TakeInv, Receiving,
    CopyLabels, Takers, Heads, UsizeMax
<1>5. WindowInv
  <2>1. \A h \in Heads : Heeded(h) => heads[h] = 0
    BY DEF Heeded, Heads
  <2>2. tail_index = 0 /\ 0 <= 0 + Size - 1
    OBVIOUS
  <2> HIDE DEF Init
  <2> QED
    BY <2>1, <2>2 DEF WindowInv
<1>6. PutInv
  BY Roles DEF PutInv, Putting, PutLabels
<1>7. ContentInv
  <2>1. 0 .. tail_index - 1 = {}
    OBVIOUS
  <2> QED
    BY <2>1, Roles DEF ContentInv
<1> QED
  BY <1>1, <1>2, <1>3, <1>4, <1>5, <1>6, <1>7 DEF RingInv, HandleInv, ProtocolInv

LEMMA RingStep == RingInv /\ [Next]_vars => RingInv'
<1> SUFFICES ASSUME RingInv, [Next]_vars PROVE RingInv'
  OBVIOUS
<1>1. HandleInv'
  BY TypeStep, LabelStep, SingleStep, SlotStep DEF RingInv, HandleInv
<1>2. ProtocolInv'
  BY CallPutKeeps, TableFullKeeps, PassHeadKeeps, WriteKeeps, PublishKeeps,
     TakeSomeKeeps, ReadKeeps, AdvanceKeeps, AttachStrongLoadKeeps,
     AttachStrongStoreKeeps, DropStrongKeeps, QuietKeeps, ThreadTypes
  DEF Next, PutSteps, TakeSteps, WeakSteps
<1> QED
  BY <1>1, <1>2 DEF RingInv

(* The protocol invariant of the ring: handles are exclusive, every heeded *)
(* head is at most Size - 1 rows behind the tail, a passed full check      *)
(* stays true while readers run, and the rows between head and tail are    *)
(* whole in their elements.                                                *)
THEOREM RingCorrect == Spec => []RingInv
  BY RingInit, RingStep, PTL DEF Spec

(* Equal slots mean equal indices: a reader is less than a lap behind.     *)
LEMMA EmptyState ==
  ASSUME ~AttachWhileTaking, RingInv
  PROVE  EmptyIsReal
<1> SUFFICES ASSUME NEW r \in Takers, Empty(r),
                    pc[r] \in {"idle", "read_lo", "read_hi", "copied"}
             PROVE  heads[HeadOf(r)] = tail_index
  BY DEF EmptyIsReal
<1>1. HeadOf(r) \in Heads
  BY HeadOfTaker DEF RingInv, HandleInv
<1>2. heads[HeadOf(r)] # UsizeMax
  BY DEF RingInv, ProtocolInv, HeadInv, AttachedStrong, HeadOf, Takers
<1>3. /\ heads[HeadOf(r)] <= tail_index
      /\ tail_index <= heads[HeadOf(r)] + Size - 1
  BY <1>1, <1>2 DEF RingInv, ProtocolInv, WindowInv, Heeded
<1>4. heads[HeadOf(r)] \in Int /\ tail_index \in Int /\ Size \in Int
  BY <1>1, Indices
<1>5. /\ heads[HeadOf(r)] - tail_index < Size
      /\ tail_index - heads[HeadOf(r)] < Size
  BY <1>3, <1>4, ConfigAssumption
<1> QED
  BY <1>4, <1>5, SameSlot DEF Empty

(* The debug assertion of try_take_for_head can not fail, if observers     *)
(* attach while no consumer is in a call.                                  *)
THEOREM EmptyCorrect ==
  ASSUME ~AttachWhileTaking
  PROVE  Spec => []EmptyIsReal
  BY EmptyState, RingCorrect, PTL

(* Rows are consumed one at a time and in order, each delivered whole to   *)
(* exactly one consumer, whoever holds the handle and however strong       *)
(* observers attach.                                                       *)
THEOREM ConsumerCorrect == Spec => ConsumerExactlyOnce
<1> DEFINE Moved ==
      /\ heads'[0] # heads[0] =>
           /\ heads'[0] = heads[0] + 1
           /\ \E c \in Consumers : result' = [result EXCEPT ![c] = Row(heads[0])]
      /\ \A c \in Consumers :
           result'[c] \notin {result[c], None} => heads'[0] # heads[0]
<1>1. ASSUME RingInv, NEW c \in Consumers, Advance(c) PROVE Moved
  <2>1. HeadOf(c) = 0 /\ Receiving(c) /\ c \in Takers
    BY <1>1, ThreadTypes DEF HeadOf, Advance, Receiving, CopyLabels
  <2>2. index[c] = heads[0] /\ data[c].lo = index[c] /\ data[c].hi = index[c]
    BY <1>1, <2>1 DEF RingInv, ProtocolInv, TakeInv, Heeded, HeadInv, Advance
  <2>3. data[c] = Row(heads[0])
    BY <1>1, <2>2, ThreadTypes DEF RingInv, HandleInv, TypeOK, Payload, Row
  <2>4. heads'[0] = heads[0] + 1 /\ heads[0] \in Nat
    BY <1>1, <2>1, <2>2, Indices DEF Advance, RingInv, HandleInv, TypeOK
  <2>5. result' = [result EXCEPT ![c] = Row(heads[0])]
    BY <1>1, <2>3 DEF Advance, Return
  <2>6. heads'[0] # heads[0]
    BY <2>4
  <2> QED
    BY <2>4, <2>5, <2>6
<1>2. ASSUME RingInv, NEW o \in StrongObservers,
             Advance(o) \/ AttachStrongStore(o) \/ DropStrong(o)
      PROVE  heads'[0] = heads[0] /\ \A c \in Consumers : result'[c] = result[c]
  <2>1. slot[o] \in 1 .. MaxStrong /\ HeadOf(o) = slot[o]
    BY <1>2, Roles, Indices
    DEF Advance, AttachStrongStore, DropStrong, Holding, HeadOf
  <2> QED
    BY <1>2, <2>1, Indices, Roles, ThreadTypes
    DEF Advance, AttachStrongStore, DropStrong, Return, RingInv, HandleInv, TypeOK
<1>3. ASSUME RingInv, NEW r \in Takers, TakeNone(r)
      PROVE  heads' = heads /\ \A c \in Consumers : result'[c] \in {result[c], None}
  BY <1>3, ThreadTypes DEF TakeNone, Return, ring, RingInv, HandleInv, TypeOK
<1>4. ASSUME RingInv, NEW w \in WeakObservers,
             Leave(w) \/ \E i \in 0 .. MaxRows : CallWeakObserve(w, i)
      PROVE  heads' = heads /\ \A c \in Consumers : result'[c] = result[c]
  BY <1>4, Roles, ThreadTypes
  DEF CallWeakObserve, Leave, Return, ring, RingInv, HandleInv, TypeOK
<1>5. ASSUME RingInv, Next, ~Moved
      PROVE  FALSE
  <2>1. ASSUME UNCHANGED <<heads, result>> PROVE FALSE
    BY <1>5, <2>1
  <2>2. CASE \E p \in Producers : PutSteps(p) \/ AttachProducer(p) \/ DropProducer(p)
    BY <2>1, <2>2 DEF PutSteps, CallPut, TableFull, PassHead, Claim, WriteLo,
      WriteHi, Validate, Publish, AttachProducer, DropProducer, ring
  <2>3. CASE \E r \in Takers : TakeSteps(r)
    BY <1>1, <1>2, <1>3, <1>5, <2>1, <2>3
    DEF TakeSteps, TakeSome, ReadLo, ReadHi, ring, Takers
  <2>4. CASE \E c \in Consumers : AttachConsumer(c) \/ DropConsumer(c)
    BY <2>1, <2>4 DEF AttachConsumer, DropConsumer, ring
  <2>5. CASE \E o \in StrongObservers :
               AttachStrongLoad(o) \/ AttachStrongStore(o) \/ DropStrong(o)
    BY <1>2, <1>5, <2>1, <2>5 DEF AttachStrongLoad, ring
  <2>6. CASE \E w \in WeakObservers : WeakSteps(w) \/ AttachWeak(w) \/ DropWeak(w)
    <3>1. PICK w \in WeakObservers : WeakSteps(w) \/ AttachWeak(w) \/ DropWeak(w)
      BY <2>6
    <3>2. CASE (\E i \in 0 .. MaxRows : CallWeakObserve(w, i)) \/ Leave(w)
      BY <1>4, <1>5, <3>2
    <3>3. CASE Enter(w) \/ ReadLo(w) \/ ReadHi(w) \/ AttachWeak(w) \/ DropWeak(w)
      BY <2>1, <3>3 DEF Enter, ReadLo, ReadHi, AttachWeak, DropWeak, ring
    <3> QED
      BY <3>1, <3>2, <3>3 DEF WeakSteps
  <2> QED
    BY <1>5, <2>2, <2>3, <2>4, <2>5, <2>6 DEF Next
<1>6. RingInv /\ [Next]_vars => [Moved]_vars
  BY <1>5
<1> QED
  BY <1>6, RingCorrect, PTL DEF Spec, ConsumerExactlyOnce

(* A refused put had met an attached reader with Size - 1 rows to go.      *)
THEOREM FullCorrect ==
  ASSUME ~AttachWhileTaking
  PROVE  Spec => FullIsReal
<1> DEFINE Real ==
      \A p \in Producers : TableFull(p) =>
        \E h \in Heads : heads[h] # UsizeMax /\ tail_index - heads[h] = Size - 1
<1>1. ASSUME RingInv PROVE Real
  <2> SUFFICES ASSUME NEW p \in Producers, TableFull(p)
               PROVE  \E h \in Heads :
                        heads[h] # UsizeMax /\ tail_index - heads[h] = Size - 1
    OBVIOUS
  <2> DEFINE h == scan[p]
  <2>1. h \in Heads /\ index[p] = tail_index
    BY <1>1 DEF TableFull, RingInv, HandleInv, TypeOK, ProtocolInv, PutInv,
      Putting, PutLabels, Heads
  <2>2. heads[h] # UsizeMax /\ mod_len(tail_index + 1) = mod_len(heads[h])
    BY <1>1, <2>1 DEF TableFull, HeadBlocks, RingInv, ProtocolInv, HeadInv
  <2>3. heads[h] <= tail_index /\ tail_index <= heads[h] + Size - 1
    BY <1>1, <2>1, <2>2 DEF RingInv, ProtocolInv, WindowInv, Heeded
  <2>4. heads[h] \in Int /\ tail_index \in Int /\ Size \in Nat
    BY <1>1, <2>1, Indices
  <2>5. mod_len(tail_index + 1) = mod_len(heads[h] + Size)
    BY <2>2, <2>4, NextLap
  <2>6. tail_index + 1 = heads[h] + Size
    BY <2>3, <2>4, <2>5, SameSlot
  <2> QED
    BY <2>1, <2>2, <2>4, <2>6
<1> QED
  BY <1>1, RingCorrect, PTL DEF FullIsReal
(***************************************************************************)
(* Data race freedom.                                                      *)
(***************************************************************************)

(* Weak observers change only the reading bits of a state word.            *)
LEMMA MarksKeepWord ==
  ASSUME TypeOK, NEW w \in WeakObservers, Enter(w) \/ Leave(w)
  PROVE  \A s \in Slots :
           /\ weak_readers'[s].valid = weak_readers[s].valid
           /\ weak_readers'[s].generation = weak_readers[s].generation
<1>1. \E R : weak_readers' = [weak_readers EXCEPT ![mod_len(index[w])].reading = R]
  BY DEF Enter, Leave
<1> QED
  BY <1>1 DEF TypeOK

LEMMA InvalidStep ==
  ASSUME TypeOK, SingleInv, InvalidInv, [Next]_vars
  PROVE  InvalidInv'
<1> DEFINE Changing == {"write_lo", "write_hi", "validate"}
           Invalid(p) == ~weak_readers[mod_len(index[p])].valid
<1> SUFFICES ASSUME MaxWeak > 0, NEW p \in Producers, pc'[p] \in Changing
             PROVE  Invalid(p)'
  BY DEF InvalidInv
<1>0. p \in Threads /\ mod_len(index[p]) \in Slots
  <2>1. index[p] \in Int
    BY Roles DEF TypeOK, Usize, UsizeMax
  <2> QED
    BY <2>1, Roles, SlotOfIndex
<1>1. CASE PutSteps(p)
  <2>1. CASE Claim(p)
    BY <1>0, <2>1, ConfigAssumption
    DEF Claim, SetStateWord, StateWord, TypeOK
  <2>2. CASE WriteLo(p) \/ WriteHi(p)
    BY <2>2 DEF WriteLo, WriteHi, InvalidInv
  <2>3. CASE ~(Claim(p) \/ WriteLo(p) \/ WriteHi(p))
    BY <1>0, <1>1, <2>3 DEF PutSteps, CallPut, TableFull, PassHead, Validate,
      Publish, Goto, TypeOK
  <2> QED
    BY <2>1, <2>2, <2>3
<1>2. ASSUME NEW q \in Producers \ {p}, PutSteps(q) PROVE FALSE
  <2>1. pc[q] # "out" /\ pc'[p] = pc[p]
    <3>1. PICK l \in Labels : pc' = [pc EXCEPT ![q] = l]
      BY <1>2, PutMoves DEF PutLabels, Labels, WorkingLabels
    <3>2. pc[q] # "out"
      BY <1>2, PutMoves DEF PutLabels
    <3> QED
      BY <1>0, <3>1, <3>2, <1>2 DEF TypeOK
  <2> QED
    BY <2>1 DEF SingleInv, Holding
<1>3. ASSUME pc'[p] = pc[p], index'[p] = index[p], weak_readers' = weak_readers
      PROVE  Invalid(p)'
  BY <1>3 DEF InvalidInv
<1>4. ASSUME NEW r \in Takers, TakeSteps(r) PROVE Invalid(p)'
  BY <1>3, <1>4, Roles, ThreadTypes DEF TakeSteps, TakeNone, TakeSome, ReadLo,
    ReadHi, Advance, Return, Goto, ring, TypeOK
<1>5. ASSUME NEW w \in WeakObservers, WeakSteps(w) PROVE Invalid(p)'
  <2>1. pc'[p] = pc[p] /\ index'[p] = index[p]
    BY <1>0, <1>5, Roles DEF WeakSteps, CallWeakObserve, Enter, ReadLo, ReadHi,
      Leave, Return, Goto, TypeOK
  <2>2. CASE Enter(w) \/ Leave(w)
    BY <1>0, <2>1, <2>2, MarksKeepWord DEF InvalidInv
  <2>3. CASE ~(Enter(w) \/ Leave(w))
    BY <1>3, <1>5, <2>1, <2>3 DEF WeakSteps, CallWeakObserve, ReadLo, ReadHi, ring
  <2> QED
    BY <2>2, <2>3
<1>6. ASSUME AttachSteps \/ DropSteps PROVE Invalid(p)'
  <2>1. weak_readers' = weak_readers /\ index'[p] = index[p]
    BY <1>6, <1>0, Roles DEF AttachSteps, AttachProducer, AttachConsumer,
      AttachStrongLoad, AttachStrongStore, AttachWeak, DropSteps, DropProducer,
      DropConsumer, DropStrong, DropWeak, ring, TypeOK
  <2>2. \E t \in Threads, l \in {"idle", "attaching", "out"} :
          pc' = [pc EXCEPT ![t] = l]
    BY <1>6, Roles DEF AttachSteps, AttachProducer, AttachConsumer,
      AttachStrongLoad, AttachStrongStore, AttachWeak, DropSteps, DropProducer,
      DropConsumer, DropStrong, DropWeak, Goto
  <2>3. pc'[p] = pc[p]
    BY <1>0, <2>2 DEF TypeOK
  <2> QED
    BY <1>3, <2>1, <2>3
<1>7. CASE UNCHANGED vars
  BY <1>3, <1>7 DEF vars
<1> QED
  BY NextSplit, <1>1, <1>2, <1>4, <1>5, <1>6, <1>7

(* While the producer writes an element nobody else writes, no reader at a *)
(* head that the producer heeds copies that element, and weak observers    *)
(* can tell that it is not valid.                                          *)
LEMMA WriteState ==
  ASSUME RingInv, InvalidInv, NEW p \in Producers, Writing(p)
  PROVE  /\ \A q \in Producers \ {p} : ~Claimed(q)
         /\ \A r \in Takers : Copying(r) /\ Heeded(HeadOf(r)) =>
              mod_len(index[r]) # mod_len(index[p])
         /\ MaxWeak > 0 => ~weak_readers[mod_len(index[p])].valid
<1>1. index[p] = tail_index /\ index[p] \in Int /\ Size \in Nat
  BY Indices, Roles
  DEF Writing, RingInv, ProtocolInv, PutInv, Putting, PutLabels
<1>2. \A q \in Producers \ {p} : ~Claimed(q)
  BY DEF Writing, Claimed, RingInv, HandleInv, SingleInv, Holding
<1>3. ASSUME NEW r \in Takers, Copying(r), Heeded(HeadOf(r))
      PROVE  mod_len(index[r]) # mod_len(index[p])
  <2>1. Receiving(r) /\ HeadOf(r) \in Heads
    BY <1>3, HeadOfTaker DEF Copying, Receiving, CopyLabels, RingInv, HandleInv
  <2>2. index[r] < index[p] /\ index[p] <= index[r] + Size - 1
    BY <1>1, <1>3, <2>1 DEF RingInv, ProtocolInv, TakeInv, WindowInv
  <2>3. index[r] \in Int
    BY Indices, ThreadTypes
  <2> QED
    BY <1>1, <2>2, <2>3, SameSlot
<1>4. MaxWeak > 0 => ~weak_readers[mod_len(index[p])].valid
  BY DEF Writing, InvalidInv
<1> QED
  BY <1>2, <1>3, <1>4

LEMMA InvalidCorrect == Spec => []InvalidInv
<1>1. Init => InvalidInv
  BY Roles DEF Init, InvalidInv
<1>2. RingInv /\ InvalidInv /\ [Next]_vars => InvalidInv'
  BY InvalidStep DEF RingInv, HandleInv
<1> QED
  BY <1>1, <1>2, RingCorrect, PTL DEF Spec

(* No data race: while the producer writes an element nobody else writes,  *)
(* no consumer or strong observer copies that element, and weak observers  *)
(* can tell that it is not valid.                                          *)
THEOREM ExclusiveCorrect ==
  ASSUME ~AttachWhileTaking
  PROVE  Spec => []ExclusiveAccess
<1>1. ASSUME RingInv, InvalidInv PROVE ExclusiveAccess
  <2> SUFFICES ASSUME NEW p \in Producers, Writing(p)
               PROVE  /\ \A q \in Producers \ {p} : ~Claimed(q)
                      /\ \A r \in Takers :
                           Copying(r) => mod_len(index[r]) # mod_len(index[p])
                      /\ MaxWeak > 0 => ~weak_readers[mod_len(index[p])].valid
    BY DEF ExclusiveAccess
  <2>1. \A r \in Takers : Copying(r) => Heeded(HeadOf(r))
    BY <1>1 DEF Heeded, Copying, RingInv, ProtocolInv, HeadInv, AttachedStrong,
      HeadOf, Takers
  <2> QED
    BY <1>1, <2>1, WriteState
<1> QED
  BY <1>1, InvalidCorrect, RingCorrect, PTL

(* The race of attach_strong_observer never reaches the consumer: whatever *)
(* strong observers do, the element it copies is not written meanwhile.    *)
THEOREM ConsumerExclusive ==
  Spec => [](\A p \in Producers, c \in Consumers :
               Writing(p) /\ Copying(c) =>
                 mod_len(index[c]) # mod_len(index[p]))
<1> DEFINE Apart == \A p \in Producers, c \in Consumers :
                      Writing(p) /\ Copying(c) =>
                        mod_len(index[c]) # mod_len(index[p])
<1>1. ASSUME RingInv, InvalidInv PROVE Apart
  <2>1. \A c \in Consumers : c \in Takers /\ HeadOf(c) = 0 /\ Heeded(0)
    BY <1>1, ThreadTypes DEF HeadOf, Heeded, RingInv, ProtocolInv, HeadInv
  <2> QED
    BY <1>1, <2>1, WriteState
<1> QED
  BY <1>1, InvalidCorrect, RingCorrect, PTL

(***************************************************************************)
(* A table of one element holds Size - 1 = 0 rows.                         *)
(***************************************************************************)

(* SpscTableCustom::new accepts a table of one element (spsc.rs:223 only   *)
(* asks for a power of two), but no put ever gets past the full check.     *)
THEOREM SizeOneHoldsNothing ==
  ASSUME Size = 1
  PROVE  Spec => [](tail_index = 0 /\ \A p \in Producers : ~Claimed(p))
<1>1. ASSUME RingInv PROVE \A p \in Producers : pc[p] \notin {"claim"} /\ ~Claimed(p)
  <2> SUFFICES ASSUME NEW p \in Producers, pc[p] = "claim" \/ Claimed(p)
               PROVE  FALSE
    OBVIOUS
  <2>1. /\ Putting(p) /\ pc[p] # "scan"
        /\ scan[p] \in Nat /\ MaxStrong \in Nat
    BY <1>1, ConfigAssumption DEF Claimed, Putting, PutLabels, RingInv, HandleInv, TypeOK
  <2>2. 0 < scan[p] /\ 0 \in Heads /\ Heeded(0)
    BY <1>1, <2>1, Indices
    DEF RingInv, ProtocolInv, PutInv, HeadInv, Heeded
  <2>3. tail_index + 1 <= heads[0] + Size - 1 /\ heads[0] <= tail_index
    BY <1>1, <2>1, <2>2 DEF RingInv, ProtocolInv, PutInv, WindowInv
  <2>4. tail_index \in Nat /\ heads[0] \in Nat
    BY <1>1, Indices
  <2> QED
    BY <2>3, <2>4
<1>2. Init => tail_index = 0
  BY DEF Init
<1>3. ASSUME RingInv, [Next]_vars PROVE tail_index' = tail_index
  <2>1. \A p \in Producers : ~Publish(p)
    BY <1>1, <1>3 DEF Publish, Claimed
  <2> QED
    BY <1>3, <2>1
    DEF Next, vars, PutSteps, TakeSteps, WeakSteps, CallPut, TableFull,
      PassHead, Claim, WriteLo, WriteHi, Validate, TakeNone, TakeSome, ReadLo,
      ReadHi, Advance, CallWeakObserve, Enter, Leave, AttachProducer,
      DropProducer, AttachConsumer, DropConsumer, AttachStrongLoad,
      AttachStrongStore, DropStrong, AttachWeak, DropWeak, ring
<1> DEFINE Nothing == tail_index = 0
           Kept == tail_index' = tail_index
<1>4. Nothing /\ Kept => Nothing'
  OBVIOUS
<1>5. RingInv => \A p \in Producers : ~Claimed(p)
  BY <1>1
<1>6. RingInv /\ [Next]_vars => Kept
  BY <1>3
<1>7. Init => Nothing
  BY <1>2
<1> HIDE DEF Nothing, Kept
<1>8. Spec => []Nothing
  BY <1>4, <1>6, <1>7, RingCorrect, PTL DEF Spec
<1>9. Nothing /\ (\A p \in Producers : ~Claimed(p))
        <=> tail_index = 0 /\ \A p \in Producers : ~Claimed(p)
  BY DEF Nothing
<1> QED
  BY <1>5, <1>8, <1>9, RingCorrect, PTL

(* With more than one element producer and readers never wait for each     *)
(* other: a head at which the put must wait has a row for its reader.      *)
THEOREM NoMutualWait ==
  ASSUME Size > 1
  PROVE  Spec => [](\A p \in Producers, r \in Takers :
                      pc[p] = "scan" /\ HeadOf(r) = scan[p]
                        /\ HeadBlocks(scan[p], index[p]) => ~Empty(r))
<1> DEFINE Apart == \A p \in Producers, r \in Takers :
                      pc[p] = "scan" /\ HeadOf(r) = scan[p]
                        /\ HeadBlocks(scan[p], index[p]) => ~Empty(r)
<1>1. ASSUME RingInv PROVE Apart
  <2> SUFFICES ASSUME NEW p \in Producers, NEW r \in Takers, pc[p] = "scan",
                      HeadOf(r) = scan[p], HeadBlocks(scan[p], index[p]), Empty(r)
               PROVE  FALSE
    OBVIOUS
  <2>1. index[p] = tail_index /\ tail_index \in Nat /\ Size \in Nat
    BY <1>1, Indices DEF RingInv, ProtocolInv, PutInv, Putting, PutLabels
  <2>2. mod_len(tail_index + 1) = mod_len(tail_index)
    BY <2>1 DEF HeadBlocks, Empty
  <2>3. tail_index + 1 = tail_index
    BY <2>1, <2>2, SameSlot
  <2> QED
    BY <2>1, <2>3
<1> QED
  BY <1>1, RingCorrect, PTL
=============================================================================
