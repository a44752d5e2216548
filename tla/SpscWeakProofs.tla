-------------------------- MODULE SpscWeakProofs --------------------------
(* Why weak observation is right although it races with the producer, and  *)
(* why the ring implements the abstract Table.                             *)
EXTENDS SpscRingProofs

(***************************************************************************)
(* Generations.                                                            *)
(***************************************************************************)

(* A slot and a generation name one row.                                   *)
LEMMA SameRow ==
  ASSUME NEW i \in Int, NEW j \in Int, mod_len(i) = mod_len(j),
         get_generation_for_index(i) = get_generation_for_index(j)
  PROVE  i = j
<1>1. /\ i = Size * (i \div Size) + (i % Size)
      /\ j = Size * (j \div Size) + (j % Size)
  BY ConfigAssumption, Division
<1> QED
  BY <1>1 DEF mod_len, get_generation_for_index

(* A generation that the field can hold is held as it is.                  *)
LEMMA GenerationFits ==
  ASSUME NEW i \in 0 .. Size * GenMod - 1
  PROVE  /\ get_generation_for_index(i) \in 0 .. GenMod - 1
         /\ get_generation_for_index(i) % GenMod = get_generation_for_index(i)
<1>1. Size \in Nat \ {0} /\ GenMod \in Nat \ {0}
  BY ConfigAssumption
<1> DEFINE g == i \div Size
<1>2. i \in Int /\ Size * GenMod \in Int /\ 0 <= i /\ i < Size * GenMod
  BY <1>1
<1>3. i = Size * g + (i % Size) /\ g \in Int /\ i % Size \in 0 .. Size - 1
  BY <1>1, <1>2, Division
<1>4. 0 <= g /\ g < GenMod
  <2> HIDE DEF g
  <2>1. \A m \in Int : /\ m <= -1 => Size * m <= -Size
                       /\ m >= GenMod => Size * m >= Size * GenMod
    BY <1>1, Z3
  <2>2. Size * g \in Int /\ i % Size \in Int
    BY <1>1, <1>3
  <2> QED
    BY <1>1, <1>2, <1>3, <2>1, <2>2
<1>5. g % GenMod = g
  <2> HIDE DEF g
  <2> QED
    BY <1>1, <1>3, <1>4
<1> QED
  BY <1>1, <1>3, <1>4, <1>5 DEF get_generation_for_index

(* A slot and a generation field tell rows apart up to whole wraps: two    *)
(* rows with the same state word in the same element (an ABA of            *)
(* spsc.rs:169-170) are a multiple of Size * GenMod rows apart.            *)
THEOREM WrapsApart ==
  ASSUME NEW i \in Int, NEW j \in Int, mod_len(i) = mod_len(j),
         get_generation_for_index(i) % GenMod = get_generation_for_index(j) % GenMod
  PROVE  (i - j) % (Size * GenMod) = 0
<1>1. Size \in Nat \ {0} /\ GenMod \in Nat \ {0}
  BY ConfigAssumption
<1> DEFINE g == i \div Size
           h == j \div Size
           k == g \div GenMod
           l == h \div GenMod
           m == Size * GenMod
<1>2. /\ i = Size * g + (i % Size) /\ g \in Int
      /\ j = Size * h + (j % Size) /\ h \in Int
      /\ i % Size = j % Size /\ i % Size \in Int
  <2>1. i = Size * g + (i % Size) /\ g \in Int /\ i % Size \in 0 .. Size - 1
    BY <1>1, Division
  <2>2. j = Size * h + (j % Size) /\ h \in Int
    BY <1>1, Division
  <2> QED
    BY <1>1, <2>1, <2>2 DEF mod_len
<1>3. /\ g = GenMod * k + (g % GenMod) /\ k \in Int
      /\ h = GenMod * l + (g % GenMod) /\ l \in Int
      /\ g % GenMod \in Int
  <2>1. /\ g = GenMod * k + (g % GenMod) /\ k \in Int
        /\ g % GenMod \in 0 .. GenMod - 1
    BY <1>1, <1>2, Division
  <2>2. h = GenMod * l + (h % GenMod) /\ l \in Int
    BY <1>1, <1>2, Division
  <2> QED
    BY <1>1, <2>1, <2>2 DEF get_generation_for_index
<1>4. m \in Nat \ {0}
  BY <1>1, Z3
<1>5. i - j = m * (k - l)
  <2>1. i - j = Size * g - Size * h
    <3> HIDE DEF g, h, k, l, m
    <3>1. Size * g \in Int /\ Size * h \in Int
      BY <1>1, <1>2
    <3> QED
      BY <1>2, <3>1
  <2>2. \A x, y, z, v, r \in Int :
          x = GenMod * z + r /\ y = GenMod * v + r
            => Size * x - Size * y = (Size * GenMod) * (z - v)
    BY <1>1, Z3
  <2>3. g \in Int /\ h \in Int
    BY <1>2
  <2> HIDE DEF g, h, k, l
  <2> QED
    BY <1>3, <2>1, <2>2, <2>3
<1>6. \A z \in Int : (m * z) % m = 0
  <2> HIDE DEF m
  <2> TAKE z \in Int
  <2>1. /\ m * z = m * ((m * z) \div m) + ((m * z) % m)
        /\ (m * z) \div m \in Int /\ (m * z) % m \in 0 .. m - 1
    <3>1. m * z \in Int
      BY <1>4
    <3> QED
      BY <1>4, <3>1, Division
  <2>2. \A x, y, r \in Int : m * x = m * y + r /\ 0 <= r /\ r < m => r = 0
    <3> TAKE x \in Int, y \in Int, r \in Int
    <3> HAVE m * x = m * y + r /\ 0 <= r /\ r < m
    <3>1. x - y \in Int /\ m * (x - y) = r
      BY <1>4, Z3
    <3>2. \A d \in Int : 0 <= m * d /\ m * d < m => d = 0
      BY <1>4, Z3
    <3>3. x - y = 0
      BY <3>1, <3>2
    <3> QED
      BY <1>4, <3>1, <3>3
  <2>3. (m * z) % m \in Int
    BY <1>4, <2>1
  <2> QED
    BY <1>4, <2>1, <2>2, <2>3
<1> HIDE DEF m
<1>7. k - l \in Int
  BY <1>3
<1> QED
  BY <1>5, <1>6, <1>7 DEF m

(***************************************************************************)
(* Reading bits are handed out like the heads of strong observers.         *)
(***************************************************************************)
LEMMA BitStep ==
  ASSUME TypeOK, BitInv, [Next]_vars
  PROVE  BitInv'
<1> DEFINE list == free_weak_observer_bits
<1>a. list # <<>> =>
         /\ Len(list) \in Nat \ {0}
         /\ Len(Popped(list)) = Len(list) - 1
         /\ \A k \in 1 .. Len(list) - 1 : Popped(list)[k] = list[k]
  BY PopList DEF TypeOK
<1> USE DEF BitInv, DistinctSlots, Holding
<1>0. list \in Seq(Nat) /\ \A w \in WeakObservers : slot[w] \in Nat
  BY DEF TypeOK
<1>1. ASSUME \/ \E p \in Producers : PutSteps(p)
             \/ \E r \in Takers : TakeSteps(r)
             \/ \E w \in WeakObservers : WeakSteps(w)
      PROVE  BitInv'
  BY <1>1, CallsKeepHandles, Roles DEF registry
<1>2. ASSUME \/ \E p \in Producers : AttachProducer(p) \/ DropProducer(p)
             \/ \E c \in Consumers : AttachConsumer(c) \/ DropConsumer(c)
             \/ \E o \in StrongObservers :
                  AttachStrongLoad(o) \/ AttachStrongStore(o) \/ DropStrong(o)
      PROVE  BitInv'
  <2>1. list' = list /\ \A w \in WeakObservers :
                          pc'[w] = pc[w] /\ slot'[w] = slot[w]
    BY <1>2, Roles DEF TypeOK, AttachProducer, DropProducer, AttachConsumer,
      DropConsumer, AttachStrongLoad, AttachStrongStore, DropStrong, Goto,
      registry
  <2> QED
    BY <2>1
<1>3. ASSUME NEW w \in WeakObservers, AttachWeak(w) PROVE BitInv'
  <2>1. /\ list # <<>> /\ pc[w] = "out" /\ list' = Popped(list)
        /\ slot'[w] = list[Len(list)] /\ pc'[w] = "idle"
        /\ \A u \in WeakObservers \ {w} :
             slot'[u] = slot[u] /\ pc'[u] = pc[u]
    BY <1>3, Roles DEF TypeOK, AttachWeak, Goto, Top
  <2>2. /\ Len(list) \in Nat \ {0} /\ Len(list') = Len(list) - 1
        /\ \A k \in 1 .. Len(list) - 1 : list'[k] = list[k]
    BY <1>a, <2>1
  <2>3. \A u \in WeakObservers : Holding(u)' =>
          /\ slot'[u] \in 0 .. MaxWeak - 1
          /\ \A k \in 1 .. Len(list') : list'[k] # slot'[u]
    BY <2>1, <2>2
  <2>4. \A u, v \in WeakObservers :
          Holding(u)' /\ Holding(v)' /\ slot'[u] = slot'[v] => u = v
    BY <2>1, <2>2
  <2>5. /\ \A k \in 1 .. Len(list') : list'[k] \in 0 .. MaxWeak - 1
        /\ \A j, k \in 1 .. Len(list') : list'[j] = list'[k] => j = k
    <3>1. \A k \in 1 .. Len(list') : k \in 1 .. Len(list) /\ list'[k] = list[k]
      BY <2>2
    <3> QED
      BY <3>1
  <2> QED
    BY <2>3, <2>4, <2>5
<1>4. ASSUME NEW w \in WeakObservers, DropWeak(w) PROVE BitInv'
  <2>1. /\ pc[w] # "out" /\ list' = Append(list, slot[w])
        /\ pc'[w] = "out" /\ slot' = slot
        /\ \A u \in WeakObservers \ {w} : pc'[u] = pc[u]
    BY <1>4, Roles DEF TypeOK, DropWeak, Goto
  <2>2. /\ Len(list) \in Nat /\ Len(list') = Len(list) + 1
        /\ \A k \in 1 .. Len(list) : list'[k] = list[k]
        /\ list'[Len(list) + 1] = slot[w]
    BY <1>0, <2>1, PushList
  <2> QED
    BY <2>1, <2>2
<1>5. CASE UNCHANGED vars
  BY <1>5 DEF vars
<1> QED
  BY NextSplit, <1>1, <1>2, <1>3, <1>4, <1>5 DEF AttachSteps, DropSteps

(***************************************************************************)
(* The parts of the invariant that weak observation disturbs.              *)
(***************************************************************************)
ProofInv == RingInv /\ BitInv /\ InvalidInv

WordParts == WordInv /\ HistoryInv /\ ObserveInv /\ StaleInv /\ WeakRowExact

Observing(w) == pc[w] \in {"enter"} \cup CopyLabels

(* What a step leaves alone when it is not a weak observer's.              *)
WeakAside ==
  \A w \in WeakObservers :
    /\ index'[w] = index[w] /\ result'[w] = result[w]
    /\ pc'[w] = "panicked" => pc[w] = "panicked"
    /\ Observing(w) \/ Observing(w)' =>
         pc'[w] = pc[w] /\ slot'[w] = slot[w] /\ data'[w] = data[w]

(* What a step leaves alone when the producer does not work on an element. *)
PutAside ==
  \A p \in Producers :
    /\ Claimed(p)' = Claimed(p)
    /\ Claimed(p) => index'[p] = index[p]
    /\ (pc[p] = "publish")' = (pc[p] = "publish")
    /\ Putting(p)' => Putting(p) \/ tail_index < MaxRows

LEMMA PutLeavesWeak ==
  ASSUME TypeOK, NEW p \in Producers, PutSteps(p)
  PROVE  /\ WeakAside
         /\ \A q \in Producers \ {p} : pc'[q] = pc[q] /\ index'[q] = index[q]
<1>1. /\ \E l \in Labels : pc' = [pc EXCEPT ![p] = l]
      /\ \E i : index' = [index EXCEPT ![p] = i]
      /\ UNCHANGED <<data, slot, result>>
  <2>1. \E l \in Labels : pc' = [pc EXCEPT ![p] = l]
    BY PutMoves DEF PutLabels, Labels, WorkingLabels
  <2>2. index' = index \/ \E i : index' = [index EXCEPT ![p] = i]
    BY DEF PutSteps, CallPut, TableFull, PassHead, Claim, WriteLo, WriteHi,
      Validate, Publish
  <2>3. index = [index EXCEPT ![p] = index[p]]
    BY Roles DEF TypeOK
  <2>4. UNCHANGED <<data, slot, result>>
    BY DEF PutSteps, CallPut, TableFull, PassHead, Claim, WriteLo, WriteHi,
      Validate, Publish
  <2> QED
    BY <2>1, <2>2, <2>3, <2>4
<1> QED
  BY <1>1, Roles DEF WeakAside, TypeOK, Observing

(* Full checks, takes, attaches and drops.                                 *)
QuietSteps ==
  \/ \E p \in Producers : CallPut(p) \/ TableFull(p) \/ PassHead(p)
  \/ \E r \in Takers : TakeSteps(r)
  \/ AttachSteps \/ DropSteps \/ UNCHANGED vars

LEMMA QuietLeavesWords ==
  ASSUME TypeOK, QuietSteps
  PROVE  /\ WeakAside /\ PutAside
         /\ UNCHANGED <<tail_index, buffer, weak_readers>>
<1> USE DEF PutAside, Claimed, Putting, PutLabels
<1>1. ASSUME NEW p \in Producers, CallPut(p) \/ TableFull(p) \/ PassHead(p)
      PROVE  /\ WeakAside /\ PutAside
             /\ UNCHANGED <<tail_index, buffer, weak_readers>>
  <2>1. WeakAside
    BY <1>1, PutLeavesWeak DEF PutSteps
  <2>2. UNCHANGED ring /\ \A q \in Producers \ {p} : pc'[q] = pc[q] /\ index'[q] = index[q]
    BY <1>1, PutLeavesWeak DEF PutSteps, CallPut, TableFull, PassHead
  <2>3. /\ ~Claimed(p) /\ ~Claimed(p)' /\ pc[p] # "publish" /\ pc'[p] # "publish"
        /\ Putting(p)' => Putting(p) \/ tail_index < MaxRows
    BY <1>1, Roles DEF CallPut, TableFull, PassHead, Goto, TypeOK
  <2> QED
    BY <2>1, <2>2, <2>3 DEF ring
<1>2. ASSUME NEW r \in Takers, TakeSteps(r)
      PROVE  /\ WeakAside /\ PutAside
             /\ UNCHANGED <<tail_index, buffer, weak_readers>>
  <2>1. UNCHANGED <<tail_index, buffer, weak_readers, slot>>
    BY <1>2 DEF TakeSteps, TakeNone, TakeSome, ReadLo, ReadHi, Advance, ring
  <2>2. \A t \in Threads \ {r} : pc'[t] = pc[t] /\ index'[t] = index[t]
    <3>1. \A t \in Threads \ {r} : pc'[t] = pc[t]
      BY <1>2, TakeMoves DEF TypeOK
    <3>2. \A t \in Threads \ {r} : index'[t] = index[t]
      BY <1>2 DEF TypeOK, TakeSteps, TakeNone, TakeSome, ReadLo, ReadHi, Advance
    <3> QED
      BY <3>1, <3>2
  <2>3. \A t \in Readers \ {r} : data'[t] = data[t] /\ result'[t] = result[t]
    BY <1>2 DEF TypeOK, TakeSteps, TakeNone, TakeSome, ReadLo, ReadHi, Advance,
      Return
  <2> QED
    BY <2>1, <2>2, <2>3, Roles, ThreadTypes DEF WeakAside, Observing
<1>3. ASSUME AttachSteps \/ DropSteps
      PROVE  /\ WeakAside /\ PutAside
             /\ UNCHANGED <<tail_index, buffer, weak_readers>>
  <2>1. UNCHANGED <<tail_index, buffer, weak_readers, result>>
    BY <1>3 DEF AttachSteps, AttachProducer, AttachConsumer, AttachStrongLoad,
      AttachStrongStore, AttachWeak, DropSteps, DropProducer, DropConsumer,
      DropStrong, DropWeak, ring
  <2> DEFINE Away == {"idle", "attaching", "out", "panicked"}
             Moved(t) ==
               /\ pc[t] \in Away
               /\ \E l \in Away \ {"panicked"} : pc' = [pc EXCEPT ![t] = l]
               /\ \A u \in Threads \ StrongObservers : index'[u] = index[u]
               /\ \A w \in WeakObservers \ {t} :
                    slot'[w] = slot[w] /\ data'[w] = data[w]
  <2>2. ASSUME NEW t \in Producers,
               AttachProducer(t) \/ DropProducer(t)
        PROVE  Moved(t)
    BY <2>2 DEF AttachProducer, DropProducer, Goto
  <2>3. ASSUME NEW t \in Consumers,
               AttachConsumer(t) \/ DropConsumer(t)
        PROVE  Moved(t)
    BY <2>3 DEF AttachConsumer, DropConsumer, Goto
  <2>4. ASSUME NEW t \in StrongObservers,
               AttachStrongLoad(t) \/ AttachStrongStore(t) \/ DropStrong(t)
        PROVE  Moved(t)
    BY <2>4, Roles DEF AttachStrongLoad, AttachStrongStore, DropStrong, Goto,
      TypeOK
  <2>5. ASSUME NEW t \in WeakObservers, AttachWeak(t) \/ DropWeak(t)
        PROVE  Moved(t)
    BY <2>5, ThreadTypes DEF AttachWeak, DropWeak, Goto, TypeOK
  <2>6. \E t \in Threads : Moved(t)
    BY <1>3, <2>2, <2>3, <2>4, <2>5, Roles DEF AttachSteps, DropSteps
  <2> QED
    BY <2>1, <2>6, Roles DEF WeakAside, Observing, CopyLabels, TypeOK
<1>4. CASE UNCHANGED vars
  BY <1>4 DEF vars, WeakAside, Observing
<1> QED
  BY <1>1, <1>2, <1>3, <1>4 DEF QuietSteps

LEMMA QuietKeepsWords ==
  ASSUME TypeOK, WordParts, WeakAside, PutAside,
         UNCHANGED <<tail_index, buffer, weak_readers>>
  PROVE  WordParts'
<1>0. \A i : Written(i)' = Written(i)
  BY DEF Written, PutAside
<1>1. WordInv'
  BY <1>0 DEF WordParts, WordInv, Describes, mod_len, get_generation_for_index
<1>2. HistoryInv'
  <2>1. \A p \in Producers : \A s : Claimed(p) /\ mod_len(index[p]) = s
                                 => (Claimed(p) /\ mod_len(index[p]) = s)'
    BY DEF PutAside, mod_len
  <2>2. \A p \in Producers : pc'[p] = "publish" =>
                               pc[p] = "publish" /\ index'[p] = index[p]
    BY DEF PutAside, Claimed
  <2> QED
    BY <2>1, <2>2 DEF WordParts, HistoryInv, Describes, mod_len,
      get_generation_for_index
<1>3. ObserveInv'
  BY DEF WordParts, ObserveInv, WeakAside, Observing, Receiving, CopyLabels,
    OwnBitSet, Vouches
<1>4. StaleInv'
  BY <1>0 DEF WordParts, StaleInv, WeakAside, PutAside, Observing, Receiving,
    CopyLabels, OwnBitSet, Vouches
<1>5. WeakRowExact'
  BY DEF WordParts, WeakRowExact, WeakAside
<1> QED
  BY <1>1, <1>2, <1>3, <1>4, <1>5 DEF WordParts

(***************************************************************************)
(* The producer's steps on an element.                                     *)
(***************************************************************************)

(* A producer in the middle of a put is the only one.                      *)
LEMMA OnlyPut ==
  ASSUME ProofInv, NEW p \in Producers, Putting(p)
  PROVE  /\ index[p] = tail_index /\ tail_index \in Nat
         /\ mod_len(index[p]) \in Slots
         /\ \A q \in Producers \ {p} : pc[q] = "out"
<1>1. index[p] = tail_index /\ tail_index \in Nat
  BY Indices DEF ProofInv, RingInv, ProtocolInv, PutInv
<1>2. mod_len(index[p]) \in Slots
  BY <1>1, SlotOfIndex
<1>3. \A q \in Producers \ {p} : pc[q] = "out"
  BY DEF ProofInv, RingInv, HandleInv, SingleInv, Holding, Putting, PutLabels
<1> QED
  BY <1>1, <1>2, <1>3

(* What the weak observers' words and cursors are.                         *)
LEMMA WeakTypes ==
  ASSUME ProofInv, WordParts
  PROVE  /\ \A s \in Slots : weak_readers[s].valid \in BOOLEAN
                             /\ weak_readers[s].generation \in 0 .. GenMod - 1
         /\ \A w \in WeakObservers : Observing(w) =>
              index[w] \in Nat /\ mod_len(index[w]) \in Slots
         /\ tail_index \in Nat /\ Size \in Nat \ {0} /\ GenMod \in Nat \ {0}
<1>1. \A s \in Slots : weak_readers[s].valid \in BOOLEAN
                       /\ weak_readers[s].generation \in 0 .. GenMod - 1
  BY DEF ProofInv, RingInv, HandleInv, TypeOK
<1>2. \A w \in WeakObservers : Observing(w) => index[w] \in Nat
  BY DEF WordParts, ObserveInv, Observing
<1>3. \A w \in WeakObservers : Observing(w) => mod_len(index[w]) \in Slots
  BY <1>2, SlotOfIndex
<1> QED
  BY <1>1, <1>2, <1>3, ConfigAssumption, Indices DEF ProofInv

LEMMA ClaimKeepsWords ==
  ASSUME ProofInv, WordParts, NEW p \in Producers, Claim(p)
  PROVE  WordParts'
<1> DEFINE s == mod_len(index[p])
<1>0. /\ index[p] = tail_index /\ s \in Slots
      /\ \A q \in Producers \ {p} : pc[q] = "out" /\ pc'[q] = "out"
      /\ pc[p] = "claim" /\ pc'[p] = "write_lo"
      /\ WeakAside /\ UNCHANGED <<tail_index, buffer, index>>
      /\ Putting(p)
  BY OnlyPut, PutLeavesWeak, Roles DEF Claim, Goto, Putting, PutLabels, PutSteps,
    ProofInv, RingInv, HandleInv, TypeOK
<1>1. /\ \A r \in Slots \ {s} : weak_readers'[r] = weak_readers[r]
      /\ MaxWeak > 0 => ~weak_readers'[s].valid /\ weak_readers'[s].reading = {}
      /\ MaxWeak = 0 => weak_readers' = weak_readers
  BY <1>0, ConfigAssumption DEF Claim, SetStateWord, StateWord, ProofInv, RingInv,
    HandleInv, TypeOK
<1>2. MaxWeak > 0 \/ MaxWeak = 0
  BY ConfigAssumption
<1>3. \A i : Written(i)' = Written(i)
  BY <1>0 DEF Written
<1> HIDE DEF s
<1>4. WordInv'
  BY <1>0, <1>1, <1>2, <1>3
  DEF WordParts, WordInv, Describes, mod_len, get_generation_for_index
<1>5. HistoryInv'
  <2> SUFFICES ASSUME MaxWeak > 0 PROVE HistoryInv'
    BY DEF HistoryInv
  <2>1. Claimed(p)' /\ mod_len(index'[p]) = s
    BY <1>0 DEF Claimed, s
  <2>2. \A q \in Producers : ~Claimed(q) /\ pc'[q] # "publish"
    BY <1>0 DEF Claimed
  <2>3. ASSUME NEW i \in 0 .. tail_index - 1, tail_index <= i + Size, mod_len(i) # s
        PROVE  Describes(weak_readers[mod_len(i)], i)'
    <3>1. mod_len(i) \in Slots
      BY SlotOfIndex
    <3> QED
      BY <1>0, <1>1, <2>2, <2>3, <3>1
      DEF WordParts, HistoryInv, Describes, mod_len, get_generation_for_index
  <2> QED
    BY <1>0, <2>1, <2>2, <2>3 DEF HistoryInv, mod_len
<1>6. ASSUME NEW w \in WeakObservers, Receiving(w)' \/ Observing(w)'
      PROVE  /\ Observing(w) /\ Observing(w)' /\ Receiving(w)' = Receiving(w)
             /\ index'[w] = index[w] /\ data'[w] = data[w] /\ slot'[w] = slot[w]
             /\ pc'[w] = pc[w] /\ mod_len(index[w]) \in Slots
  BY <1>0, <1>6, WeakTypes DEF WeakAside, Observing, Receiving
<1>7. ObserveInv'
  BY <1>0, <1>1, <1>2, <1>6 DEF WordParts, ObserveInv, Observing, Receiving,
    OwnBitSet, Vouches, mod_len, get_generation_for_index
<1>8. StaleInv'
  BY <1>0, <1>1, <1>2, <1>3, <1>6 DEF WordParts, StaleInv, Receiving, Putting,
    PutLabels, OwnBitSet, Vouches, mod_len, get_generation_for_index
<1>9. WeakRowExact'
  BY <1>0 DEF WordParts, WeakRowExact, WeakAside
<1> QED
  BY <1>4, <1>5, <1>7, <1>8, <1>9 DEF WordParts

LEMMA WriteKeepsWords ==
  ASSUME ProofInv, WordParts, NEW p \in Producers, WriteLo(p) \/ WriteHi(p)
  PROVE  WordParts'
<1> DEFINE s == mod_len(index[p])
<1>0. /\ index[p] = tail_index /\ s \in Slots
      /\ \A q \in Producers \ {p} : pc[q] = "out" /\ pc'[q] = "out"
      /\ pc[p] \in {"write_lo", "write_hi"} /\ pc'[p] \in {"write_hi", "validate"}
      /\ WeakAside /\ UNCHANGED <<tail_index, weak_readers, index>>
      /\ Putting(p)
  BY OnlyPut, PutLeavesWeak, Roles DEF WriteLo, WriteHi, Goto, Putting, PutLabels,
    PutSteps, ProofInv, RingInv, HandleInv, TypeOK
<1>1. /\ \A r \in Slots \ {s} : buffer'[r] = buffer[r]
      /\ ~weak_readers[s].valid
  <2>1. \A r \in Slots \ {s} : buffer'[r] = buffer[r]
    BY DEF WriteLo, WriteHi, ProofInv, RingInv, HandleInv, TypeOK
  <2>2. ~weak_readers[s].valid
    BY <1>0, ConfigAssumption DEF ProofInv, InvalidInv, WordParts, WordInv
  <2> QED
    BY <2>1, <2>2
<1>2. \A i : Written(i)' = Written(i)
  BY <1>0 DEF Written
<1> HIDE DEF s
<1>3. WordInv'
  BY <1>0, <1>1, <1>2
  DEF WordParts, WordInv, Describes, mod_len, get_generation_for_index
<1>4. HistoryInv'
  <2>1. \A q \in Producers : Claimed(q)' = Claimed(q) /\ pc'[q] # "publish"
    BY <1>0 DEF Claimed
  <2> QED
    BY <1>0, <2>1 DEF WordParts, HistoryInv, Describes, mod_len,
      get_generation_for_index
<1>5. ASSUME NEW w \in WeakObservers, Receiving(w)' \/ Observing(w)'
      PROVE  /\ Observing(w) /\ Observing(w)' /\ Receiving(w)' = Receiving(w)
             /\ index'[w] = index[w] /\ data'[w] = data[w] /\ slot'[w] = slot[w]
             /\ pc'[w] = pc[w] /\ mod_len(index[w]) \in Slots
  BY <1>0, <1>5, WeakTypes DEF WeakAside, Observing, Receiving
<1>6. ObserveInv'
  BY <1>0, <1>1, <1>5 DEF WordParts, ObserveInv, Observing, Receiving,
    OwnBitSet, Vouches, mod_len, get_generation_for_index
<1>7. StaleInv'
  BY <1>0, <1>2, <1>5 DEF WordParts, StaleInv, Receiving, Putting, PutLabels,
    OwnBitSet, Vouches, mod_len, get_generation_for_index
<1>8. WeakRowExact'
  BY <1>0 DEF WordParts, WeakRowExact, WeakAside
<1> QED
  BY <1>3, <1>4, <1>6, <1>7, <1>8 DEF WordParts

LEMMA ValidateKeepsWords ==
  ASSUME ProofInv, WordParts, NEW p \in Producers, Validate(p)
  PROVE  WordParts'
<1> DEFINE s == mod_len(index[p])
<1>0. /\ index[p] = tail_index /\ tail_index \in Nat /\ s \in Slots
      /\ \A q \in Producers \ {p} : pc[q] = "out" /\ pc'[q] = "out"
      /\ pc[p] = "validate" /\ pc'[p] = "publish"
      /\ WeakAside /\ UNCHANGED <<tail_index, buffer, index>>
      /\ Putting(p)
  BY OnlyPut, PutLeavesWeak, Roles DEF Validate, Goto, Putting, PutLabels,
    PutSteps, ProofInv, RingInv, HandleInv, TypeOK
<1>1. /\ \A r \in Slots \ {s} : weak_readers'[r] = weak_readers[r]
      /\ MaxWeak > 0 => Describes(weak_readers'[s], index[p])
                        /\ weak_readers'[s].reading = {}
      /\ MaxWeak = 0 => weak_readers' = weak_readers
  BY <1>0, ConfigAssumption DEF Validate, SetStateWord, StateWord, Describes,
    ProofInv, RingInv, HandleInv, TypeOK
<1>2. MaxWeak > 0 \/ MaxWeak = 0
  BY ConfigAssumption
<1>3. /\ \A i : Written(i) => Written(i)'
      /\ Written(index[p])'
      /\ \A i : Written(i) => i < tail_index
  BY <1>0 DEF Written
<1>4. buffer[s].lo = index[p] /\ buffer[s].hi = index[p]
  BY <1>0 DEF ProofInv, RingInv, ProtocolInv, ContentInv
<1>5. WordInv'
  BY <1>0, <1>1, <1>2, <1>3, <1>4
  DEF WordParts, WordInv, Describes, mod_len, get_generation_for_index
<1>6. HistoryInv'
  <2> SUFFICES ASSUME MaxWeak > 0 PROVE HistoryInv'
    BY DEF HistoryInv
  <2>1. Claimed(p)' /\ mod_len(index'[p]) = s
    BY <1>0 DEF Claimed
  <2>2. \A q \in Producers : Claimed(q) => q = p
    BY <1>0 DEF Claimed
  <2>3. ASSUME NEW i \in 0 .. tail_index - 1, tail_index <= i + Size, mod_len(i) # s
        PROVE  Describes(weak_readers[mod_len(i)], i)'
    <3>1. mod_len(i) \in Slots
      BY SlotOfIndex
    <3> QED
      BY <1>0, <1>1, <2>2, <2>3, <3>1
      DEF WordParts, HistoryInv, Describes, mod_len, get_generation_for_index
  <2>4. Describes(weak_readers[mod_len(index[p])], index[p])'
    BY <1>0, <1>1 DEF Describes, mod_len, get_generation_for_index
  <2> QED
    BY <1>0, <2>1, <2>3, <2>4 DEF HistoryInv, mod_len
<1> HIDE DEF s
<1>7. ASSUME NEW w \in WeakObservers, Receiving(w)' \/ Observing(w)'
      PROVE  /\ Observing(w) /\ Observing(w)' /\ Receiving(w)' = Receiving(w)
             /\ index'[w] = index[w] /\ data'[w] = data[w] /\ slot'[w] = slot[w]
             /\ pc'[w] = pc[w] /\ mod_len(index[w]) \in Slots
             /\ index[w] \in Nat
  BY <1>0, <1>7, WeakTypes DEF WeakAside, Observing, Receiving
<1>8. ObserveInv'
  BY <1>0, <1>1, <1>2, <1>7 DEF WordParts, ObserveInv, Observing, Receiving,
    OwnBitSet, Vouches, mod_len, get_generation_for_index
<1>9. StaleInv'
  <2> DEFINE Gone(w) ==
        LET word == weak_readers[mod_len(index[w])]
        IN  /\ Written(index[w])
            /\ ~OwnBitSet(w, word) => ~Vouches(word, index[w])
  <2>1. /\ tail_index < MaxRows
        /\ \A q \in Producers : Putting(q)' => tail_index < MaxRows
    BY <1>0 DEF WordParts, StaleInv
  <2>2. ASSUME NoWrap, NEW w \in WeakObservers, Receiving(w)'
        PROVE  Gone(w)'
    <3>1. Receiving(w) /\ Written(index[w]) /\ index[w] < tail_index
      BY <1>3, <1>7, <2>2 DEF WordParts, StaleInv
    <3>2. CASE mod_len(index[w]) # s \/ MaxWeak = 0
      BY <1>0, <1>1, <1>3, <1>7, <2>2, <3>1, <3>2 DEF WordParts, StaleInv,
        OwnBitSet, Vouches, mod_len, get_generation_for_index
    <3>3. CASE mod_len(index[w]) = s /\ MaxWeak > 0
      <4>1. tail_index \in 0 .. Size * GenMod - 1
        BY <1>0, <2>1, <2>2, ConfigAssumption DEF NoWrap
      <4>2. get_generation_for_index(tail_index) % GenMod
              = get_generation_for_index(tail_index)
        BY <4>1, GenerationFits
      <4>3. get_generation_for_index(index[w])
              # get_generation_for_index(tail_index)
        BY <1>0, <1>7, <2>2, <3>1, <3>3, SameRow DEF s
      <4>4. ~Vouches(weak_readers'[s], index[w])
        BY <1>0, <1>1, <3>3, <4>2, <4>3 DEF Vouches, Describes
      <4>5. mod_len(index'[w]) = s /\ index'[w] = index[w]
        BY <1>7, <2>2, <3>3
      <4>6. Written(index[w])'
        BY <1>3, <3>1, <4>5
      <4>7. ~Vouches(weak_readers'[s], index'[w])
        BY <4>4, <4>5
      <4>8. ~Vouches(weak_readers'[mod_len(index'[w])], index'[w])
        BY <4>5, <4>7
      <4> QED
        BY <4>6, <4>8 DEF Vouches, mod_len, get_generation_for_index
    <3> QED
      BY <1>2, <3>2, <3>3
  <2> QED
    BY <1>0, <2>1, <2>2, ConfigAssumption DEF StaleInv
<1>10. WeakRowExact'
  BY <1>0 DEF WordParts, WeakRowExact, WeakAside
<1> QED
  BY <1>5, <1>6, <1>8, <1>9, <1>10 DEF WordParts

LEMMA PublishKeepsWords ==
  ASSUME ProofInv, WordParts, NEW p \in Producers, Publish(p)
  PROVE  WordParts'
<1> DEFINE s == mod_len(index[p])
<1>0. /\ index[p] = tail_index /\ tail_index \in Nat /\ s \in Slots
      /\ tail_index' = tail_index + 1
      /\ \A q \in Producers \ {p} : pc[q] = "out" /\ pc'[q] = "out"
      /\ pc[p] = "publish" /\ pc'[p] = "idle"
      /\ WeakAside /\ UNCHANGED <<weak_readers, buffer, index>>
      /\ Putting(p)
  BY OnlyPut, PutLeavesWeak, Roles DEF Publish, Goto, Putting, PutLabels,
    PutSteps, ProofInv, RingInv, HandleInv, TypeOK
<1>1. \A i \in Int : Written(i) => Written(i)'
  BY <1>0 DEF Written
<1>2. WordInv'
  BY <1>0, <1>1
  DEF WordParts, WordInv, Describes, mod_len, get_generation_for_index
<1>3. HistoryInv'
  <2> SUFFICES ASSUME MaxWeak > 0 PROVE HistoryInv'
    BY DEF HistoryInv
  <2>1. \A q \in Producers : ~Claimed(q)' /\ pc'[q] # "publish"
    BY <1>0 DEF Claimed
  <2>2. \A q \in Producers : Claimed(q) => q = p
    BY <1>0 DEF Claimed
  <2>3. ASSUME NEW i \in 0 .. tail_index, tail_index + 1 <= i + Size
        PROVE  Describes(weak_readers[mod_len(i)], i)
    <3>1. CASE i = tail_index
      BY <1>0, <3>1 DEF WordParts, HistoryInv
    <3>2. CASE i # tail_index
      <4>1. i \in 0 .. tail_index - 1 /\ tail_index <= i + Size
        BY <1>0, <2>3, <3>2, ConfigAssumption
      <4>2. mod_len(i) # s
        <5>1. i \in Int /\ tail_index \in Int /\ Size \in Int
          BY <1>0, ConfigAssumption
        <5>2. i - tail_index < Size /\ tail_index - i < Size
          BY <1>0, <2>3, <4>1, ConfigAssumption
        <5> QED
          BY <1>0, <3>2, <5>1, <5>2, SameSlot
      <4> QED
        BY <2>2, <4>1, <4>2 DEF WordParts, HistoryInv
    <3> QED
      BY <3>1, <3>2
  <2>4. tail_index' - 1 = tail_index
    BY <1>0
  <2> QED
    BY <1>0, <2>1, <2>3, <2>4
    DEF HistoryInv, Describes, mod_len, get_generation_for_index
<1>4. ASSUME NEW w \in WeakObservers, Receiving(w)' \/ Observing(w)'
      PROVE  /\ Observing(w) /\ Observing(w)' /\ Receiving(w)' = Receiving(w)
             /\ index'[w] = index[w] /\ data'[w] = data[w] /\ slot'[w] = slot[w]
             /\ pc'[w] = pc[w] /\ mod_len(index[w]) \in Slots
             /\ index[w] \in Nat
  BY <1>0, <1>4, WeakTypes DEF WeakAside, Observing, Receiving
<1>5. ObserveInv'
  BY <1>0, <1>4 DEF WordParts, ObserveInv, Observing, Receiving,
    OwnBitSet, Vouches, mod_len, get_generation_for_index
<1>6. StaleInv'
  <2>1. /\ tail_index' <= MaxRows
        /\ \A q \in Producers : ~Putting(q)'
    BY <1>0, ConfigAssumption DEF WordParts, StaleInv, Putting, PutLabels
  <2>2. ASSUME NoWrap, NEW w \in WeakObservers, Receiving(w)'
        PROVE  /\ Written(index[w])'
               /\ ~OwnBitSet(w, weak_readers[mod_len(index[w])])'
                    => ~Vouches(weak_readers[mod_len(index[w])], index[w])'
    BY <1>0, <1>1, <1>4, <2>2 DEF WordParts, StaleInv, OwnBitSet, Vouches, mod_len,
      get_generation_for_index
  <2> QED
    BY <2>1, <2>2 DEF StaleInv
<1>7. WeakRowExact'
  BY <1>0 DEF WordParts, WeakRowExact, WeakAside
<1> QED
  BY <1>2, <1>3, <1>5, <1>6, <1>7 DEF WordParts

(***************************************************************************)
(* The steps of a weak observer.                                           *)
(***************************************************************************)

(* What ObserveInv, StaleInv and WeakRowExact say of one observer.         *)
Observes(w) ==
  Observing(w) =>
    LET s == mod_len(index[w])
    IN  /\ index[w] \in Nat
        /\ Receiving(w) =>
             /\ get_generation_for_index(index[w]) \in 0 .. GenMod - 1
             /\ OwnBitSet(w, weak_readers[s]) =>
                  /\ Vouches(weak_readers[s], index[w])
                  /\ pc[w] \in {"read_hi", "copied"} => data[w].lo = buffer[s].lo
                  /\ pc[w] = "copied" => data[w].hi = buffer[s].hi

Stale(w) ==
  Receiving(w) =>
    LET word == weak_readers[mod_len(index[w])]
    IN  /\ Written(index[w])
        /\ ~OwnBitSet(w, word) => ~Vouches(word, index[w])

Exact(w) ==
  result[w] # None =>
    /\ result[w].lo = result[w].hi
    /\ (result[w].lo - index[w]) % (Size * GenMod) = 0

(* No step of a weak observer touches the producer or the rows, and the    *)
(* only bit of a state word that it changes is its own.                    *)
LEMMA WeakLeavesPut ==
  ASSUME ProofInv, NEW w \in WeakObservers, WeakSteps(w)
  PROVE  /\ UNCHANGED <<tail_index, buffer, slot>>
         /\ \A p \in Producers : pc'[p] = pc[p] /\ index'[p] = index[p]
         /\ \A u \in WeakObservers \ {w} :
              /\ pc'[u] = pc[u] /\ index'[u] = index[u]
              /\ data'[u] = data[u] /\ result'[u] = result[u]
         /\ \A s \in Slots :
              /\ weak_readers'[s].valid = weak_readers[s].valid
              /\ weak_readers'[s].generation = weak_readers[s].generation
              /\ \A u \in WeakObservers \ {w} : Observing(u) =>
                   (slot[u] \in weak_readers'[s].reading
                      <=> slot[u] \in weak_readers[s].reading)
<1> USE DEF ProofInv, RingInv, HandleInv
<1>1. /\ UNCHANGED <<tail_index, buffer, slot>>
      /\ \A t \in Threads \ {w} : pc'[t] = pc[t] /\ index'[t] = index[t]
      /\ \A u \in Readers \ {w} : data'[u] = data[u] /\ result'[u] = result[u]
  <2>1. UNCHANGED <<tail_index, buffer, slot>>
    BY DEF WeakSteps, CallWeakObserve, Enter, ReadLo, ReadHi, Leave, ring
  <2>2. \A t \in Threads \ {w} : pc'[t] = pc[t]
    BY WeakMoves DEF TypeOK
  <2>3. \A t \in Threads \ {w} : index'[t] = index[t]
    BY DEF TypeOK, WeakSteps, CallWeakObserve, Enter, ReadLo, ReadHi, Leave
  <2>4. \A u \in Readers \ {w} : data'[u] = data[u] /\ result'[u] = result[u]
    BY DEF TypeOK, WeakSteps, CallWeakObserve, Enter, ReadLo, ReadHi, Leave,
      Return
  <2> QED
    BY <2>1, <2>2, <2>3, <2>4
<1>2. CASE weak_readers' = weak_readers
  BY <1>1, <1>2, Roles, ThreadTypes
<1>3. CASE Enter(w) \/ Leave(w)
  <2>1. \A u \in WeakObservers \ {w} : Observing(u) => slot[u] # slot[w]
    BY <1>3 DEF Enter, Leave, BitInv, DistinctSlots, Holding, Observing,
      CopyLabels
  <2>2. \A s \in Slots :
          /\ weak_readers'[s].valid = weak_readers[s].valid
          /\ weak_readers'[s].generation = weak_readers[s].generation
    BY <1>3, MarksKeepWord
  <2>3. \A s \in Slots :
          \/ weak_readers'[s] = weak_readers[s]
          \/ weak_readers'[s].reading = weak_readers[s].reading \cup {slot[w]}
          \/ weak_readers'[s].reading = weak_readers[s].reading \ {slot[w]}
    BY <1>3 DEF Enter, Leave, TypeOK
  <2>4. \A s \in Slots : \A u \in WeakObservers \ {w} : Observing(u) =>
          (slot[u] \in weak_readers'[s].reading
             <=> slot[u] \in weak_readers[s].reading)
    BY <2>1, <2>3
  <2> QED
    BY <1>1, <2>2, <2>4, Roles, ThreadTypes
<1> QED
  BY <1>2, <1>3 DEF WeakSteps, CallWeakObserve, ReadLo, ReadHi, ring

(* So the other observers, and what the words say of the rows, are as      *)
(* before.                                                                 *)
LEMMA WeakKeepsOthers ==
  ASSUME ProofInv, WordParts, NEW w \in WeakObservers, WeakSteps(w),
         Observes(w)', NoWrap => Stale(w)', Exact(w)'
  PROVE  WordParts'
<1>1. \A i : Written(i)' = Written(i)
  BY WeakLeavesPut DEF Written
<1>2. WordInv'
  BY <1>1, WeakLeavesPut
  DEF WordParts, WordInv, Describes, mod_len, get_generation_for_index
<1>3. HistoryInv'
  <2>1. \A p \in Producers : Claimed(p)' = Claimed(p) /\ pc'[p] = pc[p]
                             /\ index'[p] = index[p]
    BY WeakLeavesPut DEF Claimed
  <2>2. \A s \in Slots : \A i :
          Describes(weak_readers[s], i)' = Describes(weak_readers[s], i)
    BY WeakLeavesPut DEF Describes, get_generation_for_index
  <2>3. /\ \A i \in 0 .. tail_index - 1 : mod_len(i) \in Slots
        /\ \A p \in Producers : pc[p] = "publish" => mod_len(index[p]) \in Slots
    <3>1. \A p \in Producers : pc[p] = "publish" => mod_len(index[p]) \in Slots
      BY OnlyPut DEF Putting, PutLabels
    <3> QED
      BY <3>1, SlotOfIndex
  <2> QED
    BY <2>1, <2>2, <2>3, WeakLeavesPut
    DEF WordParts, HistoryInv, Describes, mod_len, get_generation_for_index
<1>4. ASSUME NEW u \in WeakObservers \ {w}
      PROVE  Observes(u)' /\ (NoWrap => Stale(u)') /\ Exact(u)'
  <2>1. /\ Observing(u)' = Observing(u) /\ Receiving(u)' = Receiving(u)
        /\ pc'[u] = pc[u] /\ index'[u] = index[u] /\ data'[u] = data[u]
        /\ result'[u] = result[u] /\ slot'[u] = slot[u]
    BY <1>4, WeakLeavesPut DEF Observing, Receiving
  <2>2. Receiving(u) => Observing(u)
    BY DEF Receiving, Observing
  <2>3. Observing(u) =>
          LET s == mod_len(index[u])
          IN  /\ s \in Slots
              /\ OwnBitSet(u, weak_readers[s])' = OwnBitSet(u, weak_readers[s])
              /\ Vouches(weak_readers[s], index[u])'
                   = Vouches(weak_readers[s], index[u])
    BY <1>4, <2>1, WeakLeavesPut, WeakTypes
    DEF OwnBitSet, Vouches, mod_len, get_generation_for_index
  <2>4. Observes(u)'
    BY <2>1, <2>2, <2>3, WeakLeavesPut DEF WordParts, ObserveInv, Observes,
      Observing, OwnBitSet, Vouches, mod_len, get_generation_for_index
  <2>5. NoWrap => Stale(u)'
    BY <1>1, <2>1, <2>2, <2>3 DEF WordParts, StaleInv, Stale, OwnBitSet, Vouches,
      mod_len, get_generation_for_index
  <2>6. Exact(u)'
    BY <2>1 DEF WordParts, WeakRowExact, Exact
  <2> QED
    BY <2>4, <2>5, <2>6
<1>5. ObserveInv'
  BY <1>4 DEF ObserveInv, Observes, Observing
<1>6. StaleInv'
  <2>1. tail_index' = tail_index /\ \A p \in Producers : Putting(p)' = Putting(p)
    BY WeakLeavesPut DEF Putting
  <2> QED
    BY <1>4, <2>1 DEF WordParts, StaleInv, Stale
<1>7. WeakRowExact'
  BY <1>4 DEF WeakRowExact, Exact
<1> QED
  BY <1>2, <1>3, <1>5, <1>6, <1>7 DEF WordParts

(* The word that vouches for a row describes the row in the element: a row *)
(* whole wraps away from the one asked for, and the very row without one.  *)
LEMMA VouchedRow ==
  ASSUME ProofInv, WordParts, NEW w \in WeakObservers, Observing(w),
         Vouches(weak_readers[mod_len(index[w])], index[w])
  PROVE  LET row == buffer[mod_len(index[w])]
         IN  /\ row.lo = row.hi
             /\ (row.lo - index[w]) % (Size * GenMod) = 0
             /\ row.lo \in 0 .. tail_index
             /\ NoWrap => index[w] = row.lo /\ Written(index[w])
<1> DEFINE s == mod_len(index[w])
           i == buffer[s].lo
<1>1. s \in Slots /\ index[w] \in Nat /\ tail_index \in Nat
  BY WeakTypes
<1>2. /\ i = buffer[s].hi /\ i \in Nat /\ Written(i) /\ mod_len(i) = s
      /\ get_generation_for_index(i) % GenMod = get_generation_for_index(index[w])
  BY <1>1 DEF WordParts, WordInv, Describes, Vouches
<1> HIDE DEF i
<1>3. (i - index[w]) % (Size * GenMod) = 0
  <2>0. Size \in Nat \ {0} /\ GenMod \in Nat \ {0}
    BY ConfigAssumption
  <2>1. get_generation_for_index(i) \in Int /\ i \in Int /\ index[w] \in Int
    <3>1. i \in Int /\ index[w] \in Int
      BY <1>1, <1>2
    <3> QED
      BY <2>0, <3>1, Division DEF get_generation_for_index
  <2>2. get_generation_for_index(i) % GenMod \in 0 .. GenMod - 1
    BY <2>0, <2>1, Division
  <2>3. get_generation_for_index(index[w]) % GenMod = get_generation_for_index(i) % GenMod
    <3>1. \A x \in 0 .. GenMod - 1 : x % GenMod = x
      BY ConfigAssumption
    <3> QED
      BY <1>2, <2>2, <3>1
  <2> QED
    BY <1>2, <2>1, <2>3, WrapsApart
<1>4. i \in 0 .. tail_index
  BY <1>1, <1>2 DEF Written
<1>5. ASSUME NoWrap PROVE index[w] = i
  <2>1. i < MaxRows
    BY <1>1, <1>2, ConfigAssumption DEF Written, WordParts, StaleInv, Putting,
      PutLabels
  <2>2. i \in 0 .. Size * GenMod - 1
    BY <1>2, <1>5, <2>1, ConfigAssumption DEF NoWrap
  <2>3. get_generation_for_index(i) = get_generation_for_index(index[w])
    BY <1>2, <2>2, GenerationFits
  <2> QED
    BY <1>1, <1>2, <2>3, SameRow
<1> QED
  BY <1>2, <1>3, <1>4, <1>5 DEF i

LEMMA EnterKeepsWords ==
  ASSUME ProofInv, WordParts, NEW w \in WeakObservers, Enter(w)
  PROVE  WordParts'
<1> DEFINE s == mod_len(index[w])
<1>0. WeakSteps(w) /\ Observing(w)
  BY DEF WeakSteps, Enter, Observing
<1>1. /\ s \in Slots /\ index[w] \in Nat /\ weak_readers[s].generation \in 0 .. GenMod - 1
      /\ UNCHANGED <<index, slot, buffer, data, result, tail_index>>
      /\ pc'[w] = IF Vouches(weak_readers[s], index[w]) THEN "read_lo" ELSE "idle"
  BY <1>0, WeakTypes, Roles DEF Enter, Goto, ProofInv, RingInv, HandleInv, TypeOK
<1>2. slot[w] \in weak_readers'[s].reading
  BY <1>1 DEF Enter, ProofInv, RingInv, HandleInv, TypeOK
<1>3. /\ weak_readers'[s].valid = weak_readers[s].valid
      /\ weak_readers'[s].generation = weak_readers[s].generation
  BY <1>0, <1>1, WeakLeavesPut
<1>4. Observes(w)'
  BY <1>1, <1>2, <1>3 DEF Observes, Observing, Receiving, CopyLabels, OwnBitSet,
    Vouches, mod_len, get_generation_for_index
<1>5. ASSUME NoWrap PROVE Stale(w)'
  <2>1. CASE Vouches(weak_readers[s], index[w])
    <3>1. Written(index[w])
      BY <1>0, <1>5, <2>1, VouchedRow
    <3>2. Written(index[w])'
      BY <1>0, <1>1, <3>1, WeakLeavesPut DEF Written
    <3> QED
      BY <1>1, <1>2, <3>2 DEF Stale, OwnBitSet, mod_len
  <2>2. CASE ~Vouches(weak_readers[s], index[w])
    BY <1>1, <2>2 DEF Stale, Receiving, CopyLabels
  <2> QED
    BY <2>1, <2>2
<1>6. Exact(w)'
  BY <1>1 DEF WordParts, WeakRowExact, Exact
<1> QED
  BY <1>0, <1>4, <1>5, <1>6, WeakKeepsOthers

LEMMA WeakReadKeepsWords ==
  ASSUME ProofInv, WordParts, NEW w \in WeakObservers, ReadLo(w) \/ ReadHi(w)
  PROVE  WordParts'
<1> DEFINE s == mod_len(index[w])
<1>0. WeakSteps(w) /\ Observing(w) /\ Receiving(w)
  BY DEF WeakSteps, ReadLo, ReadHi, Observing, Receiving, CopyLabels
<1>1. /\ UNCHANGED <<index, slot, buffer, weak_readers, result, tail_index>>
      /\ Receiving(w)' /\ Observing(w)'
      /\ \/ /\ pc'[w] = "read_hi"
            /\ data'[w].lo = buffer[s].lo
         \/ /\ pc[w] = "read_hi" /\ pc'[w] = "copied"
            /\ data'[w].lo = data[w].lo /\ data'[w].hi = buffer[s].hi
  <2> USE Roles, ThreadTypes DEF Goto, ring, Receiving, Observing, CopyLabels
  <2>1. TypeOK /\ data[w] \in Payload
    BY DEF ProofInv, RingInv, HandleInv, TypeOK
  <2>2. CASE ReadLo(w)
    <3>1. pc'[w] = "read_hi" /\ data'[w] = [data[w] EXCEPT !.lo = buffer[s].lo]
      BY <2>1, <2>2 DEF ReadLo, TypeOK
    <3> QED
      BY <2>1, <2>2, <3>1 DEF ReadLo, Payload
  <2>3. CASE ReadHi(w)
    <3>1. /\ pc[w] = "read_hi" /\ pc'[w] = "copied"
          /\ data'[w] = [data[w] EXCEPT !.hi = buffer[s].hi]
      BY <2>1, <2>3 DEF ReadHi, TypeOK
    <3> QED
      BY <2>1, <2>3, <3>1 DEF ReadHi, Payload
  <2> QED
    BY <2>2, <2>3
<1>2. Observes(w)'
  BY <1>0, <1>1 DEF WordParts, ObserveInv, Observes, Observing, Receiving,
    CopyLabels, OwnBitSet, Vouches, mod_len, get_generation_for_index
<1>3. ASSUME NoWrap PROVE Stale(w)'
  <2>1. Written(index[w])' = Written(index[w])
    BY <1>0, <1>1, WeakLeavesPut DEF Written
  <2> QED
    BY <1>0, <1>1, <1>3, <2>1 DEF WordParts, StaleInv, Stale, OwnBitSet, Vouches,
      mod_len, get_generation_for_index
<1>4. Exact(w)'
  BY <1>1 DEF WordParts, WeakRowExact, Exact
<1> QED
  BY <1>0, <1>2, <1>3, <1>4, WeakKeepsOthers

(* What weak_observe returns was vouched for before and after the copy.    *)
LEMMA LeaveResult ==
  ASSUME ProofInv, WordParts, NEW w \in WeakObservers, Leave(w)
  PROVE  /\ index' = index
         /\ pc'[w] \in {"idle", "panicked"}
         /\ NoWrap => pc'[w] = "idle"
         /\ \/ result' = result
            \/ result' = [result EXCEPT ![w] = None]
            \/ \E i \in 0 .. tail_index :
                 /\ result' = [result EXCEPT ![w] = Row(i)]
                 /\ (i - index[w]) % (Size * GenMod) = 0
<1> DEFINE s == mod_len(index[w])
           word == weak_readers[s]
<1>0. Observing(w) /\ Receiving(w) /\ pc[w] = "copied"
  BY DEF Leave, Observing, Receiving, CopyLabels
<1>1. index' = index
  BY DEF Leave
<1>2. CASE ~Vouches(word, index[w]) /\ Return(w, None)
  BY <1>1, <1>2, Roles DEF Return, Goto, ProofInv, RingInv, HandleInv, TypeOK
<1>3. CASE Vouches(word, index[w]) /\ OwnBitSet(w, word) /\ Return(w, data[w])
  <2>1. data[w].lo = buffer[s].lo /\ data[w].hi = buffer[s].hi
    BY <1>0, <1>3 DEF WordParts, ObserveInv, Receiving
  <2>2. /\ buffer[s].lo = buffer[s].hi
        /\ (buffer[s].lo - index[w]) % (Size * GenMod) = 0
        /\ buffer[s].lo \in 0 .. tail_index
    BY <1>0, <1>3, VouchedRow
  <2>3. data[w] = Row(buffer[s].lo)
    BY <2>1, <2>2, ThreadTypes DEF ProofInv, RingInv, HandleInv, TypeOK, Payload,
      Row
  <2> QED
    BY <1>1, <1>3, <2>2, <2>3, Roles DEF Return, Goto, ProofInv, RingInv,
      HandleInv, TypeOK
<1>4. CASE /\ Vouches(word, index[w]) /\ ~OwnBitSet(w, word)
           /\ Goto(w, "panicked") /\ UNCHANGED <<data, result>>
  <2>1. ~NoWrap
    BY <1>0, <1>4 DEF WordParts, StaleInv
  <2> QED
    BY <1>1, <1>4, <2>1, Roles DEF Goto, ProofInv, RingInv, HandleInv, TypeOK
<1> QED
  BY <1>2, <1>3, <1>4 DEF Leave

LEMMA LeaveKeepsWords ==
  ASSUME ProofInv, WordParts, NEW w \in WeakObservers, Leave(w)
  PROVE  WordParts'
<1>1. WeakSteps(w) /\ pc'[w] \in {"idle", "panicked"}
  BY LeaveResult DEF WeakSteps
<1>2. Observes(w)' /\ Stale(w)'
  BY <1>1 DEF Observes, Stale, Observing, Receiving, CopyLabels
<1>3. Exact(w)'
  <2>1. result \in [Readers -> Payload] /\ w \in Readers
    BY ThreadTypes DEF ProofInv, RingInv, HandleInv, TypeOK
  <2>2. CASE result' = result
    BY <2>2, LeaveResult DEF WordParts, WeakRowExact, Exact
  <2>3. CASE result' = [result EXCEPT ![w] = None]
    BY <2>1, <2>3 DEF Exact
  <2>4. CASE \E i \in 0 .. tail_index :
               /\ result' = [result EXCEPT ![w] = Row(i)]
               /\ (i - index[w]) % (Size * GenMod) = 0
    <3>1. PICK i \in 0 .. tail_index :
            /\ result' = [result EXCEPT ![w] = Row(i)]
            /\ (i - index[w]) % (Size * GenMod) = 0
      BY <2>4
    <3>2. /\ result'[w].lo = i /\ result'[w].hi = i
          /\ index'[w] = index[w]
      BY <2>1, <3>1, LeaveResult DEF Row
    <3> QED
      BY <3>1, <3>2 DEF Exact
  <2> QED
    BY <2>2, <2>3, <2>4, LeaveResult
<1> QED
  BY <1>1, <1>2, <1>3, WeakKeepsOthers

LEMMA CallKeepsWords ==
  ASSUME ProofInv, WordParts, NEW w \in WeakObservers, NEW i \in 0 .. MaxRows,
         CallWeakObserve(w, i)
  PROVE  WordParts'
<1>1. /\ WeakSteps(w) /\ pc'[w] \in {"idle", "enter"}
      /\ index'[w] = i /\ i \in Nat /\ result'[w] = None
  <2>1. WeakSteps(w) /\ i \in Nat
    BY DEF WeakSteps
  <2>2. index'[w] = i /\ result'[w] = None
    BY ThreadTypes DEF CallWeakObserve, ProofInv, RingInv, HandleInv, TypeOK
  <2>3. pc'[w] \in {"idle", "enter"}
    BY Roles DEF CallWeakObserve, Goto, ProofInv, RingInv, HandleInv, TypeOK
  <2> QED
    BY <2>1, <2>2, <2>3
<1>2. Observes(w)' /\ Stale(w)' /\ Exact(w)'
  BY <1>1 DEF Observes, Stale, Exact, Observing, Receiving, CopyLabels
<1> QED
  BY <1>1, <1>2, WeakKeepsOthers

(***************************************************************************)
(* The invariant of weak observation, for any number of observers.         *)
(***************************************************************************)
IndInv == ProofInv /\ WordParts

LEMMA WordInit == Init => IndInv
<1> SUFFICES ASSUME Init PROVE IndInv
  OBVIOUS
<1>1. RingInv /\ InvalidInv
  BY RingInit, Roles DEF Init, InvalidInv
<1>2. BitInv
  <2>1. /\ Len(free_weak_observer_bits) = MaxWeak
        /\ \A k \in 1 .. MaxWeak : free_weak_observer_bits[k] = k - 1
    BY ConfigAssumption DEF Init
  <2> QED
    BY <2>1, Roles, ConfigAssumption DEF BitInv, DistinctSlots, Holding, Init
<1>3. WordInv /\ ObserveInv /\ WeakRowExact
  BY Roles, ThreadTypes DEF Init, WordInv, ObserveInv, WeakRowExact, CopyLabels
<1>4. HistoryInv
  BY Roles DEF Init, HistoryInv
<1>5. StaleInv
  BY Roles, ConfigAssumption DEF Init, StaleInv, Putting, PutLabels, Receiving,
    CopyLabels
<1> QED
  BY <1>1, <1>2, <1>3, <1>4, <1>5 DEF IndInv, ProofInv, WordParts

LEMMA WordStep == IndInv /\ [Next]_vars => IndInv'
<1> SUFFICES ASSUME IndInv, [Next]_vars PROVE IndInv'
  OBVIOUS
<1>1. ProofInv'
  BY RingStep, BitStep, InvalidStep DEF IndInv, ProofInv, RingInv, HandleInv
<1>2. WordParts'
  <2>1. ASSUME NEW p \in Producers,
               \/ Claim(p) \/ WriteLo(p) \/ WriteHi(p) \/ Validate(p)
               \/ Publish(p)
        PROVE  WordParts'
    BY <2>1, ClaimKeepsWords, WriteKeepsWords, ValidateKeepsWords,
       PublishKeepsWords DEF IndInv
  <2>2. ASSUME NEW w \in WeakObservers, WeakSteps(w) PROVE WordParts'
    BY <2>2, CallKeepsWords, EnterKeepsWords, WeakReadKeepsWords,
       LeaveKeepsWords DEF IndInv, WeakSteps
  <2>3. CASE QuietSteps
    BY <2>3, QuietLeavesWords, QuietKeepsWords
    DEF IndInv, ProofInv, RingInv, HandleInv
  <2> QED
    BY <2>1, <2>2, <2>3, NextSplit DEF QuietSteps, PutSteps
<1> QED
  BY <1>1, <1>2 DEF IndInv

LEMMA WordsCorrect == Spec => []IndInv
  BY WordInit, WordStep, PTL DEF Spec

(* State words describe whole rows, invalid words cover every write, no    *)
(* two observers share a reading bit, and an observer whose bit is still   *)
(* set copies the row it was vouched for; for all sizes, generation widths *)
(* and numbers of threads.                                                 *)
THEOREM WeakCorrect == Spec => []WeakInv
<1>1. IndInv => WeakInv
  BY DEF IndInv, ProofInv, WordParts, WeakInv, RingInv, HandleInv, ProtocolInv
<1> QED
  BY <1>1, WordsCorrect, PTL

(* weak_observe returns nothing, or a whole row that is a whole number of  *)
(* generation wraps away from the row asked for, although its copy races   *)
(* with the producer's writes.                                             *)
THEOREM WeakRowCorrect == Spec => []WeakRowExact
  BY WeakCorrect, PTL DEF WeakInv

(* The assertion of weak_observe that its own bit is still set never fails *)
(* as long as fewer rows are put than the generation field tells apart.    *)
THEOREM OwnBitCorrect ==
  ASSUME NoWrap
  PROVE  Spec => []OwnBitSurvives
<1>1. Init => OwnBitSurvives
  BY Roles DEF Init, OwnBitSurvives
<1>2. ASSUME IndInv, OwnBitSurvives, [Next]_vars PROVE OwnBitSurvives'
  <2>1. ASSUME NEW p \in Producers, PutSteps(p) PROVE OwnBitSurvives'
    BY <1>2, <2>1, PutLeavesWeak
    DEF OwnBitSurvives, WeakAside, IndInv, ProofInv, RingInv, HandleInv
  <2>2. CASE QuietSteps
    BY <1>2, <2>2, QuietLeavesWords
    DEF OwnBitSurvives, WeakAside, IndInv, ProofInv, RingInv, HandleInv
  <2>3. ASSUME NEW w \in WeakObservers, WeakSteps(w) PROVE OwnBitSurvives'
    <3>1. \A u \in WeakObservers \ {w} : pc'[u] = pc[u]
      BY <1>2, <2>3, WeakLeavesPut DEF IndInv
    <3>2. CASE Leave(w)
      <4>1. pc'[w] = "idle"
        BY <1>2, <3>2, LeaveResult DEF IndInv
      <4> QED
        BY <1>2, <3>1, <4>1 DEF OwnBitSurvives
    <3>3. CASE ~Leave(w)
      <4>1. pc'[w] # "panicked"
        BY <1>2, <2>3, <3>3, Roles DEF OwnBitSurvives, WeakSteps, CallWeakObserve,
          Enter, ReadLo, ReadHi, Goto, IndInv, ProofInv, RingInv, HandleInv, TypeOK
      <4> QED
        BY <1>2, <3>1, <4>1 DEF OwnBitSurvives
    <3> QED
      BY <3>2, <3>3
  <2> QED
    BY <1>2, <2>1, <2>2, <2>3, NextSplit DEF QuietSteps
<1> QED
  BY <1>1, <1>2, WordsCorrect, PTL DEF Spec

(* The rows from oldest_cursor to recent_cursor can be read back, but for  *)
(* the one whose element the producer has claimed, under the same proviso. *)
THEOREM HistoryCorrect ==
  ASSUME NoWrap
  PROVE  Spec => []HistoryReadable
<1>1. ASSUME IndInv PROVE HistoryReadable
  <2> SUFFICES ASSUME MaxWeak > 0, tail_index > 0,
                      NEW i \in OldestCursor .. RecentCursor
               PROVE  \/ Vouches(weak_readers[mod_len(i)], i)
                      \/ \E p \in Producers :
                           Claimed(p) /\ mod_len(index[p]) = mod_len(i)
    BY DEF HistoryReadable
  <2>1. /\ tail_index \in Nat /\ Size \in Nat \ {0} /\ tail_index <= MaxRows
        /\ MaxRows \in Nat /\ Size * GenMod \in Int
    BY <1>1, WeakTypes, ConfigAssumption DEF IndInv, WordParts, StaleInv
  <2>2. i \in 0 .. tail_index - 1 /\ tail_index <= i + Size
    BY <2>1 DEF OldestCursor, RecentCursor
  <2>3. i \in 0 .. Size * GenMod - 1
    BY <2>1, <2>2 DEF NoWrap
  <2>4. Describes(weak_readers[mod_len(i)], i) => Vouches(weak_readers[mod_len(i)], i)
    BY <2>3, GenerationFits DEF Describes, Vouches
  <2> QED
    BY <1>1, <2>2, <2>4 DEF IndInv, WordParts, HistoryInv
<1> QED
  BY <1>1, WordsCorrect, PTL

(***************************************************************************)
(* What a weak observer is told, beyond the wrap and before it.            *)
(***************************************************************************)
Answer(w) ==
  result[w] # None =>
    /\ index[w] \in 0 .. Size * GenMod - 1
    /\ NoWrap => result[w] = Row(index[w])

Answers == \A w \in WeakObservers : Answer(w)

(* An index whose generation the field can hold is below the wrap.         *)
LEMMA BelowWrap ==
  ASSUME NEW i \in Nat, get_generation_for_index(i) \in 0 .. GenMod - 1
  PROVE  i \in 0 .. Size * GenMod - 1
<1>1. Size \in Nat \ {0} /\ GenMod \in Nat \ {0} /\ Size * GenMod \in Nat
  BY ConfigAssumption
<1> DEFINE g == i \div Size
<1>2. i = Size * g + (i % Size) /\ i % Size \in 0 .. Size - 1 /\ g \in Int
  BY <1>1, Division
<1>3. g <= GenMod - 1
  BY <1>1, <1>2 DEF get_generation_for_index
<1> HIDE DEF g
<1>4. Size * g <= Size * GenMod - Size
  <2>1. \A m \in Int : m <= GenMod - 1 => Size * m <= Size * GenMod - Size
    BY <1>1, Z3
  <2> QED
    BY <1>2, <1>3, <2>1
<1>5. Size * g \in Int /\ i % Size \in Int
  BY <1>1, <1>2
<1> QED
  BY <1>1, <1>2, <1>4, <1>5

LEMMA AnswersHold == Spec => []Answers
<1> USE DEF IndInv, ProofInv, RingInv, HandleInv
<1>1. Init => Answers
  BY ThreadTypes DEF Init, Answers, Answer
<1>2. ASSUME IndInv, Answers, [Next]_vars PROVE Answers'
  <2>1. ASSUME WeakAside PROVE Answers'
    BY <1>2, <2>1 DEF WeakAside, Answers, Answer
  <2>2. ASSUME NEW p \in Producers, PutSteps(p) PROVE Answers'
    BY <1>2, <2>1, <2>2, PutLeavesWeak
  <2>3. CASE QuietSteps
    BY <1>2, <2>1, <2>3, QuietLeavesWords
  <2>4. ASSUME NEW w \in WeakObservers, WeakSteps(w) PROVE Answers'
    <3>1. \A u \in WeakObservers \ {w} : Answer(u)'
      BY <1>2, <2>4, WeakLeavesPut DEF Answers, Answer
    <3>2. CASE \E i \in 0 .. MaxRows : CallWeakObserve(w, i)
      <4>1. result'[w] = None
        BY <1>2, <3>2, ThreadTypes DEF CallWeakObserve, TypeOK
      <4> QED
        BY <3>1, <4>1 DEF Answers, Answer
    <3>3. CASE Enter(w) \/ ReadLo(w) \/ ReadHi(w)
      BY <1>2, <3>1, <3>3 DEF Answers, Answer, Enter, ReadLo, ReadHi
    <3>4. CASE Leave(w)
      <4> DEFINE s == mod_len(index[w])
                 word == weak_readers[s]
      <4>1. Observing(w) /\ Receiving(w) /\ pc[w] = "copied" /\ index' = index
        BY <3>4 DEF Leave, Observing, Receiving, CopyLabels
      <4>2. CASE ~Vouches(word, index[w]) /\ Return(w, None)
        <5>1. result'[w] = None
          BY <1>2, <4>2, ThreadTypes DEF Return, TypeOK
        <5> QED
          BY <3>1, <5>1 DEF Answers, Answer
      <4>3. CASE Vouches(word, index[w]) /\ OwnBitSet(w, word) /\ Return(w, data[w])
        <5>1. /\ data[w].lo = buffer[s].lo /\ data[w].hi = buffer[s].hi
              /\ index[w] \in Nat
              /\ get_generation_for_index(index[w]) \in 0 .. GenMod - 1
          BY <1>2, <4>1, <4>3 DEF WordParts, ObserveInv, Receiving
        <5>2. index[w] \in 0 .. Size * GenMod - 1
          BY <5>1, BelowWrap
        <5>3. /\ buffer[s].lo = buffer[s].hi
              /\ NoWrap => index[w] = buffer[s].lo
          BY <1>2, <4>1, <4>3, VouchedRow
        <5>4. NoWrap => data[w] = Row(index[w])
          BY <1>2, <5>1, <5>3, ThreadTypes DEF TypeOK, Payload, Row
        <5>5. result'[w] = data[w]
          BY <1>2, <4>3, ThreadTypes DEF Return, TypeOK
        <5> QED
          BY <3>1, <4>1, <5>2, <5>4, <5>5 DEF Answers, Answer
      <4>4. CASE UNCHANGED result
        BY <1>2, <3>1, <4>1, <4>4 DEF Answers, Answer
      <4> QED
        BY <3>4, <4>2, <4>3, <4>4 DEF Leave
    <3> QED
      BY <2>4, <3>2, <3>3, <3>4 DEF WeakSteps
  <2> QED
    BY <1>2, <2>2, <2>3, <2>4, NextSplit DEF QuietSteps
<1> QED
  BY <1>1, <1>2, WordsCorrect, PTL DEF Spec

(* As long as fewer rows are put than generations tell apart, a weak       *)
(* observation is nothing or the very row that was asked for, whole.       *)
THEOREM WeakRowIsOwn ==
  ASSUME NoWrap
  PROVE  Spec => [](\A w \in WeakObservers :
                      result[w] # None => result[w] = Row(index[w]))
<1>1. Answers => \A w \in WeakObservers :
                   result[w] # None => result[w] = Row(index[w])
  BY DEF Answers, Answer
<1> QED
  BY <1>1, AnswersHold, PTL

(* Past that many rows weak_observe never returns a row again: the         *)
(* generation of such a row is compared with a field that can not hold it. *)
THEOREM HistoryEnds ==
  Spec => [](\A w \in WeakObservers :
               result[w] # None => index[w] < Size * GenMod)
<1>1. Answers => \A w \in WeakObservers :
                   result[w] # None => index[w] < Size * GenMod
  <2>1. Size * GenMod \in Int
    BY ConfigAssumption
  <2> QED
    BY <2>1 DEF Answers, Answer
<1> QED
  BY <1>1, AnswersHold, PTL

(* index_from_state_word: a slot and the generation in its state word      *)
(* determine the global index, below the wrap.                             *)
THEOREM IndexFromWord ==
  ASSUME NEW i \in 0 .. Size * GenMod - 1
  PROVE  Size * StateWord(i, TRUE).generation + mod_len(i) = i
<1>1. i \in Int /\ Size \in Nat \ {0}
  BY ConfigAssumption
<1>2. StateWord(i, TRUE).generation = i \div Size
  BY GenerationFits DEF StateWord, get_generation_for_index
<1>3. i = Size * (i \div Size) + (i % Size)
  BY <1>1, Division
<1> QED
  BY <1>2, <1>3 DEF mod_len

(***************************************************************************)
(* The ring implements Table: Publish is the put, Advance the take and the *)
(* strong observation, and every other step is one of Table's or leaves    *)
(* the mapped state alone.                                                 *)
(***************************************************************************)
Unattached(o) == pc[o] \in {"out", "attaching"}

Position ==
  [o \in StrongObservers |-> IF Unattached(o) THEN -1 ELSE heads[slot[o]]]

(* A step that maps to a stutter.                                          *)
Unseen == UNCHANGED <<tail_index, heads[0], Position, result>>

LEMMA PutRefines ==
  ASSUME IndInv, ~AttachWhileTaking, NEW p \in Producers, PutSteps(p)
  PROVE  Abstract!Put \/ Unseen
<1> USE DEF IndInv, ProofInv, RingInv, HandleInv
<1>1. UNCHANGED <<heads, slot, result>>
  BY DEF PutSteps, CallPut, TableFull, PassHead, Claim, WriteLo, WriteHi,
    Validate, Publish, ring
<1>2. \A o \in StrongObservers : pc'[o] = pc[o]
  BY PutMoves, Roles DEF TypeOK
<1>3. Position' = Position
  BY <1>1, <1>2 DEF Position, Unattached
<1>4. CASE Publish(p)
  <2>1. /\ Putting(p) /\ index[p] = tail_index /\ tail_index \in Nat
        /\ MaxStrong < scan[p] /\ MaxStrong \in Nat /\ scan[p] \in Nat
    BY <1>4, OnlyPut, ConfigAssumption DEF Publish, Putting, PutLabels,
      ProtocolInv, PutInv, TypeOK
  <2>2. \A h \in Heads : heads[h] # UsizeMax =>
          tail_index + 1 <= heads[h] + Size - 1 /\ heads[h] \in Int
    BY <2>1, Indices DEF ProtocolInv, PutInv, Heeded, Heads
  <2>3. tail_index - heads[0] < Size - 1
    BY <2>1, <2>2, Indices, ConfigAssumption DEF ProtocolInv, HeadInv
  <2>4. \A o \in StrongObservers : Position[o] # -1 =>
          tail_index - Position[o] < Size - 1
    BY <2>1, <2>2, Indices, ConfigAssumption
    DEF Position, Unattached, UsizeMax, TypeOK
  <2>5. tail_index' = tail_index + 1
    BY <1>4, <2>1 DEF Publish
  <2> QED
    BY <1>1, <1>3, <2>3, <2>4, <2>5
    DEF Abstract!Put, Abstract!Attached, Abstract!Detached, Position, Unattached
<1>5. CASE ~Publish(p)
  <2>1. tail_index' = tail_index
    BY <1>5 DEF PutSteps, CallPut, TableFull, PassHead, Claim, WriteLo, WriteHi,
      Validate, ring
  <2> QED
    BY <1>1, <1>3, <2>1 DEF Unseen
<1> QED
  BY <1>4, <1>5

LEMMA TakeRefines ==
  ASSUME IndInv, ~AttachWhileTaking, NEW r \in Takers, TakeSteps(r)
  PROVE  \/ r \in Consumers /\ Abstract!Take(r)
         \/ r \in StrongObservers /\ Abstract!StrongObserve(r)
         \/ Abstract!ReceiveNone(r)
         \/ Unseen
<1> USE DEF IndInv, ProofInv, RingInv, HandleInv
<1>1. /\ UNCHANGED <<tail_index, slot>>
      /\ \A o \in StrongObservers : Unattached(o)' = Unattached(o)
  <2>1. UNCHANGED <<tail_index, slot>>
    BY DEF TakeSteps, TakeNone, TakeSome, ReadLo, ReadHi, Advance, ring
  <2>2. \A o \in StrongObservers : Unattached(o)' = Unattached(o)
    <3>1. PICK l \in {"idle"} \cup CopyLabels : pc' = [pc EXCEPT ![r] = l]
      BY TakeMoves
    <3>2. \A o \in StrongObservers : o # r => pc'[o] = pc[o]
      BY <3>1, Roles DEF TypeOK
    <3>3. r \in StrongObservers => pc'[r] = l
      BY <3>1, Roles DEF TypeOK
    <3>4. pc[r] \notin {"out", "attaching"} /\ l \notin {"out", "attaching"}
      BY TakeMoves DEF CopyLabels
    <3> QED
      BY <3>2, <3>3, <3>4 DEF Unattached
  <2> QED
    BY <2>1, <2>2
<1>2. CASE TakeSome(r) \/ ReadLo(r) \/ ReadHi(r)
  BY <1>1, <1>2 DEF TakeSome, ReadLo, ReadHi, ring, Unseen, Position
<1>3. CASE TakeNone(r)
  <2>1. heads' = heads /\ result' = [result EXCEPT ![r] = None]
    BY <1>3 DEF TakeNone, Return, ring
  <2>2. heads[HeadOf(r)] = tail_index
    BY <1>3, EmptyState DEF TakeNone, EmptyIsReal
  <2>3. Position' = Position
    BY <1>1, <2>1 DEF Position
  <2>4. r \in Consumers => heads[0] = tail_index
    BY <2>2 DEF HeadOf
  <2>5. r \in StrongObservers => Position[r] = tail_index /\ tail_index # -1
    BY <1>3, <2>2, Roles, Indices DEF HeadOf, TakeNone, Position, Unattached
  <2>6. None = Abstract!None
    BY DEF None, Row, Abstract!None, Abstract!Row
  <2>7. r \in StrongObservers => r \in Abstract!Attached /\ Position[r] = tail_index
    BY <2>5 DEF Abstract!Attached, Abstract!Detached, Position, Unattached
  <2>8. \/ r \in Consumers /\ heads[0] = tail_index
        \/ r \in Abstract!Attached /\ Position[r] = tail_index
    BY <2>4, <2>7 DEF Takers
  <2> QED
    BY <1>1, <2>1, <2>3, <2>6, <2>8
    DEF Abstract!ReceiveNone, Position, Unattached
<1>4. CASE Advance(r)
  <2> DEFINE h == HeadOf(r)
  <2>1. /\ h \in Heads /\ heads[h] # UsizeMax /\ Receiving(r)
        /\ pc[r] = "copied"
    BY <1>4, HeadOfTaker DEF Advance, ProtocolInv, HeadInv, AttachedStrong, HeadOf,
      Takers, Receiving, CopyLabels
  <2>2. /\ index[r] = heads[h] /\ heads[h] < tail_index
        /\ data[r].lo = heads[h] /\ data[r].hi = heads[h]
    BY <2>1 DEF ProtocolInv, TakeInv, Heeded
  <2>3. data[r] = Row(heads[h])
    BY <2>2, ThreadTypes DEF TypeOK, Payload, Row
  <2>4. /\ heads' = [heads EXCEPT ![h] = heads[h] + 1]
        /\ result' = [result EXCEPT ![r] = Row(heads[h])]
    BY <1>4, <2>2, <2>3 DEF Advance, Return
  <2>5. CASE r \in Consumers
    <3>1. h = 0
      BY <2>5 DEF HeadOf
    <3>2. \A o \in StrongObservers : ~Unattached(o) => heads'[slot[o]] = heads[slot[o]]
      BY <2>4, <3>1, Indices DEF Unattached, Holding, TypeOK
    <3>3. Position' = Position
      BY <1>1, <3>2 DEF Position
    <3>4. heads'[0] = heads[0] + 1
      BY <2>1, <2>4, <3>1 DEF TypeOK
    <3> QED
      BY <1>1, <2>2, <2>4, <2>5, <3>1, <3>3, <3>4
      DEF Abstract!Take, Row, Abstract!Row, Position, Unattached
  <2>6. CASE r \in StrongObservers
    <3>1. h = slot[r] /\ ~Unattached(r) /\ slot[r] \in 1 .. MaxStrong
      BY <1>4, <2>6, Roles, Indices DEF HeadOf, Advance, Unattached, Holding
    <3>2. heads'[0] = heads[0]
      BY <2>4, <3>1, Indices DEF TypeOK
    <3>3. \A o \in StrongObservers \ {r} :
            ~Unattached(o) => heads'[slot[o]] = heads[slot[o]]
      <4>1. \A o \in StrongObservers \ {r} : ~Unattached(o) => slot[o] # slot[r]
        BY <2>1, <2>6, <3>1 DEF SlotInv, DistinctSlots, Holding, Unattached
      <4> QED
        BY <2>4, <3>1, <4>1 DEF TypeOK
    <3>4. Position' = [Position EXCEPT ![r] = Position[r] + 1]
      <4>1. Position'[r] = Position[r] + 1
        BY <1>1, <2>1, <2>4, <2>6, <3>1 DEF Position, TypeOK
      <4>2. \A o \in StrongObservers \ {r} : Position'[o] = Position[o]
        BY <1>1, <3>3 DEF Position
      <4> QED
        BY <2>6, <4>1, <4>2 DEF Position
    <3>5. Position[r] = heads[h] /\ heads[h] # -1
      BY <2>1, <2>6, <3>1 DEF Position, UsizeMax
    <3> QED
      BY <1>1, <2>2, <2>4, <2>6, <3>2, <3>4, <3>5
      DEF Abstract!StrongObserve, Abstract!Attached, Abstract!Detached, Row,
        Abstract!Row, Position, Unattached
  <2> QED
    BY <2>5, <2>6 DEF Takers
<1> QED
  BY <1>2, <1>3, <1>4 DEF TakeSteps

LEMMA WeakRefines ==
  ASSUME IndInv, NEW w \in WeakObservers, WeakSteps(w)
  PROVE  Abstract!WeakObserve(w) \/ Unseen
<1>1. /\ UNCHANGED <<tail_index, heads, slot>>
      /\ \A o \in StrongObservers : pc'[o] = pc[o]
  <2>1. UNCHANGED <<tail_index, heads, slot>>
    BY DEF WeakSteps, CallWeakObserve, Enter, ReadLo, ReadHi, Leave, ring
  <2>2. \A o \in StrongObservers : pc'[o] = pc[o]
    BY WeakMoves, Roles DEF IndInv, ProofInv, RingInv, HandleInv, TypeOK
  <2> QED
    BY <2>1, <2>2
<1>2. Position' = Position
  BY <1>1 DEF Position, Unattached
<1>3. \/ result' = result
      \/ result' = [result EXCEPT ![w] = None]
      \/ \E i \in 0 .. tail_index : result' = [result EXCEPT ![w] = Row(i)]
  <2>1. CASE Leave(w)
    BY <2>1, LeaveResult DEF IndInv
  <2>2. CASE ~Leave(w)
    BY <2>2 DEF WeakSteps, CallWeakObserve, Enter, ReadLo, ReadHi
  <2> QED
    BY <2>1, <2>2
<1> QED
  BY <1>1, <1>2, <1>3 DEF Unseen, Abstract!WeakObserve, Position, Unattached, None,
    Row, Abstract!None, Abstract!Row

LEMMA HandleRefines ==
  ASSUME IndInv, ~AttachWhileTaking, AttachSteps \/ DropSteps
  PROVE  \/ \E o \in StrongObservers :
              Abstract!AttachStrong(o) \/ Abstract!DetachStrong(o)
         \/ Unseen
<1> USE DEF IndInv, ProofInv, RingInv, HandleInv
<1>1. ASSUME \/ \E p \in Producers : AttachProducer(p) \/ DropProducer(p)
             \/ \E c \in Consumers : AttachConsumer(c) \/ DropConsumer(c)
             \/ \E w \in WeakObservers : AttachWeak(w) \/ DropWeak(w)
      PROVE  Unseen
  <2>1. /\ UNCHANGED <<tail_index, heads, result>>
        /\ \A o \in StrongObservers : pc'[o] = pc[o] /\ slot'[o] = slot[o]
    BY <1>1, Roles DEF TypeOK, AttachProducer, DropProducer, AttachConsumer,
      DropConsumer, AttachWeak, DropWeak, Goto, ring
  <2> QED
    BY <2>1 DEF Unseen, Position, Unattached
<1>2. ASSUME NEW o \in StrongObservers, AttachStrongLoad(o)
      PROVE  Unseen
  <2>1. /\ UNCHANGED <<tail_index, heads, result>>
        /\ Unattached(o) /\ Unattached(o)'
        /\ \A u \in StrongObservers \ {o} : pc'[u] = pc[u] /\ slot'[u] = slot[u]
    BY <1>2, Roles DEF TypeOK, AttachStrongLoad, Goto, ring, Unattached
  <2> QED
    BY <2>1 DEF Unseen, Position, Unattached
<1>3. ASSUME NEW o \in StrongObservers, AttachStrongStore(o) \/ DropStrong(o)
      PROVE  /\ UNCHANGED <<tail_index, heads[0], result>>
             /\ Position' = [Position EXCEPT ![o] =
                              IF pc[o] = "attaching" THEN index[o] ELSE -1]
             /\ Position[o] = -1 <=> pc[o] = "attaching"
  <2>1. /\ slot[o] \in 1 .. MaxStrong /\ pc[o] # "out" /\ slot' = slot
        /\ slot[o] \in Heads /\ 0 \in Heads /\ slot[o] # 0
        /\ UNCHANGED <<tail_index, result>>
    BY <1>3, Indices DEF AttachStrongStore, DropStrong, Holding
  <2>2. heads' = [heads EXCEPT ![slot[o]] =
                    IF pc[o] = "attaching" THEN index[o] ELSE UsizeMax]
    BY <1>3 DEF AttachStrongStore, DropStrong
  <2>3. /\ pc'[o] = (IF pc[o] = "attaching" THEN "idle" ELSE "out")
        /\ pc[o] \in {"attaching", "idle"}
        /\ \A u \in StrongObservers \ {o} : pc'[u] = pc[u]
    BY <1>3, Roles DEF TypeOK, AttachStrongStore, DropStrong, Goto
  <2>4. \A u \in StrongObservers \ {o} : ~Unattached(u) => slot[u] # slot[o]
    BY <2>1 DEF SlotInv, DistinctSlots, Holding, Unattached
  <2>5. heads'[0] = heads[0]
    BY <2>1, <2>2 DEF TypeOK
  <2>6. \A u \in StrongObservers \ {o} : Position'[u] = Position[u]
    BY <2>1, <2>2, <2>3, <2>4 DEF Position, Unattached, TypeOK
  <2>7. Position'[o] = IF pc[o] = "attaching" THEN index[o] ELSE -1
    BY <2>1, <2>2, <2>3 DEF Position, Unattached, TypeOK
  <2>8. Position' = [Position EXCEPT ![o] =
                       IF pc[o] = "attaching" THEN index[o] ELSE -1]
    BY <2>6, <2>7 DEF Position
  <2>9. Position[o] = -1 <=> pc[o] = "attaching"
    BY <2>3 DEF ProtocolInv, HeadInv, AttachedStrong, Position, Unattached, UsizeMax
  <2> QED
    BY <2>1, <2>5, <2>8, <2>9
<1>4. ASSUME NEW o \in StrongObservers, AttachStrongStore(o)
      PROVE  Abstract!AttachStrong(o)
  <2>1. pc[o] = "attaching" /\ index[o] = heads[0]
    BY <1>4 DEF AttachStrongStore, ProtocolInv, AttachInv
  <2> QED
    BY <1>3, <1>4, <2>1 DEF Abstract!AttachStrong, Abstract!Attached,
      Abstract!Detached, Position, Unattached
<1>5. ASSUME NEW o \in StrongObservers, DropStrong(o)
      PROVE  Abstract!DetachStrong(o)
  <2>1. pc[o] # "attaching"
    BY <1>5 DEF DropStrong
  <2> QED
    BY <1>3, <1>5, <2>1 DEF Abstract!DetachStrong, Abstract!Attached,
      Abstract!Detached, Position, Unattached
<1> QED
  BY <1>1, <1>2, <1>4, <1>5 DEF AttachSteps, DropSteps

(* The lock-free table keeps the promises of the traits of mod.rs: rows    *)
(* are appended, consumed and observed one at a time and in order, no put  *)
(* overtakes a reader, an empty result means that there is no row, an      *)
(* observer starts where the consumer is, and a weak observation is        *)
(* nothing or a whole row that was put; provided strong observers do not   *)
(* attach while a consumer takes.                                          *)
THEOREM RingImplementsTable ==
  ASSUME ~AttachWhileTaking
  PROVE  Spec => ImplementsTable
<1>1. Init => Abstract!Init
  <2> SUFFICES ASSUME Init PROVE Abstract!Init
    OBVIOUS
  <2>1. tail_index = 0 /\ heads[0] = 0
    BY ConfigAssumption DEF Init, Heads
  <2>2. \A o \in StrongObservers : pc[o] = "out"
    BY Roles DEF Init
  <2>3. result = [r \in Consumers \cup StrongObservers \cup WeakObservers |->
                    Abstract!None]
    BY DEF Init, Readers, Takers, None, Row, Abstract!None, Abstract!Row
  <2> QED
    BY <2>1, <2>2, <2>3 DEF Abstract!Init, Abstract!Detached
<1>2. IndInv /\ [Next]_vars => [Abstract!Next]_(Abstract!vars)
  <2> SUFFICES ASSUME IndInv, [Next]_vars
               PROVE  Abstract!Next \/ UNCHANGED Abstract!vars
    OBVIOUS
  <2>1. Unseen => UNCHANGED Abstract!vars
    BY DEF Unseen, Abstract!vars, Position, Unattached
  <2>2. UNCHANGED vars => Unseen
    BY DEF vars, Unseen, Position, Unattached
  <2>3. \/ \E p \in Producers : PutSteps(p)
        \/ \E r \in Takers : TakeSteps(r)
        \/ \E w \in WeakObservers : WeakSteps(w)
        \/ AttachSteps \/ DropSteps
        => Abstract!Next \/ Unseen
    BY PutRefines, TakeRefines, WeakRefines, HandleRefines, Roles
    DEF Abstract!Next, Abstract!ReceiveNone, Abstract!Attached, Takers
  <2> QED
    BY <2>1, <2>2, <2>3, NextSplit
<1> QED
  BY <1>1, <1>2, WordsCorrect, PTL DEF Spec, ImplementsTable, Abstract!Spec

(***************************************************************************)
(* The stream of consumed rows, whatever strong observers do.              *)
(***************************************************************************)
Delivered == [r \in Consumers \cup WeakObservers |-> result[r]]

(* A step that neither appends, consumes nor returns a row of the stream.  *)
StreamRests == UNCHANGED <<tail_index, heads[0], Delivered>>

(* A put past the full check leaves the consumer's head in the window.     *)
LEMMA PutStreams ==
  ASSUME IndInv, NEW p \in Producers, PutSteps(p)
  PROVE  Stream!Put \/ StreamRests
<1> USE DEF IndInv, ProofInv, RingInv, HandleInv
<1>1. UNCHANGED <<heads, result>>
  BY DEF PutSteps, CallPut, TableFull, PassHead, Claim, WriteLo, WriteHi,
    Validate, Publish, ring
<1>2. Delivered' = Delivered
  BY <1>1 DEF Delivered
<1>3. CASE Publish(p)
  <2>1. /\ Putting(p) /\ index[p] = tail_index /\ tail_index \in Nat
        /\ MaxStrong < scan[p] /\ MaxStrong \in Nat /\ scan[p] \in Nat
    BY <1>3, OnlyPut, ConfigAssumption DEF Publish, Putting, PutLabels,
      ProtocolInv, PutInv, TypeOK
  <2>2. 0 \in Heads /\ Heeded(0) /\ heads[0] \in Nat /\ Size \in Nat
    BY Indices DEF Heeded, ProtocolInv, HeadInv
  <2>3. tail_index + 1 <= heads[0] + Size - 1
    BY <2>1, <2>2 DEF ProtocolInv, PutInv
  <2>4. tail_index - heads[0] < Size - 1
    BY <2>1, <2>2, <2>3
  <2>5. tail_index' = tail_index + 1
    BY <1>3, <2>1 DEF Publish
  <2> QED
    BY <1>1, <1>2, <2>4, <2>5 DEF Stream!Put, Stream!Attached, Delivered
<1>4. CASE ~Publish(p)
  <2>1. tail_index' = tail_index
    BY <1>4 DEF PutSteps, CallPut, TableFull, PassHead, Claim, WriteLo, WriteHi,
      Validate, ring
  <2> QED
    BY <1>1, <1>2, <2>1 DEF StreamRests
<1> QED
  BY <1>3, <1>4

(* Only the consumer moves head_index, and it finds the ring empty only    *)
(* when it has taken every row.                                            *)
LEMMA TakeStreams ==
  ASSUME IndInv, NEW r \in Takers, TakeSteps(r)
  PROVE  \/ r \in Consumers /\ (Stream!Take(r) \/ Stream!ReceiveNone(r))
         \/ StreamRests
<1> USE DEF IndInv, ProofInv, RingInv, HandleInv
<1>1. UNCHANGED <<tail_index>>
  BY DEF TakeSteps, TakeNone, TakeSome, ReadLo, ReadHi, Advance, ring
<1>2. CASE TakeSome(r) \/ ReadLo(r) \/ ReadHi(r)
  BY <1>1, <1>2 DEF TakeSome, ReadLo, ReadHi, ring, StreamRests, Delivered
<1>3. CASE r \in StrongObservers /\ (TakeNone(r) \/ Advance(r))
  <2>1. slot[r] \in 1 .. MaxStrong /\ HeadOf(r) = slot[r]
    BY <1>3, Roles, Indices DEF HeadOf, TakeNone, Advance, Holding
  <2>2. heads'[0] = heads[0]
    BY <1>3, <2>1, Indices DEF TakeNone, Advance, ring, TypeOK
  <2>3. \E value : result' = [result EXCEPT ![r] = value]
    BY <1>3 DEF TakeNone, Advance, Return
  <2>4. Delivered' = Delivered
    BY <1>3, <2>3, Roles DEF Delivered, TypeOK
  <2> QED
    BY <1>1, <2>2, <2>4 DEF StreamRests
<1>4. CASE r \in Consumers /\ TakeNone(r)
  <2>1. heads' = heads /\ result' = [result EXCEPT ![r] = None]
    BY <1>4 DEF TakeNone, Return, ring
  <2>2. /\ HeadOf(r) = 0 /\ heads[0] \in Nat /\ tail_index \in Nat
        /\ Size \in Nat \ {0} /\ 0 \in Heads /\ Heeded(0)
    BY <1>4, Indices DEF HeadOf, Heeded, ProtocolInv, HeadInv
  <2>3. heads[0] <= tail_index /\ tail_index <= heads[0] + Size - 1
    BY <2>2 DEF ProtocolInv, WindowInv
  <2>4. mod_len(heads[0]) = mod_len(tail_index)
    BY <1>4, <2>2 DEF TakeNone, Empty
  <2>5. heads[0] - tail_index < Size /\ tail_index - heads[0] < Size
    BY <2>2, <2>3
  <2>6. heads[0] = tail_index
    BY <2>2, <2>4, <2>5, SameSlot
  <2>7. Delivered' = [Delivered EXCEPT ![r] = None]
    BY <1>4, <2>1, Roles, ThreadTypes DEF Delivered, TypeOK
  <2>8. None = Stream!None
    BY DEF None, Row, Stream!None, Stream!Row
  <2> QED
    BY <1>1, <1>4, <2>1, <2>6, <2>7, <2>8 DEF Stream!ReceiveNone, Delivered
<1>5. CASE r \in Consumers /\ Advance(r)
  <2>1. /\ HeadOf(r) = 0 /\ 0 \in Heads /\ Heeded(0) /\ Receiving(r)
        /\ pc[r] = "copied"
    BY <1>5, Indices DEF HeadOf, Advance, Heeded, ProtocolInv, HeadInv,
      Receiving, CopyLabels
  <2>2. /\ index[r] = heads[0] /\ heads[0] < tail_index
        /\ data[r].lo = heads[0] /\ data[r].hi = heads[0]
    BY <2>1 DEF ProtocolInv, TakeInv
  <2>3. data[r] = Row(heads[0])
    BY <2>2, ThreadTypes DEF TypeOK, Payload, Row
  <2>4. /\ heads'[0] = heads[0] + 1
        /\ result' = [result EXCEPT ![r] = Row(heads[0])]
    BY <1>5, <2>1, <2>2, <2>3 DEF Advance, Return, TypeOK
  <2>5. Delivered' = [Delivered EXCEPT ![r] = Row(heads[0])]
    BY <1>5, <2>4, Roles, ThreadTypes DEF Delivered, TypeOK
  <2>6. Row(heads[0]) = Stream!Row(heads[0])
    BY DEF Row, Stream!Row
  <2> QED
    BY <1>1, <1>5, <2>2, <2>4, <2>5, <2>6 DEF Stream!Take, Delivered
<1> QED
  BY <1>2, <1>3, <1>4, <1>5 DEF TakeSteps, Takers

LEMMA WeakStreams ==
  ASSUME IndInv, NEW w \in WeakObservers, WeakSteps(w)
  PROVE  Stream!WeakObserve(w) \/ StreamRests
<1>1. UNCHANGED <<tail_index, heads>>
  BY DEF WeakSteps, CallWeakObserve, Enter, ReadLo, ReadHi, Leave, ring
<1>2. \/ result' = result
      \/ result' = [result EXCEPT ![w] = None]
      \/ \E i \in 0 .. tail_index : result' = [result EXCEPT ![w] = Row(i)]
  <2>1. CASE Leave(w)
    BY <2>1, LeaveResult DEF IndInv
  <2>2. CASE ~Leave(w)
    BY <2>2 DEF WeakSteps, CallWeakObserve, Enter, ReadLo, ReadHi
  <2> QED
    BY <2>1, <2>2
<1>3. \A value : result' = [result EXCEPT ![w] = value]
                 => Delivered' = [Delivered EXCEPT ![w] = value]
  BY Roles, ThreadTypes
  DEF Delivered, IndInv, ProofInv, RingInv, HandleInv, TypeOK
<1>4. result' = result => Delivered' = Delivered
  BY DEF Delivered
<1> QED
  BY <1>1, <1>2, <1>3, <1>4 DEF StreamRests, Stream!WeakObserve, Delivered,
    None, Row, Stream!None, Stream!Row

LEMMA HandleStreams ==
  ASSUME IndInv, AttachSteps \/ DropSteps
  PROVE  StreamRests
<1>1. tail_index' = tail_index /\ Delivered' = Delivered
  BY DEF AttachSteps, AttachProducer, AttachConsumer, AttachStrongLoad,
    AttachStrongStore, AttachWeak, DropSteps, DropProducer, DropConsumer,
    DropStrong, DropWeak, ring, Delivered
<1>2. heads'[0] = heads[0]
  <2>1. ASSUME NEW o \in StrongObservers, AttachStrongStore(o) \/ DropStrong(o)
        PROVE  heads'[0] = heads[0]
    <3>1. slot[o] \in 1 .. MaxStrong
      BY <2>1, Indices
      DEF IndInv, ProofInv, AttachStrongStore, DropStrong, Holding
    <3> QED
      BY <2>1, <3>1, Indices DEF AttachStrongStore, DropStrong, IndInv,
        ProofInv, RingInv, HandleInv, TypeOK
  <2> QED
    BY <2>1 DEF AttachSteps, AttachProducer, AttachConsumer, AttachStrongLoad,
      AttachWeak, DropSteps, DropProducer, DropConsumer, DropWeak, ring
<1> QED
  BY <1>1, <1>2 DEF StreamRests

(* No strong observer, however and whenever it attaches, disturbs the      *)
(* consumer: rows are appended and consumed one at a time and in order, no *)
(* put overtakes the consumer, and "empty" is the truth.                   *)
THEOREM RingImplementsStream == Spec => ImplementsStream
<1>1. Init => Stream!Init
  <2> SUFFICES ASSUME Init PROVE Stream!Init
    OBVIOUS
  <2>1. tail_index = 0 /\ heads[0] = 0
    BY ConfigAssumption DEF Init, Heads
  <2>2. Delivered = [r \in Consumers \cup {} \cup WeakObservers |-> Stream!None]
    BY DEF Init, Readers, Takers, None, Row, Stream!None, Stream!Row, Delivered
  <2> QED
    BY <2>1, <2>2 DEF Stream!Init, Stream!Detached, Delivered
<1>2. IndInv /\ [Next]_vars => [Stream!Next]_(Stream!vars)
  <2> SUFFICES ASSUME IndInv, [Next]_vars
               PROVE  Stream!Next \/ UNCHANGED Stream!vars
    OBVIOUS
  <2>1. StreamRests => UNCHANGED Stream!vars
    BY DEF StreamRests, Stream!vars, Delivered
  <2>2. UNCHANGED vars => StreamRests
    BY DEF vars, StreamRests, Delivered
  <2>3. \/ \E p \in Producers : PutSteps(p)
        \/ \E r \in Takers : TakeSteps(r)
        \/ \E w \in WeakObservers : WeakSteps(w)
        \/ AttachSteps \/ DropSteps
        => Stream!Next \/ StreamRests
    BY PutStreams, TakeStreams, WeakStreams, HandleStreams DEF Stream!Next
  <2> QED
    BY <2>1, <2>2, <2>3, NextSplit
<1> QED
  BY <1>1, <1>2, WordsCorrect, PTL DEF Spec, ImplementsStream, Stream!Spec

(***************************************************************************)
(* No observer slot is ever lost.                                          *)
(***************************************************************************)
Listed(list, n) == \E k \in 1 .. Len(list) : list[k] = n

Complete(observers, list, numbers) ==
  \A n \in numbers :
    Listed(list, n) \/ \E o \in observers : Holding(o) /\ slot[o] = n

AllSlots ==
  /\ Complete(StrongObservers, free_strong_observer_heads, 1 .. MaxStrong)
  /\ Complete(WeakObservers, free_weak_observer_bits, 0 .. MaxWeak - 1)

(* What Vec::pop takes off a list and Vec::push puts on it.                *)
LEMMA ListedAfter ==
  ASSUME NEW S, NEW list \in Seq(S)
  PROVE  /\ list # <<>> =>
              \A n : Listed(list, n) => Listed(Popped(list), n) \/ n = Top(list)
         /\ \A x \in S : /\ Listed(Append(list, x), x)
                         /\ \A n : Listed(list, n) => Listed(Append(list, x), n)
<1>1. ASSUME list # <<>>, NEW n, Listed(list, n)
      PROVE  Listed(Popped(list), n) \/ n = Top(list)
  <2>1. /\ Len(list) \in Nat \ {0} /\ Len(Popped(list)) = Len(list) - 1
        /\ \A k \in 1 .. Len(list) - 1 : Popped(list)[k] = list[k]
    BY <1>1, PopList
  <2>2. PICK k \in 1 .. Len(list) : list[k] = n
    BY <1>1 DEF Listed
  <2>3. CASE k = Len(list)
    BY <2>2, <2>3 DEF Top
  <2>4. CASE k # Len(list)
    <3>1. k \in 1 .. Len(list) - 1
      BY <2>1, <2>2, <2>4
    <3> QED
      BY <2>1, <2>2, <3>1 DEF Listed
  <2> QED
    BY <2>3, <2>4
<1>2. ASSUME NEW x \in S
      PROVE  /\ Listed(Append(list, x), x)
             /\ \A n : Listed(list, n) => Listed(Append(list, x), n)
  <2>1. /\ Len(list) \in Nat /\ Len(Append(list, x)) = Len(list) + 1
        /\ \A k \in 1 .. Len(list) : Append(list, x)[k] = list[k]
        /\ Append(list, x)[Len(list) + 1] = x
    BY PushList
  <2>2. /\ Len(list) + 1 \in 1 .. Len(Append(list, x))
        /\ 1 .. Len(list) \subseteq 1 .. Len(Append(list, x))
    BY <2>1
  <2> QED
    BY <2>1, <2>2 DEF Listed
<1> QED
  BY <1>1, <1>2

LEMMA AllSlotsStep ==
  ASSUME TypeOK, AllSlots, [Next]_vars
  PROVE  AllSlots'
<1> DEFINE heard == free_strong_observer_heads
           bits == free_weak_observer_bits
           Strong == Complete(StrongObservers, heard, 1 .. MaxStrong)
           Weak == Complete(WeakObservers, bits, 0 .. MaxWeak - 1)
<1>0. /\ heard \in Seq(Heads) /\ \A o \in StrongObservers : slot[o] \in Heads
      /\ bits \in Seq(Nat) /\ \A w \in WeakObservers : slot[w] \in Nat
      /\ Strong /\ Weak
  BY DEF TypeOK, AllSlots
<1>1. ASSUME heard' = heard,
             \A o \in StrongObservers : Holding(o)' = Holding(o) /\ slot'[o] = slot[o]
      PROVE  Strong'
  BY <1>0, <1>1 DEF Complete, Listed
<1>2. ASSUME bits' = bits,
             \A w \in WeakObservers : Holding(w)' = Holding(w) /\ slot'[w] = slot[w]
      PROVE  Weak'
  BY <1>0, <1>2 DEF Complete, Listed
<1>3. ASSUME \/ \E p \in Producers : PutSteps(p)
             \/ \E r \in Takers : TakeSteps(r)
             \/ \E w \in WeakObservers : WeakSteps(w)
      PROVE  AllSlots'
  <2>1. /\ heard' = heard /\ bits' = bits /\ slot' = slot
        /\ \A t \in Threads : Holding(t)' = Holding(t)
    <3>1. /\ UNCHANGED <<registry, slot>>
          /\ \A t \in Threads : Holding(t)' <=> Holding(t)
      BY <1>3, CallsKeepHandles
    <3> QED
      BY <3>1 DEF registry, Holding
  <2>2. Strong' /\ Weak'
    BY <1>1, <1>2, <2>1, Roles
  <2> QED
    BY <2>2 DEF AllSlots
<1>4. ASSUME \/ \E p \in Producers : AttachProducer(p) \/ DropProducer(p)
             \/ \E c \in Consumers : AttachConsumer(c) \/ DropConsumer(c)
      PROVE  AllSlots'
  <2>1. /\ heard' = heard /\ bits' = bits /\ slot' = slot
        /\ \A o \in StrongObservers \cup WeakObservers : pc'[o] = pc[o]
    BY <1>4, Roles DEF TypeOK, AttachProducer, DropProducer, AttachConsumer,
      DropConsumer, Goto
  <2> QED
    BY <1>1, <1>2, <2>1 DEF AllSlots, Holding
<1>5. ASSUME NEW o \in StrongObservers,
             AttachStrongLoad(o) \/ AttachStrongStore(o) \/ DropStrong(o)
      PROVE  AllSlots'
  <2>1. /\ bits' = bits
        /\ \A u \in (StrongObservers \cup WeakObservers) \ {o} :
             pc'[u] = pc[u] /\ slot'[u] = slot[u]
    BY <1>5, Roles DEF TypeOK, AttachStrongLoad, AttachStrongStore, DropStrong,
      Goto, registry
  <2>2. Weak'
    BY <1>2, <1>5, <2>1, Roles DEF Holding
  <2>3. CASE AttachStrongLoad(o)
    <3>1. /\ heard # <<>> /\ heard' = Popped(heard) /\ pc[o] = "out"
          /\ pc'[o] = "attaching" /\ slot'[o] = Top(heard)
      BY <2>3, Roles DEF TypeOK, AttachStrongLoad, Goto
    <3>2. \A n : Listed(heard, n) => Listed(heard', n) \/ n = slot'[o]
      BY <1>0, <3>1, ListedAfter
    <3>3. Strong'
      BY <1>0, <2>1, <3>1, <3>2 DEF Complete, Holding
    <3> QED
      BY <2>2, <3>3 DEF AllSlots
  <2>4. CASE AttachStrongStore(o)
    <3>1. /\ heard' = heard /\ slot' = slot /\ pc[o] # "out" /\ pc'[o] # "out"
      BY <2>4, Roles DEF TypeOK, AttachStrongStore, Goto, registry
    <3> QED
      BY <1>1, <2>1, <2>2, <3>1 DEF AllSlots, Holding
  <2>5. CASE DropStrong(o)
    <3>1. /\ heard' = Append(heard, slot[o]) /\ slot' = slot
      BY <2>5 DEF DropStrong
    <3>2. \A n : Listed(heard, n) \/ n = slot[o] => Listed(heard', n)
      BY <1>0, <3>1, ListedAfter
    <3>3. Strong'
      BY <1>0, <2>1, <3>1, <3>2 DEF Complete, Holding
    <3> QED
      BY <2>2, <3>3 DEF AllSlots
  <2> QED
    BY <1>5, <2>3, <2>4, <2>5
<1>6. ASSUME NEW w \in WeakObservers, AttachWeak(w) \/ DropWeak(w)
      PROVE  AllSlots'
  <2>1. /\ heard' = heard
        /\ \A u \in (StrongObservers \cup WeakObservers) \ {w} :
             pc'[u] = pc[u] /\ slot'[u] = slot[u]
    BY <1>6, Roles DEF TypeOK, AttachWeak, DropWeak, Goto
  <2>2. Strong'
    BY <1>1, <1>6, <2>1, Roles DEF Holding
  <2>3. CASE AttachWeak(w)
    <3>1. /\ bits # <<>> /\ bits' = Popped(bits) /\ pc[w] = "out"
          /\ pc'[w] = "idle" /\ slot'[w] = Top(bits)
      BY <2>3, Roles DEF TypeOK, AttachWeak, Goto
    <3>2. \A n : Listed(bits, n) => Listed(bits', n) \/ n = slot'[w]
      BY <1>0, <3>1, ListedAfter
    <3>3. Weak'
      BY <1>0, <2>1, <3>1, <3>2 DEF Complete, Holding
    <3> QED
      BY <2>2, <3>3 DEF AllSlots
  <2>4. CASE DropWeak(w)
    <3>1. /\ bits' = Append(bits, slot[w]) /\ slot' = slot
      BY <2>4 DEF DropWeak
    <3>2. \A n : Listed(bits, n) \/ n = slot[w] => Listed(bits', n)
      BY <1>0, <3>1, ListedAfter
    <3>3. Weak'
      BY <1>0, <2>1, <3>1, <3>2 DEF Complete, Holding
    <3> QED
      BY <2>2, <3>3 DEF AllSlots
  <2> QED
    BY <1>6, <2>3, <2>4
<1>7. CASE UNCHANGED vars
  BY <1>1, <1>2, <1>7 DEF AllSlots, vars, Holding
<1> QED
  BY NextSplit, <1>3, <1>4, <1>5, <1>6, <1>7 DEF AttachSteps, DropSteps

(* Every observer head and every reading bit is free or held by a handle,  *)
(* whatever observers attach, drop their handles or panic: an attach is    *)
(* refused only while max_strong_observers (max_weak_observers) handles    *)
(* are out.                                                                *)
THEOREM NoSlotLost == Spec => []AllSlots
<1>1. Init => AllSlots
  <2> SUFFICES ASSUME Init PROVE AllSlots
    OBVIOUS
  <2>1. /\ Len(free_strong_observer_heads) = MaxStrong
        /\ \A k \in 1 .. MaxStrong : free_strong_observer_heads[k] = k
        /\ Len(free_weak_observer_bits) = MaxWeak
        /\ \A k \in 1 .. MaxWeak : free_weak_observer_bits[k] = k - 1
    BY ConfigAssumption DEF Init
  <2>2. \A n \in 0 .. MaxWeak - 1 : n + 1 \in 1 .. MaxWeak /\ (n + 1) - 1 = n
    BY ConfigAssumption
  <2> QED
    BY <2>1, <2>2 DEF AllSlots, Complete, Listed
<1> QED
  BY <1>1, AllSlotsStep, TypeCorrect, PTL DEF Spec
=============================================================================
