------------------------- MODULE RingOrderingProofs -------------------------
(* Theorems about RingOrdering, proved for every value of its constants.   *)
EXTENDS OrderingInvariant, SequenceTheorems, TLAPS

(***************************************************************************)
(* Elements of the ring.                                                   *)
(***************************************************************************)

(* Division with a positive divisor leaves a remainder below it.           *)
LEMMA Division ==
  ASSUME NEW i \in Int, NEW m \in Nat \ {0}
  PROVE  /\ i = m * (i \div m) + (i % m)
         /\ i \div m \in Int
         /\ i % m \in 0 .. m - 1
  BY Z3

(* Every index has an element.                                             *)
LEMMA SlotType ==
  ASSUME NEW i \in Int
  PROVE  Slot(i) \in Slots
  BY OrderingAssumption, Division DEF Slot, Slots

(* Two indices less than a lap apart have different elements.              *)
LEMMA SlotsApart ==
  ASSUME NEW i \in Int, NEW j \in Int, i < j, j < i + Size
  PROVE  Slot(i) # Slot(j)
<1>1. Size \in Nat \ {0}
  BY OrderingAssumption
<1>3. SUFFICES ASSUME Slot(i) = Slot(j) PROVE FALSE
  OBVIOUS
<1>4. PICK a \in Int, b \in Int : j - i = Size * b - Size * a
  <2>1. /\ i = Size * (i \div Size) + (i % Size) /\ i \div Size \in Int
        /\ j = Size * (j \div Size) + (j % Size) /\ j \div Size \in Int
        /\ i % Size = j % Size /\ i % Size \in Int
    BY <1>1, <1>3, Division DEF Slot
  <2>2. j - i = Size * (j \div Size) - Size * (i \div Size)
    BY <1>1, <2>1
  <2> QED
    BY <2>1, <2>2
<1>5. CASE b <= a
  <2>1. Size * b <= Size * a
    BY <1>1, <1>5, Z3
  <2> QED
    BY <1>1, <1>4, <2>1
<1>6. CASE b > a
  <2>1. Size * b - Size * a >= Size
    BY <1>1, <1>6, Z3
  <2> QED
    BY <1>1, <1>4, <2>1
<1> QED
  BY <1>5, <1>6

(* An element's next row is a lap away.                                    *)
LEMMA NextLap ==
  ASSUME NEW i \in Int
  PROVE  Slot(i + Size) = Slot(i)
<1>1. Size \in Nat \ {0}
  BY OrderingAssumption
<1>2. \A a, b, r, s \in Int :
        /\ Size * b + s = Size * a + r + Size
        /\ r \in 0 .. Size - 1 /\ s \in 0 .. Size - 1
        => s = r
  <2> TAKE a \in Int, b \in Int, r \in Int, s \in Int
  <2> HAVE /\ Size * b + s = Size * a + r + Size
           /\ r \in 0 .. Size - 1 /\ s \in 0 .. Size - 1
  <2> DEFINE d == b - (a + 1)
  <2>1. d \in Int /\ Size * d = Size * b - Size * a - Size
    BY <1>1, Z3
  <2>2. Size * d = r - s
    BY <1>1, <2>1
  <2>3. d = 0
    <3>1. \A e \in Int : Size * e < Size /\ -Size < Size * e => e = 0
      BY <1>1, Z3
    <3> HIDE DEF d
    <3> QED
      BY <1>1, <2>1, <2>2, <3>1
  <2> QED
    BY <2>2, <2>3, <1>1
<1>3. /\ i = Size * (i \div Size) + (i % Size)
      /\ i \div Size \in Int /\ i % Size \in 0 .. Size - 1
  BY <1>1, Division
<1>4. i + Size \in Int
  BY <1>1
<1>5. /\ i + Size = Size * ((i + Size) \div Size) + ((i + Size) % Size)
      /\ (i + Size) \div Size \in Int /\ (i + Size) % Size \in 0 .. Size - 1
  BY <1>1, <1>4, Division
<1>6. Size * ((i + Size) \div Size) + ((i + Size) % Size)
        = Size * (i \div Size) + (i % Size) + Size
  BY <1>3, <1>5
<1>7. i % Size \in Int /\ (i + Size) % Size \in Int
  BY <1>1, <1>3, <1>5
<1>8. (i + Size) % Size = i % Size
  BY <1>2, <1>3, <1>5, <1>6, <1>7, Zenon
<1> QED
  BY <1>8 DEF Slot

(***************************************************************************)
(* Views.                                                                  *)
(***************************************************************************)
LEMMA LeqOrder ==
  /\ \A u \in Views : Leq(u, u)
  /\ \A u, v, w \in Views : Leq(u, v) /\ Leq(v, w) => Leq(u, w)
  BY DEF Views, Leq

(* What a thread joins to its view is added, and nothing is lost.          *)
LEMMA JoinView ==
  ASSUME NEW u \in Views, NEW v \in Views
  PROVE  /\ Join(u, v) \in Views
         /\ Leq(u, Join(u, v)) /\ Leq(v, Join(u, v))
         /\ \A a \in Atomics : Join(u, v).seen[a] = u.seen[a]
                               \/ Join(u, v).seen[a] = v.seen[a]
  BY DEF Views, Leq, Join, Later

LEMMA SeeView ==
  ASSUME NEW u \in Views, NEW a \in Atomics, NEW i \in Nat \ {0}
  PROVE  /\ See(u, a, i) \in Views
         /\ Leq(u, See(u, a, i))
         /\ See(u, a, i).clock = u.clock
         /\ i >= u.seen[a] => See(u, a, i).seen[a] = i
         /\ \A b \in Atomics \ {a} : See(u, a, i).seen[b] = u.seen[b]
         /\ i <= u.seen[a] => See(u, a, i) = u
  BY DEF Views, Leq, See, Later

LEMMA TickView ==
  ASSUME NEW u \in Views, NEW t \in Threads
  PROVE  /\ Tick(u, t) \in Views
         /\ Leq(u, Tick(u, t))
         /\ Tick(u, t).seen = u.seen
  BY DEF Views, Leq, Tick

(* Who knows more still knows that an access was before.                   *)
LEMMA StillBefore ==
  ASSUME NEW u \in Views, NEW v \in Views, Leq(u, v),
         NEW access \in [by : Threads, at : Nat], Before(access, u)
  PROVE  Before(access, v)
  BY DEF Views, Leq, Before

(***************************************************************************)
(* Types.                                                                  *)
(***************************************************************************)
LEMMA Names ==
  /\ "tail" \in Atomics /\ "head" \in Heads /\ "tail" \notin Heads
  /\ Heads \subseteq Atomics /\ Observers \subseteq Heads
  /\ "head" \notin Observers /\ Nobody \notin Threads
  /\ Takers \subseteq Threads /\ Producers \subseteq Threads
  /\ \A r \in Takers : HeadOf(r) \in Heads /\ r \notin Producers
  /\ \A c \in Consumers : HeadOf(c) = "head" /\ c \notin Observers
  /\ \A o \in Observers : HeadOf(o) = o /\ o \in Takers /\ o \notin Consumers
  BY OrderingAssumption DEF Heads, Atomics, Threads, Takers, HeadOf

LEMMA Types ==
  ASSUME TypeOK
  PROVE  /\ \A a \in Atomics :
              /\ order[a] \in Seq([val : Int, view : Views])
              /\ Len(order[a]) \in Nat
              /\ \A i \in 1 .. Len(order[a]) :
                   order[a][i].val \in Int /\ order[a][i].view \in Views
         /\ TailView \in Views
         /\ \A a \in Heads : HeadView(a) \in Views
<1>1. ASSUME NEW a \in Atomics
      PROVE  /\ order[a] \in Seq([val : Int, view : Views])
             /\ Len(order[a]) \in Nat
             /\ \A i \in 1 .. Len(order[a]) :
                  order[a][i].val \in Int /\ order[a][i].view \in Views
  <2>1. order[a] \in Seq([val : Int, view : Views])
    BY <1>1 DEF TypeOK
  <2>2. \A i \in 1 .. Len(order[a]) : order[a][i] \in [val : Int, view : Views]
    BY <2>1, ElementOfSeq
  <2> QED
    BY <2>1, <2>2, LenProperties
<1>2. TailView \in Views
  BY Names DEF TypeOK, TailView
<1>3. \A a \in Heads : HeadView(a) \in Views
  BY Names DEF TypeOK, HeadView, Threads, Takers
<1> QED
  BY <1>1, <1>2, <1>3

(* A store adds an entry and leaves those there are.                       *)
LEMMA NewEntry ==
  ASSUME TypeOK, NEW a \in Atomics, NEW e \in [val : Int, view : Views],
         order' = [order EXCEPT ![a] = Append(@, e)]
  PROVE  /\ order' \in [Atomics -> Seq([val : Int, view : Views])]
         /\ \A b \in Atomics \ {a} : order'[b] = order[b]
         /\ Len(order'[a]) = Len(order[a]) + 1
         /\ \A i \in 1 .. Len(order[a]) : order'[a][i] = order[a][i]
         /\ order'[a][Len(order[a]) + 1] = e
<1> DEFINE E == [val : Int, view : Views]
<1>1. order[a] \in Seq(E) /\ Len(order[a]) \in Nat /\ e \in E
  BY Types
<1>2. order'[a] = Append(order[a], e) /\ order \in [Atomics -> Seq(E)]
  BY DEF TypeOK
<1> HIDE DEF E
<1>3. /\ order'[a] \in Seq(E)
      /\ Len(order'[a]) = Len(order[a]) + 1
      /\ \A i \in 1 .. Len(order[a]) : order'[a][i] = order[a][i]
      /\ order'[a][Len(order[a]) + 1] = e
  BY <1>1, <1>2, AppendProperties
<1>4. order' = [order EXCEPT ![a] = order'[a]]
  BY <1>2
<1>5. /\ order' \in [Atomics -> Seq(E)]
      /\ \A b \in Atomics \ {a} : order'[b] = order[b]
  BY <1>2, <1>3, <1>4
<1> QED
  BY <1>3, <1>5 DEF E

LEMMA NoViewType == NoView \in Views
  BY DEF NoView, Views

(***************************************************************************)
(* Soundness of views.                                                     *)
(***************************************************************************)
LEMMA SoundJoin ==
  ASSUME TypeOK, NEW u \in Views, NEW v \in Views,
         Sound(order, u), Sound(order, v)
  PROVE  Sound(order, Join(u, v))
<1> SUFFICES ASSUME NEW a \in Atomics
    PROVE  /\ Join(u, v).seen[a] <= Len(order[a])
           /\ \A i \in 1 .. Len(order[a]) :
                i <= Join(u, v).seen[a] => Leq(order[a][i].view, Join(u, v))
  BY DEF Sound
<1>1. /\ Join(u, v) \in Views
      /\ Leq(u, Join(u, v)) /\ Leq(v, Join(u, v))
      /\ Join(u, v).seen[a] = u.seen[a] \/ Join(u, v).seen[a] = v.seen[a]
  BY JoinView
<1>2. Join(u, v).seen[a] <= Len(order[a])
  BY <1>1 DEF Sound
<1>3. ASSUME NEW i \in 1 .. Len(order[a]), i <= Join(u, v).seen[a]
      PROVE  Leq(order[a][i].view, Join(u, v))
  <2>1. Leq(order[a][i].view, u) \/ Leq(order[a][i].view, v)
    BY <1>1, <1>3 DEF Sound
  <2>2. order[a][i].view \in Views
    BY Types
  <2> QED
    BY <1>1, <2>1, <2>2, LeqOrder
<1> QED
  BY <1>2, <1>3

LEMMA SoundTick ==
  ASSUME TypeOK, NEW u \in Views, NEW t \in Threads, Sound(order, u)
  PROVE  Sound(order, Tick(u, t))
<1>1. Tick(u, t) \in Views /\ Leq(u, Tick(u, t)) /\ Tick(u, t).seen = u.seen
  BY TickView
<1>2. \A a \in Atomics : \A i \in 1 .. Len(order[a]) : order[a][i].view \in Views
  BY Types
<1>3. \A a \in Atomics : \A i \in 1 .. Len(order[a]) :
        Leq(order[a][i].view, u) => Leq(order[a][i].view, Tick(u, t))
  BY <1>1, <1>2, LeqOrder
<1> QED
  BY <1>1, <1>3 DEF Sound

(* An acquire load joins what the entry published, and the entry itself is *)
(* part of that.                                                           *)
LEMMA AcquireJoins ==
  ASSUME TypeOK, EntriesInv, ViewsInv, NEW t \in Threads, NEW a \in Atomics,
         NEW i \in 1 .. Len(order[a]), LoadAcquire(t, a, i)
  PROVE  /\ view' = [view EXCEPT ![t] = Join(view[t], order[a][i].view)]
         /\ Join(view[t], order[a][i].view) \in Views
         /\ Sound(order, Join(view[t], order[a][i].view))
         /\ view'[t].seen[a] >= i
<1> DEFINE u == Join(view[t], order[a][i].view)
<1>1. /\ order[a][i].view \in Views /\ Sound(order, order[a][i].view)
      /\ order[a][i].view.seen[a] = i
      /\ view[t] \in Views /\ Sound(order, view[t])
  BY Types DEF TypeOK, EntriesInv, ViewsInv
<1>2. u \in Views /\ Leq(order[a][i].view, u) /\ Sound(order, u)
  BY <1>1, JoinView, SoundJoin
<1>3. u.seen[a] >= i
  BY <1>1, <1>2 DEF Leq, Views
<1>4. See(u, a, i) = u
  BY <1>2, <1>3, SeeView DEF Views
<1> HIDE DEF u
<1>5. view' = [view EXCEPT ![t] = u]
  BY <1>4 DEF LoadAcquire, u
<1>6. view'[t] = u
  BY <1>5 DEF TypeOK
<1> QED
  BY <1>2, <1>3, <1>5, <1>6 DEF u

(* A thread that has seen the last entry loads it, and learns nothing.     *)
LEMMA OwnLoad ==
  ASSUME TypeOK, NEW t \in Threads, NEW a \in Atomics,
         view[t].seen[a] = Len(order[a]), NEW i \in Readable(t, a),
         LoadRelaxed(t, a, i)
  PROVE  i = Len(order[a]) /\ view' = view
<1>1. i = Len(order[a])
  BY Types DEF Readable
<1>2. view[t] \in Views /\ i \in Nat \ {0}
  BY Types DEF TypeOK, Readable
<1>3. See(view[t], a, i) = view[t]
  <2>1. i <= view[t].seen[a]
    BY <1>1, <1>2
  <2> QED
    BY <1>2, <2>1, SeeView
<1>4. view' = [view EXCEPT ![t] = view[t]]
  BY <1>3 DEF LoadRelaxed
<1>5. view \in [Threads -> Views]
  BY DEF TypeOK
<1>6. view' = view
  BY <1>4, <1>5
<1> QED
  BY <1>1, <1>6

(***************************************************************************)
(* Type correctness.                                                       *)
(***************************************************************************)
LEMMA TypeInit == Init => TypeOK
<1> SUFFICES ASSUME Init PROVE TypeOK
  OBVIOUS
<1>1. order \in [Atomics -> Seq([val : Int, view : Views])]
  <2>1. [val |-> 0, view |-> NoView] \in [val : Int, view : Views]
    BY NoViewType
  <2>2. <<[val |-> 0, view |-> NoView]>> \in Seq([val : Int, view : Views])
    BY <2>1
  <2> QED
    BY <2>2 DEF Init
<1>2. (CHOOSE t \in Threads : TRUE) \in Threads
  BY OrderingAssumption DEF Threads
<1>3. written \in [Slots -> [by : Threads, at : Nat]]
  BY <1>2 DEF Init
<1>4. /\ pc \in [Threads -> PutLabels \cup TakeLabels]
      /\ \A t \in Threads : pc[t] \in IF t \in Producers THEN PutLabels ELSE TakeLabels
  BY DEF Init, PutLabels, TakeLabels
<1> QED
  BY <1>1, <1>3, <1>4, NoViewType DEF Init, TypeOK, Slots

(* A step of t to a label of its own kind.                                 *)
LEMMA GotoType ==
  ASSUME TypeOK, NEW t \in Threads, NEW label, Goto(t, label),
         label \in IF t \in Producers THEN PutLabels ELSE TakeLabels
  PROVE  /\ pc' \in [Threads -> PutLabels \cup TakeLabels]
         /\ \A u \in Threads : pc'[u] \in IF u \in Producers THEN PutLabels ELSE TakeLabels
         /\ pc'[t] = label /\ \A u \in Threads \ {t} : pc'[u] = pc[u]
  BY DEF TypeOK, Goto

LEMMA LockType ==
  ASSUME TypeOK, NEW t \in Threads, Lock(t)
  PROVE  /\ view' \in [Threads -> Views] /\ mutex_view' \in Views
         /\ view' = [view EXCEPT ![t] = Join(view[t], mutex_view)]
         /\ mutex_view' = Join(mutex_view, view[t])
<1>1. view[t] \in Views /\ mutex_view \in Views /\ view \in [Threads -> Views]
  BY DEF TypeOK
<1>2. Join(view[t], mutex_view) \in Views /\ Join(mutex_view, view[t]) \in Views
  BY <1>1, JoinView
<1> QED
  BY <1>1, <1>2 DEF Lock

(* What the loads leave: views, and an index that was stored.              *)
LEMMA AcquireType ==
  ASSUME TypeOK, NEW t \in Threads, NEW a \in Atomics,
         NEW i \in 1 .. Len(order[a]), LoadAcquire(t, a, i)
  PROVE  view' \in [Threads -> Views]
<1>1. order[a][i].view \in Views /\ Len(order[a]) \in Nat /\ i \in Nat \ {0}
  BY Types
<1>4. view[t] \in Views /\ view \in [Threads -> Views]
  BY DEF TypeOK
<1>2. Join(view[t], order[a][i].view) \in Views
  BY <1>1, <1>4, JoinView
<1>3. See(Join(view[t], order[a][i].view), a, i) \in Views
  BY <1>1, <1>2, SeeView
<1> QED
  BY <1>4, <1>3 DEF LoadAcquire

LEMMA RelaxedType ==
  ASSUME TypeOK, NEW t \in Threads, NEW a \in Atomics,
         NEW i \in Readable(t, a), LoadRelaxed(t, a, i)
  PROVE  /\ view' \in [Threads -> Views]
         /\ i \in 1 .. Len(order[a])
         /\ order[a][i].val \in Int
<1>1. i \in 1 .. Len(order[a])
  BY DEF Readable
<1>2. view[t] \in Views /\ i \in Nat \ {0} /\ view \in [Threads -> Views]
  BY <1>1, Types DEF TypeOK
<1>3. See(view[t], a, i) \in Views
  BY <1>2, SeeView
<1>4. order[a][i].val \in Int
  BY <1>1, Types
<1> QED
  BY <1>1, <1>2, <1>3, <1>4 DEF LoadRelaxed

LEMMA ReleaseType ==
  ASSUME TypeOK, NEW t \in Threads, NEW a \in Atomics, NEW x \in Int,
         StoreRelease(t, a, x)
  PROVE  /\ view' \in [Threads -> Views]
         /\ order' \in [Atomics -> Seq([val : Int, view : Views])]
<1>1. view[t] \in Views /\ Len(order[a]) \in Nat /\ view \in [Threads -> Views]
  BY Types DEF TypeOK
<1>2. See(view[t], a, Len(order[a]) + 1) \in Views
  BY <1>1, SeeView
<1>3. view' \in [Threads -> Views]
  BY <1>1, <1>2 DEF StoreRelease
<1> DEFINE e == [val |-> x, view |-> See(view[t], a, Len(order[a]) + 1)]
<1>4. e \in [val : Int, view : Views] /\ order' = [order EXCEPT ![a] = Append(@, e)]
  BY <1>2 DEF StoreRelease
<1> HIDE DEF e
<1> QED
  BY <1>3, <1>4, NewEntry

LEMMA TickType ==
  ASSUME TypeOK, NEW t \in Threads, view' = [view EXCEPT ![t] = Tick(@, t)]
  PROVE  /\ view' \in [Threads -> Views]
         /\ view'[t] = Tick(view[t], t) /\ view'[t].clock[t] \in Nat
<1>1. view \in [Threads -> Views] /\ view[t] \in Views
  BY DEF TypeOK
<1>2. Tick(view[t], t) \in Views
  BY <1>1, TickView
<1>3. view' \in [Threads -> Views] /\ view'[t] = Tick(view[t], t)
  BY <1>1, <1>2
<1> QED
  BY <1>2, <1>3 DEF Views

LEMMA TypeStep == TypeOK /\ [Next]_vars => TypeOK'
<1> SUFFICES ASSUME TypeOK, [Next]_vars PROVE TypeOK'
  OBVIOUS
<1>1. ASSUME NEW p \in Producers, AttachProducer(p) PROVE TypeOK'
  <2>1. view' \in [Threads -> Views] /\ mutex_view' \in Views
    BY Names, <1>1, LockType DEF AttachProducer
  <2>2. /\ pc' \in [Threads -> PutLabels \cup TakeLabels]
        /\ \A u \in Threads : pc'[u] \in IF u \in Producers THEN PutLabels ELSE TakeLabels
    BY Names, <1>1, GotoType DEF AttachProducer, PutLabels
  <2> QED
    BY <1>1, <2>1, <2>2 DEF AttachProducer, TypeOK, memory
<1>2. ASSUME NEW c \in Consumers, AttachConsumer(c) PROVE TypeOK'
  <2>1. c \in Threads /\ c \notin Producers
    BY Names DEF Takers
  <2>2. view' \in [Threads -> Views] /\ mutex_view' \in Views
    BY <1>2, <2>1, LockType DEF AttachConsumer
  <2>3. /\ pc' \in [Threads -> PutLabels \cup TakeLabels]
        /\ \A u \in Threads : pc'[u] \in IF u \in Producers THEN PutLabels ELSE TakeLabels
    BY <1>2, <2>1, GotoType DEF AttachConsumer, TakeLabels
  <2> QED
    BY <1>2, <2>2, <2>3 DEF AttachConsumer, TypeOK, memory
<1>3. ASSUME NEW t \in Threads, Drop(t) PROVE TypeOK'
  <2>1. view' \in [Threads -> Views] /\ mutex_view' \in Views
    BY <1>3, LockType DEF Drop
  <2>2. /\ pc' \in [Threads -> PutLabels \cup TakeLabels]
        /\ \A u \in Threads : pc'[u] \in IF u \in Producers THEN PutLabels ELSE TakeLabels
    BY <1>3, GotoType DEF Drop, PutLabels, TakeLabels
  <2> QED
    BY <1>3, <2>1, <2>2 DEF Drop, TypeOK, memory
<1>4. ASSUME NEW o \in Observers, DropObserver(o) PROVE TypeOK'
  <2>1. o \in Threads /\ o \notin Producers /\ o \in Atomics
    BY Names DEF Takers
  <2>2. /\ view' \in [Threads -> Views]
        /\ order' \in [Atomics -> Seq([val : Int, view : Views])]
    <3>1. Unused \in Int /\ StoreRelease(o, o, Unused)
      BY <1>4 DEF DropObserver, Unused
    <3> QED
      BY <2>1, <3>1, ReleaseType
  <2>3. /\ pc' \in [Threads -> PutLabels \cup TakeLabels]
        /\ \A u \in Threads : pc'[u] \in IF u \in Producers THEN PutLabels ELSE TakeLabels
    BY <1>4, <2>1, GotoType DEF DropObserver, TakeLabels
  <2> QED
    BY <1>4, <2>2, <2>3 DEF DropObserver, TypeOK, handles
<1>5. ASSUME NEW p \in Producers, PutTail(p) PROVE TypeOK'
  <2>1. p \in Threads /\ "tail" \in Atomics
    BY Names
  <2>2. view' \in [Threads -> Views] /\ index' \in [Threads -> Int]
    <3>1. PICK i \in Readable(p, "tail") :
            /\ LoadRelaxed(p, "tail", i)
            /\ index' = [index EXCEPT ![p] = order["tail"][i].val]
      BY <1>5 DEF PutTail
    <3>2. view' \in [Threads -> Views] /\ order["tail"][i].val \in Int
      BY <2>1, <3>1, RelaxedType
    <3> QED
      BY <3>1, <3>2 DEF TypeOK
  <2>3. /\ pc' \in [Threads -> PutLabels \cup TakeLabels]
        /\ \A u \in Threads : pc'[u] \in IF u \in Producers THEN PutLabels ELSE TakeLabels
    BY <1>5, <2>1, GotoType DEF PutTail, PutLabels
  <2> QED
    BY <1>5, <2>2, <2>3 DEF PutTail, TypeOK, handles, memory
<1>6. ASSUME NEW p \in Producers, PutScan(p) PROVE TypeOK'
  <2>1. PICK h \in scan : \E i \in Readable(p, h) :
          /\ LoadAcquire(p, h, i)
          /\ scan' = scan \ {h}
          /\ Goto(p, IF Blocks(order[h][i].val, index[p]) THEN "idle"
                     ELSE IF scan' = {} THEN "write" ELSE "scan")
    BY <1>6 DEF PutScan
  <2>2. p \in Threads /\ h \in Atomics
    BY Names DEF TypeOK
  <2>3. view' \in [Threads -> Views]
    BY <2>1, <2>2, AcquireType DEF Readable
  <2>4. PICK label \in PutLabels : Goto(p, label)
    BY <2>1 DEF PutLabels
  <2>5. /\ pc' \in [Threads -> PutLabels \cup TakeLabels]
        /\ \A u \in Threads : pc'[u] \in IF u \in Producers THEN PutLabels ELSE TakeLabels
    BY <2>2, <2>4, GotoType
  <2> QED
    BY <1>6, <2>1, <2>3, <2>5 DEF PutScan, TypeOK, handles, memory
<1>7. ASSUME NEW p \in Producers, PutWrite(p) PROVE TypeOK'
  <2>1. p \in Threads /\ index[p] \in Int /\ Slot(index[p]) \in Slots
    BY Names, SlotType DEF TypeOK
  <2>2. view' \in [Threads -> Views] /\ view'[p].clock[p] \in Nat
    BY <1>7, <2>1, TickType DEF PutWrite
  <2>3. /\ pc' \in [Threads -> PutLabels \cup TakeLabels]
        /\ \A u \in Threads : pc'[u] \in IF u \in Producers THEN PutLabels ELSE TakeLabels
    BY <1>7, <2>1, GotoType DEF PutWrite, PutLabels
  <2>4. buffer' \in [Slots -> Int] /\ written' \in [Slots -> [by : Threads, at : Nat]]
    BY <1>7, <2>1, <2>2 DEF PutWrite, TypeOK
  <2> QED
    BY <1>7, <2>2, <2>3, <2>4 DEF PutWrite, TypeOK, handles
<1>8. ASSUME NEW p \in Producers, PutPublish(p) PROVE TypeOK'
  <2>1. p \in Threads /\ index[p] + 1 \in Int /\ "tail" \in Atomics
    BY Names DEF TypeOK
  <2>2. /\ view' \in [Threads -> Views]
        /\ order' \in [Atomics -> Seq([val : Int, view : Views])]
    BY <1>8, <2>1, ReleaseType DEF PutPublish
  <2>3. /\ pc' \in [Threads -> PutLabels \cup TakeLabels]
        /\ \A u \in Threads : pc'[u] \in IF u \in Producers THEN PutLabels ELSE TakeLabels
    BY <1>8, <2>1, GotoType DEF PutPublish, PutLabels
  <2> QED
    BY <1>8, <2>2, <2>3 DEF PutPublish, TypeOK, handles
<1>9. ASSUME NEW r \in Takers, Take(r) PROVE TypeOK'
  <2>1. r \in Threads /\ r \notin Producers /\ HeadOf(r) \in Atomics /\ "tail" \in Atomics
    BY Names
  <2>2. PICK label \in TakeLabels : Goto(r, label)
    BY <1>9 DEF Take, TakeHead, TakeCheck, TakeRead, TakeRelease, TakeLabels
  <2>3. /\ pc' \in [Threads -> PutLabels \cup TakeLabels]
        /\ \A u \in Threads : pc'[u] \in IF u \in Producers THEN PutLabels ELSE TakeLabels
    BY <2>1, <2>2, GotoType
  <2>4. CASE TakeHead(r)
    <3>1. view' \in [Threads -> Views] /\ index' \in [Threads -> Int]
      <4>1. PICK i \in Readable(r, HeadOf(r)) :
              /\ LoadRelaxed(r, HeadOf(r), i)
              /\ index' = [index EXCEPT ![r] = order[HeadOf(r)][i].val]
        BY <2>4 DEF TakeHead
      <4>2. view' \in [Threads -> Views] /\ order[HeadOf(r)][i].val \in Int
        BY <2>1, <4>1, RelaxedType
      <4> QED
        BY <4>1, <4>2 DEF TypeOK
    <3> QED
      BY <2>3, <2>4, <3>1 DEF TakeHead, TypeOK, handles, memory
  <2>5. CASE TakeCheck(r)
    <3>1. view' \in [Threads -> Views]
      BY <2>1, <2>5, AcquireType DEF TakeCheck, Readable
    <3> QED
      BY <2>3, <2>5, <3>1 DEF TakeCheck, TypeOK, handles, memory
  <2>6. CASE TakeRead(r)
    <3>1. Slot(index[r]) \in Slots
      BY <2>1, SlotType DEF TypeOK
    <3>2. view' \in [Threads -> Views] /\ view'[r].clock[r] \in Nat
      BY <2>1, <2>6, TickType DEF TakeRead
    <3>3. reads' \in [Slots -> [Threads -> Nat]]
      BY <2>1, <2>6, <3>1, <3>2 DEF TakeRead, TypeOK
    <3> QED
      BY <2>3, <2>6, <3>2, <3>3 DEF TakeRead, TypeOK, handles
  <2>7. CASE TakeRelease(r)
    <3>1. index[r] + 1 \in Int
      BY <2>1 DEF TypeOK
    <3>2. /\ view' \in [Threads -> Views]
          /\ order' \in [Atomics -> Seq([val : Int, view : Views])]
      BY <2>1, <2>7, <3>1, ReleaseType DEF TakeRelease
    <3> QED
      BY <2>3, <2>7, <3>2 DEF TakeRelease, TypeOK, handles
  <2> QED
    BY <1>9, <2>4, <2>5, <2>6, <2>7 DEF Take
<1>10. CASE UNCHANGED vars
  BY <1>10 DEF vars, TypeOK
<1> QED
  BY <1>1, <1>2, <1>3, <1>4, <1>5, <1>6, <1>7, <1>8, <1>9, <1>10
     DEF Next, Put, Threads, Takers

(***************************************************************************)
(* Roles, and what their views share.                                      *)
(***************************************************************************)

(* A role has one thread.                                                  *)
LEMMA SoleHolder ==
  ASSUME TypeOK, OwnerInv
  PROVE  /\ \A p \in Producers : pc[p] # "detached" =>
              /\ producer = p /\ TailView = view[p]
              /\ \A q \in Producers \ {p} : pc[q] = "detached"
         /\ \A r \in Takers : pc[r] # "detached" =>
              /\ HeadView(HeadOf(r)) = view[r] /\ ~Dropped(HeadOf(r))
              /\ \A q \in Takers \ {r} : HeadOf(q) = HeadOf(r) => pc[q] = "detached"
  BY Names DEF OwnerInv, TailView, HeadView, HeadOf, Dropped, Takers

LEMMA OwnerSound ==
  ASSUME TypeOK, ViewsInv
  PROVE  /\ Sound(order, TailView)
         /\ \A a \in Heads : Sound(order, HeadView(a))
  BY Names DEF TypeOK, ViewsInv, TailView, HeadView, Threads, Takers

LEMMA PresentBound ==
  ASSUME TypeOK, EntriesInv, NEW a \in Atomics
  PROVE  /\ Len(order[a]) \in Nat \ {0}
         /\ Present(a) \in 1 .. Len(order[a])
         /\ ~Dropped(a) => Present(a) = Len(order[a])
         /\ "tail" \notin Observers
  BY Types, Names DEF EntriesInv, Present

(* A step that stores nothing.                                             *)
LEMMA SameEntries ==
  ASSUME TypeOK, EntriesInv, UNCHANGED order,
         \A o \in Observers : pc'[o] = "detached" <=> pc[o] = "detached"
  PROVE  /\ EntriesInv'
         /\ \A a \in Atomics : Present(a)' = Present(a) /\ Dropped(a)' = Dropped(a)
         /\ RowsPut' = RowsPut
<1>1. \A a \in Atomics : Present(a)' = Present(a) /\ Dropped(a)' = Dropped(a)
  BY DEF Present, Dropped
<1> QED
  BY <1>1 DEF EntriesInv, RowsPut

(* If views only grow, what the writers of tail and heads have seen of     *)
(* their own entries stays complete, and the windows stay.                 *)
LEMMA Grown ==
  ASSUME OrderingInv, TypeOK', ViewsInv', UNCHANGED order,
         \A o \in Observers : pc'[o] = "detached" <=> pc[o] = "detached",
         Leq(TailView, TailView'),
         \A a \in Heads : Leq(HeadView(a), HeadView(a)')
  PROVE  /\ TailView'.seen["tail"] = Len(order'["tail"])
         /\ \A a \in Heads :
              /\ HeadView(a)'.seen[a] = Len(order'[a])
              /\ HeadView(a)'.seen["tail"] >= Present(a)'
              /\ TailView'.seen[a] >= TailView.seen[a]
         /\ \A a \in Heads : \A i \in 1 .. Len(order'[a]) :
              i >= TailView'.seen[a] /\ i <= Present(a)' =>
                /\ RowsPut' <= i + Size - 2
                /\ (Putting # {} /\ a \notin scan) => RowsPut' + 1 <= i + Size - 2
<1>1. /\ TypeOK /\ EntriesInv /\ OwnerInv /\ WindowInv
      /\ \A a \in Atomics : Present(a)' = Present(a) /\ Dropped(a)' = Dropped(a)
      /\ RowsPut' = RowsPut
  BY SameEntries DEF OrderingInv
<1>2. /\ TailView' \in Views /\ Sound(order', TailView') /\ TailView \in Views
      /\ \A a \in Heads : /\ HeadView(a)' \in Views /\ Sound(order', HeadView(a)')
                          /\ HeadView(a) \in Views
  <2>1. /\ Sound(order', TailView')
        /\ \A a \in Heads : Sound(order', HeadView(a)')
    BY Names DEF TypeOK, ViewsInv, TailView, HeadView, Threads, Takers
  <2>2. TailView' \in Views /\ \A a \in Heads : HeadView(a)' \in Views
    BY Names DEF TypeOK, TailView, HeadView, Threads, Takers
  <2> QED
    BY <1>1, <2>1, <2>2, Types
<1>3. \A a \in Atomics : Len(order[a]) \in Nat
  BY <1>1, Types
<1>4. TailView'.seen["tail"] = Len(order'["tail"])
  <2>1. TailView'.seen["tail"] <= Len(order["tail"]) /\ TailView'.seen["tail"] \in Nat
    BY <1>2, Names DEF Sound, Views
  <2>2. TailView'.seen["tail"] >= TailView.seen["tail"]
    BY Names DEF Leq
  <2> QED
    BY <1>1, <1>3, <2>1, <2>2, Names DEF OwnerInv
<1>5. ASSUME NEW a \in Heads
      PROVE  /\ HeadView(a)'.seen[a] = Len(order'[a])
             /\ HeadView(a)'.seen["tail"] >= Present(a)'
             /\ TailView'.seen[a] >= TailView.seen[a]
  <2>1. a \in Atomics /\ "tail" \in Atomics
    BY Names
  <2>2. /\ HeadView(a)'.seen[a] <= Len(order[a]) /\ HeadView(a)'.seen[a] \in Nat
        /\ HeadView(a)'.seen["tail"] \in Nat /\ HeadView(a).seen["tail"] \in Nat
    BY <1>2, <2>1 DEF Sound, Views
  <2>3. /\ HeadView(a)'.seen[a] >= HeadView(a).seen[a]
        /\ HeadView(a)'.seen["tail"] >= HeadView(a).seen["tail"]
        /\ TailView'.seen[a] >= TailView.seen[a]
    BY <2>1 DEF Leq
  <2>4. HeadView(a).seen[a] = Len(order[a])
    BY <1>1 DEF OwnerInv
  <2>5. HeadView(a).seen["tail"] >= Present(a)'
    BY <1>1, <2>1 DEF WindowInv
  <2>6. Present(a)' \in Int
    BY <1>1, <1>3, <2>1 DEF Present
  <2> QED
    BY <1>3, <2>1, <2>2, <2>3, <2>4, <2>5, <2>6
<1>6. ASSUME NEW a \in Heads, NEW i \in 1 .. Len(order'[a]),
             i >= TailView'.seen[a], i <= Present(a)'
      PROVE  /\ RowsPut' <= i + Size - 2
             /\ (Putting # {} /\ a \notin scan) => RowsPut' + 1 <= i + Size - 2
  <2>1. TailView'.seen[a] \in Nat /\ TailView.seen[a] \in Nat /\ i \in Int /\ a \in Atomics
    BY <1>2, <1>3, Names DEF Views
  <2>2. i >= TailView.seen[a] /\ i <= Present(a)
    BY <1>1, <1>5, <1>6, <2>1
  <2> QED
    BY <1>1, <2>2 DEF WindowInv
<1> QED
  BY <1>4, <1>5, <1>6

(* Writes stay behind the views that had them behind.                      *)
LEMMA WritesStay ==
  ASSUME OrderingInv, TypeOK', order'["tail"] = order["tail"],
         UNCHANGED <<buffer, written>>, Written' = Written, Leq(TailView, TailView')
  PROVE  WritesInv'
<1>1. TypeOK /\ WritesInv
  BY DEF OrderingInv
<1>2. TailView \in Views /\ TailView' \in Views
  BY <1>1, Types, Names DEF TypeOK, TailView, Threads
<1>3. \A s \in Slots : Before(written'[s], TailView')
  BY <1>1, <1>2, StillBefore DEF WritesInv, TypeOK
<1>4. \A k \in 0 .. RowsPut' : Written' - Size <= k /\ k < Written' =>
        /\ buffer'[Slot(k)] = k
        /\ k < RowsPut' => Before(written'[Slot(k)], order'["tail"][k + 2].view)
  BY <1>1 DEF WritesInv, RowsPut
<1> QED
  BY <1>3, <1>4 DEF WritesInv

LEMMA ReadsStay ==
  ASSUME OrderingInv, TypeOK', UNCHANGED <<order, reads>>,
         \A a \in Heads : Leq(HeadView(a), HeadView(a)') /\ Taken(a)' = Taken(a)
  PROVE  ReadsInv'
<1>1. TypeOK /\ ReadsInv
  BY DEF OrderingInv
<1> SUFFICES ASSUME NEW r \in Takers, NEW s \in Slots
    PROVE  /\ reads'[s][r] <= HeadView(HeadOf(r))'.clock[r]
           /\ \A i \in 1 .. Len(order'[HeadOf(r)]) :
                \/ reads'[s][r] <= order'[HeadOf(r)][i].view.clock[r]
                \/ \E k \in i - 1 .. Taken(HeadOf(r))' - 1 : Slot(k) = s
  BY DEF ReadsInv
<1>2. HeadOf(r) \in Heads /\ r \in Threads
  BY Names
<1>3. HeadView(HeadOf(r)) \in Views /\ HeadView(HeadOf(r))' \in Views
  BY <1>1, <1>2, Types, Names DEF TypeOK, HeadView, Threads, Takers
<1>4. reads[s][r] \in Nat /\ reads[s][r] <= HeadView(HeadOf(r)).clock[r]
  BY <1>1, <1>2 DEF TypeOK, ReadsInv
<1>5. reads'[s][r] <= HeadView(HeadOf(r))'.clock[r]
  BY <1>2, <1>3, <1>4 DEF Leq, Views
<1>6. Taken(HeadOf(r))' = Taken(HeadOf(r))
  BY <1>2
<1>7. \A i \in 1 .. Len(order'[HeadOf(r)]) :
        \/ reads'[s][r] <= order'[HeadOf(r)][i].view.clock[r]
        \/ \E k \in i - 1 .. Taken(HeadOf(r))' - 1 : Slot(k) = s
  BY <1>1, <1>6 DEF ReadsInv
<1> QED
  BY <1>5, <1>7

(* No row becomes written or read by a step that leaves these labels.      *)
LEMMA SameProgress ==
  ASSUME UNCHANGED order,
         \A o \in Observers : pc'[o] = "detached" <=> pc[o] = "detached",
         \A p \in Producers : pc'[p] = "publish" <=> pc[p] = "publish",
         \A r \in Takers : pc'[r] = "release" <=> pc[r] = "release"
  PROVE  /\ Written' = Written
         /\ \A a \in Heads : Taken(a)' = Taken(a)
<1>1. \A a \in Atomics : Present(a)' = Present(a)
  BY DEF Present, Dropped
<1>2. Written' = Written
  BY DEF Written, RowsPut
<1>3. ASSUME NEW a \in Heads PROVE Taken(a)' = Taken(a)
  <2>1. Present(a)' = Present(a)
    BY <1>1, Names
  <2>2. (\E r \in Takers : HeadOf(r) = a /\ pc'[r] = "release")
          <=> (\E r \in Takers : HeadOf(r) = a /\ pc[r] = "release")
    OBVIOUS
  <2> QED
    BY <2>1, <2>2 DEF Taken
<1> QED
  BY <1>2, <1>3

(* All that a step needs that stores nothing, apart from its accesses to   *)
(* the elements.                                                           *)
LEMMA OrderStays ==
  ASSUME OrderingInv, TypeOK', ViewsInv', UNCHANGED order,
         \A o \in Observers : pc'[o] = "detached" <=> pc[o] = "detached",
         Leq(TailView, TailView'),
         \A a \in Heads : Leq(HeadView(a), HeadView(a)'),
         \A p \in Producers : pc'[p] # "detached" <=> producer' = p,
         \A c \in Consumers : pc'[c] # "detached" <=> consumer' = c,
         \A r \in Takers : pc'[r] \in {"read", "release"} =>
           view'[r].seen["tail"] > Present(HeadOf(r)),
         \A a \in Heads : Putting' # {} /\ a \notin scan' =>
           \/ Putting # {} /\ a \notin scan
           \/ \A i \in 1 .. Len(order[a]) :
                i >= TailView'.seen[a] /\ i <= Present(a) =>
                  RowsPut + 1 <= i + Size - 2
  PROVE  EntriesInv' /\ OwnerInv' /\ WindowInv'
<1>4. /\ EntriesInv'
      /\ \A a \in Atomics : Present(a)' = Present(a) /\ Dropped(a)' = Dropped(a)
      /\ RowsPut' = RowsPut
  BY SameEntries DEF OrderingInv
<1>5. /\ TailView'.seen["tail"] = Len(order'["tail"])
      /\ \A a \in Heads :
           /\ HeadView(a)'.seen[a] = Len(order'[a])
           /\ HeadView(a)'.seen["tail"] >= Present(a)'
           /\ TailView'.seen[a] >= TailView.seen[a]
      /\ \A a \in Heads : \A i \in 1 .. Len(order'[a]) :
           i >= TailView'.seen[a] /\ i <= Present(a)' =>
             /\ RowsPut' <= i + Size - 2
             /\ (Putting # {} /\ a \notin scan) => RowsPut' + 1 <= i + Size - 2
  BY Grown
<1>6. OwnerInv'
  BY <1>5 DEF OwnerInv
<1>7. WindowInv'
  <2>1. ASSUME NEW a \in Heads, NEW i \in 1 .. Len(order'[a]),
               i >= TailView'.seen[a], i <= Present(a)'
        PROVE  /\ RowsPut' <= i + Size - 2
               /\ (Putting' # {} /\ a \notin scan') => RowsPut' + 1 <= i + Size - 2
    <3>1. Present(a)' = Present(a) /\ RowsPut' = RowsPut
      BY <1>4, Names
    <3> QED
      BY <1>5, <2>1, <3>1
  <2>2. \A r \in Takers : pc'[r] \in {"read", "release"} =>
          view'[r].seen["tail"] > Present(HeadOf(r))'
    BY <1>4, Names
  <2> QED
    BY <1>5, <2>1, <2>2 DEF WindowInv
<1> QED
  BY <1>4, <1>6, <1>7

(* The same for a step that leaves the elements alone.                     *)
LEMMA QuietStep ==
  ASSUME OrderingInv, TypeOK', ViewsInv', UNCHANGED memory,
         \A o \in Observers : pc'[o] = "detached" <=> pc[o] = "detached",
         \A p \in Producers : pc'[p] = "publish" <=> pc[p] = "publish",
         \A r \in Takers : pc'[r] = "release" <=> pc[r] = "release",
         Leq(TailView, TailView'),
         \A a \in Heads : Leq(HeadView(a), HeadView(a)'),
         \A p \in Producers : pc'[p] # "detached" <=> producer' = p,
         \A c \in Consumers : pc'[c] # "detached" <=> consumer' = c,
         IndexInv',
         \A r \in Takers : pc'[r] \in {"read", "release"} =>
           view'[r].seen["tail"] > Present(HeadOf(r)),
         \A a \in Heads : Putting' # {} /\ a \notin scan' =>
           \/ Putting # {} /\ a \notin scan
           \/ \A i \in 1 .. Len(order[a]) :
                i >= TailView'.seen[a] /\ i <= Present(a) =>
                  RowsPut + 1 <= i + Size - 2
  PROVE  OrderingInv'
<1>1. UNCHANGED <<order, buffer, written, reads>>
  BY DEF memory
<1>2. Written' = Written /\ \A a \in Heads : Taken(a)' = Taken(a)
  BY <1>1, SameProgress
<1>3. WritesInv' /\ ReadsInv'
  BY <1>1, <1>2, WritesStay, ReadsStay
<1>4. EntriesInv' /\ OwnerInv' /\ WindowInv'
  BY <1>1, OrderStays
<1> QED
  BY <1>3, <1>4 DEF OrderingInv

(***************************************************************************)
(* Attaching and dropping.                                                 *)
(***************************************************************************)
LEMMA LockGrows ==
  ASSUME TypeOK, TypeOK', ViewsInv, UNCHANGED order, NEW t \in Threads, Lock(t)
  PROVE  /\ ViewsInv'
         /\ \A u \in Threads : Leq(view[u], view'[u])
         /\ Leq(mutex_view, mutex_view') /\ Leq(mutex_view, view'[t])
         /\ Leq(view[t], mutex_view')
<1>1. /\ view' = [view EXCEPT ![t] = Join(view[t], mutex_view)]
      /\ mutex_view' = Join(mutex_view, view[t])
  BY LockType
<1>2. /\ view[t] \in Views /\ mutex_view \in Views
      /\ Sound(order, view[t]) /\ Sound(order, mutex_view)
  BY DEF TypeOK, ViewsInv
<1>3. /\ Sound(order, Join(view[t], mutex_view))
      /\ Sound(order, Join(mutex_view, view[t]))
      /\ Leq(view[t], Join(view[t], mutex_view))
      /\ Leq(mutex_view, Join(view[t], mutex_view))
      /\ Leq(view[t], Join(mutex_view, view[t]))
      /\ Leq(mutex_view, Join(mutex_view, view[t]))
  BY <1>2, SoundJoin, JoinView
<1>4. view'[t] = Join(view[t], mutex_view) /\ \A u \in Threads \ {t} : view'[u] = view[u]
  BY <1>1 DEF TypeOK
<1>5. \A u \in Threads : Sound(order, view'[u]) /\ Leq(view[u], view'[u])
  BY <1>3, <1>4, LeqOrder DEF ViewsInv, TypeOK
<1>6. ViewsInv'
  BY <1>1, <1>3, <1>5 DEF ViewsInv
<1> QED
  BY <1>1, <1>3, <1>4, <1>5, <1>6

LEMMA AttachProducerKeeps ==
  ASSUME OrderingInv, TypeOK', NEW p \in Producers, AttachProducer(p)
  PROVE  OrderingInv'
<1>1. /\ TypeOK /\ EntriesInv /\ ViewsInv /\ OwnerInv /\ IndexInv /\ WindowInv
      /\ p \in Threads
  BY Names DEF OrderingInv
<1>2. /\ UNCHANGED <<order, buffer, written, reads, consumer, index, scan>>
      /\ pc[p] = "detached" /\ producer = Nobody /\ producer' = p /\ Lock(p)
      /\ pc'[p] = "idle" /\ \A t \in Threads \ {p} : pc'[t] = pc[t]
  BY <1>1 DEF AttachProducer, memory, Goto, TypeOK
<1>3. /\ ViewsInv'
      /\ \A u \in Threads : Leq(view[u], view'[u])
      /\ Leq(mutex_view, mutex_view') /\ Leq(mutex_view, view'[p])
  BY <1>1, <1>2, LockGrows
<1>4. Leq(TailView, TailView')
  BY <1>2, <1>3, Names DEF TailView
<1>5. \A a \in Heads : Leq(HeadView(a), HeadView(a)')
  BY <1>2, <1>3, Names DEF HeadView, TypeOK, Threads, Takers
<1>6. \A q \in Producers : pc[q] = "detached"
  BY <1>1, <1>2, Names DEF OwnerInv
<1>7. \A r \in Takers : r \in Threads /\ r # p /\ pc'[r] = pc[r]
  BY <1>2, Names
<1>8. Putting' = {} /\ \A q \in Producers : pc'[q] \notin {"scan", "write", "publish"}
  BY <1>2, <1>6, Names DEF Putting
<1>9. /\ \A q \in Producers : pc'[q] # "detached" <=> producer' = q
      /\ \A c \in Consumers : pc'[c] # "detached" <=> consumer' = c
  BY <1>1, <1>2, <1>6, <1>7, Names DEF OwnerInv, Takers
<1>10. \A a \in Heads : Present(a)' = Present(a)
  BY <1>2, <1>7 DEF Present, Dropped, Takers
<1>11. IndexInv'
  BY <1>1, <1>2, <1>7, <1>8, <1>10, Names DEF IndexInv
<1>12. \A r \in Takers : pc'[r] \in {"read", "release"} =>
          view'[r].seen["tail"] > Present(HeadOf(r))
  <2> SUFFICES ASSUME NEW r \in Takers, pc'[r] \in {"read", "release"}
      PROVE  view'[r].seen["tail"] > Present(HeadOf(r))
    OBVIOUS
  <2>1. view' = [view EXCEPT ![p] = Join(view[p], mutex_view)]
    BY <1>1, <1>2, LockType
  <2>2. view \in [Threads -> Views]
    BY <1>1 DEF TypeOK
  <2>3. view'[r] = view[r]
    BY <1>7, <2>1, <2>2
  <2> QED
    BY <1>1, <1>7, <2>3 DEF WindowInv
<1> QED
  BY <1>2, <1>3, <1>4, <1>5, <1>6, <1>7, <1>8, <1>9, <1>11, <1>12, QuietStep, Names
     DEF memory, Takers

LEMMA AttachConsumerKeeps ==
  ASSUME OrderingInv, TypeOK', NEW c \in Consumers, AttachConsumer(c)
  PROVE  OrderingInv'
<1>1. /\ TypeOK /\ EntriesInv /\ ViewsInv /\ OwnerInv /\ IndexInv /\ WindowInv
      /\ c \in Threads /\ c \in Takers
  BY Names DEF OrderingInv, Takers
<1>2. /\ UNCHANGED <<order, buffer, written, reads, producer, index, scan>>
      /\ pc[c] = "detached" /\ consumer = Nobody /\ consumer' = c /\ Lock(c)
      /\ pc'[c] = "idle" /\ \A t \in Threads \ {c} : pc'[t] = pc[t]
  BY <1>1 DEF AttachConsumer, memory, Goto, TypeOK
<1>3. /\ ViewsInv'
      /\ \A u \in Threads : Leq(view[u], view'[u])
      /\ Leq(mutex_view, mutex_view') /\ Leq(mutex_view, view'[c])
  BY <1>1, <1>2, LockGrows
<1>4. Leq(TailView, TailView')
  BY <1>2, <1>3, Names DEF TailView, TypeOK
<1>5. \A a \in Heads : Leq(HeadView(a), HeadView(a)')
  BY <1>2, <1>3, Names DEF HeadView, TypeOK, Threads, Takers
<1>6. \A p \in Producers : p \in Threads /\ pc'[p] = pc[p]
  BY <1>1, <1>2, Names
<1>7. \A o \in Observers : pc'[o] = pc[o]
  BY <1>2, Names
<1>8. Putting' = Putting
  BY <1>6 DEF Putting
<1>9. /\ \A q \in Producers : pc'[q] # "detached" <=> producer' = q
      /\ \A d \in Consumers : pc'[d] # "detached" <=> consumer' = d
  <2>1. \A d \in Consumers : pc[d] = "detached" /\ d \in Threads /\ d # Nobody
    BY <1>1, <1>2, Names DEF OwnerInv, Takers
  <2> QED
    BY <1>1, <1>2, <1>6, <2>1 DEF OwnerInv
<1>10. \A a \in Heads : Present(a)' = Present(a)
  BY <1>2, <1>7 DEF Present, Dropped
<1>11. IndexInv'
  BY <1>1, <1>2, <1>6, <1>8, <1>10, Names DEF IndexInv, RowsPut
<1>12. \A r \in Takers : pc'[r] \in {"read", "release"} =>
          view'[r].seen["tail"] > Present(HeadOf(r))
  <2> SUFFICES ASSUME NEW r \in Takers, pc'[r] \in {"read", "release"}
      PROVE  view'[r].seen["tail"] > Present(HeadOf(r))
    OBVIOUS
  <2>1. r # c /\ r \in Threads
    BY <1>2, Names
  <2>2. view'[r] = view[r] /\ pc'[r] = pc[r]
    <3>1. view' = [view EXCEPT ![c] = Join(view[c], mutex_view)]
      BY <1>1, <1>2, LockType
    <3>2. view \in [Threads -> Views]
      BY <1>1 DEF TypeOK
    <3> QED
      BY <1>2, <2>1, <3>1, <3>2
  <2> QED
    BY <1>1, <2>2 DEF WindowInv
<1> QED
  BY <1>2, <1>3, <1>4, <1>5, <1>6, <1>7, <1>8, <1>9, <1>11, <1>12, QuietStep, Names
     DEF memory

LEMMA DropKeeps ==
  ASSUME OrderingInv, TypeOK', NEW t \in Threads, Drop(t)
  PROVE  OrderingInv'
<1>1. TypeOK /\ EntriesInv /\ ViewsInv /\ OwnerInv /\ IndexInv /\ WindowInv
  BY DEF OrderingInv
<1>2. /\ UNCHANGED <<order, buffer, written, reads, index, scan>>
      /\ pc[t] = "idle" /\ t \notin Observers /\ Lock(t)
      /\ producer' = IF t = producer THEN Nobody ELSE producer
      /\ consumer' = IF t = consumer THEN Nobody ELSE consumer
      /\ pc'[t] = "detached" /\ \A u \in Threads \ {t} : pc'[u] = pc[u]
  BY <1>1 DEF Drop, memory, Goto, TypeOK
<1>3. /\ ViewsInv'
      /\ \A u \in Threads : Leq(view[u], view'[u])
      /\ Leq(mutex_view, mutex_view') /\ Leq(view[t], mutex_view')
  BY <1>1, <1>2, LockGrows
<1>4. Leq(TailView, TailView')
  BY <1>2, <1>3, Names DEF TailView, TypeOK
<1>5. \A a \in Heads : Leq(HeadView(a), HeadView(a)')
  BY <1>2, <1>3, Names DEF HeadView, TypeOK, Threads, Takers
<1>6. \A u \in Threads : pc'[u] = pc[u] \/ (u = t /\ pc'[u] = "detached" /\ pc[u] = "idle")
  BY <1>2
<1>7. \A o \in Observers : pc'[o] = pc[o]
  BY <1>2, Names
<1>8. Putting' = Putting
  BY <1>6, Names DEF Putting
<1>9. /\ \A q \in Producers : pc'[q] # "detached" <=> producer' = q
      /\ \A d \in Consumers : pc'[d] # "detached" <=> consumer' = d
  <2>1. \A q \in Threads : q # Nobody
    BY Names
  <2>2. \A q \in Producers : pc'[q] # "detached" <=> producer' = q
    BY <1>1, <1>2, <2>1, Names DEF OwnerInv
  <2>3. \A d \in Consumers : pc'[d] # "detached" <=> consumer' = d
    BY <1>1, <1>2, <2>1, Names DEF OwnerInv, Takers
  <2> QED
    BY <2>2, <2>3
<1>10. \A a \in Heads : Present(a)' = Present(a)
  BY <1>2, <1>7 DEF Present, Dropped
<1>11. IndexInv'
  BY <1>1, <1>2, <1>6, <1>8, <1>10, Names DEF IndexInv, RowsPut
<1>12. \A r \in Takers : pc'[r] \in {"read", "release"} =>
          view'[r].seen["tail"] > Present(HeadOf(r))
  <2> SUFFICES ASSUME NEW r \in Takers, pc'[r] \in {"read", "release"}
      PROVE  view'[r].seen["tail"] > Present(HeadOf(r))
    OBVIOUS
  <2>1. r # t /\ r \in Threads
    BY <1>2, Names
  <2>2. view'[r] = view[r] /\ pc'[r] = pc[r]
    <3>1. view' = [view EXCEPT ![t] = Join(view[t], mutex_view)]
      BY <1>1, <1>2, LockType
    <3>2. view \in [Threads -> Views]
      BY <1>1 DEF TypeOK
    <3> QED
      BY <1>2, <2>1, <3>1, <3>2
  <2> QED
    BY <1>1, <2>2 DEF WindowInv
<1>13. /\ \A p \in Producers : pc'[p] = "publish" <=> pc[p] = "publish"
       /\ \A r \in Takers : pc'[r] = "release" <=> pc[r] = "release"
  BY <1>6, Names
<1> QED
  BY <1>2, <1>3, <1>4, <1>5, <1>7, <1>8, <1>9, <1>11, <1>12, <1>13, QuietStep
     DEF memory

(***************************************************************************)
(* Loads.                                                                  *)
(***************************************************************************)

(* A step that changes the view of t only.                                 *)
LEMMA OneView ==
  ASSUME TypeOK, TypeOK', UNCHANGED handles, NEW t \in Threads, NEW v \in Views,
         view' = [view EXCEPT ![t] = v], Leq(view[t], v)
  PROVE  /\ view'[t] = v
         /\ \A u \in Threads : Leq(view[u], view'[u])
         /\ Leq(TailView, TailView')
         /\ \A a \in Heads : Leq(HeadView(a), HeadView(a)')
<1>1. view'[t] = v /\ \A u \in Threads \ {t} : view'[u] = view[u]
  BY DEF TypeOK
<1>2. \A u \in Threads : Leq(view[u], view'[u])
  BY <1>1, LeqOrder DEF TypeOK
<1>3. Leq(mutex_view, mutex_view') /\ producer' = producer /\ consumer' = consumer
  BY LeqOrder DEF handles, TypeOK
<1>4. Leq(TailView, TailView')
  BY <1>2, <1>3, Names DEF TailView, TypeOK
<1>5. \A a \in Heads : Leq(HeadView(a), HeadView(a)')
  BY <1>2, <1>3, Names DEF HeadView, TypeOK, Threads, Takers
<1> QED
  BY <1>1, <1>2, <1>4, <1>5

LEMMA OneViewSound ==
  ASSUME TypeOK, ViewsInv, UNCHANGED <<order, mutex_view>>, NEW t \in Threads,
         NEW v \in Views, view' = [view EXCEPT ![t] = v], Sound(order, v)
  PROVE  ViewsInv'
<1>1. \A u \in Threads : Sound(order, view'[u])
  BY DEF TypeOK, ViewsInv
<1> QED
  BY <1>1 DEF ViewsInv

LEMMA PutTailKeeps ==
  ASSUME OrderingInv, TypeOK', NEW p \in Producers, PutTail(p)
  PROVE  OrderingInv'
<1>1. /\ TypeOK /\ EntriesInv /\ ViewsInv /\ OwnerInv /\ IndexInv /\ WindowInv
      /\ p \in Threads /\ "tail" \in Atomics
  BY Names DEF OrderingInv
<1>2. /\ UNCHANGED <<order, buffer, written, reads, mutex_view, producer, consumer>>
      /\ pc[p] = "idle" /\ scan' = Heads
      /\ pc'[p] = "scan" /\ \A t \in Threads \ {p} : pc'[t] = pc[t]
  BY <1>1 DEF PutTail, memory, handles, Goto, TypeOK
<1>3. PICK i \in Readable(p, "tail") :
        /\ LoadRelaxed(p, "tail", i)
        /\ index' = [index EXCEPT ![p] = order["tail"][i].val]
  BY DEF PutTail
<1>4. /\ producer = p /\ TailView = view[p]
      /\ \A q \in Producers \ {p} : pc[q] = "detached"
  BY <1>1, <1>2, SoleHolder
<1>5. view[p].seen["tail"] = Len(order["tail"])
  BY <1>1, <1>4 DEF OwnerInv
<1>6. i = Len(order["tail"]) /\ view' = view
  BY <1>1, <1>3, <1>5, OwnLoad
<1>7. index' = [index EXCEPT ![p] = RowsPut]
  <2>1. /\ Len(order["tail"]) \in Nat \ {0}
        /\ Present("tail") = Len(order["tail"])
    BY <1>1, PresentBound DEF Dropped
  <2>2. order["tail"][Len(order["tail"])].val = Len(order["tail"]) - 1
    BY <1>1, <2>1 DEF EntriesInv
  <2> QED
    BY <1>3, <1>6, <2>2 DEF RowsPut
<1>8. UNCHANGED <<TailView>> /\ \A a \in Heads : UNCHANGED HeadView(a)
  BY <1>2, <1>6 DEF TailView, HeadView
<1>9. Leq(TailView, TailView') /\ \A a \in Heads : Leq(HeadView(a), HeadView(a)')
  BY <1>1, <1>8, Types, LeqOrder
<1>10. ViewsInv'
  BY <1>1, <1>2, <1>6 DEF ViewsInv
<1>11. \A r \in Takers : r \in Threads /\ r # p /\ pc'[r] = pc[r]
  BY <1>2, Names
<1>12. Putting' = {p}
  BY <1>2, <1>4, Names DEF Putting
<1>13. \A a \in Heads : Present(a)' = Present(a)
  BY <1>2, <1>11, Names DEF Present, Dropped
<1>14. IndexInv'
  <2>1. \A q \in Putting' : index'[q] = RowsPut'
    BY <1>1, <1>2, <1>7, <1>12 DEF RowsPut, TypeOK
  <2>2. \A r \in Takers : pc'[r] \in {"check", "read", "release"} =>
          index'[r] = Present(HeadOf(r))' - 1
    BY <1>1, <1>7, <1>11, <1>13, Names DEF IndexInv, TypeOK
  <2>3. \A q \in Producers : pc'[q] \notin {"write", "publish"}
    BY <1>2, <1>4, Names
  <2> QED
    BY <2>1, <2>2, <2>3 DEF IndexInv
<1>15. /\ \A q \in Producers : pc'[q] # "detached" <=> producer' = q
       /\ \A c \in Consumers : pc'[c] # "detached" <=> consumer' = c
  BY <1>1, <1>2, <1>4, <1>11, Names DEF OwnerInv, Takers
<1>16. \A q \in Producers : pc'[q] = "publish" <=> pc[q] = "publish"
  BY <1>2, <1>4, Names
<1>17. \A r \in Takers : pc'[r] \in {"read", "release"} =>
         view'[r].seen["tail"] > Present(HeadOf(r))
  BY <1>1, <1>6, <1>11 DEF WindowInv
<1> QED
  BY <1>2, <1>9, <1>10, <1>11, <1>14, <1>15, <1>16, <1>17, QuietStep, Names
     DEF memory

LEMMA PutScanKeeps ==
  ASSUME OrderingInv, TypeOK', NEW p \in Producers, PutScan(p)
  PROVE  OrderingInv'
<1>1. /\ TypeOK /\ EntriesInv /\ ViewsInv /\ OwnerInv /\ IndexInv /\ WindowInv
      /\ p \in Threads
  BY Names DEF OrderingInv
<1>2. PICK h \in scan : \E i \in Readable(p, h) :
        /\ LoadAcquire(p, h, i)
        /\ scan' = scan \ {h}
        /\ Goto(p, IF Blocks(order[h][i].val, index[p]) THEN "idle"
                   ELSE IF scan' = {} THEN "write" ELSE "scan")
  BY DEF PutScan
<1>3. PICK i \in Readable(p, h) :
        /\ LoadAcquire(p, h, i)
        /\ scan' = scan \ {h}
        /\ Goto(p, IF Blocks(order[h][i].val, index[p]) THEN "idle"
                   ELSE IF scan' = {} THEN "write" ELSE "scan")
  BY <1>2
<1>4. /\ h \in Heads /\ h \in Atomics /\ i \in 1 .. Len(order[h])
      /\ i >= view[p].seen[h] /\ Len(order[h]) \in Nat /\ i \in Nat \ {0}
  BY <1>1, <1>3, Types, Names DEF TypeOK, Readable
<1> DEFINE blocks == Blocks(order[h][i].val, index[p])
           v == Join(view[p], order[h][i].view)
<1>5. /\ UNCHANGED <<order, buffer, written, reads, handles, index>>
      /\ pc[p] = "scan" /\ \A t \in Threads \ {p} : pc'[t] = pc[t]
      /\ pc'[p] = IF blocks THEN "idle" ELSE IF scan' = {} THEN "write" ELSE "scan"
  BY <1>1, <1>3 DEF PutScan, memory, Goto, TypeOK
<1>6. /\ view' = [view EXCEPT ![p] = v] /\ v \in Views /\ Sound(order, v)
      /\ view'[p].seen[h] >= i
  BY <1>1, <1>3, <1>4, AcquireJoins
<1>7. Leq(view[p], v)
  BY <1>1, <1>4, Types, JoinView DEF TypeOK
<1> HIDE DEF v
<1>8. /\ Leq(TailView, TailView')
      /\ \A a \in Heads : Leq(HeadView(a), HeadView(a)')
      /\ \A t \in Threads \ {p} : view'[t] = view[t]
  BY <1>1, <1>5, <1>6, <1>7, OneView DEF TypeOK
<1>9. ViewsInv'
  BY <1>1, <1>5, <1>6, OneViewSound DEF handles
<1>10. /\ producer = p /\ TailView = view[p] /\ TailView' = view'[p]
       /\ \A q \in Producers \ {p} : pc[q] = "detached"
  BY <1>1, <1>5, SoleHolder, Names DEF TailView, handles
<1>11. \A r \in Takers : r \in Threads /\ r # p /\ pc'[r] = pc[r] /\ view'[r] = view[r]
  BY <1>5, <1>8, Names
<1>12. Putting = {p} /\ Putting' = IF blocks THEN {} ELSE {p}
  BY <1>5, <1>10, Names DEF Putting
<1>13. index[p] = RowsPut
  BY <1>1, <1>12 DEF IndexInv
<1>14. \A a \in Heads : Present(a)' = Present(a)
  BY <1>5, <1>11, Names DEF Present, Dropped
<1>15. IndexInv'
  <2>1. \A q \in Putting' : index'[q] = RowsPut'
    BY <1>5, <1>12, <1>13 DEF RowsPut
  <2>2. \A r \in Takers : pc'[r] \in {"check", "read", "release"} =>
          index'[r] = Present(HeadOf(r))' - 1
    BY <1>1, <1>5, <1>11, <1>14, Names DEF IndexInv
  <2>3. \A q \in Producers : pc'[q] \in {"write", "publish"} => scan' = {}
    BY <1>5, <1>10, Names
  <2> QED
    BY <2>1, <2>2, <2>3 DEF IndexInv
<1>16. /\ \A q \in Producers : pc'[q] # "detached" <=> producer' = q
       /\ \A c \in Consumers : pc'[c] # "detached" <=> consumer' = c
  BY <1>1, <1>5, <1>10, <1>11, Names DEF OwnerInv, Takers, handles
<1>17. \A q \in Producers : pc'[q] = "publish" <=> pc[q] = "publish"
  BY <1>5, <1>10, Names
<1>18. \A r \in Takers : pc'[r] \in {"read", "release"} =>
         view'[r].seen["tail"] > Present(HeadOf(r))
  BY <1>1, <1>11 DEF WindowInv
<1>19. ASSUME ~blocks, NEW j \in 1 .. Len(order[h]),
              j >= TailView'.seen[h], j <= Present(h)
       PROVE  RowsPut + 1 <= j + Size - 2
  <2>1. Present(h) \in 1 .. Len(order[h]) /\ Len(order["tail"]) \in Nat
    BY <1>1, <1>4, PresentBound, Types, Names
  <2>0. view'[p].seen[h] \in Nat
    BY <1>1, <1>4 DEF TypeOK, Views
  <2>2. i <= j /\ i <= Present(h) /\ j \in Int
    BY <1>4, <1>6, <1>10, <1>19, <2>1, <2>0
  <2>3. order[h][i].val = i - 1
    BY <1>1, <1>4, <2>2 DEF EntriesInv
  <2>4. RowsPut <= i + Size - 2
    BY <1>1, <1>4, <1>10, <2>2 DEF WindowInv
  <2>5. Slot(RowsPut + 1) # Slot(i - 1)
    BY <1>4, <1>13, <1>19, <2>3 DEF Blocks, Unused
  <2>6. RowsPut # i + Size - 2
    <3>1. SUFFICES ASSUME RowsPut = i + Size - 2 PROVE FALSE
      OBVIOUS
    <3>2. RowsPut + 1 = (i - 1) + Size
      BY <1>4, <3>1, OrderingAssumption
    <3> QED
      BY <1>4, <2>5, <3>2, NextLap
  <2> QED
    BY <1>4, <2>1, <2>2, <2>4, <2>6, OrderingAssumption DEF RowsPut
<1>20. \A a \in Heads : Putting' # {} /\ a \notin scan' =>
         \/ Putting # {} /\ a \notin scan
         \/ \A j \in 1 .. Len(order[a]) :
              j >= TailView'.seen[a] /\ j <= Present(a) =>
                RowsPut + 1 <= j + Size - 2
  BY <1>3, <1>12, <1>19
<1> QED
  BY <1>5, <1>8, <1>9, <1>11, <1>15, <1>16, <1>17, <1>18, <1>20, QuietStep, Names
     DEF memory

(* What a step of a reader r leaves as it is for the others.               *)
LEMMA ReaderStep ==
  ASSUME OrderingInv, TypeOK', NEW r \in Takers, pc[r] # "detached",
         UNCHANGED <<order, handles>>, pc'[r] # "detached",
         \A t \in Threads \ {r} : pc'[t] = pc[t]
  PROVE  /\ \A p \in Producers : p \in Threads /\ p # r /\ pc'[p] = pc[p]
         /\ \A o \in Observers : pc'[o] = "detached" <=> pc[o] = "detached"
         /\ Putting' = Putting
         /\ \A a \in Heads : Present(a)' = Present(a)
         /\ RowsPut' = RowsPut
         /\ \A q \in Producers : pc'[q] # "detached" <=> producer' = q
         /\ \A c \in Consumers : pc'[c] # "detached" <=> consumer' = c
         /\ (\E p \in Producers : pc'[p] \in {"write", "publish"})
              <=> (\E p \in Producers : pc[p] \in {"write", "publish"})
<1>1. OwnerInv
  BY DEF OrderingInv
<1>2. \A p \in Producers : p \in Threads /\ p # r /\ pc'[p] = pc[p]
  BY Names
<1>3. \A t \in Threads : pc'[t] = "detached" <=> pc[t] = "detached"
  OBVIOUS
<1>4. \A o \in Observers : pc'[o] = "detached" <=> pc[o] = "detached"
  BY <1>3, Names
<1>5. Putting' = Putting
  BY <1>2 DEF Putting
<1>6. \A a \in Heads : Present(a)' = Present(a)
  BY <1>4 DEF Present, Dropped
<1>7. /\ \A q \in Producers : pc'[q] # "detached" <=> producer' = q
      /\ \A c \in Consumers : pc'[c] # "detached" <=> consumer' = c
  BY <1>1, <1>3, Names DEF OwnerInv, handles, Takers
<1> QED
  BY <1>2, <1>4, <1>5, <1>6, <1>7 DEF RowsPut

LEMMA TakeHeadKeeps ==
  ASSUME OrderingInv, TypeOK', NEW r \in Takers, TakeHead(r)
  PROVE  OrderingInv'
<1> DEFINE a == HeadOf(r)
<1>1. /\ TypeOK /\ EntriesInv /\ ViewsInv /\ OwnerInv /\ IndexInv /\ WindowInv
      /\ r \in Threads /\ a \in Heads /\ a \in Atomics
  BY Names DEF OrderingInv
<1>2. /\ UNCHANGED <<order, buffer, written, reads, handles, scan>>
      /\ pc[r] = "idle" /\ pc'[r] = "check"
      /\ \A t \in Threads \ {r} : pc'[t] = pc[t]
  BY <1>1 DEF TakeHead, memory, Goto, TypeOK
<1>3. PICK i \in Readable(r, a) :
        /\ LoadRelaxed(r, a, i)
        /\ index' = [index EXCEPT ![r] = order[a][i].val]
  BY DEF TakeHead
<1>4. HeadView(a) = view[r] /\ ~Dropped(a)
  BY <1>1, <1>2, SoleHolder
<1>5. view[r].seen[a] = Len(order[a])
  BY <1>1, <1>4 DEF OwnerInv
<1> HIDE DEF a
<1>6. i = Len(order[a]) /\ view' = view
  BY <1>1, <1>3, <1>5, OwnLoad
<1>7. index' = [index EXCEPT ![r] = Present(a) - 1]
  <2>1. Len(order[a]) \in Nat \ {0} /\ Present(a) = Len(order[a])
    BY <1>1, <1>4, PresentBound
  <2>2. order[a][Len(order[a])].val = Present(a) - 1
    BY <1>1, <2>1 DEF EntriesInv
  <2> QED
    BY <1>3, <1>6, <2>2
<1>8. UNCHANGED <<TailView>> /\ \A b \in Heads : UNCHANGED HeadView(b)
  BY <1>2, <1>6 DEF TailView, HeadView, handles
<1>9. Leq(TailView, TailView') /\ \A b \in Heads : Leq(HeadView(b), HeadView(b)')
  BY <1>1, <1>8, Types, LeqOrder
<1>10. ViewsInv'
  BY <1>1, <1>2, <1>6 DEF ViewsInv, handles
<1>11. /\ \A p \in Producers : p \in Threads /\ p # r /\ pc'[p] = pc[p]
       /\ \A o \in Observers : pc'[o] = "detached" <=> pc[o] = "detached"
       /\ Putting' = Putting
       /\ \A b \in Heads : Present(b)' = Present(b)
       /\ RowsPut' = RowsPut
       /\ \A q \in Producers : pc'[q] # "detached" <=> producer' = q
       /\ \A c \in Consumers : pc'[c] # "detached" <=> consumer' = c
       /\ (\E p \in Producers : pc'[p] \in {"write", "publish"})
            <=> (\E p \in Producers : pc[p] \in {"write", "publish"})
  BY <1>2, ReaderStep
<1>12. IndexInv'
  <2>1. \A p \in Putting' : index'[p] = RowsPut'
    BY <1>1, <1>7, <1>11 DEF IndexInv, TypeOK, Putting
  <2>2. ASSUME NEW q \in Takers, pc'[q] \in {"check", "read", "release"}
        PROVE  index'[q] = Present(HeadOf(q))' - 1
    BY <1>1, <1>2, <1>7, <1>11, <2>2, Names DEF IndexInv, TypeOK, a
  <2> QED
    BY <1>1, <1>2, <1>11, <2>1, <2>2 DEF IndexInv
<1>13. \A q \in Takers : pc'[q] \in {"read", "release"} =>
         pc[q] = pc'[q] /\ view'[q].seen["tail"] > Present(HeadOf(q))
  BY <1>1, <1>2, <1>6, Names DEF WindowInv
<1>14. \A q \in Takers : pc'[q] = "release" <=> pc[q] = "release"
  BY <1>2, Names
<1> QED
  BY <1>2, <1>9, <1>10, <1>11, <1>12, <1>13, <1>14, QuietStep DEF memory

LEMMA TakeCheckKeeps ==
  ASSUME OrderingInv, TypeOK', NEW r \in Takers, TakeCheck(r)
  PROVE  OrderingInv'
<1> DEFINE a == HeadOf(r)
<1>1. /\ TypeOK /\ EntriesInv /\ ViewsInv /\ OwnerInv /\ IndexInv /\ WindowInv
      /\ r \in Threads /\ a \in Heads /\ a \in Atomics /\ "tail" \in Atomics
  BY Names DEF OrderingInv
<1>2. PICK i \in Readable(r, "tail") :
        /\ LoadAcquire(r, "tail", i)
        /\ Goto(r, IF Slot(order["tail"][i].val) = Slot(index[r])
                   THEN "idle" ELSE "read")
  BY DEF TakeCheck
<1> DEFINE empty == Slot(order["tail"][i].val) = Slot(index[r])
           v == Join(view[r], order["tail"][i].view)
<1>3. /\ i \in 1 .. Len(order["tail"]) /\ i >= view[r].seen["tail"]
      /\ Len(order["tail"]) \in Nat
  BY <1>1, Types DEF Readable
<1>4. /\ UNCHANGED <<order, buffer, written, reads, handles, index, scan>>
      /\ pc[r] = "check" /\ pc'[r] = IF empty THEN "idle" ELSE "read"
      /\ \A t \in Threads \ {r} : pc'[t] = pc[t]
  BY <1>1, <1>2 DEF TakeCheck, memory, Goto, TypeOK
<1>5. /\ view' = [view EXCEPT ![r] = v] /\ v \in Views /\ Sound(order, v)
      /\ view'[r].seen["tail"] >= i
  BY <1>1, <1>2, <1>3, AcquireJoins
<1>6. Leq(view[r], v)
  BY <1>1, <1>3, Types, JoinView DEF TypeOK
<1> HIDE DEF v
<1>7. /\ Leq(TailView, TailView')
      /\ \A b \in Heads : Leq(HeadView(b), HeadView(b)')
      /\ \A t \in Threads \ {r} : view'[t] = view[t]
  BY <1>1, <1>4, <1>5, <1>6, OneView DEF TypeOK
<1>8. ViewsInv'
  BY <1>1, <1>4, <1>5, OneViewSound DEF handles
<1>9. HeadView(a) = view[r] /\ ~Dropped(a)
  BY <1>1, <1>4, SoleHolder
<1>10. /\ \A p \in Producers : p \in Threads /\ p # r /\ pc'[p] = pc[p]
       /\ \A o \in Observers : pc'[o] = "detached" <=> pc[o] = "detached"
       /\ Putting' = Putting
       /\ \A b \in Heads : Present(b)' = Present(b)
       /\ RowsPut' = RowsPut
       /\ \A q \in Producers : pc'[q] # "detached" <=> producer' = q
       /\ \A c \in Consumers : pc'[c] # "detached" <=> consumer' = c
       /\ (\E p \in Producers : pc'[p] \in {"write", "publish"})
            <=> (\E p \in Producers : pc[p] \in {"write", "publish"})
  BY <1>4, ReaderStep
<1>11. index[r] = Present(a) - 1 /\ Present(a) \in Nat
  BY <1>1, <1>4, PresentBound, Types DEF IndexInv
<1>12. ~empty => view'[r].seen["tail"] > Present(a)
  <2>1. HAVE ~empty
  <2>2. Present("tail") = Len(order["tail"])
    BY <1>1, PresentBound DEF Dropped
  <2>3. order["tail"][i].val = i - 1
    BY <1>1, <1>3, <2>2 DEF EntriesInv
  <2>4. i # Present(a)
    BY <1>3, <1>11, <2>1, <2>3
  <2>5. view[r].seen["tail"] >= Present(a)
    BY <1>1, <1>9 DEF WindowInv
  <2>6. view[r].seen["tail"] \in Nat /\ view'[r].seen["tail"] \in Nat
    BY <1>1 DEF TypeOK, Views
  <2> QED
    BY <1>3, <1>5, <1>11, <2>4, <2>5, <2>6
<1>13. IndexInv'
  <2>1. ASSUME NEW q \in Takers, pc'[q] \in {"check", "read", "release"}
        PROVE  index'[q] = Present(HeadOf(q))' - 1
    BY <1>1, <1>4, <1>10, <1>11, <2>1, Names DEF IndexInv
  <2> QED
    BY <1>1, <1>4, <1>10, <2>1 DEF IndexInv
<1>14. \A q \in Takers : pc'[q] \in {"read", "release"} =>
         view'[q].seen["tail"] > Present(HeadOf(q))
  BY <1>1, <1>4, <1>7, <1>12, Names DEF WindowInv
<1>15. \A q \in Takers : pc'[q] = "release" <=> pc[q] = "release"
  BY <1>4, Names
<1> QED
  BY <1>4, <1>7, <1>8, <1>10, <1>13, <1>14, <1>15, QuietStep DEF memory

(***************************************************************************)
(* Accesses to elements.                                                   *)
(***************************************************************************)
LEMMA PutWriteKeeps ==
  ASSUME OrderingInv, TypeOK', NEW p \in Producers, PutWrite(p)
  PROVE  OrderingInv'
<1> DEFINE s == Slot(index[p])
           v == Tick(view[p], p)
<1>1. /\ TypeOK /\ EntriesInv /\ ViewsInv /\ OwnerInv /\ IndexInv /\ WindowInv
      /\ WritesInv /\ p \in Threads
  BY Names DEF OrderingInv
<1>2. /\ UNCHANGED <<order, reads, handles, index, scan>>
      /\ pc[p] = "write" /\ pc'[p] = "publish"
      /\ \A t \in Threads \ {p} : pc'[t] = pc[t]
      /\ view' = [view EXCEPT ![p] = v]
      /\ buffer' = [buffer EXCEPT ![s] = index[p]]
      /\ written' = [written EXCEPT ![s] = [by |-> p, at |-> view'[p].clock[p]]]
  BY <1>1 DEF PutWrite, Goto, TypeOK
<1>3. /\ v \in Views /\ Leq(view[p], v) /\ Sound(order, v)
  BY <1>1, TickView, SoundTick DEF TypeOK, ViewsInv
<1> HIDE DEF v
<1>4. /\ view'[p] = v
      /\ Leq(TailView, TailView')
      /\ \A a \in Heads : Leq(HeadView(a), HeadView(a)')
      /\ \A t \in Threads \ {p} : view'[t] = view[t]
  BY <1>1, <1>2, <1>3, OneView DEF TypeOK
<1>5. ViewsInv'
  BY <1>1, <1>2, <1>3, OneViewSound DEF handles
<1>6. /\ producer = p /\ TailView = view[p] /\ TailView' = view'[p]
      /\ \A q \in Producers \ {p} : pc[q] = "detached"
  BY <1>1, <1>2, SoleHolder, Names DEF TailView, handles
<1>7. \A r \in Takers : r \in Threads /\ r # p /\ pc'[r] = pc[r] /\ view'[r] = view[r]
  BY <1>2, <1>4, Names
<1>8. Putting = {p} /\ Putting' = {p}
  BY <1>2, <1>6, Names DEF Putting
<1>9. index[p] = RowsPut /\ RowsPut' = RowsPut /\ RowsPut \in Nat
  BY <1>1, <1>2, <1>8, PresentBound, Names DEF IndexInv, RowsPut
<1>10. \A a \in Heads : Present(a)' = Present(a)
  BY <1>2, <1>7, Names DEF Present, Dropped
<1>11. IndexInv'
  <2>1. \A r \in Takers : pc'[r] \in {"check", "read", "release"} =>
          index'[r] = Present(HeadOf(r))' - 1
    BY <1>1, <1>2, <1>7, <1>10, Names DEF IndexInv
  <2> QED
    BY <1>1, <1>2, <1>8, <1>9, <2>1 DEF IndexInv
<1>12. /\ \A q \in Producers : pc'[q] # "detached" <=> producer' = q
       /\ \A c \in Consumers : pc'[c] # "detached" <=> consumer' = c
  BY <1>1, <1>2, <1>6, <1>7, Names DEF OwnerInv, Takers, handles
<1>13. \A r \in Takers : pc'[r] \in {"read", "release"} =>
         view'[r].seen["tail"] > Present(HeadOf(r))
  BY <1>1, <1>7 DEF WindowInv
<1>14. EntriesInv' /\ OwnerInv' /\ WindowInv'
  BY <1>2, <1>4, <1>5, <1>7, <1>8, <1>12, <1>13, OrderStays, Names
<1>15. ReadsInv'
  <2>1. ASSUME NEW a \in Heads PROVE Taken(a)' = Taken(a)
    <3>1. Present(a)' = Present(a)
      BY <1>10
    <3>2. (\E r \in Takers : HeadOf(r) = a /\ pc'[r] = "release")
            <=> (\E r \in Takers : HeadOf(r) = a /\ pc[r] = "release")
      BY <1>7
    <3> QED
      BY <3>1, <3>2 DEF Taken
  <2> QED
    BY <1>2, <1>4, <2>1, ReadsStay
<1>16. Written = RowsPut /\ Written' = RowsPut + 1
  <2>1. \A q \in Producers : pc[q] # "publish"
    BY <1>2, <1>6
  <2> QED
    BY <1>2, <1>9, <2>1 DEF Written
<1>17. s \in Slots
  BY <1>1, SlotType DEF TypeOK
<1>18. WritesInv'
  <2>1. ASSUME NEW z \in Slots PROVE Before(written'[z], TailView')
    <3>1. CASE z = s
      <4>1. written'[z] = [by |-> p, at |-> view'[p].clock[p]]
        BY <1>1, <1>2, <1>17, <3>1 DEF TypeOK
      <4>2. view'[p].clock[p] \in Nat
        BY <1>1 DEF TypeOK, Views
      <4> QED
        BY <1>6, <4>1, <4>2 DEF Before
    <3>2. CASE z # s
      <4>1. written'[z] = written[z] /\ written[z] \in [by : Threads, at : Nat]
        BY <1>1, <1>2, <3>2 DEF TypeOK
      <4>2. Before(written[z], TailView) /\ TailView \in Views /\ TailView' \in Views
        BY <1>1, <1>3, <1>4, <1>6 DEF WritesInv, TypeOK
      <4> QED
        BY <1>4, <4>1, <4>2, StillBefore
    <3> QED
      BY <3>1, <3>2
  <2>2. ASSUME NEW k \in 0 .. RowsPut', Written' - Size <= k, k < Written'
        PROVE  /\ buffer'[Slot(k)] = k
               /\ k < RowsPut' => Before(written'[Slot(k)], order'["tail"][k + 2].view)
    <3>1. CASE k = RowsPut
      BY <1>1, <1>2, <1>9, <1>17, <3>1 DEF TypeOK
    <3>2. CASE k # RowsPut
      <4>1. k < RowsPut /\ RowsPut < k + Size /\ k \in Int
        BY <1>9, <1>16, <2>2, <3>2, OrderingAssumption
      <4>2. Slot(k) # s
        BY <1>9, <4>1, SlotsApart
      <4>3. Slot(k) \in Slots
        BY <4>1, SlotType
      <4>4. buffer'[Slot(k)] = buffer[Slot(k)] /\ written'[Slot(k)] = written[Slot(k)]
        BY <1>1, <1>2, <4>2, <4>3 DEF TypeOK
      <4>5. Written - Size <= k /\ k < Written
        BY <1>9, <1>16, <2>2, <4>1, OrderingAssumption
      <4> QED
        BY <1>1, <1>2, <1>9, <4>1, <4>4, <4>5 DEF WritesInv
    <3> QED
      BY <3>1, <3>2
  <2> QED
    BY <2>1, <2>2 DEF WritesInv
<1> QED
  BY <1>5, <1>11, <1>14, <1>15, <1>18 DEF OrderingInv

LEMMA TakeReadKeeps ==
  ASSUME OrderingInv, TypeOK', NEW r \in Takers, TakeRead(r)
  PROVE  OrderingInv'
<1> DEFINE a == HeadOf(r)
           v == Tick(view[r], r)
<1>1. /\ TypeOK /\ EntriesInv /\ ViewsInv /\ OwnerInv /\ IndexInv /\ WindowInv
      /\ WritesInv /\ ReadsInv /\ r \in Threads /\ a \in Heads
  BY Names DEF OrderingInv
<1>2. /\ UNCHANGED <<order, buffer, written, handles, index, scan>>
      /\ pc[r] = "read" /\ pc'[r] = "release"
      /\ \A t \in Threads \ {r} : pc'[t] = pc[t]
      /\ view' = [view EXCEPT ![r] = v]
      /\ reads' = [reads EXCEPT ![Slot(index[r])][r] = view'[r].clock[r]]
  BY <1>1 DEF TakeRead, Goto, TypeOK
<1>3. /\ v \in Views /\ Leq(view[r], v) /\ Sound(order, v) /\ v.seen = view[r].seen
  BY <1>1, TickView, SoundTick DEF TypeOK, ViewsInv
<1> HIDE DEF v
<1>4. /\ view'[r] = v
      /\ Leq(TailView, TailView')
      /\ \A b \in Heads : Leq(HeadView(b), HeadView(b)')
      /\ \A t \in Threads \ {r} : view'[t] = view[t]
  BY <1>1, <1>2, <1>3, OneView DEF TypeOK
<1>5. ViewsInv'
  BY <1>1, <1>2, <1>3, OneViewSound DEF handles
<1>6. /\ HeadView(a) = view[r] /\ HeadView(a)' = view'[r] /\ ~Dropped(a)
      /\ \A q \in Takers \ {r} : HeadOf(q) = a => pc[q] = "detached"
  <2>1. IF r \in Observers THEN a = r ELSE a = "head" /\ consumer = r
    BY <1>1, <1>2, Names DEF OwnerInv, Takers
  <2>2. HeadView(a)' = view'[r]
    BY <1>2, <2>1, Names DEF HeadView, handles
  <2> QED
    BY <1>1, <1>2, <2>2, SoleHolder
<1>7. /\ \A p \in Producers : p \in Threads /\ p # r /\ pc'[p] = pc[p]
      /\ \A o \in Observers : pc'[o] = "detached" <=> pc[o] = "detached"
      /\ Putting' = Putting
      /\ \A b \in Heads : Present(b)' = Present(b)
      /\ RowsPut' = RowsPut
      /\ \A q \in Producers : pc'[q] # "detached" <=> producer' = q
      /\ \A c \in Consumers : pc'[c] # "detached" <=> consumer' = c
      /\ (\E p \in Producers : pc'[p] \in {"write", "publish"})
           <=> (\E p \in Producers : pc[p] \in {"write", "publish"})
  BY <1>2, ReaderStep
<1>8. IndexInv'
  <2>1. ASSUME NEW q \in Takers, pc'[q] \in {"check", "read", "release"}
        PROVE  index'[q] = Present(HeadOf(q))' - 1
    BY <1>1, <1>2, <1>7, <2>1, Names DEF IndexInv
  <2> QED
    BY <1>1, <1>2, <1>7, <2>1 DEF IndexInv
<1>9. \A q \in Takers : pc'[q] \in {"read", "release"} =>
        view'[q].seen["tail"] > Present(HeadOf(q))
  BY <1>1, <1>2, <1>3, <1>4, Names DEF WindowInv
<1>10. EntriesInv' /\ OwnerInv' /\ WindowInv'
  BY <1>2, <1>4, <1>5, <1>7, <1>9, OrderStays
<1>11. WritesInv'
  <2>1. Written' = Written
    BY <1>7 DEF Written
  <2> QED
    BY <1>2, <1>4, <2>1, WritesStay
<1>12. index[r] = Present(a) - 1 /\ Present(a) \in Nat \ {0} /\ Len(order[a]) = Present(a)
  BY <1>1, <1>2, <1>6, PresentBound, Names DEF IndexInv
<1>13. Taken(a) = Present(a) - 1 /\ Taken(a)' = Present(a)
  <2>1. \A q \in Takers : HeadOf(q) = a => pc[q] # "release"
    BY <1>2, <1>6
  <2> QED
    BY <1>1, <1>2, <1>7, <2>1 DEF Taken
<1>14. \A b \in Heads \ {a} : Taken(b)' = Taken(b)
  <2> SUFFICES ASSUME NEW b \in Heads \ {a} PROVE Taken(b)' = Taken(b)
    OBVIOUS
  <2>1. (\E q \in Takers : HeadOf(q) = b /\ pc'[q] = "release")
          <=> (\E q \in Takers : HeadOf(q) = b /\ pc[q] = "release")
    BY <1>2, Names
  <2> QED
    BY <1>7, <2>1 DEF Taken
<1>15. Slot(index[r]) \in Slots
  BY <1>1, SlotType DEF TypeOK
<1>16. ReadsInv'
  <2> SUFFICES ASSUME NEW q \in Takers, NEW s \in Slots
      PROVE  /\ reads'[s][q] <= HeadView(HeadOf(q))'.clock[q]
             /\ \A i \in 1 .. Len(order'[HeadOf(q)]) :
                  \/ reads'[s][q] <= order'[HeadOf(q)][i].view.clock[q]
                  \/ \E k \in i - 1 .. Taken(HeadOf(q))' - 1 : Slot(k) = s
    BY DEF ReadsInv
  <2>1. CASE q = r /\ s = Slot(index[r])
    <3>1. reads'[s][q] = view'[r].clock[r]
      BY <1>1, <1>2, <1>15, <2>1 DEF TypeOK
    <3>2. view'[r].clock[r] \in Nat
      BY <1>1 DEF TypeOK, Views
    <3>3. \A i \in 1 .. Len(order'[a]) : \E k \in i - 1 .. Taken(a)' - 1 : Slot(k) = s
      <4> TAKE i \in 1 .. Len(order'[a])
      <4>1. index[r] \in i - 1 .. Taken(a)' - 1
        BY <1>2, <1>12, <1>13
      <4> QED
        BY <2>1, <4>1
    <3> QED
      BY <1>6, <2>1, <3>1, <3>2, <3>3
  <2>2. CASE ~(q = r /\ s = Slot(index[r]))
    <3>1. reads'[s][q] = reads[s][q] /\ reads[s][q] \in Nat /\ q \in Threads
      BY <1>1, <1>2, <1>15, <2>2, Names DEF TypeOK
    <3>2. /\ HeadOf(q) \in Heads
          /\ HeadView(HeadOf(q)) \in Views /\ HeadView(HeadOf(q))' \in Views
      BY <1>1, Names, Types DEF TypeOK, HeadView, Threads, Takers
    <3>3. reads'[s][q] <= HeadView(HeadOf(q))'.clock[q]
      BY <1>1, <1>4, <3>1, <3>2 DEF ReadsInv, Leq, Views
    <3>4. \A k : Taken(HeadOf(q)) \in Int /\
                 (k \in Int /\ k <= Taken(HeadOf(q)) - 1 => k <= Taken(HeadOf(q))' - 1)
      <4>1. Taken(HeadOf(q)) \in Int
        BY <1>1, <3>2, PresentBound, Names DEF Taken
      <4> QED
        BY <1>12, <1>13, <1>14, <3>2, <4>1
    <3>5. Taken(HeadOf(q))' \in Int
      BY <1>12, <1>13, <1>14, <3>2, <3>4
    <3>6. ASSUME NEW i \in 1 .. Len(order[HeadOf(q)]),
                 ~(reads[s][q] <= order[HeadOf(q)][i].view.clock[q])
          PROVE  \E k \in i - 1 .. Taken(HeadOf(q))' - 1 : Slot(k) = s
      <4>1. PICK k \in i - 1 .. Taken(HeadOf(q)) - 1 : Slot(k) = s
        BY <1>1, <3>6 DEF ReadsInv
      <4>2. k \in i - 1 .. Taken(HeadOf(q))' - 1
        BY <3>4, <3>5, <4>1
      <4> QED
        BY <4>1, <4>2
    <3> QED
      BY <1>2, <3>1, <3>3, <3>6
  <2> QED
    BY <2>1, <2>2
<1> QED
  BY <1>5, <1>8, <1>10, <1>11, <1>16 DEF OrderingInv

(***************************************************************************)
(* Stores.                                                                 *)
(***************************************************************************)

(* The writer of an atomic has seen all of it, so what it publishes covers *)
(* whatever was published there before.                                    *)
LEMMA Publish ==
  ASSUME OrderingInv, TypeOK', NEW t \in Threads, NEW a \in Atomics, NEW x \in Int,
         StoreRelease(t, a, x), view[t].seen[a] = Len(order[a]), UNCHANGED handles
  PROVE  /\ \A b \in Atomics \ {a} : order'[b] = order[b]
         /\ Len(order[a]) \in Nat /\ Len(order'[a]) = Len(order[a]) + 1
         /\ \A i \in 1 .. Len(order[a]) : order'[a][i] = order[a][i]
         /\ order'[a][Len(order[a]) + 1] = [val |-> x, view |-> view'[t]]
         /\ view'[t].clock = view[t].clock
         /\ view'[t].seen[a] = Len(order[a]) + 1
         /\ \A b \in Atomics \ {a} : view'[t].seen[b] = view[t].seen[b]
         /\ \A u \in Threads \ {t} : view'[u] = view[u]
         /\ \A u \in Threads : Leq(view[u], view'[u])
         /\ Leq(TailView, TailView') /\ \A h \in Heads : Leq(HeadView(h), HeadView(h)')
         /\ ViewsInv'
<1> DEFINE n == Len(order[a])
           v == See(view[t], a, n + 1)
<1>1. TypeOK /\ EntriesInv /\ ViewsInv
  BY DEF OrderingInv
<1>2. n \in Nat /\ view[t] \in Views /\ Sound(order, view[t])
  BY <1>1, Types DEF TypeOK, ViewsInv
<1>3. /\ v \in Views /\ Leq(view[t], v) /\ v.clock = view[t].clock
      /\ v.seen[a] = n + 1 /\ \A b \in Atomics \ {a} : v.seen[b] = view[t].seen[b]
  <2>1. n + 1 \in Nat \ {0} /\ n + 1 >= view[t].seen[a]
    BY <1>2
  <2> QED
    BY <1>2, <2>1, SeeView
<1>4. /\ view' = [view EXCEPT ![t] = v]
      /\ order' = [order EXCEPT ![a] = Append(@, [val |-> x, view |-> v])]
  BY DEF StoreRelease
<1> HIDE DEF v
<1>5. /\ \A b \in Atomics \ {a} : order'[b] = order[b]
      /\ Len(order'[a]) = n + 1
      /\ \A i \in 1 .. n : order'[a][i] = order[a][i]
      /\ order'[a][n + 1] = [val |-> x, view |-> v]
  <2> DEFINE e == [val |-> x, view |-> v]
  <2>1. e \in [val : Int, view : Views] /\ order' = [order EXCEPT ![a] = Append(@, e)]
    BY <1>3, <1>4
  <2> HIDE DEF e
  <2>2. /\ \A b \in Atomics \ {a} : order'[b] = order[b]
        /\ Len(order'[a]) = n + 1
        /\ \A i \in 1 .. n : order'[a][i] = order[a][i]
        /\ order'[a][n + 1] = e
    BY <1>1, <2>1, NewEntry
  <2> QED
    BY <2>2 DEF e
<1>6. /\ view'[t] = v
      /\ \A u \in Threads : Leq(view[u], view'[u])
      /\ Leq(TailView, TailView') /\ \A h \in Heads : Leq(HeadView(h), HeadView(h)')
  <2>1. view' = [view EXCEPT ![t] = v]
    BY <1>4
  <2> QED
    BY <1>1, <1>3, <2>1, OneView
<1>7. \A u \in Threads \ {t} : view'[u] = view[u]
  BY <1>1, <1>4 DEF TypeOK
<1>8. ASSUME NEW u \in Views, Sound(order, u) PROVE Sound(order', u)
  <2> SUFFICES ASSUME NEW b \in Atomics
      PROVE  /\ u.seen[b] <= Len(order'[b])
             /\ \A i \in 1 .. Len(order'[b]) : i <= u.seen[b] => Leq(order'[b][i].view, u)
    BY DEF Sound
  <2>1. /\ u.seen[b] <= Len(order[b]) /\ u.seen[b] \in Nat
        /\ \A i \in 1 .. Len(order[b]) : i <= u.seen[b] => Leq(order[b][i].view, u)
    BY <1>8 DEF Sound, Views
  <2>2. CASE b = a
    <3>1. u.seen[b] <= Len(order'[b])
      BY <1>2, <1>5, <2>1, <2>2
    <3>2. ASSUME NEW i \in 1 .. Len(order'[b]), i <= u.seen[b]
          PROVE  Leq(order'[b][i].view, u)
      <4>1. i \in 1 .. n
        BY <1>2, <1>5, <2>1, <2>2, <3>2
      <4> QED
        BY <1>5, <2>1, <2>2, <3>2, <4>1
    <3> QED
      BY <3>1, <3>2
  <2>3. CASE b # a
    BY <1>5, <2>1, <2>3
  <2> QED
    BY <2>2, <2>3
<1>9. Sound(order', v)
  <2> SUFFICES ASSUME NEW b \in Atomics
      PROVE  /\ v.seen[b] <= Len(order'[b])
             /\ \A i \in 1 .. Len(order'[b]) : i <= v.seen[b] => Leq(order'[b][i].view, v)
    BY DEF Sound
  <2>1. /\ view[t].seen[b] <= Len(order[b])
        /\ \A i \in 1 .. Len(order[b]) :
             i <= view[t].seen[b] => Leq(order[b][i].view, view[t])
    BY <1>2 DEF Sound
  <2>2. \A i \in 1 .. Len(order[b]) :
          /\ order[b][i].view \in Views
          /\ i <= view[t].seen[b] => Leq(order[b][i].view, v)
    BY <1>1, <1>2, <1>3, <2>1, Types, LeqOrder
  <2>3. CASE b = a
    <3>1. Leq(v, v)
      BY <1>3, LeqOrder
    <3>2. ASSUME NEW i \in 1 .. n + 1 PROVE Leq(order'[a][i].view, v)
      <4>1. CASE i = n + 1
        BY <1>5, <3>1, <4>1
      <4>2. CASE i # n + 1
        <5>1. i \in 1 .. n
          BY <1>2, <4>2
        <5> QED
          BY <1>5, <2>2, <2>3, <5>1
      <4> QED
        BY <4>1, <4>2
    <3> QED
      BY <1>2, <1>3, <1>5, <2>3, <3>2
  <2>4. CASE b # a
    BY <1>3, <1>5, <2>1, <2>2, <2>4
  <2> QED
    BY <2>3, <2>4
<1>10. ViewsInv'
  <2>1. \A u \in Threads : Sound(order', view'[u])
    BY <1>1, <1>6, <1>7, <1>8, <1>9 DEF TypeOK, ViewsInv
  <2>2. Sound(order', mutex_view')
    BY <1>1, <1>8 DEF TypeOK, ViewsInv, handles
  <2>3. ASSUME NEW b \in Atomics, NEW i \in 1 .. Len(order'[b])
        PROVE  Sound(order', order'[b][i].view)
    <3>1. CASE b = a /\ i = n + 1
      BY <1>5, <1>9, <3>1
    <3>2. CASE ~(b = a /\ i = n + 1)
      <4>1. i \in 1 .. Len(order[b]) /\ order'[b][i] = order[b][i]
        BY <1>2, <1>5, <3>2
      <4>2. order[b][i].view \in Views /\ Sound(order, order[b][i].view)
        BY <1>1, <4>1, Types DEF ViewsInv
      <4> QED
        BY <1>8, <4>1, <4>2
    <3> QED
      BY <3>1, <3>2
  <2> QED
    BY <2>1, <2>2, <2>3 DEF ViewsInv
<1> QED
  BY <1>2, <1>3, <1>5, <1>6, <1>7, <1>10

LEMMA PutPublishKeeps ==
  ASSUME OrderingInv, TypeOK', NEW p \in Producers, PutPublish(p)
  PROVE  OrderingInv'
<1> DEFINE n == Len(order["tail"])
<1>1. /\ TypeOK /\ EntriesInv /\ ViewsInv /\ OwnerInv /\ IndexInv /\ WindowInv
      /\ WritesInv /\ ReadsInv /\ p \in Threads /\ "tail" \in Atomics
  BY Names DEF OrderingInv
<1>2. /\ UNCHANGED <<buffer, written, reads, handles, index, scan>>
      /\ pc[p] = "publish" /\ pc'[p] = "idle"
      /\ \A t \in Threads \ {p} : pc'[t] = pc[t]
      /\ StoreRelease(p, "tail", index[p] + 1)
  BY <1>1 DEF PutPublish, Goto, TypeOK
<1>3. /\ producer = p /\ TailView = view[p] /\ TailView' = view'[p]
      /\ \A q \in Producers \ {p} : pc[q] = "detached"
  BY <1>1, <1>2, SoleHolder, Names DEF TailView, handles
<1>4. /\ Putting = {p} /\ Putting' = {}
      /\ \A q \in Producers : pc'[q] \notin {"scan", "write", "publish"}
  BY <1>2, <1>3, Names DEF Putting
<1>5. n \in Nat \ {0} /\ index[p] + 1 = n /\ view[p].seen["tail"] = n
  BY <1>1, <1>3, <1>4, PresentBound DEF IndexInv, RowsPut, OwnerInv
<1>6. /\ \A b \in Atomics \ {"tail"} : order'[b] = order[b]
      /\ Len(order'["tail"]) = n + 1
      /\ \A i \in 1 .. n : order'["tail"][i] = order["tail"][i]
      /\ order'["tail"][n + 1] = [val |-> n, view |-> view'[p]]
      /\ view'[p].clock = view[p].clock
      /\ view'[p].seen["tail"] = n + 1
      /\ \A b \in Atomics \ {"tail"} : view'[p].seen[b] = view[p].seen[b]
      /\ \A u \in Threads \ {p} : view'[u] = view[u]
      /\ \A u \in Threads : Leq(view[u], view'[u])
      /\ Leq(TailView, TailView') /\ \A h \in Heads : Leq(HeadView(h), HeadView(h)')
      /\ ViewsInv'
  <2>1. n \in Int /\ StoreRelease(p, "tail", n)
    BY <1>2, <1>5
  <2> QED
    BY <1>1, <1>2, <1>5, <2>1, Publish
<1>7. \A r \in Takers : r \in Threads /\ r # p /\ pc'[r] = pc[r] /\ view'[r] = view[r]
  BY <1>2, <1>6, Names
<1>8. \A h \in Heads : /\ h \in Atomics /\ order'[h] = order[h] /\ h # "tail"
                       /\ Present(h)' = Present(h) /\ Dropped(h)' = Dropped(h)
                       /\ Taken(h)' = Taken(h) /\ HeadView(h)' = HeadView(h)
  <2> SUFFICES ASSUME NEW h \in Heads
      PROVE  /\ h \in Atomics /\ order'[h] = order[h] /\ h # "tail"
             /\ Present(h)' = Present(h) /\ Dropped(h)' = Dropped(h)
             /\ Taken(h)' = Taken(h) /\ HeadView(h)' = HeadView(h)
    OBVIOUS
  <2>1. h \in Atomics /\ order'[h] = order[h] /\ h # "tail"
    BY <1>6, Names
  <2>2. Dropped(h)' = Dropped(h)
    BY <1>7, Names DEF Dropped
  <2>3. Present(h)' = Present(h)
    BY <2>1, <2>2 DEF Present
  <2>4. Taken(h)' = Taken(h)
    <3>1. (\E r \in Takers : HeadOf(r) = h /\ pc'[r] = "release")
            <=> (\E r \in Takers : HeadOf(r) = h /\ pc[r] = "release")
      BY <1>7
    <3> QED
      BY <2>3, <3>1 DEF Taken
  <2>5. HeadView(h)' = HeadView(h)
    BY <1>1, <1>2, <1>7, Names DEF HeadView, handles, TypeOK, Takers
  <2> QED
    BY <2>1, <2>2, <2>3, <2>4, <2>5
<1>9. RowsPut = n - 1 /\ RowsPut' = n /\ Written = n /\ Written' = n
  <2>1. RowsPut = n - 1 /\ RowsPut' = n
    BY <1>5, <1>6 DEF RowsPut
  <2>2. Written = RowsPut + 1 /\ Written' = RowsPut'
    BY <1>2, <1>4 DEF Written
  <2> QED
    BY <1>5, <2>1, <2>2
<1>10. EntriesInv'
  <2>1. Present("tail")' = n + 1 /\ Present("tail") = n
    BY <1>1, <1>5, <1>6, PresentBound DEF Present, Dropped
  <2>2. ASSUME NEW i \in 1 .. n + 1
        PROVE  order'["tail"][i].val = i - 1 /\ order'["tail"][i].view.seen["tail"] = i
    <3>1. CASE i = n + 1
      BY <1>5, <1>6, <3>1
    <3>2. CASE i # n + 1
      <4>1. i \in 1 .. n
        BY <1>5, <3>2
      <4>2. order["tail"][i].val = i - 1 /\ order["tail"][i].view.seen["tail"] = i
        BY <1>1, <1>5, <2>1, <4>1 DEF EntriesInv
      <4> QED
        BY <1>6, <4>1, <4>2
    <3> QED
      BY <3>1, <3>2
  <2>3. order'["tail"][1].view = NoView
    BY <1>1, <1>5, <1>6 DEF EntriesInv
  <2>4. \A b \in Atomics : b = "tail" \/ b \in Heads
    BY DEF Atomics
  <2> QED
    BY <1>1, <1>5, <1>6, <1>8, <2>1, <2>2, <2>3, <2>4 DEF EntriesInv
<1>11. OwnerInv'
  <2>1. /\ \A q \in Producers : pc'[q] # "detached" <=> producer' = q
        /\ \A c \in Consumers : pc'[c] # "detached" <=> consumer' = c
    BY <1>1, <1>2, <1>3, <1>7, Names DEF OwnerInv, Takers, handles
  <2>2. \A h \in Heads : HeadView(h)'.seen[h] = Len(order'[h])
    BY <1>1, <1>8 DEF OwnerInv
  <2> QED
    BY <1>3, <1>6, <2>1, <2>2 DEF OwnerInv
<1>12. IndexInv'
  <2>1. \A r \in Takers : pc'[r] \in {"check", "read", "release"} =>
          index'[r] = Present(HeadOf(r))' - 1
    BY <1>1, <1>2, <1>7, <1>8, Names DEF IndexInv
  <2> QED
    BY <1>4, <2>1 DEF IndexInv
<1>13. WindowInv'
  <2>1. ASSUME NEW h \in Heads, NEW i \in 1 .. Len(order'[h]),
               i >= TailView'.seen[h], i <= Present(h)'
        PROVE  RowsPut' <= i + Size - 2
    <3>1. i \in 1 .. Len(order[h]) /\ i >= TailView.seen[h] /\ i <= Present(h)
      BY <1>3, <1>6, <1>8, <2>1
    <3>2. h \notin scan
      BY <1>1, <1>2 DEF IndexInv
    <3> QED
      BY <1>1, <1>4, <1>5, <1>9, <3>1, <3>2 DEF WindowInv
  <2>2. \A h \in Heads : HeadView(h)'.seen["tail"] >= Present(h)'
    BY <1>1, <1>8 DEF WindowInv
  <2>3. \A r \in Takers : pc'[r] \in {"read", "release"} =>
          view'[r].seen["tail"] > Present(HeadOf(r))'
    BY <1>1, <1>7, <1>8, Names DEF WindowInv
  <2> QED
    BY <1>4, <2>1, <2>2, <2>3 DEF WindowInv
<1>14. WritesInv'
  <2>1. \A s \in Slots : Before(written'[s], TailView')
    <3>1. \A s \in Slots : Before(written[s], TailView) /\ written[s] \in [by : Threads, at : Nat]
      BY <1>1 DEF WritesInv, TypeOK
    <3>2. TailView \in Views /\ TailView' \in Views
      BY <1>1, <1>3 DEF TypeOK
    <3> QED
      BY <1>2, <1>6, <3>1, <3>2, StillBefore
  <2>2. ASSUME NEW k \in 0 .. RowsPut', Written' - Size <= k, k < Written'
        PROVE  /\ buffer'[Slot(k)] = k
               /\ k < RowsPut' => Before(written'[Slot(k)], order'["tail"][k + 2].view)
    <3>1. k \in 0 .. RowsPut /\ k \in Int
      BY <1>5, <1>9, <2>2
    <3>2. buffer'[Slot(k)] = k
      BY <1>1, <1>2, <1>9, <2>2, <3>1 DEF WritesInv
    <3>3. CASE k = RowsPut
      <4>1. Slot(k) \in Slots /\ k + 2 = n + 1
        BY <1>9, <1>5, <3>1, <3>3, SlotType
      <4>2. order'["tail"][k + 2].view = TailView'
        BY <1>3, <1>6, <4>1
      <4> QED
        BY <2>1, <3>2, <4>1, <4>2
    <3>4. CASE k # RowsPut
      <4>1. k < RowsPut /\ k + 2 \in 1 .. n
        BY <1>9, <1>5, <3>1, <3>4
      <4> QED
        BY <1>1, <1>2, <1>6, <1>9, <2>2, <3>1, <3>2, <4>1 DEF WritesInv
    <3> QED
      BY <3>3, <3>4
  <2> QED
    BY <2>1, <2>2 DEF WritesInv
<1>15. ReadsInv'
  BY <1>1, <1>2, <1>8, Names DEF ReadsInv
<1> QED
  BY <1>6, <1>10, <1>11, <1>12, <1>13, <1>14, <1>15 DEF OrderingInv

(* A reader stores its head: one more, or that it is not used any more.    *)
LEMMA HeadStore ==
  ASSUME OrderingInv, TypeOK', NEW r \in Takers, NEW x \in Int,
         UNCHANGED <<buffer, written, reads, handles, index, scan>>,
         StoreRelease(r, HeadOf(r), x),
         \A t \in Threads \ {r} : pc'[t] = pc[t],
         \/ pc[r] = "release" /\ pc'[r] = "idle" /\ x = Len(order[HeadOf(r)])
         \/ pc[r] = "idle" /\ pc'[r] = "detached" /\ x = Unused /\ r \in Observers
  PROVE  OrderingInv'
<1> DEFINE a == HeadOf(r)
           n == Len(order[a])
<1>1. /\ TypeOK /\ EntriesInv /\ ViewsInv /\ OwnerInv /\ IndexInv /\ WindowInv
      /\ WritesInv /\ ReadsInv /\ r \in Threads /\ a \in Heads /\ a \in Atomics
      /\ a # "tail"
  BY Names DEF OrderingInv
<1>2. /\ HeadView(a) = view[r] /\ ~Dropped(a)
      /\ \A q \in Takers \ {r} : HeadOf(q) = a => pc[q] = "detached"
      /\ \A q \in Takers \ {r} : HeadOf(q) = a => pc'[q] = "detached"
  BY <1>1, SoleHolder, Names
<1>3. HeadView(a)' = view'[r]
  <2>1. IF r \in Observers THEN a = r ELSE a = "head" /\ consumer = r
    BY <1>1, <1>2, Names DEF OwnerInv, Takers
  <2> QED
    BY <2>1, Names DEF HeadView, handles
<1>4. n \in Nat \ {0} /\ Present(a) = n /\ view[r].seen[a] = n
  BY <1>1, <1>2, PresentBound DEF OwnerInv
<1>5. /\ \A b \in Atomics \ {a} : order'[b] = order[b]
      /\ Len(order'[a]) = n + 1
      /\ \A i \in 1 .. n : order'[a][i] = order[a][i]
      /\ order'[a][n + 1] = [val |-> x, view |-> view'[r]]
      /\ view'[r].clock = view[r].clock
      /\ view'[r].seen[a] = n + 1
      /\ \A b \in Atomics \ {a} : view'[r].seen[b] = view[r].seen[b]
      /\ \A u \in Threads \ {r} : view'[u] = view[u]
      /\ \A u \in Threads : Leq(view[u], view'[u])
      /\ Leq(TailView, TailView') /\ \A h \in Heads : Leq(HeadView(h), HeadView(h)')
      /\ ViewsInv'
  BY <1>1, <1>4, Publish
<1> HIDE DEF n
<1>6. /\ \A p \in Producers : p \in Threads /\ p # r /\ pc'[p] = pc[p] /\ view'[p] = view[p]
      /\ Putting' = Putting
      /\ TailView' = TailView
      /\ order'["tail"] = order["tail"] /\ RowsPut' = RowsPut /\ Written' = Written
  <2>1. \A p \in Producers : p \in Threads /\ p # r /\ pc'[p] = pc[p] /\ view'[p] = view[p]
    BY <1>5, Names
  <2>2. Putting' = Putting
    BY <2>1 DEF Putting
  <2>3. TailView' = TailView
    BY <1>1, <2>1 DEF TailView, handles, TypeOK
  <2>4. order'["tail"] = order["tail"] /\ RowsPut' = RowsPut
    BY <1>1, <1>5, Names DEF RowsPut
  <2>5. Written' = Written
    BY <2>1, <2>4 DEF Written
  <2> QED
    BY <2>1, <2>2, <2>3, <2>4, <2>5
<1>7. IF Dropped(a)' THEN x = Unused /\ Present(a)' = n
      ELSE pc'[r] = "idle" /\ x = n /\ Present(a)' = n + 1
  <2>1. r \in Observers => a = r
    BY Names
  <2>2. a \in Observers => a = r
    BY Names DEF HeadOf
  <2>3. Dropped(a)' <=> pc'[r] = "detached"
    BY <1>1, <2>1, <2>2, Names DEF Dropped
  <2>4. Present(a)' = IF Dropped(a)' THEN n ELSE n + 1
    BY <1>4, <1>5 DEF Present
  <2> QED
    BY <2>3, <2>4 DEF n
<1>8. \A h \in Heads \ {a} :
        /\ h \in Atomics /\ order'[h] = order[h]
        /\ Present(h)' = Present(h) /\ Dropped(h)' = Dropped(h)
        /\ Taken(h)' = Taken(h) /\ HeadView(h)' = HeadView(h)
  <2> SUFFICES ASSUME NEW h \in Heads \ {a}
      PROVE  /\ h \in Atomics /\ order'[h] = order[h]
             /\ Present(h)' = Present(h) /\ Dropped(h)' = Dropped(h)
             /\ Taken(h)' = Taken(h) /\ HeadView(h)' = HeadView(h)
    OBVIOUS
  <2>1. h \in Atomics /\ order'[h] = order[h]
    BY <1>5, Names
  <2>2. h \in Observers => h # r /\ h \in Threads
    BY Names
  <2>3. Dropped(h)' = Dropped(h)
    BY <2>2 DEF Dropped
  <2>4. Present(h)' = Present(h)
    BY <2>1, <2>3 DEF Present
  <2>5. Taken(h)' = Taken(h)
    <3>1. (\E q \in Takers : HeadOf(q) = h /\ pc'[q] = "release")
            <=> (\E q \in Takers : HeadOf(q) = h /\ pc[q] = "release")
      BY Names
    <3> QED
      BY <2>4, <3>1 DEF Taken
  <2>6. HeadView(h)' = HeadView(h)
    <3>1. CASE h \in Observers
      BY <1>5, <2>2, <3>1 DEF HeadView
    <3>2. CASE h \notin Observers
      <4>1. h = "head" /\ r \in Observers
        BY <3>2, Names DEF Heads, HeadOf, Takers
      <4>2. consumer \in Consumers \cup {Nobody} /\ (consumer # Nobody => consumer # r)
        BY <1>1, <4>1, Names DEF TypeOK
      <4> QED
        BY <1>1, <1>5, <3>2, <4>2, Names DEF HeadView, handles, Takers
    <3> QED
      BY <3>1, <3>2
  <2> QED
    BY <2>1, <2>3, <2>4, <2>5, <2>6
<1>9. Taken(a)' = Taken(a)
  <2>1. \A q \in Takers : HeadOf(q) = a => pc'[q] # "release"
    BY <1>2
  <2>2. Taken(a)' = Present(a)' - 1
    BY <2>1 DEF Taken
  <2>3. CASE pc[r] = "release"
    <3>1. Taken(a) = n /\ ~Dropped(a)'
      BY <1>4, <2>3, Names DEF Taken, Dropped, HeadOf
    <3> QED
      BY <1>4, <1>7, <2>2, <3>1
  <2>4. CASE pc[r] = "idle"
    <3>1. \A q \in Takers : HeadOf(q) = a => pc[q] # "release"
      BY <1>2, <2>4
    <3>2. Taken(a) = n - 1 /\ Dropped(a)'
      BY <1>4, <2>4, <3>1, Names DEF Taken, Dropped
    <3> QED
      BY <1>7, <2>2, <3>2
  <2> QED
    BY <2>3, <2>4
<1>10. EntriesInv'
  <2>1. ASSUME NEW i \in 1 .. n + 1
        PROVE  /\ order'[a][i].val = IF i <= Present(a)' THEN i - 1 ELSE Unused
               /\ order'[a][i].view.seen[a] = i
    <3>1. CASE i = n + 1
      BY <1>4, <1>5, <1>7, <3>1
    <3>2. CASE i # n + 1
      <4>1. i \in 1 .. n /\ i <= Present(a)' /\ i <= Present(a)
        BY <1>4, <1>7, <3>2
      <4>2. order[a][i].val = i - 1 /\ order[a][i].view.seen[a] = i
        BY <1>1, <4>1 DEF EntriesInv, n
      <4> QED
        BY <1>5, <4>1, <4>2
    <3> QED
      BY <3>1, <3>2
  <2>2. order'[a][1].view = NoView /\ Present(a)' >= 1
    BY <1>1, <1>4, <1>5, <1>7 DEF EntriesInv
  <2>3. \A b \in Atomics \ {a} : order'[b] = order[b] /\ Present(b)' = Present(b)
    <3> TAKE b \in Atomics \ {a}
    <3>1. CASE b = "tail"
      BY <1>5, <3>1, Names DEF Present, Dropped
    <3>2. CASE b # "tail"
      BY <1>8, <3>2 DEF Atomics
    <3> QED
      BY <3>1, <3>2
  <2> QED
    BY <1>1, <1>5, <2>1, <2>2, <2>3 DEF EntriesInv
<1>11. OwnerInv'
  <2>1. \A q \in Producers : pc'[q] # "detached" <=> producer' = q
    BY <1>1, <1>6 DEF OwnerInv, handles
  <2>2. \A c \in Consumers : pc'[c] # "detached" <=> consumer' = c
    BY <1>1, Names DEF OwnerInv, Takers, handles
  <2>3. \A h \in Heads : HeadView(h)'.seen[h] = Len(order'[h])
    BY <1>1, <1>3, <1>5, <1>8 DEF OwnerInv
  <2>4. TailView'.seen["tail"] = Len(order'["tail"])
    BY <1>1, <1>6 DEF OwnerInv
  <2> QED
    BY <2>1, <2>2, <2>3, <2>4 DEF OwnerInv
<1>12. IndexInv'
  <2>1. ASSUME NEW q \in Takers, pc'[q] \in {"check", "read", "release"}
        PROVE  index'[q] = Present(HeadOf(q))' - 1
    <3>1. HeadOf(q) \in Heads \ {a} /\ q \in Threads \ {r}
      BY <1>2, <2>1, Names
    <3> QED
      BY <1>1, <1>8, <2>1, <3>1 DEF IndexInv
  <2>2. \A p \in Producers : pc'[p] \in {"write", "publish"} => scan' = {}
    BY <1>1, <1>6 DEF IndexInv
  <2> QED
    BY <1>1, <1>6, <2>1, <2>2 DEF IndexInv
<1>13. WindowInv'
  <2>1. ASSUME NEW h \in Heads, NEW i \in 1 .. Len(order'[h]),
               i >= TailView'.seen[h], i <= Present(h)'
        PROVE  /\ RowsPut' <= i + Size - 2
               /\ (Putting' # {} /\ h \notin scan') => RowsPut' + 1 <= i + Size - 2
    <3>1. CASE h = a /\ i = n + 1
      <4>1. TailView.seen[a] <= n
        BY <1>1, OwnerSound DEF Sound, n
      <4>2. n \in 1 .. Len(order[a]) /\ n >= TailView.seen[a] /\ n <= Present(a)
        BY <1>1, <1>4, <4>1, Types DEF Views, n
      <4>3. /\ RowsPut <= n + Size - 2
            /\ (Putting # {} /\ a \notin scan) => RowsPut + 1 <= n + Size - 2
        BY <1>1, <4>2 DEF WindowInv
      <4>4. RowsPut \in Int /\ Size \in Nat
        BY <1>1, Types, OrderingAssumption, Names DEF RowsPut
      <4> QED
        BY <1>4, <1>6, <3>1, <4>3, <4>4
    <3>2. CASE h = a /\ i # n + 1
      <4>1. i \in 1 .. Len(order[a]) /\ i <= Present(a)
        BY <1>4, <1>5, <2>1, <3>2 DEF n
      <4> QED
        BY <1>1, <1>6, <2>1, <3>2, <4>1 DEF WindowInv
    <3>3. CASE h # a
      BY <1>1, <1>6, <1>8, <2>1, <3>3 DEF WindowInv
    <3> QED
      BY <3>1, <3>2, <3>3
  <2>2. ASSUME NEW h \in Heads
        PROVE  HeadView(h)'.seen["tail"] >= Present(h)'
    <3>1. CASE h = a
      <4>1. view[r].seen["tail"] >= n /\ (pc[r] = "release" => view[r].seen["tail"] > n)
        <5>1. HeadView(a).seen["tail"] >= Present(a)
          BY <1>1 DEF WindowInv
        <5>2. pc[r] = "release" => view[r].seen["tail"] > Present(a)
          BY <1>1 DEF WindowInv
        <5> QED
          BY <1>2, <1>4, <5>1, <5>2
      <4>2. \/ Present(a)' = n
            \/ pc[r] = "release" /\ Present(a)' = n + 1
        <5>1. CASE Dropped(a)'
          BY <1>7, <5>1
        <5>2. CASE ~Dropped(a)'
          BY <1>7, <5>2
        <5> QED
          BY <5>1, <5>2
      <4>3. view'[r].seen["tail"] = view[r].seen["tail"] /\ view[r].seen["tail"] \in Nat
        BY <1>1, <1>5, Names DEF TypeOK, Views
      <4> QED
        BY <1>3, <1>4, <3>1, <4>1, <4>2, <4>3
    <3>2. CASE h # a
      BY <1>1, <1>8, <3>2 DEF WindowInv
    <3> QED
      BY <3>1, <3>2
  <2>3. ASSUME NEW q \in Takers, pc'[q] \in {"read", "release"}
        PROVE  view'[q].seen["tail"] > Present(HeadOf(q))'
    <3>1. HeadOf(q) \in Heads \ {a} /\ q \in Threads \ {r}
      BY <1>2, <2>3, Names
    <3> QED
      BY <1>1, <1>5, <1>8, <2>3, <3>1 DEF WindowInv
  <2> QED
    BY <2>1, <2>2, <2>3 DEF WindowInv
<1>14. WritesInv'
  BY <1>5, <1>6, WritesStay
<1>15. ReadsInv'
  <2> SUFFICES ASSUME NEW q \in Takers, NEW s \in Slots
      PROVE  /\ reads'[s][q] <= HeadView(HeadOf(q))'.clock[q]
             /\ \A i \in 1 .. Len(order'[HeadOf(q)]) :
                  \/ reads'[s][q] <= order'[HeadOf(q)][i].view.clock[q]
                  \/ \E k \in i - 1 .. Taken(HeadOf(q))' - 1 : Slot(k) = s
    BY DEF ReadsInv
  <2>1. /\ reads'[s][q] = reads[s][q]
        /\ reads[s][q] <= HeadView(HeadOf(q)).clock[q]
        /\ \A i \in 1 .. Len(order[HeadOf(q)]) :
             \/ reads[s][q] <= order[HeadOf(q)][i].view.clock[q]
             \/ \E k \in i - 1 .. Taken(HeadOf(q)) - 1 : Slot(k) = s
    BY <1>1 DEF ReadsInv
  <2>2. CASE HeadOf(q) = a
    <3>1. reads[s][q] <= view'[r].clock[q]
      BY <1>2, <1>5, <2>1, <2>2
    <3>2. ASSUME NEW i \in 1 .. n + 1
          PROVE  \/ reads'[s][q] <= order'[a][i].view.clock[q]
                 \/ \E k \in i - 1 .. Taken(a)' - 1 : Slot(k) = s
      <4>1. CASE i = n + 1
        BY <1>5, <2>1, <3>1, <4>1
      <4>2. CASE i # n + 1
        <5>1. i \in 1 .. n
          BY <1>4, <4>2
        <5> QED
          BY <1>5, <1>9, <2>1, <2>2, <5>1 DEF n
      <4> QED
        BY <4>1, <4>2
    <3> QED
      BY <1>3, <1>5, <2>1, <2>2, <3>1, <3>2
  <2>3. CASE HeadOf(q) # a
    <3>1. HeadOf(q) \in Heads \ {a}
      BY <2>3, Names
    <3> QED
      BY <1>8, <2>1, <3>1
  <2> QED
    BY <2>2, <2>3
<1> QED
  BY <1>5, <1>10, <1>11, <1>12, <1>13, <1>14, <1>15 DEF OrderingInv

LEMMA TakeReleaseKeeps ==
  ASSUME OrderingInv, TypeOK', NEW r \in Takers, TakeRelease(r)
  PROVE  OrderingInv'
<1> DEFINE a == HeadOf(r)
<1>1. /\ TypeOK /\ EntriesInv /\ OwnerInv /\ IndexInv
      /\ r \in Threads /\ a \in Heads /\ a \in Atomics
  BY Names DEF OrderingInv
<1>2. /\ UNCHANGED <<buffer, written, reads, handles, index, scan>>
      /\ pc[r] = "release" /\ pc'[r] = "idle"
      /\ \A t \in Threads \ {r} : pc'[t] = pc[t]
      /\ StoreRelease(r, a, index[r] + 1)
  BY <1>1 DEF TakeRelease, Goto, TypeOK
<1>3. index[r] + 1 = Len(order[a]) /\ Len(order[a]) \in Int
  BY <1>1, <1>2, SoleHolder, PresentBound DEF IndexInv
<1>4. StoreRelease(r, a, Len(order[a]))
  BY <1>2, <1>3
<1> QED
  BY <1>2, <1>3, <1>4, HeadStore

LEMMA DropObserverKeeps ==
  ASSUME OrderingInv, TypeOK', NEW o \in Observers, DropObserver(o)
  PROVE  OrderingInv'
<1>1. TypeOK /\ o \in Threads /\ o \in Takers /\ HeadOf(o) = o
  BY Names DEF OrderingInv
<1>2. /\ UNCHANGED <<buffer, written, reads, handles, index, scan>>
      /\ pc[o] = "idle" /\ pc'[o] = "detached"
      /\ \A t \in Threads \ {o} : pc'[t] = pc[t]
      /\ StoreRelease(o, HeadOf(o), Unused) /\ Unused \in Int
  BY <1>1 DEF DropObserver, Goto, TypeOK, Unused
<1> QED
  BY <1>1, <1>2, HeadStore

(***************************************************************************)
(* The invariant.                                                          *)
(***************************************************************************)
LEMMA OrderingInit == Init => OrderingInv
<1> SUFFICES ASSUME Init PROVE OrderingInv
  OBVIOUS
<1>1. TypeOK
  BY TypeInit
<1>2. /\ \A a \in Atomics : /\ Len(order[a]) = 1 /\ order[a][1].val = 0
                            /\ order[a][1].view = NoView
      /\ \A t \in Threads : view[t] = NoView /\ pc[t] \in {"idle", "detached"}
      /\ mutex_view = NoView /\ producer = Nobody /\ consumer = Nobody /\ scan = {}
      /\ \A t \in Threads : pc[t] = "idle" <=> t \in Observers
  BY DEF Init
<1>3. /\ \A t \in Threads : NoView.clock[t] = 0
      /\ \A a \in Atomics : NoView.seen[a] = 1
  BY DEF NoView
<1>4. \A a \in Atomics : ~Dropped(a) /\ Present(a) = 1
  BY <1>2, Names DEF Dropped, Present
<1>5. EntriesInv
  BY <1>2, <1>3, <1>4 DEF EntriesInv
<1>6. Leq(NoView, NoView)
  BY LeqOrder, NoViewType
<1>7. Sound(order, NoView)
  BY <1>2, <1>3, <1>6 DEF Sound
<1>8. ViewsInv
  BY <1>2, <1>7 DEF ViewsInv
<1>9. TailView = NoView /\ \A a \in Heads : HeadView(a) = NoView
  BY <1>2, Names DEF TailView, HeadView, Threads, Takers
<1>10. OwnerInv
  BY <1>2, <1>3, <1>9, Names DEF OwnerInv, Takers
<1>11. IndexInv
  BY <1>2, Names DEF IndexInv, Putting
<1>12. RowsPut = 0 /\ Written = 0
  BY <1>2, Names DEF RowsPut, Written
<1>13. WindowInv
  <2>1. \A r \in Takers : pc[r] \notin {"read", "release"}
    BY <1>2, Names
  <2>2. Putting = {}
    BY <1>2, Names DEF Putting
  <2> QED
    BY <1>2, <1>3, <1>4, <1>9, <1>12, <2>1, <2>2, Names, OrderingAssumption DEF WindowInv
<1>14. WritesInv
  <2>1. \A s \in Slots : written[s].at = 0 /\ written[s].by \in Threads
    BY <1>1 DEF Init, TypeOK
  <2>2. \A s \in Slots : Before(written[s], TailView)
    BY <1>3, <1>9, <2>1 DEF Before
  <2> QED
    BY <1>12, <2>2 DEF WritesInv
<1>15. ReadsInv
  <2>1. \A r \in Takers, s \in Slots : reads[s][r] = 0
    BY Names DEF Init
  <2> QED
    BY <1>2, <1>3, <1>9, <2>1, Names DEF ReadsInv
<1> QED
  BY <1>1, <1>5, <1>8, <1>10, <1>11, <1>13, <1>14, <1>15 DEF OrderingInv

LEMMA OrderingStep == OrderingInv /\ [Next]_vars => OrderingInv'
<1> SUFFICES ASSUME OrderingInv, [Next]_vars PROVE OrderingInv'
  OBVIOUS
<1>1. TypeOK'
  BY TypeStep DEF OrderingInv
<1>2. CASE UNCHANGED vars
  <2>1. /\ UNCHANGED <<TailView, Putting, RowsPut, Written>>
        /\ \A a \in Heads : UNCHANGED HeadView(a)
        /\ \A a \in Heads : UNCHANGED Taken(a)
        /\ \A a \in Atomics : UNCHANGED <<Present(a), Dropped(a)>>
    BY <1>2, Names DEF vars, TailView, HeadView, Putting, RowsPut, Written, Taken,
                       Present, Dropped
  <2>2. EntriesInv' /\ ViewsInv' /\ OwnerInv' /\ IndexInv'
    BY <1>2, <2>1, Names DEF OrderingInv, vars, EntriesInv, ViewsInv, OwnerInv, IndexInv
  <2>3. WindowInv' /\ WritesInv' /\ ReadsInv'
    BY <1>2, <2>1, Names DEF OrderingInv, vars, WindowInv, WritesInv, ReadsInv
  <2> QED
    BY <1>1, <2>2, <2>3 DEF OrderingInv
<1>3. ASSUME NEW p \in Producers, AttachProducer(p) \/ Put(p) \/ Drop(p)
      PROVE  OrderingInv'
  BY <1>1, <1>3, Names, AttachProducerKeeps, DropKeeps, PutTailKeeps, PutScanKeeps,
     PutWriteKeeps, PutPublishKeeps DEF Put
<1>4. ASSUME NEW c \in Consumers, AttachConsumer(c) \/ Drop(c)
      PROVE  OrderingInv'
  BY <1>1, <1>4, Names, AttachConsumerKeeps, DropKeeps DEF Takers
<1>5. ASSUME NEW r \in Takers, Take(r)
      PROVE  OrderingInv'
  BY <1>1, <1>5, TakeHeadKeeps, TakeCheckKeeps, TakeReadKeeps, TakeReleaseKeeps DEF Take
<1>6. ASSUME NEW o \in Observers, DropObserver(o)
      PROVE  OrderingInv'
  BY <1>1, <1>6, DropObserverKeeps
<1> QED
  BY <1>2, <1>3, <1>4, <1>5, <1>6 DEF Next

(* The views cover what they have to, in every state: the orderings of the *)
(* accesses to tail and heads and the mutex are enough, for any number of  *)
(* threads, rows and elements (spsc.rs:275-420).                           *)
THEOREM OrderingCorrect == Spec => []OrderingInv
<1>1. OrderingInv /\ UNCHANGED vars => OrderingInv'
  BY OrderingStep
<1> QED
  BY OrderingInit, OrderingStep, PTL DEF Spec

(***************************************************************************)
(* What follows from it.                                                   *)
(***************************************************************************)

(* The rows that a head's readers have read are rows that were put.        *)
LEMMA TakenBound ==
  ASSUME OrderingInv, NEW a \in Heads
  PROVE  /\ Taken(a) \in Int /\ Taken(a) <= Present(a) /\ Taken(a) <= RowsPut
         /\ Present(a) \in 1 .. Len(order[a]) /\ RowsPut \in Nat
<1>1. /\ TypeOK /\ EntriesInv /\ ViewsInv /\ OwnerInv /\ WindowInv
      /\ a \in Atomics /\ "tail" \in Atomics
  BY Names DEF OrderingInv
<1>2. /\ Present(a) \in 1 .. Len(order[a]) /\ Len(order[a]) \in Nat
      /\ Len(order["tail"]) \in Nat \ {0} /\ RowsPut \in Nat
  BY <1>1, PresentBound DEF RowsPut
<1>3. CASE \E r \in Takers : HeadOf(r) = a /\ pc[r] = "release"
  <2>1. PICK r \in Takers : HeadOf(r) = a /\ pc[r] = "release"
    BY <1>3
  <2>2. view[r].seen["tail"] > Present(a) /\ r \in Threads
    BY <1>1, <2>1, Names DEF WindowInv
  <2>3. view[r].seen["tail"] <= Len(order["tail"]) /\ view[r].seen["tail"] \in Nat
    BY <1>1, <2>2 DEF ViewsInv, Sound, TypeOK, Views
  <2> QED
    BY <1>2, <1>3, <2>2, <2>3 DEF Taken, RowsPut
<1>4. CASE ~ \E r \in Takers : HeadOf(r) = a /\ pc[r] = "release"
  <2>1. HeadView(a).seen["tail"] >= Present(a)
    BY <1>1 DEF WindowInv
  <2>2. HeadView(a).seen["tail"] <= Len(order["tail"]) /\ HeadView(a) \in Views
    BY <1>1, OwnerSound, Types DEF Sound
  <2>3. HeadView(a).seen["tail"] \in Nat
    BY <1>1, <2>2 DEF Views
  <2> QED
    BY <1>2, <1>4, <2>1, <2>2, <2>3 DEF Taken, RowsPut
<1> QED
  BY <1>2, <1>3, <1>4

(* Before a producer writes an element it has joined, from every head, a   *)
(* view that covers the last read of the element.                          *)
LEMMA WriterKnowsReads ==
  ASSUME OrderingInv, NEW p \in Producers, pc[p] = "write", NEW r \in Takers
  PROVE  Before([by |-> r, at |-> reads[Slot(index[p])][r]], view[p])
<1> DEFINE a == HeadOf(r)
           s == Slot(index[p])
           i == view[p].seen[a]
<1>1. /\ TypeOK /\ EntriesInv /\ ViewsInv /\ OwnerInv /\ IndexInv /\ WindowInv /\ ReadsInv
      /\ p \in Threads /\ r \in Threads /\ a \in Heads /\ a \in Atomics
  BY Names DEF OrderingInv
<1>2. /\ TailView = view[p] /\ Putting # {} /\ scan = {} /\ index[p] = RowsPut
      /\ index[p] \in Int /\ s \in Slots
  BY <1>1, SoleHolder, SlotType DEF IndexInv, Putting, TypeOK
<1>3. view[p] \in Views /\ Sound(order, view[p]) /\ i \in Nat \ {0} /\ i <= Len(order[a])
  BY <1>1 DEF TypeOK, ViewsInv, Views, Sound
<1>4. i \in 1 .. Len(order[a]) /\ Len(order[a]) \in Nat
  BY <1>1, <1>3, Types
<1>5. Leq(order[a][i].view, view[p]) /\ order[a][i].view \in Views
  BY <1>1, <1>3, <1>4, Types DEF Sound
<1>6. reads[s][r] \in Nat
  BY <1>1, <1>2 DEF TypeOK
<1> HIDE DEF a, s, i
<1>7. \/ reads[s][r] <= order[a][i].view.clock[r]
      \/ \E k \in i - 1 .. Taken(a) - 1 : Slot(k) = s
  BY <1>1, <1>2, <1>4 DEF ReadsInv, a
<1>8. ~ \E k \in i - 1 .. Taken(a) - 1 : Slot(k) = s
  <2> SUFFICES ASSUME NEW k \in i - 1 .. Taken(a) - 1, Slot(k) = s PROVE FALSE
    OBVIOUS
  <2>1. /\ Taken(a) \in Int /\ Taken(a) <= Present(a) /\ Taken(a) <= RowsPut
        /\ Present(a) \in Nat /\ RowsPut \in Nat
    BY <1>1, <1>4, TakenBound
  <2>2. k \in Int /\ i <= Present(a) /\ k >= i - 1 /\ k < RowsPut
    BY <1>3, <2>1
  <2>3. RowsPut + 1 <= i + Size - 2
    BY <1>1, <1>2, <1>4, <2>2 DEF WindowInv, i
  <2>4. RowsPut < k + Size
    BY <1>3, <2>1, <2>2, <2>3, OrderingAssumption
  <2> QED
    BY <1>2, <2>1, <2>2, <2>4, SlotsApart DEF s
<1>9. reads[s][r] <= view[p].clock[r]
  BY <1>1, <1>3, <1>5, <1>6, <1>7, <1>8 DEF Leq, Views
<1> QED
  BY <1>9 DEF Before, s

(* A reader that is about to read has joined the view with which its row   *)
(* was published, and the row is still in place.                           *)
LEMMA ReaderKnowsWrite ==
  ASSUME OrderingInv, NEW r \in Takers, pc[r] = "read"
  PROVE  /\ Before(written[Slot(index[r])], view[r])
         /\ buffer[Slot(index[r])] = index[r]
<1> DEFINE a == HeadOf(r)
           k == index[r]
<1>1. /\ TypeOK /\ EntriesInv /\ ViewsInv /\ OwnerInv /\ IndexInv /\ WindowInv /\ WritesInv
      /\ r \in Threads /\ a \in Heads /\ a \in Atomics /\ "tail" \in Atomics
  BY Names DEF OrderingInv
<1>2. /\ HeadView(a) = view[r] /\ ~Dropped(a)
      /\ Present(a) = Len(order[a]) /\ Present(a) \in Nat \ {0} /\ k = Present(a) - 1
      /\ RowsPut \in Nat /\ Len(order["tail"]) = RowsPut + 1
  BY <1>1, SoleHolder, PresentBound DEF IndexInv, RowsPut
<1>3. /\ view[r] \in Views /\ Sound(order, view[r])
      /\ view[r].seen["tail"] \in Nat /\ view[r].seen["tail"] > Present(a)
      /\ view[r].seen["tail"] <= RowsPut + 1
  <2>1. view[r] \in Views /\ Sound(order, view[r])
    BY <1>1 DEF TypeOK, ViewsInv
  <2>2. view[r].seen["tail"] > Present(a)
    BY <1>1 DEF WindowInv
  <2>3. view[r].seen["tail"] \in Nat
    BY <1>1, <2>1 DEF Views
  <2>4. view[r].seen["tail"] <= Len(order["tail"])
    BY <1>1, <2>1 DEF Sound
  <2> QED
    BY <1>2, <2>1, <2>2, <2>3, <2>4
<1>4. k \in 0 .. RowsPut /\ k < RowsPut /\ k + 2 \in 1 .. Len(order["tail"])
      /\ k + 2 <= view[r].seen["tail"]
  BY <1>2, <1>3
<1>5. Written \in {RowsPut, RowsPut + 1} /\ Written - Size <= k
  <2>0. Size \in Nat
    BY OrderingAssumption
  <2>1. TailView.seen[a] <= Present(a) /\ Present(a) \in 1 .. Len(order[a])
    BY <1>1, <1>2, OwnerSound DEF Sound
  <2>2. Present(a) >= TailView.seen[a]
    BY <1>1, <1>2, <2>1, Types DEF Views
  <2>3. /\ RowsPut <= Present(a) + Size - 2
        /\ (Putting # {} /\ a \notin scan) => RowsPut + 1 <= Present(a) + Size - 2
    BY <1>1, <1>2, <2>1, <2>2 DEF WindowInv
  <2>4. CASE \E p \in Producers : pc[p] = "publish"
    <3>1. Putting # {} /\ scan = {}
      BY <1>1, <2>4 DEF Putting, IndexInv
    <3>2. Written = RowsPut + 1
      BY <2>4 DEF Written
    <3>3. RowsPut + 1 <= Present(a) + Size - 2
      BY <1>1, <2>3, <3>1
    <3> QED
      BY <1>2, <2>0, <3>2, <3>3
  <2>5. CASE ~ \E p \in Producers : pc[p] = "publish"
    <3>1. Written = RowsPut
      BY <2>5 DEF Written
    <3>2. RowsPut <= Present(a) + Size - 2
      BY <2>3
    <3> QED
      BY <1>2, <2>0, <3>1, <3>2
  <2> QED
    BY <2>4, <2>5
<1> HIDE DEF a, k
<1>6. buffer[Slot(k)] = k /\ Before(written[Slot(k)], order["tail"][k + 2].view)
  BY <1>1, <1>2, <1>4, <1>5 DEF WritesInv
<1>7. Leq(order["tail"][k + 2].view, view[r]) /\ order["tail"][k + 2].view \in Views
  BY <1>1, <1>3, <1>4, Types DEF Sound
<1>8. Slot(k) \in Slots /\ written[Slot(k)] \in [by : Threads, at : Nat]
  BY <1>1, <1>4, SlotType DEF TypeOK
<1>9. Before(written[Slot(k)], view[r])
  BY <1>3, <1>6, <1>7, <1>8, StillBefore
<1> QED
  BY <1>6, <1>9 DEF k

(* Accesses to an element are ordered: NoDataRace, the claim of the        *)
(* comments on the orderings (spsc.rs:290-291, 405-406).                   *)
THEOREM NoDataRaceCorrect == Spec => []NoDataRace
<1>1. OrderingInv => NoDataRace
  <2> SUFFICES ASSUME OrderingInv, NEW t \in Threads
      PROVE  /\ pc[t] \in {"read", "write"} => Before(written[Slot(index[t])], view[t])
             /\ pc[t] = "write" => \A r \in Takers :
                  Before([by |-> r, at |-> reads[Slot(index[t])][r]], view[t])
    BY DEF NoDataRace
  <2>1. TypeOK /\ OwnerInv /\ WritesInv
    BY DEF OrderingInv
  <2>2. CASE t \in Producers
    <3>1. pc[t] # "read" /\ Slot(index[t]) \in Slots
      BY <2>1, <2>2, SlotType DEF TypeOK, PutLabels
    <3>2. pc[t] = "write" => TailView = view[t]
      BY <2>1, <2>2, SoleHolder
    <3> QED
      BY <2>1, <2>2, <3>1, <3>2, WriterKnowsReads DEF WritesInv
  <2>3. CASE t \notin Producers
    <3>1. t \in Takers /\ pc[t] # "write"
      BY <2>1, <2>3 DEF TypeOK, TakeLabels, Threads
    <3> QED
      BY <3>1, ReaderKnowsWrite
  <2> QED
    BY <2>2, <2>3
<1> QED
  BY <1>1, OrderingCorrect, PTL

(* What a reader copies is the row of its index (spsc.rs:393-401).         *)
THEOREM ReadsOwnRowCorrect == Spec => []ReadsOwnRow
<1>1. OrderingInv => ReadsOwnRow
  BY ReaderKnowsWrite DEF ReadsOwnRow
<1> QED
  BY <1>1, OrderingCorrect, PTL

(* The relaxed load of the own index returns the last value stored, also   *)
(* by another thread that had the handle (spsc.rs:287, 385).               *)
THEOREM OwnIndexCorrect == Spec => []OwnIndexExact
<1>1. OrderingInv => OwnIndexExact
  <2> SUFFICES ASSUME OrderingInv, NEW t \in Threads,
                      pc[t] \in {"scan", "write", "publish", "check", "read", "release"}
      PROVE  LET a == IF t \in Producers THEN "tail" ELSE HeadOf(t)
             IN  index[t] = order[a][Len(order[a])].val
    BY DEF OwnIndexExact
  <2>1. TypeOK /\ EntriesInv /\ OwnerInv /\ IndexInv
    BY DEF OrderingInv
  <2>2. CASE t \in Producers
    <3>1. pc[t] \in PutLabels
      BY <2>1, <2>2 DEF TypeOK
    <3>2. index[t] = RowsPut
      BY <2>1, <2>2, <3>1 DEF IndexInv, Putting, PutLabels
    <3>3. Present("tail") = Len(order["tail"]) /\ Len(order["tail"]) \in Nat \ {0}
      BY <2>1, PresentBound, Names DEF Dropped
    <3>4. order["tail"][Len(order["tail"])].val = RowsPut
      BY <2>1, <3>3, Names DEF EntriesInv, RowsPut
    <3> QED
      BY <2>2, <3>2, <3>4
  <2>3. CASE t \notin Producers
    <3>1. t \in Takers /\ HeadOf(t) \in Atomics
      BY <2>3, Names DEF Threads
    <3>2. pc[t] \in {"check", "read", "release"}
      BY <2>1, <2>3 DEF TypeOK, TakeLabels
    <3>3. index[t] = Present(HeadOf(t)) - 1 /\ ~Dropped(HeadOf(t))
      BY <2>1, <3>1, <3>2, SoleHolder DEF IndexInv
    <3>4. /\ Present(HeadOf(t)) = Len(order[HeadOf(t)])
          /\ Len(order[HeadOf(t)]) \in Nat \ {0}
      BY <2>1, <3>1, <3>3, PresentBound
    <3>5. order[HeadOf(t)][Len(order[HeadOf(t)])].val = Present(HeadOf(t)) - 1
      BY <2>1, <3>1, <3>4 DEF EntriesInv
    <3> QED
      BY <2>3, <3>3, <3>5
  <2> QED
    BY <2>2, <2>3
<1> QED
  BY <1>1, OrderingCorrect, PTL
=============================================================================
