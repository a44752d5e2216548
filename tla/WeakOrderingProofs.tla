------------------------- MODULE WeakOrderingProofs -------------------------
(***************************************************************************)
(* Theorems about WeakOrdering, for every size of the ring and any number  *)
(* of observers, rows and copies: the copies that weak_observe keeps race  *)
(* with no write and are the rows that were asked for.                     *)
(*                                                                         *)
(* A copy is kept if the state word has the valid bit and the generation   *)
(* after the copy that it had before.  Only the newest run of a state word *)
(* has the bit, and each run has a generation of its own, so the producer  *)
(* has not invalidated the element in between (MarkedInv); and it          *)
(* invalidates an element before it writes it.  A valid word has the       *)
(* generation of the row in its element (NamedInv), and a slot and a       *)
(* generation name one row (SameRow).  The next put acquires what the      *)
(* second read-modify-write released (KeptInv).                            *)
(***************************************************************************)
EXTENDS WeakOrdering, SequenceTheorems, TLAPS

Words   == [generation : Nat, valid : BOOLEAN]
Runs(a) == [val : IF a = TailIndex THEN Nat ELSE Words, view : Views]
Labels  == {"idle", "write", "validate", "publish",
           "mark", "copy", "copied", "keep"}

OrderOK ==
  /\ order = [a \in Atomics |-> order[a]]
  /\ \A a \in Atomics : order[a] \in Seq(Runs(a)) /\ order[a] # <<>>

(* Types of all variables.                                                 *)
TypeOK ==
  /\ OrderOK
  /\ view \in [Threads -> Views]
  /\ written \in [Slots -> [by : {Producer}, at : Nat, row : Int]]
  /\ kept \in [Slots -> [WeakObservers -> Nat]]
  /\ data \in [WeakObservers -> Int]
  /\ pc \in [Threads -> Labels]
  /\ index \in [Threads -> Nat]
  /\ before \in [WeakObservers -> Nat]

Newest(s) == order[s][Len(order[s])]

(* The element is invalidated and not valid again.                         *)
Writing(s) == pc[Producer] \in {"write", "validate"} /\ Slot(index[Producer]) = s

(* The rows whose valid bit was set in the element.                        *)
Rows(s) ==
  Generation(index[Producer])
    + (IF \/ s < Slot(index[Producer])
          \/ s = Slot(index[Producer]) /\ pc[Producer] = "publish"
       THEN 1 ELSE 0)

(* Each of them began a run; the newest is valid unless the element is     *)
(* being written again.                                                    *)
RunsInv ==
  \A s \in Slots :
    /\ Len(order[s]) = Rows(s) + 1
    /\ \A i \in 1 .. Len(order[s]) : order[s][i].val.valid =>
         /\ i = Len(order[s]) /\ order[s][i].val.generation = i - 2
         /\ ~Writing(s)

(* Who reads a valid bit with acquire ordering knows the write before it.  *)
PublishedInv ==
  \A s \in Slots :
    /\ Before(written[s], view[Producer])
    /\ Newest(s).val.valid => Before(written[s], Newest(s).view)

(* The state word names the row in its element.                            *)
NamedInv ==
  /\ \A s \in Slots : Newest(s).val.valid =>
       /\ written[s].row \in Nat /\ Slot(written[s].row) = s
       /\ Newest(s).val.generation = Generation(written[s].row)
  /\ pc[Producer] = "validate" =>
       written[Slot(index[Producer])].row = index[Producer]

(* From its first look at the state word to its second an observer has     *)
(* seen the write it copies, and its copy is the row it asked for, or the  *)
(* word has changed for good.                                              *)
Marked(w) ==
  LET s == Slot(index[w]) IN
    pc[w] \in {"copy", "copied"} =>
      /\ before[w] = Generation(index[w]) /\ before[w] + 2 <= Len(order[s])
      /\ Newest(s).val = Word(before[w], TRUE) =>
           /\ Before(written[s], view[w])
           /\ pc[w] = "copied" => data[w] = index[w]

MarkedInv == \A w \in WeakObservers : Marked(w)

(* The clock of the last copy of the element that was or will be kept.     *)
KeptAt(s, w) ==
  IF pc[w] = "keep" /\ Slot(index[w]) = s THEN view[w].clock[w] ELSE kept[s][w]

(* It is published in the state word until the producer has seen it.       *)
Released(s, w) ==
  /\ Before([by |-> w, at |-> KeptAt(s, w)], Newest(s).view)
  /\ Writing(s) => Before([by |-> w, at |-> KeptAt(s, w)], view[Producer])

KeptInv == \A s \in Slots, w \in WeakObservers : Released(s, w)

WeakOrderingInv ==
  /\ TypeOK
  /\ RunsInv
  /\ PublishedInv
  /\ NamedInv
  /\ MarkedInv
  /\ KeptInv
  /\ KeptIsOwnRow

(***************************************************************************)
(* Elements, generations and views.                                        *)
(***************************************************************************)

(* Division with a positive divisor leaves a remainder below it.           *)
LEMMA Division ==
  ASSUME NEW i \in Int, NEW m \in Nat \ {0}
  PROVE  /\ i = m * (i \div m) + (i % m)
         /\ i \div m \in Int
         /\ i % m \in 0 .. m - 1
  BY Z3

LEMMA SizeType == Size \in Nat \ {0} /\ Producer \notin WeakObservers
  BY WeakOrderingAssumption

LEMMA SlotType ==
  ASSUME NEW i \in Nat
  PROVE  Slot(i) \in Slots /\ Generation(i) \in Nat
<1>1. Slot(i) \in Slots
  BY SizeType, Division DEF Slot, Slots
<1>2. i \div Size >= 0
  <2>1. /\ i = Size * (i \div Size) + (i % Size)
        /\ i \div Size \in Int /\ i % Size \in 0 .. Size - 1
    BY SizeType, Division
  <2>2. \A q \in Int : q <= -1 => Size * q <= -Size
    BY SizeType, Z3
  <2> QED
    BY <2>1, <2>2, SizeType
<1> QED
  BY <1>1, <1>2, SizeType, Division DEF Generation

(* A slot and a generation name one row.                                   *)
LEMMA SameRow ==
  ASSUME NEW i \in Nat, NEW j \in Nat, Slot(i) = Slot(j),
         Generation(i) = Generation(j)
  PROVE  i = j
<1>1. /\ i = Size * (i \div Size) + (i % Size)
      /\ j = Size * (j \div Size) + (j % Size)
  BY SizeType, Division
<1> QED
  BY <1>1 DEF Slot, Generation

(* The next index is the next element's, or the first's of the next lap.   *)
LEMMA NextIndex ==
  ASSUME NEW i \in Nat
  PROVE  IF Slot(i) = Size - 1
         THEN Slot(i + 1) = 0 /\ Generation(i + 1) = Generation(i) + 1
         ELSE Slot(i + 1) = Slot(i) + 1 /\ Generation(i + 1) = Generation(i)
<1> DEFINE q == i \div Size  r == i % Size
           p == (i + 1) \div Size  t == (i + 1) % Size
<1>1. q \in Int /\ r \in 0 .. Size - 1 /\ i = Size * q + r
  BY SizeType, Division
<1>2. p \in Int /\ t \in 0 .. Size - 1 /\ i + 1 = Size * p + t
  <2>1. i + 1 \in Int
    OBVIOUS
  <2> QED
    BY <2>1, SizeType, Division
<1> HIDE DEF q, r, p, t
<1>3. \A d \in Int : Size * d < Size /\ -Size < Size * d => d = 0
  BY SizeType, Z3
<1>4. \A a, b \in Int : Size * (a - b) = Size * a - Size * b
  BY SizeType, Z3
<1>5. CASE r = Size - 1
  <2>1. Size * p + t = Size * q + Size
    BY <1>1, <1>2, <1>5, SizeType
  <2>2. Size * (p - (q + 1)) = -t
    <3>1. Size * (q + 1) = Size * q + Size
      BY <1>1, SizeType, Z3
    <3>2. Size * p \in Int /\ Size * q \in Int
      BY <1>1, <1>2, SizeType
    <3> QED
      BY <1>1, <1>2, <1>4, <2>1, <3>1, <3>2, SizeType
  <2>3. p - (q + 1) = 0
    BY <1>1, <1>2, <1>3, <2>2, SizeType
  <2>4. p = q + 1 /\ t = 0
    BY <1>1, <1>2, <2>2, <2>3, SizeType
  <2> QED
    BY <1>5, <2>4 DEF Slot, Generation, q, r, p, t
<1>6. CASE r # Size - 1
  <2>1. Size * p + t = Size * q + r + 1
    BY <1>1, <1>2, SizeType
  <2>2. Size * (p - q) = r + 1 - t
    <3>1. Size * p \in Int /\ Size * q \in Int
      BY <1>1, <1>2, SizeType
    <3> QED
      BY <1>1, <1>2, <1>4, <2>1, <3>1, SizeType
  <2>3. p - q = 0
    BY <1>1, <1>2, <1>3, <1>6, <2>2, SizeType
  <2>4. p = q /\ t = r + 1
    BY <1>1, <1>2, <2>2, <2>3, SizeType
  <2> QED
    BY <1>6, <2>4 DEF Slot, Generation, q, r, p, t
<1> QED
  BY <1>5, <1>6

(* u knows no less than v of the accesses to plain memory.                 *)
Knows(u, v) == \A t \in Threads : v.clock[t] <= u.clock[t]

LEMMA KnowsOrder ==
  /\ \A u \in Views : Knows(u, u)
  /\ \A u, v, w \in Views : Knows(u, v) /\ Knows(v, w) => Knows(u, w)
  BY DEF Views, Knows

LEMMA JoinView ==
  ASSUME NEW u \in Views, NEW v \in Views
  PROVE  Join(u, v) \in Views /\ Knows(Join(u, v), u) /\ Knows(Join(u, v), v)
  BY DEF Views, Knows, Join, Later

LEMMA SeeView ==
  ASSUME NEW u \in Views, NEW a \in Atomics, NEW i \in Nat \ {0}
  PROVE  See(u, a, i) \in Views /\ Knows(See(u, a, i), u)
         /\ See(u, a, i).clock = u.clock
  BY DEF Views, Knows, See, Later

LEMMA TickView ==
  ASSUME NEW u \in Views, NEW t \in Threads
  PROVE  Tick(u, t) \in Views /\ Knows(Tick(u, t), u)
  BY DEF Views, Knows, Tick

(* Who knows more still knows that an access was before.                   *)
LEMMA StillBefore ==
  ASSUME NEW u \in Views, NEW v \in Views, Knows(u, v),
         NEW access, access.by \in Threads, access.at \in Nat,
         Before(access, v)
  PROVE  Before(access, u)
  BY DEF Views, Knows, Before

(***************************************************************************)
(* What the operations on an atomic do to its runs.                        *)
(***************************************************************************)
LEMMA AtomicType ==
  /\ Slots \subseteq Atomics /\ TailIndex \in Atomics
  /\ \A s \in Slots : s # TailIndex /\ s \in Nat
  /\ \A s \in Slots : Runs(s) = [val : Words, view : Views]
<1>1. /\ Slots \subseteq Atomics /\ TailIndex \in Atomics
      /\ \A s \in Slots : s # TailIndex /\ s \in Nat
  BY SizeType DEF Slots, Atomics, TailIndex
<1>2. \A s \in Slots : (IF s = TailIndex THEN Nat ELSE Words) = Words
  BY <1>1
<1> QED
  BY <1>1, <1>2, Zenon DEF Runs

LEMMA RunType ==
  ASSUME OrderOK, NEW a \in Atomics, NEW i \in 1 .. Len(order[a])
  PROVE  /\ order[a][i] \in Runs(a) /\ order[a][i].view \in Views
         /\ a \in Slots => order[a][i].val \in Words
<1>1. order[a][i] \in Runs(a)
  BY DEF OrderOK
<1> QED
  BY <1>1, AtomicType DEF Runs

LEMMA NewestType ==
  ASSUME OrderOK, NEW a \in Atomics
  PROVE  Len(order[a]) \in Nat \ {0} /\ Len(order[a]) \in 1 .. Len(order[a])
<1>1. order[a] \in Seq(Runs(a)) /\ order[a] # <<>>
  BY DEF OrderOK
<1> QED
  BY <1>1, EmptySeq, LenProperties

LEMMA ChangeRun ==
  ASSUME OrderOK, NEW a \in Atomics, NEW i \in 1 .. Len(order[a]),
         NEW e \in Runs(a), order' = [order EXCEPT ![a] = [@ EXCEPT ![i] = e]]
  PROVE  /\ OrderOK'
         /\ \A b \in Atomics : Len(order'[b]) = Len(order[b])
         /\ \A b \in Atomics : \A j \in 1 .. Len(order[b]) :
              order'[b][j] = IF b = a /\ j = i THEN e ELSE order[b][j]
<1>1. order[a] \in Seq(Runs(a)) /\ order[a] # <<>>
  BY DEF OrderOK
<1>2. order'[a] = [order[a] EXCEPT ![i] = e]
  BY DEF OrderOK
<1>3. \A b \in Atomics \ {a} : order'[b] = order[b]
  BY DEF OrderOK
<1>4. /\ order'[a] \in Seq(Runs(a)) /\ Len(order'[a]) = Len(order[a])
      /\ \A j \in 1 .. Len(order[a]) : 
           order'[a][j] = IF j = i THEN e ELSE order[a][j]
  BY <1>1, <1>2, ExceptSeq
<1>5. order'[a] # <<>>
  BY <1>1, <1>4, NewestType, EmptySeq
<1>6. order' = [b \in Atomics |-> order'[b]]
  BY DEF OrderOK
<1>7. \A b \in Atomics : order'[b] \in Seq(Runs(b)) /\ order'[b] # <<>>
  BY <1>3, <1>4, <1>5 DEF OrderOK
<1> QED
  BY <1>3, <1>4, <1>6, <1>7 DEF OrderOK

LEMMA AddRun ==
  ASSUME OrderOK, NEW a \in Atomics, NEW e \in Runs(a),
         order' = [order EXCEPT ![a] = Append(@, e)]
  PROVE  /\ OrderOK'
         /\ Len(order'[a]) = Len(order[a]) + 1
         /\ order'[a][Len(order[a]) + 1] = e
         /\ \A j \in 1 .. Len(order[a]) : order'[a][j] = order[a][j]
         /\ \A b \in Atomics \ {a} : order'[b] = order[b]
<1>1. order[a] \in Seq(Runs(a)) /\ order[a] # <<>>
  BY DEF OrderOK
<1>2. order'[a] = Append(order[a], e)
  BY DEF OrderOK
<1>3. \A b \in Atomics \ {a} : order'[b] = order[b]
  BY DEF OrderOK
<1>4. /\ order'[a] \in Seq(Runs(a)) /\ Len(order'[a]) = Len(order[a]) + 1
      /\ order'[a][Len(order[a]) + 1] = e
      /\ \A j \in 1 .. Len(order[a]) : order'[a][j] = order[a][j]
  BY <1>1, <1>2, AppendProperties
<1>5. order'[a] # <<>>
  BY <1>1, <1>4, NewestType, EmptySeq, LenProperties
<1>6. order' = [b \in Atomics |-> order'[b]]
  BY DEF OrderOK
<1>7. \A b \in Atomics : order'[b] \in Seq(Runs(b)) /\ order'[b] # <<>>
  BY <1>3, <1>4, <1>5 DEF OrderOK
<1> QED
  BY <1>3, <1>4, <1>6, <1>7 DEF OrderOK

(* A read-modify-write changes the value of its run; what the views know   *)
(* grows.                                                                  *)
LEMMA RmwEffect ==
  ASSUME TypeOK, NEW t \in Threads, NEW s \in Slots,
         NEW i \in 1 .. Len(order[s]), NEW x \in Words,
         RmwAcqRel(t, s, i, x) \/ RmwAcquire(t, s, i, x)
  PROVE  /\ OrderOK'
         /\ \A b \in Slots : Len(order'[b]) = Len(order[b])
         /\ \A b \in Slots : \A j \in 1 .. Len(order[b]) :
              /\ order'[b][j].val = IF b = s /\ j = i THEN x ELSE order[b][j].val
              /\ Knows(order'[b][j].view, order[b][j].view)
         /\ view'[t] \in Views /\ view' = [view EXCEPT ![t] = view'[t]]
         /\ Knows(view'[t], view[t]) /\ Knows(view'[t], order[s][i].view)
         /\ RmwAcqRel(t, s, i, x) => order'[s][i].view = view'[t]
<1> DEFINE v == order[s][i].view
           m == Join(view[t], v)
           u == See(m, s, i)
<1>1. s \in Atomics /\ Slots \subseteq Atomics /\ OrderOK /\ view[t] \in Views
  BY AtomicType DEF TypeOK
<1>2. order[s][i] \in Runs(s) /\ v \in Views
  BY <1>1, RunType
<1>3. m \in Views /\ Knows(m, view[t]) /\ Knows(m, v)
  BY <1>1, <1>2, JoinView
<1>4. i \in Nat \ {0}
  BY <1>1, NewestType
<1>5. u \in Views /\ Knows(u, m)
  BY <1>1, <1>3, <1>4, SeeView
<1>6. view' = [view EXCEPT ![t] = u]
  BY DEF RmwAcqRel, RmwAcquire
<1> HIDE DEF u, m
<1>7. Knows(u, view[t]) /\ Knows(u, v)
  BY <1>1, <1>2, <1>3, <1>5, KnowsOrder
<1>8. view'[t] = u
  BY <1>6 DEF TypeOK
<1>9. PICK e \in Runs(s) :
        /\ order' = [order EXCEPT ![s] = [@ EXCEPT ![i] = e]]
        /\ e.val = x /\ Knows(e.view, v)
        /\ RmwAcqRel(t, s, i, x) => e.view = u
  <2>1. CASE RmwAcqRel(t, s, i, x)
    <3> DEFINE e == [val |-> x, view |-> u]
    <3>1. order' = [order EXCEPT ![s] = [@ EXCEPT ![i] = e]]
      BY <2>1 DEF RmwAcqRel, u, m
    <3>2. e \in Runs(s) /\ e.val = x /\ e.view = u
      BY <1>1, <1>5, AtomicType
    <3> HIDE DEF e
    <3> QED
      BY <1>7, <3>1, <3>2
  <2>2. CASE RmwAcquire(t, s, i, x) /\ ~RmwAcqRel(t, s, i, x)
    <3> DEFINE e == [order[s][i] EXCEPT !.val = x]
    <3>1. order' = [order EXCEPT ![s] = [@ EXCEPT ![i] = e]]
      BY <2>2, <1>1 DEF RmwAcquire, OrderOK
    <3>2. e \in Runs(s) /\ e.val = x /\ e.view = v
      <4>1. \A r \in [val : Words, view : Views] :
              /\ [r EXCEPT !.val = x] \in [val : Words, view : Views]
              /\ [r EXCEPT !.val = x].val = x
              /\ [r EXCEPT !.val = x].view = r.view
        OBVIOUS
      <4> QED
        BY <1>2, <4>1, AtomicType, Zenon
    <3> HIDE DEF e
    <3> QED
      BY <1>2, <2>2, <3>1, <3>2, KnowsOrder
  <2> QED
    BY <2>1, <2>2
<1>10. /\ OrderOK'
       /\ \A b \in Atomics : Len(order'[b]) = Len(order[b])
       /\ \A b \in Atomics : \A j \in 1 .. Len(order[b]) :
            order'[b][j] = IF b = s /\ j = i THEN e ELSE order[b][j]
  BY <1>1, <1>9, ChangeRun
<1>11. \A b \in Slots : \A j \in 1 .. Len(order[b]) :
         Knows(order'[b][j].view, order[b][j].view)
  <2> TAKE b \in Slots
  <2> TAKE j \in 1 .. Len(order[b])
  <2>1. b \in Atomics /\ order[b][j].view \in Views
    BY <1>1, RunType
  <2>2. CASE b = s /\ j = i
    BY <1>9, <1>10, <2>1, <2>2
  <2>3. CASE ~(b = s /\ j = i)
    <3>1. order'[b][j] = order[b][j]
      BY <1>10, <2>1, <2>3
    <3> QED
      BY <2>1, <3>1, KnowsOrder
  <2> QED
    BY <2>2, <2>3
<1>12. \A b \in Slots : \A j \in 1 .. Len(order[b]) :
         order'[b][j].val = IF b = s /\ j = i THEN x ELSE order[b][j].val
  BY <1>1, <1>9, <1>10
<1>13. order'[s][i].view = e.view
  BY <1>1, <1>10
<1>14. \A b \in Slots : Len(order'[b]) = Len(order[b])
  BY <1>1, <1>10
<1>15. view'[t] \in Views /\ view' = [view EXCEPT ![t] = view'[t]]
       /\ Knows(view'[t], view[t]) /\ Knows(view'[t], order[s][i].view)
  BY <1>5, <1>6, <1>7, <1>8
<1> QED
  BY <1>8, <1>9, <1>10, <1>11, <1>12, <1>13, <1>14, <1>15

LEMMA StoreEffect ==
  ASSUME TypeOK, NEW t \in Threads, NEW a \in Atomics,
         NEW x \in IF a = TailIndex THEN Nat ELSE Words, StoreRelease(t, a, x)
  PROVE  /\ OrderOK'
         /\ Len(order'[a]) = Len(order[a]) + 1
         /\ order'[a][Len(order[a]) + 1].val = x
         /\ order'[a][Len(order[a]) + 1].view = view'[t]
         /\ \A j \in 1 .. Len(order[a]) : order'[a][j] = order[a][j]
         /\ \A b \in Atomics \ {a} : order'[b] = order[b]
         /\ view'[t] \in Views /\ view' = [view EXCEPT ![t] = view'[t]]
         /\ view'[t].clock = view[t].clock
<1> DEFINE u == See(view[t], a, Len(order[a]) + 1)
           e == [val |-> x, view |-> u]
<1>1. OrderOK /\ view[t] \in Views /\ Len(order[a]) + 1 \in Nat \ {0}
  BY NewestType DEF TypeOK
<1>2. u \in Views /\ u.clock = view[t].clock
  BY <1>1, SeeView
<1>3. view' = [view EXCEPT ![t] = u] /\ order' = [order EXCEPT ![a] = Append(@, e)]
  BY DEF StoreRelease
<1>4. view'[t] = u
  BY <1>3 DEF TypeOK
<1> HIDE DEF u
<1>5. e \in Runs(a) /\ e.val = x /\ e.view = u
  BY <1>2 DEF Runs
<1> HIDE DEF e
<1> QED
  BY <1>1, <1>2, <1>3, <1>4, <1>5, AddRun

(***************************************************************************)
(* What a step leaves alone.                                               *)
(***************************************************************************)

(* No run changes its value, and what the runs publish only grows.         *)
Grown ==
  \A s \in Slots :
    /\ Len(order'[s]) = Len(order[s])
    /\ \A i \in 1 .. Len(order[s]) :
         /\ order'[s][i].val = order[s][i].val
         /\ Knows(order'[s][i].view, order[s][i].view)

SameProducer ==
  /\ pc'[Producer] = pc[Producer] /\ index'[Producer] = index[Producer]
  /\ view'[Producer] = view[Producer] /\ written' = written

SameObserver(w) ==
  /\ pc'[w] = pc[w] /\ index'[w] = index[w] /\ before'[w] = before[w]
  /\ view'[w] = view[w] /\ \A s \in Slots : kept'[s][w] = kept[s][w]
  /\ data'[w] = data[w]

LEMMA GrownSame == ASSUME OrderOK, order' = order PROVE Grown
<1> SUFFICES ASSUME NEW s \in Slots, NEW i \in 1 .. Len(order[s])
             PROVE  Knows(order[s][i].view, order[s][i].view)
  BY DEF Grown
<1> QED
  BY AtomicType, RunType, KnowsOrder

LEMMA GrownNewest ==
  ASSUME OrderOK, OrderOK', Grown, NEW s \in Slots
  PROVE  /\ Newest(s)'.val = Newest(s).val
         /\ Knows(Newest(s)'.view, Newest(s).view)
         /\ Newest(s).view \in Views /\ Newest(s)'.view \in Views
<1>1. s \in Atomics /\ Len(order[s]) \in 1 .. Len(order[s])
      /\ Len(order'[s]) = Len(order[s])
  BY AtomicType, NewestType DEF Grown
<1>2. Newest(s).view \in Views
  BY <1>1, RunType DEF Newest
<1>3. Newest(s)'.view \in Views
  <2>1. order'[s] \in Seq(Runs(s))
    BY <1>1 DEF OrderOK
  <2>2. order'[s][Len(order'[s])] \in Runs(s)
    BY <1>1, <2>1
  <2> QED
    BY <2>2 DEF Newest, Runs
<1> QED
  BY <1>1, <1>2, <1>3 DEF Grown, Newest

LEMMA WriteType ==
  ASSUME TypeOK, NEW s \in Slots
  PROVE  /\ written[s].by \in Threads /\ written[s].by = Producer
         /\ written[s].at \in Nat /\ written[s].row \in Int
  BY DEF TypeOK, Threads

(* Of a step that is not the producer's.                                   *)
LEMMA ProducerFrame ==
  ASSUME WeakOrderingInv, OrderOK', Grown, SameProducer
  PROVE  RunsInv' /\ PublishedInv' /\ NamedInv'
<1> USE DEF WeakOrderingInv
<1>1. ASSUME NEW s \in Slots PROVE Rows(s)' = Rows(s) /\ Writing(s)' = Writing(s)
  BY DEF SameProducer, Rows, Writing
<1>2. RunsInv'
  BY <1>1 DEF RunsInv, Grown
<1>3. ASSUME NEW s \in Slots
      PROVE  /\ Before(written[s], view[Producer])'
             /\ Newest(s)'.val.valid => Before(written[s], Newest(s).view)'
  <2>1. Before(written[s], view[Producer])'
    BY DEF PublishedInv, SameProducer
  <2>2. ASSUME Newest(s)'.val.valid PROVE Before(written[s], Newest(s).view)'
    <3>1. Before(written[s], Newest(s).view)
      BY <2>2, GrownNewest DEF PublishedInv, TypeOK
    <3>2. written'[s] = written[s]
      BY DEF SameProducer
    <3> QED
      BY <3>1, <3>2, GrownNewest, WriteType, StillBefore DEF TypeOK
  <2> QED
    BY <2>1, <2>2
<1>4. PublishedInv'
  BY <1>3 DEF PublishedInv
<1>5. NamedInv'
  <2>1. \A s \in Slots : Newest(s)'.val = Newest(s).val
    BY GrownNewest DEF TypeOK
  <2> QED
    BY <2>1 DEF NamedInv, SameProducer
<1> QED
  BY <1>2, <1>4, <1>5

LEMMA ObserverType ==
  ASSUME TypeOK, NEW s \in Slots, NEW w \in WeakObservers
  PROVE  [by |-> w, at |-> KeptAt(s, w)] \in [by : Threads, at : Nat]
<1>1. KeptAt(s, w) \in Nat /\ w \in Threads
  BY DEF KeptAt, TypeOK, Views, Threads
<1> QED
  BY <1>1

LEMMA ReleasedFrame ==
  ASSUME WeakOrderingInv, OrderOK', Grown, SameProducer,
         NEW s \in Slots, NEW w \in WeakObservers, KeptAt(s, w)' = KeptAt(s, w)
  PROVE  Released(s, w)'
<1> USE DEF WeakOrderingInv
<1>1. Before([by |-> w, at |-> KeptAt(s, w)], Newest(s).view)
  BY DEF KeptInv, Released
<1>2. Before([by |-> w, at |-> KeptAt(s, w)], Newest(s)'.view)
  BY <1>1, ObserverType, GrownNewest, StillBefore DEF TypeOK
<1>3. Writing(s)' => Before([by |-> w, at |-> KeptAt(s, w)], view'[Producer])
  BY DEF KeptInv, Released, SameProducer, Writing
<1> QED
  BY <1>2, <1>3 DEF Released

(* Of a step of another observer.                                          *)
LEMMA ObserverFrame ==
  ASSUME WeakOrderingInv, OrderOK', Grown, SameProducer,
         NEW w \in WeakObservers, SameObserver(w)
  PROVE  /\ Marked(w)' /\ \A s \in Slots : Released(s, w)'
         /\ pc'[w] = "keep" => data'[w] = index'[w]
<1> USE DEF WeakOrderingInv
<1>1. pc'[w] = "keep" => data'[w] = index'[w]
  BY DEF SameObserver, KeptIsOwnRow
<1>2. PICK s \in Slots : s = Slot(index[w])
  BY SlotType DEF TypeOK, Threads
<1>3. Marked(w)'
  <2>1. Newest(s)'.val = Newest(s).val
    BY GrownNewest DEF TypeOK
  <2>2. Slot(index'[w]) = s
    BY <1>2 DEF SameObserver
  <2>3. Len(order'[s]) = Len(order[s])
    BY DEF Grown
  <2>4. Marked(w)
    BY DEF MarkedInv
  <2> QED
    BY <1>2, <2>1, <2>2, <2>3, <2>4 DEF Marked, SameObserver, SameProducer
<1>4. ASSUME NEW r \in Slots PROVE Released(r, w)'
  BY ReleasedFrame DEF KeptAt, SameObserver
<1> QED
  BY <1>1, <1>3, <1>4

(***************************************************************************)
(* weak_observe.                                                           *)
(***************************************************************************)
LEMMA WeakFrame ==
  ASSUME WeakOrderingInv, TypeOK', Grown, SameProducer,
         NEW w \in WeakObservers,
         \A u \in WeakObservers \ {w} : SameObserver(u),
         Marked(w)', \A s \in Slots : Released(s, w)',
         pc'[w] = "keep" => data'[w] = index'[w]
  PROVE  WeakOrderingInv'
<1>1. OrderOK'
  BY DEF TypeOK
<1>2. RunsInv' /\ PublishedInv' /\ NamedInv'
  BY <1>1, ProducerFrame
<1>3. ASSUME NEW u \in WeakObservers
      PROVE  /\ Marked(u)' /\ \A s \in Slots : Released(s, u)'
             /\ pc'[u] = "keep" => data'[u] = index'[u]
  BY <1>1, <1>3, ObserverFrame
<1>4. MarkedInv' /\ KeptInv' /\ KeptIsOwnRow'
  BY <1>3 DEF MarkedInv, KeptInv, KeptIsOwnRow
<1> QED
  BY <1>2, <1>4 DEF WeakOrderingInv

LEMMA WindowKeeps ==
  ASSUME WeakOrderingInv, NEW w \in WeakObservers, WeakWindow(w)
  PROVE  WeakOrderingInv'
<1> USE DEF WeakOrderingInv
<1>1. PICK c \in 0 .. MaxRows, i \in Readable(w, TailIndex) :
        /\ view' = [view EXCEPT ![w] = See(@, TailIndex, i)]
        /\ index' = [index EXCEPT ![w] = c]
  BY DEF WeakWindow
<1>2. /\ pc[w] = "idle" /\ pc' = [pc EXCEPT ![w] = "mark"]
      /\ UNCHANGED <<order, written, kept, data, before>>
  BY DEF WeakWindow, Goto
<1>3. w \in Threads /\ w # Producer
  BY SizeType DEF Threads
<1>4. i \in Nat \ {0} /\ c \in Nat
  BY AtomicType, NewestType, WeakOrderingAssumption DEF Readable, TypeOK
<1>5. See(view[w], TailIndex, i) \in Views
  BY <1>3, <1>4, AtomicType, SeeView DEF TypeOK
<1>6. TypeOK'
  BY <1>1, <1>2, <1>3, <1>4, <1>5 DEF TypeOK, OrderOK, Labels
<1>7. Grown
  BY <1>2, GrownSame DEF TypeOK
<1>8. SameProducer /\ \A u \in WeakObservers \ {w} : SameObserver(u)
  BY <1>1, <1>2, <1>3 DEF SameProducer, SameObserver, TypeOK, Threads
<1>9. Marked(w)' /\ pc'[w] # "keep"
  BY <1>2, <1>3 DEF Marked, TypeOK
<1>10. \A s \in Slots : Released(s, w)'
  BY <1>2, <1>6, <1>7, <1>8, <1>9, ReleasedFrame DEF KeptAt, TypeOK
<1> QED
  BY <1>6, <1>7, <1>8, <1>9, <1>10, WeakFrame

LEMMA MarkKeeps ==
  ASSUME WeakOrderingInv, NEW w \in WeakObservers, WeakMark(w)
  PROVE  WeakOrderingInv'
<1> USE DEF WeakOrderingInv
<1>1. PICK s \in Slots : s = Slot(index[w])
  BY SlotType DEF TypeOK, Threads
<1>2. PICK i \in Readable(w, s) :
        LET word == order[s][i].val IN
          /\ RmwAcquire(w, s, i, word)
          /\ before' = [before EXCEPT ![w] = word.generation]
          /\ pc' = [pc EXCEPT ![w] =
               IF word = Word(Generation(index[w]), TRUE) THEN "copy" ELSE "idle"]
  BY <1>1 DEF WeakMark, Goto
<1>3. pc[w] = "mark" /\ UNCHANGED <<written, kept, data, index>>
  BY DEF WeakMark
<1>4. w \in Threads /\ w # Producer /\ s \in Atomics
  BY SizeType, AtomicType DEF Threads
<1>5. i \in 1 .. Len(order[s]) /\ order[s][i].val \in Words
  BY <1>4, RunType DEF Readable, TypeOK
<1>6. /\ OrderOK' /\ Grown
      /\ view'[w] \in Views /\ view' = [view EXCEPT ![w] = view'[w]]
      /\ Knows(view'[w], order[s][i].view)
  BY <1>2, <1>4, <1>5, RmwEffect DEF Grown
<1>7. TypeOK'
  <2>1. order[s][i].val.generation \in Nat
    BY <1>5 DEF Words
  <2> QED
    BY <1>2, <1>3, <1>4, <1>6, <2>1 DEF TypeOK, Labels
<1>8. SameProducer /\ \A u \in WeakObservers \ {w} : SameObserver(u)
  BY <1>2, <1>3, <1>4, <1>6 DEF SameProducer, SameObserver, TypeOK, Threads
<1>9. pc'[w] # "keep"
  BY <1>2, <1>4 DEF TypeOK
<1>10. Marked(w)'
  <2> SUFFICES ASSUME pc'[w] \in {"copy", "copied"} PROVE Marked(w)'
    BY DEF Marked
  <2>1. order[s][i].val = Word(Generation(index[w]), TRUE) /\ pc'[w] = "copy"
    BY <1>2, <1>4 DEF TypeOK
  <2>2. order[s][i].val.valid /\ order[s][i].val.generation = Generation(index[w])
    BY <2>1 DEF Word
  <2>3. i = Len(order[s]) /\ Generation(index[w]) = i - 2
    BY <1>5, <2>2 DEF RunsInv
  <2>4. before'[w] = Generation(index[w]) /\ Generation(index[w]) \in Nat
    BY <1>2, <1>4, <2>2, SlotType DEF TypeOK
  <2>5. Before(written[s], order[s][i].view) /\ order[s][i].view \in Views
    BY <1>4, <1>5, <2>2, <2>3, RunType DEF PublishedInv, Newest, TypeOK
  <2>6. Before(written[s], view'[w])
    BY <1>6, <2>5, WriteType, StillBefore
  <2>7. Len(order'[s]) = i
    BY <1>6, <2>3 DEF Grown
  <2> QED
    BY <1>1, <1>3, <1>5, <2>1, <2>3, <2>4, <2>6, <2>7 DEF Marked
<1>11. \A r \in Slots : Released(r, w)'
  BY <1>3, <1>6, <1>8, <1>9, ReleasedFrame DEF KeptAt
<1> QED
  BY <1>6, <1>7, <1>8, <1>9, <1>10, <1>11, WeakFrame

LEMMA CopyKeeps ==
  ASSUME WeakOrderingInv, NEW w \in WeakObservers, WeakCopy(w)
  PROVE  WeakOrderingInv'
<1> USE DEF WeakOrderingInv
<1>1. PICK s \in Slots : s = Slot(index[w])
  BY SlotType DEF TypeOK, Threads
<1>2. /\ pc[w] = "copy" /\ pc' = [pc EXCEPT ![w] = "copied"]
      /\ view' = [view EXCEPT ![w] = Tick(@, w)]
      /\ data' = [data EXCEPT ![w] =
                    IF Before(written[s], view[w]) THEN written[s].row ELSE Torn]
      /\ UNCHANGED <<order, written, kept, index, before>>
  BY <1>1 DEF WeakCopy, Goto
<1>3. w \in Threads /\ w # Producer
  BY SizeType DEF Threads
<1>4. Tick(view[w], w) \in Views /\ Knows(Tick(view[w], w), view[w])
  BY <1>3, TickView DEF TypeOK
<1>5. view'[w] = Tick(view[w], w)
  BY <1>2, <1>3 DEF TypeOK
<1>6. TypeOK'
  <2>1. data' \in [WeakObservers -> Int]
    BY <1>2, WriteType DEF TypeOK, Torn
  <2> QED
    BY <1>2, <1>3, <1>4, <2>1 DEF TypeOK, OrderOK, Labels
<1>7. Grown
  BY <1>2, GrownSame DEF TypeOK
<1>8. SameProducer /\ \A u \in WeakObservers \ {w} : SameObserver(u)
  BY <1>2, <1>3 DEF SameProducer, SameObserver, TypeOK, Threads
<1>9. pc'[w] = "copied"
  BY <1>2, <1>3 DEF TypeOK
<1>10. Marked(w)'
  <2>1. Marked(w)
    BY DEF MarkedInv
  <2>2. Before(written[s], view[w]) => Before(written[s], view'[w])
    BY <1>3, <1>4, <1>5, WriteType, StillBefore DEF TypeOK
  <2>3. Newest(s)' = Newest(s) /\ Len(order'[s]) = Len(order[s])
    BY <1>2 DEF Newest
  <2>4. ASSUME Newest(s).val = Word(before[w], TRUE), Before(written[s], view[w])
        PROVE  data'[w] = index[w]
    <3>1. Newest(s).val.valid /\ Newest(s).val.generation = before[w]
      BY <2>4 DEF Word
    <3>2. /\ written[s].row \in Nat /\ Slot(written[s].row) = Slot(index[w])
          /\ Generation(written[s].row) = Generation(index[w]) /\ index[w] \in Nat
      BY <1>1, <1>2, <1>3, <2>1, <3>1 DEF NamedInv, Marked, TypeOK
    <3>3. written[s].row = index[w]
      BY <3>2, SameRow
    <3> QED
      BY <1>2, <2>4, <3>3 DEF TypeOK
  <2> QED
    BY <1>1, <1>2, <2>1, <2>2, <2>3, <2>4 DEF Marked
<1>11. \A r \in Slots : Released(r, w)'
  BY <1>2, <1>6, <1>7, <1>8, <1>9, ReleasedFrame DEF KeptAt, TypeOK
<1> QED
  BY <1>6, <1>7, <1>8, <1>9, <1>10, <1>11, WeakFrame

LEMMA UnmarkKeeps ==
  ASSUME WeakOrderingInv, NEW w \in WeakObservers, WeakUnmark(w)
  PROVE  WeakOrderingInv'
<1> USE DEF WeakOrderingInv
<1>1. PICK s \in Slots : s = Slot(index[w])
  BY SlotType DEF TypeOK, Threads
<1>2. PICK i \in Readable(w, s) :
        LET word == order[s][i].val IN
          /\ RmwAcqRel(w, s, i, word)
          /\ pc' = [pc EXCEPT ![w] =
               IF word = Word(before[w], TRUE) THEN "keep" ELSE "idle"]
  BY <1>1 DEF WeakUnmark, Goto
<1>3. pc[w] = "copied" /\ UNCHANGED <<written, kept, data, index, before>>
  BY DEF WeakUnmark
<1>4. w \in Threads /\ w # Producer /\ s \in Atomics
  BY SizeType, AtomicType DEF Threads
<1>5. i \in 1 .. Len(order[s]) /\ order[s][i].val \in Words
  BY <1>4, RunType DEF Readable, TypeOK
<1>6. /\ OrderOK' /\ Grown
      /\ view'[w] \in Views /\ view' = [view EXCEPT ![w] = view'[w]]
      /\ order'[s][i].view = view'[w]
  BY <1>2, <1>4, <1>5, RmwEffect DEF Grown
<1>7. TypeOK'
  BY <1>2, <1>3, <1>4, <1>6 DEF TypeOK, Labels
<1>8. SameProducer /\ \A u \in WeakObservers \ {w} : SameObserver(u)
  BY <1>2, <1>3, <1>4, <1>6 DEF SameProducer, SameObserver, TypeOK, Threads
<1>9. pc'[w] \in {"keep", "idle"}
  BY <1>2, <1>4 DEF TypeOK
<1>10. Marked(w)'
  BY <1>9 DEF Marked
(* What it sees is what it saw before, in the newest run.                  *)
<1>11. ASSUME pc'[w] = "keep"
       PROVE  /\ i = Len(order[s]) /\ data[w] = index[w] /\ ~Writing(s)
  <2>1. order[s][i].val = Word(before[w], TRUE)
    BY <1>2, <1>4, <1>11 DEF TypeOK
  <2>2. order[s][i].val.valid
    BY <2>1 DEF Word
  <2>3. i = Len(order[s]) /\ ~Writing(s)
    BY <1>5, <2>2 DEF RunsInv
  <2>4. Marked(w)
    BY DEF MarkedInv
  <2> QED
    BY <1>1, <1>3, <2>1, <2>3, <2>4 DEF Marked, Newest
<1>12. ASSUME NEW r \in Slots PROVE Released(r, w)'
  <2>1. CASE pc'[w] = "keep" /\ r = s
    <3>1. KeptAt(s, w)' = view'[w].clock[w]
      BY <1>1, <1>3, <2>1 DEF KeptAt
    <3>2. Newest(s)'.view = view'[w]
      BY <1>6, <1>11, <2>1 DEF Newest, Grown
    <3>3. ~Writing(s)'
      BY <1>8, <1>11, <2>1 DEF Writing, SameProducer
    <3>4. view'[w].clock[w] <= view'[w].clock[w]
      BY <1>4, <1>6 DEF Views
    <3> QED
      BY <2>1, <3>1, <3>2, <3>3, <3>4 DEF Released, Before
  <2>2. CASE ~(pc'[w] = "keep" /\ r = s)
    <3>1. KeptAt(r, w)' = KeptAt(r, w)
      BY <1>1, <1>3, <2>2 DEF KeptAt
    <3> QED
      BY <1>6, <1>8, <3>1, ReleasedFrame
  <2> QED
    BY <2>1, <2>2
<1>13. pc'[w] = "keep" => data'[w] = index'[w]
  BY <1>3, <1>11
<1> QED
  BY <1>6, <1>7, <1>8, <1>10, <1>12, <1>13, WeakFrame

LEMMA KeepKeeps ==
  ASSUME WeakOrderingInv, NEW w \in WeakObservers, WeakKeep(w)
  PROVE  WeakOrderingInv'
<1> USE DEF WeakOrderingInv
<1>1. PICK s \in Slots : s = Slot(index[w])
  BY SlotType DEF TypeOK, Threads
<1>2. /\ pc[w] = "keep" /\ pc' = [pc EXCEPT ![w] = "idle"]
      /\ kept' = [kept EXCEPT ![s][w] = view[w].clock[w]]
      /\ UNCHANGED <<order, view, written, data, index, before>>
  BY <1>1 DEF WeakKeep, Goto
<1>3. w \in Threads /\ w # Producer /\ view[w].clock[w] \in Nat
  BY SizeType DEF Threads, TypeOK, Views
<1>4. TypeOK'
  BY <1>2, <1>3 DEF TypeOK, OrderOK, Labels
<1>5. Grown
  BY <1>2, GrownSame DEF TypeOK
<1>6. SameProducer /\ \A u \in WeakObservers \ {w} : SameObserver(u)
  BY <1>2, <1>3 DEF SameProducer, SameObserver, TypeOK, Threads
<1>7. pc'[w] = "idle" /\ Marked(w)'
  BY <1>2, <1>3 DEF TypeOK, Marked
<1>8. ASSUME NEW r \in Slots PROVE KeptAt(r, w)' = KeptAt(r, w)
  BY <1>1, <1>2, <1>7 DEF KeptAt, TypeOK
<1>9. \A r \in Slots : Released(r, w)'
  BY <1>4, <1>5, <1>6, <1>8, ReleasedFrame DEF TypeOK
<1> QED
  BY <1>4, <1>5, <1>6, <1>7, <1>9, WeakFrame

(***************************************************************************)
(* try_put.                                                                *)
(***************************************************************************)

(* A producer's step leaves the observers' variables alone.                *)
SameObservers ==
  /\ \A w \in WeakObservers : pc'[w] = pc[w] /\ view'[w] = view[w]
  /\ \A w \in WeakObservers : index'[w] = index[w]
  /\ UNCHANGED <<before, kept>>

LEMMA KeptAtSame ==
  ASSUME SameObservers, NEW s \in Slots, NEW w \in WeakObservers
  PROVE  KeptAt(s, w)' = KeptAt(s, w)
  BY DEF SameObservers, KeptAt

LEMMA ProducerType ==
  ASSUME TypeOK
  PROVE  /\ Producer \in Threads /\ Producer \notin WeakObservers
         /\ index[Producer] \in Nat /\ view[Producer] \in Views
         /\ Slot(index[Producer]) \in Slots /\ Generation(index[Producer]) \in Nat
         /\ Threads = {Producer} \cup WeakObservers
  BY SizeType, SlotType DEF Threads, TypeOK

LEMMA InvalidateKeeps ==
  ASSUME WeakOrderingInv, PutInvalidate
  PROVE  WeakOrderingInv'
<1> USE DEF WeakOrderingInv
<1>1. PICK s \in Slots : s = Slot(index[Producer])
  BY ProducerType
<1> DEFINE L == Len(order[s])
           x == Word(Generation(index[Producer]), FALSE)
<1>2. /\ pc[Producer] = "idle" /\ pc' = [pc EXCEPT ![Producer] = "write"]
      /\ RmwAcqRel(Producer, s, L, x)
      /\ UNCHANGED <<written, kept, data, index, before>>
  BY <1>1 DEF PutInvalidate, Goto
<1>3. L \in 1 .. L /\ x \in Words /\ ~x.valid /\ s \in Atomics
  BY ProducerType, AtomicType, NewestType DEF Word, Words, TypeOK
<1>4. \A g : x # Word(g, TRUE)
  BY DEF Word
<1> HIDE DEF x
<1>5. /\ OrderOK'
      /\ \A b \in Slots : Len(order'[b]) = Len(order[b])
      /\ \A b \in Slots : \A j \in 1 .. Len(order[b]) :
           /\ order'[b][j].val = IF b = s /\ j = L THEN x ELSE order[b][j].val
           /\ Knows(order'[b][j].view, order[b][j].view)
      /\ view'[Producer] \in Views
      /\ view' = [view EXCEPT ![Producer] = view'[Producer]]
      /\ Knows(view'[Producer], view[Producer])
      /\ Knows(view'[Producer], order[s][L].view)
  BY <1>2, <1>3, ProducerType, RmwEffect
<1>6. TypeOK'
  BY <1>2, <1>5, ProducerType DEF TypeOK, Labels
<1>7. SameObservers
  BY <1>2, <1>5, ProducerType DEF SameObservers, TypeOK
<1>8. \A r \in Slots : Rows(r)' = Rows(r) /\ (Writing(r)' <=> r = s)
  BY <1>1, <1>2, ProducerType DEF Rows, Writing, TypeOK
<1>9. ASSUME NEW r \in Slots
      PROVE  /\ Newest(r)'.val = IF r = s THEN x ELSE Newest(r).val
             /\ Knows(Newest(r)'.view, Newest(r).view)
             /\ Newest(r)'.view \in Views /\ Newest(r).view \in Views
  <2>1. Len(order[r]) \in 1 .. Len(order[r]) /\ r \in Atomics
    BY AtomicType, NewestType DEF TypeOK
  <2>2. Newest(r).view \in Views
    BY <2>1, RunType DEF Newest, TypeOK
  <2>3. order'[r][Len(order'[r])] \in Runs(r)
    BY <1>5, <2>1 DEF OrderOK
  <2> QED
    BY <1>5, <2>1, <2>2, <2>3 DEF Newest, Runs
<1>10. RunsInv'
  <2> SUFFICES ASSUME NEW r \in Slots, NEW i \in 1 .. Len(order'[r]),
                      order'[r][i].val.valid
               PROVE  /\ i = Len(order'[r]) /\ order'[r][i].val.generation = i - 2
                      /\ ~Writing(r)'
    BY <1>5, <1>8 DEF RunsInv
  <2>1. ~(r = s /\ i = L)
    BY <1>3, <1>5
  <2>2. order'[r][i].val = order[r][i].val
    BY <1>5, <2>1
  <2> QED
    BY <1>5, <1>8, <2>1, <2>2 DEF RunsInv
<1>11. PublishedInv'
  <2> SUFFICES ASSUME NEW r \in Slots
               PROVE  /\ Before(written[r], view'[Producer])
                      /\ Newest(r)'.val.valid => Before(written[r], Newest(r)'.view)
    BY <1>2 DEF PublishedInv
  <2>1. Before(written[r], view'[Producer])
    BY <1>5, ProducerType, WriteType, StillBefore DEF PublishedInv
  <2>2. Newest(r)'.val.valid => Before(written[r], Newest(r)'.view)
    BY <1>3, <1>9, WriteType, StillBefore DEF PublishedInv
  <2> QED
    BY <2>1, <2>2
<1>12. MarkedInv'
  <2> SUFFICES ASSUME NEW w \in WeakObservers PROVE Marked(w)'
    BY DEF MarkedInv
  <2>1. PICK r \in Slots : r = Slot(index[w])
    BY SlotType DEF TypeOK, Threads
  <2>2. Marked(w)
    BY DEF MarkedInv
  <2> QED
    BY <1>2, <1>4, <1>5, <1>7, <1>9, <2>1, <2>2 DEF Marked, SameObservers
<1>13. KeptInv'
  <2> SUFFICES ASSUME NEW r \in Slots, NEW w \in WeakObservers
               PROVE  Released(r, w)'
    BY DEF KeptInv
  <2> DEFINE a == [by |-> w, at |-> KeptAt(r, w)]
  <2>1. a \in [by : Threads, at : Nat] /\ Before(a, Newest(r).view)
    BY ObserverType DEF KeptInv, Released
  <2> HIDE DEF a
  <2>2. Before(a, Newest(r)'.view)
    BY <1>9, <2>1, StillBefore
  <2>3. r = s => Before(a, view'[Producer])
    BY <1>5, <1>9, <2>1, StillBefore DEF Newest
  <2> QED
    BY <1>7, <1>8, <2>2, <2>3, KeptAtSame DEF Released, a
<1>14. KeptIsOwnRow'
  BY <1>2, <1>7 DEF KeptIsOwnRow, SameObservers
<1>15. NamedInv'
  <2>1. pc'[Producer] # "validate"
    BY <1>2, ProducerType DEF TypeOK
  <2>2. \A r \in Slots : Newest(r)'.val.valid => Newest(r)'.val = Newest(r).val
    BY <1>3, <1>9
  <2> QED
    BY <1>2, <2>1, <2>2 DEF NamedInv
<1> QED
  BY <1>6, <1>10, <1>11, <1>12, <1>13, <1>14, <1>15

LEMMA WriteKeeps ==
  ASSUME WeakOrderingInv, PutWrite
  PROVE  WeakOrderingInv'
<1> USE DEF WeakOrderingInv
<1>1. PICK s \in Slots : s = Slot(index[Producer])
  BY ProducerType
<1>2. /\ pc[Producer] = "write" /\ pc' = [pc EXCEPT ![Producer] = "validate"]
      /\ view' = [view EXCEPT ![Producer] = Tick(@, Producer)]
      /\ written' = [written EXCEPT ![s] =
                       [by |-> Producer, at |-> view'[Producer].clock[Producer],
                        row |-> index[Producer]]]
      /\ data' = [w \in WeakObservers |->
                    IF pc[w] = "copied" /\ Slot(index[w]) = s THEN Torn ELSE data[w]]
      /\ UNCHANGED <<order, kept, index, before>>
  BY <1>1 DEF PutWrite, Goto
<1>3. /\ view'[Producer] = Tick(view[Producer], Producer)
      /\ view'[Producer] \in Views /\ Knows(view'[Producer], view[Producer])
      /\ view'[Producer].clock[Producer] \in Nat
  <2>1. view'[Producer] = Tick(view[Producer], Producer)
    BY <1>2, ProducerType DEF TypeOK
  <2>2. view'[Producer] \in Views /\ Knows(view'[Producer], view[Producer])
    BY <2>1, ProducerType, TickView
  <2> QED
    BY <2>1, <2>2, ProducerType DEF Views
<1>4. TypeOK'
  <2>1. view' \in [Threads -> Views]
    BY <1>2, <1>3, ProducerType DEF TypeOK
  <2>2. written' \in [Slots -> [by : {Producer}, at : Nat, row : Int]]
    BY <1>2, <1>3, ProducerType DEF TypeOK
  <2>3. data' \in [WeakObservers -> Int]
    BY <1>2 DEF TypeOK, Torn
  <2> QED
    BY <1>2, <2>1, <2>2, <2>3, ProducerType DEF TypeOK, OrderOK, Labels
<1>5. SameObservers
  BY <1>2, ProducerType DEF SameObservers, TypeOK
<1>6. \A r \in Slots : /\ Rows(r)' = Rows(r) /\ (Writing(r)' <=> r = s)
                       /\ Writing(r) <=> r = s
  BY <1>1, <1>2, ProducerType DEF Rows, Writing, TypeOK
<1>7. \A r \in Slots : Newest(r)' = Newest(r)
  BY <1>2 DEF Newest
<1>8. ~Newest(s).val.valid
  <2>1. Len(order[s]) \in 1 .. Len(order[s])
    BY AtomicType, NewestType DEF TypeOK
  <2> QED
    BY <1>6, <2>1 DEF RunsInv, Newest
<1>9. RunsInv'
  BY <1>2, <1>6 DEF RunsInv
<1>10. PublishedInv'
  <2> SUFFICES ASSUME NEW r \in Slots
               PROVE  /\ Before(written'[r], view'[Producer])
                      /\ Newest(r).val.valid => Before(written'[r], Newest(r).view)
    BY <1>7 DEF PublishedInv
  <2>1. CASE r = s
    <3>1. written'[s] = [by |-> Producer, at |-> view'[Producer].clock[Producer],
                         row |-> index[Producer]]
      BY <1>2 DEF TypeOK
    <3> QED
      BY <1>3, <1>8, <2>1, <3>1 DEF Before
  <2>2. CASE r # s
    <3>1. written'[r] = written[r]
      BY <1>2, <2>2 DEF TypeOK
    <3> QED
      BY <1>3, <3>1, ProducerType, WriteType, StillBefore DEF PublishedInv
  <2> QED
    BY <2>1, <2>2
<1>11. MarkedInv'
  <2> SUFFICES ASSUME NEW w \in WeakObservers PROVE Marked(w)'
    BY DEF MarkedInv
  <2>1. PICK r \in Slots : r = Slot(index[w])
    BY SlotType DEF TypeOK, Threads
  <2>2. Marked(w)
    BY DEF MarkedInv
  <2>3. CASE r = s
    <3>1. \A g : Newest(r).val # Word(g, TRUE)
      BY <1>8, <2>3 DEF Word
    <3> QED
      BY <1>2, <1>5, <1>7, <2>1, <2>2, <3>1 DEF Marked, SameObservers
  <2>4. CASE r # s
    <3>1. written'[r] = written[r] /\ data'[w] = data[w]
      BY <1>2, <2>1, <2>4 DEF TypeOK
    <3> QED
      BY <1>2, <1>5, <1>7, <2>1, <2>2, <3>1 DEF Marked, SameObservers
  <2> QED
    BY <2>3, <2>4
<1>12. KeptInv'
  <2> SUFFICES ASSUME NEW r \in Slots, NEW w \in WeakObservers
               PROVE  Released(r, w)'
    BY DEF KeptInv
  <2> DEFINE a == [by |-> w, at |-> KeptAt(r, w)]
  <2>1. /\ a \in [by : Threads, at : Nat] /\ Before(a, Newest(r).view)
        /\ r = s => Before(a, view[Producer])
    BY <1>6, ObserverType DEF KeptInv, Released
  <2> HIDE DEF a
  <2>2. r = s => Before(a, view'[Producer])
    BY <1>3, <2>1, ProducerType, StillBefore
  <2> QED
    BY <1>5, <1>6, <1>7, <2>1, <2>2, KeptAtSame DEF Released, a
<1>13. KeptIsOwnRow'
  BY <1>2, <1>5 DEF KeptIsOwnRow, SameObservers
<1>14. NamedInv'
  <2>1. written'[s].row = index[Producer] /\ index'[Producer] = index[Producer]
    BY <1>2 DEF TypeOK
  <2>2. ASSUME NEW r \in Slots, Newest(r).val.valid
        PROVE  written'[r] = written[r]
    BY <1>2, <1>8, <2>2 DEF TypeOK
  <2> QED
    BY <1>1, <1>7, <2>1, <2>2 DEF NamedInv
<1> QED
  BY <1>4, <1>9, <1>10, <1>11, <1>12, <1>13, <1>14

LEMMA ValidateKeeps ==
  ASSUME WeakOrderingInv, PutValidate
  PROVE  WeakOrderingInv'
<1> USE DEF WeakOrderingInv
<1>1. PICK s \in Slots : s = Slot(index[Producer])
  BY ProducerType
<1> DEFINE L == Len(order[s])
           x == Word(Generation(index[Producer]), TRUE)
<1>2. /\ pc[Producer] = "validate" /\ pc' = [pc EXCEPT ![Producer] = "publish"]
      /\ StoreRelease(Producer, s, x)
      /\ UNCHANGED <<written, kept, data, index, before>>
  BY <1>1 DEF PutValidate, Goto
<1>3. L \in Nat \ {0} /\ s \in Atomics /\ s # TailIndex
  BY AtomicType, NewestType DEF TypeOK
<1>4. x \in Words /\ x.valid /\ x.generation = Generation(index[Producer])
  BY ProducerType DEF Word, Words
<1>5. \A g : x = Word(g, TRUE) => g = Generation(index[Producer])
  BY DEF Word
<1> HIDE DEF x
<1>6. x \in IF s = TailIndex THEN Nat ELSE Words
  BY <1>3, <1>4
<1>7. /\ OrderOK'
      /\ Len(order'[s]) = L + 1
      /\ order'[s][L + 1].val = x
      /\ order'[s][L + 1].view = view'[Producer]
      /\ \A j \in 1 .. L : order'[s][j] = order[s][j]
      /\ \A b \in Atomics \ {s} : order'[b] = order[b]
      /\ view'[Producer] \in Views
      /\ view' = [view EXCEPT ![Producer] = view'[Producer]]
      /\ view'[Producer].clock = view[Producer].clock
  BY <1>2, <1>3, <1>6, ProducerType, StoreEffect
<1>8. TypeOK'
  BY <1>2, <1>7, ProducerType DEF TypeOK, Labels
<1>9. SameObservers
  BY <1>2, <1>7, ProducerType DEF SameObservers, TypeOK
<1>10. \A r \in Slots : /\ ~Writing(r)' /\ (Writing(r) <=> r = s)
                        /\ Rows(r)' = IF r = s THEN Rows(r) + 1 ELSE Rows(r)
  <2> TAKE r \in Slots
  <2>1. /\ pc'[Producer] = "publish" /\ index'[Producer] = index[Producer]
        /\ pc[Producer] = "validate" /\ r \in Nat /\ s \in Nat
    BY <1>2, ProducerType, AtomicType DEF TypeOK
  <2>2. ~Writing(r)' /\ (Writing(r) <=> r = s)
    BY <1>1, <2>1 DEF Writing
  <2> DEFINE g == Generation(index[Producer])
  <2>3. Rows(r) = g + (IF r < s THEN 1 ELSE 0)
    BY <1>1, <2>1 DEF Rows
  <2>4. Rows(r)' = g + (IF r < s \/ r = s THEN 1 ELSE 0)
    BY <1>1, <2>1 DEF Rows
  <2>5. g \in Nat
    BY ProducerType
  <2> HIDE DEF g
  <2> QED
    BY <2>1, <2>2, <2>3, <2>4, <2>5
<1>11. \A r \in Slots \ {s} : order'[r] = order[r] /\ Newest(r)' = Newest(r)
  BY <1>7, AtomicType DEF Newest
<1>12. Newest(s)'.val = x /\ Newest(s)'.view = view'[Producer]
  BY <1>7 DEF Newest
<1>13. L = Generation(index[Producer]) + 1
  BY <1>1, <1>2, <1>3, ProducerType, AtomicType DEF RunsInv, Rows
<1>14. RunsInv'
  <2> SUFFICES ASSUME NEW r \in Slots
               PROVE  /\ Len(order'[r]) = Rows(r)' + 1
                      /\ \A i \in 1 .. Len(order'[r]) : order'[r][i].val.valid =>
                           /\ i = Len(order'[r])
                           /\ order'[r][i].val.generation = i - 2
    BY <1>10 DEF RunsInv
  <2>1. CASE r # s
    BY <1>10, <1>11, <2>1 DEF RunsInv
  <2>2. CASE r = s
    <3>1. Len(order'[s]) = Rows(s)' + 1
      <4>1. L = Rows(s) + 1 /\ Rows(s)' = Rows(s) + 1
        BY <1>10 DEF RunsInv
      <4> QED
        BY <4>1, <1>7
    <3>2. \A i \in 1 .. L : ~order'[s][i].val.valid
      BY <1>7, <1>10 DEF RunsInv
    <3>3. order'[s][L + 1].val.generation = L + 1 - 2
      BY <1>3, <1>4, <1>7, <1>13, ProducerType
    <3> QED
      BY <1>3, <1>7, <2>2, <3>1, <3>2, <3>3
  <2> QED
    BY <2>1, <2>2
<1>15. PublishedInv'
  <2> SUFFICES ASSUME NEW r \in Slots
               PROVE  /\ Before(written[r], view'[Producer])
                      /\ Newest(r)'.val.valid => Before(written[r], Newest(r)'.view)
    BY <1>2 DEF PublishedInv
  <2>1. Before(written[r], view'[Producer])
    BY <1>7, WriteType DEF PublishedInv, Before
  <2>2. Newest(r)'.val.valid => Before(written[r], Newest(r)'.view)
    BY <1>11, <1>12, <2>1 DEF PublishedInv
  <2> QED
    BY <2>1, <2>2
<1>16. MarkedInv'
  <2> SUFFICES ASSUME NEW w \in WeakObservers PROVE Marked(w)'
    BY DEF MarkedInv
  <2>1. PICK r \in Slots : r = Slot(index[w])
    BY SlotType DEF TypeOK, Threads
  <2>2. Marked(w)
    BY DEF MarkedInv
  <2>3. CASE r = s
    <3>1. before[w] + 2 <= L => Newest(s)'.val # Word(before[w], TRUE)
      <4>1. before[w] + 2 <= L => before[w] # Generation(index[Producer])
        BY <1>3, <1>13, ProducerType DEF TypeOK
      <4> QED
        BY <1>5, <1>12, <4>1
    <3>2. before[w] + 2 <= L => before[w] + 2 <= Len(order'[s])
      BY <1>3, <1>7 DEF TypeOK
    <3> QED
      BY <1>2, <1>9, <2>1, <2>2, <2>3, <3>1, <3>2 DEF Marked, SameObservers
  <2>4. CASE r # s
    BY <1>2, <1>9, <1>11, <2>1, <2>2, <2>4 DEF Marked, SameObservers
  <2> QED
    BY <2>3, <2>4
<1>17. KeptInv'
  <2> SUFFICES ASSUME NEW r \in Slots, NEW w \in WeakObservers
               PROVE  Released(r, w)'
    BY DEF KeptInv
  <2> DEFINE a == [by |-> w, at |-> KeptAt(r, w)]
  <2>1. /\ Before(a, Newest(r).view)
        /\ r = s => Before(a, view[Producer])
    BY <1>10 DEF KeptInv, Released
  <2>2. Before(a, Newest(r)'.view)
    BY <1>7, <1>11, <1>12, <2>1 DEF Before
  <2> HIDE DEF a
  <2> QED
    BY <1>9, <1>10, <2>2, KeptAtSame DEF Released, a
<1>18. KeptIsOwnRow'
  BY <1>2, <1>9 DEF KeptIsOwnRow, SameObservers
<1>19. NamedInv'
  <2>1. pc'[Producer] # "validate"
    BY <1>2, ProducerType DEF TypeOK
  <2>2. /\ written[s].row = index[Producer] /\ index[Producer] \in Nat
        /\ Newest(s)'.val.generation = Generation(index[Producer])
    BY <1>1, <1>2, <1>4, <1>12, ProducerType DEF NamedInv
  <2> QED
    BY <1>1, <1>2, <1>11, <2>1, <2>2 DEF NamedInv
<1> QED
  BY <1>8, <1>14, <1>15, <1>16, <1>17, <1>18, <1>19

(* The next put counts the row among the earlier ones of its element.      *)
LEMMA PublishKeeps ==
  ASSUME WeakOrderingInv, PutPublish
  PROVE  WeakOrderingInv'
<1> USE DEF WeakOrderingInv
<1> DEFINE n == index[Producer]
<1>1. /\ pc[Producer] = "publish" /\ pc' = [pc EXCEPT ![Producer] = "idle"]
      /\ StoreRelease(Producer, TailIndex, n + 1)
      /\ index' = [index EXCEPT ![Producer] = @ + 1]
      /\ UNCHANGED <<written, kept, data, before>>
  BY DEF PutPublish, Goto
<1>2. n + 1 \in IF TailIndex = TailIndex THEN Nat ELSE Words
  BY ProducerType
<1>3. /\ OrderOK'
      /\ \A b \in Atomics \ {TailIndex} : order'[b] = order[b]
      /\ view'[Producer] \in Views
      /\ view' = [view EXCEPT ![Producer] = view'[Producer]]
      /\ view'[Producer].clock = view[Producer].clock
  BY <1>1, <1>2, ProducerType, AtomicType, StoreEffect
<1>4. TypeOK'
  BY <1>1, <1>3, ProducerType DEF TypeOK, Labels
<1>5. SameObservers
  BY <1>1, <1>3, ProducerType DEF SameObservers, TypeOK
<1>6. \A r \in Slots : order'[r] = order[r] /\ Newest(r)' = Newest(r)
  BY <1>3, AtomicType DEF Newest
<1>7. \A r \in Slots : ~Writing(r)' /\ ~Writing(r)
  BY <1>1, ProducerType DEF Writing, TypeOK
<1>8. ASSUME NEW r \in Slots PROVE Rows(r)' = Rows(r)
  <2>1. index'[Producer] = n + 1 /\ pc'[Producer] = "idle"
    BY <1>1, ProducerType DEF TypeOK
  <2>2. r \in 0 .. Size - 1 /\ Slot(n) \in 0 .. Size - 1
    BY ProducerType DEF Slots
  <2>3. Rows(r) = Generation(n) + (IF r <= Slot(n) THEN 1 ELSE 0)
    BY <1>1, <2>2, SizeType DEF Rows
  <2>4. Rows(r)' = Generation(n + 1) + (IF r < Slot(n + 1) THEN 1 ELSE 0)
    BY <2>1 DEF Rows
  <2>5. CASE Slot(n) = Size - 1
    <3>1. Slot(n + 1) = 0 /\ Generation(n + 1) = Generation(n) + 1
      BY <2>5, ProducerType, NextIndex
    <3> QED
      BY <2>2, <2>3, <2>4, <2>5, <3>1, ProducerType, SizeType
  <2>6. CASE Slot(n) # Size - 1
    <3>1. Slot(n + 1) = Slot(n) + 1 /\ Generation(n + 1) = Generation(n)
      BY <2>6, ProducerType, NextIndex
    <3> QED
      BY <2>2, <2>3, <2>4, <2>6, <3>1, ProducerType, SizeType
  <2> QED
    BY <2>5, <2>6
<1>9. RunsInv'
  BY <1>6, <1>7, <1>8 DEF RunsInv
<1>10. PublishedInv'
  BY <1>1, <1>3, <1>6, WriteType DEF PublishedInv, Before
<1>11. MarkedInv'
  <2> SUFFICES ASSUME NEW w \in WeakObservers PROVE Marked(w)'
    BY DEF MarkedInv
  <2>1. PICK r \in Slots : r = Slot(index[w])
    BY SlotType DEF TypeOK, Threads
  <2>2. Marked(w)
    BY DEF MarkedInv
  <2> QED
    BY <1>1, <1>5, <1>6, <2>1, <2>2 DEF Marked, SameObservers
<1>12. KeptInv'
  BY <1>5, <1>6, <1>7, KeptAtSame DEF KeptInv, Released
<1>13. KeptIsOwnRow'
  BY <1>1, <1>5 DEF KeptIsOwnRow, SameObservers
<1>14. NamedInv'
  <2>1. pc'[Producer] # "validate"
    BY <1>1, ProducerType DEF TypeOK
  <2> QED
    BY <1>1, <1>6, <2>1 DEF NamedInv
<1> QED
  BY <1>4, <1>9, <1>10, <1>11, <1>12, <1>13, <1>14

(***************************************************************************)
(* The theorems.                                                           *)
(***************************************************************************)
LEMMA InitWeakOrdering == Init => WeakOrderingInv
<1> SUFFICES ASSUME Init PROVE WeakOrderingInv
  OBVIOUS
<1>1. NoView \in Views /\ \A t \in Threads : NoView.clock[t] = 0
  BY DEF NoView, Views
<1> DEFINE v(a) == IF a = TailIndex THEN 0 ELSE Word(0, FALSE)
           e(a) == [val |-> v(a), view |-> NoView]
<1>2. order = [a \in Atomics |-> <<e(a)>>]
  BY DEF Init
<1>3. ASSUME NEW a \in Atomics
      PROVE  e(a) \in Runs(a) /\ e(a).view = NoView /\ e(a).val = v(a)
  <2>1. v(a) \in IF a = TailIndex THEN Nat ELSE Words
    BY DEF Word, Words
  <2> HIDE DEF v
  <2> QED
    BY <1>1, <2>1 DEF Runs
<1>4. \A s \in Slots : s \in Atomics /\ v(s) = Word(0, FALSE) /\ ~v(s).valid
  BY AtomicType DEF Word
<1> HIDE DEF v, e
<1>5. ASSUME NEW a \in Atomics
      PROVE  /\ order[a] \in Seq(Runs(a)) /\ order[a] # <<>>
             /\ Len(order[a]) = 1 /\ order[a][1] = e(a)
  <2>1. order[a] = <<e(a)>>
    BY <1>2
  <2> QED
    BY <1>3, <2>1
<1>6. OrderOK
  BY <1>2, <1>5 DEF OrderOK
<1>7. TypeOK
  BY <1>1, <1>6 DEF Init, TypeOK, Labels, Torn
<1>8. \A s \in Slots : /\ Len(order[s]) = 1 /\ ~order[s][1].val.valid
                       /\ Newest(s).view = NoView /\ ~Newest(s).val.valid
  BY <1>3, <1>4, <1>5 DEF Newest
<1>9. index[Producer] = 0 /\ pc[Producer] = "idle"
  BY DEF Init, Threads
<1>10. \A s \in Slots : Rows(s) = 0
  <2>1. Slot(0) = 0 /\ Generation(0) = 0
    <3>1. /\ 0 = Size * (0 \div Size) + (0 % Size)
          /\ 0 \div Size \in Int /\ 0 % Size \in 0 .. Size - 1
      BY SizeType, Division
    <3>2. \A d \in Int : Size * d < Size /\ -Size < Size * d => d = 0
      BY SizeType, Z3
    <3>3. 0 \div Size = 0
      BY <3>1, <3>2, SizeType
    <3> QED
      BY <3>1, <3>3, SizeType DEF Slot, Generation
  <2> QED
    BY <1>9, <2>1 DEF Rows, Slots
<1>11. RunsInv
  <2> SUFFICES ASSUME NEW s \in Slots
               PROVE  /\ Len(order[s]) = Rows(s) + 1
                      /\ \A i \in 1 .. Len(order[s]) : ~order[s][i].val.valid
    BY DEF RunsInv
  <2>1. Len(order[s]) = 1 /\ ~order[s][1].val.valid /\ Rows(s) = 0
    BY <1>8, <1>10
  <2> QED
    BY <2>1
<1>12. \A s \in Slots : written[s] = [by |-> Producer, at |-> 0, row |-> Torn]
  BY DEF Init
<1>13. view[Producer] = NoView
  BY DEF Init, Threads
<1>14. PublishedInv
  BY <1>1, <1>8, <1>12, <1>13, ProducerType, <1>7 DEF PublishedInv, Before
<1>15. \A w \in WeakObservers : pc[w] = "idle"
  BY DEF Init, Threads
<1>16. MarkedInv /\ KeptIsOwnRow
  BY <1>15 DEF MarkedInv, Marked, KeptIsOwnRow
<1>17. \A s \in Slots, w \in WeakObservers : KeptAt(s, w) = 0 /\ w \in Threads
  BY <1>15 DEF KeptAt, Init, Threads
<1>18. \A s \in Slots : ~Writing(s)
  BY <1>9 DEF Writing
<1>19. KeptInv
  BY <1>1, <1>8, <1>17, <1>18 DEF KeptInv, Released, Before
<1>20. NamedInv
  BY <1>8, <1>9 DEF NamedInv
<1> QED
  BY <1>7, <1>11, <1>14, <1>16, <1>19, <1>20 DEF WeakOrderingInv

LEMMA NextWeakOrdering == WeakOrderingInv /\ [Next]_vars => WeakOrderingInv'
<1> SUFFICES ASSUME WeakOrderingInv, [Next]_vars PROVE WeakOrderingInv'
  OBVIOUS
<1>1. CASE Put
  BY <1>1, InvalidateKeeps, WriteKeeps, ValidateKeeps, PublishKeeps DEF Put
<1>2. CASE \E w \in WeakObservers : Weak(w)
  <2>1. PICK w \in WeakObservers : Weak(w)
    BY <1>2
  <2> QED
    BY <2>1, WindowKeeps, MarkKeeps, CopyKeeps, UnmarkKeeps, KeepKeeps DEF Weak
<1>3. CASE UNCHANGED vars
  BY <1>3 DEF vars, WeakOrderingInv, TypeOK, OrderOK, RunsInv, PublishedInv,
              MarkedInv, Marked, KeptInv, Released, KeptAt, KeptIsOwnRow, Newest,
              NamedInv, Rows, Writing
<1> QED
  BY <1>1, <1>2, <1>3 DEF Next

(* The inductive invariant: only the newest run of a state word is valid,  *)
(* and what the runs publish covers every write and every kept copy.       *)
THEOREM WeakOrderingCorrect == Spec => []WeakOrderingInv
  BY InitWeakOrdering, NextWeakOrdering, PTL DEF Spec

(* A copy that weak_observe returns was made during no write and is the    *)
(* row that was asked for.                                                 *)
THEOREM KeptIsOwnRowCorrect == Spec => []KeptIsOwnRow
<1>1. WeakOrderingInv => KeptIsOwnRow
  BY DEF WeakOrderingInv
<1> QED
  BY <1>1, WeakOrderingCorrect, PTL

(* And it happens before the next write of its element.                    *)
THEOREM KeptBeforeWriteCorrect == Spec => []KeptBeforeWrite
<1>1. WeakOrderingInv => KeptBeforeWrite
  <2> SUFFICES ASSUME WeakOrderingInv, pc[Producer] = "write",
                      NEW w \in WeakObservers
               PROVE  Before([by |-> w, at |-> KeptAt(Slot(index[Producer]), w)],
                             view[Producer])
    BY DEF KeptBeforeWrite, KeptAt
  <2>1. Slot(index[Producer]) \in Slots
    BY ProducerType DEF WeakOrderingInv
  <2> QED
    BY <2>1 DEF WeakOrderingInv, KeptInv, Released, Writing
<1> QED
  BY <1>1, WeakOrderingCorrect, PTL
=============================================================================
