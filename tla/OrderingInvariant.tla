------------------------- MODULE OrderingInvariant -------------------------
(***************************************************************************)
(* The inductive invariant of RingOrdering: what each view has to cover    *)
(* for the accesses to the buffer to be ordered.  The entries of an atomic *)
(* carry the values 0, 1, 2, ..., so that an entry's place tells its value.*)
(***************************************************************************)
EXTENDS RingOrdering

PutLabels  == {"detached", "idle", "scan", "write", "publish"}
TakeLabels == {"detached", "idle", "check", "read", "release"}

TypeOK ==
  /\ order \in [Atomics -> Seq([val : Int, view : Views])]
  /\ view \in [Threads -> Views] /\ mutex_view \in Views
  /\ producer \in Producers \cup {Nobody}
  /\ consumer \in Consumers \cup {Nobody}
  /\ buffer \in [Slots -> Int]
  /\ written \in [Slots -> [by : Threads, at : Nat]]
  /\ reads \in [Slots -> [Threads -> Nat]]
  /\ pc \in [Threads -> PutLabels \cup TakeLabels]
  /\ \A t \in Threads : pc[t] \in IF t \in Producers THEN PutLabels ELSE TakeLabels
  /\ index \in [Threads -> Int]
  /\ scan \subseteq Heads

(* u is covered by v: v knows all that u knows.                            *)
Leq(u, v) ==
  /\ \A t \in Threads : u.clock[t] <= v.clock[t]
  /\ \A a \in Atomics : u.seen[a] <= v.seen[a]

Dropped(a) == a \in Observers /\ pc[a] = "detached"

(* The place of the entry with the present index.                          *)
Present(a) == IF Dropped(a) THEN Len(order[a]) - 1 ELSE Len(order[a])

RowsPut == Len(order["tail"]) - 1

EntriesInv ==
  \A a \in Atomics :
    /\ Present(a) >= 1
    /\ \A i \in 1 .. Len(order[a]) :
         /\ order[a][i].val = IF i <= Present(a) THEN i - 1 ELSE Unused
         /\ order[a][i].view.seen[a] = i
    /\ order[a][1].view = NoView

(* A view that has got past an entry covers what the entry published: own  *)
(* entries are known, all others are loaded with acquire ordering.         *)
Sound(ord, u) ==
  \A a \in Atomics :
    /\ u.seen[a] <= Len(ord[a])
    /\ \A i \in 1 .. Len(ord[a]) : i <= u.seen[a] => Leq(ord[a][i].view, u)

ViewsInv ==
  /\ \A t \in Threads : Sound(order, view[t])
  /\ Sound(order, mutex_view)
  /\ \A a \in Atomics : \A i \in 1 .. Len(order[a]) : Sound(order, order[a][i].view)

(* The view that the writer of an atomic has, or that waits for it under   *)
(* the mutex.                                                              *)
TailView == IF producer = Nobody THEN mutex_view ELSE view[producer]

HeadView(a) ==
  IF a \in Observers THEN view[a]
  ELSE IF consumer = Nobody THEN mutex_view ELSE view[consumer]

OwnerInv ==
  /\ \A p \in Producers : pc[p] # "detached" <=> producer = p
  /\ \A c \in Consumers : pc[c] # "detached" <=> consumer = c
  /\ TailView.seen["tail"] = Len(order["tail"])
  /\ \A a \in Heads : HeadView(a).seen[a] = Len(order[a])

Putting == {p \in Producers : pc[p] \in {"scan", "write", "publish"}}

(* Rows with an index below this one are in the buffer.                    *)
Written == IF \E p \in Producers : pc[p] = "publish" THEN RowsPut + 1 ELSE RowsPut

(* Rows with an index below this one were read by the reader of head a.    *)
Taken(a) ==
  IF \E r \in Takers : HeadOf(r) = a /\ pc[r] = "release"
  THEN Present(a) ELSE Present(a) - 1

(* The producer has the index of the next row, a reader that in its head.  *)
IndexInv ==
  /\ \A p \in Putting : index[p] = RowsPut
  /\ \A r \in Takers : pc[r] \in {"check", "read", "release"} =>
       index[r] = Present(HeadOf(r)) - 1
  /\ (\E p \in Producers : pc[p] \in {"write", "publish"}) => scan = {}

(* A head that the producer may still load leaves room for the rows there  *)
(* are, and one it has loaded in this try_put for one more; a reader has   *)
(* seen the rows below its head, and one more before it reads.             *)
WindowInv ==
  /\ \A a \in Heads : \A i \in 1 .. Len(order[a]) :
       i >= TailView.seen[a] /\ i <= Present(a) =>
         /\ RowsPut <= i + Size - 2
         /\ (Putting # {} /\ a \notin scan) => RowsPut + 1 <= i + Size - 2
  /\ \A a \in Heads : HeadView(a).seen["tail"] >= Present(a)
  /\ \A r \in Takers : pc[r] \in {"read", "release"} =>
       view[r].seen["tail"] > Present(HeadOf(r))

(* The last rows are in place, and whoever has seen the tail behind one    *)
(* has its write behind him.                                               *)
WritesInv ==
  /\ \A s \in Slots : Before(written[s], TailView)
  /\ \A k \in 0 .. RowsPut : Written - Size <= k /\ k < Written =>
       /\ buffer[Slot(k)] = k
       /\ k < RowsPut => Before(written[Slot(k)], order["tail"][k + 2].view)

(* A head covers the reads of all rows below it: an element that was read  *)
(* since has one of the rows from there on.                                *)
ReadsInv ==
  \A r \in Takers, s \in Slots :
    LET a == HeadOf(r) IN
      /\ reads[s][r] <= HeadView(a).clock[r]
      /\ \A i \in 1 .. Len(order[a]) :
           \/ reads[s][r] <= order[a][i].view.clock[r]
           \/ \E k \in i - 1 .. Taken(a) - 1 : Slot(k) = s

OrderingInv ==
  /\ TypeOK /\ EntriesInv /\ ViewsInv /\ OwnerInv /\ IndexInv
  /\ WindowInv /\ WritesInv /\ ReadsInv
=============================================================================
