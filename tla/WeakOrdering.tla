---------------------------- MODULE WeakOrdering ----------------------------
(***************************************************************************)
(* The memory orderings between try_put and weak_observe in                *)
(* src/src/table_ipc/spsc.rs.  Nothing keeps a weak observer from copying  *)
(* an element that is being written: the copy is discarded then, and this  *)
(* module shows that the copies that are kept race with no write, as far   *)
(* as Views reaches.                                                       *)
(*                                                                         *)
(* The state word of an element is changed by read-modify-write operations *)
(* only, except for the store that sets the valid bit.  A read-modify-     *)
(* write goes directly behind what it reads, so the modification order is  *)
(* a list of runs, each begun by a store; a thread that has not seen the   *)
(* newest run may still add to the end of an older one.                    *)
(* The observers' own bits are left out: no check of the code needs them   *)
(* as long as generations do not wrap (SpscTable has them).                *)
(***************************************************************************)
EXTENDS Integers, Sequences

CONSTANTS
  Size,           \* elements of the ring
  Producer, WeakObservers,
  MaxRows,        \* bound on the rows put and asked for
  MaxCopies       \* bound on the copies an observer makes

Threads == {Producer} \cup WeakObservers
Slots   == 0 .. Size - 1
Atomics == Slots \cup {Size}   \* the state word of each element, and tail
TailIndex    == Size

ASSUME WeakOrderingAssumption ==
  /\ Size \in Nat \ {0} /\ \E k \in 0 .. Size : Size = 2^k
  /\ MaxRows \in Nat /\ MaxCopies \in Nat /\ Producer \notin WeakObservers

INSTANCE Views

VARIABLES
  order,    \* runs of each state word and entries of tail: value and view
  view,     \* the view of each thread
  written,  \* the last write of each element: the producer's access, the row
  kept,     \* the clock of each observer's last kept read of each element
  data,     \* local of an observer: the row that its present copy got
  pc,
  index,    \* current_tail; the index of an observer's cursor
  before    \* the generation an observer saw before it copied

vars == <<order, view, written, kept, data, pc, index, before>>

(* No row: uninitialised memory, and what a copy gets that races with a    *)
(* write.                                                                  *)
Torn == -1

(* A state word: its generation and whether the valid bit is set.  The     *)
(* word is 0 at first.                                                     *)
Word(g, v)    == [generation |-> g, valid |-> v]
Slot(i)       == i % Size
Generation(i) == i \div Size

Init ==
  /\ order = [a \in Atomics |->
       <<[val |-> IF a = TailIndex THEN 0 ELSE Word(0, FALSE), view |-> NoView]>>]
  /\ view = [t \in Threads |-> NoView]
  /\ written = [s \in Slots |-> [by |-> Producer, at |-> 0, row |-> Torn]]
  /\ kept = [s \in Slots |-> [w \in WeakObservers |-> 0]]
  /\ data = [w \in WeakObservers |-> Torn]
  /\ pc = [t \in Threads |-> "idle"]
  /\ index = [t \in Threads |-> 0]
  /\ before = [w \in WeakObservers |-> 0]

Goto(t, label) == pc' = [pc EXCEPT ![t] = label]

Readable(t, a) == {i \in 1 .. Len(order[a]) : i >= view[t].seen[a]}
-----------------------------------------------------------------------------
(* Read-modify-writes of run i of a: the run ends with x afterwards.  It   *)
(* keeps what it had published, as a release sequence does.                *)

RmwRelease(t, a, i, x) ==
  LET u == See(view[t], a, i) IN
    /\ order' = [order EXCEPT ![a][i] =
                   [val |-> x, view |-> Join(order[a][i].view, u)]]
    /\ view' = [view EXCEPT ![t] = u]

RmwAcquire(t, a, i, x) ==
  /\ order' = [order EXCEPT ![a][i].val = x]
  /\ view' = [view EXCEPT ![t] = See(Join(@, order[a][i].view), a, i)]

RmwAcqRel(t, a, i, x) ==
  LET u == See(Join(view[t], order[a][i].view), a, i) IN
    /\ order' = [order EXCEPT ![a][i] = [val |-> x, view |-> u]]
    /\ view' = [view EXCEPT ![t] = u]

StoreRelaxed(t, a, x) ==
  /\ order' = [order EXCEPT ![a] = Append(@, [val |-> x, view |-> NoView])]
  /\ view' = [view EXCEPT ![t] = See(@, a, Len(order[a]) + 1)]

StoreRelease(t, a, x) ==
  LET u == See(view[t], a, Len(order[a]) + 1) IN
    /\ order' = [order EXCEPT ![a] = Append(@, [val |-> x, view |-> u])]
    /\ view' = [view EXCEPT ![t] = u]
-----------------------------------------------------------------------------
(* try_put, as far as it meets weak observers.                             *)

(* Mutant: the swap has release ordering only.                             *)
PutInvalidateRelease ==
  LET s == Slot(index[Producer]) IN
    /\ pc[Producer] = "idle" /\ index[Producer] < MaxRows
    /\ RmwRelease(Producer, s, Len(order[s]),
                  Word(Generation(index[Producer]), FALSE))
    /\ Goto(Producer, "write")
    /\ UNCHANGED <<written, kept, data, index, before>>

(* The producer wrote the newest run of each state word itself.            *)
PutInvalidate ==
  LET s == Slot(index[Producer]) IN
    /\ pc[Producer] = "idle" /\ index[Producer] < MaxRows
    /\ RmwAcqRel(Producer, s, Len(order[s]),
                 Word(Generation(index[Producer]), FALSE))
    /\ Goto(Producer, "write")
    /\ UNCHANGED <<written, kept, data, index, before>>

(* A write spoils the copies of its element that are not checked yet.      *)
PutWrite ==
  LET s == Slot(index[Producer]) IN
    /\ pc[Producer] = "write"
    /\ view' = [view EXCEPT ![Producer] = Tick(@, Producer)]
    /\ written' = [written EXCEPT ![s] =
                     [by |-> Producer, at |-> view'[Producer].clock[Producer],
                      row |-> index[Producer]]]
    /\ data' = [w \in WeakObservers |->
                  IF pc[w] = "copied" /\ Slot(index[w]) = s THEN Torn ELSE data[w]]
    /\ Goto(Producer, "validate")
    /\ UNCHANGED <<order, kept, index, before>>

(* Mutant: the valid bit is set with relaxed ordering.                     *)
PutValidateRelaxed ==
  /\ pc[Producer] = "validate"
  /\ StoreRelaxed(Producer, Slot(index[Producer]),
                  Word(Generation(index[Producer]), TRUE))
  /\ Goto(Producer, "publish")
  /\ UNCHANGED <<written, kept, data, index, before>>

PutValidate ==
  /\ pc[Producer] = "validate"
  /\ StoreRelease(Producer, Slot(index[Producer]),
                  Word(Generation(index[Producer]), TRUE))
  /\ Goto(Producer, "publish")
  /\ UNCHANGED <<written, kept, data, index, before>>

PutPublish ==
  /\ pc[Producer] = "publish"
  /\ StoreRelease(Producer, TailIndex, index[Producer] + 1)
  /\ index' = [index EXCEPT ![Producer] = @ + 1]
  /\ Goto(Producer, "idle")
  /\ UNCHANGED <<written, kept, data, before>>

Put == PutInvalidate \/ PutWrite \/ PutValidate \/ PutPublish
-----------------------------------------------------------------------------
(* weak_observe.                                                           *)

(* Any cursor; the tail is loaded with relaxed ordering.                   *)
WeakWindow(w) ==
  /\ pc[w] = "idle" /\ view[w].clock[w] < MaxCopies
  /\ \E c \in 0 .. MaxRows, i \in Readable(w, TailIndex) :
       /\ c <= order[TailIndex][i].val /\ c >= order[TailIndex][i].val - Size
       /\ view' = [view EXCEPT ![w] = See(@, TailIndex, i)]
       /\ index' = [index EXCEPT ![w] = c]
  /\ Goto(w, "mark")
  /\ UNCHANGED <<order, written, kept, data, before>>

WeakMark(w) ==
  LET s == Slot(index[w]) IN
    /\ pc[w] = "mark"
    /\ \E i \in Readable(w, s) :
         LET word == order[s][i].val IN
           /\ RmwAcquire(w, s, i, word)
           /\ before' = [before EXCEPT ![w] = word.generation]
           /\ Goto(w, IF word = Word(Generation(index[w]), TRUE)
                      THEN "copy" ELSE "idle")
    /\ UNCHANGED <<written, kept, data, index>>

(* The copy races with a write that does not happen before it.             *)
WeakCopy(w) ==
  /\ pc[w] = "copy"
  /\ view' = [view EXCEPT ![w] = Tick(@, w)]
  /\ LET last == written[Slot(index[w])] IN
       data' = [data EXCEPT ![w] = IF Before(last, view[w]) THEN last.row ELSE Torn]
  /\ Goto(w, "copied")
  /\ UNCHANGED <<order, written, kept, index, before>>

WeakUnmark(w) ==
  LET s == Slot(index[w]) IN
    /\ pc[w] = "copied"
    /\ \E i \in Readable(w, s) :
         LET word == order[s][i].val IN
           /\ RmwAcqRel(w, s, i, word)
           /\ Goto(w, IF word = Word(before[w], TRUE) THEN "keep" ELSE "idle")
    /\ UNCHANGED <<written, kept, data, index, before>>

(* The result is returned: the copy was made at the present clock.         *)
WeakKeep(w) ==
  /\ pc[w] = "keep"
  /\ kept' = [kept EXCEPT ![Slot(index[w])][w] = view[w].clock[w]]
  /\ Goto(w, "idle")
  /\ UNCHANGED <<order, view, written, data, index, before>>

Weak(w) ==
  WeakWindow(w) \/ WeakMark(w) \/ WeakCopy(w) \/ WeakUnmark(w) \/ WeakKeep(w)
-----------------------------------------------------------------------------
Next == Put \/ \E w \in WeakObservers : Weak(w)

Spec == Init /\ [][Next]_vars
-----------------------------------------------------------------------------
(* A copy that is kept was made during no write and got the very row that  *)
(* was asked for, "this guarantees that if the state update in that        *)
(* function succeeds then the read was correct" (spsc.rs:320-323).         *)
KeptIsOwnRow == \A w \in WeakObservers : pc[w] = "keep" => data[w] = index[w]

(* A copy that was kept happens before the next write of its element: "the *)
(* read stays before any writes to this slot" (spsc.rs:485-487).           *)
KeptBeforeWrite ==
  \A w \in WeakObservers :
    LET s == Slot(index[Producer])
        at == IF pc[w] = "keep" /\ Slot(index[w]) = s
              THEN view[w].clock[w] ELSE kept[s][w] IN
      pc[Producer] = "write" => Before([by |-> w, at |-> at], view[Producer])
=============================================================================
