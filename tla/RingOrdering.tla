---------------------------- MODULE RingOrdering ----------------------------
(***************************************************************************)
(* The memory orderings of try_put and try_take_for_head in                *)
(* src/src/table_ipc/spsc.rs.  SpscTable interleaves accesses to one       *)
(* memory; here an atomic is its modification order and a load may return  *)
(* any entry that its thread has not got past, so that the Relaxed,        *)
(* Acquire and Release of each access are what keeps accesses to the       *)
(* buffer apart.  Strong observers are attached from the beginning, as in  *)
(* the benchmark; producers and consumers hand their role over through the *)
(* attachment mutex.  Weak observers are WeakOrdering.                     *)
(***************************************************************************)
EXTENDS Integers, Sequences

CONSTANTS
  Size,       \* elements of the ring
  Producers, Consumers, Observers,
  MaxRows     \* bound on the rows put

Takers  == Consumers \cup Observers
Threads == Producers \cup Takers

(* head_index is "head", an observer's head has the observer's name.       *)
Heads   == {"head"} \cup Observers
Atomics == {"tail"} \cup Heads
Slots   == 0 .. Size - 1
Unused  == -1                      \* usize::MAX
Nobody  == "nobody"

ASSUME OrderingAssumption ==
  /\ Size \in Nat \ {0} /\ \E k \in 0 .. Size : Size = 2^k
  /\ MaxRows \in Nat /\ Producers # {}
  /\ Producers \cap Takers = {} /\ Consumers \cap Observers = {}
  /\ Threads \cap {"tail", "head", Nobody} = {}

INSTANCE Views

VARIABLES
  order,       \* the entries of each atomic: value and published view
  view,        \* the view of each thread
  mutex_view,  \* what the last holder of attachment_state published
  producer, consumer,  \* who has the handle, or Nobody
  buffer,      \* the row in each element
  written,     \* the last write of each element, an access
  reads,       \* the clock of each thread's last read of each element
  pc,
  index,       \* current_tail of a producer, current_head of a taker
  scan         \* the heads try_put has still to load

memory  == <<order, buffer, written, reads>>
handles == <<mutex_view, producer, consumer>>
vars    == <<order, view, mutex_view, producer, consumer, buffer, written,
             reads, pc, index, scan>>

Init ==
  /\ order = [a \in Atomics |-> <<[val |-> 0, view |-> NoView]>>]
  /\ view = [t \in Threads |-> NoView]
  /\ mutex_view = NoView
  /\ producer = Nobody /\ consumer = Nobody
  /\ buffer = [s \in Slots |-> -1]
  /\ written = [s \in Slots |-> [by |-> CHOOSE t \in Threads : TRUE, at |-> 0]]
  /\ reads = [s \in Slots |-> [t \in Threads |-> 0]]
  /\ pc = [t \in Threads |-> IF t \in Observers THEN "idle" ELSE "detached"]
  /\ index = [t \in Threads |-> 0]
  /\ scan = {}

Goto(t, label) == pc' = [pc EXCEPT ![t] = label]

(* mod_len.                                                                *)
Slot(i) == i % Size
-----------------------------------------------------------------------------
(* Atomic loads and stores.                                                *)

Readable(t, a) ==
  {i \in 1 .. Len(order[a]) : i >= view[t].seen[a]}

(* Entry i of a is read, with relaxed or with acquire ordering.            *)
LoadRelaxed(t, a, i) == view' = [view EXCEPT ![t] = See(@, a, i)]

LoadAcquire(t, a, i) ==
  view' = [view EXCEPT ![t] = See(Join(@, order[a][i].view), a, i)]

(* The new entry is the last: an atomic has one writer at a time.          *)
StoreRelaxed(t, a, x) ==
  /\ order' = [order EXCEPT ![a] = Append(@, [val |-> x, view |-> NoView])]
  /\ view' = [view EXCEPT ![t] = See(@, a, Len(order[a]) + 1)]

StoreRelease(t, a, x) ==
  LET published == See(view[t], a, Len(order[a]) + 1) IN
    /\ order' = [order EXCEPT ![a] = Append(@, [val |-> x, view |-> published])]
    /\ view' = [view EXCEPT ![t] = published]
-----------------------------------------------------------------------------
(* attach_* and drop of producer and consumer, under attachment_state.     *)

(* Mutant: the flag is set without taking the mutex.                       *)
LockNot(t) == UNCHANGED <<view, mutex_view>>

Lock(t) ==
  /\ view' = [view EXCEPT ![t] = Join(@, mutex_view)]
  /\ mutex_view' = Join(mutex_view, view[t])

AttachProducer(p) ==
  /\ pc[p] = "detached" /\ producer = Nobody
  /\ Lock(p)
  /\ producer' = p
  /\ Goto(p, "idle")
  /\ UNCHANGED <<memory, consumer, index, scan>>

AttachConsumer(c) ==
  /\ pc[c] = "detached" /\ consumer = Nobody
  /\ Lock(c)
  /\ consumer' = c
  /\ Goto(c, "idle")
  /\ UNCHANGED <<memory, producer, index, scan>>

Drop(t) ==
  /\ pc[t] = "idle" /\ t \notin Observers
  /\ Lock(t)
  /\ producer' = IF t = producer THEN Nobody ELSE producer
  /\ consumer' = IF t = consumer THEN Nobody ELSE consumer
  /\ Goto(t, "detached")
  /\ UNCHANGED <<memory, index, scan>>

(* Mutant: usize::MAX is stored with relaxed ordering.                     *)
DropObserverRelaxed(o) ==
  /\ pc[o] = "idle"
  /\ StoreRelaxed(o, o, Unused)
  /\ Goto(o, "detached")
  /\ UNCHANGED <<handles, buffer, written, reads, index, scan>>

DropObserver(o) ==
  /\ pc[o] = "idle"
  /\ StoreRelease(o, o, Unused)
  /\ Goto(o, "detached")
  /\ UNCHANGED <<handles, buffer, written, reads, index, scan>>
-----------------------------------------------------------------------------
(* try_put.                                                                *)

PutTail(p) ==
  /\ pc[p] = "idle"
  /\ \E i \in Readable(p, "tail") :
       /\ LoadRelaxed(p, "tail", i)
       /\ index' = [index EXCEPT ![p] = order["tail"][i].val]
  /\ index'[p] < MaxRows
  /\ scan' = Heads
  /\ Goto(p, "scan")
  /\ UNCHANGED <<memory, handles>>

Blocks(h, i) == h # Unused /\ Slot(i + 1) = Slot(h)

(* The order in which heads are loaded does not matter: any.               *)
PutScan(p) ==
  /\ pc[p] = "scan"
  /\ \E h \in scan : \E i \in Readable(p, h) :
       /\ LoadAcquire(p, h, i)
       /\ scan' = scan \ {h}
       /\ Goto(p, IF Blocks(order[h][i].val, index[p]) THEN "idle"
                  ELSE IF scan' = {} THEN "write" ELSE "scan")
  /\ UNCHANGED <<memory, handles, index>>

PutWrite(p) ==
  /\ pc[p] = "write"
  /\ view' = [view EXCEPT ![p] = Tick(@, p)]
  /\ buffer' = [buffer EXCEPT ![Slot(index[p])] = index[p]]
  /\ written' = [written EXCEPT ![Slot(index[p])] =
                   [by |-> p, at |-> view'[p].clock[p]]]
  /\ Goto(p, "publish")
  /\ UNCHANGED <<handles, order, reads, index, scan>>

PutPublish(p) ==
  /\ pc[p] = "publish"
  /\ StoreRelease(p, "tail", index[p] + 1)
  /\ Goto(p, "idle")
  /\ UNCHANGED <<handles, buffer, written, reads, index, scan>>

Put(p) == PutTail(p) \/ PutScan(p) \/ PutWrite(p) \/ PutPublish(p)
-----------------------------------------------------------------------------
(* try_take_for_head.                                                      *)

HeadOf(r) == IF r \in Consumers THEN "head" ELSE r

TakeHead(r) ==
  /\ pc[r] = "idle"
  /\ \E i \in Readable(r, HeadOf(r)) :
       /\ LoadRelaxed(r, HeadOf(r), i)
       /\ index' = [index EXCEPT ![r] = order[HeadOf(r)][i].val]
  /\ Goto(r, "check")
  /\ UNCHANGED <<memory, handles, scan>>

TakeCheck(r) ==
  /\ pc[r] = "check"
  /\ \E i \in Readable(r, "tail") :
       /\ LoadAcquire(r, "tail", i)
       /\ Goto(r, IF Slot(order["tail"][i].val) = Slot(index[r])
                  THEN "idle" ELSE "read")
  /\ UNCHANGED <<memory, handles, index, scan>>

TakeRead(r) ==
  /\ pc[r] = "read"
  /\ view' = [view EXCEPT ![r] = Tick(@, r)]
  /\ reads' = [reads EXCEPT ![Slot(index[r])][r] = view'[r].clock[r]]
  /\ Goto(r, "release")
  /\ UNCHANGED <<handles, order, buffer, written, index, scan>>

TakeRelease(r) ==
  /\ pc[r] = "release"
  /\ StoreRelease(r, HeadOf(r), index[r] + 1)
  /\ Goto(r, "idle")
  /\ UNCHANGED <<handles, buffer, written, reads, index, scan>>

Take(r) == TakeHead(r) \/ TakeCheck(r) \/ TakeRead(r) \/ TakeRelease(r)
-----------------------------------------------------------------------------
Next ==
  \/ \E p \in Producers : AttachProducer(p) \/ Put(p) \/ Drop(p)
  \/ \E c \in Consumers : AttachConsumer(c) \/ Drop(c)
  \/ \E r \in Takers : Take(r)
  \/ \E o \in Observers : DropObserver(o)

Spec == Init /\ [][Next]_vars
-----------------------------------------------------------------------------
(* Accesses to an element are ordered: the last write happens before a     *)
(* read, and every read and the last write happen before a write.  "Must   *)
(* be acquire ordering to guarantee writes into the buffer slot below      *)
(* cannot be reordered above this read" (spsc.rs:290-291), "must be        *)
(* release ordering so guarantee that the above read completes before the  *)
(* new head can be observer by a producer" (405-406).                      *)
NoDataRace ==
  \A t \in Threads :
    LET s == Slot(index[t]) IN
      /\ pc[t] \in {"read", "write"} => Before(written[s], view[t])
      /\ pc[t] = "write" =>
           \A r \in Takers : Before([by |-> r, at |-> reads[s][r]], view[t])

(* What is read is the row with the reader's index: fully written, and not *)
(* yet replaced.                                                           *)
ReadsOwnRow ==
  \A r \in Takers : pc[r] = "read" => buffer[Slot(index[r])] = index[r]

(* The own index may be loaded with relaxed ordering "since there can't be *)
(* any other thread writing this value" (spsc.rs:287, 385), also when the  *)
(* handle was dropped by one thread and attached by another.               *)
OwnIndexExact ==
  \A t \in Threads :
    LET a == IF t \in Producers THEN "tail" ELSE HeadOf(t) IN
      pc[t] \in {"scan", "write", "publish", "check", "read", "release"} =>
        index[t] = order[a][Len(order[a])].val
=============================================================================
