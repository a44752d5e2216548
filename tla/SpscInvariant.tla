--------------------------- MODULE SpscInvariant ---------------------------
(***************************************************************************)
(* The inductive invariant of SpscTable: why the lock-free protocol works. *)
(* Every part says what one actor may rely on while the others run.        *)
(***************************************************************************)
EXTENDS SpscTable

PutLabels  == {"scan", "claim", "write_lo", "write_hi", "validate", "publish"}
CopyLabels == {"read_lo", "read_hi", "copied"}

Holding(t)     == pc[t] # "out"
Putting(p)     == pc[p] \in PutLabels
Receiving(r)   == pc[r] \in CopyLabels
AttachedStrong(o) == pc[o] \notin {"out", "attaching"}

(* Each kind of thread is only ever inside its own operations.             *)
LabelInv ==
  /\ \A p \in Producers : pc[p] \in {"out", "idle"} \cup PutLabels
  /\ \A c \in Consumers : pc[c] \in {"out", "idle"} \cup CopyLabels
  /\ \A o \in StrongObservers :
       pc[o] \in {"out", "idle", "attaching"} \cup CopyLabels
  /\ \A w \in WeakObservers :
       pc[w] \in {"out", "idle", "enter", "panicked"} \cup CopyLabels

(* One producer, one consumer, one holder of attachment_state at a time.   *)
SingleInv ==
  /\ \A p, q \in Producers : Holding(p) /\ Holding(q) => p = q
  /\ \A p \in Producers : Holding(p) => has_producer
  /\ \A c, d \in Consumers : Holding(c) /\ Holding(d) => c = d
  /\ \A c \in Consumers : Holding(c) => has_consumer
  /\ \A o, u \in StrongObservers :
       pc[o] = "attaching" /\ pc[u] = "attaching" => o = u

(* No two handles share an observer slot: the numbers in use are distinct, *)
(* the free list holds each of the others at most once, and all of them    *)
(* index the arrays made for them.                                         *)
DistinctSlots(observers, list, numbers) ==
  /\ \A o \in observers : Holding(o) => slot[o] \in numbers
  /\ \A k \in 1 .. Len(list) : list[k] \in numbers
  /\ \A o, u \in observers :
       Holding(o) /\ Holding(u) /\ slot[o] = slot[u] => o = u
  /\ \A o \in observers : Holding(o) =>
       \A k \in 1 .. Len(list) : list[k] # slot[o]
  /\ \A j, k \in 1 .. Len(list) : list[j] = list[k] => j = k

SlotInv ==
  DistinctSlots(StrongObservers, free_strong_observer_heads, 1 .. MaxStrong)

BitInv ==
  DistinctSlots(WeakObservers, free_weak_observer_bits, 0 .. MaxWeak - 1)

(* The heads of attached readers are in use.                               *)
HeadInv ==
  /\ heads[0] # UsizeMax
  /\ \A o \in StrongObservers : AttachedStrong(o) => heads[slot[o]] # UsizeMax

(* A strong observer that attaches while the consumer takes may get a head *)
(* that the producer has already passed; only the other heads are kept     *)
(* within the window of the ring.                                          *)
Heeded(h) == heads[h] # UsizeMax /\ (h = 0 \/ ~AttachWhileTaking)

WindowInv ==
  \A h \in Heads : Heeded(h) =>
    heads[h] <= tail_index /\ tail_index <= heads[h] + Size - 1

(* What attach_strong_observer has loaded is an index, and still the head  *)
(* when consumers keep out.                                                *)
AttachInv ==
  \A o \in StrongObservers : pc[o] = "attaching" =>
    /\ index[o] # UsizeMax
    /\ ~AttachWhileTaking =>
         index[o] = heads[0] /\ \A c \in Consumers : ~Receiving(c)

(* The full check stays true: heads that were passed leave room for one    *)
(* more row, whatever readers have done since.                             *)
PutInv ==
  \A p \in Producers :
    /\ ~Putting(p) => scan[p] = 0
    /\ Putting(p) =>
         /\ index[p] = tail_index
         /\ pc[p] = "scan" <=> scan[p] <= MaxStrong
         /\ \A h \in Heads : h < scan[p] /\ Heeded(h) =>
              tail_index + 1 <= heads[h] + Size - 1

(* A reader past the empty check owns the row at its head, and what it has *)
(* copied is that row.                                                     *)
TakeInv ==
  \A r \in Takers : Receiving(r) /\ Heeded(HeadOf(r)) =>
    /\ index[r] = heads[HeadOf(r)]
    /\ index[r] < tail_index
    /\ pc[r] \in {"read_hi", "copied"} => data[r].lo = index[r]
    /\ pc[r] = "copied" => data[r].hi = index[r]

(* The last Size-1 rows are in the ring, and the row being written is as   *)
(* far as the producer has got.                                            *)
ContentInv ==
  /\ \A i \in 0 .. tail_index - 1 :
       tail_index < i + Size => buffer[mod_len(i)] = Row(i)
  /\ \A p \in Producers :
       /\ pc[p] \in {"write_hi", "validate", "publish"} =>
            buffer[mod_len(index[p])].lo = index[p]
       /\ pc[p] \in {"validate", "publish"} =>
            buffer[mod_len(index[p])].hi = index[p]

(* Who holds which handle, and what the ring contains.                     *)
HandleInv == TypeOK /\ LabelInv /\ SingleInv /\ SlotInv

ProtocolInv ==
  HeadInv /\ WindowInv /\ AttachInv /\ PutInv /\ TakeInv /\ ContentInv

RingInv == HandleInv /\ ProtocolInv

(* The state word of an element is invalid while the element changes.      *)
InvalidInv ==
  MaxWeak > 0 =>
    \A p \in Producers : pc[p] \in {"write_lo", "write_hi", "validate"} =>
      ~weak_readers[mod_len(index[p])].valid

(* A row is written once the producer has validated its element.            *)
Written(i) ==
  \/ i < tail_index
  \/ i = tail_index /\ \E p \in Producers : pc[p] = "publish"

(* The state word describes the row with global index i, as far as its     *)
(* generation field can tell.                                              *)
Describes(word, i) ==
  word.valid /\ word.generation = get_generation_for_index(i) % GenMod

(* A valid state word describes the row in its element, which is whole.    *)
WordInv ==
  \A s \in Slots : weak_readers[s].valid =>
    /\ MaxWeak > 0
    /\ buffer[s].lo = buffer[s].hi
    /\ buffer[s].lo \in Nat /\ Written(buffer[s].lo)
    /\ mod_len(buffer[s].lo) = s
    /\ Describes(weak_readers[s], buffer[s].lo)

(* The state words describe the last Size rows, but for the row whose      *)
(* element the producer has claimed for the next one.                      *)
HistoryInv ==
  MaxWeak > 0 =>
    /\ \A i \in 0 .. tail_index - 1 : tail_index <= i + Size =>
         \/ Describes(weak_readers[mod_len(i)], i)
         \/ \E p \in Producers : Claimed(p) /\ mod_len(index[p]) = mod_len(i)
    /\ \A p \in Producers : pc[p] = "publish" =>
         Describes(weak_readers[mod_len(index[p])], index[p])

(* As long as an observer's bit is set, the word it entered with still     *)
(* stands and so does the element it copies.                               *)
ObserveInv ==
  \A w \in WeakObservers :
    pc[w] \in {"enter"} \cup CopyLabels =>
      LET s == mod_len(index[w])
      IN  /\ index[w] \in Nat
          /\ Receiving(w) =>
               /\ get_generation_for_index(index[w]) \in 0 .. GenMod - 1
               /\ OwnBitSet(w, weak_readers[s]) =>
                    /\ Vouches(weak_readers[s], index[w])
                    /\ pc[w] \in {"read_hi", "copied"} =>
                         data[w].lo = buffer[s].lo
                    /\ pc[w] = "copied" => data[w].hi = buffer[s].hi

(* Fewer rows are put than the generation field can tell apart.            *)
NoWrap == MaxRows <= Size * GenMod

(* Without a wrap, an observer that copies does so from a row that had     *)
(* been written when it entered; once its bit is gone, so is the word that *)
(* vouched for that row, and it never comes back.                          *)
StaleInv ==
  /\ tail_index <= MaxRows
  /\ \A p \in Producers : Putting(p) => tail_index < MaxRows
  /\ NoWrap =>
       \A w \in WeakObservers : Receiving(w) =>
         LET word == weak_readers[mod_len(index[w])]
         IN  /\ Written(index[w])
             /\ ~OwnBitSet(w, word) => ~Vouches(word, index[w])

WeakInv ==
  /\ TypeOK /\ LabelInv /\ SingleInv /\ BitInv /\ PutInv
  /\ InvalidInv /\ WordInv /\ HistoryInv /\ ObserveInv /\ StaleInv
  /\ WeakRowExact
=============================================================================
