----------------------------- MODULE SpscTable -----------------------------
(***************************************************************************)
(* The lock-free single-producer single-consumer table of                  *)
(* src/src/table_ipc/spsc.rs: try_put, try_take_for_head (the consumer and *)
(* the strong observers), weak_observe, and the attach and drop operations *)
(* of the four kinds of handle.                                            *)
(*                                                                         *)
(* One action is one access to shared memory.  A row is copied word by     *)
(* word, so a reader that overlaps a writer gets a torn row.  The payload  *)
(* of the row with global index i is Row(i): the code never inspects a     *)
(* payload, and equal payloads could only hide a mistake.                  *)
(***************************************************************************)
EXTENDS Integers, Sequences

CONSTANTS
  Size,              \* number of elements of the ring
  GenMod,            \* generations a weak state word can tell apart (2^23)
  MaxStrong,         \* max_strong_observers
  MaxWeak,           \* max_weak_observers
  Producers,         \* threads that ask for the producer handle
  Consumers,         \* threads that ask for the consumer handle
  StrongObservers,   \* threads that ask for a strong-observer handle
  WeakObservers,     \* threads that ask for a weak-observer handle
  AttachWhileTaking, \* do strong observers attach while a consumer takes?
  MaxRows            \* bound on the rows ever put

Takers  == Consumers \cup StrongObservers
Readers == Takers \cup WeakObservers
Threads == Producers \cup Readers

(* The assertions of SpscTableCustom::new.  mod_len's mask is a remainder  *)
(* because Size is a power of two.                                         *)
ASSUME ConfigAssumption ==
  /\ Size \in Nat \ {0} /\ \E k \in 0 .. Size : Size = 2^k
  /\ GenMod \in Nat \ {0}
  /\ MaxStrong \in Nat
  /\ MaxWeak \in 0 .. 40
  /\ MaxRows \in Nat
  /\ AttachWhileTaking \in BOOLEAN

ASSUME ThreadsAssumption ==
  /\ Producers \cap Readers = {}
  /\ Consumers \cap (StrongObservers \cup WeakObservers) = {}
  /\ StrongObservers \cap WeakObservers = {}

Slots     == 0 .. Size - 1
Heads     == 0 .. MaxStrong     \* 0 is head_index, 1.. the observers' heads
UsizeMax  == -1                 \* usize::MAX: this observer head is not in use
Usize     == Nat \cup {UsizeMax}

(* A payload is two machine words.  Uninit is what MaybeUninit memory and  *)
(* an unused local hold; None is the Option, not a payload.                *)
Payload == [lo : Int, hi : Int]
Row(i)  == [lo |-> i, hi |-> i]
Uninit  == Row(-1)
None    == Row(-2)

VARIABLES
  tail_index,
  heads,                      \* head_index and strong_observer_heads
  buffer,                     \* the two words of each element
  weak_readers,               \* the weak state word of each element
  has_producer, has_consumer,
  free_strong_observer_heads, free_weak_observer_bits,
  pc,        \* where each thread is in the operation it executes
  blocking,  \* threads inside put, take or strong_observe: they retry
  index,     \* local: current_tail, current_head or the cursor's index
  scan,      \* local of try_put: the next head to compare with
  data,      \* local of a reader: the words copied so far
  slot,      \* observer_index of an observer handle
  result     \* what the last receive or observe call of a thread returned

vars == <<tail_index, heads, buffer, weak_readers, has_producer, has_consumer,
          free_strong_observer_heads, free_weak_observer_bits, pc, blocking,
          index, scan, data, slot, result>>

ring     == <<tail_index, heads, buffer, weak_readers>>
registry == <<has_producer, has_consumer, free_strong_observer_heads,
              free_weak_observer_bits>>

WorkingLabels == {"scan", "claim", "write_lo", "write_hi", "validate",
                  "publish", "read_lo", "read_hi", "copied", "enter"}
Labels == {"out", "idle", "attaching", "panicked"} \cup WorkingLabels

Goto(t, label) == pc' = [pc EXCEPT ![t] = label]

Init ==
  /\ tail_index = 0
  /\ heads = [h \in Heads |-> IF h = 0 THEN 0 ELSE UsizeMax]
  /\ buffer = [s \in Slots |-> Uninit]
  /\ weak_readers =
       [s \in Slots |-> [generation |-> 0, valid |-> FALSE, reading |-> {}]]
  /\ has_producer = FALSE
  /\ has_consumer = FALSE
  /\ free_strong_observer_heads = [i \in 1 .. MaxStrong |-> i]
  /\ free_weak_observer_bits = [i \in 1 .. MaxWeak |-> i - 1]
  /\ pc = [t \in Threads |-> "out"]
  /\ blocking = {}
  /\ index = [t \in Threads |-> 0]
  /\ scan = [p \in Producers |-> 0]
  /\ data = [r \in Readers |-> Uninit]
  /\ slot = [o \in StrongObservers \cup WeakObservers |-> 0]
  /\ result = [r \in Readers |-> None]
-----------------------------------------------------------------------------
mod_len(i) == i % Size
get_generation_for_index(i) == i \div Size

(* The head that try_take_for_head is given: try_take, try_strong_observe. *)
HeadOf(r) == IF r \in Consumers THEN 0 ELSE slot[r]

(* attachment_state is a mutex.  Only attach_strong_observer touches memory *)
(* that the mutex does not guard, so only it is more than one step; every  *)
(* other attach or drop waits for it.                                      *)
LockFree == \A o \in StrongObservers : pc[o] # "attaching"

-----------------------------------------------------------------------------
(* try_put, and put, which retries it until it succeeds.                   *)

CallPut(p) ==
  /\ pc[p] = "idle" /\ tail_index < MaxRows
  /\ blocking' \in {blocking, blocking \cup {p}}
  /\ index' = [index EXCEPT ![p] = tail_index]
  /\ Goto(p, "scan")
  /\ UNCHANGED <<ring, registry, scan, data, slot, result>>

(* Mutants of the full check: the next tail is not reduced to a slot, the  *)
(* observers' heads are skipped, head_index is skipped, and heads that are *)
(* not in use are compared as well.                                        *)
HeadBlocksByIndex(h, i) ==
  /\ h = 0 \/ heads[h] # UsizeMax
  /\ i + 1 = mod_len(heads[h])
HeadBlocksConsumer(h, i) ==
  h = 0 /\ mod_len(i + 1) = mod_len(heads[h])
HeadBlocksObservers(h, i) ==
  h # 0 /\ heads[h] # UsizeMax /\ mod_len(i + 1) = mod_len(heads[h])
HeadBlocksUnused(h, i) == mod_len(i + 1) = mod_len(heads[h])

(* head_index is compared first, then every head in use.                   *)
HeadBlocks(h, i) ==
  /\ h = 0 \/ heads[h] # UsizeMax
  /\ mod_len(i + 1) = mod_len(heads[h])

TableFull(p) ==
  /\ pc[p] = "scan" /\ HeadBlocks(scan[p], index[p])
  /\ scan' = [scan EXCEPT ![p] = 0]
  /\ Goto(p, "idle")
  /\ UNCHANGED <<ring, registry, blocking, index, data, slot, result>>

PassHead(p) ==
  /\ pc[p] = "scan" /\ ~HeadBlocks(scan[p], index[p])
  /\ scan' = [scan EXCEPT ![p] = @ + 1]
  /\ Goto(p, IF scan[p] < MaxStrong THEN "scan" ELSE "claim")
  /\ UNCHANGED <<ring, registry, blocking, index, data, slot, result>>

(* Mutants of the state word: never invalidated, without a generation,     *)
(* with the generation of the next element, without the shift's overflow.  *)
StateWordValid(i, valid) ==
  [generation |-> get_generation_for_index(i) % GenMod, valid |-> TRUE,
   reading |-> {}]
StateWordBare(i, valid) ==
  [generation |-> 0, valid |-> valid, reading |-> {}]
StateWordNext(i, valid) ==
  [generation |-> get_generation_for_index(i + 1) % GenMod, valid |-> valid,
   reading |-> {}]
StateWordWide(i, valid) ==
  [generation |-> get_generation_for_index(i), valid |-> valid,
   reading |-> {}]

(* The two values the producer gives a state word: before and after it     *)
(* writes the element.  Shifting the generation left drops its high bits.  *)
StateWord(i, valid) ==
  [generation |-> get_generation_for_index(i) % GenMod, valid |-> valid,
   reading |-> {}]

SetStateWord(i, valid) ==
  weak_readers' = IF MaxWeak = 0 THEN weak_readers
                  ELSE [weak_readers EXCEPT ![mod_len(i)] = StateWord(i, valid)]

Claim(p) ==
  /\ pc[p] = "claim"
  /\ SetStateWord(index[p], FALSE)
  /\ Goto(p, "write_lo")
  /\ UNCHANGED <<tail_index, heads, buffer, registry, blocking, index, scan,
                 data, slot, result>>

WriteLo(p) ==
  /\ pc[p] = "write_lo"
  /\ buffer' = [buffer EXCEPT ![mod_len(index[p])].lo = index[p]]
  /\ Goto(p, "write_hi")
  /\ UNCHANGED <<tail_index, heads, weak_readers, registry, blocking, index,
                 scan, data, slot, result>>

WriteHi(p) ==
  /\ pc[p] = "write_hi"
  /\ buffer' = [buffer EXCEPT ![mod_len(index[p])].hi = index[p]]
  /\ Goto(p, "validate")
  /\ UNCHANGED <<tail_index, heads, weak_readers, registry, blocking, index,
                 scan, data, slot, result>>

Validate(p) ==
  /\ pc[p] = "validate"
  /\ SetStateWord(index[p], TRUE)
  /\ Goto(p, "publish")
  /\ UNCHANGED <<tail_index, heads, buffer, registry, blocking, index, scan,
                 data, slot, result>>

Publish(p) ==
  /\ pc[p] = "publish"
  /\ tail_index' = index[p] + 1
  /\ blocking' = blocking \ {p}
  /\ scan' = [scan EXCEPT ![p] = 0]
  /\ Goto(p, "idle")
  /\ UNCHANGED <<heads, buffer, weak_readers, registry, index, data, slot,
                 result>>

-----------------------------------------------------------------------------
(* try_take_for_head, and take and strong_observe, which retry it.         *)

Return(r, value) ==
  /\ result' = [result EXCEPT ![r] = value]
  /\ data' = [data EXCEPT ![r] = Uninit]
  /\ Goto(r, "idle")

(* An assumption about the callers, not code: unless AttachWhileTaking, a  *)
(* consumer makes no call while a strong observer attaches, and conversely *)
(* (the guard of AttachStrongLoad).  The benchmark attaches everything     *)
(* before it starts its threads.                                           *)
MayTake(r) == AttachWhileTaking \/ r \in StrongObservers \/ LockFree

(* Mutant: the last row is left in the ring.                               *)
EmptyButOne(r) ==
  \E behind \in 0 .. 1 :
    mod_len(tail_index) = mod_len(heads[HeadOf(r)] + behind)

Empty(r) == mod_len(heads[HeadOf(r)]) = mod_len(tail_index)

TakeNone(r) ==
  /\ pc[r] = "idle" /\ MayTake(r) /\ Empty(r)
  /\ blocking' \in {blocking, blocking \cup {r}}
  /\ Return(r, None)
  /\ UNCHANGED <<ring, registry, index, scan, slot>>

TakeSome(r) ==
  /\ pc[r] = "idle" /\ MayTake(r) /\ ~Empty(r)
  /\ index' = [index EXCEPT ![r] = heads[HeadOf(r)]]
  /\ Goto(r, "read_lo")
  /\ UNCHANGED <<ring, registry, blocking, scan, data, slot, result>>

(* The copy out of the element, for every kind of reader.                  *)
ReadLo(r) ==
  /\ pc[r] = "read_lo"
  /\ data' = [data EXCEPT ![r].lo = buffer[mod_len(index[r])].lo]
  /\ Goto(r, "read_hi")
  /\ UNCHANGED <<ring, registry, blocking, index, scan, slot, result>>

ReadHi(r) ==
  /\ pc[r] = "read_hi"
  /\ data' = [data EXCEPT ![r].hi = buffer[mod_len(index[r])].hi]
  /\ Goto(r, "copied")
  /\ UNCHANGED <<ring, registry, blocking, index, scan, slot, result>>

Advance(r) ==
  /\ pc[r] = "copied"
  /\ heads' = [heads EXCEPT ![HeadOf(r)] = index[r] + 1]
  /\ blocking' = blocking \ {r}
  /\ Return(r, data[r])
  /\ UNCHANGED <<tail_index, buffer, weak_readers, registry, index, scan, slot>>
-----------------------------------------------------------------------------
(* weak_observe.  A cursor is kept by the caller and moved by arithmetic,  *)
(* so any index may be asked for at any time.                              *)

RecentCursor == IF tail_index = 0 THEN 0 ELSE tail_index - 1
OldestCursor ==
  IF RecentCursor < Size THEN 0 ELSE RecentCursor - (Size - 1)

(* The state word vouches for the row with global index i.                 *)
Vouches(word, i) ==
  word.valid /\ word.generation = get_generation_for_index(i)

(* Mutant: the assertion is removed.                                       *)
OwnBitIgnored(w, word) == TRUE

OwnBitSet(w, word) == slot[w] \in word.reading

InRange(i) == ~(i < tail_index - Size \/ tail_index < i)

CallWeakObserve(w, i) ==
  /\ pc[w] = "idle"
  /\ index' = [index EXCEPT ![w] = i]
  /\ result' = [result EXCEPT ![w] = None]
  /\ IF InRange(i) THEN Goto(w, "enter") ELSE pc' = pc
  /\ UNCHANGED <<ring, registry, blocking, scan, data, slot>>

(* fetch_or: the word is marked even when the observer gives up.           *)
Enter(w) ==
  LET s == mod_len(index[w])
  IN  /\ pc[w] = "enter"
      /\ weak_readers' =
           [weak_readers EXCEPT ![s].reading = @ \cup {slot[w]}]
      /\ Goto(w, IF Vouches(weak_readers[s], index[w]) THEN "read_lo"
                                                       ELSE "idle")
      /\ UNCHANGED <<tail_index, heads, buffer, registry, blocking, index,
                     scan, data, slot, result>>

(* fetch_and, the check of the word it found, and the assertion that the   *)
(* observer's own bit was still set.  The generation compared with is the  *)
(* one Enter found, which was the generation of the cursor.                *)
Leave(w) ==
  LET s      == mod_len(index[w])
      before == weak_readers[s]
  IN  /\ pc[w] = "copied"
      /\ weak_readers' = [weak_readers EXCEPT ![s].reading = @ \ {slot[w]}]
      /\ \/ ~Vouches(before, index[w]) /\ Return(w, None)
         \/ /\ Vouches(before, index[w]) /\ OwnBitSet(w, before)
            /\ Return(w, data[w])
         \/ /\ Vouches(before, index[w]) /\ ~OwnBitSet(w, before)
            /\ Goto(w, "panicked") /\ UNCHANGED <<data, result>>
      /\ UNCHANGED <<tail_index, heads, buffer, registry, blocking, index,
                     scan, slot>>
-----------------------------------------------------------------------------
(* Attaching and dropping handles, under the mutex attachment_state.  A    *)
(* refused attach returns an error and changes nothing.                    *)

(* Mutants: the flag is set but not tested.                                *)
ProducerFreeAlways == TRUE
ConsumerFreeAlways == TRUE

ProducerFree == ~has_producer
ConsumerFree == ~has_consumer

AttachProducer(p) ==
  /\ pc[p] = "out" /\ LockFree /\ ProducerFree
  /\ has_producer' = TRUE
  /\ Goto(p, "idle")
  /\ UNCHANGED <<ring, has_consumer, free_strong_observer_heads,
                 free_weak_observer_bits, blocking, index, scan, data, slot,
                 result>>

DropProducer(p) ==
  /\ pc[p] = "idle" /\ p \notin blocking /\ LockFree
  /\ has_producer' = FALSE
  /\ Goto(p, "out")
  /\ UNCHANGED <<ring, has_consumer, free_strong_observer_heads,
                 free_weak_observer_bits, blocking, index, scan, data, slot,
                 result>>

AttachConsumer(c) ==
  /\ pc[c] = "out" /\ LockFree /\ ConsumerFree
  /\ has_consumer' = TRUE
  /\ Goto(c, "idle")
  /\ UNCHANGED <<ring, has_producer, free_strong_observer_heads,
                 free_weak_observer_bits, blocking, index, scan, data, slot,
                 result>>

DropConsumer(c) ==
  /\ pc[c] = "idle" /\ c \notin blocking /\ LockFree
  /\ has_consumer' = FALSE
  /\ Goto(c, "out")
  /\ UNCHANGED <<ring, has_producer, free_strong_observer_heads,
                 free_weak_observer_bits, blocking, index, scan, data, slot,
                 result>>

(* Vec::pop and Vec::push work at the end of the list.                     *)
Top(list) == list[Len(list)]
Popped(list) == SubSeq(list, 1, Len(list) - 1)

(* The observer's head starts at the head_index read here ...              *)
AttachStrongLoad(o) ==
  /\ pc[o] = "out" /\ LockFree /\ free_strong_observer_heads # <<>>
  /\ AttachWhileTaking
       \/ \A c \in Consumers : pc[c] \in {"out", "idle"} /\ c \notin blocking
  /\ slot' = [slot EXCEPT ![o] = Top(free_strong_observer_heads)]
  /\ free_strong_observer_heads' = Popped(free_strong_observer_heads)
  /\ index' = [index EXCEPT ![o] = heads[0]]
  /\ Goto(o, "attaching")
  /\ UNCHANGED <<ring, has_producer, has_consumer, free_weak_observer_bits,
                 blocking, scan, data, result>>

(* ... and the producer heeds it from here on.                             *)
AttachStrongStore(o) ==
  /\ pc[o] = "attaching"
  /\ heads' = [heads EXCEPT ![slot[o]] = index[o]]
  /\ Goto(o, "idle")
  /\ UNCHANGED <<tail_index, buffer, weak_readers, registry, blocking, index,
                 scan, data, slot, result>>

DropStrong(o) ==
  /\ pc[o] = "idle" /\ o \notin blocking /\ LockFree
  /\ heads' = [heads EXCEPT ![slot[o]] = UsizeMax]
  /\ free_strong_observer_heads' = Append(free_strong_observer_heads, slot[o])
  /\ Goto(o, "out")
  /\ UNCHANGED <<tail_index, buffer, weak_readers, has_producer, has_consumer,
                 free_weak_observer_bits, blocking, index, scan, data, slot,
                 result>>

AttachWeak(w) ==
  /\ pc[w] = "out" /\ LockFree /\ free_weak_observer_bits # <<>>
  /\ slot' = [slot EXCEPT ![w] = Top(free_weak_observer_bits)]
  /\ free_weak_observer_bits' = Popped(free_weak_observer_bits)
  /\ Goto(w, "idle")
  /\ UNCHANGED <<ring, has_producer, has_consumer, free_strong_observer_heads,
                 blocking, index, scan, data, result>>

(* A panicking observer unwinds, which drops its handle as well.           *)
DropWeak(w) ==
  /\ pc[w] \in {"idle", "panicked"} /\ LockFree
  /\ free_weak_observer_bits' = Append(free_weak_observer_bits, slot[w])
  /\ Goto(w, "out")
  /\ data' = [data EXCEPT ![w] = Uninit]
  /\ UNCHANGED <<ring, has_producer, has_consumer, free_strong_observer_heads,
                 blocking, index, scan, slot, result>>
-----------------------------------------------------------------------------
PutSteps(p) ==
  CallPut(p) \/ TableFull(p) \/ PassHead(p) \/ Claim(p) \/ WriteLo(p)
    \/ WriteHi(p) \/ Validate(p) \/ Publish(p)

TakeSteps(r) ==
  TakeNone(r) \/ TakeSome(r) \/ ReadLo(r) \/ ReadHi(r) \/ Advance(r)

WeakSteps(w) ==
  (\E i \in 0 .. MaxRows : CallWeakObserve(w, i))
    \/ Enter(w) \/ ReadLo(w) \/ ReadHi(w) \/ Leave(w)

Next ==
  \/ \E p \in Producers : PutSteps(p) \/ AttachProducer(p) \/ DropProducer(p)
  \/ \E r \in Takers : TakeSteps(r)
  \/ \E c \in Consumers : AttachConsumer(c) \/ DropConsumer(c)
  \/ \E o \in StrongObservers :
       AttachStrongLoad(o) \/ AttachStrongStore(o) \/ DropStrong(o)
  \/ \E w \in WeakObservers : WeakSteps(w) \/ AttachWeak(w) \/ DropWeak(w)

Spec == Init /\ [][Next]_vars
-----------------------------------------------------------------------------
(* Types of all variables.                                                 *)
TypeOK ==
  /\ tail_index \in Nat
  /\ heads \in [Heads -> Usize]
  /\ buffer \in [Slots -> Payload]
  /\ weak_readers \in [Slots -> [generation : 0 .. GenMod - 1,
                                 valid : BOOLEAN,
                                 reading : SUBSET Nat]]
  /\ has_producer \in BOOLEAN /\ has_consumer \in BOOLEAN
  /\ free_strong_observer_heads \in Seq(Heads)
  /\ free_weak_observer_bits \in Seq(Nat)
  /\ pc \in [Threads -> Labels]
  /\ blocking \subseteq Threads
  /\ index \in [Threads -> Usize]
  /\ scan \in [Producers -> Nat]
  /\ data \in [Readers -> Payload]
  /\ slot \in [StrongObservers \cup WeakObservers -> Nat]
  /\ \A o \in StrongObservers : slot[o] \in Heads
  /\ result \in [Readers -> Payload]

-----------------------------------------------------------------------------
Writing(p) == pc[p] \in {"write_lo", "write_hi"}
Copying(r) == pc[r] \in {"read_lo", "read_hi"}
Claimed(p) == pc[p] \in {"write_lo", "write_hi", "validate", "publish"}

(* The data race freedom stated by the INVARIANTS comment of               *)
(* SpscTableCustom (spsc.rs:158-161): while the producer writes an element *)
(* no other thread is inside try_put past the full check, neither the      *)
(* consumer nor a strong observer copies that element, and its valid bit   *)
(* is 0.                                                                   *)
ExclusiveAccess ==
  \A p \in Producers : Writing(p) =>
    /\ \A q \in Producers \ {p} : ~Claimed(q)
    /\ \A r \in Takers :
         Copying(r) => mod_len(index[r]) # mod_len(index[p])
    /\ MaxWeak > 0 => ~weak_readers[mod_len(index[p])].valid

(* What every table promises (the traits of table_ipc/mod.rs): consumers   *)
(* get each row exactly once and in order, every strong observer gets each *)
(* row put since it attached exactly once, no put overwrites a row that    *)
(* one of them still needs, and an empty result means there was no row.    *)
Abstract == INSTANCE Table WITH
  Capacity <- Size - 1,
  rows     <- tail_index,
  taken    <- heads[0],
  position <- [o \in StrongObservers |->
                 IF pc[o] \in {"out", "attaching"} THEN -1 ELSE heads[slot[o]]]

ImplementsTable == Abstract!Spec

(* The same promises to the consumers and the weak observers alone.  They  *)
(* hold however strong observers attach: an observer that joins late can   *)
(* miss rows itself, but costs the stream of consumed rows nothing.        *)
Stream == INSTANCE Table WITH
  Capacity        <- Size - 1,
  StrongObservers <- {},
  rows            <- tail_index,
  taken           <- heads[0],
  position        <- [o \in {} |-> -1],
  result          <- [r \in Consumers \cup WeakObservers |-> result[r]]

ImplementsStream == Stream!Spec

(* "Exactly once to exactly one" (mod.rs:69-70) across hand-overs of the   *)
(* consumer handle: head_index moves one row at a time, only together with *)
(* the delivery of just that row, whole, to one consumer; and no consumer  *)
(* is given a row without that move.                                       *)
ConsumerExactlyOnce ==
  [][/\ heads'[0] # heads[0] =>
          /\ heads'[0] = heads[0] + 1
          /\ \E c \in Consumers :
               result' = [result EXCEPT ![c] = Row(heads[0])]
     /\ \A c \in Consumers :
          result'[c] \notin {result[c], None} => heads'[0] # heads[0]]_vars

(* A put that gives up (spsc.rs:309-311) had met a head Size-1 rows back:  *)
(* comparing slots instead of indices never refuses a row it could store.  *)
FullIsReal ==
  [][\A p \in Producers :
       TableFull(p) =>
         \E h \in Heads :
           heads[h] # UsizeMax /\ tail_index - heads[h] = Size - 1]_vars

(* The debug_assert_eq of spsc.rs:395: when the slots of head and tail     *)
(* agree, head and tail agree, so an empty result leaves no row behind.    *)
EmptyIsReal ==
  \A r \in Takers :
    pc[r] \in {"idle", "read_lo", "read_hi", "copied"} /\ Empty(r)
      => heads[HeadOf(r)] = tail_index

(* "Either None or the actual value that existed at the given index"       *)
(* (mod.rs:101-102), as far as a generation field can tell: the row that   *)
(* weak_observe returns is whole, and is the row asked for or one a whole  *)
(* number of generation wraps (Size * GenMod rows) away from it.           *)
WeakRowExact ==
  \A w \in WeakObservers : result[w] # None =>
    /\ result[w].lo = result[w].hi
    /\ (result[w].lo - index[w]) % (Size * GenMod) = 0

(* The assertion of spsc.rs:494: an observer that finds its generation     *)
(* still valid after the copy finds its own reading bit still set.         *)
OwnBitSurvives == \A w \in WeakObservers : pc[w] # "panicked"

(* The history a weak observer can still reach, from oldest_cursor to      *)
(* recent_cursor, is vouched for by the state words, but for the element   *)
(* the producer has claimed; test_produce_weak_observe (mod.rs:253-323)    *)
(* reads these rows back.                                                  *)
HistoryReadable ==
  MaxWeak > 0 /\ tail_index > 0 =>
    \A i \in OldestCursor .. RecentCursor :
      \/ Vouches(weak_readers[mod_len(i)], i)
      \/ \E p \in Producers : Claimed(p) /\ mod_len(index[p]) = mod_len(i)
-----------------------------------------------------------------------------
(* Threads are scheduled by the operating system, and the spin loops yield *)
(* to it; a thread that waits for the mutex gets it.  Readers keep calling *)
(* ("must make sure they process data promptly", mod.rs:83-84).  Nobody    *)
(* has to start a put, attach, or drop a handle.                           *)
Fairness ==
  /\ \A p \in Producers :
       WF_vars((pc[p] = "idle" => p \in blocking) /\ PutSteps(p))
  /\ \A r \in Takers : WF_vars(TakeSteps(r))
  /\ \A o \in StrongObservers : WF_vars(AttachStrongStore(o))

FairSpec == Spec /\ Fairness

(* A blocking put succeeds as long as there is a consumer, whatever strong *)
(* observers come and go: no reader is waited for that is not there, and   *)
(* producer and readers never wait for each other.                         *)
PutCompletes ==
  \A p \in Producers : p \in blocking ~> (p \notin blocking \/ ~has_consumer)

(* A row that was put is eventually taken as long as there is a consumer.  *)
RowsTaken ==
  \A i \in 0 .. MaxRows - 1 :
    tail_index > i ~> (heads[0] > i \/ ~has_consumer)
=============================================================================
