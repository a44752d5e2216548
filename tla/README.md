# Verification of the LDOS table

TLA+ models, TLC checks and TLAPS proofs for the tables of this repository: the
lock-free single-producer single-consumer table of `src/src/table_ipc/spsc.rs`,
its strong and weak observers, its memory orderings and state words, and the
wait handlers, adapters and stress harness of the benchmark that drives it.
Paths below are relative to the
repository's parent directory, as in `PROJECT.json`; "spsc.rs" is
`src/src/table_ipc/spsc.rs` and "mod.rs" is `src/src/table_ipc/mod.rs`.

## The system

| Component | State | Operations | Interacts with |
|---|---|---|---|
| Ring, put / take / strong observe (spsc.rs:280-410, 602-700) | `buffer`, `tail_index`, `head_index`, `strong_observer_heads` | `try_put`, `try_take`, `try_strong_observe`; `put`, `take`, `strong_observe` retry them in a spin loop | all handles share the ring's memory; no lock |
| Ring, weak observation (spsc.rs:412-499, 735-762) | one state word per element: generation, valid bit, 40 reading bits | `weak_observe(cursor)`, `recent_cursor`, `oldest_cursor` | reads elements the producer may be overwriting; producer swaps and stores the state word |
| Attachment and drop (spsc.rs:510-579, `Drop` impls) | `attachment_state`: two flags and two free lists, under a mutex; the observers' heads, outside it | `attach_producer/consumer/strong_observer/weak_observer`, four `drop`s | writes heads that the producer scans, reads `head_index` that the consumer moves |
| Table traits and `Cursor` (mod.rs) | none | what each kind of handle promises | implemented by the ring, used by the benchmark |
| Memory orderings (spsc.rs, throughout) | none | Relaxed / Acquire / Release / AcqRel choices | make the above look sequentially consistent |
| Wait handlers (bin/bench/wait_handler.rs) | condition variable and mutex; list of parked threads; loop counter | `new_waiter`, `wait`, `wait_until`, `notify` | called by the adapters around `try_put` and `try_take` |
| Adapters (bin/bench/test_framework_impls.rs) | callback behind a mutex; a done flag with condition variable | `send`, `handle` for waiting, calling and directly calling producers and receivers | table, wait handlers, stress harness |
| Stress harness (bin/bench/generic_stress.rs) | `running`, `n_completed`; message hashes | start and completion rendezvous, produce-consume and ping-pong tests | adapters, threads |
| Benchmark driver, stubs, crate roots | none | configuration, I/O, types that cannot be constructed, `yield_thread` | - |

What is hard here, and what correctness means:

- **The window.** One producer may write an element only if no consumer or
  strong observer can still read it. Fullness and emptiness are decided from
  *slots* (index modulo size), from heads loaded one after another, before an
  element is written a word at a time. Correct: writers and readers never meet
  in an element; full and empty are decided as if by indices; no row is lost,
  repeated, reordered or torn.
- **Readers that come and go.** The consumer handle may move to another thread
  in mid-stream; an observer's head is released and reused while the producer
  walks over the heads. Correct: each row goes exactly once to exactly one
  consumer, and exactly once to each observer attached since before it was
  taken.
- **Optimistic reads.** A weak observer copies an element without keeping the
  producer out, and must find out afterwards from a state word whether what it
  copied was whole and was the row it asked for.
- **Finite numbers.** The generation field has 23 bits, the sentinel
  `usize::MAX` is a possible index, one of `size` elements is never used, and
  the wait handlers count their loops in 32 bits.
- **Orderings.** Every atomic access has a hand-picked ordering. Correct: no two
  accesses to an element race, as far as the result of one is used; and a
  relaxed load of one's own index returns the newest value, whoever held the
  handle before.
- **Spinning and waiting.** A blocking call returns only if somebody else makes
  progress; in the benchmark it may also sleep and need to be notified.
  Correct: whatever a sleeper waits for is announced, the list of parked
  threads holds nobody who has left, and no two mutexes are held crosswise.
- **The rendezvous.** Workers and the main thread share one condition variable
  for two events. Correct: nothing is sent before, or left to do after, the
  measurement; the benchmark ends.

The full list of hazards, each at its line with the properties that would catch
it, is in `PROJECT.json`.

## Modules

- `Table` - what the traits of mod.rs promise, with no ring: the number of rows
  ever put, the number taken, a position for each attached strong observer,
  and what each call returned. Every operation is one step.
- `SpscTable` - the ring as the code has it. One action is one access to shared
  memory. Properties are stated at its end.
- `SpscInvariant` - the inductive invariant of `SpscTable`, in named parts.
- `WordBits` - the state words, slots and generations of `SpscTable` bit by bit,
  beside the records and remainders that `SpscTable` works with.
- `MCSpscTable` - symmetry and casts (below) for TLC; the `.cfg` files give the
  constants.
- `SpscRingProofs` - lemmas on indices, free lists and the shape of steps; type
  correctness; the ring's invariant and the theorems on exclusive access,
  exactly-once delivery, full and empty, and who waits for whom.
- `SpscWeakProofs` - the state words' invariant, the theorems on weak
  observation and on slots, and that the ring implements `Table`, twice.
- `Views` - what a thread knows of the others' accesses: the views of the
  promise-free C11 model.
- `RingOrdering` - `try_put`, `try_take_for_head`, the hand-over of handles and
  an observer's drop, each access with its ordering, over `Views`;
  `MCRingOrdering` gives it casts.
- `OrderingInvariant` - the inductive invariant of `RingOrdering`, in named
  parts; `RingOrderingProofs` - its proof, and no races.
- `WeakOrdering` - `try_put` against `weak_observe`, over `Views`.
- `WeakOrderingProofs` - its invariant, and that copies kept are the rows asked for.
- `WaitTable` - the adapters `WaitProducer`, `WaitConsumer` and
  `WaitStrongObserver` around a wait handler, over `Table`.
- `WaitTableProofs` - types, the list of parked threads, that events are
  announced, and that the shares of all threads are handled.
- `CallTable` - `CallProducer` with `CallConsumer` over `Table`, and
  `DirectCallProducerConsumer`.
- `CallTableProofs` - its invariant, absence of deadlock, a send is a call, no
  wake-up is lost.
- `StressState` - the rendezvous of the harness, one instance in each of:
- `StressHarness` - `stress_produce_consume` over `Table`;
- `StressPingPong` - `stress_ping_pong` over two tables.
- `StressHarnessProofs`, `StressPingPongProofs` - counting: what was sent, taken
  and tracked when the main thread measures; that nobody is stuck before, and how
  ping-pong ends.

What composes what: `SpscTable` implements `Table` (checked and proved, for all
handles with a proviso and without one for those that are not strong observers), and
`WaitTable`, `CallTable` and `StressHarness` take their tables' steps from
`Table`, so what they show holds over any table that keeps the traits' promise.
`StressHarness` in turn takes `send` and `handle` as a put or a receive that
waits as long as it must, which `WaitTable` shows of the handlers that the
benchmark gives it, with the exception of finding 3.

### How `SpscTable` corresponds to the code

| Code | Model |
|---|---|
| `tail_index`, `weak_observer_states`, `attachment_state`'s fields | variables of the same names (`weak_readers` for the state words) |
| `head_index`, `strong_observer_heads[k]` | `heads[0]`, `heads[k + 1]`; `usize::MAX` is `UsizeMax` |
| `buffer[slot]` | `buffer[slot]`, two machine words `lo` and `hi`, so a copy that overlaps a write is torn |
| payload of the row with global index i | `Row(i)`: the code never inspects a payload, and naming a row by its index shows any mix-up |
| `current_tail`, `current_head`, the cursor's index | `index[t]` |
| iteration over the heads in the full check | `scan[p]`, one head loaded per step (`PassHead`, `TableFull`) |
| `observer_index` of a handle | `slot[o]` |
| program counter | `pc[t]`: "out" is a thread without a handle, "idle" one with a handle and outside a call (or between two tries of a spin loop) |
| `put`, `take`, `strong_observe` | `blocking`: the thread is inside one of these loops and retries; it may not drop its handle |
| `try_put` | `CallPut`, `PassHead` / `TableFull`, `Claim` (swap), `WriteLo`, `WriteHi`, `Validate`, `Publish` |
| `try_take_for_head` | `TakeNone`, or `TakeSome`, `ReadLo`, `ReadHi`, `Advance`; the load of the thread's own head is private, so it shares a step with the load of the tail |
| `weak_observe` | `CallWeakObserve` (range check), `Enter` (`fetch_or`), `ReadLo`, `ReadHi`, `Leave` (`fetch_and`, checks, assertion) |
| `attach_strong_observer` | `AttachStrongLoad`, `AttachStrongStore`: the only attach or drop that reads memory the mutex does not guard, hence the only one of two steps; `LockFree` keeps every other attach and drop out between them |
| a failed assertion in `weak_observe` | "panicked"; unwinding drops the handle |

`AttachWhileTaking` selects between two environments. With TRUE a strong
observer may attach at any moment, as the types allow. The head it stores may
then already be behind the ring's window (the finding of run `race_exclusive`),
after which that *observer* has no guarantees. With FALSE, observers attach only
while no consumer is inside a call and conversely (`MayTake`, and the guard of
`AttachStrongLoad`), as the benchmark does: it attaches everything before it
starts its threads. What survives the race (all that concerns the consumer) is
checked and proved without that restriction.

Left out of `SpscTable`: the static switches `STRONG_OBSERVERS` and
`WEAK_OBSERVERS` (the same as the maxima being 0), sizes printed in debug
builds, the texts of errors, a poisoned mutex (nothing panics while holding it),
index overflow at 2^64, and weak memory (`SpscTable` is sequentially
consistent; the two ordering modules are not).

`WordBits` computes `len_mask`, slots, generations and the word of `try_put` with
shifts and masks as the code does, with `MaxWeak` for its 40 reading bits and
log2(`GenMod`) for its 23 bits of generation. `Encoded` is the word that a record
of `SpscTable` stands for; the properties compare both in every state the ring
reaches.

### How the ordering modules correspond to the code

An atomic is its modification order (`order`); a load may return any entry its
thread has not got past, and joins what the entry published if load and store
have acquire and release ordering. A plain access to an element is one step and
ticks the thread's clock. `NoDataRace` is the usual definition of a race on those
clocks. In `RingOrdering` an atomic has one writer at a time, so a store appends;
the attachment mutex is the view its last holder published. In `WeakOrdering` a
state word is a list of runs: a read-modify-write goes directly behind what it
reads and continues its run, the store of the valid bit begins a new one; an
observer that has not seen the newest run may still work on an older one, which
is how it can read an old word. `data` is the row that an observer's present copy
got, `Torn` if it races with a write.

Views allow old values but no value from the future (no load buffering): every
load that decides something here is followed by dependent accesses. A copy that
`weak_observe` makes and discards does race with the producer's write, formally
undefined behaviour that spsc.rs:480-482 accepts; what is shown is that no copy
that is kept does. Attaching a strong observer late, with its copy of
`head_index`, is modelled in `SpscTable` only.

### How `WaitTable` corresponds to the code

| Code | Model |
|---|---|
| the handler all adapters of a table share | `handler`: "busy" is `WaitBusy`; "yield", "condvar" and "park" are what `WaitBusyAndThen` does after its loops |
| a build with overflow checks | `overflow_checks` |
| `i` of `WaitBusyAndThen` | `counter[t]`, modulo `CounterMax + 1` or a panic |
| `WaitPark`'s `Vec<Thread>` | `threads[t]`, how often thread t is in it; order does not matter |
| the unpark token of a thread | `tokens` |
| asleep in `condvar.wait`, woken but not yet on, in `park_timeout` | `pc[t]`: "asleep", "woken", "parked" |
| `wait` | `Spin`, `Block`, `Wake`, `Unpark`, `ParkTimeout` |
| `send` | `Send` (new waiter), `TryPut`, `NotifySent`, `EndSend` (waiter dropped) |
| `handle` | `Handle`, `TryReceive`, `Renew` and `DropOld` (`waiter = new_waiter()` makes the new one first), `NotifyReceived`, `Leave` |

`setup` never changes; a behaviour has one handler and one kind of build.
`wait_until`, which nothing calls, is the same loop.

### How `CallTable` corresponds to the code

`callback_lock` is the mutex around the handler, `mutex` the consumer's own, which
guards `finished`. `send` is `TryPut`, then `LockCallback` and `Look` until a handler
is installed, `Call`, `Signal` if the handler returned true, `Return`. `handle` is
`LockMutex`, `Install`, and `Check`, `Wait`, `Wake` of `wait_while`. With `direct` the
table is not used and a message is the argument.

### How the harness modules correspond to the code

| Code | Model |
|---|---|
| `StressState` | `running`, `n_completed`, and `asleep`, the threads in `condvar.wait` |
| a worker thread | `pc[t]`: "start", "work" (in ping-pong "receive", "send"), "leave" (handle dropped), "complete", "ended" or "panicked" (in ping-pong "lost" if it was about to send) |
| a message tracker | `tracker[t]`, the set of messages with an odd number of updates: xor of hashes is symmetric difference, as far as hashes tell sets apart |
| a weak observer's loop | `WeakTest`, `WeakFirst`, `WeakLast`, `WeakObserve`, each reading the table anew (in ping-pong the loop test only: what is observed is only printed) |
| `measure_run_time`, joins, assertions | `Trigger`, `Measure`, `Join`; "failed" is a failed join or assertion |
| `cfg!(debug_assertions)` | `debug` in ping-pong; `StressHarness` is a debug build, the stricter one |

`n_messages = 0` is excluded: `n_messages - 1` underflows and receivers wait for a
message that never comes. So is a benchmark without producers or without
consumers, by whose number the code divides (generic_stress.rs:136-139). A
thread has one role.

## Runs

TLC explores each instance completely within its bounds. Where a run has `Casts`,
a behaviour has one of several sets of threads, chosen in its initial state: it
covers many small instances in place of one that is too large. Observers of one
kind are declared symmetric in `ring_wide` and `race_exclusive`, where no property
distinguishes them.

| Run | Instance | States | Question |
|---|---|---|---|
| `ring_wide` | size 4, 5 rows; two producers and two consumers, or one of each with two strong observers on one slot, or with a weak one | 1.5 M | does the ring implement `Table` when handles change hands; do readers and writer keep apart; are full, empty and the history real; does the assertion of `weak_observe` hold while generations last? |
| `ring_hostile` | size 2, 6 rows, generation modulo 2, a strong observer that attaches at any moment or a weak one; fair | 0.2 M | what survives the attach race and wrapped generations - does the ring still implement `Table` for its consumers; are torn copies discarded; do blocking calls end; do words decode bit by bit? |
| `wait_handlers` | 1 row, consumer and observer, 3 messages, every handler, both builds; fair | 0.2 M | are events announced; do parked threads go on; is the list clean; is all handled? |
| `call_table` | 1 row, 6 messages, with and without a table; fair | 264 | is there a deadlock or a lost wake-up; does each send handle its own row; is the mutex given back while there is no handler? |
| `harness` | 1 row (a ring of 2), 2 producers, consumer, strong and weak observer, 4 messages, spurious wake-ups, panics; fair | 0.3 M | can somebody always go on; does it end, measure all, and do its assertions hold? |
| `pingpong` | two tables of 1 row, an observer on each, a weak one, 3 messages, both builds, panics; fair | 0.03 M | one message on its way; does the measurement end; what do observers track? |
| `ring_ordering` | size 2, 3 rows; a producer and two consumers taking turns, or two producers with a consumer and an observer | 2.6 M | races on elements, relaxed loads of one's own index |
| `ordering_weak` | size 2, 3 rows, two weak observers with 2 copies each | 0.7 M | is a copy that is kept the row asked for; is it made before the next write? |
| `race_exclusive` | size 2, attach at any time | - | violated: finding 1 |
| `rollover_history` | size 2, generation modulo 2 | - | violated: finding 2 |
| `condvar_lost` | `WaitCondVar`, 1 row | - | violated: finding 3 |
| `pingpong_assert` | an observer on the call table, 2 messages | - | violated: finding 4 |

Bounds. `MaxRows` bounds the rows ever put and is the only cut-off of the ring's
state space; no other guard is invented. A ring behaves periodically in its size,
so what matters is that the tail goes round at least once past a head at each
position: 5 rows in a ring of 4 reuse an element, 6 in a ring of 2 each of them
twice. Size 4 is the smallest in which "one element off" differs from "the other
element". `GenMod` stands for 2^23: 8 is beyond what a run with it reaches, so no
generation wraps, and 2 makes it wrap after 2 * Size rows, once in 6 rows. Two
threads of a kind are what handing over a handle takes: the producer's, the
consumer's, an observer's head; a weak observer drops its bit and gets it again.
Two heads or two bits in use at once, and strong beside weak observers, are in no
passing run of `SpscTable`; the theorems below have any number of each. `NMessages` is at least one more than the rows
a table holds, so that producers wait; `BusyLoops` = 0 reaches the inner waiter
at once and `CounterMax` = 2 makes the counter wrap during one wait. `MaxCopies`
bounds how often a weak observer copies in `WeakOrdering`: one copy that is kept,
and one later. Two weak observers work at the same time in `ordering_weak` only;
in the code one never looks at another's bit. The theorems below remove the
bounds for what they state.

The properties:

- `ExclusiveAccess` is the INVARIANTS comment of `SpscTableCustom`, for the
  element being written.
- `ConsumerExactlyOnce` and `ImplementsTable` are the "exactly once" promises of
  mod.rs; the refinement maps `tail_index` to rows, `heads[0]` to taken and an
  attached observer's head to its position, so a put takes effect at `Publish`
  and a take at `Advance`.
- `ImplementsStream` is the same promise to consumers and weak observers alone,
  with strong observers that attach at any moment left out of what is promised
  and of what a put waits for.
- `EmptyIsReal` and `FullIsReal` say that comparing slots is as good as comparing
  indices.
- `WeakRowExact` is "either `None` or the actual value", as far as a generation
  field can tell: a returned row is whole, and is the one asked for or one a
  whole number of wraps away (observation 7 below). Where generations do not wrap
  it is the row itself, which is the theorem `WeakRowIsOwn`.
- `OwnBitSurvives` is the assertion of spsc.rs:494; `HistoryReadable` says the
  weak observers' history is as deep as the cursors claim.
- `RingInv` and `WeakInv` are the inductive invariants, checked before proof. In
  `ring_hostile`, where observers attach at any moment, `RingInv` puts only the
  consumer's head in the window and says nothing of the observers'; what it says of
  them where they do not is proved, and its consequences `ExclusiveAccess`,
  `EmptyIsReal` and `FullIsReal` are checked in `ring_wide`.
- `PutCompletes` and `RowsTaken` are liveness.
- `WordDecodes`: no field of a state word runs into another, and what is
  extracted is what was put in. `IndexDecodes`: slot and generation determine an
  index until the field wraps.
- `NoDataRace`, `OwnIndexExact`, `ReadsOwnRow`, `KeptIsOwnRow` and
  `KeptBeforeWrite` are what the comments at the atomic accesses claim for the
  ordering they choose.
- `EventsAnnounced`: a step that gives a blocked thread what it waits for is a try
  of a thread that itself goes on to notify, or its panic. The last message is
  received without a notify; the property shows that nobody waits for it.
- `ListIsLive`: the park list has entries of live waiters only, at most two of a
  thread - an upper bound, so it does not promise that a waiter is in the list.
  `ParkedGoOn`: whoever parks goes on, if need be by the timeout, which is what a
  receiver relies on (observation 2 below). `AllHandled`: `send` and `handle` return.
- `CallInv` says who holds what where; `NoLockCycle` and `HandledOwnRow` follow
  from it. `HandleReturns`: `handle` returns once its handler is installed, though
  the last call may come before the consumer sleeps. `CallbackComesFree`: a producer
  that finds no handler gives the mutex back before it looks again, each time.
- `HashesAgree` is the harness's assertions; `MeasuredAll` says that the duration
  covers all of the work; `WeakCursorsExist` that a weak observer asks for rows
  that were put only, though an empty table's recent cursor is 0. `NeverStuck`:
  until the benchmark is done somebody can go on, without a spurious wake-up,
  unless a worker panicked; `MainReturns`: then it ends. All of these hold where
  the main thread hangs after a panic (observation 4 below).
- `OneBall`: in ping-pong exactly one message waits, is being answered or is lost
  with the player that panicked over it. `MeasurementEnds`: the main thread reaches
  the joins, with every message answered, unless a worker panicked.
  `ObserversSeeTheirs`: an observer has tracked each message of its own table once.
  `TrackersAgree` is the assertion of generic_stress.rs:387, which fails (finding 4).

Every property of a passing run fails when a plausible mistake is put into the
model (`mutants` in `PROJECT.json`): a head left out of the full check, an
off-by-one, an untested flag, a state word never invalidated, a weaker ordering,
a missing notify, a lock not taken. The mutated operators stand next to the
originals.

### Fairness

`MCFairSpec` of the ring assumes weak fairness of each thread's own steps: threads are
preemptively scheduled and the spin loops yield to the scheduler after 1000
turns (spsc.rs:611, 654, 689). The producer must finish a call it has begun and
must retry a blocking put, but need not start one. Readers keep calling
("strong observers must make sure they process data promptly", mod.rs:83-84;
and a consumer that never takes would make `put` block by design). An attach
that holds the mutex finishes. No thread has to attach or drop. Both properties
are conditional on the consumer handle being held. Weak fairness suffices: all
of a thread's steps in a call stay enabled until it takes them.

In `WaitTable`, the two stress modules and `CallTable` each thread's steps are
weakly fair: the operating system schedules it. The return of `park_timeout` is
such a step; a spurious wake-up is not, nor is a panic or the detour of a weak
observer that reads nothing. No mutex is assumed to be fair, and Rust's `Mutex`
promises nothing. In `CallTable` that matters twice. A producer that finds no
handler unlocks and locks the mutex again in a tight loop, and may keep the
consumer from installing one (observation 8); so `HandleReturns` starts from the
installed handler, and of the loop itself only `CallbackComesFree` is claimed. And
a consumer that was woken for no reason again and again could hold its own mutex
whenever the producer wants it; so `HandleReturns` is claimed where spurious
wake-ups come to an end.

## Findings

1. **Strong attach race** (`race_exclusive`, spsc.rs:546-547).
   `attach_strong_observer` loads `head_index` and then stores it in the
   observer's head. If takes and puts happen in between, the head is behind the
   window: the producer has already passed it, the observer copies elements
   while they are written, and its slot may coincide with the tail's while rows
   are pending. The comments at spsc.rs:158-161 and 295-298 exclude this.
2. **Generation overflow ends history** (`rollover_history`, spsc.rs:473-475).
   The stored generation keeps 23 bits, as documented ("mod 2^23", 83-85), but is
   compared with the full generation of the cursor. After 2^23 * size rows
   `weak_observe` returns `None` for every cursor: the theorem `HistoryEnds`.
3. **A lost wake-up** (`condvar_lost`, wait_handler.rs:66-69). `WaitCondVar`'s
   waiter tests nothing under its mutex, so a notify between the adapter's failed
   `try_put` or `try_take` and the wait is lost, and the thread sleeps with its row
   (or its room) there. Where nothing else happens afterwards both sides sleep.
4. **The assertion of ping-pong** (`pingpong_assert`, generic_stress.rs:379-388).
   `stress_ping_pong` combines the trackers of both players, that is the messages
   of both tables, and asserts that each observer's tracker, which has those of one
   table, equals it. In a debug build with a strong observer the assertion always
   fails, and only then: the theorem `EndsAsSaidCorrect`.

Other observations, of behaviour that the models have and that no run is spent
on:

1. `weak_observe` asserts that its own bit is set (spsc.rs:494). If the generation
   wraps inside the call, the word is valid, of the same generation and without
   the bit: the code panics where its documentation aborts (96-97).
   `OwnBitSurvives` holds in `ring_wide`, without wraps; with the constants of
   `ring_hostile` it does not.
2. A `WaitPark` receiver is in the list for its first message only: `waiter =
   new_waiter()` (test_framework_impls.rs:118) makes the new waiter first, and
   dropping the old one removes both entries. From then on no notify unparks it,
   and each wait lasts until the timeout of a microsecond.
3. `WaitBusyAndThen` counts beyond its n (wait_handler.rs:195): after 2^32 calls
   of one waiter a debug build panics; a release build spins n turns again.
4. A worker that panics never calls `complete`, so the main thread waits for ever
   in `wait_for_complete` and does not reach the joins that would report it
   (generic_stress.rs:231, 236; 376, 381 in ping-pong). `MainReturns` and
   `MeasurementEnds` exclude panics for that reason.
5. A ping-pong player that panics takes the ball with it ("lost" in
   `StressPingPong`) or leaves it in a table without a consumer: the other player
   and the observers wait for the next message for ever.
6. A table of size 1 is accepted (spsc.rs:223) and has room for no row: the theorem
   `SizeOneHoldsNothing`.
7. `weak_observe` is "guaranteed to always return either `None` or the actual value
   that existed at the given index" (mod.rs:100-102, and 97-98), while spsc.rs:12-15
   knows that after a wrap of the generation inside the call "the weak observer
   will simply get the data from the wrong time". The models agree with spsc.rs:
   `WeakRowExact` is what holds with wraps, `WeakRowIsOwn` without.
8. `CallProducer` and `DirectCallProducerConsumer` wait for a handler by locking and
   unlocking the mutex that installing one takes (test_framework_impls.rs:214-220,
   267-273). If the mutex lets the producer in each time the consumer sleeps on.

## Proofs

TLAPS proves what follows for every value of the constants that the named
assumption admits: every size that is a power of two, any number of threads,
observers and messages. `MaxRows` and `MaxCopies` are any natural numbers. TLC
evaluates the assumptions in every run.

| Theorem | States | Assumes besides |
|---|---|---|
| `TypeCorrect` | `[]TypeOK` | - |
| `RingCorrect` | `[]RingInv` | - |
| `ConsumerCorrect` | `ConsumerExactlyOnce` | - |
| `EmptyCorrect` | `[]EmptyIsReal` | `~AttachWhileTaking` |
| `FullCorrect` | `FullIsReal` | `~AttachWhileTaking` |
| `ExclusiveCorrect` | `[]ExclusiveAccess` | `~AttachWhileTaking` |
| `ConsumerExclusive` | no element a consumer copies is being written | - |
| `NoMutualWait` | a head that makes a put wait has a row for its reader | `Size > 1` |
| `SizeOneHoldsNothing` | no put passes the full check, no row is put | `Size = 1` |
| `WeakCorrect` | `[]WeakInv` | - |
| `WeakRowCorrect` | `[]WeakRowExact` | - |
| `OwnBitCorrect` | `[]OwnBitSurvives` | `NoWrap` |
| `HistoryCorrect` | `[]HistoryReadable` | `NoWrap` |
| `WeakRowIsOwn` | a weak observation is nothing or the very row asked for | `NoWrap` |
| `HistoryEnds` | a row weak_observe returns has an index below `Size * GenMod` | - |
| `IndexFromWord` | slot and generation determine the index, below the wrap | - |
| `WrapsApart` | rows of equal slot and generation field are whole wraps apart | - |
| `NoSlotLost` | every observer head and reading bit is free or held by a handle | - |
| `RingImplementsTable` | `ImplementsTable` | `~AttachWhileTaking` |
| `RingImplementsStream` | `ImplementsStream` | - |

These are about `SpscTable`, under `ConfigAssumption` (the assertions of
`SpscTableCustom::new`) and `ThreadsAssumption` (a thread holds handles of one
kind). `NoWrap` is `MaxRows <= Size * GenMod`: no more rows are put than the
generation field tells apart, 2^23 times the size in the code. Without it the
theorems that have it would be false (finding 2, observation 1); and without
`~AttachWhileTaking` so would be those that have it (finding 1).

| Theorem | States | Assumption of its module |
|---|---|---|
| `OrderingCorrect` | `[]OrderingInv` | `OrderingAssumption` |
| `NoDataRaceCorrect` | `[]NoDataRace` | `OrderingAssumption` |
| `ReadsOwnRowCorrect` | `[]ReadsOwnRow` | `OrderingAssumption` |
| `OwnIndexCorrect` | `[]OwnIndexExact` | `OrderingAssumption` |
| `WeakOrderingCorrect` | `[]WeakOrderingInv` | `WeakOrderingAssumption` |
| `KeptIsOwnRowCorrect` | `[]KeptIsOwnRow` | `WeakOrderingAssumption` |
| `KeptBeforeWriteCorrect` | `[]KeptBeforeWrite` | `WeakOrderingAssumption` |
| `CallCorrect` | `[]CallInv` | `CallAssumption` |
| `NoDeadlock` | `[]NoLockCycle` | `CallAssumption` |
| `SendIsCall` | `[]HandledOwnRow` | `CallAssumption` |
| `WakeUpCorrect` | `[]WakeUpKept`: no sleep after the last message, no return before | `CallAssumption` |
| `NeverStuckCorrect` (`CallTableProofs`) | somebody can go on until all is handled | `CallAssumption` |
| `ListLive` | `[]ListIsLive` | - |
| `WaitTypeCorrect` | `[]TypeOK` of `WaitTable` | `WaitAssumption` |
| `AnnouncedCorrect` | `EventsAnnounced` | `WaitAssumption` |
| `HandledAllCorrect` | `[]HandledAll`: who returns has sent or received all, nobody more | `WaitAssumption` |
| `SomebodyReadyCorrect` | until all are done somebody is busy or has what he waits for | `WaitAssumption` |
| `HarnessCorrect` | `[]HarnessInv` | `StressAssumption` |
| `HashesCorrect` | `[]HashesAgree` | `StressAssumption` |
| `MeasuredCorrect` | `[]MeasuredAll` | `StressAssumption` |
| `CursorsCorrect` | `[]WeakCursorsExist` | `StressAssumption` |
| `NeverStuckCorrect` (`StressHarnessProofs`) | `[]NeverStuck` | `StressAssumption` |
| `PingPongCorrect` | `[]PingPongInv` | `PingPongAssumption` |
| `OneBallCorrect` | `[]OneBall` | `PingPongAssumption` |
| `ObserversSeeCorrect` | `[]ObserversSeeTheirs` | `PingPongAssumption` |
| `EndsAsSaidCorrect` | `[]EndsAsSaid`: the outcome of the benchmark | `PingPongAssumption` |
| `NeverStuckCorrect` (`StressPingPongProofs`) | somebody can go on until the outcome | `PingPongAssumption` |

A theorem without a property of a run is stated in the proof module; where it
says that somebody can go on, going on leaves out spurious wake-ups, and in
`CallTable` a producer that looks for a handler again. The `ASSUME`s ask
for no more than that there is something to send, room for a row, and threads
with one role each; `CallAssumption` also that `NoOne` is no thread.

`RingInv` and `WeakInv` are invariants of a run. `OrderingInv`, `WeakOrderingInv`,
`HarnessInv` and `PingPongInv` are written with `Seq` and `Nat` for the prover, and
evaluating them would take a run past its time; they were checked by TLC before
the proofs, on the instances of the runs or smaller ones, as were the invariants
that follow (`SignalInv`, `ShareInv`, `WakeInv`).

**The ring.** Exclusive access is not inductive: it says nothing before the
producer writes. What makes it so is that a full check, once passed, stays
true. `PutInv` records this for every head scanned so far - such a head leaves
room for one more row - and it survives because only the producer moves the
tail (`SingleInv`, from the flags), heads only move forward, and a head that
comes into use is a copy of the consumer's, which has been passed first or will
be scanned (head 0 is scanned before the others; `AttachInv`). That is the
step that needs `~AttachWhileTaking`, and only for heads other than 0: hence
`Heeded`. With it `WindowInv` keeps every heeded head at most Size-1 rows behind
the tail, so equal slots mean equal indices (`SameSlot`), which gives
`EmptyIsReal` and, with the refused head in hand, `FullIsReal`. `TakeInv` says that
a reader past its empty check owns the row at its head: the producer, one
position past a window it respects, is in another slot; with `ContentInv` the
copy is whole, which is `ConsumerExactlyOnce`. `SlotInv` (free list and handles
partition the observer slots) is needed so that no one else moves an observer's
head. The valid bit of the element being written is the small extra invariant
`InvalidInv`. The consumer's head is heeded in any case, so `ConsumerExclusive`
needs no proviso.

A put waits at a head whose slot is one past the tail's. Unless the table has one
element that is not the tail's slot, so the reader of that head is not empty:
`NoMutualWait`. With one element the two slots are always equal and head 0 is
always in use, so no put ever passes: `SizeOneHoldsNothing`. `NoSlotLost` is the
other half of `SlotInv` and `BitInv`: not only is a slot of one owner, every slot
has one, also after an unwinding drop.

**Weak observation.** An observer's copy races, so nothing can be said of it but
through the state word. `WordInv`: a valid word describes the row in its
element, which is whole and was put. `InvalidInv`: while the element changes
the word is not valid, and invalidating clears the reading bits. Hence
`ObserveInv`: as long as an observer's own bit is set - no other observer
uses it, by `BitInv` - the word it entered with still stands, and what it has copied
is what is there. With `WordInv` this gives `WeakRowExact`, wraps included.
For the assertion that a vouching word has one's bit, an old word must never
come back: `StaleInv`, where generations do not wrap. `HistoryInv` follows the
words of the last Size rows. An observer accepts only a word that has its
cursor's full generation in a field below `GenMod`, whence `HistoryEnds`
(`BelowWrap`). The row that such a word vouches for (`VouchedRow`) is the cursor's
own if nothing wraps, `WeakRowIsOwn`, and else of the same slot and generation
field, which is a whole number of wraps away (`WrapsApart`: slot and generation
are remainder and quotient of the index).

**The refinement.** `Publish` is the put, `Advance` the take or strong
observation, `TakeNone` and `Leave` the results of nothing, `AttachStrongStore` and
the drop of a strong observer theirs; every other step leaves what `Table` sees
alone. That there is room and that there is a row comes from `WindowInv`, `PutInv`
and `TakeInv`, that a new observer starts at the consumer's row from `AttachInv`,
and what a weak observer returns from `WeakRowExact`. `ImplementsStream` maps to a
`Table` without strong observers: their steps stutter, and what is left of the
argument concerns head 0 only, which is always heeded.

**Orderings of the ring.** The entries of an index are the numbers 0, 1, 2, ...
(`EntriesInv`), so an entry's place is its value. `ViewsInv`: whoever has got past
an entry covers what it published; all loads of other threads' indices are
acquiring. `OwnerInv`: the view of who holds a handle has got to the newest entry
of its index, and the mutex's view has when nobody holds it, which is
`OwnIndexExact`. `WindowInv` is the ring's window again, for all entries that a
producer may still load, since it may load an old one. `WritesInv` and `ReadsInv`
then say what an entry publishes: the tail's, the writes of the rows below it;
a head's, its reader's reads of the rows below it. Together: a reader is behind
the write of its row, and a producer behind all reads of the element, whose row
lies below every head.

**Orderings of the state words.** A run of read-modify-writes begins with the
store of the valid bit, and each has a generation of its own; only the newest
can be valid (`RunsInv`). An observer that finds valid bit and generation
unchanged after its copy has therefore worked on the newest run throughout,
without a write in between (`MarkedInv`), and knows the write before it
(`PublishedInv`). Its second read-modify-write publishes the copy in the run,
whose end the producer acquires before it writes (`KeptInv`). That the copy is the
row of the cursor, not only whole, follows from what a valid run is named after:
its generation and its slot are those of the row in the element (`NamedInv`), and
equal slots and generations are equal rows (`SameRow`).

**Waiting and calling.** `CallInv` is inductive as it stands: it fixes who holds
which mutex at each place, that a handler is installed wherever the producer
calls, and that the handler is behind the puts by exactly the one row in flight.
The producer wants the consumer's mutex only from inside a call, when a handler
is installed; the consumer wants the callback's only before it has installed
one: hence `NoLockCycle`. `ListIsLive` needs only the types of the list and the
places beside it: every path out of a call, a panic included, drops a waiter,
and a drop removes all entries of its thread. `EventsAnnounced` needs
`SendingInv`: a receiver leaves without a notify only with the last message, and
then the producer has none left to wait with.

`SignalInv` says when the flag is set: from the last message on, but for the
producer on its way to set it. The consumer tests the flag and goes to sleep with
its mutex held, and the producer sets it under the same mutex, so it is not set
between the two: `WakeUpKept`. `ShareInv` counts what each thread of `WaitTable` has
got: less than its share until it leaves, all of it when it does. If nobody were
busy or ready, the consumer would have taken all rows and each attached observer
seen them, so there would be room; then the producer has put everything, and
whoever still waits has a row: `SomebodyReady`. This does not depend on the handler;
that a thread with what it waits for also wakes does (finding 3, `ParkedGoOn`).

**The harness.** `SentInv`: the messages sent are those the producers have
counted, each once. `ConsumedInv`: the first `taken` of them are partitioned among
the consumers. `CountInv`: a worker leaves its loop when it has done its share.
Everyone completes at most once, so the main thread goes on when all have ended
(`EndInv`). By then the messages sent correspond to pairs of a producer and a
number below its share, so there are at most n_messages of each, and that many
exactly when everyone has done its share (`SentCount`, `TakenCount`,
`AllSentAndTaken`); and the trackers agree,
since what the consumers have tracked is disjoint (`CombinedDisjoint`).

`NeverStuck` needs in addition that who sleeps waits for what has not happened
(`SleepInv`: the two events wake everybody, and the state is tested with the mutex
held) and that whoever a producer must wait for is on its way (`AttachedInv`). If
nobody went on, all that was sent would be taken and observed, so there would be
room; hence all is sent, hence taken and observed, and the loops of the weak
observers end too (`SharesDone`); then everybody has completed, and the main
thread is awake.

In ping-pong how far the two players are determines everything: each table is
one answer behind what was taken from the other (`BallInv`). Whoever has the ball
finds the other table empty for its reader and, unless an observer can go on, for
its observers (`RoomForBall`); so nobody is stuck there either (`AllDone`). At the
end both players have answered everything: each observer has tracked the
messages of one table, the first of which is not among those of the other, and
the combined trackers hold both (`SidesDiffer`).

Only model-checked: `WordDecodes` and `IndexDecodes`, as the prover has no theory
of the bitwise operators - the arithmetic that the bits stand for is `IndexFromWord`
and `WrapsApart`; and liveness (`PutCompletes`, `RowsTaken`, `ParkedGoOn`,
`AllHandled`, `HandleReturns`, `CallbackComesFree`, `MainReturns`,
`MeasurementEnds`), which rests on
fairness and ENABLED and is out of the prover's reach. What is proved of these is
their safety half: that somebody can go on (`NoMutualWait`, `SomebodyReady`,
`NeverStuck`) and in what state things end (`HandledAll`, `WakeUpKept`,
`EndsAsSaid`). The findings are TLC's.

## Plan

Every safety property that a run checks is proved, but for the two on bits.
What could follow:

1. `WeakOrdering` as a refinement: that its keeping and discarding of copies agrees
   with the state words of `SpscTable` where all loads return the newest entry.
   That what is kept is the row asked for is proved in both.
2. Late attachment of a strong observer, with its copy of `head_index`, in
   `RingOrdering`.
3. The liveness properties, with a prover that has ENABLED: the variants (messages
   left, rows ahead) are in the `NeverStuck` arguments already.

## Not modelled

- The benchmark driver's configuration, git and YAML output: I/O. The set-ups of
  handles it makes are the initial states of the modules.
- The adapters for `mpsc` and `kanal`: each forwards to a channel of another crate.
- `NullReceiver` and the stubs: they cannot be constructed; `yield_thread` is a
  system call, part of the scheduling that fairness assumes.
- Overflow panics of `Cursor` arithmetic and of indices at 2^64.
- Delays, measured times and the serialisation of statistics.
