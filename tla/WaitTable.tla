----------------------------- MODULE WaitTable -----------------------------
(***************************************************************************)
(* How the benchmark waits for a table: the adapters WaitProducer,         *)
(* WaitConsumer and WaitStrongObserver of                                  *)
(* src/src/bin/bench/test_framework_impls.rs around the wait handlers of   *)
(* src/src/bin/bench/wait_handler.rs.  All adapters of a table share one   *)
(* handler.  The table itself is the abstract one, so that a try_put or    *)
(* try_take is one step.                                                   *)
(*                                                                         *)
(* The critical sections of the handlers' mutexes never wait for anything  *)
(* else, so each is one step.                                              *)
(***************************************************************************)
EXTENDS Integers

CONSTANTS
  Capacity,        \* rows the table holds
  Producer,        \* the thread with the WaitProducer
  Consumer,        \* the thread with the WaitConsumer
  Observers,       \* the threads with a WaitStrongObserver
  NMessages,       \* messages the producer sends and each receiver handles
  Handlers,        \* of which the table has one: "busy", or what
                   \* WaitBusyAndThen does after its loops
  BusyLoops,       \* n of WaitBusyAndThen
  CounterMax       \* the largest value of its counter (u32::MAX)

Receivers == {Consumer} \cup Observers
Threads   == {Producer} \cup Receivers

ASSUME WaitAssumption ==
  /\ Capacity \in Nat \ {0} /\ NMessages \in Nat \ {0}
  /\ Producer \notin Receivers /\ Consumer \notin Observers
  /\ Handlers \subseteq {"busy", "yield", "condvar", "park"}
  /\ BusyLoops \in Nat /\ CounterMax \in Nat /\ BusyLoops <= CounterMax

VARIABLES
  handler,  \* the kind of waiter that all adapters of the table use
  overflow_checks,  \* does the build panic on overflow (a debug build)?
  rows, taken, position, result,  \* the table
  pc,       \* where each thread is in send or handle
  counter,  \* i of the WaitBusyAndThen waiter of each thread
  threads,  \* how often each thread is in the list of a WaitPark
  tokens    \* threads with an unpark that no park has consumed

table == <<rows, taken, position, result>>
setup == <<handler, overflow_checks>>
vars  == <<handler, overflow_checks, rows, taken, position, result, pc,
           counter, threads, tokens>>

T == INSTANCE Table WITH
  Consumers <- {Consumer}, StrongObservers <- Observers, WeakObservers <- {}

(* Every handle is attached and every adapter has its copy of the handler. *)
Init ==
  /\ handler \in Handlers /\ overflow_checks \in BOOLEAN
  /\ rows = 0 /\ taken = 0
  /\ position = [o \in Observers |-> 0]
  /\ result = [r \in Receivers |-> T!None]
  /\ pc = [t \in Threads |-> "idle"]
  /\ counter = [t \in Threads |-> 0]
  /\ threads = [t \in Threads |-> 0]
  /\ tokens = {}

Goto(t, label) == pc' = [pc EXCEPT ![t] = label]
-----------------------------------------------------------------------------
(* WaitPark: a waiter is an entry in the list, dropping one removes every  *)
(* entry of its thread.                                                    *)

(* Mutant: dropping a waiter leaves its entries.                           *)
DropWaiterNot(t) == UNCHANGED threads

NewWaiter(t) ==
  /\ threads' = IF handler = "park" THEN [threads EXCEPT ![t] = @ + 1]
                                    ELSE threads
  /\ counter' = [counter EXCEPT ![t] = 0]

DropWaiter(t) == threads' = [threads EXCEPT ![t] = 0]

(* notify: whoever sleeps on the condition variable is woken, whoever is   *)
(* in the list gets a token, be it the notifying thread itself.            *)
Notify(t, label) ==
  /\ pc' = [u \in Threads |->
              IF u = t THEN label
              ELSE IF pc[u] = "asleep" THEN "woken" ELSE pc[u]]
  /\ tokens' = tokens \cup {u \in Threads : threads[u] > 0}

-----------------------------------------------------------------------------
(* wait, of WaitBusyAndThen around one of the others, or of WaitBusy.      *)

(* Mutant: the counter does not wrap.                                      *)
WaitedWide(t) ==
  /\ counter' = [counter EXCEPT ![t] = @ + 1]
  /\ Goto(t, "try")
  /\ UNCHANGED <<position, threads>>

(* i += 1, in the end.  A panic unwinds through the adapter.               *)
Waited(t) ==
  \/ /\ handler = "busy" \/ counter[t] < CounterMax \/ ~overflow_checks
     /\ counter' =
          [counter EXCEPT ![t] =
             IF handler = "busy" THEN 0 ELSE (@ + 1) % (CounterMax + 1)]
     /\ Goto(t, "try")
     /\ UNCHANGED <<position, threads>>
  \/ /\ handler # "busy" /\ counter[t] = CounterMax /\ overflow_checks
     /\ Goto(t, "panicked")
     /\ DropWaiter(t)
     /\ position' = [o \in Observers |->
                       IF o = t THEN T!Detached ELSE position[o]]
     /\ UNCHANGED counter

Spin(t) ==
  /\ pc[t] = "wait"
  /\ handler \in {"busy", "yield"} \/ counter[t] <= BusyLoops
  /\ Waited(t)
  /\ UNCHANGED <<rows, taken, result, tokens>>

Block(t) ==
  /\ pc[t] = "wait" /\ counter[t] > BusyLoops
  /\ \/ handler = "condvar" /\ Goto(t, "asleep")
     \/ handler = "park" /\ t \notin tokens /\ Goto(t, "parked")
  /\ UNCHANGED <<table, counter, threads, tokens>>

Wake(t) ==
  /\ pc[t] = "woken"
  /\ Waited(t)
  /\ UNCHANGED <<rows, taken, result, tokens>>

Unpark(t) ==
  /\ t \in tokens /\ handler = "park"
  /\ \/ pc[t] = "parked"
     \/ pc[t] = "wait" /\ counter[t] > BusyLoops
  /\ tokens' = tokens \ {t}
  /\ Waited(t)
  /\ UNCHANGED <<rows, taken, result>>

(* Mutant: after a timeout the waiter parks again.                         *)
ParkTimeoutAgain(t) ==
  pc[t] = "parked" /\ t \notin tokens /\ UNCHANGED vars

ParkTimeout(t) ==
  /\ pc[t] = "parked" /\ t \notin tokens
  /\ Waited(t)
  /\ UNCHANGED <<rows, taken, result, tokens>>

(* A condition variable may wake a thread for no reason.                   *)
SpuriousWake(t) ==
  /\ pc[t] = "asleep"
  /\ Goto(t, "woken")
  /\ UNCHANGED <<setup, table, counter, threads, tokens>>

Wait(t) == Spin(t) \/ Block(t) \/ Wake(t) \/ Unpark(t) \/ ParkTimeout(t)
-----------------------------------------------------------------------------
(* WaitProducer::send, for every message in turn.                          *)

Send(p) ==
  /\ pc[p] = "idle" /\ rows < NMessages
  /\ NewWaiter(p)
  /\ Goto(p, "try")
  /\ UNCHANGED <<table, tokens>>

HasSpace ==
  /\ rows - taken < Capacity
  /\ \A o \in T!Attached : rows - position[o] < Capacity

(* Mutant: send returns without a notify.                                  *)
TryPutQuiet(p) ==
  /\ pc[p] = "try"
  /\ \/ HasSpace /\ T!Put /\ Goto(p, "sent")
     \/ ~HasSpace /\ UNCHANGED table /\ Goto(p, "wait")
  /\ UNCHANGED <<counter, threads, tokens>>

TryPut(p) ==
  /\ pc[p] = "try"
  /\ \/ HasSpace /\ T!Put /\ Goto(p, "notify")
     \/ ~HasSpace /\ UNCHANGED table /\ Goto(p, "wait")
  /\ UNCHANGED <<counter, threads, tokens>>

NotifySent(p) ==
  /\ pc[p] = "notify"
  /\ Notify(p, "sent")
  /\ UNCHANGED <<table, counter, threads>>

EndSend(p) ==
  /\ pc[p] = "sent"
  /\ DropWaiter(p)
  /\ Goto(p, IF rows < NMessages THEN "idle" ELSE "done")
  /\ UNCHANGED <<table, counter, tokens>>

Produce(p) == Send(p) \/ TryPut(p) \/ NotifySent(p) \/ EndSend(p)
-----------------------------------------------------------------------------
(* WaitConsumer::handle and WaitStrongObserver::handle.  The handler f     *)
(* returns true for the last message, and then the loop breaks at once.    *)

Received(r) == IF r = Consumer THEN taken ELSE position[r]

(* Mutant: the receiver stops one message early.                           *)
LastEarly(r) == Received(r) + 2 >= NMessages

Last(r) == Received(r) + 1 >= NMessages

Handle(r) ==
  /\ pc[r] = "idle"
  /\ NewWaiter(r)
  /\ Goto(r, "try")
  /\ UNCHANGED <<table, tokens>>

TryReceive(r) ==
  /\ pc[r] = "try"
  /\ \/ /\ IF r = Consumer THEN T!Take(r) ELSE T!StrongObserve(r)
        /\ Goto(r, IF Last(r) THEN "leave" ELSE "renew")
     \/ T!ReceiveNone(r) /\ Goto(r, "wait")
  /\ UNCHANGED <<counter, threads, tokens>>

(* waiter = new_waiter(): the new one is made before the old one goes.     *)
Renew(r) ==
  /\ pc[r] = "renew"
  /\ NewWaiter(r)
  /\ Goto(r, "drop_old")
  /\ UNCHANGED <<table, tokens>>

DropOld(r) ==
  /\ pc[r] = "drop_old"
  /\ DropWaiter(r)
  /\ Goto(r, "notify")
  /\ UNCHANGED <<table, counter, tokens>>

NotifyReceived(r) ==
  /\ pc[r] = "notify"
  /\ Notify(r, "try")
  /\ UNCHANGED <<table, counter, threads>>

(* The waiter is dropped, and with the adapter the handle.                 *)
Leave(r) ==
  /\ pc[r] = "leave"
  /\ DropWaiter(r)
  /\ IF r = Consumer THEN UNCHANGED table ELSE T!DetachStrong(r)
  /\ Goto(r, "done")
  /\ UNCHANGED <<counter, tokens>>

Receive(r) ==
  Handle(r) \/ TryReceive(r) \/ Renew(r) \/ DropOld(r) \/ NotifyReceived(r)
    \/ Leave(r)
-----------------------------------------------------------------------------
Step(t) ==
  /\ \/ t = Producer /\ Produce(t)
     \/ t \in Receivers /\ Receive(t)
     \/ Wait(t)
  /\ UNCHANGED setup

Finished == \A t \in Threads : pc[t] = "done"

Terminated == Finished /\ UNCHANGED vars

Next == (\E t \in Threads : Step(t) \/ SpuriousWake(t)) \/ Terminated

Spec == Init /\ [][Next]_vars

(* The threads are scheduled, and a park's timeout runs out.  Nothing      *)
(* promises a spurious wake-up.                                            *)
FairSpec == Spec /\ \A t \in Threads : WF_vars(Step(t))
-----------------------------------------------------------------------------
Labels == {"idle", "try", "wait", "asleep", "woken", "parked", "notify",
           "sent", "renew", "drop_old", "leave", "done", "panicked"}

(* Types of all variables.                                                 *)
TypeOK ==
  /\ handler \in Handlers /\ overflow_checks \in BOOLEAN
  /\ rows \in Nat /\ taken \in Nat
  /\ position \in [Observers -> Nat \cup {T!Detached}]
  /\ pc \in [Threads -> Labels]
  /\ counter \in [Threads -> 0 .. CounterMax]
  /\ threads \in [Threads -> Nat]
  /\ tokens \subseteq Threads

Blocked(t) == pc[t] \in {"asleep", "parked"}

(* What a blocked thread waits for.                                        *)
Ready(t) ==
  IF t = Producer THEN HasSpace
  ELSE IF t = Consumer THEN taken < rows ELSE position[t] < rows

(* "Notifiers can trigger waiters to wake up" (wait_handler.rs:1-2): a     *)
(* step that gives a blocked thread what it waits for is a try of a thread *)
(* that goes on to notify, or its panic.  The last message is received     *)
(* without a notify (test_framework_impls.rs:114-119), but then nobody     *)
(* waits any more.                                                         *)
EventsAnnounced ==
  [][\A t \in Threads : Blocked(t) /\ ~Ready(t) /\ Ready(t)' =>
       \E u \in Threads :
         \/ pc[u] = "try" /\ pc'[u] \in {"renew", "notify"}
         \/ pc[u] # "panicked" /\ pc'[u] = "panicked"]_vars

(* The list of a WaitPark holds live waiters only, at most the two of a    *)
(* receiver that replaces its waiter: no thread that has left is unparked, *)
(* and the list does not grow with the messages.                           *)
ListIsLive ==
  \A t \in Threads :
    threads[t] <=
      CASE pc[t] \in {"idle", "done", "panicked"} -> 0
        [] pc[t] = "drop_old"                     -> 2
        [] OTHER                                  -> 1

(* park_timeout (wait_handler.rs:113): a parked thread that has become     *)
(* ready goes on, though no notify may unpark it - from its second message *)
(* on a receiver that parks is not in the list (Renew, DropOld).           *)
ParkedGoOn == \A t \in Threads : pc[t] = "parked" /\ Ready(t) ~> pc[t] # "parked"

(* "Notifiers can trigger waiters to wake up" (wait_handler.rs:1-2): no    *)
(* thread stays blocked while what it waits for is there.                  *)
WaitersWake == \A t \in Threads : Blocked(t) /\ Ready(t) ~> ~Blocked(t)

(* send and handle return in the end, having sent or handled everything,   *)
(* also when the loop counter wraps.  WaitCondVar may sleep for good       *)
(* (WaitersWake), and a build with overflow checks may panic in a long     *)
(* wait (wait_handler.rs:195).                                             *)
AllHandled ==
  handler # "condvar" /\ ~overflow_checks =>
    <>(Finished /\ rows = NMessages /\ taken = NMessages)
=============================================================================
