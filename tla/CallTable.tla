----------------------------- MODULE CallTable -----------------------------
(***************************************************************************)
(* Receiving by a call: CallProducer with CallConsumer, and                *)
(* DirectCallProducerConsumer, of                                          *)
(* src/src/bin/bench/test_framework_impls.rs.  The consumer's handle puts  *)
(* its handler behind a mutex that both share and sleeps; the producer's   *)
(* send runs the handler, on the producer's thread, and the last message   *)
(* wakes the consumer.                                                     *)
(*                                                                         *)
(* Two mutexes are nested on each side: callback_lock guards the handler,  *)
(* mutex is the consumer's own.  A lock is a step of its own wherever it   *)
(* is taken inside another.                                                *)
(***************************************************************************)
EXTENDS Integers, Sequences

CONSTANTS
  Capacity,   \* rows the table holds
  Producer, Consumer,
  NMessages   \* messages sent; the handler returns true for the last

Threads == {Producer, Consumer}
NoOne   == "no one"

ASSUME CallAssumption ==
  /\ Capacity \in Nat \ {0} /\ NMessages \in Nat \ {0}
  /\ Producer # Consumer /\ NoOne \notin Threads

VARIABLES
  direct,     \* DirectCallProducerConsumer: a message is an argument
  rows, taken, position, result,  \* the table, unused if direct
  pc,             \* where each thread is in send or handle
  sent,           \* sends that have returned
  handled,        \* the messages the handler was called with
  installed,      \* is there a handler in callback?
  callback_lock,  \* who holds callback: a thread or NoOne
  mutex,          \* who holds the consumer's mutex
  finished        \* the flag in that mutex

table == <<rows, taken, position, result>>
vars  == <<direct, rows, taken, position, result, pc, sent, handled,
           installed, callback_lock, mutex, finished>>

T == INSTANCE Table WITH
  Consumers <- {Consumer}, StrongObservers <- {}, WeakObservers <- {}

Init ==
  /\ direct \in BOOLEAN
  /\ T!Init
  /\ pc = [t \in Threads |-> IF t = Producer THEN "put" ELSE "handle"]
  /\ sent = 0 /\ handled = <<>>
  /\ installed = FALSE /\ finished = FALSE
  /\ callback_lock = NoOne /\ mutex = NoOne

Goto(t, label) == pc' = [pc EXCEPT ![t] = label]
-----------------------------------------------------------------------------
(* send.                                                                   *)

TryPut ==
  /\ pc[Producer] = "put" /\ sent < NMessages
  /\ IF direct THEN UNCHANGED table ELSE T!Put
  /\ Goto(Producer, "lock_callback")
  /\ UNCHANGED <<direct, sent, handled, installed, callback_lock, mutex,
                 finished>>

LockCallback ==
  /\ pc[Producer] = "lock_callback" /\ callback_lock = NoOne
  /\ callback_lock' = Producer
  /\ Goto(Producer, "look")
  /\ UNCHANGED <<direct, table, sent, handled, installed, mutex, finished>>

(* Mutant: send does not wait until there is a handler to call.            *)
LookOnce ==
  /\ pc[Producer] = "look"
  /\ Goto(Producer, IF installed THEN "call" ELSE "return")
  /\ UNCHANGED <<direct, table, sent, handled, installed, callback_lock,
                 mutex, finished>>

(* Mutant: send calls before the consumer is about to wait.                *)
LookAlways ==
  /\ pc[Producer] = "look"
  /\ Goto(Producer, "call")
  /\ UNCHANGED <<direct, table, sent, handled, installed, callback_lock,
                 mutex, finished>>

(* Mutant: send waits for a handler with the mutex held.                   *)
LookHolding ==
  /\ pc[Producer] = "look"
  /\ IF installed THEN Goto(Producer, "call") ELSE UNCHANGED pc
  /\ UNCHANGED <<direct, table, sent, handled, installed, callback_lock,
                 mutex, finished>>

Look ==
  /\ pc[Producer] = "look"
  /\ \/ installed /\ Goto(Producer, "call") /\ UNCHANGED callback_lock
     \/ ~installed /\ Goto(Producer, "lock_callback") /\ callback_lock' = NoOne
  /\ UNCHANGED <<direct, table, sent, handled, installed, mutex, finished>>

(* The callback: try_take, and the handler f on what was taken.            *)
Call ==
  /\ pc[Producer] = "call"
  /\ \/ direct /\ handled' = Append(handled, sent) /\ UNCHANGED table
     \/ /\ ~direct
        /\ IF taken = rows
           THEN T!ReceiveNone(Consumer) /\ UNCHANGED handled
           ELSE T!Take(Consumer) /\ handled' = Append(handled, taken)
  /\ Goto(Producer, IF handled' # handled /\ Len(handled') >= NMessages
                    THEN "lock_mutex" ELSE "return")
  /\ UNCHANGED <<direct, sent, installed, callback_lock, mutex, finished>>

(* Mutant: the flag is set without the consumer's mutex.                   *)
SignalUnlocked ==
  /\ pc[Producer] = "lock_mutex"
  /\ finished' = TRUE
  /\ pc' = [t \in Threads |->
              IF t = Producer THEN "return"
              ELSE IF pc[t] = "asleep" THEN "woken" ELSE pc[t]]
  /\ UNCHANGED <<direct, table, sent, handled, installed, callback_lock,
                 mutex>>

(* Lock, guard.set(true), notify_all and unlock: nothing is waited for in  *)
(* between.                                                                *)
Signal ==
  /\ pc[Producer] = "lock_mutex" /\ mutex = NoOne
  /\ finished' = TRUE
  /\ pc' = [t \in Threads |->
              IF t = Producer THEN "return"
              ELSE IF pc[t] = "asleep" THEN "woken" ELSE pc[t]]
  /\ UNCHANGED <<direct, table, sent, handled, installed, callback_lock,
                 mutex>>

Return ==
  /\ pc[Producer] = "return"
  /\ callback_lock' = NoOne
  /\ sent' = sent + 1
  /\ Goto(Producer, "put")
  /\ UNCHANGED <<direct, table, handled, installed, mutex, finished>>

Send == TryPut \/ LockCallback \/ Look \/ Call \/ Signal \/ Return
-----------------------------------------------------------------------------
(* handle.                                                                 *)

LockMutex ==
  /\ pc[Consumer] = "handle" /\ mutex = NoOne
  /\ mutex' = Consumer
  /\ Goto(Consumer, "install")
  /\ UNCHANGED <<direct, table, sent, handled, installed, callback_lock,
                 finished>>

Install ==
  /\ pc[Consumer] = "install" /\ callback_lock = NoOne
  /\ installed' = TRUE
  /\ Goto(Consumer, "check")
  /\ UNCHANGED <<direct, table, sent, handled, callback_lock, mutex, finished>>

(* wait_while: with the mutex held, the flag is tested and then waited     *)
(* for; waiting gives the mutex back and takes it again.                   *)
Check ==
  /\ pc[Consumer] = "check"
  /\ \/ finished /\ Goto(Consumer, "done") /\ mutex' = NoOne
     \/ ~finished /\ Goto(Consumer, "wait") /\ UNCHANGED mutex
  /\ UNCHANGED <<direct, table, sent, handled, installed, callback_lock,
                 finished>>

Wait ==
  /\ pc[Consumer] = "wait"
  /\ mutex' = NoOne
  /\ Goto(Consumer, "asleep")
  /\ UNCHANGED <<direct, table, sent, handled, installed, callback_lock,
                 finished>>

Wake ==
  /\ pc[Consumer] = "woken" /\ mutex = NoOne
  /\ mutex' = Consumer
  /\ Goto(Consumer, "check")
  /\ UNCHANGED <<direct, table, sent, handled, installed, callback_lock,
                 finished>>

(* A condition variable may wake a thread for no reason.                   *)
SpuriousWake ==
  /\ pc[Consumer] = "asleep"
  /\ Goto(Consumer, "woken")
  /\ UNCHANGED <<direct, table, sent, handled, installed, callback_lock,
                 mutex, finished>>

Handle == LockMutex \/ Install \/ Check \/ Wait \/ Wake
-----------------------------------------------------------------------------
Terminated == sent = NMessages /\ pc[Consumer] = "done" /\ UNCHANGED vars

Next == Send \/ Handle \/ SpuriousWake \/ Terminated

Spec == Init /\ [][Next]_vars

(* The threads are scheduled.  Nothing is assumed of the mutexes: whoever  *)
(* waits for one may find it taken whenever it looks.                      *)
FairSpec == Spec /\ WF_vars(Send) /\ WF_vars(Handle)
-----------------------------------------------------------------------------
Holding == {"look", "call", "lock_mutex", "return"}
Labels  == Holding \cup {"put", "lock_callback", "handle", "install", "check",
                         "wait", "asleep", "woken", "done"}

(* What each thread holds at each place, and how far the handler is        *)
(* behind: why neither deadlock nor a call without a row is possible.      *)
CallInv ==
  /\ pc \in [Threads -> Labels]
  /\ rows \in Nat /\ taken \in Nat /\ sent \in Nat /\ handled \in Seq(Int)
  /\ callback_lock = IF pc[Producer] \in Holding THEN Producer ELSE NoOne
  /\ mutex = IF pc[Consumer] \in {"install", "check", "wait"}
             THEN Consumer ELSE NoOne
  /\ installed <=> pc[Consumer] \notin {"handle", "install"}
  /\ pc[Producer] \in {"call", "lock_mutex"} => installed
  /\ Len(handled) = IF pc[Producer] \in {"lock_mutex", "return"}
                    THEN sent + 1 ELSE sent
  /\ ~direct => /\ taken = Len(handled)
                /\ rows = IF pc[Producer] = "put" THEN sent ELSE sent + 1
  /\ \A i \in 1 .. Len(handled) : handled[i] = i - 1

(* A send is a call: it hands the handler the one message it was given,    *)
(* whole streams in order, before it returns, and never a message twice    *)
(* (test_framework_impls.rs:214-220 and 268-273).                          *)
HandledOwnRow ==
  /\ \A i \in 1 .. Len(handled) : handled[i] = i - 1
  /\ pc[Producer] = "put" => Len(handled) = sent

(* handle takes callback inside its mutex (228-232), send takes the mutex  *)
(* inside callback (215, 236): they never hold one each and want the       *)
(* other's.                                                                *)
NoLockCycle ==
  ~ /\ pc[Consumer] = "install" /\ mutex = Consumer
    /\ pc[Producer] = "lock_mutex" /\ callback_lock = Producer

(* handle returns, once its handler is installed: though the last call may *)
(* come before the consumer goes to sleep, and not before all was handled  *)
(* (246 and 295).  A consumer that is woken for no reason without end      *)
(* might hold its mutex whenever the producer wants it.                    *)
HandleReturns ==
  <>[][~SpuriousWake]_vars =>
    (installed ~> pc[Consumer] = "done" /\ Len(handled) = NMessages)

(* A producer that looks for a handler gives callback back each time       *)
(* (214-220 and 267-273): a consumer that wants to install one finds the   *)
(* mutex free again and again, which is all that scheduling can give it -  *)
(* that it gets in besides is up to the mutex.                             *)
CallbackComesFree ==
  []<>(pc[Consumer] = "install" => callback_lock = NoOne)
=============================================================================
