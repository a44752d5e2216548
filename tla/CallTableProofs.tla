-------------------------- MODULE CallTableProofs --------------------------
(***************************************************************************)
(* Theorems about CallTable, for every number of messages, with and        *)
(* without a table: CallInv is inductive, and it implies that the nested   *)
(* locks cannot deadlock and that every send handles its own message.      *)
(***************************************************************************)
EXTENDS CallTable, TLAPS

LEMMA InitCallInv == Init => CallInv
<1> SUFFICES ASSUME Init PROVE CallInv
  OBVIOUS
<1>1. /\ pc \in [Threads -> Labels]
      /\ pc[Producer] = "put" /\ pc[Consumer] = "handle"
  BY CallAssumption DEF Init, Threads, Labels, Holding
<1>2. handled \in Seq(Int) /\ Len(handled) = 0
  BY DEF Init
<1>3. rows = 0 /\ taken = 0 /\ sent = 0
  BY DEF Init, T!Init
<1>4. installed = FALSE /\ callback_lock = NoOne /\ mutex = NoOne
  BY DEF Init
<1> QED  BY <1>1, <1>2, <1>3, <1>4 DEF CallInv, Holding

(* Steps that leave the table and what was handled alone.                  *)
LEMMA QuietSteps ==
  ASSUME CallInv,
         \/ LockCallback \/ Look \/ Signal
         \/ LockMutex \/ Install \/ Check \/ Wait \/ Wake \/ SpuriousWake
  PROVE  CallInv'
<1> USE CallAssumption
    DEF CallInv, Threads, Labels, Holding, NoOne, Goto, table
<1>1. CASE LockCallback  BY <1>1 DEF LockCallback
<1>2. CASE Look          BY <1>2 DEF Look
<1>3. CASE Signal        BY <1>3 DEF Signal
<1>4. CASE LockMutex     BY <1>4 DEF LockMutex
<1>5. CASE Install       BY <1>5 DEF Install
<1>6. CASE Check         BY <1>6 DEF Check
<1>7. CASE Wait          BY <1>7 DEF Wait
<1>8. CASE Wake          BY <1>8 DEF Wake
<1>9. CASE SpuriousWake  BY <1>9 DEF SpuriousWake
<1> QED  BY <1>1, <1>2, <1>3, <1>4, <1>5, <1>6, <1>7, <1>8, <1>9

LEMMA PutStep == ASSUME CallInv, TryPut PROVE CallInv'
<1>1. /\ pc' = [pc EXCEPT ![Producer] = "lock_callback"]
      /\ pc[Producer] = "put"
      /\ UNCHANGED <<direct, sent, handled, installed, callback_lock, mutex>>
  BY DEF TryPut, Goto
<1>2. /\ pc' \in [Threads -> Labels]
      /\ pc'[Producer] = "lock_callback" /\ pc'[Consumer] = pc[Consumer]
  BY <1>1, CallAssumption DEF CallInv, Threads, Labels
<1>3. /\ rows' \in Nat /\ taken' \in Nat
      /\ ~direct => rows' = rows + 1 /\ taken' = taken
  <2>1. CASE direct   BY <2>1 DEF TryPut, table, CallInv
  <2>2. CASE ~direct  BY <2>2 DEF TryPut, T!Put, CallInv
  <2> QED  BY <2>1, <2>2
<1> QED  BY <1>1, <1>2, <1>3 DEF CallInv, Holding

LEMMA ReturnStep == ASSUME CallInv, Return PROVE CallInv'
<1>1. /\ pc' = [pc EXCEPT ![Producer] = "put"]
      /\ pc[Producer] = "return"
      /\ callback_lock' = NoOne /\ sent' = sent + 1
      /\ UNCHANGED <<direct, rows, taken, handled, installed, mutex>>
  BY DEF Return, Goto, table
<1>2. /\ pc' \in [Threads -> Labels]
      /\ pc'[Producer] = "put" /\ pc'[Consumer] = pc[Consumer]
  BY <1>1, CallAssumption DEF CallInv, Threads, Labels
<1> QED  BY <1>1, <1>2 DEF CallInv, Holding

(* The call finds the row of its own send: it is the only one there.       *)
LEMMA CallStep == ASSUME CallInv, Call PROVE CallInv'
<1>1. /\ pc[Producer] = "call"
      /\ UNCHANGED <<direct, sent, installed, callback_lock, mutex>>
  BY DEF Call
<1>2. /\ handled \in Seq(Int) /\ Len(handled) = sent /\ sent \in Nat
      /\ installed /\ rows \in Nat /\ taken \in Nat
      /\ ~direct => taken = sent /\ rows = sent + 1
  BY <1>1 DEF CallInv
<1>3. ~direct => ~ T!ReceiveNone(Consumer)
  <2>1. T!Attached = {}  BY DEF T!Attached
  <2>2. ~direct => taken # rows  BY <1>2
  <2> QED  BY <2>1, <2>2 DEF T!ReceiveNone
<1>4. /\ handled' = Append(handled, sent)
      /\ rows' \in Nat /\ taken' \in Nat
      /\ ~direct => taken' = taken + 1 /\ rows' = rows
  <2>1. CASE direct   BY <2>1, <1>2 DEF Call, table
  <2>2. CASE ~direct  BY <2>2, <1>2, <1>3 DEF Call, T!Take
  <2> QED  BY <2>1, <2>2
<1>5. handled' \in Seq(Int) /\ Len(handled') = sent + 1
  BY <1>2, <1>4
<1>6. \A i \in 1 .. Len(handled') : handled'[i] = i - 1
  BY <1>1, <1>2, <1>4, <1>5 DEF CallInv
<1>7. pc' = [pc EXCEPT ![Producer] = IF Len(handled') >= NMessages
                                     THEN "lock_mutex" ELSE "return"]
  <2>1. handled' # handled  BY <1>2, <1>5
  <2> QED  BY <2>1 DEF Call, Goto
<1>8. /\ pc' \in [Threads -> Labels]
      /\ pc'[Producer] \in {"lock_mutex", "return"}
      /\ pc'[Consumer] = pc[Consumer]
  BY <1>7, CallAssumption DEF CallInv, Threads, Labels, Holding
<1> QED  BY <1>1, <1>2, <1>4, <1>5, <1>6, <1>8 DEF CallInv, Holding

LEMMA NextCallInv == CallInv /\ [Next]_vars => CallInv'
<1> SUFFICES ASSUME CallInv, [Next]_vars PROVE CallInv'
  OBVIOUS
<1>1. CASE UNCHANGED vars  BY <1>1 DEF CallInv, vars
<1>2. CASE Send
  BY <1>2, QuietSteps, PutStep, CallStep, ReturnStep DEF Send
<1>3. CASE Handle \/ SpuriousWake
  BY <1>3, QuietSteps DEF Handle
<1>4. CASE Terminated  BY <1>4, <1>1 DEF Terminated
<1> QED  BY <1>1, <1>2, <1>3, <1>4 DEF Next

(* What every thread holds where, and that the handler keeps up.           *)
THEOREM CallCorrect == Spec => []CallInv
  BY InitCallInv, NextCallInv, PTL DEF Spec

(* The two mutexes, taken in opposite orders, are never held crosswise:    *)
(* the producer wants the consumer's only once the handler is installed.   *)
THEOREM NoDeadlock == Spec => []NoLockCycle
<1>1. CallInv => NoLockCycle
  BY CallAssumption DEF CallInv, NoLockCycle
<1> QED  BY <1>1, CallCorrect, PTL

(* Every send handles its own message, once and in order.                  *)
THEOREM SendIsCall == Spec => []HandledOwnRow
<1>1. CallInv => HandledOwnRow
  BY DEF CallInv, HandledOwnRow
<1> QED  BY <1>1, CallCorrect, PTL
-----------------------------------------------------------------------------
(* How far the handler is says whether it has signalled, and where the     *)
(* consumer is says what it has seen of that.                              *)
SignalInv ==
  /\ finished \in BOOLEAN
  /\ pc[Producer] \in Holding \cup {"put", "lock_callback"}
  /\ pc[Consumer] \in {"handle", "install", "check", "wait", "asleep", "woken", "done"}
  /\ sent <= NMessages /\ (pc[Producer] # "put" => sent < NMessages)
  /\ finished \/ pc[Producer] = "lock_mutex" <=> Len(handled) = NMessages
  /\ pc[Consumer] \in {"wait", "asleep"} => ~finished
  /\ pc[Consumer] = "done" => finished

(* Somebody can go on, and not only by looking for a handler once more or  *)
(* by a spurious wake-up.                                                  *)
GoesOn ==
  \/ pc[Producer] = "put" /\ sent < NMessages /\ (direct \/ rows - taken < Capacity)
  \/ pc[Producer] = "lock_callback" /\ callback_lock = NoOne /\ installed
  \/ pc[Producer] \in {"look", "call", "return"}
  \/ pc[Producer] = "lock_mutex" /\ mutex = NoOne
  \/ pc[Consumer] \in {"handle", "woken"} /\ mutex = NoOne
  \/ pc[Consumer] = "install" /\ callback_lock = NoOne
  \/ pc[Consumer] \in {"check", "wait"}

NeverStuck == (sent = NMessages /\ pc[Consumer] = "done") \/ GoesOn

(* handle does not sleep after the last message, and returns after it only *)
(* (test_framework_impls.rs:246 and 295).                                  *)
WakeUpKept ==
  /\ Len(handled) = NMessages /\ pc[Producer] # "lock_mutex" =>
       pc[Consumer] # "asleep"
  /\ pc[Consumer] = "done" => Len(handled) = NMessages

LEMMA InitSignal == Init => SignalInv
<1>1. ASSUME Init PROVE /\ finished = FALSE /\ sent = 0 /\ Len(handled) = 0
                        /\ pc[Producer] = "put" /\ pc[Consumer] = "handle"
  BY <1>1, CallAssumption DEF Init, Threads
<1> QED
  BY <1>1, CallAssumption DEF SignalInv

LEMMA SendSignal == ASSUME CallInv, SignalInv, Send PROVE SignalInv'
<1> USE CallAssumption DEF SignalInv, Holding
<1>0. /\ pc \in [Threads -> Labels] /\ sent \in Nat /\ Len(handled) \in Nat
      /\ Threads = {Producer, Consumer} /\ NMessages \in Nat
  BY DEF CallInv, Threads
<1>1. CASE TryPut
  <2>1. /\ pc[Producer] = "put" /\ sent < NMessages
        /\ pc' = [pc EXCEPT ![Producer] = "lock_callback"]
        /\ UNCHANGED <<sent, handled, finished>>
    BY <1>1 DEF TryPut, Goto
  <2> QED
    BY <1>0, <2>1
<1>2. CASE LockCallback \/ Look
  <2>1. /\ pc[Producer] \in {"lock_callback", "look"}
        /\ \E l \in {"look", "call", "lock_callback"} : pc' = [pc EXCEPT ![Producer] = l]
        /\ UNCHANGED <<sent, handled, finished>>
    BY <1>2 DEF LockCallback, Look, Goto
  <2> QED
    BY <1>0, <2>1
<1>3. CASE Call
  <2>1. CallInv'
    BY <1>3, CallStep
  <2>2. /\ pc[Producer] = "call" /\ sent' = sent /\ finished' = finished
        /\ Len(handled) = sent
    BY <1>3 DEF Call, CallInv
  <2>3. /\ pc'[Producer] \in {"lock_mutex", "return"} /\ pc'[Consumer] = pc[Consumer]
        /\ Len(handled') \in Nat
        /\ handled' # handled /\ Len(handled') >= NMessages <=> pc'[Producer] = "lock_mutex"
    BY <1>0, <1>3, <2>1 DEF Call, Goto, CallInv
  <2>4. Len(handled') = sent + 1
    BY <2>1, <2>2, <2>3 DEF CallInv
  <2> QED
    BY <1>0, <2>2, <2>3, <2>4
<1>4. CASE Signal
  <2>1. /\ pc[Producer] = "lock_mutex" /\ mutex = NoOne /\ finished' = TRUE
        /\ pc' = [t \in Threads |->
                    IF t = Producer THEN "return"
                    ELSE IF pc[t] = "asleep" THEN "woken" ELSE pc[t]]
        /\ UNCHANGED <<sent, handled>>
    BY <1>4 DEF Signal
  <2>2. pc[Consumer] # "wait"
    BY <2>1, CallAssumption DEF CallInv, Threads
  <2> QED
    BY <1>0, <2>1, <2>2
<1>5. CASE Return
  <2>1. /\ pc[Producer] = "return" /\ sent' = sent + 1
        /\ pc' = [pc EXCEPT ![Producer] = "put"]
        /\ UNCHANGED <<handled, finished>>
    BY <1>5 DEF Return, Goto
  <2> QED
    BY <1>0, <2>1
<1> QED
  BY <1>1, <1>2, <1>3, <1>4, <1>5 DEF Send

LEMMA HandleSignal ==
  ASSUME CallInv, SignalInv, Handle \/ SpuriousWake PROVE SignalInv'
<1>0. pc \in [Threads -> Labels] /\ Threads = {Producer, Consumer}
  BY DEF CallInv, Threads
<1>1. /\ UNCHANGED <<sent, handled, finished>>
      /\ \/ finished /\ pc' = [pc EXCEPT ![Consumer] = "done"]
         \/ ~finished /\ \E l \in {"wait", "asleep"} : pc' = [pc EXCEPT ![Consumer] = l]
         \/ \E l \in {"install", "check", "woken"} : pc' = [pc EXCEPT ![Consumer] = l]
  <2>1. CASE Check
    BY <2>1 DEF Check, Goto
  <2>2. CASE Wait
    BY <2>2 DEF Wait, Goto, SignalInv
  <2>3. CASE LockMutex \/ Install \/ Wake \/ SpuriousWake
    BY <2>3 DEF LockMutex, Install, Wake, SpuriousWake, Goto
  <2> QED
    BY <2>1, <2>2, <2>3 DEF Handle
<1> QED
  BY <1>0, <1>1, CallAssumption DEF SignalInv

LEMMA NextSignal == CallInv /\ SignalInv /\ [Next]_vars => SignalInv'
<1>1. SignalInv /\ UNCHANGED vars => SignalInv'
  BY DEF SignalInv, vars
<1> QED
  BY <1>1, SendSignal, HandleSignal DEF Next, Terminated

(* The wake-up is not lost, though the last call may come before the       *)
(* consumer sleeps: the flag is set, and tested before sleeping, under the *)
(* consumer's mutex.                                                       *)
THEOREM WakeUpCorrect == Spec => []WakeUpKept
<1>1. CallInv /\ SignalInv => WakeUpKept
  BY DEF SignalInv, WakeUpKept
<1> QED
  BY <1>1, InitSignal, NextSignal, CallCorrect, PTL DEF Spec

(* Until all was sent and handle has returned somebody can go on.          *)
THEOREM NeverStuckCorrect == Spec => []NeverStuck
<1>1. ASSUME CallInv, SignalInv PROVE NeverStuck
  <2> SUFFICES ASSUME ~GoesOn PROVE sent = NMessages /\ pc[Consumer] = "done"
    BY DEF NeverStuck
  <2>0. /\ pc[Producer] \in Labels /\ pc[Consumer] \in Labels
        /\ sent \in Nat /\ NMessages \in Nat /\ Capacity \in Nat \ {0}
    BY <1>1, CallAssumption DEF CallInv, Threads
  <2>1. pc[Consumer] \notin {"handle", "check", "wait", "woken"}
    BY <1>1 DEF GoesOn, CallInv
  <2>2. pc[Consumer] # "install"
    BY <1>1 DEF GoesOn, CallInv, Holding
  <2>3. pc[Consumer] \in {"asleep", "done"}
    BY <1>1, <2>1, <2>2 DEF SignalInv
  <2>4. installed /\ mutex = NoOne
    BY <1>1, <2>3 DEF CallInv
  <2>5. pc[Producer] = "put"
    BY <1>1, <2>4 DEF SignalInv, CallInv, GoesOn, Holding
  <2>6. Len(handled) = sent /\ (direct \/ rows - taken < Capacity)
    <3>1. Len(handled) = sent /\ (direct \/ (rows = sent /\ taken = sent))
      BY <1>1, <2>5 DEF CallInv
    <3>2. sent - sent < Capacity
      BY <2>0
    <3> QED
      BY <3>1, <3>2
  <2>7. sent = NMessages
    BY <1>1, <2>0, <2>5, <2>6 DEF GoesOn, SignalInv
  <2> QED
    BY <1>1, <2>3, <2>5, <2>6, <2>7 DEF SignalInv
<1> QED
  BY <1>1, InitSignal, NextSignal, CallCorrect, PTL DEF Spec
=============================================================================
