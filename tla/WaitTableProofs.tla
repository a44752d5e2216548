-------------------------- MODULE WaitTableProofs --------------------------
(***************************************************************************)
(* Theorems about WaitTable, for every handler, number of observers, loops *)
(* and messages: types, and the list of a WaitPark, which holds live       *)
(* waiters only.                                                           *)
(***************************************************************************)
EXTENDS WaitTable, TLAPS

ListInv ==
  /\ pc \in [Threads -> Labels]
  /\ threads \in [Threads -> Nat]
  /\ ListIsLive

LEMMA InitListInv == Init => ListInv
  BY DEF Init, ListInv, ListIsLive, Labels

(* What wait does to the list and to the places of the threads.            *)
LEMMA WaitedList ==
  ASSUME NEW t \in Threads, ListInv, Waited(t), pc[t] \in {"wait", "woken", "parked"}
  PROVE  ListInv'
<1> USE DEF ListInv, ListIsLive, Labels, Goto, DropWaiter
<1>1. CASE pc' = [pc EXCEPT ![t] = "try"] /\ UNCHANGED threads
  BY <1>1
<1>2. CASE pc' = [pc EXCEPT ![t] = "panicked"] /\ DropWaiter(t)
  BY <1>2
<1> QED  BY <1>1, <1>2 DEF Waited

LEMMA WaitList ==
  ASSUME NEW t \in Threads, ListInv, Wait(t) \/ SpuriousWake(t)
  PROVE  ListInv'
<1>1. CASE Block(t)
  BY <1>1 DEF Block, Goto, ListInv, ListIsLive, Labels
<1>2. CASE SpuriousWake(t)
  BY <1>2 DEF SpuriousWake, Goto, ListInv, ListIsLive, Labels
<1>3. CASE Spin(t)         BY <1>3, WaitedList DEF Spin
<1>4. CASE Wake(t)         BY <1>4, WaitedList DEF Wake
<1>5. CASE Unpark(t)       BY <1>5, WaitedList DEF Unpark
<1>6. CASE ParkTimeout(t)  BY <1>6, WaitedList DEF ParkTimeout
<1> QED  BY <1>1, <1>2, <1>3, <1>4, <1>5, <1>6 DEF Wait

LEMMA NotifyList ==
  ASSUME NEW t \in Threads, NEW label \in {"sent", "try"}, ListInv,
         pc[t] = "notify", Notify(t, label), UNCHANGED threads
  PROVE  ListInv'
  BY DEF Notify, ListInv, ListIsLive, Labels

LEMMA ProduceList ==
  ASSUME NEW p \in Threads, ListInv, Produce(p) PROVE ListInv'
<1> USE DEF ListInv, ListIsLive, Labels, Goto
<1>1. CASE Send(p)        BY <1>1 DEF Send, NewWaiter
<1>2. CASE TryPut(p)      BY <1>2 DEF TryPut
<1>3. CASE NotifySent(p)  BY <1>3, NotifyList DEF NotifySent
<1>4. CASE EndSend(p)     BY <1>4 DEF EndSend, DropWaiter
<1> QED  BY <1>1, <1>2, <1>3, <1>4 DEF Produce

LEMMA ReceiveList ==
  ASSUME NEW r \in Threads, ListInv, Receive(r) PROVE ListInv'
<1> USE DEF ListInv, ListIsLive, Labels, Goto
<1>1. CASE Handle(r)          BY <1>1 DEF Handle, NewWaiter
<1>2. CASE TryReceive(r)      BY <1>2 DEF TryReceive
<1>3. CASE Renew(r)           BY <1>3 DEF Renew, NewWaiter
<1>4. CASE DropOld(r)         BY <1>4 DEF DropOld, DropWaiter
<1>5. CASE NotifyReceived(r)  BY <1>5, NotifyList DEF NotifyReceived
<1>6. CASE Leave(r)           BY <1>6 DEF Leave, DropWaiter
<1> QED  BY <1>1, <1>2, <1>3, <1>4, <1>5, <1>6 DEF Receive

LEMMA NextListInv == ListInv /\ [Next]_vars => ListInv'
<1> SUFFICES ASSUME ListInv, [Next]_vars PROVE ListInv'
  OBVIOUS
<1>1. CASE UNCHANGED vars  BY <1>1 DEF vars, ListInv, ListIsLive
<1>2. CASE \E t \in Threads : Step(t) \/ SpuriousWake(t)
  <2>1. PICK t \in Threads : Step(t) \/ SpuriousWake(t)  BY <1>2
  <2> QED  BY <2>1, WaitList, ProduceList, ReceiveList DEF Step
<1>3. CASE Terminated  BY <1>1, <1>3 DEF Terminated
<1> QED  BY <1>1, <1>2, <1>3 DEF Next

(* A thread that has left, or unwound from a panic, is not in the list of  *)
(* a WaitPark, and a thread in a call is in it at most twice.              *)
THEOREM ListLive == Spec => []ListIsLive
<1>1. ListInv => ListIsLive
  BY DEF ListInv
<1> QED  BY <1>1, InitListInv, NextListInv, PTL DEF Spec
-----------------------------------------------------------------------------
(* Types of the table, whose steps are the abstract ones.                  *)
TableTypes ==
  /\ rows \in Nat /\ taken \in Nat
  /\ position \in [Observers -> Nat \cup {T!Detached}]

LEMMA PutTypes == ASSUME TableTypes, T!Put PROVE TableTypes'
  BY DEF TableTypes, T!Put

LEMMA ReceiveTypes ==
  ASSUME TableTypes, NEW r \in Receivers,
         T!Take(r) \/ T!StrongObserve(r) \/ T!ReceiveNone(r) \/ T!DetachStrong(r)
  PROVE  TableTypes'
<1> USE DEF TableTypes, T!Attached, T!Detached
<1>1. CASE T!Take(r)           BY <1>1 DEF T!Take
<1>2. CASE T!StrongObserve(r)  BY <1>2 DEF T!StrongObserve
<1>3. CASE T!ReceiveNone(r)    BY <1>3 DEF T!ReceiveNone
<1>4. CASE T!DetachStrong(r)   BY <1>4 DEF T!DetachStrong
<1> QED  BY <1>1, <1>2, <1>3, <1>4

(* The loop counter stays within its width: it wraps or panics.            *)
LEMMA WaitedTypes ==
  ASSUME TypeOK, NEW t \in Threads, Waited(t), UNCHANGED <<rows, taken>>
  PROVE  TableTypes' /\ counter' \in [Threads -> 0 .. CounterMax]
<1> USE WaitAssumption DEF TypeOK, TableTypes
<1>1. CASE UNCHANGED <<position, counter>>  BY <1>1
<1>2. CASE /\ position' = [o \in Observers |->
                             IF o = t THEN T!Detached ELSE position[o]]
           /\ UNCHANGED counter
  BY <1>2
<1>3. CASE /\ UNCHANGED position
           /\ counter' = [counter EXCEPT ![t] =
                IF handler = "busy" THEN 0 ELSE (@ + 1) % (CounterMax + 1)]
  <2>1. (counter[t] + 1) % (CounterMax + 1) \in 0 .. CounterMax
    OBVIOUS
  <2> QED  BY <1>3, <2>1
<1> QED  BY <1>2, <1>3 DEF Waited

LEMMA StepTypes ==
  ASSUME TypeOK, NEW t \in Threads, Step(t) \/ SpuriousWake(t)
  PROVE  /\ TableTypes'
         /\ counter' \in [Threads -> 0 .. CounterMax]
         /\ tokens' \subseteq Threads
<1>0. TableTypes  BY DEF TypeOK, TableTypes
<1>1. ASSUME UNCHANGED table PROVE TableTypes'
  BY <1>0, <1>1 DEF table, TableTypes
<1>2. ASSUME UNCHANGED counter PROVE counter' \in [Threads -> 0 .. CounterMax]
  BY <1>2 DEF TypeOK
<1>3. ASSUME UNCHANGED tokens PROVE tokens' \subseteq Threads
  BY <1>3 DEF TypeOK
<1>4. ASSUME NewWaiter(t) PROVE counter' \in [Threads -> 0 .. CounterMax]
  BY <1>4, WaitAssumption DEF NewWaiter, TypeOK
<1>5. ASSUME NEW label, Notify(t, label) PROVE tokens' \subseteq Threads
  BY <1>5 DEF Notify, TypeOK
<1>6. CASE Produce(t)
  <2>1. CASE Send(t)        BY <2>1, <1>1, <1>3, <1>4 DEF Send
  <2>2. CASE TryPut(t)
    BY <2>2, <1>0, <1>1, <1>2, <1>3, PutTypes DEF TryPut
  <2>3. CASE NotifySent(t)  BY <2>3, <1>1, <1>2, <1>5 DEF NotifySent
  <2>4. CASE EndSend(t)     BY <2>4, <1>1, <1>2, <1>3 DEF EndSend
  <2> QED  BY <1>6, <2>1, <2>2, <2>3, <2>4 DEF Produce
<1>7. CASE t \in Receivers /\ Receive(t)
  <2>1. CASE Handle(t)   BY <2>1, <1>1, <1>3, <1>4 DEF Handle
  <2>2. CASE TryReceive(t)
    BY <2>2, <1>7, <1>0, <1>2, <1>3, ReceiveTypes DEF TryReceive
  <2>3. CASE Renew(t)    BY <2>3, <1>1, <1>3, <1>4 DEF Renew
  <2>4. CASE DropOld(t)  BY <2>4, <1>1, <1>2, <1>3 DEF DropOld
  <2>5. CASE NotifyReceived(t)
    BY <2>5, <1>1, <1>2, <1>5 DEF NotifyReceived
  <2>6. CASE Leave(t)
    BY <2>6, <1>7, <1>0, <1>1, <1>2, <1>3, ReceiveTypes DEF Leave
  <2> QED  BY <1>7, <2>1, <2>2, <2>3, <2>4, <2>5, <2>6 DEF Receive
<1>8. CASE Wait(t) \/ SpuriousWake(t)
  <2>1. CASE Block(t)         BY <2>1, <1>1, <1>2, <1>3 DEF Block
  <2>2. CASE SpuriousWake(t)  BY <2>2, <1>1, <1>2, <1>3 DEF SpuriousWake
  <2>3. CASE Spin(t)          BY <2>3, <1>3, WaitedTypes DEF Spin
  <2>4. CASE Wake(t)          BY <2>4, <1>3, WaitedTypes DEF Wake
  <2>5. CASE ParkTimeout(t)   BY <2>5, <1>3, WaitedTypes DEF ParkTimeout
  <2>6. CASE Unpark(t)        BY <2>6, WaitedTypes DEF Unpark, TypeOK
  <2> QED  BY <1>8, <2>1, <2>2, <2>3, <2>4, <2>5, <2>6 DEF Wait
<1> QED  BY <1>6, <1>7, <1>8 DEF Step

LEMMA InitTypeOK == Init => TypeOK
<1> SUFFICES ASSUME Init PROVE TypeOK
  OBVIOUS
<1>1. pc \in [Threads -> Labels] /\ threads \in [Threads -> Nat]
  BY InitListInv DEF ListInv
<1> QED  BY <1>1, WaitAssumption DEF Init, TypeOK

LEMMA NextTypeOK == TypeOK /\ ListInv /\ [Next]_vars => TypeOK'
<1> SUFFICES ASSUME TypeOK, ListInv, [Next]_vars PROVE TypeOK'
  OBVIOUS
<1>1. CASE UNCHANGED vars  BY <1>1 DEF vars, TypeOK
<1>2. CASE \E t \in Threads : Step(t) \/ SpuriousWake(t)
  <2>1. PICK t \in Threads : Step(t) \/ SpuriousWake(t)  BY <1>2
  <2>2. ListInv'  BY NextListInv, <1>2 DEF Next
  <2>3. UNCHANGED setup  BY <2>1 DEF Step, SpuriousWake, setup
  <2> QED
    BY <2>1, <2>2, <2>3, StepTypes DEF TypeOK, TableTypes, ListInv, setup
<1>3. CASE Terminated  BY <1>1, <1>3 DEF Terminated
<1> QED  BY <1>1, <1>2, <1>3 DEF Next

(* All variables keep their types: no waiter's counter leaves its width.   *)
THEOREM WaitTypeCorrect == Spec => []TypeOK
  BY InitListInv, NextListInv, InitTypeOK, NextTypeOK, PTL DEF Spec
-----------------------------------------------------------------------------
(* Why nobody waits when the last message is received without a notify:    *)
(* it was put, so that the producer has nothing more to send.  A producer  *)
(* in a wait has a message left, an observer that leaves has had them all. *)
Trying == {"try", "wait", "asleep", "woken", "parked"}

SendingInv ==
  /\ TableTypes
  /\ pc \in [Threads -> Labels]
  /\ rows <= NMessages
  /\ \A o \in Observers : position[o] <= rows
  /\ pc[Producer] \in Trying => rows < NMessages
  /\ \A o \in Observers : pc[o] = "leave" => position[o] >= NMessages

LEMMA InitSending == Init => SendingInv
  BY WaitAssumption
  DEF Init, SendingInv, TableTypes, Trying, Threads, Receivers, Labels

(* A step that leaves the table alone, and nobody begins to try or leaves. *)
LEMMA QuietSending ==
  ASSUME SendingInv, UNCHANGED table, pc' \in [Threads -> Labels],
         pc'[Producer] \in Trying => pc[Producer] \in Trying,
         \A o \in Observers : pc'[o] = "leave" => pc[o] = "leave"
  PROVE  SendingInv'
  BY DEF SendingInv, TableTypes, table, Trying

LEMMA WaitedSending ==
  ASSUME SendingInv, NEW t \in Threads, Waited(t), UNCHANGED <<rows, taken>>,
         pc[t] \in {"wait", "woken", "parked"}
  PROVE  SendingInv'
<1> USE DEF SendingInv, TableTypes, Trying, Labels, Goto
<1>0. Observers \subseteq Threads /\ Producer \in Threads
  BY DEF Threads, Receivers
<1>1. CASE UNCHANGED position /\ pc' = [pc EXCEPT ![t] = "try"]
  BY <1>0, <1>1
<1>2. CASE /\ pc' = [pc EXCEPT ![t] = "panicked"]
           /\ position' = [o \in Observers |->
                             IF o = t THEN T!Detached ELSE position[o]]
  BY <1>0, <1>2 DEF T!Detached
<1> QED  BY <1>1, <1>2 DEF Waited

LEMMA StepSending ==
  ASSUME SendingInv, NEW t \in Threads, Step(t) \/ SpuriousWake(t)
  PROVE  SendingInv'
<1>0. /\ Observers \subseteq Threads /\ Producer \in Threads
      /\ Consumer \in Threads /\ Producer \notin Receivers
      /\ Consumer \notin Observers /\ Receivers = {Consumer} \cup Observers
  BY WaitAssumption DEF Threads, Receivers
<1>1. CASE t = Producer /\ Produce(t)
  <2> USE <1>0 DEF Labels, Trying, Goto
  <2>1. CASE Send(t)        BY <1>1, <2>1 DEF Send, SendingInv, TableTypes, table
  <2>2. CASE TryPut(t)
    BY <1>1, <2>2, WaitAssumption
    DEF TryPut, SendingInv, TableTypes, table, T!Put, T!Detached
  <2>3. CASE NotifySent(t)
    BY <1>1, <2>3, QuietSending DEF NotifySent, Notify, SendingInv
  <2>4. CASE EndSend(t)
    BY <1>1, <2>4, QuietSending DEF EndSend, SendingInv
  <2> QED  BY <1>1, <2>1, <2>2, <2>3, <2>4 DEF Produce
<1>2. CASE t \in Receivers /\ Receive(t)
  <2> USE <1>0 DEF Labels, Trying, Goto
  <2>1. CASE Handle(t)   BY <1>2, <2>1, QuietSending DEF Handle, SendingInv
  <2>2. CASE TryReceive(t)
    <3>1. TableTypes'
      BY <1>2, <2>2, ReceiveTypes DEF TryReceive, SendingInv
    <3>2. CASE T!ReceiveNone(t) /\ Goto(t, "wait")
      BY <1>2, <3>1, <3>2 DEF T!ReceiveNone, SendingInv
    <3>3. CASE t = Consumer /\ T!Take(t)
      BY <2>2, <3>1, <3>3 DEF TryReceive, T!Take, SendingInv
    <3>4. CASE t \in Observers /\ T!StrongObserve(t)
      BY <2>2, <3>1, <3>4, WaitAssumption
      DEF TryReceive, T!StrongObserve, SendingInv, TableTypes, T!Detached,
          Last, Received
    <3> QED  BY <1>2, <2>2, <3>2, <3>3, <3>4 DEF TryReceive
  <2>3. CASE Renew(t)    BY <1>2, <2>3, QuietSending DEF Renew, SendingInv
  <2>4. CASE DropOld(t)  BY <1>2, <2>4, QuietSending DEF DropOld, SendingInv
  <2>5. CASE NotifyReceived(t)
    BY <1>2, <2>5, QuietSending DEF NotifyReceived, Notify, SendingInv
  <2>6. CASE Leave(t)
    <3>1. TableTypes'
      BY <1>2, <2>6, ReceiveTypes DEF Leave, SendingInv, TableTypes, table
    <3> QED
      BY <1>2, <2>6, <3>1
      DEF Leave, T!DetachStrong, T!Detached, SendingInv, TableTypes, table
  <2> QED  BY <1>2, <2>1, <2>2, <2>3, <2>4, <2>5, <2>6 DEF Receive
<1>3. CASE Wait(t) \/ SpuriousWake(t)
  <2> USE <1>0
  <2>1. CASE Block(t)
    BY <2>1, QuietSending DEF Block, SendingInv, Trying, Labels, Goto
  <2>2. CASE SpuriousWake(t)
    BY <2>2, QuietSending DEF SpuriousWake, SendingInv, Trying, Labels, Goto
  <2>3. CASE Spin(t)         BY <2>3, WaitedSending DEF Spin
  <2>4. CASE Wake(t)         BY <2>4, WaitedSending DEF Wake
  <2>5. CASE Unpark(t)       BY <2>5, WaitedSending DEF Unpark
  <2>6. CASE ParkTimeout(t)  BY <2>6, WaitedSending DEF ParkTimeout
  <2> QED  BY <1>3, <2>1, <2>2, <2>3, <2>4, <2>5, <2>6 DEF Wait
<1> QED  BY <1>1, <1>2, <1>3 DEF Step

LEMMA NextSending == SendingInv /\ [Next]_vars => SendingInv'
<1> SUFFICES ASSUME SendingInv, [Next]_vars PROVE SendingInv'
  OBVIOUS
<1>1. CASE UNCHANGED vars
  BY <1>1 DEF vars, SendingInv, TableTypes
<1>2. CASE \E t \in Threads : Step(t) \/ SpuriousWake(t)
  BY <1>2, StepSending
<1>3. CASE Terminated  BY <1>1, <1>3 DEF Terminated
<1> QED  BY <1>1, <1>2, <1>3 DEF Next

(* The step is of a thread that goes on to notify, or unwinds.             *)
Announced ==
  \E u \in Threads :
    \/ pc[u] = "try" /\ pc'[u] \in {"renew", "notify"}
    \/ pc[u] # "panicked" /\ pc'[u] = "panicked"

LEMMA QuietReady ==
  ASSUME NEW t, UNCHANGED <<rows, taken, position>>
  PROVE  Ready(t)' <=> Ready(t)
  BY DEF Ready, HasSpace, T!Attached

LEMMA WaitedAnnounced ==
  ASSUME SendingInv, NEW u \in Threads, Waited(u), UNCHANGED <<rows, taken>>,
         pc[u] \in {"wait", "woken", "parked"}
  PROVE  UNCHANGED <<rows, taken, position>> \/ Announced
<1>1. CASE pc' = [pc EXCEPT ![u] = "panicked"]
  BY <1>1 DEF SendingInv, Announced
<1> QED  BY <1>1 DEF Waited, Goto

LEMMA StepAnnounced ==
  ASSUME SendingInv, NEW u \in Threads, Step(u) \/ SpuriousWake(u)
  PROVE  \A t \in Threads : Blocked(t) /\ ~Ready(t) /\ Ready(t)' => Announced
<1> DEFINE Goal == \A t \in Threads :
                     Blocked(t) /\ ~Ready(t) /\ Ready(t)' => Announced
<1>0. /\ Observers \subseteq Threads /\ Producer \in Threads
      /\ Consumer \in Threads /\ Producer \notin Receivers
      /\ Consumer \notin Observers /\ Receivers = {Consumer} \cup Observers
      /\ Threads = {Producer} \cup Receivers
  BY WaitAssumption DEF Threads, Receivers
<1>1. ASSUME UNCHANGED <<rows, taken, position>> \/ Announced PROVE Goal
  BY <1>1, QuietReady
<1>2. ASSUME UNCHANGED table PROVE Goal
  BY <1>1, <1>2 DEF table
(* When every message was put, nobody can become ready: the producer does  *)
(* not wait, and what the receivers wait for is only taken away.           *)
<1>3. ASSUME rows >= NMessages, UNCHANGED rows, 
             taken' \in Nat, taken' >= taken,
             \A o \in Observers : pc[o] \in {"asleep", "parked"} =>
               position'[o] = position[o]
      PROVE  Goal
  <2>1. pc[Producer] \notin {"asleep", "parked"}
    BY <1>3, WaitAssumption DEF SendingInv, Trying, TableTypes
  <2> QED
    BY <1>0, <1>3, <2>1 DEF Blocked, Ready, SendingInv, TableTypes
<1>4. CASE u = Producer /\ Produce(u)
  <2>1. CASE Send(u)        BY <2>1, <1>2 DEF Send
  <2>2. CASE TryPut(u)
    <3>1. CASE pc' = [pc EXCEPT ![u] = "notify"]
      BY <1>1, <2>2, <3>1 DEF TryPut, SendingInv, Announced
    <3> QED  BY <1>2, <2>2, <3>1 DEF TryPut, Goto
  <2>3. CASE NotifySent(u)  BY <2>3, <1>2 DEF NotifySent
  <2>4. CASE EndSend(u)     BY <2>4, <1>2 DEF EndSend
  <2> QED  BY <1>4, <2>1, <2>2, <2>3, <2>4 DEF Produce
<1>5. CASE u \in Receivers /\ Receive(u)
  <2>1. CASE Handle(u)   BY <2>1, <1>2 DEF Handle
  <2>2. CASE TryReceive(u)
    <3>1. CASE pc' = [pc EXCEPT ![u] = "renew"]
      BY <1>1, <2>2, <3>1 DEF TryReceive, SendingInv, Announced
    <3>2. CASE T!ReceiveNone(u)
      BY <1>1, <3>2 DEF T!ReceiveNone
    <3>3. CASE u = Consumer /\ T!Take(u) /\ Last(u)
      <4>1. rows >= NMessages /\ UNCHANGED rows
        BY <3>3, WaitAssumption
        DEF T!Take, Last, Received, SendingInv, TableTypes
      <4> QED  BY <4>1, <3>3, <1>3 DEF T!Take, SendingInv, TableTypes
    <3>4. CASE u \in Observers /\ T!StrongObserve(u) /\ Last(u)
      <4>1. rows >= NMessages /\ UNCHANGED <<rows, taken>>
        BY <3>4, <1>0, WaitAssumption
        DEF T!StrongObserve, T!Attached, T!Detached, Last, Received,
            SendingInv, TableTypes
      <4>2. \A o \in Observers : pc[o] \in {"asleep", "parked"} =>
              position'[o] = position[o]
        BY <2>2, <3>4 DEF TryReceive, T!StrongObserve, SendingInv, TableTypes
      <4> QED  BY <4>1, <4>2, <1>3 DEF SendingInv, TableTypes
    <3> QED  BY <1>0, <1>5, <2>2, <3>1, <3>2, <3>3, <3>4 DEF TryReceive, Goto
  <2>3. CASE Renew(u)    BY <2>3, <1>2 DEF Renew
  <2>4. CASE DropOld(u)  BY <2>4, <1>2 DEF DropOld
  <2>5. CASE NotifyReceived(u)  BY <2>5, <1>2 DEF NotifyReceived
  <2>6. CASE Leave(u)
    <3>1. CASE u = Consumer  BY <2>6, <3>1, <1>2 DEF Leave
    <3>2. CASE u # Consumer
      <4>1. u \in Observers /\ T!DetachStrong(u)
        BY <1>0, <1>5, <2>6, <3>2 DEF Leave
      <4>2. rows >= NMessages /\ UNCHANGED <<rows, taken>>
        BY <2>6, <4>1, WaitAssumption
        DEF Leave, T!DetachStrong, T!Detached, SendingInv, TableTypes
      <4>3. \A o \in Observers : pc[o] \in {"asleep", "parked"} =>
              position'[o] = position[o]
        BY <2>6, <4>1 DEF Leave, T!DetachStrong, SendingInv, TableTypes
      <4> QED  BY <4>2, <4>3, <1>3 DEF SendingInv, TableTypes
    <3> QED  BY <3>1, <3>2
  <2> QED  BY <1>5, <2>1, <2>2, <2>3, <2>4, <2>5, <2>6 DEF Receive
<1>6. CASE Wait(u) \/ SpuriousWake(u)
  <2>1. CASE Block(u)         BY <2>1, <1>2 DEF Block
  <2>2. CASE SpuriousWake(u)  BY <2>2, <1>2 DEF SpuriousWake
  <2>3. CASE Spin(u)         BY <2>3, <1>1, WaitedAnnounced DEF Spin
  <2>4. CASE Wake(u)         BY <2>4, <1>1, WaitedAnnounced DEF Wake
  <2>5. CASE Unpark(u)       BY <2>5, <1>1, WaitedAnnounced DEF Unpark
  <2>6. CASE ParkTimeout(u)  BY <2>6, <1>1, WaitedAnnounced DEF ParkTimeout
  <2> QED  BY <1>6, <2>1, <2>2, <2>3, <2>4, <2>5, <2>6 DEF Wait
<1> QED  BY <1>4, <1>5, <1>6 DEF Step

LEMMA NextAnnounced ==
  SendingInv /\ [Next]_vars =>
    [\A t \in Threads : Blocked(t) /\ ~Ready(t) /\ Ready(t)' => Announced]_vars
<1> SUFFICES ASSUME SendingInv, [Next]_vars, ~UNCHANGED vars
             PROVE  \A t \in Threads :
                      Blocked(t) /\ ~Ready(t) /\ Ready(t)' => Announced
  OBVIOUS
<1>1. ~Terminated  BY DEF Terminated
<1>2. PICK u \in Threads : Step(u) \/ SpuriousWake(u)  BY <1>1 DEF Next
<1> QED  BY <1>2, StepAnnounced

(* Whoever is blocked and becomes ready does so in a step of a thread that *)
(* is going to notify, or that unwinds from a panic.                       *)
THEOREM AnnouncedCorrect == Spec => EventsAnnounced
<1>1. [\A t \in Threads : Blocked(t) /\ ~Ready(t) /\ Ready(t)' => Announced]_vars
      => [\A t \in Threads : Blocked(t) /\ ~Ready(t) /\ Ready(t)' =>
            \E u \in Threads :
              \/ pc[u] = "try" /\ pc'[u] \in {"renew", "notify"}
              \/ pc[u] # "panicked" /\ pc'[u] = "panicked"]_vars
  BY DEF Announced
<1> QED
  BY <1>1, InitSending, NextSending, NextAnnounced, PTL DEF Spec, EventsAnnounced
-----------------------------------------------------------------------------
(* Every thread sends or handles NMessages messages: how many says whether *)
(* it is on its way or leaves.                                             *)
Gone          == {"leave", "done"}
ProducerPlace == Trying \cup {"idle", "notify", "sent", "done", "panicked"}

(* Where an observer is says whether it is attached, and how far it got.   *)
ObserverInv(o) ==
  CASE pc[o] \in {"done", "panicked"} -> position[o] = T!Detached
    [] pc[o] = "leave"                -> position[o] = NMessages
    [] OTHER -> position[o] \in Nat /\ position[o] < NMessages

ShareInv ==
  /\ taken <= rows
  /\ IF pc[Consumer] \in Gone THEN taken = NMessages ELSE taken < NMessages
  /\ \A o \in Observers : ObserverInv(o)
  /\ pc[Producer] \in ProducerPlace
  /\ pc[Producer] \in Trying \cup {"idle"} => rows < NMessages
  /\ pc[Producer] = "done" => rows = NMessages

(* send and handle return having sent or handled everything, and no sooner *)
(* (test_framework_impls.rs:82-89, 110-125 and 146-161).                   *)
HandledAll ==
  /\ rows <= NMessages /\ taken <= NMessages
  /\ pc[Producer] = "done" => rows = NMessages
  /\ pc[Consumer] = "done" => taken = NMessages
  /\ \A o \in Observers : pc[o] = "leave" => position[o] = NMessages

(* Until all are done somebody is busy, or waits for what is there:        *)
(* whatever the handler, if nobody goes on a wake-up was lost.             *)
SomebodyReady ==
  \/ Finished \/ \E t \in Threads : pc[t] = "panicked"
  \/ \E t \in Threads : IF pc[t] \in Trying THEN Ready(t) ELSE pc[t] # "done"

LEMMA InitShare == Init => ShareInv
<1> SUFFICES ASSUME Init PROVE ShareInv
  OBVIOUS
<1>1. /\ \A t \in Threads : pc[t] = "idle"
      /\ \A o \in Observers : position[o] = 0
      /\ taken = 0 /\ rows = 0
  BY DEF Init
<1>2. Producer \in Threads /\ Consumer \in Threads /\ Observers \subseteq Threads
  BY DEF Threads, Receivers
<1> QED
  BY <1>1, <1>2, WaitAssumption DEF ShareInv, ObserverInv, ProducerPlace, Gone

(* A step that leaves the table alone, and where nobody gets to the end.   *)
LEMMA QuietShare ==
  ASSUME ShareInv, UNCHANGED table,
         pc'[Consumer] \in Gone <=> pc[Consumer] \in Gone,
         \A o \in Observers :
           \/ pc'[o] = pc[o]
           \/ {pc[o], pc'[o]} \cap {"leave", "done", "panicked"} = {},
         pc'[Producer] \in ProducerPlace,
         pc'[Producer] \in Trying \cup {"idle"} =>
           pc[Producer] \in Trying \cup {"idle"} \/ rows < NMessages,
         pc'[Producer] = "done" => pc[Producer] = "done" \/ rows = NMessages
  PROVE  ShareInv'
<1>1. UNCHANGED <<rows, taken, position>>
  BY DEF table
<1>2. \A o \in Observers : ObserverInv(o)'
  BY <1>1 DEF ShareInv, ObserverInv, T!Detached
<1> QED
  BY <1>1, <1>2 DEF ShareInv

LEMMA WaitedShare ==
  ASSUME SendingInv, ShareInv, NEW t \in Threads, Waited(t), UNCHANGED <<rows, taken>>,
         pc[t] \in {"wait", "woken", "parked"}
  PROVE  ShareInv'
<1>0. /\ Observers \subseteq Threads /\ Producer \in Threads /\ Consumer \in Threads
      /\ pc \in [Threads -> Labels]
  BY DEF Threads, Receivers, SendingInv
<1>1. CASE UNCHANGED position /\ pc' = [pc EXCEPT ![t] = "try"]
  <2>1. \A o \in Observers : ObserverInv(o)'
    BY <1>0, <1>1 DEF ShareInv, ObserverInv, T!Detached
  <2> QED
    BY <1>0, <1>1, <2>1 DEF ShareInv, Gone, ProducerPlace, Trying
<1>2. CASE /\ pc' = [pc EXCEPT ![t] = "panicked"]
           /\ position' = [o \in Observers |->
                             IF o = t THEN T!Detached ELSE position[o]]
  <2>1. \A o \in Observers : ObserverInv(o)'
    BY <1>0, <1>2 DEF ShareInv, ObserverInv, T!Detached
  <2> QED
    BY <1>0, <1>2, <2>1 DEF ShareInv, Gone, ProducerPlace, Trying
<1> QED
  BY <1>1, <1>2 DEF Waited, Goto

LEMMA StepShare ==
  ASSUME SendingInv, ShareInv, NEW t \in Threads, Step(t) \/ SpuriousWake(t)
  PROVE  ShareInv'
<1>0. /\ Observers \subseteq Threads /\ Producer \in Threads
      /\ Consumer \in Threads /\ Producer \notin Receivers
      /\ Consumer \notin Observers /\ Receivers = {Consumer} \cup Observers
      /\ pc \in [Threads -> Labels] /\ NMessages \in Nat \ {0}
      /\ rows \in Nat /\ taken \in Nat /\ rows <= NMessages
      /\ position \in [Observers -> Nat \cup {T!Detached}]
  BY WaitAssumption DEF Threads, Receivers, SendingInv, TableTypes
<1>1. CASE t = Producer /\ Produce(t)
  <2> USE <1>0 DEF Gone, ProducerPlace, Trying
  <2>1. CASE Send(t)
    BY <1>1, <2>1, QuietShare DEF Send, Goto
  <2>2. CASE TryPut(t)
    <3>1. CASE UNCHANGED table /\ pc' = [pc EXCEPT ![t] = "wait"]
      BY <1>1, <2>2, <3>1, QuietShare DEF TryPut
    <3>2. CASE T!Put /\ pc' = [pc EXCEPT ![t] = "notify"]
      <4>1. rows' = rows + 1 /\ UNCHANGED <<taken, position>> /\ rows < NMessages
        BY <1>1, <2>2, <3>2 DEF T!Put, TryPut, ShareInv
      <4>2. \A o \in Observers : ObserverInv(o)'
        BY <1>1, <3>2, <4>1 DEF ShareInv, ObserverInv, T!Detached
      <4> QED
        BY <1>1, <3>2, <4>1, <4>2 DEF ShareInv
    <3> QED
      BY <2>2, <3>1, <3>2 DEF TryPut, Goto
  <2>3. CASE NotifySent(t)
    BY <1>1, <2>3, QuietShare DEF NotifySent, Notify
  <2>4. CASE EndSend(t)
    BY <1>1, <2>4, QuietShare DEF EndSend, Goto
  <2> QED
    BY <1>1, <2>1, <2>2, <2>3, <2>4 DEF Produce
<1>2. CASE t \in Receivers /\ Receive(t)
  <2> USE <1>0 DEF Gone
  <2>0. pc[Producer] \in ProducerPlace
    BY DEF ShareInv
  <2>1. CASE Handle(t) \/ Renew(t) \/ DropOld(t)
    <3>1. /\ UNCHANGED table /\ pc[t] \in {"idle", "renew", "drop_old"}
          /\ \E l \in {"try", "drop_old", "notify"} : pc' = [pc EXCEPT ![t] = l]
      BY <2>1 DEF Handle, Renew, DropOld, Goto
    <3> QED
      BY <1>2, <2>0, <3>1, QuietShare
  <2>2. CASE NotifyReceived(t)
    <3>1. /\ UNCHANGED table /\ pc[t] = "notify"
          /\ pc' = [u \in Threads |->
                      IF u = t THEN "try" ELSE IF pc[u] = "asleep" THEN "woken" ELSE pc[u]]
      BY <2>2 DEF NotifyReceived, Notify
    <3> QED
      BY <1>2, <2>0, <3>1, QuietShare DEF ProducerPlace, Trying
  <2>3. CASE TryReceive(t)
    <3>1. CASE T!ReceiveNone(t) /\ pc' = [pc EXCEPT ![t] = "wait"]
      <4>1. pc[t] = "try" /\ UNCHANGED <<rows, taken, position>>
        BY <2>3, <3>1 DEF TryReceive, T!ReceiveNone
      <4>2. \A o \in Observers : ObserverInv(o)'
        BY <3>1, <4>1 DEF ShareInv, ObserverInv, T!Detached
      <4> QED
        BY <1>2, <3>1, <4>1, <4>2 DEF ShareInv
    <3>2. CASE t = Consumer /\ T!Take(t)
      <4>1. /\ taken < rows /\ taken' = taken + 1 /\ UNCHANGED <<rows, position>>
            /\ pc[t] = "try"
            /\ pc' = [pc EXCEPT ![t] = IF taken + 1 >= NMessages THEN "leave" ELSE "renew"]
        BY <2>3, <3>2 DEF TryReceive, T!Take, T!ReceiveNone, Goto, Last, Received
      <4>2. \A o \in Observers : ObserverInv(o)'
        BY <3>2, <4>1 DEF ShareInv, ObserverInv, T!Detached
      <4> QED
        BY <1>2, <3>2, <4>1, <4>2 DEF ShareInv
    <3>3. CASE t \in Observers /\ T!StrongObserve(t)
      <4>1. /\ position[t] \in Nat /\ position[t] < rows
            /\ position' = [position EXCEPT ![t] = @ + 1] /\ UNCHANGED <<rows, taken>>
            /\ pc[t] = "try"
        BY <2>3, <3>3 DEF TryReceive, T!StrongObserve, T!Attached
      <4>2. pc' = [pc EXCEPT ![t] = IF position[t] + 1 >= NMessages THEN "leave" ELSE "renew"]
        BY <2>3, <3>3, <4>1 DEF TryReceive, T!ReceiveNone, Goto, Last, Received
      <4>3. ObserverInv(t)'
        <5>1. position'[t] = position[t] + 1
          BY <3>3, <4>1
        <5>2. pc'[t] = IF position[t] + 1 >= NMessages THEN "leave" ELSE "renew"
          BY <4>2
        <5> QED
          BY <4>1, <5>1, <5>2 DEF ObserverInv
      <4>4. \A o \in Observers : ObserverInv(o)'
        BY <3>3, <4>1, <4>2, <4>3 DEF ShareInv, ObserverInv, T!Detached
      <4> QED
        BY <1>2, <3>3, <4>1, <4>2, <4>4 DEF ShareInv
    <3> QED
      BY <1>2, <2>3, <3>1, <3>2, <3>3 DEF TryReceive, Goto
  <2>4. CASE Leave(t)
    <3>1. /\ pc[t] = "leave" /\ pc' = [pc EXCEPT ![t] = "done"]
          /\ UNCHANGED <<rows, taken>>
          /\ IF t = Consumer THEN UNCHANGED position
                             ELSE position' = [position EXCEPT ![t] = T!Detached]
      BY <2>4 DEF Leave, Goto, T!DetachStrong, table
    <3>2. \A o \in Observers : ObserverInv(o)'
      BY <1>2, <3>1 DEF ShareInv, ObserverInv, T!Detached
    <3> QED
      BY <1>2, <3>1, <3>2 DEF ShareInv
  <2> QED
    BY <1>2, <2>1, <2>2, <2>3, <2>4 DEF Receive
<1>3. CASE Wait(t) \/ SpuriousWake(t)
  <2>0. pc[Producer] \in ProducerPlace
    BY DEF ShareInv
  <2>1. CASE Block(t) \/ SpuriousWake(t)
    <3>1. /\ UNCHANGED table /\ pc[t] \in {"wait", "asleep"}
          /\ \E l \in {"asleep", "parked", "woken"} : pc' = [pc EXCEPT ![t] = l]
      BY <2>1 DEF Block, SpuriousWake, Goto
    <3> QED
      BY <1>0, <2>0, <3>1, QuietShare DEF Gone, ProducerPlace, Trying
  <2>2. CASE Spin(t)         BY <2>2, WaitedShare DEF Spin
  <2>3. CASE Wake(t)         BY <2>3, WaitedShare DEF Wake
  <2>4. CASE Unpark(t)       BY <2>4, WaitedShare DEF Unpark
  <2>5. CASE ParkTimeout(t)  BY <2>5, WaitedShare DEF ParkTimeout
  <2> QED
    BY <1>3, <2>1, <2>2, <2>3, <2>4, <2>5 DEF Wait
<1> QED
  BY <1>1, <1>2, <1>3 DEF Step

LEMMA NextShare == SendingInv /\ ShareInv /\ [Next]_vars => ShareInv'
<1>1. ShareInv /\ UNCHANGED vars => ShareInv'
  BY DEF vars, ShareInv, ObserverInv, T!Detached
<1> QED
  BY <1>1, StepShare DEF Next, Terminated

LEMMA ShareCorrect == Spec => [](SendingInv /\ ShareInv)
  BY InitSending, NextSending, InitShare, NextShare, PTL DEF Spec

(* Nobody sends, handles or observes a message too few or too many.        *)
THEOREM HandledAllCorrect == Spec => []HandledAll
<1>1. SendingInv /\ ShareInv => HandledAll
  BY WaitAssumption
  DEF SendingInv, TableTypes, ShareInv, ObserverInv, HandledAll, Gone
<1> QED
  BY <1>1, ShareCorrect, PTL

(* Somebody is busy or has what he waits for: the shares of the threads    *)
(* and the room in the table never keep everybody waiting.                 *)
THEOREM SomebodyReadyCorrect == Spec => []SomebodyReady
<1>1. ASSUME SendingInv, ShareInv PROVE SomebodyReady
  <2>0. /\ Observers \subseteq Threads /\ Producer \in Threads
        /\ Consumer \in Threads /\ Threads = {Producer, Consumer} \cup Observers
        /\ Producer # Consumer /\ Producer \notin Observers /\ Consumer \notin Observers
        /\ NMessages \in Nat \ {0} /\ Capacity \in Nat \ {0}
        /\ rows \in Nat /\ taken \in Nat /\ rows <= NMessages
    BY <1>1, WaitAssumption DEF Threads, Receivers, SendingInv, TableTypes
  <2> SUFFICES ASSUME \A t \in Threads : pc[t] # "panicked",
                      \A t \in Threads : IF pc[t] \in Trying THEN ~Ready(t) ELSE pc[t] = "done"
               PROVE  Finished
    BY DEF SomebodyReady
  <2>1. ASSUME NEW o \in Observers
        PROVE  \/ pc[o] = "done" /\ position[o] = T!Detached
               \/ /\ pc[o] \in Trying /\ position[o] \in Nat
                  /\ position[o] < NMessages /\ position[o] >= rows
    <3>1. CASE pc[o] = "done"
      BY <1>1, <3>1 DEF ShareInv, ObserverInv
    <3>2. CASE pc[o] \in Trying
      <4>1. position[o] \in Nat /\ position[o] < NMessages
        BY <1>1, <3>2 DEF ShareInv, ObserverInv, Trying
      <4>2. ~(position[o] < rows)
        BY <2>0, <3>2 DEF Ready
      <4> QED
        BY <2>0, <3>2, <4>1, <4>2
    <3> QED
      BY <2>0, <3>1, <3>2
  <2>2. \/ pc[Consumer] = "done" /\ taken = NMessages
        \/ pc[Consumer] \in Trying /\ taken < NMessages /\ taken >= rows
    <3>1. pc[Consumer] \in Trying => ~(taken < rows)
      BY <2>0 DEF Ready
    <3> QED
      BY <1>1, <2>0, <3>1 DEF ShareInv, Gone, Trying
  <2>3. taken = rows
    BY <1>1, <2>0, <2>2 DEF ShareInv
  <2>4. HasSpace
    <3>1. rows - taken < Capacity
      BY <2>0, <2>3
    <3>2. \A o \in T!Attached : rows - position[o] < Capacity
      <4>1. \A o \in T!Attached : o \in Observers /\ position[o] # T!Detached
        BY DEF T!Attached
      <4>2. \A o \in T!Attached : position[o] \in Nat /\ position[o] >= rows
        BY <2>1, <4>1
      <4> QED
        BY <2>0, <4>2
    <3> QED
      BY <3>1, <3>2 DEF HasSpace
  <2>5. pc[Producer] = "done" /\ rows = NMessages
    BY <1>1, <2>0, <2>4 DEF Ready, ShareInv
  <2>6. \A o \in Observers : pc[o] = "done"
    BY <2>0, <2>1, <2>5
  <2> QED
    BY <2>0, <2>2, <2>3, <2>5, <2>6 DEF Finished
<1> QED
  BY <1>1, ShareCorrect, PTL
=============================================================================
