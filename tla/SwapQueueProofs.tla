-------------------------- MODULE SwapQueueProofs --------------------------
(***************************************************************************)
(* The double-buffered queue implements a first-in first-out queue, for    *)
(* any set of calls and any length: SwapQueue!ImplementsFifo, by a         *)
(* refinement proof.                                                       *)
(***************************************************************************)
EXTENDS SwapQueue, SequenceTheorems, TLAPS

(* The list being drained is the other one; between two polls it is empty; *)
(* during a call it is not.                                                *)
Phase == /\ pc \in {"drain", "call"} => proc_index = 1 - current_queue
         /\ pc \in {"poll", "ended"} => Draining = <<>>
         /\ pc = "call" => Draining # <<>>

IInv == TypeOK /\ Phase

(* What appending to and taking from a sequence does to a concatenation.   *)
LEMMA AppendRight ==
    ASSUME NEW S, NEW s \in Seq(S), NEW t \in Seq(S), NEW x \in S
    PROVE  s \o Append(t, x) = Append(s \o t, x)
  OBVIOUS

(* Taking the front of a concatenation takes the front of its first part.  *)
LEMMA TakeLeft ==
    ASSUME NEW S, NEW s \in Seq(S), NEW t \in Seq(S), s # <<>>
    PROVE  /\ s \o t # <<>>
           /\ Head(s \o t) = Head(s)
           /\ Tail(s \o t) = Tail(s) \o t
  OBVIOUS

(* The empty sequence is neutral.                                          *)
LEMMA EmptyNeutral ==
    ASSUME NEW S, NEW s \in Seq(S)
    PROVE  <<>> \o s = s /\ s \o <<>> = s
  OBVIOUS

(* IInv holds in every reachable state of SwapQueue.                       *)
LEMMA Invariance == Spec => []IInv
<1>1. Init => IInv
  BY EmptySeq DEF Init, IInv, TypeOK, Phase, Draining
<1>2. IInv /\ [Next]_vars => IInv'
  <2> SUFFICES ASSUME IInv, [Next]_vars PROVE IInv'
    OBVIOUS
  <2> USE DEF IInv, TypeOK, Phase, Draining
  <2>1. ASSUME NEW x \in Calls, add_cb(x) PROVE IInv'
    BY <2>1 DEF add_cb
  <2>2. CASE Swap
    BY <2>2 DEF Swap
  <2>3. CASE Front
    BY <2>3 DEF Front
  <2>4. CASE Pop
    <3>1. list[proc_index] \in Seq(Calls) /\ list[proc_index] # <<>>
      BY <2>4 DEF Pop
    <3>2. Tail(list[proc_index]) \in Seq(Calls)
      BY <3>1, HeadTailProperties
    <3> QED
      BY <2>4, <3>1, <3>2 DEF Pop
  <2>5. CASE Leave
    BY <2>5 DEF Leave
  <2>6. CASE Exits
    BY <2>6 DEF Exits
  <2>7. CASE SetExit
    BY <2>7 DEF SetExit
  <2>8. CASE UNCHANGED vars
    BY <2>8 DEF vars
  <2> QED
    BY <2>1, <2>2, <2>3, <2>4, <2>5, <2>6, <2>7, <2>8 DEF Next, Consumer
<1> QED
  BY <1>1, <1>2, PTL DEF Spec

(* No producer pushes to the list the consumer drains without the mutex    *)
(* (call_back_mgr::poll, task_thread::run, _real_run).                     *)
THEOREM DrainedAloneHolds == Spec => []DrainedAlone
<1>1. IInv => DrainedAlone
  BY DEF IInv, TypeOK, Phase, DrainedAlone
<1> QED
  BY <1>1, Invariance, PTL

(* Every step of the two lists is a step of the queue they stand for, or   *)
(* leaves it alone.                                                        *)
LEMMA StepSimulation == IInv /\ IInv' /\ [Next]_vars => [F!Next]_(F!vars)
<1> SUFFICES ASSUME IInv, IInv', [Next]_vars PROVE [F!Next]_(F!vars)
  OBVIOUS
<1> USE NoneAssumption DEF IInv, TypeOK, Phase, Draining
<1>a. /\ list[0] \in Seq(Calls) /\ list[1] \in Seq(Calls)
      /\ list[current_queue] \in Seq(Calls)
  OBVIOUS
<1>1. ASSUME NEW x \in Calls, add_cb(x) PROVE F!Add(x)
  <2> DEFINE s == IF pc = "call" THEN Tail(Draining) ELSE Draining
  <2>1. s \in Seq(Calls)
    BY HeadTailProperties
  <2>2. list'[current_queue'] = Append(list[current_queue], x)
    BY <1>1 DEF add_cb
  <2>3. Draining' = Draining /\ pc' = pc /\ exit' = exit
    BY <1>1 DEF add_cb
  <2>4. queueBar' = s \o Append(list[current_queue], x)
    BY <2>2, <2>3 DEF queueBar
  <2>a. s \o Append(list[current_queue], x) = Append(s \o list[current_queue], x)
    <3> DEFINE q == list[current_queue]
    <3>1. q \in Seq(Calls)
      BY <1>a
    <3> HIDE DEF s, q
    <3> QED
      BY ONLY <2>1, <3>1, AppendRight, x \in Calls, SMTT(20)
  <2>5. queueBar' = Append(queueBar, x)
    BY <2>a, <2>4 DEF queueBar
  <2>6. callingBar' = callingBar
    BY <2>3 DEF callingBar
  <2> QED
    BY <2>3, <2>5, <2>6 DEF F!Add
<1>2. CASE Swap
  <2>1. queueBar = list[current_queue]
    BY <1>2, EmptyNeutral, <1>a DEF Swap, queueBar
  <2>2. queueBar' = list[current_queue] \o <<>>
    BY <1>2 DEF Swap, queueBar
  <2>3. queueBar' = queueBar
    BY <2>1, <2>2, EmptyNeutral, <1>a
  <2>4. callingBar' = callingBar /\ exit' = exit
    BY <1>2 DEF Swap, callingBar
  <2> QED
    BY <2>3, <2>4 DEF F!vars
<1>3. CASE Front
  <2>1. Draining \in Seq(Calls) /\ Draining # <<>> /\ pc = "drain"
    BY <1>3, <1>a DEF Front
  <2>2. queueBar = Draining \o list[current_queue]
    BY <2>1 DEF queueBar
  <2>3. queueBar' = Tail(Draining) \o list[current_queue]
    BY <1>3 DEF Front, queueBar
  <2>4. queueBar # <<>> /\ queueBar' = Tail(queueBar)
        /\ Head(queueBar) = Head(Draining)
    <3> HIDE DEF IInv, TypeOK, Phase, Draining
    <3> QED
      BY <2>1, <2>2, <2>3, TakeLeft, <1>a
  <2>5. callingBar = None /\ callingBar' = Head(Draining) /\ exit' = exit
    BY <1>3 DEF Front, callingBar
  <2> QED
    BY <2>4, <2>5 DEF F!Next, F!Begin
<1>4. CASE Pop
  <2>1. Draining \in Seq(Calls) /\ Draining # <<>>
    BY <1>4, <1>a DEF Pop
  <2>2. callingBar = Head(Draining) /\ Head(Draining) \in Calls
    BY <1>4, <2>1, HeadTailProperties DEF Pop, callingBar
  <2>3. Draining' = Tail(Draining) /\ list'[current_queue'] = list[current_queue]
    BY <1>4 DEF Pop
  <2>4. queueBar' = queueBar
    BY <1>4, <2>3 DEF Pop, queueBar
  <2>5. callingBar' = None /\ exit' = exit
    BY <1>4 DEF Pop, callingBar
  <2> QED
    BY <2>2, <2>4, <2>5 DEF F!Next, F!End
<1>5. CASE Leave \/ Exits
  BY <1>5 DEF Leave, Exits, F!vars, queueBar, callingBar
<1>6. CASE SetExit
  BY <1>6 DEF SetExit, F!Next, F!Stop, queueBar, callingBar
<1>7. CASE UNCHANGED vars
  BY <1>7 DEF vars, F!vars, queueBar, callingBar
<1> QED
  BY <1>1, <1>2, <1>3, <1>4, <1>5, <1>6, <1>7 DEF Next, Consumer, F!Next

(* The double-buffered queue implements the first-in first-out queue: no   *)
(* call is lost, made twice or made out of order, for any set of calls and *)
(* any number of producers.                                                *)
THEOREM ImplementsFifoHolds == Spec => ImplementsFifo
<1>1. Init => F!Init
  BY EmptyNeutral, EmptySeq DEF Init, F!Init, queueBar, callingBar, Draining
<1> QED
  BY <1>1, Invariance, StepSimulation, PTL DEF Spec, ImplementsFifo, F!Spec
=============================================================================
