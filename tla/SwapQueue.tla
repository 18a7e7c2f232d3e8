----------------------------- MODULE SwapQueue -----------------------------
(***************************************************************************)
(* The double-buffered queue every thread of the servers hands work over   *)
(* with: call_back_mgr (common/call_back.cpp), task_thread                 *)
(* (common/task_thread_pool.cpp) and the receive queues of tcp_server and  *)
(* tcp_client are the same code on two std::queues and an index. Producers *)
(* push to the current list under the mutex; the consumer swaps the lists  *)
(* under the mutex and then drains the other one WITHOUT it.               *)
(*                                                                         *)
(* A task_thread also has m_exit, looked at before each swap only.         *)
(***************************************************************************)
EXTENDS Integers, Sequences

CONSTANTS Calls,    \* the callbacks, tasks or messages
          None,
          Stops,    \* TRUE: a task_thread, whose destructor sets m_exit
          MaxLen    \* bound: elements in both lists

ASSUME NoneAssumption == None \notin Calls
ASSUME StopsAssumption == Stops \in BOOLEAN
ASSUME MaxLenAssumption == MaxLen \in Nat

VARIABLES list,             \* m_listcb[2], m_tasks[2], m_queue_recv_msg[2]
          current_queue,    \* m_current_queue, the list producers push to
          proc_index,       \* the list the consumer drains
          pc,               \* "poll", "drain", "call", or "ended"
          exit              \* m_exit

vars == <<list, current_queue, proc_index, pc, exit>>

TypeOK == /\ list \in [{0, 1} -> Seq(Calls)]
          /\ current_queue \in {0, 1} /\ proc_index \in {0, 1}
          /\ pc \in {"poll", "drain", "call", "ended"}
          /\ exit \in BOOLEAN

Init == /\ list = [i \in {0, 1} |-> <<>>]
        /\ current_queue = 0 /\ proc_index = 0
        /\ pc = "poll" /\ exit = FALSE

(* add_cb, task_thread::push, push_message: under the mutex, from any      *)
(* thread, the consumer in the middle of a call included.                  *)
add_cb(x) ==
    /\ Len(list[0]) + Len(list[1]) < MaxLen
    /\ list' = [list EXCEPT ![current_queue] = Append(@, x)]
    /\ UNCHANGED <<current_queue, proc_index, pc, exit>>

(* poll looks at the list producers do not push to.                        *)
Swap_WrongList ==
    /\ pc = "poll" /\ ~exit
    /\ list[1 - current_queue] # <<>>
    /\ proc_index' = current_queue
    /\ current_queue' = 1 - current_queue
    /\ pc' = "drain"
    /\ UNCHANGED <<list, exit>>

(* The swap drains the list it is about to hand to the producers.          *)
Swap_Late ==
    /\ pc = "poll" /\ ~exit
    /\ list[current_queue] # <<>>
    /\ current_queue' = 1 - current_queue
    /\ proc_index' = 1 - current_queue
    /\ pc' = "drain"
    /\ UNCHANGED <<list, exit>>

(* The start of poll and of the loop of task_thread::run: an empty current *)
(* list is left alone (the consumer comes back later), else the lists are  *)
(* swapped under the mutex.                                                *)
Swap ==
    /\ pc = "poll" /\ ~exit
    /\ list[current_queue] # <<>>
    /\ proc_index' = current_queue
    /\ current_queue' = 1 - current_queue
    /\ pc' = "drain"
    /\ UNCHANGED <<list, exit>>

(* front() of the list being drained is called ...                         *)
Front ==
    /\ pc = "drain" /\ list[proc_index] # <<>>
    /\ pc' = "call"
    /\ UNCHANGED <<list, current_queue, proc_index, exit>>

(* ... and popped when the call has returned.                              *)
Pop ==
    /\ pc = "call"
    /\ list' = [list EXCEPT ![proc_index] = Tail(@)]
    /\ pc' = "drain"
    /\ UNCHANGED <<current_queue, proc_index, exit>>

(* The drained list is left when it is empty.                              *)
Leave ==
    /\ pc = "drain" /\ list[proc_index] = <<>>
    /\ pc' = "poll"
    /\ UNCHANGED <<list, current_queue, proc_index, exit>>

(* ~task_thread sets m_exit; run() returns at its next look at it.         *)
SetExit ==
    /\ Stops /\ ~exit
    /\ exit' = TRUE
    /\ UNCHANGED <<list, current_queue, proc_index, pc>>

Exits ==
    /\ pc = "poll" /\ exit
    /\ pc' = "ended"
    /\ UNCHANGED <<list, current_queue, proc_index, exit>>

Consumer == Swap \/ Front \/ Pop \/ Leave \/ Exits

Next == (\E x \in Calls : add_cb(x)) \/ Consumer \/ SetExit

Spec == Init /\ [][Next]_vars

(* The server frame calls poll in a loop; a task thread runs by itself.    *)
FairSpec == Spec /\ WF_vars(Consumer)

-----------------------------------------------------------------------------
(* The queue the two lists stand for: the rest of the list being drained,  *)
(* then the current one.                                                   *)
Draining == list[1 - current_queue]

queueBar == (IF pc = "call" THEN Tail(Draining) ELSE Draining)
            \o list[current_queue]
callingBar == IF pc = "call" THEN Head(Draining) ELSE None

F == INSTANCE Fifo WITH queue <- queueBar, calling <- callingBar,
                        stopped <- exit

(* The two lists implement one first-in first-out queue: calls of several  *)
(* threads are made once each, in the order they were added, also the ones *)
(* added while the consumer drains or by the call it is in.                *)
ImplementsFifo == F!Spec

(* No call that was added is left behind, unless the thread is told to     *)
(* stop: poll comes back to a list that was empty when it looked.          *)
CallsGoOn == F!Fairness

(* The consumer reads and pops its list without the mutex: no producer may *)
(* push to that list meanwhile.                                            *)
DrainedAlone == pc \in {"drain", "call"} => proc_index # current_queue
=============================================================================
