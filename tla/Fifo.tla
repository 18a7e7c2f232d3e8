-------------------------------- MODULE Fifo --------------------------------
(***************************************************************************)
(* What the queues between the threads promise: any thread adds a call,    *)
(* one thread takes the calls in the order they were added and makes each  *)
(* of them once. A consumer that was told to stop may leave calls behind.  *)
(***************************************************************************)
EXTENDS Sequences

CONSTANTS Calls, None

VARIABLES queue,    \* calls added and not yet begun
          calling,  \* the call in progress, or None
          stopped   \* the consumer was told to stop

vars == <<queue, calling, stopped>>

Init == queue = <<>> /\ calling = None /\ stopped = FALSE

Add(x) == /\ queue' = Append(queue, x)
          /\ UNCHANGED <<calling, stopped>>

Begin == /\ calling = None /\ queue # <<>>
         /\ calling' = Head(queue) /\ queue' = Tail(queue)
         /\ UNCHANGED stopped

End == /\ calling # None
       /\ calling' = None
       /\ UNCHANGED <<queue, stopped>>

Stop == /\ stopped' = TRUE
        /\ UNCHANGED <<queue, calling>>

Next == (\E x \in Calls : Add(x)) \/ Begin \/ End \/ Stop

Spec == Init /\ [][Next]_vars

(* As long as nobody stops it, the consumer goes on calling.               *)
Fairness == WF_vars(~stopped /\ Begin) /\ WF_vars(End)
=============================================================================
