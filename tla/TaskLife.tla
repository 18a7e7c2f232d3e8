------------------------------ MODULE TaskLife ------------------------------
(***************************************************************************)
(* What the asynchronous database promises for its tasks, whatever its     *)
(* threads do in between: a task that is added waits in the queue of its   *)
(* type, is taken by one worker, in the order of the queue, and reported   *)
(* once.  Retries, reconnects, late stores to _task, the delivery of the   *)
(* results and the stop are steps that leave this state alone.             *)
(***************************************************************************)
EXTENDS Naturals, Sequences

CONSTANTS Tasks, Queues, Workers, QueueOf, TypeOf, None

VARIABLES
    added,     \* the tasks added so far, in order
    waiting,   \* waiting[q]: the tasks of type q no worker has taken
    busy,      \* busy[w]: the task worker w has taken and not reported, or None
    reported   \* the tasks that are done, in the order they were finished

vars == <<added, waiting, busy, reported>>

Init ==
    /\ added = <<>> /\ reported = <<>>
    /\ waiting = [q \in Queues |-> <<>>]
    /\ busy = [w \in Workers |-> None]

Add(t) ==
    /\ \A i \in 1 .. Len(added) : added[i] # t
    /\ added' = Append(added, t)
    /\ waiting' = [waiting EXCEPT ![TypeOf[t]] = Append(@, t)]
    /\ UNCHANGED <<busy, reported>>

Take(w) ==
    /\ busy[w] = None /\ waiting[QueueOf[w]] # <<>>
    /\ busy' = [busy EXCEPT ![w] = Head(waiting[QueueOf[w]])]
    /\ waiting' = [waiting EXCEPT ![QueueOf[w]] = Tail(@)]
    /\ UNCHANGED <<added, reported>>

Report(w) ==
    /\ busy[w] # None
    /\ reported' = Append(reported, busy[w])
    /\ busy' = [busy EXCEPT ![w] = None]
    /\ UNCHANGED <<added, waiting>>

Next == (\E t \in Tasks : Add(t)) \/ (\E w \in Workers : Take(w) \/ Report(w))

Spec == Init /\ [][Next]_vars
=============================================================================
