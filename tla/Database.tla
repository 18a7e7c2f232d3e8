------------------------------ MODULE Database ------------------------------
(***************************************************************************)
(* The asynchronous database of common/database.cpp and database.h.        *)
(*                                                                         *)
(* The main thread adds tasks.  A task goes to the queue of its thread     *)
(* type; worker threads execute the tasks and put them on _results; the    *)
(* main loop's run() calls back.  The type _NORMAL_THREAD has several      *)
(* workers, every other type has one, started with its first task.  A      *)
(* worker that loses its connection keeps its task, reconnects and tries   *)
(* again.  To stop, the main thread waits until the queues are empty and   *)
(* then joins the workers one after the other, while they still run.       *)
(*                                                                         *)
(* Workers and main thread interleave at every access to shared state:     *)
(* a queue and _results are behind a mutex, _task and _stop are not.       *)
(***************************************************************************)
EXTENDS Naturals, Sequences, FiniteSets

CONSTANTS
    Tasks,
    Queues,       \* thread types (ntype)
    Normal,       \* _NORMAL_THREAD
    ThreadCount,  \* the length _dbthread_list grows to
    QueueOf,      \* QueueOf[th]: the queue worker th serves
    TypeOf,       \* TypeOf[t]: the ntype a task is added with
    None,         \* NULL
    MaxRetries    \* bound: how often a task is left unfinished by an exception

Threads == 1 .. ThreadCount

ASSUME DatabaseAssumption ==
    /\ ThreadCount \in Nat /\ MaxRetries \in Nat
    /\ Normal \in Queues
    /\ QueueOf \in [Threads -> Queues]
    /\ TypeOf \in [Tasks -> Queues]
    /\ \A q \in Queues : \E th \in Threads : QueueOf[th] = q
    /\ \A x, y \in Threads : QueueOf[x] = QueueOf[y] => x = y \/ QueueOf[x] = Normal
    /\ None \notin Tasks

VARIABLES
    _obj_state,  \* "run", "wait_stop" or "stop"
    _works,      \* _works[q]: the list of db_thread_task_manager q
    _results,    \* finished tasks
    added,       \* tasks accepted, in the order they were added
    refused,     \* tasks turned away because the database is stopping
    called,      \* tasks called back, in that order
    (* db_thread *)
    pc,
    _task,
    popped,      \* what getTask has returned and _task does not show yet
    _connect,
    _stop,
    retries,
    (* the main thread in run() and checkStop() *)
    mpc,
    at,          \* the worker checkStop has come to
    tem          \* the results run() has taken and not called back yet

threadVars == <<pc, _task, popped, _connect, _stop, retries>>
mainVars   == <<mpc, at, tem>>
logVars    == <<added, refused, called>>
vars == <<_obj_state, _works, _results, logVars, threadVars, mainVars>>

Elements(s) == {s[i] : i \in 1 .. Len(s)}

(* A worker of a type other than _NORMAL_THREAD starts with the first task *)
(* of its type.                                                            *)
Started(th) == pc[th] # "none"

-----------------------------------------------------------------------------
(* The main thread adds tasks between and inside callbacks.                *)

InMainThread == mpc \in {"loop", "deliver"}

(* Faulty variant: the queue is made and no worker for it.                 *)
addThread_NoWorker(q) == pc

addThread(q) ==
    [th \in Threads |-> IF QueueOf[th] = q /\ ~Started(th) THEN "top" ELSE pc[th]]

(* addSQueryTask, addUQueryTask, addTranceTask, addBatchTask.              *)
addTask(t) ==
    /\ InMainThread /\ _obj_state = "run"
    /\ t \notin Elements(added) \cup refused
    /\ _works' = [_works EXCEPT ![TypeOf[t]] = Append(@, t)]
    /\ pc' = addThread(TypeOf[t])
    /\ added' = Append(added, t)
    /\ UNCHANGED <<_obj_state, _results, refused, called, _task, popped,
                   _connect, _stop, retries, mainVars>>

refuseTask(t) ==
    /\ InMainThread /\ _obj_state # "run"
    /\ t \notin Elements(added) \cup refused
    /\ refused' = refused \cup {t}
    /\ UNCHANGED <<_obj_state, _works, _results, added, called, threadVars, mainVars>>

(* DBQuestManager::onSaveToClose: setObjState(_wait_stop_).                *)
requestStop ==
    /\ InMainThread /\ _obj_state = "run"
    /\ _obj_state' = "wait_stop"
    /\ UNCHANGED <<_works, _results, logVars, threadVars, mainVars>>

-----------------------------------------------------------------------------
(* A worker: db_thread::run, connetDatabase and work.                      *)

goto(th, label) == pc' = [pc EXCEPT ![th] = label]

workerLeaves(th) ==
    /\ pc[th] = "top" /\ _stop[th]
    /\ goto(th, "exited")
    /\ UNCHANGED <<_obj_state, _works, _results, logVars, _task, popped,
                   _connect, _stop, retries, mainVars>>

workerLoops(th) ==
    /\ pc[th] = "top" /\ ~_stop[th]
    /\ goto(th, IF _connect[th] THEN "work" ELSE "connect")
    /\ UNCHANGED <<_obj_state, _works, _results, logVars, _task, popped,
                   _connect, _stop, retries, mainVars>>

(* realConnect succeeds.  An attempt that fails changes nothing.           *)
realConnect(th) ==
    /\ pc[th] = "connect"
    /\ _connect' = [_connect EXCEPT ![th] = TRUE]
    /\ goto(th, "work")
    /\ UNCHANGED <<_obj_state, _works, _results, logVars, _task, popped, _stop,
                   retries, mainVars>>

(* connetDatabase gives up because of _stop, and work() runs nevertheless. *)
connectStopped(th) ==
    /\ pc[th] = "connect" /\ _stop[th]
    /\ goto(th, "work")
    /\ UNCHANGED <<_obj_state, _works, _results, logVars, _task, popped,
                   _connect, _stop, retries, mainVars>>

(* A worker without a connection leaves work() with its task.              *)
Begin(th) == goto(th, IF _connect[th] THEN "query" ELSE "top")

workTaskKept(th) ==
    /\ pc[th] = "work" /\ _task[th] # None
    /\ Begin(th)
    /\ UNCHANGED <<_obj_state, _works, _results, logVars, _task, popped,
                   _connect, _stop, retries, mainVars>>

Fetching(th) == pc[th] = "next" \/ (pc[th] = "work" /\ _task[th] = None)

(* getTask pops under the queue's mutex ...                                *)
getTask(th) ==
    /\ Fetching(th) /\ _works[QueueOf[th]] # <<>>
    /\ popped' = [popped EXCEPT ![th] = Head(_works[QueueOf[th]])]
    /\ _works' = [_works EXCEPT ![QueueOf[th]] = Tail(@)]
    /\ goto(th, "store")
    /\ UNCHANGED <<_obj_state, _results, logVars, _task, _connect, _stop,
                   retries, mainVars>>

getTaskNone(th) ==
    /\ Fetching(th) /\ _works[QueueOf[th]] = <<>>
    /\ _task' = [_task EXCEPT ![th] = None]
    /\ goto(th, "top")
    /\ UNCHANGED <<_obj_state, _works, _results, logVars, popped, _connect,
                   _stop, retries, mainVars>>

(* ... and its result is stored in _task after that.                       *)
storeTask(th) ==
    /\ pc[th] = "store"
    /\ _task' = [_task EXCEPT ![th] = popped[th]]
    /\ popped' = [popped EXCEPT ![th] = None]
    /\ Begin(th)
    /\ UNCHANGED <<_obj_state, _works, _results, logVars, _connect, _stop,
                   retries, mainVars>>

(* The statement succeeds.                                                 *)
queryDone(th) ==
    /\ pc[th] = "query"
    /\ goto(th, "done")
    /\ UNCHANGED <<_obj_state, _works, _results, logVars, _task, popped,
                   _connect, _stop, retries, mainVars>>

(* BadConversion or another mysqlpp::Exception; a BadQuery also drops the  *)
(* connection.                                                             *)
queryError(th) ==
    /\ pc[th] = "query"
    /\ goto(th, "error")
    /\ \/ _connect' = [_connect EXCEPT ![th] = FALSE]
       \/ UNCHANGED _connect
    /\ UNCHANGED <<_obj_state, _works, _results, logVars, _task, popped, _stop,
                   retries, mainVars>>

(* Faulty variant: the task goes back to the end of its queue.             *)
queryUnfinished_Requeues(th) ==
    /\ pc[th] = "query"
    /\ retries < MaxRetries
    /\ retries' = retries + 1
    /\ _works' = [_works EXCEPT ![QueueOf[th]] = Append(@, _task[th])]
    /\ _task' = [_task EXCEPT ![th] = None]
    /\ goto(th, "top")
    /\ UNCHANGED <<_obj_state, _results, logVars, popped, _connect, _stop, mainVars>>

(* Faulty variant: the error is reported and the task kept.                *)
queryUnfinished_Reports(th) ==
    /\ pc[th] = "query"
    /\ retries < MaxRetries
    /\ retries' = retries + 1
    /\ _results' = Append(_results, _task[th])
    /\ goto(th, "top")
    /\ UNCHANGED <<_obj_state, _works, logVars, _task, popped, _connect, _stop,
                   mainVars>>

(* BadQuery with code 2013 or 2006, or an exception that is not MySQL++'s: *)
(* work() returns with _task as it is, to try again.                       *)
queryUnfinished(th) ==
    /\ pc[th] = "query"
    /\ retries < MaxRetries
    /\ retries' = retries + 1
    /\ goto(th, "top")
    /\ \/ _connect' = [_connect EXCEPT ![th] = FALSE]
       \/ UNCHANGED _connect
    /\ UNCHANGED <<_obj_state, _works, _results, logVars, _task, popped, _stop,
                   mainVars>>

(* After addDone _task still points to the task, which may be called back  *)
(* and released by now.                                                    *)
addDone(th) ==
    /\ pc[th] \in {"done", "error"}
    /\ _results' = Append(_results, _task[th])
    /\ goto(th, IF pc[th] = "done" THEN "next" ELSE "clear")
    /\ UNCHANGED <<_obj_state, _works, logVars, _task, popped, _connect, _stop,
                   retries, mainVars>>

clearTask(th) ==
    /\ pc[th] = "clear"
    /\ _task' = [_task EXCEPT ![th] = None]
    /\ goto(th, "top")
    /\ UNCHANGED <<_obj_state, _works, _results, logVars, popped, _connect,
                   _stop, retries, mainVars>>

-----------------------------------------------------------------------------
(* The main thread: Database::run, which starts with checkStop.            *)

(* Faulty variant: the queues are not counted.                             *)
QueuesEmpty_NotCounted == TRUE

QueuesEmpty == \A q \in Queues : _works[q] = <<>>

(* Faulty variant: the loop over the workers starts before the first.      *)
checkStop_FromZero ==
    /\ mpc = "loop"
    /\ IF _obj_state = "wait_stop" /\ QueuesEmpty
         THEN mpc' = "threads" /\ at' = 0
         ELSE mpc' = "results" /\ UNCHANGED at
    /\ UNCHANGED <<_obj_state, _works, _results, logVars, threadVars, tem>>

(* Queues only shrink while stopping, so counting them one by one and      *)
(* finding all empty is as good as seeing them empty at once.              *)
checkStop ==
    /\ mpc = "loop"
    /\ IF _obj_state = "wait_stop" /\ QueuesEmpty
         THEN mpc' = "threads" /\ at' = 1
         ELSE mpc' = "results" /\ UNCHANGED at
    /\ UNCHANGED <<_obj_state, _works, _results, logVars, threadVars, tem>>

isDone(th) == _task[th] = None

(* Faulty variant: the main thread joins without setting _stop.            *)
setStop_Forgotten(th) == _stop

setStop(th) == [_stop EXCEPT ![th] = TRUE]

(* checkStop's loop over _dbthread_list: set _stop and join, or give up    *)
(* until the next round.                                                   *)
checkThread ==
    /\ mpc = "threads" /\ at <= ThreadCount
    /\ \/ /\ ~Started(at)
          /\ at' = at + 1 /\ UNCHANGED <<mpc, _stop>>
       \/ /\ Started(at) /\ isDone(at)
          /\ _stop' = setStop(at)
          /\ mpc' = "join" /\ UNCHANGED at
       \/ /\ Started(at) /\ ~isDone(at)
          /\ mpc' = "results" /\ UNCHANGED <<at, _stop>>
    /\ UNCHANGED <<_obj_state, _works, _results, logVars, pc, _task, popped,
                   _connect, retries, tem>>

(* Faulty variant: _stop is set and nobody waits.                          *)
joinThread_NoWait ==
    /\ mpc = "join"
    /\ mpc' = "threads" /\ at' = at + 1
    /\ UNCHANGED <<_obj_state, _works, _results, logVars, threadVars, tem>>

joinThread ==
    /\ mpc = "join" /\ pc[at] = "exited"
    /\ mpc' = "threads" /\ at' = at + 1
    /\ UNCHANGED <<_obj_state, _works, _results, logVars, threadVars, tem>>

allJoined ==
    /\ mpc = "threads" /\ at > ThreadCount
    /\ _obj_state' = "stop"
    /\ mpc' = "results"
    /\ UNCHANGED <<_works, _results, logVars, threadVars, at, tem>>

(* The results are taken under _mutex_done.                                *)
takeResults ==
    /\ mpc = "results"
    /\ IF _obj_state \in {"run", "wait_stop"} /\ _results # <<>>
         THEN tem' = _results /\ _results' = <<>> /\ mpc' = "deliver"
         ELSE mpc' = "loop" /\ UNCHANGED <<tem, _results>>
    /\ UNCHANGED <<_obj_state, _works, logVars, threadVars, at>>

(* cb->execute and releaseTask.                                            *)
execute ==
    /\ mpc = "deliver" /\ tem # <<>>
    /\ called' = Append(called, Head(tem))
    /\ tem' = Tail(tem)
    /\ UNCHANGED <<_obj_state, _works, _results, added, refused, threadVars, mpc, at>>

executed ==
    /\ mpc = "deliver" /\ tem = <<>>
    /\ mpc' = "loop"
    /\ UNCHANGED <<_obj_state, _works, _results, logVars, threadVars, at, tem>>

(* DBServer::checkStop sees isObjStop and calls shutDown, which deletes    *)
(* the queues and the db_thread objects.                                   *)
shutDown ==
    /\ mpc = "loop" /\ _obj_state = "stop"
    /\ mpc' = "down"
    /\ UNCHANGED <<_obj_state, _works, _results, logVars, threadVars, at, tem>>

-----------------------------------------------------------------------------
(* After initDatabase.                                                     *)
Init ==
    /\ _obj_state = "run"
    /\ _works = [q \in Queues |-> <<>>]
    /\ _results = <<>>
    /\ added = <<>> /\ refused = {} /\ called = <<>>
    /\ pc = [th \in Threads |-> IF QueueOf[th] = Normal THEN "top" ELSE "none"]
    /\ _task = [th \in Threads |-> None]
    /\ popped = [th \in Threads |-> None]
    /\ _connect = [th \in Threads |-> FALSE]
    /\ _stop = [th \in Threads |-> FALSE]
    /\ retries = 0
    /\ mpc = "loop" /\ at = 1 /\ tem = <<>>

Client == requestStop \/ \E t \in Tasks : addTask(t) \/ refuseTask(t)

Worker(th) ==
    \/ workerLeaves(th) \/ workerLoops(th) \/ realConnect(th) \/ connectStopped(th)
    \/ workTaskKept(th) \/ getTask(th) \/ getTaskNone(th) \/ storeTask(th)
    \/ queryDone(th) \/ queryError(th) \/ queryUnfinished(th)
    \/ addDone(th) \/ clearTask(th)

MainLoop ==
    \/ checkStop \/ checkThread \/ joinThread \/ allJoined
    \/ takeResults \/ execute \/ executed \/ shutDown

Terminated == mpc = "down" /\ UNCHANGED vars

Next == Client \/ (\E th \in Threads : Worker(th)) \/ MainLoop \/ Terminated

Spec == Init /\ [][Next]_vars

(* Threads are scheduled, the database can be reached sooner or later and  *)
(* answers.                                                                *)
Fairness == WF_vars(MainLoop) /\ \A th \in Threads : WF_vars(Worker(th))

FairSpec == Spec /\ Fairness

-----------------------------------------------------------------------------
(* Properties.                                                             *)

(* Every variable holds a value of its type.                               *)
TypeOK ==
    /\ _obj_state \in {"run", "wait_stop", "stop"}
    /\ _works \in [Queues -> Seq(Tasks)]
    /\ _results \in Seq(Tasks)
    /\ added \in Seq(Tasks) /\ refused \subseteq Tasks /\ called \in Seq(Tasks)
    /\ pc \in [Threads -> {"none", "top", "connect", "work", "store", "query",
                           "done", "error", "next", "clear", "exited"}]
    /\ _task \in [Threads -> Tasks \cup {None}]
    /\ popped \in [Threads -> Tasks \cup {None}]
    /\ _connect \in [Threads -> BOOLEAN]
    /\ _stop \in [Threads -> BOOLEAN]
    /\ retries \in 0 .. MaxRetries
    /\ mpc \in {"loop", "threads", "join", "results", "deliver", "down"}
    /\ at \in 1 .. ThreadCount + 1
    /\ tem \in Seq(Tasks)

Reported == called \o tem \o _results

(* The task worker th will still execute or report.                        *)
Held(th) ==
    IF pc[th] = "store" THEN popped[th]
    ELSE IF pc[th] \in {"next", "clear"} THEN None ELSE _task[th]

held == [th \in Threads |-> Held(th)]

(* Queues, workers and results implement the life cycle of TaskLife: a task *)
(* waits in the queue of its type, one worker takes it, and it is reported  *)
(* once, whatever is retried, delivered late or stopped (db_thread::work).  *)
L == INSTANCE TaskLife WITH Workers <- Threads, waiting <- _works,
                            busy <- held, reported <- Reported

ImplementsTaskLife == L!Spec

(* A worker never touches a task that run() may have called back and        *)
(* released, and no two workers have the same task, although _task keeps    *)
(* pointing to the last one for a while (work, releaseTask).                *)
NoUseAfterRelease ==
    \A th \in Threads : Held(th) # None =>
        /\ Held(th) \notin Elements(Reported)
        /\ \A other \in Threads \ {th} : Held(other) # Held(th)

(* A task is reported, and its callback called, at most once, whatever      *)
(* fails and is tried again.                                                *)
CalledBackOnce ==
    \A i, j \in 1 .. Len(Reported) : Reported[i] = Reported[j] => i = j

(* Tasks of a type with one worker are called back in the order they were   *)
(* added, retries and failures included: no task is reported that was not   *)
(* added, and none before an earlier one of its type.  saveSqlData and the  *)
(* chained hero queries rely on it.                                         *)
CalledInOrder ==
    /\ Elements(Reported) \subseteq Elements(added)
    /\ \A i, j \in 1 .. Len(added) :
         i < j /\ TypeOf[added[i]] = TypeOf[added[j]] /\ TypeOf[added[j]] # Normal =>
            \A n \in 1 .. Len(Reported) : Reported[n] = added[j] =>
                \E m \in 1 .. n - 1 : Reported[m] = added[i]

(* When shutDown deletes the queues and the db_thread objects no worker     *)
(* runs and no task is queued.                                              *)
StopIsQuiet ==
    _obj_state = "stop" =>
        QueuesEmpty /\ \A th \in Threads : pc[th] \in {"none", "exited"}

(* Unless an exception left a task unfinished, every task that was added    *)
(* has been executed when the database stops, although checkStop's isDone   *)
(* cannot see a task between getTask and the store to _task.                *)
StoppedAfterLastTask ==
    _obj_state = "stop" /\ retries = 0 =>
        \A t \in Elements(added) : t \in Elements(called \o _results)

(* While the database runs, every task that was added is called back.       *)
CallbackComes ==
    \A t \in Tasks :
        t \in Elements(added) ~> t \in Elements(called) \/ _obj_state # "run"

(* Stopping ends, unless a worker has left with a task it did not finish:   *)
(* its isDone stays false and checkStop gives up in every round.            *)
StopEnds ==
    _obj_state = "wait_stop" ~>
        \/ _obj_state = "stop"
        \/ \E th \in Threads : pc[th] = "exited" /\ _task[th] # None

(* Every operation ends with its callback, as database.h says: none is left *)
(* without when the server has shut the database down.                      *)
EveryTaskCalledBack ==
    mpc = "down" => \A t \in Elements(added) : t \in Elements(called)
=============================================================================
