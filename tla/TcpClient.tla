----------------------------- MODULE TcpClient -----------------------------
(***************************************************************************)
(* The client half of the network layer (common/tcpclient.cpp on top of    *)
(* common/tcpsession.cpp): the links gate -> login, gate -> game and       *)
(* game -> database, which reconnect by themselves.                        *)
(*                                                                         *)
(* Two threads: the main thread (run_no_wait: reconnect, poll, callbacks,  *)
(* and the application's send_message and close) and the io thread, which  *)
(* runs the handlers of io in the order they were posted. The callbacks    *)
(* go from one to the other through a SwapQueue, whose actions the main    *)
(* thread's steps contain. _on_close is two steps, because the main thread *)
(* may send between its _clear_send_msg and its m_isconnected = false.     *)
(*                                                                         *)
(* Left out: the receive queue (a second SwapQueue, delivered whatever the *)
(* state of the link), message lengths, wait_connect (nobody calls it).    *)
(***************************************************************************)
EXTENDS SwapQueue

CONSTANTS MaxSend,      \* bound: messages queued
          MaxFaults     \* bound: times the server goes away, and closes

ASSUME CallsAssumption == {"on_connect", "on_connect_failed", "on_close"} \subseteq Calls

VARIABLES m_isconnected, m_isconnecting, m_isinitconncted,
          m_is_sending_data,
          m_queue_send_msg,     \* messages queued, a number
          socket,       \* "closed", "connecting", "open", "broken" (peer gone)
          reads,        \* async reads outstanding
          writing,      \* an async write is outstanding
          io,           \* handlers posted to the io_service
          closing,      \* _on_close is between its two steps
          due,          \* m_reconnect_time has passed since the last attempt
          up,           \* the server can be reached
          faults,
          failedWrite   \* history: some write ended with an error

cb == <<list, current_queue, proc_index, pc, exit>>
flags == <<m_isconnected, m_isconnecting, m_isinitconncted>>
sending == <<m_is_sending_data, m_queue_send_msg, writing>>
world == <<up, faults>>
clientVars == <<cb, flags, sending, socket, reads, io, closing, due, world,
                failedWrite>>

(* The completions of a socket that is closed.                             *)
Aborted == (IF socket = "connecting" THEN <<"refused">> ELSE <<>>)
           \o [i \in 1..reads |-> "readError"]
           \o (IF writing THEN <<"writeError">> ELSE <<>>)

(* reconnect(): nothing if there is a connection or one is being made.     *)
reconnect == /\ m_isconnecting' = (m_isconnecting \/ ~m_isconnected)
             /\ socket' = IF m_isconnected \/ m_isconnecting THEN socket
                          ELSE "connecting"

(* send_message and _send_message: dropped without a connection, else      *)
(* queued, and _write_message posted. "rest" are the handlers so far.      *)
Sends(rest) ==
    IF m_isconnected
    THEN /\ m_queue_send_msg' = m_queue_send_msg + 1
         /\ io' = Append(rest, "write")
    ELSE UNCHANGED m_queue_send_msg /\ io' = rest

-----------------------------------------------------------------------------
(* The main thread.                                                        *)

(* The head of run_no_wait; m_isreconnect is set by the constructors of    *)
(* the three links.                                                        *)
RunReconnects ==
    /\ pc = "poll" /\ ~m_isconnected /\ ~m_isconnecting /\ m_isinitconncted
    /\ due
    /\ reconnect
    /\ UNCHANGED <<cb, m_isconnected, m_isinitconncted, sending, reads, io,
                   closing, due, world, failedWrite>>

(* m_cb_mgr.poll().                                                        *)
Polls == /\ Swap \/ Front \/ Leave
         /\ UNCHANGED <<flags, sending, socket, reads, io, closing, due, world,
                        failedWrite>>

(* The callback at the front. on_connect starts the reading and, in every  *)
(* subclass, sends the registration; on_close finds no father and          *)
(* on_connect_failed only logs.                                            *)
Callback ==
    /\ Pop
    /\ IF Head(list[proc_index]) = "on_connect"
       THEN IF socket \in {"open", "broken"}
            THEN reads' = reads + 1 /\ Sends(io)
            ELSE UNCHANGED reads /\ Sends(Append(io, "readError"))
       ELSE UNCHANGED <<reads, m_queue_send_msg, io>>
    /\ UNCHANGED <<flags, m_is_sending_data, writing, socket, closing, due,
                   world, failedWrite>>

(* The application sends, from a callback or a message handler.            *)
send_message ==
    /\ pc # "drain" /\ m_isconnected /\ m_queue_send_msg < MaxSend
    /\ Sends(io)
    /\ UNCHANGED <<cb, flags, m_is_sending_data, writing, socket, reads,
                   closing, due, world, failedWrite>>

(* The application closes the link: handle_close is posted.                *)
close ==
    /\ faults < MaxFaults
    /\ faults' = faults + 1
    /\ io' = Append(io, "close")
    /\ UNCHANGED <<cb, flags, sending, socket, reads, closing, due, up,
                   failedWrite>>

-----------------------------------------------------------------------------
(* The io thread: the handler at the head of io.                           *)

Runs(h) == ~closing /\ io # <<>> /\ Head(io) = h

(* _connect, posted by connect().                                          *)
_connect ==
    /\ Runs("connect") /\ io' = Tail(io)
    /\ reconnect
    /\ m_isinitconncted' = TRUE
    /\ UNCHANGED <<cb, m_isconnected, sending, reads, closing, due, world,
                   failedWrite>>

(* The flag is only cleared when the connection has been made.             *)
Connecting_KeptOnError(error) == error /\ m_isconnecting

Connecting(error) == FALSE

(* handle_connect.                                                         *)
handle_connect(error) ==
    /\ Runs(IF error THEN "refused" ELSE "connected") /\ io' = Tail(io)
    /\ m_isconnecting' = Connecting(error)
    /\ IF m_isconnected
       THEN UNCHANGED <<cb, m_isconnected, due>>
       ELSE /\ due' = FALSE
            /\ m_isconnected' = ~error
            /\ add_cb(IF error THEN "on_connect_failed" ELSE "on_connect")
    /\ UNCHANGED <<m_isinitconncted, sending, socket, reads, closing, world,
                   failedWrite>>

(* handle_close.                                                           *)
handle_close ==
    /\ Runs("close")
    /\ io' = Tail(io) \o Aborted
    /\ socket' = "closed" /\ reads' = 0 /\ writing' = FALSE
    /\ m_isconnected' = FALSE
    /\ UNCHANGED <<cb, m_isconnecting, m_isinitconncted, m_is_sending_data,
                   m_queue_send_msg, closing, due, world, failedWrite>>

(* The write _write_message starts: everything that is queued, if there is *)
(* a connection and no write is under way.                                 *)
WriteStarts(rest, busy) ==
    IF m_isconnected /\ ~busy /\ m_queue_send_msg > 0
    THEN /\ m_queue_send_msg' = 0 /\ m_is_sending_data' = TRUE
         /\ writing' = (socket \in {"open", "broken"})
         /\ io' = IF socket \in {"open", "broken"} THEN rest
                  ELSE Append(rest, "writeError")
    ELSE /\ m_is_sending_data' = busy /\ io' = rest
         /\ UNCHANGED <<m_queue_send_msg, writing>>

(* Faulty variant: m_is_sending_data is not looked at.                     *)
_write_message_Unchecked ==
    /\ Runs("write") /\ WriteStarts(Tail(io), FALSE)
    /\ UNCHANGED <<cb, flags, socket, reads, closing, due, world, failedWrite>>

_write_message ==
    /\ Runs("write") /\ WriteStarts(Tail(io), m_is_sending_data)
    /\ UNCHANGED <<cb, flags, socket, reads, closing, due, world, failedWrite>>

(* The next write is left to the next send_message.                        *)
Written_Waits(rest) == /\ m_is_sending_data' = FALSE /\ io' = rest
                       /\ UNCHANGED <<m_queue_send_msg, writing>>

Written(rest) == WriteStarts(rest, FALSE)

(* handle_write without an error goes on with what was queued meanwhile.   *)
handle_write ==
    /\ Runs("written") /\ Written(Tail(io))
    /\ UNCHANGED <<cb, flags, socket, reads, closing, due, world, failedWrite>>

(* handle_read_some and handle_write with an error: _on_close clears the   *)
(* queue. m_is_sending_data stays as it is ...                             *)
OnCloseClears ==
    /\ Runs("readError") \/ Runs("writeError")
    /\ io' = Tail(io)
    /\ failedWrite' = (failedWrite \/ Head(io) = "writeError")
    /\ m_queue_send_msg' = 0
    /\ closing' = TRUE
    /\ UNCHANGED <<cb, flags, m_is_sending_data, writing, socket, reads, due,
                   world>>

(* ... then it closes the socket and has on_close called.                  *)
OnCloseCloses ==
    /\ closing /\ closing' = FALSE
    /\ io' = io \o Aborted
    /\ socket' = "closed" /\ reads' = 0 /\ writing' = FALSE
    /\ m_isconnected' = FALSE
    /\ add_cb("on_close")
    /\ UNCHANGED <<m_isconnecting, m_isinitconncted, m_is_sending_data,
                   m_queue_send_msg, due, world, failedWrite>>

-----------------------------------------------------------------------------
(* The operating system, the clock and the server.                         *)

Completes(s, r, w, h) == /\ socket' = s /\ reads' = r /\ writing' = w
                         /\ io' = Append(io, h)
                         /\ UNCHANGED <<cb, flags, m_is_sending_data,
                                m_queue_send_msg, closing, due, world, failedWrite>>

(* An outstanding connect, read or write completes. A write to a server    *)
(* that is gone fails or is still taken.                                   *)
Completion ==
    \/ socket = "connecting" /\ up /\ Completes("open", reads, writing, "connected")
    \/ socket = "connecting" /\ ~up /\ Completes("closed", reads, writing, "refused")
    \/ socket = "broken" /\ reads > 0 /\ Completes(socket, reads - 1, writing, "readError")
    \/ socket \in {"open", "broken"} /\ writing
       /\ Completes(socket, reads, FALSE, "written")
    \/ socket = "broken" /\ writing /\ Completes(socket, reads, FALSE, "writeError")

(* More than m_reconnect_time seconds since the last attempt.              *)
TimePasses ==
    /\ ~due /\ due' = TRUE
    /\ UNCHANGED <<cb, flags, sending, socket, reads, io, closing, world,
                   failedWrite>>

ServerGoes ==
    /\ up /\ faults < MaxFaults
    /\ up' = FALSE /\ faults' = faults + 1
    /\ socket' = IF socket = "open" THEN "broken" ELSE socket
    /\ UNCHANGED <<cb, flags, sending, reads, io, closing, due, failedWrite>>

ServerComes ==
    /\ ~up /\ up' = TRUE
    /\ UNCHANGED <<cb, flags, sending, socket, reads, io, closing, due, faults,
                   failedWrite>>

-----------------------------------------------------------------------------
ClientInit ==
    /\ Init
    /\ m_isconnected = FALSE /\ m_isconnecting = FALSE
    /\ m_isinitconncted = FALSE
    /\ m_is_sending_data = FALSE /\ m_queue_send_msg = 0 /\ writing = FALSE
    /\ socket = "closed" /\ reads = 0
    /\ io = <<"connect">>           \* connect() has been called
    /\ closing = FALSE /\ due = TRUE
    /\ up = TRUE /\ faults = 0 /\ failedWrite = FALSE

Loop == RunReconnects \/ Polls \/ Callback

IoThread == _connect \/ (\E e \in BOOLEAN : handle_connect(e)) \/ handle_close
            \/ _write_message \/ handle_write \/ OnCloseClears \/ OnCloseCloses

ClientNext == Loop \/ send_message \/ close \/ IoThread \/ Completion
              \/ TimePasses \/ ServerGoes \/ ServerComes

ClientSpec == ClientInit /\ [][ClientNext]_clientVars

(* The server frame runs the main loop, the io thread runs what is posted, *)
(* operations end and time passes; the server owes nothing.                *)
ClientFairSpec ==
    ClientSpec /\ WF_clientVars(RunReconnects) /\ WF_clientVars(Polls \/ Callback)
               /\ WF_clientVars(IoThread) /\ WF_clientVars(Completion)
               /\ WF_clientVars(TimePasses)

-----------------------------------------------------------------------------
(* The link repairs itself: while the server can be reached the client     *)
(* comes to be connected, whatever was aborted, refused or lost before,    *)
(* also when a read and a write both failed and close a socket that is     *)
(* being connected again (handle_connect, run_no_wait, _on_close).         *)
LinkComesBack == up ~> (m_isconnected \/ ~up)

(* What is sent goes out: a queued message is written or the connection    *)
(* ends, as long as no write has ever failed. After a failed write         *)
(* m_is_sending_data stays set (only a write that succeeds, and reset(),   *)
(* clear it), and the reconnected client never writes again.               *)
SendsGoOut == (m_isconnected /\ m_queue_send_msg > 0)
                  ~> (m_queue_send_msg = 0 \/ ~m_isconnected \/ failedWrite)

-----------------------------------------------------------------------------
(* What the two threads keep true between them, so that the above can come *)
(* about.                                                                  *)
Posted(H) == {i \in 1 .. Len(io) : io[i] \in H}

Awaited(x) == \E i \in {0, 1} : \E j \in 1 .. Len(list[i]) : list[i][j] = x

(* A loss is noticed: while the client takes itself for connected a read   *)
(* is outstanding, or its failure is on the way, or on_connect has still   *)
(* to start the reading, also when the socket was closed under a           *)
(* connection that had just been made (handle_connect, _on_close).         *)
LossNoticed ==
    m_isconnected => reads > 0 \/ closing \/ Posted({"readError"}) # {}
                                \/ Awaited("on_connect")

(* m_isconnecting means that one connect is outstanding: its end will come *)
(* and clear the flag, no second one is started, and none is while there   *)
(* is a connection, although the main thread and the io thread both call   *)
(* reconnect and a close aborts it (run_no_wait, _connect, handle_connect).*)
OneConnect ==
    LET ended == Posted({"connected", "refused"}) IN
    /\ m_isconnecting <=> (socket = "connecting" \/ ended # {})
    /\ socket = "connecting" => ended = {}
    /\ \A i, j \in ended : i = j
    /\ ~(m_isconnecting /\ m_isconnected)

(* Two writes never overlap on a socket, and m_is_sending_data tells that  *)
(* one is under way until its end is handled or it has failed              *)
(* (_write_message, handle_write).                                         *)
OneWrite ==
    LET ended == Posted({"written", "writeError"}) IN
    /\ writing => ended = {}
    /\ \A i, j \in ended : i = j
    /\ writing \/ ended # {} => m_is_sending_data
    /\ m_is_sending_data => writing \/ ended # {} \/ failedWrite

(* A queued message is not forgotten: _write_message is posted for it, or  *)
(* the write under way goes on with it, or on_connect will send and so     *)
(* take along what was queued while the last connection was being closed   *)
(* (send_message, handle_write).                                           *)
QueuedGoesOut ==
    m_isconnected /\ m_queue_send_msg > 0 =>
        Posted({"write"}) # {} \/ m_is_sending_data \/ Awaited("on_connect")

(* No order of connects, closes, failed reads and failed writes on the two *)
(* threads leaves a loss unnoticed, a flag behind, two writes on a socket  *)
(* or a message without a writer (_on_close, reconnect, _write_message).   *)
LinkConsistent == LossNoticed /\ OneConnect /\ OneWrite /\ QueuedGoesOut
=============================================================================
