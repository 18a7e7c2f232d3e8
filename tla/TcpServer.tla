----------------------------- MODULE TcpServer -----------------------------
(***************************************************************************)
(* The server half of the network layer (common/tcpserver.cpp and          *)
(* common/tcpsession.cpp): a pool of session objects that are armed for    *)
(* accept, serve one connection after another and come back to the pool.   *)
(*                                                                         *)
(* Three kinds of thread work on a session: the main thread (_real_run:    *)
(* arm, poll the callbacks, deliver the received messages), the acceptor's *)
(* io thread (tcp_server::handle_accept) and the io thread of the session  *)
(* itself, which runs the handlers of io[s] in the order they were posted. *)
(* A handler is one step; closing a socket posts the aborted completions.  *)
(* The callback list and the receive list are the double-buffered queues   *)
(* of SwapQueue: the half that grows, and the half being drained.          *)
(*                                                                         *)
(* A read completes with one message. Byte counts, compression (no process *)
(* installs one), the connection log and the limit mode (never switched    *)
(* on) are left out.                                                       *)
(***************************************************************************)
EXTENDS Integers, Sequences, FiniteSets, SequencesExt

CONSTANTS Sessions,     \* the session objects create() puts into the pool
          Conns,        \* the connections peers open, each once
          IpOf,         \* the address a connection comes from
          None,
          Listen,       \* s_io_once_listen_session_count
          BanHack,      \* seconds close_and_ban bans for (5)
          BanSum,       \* seconds a wrong checksum bans for (120)
          Epoch,        \* time() when the server starts
          Kinds,        \* what peers send: "good", "length" or "checksum" (bad)
          App,          \* what the application calls: "send", "close"
          MaxTicks,     \* bound: seconds that pass
          MaxMsgs,      \* bound: messages a peer sends on one connection
          MaxFaults     \* bound: accepts that fail

ASSUME SessionAssumption == IsFiniteSet(Sessions) /\ None \notin Conns
ASSUME KindAssumption == Kinds \subseteq {"good", "length", "checksum"}
ASSUME ListenAssumption == Listen \in Nat \ {0}
ASSUME BanAssumption == BanHack \in Nat /\ BanSum \in Nat /\ Epoch \in Nat

VARIABLES m_sessions,   \* the pool, a list
          accepting,    \* sessions with an async_accept outstanding, in order
          ses,          \* the fields of every session
          io,           \* handlers posted to the session's io_service
          cbs, calls,   \* m_cb_mgr: callbacks added, callbacks being drained
          recv, procs,  \* m_queue_recv_msg: messages pushed, being drained
          m_unix_time, m_banip,
          pc,           \* where _real_run is
          peer,         \* [Conns -> "idle" | "backlog" | "open" | "closed"]
          sent,         \* messages the peer sent on a connection
          faults,
          handled,      \* history: [session, conn read on, conn served]
          hacked        \* history: [connection, time] of a bad length

vars == <<m_sessions, accepting, ses, io, cbs, calls, recv, procs, m_unix_time,
          m_banip, pc, peer, sent, faults, handled, hacked>>

pool == <<m_sessions, accepting>>
queues == <<cbs, calls, recv, procs>>
ban == <<m_unix_time, m_banip>>
outside == <<peer, sent, faults>>
history == <<handled, hacked>>

Ips == {IpOf[c] : c \in Conns}

(* A session as reset() and set_valid(false) leave it: a new socket, no    *)
(* operation outstanding on it. "conn" is the connection the socket has    *)
(* (or had), "open" whether the socket is still open.                      *)
Reset == [valid |-> FALSE, connected |-> FALSE, father |-> FALSE,
          sending |-> FALSE, queue |-> 0, conn |-> None, open |-> FALSE,
          ip |-> None, reading |-> FALSE, writing |-> FALSE]

(* The completions a closed or deleted socket hands to its io_service.     *)
Aborted(s) == (IF ses[s].reading THEN <<"readError">> ELSE <<>>)
              \o (IF ses[s].writing THEN <<"writeError">> ELSE <<>>)

(* shutdown() and close() of the session's socket.                         *)
SocketClosed(s) == [ses[s] EXCEPT !.open = FALSE, !.reading = FALSE,
                                  !.writing = FALSE]

Hangup(s) == IF ses[s].open /\ peer[ses[s].conn] = "open"
             THEN [peer EXCEPT ![ses[s].conn] = "closed"] ELSE peer

-----------------------------------------------------------------------------
(* The pool and the bans.                                                  *)

(* tcp_server::free_session: reset() deletes the socket, whose outstanding *)
(* operations are aborted; "p" is what becomes of the peers.               *)
free_session(s, p) ==
    /\ ses' = [ses EXCEPT ![s] = Reset]
    /\ io' = [io EXCEPT ![s] = @ \o Aborted(s)]
    /\ m_sessions' = Append(m_sessions, s)
    /\ peer' = p

(* get_remote_address_ui: the cached address, else the one of the socket.  *)
remote_address(s) == IF ses[s].ip # None THEN ses[s].ip
                     ELSE IF ses[s].open THEN IpOf[ses[s].conn] ELSE None

is_ban_ip(ip) == ip \in DOMAIN m_banip /\ m_banip[ip] >= m_unix_time

(* is_ban_ip erases an entry that has expired.                             *)
Forgotten(ip) == IF ip \in DOMAIN m_banip /\ ~is_ban_ip(ip)
                 THEN [i \in DOMAIN m_banip \ {ip} |-> m_banip[i]] ELSE m_banip

(* add_ban_ip: a new entry gets a deadline; an entry that is there is only *)
(* changed when its deadline is below the DURATION.                        *)
add_ban_ip(ip, sec) ==
    m_banip' = IF ip \notin DOMAIN m_banip
               THEN [i \in DOMAIN m_banip \cup {ip} |->
                        IF i = ip THEN m_unix_time + sec ELSE m_banip[i]]
               ELSE IF m_banip[ip] < sec THEN [m_banip EXCEPT ![ip] = sec]
               ELSE m_banip

-----------------------------------------------------------------------------
(* The main thread: _real_run.                                             *)

(* A run begins when the last one has delivered its messages: pooled       *)
(* sessions are armed while fewer than Listen accepts are outstanding.     *)
Arm ==
    LET room == Listen - Len(accepting)
        n == IF room <= 0 THEN 0
             ELSE IF room < Len(m_sessions) THEN room ELSE Len(m_sessions)
        armed == {m_sessions[i] : i \in 1..n}
    IN /\ pc = "deliver" /\ procs = <<>>
       /\ \E t \in {m_unix_time, m_unix_time + 1} :
            t <= Epoch + MaxTicks /\ m_unix_time' = t
       /\ ses' = [s \in Sessions |-> IF s \in armed
                    THEN [ses[s] EXCEPT !.valid = TRUE] ELSE ses[s]]
       /\ accepting' = accepting \o SubSeq(m_sessions, 1, n)
       /\ m_sessions' = SubSeq(m_sessions, n + 1, Len(m_sessions))
       /\ pc' = "poll"
       /\ UNCHANGED <<io, queues, m_banip, outside, history>>

(* call_back_mgr::poll takes what has been added.                          *)
Poll ==
    /\ pc = "poll"
    /\ calls' = cbs /\ cbs' = <<>>
    /\ pc' = "call"
    /\ UNCHANGED <<pool, ses, io, recv, procs, ban, outside, history>>

(* tcp_session::on_accept does nothing here.                               *)
on_accept ==
    /\ pc = "call" /\ calls # <<>> /\ Head(calls)[1] = "on_accept"
    /\ calls' = Tail(calls)
    /\ UNCHANGED <<pool, ses, io, cbs, recv, procs, ban, pc, outside, history>>

(* tcp_session::on_close: the session goes back, unless it has gone back   *)
(* already (reset() cleared m_father).                                     *)
on_close_unguarded(s) == free_session(s, Hangup(s))

on_close(s) == IF ses[s].father THEN free_session(s, Hangup(s))
               ELSE UNCHANGED <<ses, io, peer, m_sessions>>

OnClose ==
    /\ pc = "call" /\ calls # <<>> /\ Head(calls)[1] = "on_close"
    /\ on_close(Head(calls)[2])
    /\ calls' = Tail(calls)
    /\ UNCHANGED <<accepting, cbs, recv, procs, ban, pc, sent, faults, history>>

(* The callbacks are done: the receive queue is swapped.                   *)
SwapRecv ==
    /\ pc = "call" /\ calls = <<>>
    /\ procs' = recv /\ recv' = <<>>
    /\ pc' = "deliver"
    /\ UNCHANGED <<pool, ses, io, cbs, calls, ban, outside, history>>

MayProc_Unchecked(s) == TRUE

MayProc(s) == ses[s].valid /\ ses[s].connected

(* A message is handed to proc_message of the session it came from.        *)
Deliver ==
    /\ pc = "deliver" /\ procs # <<>>
    /\ LET m == Head(procs)
       IN handled' = IF MayProc(m.from)
                     THEN handled \cup {<<m.from, m.conn, ses[m.from].conn>>}
                     ELSE handled
    /\ procs' = Tail(procs)
    /\ UNCHANGED <<pool, ses, io, cbs, calls, recv, ban, pc, outside, hacked>>

(* What the application does with a session: send_message (no father, not  *)
(* valid or not connected: dropped) posts _write_message, close() posts    *)
(* handle_close. The application knows a session from on_accept on.        *)
Known(s) == ses[s].father

send_message(s) ==
    /\ "send" \in App
    /\ pc \in {"call", "deliver"} /\ Known(s)
    /\ ses[s].valid /\ ses[s].connected
    /\ ses[s].queue = 0 /\ "write" \notin Range(io[s])    \* bound: one at a time
    /\ ses' = [ses EXCEPT ![s].queue = 1]
    /\ io' = [io EXCEPT ![s] = Append(@, "write")]
    /\ UNCHANGED <<pool, queues, ban, pc, outside, history>>

close(s) ==
    /\ "close" \in App
    /\ pc \in {"call", "deliver"} /\ Known(s)
    /\ "close" \notin Range(io[s])                        \* bound: one at a time
    /\ io' = [io EXCEPT ![s] = Append(@, "close")]
    /\ UNCHANGED <<pool, ses, queues, ban, pc, outside, history>>

-----------------------------------------------------------------------------
(* The acceptor's io thread: tcp_server::handle_accept. An accept into a   *)
(* socket that is already open fails.                                      *)

HandleAccept(c) ==
    LET s == Head(accepting)
        ip == IF ses[s].ip # None THEN ses[s].ip ELSE IpOf[c]
    IN /\ accepting # <<>> /\ peer[c] = "backlog"
       /\ IF is_ban_ip(ip) \/ ses[s].open
          THEN free_session(s, [Hangup(s) EXCEPT ![c] = "closed"])
          ELSE /\ ses' = [ses EXCEPT ![s].conn = c, ![s].open = TRUE]
               /\ io' = [io EXCEPT ![s] = Append(@, "accept")]
               /\ peer' = [peer EXCEPT ![c] = "open"]
               /\ UNCHANGED m_sessions
       /\ m_banip' = Forgotten(ip)
       /\ accepting' = Tail(accepting)
       /\ UNCHANGED <<queues, m_unix_time, pc, sent, faults, history>>

(* The accept fails: nothing was accepted into the session's socket.       *)
AcceptFails ==
    /\ accepting # <<>> /\ faults < MaxFaults
    /\ free_session(Head(accepting), Hangup(Head(accepting)))
    /\ m_banip' = Forgotten(remote_address(Head(accepting)))
    /\ accepting' = Tail(accepting)
    /\ faults' = faults + 1
    /\ UNCHANGED <<queues, m_unix_time, pc, sent, history>>

-----------------------------------------------------------------------------
(* The session's io thread: the handler at the head of io[s].              *)

(* The socket operations begin_read_message and async_write start: on a    *)
(* closed socket they complete at once with an error.                      *)
Reads(r, s, rest) ==
    /\ ses' = [ses EXCEPT ![s] = [r EXCEPT !.reading = r.open]]
    /\ io' = [io EXCEPT ![s] = IF r.open THEN rest
                               ELSE Append(rest, "readError")]

(* _on_close: the queue is cleared, the socket closed, on_close called     *)
(* later if the session still has a father.                                *)
_on_close(s, rest) ==
    /\ ses' = [ses EXCEPT ![s] = [SocketClosed(s) EXCEPT !.queue = 0,
                                                         !.connected = FALSE]]
    /\ io' = [io EXCEPT ![s] = rest \o Aborted(s)]
    /\ cbs' = IF ses[s].father THEN Append(cbs, <<"on_close", s>>) ELSE cbs
    /\ peer' = Hangup(s)

(* tcp_session::handle_accept.                                             *)
handle_accept(s, rest) ==
    /\ Reads([ses[s] EXCEPT !.valid = TRUE, !.connected = TRUE,
                            !.father = TRUE,
                            !.ip = IF @ = None /\ ses[s].open
                                   THEN IpOf[ses[s].conn] ELSE @], s, rest)
    /\ cbs' = Append(cbs, <<"on_accept", s>>)
    /\ UNCHANGED <<peer, recv, m_banip, hacked>>

handle_close(s, rest) ==
    /\ ses' = [ses EXCEPT ![s] = [SocketClosed(s) EXCEPT !.connected = FALSE]]
    /\ io' = [io EXCEPT ![s] = rest \o Aborted(s)]
    /\ peer' = Hangup(s)
    /\ UNCHANGED <<cbs, recv, m_banip, hacked>>

(* _write_message.                                                         *)
_write_message(s, rest, r) ==
    LET w == r.connected /\ ~r.sending /\ r.queue > 0
    IN /\ ses' = [ses EXCEPT ![s] = IF w THEN [r EXCEPT !.queue = 0,
                                        !.sending = TRUE, !.writing = r.open]
                                    ELSE r]
       /\ io' = [io EXCEPT ![s] = IF w /\ ~r.open THEN Append(rest, "writeError")
                                  ELSE rest]
       /\ UNCHANGED <<cbs, recv, peer, m_banip, hacked>>

(* handle_write.                                                           *)
handle_write(s, rest, error) ==
    IF ~ses[s].valid
    THEN io' = [io EXCEPT ![s] = rest]
         /\ UNCHANGED <<ses, cbs, recv, peer, m_banip, hacked>>
    ELSE IF error
    THEN _on_close(s, rest) /\ UNCHANGED <<recv, m_banip, hacked>>
    ELSE _write_message(s, rest, [ses[s] EXCEPT !.sending = FALSE])

(* handle_read_some with an error.                                         *)
ReadFails_Quiet(s, rest) ==
    IF ~ses[s].valid \/ ~ses[s].connected
    THEN io' = [io EXCEPT ![s] = rest]
         /\ UNCHANGED <<ses, cbs, recv, peer, m_banip, hacked>>
    ELSE _on_close(s, rest) /\ UNCHANGED <<recv, m_banip, hacked>>

ReadFails(s, rest) ==
    IF ~ses[s].valid
    THEN io' = [io EXCEPT ![s] = rest]
         /\ UNCHANGED <<ses, cbs, recv, peer, m_banip, hacked>>
    ELSE _on_close(s, rest) /\ UNCHANGED <<recv, m_banip, hacked>>

(* handle_read_some with a message. A bad length bans and posts a close    *)
(* and starts no further read; a bad checksum bans, posts a close and calls*)
(* _on_close; else the message is pushed and the next read started.        *)
ReadSome(s, rest, kind) ==
    CASE ~ses[s].valid ->
           /\ io' = [io EXCEPT ![s] = rest]
           /\ UNCHANGED <<ses, cbs, recv, peer, m_banip, hacked>>
      [] ses[s].valid /\ kind = "length" ->
           /\ io' = [io EXCEPT ![s] = Append(rest, "close")]
           /\ IF ses[s].father THEN add_ban_ip(remote_address(s), BanHack)
                               ELSE UNCHANGED m_banip
           /\ hacked' = hacked \cup {<<ses[s].conn, m_unix_time>>}
           /\ UNCHANGED <<ses, cbs, recv, peer>>
      [] ses[s].valid /\ kind = "checksum" ->
           /\ _on_close(s, Append(rest, "close"))
           /\ IF ses[s].father THEN add_ban_ip(remote_address(s), BanSum)
                               ELSE UNCHANGED m_banip
           /\ UNCHANGED <<recv, hacked>>
      [] OTHER ->
           /\ recv' = IF ses[s].father
                      THEN Append(recv, [from |-> s, conn |-> ses[s].conn])
                      ELSE recv
           /\ Reads(ses[s], s, rest)
           /\ UNCHANGED <<cbs, peer, m_banip, hacked>>

Handler(s) ==
    /\ io[s] # <<>>
    /\ LET h == Head(io[s]) rest == Tail(io[s])
       IN CASE h = "accept" -> handle_accept(s, rest)
            [] h = "close" -> handle_close(s, rest)
            [] h = "write" -> _write_message(s, rest, ses[s])
            [] h = "written" -> handle_write(s, rest, FALSE)
            [] h = "writeError" -> handle_write(s, rest, TRUE)
            [] h = "readError" -> ReadFails(s, rest)
            [] h \in Kinds -> ReadSome(s, rest, h)
    /\ UNCHANGED <<pool, calls, procs, m_unix_time, pc, sent, faults, handled>>

-----------------------------------------------------------------------------
(* The peers and the operating system.                                     *)

Connects(c) ==
    /\ peer[c] = "idle"
    /\ peer' = [peer EXCEPT ![c] = "backlog"]
    /\ UNCHANGED <<pool, ses, io, queues, ban, pc, sent, faults, history>>

(* The outstanding read completes with what the peer sent.                 *)
Arrives(s, kind) ==
    LET c == ses[s].conn
    IN /\ ses[s].reading /\ peer[c] = "open" /\ sent[c] < MaxMsgs
       /\ sent' = [sent EXCEPT ![c] = @ + 1]
       /\ ses' = [ses EXCEPT ![s].reading = FALSE]
       /\ io' = [io EXCEPT ![s] = Append(@, kind)]
       /\ UNCHANGED <<pool, queues, ban, pc, peer, faults, history>>

(* The outstanding write completes.                                        *)
Written(s) ==
    /\ ses[s].writing
    /\ ses' = [ses EXCEPT ![s].writing = FALSE]
    /\ io' = [io EXCEPT ![s] = Append(@, IF peer[ses[s].conn] = "open"
                                         THEN "written" ELSE "writeError")]
    /\ UNCHANGED <<pool, queues, ban, pc, outside, history>>

(* The peer goes away; the read sees it.                                   *)
Disconnects(c) ==
    /\ peer[c] \in {"backlog", "open"}
    /\ peer' = [peer EXCEPT ![c] = "closed"]
    /\ UNCHANGED <<pool, ses, io, queues, ban, pc, sent, faults, history>>

ReadSeesIt(s) ==
    /\ ses[s].reading /\ peer[ses[s].conn] = "closed"
    /\ ses' = [ses EXCEPT ![s].reading = FALSE]
    /\ io' = [io EXCEPT ![s] = Append(@, "readError")]
    /\ UNCHANGED <<pool, queues, ban, pc, outside, history>>

Init ==
    /\ m_sessions \in {q \in [1..Cardinality(Sessions) -> Sessions] :
                          Range(q) = Sessions}
    /\ accepting = <<>>
    /\ ses = [s \in Sessions |-> Reset]
    /\ io = [s \in Sessions |-> <<>>]
    /\ cbs = <<>> /\ calls = <<>> /\ recv = <<>> /\ procs = <<>>
    /\ m_unix_time = Epoch /\ m_banip = [i \in {} |-> 0]
    /\ pc = "deliver"
    /\ peer = [c \in Conns |-> "idle"] /\ sent = [c \in Conns |-> 0]
    /\ faults = 0 /\ handled = {} /\ hacked = {}

Main == Arm \/ Poll \/ on_accept \/ OnClose \/ SwapRecv \/ Deliver

Next ==
    \/ Main
    \/ \E s \in Sessions : send_message(s) \/ close(s) \/ Handler(s)
                            \/ Written(s) \/ ReadSeesIt(s)
    \/ \E s \in Sessions, k \in Kinds : Arrives(s, k)
    \/ \E c \in Conns : HandleAccept(c) \/ Connects(c) \/ Disconnects(c)
    \/ AcceptFails

Spec == Init /\ [][Next]_vars

(* The server frame calls _real_run in a loop, the io threads run what is  *)
(* posted to them, and the operating system completes an operation on a    *)
(* connection that is gone. Peers and accepts owe nothing.                 *)
FairSpec == Spec /\ WF_vars(Main)
                 /\ \A s \in Sessions : WF_vars(Handler(s)) /\ WF_vars(Written(s))
                                        /\ WF_vars(ReadSeesIt(s))

-----------------------------------------------------------------------------
(* The session objects, each in one place: in the pool, armed, or with the *)
(* connection it was accepted into.                                        *)
Count(s, q) == Cardinality({i \in 1..Len(q) : q[i] = s})
Serving(s) == IF ses[s].conn # None THEN 1 ELSE 0

(* A session is in the pool once, or armed once, or has a connection, and  *)
(* never two of them: an object that was pooled twice would be armed twice *)
(* and two peers would share it (free_session, called by the callbacks of  *)
(* two failed operations, by a refused accept and by a failed one).        *)
SessionInOnePlace ==
    \A s \in Sessions : Count(s, m_sessions) + Count(s, accepting) + Serving(s) = 1

(* A message is handed to proc_message only while its session still has    *)
(* the connection it was read on: what a closed connection left in the     *)
(* receive queue is never taken for the words of the next peer the session *)
(* object serves (_real_run polls on_close before it swaps the queue, and  *)
(* arms the freed session only in the next run).                           *)
DeliveredToOwner == \A h \in handled : h[2] = h[3]

(* A connection that ended gives its session back: once the peer is gone,  *)
(* whoever closed, the session returns to the pool. The exception is a     *)
(* connection on which a bad length was read: close_and_ban starts no read *)
(* and nothing need ever call _on_close.                                   *)
SessionReturns ==
    \A s \in Sessions, c \in Conns :
        (ses[s].conn = c /\ peer[c] = "closed")
            ~> (ses[s].conn # c \/ \E h \in hacked : h[1] = c)

(* close_and_ban logs "recv hack packet. ban for 5 seconds": no connection *)
(* from the address is served within BanHack seconds of a bad length.      *)
BannedForFiveSeconds ==
    [][\A c \in Conns, h \in hacked :
          /\ peer[c] = "backlog" /\ peer'[c] = "open"
          /\ IpOf[h[1]] = IpOf[c]
          => m_unix_time > h[2] + BanHack]_vars
=============================================================================
