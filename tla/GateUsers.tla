----------------------------- MODULE GateUsers -----------------------------
(***************************************************************************)
(* The gate server's users: UserManager (user_manager.cpp), UserSession    *)
(* (user_session.cpp), the active game links of GameManager                *)
(* (game_manager.cpp) and the messages of GateLoginClient and              *)
(* GateGameClient that change them.                                        *)
(*                                                                         *)
(* The login server hands the gate a ticket (transid) for an account.  The *)
(* client connects to the gate, shows the ticket and becomes online on an  *)
(* idle game server.  When its connection drops the ticket stays good for  *)
(* five minutes to reconnect.  The login server can kick a ticket at any   *)
(* time.  Everything runs on the gate's main thread, but a socket closes   *)
(* asynchronously, timers are never cancelled, and the callbacks and the   *)
(* messages of one session reach the main thread through two queues.       *)
(*                                                                         *)
(* A ticket belongs to one account (AccountOf) and is issued once.  INVALID*)
(* ids are None.                                                           *)
(***************************************************************************)
EXTENDS Naturals, Sequences

CONSTANTS
    Sessions,   \* the UserSession objects of the session pool
    Trans,      \* transids
    Accounts,
    Games,      \* game server ids
    AccountOf,  \* AccountOf[t]: the account of ticket t
    None,
    MaxLogins,  \* bound: LoginGame messages a client sends on one connection
    MaxTimers,  \* bound: reconnect timers running for one ticket
    MaxQueue,   \* bound: messages in flight from the login server
    MaxBreaks   \* bound: links to game servers that break

ASSUME GateAssumption ==
    /\ AccountOf \in [Trans -> Accounts]
    /\ None \notin Sessions \cup Trans \cup Accounts \cup Games
    /\ MaxLogins \in Nat /\ MaxTimers \in Nat /\ MaxQueue \in Nat
    /\ MaxBreaks \in Nat

VARIABLES
    (* UserSession *)
    conn,        \* "free", "open" or "closed" (on_close is queued)
    accepting,   \* on_accept is queued
    closeReq,    \* close() was called and the socket is still open
    state,       \* m_state
    tran,        \* m_tranid
    gsid,        \* m_gs_id
    timer,       \* how many EVENT_USER_SESSION_CLOSE are armed
    logins,      \* LoginGame messages handled on this connection
    (* UserManager *)
    m_onlines, m_onlineaccs, m_wait_map, m_recon_map,
    reconTimers, \* how many EVENT_REMOVE_RECONNECT run for a ticket
    (* GameManager *)
    m_activeGames,
    (* The other servers *)
    gsUsers,     \* gsUsers[g]: tickets game server g has a Session for
    gsGate,      \* g's m_Gates entry of this gate: "none", the session of the
                 \* link in use ("current"), or of one that broke ("old")
    leftBehind,  \* history: the tickets g had when the gate registered last
    breaks,      \* how many links have broken
    issued,      \* tickets the login server has issued
    lastTrans,   \* the ticket the login server has on record for an account
    fromLogin    \* messages in flight from the login server

sessionVars == <<conn, accepting, closeReq, state, tran, gsid, timer, logins>>
loginVars   == <<issued, lastTrans, fromLogin>>
userVars    == <<m_onlines, m_onlineaccs, m_wait_map, m_recon_map>>
linkVars    == <<gsGate, leftBehind, breaks>>
gameVars    == <<gsUsers, linkVars>>
vars == <<sessionVars, userVars, reconTimers, m_activeGames, gameVars, loginVars>>

States == {"disable", "wait_account", "connect", "wait_close"}

Message == [type : {"login", "kick"}, t : Trans]

-----------------------------------------------------------------------------
(* Maps.                                                                   *)

(* obj_map::addData keeps an entry that is already there.                  *)
addData(map, key, value) ==
    IF map[key] = None THEN [map EXCEPT ![key] = value] ELSE map

eraseData(map, key) == [map EXCEPT ![key] = None]

(* obj_map::eraseValue of a ticket: it is filed under its own account.     *)
eraseAccount(t) ==
    IF m_onlineaccs[AccountOf[t]] = t
      THEN eraseData(m_onlineaccs, AccountOf[t]) ELSE m_onlineaccs

(* What a loop that increments an iterator it has just erased may have     *)
(* visited: the first match, and possibly not the others.                  *)
ErasedBy(S) == IF S = {} THEN {{}} ELSE (SUBSET S) \ {{}}

(* GateGameClient::addNewPlayer, removePlayer and offlinePlayer, as the    *)
(* game server's GateManager will execute them.  offlinePlayer keeps the   *)
(* game server's Session.  What is sent on a link that broke is lost.      *)
addNewPlayer(g, t) ==
    IF gsGate[g] = "current" THEN [gsUsers EXCEPT ![g] = @ \cup {t}] ELSE gsUsers

removePlayer(g, t) ==
    IF g \in m_activeGames /\ gsGate[g] = "current"
      THEN [gsUsers EXCEPT ![g] = @ \ {t}] ELSE gsUsers

-----------------------------------------------------------------------------
(* The login server: kickUserFromGate and giveUserToGate of a login.       *)

Kick(a) == IF lastTrans[a] = None THEN <<>>
                                  ELSE <<[type |-> "kick", t |-> lastTrans[a]]>>

LoginServerLogsIn(t) ==
    /\ t \notin issued
    /\ Len(fromLogin) + 2 <= MaxQueue
    /\ issued' = issued \cup {t}
    /\ lastTrans' = [lastTrans EXCEPT ![AccountOf[t]] = t]
    /\ fromLogin' = fromLogin \o Kick(AccountOf[t])
                              \o <<[type |-> "login", t |-> t]>>
    /\ UNCHANGED <<sessionVars, userVars, reconTimers, m_activeGames, gameVars>>

(* The connection to the login server breaks with messages in flight.      *)
LoginLinkLost ==
    /\ fromLogin # <<>>
    /\ fromLogin' = <<>>
    /\ UNCHANGED <<sessionVars, userVars, reconTimers, m_activeGames, gameVars,
                   issued, lastTrans>>

-----------------------------------------------------------------------------
(* GateLoginClient.                                                        *)

(* addToWait.  A ticket is issued once, so it is not online yet and the    *)
(* kick inside addToWait does not happen.                                  *)
parseLoginUser ==
    /\ fromLogin # <<>> /\ Head(fromLogin).type = "login"
    /\ m_wait_map' = m_wait_map \cup {Head(fromLogin).t}
    /\ fromLogin' = Tail(fromLogin)
    /\ UNCHANGED <<sessionVars, m_onlines, m_onlineaccs, m_recon_map,
                   reconTimers, m_activeGames, gameVars, issued, lastTrans>>

(* kickUser of a ticket that is online.  The session keeps m_state and     *)
(* m_tranid until its on_close.                                            *)
kickOnline(t) ==
    LET p == m_onlines[t] IN
    /\ p # None
    /\ gsUsers' = IF gsid[p] = None THEN gsUsers ELSE removePlayer(gsid[p], t)
    /\ closeReq' = IF conn[p] = "open" THEN [closeReq EXCEPT ![p] = TRUE]
                                       ELSE closeReq
    /\ m_onlines' = eraseData(m_onlines, t)
    /\ m_onlineaccs' = eraseData(m_onlineaccs, AccountOf[t])
    /\ UNCHANGED <<m_wait_map, m_recon_map>>

(* kickUser of a ticket that waits for its first or its next connection.   *)
(* The account is forgotten only with the former.                          *)
kickOffline(t) ==
    /\ m_onlines[t] = None
    /\ m_wait_map' = m_wait_map \ {t}
    /\ m_onlineaccs' = IF t \in m_wait_map
                         THEN eraseData(m_onlineaccs, AccountOf[t])
                         ELSE m_onlineaccs
    /\ m_recon_map' = eraseData(m_recon_map, t)
    /\ gsUsers' = IF m_recon_map[t] = None THEN gsUsers
                                           ELSE removePlayer(m_recon_map[t], t)
    /\ UNCHANGED <<m_onlines, closeReq>>

kickUser(t) == kickOnline(t) \/ kickOffline(t)

parseLoginKick ==
    /\ fromLogin # <<>> /\ Head(fromLogin).type = "kick"
    /\ kickUser(Head(fromLogin).t)
    /\ fromLogin' = Tail(fromLogin)
    /\ UNCHANGED <<conn, accepting, state, tran, gsid, timer, logins, reconTimers,
                   m_activeGames, linkVars, issued, lastTrans>>

-----------------------------------------------------------------------------
(* UserSession.                                                            *)

(* setState(_wait_close_): there is a timer, new or shortened.             *)
closeSoon(S) ==
    [s \in Sessions |-> IF s \in S /\ timer[s] = 0 THEN 1 ELSE timer[s]]

(* The acceptor hands out a session of the pool.  Reading starts before    *)
(* on_accept is queued.                                                    *)
Accept(s) ==
    /\ conn[s] = "free"
    /\ conn' = [conn EXCEPT ![s] = "open"]
    /\ accepting' = [accepting EXCEPT ![s] = TRUE]
    /\ UNCHANGED <<closeReq, state, tran, gsid, timer, logins, userVars, reconTimers,
                   m_activeGames, gameVars, loginVars>>

(* Faulty variant: a new connection gets no close timer.                   *)
on_accept_NoTimer(s) ==
    /\ accepting[s]
    /\ accepting' = [accepting EXCEPT ![s] = FALSE]
    /\ state' = [state EXCEPT ![s] = "wait_account"]
    /\ UNCHANGED <<conn, closeReq, tran, gsid, timer, logins, userVars, reconTimers,
                   m_activeGames, gameVars, loginVars>>

(* on_accept: setState(_wait_account_).                                    *)
on_accept(s) ==
    /\ accepting[s]
    /\ accepting' = [accepting EXCEPT ![s] = FALSE]
    /\ state' = [state EXCEPT ![s] = "wait_account"]
    /\ timer' = [timer EXCEPT ![s] = @ + 1]
    /\ UNCHANGED <<conn, closeReq, tran, gsid, logins, userVars, reconTimers,
                   m_activeGames, gameVars, loginVars>>

(* The least loaded active game server, or the first that is idle: the     *)
(* loads are what the game servers have reported last, so any of them.     *)
getIdleGameClient == m_activeGames

(* checkConn, first branch: the ticket is waiting and a game server is     *)
(* active.                                                                 *)
ConnectNew(s, t) ==
    /\ t \in m_wait_map
    /\ m_wait_map' = m_wait_map \ {t}
    /\ \E g \in getIdleGameClient :
         /\ gsUsers' = addNewPlayer(g, t)
         /\ gsid' = [gsid EXCEPT ![s] = g]
    /\ state' = [state EXCEPT ![s] = "connect"]
    /\ timer' = [timer EXCEPT ![s] = 0]
    /\ m_onlines' = addData(m_onlines, t, s)
    /\ m_onlineaccs' = addData(m_onlineaccs, AccountOf[t], t)
    /\ tran' = [tran EXCEPT ![s] = t]
    /\ UNCHANGED m_recon_map

(* Faulty variant: a reconnect leaves the entry in m_recon_map.            *)
Reconnect_KeepsTicket(s, t) ==
    /\ t \notin m_wait_map /\ m_recon_map[t] # None
    /\ gsid' = [gsid EXCEPT ![s] = m_recon_map[t]]
    /\ state' = [state EXCEPT ![s] = "connect"]
    /\ timer' = [timer EXCEPT ![s] = 0]
    /\ m_onlines' = addData(m_onlines, t, s)
    /\ tran' = [tran EXCEPT ![s] = t]
    /\ UNCHANGED <<m_wait_map, m_onlineaccs, gsUsers, m_recon_map>>

(* Faulty variant: the user comes back on an idle game server.             *)
Reconnect_AnyServer(s, t) ==
    /\ t \notin m_wait_map /\ m_recon_map[t] # None
    /\ m_recon_map' = eraseData(m_recon_map, t)
    /\ \E g \in getIdleGameClient : gsid' = [gsid EXCEPT ![s] = g]
    /\ state' = [state EXCEPT ![s] = "connect"]
    /\ timer' = [timer EXCEPT ![s] = 0]
    /\ m_onlines' = addData(m_onlines, t, s)
    /\ tran' = [tran EXCEPT ![s] = t]
    /\ UNCHANGED <<m_wait_map, m_onlineaccs, gsUsers>>

(* checkConn, second branch.                                               *)
Reconnect(s, t) ==
    /\ t \notin m_wait_map /\ m_recon_map[t] # None
    /\ m_recon_map' = eraseData(m_recon_map, t)
    /\ gsid' = [gsid EXCEPT ![s] = m_recon_map[t]]
    /\ state' = [state EXCEPT ![s] = "connect"]
    /\ timer' = [timer EXCEPT ![s] = 0]
    /\ m_onlines' = addData(m_onlines, t, s)
    /\ tran' = [tran EXCEPT ![s] = t]
    /\ UNCHANGED <<m_wait_map, m_onlineaccs, gsUsers>>

(* checkConn, no game server or unknown ticket.                            *)
Refuse(s, t) ==
    /\ \/ t \in m_wait_map /\ getIdleGameClient = {}
       \/ t \notin m_wait_map /\ m_recon_map[t] = None
    /\ m_wait_map' = m_wait_map \ {t}
    /\ state' = [state EXCEPT ![s] = "wait_close"]
    /\ timer' = closeSoon({s})
    /\ UNCHANGED <<tran, gsid, m_onlines, m_onlineaccs, m_recon_map, gsUsers>>

parseLoginGame(s, t) ==
    /\ conn[s] = "open"
    /\ logins[s] < MaxLogins
    /\ state[s] # "connect"
    /\ logins' = [logins EXCEPT ![s] = @ + 1]
    /\ ConnectNew(s, t) \/ Reconnect(s, t) \/ Refuse(s, t)
    /\ UNCHANGED <<conn, accepting, closeReq, reconTimers, m_activeGames, linkVars,
                   loginVars>>

(* EVENT_USER_SESSION_CLOSE fires: setClose.                               *)
setClose(s) ==
    /\ timer[s] > 0
    /\ timer' = [timer EXCEPT ![s] = @ - 1]
    /\ closeReq' = IF conn[s] = "open" THEN [closeReq EXCEPT ![s] = TRUE]
                                       ELSE closeReq
    /\ UNCHANGED <<conn, accepting, state, tran, gsid, logins, userVars,
                   reconTimers, m_activeGames, gameVars, loginVars>>

(* The peer disconnects, or the io thread executes close().                *)
SocketCloses(s) ==
    /\ conn[s] = "open"
    /\ conn' = [conn EXCEPT ![s] = "closed"]
    /\ closeReq' = [closeReq EXCEPT ![s] = FALSE]
    /\ logins' = [logins EXCEPT ![s] = 0]
    /\ UNCHANGED <<accepting, state, tran, gsid, timer, userVars,
                   reconTimers, m_activeGames, gameVars, loginVars>>

(* checkClose of a session that has no ticket.                             *)
CloseAnonymous(s) ==
    /\ tran[s] = None
    /\ UNCHANGED <<userVars, reconTimers, gsUsers>>

(* Faulty variant: the session stays in m_onlines.                         *)
CloseForReconnect_KeepsOnline(s) ==
    LET t == tran[s] IN
    /\ t # None
    /\ gsid[s] \in m_activeGames /\ state[s] = "connect"
    /\ m_recon_map' = addData(m_recon_map, t, gsid[s])
    /\ UNCHANGED <<m_onlines, m_onlineaccs, m_wait_map, gsUsers>>

(* checkClose: the user may reconnect.                                     *)
CloseForReconnect(s) ==
    LET t == tran[s] IN
    /\ t # None
    /\ gsid[s] \in m_activeGames /\ state[s] = "connect"
    /\ m_onlines' = eraseData(m_onlines, t)
    /\ m_recon_map' = addData(m_recon_map, t, gsid[s])
    /\ UNCHANGED <<m_onlineaccs, m_wait_map, gsUsers>>

(* checkClose: the game server is gone or the session was being closed.    *)
CloseForGood(s) ==
    LET t == tran[s] IN
    /\ t # None
    /\ ~(gsid[s] \in m_activeGames /\ state[s] = "connect")
    /\ m_onlines' = eraseData(m_onlines, t)
    /\ m_onlineaccs' = eraseAccount(t)
    /\ gsUsers' = IF gsid[s] = None THEN gsUsers ELSE removePlayer(gsid[s], t)
    /\ UNCHANGED <<m_recon_map, m_wait_map>>

(* Faulty variant: no timer ends the reconnect window.                     *)
ArmReconnTimer_Never(t) ==
    /\ reconTimers[t] < MaxTimers
    /\ reconTimers' = reconTimers

(* checkClose's trailing addEvent, whichever branch was taken.             *)
ArmReconnTimer(t) ==
    /\ reconTimers[t] < MaxTimers
    /\ reconTimers' = [reconTimers EXCEPT ![t] = @ + 1]

(* on_close: checkClose, setState(_disable_), back to the pool.            *)
on_close(s) ==
    /\ conn[s] = "closed" /\ ~accepting[s]
    /\ \/ CloseAnonymous(s)
       \/ /\ CloseForReconnect(s) \/ CloseForGood(s)
          /\ ArmReconnTimer(tran[s])
    /\ conn' = [conn EXCEPT ![s] = "free"]
    /\ state' = [state EXCEPT ![s] = "disable"]
    /\ tran' = [tran EXCEPT ![s] = None]
    /\ gsid' = [gsid EXCEPT ![s] = None]
    /\ timer' = [timer EXCEPT ![s] = 0]
    /\ UNCHANGED <<accepting, closeReq, logins, m_activeGames,
                   linkVars, loginVars>>

-----------------------------------------------------------------------------
(* UserManager's timers.                                                   *)

(* Every ticket in m_wait_map has its EVENT_REMOVE_WAIT_CONNECT; fired      *)
(* after the ticket has left the map it finds nothing to erase.             *)
eventCallRemoveWait(t) ==
    /\ t \in m_wait_map
    /\ m_wait_map' = m_wait_map \ {t}
    /\ UNCHANGED <<sessionVars, m_onlines, m_onlineaccs, m_recon_map,
                   reconTimers, m_activeGames, gameVars, loginVars>>

eventCallRemoveReconn(t) ==
    /\ reconTimers[t] > 0
    /\ reconTimers' = [reconTimers EXCEPT ![t] = @ - 1]
    /\ m_recon_map' = eraseData(m_recon_map, t)
    /\ m_onlineaccs' = eraseAccount(t)
    /\ gsUsers' = IF m_recon_map[t] = None THEN gsUsers
                                           ELSE removePlayer(m_recon_map[t], t)
    /\ UNCHANGED <<sessionVars, m_onlines, m_wait_map,
                   m_activeGames, linkVars, loginVars>>

-----------------------------------------------------------------------------
(* The links to the game servers: GateGameClient and GameManager here,     *)
(* GateSession and GateManager on game server g.  A link breaks in one     *)
(* step, and each side notices in a step of its own.                       *)

(* g handles the register of a new link.  The gate opens one after it has  *)
(* noticed the end of the last; g may have to notice yet.  addGate         *)
(* overwrites the entry and leaves the users alone.                        *)
parseGateRegister(g) ==
    /\ g \notin m_activeGames /\ gsGate[g] # "current"
    /\ gsGate' = [gsGate EXCEPT ![g] = "current"]
    /\ leftBehind' = [leftBehind EXCEPT ![g] = gsUsers[g]]
    /\ UNCHANGED <<sessionVars, userVars, reconTimers, m_activeGames, gsUsers,
                   breaks, loginVars>>

(* The gate handles g's answer: addActiveGameClient.                       *)
parseGameRegister(g) ==
    /\ g \notin m_activeGames /\ gsGate[g] = "current"
    /\ m_activeGames' = m_activeGames \cup {g}
    /\ UNCHANGED <<sessionVars, userVars, reconTimers, gameVars, loginVars>>

GameLinkBreaks(g) ==
    /\ gsGate[g] = "current"
    /\ breaks < MaxBreaks
    /\ breaks' = breaks + 1
    /\ gsGate' = [gsGate EXCEPT ![g] = "old"]
    /\ UNCHANGED <<sessionVars, userVars, reconTimers, m_activeGames, gsUsers,
                   leftBehind, loginVars>>

(* Faulty variant: the users of the gate stay.                             *)
removeGate_KeepsUsers(g) ==
    /\ gsGate[g] = "old"
    /\ gsGate' = [gsGate EXCEPT ![g] = "none"]
    /\ leftBehind' = [leftBehind EXCEPT ![g] = {}]
    /\ UNCHANGED <<sessionVars, userVars, reconTimers, m_activeGames, gsUsers,
                   breaks, loginVars>>

(* GateSession::on_close on g, of the session m_Gates has: removeUserByGate. *)
(* Of a session that another one has replaced in m_Gates it changes nothing. *)
removeGate(g) ==
    /\ gsGate[g] = "old"
    /\ gsGate' = [gsGate EXCEPT ![g] = "none"]
    /\ gsUsers' = [gsUsers EXCEPT ![g] = {}]
    /\ leftBehind' = [leftBehind EXCEPT ![g] = {}]
    /\ UNCHANGED <<sessionVars, userVars, reconTimers, m_activeGames, breaks,
                   loginVars>>

(* GateGameClient::on_close: removeActiveGameClient and removeUsers.  What  *)
(* game server g has is not touched.                                        *)
GameLinkLost(g) ==
    /\ g \in m_activeGames /\ gsGate[g] # "current"
    /\ m_activeGames' = m_activeGames \ {g}
    /\ \E S \in ErasedBy({m_onlines[t] : t \in {u \in Trans :
                             m_onlines[u] # None /\ gsid[m_onlines[u]] = g}}) :
         /\ state' = [s \in Sessions |-> IF s \in S THEN "wait_close" ELSE state[s]]
         /\ timer' = closeSoon(S)
    /\ \E T \in ErasedBy({t \in Trans : m_recon_map[t] = g}) :
         m_recon_map' = [t \in Trans |-> IF t \in T THEN None ELSE m_recon_map[t]]
    /\ UNCHANGED <<conn, accepting, closeReq, tran, gsid, logins, m_onlines,
                   m_onlineaccs, m_wait_map, reconTimers, gameVars, loginVars>>

(* parseChangeGS from game server g for a user it has, or had when the link *)
(* broke: the user moves to game server h, or is closed when h or the       *)
(* account is not known.                                                    *)
parseChangeGS(g, t, h) ==
    LET p == m_onlines[t] IN
    /\ g \in m_activeGames /\ (t \in gsUsers[g] \/ gsGate[g] # "current")
    /\ p # None /\ gsid[p] = g /\ tran[p] = t
    /\ LET moves == h \in m_activeGames /\ m_onlineaccs[AccountOf[t]] = t
           left  == removePlayer(g, t)
       IN
         /\ gsid' = IF moves THEN [gsid EXCEPT ![p] = h] ELSE gsid
         /\ gsUsers' = IF h \notin m_activeGames THEN gsUsers
                       ELSE IF moves /\ gsGate[h] = "current"
                       THEN [left EXCEPT ![h] = @ \cup {t}] ELSE left
         /\ closeReq' = IF ~moves /\ conn[p] = "open"
                          THEN [closeReq EXCEPT ![p] = TRUE] ELSE closeReq
    /\ UNCHANGED <<conn, accepting, state, tran, timer, logins, userVars,
                   reconTimers, m_activeGames, linkVars, loginVars>>

-----------------------------------------------------------------------------
Init ==
    /\ conn = [s \in Sessions |-> "free"]
    /\ accepting = [s \in Sessions |-> FALSE]
    /\ closeReq = [s \in Sessions |-> FALSE]
    /\ state = [s \in Sessions |-> "disable"]
    /\ tran = [s \in Sessions |-> None]
    /\ gsid = [s \in Sessions |-> None]
    /\ timer = [s \in Sessions |-> 0]
    /\ logins = [s \in Sessions |-> 0]
    /\ m_onlines = [t \in Trans |-> None]
    /\ m_onlineaccs = [a \in Accounts |-> None]
    /\ m_wait_map = {}
    /\ m_recon_map = [t \in Trans |-> None]
    /\ reconTimers = [t \in Trans |-> 0]
    /\ m_activeGames = {}
    /\ gsUsers = [g \in Games |-> {}]
    /\ gsGate = [g \in Games |-> "none"]
    /\ leftBehind = [g \in Games |-> {}]
    /\ breaks = 0
    /\ issued = {}
    /\ lastTrans = [a \in Accounts |-> None]
    /\ fromLogin = <<>>

Environment ==
    \/ \E t \in Trans : LoginServerLogsIn(t)
    \/ LoginLinkLost
    \/ \E s \in Sessions : Accept(s) \/ SocketCloses(s)
    \/ \E s \in Sessions, t \in Trans : parseLoginGame(s, t)
    \/ \E g \in Games :
         \/ parseGateRegister(g) \/ parseGameRegister(g)
         \/ GameLinkBreaks(g) \/ removeGate(g) \/ GameLinkLost(g)
    \/ \E g, h \in Games, t \in Trans : parseChangeGS(g, t, h)

MainLoop ==
    \/ parseLoginUser \/ parseLoginKick
    \/ \E s \in Sessions : on_accept(s) \/ setClose(s) \/ on_close(s)
    \/ \E t \in Trans : eventCallRemoveWait(t) \/ eventCallRemoveReconn(t)

Next == Environment \/ MainLoop

Spec == Init /\ [][Next]_vars

(* The main loop runs for ever: it polls every queue and updates the event *)
(* holder in every round, and the io thread executes what close() posted.  *)
(* Clients, game servers and the login server owe nothing.                 *)
Fairness ==
    /\ WF_vars(parseLoginUser) /\ WF_vars(parseLoginKick)
    /\ \A s \in Sessions :
         /\ WF_vars(on_accept(s)) /\ WF_vars(setClose(s)) /\ WF_vars(on_close(s))
         /\ WF_vars(closeReq[s] /\ SocketCloses(s))
    /\ \A t \in Trans :
         WF_vars(eventCallRemoveWait(t)) /\ WF_vars(eventCallRemoveReconn(t))

FairSpec == Spec /\ Fairness

-----------------------------------------------------------------------------
(* Properties.                                                             *)

(* Every variable holds a value of its C++ type; at most two close timers  *)
(* run for one session, the one of setState(_wait_close_) and the one of an *)
(* on_accept that is polled late.                                          *)
TypeOK ==
    /\ conn \in [Sessions -> {"free", "open", "closed"}]
    /\ accepting \in [Sessions -> BOOLEAN]
    /\ closeReq \in [Sessions -> BOOLEAN]
    /\ state \in [Sessions -> States]
    /\ tran \in [Sessions -> Trans \cup {None}]
    /\ gsid \in [Sessions -> Games \cup {None}]
    /\ timer \in [Sessions -> 0 .. 2]
    /\ logins \in [Sessions -> 0 .. MaxLogins]
    /\ m_onlines \in [Trans -> Sessions \cup {None}]
    /\ m_onlineaccs \in [Accounts -> Trans \cup {None}]
    /\ m_wait_map \subseteq Trans
    /\ m_recon_map \in [Trans -> Games \cup {None}]
    /\ reconTimers \in [Trans -> 0 .. MaxTimers]
    /\ m_activeGames \subseteq Games
    /\ gsUsers \in [Games -> SUBSET Trans]
    /\ gsGate \in [Games -> {"none", "current", "old"}]
    /\ leftBehind \in [Games -> SUBSET Trans]
    /\ breaks \in 0 .. MaxBreaks
    /\ issued \subseteq Trans
    /\ lastTrans \in [Accounts -> Trans \cup {None}]
    /\ fromLogin \in Seq(Message)

(* A ticket lets in one client: it is in flight, or waits in m_wait_map, or *)
(* is held by exactly one session, or waits in m_recon_map, and never two   *)
(* of these, whatever kicks, link losses and late timers happen (checkConn, *)
(* checkClose).                                                             *)
Holders(t) == {s \in Sessions : tran[s] = t}

TicketInOnePlace ==
    \A t \in Trans :
      /\ \A s1, s2 \in Holders(t) : s1 = s2
      /\ t \in m_wait_map => Holders(t) = {} /\ m_recon_map[t] = None
      /\ m_recon_map[t] # None => Holders(t) = {}

(* The inductive invariant behind it: a ticket not issued yet is nowhere,   *)
(* and one in flight is in flight once and nowhere else.                    *)
TicketTypes ==
    /\ tran \in [Sessions -> Trans \cup {None}]
    /\ gsid \in [Sessions -> Games \cup {None}]
    /\ m_activeGames \subseteq Games
    /\ m_wait_map \subseteq Trans
    /\ m_recon_map \in [Trans -> Games \cup {None}]
    /\ issued \subseteq Trans
    /\ lastTrans \in [Accounts -> Trans \cup {None}]
    /\ fromLogin \in Seq(Message)

Nowhere(t) == t \notin m_wait_map /\ Holders(t) = {} /\ m_recon_map[t] = None

LoginFor(t) == {i \in 1 .. Len(fromLogin) : fromLogin[i] = [type |-> "login", t |-> t]}

Unissued == \A t \in Trans \ issued : Nowhere(t) /\ LoginFor(t) = {}

InFlightAlone ==
    \A t \in Trans : LoginFor(t) # {} =>
        Nowhere(t) /\ \A i, j \in LoginFor(t) : i = j

TicketInv == TicketTypes /\ Unissued /\ InFlightAlone /\ TicketInOnePlace

(* What a ticket has gone through, as TicketLife tells it.  A ticket that is *)
(* nowhere any more, because it was kicked, refused, not used in time, lost  *)
(* with a link or given up for another one, is gone.                         *)
Held(t) == \E s \in Sessions : tran[s] = t

place == [t \in Trans |->
    IF t \notin issued THEN "new"
    ELSE IF t \in m_wait_map THEN "waiting"
    ELSE IF m_recon_map[t] # None THEN "window"
    ELSE IF Held(t) THEN "held"
    ELSE IF LoginFor(t) # {} THEN "coming" ELSE "gone"]

holder == [t \in Trans |->
    IF Held(t) THEN CHOOSE s \in Sessions : tran[s] = t ELSE None]

server == [t \in Trans |->
    IF Held(t) THEN gsid[holder[t]] ELSE m_recon_map[t]]

TL == INSTANCE TicketLife WITH Tickets <- Trans

(* A ticket lives as TicketLife says: it lets one session in at a time, is  *)
(* good for another one only after checkClose has opened the reconnect      *)
(* window, brings the user back to the game server he was on (m_recon_map), *)
(* and once it is gone no late message, timer or close makes it good again. *)
(* kickUser does not end a ticket that is online: its session keeps it, and *)
(* the on_close that follows opens the reconnect window all the same.       *)
ImplementsTicketLife == TL!Spec

(* A message a game server sends to ticket t (GateGameClient::parseGameMsg) *)
(* reaches the session that logged in with t and no other: m_onlines has no *)
(* entry for a session that is back in the pool or serves another ticket.   *)
RoutedToOwner ==
    \A t \in Trans : m_onlines[t] # None =>
        tran[m_onlines[t]] = t /\ conn[m_onlines[t]] # "free"

(* A player that lives on a game server can still be removed: its ticket is *)
(* held by a session bound to that server, or waits for a reconnect to it,  *)
(* so some checkClose, kickUser or timer of the gate ends it; or the link   *)
(* broke, and the server's removeGate ends it.  The exception are players   *)
(* the server still had when the gate registered again: its addGate came    *)
(* before the on_close of the session before, which then removes nobody.    *)
NoOrphanPlayer ==
    \A g \in Games : \A t \in gsUsers[g] :
        \/ m_recon_map[t] = g
        \/ \E s \in Holders(t) : gsid[s] = g
        \/ gsGate[g] = "old"
        \/ t \in leftBehind[g]

(* An account in m_onlineaccs, what the gate reports as online, belongs to  *)
(* a session or a reconnect timer still runs that will take it out.         *)
OnlineAccountOwned ==
    \A a \in Accounts : m_onlineaccs[a] # None =>
        Holders(m_onlineaccs[a]) # {} \/ reconTimers[m_onlineaccs[a]] > 0

(* The inductive invariant behind these three.  A session that has a ticket *)
(* serves a connection; a game server without a gate has no players, and    *)
(* before the gate knows it has registered only those left behind; an       *)
(* account is online with a ticket of its own.                              *)
UserTypes ==
    /\ conn \in [Sessions -> {"free", "open", "closed"}]
    /\ m_onlines \in [Trans -> Sessions \cup {None}]
    /\ m_onlineaccs \in [Accounts -> Trans \cup {None}]
    /\ reconTimers \in [Trans -> Nat]
    /\ gsUsers \in [Games -> SUBSET Trans]
    /\ gsGate \in [Games -> {"none", "current", "old"}]
    /\ leftBehind \in [Games -> SUBSET Trans]

HolderConnected == \A s \in Sessions : tran[s] # None => conn[s] # "free"

PlayersOnLink ==
    \A g \in Games :
        /\ gsGate[g] = "none" => gsUsers[g] = {}
        /\ gsGate[g] = "current" /\ g \notin m_activeGames =>
               gsUsers[g] \subseteq leftBehind[g]

FiledUnderOwn ==
    \A a \in Accounts : m_onlineaccs[a] # None => AccountOf[m_onlineaccs[a]] = a

UserInv ==
    /\ TicketInv
    /\ UserTypes /\ HolderConnected /\ PlayersOnLink /\ FiledUnderOwn
    /\ RoutedToOwner /\ NoOrphanPlayer /\ OnlineAccountOwned

(* What it needs from the clients: a session that has a ticket does not     *)
(* exchange it for another one.  parseLoginGame only refuses a login in     *)
(* state "connect", so a client that sends two logins can do it; one that   *)
(* sends one login per connection can not.                                  *)
KeepsTicket == \A s \in Sessions : tran[s] # None => tran'[s] \in {tran[s], None}

(* A connection that does not log in, or is refused, is closed and its      *)
(* session returned to the pool (setState's 20 s and 1 s timers).           *)
SessionSettles ==
    \A s \in Sessions :
        state[s] \in {"wait_account", "wait_close"} ~> state[s] \in {"connect", "disable"}

(* A user who does not come back is forgotten after the reconnect window,   *)
(* on the gate and on its game server (eventCallRemoveReconn).              *)
ReconnectWindowEnds ==
    \A t \in Trans : m_recon_map[t] # None ~> m_recon_map[t] = None

(* What the game server's removeGate is there for: no player stays on a     *)
(* server that the gate has no ticket for.  It fails for the players left   *)
(* behind by a gate that registers again first.                             *)
NobodyLeftBehind ==
    \A g \in Games : \A t \in gsUsers[g] :
        t \in leftBehind[g] => m_recon_map[t] = g \/ \E s \in Holders(t) : gsid[s] = g

(* The list of accounts the gate sends when it registers at the login       *)
(* server, its "online info" (makeRegisterData), has every user online.     *)
OnlineInfoComplete ==
    \A t \in Trans : m_onlines[t] # None => m_onlineaccs[AccountOf[t]] = t
=============================================================================
