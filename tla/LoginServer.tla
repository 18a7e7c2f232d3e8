---------------------------- MODULE LoginServer ----------------------------
(***************************************************************************)
(* The login server: AccountManager, GateManager, UserLoginSession and     *)
(* GateSession (login/), with the gates as it sees them.                   *)
(*                                                                         *)
(* A client connects, sends its name, and the database checks the account  *)
(* while everything else goes on.  The answer makes a new ticket, kicks    *)
(* the account's previous one from its gate and gives the new one to an    *)
(* idle gate.  When that gate is prepared, the client is told its address. *)
(* Gates come and go: a gate that reconnects registers again with the      *)
(* accounts it has online, which is how a restarted login server learns    *)
(* who is online.                                                          *)
(*                                                                         *)
(* The main thread handles callbacks and messages; sockets close at any    *)
(* time; session objects are pooled.  Timers are left out: setClose, what  *)
(* they all call, does nothing.  Of a gate's UserManager are kept the      *)
(* tickets it lets in, which of them a client has used, and m_onlineaccs   *)
(* (see GateUsers for the rest).                                           *)
(***************************************************************************)
EXTENDS Naturals, Sequences

CONSTANTS
    Sessions,     \* the UserLoginSession objects of the pool
    GateSessions, \* the GateSession objects of the pool
    Accounts,
    Gates,        \* gate ids, one per gate process
    None,
    MaxTickets,   \* bound: logins that make a ticket
    MaxChecks,    \* bound: account checks the database has at one time
    MaxConns,     \* bound: connections one UserLoginSession serves
    MaxLosses     \* bound: lost gate links and restarts of the login server

Tickets == 1 .. MaxTickets
Checks  == 1 .. MaxChecks

ASSUME LoginAssumption ==
    /\ MaxTickets \in Nat /\ MaxChecks \in Nat /\ MaxConns \in Nat /\ MaxLosses \in Nat
    /\ None \notin Sessions \cup GateSessions \cup Accounts \cup Gates \cup Tickets
    /\ None \notin [gate : Gates, tran : Tickets]

VARIABLES
    (* UserLoginSession *)
    conn,       \* "pool", "armed" (waits for a client), "open" or "closed"
    accepting,  \* on_accept is queued
    state,      \* m_state
    serial,     \* how often the object was released to the pool
    (* AccountManager *)
    checks,     \* account checks in the database
    m_Accts,
    tickets,    \* tickets made so far
    accountOf,  \* the account a ticket was made for
    (* GateManager and GateSession *)
    m_Gates, m_WaitSessions,
    gconn,      \* "pool", "open" or "closed"
    gateId,     \* m_GateInfo.gate_id, which a pooled object keeps
    toLogin,    \* messages received on a gate session
    (* The gates *)
    link,       \* the gate session a gate is connected to
    toGate,     \* messages on their way to a gate
    users,      \* tickets a gate lets in: waiting, online, closing or in
                \* their reconnect window
    connected,  \* those of users that a client has connected with
    onlineaccs, \* m_onlineaccs
    kicked,     \* history: tickets that were online when their kick came
    (* The world *)
    aborted,    \* an assertion has failed
    losses,
    disturbed   \* accounts whose messages or gate a link loss has cut off

userVars == <<conn, accepting, state, serial>>
acctVars == <<checks, m_Accts, tickets, accountOf>>
gateVars == <<gconn, gateId, link>>
gtVars   == <<users, connected, onlineaccs, kicked>>
lossVars == <<aborted, losses, disturbed>>
vars == <<userVars, acctVars, m_Gates, m_WaitSessions, gateVars, toLogin, toGate,
          gtVars, lossVars>>

States == {"disable", "wait_data", "checking_data", "wait_gate", "wait_close"}

Message ==
    [type : {"login", "kick", "prepar"}, t : Tickets]
        \cup [type : {"register"}, serverid : Gates,
                 accounts : SUBSET (Accounts \X Tickets)]

Run == ~aborted

-----------------------------------------------------------------------------
(* The session pool (tcp_server).  An object that waits for a client is    *)
(* valid already, and not connected.                                       *)

is_valid(s) == conn[s] # "pool"

ArmAccept(s) ==
    /\ Run /\ conn[s] = "pool"
    /\ serial[s] < MaxConns
    /\ conn' = [conn EXCEPT ![s] = "armed"]
    /\ UNCHANGED <<accepting, state, serial, acctVars, m_Gates, m_WaitSessions,
                   gateVars, toLogin, toGate, gtVars, lossVars>>

Accept(s) ==
    /\ Run /\ conn[s] = "armed"
    /\ conn' = [conn EXCEPT ![s] = "open"]
    /\ accepting' = [accepting EXCEPT ![s] = TRUE]
    /\ UNCHANGED <<state, serial, acctVars, m_Gates, m_WaitSessions, gateVars,
                   toLogin, toGate, gtVars, lossVars>>

on_accept(s) ==
    /\ Run /\ accepting[s]
    /\ accepting' = [accepting EXCEPT ![s] = FALSE]
    /\ state' = [state EXCEPT ![s] = "wait_data"]
    /\ UNCHANGED <<conn, serial, acctVars, m_Gates, m_WaitSessions, gateVars,
                   toLogin, toGate, gtVars, lossVars>>

ClientCloses(s) ==
    /\ Run /\ conn[s] = "open"
    /\ conn' = [conn EXCEPT ![s] = "closed"]
    /\ UNCHANGED <<accepting, state, serial, acctVars, m_Gates, m_WaitSessions,
                   gateVars, toLogin, toGate, gtVars, lossVars>>

(* on_close: setState(_disable_) and free_session.  m_WaitSessions and a   *)
(* running check keep their pointers to the object.                        *)
on_close(s) ==
    /\ Run /\ conn[s] = "closed" /\ ~accepting[s]
    /\ conn' = [conn EXCEPT ![s] = "pool"]
    /\ state' = [state EXCEPT ![s] = "disable"]
    /\ serial' = [serial EXCEPT ![s] = @ + 1]
    /\ UNCHANGED <<accepting, acctVars, m_Gates, m_WaitSessions, gateVars,
                   toLogin, toGate, gtVars, lossVars>>

-----------------------------------------------------------------------------
(* AccountManager.                                                         *)

FreeChecks == Checks \ {c.n : c \in checks}

NewCheck(s, a, kind) ==
    [n |-> CHOOSE n \in FreeChecks : TRUE, s |-> s, serial |-> serial[s],
     a |-> a, kind |-> kind]

(* parseLoginGame ("login") and parseRegister ("new"): checkAccount.       *)
checkAccount(s, a, kind) ==
    /\ Run /\ conn[s] = "open"
    /\ FreeChecks # {}
    /\ state' = [state EXCEPT ![s] = "checking_data"]
    /\ checks' = checks \cup {NewCheck(s, a, kind)}
    /\ UNCHANGED <<conn, accepting, serial, m_Accts, tickets, accountOf, m_Gates,
                   m_WaitSessions, gateVars, toLogin, toGate, gtVars, lossVars>>

(* Both callbacks look at the session only if it is valid.                 *)
callback(c) == Run /\ c \in checks

(* The session is gone, or its object is back in the pool.                 *)
checkInvalid(c) ==
    /\ callback(c) /\ ~is_valid(c.s)
    /\ checks' = checks \ {c}
    /\ UNCHANGED <<userVars, m_Accts, tickets, accountOf, m_Gates, m_WaitSessions,
                   gateVars, toLogin, toGate, gtVars, lossVars>>

(* The database failed, or the name, the password or the new name is not   *)
(* good.                                                                   *)
checkRefused(c) ==
    /\ callback(c) /\ is_valid(c.s)
    /\ checks' = checks \ {c}
    /\ state' = [state EXCEPT ![c.s] = "wait_close"]
    /\ UNCHANGED <<conn, accepting, serial, m_Accts, tickets, accountOf, m_Gates,
                   m_WaitSessions, gateVars, toLogin, toGate, gtVars, lossVars>>

(* Faulty variant: the second check is forgotten.                          *)
CreateNewAccount_NoCheck(c) ==
    /\ callback(c) /\ is_valid(c.s) /\ c.kind = "new"
    /\ checks' = checks \ {c}
    /\ UNCHANGED <<userVars, m_Accts, tickets, accountOf, m_Gates, m_WaitSessions,
                   gateVars, toLogin, toGate, gtVars, lossVars>>

(* CreateNewAccount: the new account logs in.                              *)
CreateNewAccount(c) ==
    /\ callback(c) /\ is_valid(c.s) /\ c.kind = "new"
    /\ checks' = (checks \ {c}) \cup {[c EXCEPT !.kind = "login", !.serial = serial[c.s]]}
    /\ UNCHANGED <<userVars, m_Accts, tickets, accountOf, m_Gates, m_WaitSessions,
                   gateVars, toLogin, toGate, gtVars, lossVars>>

(* sendPBMessage on the gate session: lost when its socket is closed.      *)
SendToGate(q, gs, m) ==
    [g \in Gates |-> IF link[g] = gs THEN Append(q[g], m) ELSE q[g]]

(* Faulty variant: the ticket is replaced before the old one is kicked.    *)
kickUserFromGate_Late(q, a) == q

kickUserFromGate(q, a) ==
    IF m_Accts[a] = None \/ m_Gates[m_Accts[a].gate] = None THEN q
    ELSE SendToGate(q, m_Gates[m_Accts[a].gate],
                    [type |-> "kick", t |-> m_Accts[a].tran])

(* Any registered gate: their loads are what they have reported last.      *)
getIdleGate == {g \in Gates : m_Gates[g] # None}

(* checkAccountCall of an account that exists, with a gate: giveUserToGate.*)
giveUserToGate(c) ==
    /\ callback(c) /\ is_valid(c.s) /\ c.kind = "login"
    /\ tickets < MaxTickets
    /\ LET t == tickets + 1 IN
       \E g \in getIdleGate :
         /\ tickets' = t
         /\ accountOf' = [accountOf EXCEPT ![t] = c.a]
         /\ m_Accts' = [m_Accts EXCEPT ![c.a] = [gate |-> gateId[m_Gates[g]], tran |-> t]]
         /\ m_WaitSessions' = [m_WaitSessions EXCEPT ![t] = c.s]
         /\ toGate' = SendToGate(kickUserFromGate(toGate, c.a), m_Gates[g],
                                 [type |-> "login", t |-> t])
    /\ checks' = checks \ {c}
    /\ state' = [state EXCEPT ![c.s] = "wait_gate"]
    /\ UNCHANGED <<conn, accepting, serial, m_Gates, gateVars, toLogin, gtVars, lossVars>>

(* ... without a gate: removeAccount.                                      *)
noGate(c) ==
    /\ callback(c) /\ is_valid(c.s) /\ c.kind = "login"
    /\ getIdleGate = {}
    /\ m_Accts' = [m_Accts EXCEPT ![c.a] = None]
    /\ checks' = checks \ {c}
    /\ state' = [state EXCEPT ![c.s] = "wait_close"]
    /\ UNCHANGED <<conn, accepting, serial, tickets, accountOf, m_Gates,
                   m_WaitSessions, gateVars, toLogin, toGate, gtVars, lossVars>>

-----------------------------------------------------------------------------
(* GateManager and GateSession.                                            *)

HeadOf(q, type) == q # <<>> /\ Head(q).type = type

(* Faulty variant: the session is answered and left in _wait_gate_.        *)
receiveUserPrepar_NoState(gs) ==
    /\ Run /\ HeadOf(toLogin[gs], "prepar")
    /\ toLogin' = [toLogin EXCEPT ![gs] = Tail(@)]
    /\ m_WaitSessions' = [m_WaitSessions EXCEPT ![Head(toLogin[gs]).t] = None]
    /\ UNCHANGED <<userVars, acctVars, m_Gates, gateVars, toGate, gtVars, lossVars>>

(* The answer goes to the object that is on file for the ticket, whoever   *)
(* it serves by now.                                                       *)
receiveUserPrepar(gs) ==
    /\ Run /\ HeadOf(toLogin[gs], "prepar")
    /\ toLogin' = [toLogin EXCEPT ![gs] = Tail(@)]
    /\ LET t == Head(toLogin[gs]).t
           s == m_WaitSessions[t] IN
         /\ m_WaitSessions' = [m_WaitSessions EXCEPT ![t] = None]
         /\ state' = IF s = None THEN state ELSE [state EXCEPT ![s] = "wait_close"]
    /\ UNCHANGED <<conn, accepting, serial, acctVars, m_Gates, gateVars, toGate,
                   gtVars, lossVars>>

(* assert( p->nGateId == m_GateInfo.gate_id )                              *)
assertion(g, accounts) ==
    \A x \in accounts : m_Accts[x[1]] # None => m_Accts[x[1]].gate = g

(* Faulty variant: the gate is not stored.                                 *)
addAccounts_NoGate(g, accounts) ==
    [a \in Accounts |->
        IF \E t \in Tickets : <<a, t>> \in accounts
          THEN [gate |-> None, tran |-> CHOOSE t \in Tickets : <<a, t>> \in accounts]
          ELSE m_Accts[a]]

(* addAccount of everything in a register message.                         *)
addAccounts(g, accounts) ==
    [a \in Accounts |->
        IF \E t \in Tickets : <<a, t>> \in accounts
          THEN [gate |-> g, tran |-> CHOOSE t \in Tickets : <<a, t>> \in accounts]
          ELSE m_Accts[a]]

(* A registration of the gate on a session it has lost.                    *)
StaleRegister(g) ==
    \E k \in GateSessions :
        k # link[g] /\ HeadOf(toLogin[k], "register") /\ Head(toLogin[k]).serverid = g

(* addGate comes first.  A gate whose version is too old is closed, which  *)
(* is one more reason for gateLinkLost, and registered all the same.  The  *)
(* sessions share one queue of received messages, so what a gate sent on a *)
(* connection it has lost is handled before what it sent on the next.      *)
parseGateRegister(gs) ==
    /\ Run /\ HeadOf(toLogin[gs], "register")
    /\ gs = link[Head(toLogin[gs]).serverid] => ~StaleRegister(Head(toLogin[gs]).serverid)
    /\ LET g == Head(toLogin[gs]).serverid
           accounts == Head(toLogin[gs]).accounts IN
         /\ gateId' = [gateId EXCEPT ![gs] = g]
         /\ m_Gates' = [m_Gates EXCEPT ![g] = gs]
         /\ aborted' = ~assertion(g, accounts)
         /\ m_Accts' = IF assertion(g, accounts) THEN addAccounts(g, accounts)
                                                 ELSE m_Accts
    /\ toLogin' = [toLogin EXCEPT ![gs] = Tail(@)]
    /\ UNCHANGED <<userVars, checks, tickets, accountOf, m_WaitSessions, gconn, link,
                   toGate, gtVars, losses, disturbed>>

(* Faulty variant: nothing is removed.                                     *)
removeGate_Never(gs) == m_Gates

(* Faulty variant: whatever is registered for the gate is removed.         *)
removeGate_Any(gs) ==
    IF gateId[gs] = None THEN m_Gates ELSE [m_Gates EXCEPT ![gateId[gs]] = None]

removeGate(gs) ==
    IF gateId[gs] # None /\ m_Gates[gateId[gs]] = gs
      THEN [m_Gates EXCEPT ![gateId[gs]] = None] ELSE m_Gates

(* handle_close: the io thread sees that the gate is gone.  Messages that  *)
(* were received and not handled are not handled any more.                 *)
gateSessionCloses(gs) ==
    /\ Run /\ gconn[gs] = "open" /\ \A g \in Gates : link[g] # gs
    /\ gconn' = [gconn EXCEPT ![gs] = "closed"]
    /\ toLogin' = [toLogin EXCEPT ![gs] = <<>>]
    /\ UNCHANGED <<userVars, acctVars, m_Gates, m_WaitSessions, gateId, link, toGate,
                   gtVars, lossVars>>

gateOnClose(gs) ==
    /\ Run /\ gconn[gs] = "closed"
    /\ gconn' = [gconn EXCEPT ![gs] = "pool"]
    /\ m_Gates' = removeGate(gs)
    /\ UNCHANGED <<userVars, acctVars, m_WaitSessions, gateId, link, toLogin, toGate,
                   gtVars, lossVars>>

-----------------------------------------------------------------------------
(* The gates.                                                              *)

Online(g) ==
    {x \in Accounts \X Tickets : onlineaccs[g][x[1]] = x[2]}

(* on_connect: the gate registers, with makeRegisterData.                  *)
gateConnects(g, gs) ==
    /\ Run /\ link[g] = None /\ gconn[gs] = "pool"
    /\ link' = [link EXCEPT ![g] = gs]
    /\ gconn' = [gconn EXCEPT ![gs] = "open"]
    /\ toLogin' = [toLogin EXCEPT ![gs] =
            <<[type |-> "register", serverid |-> g, accounts |-> Online(g)]>>]
    /\ UNCHANGED <<userVars, acctVars, m_Gates, m_WaitSessions, gateId, toGate,
                   gtVars, lossVars>>

(* addToWait.                                                              *)
addToWait(g) ==
    /\ Run /\ HeadOf(toGate[g], "login")
    /\ LET t == Head(toGate[g]).t IN
         /\ users' = [users EXCEPT ![g] = @ \cup {t}]
         /\ toLogin' = [toLogin EXCEPT ![link[g]] = Append(@, [type |-> "prepar", t |-> t])]
    /\ toGate' = [toGate EXCEPT ![g] = Tail(@)]
    /\ UNCHANGED <<userVars, acctVars, m_Gates, m_WaitSessions, gateVars, connected,
                   onlineaccs, kicked, lossVars>>

(* kickUser of a ticket that is online: the session is told to close.  Its *)
(* on_close opens a reconnect window, in which the ticket is still good.   *)
kickOnline(g, t) ==
    /\ t \in connected[g]
    /\ kicked' = kicked \cup {t}
    /\ onlineaccs' = [onlineaccs EXCEPT ![g][accountOf[t]] = None]
    /\ UNCHANGED <<users, connected>>

(* ... that waits for its first connection.                                *)
kickWaiting(g, t) ==
    /\ t \in users[g] \ connected[g]
    /\ users' = [users EXCEPT ![g] = @ \ {t}]
    /\ onlineaccs' = [onlineaccs EXCEPT ![g][accountOf[t]] = None]
    /\ UNCHANGED <<connected, kicked>>

(* ... that is in its reconnect window: the account stays in m_onlineaccs. *)
kickReconn(g, t) ==
    /\ t \in connected[g]
    /\ users' = [users EXCEPT ![g] = @ \ {t}]
    /\ connected' = [connected EXCEPT ![g] = @ \ {t}]
    /\ UNCHANGED <<onlineaccs, kicked>>

(* ... that is in none of the gate's maps: it has left, or its session was *)
(* kicked before and has not closed yet.                                   *)
kickNobody(g, t) ==
    /\ t \notin users[g] \/ t \in kicked
    /\ UNCHANGED gtVars

kickUser(g) ==
    /\ Run /\ HeadOf(toGate[g], "kick")
    /\ LET t == Head(toGate[g]).t IN
         kickOnline(g, t) \/ kickWaiting(g, t) \/ kickReconn(g, t) \/ kickNobody(g, t)
    /\ toGate' = [toGate EXCEPT ![g] = Tail(@)]
    /\ UNCHANGED <<userVars, acctVars, m_Gates, m_WaitSessions, gateVars, toLogin,
                   lossVars>>

(* checkConn of a waiting ticket.  addData keeps an entry of the account.  *)
userConnects(g, t) ==
    /\ t \in users[g] \ connected[g]
    /\ connected' = [connected EXCEPT ![g] = @ \cup {t}]
    /\ onlineaccs' = IF onlineaccs[g][accountOf[t]] = None
                       THEN [onlineaccs EXCEPT ![g][accountOf[t]] = t]
                       ELSE onlineaccs
    /\ UNCHANGED <<userVars, acctVars, m_Gates, m_WaitSessions, gateVars, toLogin,
                   toGate, users, kicked, lossVars>>

(* The ticket's time to connect or to reconnect is over, or its session    *)
(* closed for good.                                                        *)
userLeaves(g, t) ==
    /\ t \in users[g]
    /\ users' = [users EXCEPT ![g] = @ \ {t}]
    /\ connected' = [connected EXCEPT ![g] = @ \ {t}]
    /\ onlineaccs' = IF onlineaccs[g][accountOf[t]] = t
                       THEN [onlineaccs EXCEPT ![g][accountOf[t]] = None]
                       ELSE onlineaccs
    /\ UNCHANGED <<userVars, acctVars, m_Gates, m_WaitSessions, gateVars, toLogin,
                   toGate, kicked, lossVars>>

(* A reconnect timer, possibly of an earlier time, removes the account.    *)
reconnTimer(g, a) ==
    /\ onlineaccs[g][a] # None
    /\ onlineaccs' = [onlineaccs EXCEPT ![g][a] = None]
    /\ UNCHANGED <<userVars, acctVars, m_Gates, m_WaitSessions, gateVars, toLogin,
                   toGate, users, connected, kicked, lossVars>>

-----------------------------------------------------------------------------
(* What can fail.                                                          *)

InFlight(g, type) ==
    {toGate[g][i].t : i \in {j \in 1 .. Len(toGate[g]) : toGate[g][j].type = type}}

(* The accounts that have a ticket at a gate or on its way there.          *)
Affected(g) == {accountOf[t] : t \in users[g] \cup InFlight(g, "login")}

(* The gate has lost its connection, with what was on its way to it.  The  *)
(* login server has received the first n of the gate's messages.  It       *)
(* handles them, and keeps the session, until gateSessionCloses.           *)
gateLinkLost(g) ==
    /\ Run /\ link[g] # None /\ losses < MaxLosses
    /\ losses' = losses + 1
    /\ disturbed' = disturbed \cup Affected(g)
    /\ \E n \in 0 .. Len(toLogin[link[g]]) :
          toLogin' = [toLogin EXCEPT ![link[g]] = SubSeq(@, 1, n)]
    /\ toGate' = [toGate EXCEPT ![g] = <<>>]
    /\ link' = [link EXCEPT ![g] = None]
    /\ UNCHANGED <<userVars, acctVars, m_Gates, m_WaitSessions, gconn, gateId, gtVars,
                   aborted>>

(* The login server dies, by an assertion or otherwise, and is started     *)
(* again.  It keeps nothing.                                               *)
restart ==
    /\ losses < MaxLosses
    /\ losses' = losses + 1
    /\ disturbed' = disturbed \cup UNION {Affected(g) : g \in Gates}
    /\ aborted' = FALSE
    /\ conn' = [s \in Sessions |-> "pool"]
    /\ accepting' = [s \in Sessions |-> FALSE]
    /\ state' = [s \in Sessions |-> "disable"]
    /\ checks' = {}
    /\ m_Accts' = [a \in Accounts |-> None]
    /\ m_Gates' = [g \in Gates |-> None]
    /\ m_WaitSessions' = [t \in Tickets |-> None]
    /\ gconn' = [gs \in GateSessions |-> "pool"]
    /\ gateId' = [gs \in GateSessions |-> None]
    /\ toLogin' = [gs \in GateSessions |-> <<>>]
    /\ link' = [g \in Gates |-> None]
    /\ toGate' = [g \in Gates |-> <<>>]
    /\ UNCHANGED <<serial, tickets, accountOf, gtVars>>

-----------------------------------------------------------------------------
Init ==
    /\ conn = [s \in Sessions |-> "pool"]
    /\ accepting = [s \in Sessions |-> FALSE]
    /\ state = [s \in Sessions |-> "disable"]
    /\ serial = [s \in Sessions |-> 0]
    /\ checks = {}
    /\ m_Accts = [a \in Accounts |-> None]
    /\ tickets = 0
    /\ accountOf = [t \in Tickets |-> None]
    /\ m_Gates = [g \in Gates |-> None]
    /\ m_WaitSessions = [t \in Tickets |-> None]
    /\ gconn = [gs \in GateSessions |-> "pool"]
    /\ gateId = [gs \in GateSessions |-> None]
    /\ toLogin = [gs \in GateSessions |-> <<>>]
    /\ link = [g \in Gates |-> None]
    /\ toGate = [g \in Gates |-> <<>>]
    /\ users = [g \in Gates |-> {}]
    /\ connected = [g \in Gates |-> {}] /\ kicked = {}
    /\ onlineaccs = [g \in Gates |-> [a \in Accounts |-> None]]
    /\ aborted = FALSE /\ losses = 0 /\ disturbed = {}

Clients ==
    \/ \E s \in Sessions : Accept(s) \/ ClientCloses(s)
    \/ \E s \in Sessions, a \in Accounts, kind \in {"login", "new"} :
          checkAccount(s, a, kind)

checkAccountCall(c) ==
    checkInvalid(c) \/ checkRefused(c) \/ CreateNewAccount(c)
        \/ giveUserToGate(c) \/ noGate(c)

MainLoop ==
    \/ \E s \in Sessions : ArmAccept(s) \/ on_accept(s) \/ on_close(s)
    \/ \E c \in checks : checkAccountCall(c)
    \/ \E gs \in GateSessions :
          \/ receiveUserPrepar(gs) \/ parseGateRegister(gs)
          \/ gateSessionCloses(gs) \/ gateOnClose(gs)

GateSteps(g) ==
    \/ \E gs \in GateSessions : gateConnects(g, gs)
    \/ addToWait(g) \/ kickUser(g)
    \/ \E t \in Tickets : userConnects(g, t) \/ userLeaves(g, t)
    \/ \E a \in Accounts : reconnTimer(g, a)

Next ==
    \/ Clients \/ MainLoop
    \/ \E g \in Gates : GateSteps(g) \/ gateLinkLost(g)
    \/ restart

Spec == Init /\ [][Next]_vars

(* The main loops of the login server and of the gates handle what they    *)
(* have received, and the database answers every check.                    *)
Fairness ==
    /\ \A s \in Sessions : WF_vars(on_accept(s)) /\ WF_vars(on_close(s))
    /\ \A n \in Checks : WF_vars(\E c \in checks : c.n = n /\ checkAccountCall(c))
    /\ \A gs \in GateSessions :
          WF_vars(receiveUserPrepar(gs)) /\ WF_vars(parseGateRegister(gs))
    /\ \A g \in Gates : WF_vars(addToWait(g)) /\ WF_vars(kickUser(g))

FairSpec == Spec /\ Fairness

-----------------------------------------------------------------------------
(* Properties.                                                             *)

(* Every variable holds a value of its C++ type.                           *)
TypeOK ==
    /\ conn \in [Sessions -> {"pool", "armed", "open", "closed"}]
    /\ accepting \in [Sessions -> BOOLEAN]
    /\ state \in [Sessions -> States]
    /\ serial \in [Sessions -> 0 .. MaxConns]
    /\ checks \subseteq [n : Checks, s : Sessions, serial : 0 .. MaxConns,
                         a : Accounts, kind : {"login", "new"}]
    /\ m_Accts \in [Accounts -> [gate : Gates, tran : Tickets] \cup {None}]
    /\ tickets \in 0 .. MaxTickets
    /\ accountOf \in [Tickets -> Accounts \cup {None}]
    /\ m_Gates \in [Gates -> GateSessions \cup {None}]
    /\ m_WaitSessions \in [Tickets -> Sessions \cup {None}]
    /\ gconn \in [GateSessions -> {"pool", "open", "closed"}]
    /\ gateId \in [GateSessions -> Gates \cup {None}]
    /\ toLogin \in [GateSessions -> Seq(Message)]
    /\ link \in [Gates -> GateSessions \cup {None}]
    /\ toGate \in [Gates -> Seq(Message)]
    /\ users \in [Gates -> SUBSET Tickets]
    /\ connected \in [Gates -> SUBSET Tickets]
    /\ kicked \subseteq Tickets
    /\ onlineaccs \in [Gates -> [Accounts -> Tickets \cup {None}]]
    /\ aborted \in BOOLEAN /\ losses \in 0 .. MaxLosses
    /\ disturbed \subseteq Accounts

(* m_Gates never points to a gate session that is back in the pool or that *)
(* another gate has registered on, although a gate may reconnect before    *)
(* the on_close of its old session is handled (addGate, removeGate).       *)
GatePointers ==
    \A g \in Gates : m_Gates[g] # None =>
        gconn[m_Gates[g]] # "pool" /\ gateId[m_Gates[g]] = g

(* A connected gate that has registered stays reachable: the late on_close *)
(* of its previous session does not remove the new one (removeGate).       *)
RegisteredReachable ==
    \A g \in Gates : link[g] # None /\ ~HeadOf(toLogin[link[g]], "register") =>
        m_Gates[g] = link[g]

(* The tickets a gate lets in, or is about to.                             *)
Guests(g) == users[g] \cup InFlight(g, "login")

(* An account is let in with one ticket.  Every ticket a gate lets in, or  *)
(* is about to, is the account's last one, filed for this gate, or its     *)
(* kick is on the way there or found it online, unless a broken link cut   *)
(* the account off (checkAccountCall, kickUserFromGate, kickUser).         *)
SingleLogin ==
    \A g \in Gates : \A t \in Guests(g) :
        \/ accountOf[t] \in disturbed
        \/ m_Accts[accountOf[t]] = [gate |-> g, tran |-> t]
        \/ t \in InFlight(g, "kick") \cup kicked

(* What that means for a player: unless a link broke, of any two clients   *)
(* that are let in for one account, at one gate or at two, one has been    *)
(* kicked or is about to be (kickUserFromGate, giveUserToGate, kickUser).  *)
OneLoginPerAccount ==
    \A g, h \in Gates : \A t \in Guests(g), u \in Guests(h) :
        /\ accountOf[t] = accountOf[u] /\ accountOf[t] \notin disturbed
        /\ t \notin InFlight(g, "kick") \cup kicked
        /\ u \notin InFlight(h, "kick") \cup kicked
        => g = h /\ t = u

(* A kick that was handled ends the login: a gate lets nobody in any more  *)
(* with the ticket it was told to kick (kickUser, checkClose).             *)
KickEndsLogin == \A g \in Gates : kicked \cap users[g] = {}

(* A ticket is good at one gate only, also after links were lost and the   *)
(* login server has been restarted with gates that kept their users        *)
(* (giveUserToGate, addToWait).                                            *)
OneGatePerTicket ==
    \A g, h \in Gates : \A t \in Guests(g) : t \in Guests(h) => g = h

(* A session in _wait_gate_ is on file for some ticket, so that the gate's *)
(* answer will find it (giveUserToGate, receiveUserPrepar).                *)
WaitingIsFiled ==
    \A s \in Sessions : state[s] = "wait_gate" =>
        \E t \in Tickets : m_WaitSessions[t] = s

(* A client that has sent its name is told something: its session leaves   *)
(* _checking_data_ and, unless a gate link broke or the server restarted,  *)
(* _wait_gate_.                                                            *)
LoginAnswered ==
    \A s \in Sessions :
        state[s] \in {"checking_data", "wait_gate"} ~>
            state[s] \notin {"checking_data", "wait_gate"} \/ losses > 0

(* assert( p->nGateId == m_GateInfo.gate_id ) of parseGateRegister never   *)
(* fails.                                                                  *)
AssertionHolds == ~aborted

(* database.h: "during a database operation do not release the resources   *)
(* passed in".  The session passed in with an account check is not         *)
(* released to the pool before the callback.                               *)
SessionKept == \A c \in checks : serial[c.s] = c.serial
=============================================================================
