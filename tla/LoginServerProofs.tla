------------------------- MODULE LoginServerProofs -------------------------
(***************************************************************************)
(* The safety of the login server, for any number of sessions, gates,      *)
(* accounts, logins, lost links and restarts: its pointers to gate         *)
(* sessions are good, a registered gate stays reachable, a session that    *)
(* waits for a gate is on file, and an account is let in with one ticket.  *)
(*                                                                         *)
(* The inductive invariant has a part for the gate links (Links,           *)
(* Registering), one for the tickets (Known), and one for the order of the *)
(* messages to a gate (KickFollows): the kick of a ticket goes where the   *)
(* ticket's login went, after it, because the gate on file for the account *)
(* is the one that was given its last ticket, and is linked, unless a      *)
(* broken link has cut the account off (Admitted).                         *)
(***************************************************************************)
EXTENDS LoginServer, SequenceTheorems, TLAPS

(* ArmAccept counts the connections an object serves.                      *)
Counted == \A s \in Sessions : conn[s] # "pool" => serial[s] < MaxConns

(* A link is an open gate session of its own; messages need a link.        *)
Links ==
    /\ \A g \in Gates : link[g] # None => gconn[link[g]] = "open"
    /\ \A g, h \in Gates : link[g] # None /\ link[g] = link[h] => g = h
    /\ \A g \in Gates : link[g] = None => toGate[g] = <<>>

(* A registration of gate g that waits on session k: it is that of the     *)
(* gate's link, or of a link the gate has lost, and then the gate has not  *)
(* been registered on another one since.                                   *)
Pending(k, g) ==
    \/ link[g] = k
    \/ /\ gconn[k] = "open" /\ \A h \in Gates : link[h] # k
       /\ link[g] = None \/ HeadOf(toLogin[link[g]], "register")

(* A gate sends its registration once and first, and until it is handled   *)
(* no gate is registered on that session.                                  *)
Registering ==
    \A k \in GateSessions : \A i \in 1 .. Len(toLogin[k]) :
        /\ toLogin[k][i].type \in {"register", "prepar"}
        /\ toLogin[k][i].type = "register" =>
             /\ i = 1 /\ Pending(k, toLogin[k][i].serverid)
             /\ \A g \in Gates : m_Gates[g] # k

GateInv == Links /\ Registering /\ GatePointers /\ RegisteredReachable

(* Sessions are filed under tickets that were made.                        *)
Filed == \A t \in Tickets : m_WaitSessions[t] # None => t <= tickets

(* Every ticket anybody knows was made, for an account.                    *)
TicketsOwned == \A t \in Tickets : t <= tickets => accountOf[t] \in Accounts

UsersKnown == \A g \in Gates : \A t \in users[g] : t <= tickets

OnlineKnown ==
    \A g \in Gates, a \in Accounts : onlineaccs[g][a] # None => onlineaccs[g][a] <= tickets

AcctsKnown == \A a \in Accounts : m_Accts[a] # None => m_Accts[a].tran <= tickets

ToGateKnown ==
    \A g \in Gates : \A i \in 1 .. Len(toGate[g]) :
        toGate[g][i].type \in {"login", "kick"} /\ toGate[g][i].t <= tickets

ToLoginKnown ==
    \A k \in GateSessions : \A i \in 1 .. Len(toLogin[k]) :
        toLogin[k][i].type = "register" =>
            \A x \in toLogin[k][i].accounts : x[2] <= tickets

Known ==
    /\ TicketsOwned /\ UsersKnown /\ OnlineKnown /\ AcctsKnown
    /\ ToGateKnown /\ ToLoginKnown

(* A gate is told to kick a ticket after it was told to let it in.         *)
Follows(q) ==
    \A i, j \in 1 .. Len(q) :
        q[i].type = "login" /\ q[j].type = "kick" /\ q[i].t = q[j].t => i < j

KickFollows == \A g \in Gates : Follows(toGate[g])

(* A ticket at a gate or on its way there: the gate is linked and          *)
(* registered, and the ticket is the last one of its account, filed for    *)
(* this gate, or was kicked or will be.                                    *)
Admitted ==
    \A g \in Gates : \A t \in Guests(g) :
        \/ accountOf[t] \in disturbed
        \/ /\ link[g] # None /\ m_Gates[g] = link[g]
           /\ \/ t \in InFlight(g, "kick") \cup kicked
              \/ m_Accts[accountOf[t]] = [gate |-> g, tran |-> t]

IInv ==
    /\ TypeOK /\ Counted /\ GateInv
    /\ WaitingIsFiled /\ Filed
    /\ Known /\ KickFollows /\ Admitted

-----------------------------------------------------------------------------
(* What a message carries.                                                 *)
LEMMA MessageFields ==
    /\ \A m \in Message :
         /\ m.type = "register" => m.serverid \in Gates /\ m.accounts \in SUBSET (Accounts \X Tickets)
         /\ m.type # "register" => m.t \in Tickets
    /\ \A t \in Tickets, y \in {"login", "kick", "prepar"} : [type |-> y, t |-> t] \in Message
    /\ \A g \in Gates, x \in SUBSET (Accounts \X Tickets) :
         [type |-> "register", serverid |-> g, accounts |-> x] \in Message
BY DEF Message

(* Taking the first message of a queue.                                    *)
LEMMA Received ==
    ASSUME NEW q \in Seq(Message), NEW y, HeadOf(q, y)
    PROVE  /\ Head(q) \in Message /\ Head(q).type = y /\ Head(q) = q[1]
           /\ Tail(q) \in Seq(Message)
           /\ Len(q) \in Nat \ {0} /\ Len(Tail(q)) = Len(q) - 1
           /\ \A i \in 1 .. Len(q) - 1 : Tail(q)[i] = q[i + 1]
           /\ \A i \in 1 .. Len(Tail(q)) : i + 1 \in 1 .. Len(q) /\ Tail(q)[i] = q[i + 1]
<1>1. /\ Head(q) \in Message /\ Head(q).type = y /\ Head(q) = q[1]
      /\ Tail(q) \in Seq(Message)
      /\ Len(q) \in Nat \ {0} /\ Len(Tail(q)) = Len(q) - 1
      /\ \A i \in 1 .. Len(q) - 1 : Tail(q)[i] = q[i + 1]
  BY HeadTailProperties, LenProperties, ElementOfSeq, EmptySeq DEF HeadOf
<1>2. \A n \in Nat \ {0} : \A i \in 1 .. n - 1 : i + 1 \in 1 .. n
  OBVIOUS
<1> QED  BY ONLY <1>1, <1>2

(* What is left of a queue when only its first n messages were received.   *)
LEMMA FirstMessages ==
    ASSUME NEW q \in Seq(Message), NEW n \in 0 .. Len(q)
    PROVE  /\ SubSeq(q, 1, n) \in Seq(Message) /\ Len(SubSeq(q, 1, n)) = n
           /\ \A i \in 1 .. n : i \in 1 .. Len(q) /\ SubSeq(q, 1, n)[i] = q[i]
<1>1. Len(q) \in Nat /\ n \in Nat /\ \A i \in 1 .. n : i \in 1 .. Len(q)
  BY LenProperties
<1>2. \A i \in 1 .. n : q[i] \in Message
  BY <1>1, ElementOfSeq
<1>3. SubSeq(q, 1, n) = [i \in 1 .. n |-> q[i]]
  BY <1>1
<1> QED  BY <1>1, <1>2, <1>3

(* sendPBMessage reaches the gate that is linked to the session, if any.   *)
LEMMA Sent ==
    ASSUME NEW q \in [Gates -> Seq(Message)], NEW k, NEW m \in Message
    PROVE  /\ SendToGate(q, k, m) \in [Gates -> Seq(Message)]
           /\ \A g \in Gates :
                /\ link[g] = k => SendToGate(q, k, m)[g] = Append(q[g], m)
                /\ link[g] # k => SendToGate(q, k, m)[g] = q[g]
BY AppendProperties DEF SendToGate

(* kickUserFromGate sends a kick of the account's ticket to the gate that  *)
(* is linked to the session registered for the account's gate.             *)
LEMMA Kicked ==
    ASSUME TypeOK, NEW a \in Accounts
    PROVE  /\ kickUserFromGate(toGate, a) \in [Gates -> Seq(Message)]
           /\ \A g \in Gates :
                kickUserFromGate(toGate, a)[g] =
                  IF m_Accts[a] # None /\ link[g] # None /\ link[g] = m_Gates[m_Accts[a].gate]
                  THEN Append(toGate[g], [type |-> "kick", t |-> m_Accts[a].tran])
                  ELSE toGate[g]
<1>1. CASE m_Accts[a] = None \/ m_Gates[m_Accts[a].gate] = None
  BY <1>1 DEF kickUserFromGate, TypeOK
<1>2. CASE m_Accts[a] # None /\ m_Gates[m_Accts[a].gate] # None
  <2> DEFINE m == [type |-> "kick", t |-> m_Accts[a].tran]
             k == m_Gates[m_Accts[a].gate]
  <2>1. m_Accts[a].tran \in Tickets
    BY <1>2 DEF TypeOK
  <2>2. m \in Message
    BY <2>1, MessageFields
  <2>3. kickUserFromGate(toGate, a) = SendToGate(toGate, k, m)
    BY <1>2 DEF kickUserFromGate
  <2>4. toGate \in [Gates -> Seq(Message)]
    BY DEF TypeOK
  <2> HIDE DEF m
  <2>5. /\ SendToGate(toGate, k, m) \in [Gates -> Seq(Message)]
        /\ \A g \in Gates :
             /\ link[g] = k => SendToGate(toGate, k, m)[g] = Append(toGate[g], m)
             /\ link[g] # k => SendToGate(toGate, k, m)[g] = toGate[g]
    BY <2>2, <2>4, Sent
  <2> QED  BY <1>2, <2>3, <2>5 DEF m
<1> QED  BY <1>1, <1>2

-----------------------------------------------------------------------------
(* Type correctness, one group of variables after the other.               *)

UserType ==
    /\ conn \in [Sessions -> {"pool", "armed", "open", "closed"}]
    /\ accepting \in [Sessions -> BOOLEAN]
    /\ state \in [Sessions -> States]
    /\ serial \in [Sessions -> 0 .. MaxConns]

AcctType ==
    /\ checks \subseteq [n : Checks, s : Sessions, serial : 0 .. MaxConns,
                         a : Accounts, kind : {"login", "new"}]
    /\ m_Accts \in [Accounts -> [gate : Gates, tran : Tickets] \cup {None}]
    /\ tickets \in 0 .. MaxTickets
    /\ accountOf \in [Tickets -> Accounts \cup {None}]
    /\ m_WaitSessions \in [Tickets -> Sessions \cup {None}]

GateType ==
    /\ m_Gates \in [Gates -> GateSessions \cup {None}]
    /\ gconn \in [GateSessions -> {"pool", "open", "closed"}]
    /\ gateId \in [GateSessions -> Gates \cup {None}]
    /\ link \in [Gates -> GateSessions \cup {None}]

QueueType ==
    /\ toLogin \in [GateSessions -> Seq(Message)]
    /\ toGate \in [Gates -> Seq(Message)]

WorldType ==
    /\ users \in [Gates -> SUBSET Tickets]
    /\ connected \in [Gates -> SUBSET Tickets]
    /\ kicked \subseteq Tickets
    /\ onlineaccs \in [Gates -> [Accounts -> Tickets \cup {None}]]
    /\ aborted \in BOOLEAN /\ losses \in 0 .. MaxLosses
    /\ disturbed \subseteq Accounts

(* The groups together are the type invariant.                             *)
LEMMA TypeParts == TypeOK <=> UserType /\ AcctType /\ GateType /\ QueueType /\ WorldType
BY DEF TypeOK, UserType, AcctType, GateType, QueueType, WorldType

(* Every step keeps the sessions' variables in their types; a released     *)
(* session has been counted by ArmAccept.                                  *)
LEMMA UserStep == TypeOK /\ Counted /\ [Next]_vars => UserType' /\ Counted'
<1> SUFFICES ASSUME TypeOK, Counted, [Next]_vars PROVE UserType' /\ Counted'
  OBVIOUS
<1> USE LoginAssumption DEF userVars, acctVars, gateVars, gtVars, lossVars
<1>a. /\ conn \in [Sessions -> {"pool", "armed", "open", "closed"}]
      /\ accepting \in [Sessions -> BOOLEAN]
      /\ state \in [Sessions -> States]
      /\ serial \in [Sessions -> 0 .. MaxConns]
  BY DEF TypeOK
<1>b. \A c \in checks : c.s \in Sessions
  BY DEF TypeOK
<1>c. {"disable", "wait_data", "checking_data", "wait_gate", "wait_close"} = States
  BY DEF States
<1>1. ASSUME NEW s \in Sessions, ArmAccept(s) PROVE UserType' /\ Counted'
  BY <1>1, <1>a DEF ArmAccept, UserType, Counted
<1>2. ASSUME NEW s \in Sessions, Accept(s) PROVE UserType' /\ Counted'
  <2>1. accepting' \in [Sessions -> BOOLEAN]
    BY <1>2, <1>a, Zenon DEF Accept
  <2> QED  BY <1>2, <1>a, <2>1 DEF Accept, UserType, Counted
<1>3. ASSUME NEW s \in Sessions, on_accept(s) PROVE UserType' /\ Counted'
  <2>1. accepting' \in [Sessions -> BOOLEAN]
    BY <1>3, <1>a, Zenon DEF on_accept
  <2> QED  BY <1>3, <1>a, <1>c, <2>1 DEF on_accept, UserType, Counted
<1>4. ASSUME NEW s \in Sessions, ClientCloses(s) PROVE UserType' /\ Counted'
  BY <1>4, <1>a DEF ClientCloses, UserType, Counted
<1>5. ASSUME NEW s \in Sessions, on_close(s) PROVE UserType' /\ Counted'
  BY <1>5, <1>a, <1>c DEF on_close, UserType, Counted
<1>6. ASSUME NEW s \in Sessions, NEW a \in Accounts, NEW kind \in {"login", "new"},
             checkAccount(s, a, kind)
      PROVE  UserType' /\ Counted'
  BY <1>6, <1>a, <1>c DEF checkAccount, UserType, Counted
<1>7. ASSUME NEW c \in checks, checkAccountCall(c) PROVE UserType' /\ Counted'
  <2>1. UNCHANGED <<conn, accepting, serial>>
    BY <1>7 DEF checkAccountCall, checkInvalid, checkRefused, CreateNewAccount,
                giveUserToGate, noGate
  <2>2. state' \in [Sessions -> States]
    BY <1>7, <1>a, <1>b, <1>c
    DEF checkAccountCall, checkInvalid, checkRefused, CreateNewAccount, giveUserToGate, noGate
  <2> QED  BY <2>1, <2>2, <1>a DEF UserType, Counted
<1>8. ASSUME NEW k \in GateSessions, receiveUserPrepar(k) PROVE UserType' /\ Counted'
  <2>1. UNCHANGED <<conn, accepting, serial>>
    BY <1>8 DEF receiveUserPrepar
  <2>2. PICK s : state' = IF s = None THEN state ELSE [state EXCEPT ![s] = "wait_close"]
    BY <1>8 DEF receiveUserPrepar
  <2>3. state' \in [Sessions -> States]
    BY <2>2, <1>a, <1>c
  <2> QED  BY <2>1, <2>3, <1>a DEF UserType, Counted
<1>9. ASSUME NEW k \in GateSessions,
             parseGateRegister(k) \/ gateSessionCloses(k) \/ gateOnClose(k)
      PROVE  UserType' /\ Counted'
  BY <1>9, <1>a DEF parseGateRegister, gateSessionCloses, gateOnClose, UserType, Counted
<1>10. ASSUME NEW g \in Gates, GateSteps(g) \/ gateLinkLost(g) PROVE UserType' /\ Counted'
  <2>1. UNCHANGED userVars
    BY <1>10 DEF GateSteps, gateConnects, addToWait, kickUser, userConnects, userLeaves,
                 reconnTimer, gateLinkLost
  <2> QED  BY <2>1, <1>a DEF UserType, Counted
<1>11. CASE restart
  <2>1. accepting' \in [Sessions -> BOOLEAN]
    BY <1>11, Zenon DEF restart
  <2> QED  BY <1>11, <1>a, <1>c, <2>1 DEF restart, UserType, Counted
<1>12. CASE UNCHANGED vars
  BY <1>12, <1>a DEF vars, UserType, Counted
<1> QED
  BY <1>1, <1>2, <1>3, <1>4, <1>5, <1>6, <1>7, <1>8, <1>9, <1>10, <1>11, <1>12
     DEF Next, Clients, MainLoop

(* Every step keeps AccountManager's variables in their types.             *)
LEMMA AcctStep == TypeOK /\ GatePointers /\ [Next]_vars => AcctType'
<1> SUFFICES ASSUME TypeOK, GatePointers, [Next]_vars PROVE AcctType'
  OBVIOUS
<1> USE LoginAssumption DEF userVars, acctVars, gateVars, gtVars, lossVars
<1> DEFINE Check == [n : Checks, s : Sessions, serial : 0 .. MaxConns,
                     a : Accounts, kind : {"login", "new"}]
<1>a. /\ checks \subseteq Check
      /\ m_Accts \in [Accounts -> [gate : Gates, tran : Tickets] \cup {None}]
      /\ tickets \in 0 .. MaxTickets
      /\ accountOf \in [Tickets -> Accounts \cup {None}]
      /\ m_WaitSessions \in [Tickets -> Sessions \cup {None}]
      /\ serial \in [Sessions -> 0 .. MaxConns]
  BY DEF TypeOK
<1>b. ASSUME UNCHANGED acctVars, UNCHANGED m_WaitSessions PROVE AcctType'
  BY <1>b, <1>a DEF AcctType
<1>1. ASSUME NEW s \in Sessions,
             ArmAccept(s) \/ Accept(s) \/ on_accept(s) \/ ClientCloses(s) \/ on_close(s)
      PROVE  AcctType'
  BY <1>1, <1>b DEF ArmAccept, Accept, on_accept, ClientCloses, on_close
<1>2. ASSUME NEW s \in Sessions, NEW a \in Accounts, NEW kind \in {"login", "new"},
             checkAccount(s, a, kind)
      PROVE  AcctType'
  <2>1. (CHOOSE n \in FreeChecks : TRUE) \in Checks
    BY <1>2 DEF checkAccount, FreeChecks
  <2>2. NewCheck(s, a, kind) \in Check
    BY <2>1, <1>a DEF NewCheck
  <2> QED  BY <1>2, <2>2, <1>a DEF checkAccount, AcctType
<1>3. ASSUME NEW c \in checks, checkInvalid(c) \/ checkRefused(c) \/ noGate(c)
      PROVE  AcctType'
  <2>1. c.a \in Accounts
    BY <1>a
  <2> QED  BY <1>3, <1>a, <2>1 DEF checkInvalid, checkRefused, noGate, AcctType
<1>4. ASSUME NEW c \in checks, CreateNewAccount(c) PROVE AcctType'
  <2>1. c \in Check /\ serial[c.s] \in 0 .. MaxConns
    BY <1>a
  <2>2. [c EXCEPT !.kind = "login", !.serial = serial[c.s]] \in Check
    BY <2>1
  <2> QED  BY <1>4, <2>2, <1>a DEF CreateNewAccount, AcctType
<1>5. ASSUME NEW c \in checks, giveUserToGate(c) PROVE AcctType'
  <2>1. c.a \in Accounts /\ c.s \in Sessions
    BY <1>a
  <2>2. tickets + 1 \in Tickets /\ tickets' = tickets + 1
    BY <1>5, <1>a DEF giveUserToGate, Tickets
  <2>3. PICK g \in getIdleGate :
          /\ accountOf' = [accountOf EXCEPT ![tickets + 1] = c.a]
          /\ m_Accts' = [m_Accts EXCEPT ![c.a] =
                           [gate |-> gateId[m_Gates[g]], tran |-> tickets + 1]]
          /\ m_WaitSessions' = [m_WaitSessions EXCEPT ![tickets + 1] = c.s]
    BY <1>5 DEF giveUserToGate
  <2>4. gateId[m_Gates[g]] \in Gates
    BY <2>3 DEF getIdleGate, GatePointers
  <2>5. checks' \subseteq Check
    BY <1>5, <1>a DEF giveUserToGate
  <2>6. tickets' \in 0 .. MaxTickets
    BY <2>2, <1>a DEF Tickets
  <2> QED  BY <2>1, <2>2, <2>3, <2>4, <2>5, <2>6, <1>a DEF AcctType
<1>6. ASSUME NEW k \in GateSessions, receiveUserPrepar(k) PROVE AcctType'
  BY <1>6, <1>a DEF receiveUserPrepar, AcctType
<1>7. ASSUME NEW k \in GateSessions, parseGateRegister(k) PROVE AcctType'
  <2>1. toLogin[k] \in Seq(Message)
    BY DEF TypeOK
  <2>2. PICK g \in Gates, accounts \in SUBSET (Accounts \X Tickets) :
          m_Accts' = IF assertion(g, accounts) THEN addAccounts(g, accounts) ELSE m_Accts
    BY <1>7, <2>1, Received, MessageFields DEF parseGateRegister
  <2>3. addAccounts(g, accounts) \in [Accounts -> [gate : Gates, tran : Tickets] \cup {None}]
    BY <1>a DEF addAccounts
  <2> QED  BY <1>7, <2>2, <2>3, <1>a DEF parseGateRegister, AcctType
<1>8. ASSUME NEW k \in GateSessions, gateSessionCloses(k) \/ gateOnClose(k) PROVE AcctType'
  BY <1>8, <1>b DEF gateSessionCloses, gateOnClose
<1>9. ASSUME NEW g \in Gates, GateSteps(g) \/ gateLinkLost(g) PROVE AcctType'
  BY <1>9, <1>b DEF GateSteps, gateConnects, addToWait, kickUser, userConnects,
                    userLeaves, reconnTimer, gateLinkLost
<1>10. CASE restart
  BY <1>10, <1>a DEF restart, AcctType
<1>11. CASE UNCHANGED vars
  BY <1>11, <1>b DEF vars
<1> QED
  BY <1>1, <1>2, <1>3, <1>4, <1>5, <1>6, <1>7, <1>8, <1>9, <1>10, <1>11
     DEF Next, Clients, MainLoop, checkAccountCall

(* Every step keeps the variables of the gate links in their types.        *)
LEMMA GateTypeStep == TypeOK /\ [Next]_vars => GateType'
<1> SUFFICES ASSUME TypeOK, [Next]_vars PROVE GateType'
  OBVIOUS
<1> USE LoginAssumption DEF userVars, acctVars, gateVars, gtVars, lossVars
<1>a. GateType /\ toLogin \in [GateSessions -> Seq(Message)]
  BY DEF TypeOK, GateType
<1>b. ASSUME UNCHANGED <<m_Gates, gateVars>> PROVE GateType'
  BY <1>b, <1>a DEF GateType
<1>1. ASSUME NEW s \in Sessions,
             ArmAccept(s) \/ Accept(s) \/ on_accept(s) \/ ClientCloses(s) \/ on_close(s)
      PROVE  GateType'
  BY <1>1, <1>b DEF ArmAccept, Accept, on_accept, ClientCloses, on_close
<1>2. ASSUME NEW s \in Sessions, NEW a \in Accounts, NEW kind \in {"login", "new"},
             checkAccount(s, a, kind)
      PROVE  GateType'
  BY <1>2, <1>b DEF checkAccount
<1>3. ASSUME NEW c \in checks, checkAccountCall(c) PROVE GateType'
  BY <1>3, <1>b DEF checkAccountCall, checkInvalid, checkRefused, CreateNewAccount,
                    giveUserToGate, noGate
<1>4. ASSUME NEW k \in GateSessions, receiveUserPrepar(k) PROVE GateType'
  BY <1>4, <1>b DEF receiveUserPrepar
<1>5. ASSUME NEW k \in GateSessions, parseGateRegister(k) PROVE GateType'
  <2>1. Head(toLogin[k]).serverid \in Gates
    BY <1>5, <1>a, Received, MessageFields DEF parseGateRegister
  <2> QED  BY <1>5, <2>1, <1>a DEF parseGateRegister, GateType
<1>6. ASSUME NEW k \in GateSessions, gateSessionCloses(k) \/ gateOnClose(k) PROVE GateType'
  BY <1>6, <1>a DEF gateSessionCloses, gateOnClose, removeGate, GateType
<1>7. ASSUME NEW g \in Gates, NEW k \in GateSessions, gateConnects(g, k) PROVE GateType'
  BY <1>7, <1>a DEF gateConnects, GateType
<1>8. ASSUME NEW g \in Gates, addToWait(g) \/ kickUser(g) PROVE GateType'
  BY <1>8, <1>b DEF addToWait, kickUser
<1>9. ASSUME NEW g \in Gates, NEW t \in Tickets, userConnects(g, t) \/ userLeaves(g, t)
      PROVE  GateType'
  BY <1>9, <1>b DEF userConnects, userLeaves
<1>10. ASSUME NEW g \in Gates, NEW a \in Accounts, reconnTimer(g, a) PROVE GateType'
  BY <1>10, <1>b DEF reconnTimer
<1>11. ASSUME NEW g \in Gates, gateLinkLost(g) PROVE GateType'
  BY <1>11, <1>a DEF gateLinkLost, GateType
<1>12. CASE restart
  BY <1>12, <1>a DEF restart, GateType
<1>13. CASE UNCHANGED vars
  BY <1>13, <1>b DEF vars
<1> QED
  BY <1>1, <1>2, <1>3, <1>4, <1>5, <1>6, <1>7, <1>8, <1>9, <1>10, <1>11, <1>12, <1>13
     DEF Next, Clients, MainLoop, GateSteps

(* Every step keeps the messages under way in their types.                 *)
LEMMA QueueTypeStep == TypeOK /\ Links /\ [Next]_vars => QueueType'
<1> SUFFICES ASSUME TypeOK, Links, [Next]_vars PROVE QueueType'
  OBVIOUS
<1> USE LoginAssumption DEF userVars, acctVars, gateVars, gtVars, lossVars
<1>a. QueueType
  BY DEF TypeOK, QueueType
<1>b. ASSUME UNCHANGED <<toLogin, toGate>> PROVE QueueType'
  BY <1>b, <1>a DEF QueueType
<1>c. <<>> \in Seq(Message)
  BY EmptySeq
<1>1. ASSUME NEW s \in Sessions,
             ArmAccept(s) \/ Accept(s) \/ on_accept(s) \/ ClientCloses(s) \/ on_close(s)
      PROVE  QueueType'
  BY <1>1, <1>b DEF ArmAccept, Accept, on_accept, ClientCloses, on_close
<1>2. ASSUME NEW s \in Sessions, NEW a \in Accounts, NEW kind \in {"login", "new"},
             checkAccount(s, a, kind)
      PROVE  QueueType'
  BY <1>2, <1>b DEF checkAccount
<1>3. ASSUME NEW c \in checks,
             checkInvalid(c) \/ checkRefused(c) \/ CreateNewAccount(c) \/ noGate(c)
      PROVE  QueueType'
  BY <1>3, <1>b DEF checkInvalid, checkRefused, CreateNewAccount, noGate
<1>4. ASSUME NEW c \in checks, giveUserToGate(c) PROVE QueueType'
  <2>1. c.a \in Accounts /\ tickets \in 0 .. MaxTickets
    BY DEF TypeOK
  <2>2. tickets + 1 \in Tickets
    BY <1>4, <2>1 DEF giveUserToGate, Tickets
  <2>3. PICK g \in getIdleGate :
          toGate' = SendToGate(kickUserFromGate(toGate, c.a), m_Gates[g],
                               [type |-> "login", t |-> tickets + 1])
    BY <1>4 DEF giveUserToGate
  <2>4. [type |-> "login", t |-> tickets + 1] \in Message
    BY <2>2, MessageFields
  <2>5. toGate' \in [Gates -> Seq(Message)]
    BY <2>1, <2>3, <2>4, Kicked, Sent
  <2> QED  BY <1>4, <2>5, <1>a DEF giveUserToGate, QueueType
<1>5. ASSUME NEW k \in GateSessions, receiveUserPrepar(k) PROVE QueueType'
  <2>1. Tail(toLogin[k]) \in Seq(Message)
    BY <1>5, <1>a, Received DEF receiveUserPrepar, QueueType
  <2> QED  BY <1>5, <2>1, <1>a DEF receiveUserPrepar, QueueType
<1>6. ASSUME NEW k \in GateSessions, parseGateRegister(k) PROVE QueueType'
  <2>1. Tail(toLogin[k]) \in Seq(Message)
    BY <1>6, <1>a, Received DEF parseGateRegister, QueueType
  <2> QED  BY <1>6, <2>1, <1>a DEF parseGateRegister, QueueType
<1>7. ASSUME NEW k \in GateSessions, gateSessionCloses(k) \/ gateOnClose(k) PROVE QueueType'
  <2>1. CASE gateSessionCloses(k)
    BY <2>1, <1>a, <1>c DEF gateSessionCloses, QueueType
  <2>2. CASE gateOnClose(k)
    BY <2>2, <1>b DEF gateOnClose
  <2> QED  BY <1>7, <2>1, <2>2
<1>8. ASSUME NEW g \in Gates, NEW k \in GateSessions, gateConnects(g, k) PROVE QueueType'
  <2> DEFINE m == [type |-> "register", serverid |-> g, accounts |-> Online(g)]
  <2>1. m \in Message
    BY MessageFields DEF Online
  <2> HIDE DEF m
  <2>2. <<m>> \in Seq(Message)
    BY <2>1
  <2> QED  BY <1>8, <2>2, <1>a DEF gateConnects, QueueType, m
<1>9. ASSUME NEW g \in Gates, addToWait(g) PROVE QueueType'
  <2> DEFINE m == [type |-> "prepar", t |-> Head(toGate[g]).t]
  <2>1. toGate[g] \in Seq(Message) /\ HeadOf(toGate[g], "login")
    BY <1>9, <1>a DEF addToWait, QueueType
  <2>2. m \in Message /\ Tail(toGate[g]) \in Seq(Message)
    BY <2>1, Received, MessageFields
  <2>3. link[g] \in GateSessions
    BY <2>1 DEF Links, TypeOK, HeadOf
  <2> HIDE DEF m
  <2>4. Append(toLogin[link[g]], m) \in Seq(Message)
    BY <2>2, <2>3, <1>a, AppendProperties DEF QueueType
  <2>5. /\ toLogin' = [toLogin EXCEPT ![link[g]] = Append(@, m)]
        /\ toGate' = [toGate EXCEPT ![g] = Tail(@)]
    BY <1>9 DEF addToWait, m
  <2> QED  BY <2>2, <2>4, <2>5, <1>a DEF QueueType
<1>10. ASSUME NEW g \in Gates, kickUser(g) PROVE QueueType'
  <2>1. Tail(toGate[g]) \in Seq(Message)
    BY <1>10, <1>a, Received DEF kickUser, QueueType
  <2> QED  BY <1>10, <2>1, <1>a DEF kickUser, QueueType
<1>11. ASSUME NEW g \in Gates, NEW t \in Tickets, userConnects(g, t) \/ userLeaves(g, t)
       PROVE  QueueType'
  BY <1>11, <1>b DEF userConnects, userLeaves
<1>12. ASSUME NEW g \in Gates, NEW a \in Accounts, reconnTimer(g, a) PROVE QueueType'
  BY <1>12, <1>b DEF reconnTimer
<1>13. ASSUME NEW g \in Gates, gateLinkLost(g) PROVE QueueType'
  <2> DEFINE k == link[g]
  <2>1. PICK n \in 0 .. Len(toLogin[k]) :
          toLogin' = [toLogin EXCEPT ![k] = SubSeq(@, 1, n)]
    BY <1>13 DEF gateLinkLost
  <2>2. k \in GateSessions /\ toLogin[k] \in Seq(Message)
    BY <1>13, <1>a DEF gateLinkLost, TypeOK, QueueType
  <2>3. SubSeq(toLogin[k], 1, n) \in Seq(Message)
    BY <2>2, FirstMessages
  <2>4. toGate' = [toGate EXCEPT ![g] = <<>>]
    BY <1>13 DEF gateLinkLost
  <2> HIDE DEF k
  <2> QED  BY <2>1, <2>3, <2>4, <1>a, <1>c DEF QueueType
<1>14. CASE restart
  BY <1>14, <1>c DEF restart, QueueType
<1>15. CASE UNCHANGED vars
  BY <1>15, <1>b DEF vars
<1> QED
  BY <1>1, <1>2, <1>3, <1>4, <1>5, <1>6, <1>7, <1>8, <1>9, <1>10, <1>11, <1>12, <1>13,
     <1>14, <1>15
     DEF Next, Clients, MainLoop, GateSteps, checkAccountCall

(* The accounts a broken link cuts off are accounts.                       *)
LEMMA AffectedAccounts ==
    ASSUME TypeOK, Known
    PROVE  \A g \in Gates : Affected(g) \subseteq Accounts /\ Guests(g) \subseteq Tickets
<1> SUFFICES ASSUME NEW g \in Gates
             PROVE  Affected(g) \subseteq Accounts /\ Guests(g) \subseteq Tickets
  OBVIOUS
<1>1. \A i \in 1 .. Len(toGate[g]) :
        toGate[g][i].type = "login" => toGate[g][i].t \in Tickets /\ toGate[g][i].t <= tickets
  BY MessageFields, ElementOfSeq DEF TypeOK, Known, TicketsOwned, UsersKnown, ToGateKnown
<1>2. \A t \in InFlight(g, "login") : t \in Tickets /\ t <= tickets
  BY <1>1 DEF InFlight
<1>3. \A t \in users[g] : t \in Tickets /\ t <= tickets
  BY DEF TypeOK, Known, TicketsOwned, UsersKnown, ToGateKnown
<1> QED  BY <1>2, <1>3 DEF Affected, Guests, Known, TicketsOwned

(* Writing one entry of m_onlineaccs.                                      *)
LEMMA OnlineUpdate ==
    ASSUME NEW f \in [Gates -> [Accounts -> Tickets \cup {None}]],
           NEW g \in Gates, NEW a \in Accounts, NEW x \in Tickets \cup {None}
    PROVE  /\ [f EXCEPT ![g][a] = x] \in [Gates -> [Accounts -> Tickets \cup {None}]]
           /\ \A h \in Gates, b \in Accounts :
                [f EXCEPT ![g][a] = x][h][b] = IF h = g /\ b = a THEN x ELSE f[h][b]
<1> DEFINE row == [f[g] EXCEPT ![a] = x]
<1>1. row \in [Accounts -> Tickets \cup {None}]
  OBVIOUS
<1>2. \A b \in Accounts : row[b] = IF b = a THEN x ELSE f[g][b]
  OBVIOUS
<1>3. [f EXCEPT ![g][a] = x] = [f EXCEPT ![g] = row]
  OBVIOUS
<1> HIDE DEF row
<1> QED  BY <1>1, <1>2, <1>3

(* Every step keeps the gates' users and the history in their types.       *)
LEMMA WorldTypeStep == TypeOK /\ Known /\ [Next]_vars => WorldType'
<1> SUFFICES ASSUME TypeOK, Known, [Next]_vars PROVE WorldType'
  OBVIOUS
<1> USE LoginAssumption DEF userVars, acctVars, gateVars, gtVars, lossVars
<1>a. /\ users \in [Gates -> SUBSET Tickets]
      /\ connected \in [Gates -> SUBSET Tickets] /\ kicked \subseteq Tickets
      /\ onlineaccs \in [Gates -> [Accounts -> Tickets \cup {None}]]
      /\ aborted \in BOOLEAN /\ losses \in 0 .. MaxLosses
      /\ disturbed \subseteq Accounts
      /\ toGate \in [Gates -> Seq(Message)]
      /\ accountOf \in [Tickets -> Accounts \cup {None}]
  BY DEF TypeOK
<1>b. ASSUME UNCHANGED <<gtVars, lossVars>> PROVE WorldType'
  BY <1>b, <1>a DEF WorldType
<1>c. \A g \in Gates : Affected(g) \subseteq Accounts
  BY AffectedAccounts
<1>1. ASSUME NEW s \in Sessions,
             ArmAccept(s) \/ Accept(s) \/ on_accept(s) \/ ClientCloses(s) \/ on_close(s)
      PROVE  WorldType'
  BY <1>1, <1>b DEF ArmAccept, Accept, on_accept, ClientCloses, on_close
<1>2. ASSUME NEW s \in Sessions, NEW a \in Accounts, NEW kind \in {"login", "new"},
             checkAccount(s, a, kind)
      PROVE  WorldType'
  BY <1>2, <1>b DEF checkAccount
<1>3. ASSUME NEW c \in checks, checkAccountCall(c) PROVE WorldType'
  BY <1>3, <1>b DEF checkAccountCall, checkInvalid, checkRefused, CreateNewAccount,
                    giveUserToGate, noGate
<1>4. ASSUME NEW k \in GateSessions,
             receiveUserPrepar(k) \/ gateSessionCloses(k) \/ gateOnClose(k)
      PROVE  WorldType'
  BY <1>4, <1>b DEF receiveUserPrepar, gateSessionCloses, gateOnClose
<1>5. ASSUME NEW k \in GateSessions, parseGateRegister(k) PROVE WorldType'
  <2>1. aborted' \in BOOLEAN
    BY <1>5 DEF parseGateRegister, assertion
  <2> QED  BY <1>5, <2>1, <1>a DEF parseGateRegister, WorldType
<1>6. ASSUME NEW g \in Gates, NEW k \in GateSessions, gateConnects(g, k) PROVE WorldType'
  BY <1>6, <1>b DEF gateConnects
<1>7. ASSUME NEW g \in Gates, addToWait(g) PROVE WorldType'
  <2>1. Head(toGate[g]).t \in Tickets
    BY <1>7, <1>a, Received, MessageFields DEF addToWait
  <2> QED  BY <1>7, <2>1, <1>a DEF addToWait, WorldType
<1>8. ASSUME NEW g \in Gates, kickUser(g) PROVE WorldType'
  <2> DEFINE t == Head(toGate[g]).t
  <2>1. t \in Tickets /\ t <= tickets
    <3>1. /\ Head(toGate[g]) \in Message /\ Head(toGate[g]).type = "kick"
          /\ Head(toGate[g]) = toGate[g][1] /\ 1 \in 1 .. Len(toGate[g])
      BY <1>8, <1>a, Received DEF kickUser
    <3> QED  BY <3>1, MessageFields DEF Known, ToGateKnown
  <2>2. accountOf[t] \in Accounts
    BY <2>1 DEF Known, TicketsOwned
  <2>3. /\ \/ users' = [users EXCEPT ![g] = @ \ {t}]
           \/ UNCHANGED users
        /\ \/ connected' = [connected EXCEPT ![g] = @ \ {t}]
           \/ UNCHANGED connected
        /\ kicked' = kicked \cup {t} \/ UNCHANGED kicked
        /\ \/ onlineaccs' = [onlineaccs EXCEPT ![g][accountOf[t]] = None]
           \/ UNCHANGED onlineaccs
        /\ UNCHANGED lossVars
    BY <1>8 DEF kickUser, kickOnline, kickWaiting, kickReconn, kickNobody
  <2>4. onlineaccs' \in [Gates -> [Accounts -> Tickets \cup {None}]]
    <3>1. [onlineaccs EXCEPT ![g][accountOf[t]] = None]
            \in [Gates -> [Accounts -> Tickets \cup {None}]]
      BY ONLY <2>2, <1>a, OnlineUpdate
    <3> QED  BY ONLY <3>1, <2>3, <1>a
  <2> HIDE DEF t
  <2>5. users' \in [Gates -> SUBSET Tickets] /\ connected' \in [Gates -> SUBSET Tickets]
    <3>1. \A f \in [Gates -> SUBSET Tickets] :
            [f EXCEPT ![g] = @ \ {t}] \in [Gates -> SUBSET Tickets]
      OBVIOUS
    <3>2. [users EXCEPT ![g] = @ \ {t}] \in [Gates -> SUBSET Tickets]
      BY ONLY <3>1, <1>a
    <3>3. [connected EXCEPT ![g] = @ \ {t}] \in [Gates -> SUBSET Tickets]
      BY ONLY <3>1, <1>a
    <3>4. users' \in [Gates -> SUBSET Tickets]
      BY ONLY <2>3, <3>2, <1>a
    <3>5. connected' \in [Gates -> SUBSET Tickets]
      BY ONLY <2>3, <3>3, <1>a
    <3> QED  BY <3>4, <3>5
  <2>6. kicked' \subseteq Tickets
    BY <2>1, <2>3, <1>a
  <2> QED  BY <2>3, <2>4, <2>5, <2>6, <1>a DEF WorldType
<1>9. ASSUME NEW g \in Gates, NEW t \in Tickets, userConnects(g, t) \/ userLeaves(g, t)
      PROVE  WorldType'
  <2>1. accountOf[t] \in Accounts
    BY <1>9 DEF userConnects, userLeaves, Known, TicketsOwned, UsersKnown
  <2>2. onlineaccs' \in [Gates -> [Accounts -> Tickets \cup {None}]]
    <3>1. \A x \in Tickets \cup {None} :
            [onlineaccs EXCEPT ![g][accountOf[t]] = x]
              \in [Gates -> [Accounts -> Tickets \cup {None}]]
      BY ONLY <2>1, <1>a, OnlineUpdate
    <3>2. CASE userConnects(g, t)
      BY <3>1, <3>2, <1>a DEF userConnects
    <3>3. CASE userLeaves(g, t)
      BY <3>1, <3>3, <1>a DEF userLeaves
    <3> QED  BY <1>9, <3>2, <3>3
  <2>3. /\ users' \in [Gates -> SUBSET Tickets] /\ connected' \in [Gates -> SUBSET Tickets]
        /\ UNCHANGED <<kicked, lossVars>>
    <3>1. CASE userConnects(g, t)
      BY <3>1, <1>a DEF userConnects
    <3>2. CASE userLeaves(g, t)
      BY <3>2, <1>a DEF userLeaves
    <3> QED  BY <1>9, <3>1, <3>2
  <2> QED  BY <2>2, <2>3, <1>a DEF WorldType
<1>10. ASSUME NEW g \in Gates, NEW a \in Accounts, reconnTimer(g, a) PROVE WorldType'
  BY <1>10, <1>a, OnlineUpdate DEF reconnTimer, WorldType
<1>11. ASSUME NEW g \in Gates, gateLinkLost(g) PROVE WorldType'
  BY <1>11, <1>a, <1>c DEF gateLinkLost, WorldType
<1>12. CASE restart
  <2>1. UNION {Affected(g) : g \in Gates} \subseteq Accounts
    BY <1>c, Zenon
  <2>2. losses' \in 0 .. MaxLosses /\ UNCHANGED gtVars
    BY <1>12, <1>a DEF restart
  <2>4. aborted' \in BOOLEAN
    BY <1>12, Zenon DEF restart
  <2>3. disturbed' \subseteq Accounts
    BY <1>12, <2>1, <1>a DEF restart
  <2> QED  BY <2>2, <2>3, <2>4, <1>a DEF WorldType
<1>13. CASE UNCHANGED vars
  BY <1>13, <1>b DEF vars
<1> QED
  BY <1>1, <1>2, <1>3, <1>4, <1>5, <1>6, <1>7, <1>8, <1>9, <1>10, <1>11, <1>12, <1>13
     DEF Next, Clients, MainLoop, GateSteps

-----------------------------------------------------------------------------
(* The account is given to gate g: q are the queues with the kick of its   *)
(* last ticket, and the new ticket follows in the queue of g, if g has a   *)
(* link.                                                                   *)
GivenTo(c, g, q) ==
    /\ m_Accts' = [m_Accts EXCEPT ![c.a] = [gate |-> g, tran |-> tickets + 1]]
    /\ \A h \in Gates :
         q[h] = IF m_Accts[c.a] # None /\ link[h] # None
                     /\ link[h] = m_Gates[m_Accts[c.a].gate]
                THEN Append(toGate[h], [type |-> "kick", t |-> m_Accts[c.a].tran])
                ELSE toGate[h]
    /\ \A h \in Gates :
         toGate'[h] = IF h = g /\ link[g] # None /\ link[g] = m_Gates[g]
                      THEN Append(q[h], [type |-> "login", t |-> tickets + 1])
                      ELSE q[h]

(* What giveUserToGate does: a kick for the account's last ticket, then    *)
(* the new ticket, each to the gate it belongs to.                         *)
LEMMA Given ==
    ASSUME TypeOK, GateInv, NEW c \in checks, giveUserToGate(c)
    PROVE  /\ c.a \in Accounts /\ tickets + 1 \in Tickets /\ tickets' = tickets + 1
           /\ accountOf' = [accountOf EXCEPT ![tickets + 1] = c.a]
           /\ m_WaitSessions' = [m_WaitSessions EXCEPT ![tickets + 1] = c.s]
           /\ state' = [state EXCEPT ![c.s] = "wait_gate"]
           /\ \E g \in Gates, q \in [Gates -> Seq(Message)] : GivenTo(c, g, q)
<1> USE LoginAssumption
<1>1. /\ c.a \in Accounts /\ tickets + 1 \in Tickets /\ tickets' = tickets + 1
      /\ accountOf' = [accountOf EXCEPT ![tickets + 1] = c.a]
      /\ m_WaitSessions' = [m_WaitSessions EXCEPT ![tickets + 1] = c.s]
      /\ state' = [state EXCEPT ![c.s] = "wait_gate"]
  BY DEF giveUserToGate, TypeOK, Tickets
<1> DEFINE q == kickUserFromGate(toGate, c.a)
           m == [type |-> "login", t |-> tickets + 1]
<1>2. PICK g \in getIdleGate :
        /\ m_Accts' = [m_Accts EXCEPT ![c.a] =
                         [gate |-> gateId[m_Gates[g]], tran |-> tickets + 1]]
        /\ toGate' = SendToGate(q, m_Gates[g], m)
  BY DEF giveUserToGate
<1>3. g \in Gates /\ m_Gates[g] # None /\ m_Gates[g] \in GateSessions /\ gateId[m_Gates[g]] = g
  BY <1>2 DEF getIdleGate, GateInv, GatePointers, TypeOK
<1>4. /\ q \in [Gates -> Seq(Message)]
      /\ \A h \in Gates :
           q[h] = IF m_Accts[c.a] # None /\ link[h] # None
                       /\ link[h] = m_Gates[m_Accts[c.a].gate]
                  THEN Append(toGate[h], [type |-> "kick", t |-> m_Accts[c.a].tran])
                  ELSE toGate[h]
  BY <1>1, Kicked
<1>5. \A h \in Gates : link[h] = m_Gates[g] => h = g
  <2> SUFFICES ASSUME NEW h \in Gates, link[h] = m_Gates[g] PROVE h = g
    OBVIOUS
  <2>1. ~HeadOf(toLogin[link[h]], "register")
    <3> SUFFICES ASSUME HeadOf(toLogin[link[h]], "register") PROVE FALSE
      OBVIOUS
    <3>1. toLogin[link[h]] \in Seq(Message) /\ link[h] \in GateSessions
      BY <1>3 DEF TypeOK
    <3>2. 1 \in 1 .. Len(toLogin[link[h]]) /\ toLogin[link[h]][1].type = "register"
      BY <3>1, Received
    <3> QED  BY <1>3, <3>1, <3>2 DEF GateInv, Registering
  <2>2. m_Gates[h] = link[h]
    BY <1>3, <2>1 DEF GateInv, RegisteredReachable
  <2> QED  BY <1>3, <2>2 DEF GateInv, GatePointers
<1>6. m \in Message
  BY <1>1, MessageFields
<1> HIDE DEF q, m
<1>7. \A h \in Gates :
        /\ link[h] = m_Gates[g] => toGate'[h] = Append(q[h], m)
        /\ link[h] # m_Gates[g] => toGate'[h] = q[h]
  BY <1>2, <1>4, <1>6, Sent
<1>8. \A h \in Gates :
        toGate'[h] = IF h = g /\ link[g] # None /\ link[g] = m_Gates[g]
                     THEN Append(q[h], m) ELSE q[h]
  BY <1>3, <1>5, <1>7
<1>9. GivenTo(c, g, q)
  BY <1>2, <1>3, <1>4, <1>8 DEF GivenTo, m
<1> QED  BY <1>1, <1>3, <1>4, <1>9

(* What is known when a registration is at the head of a queue.            *)
LEMMA Pends ==
    ASSUME TypeOK, GateInv, NEW k \in GateSessions, HeadOf(toLogin[k], "register")
    PROVE  /\ Head(toLogin[k]).serverid \in Gates /\ gconn[k] = "open"
           /\ Pending(k, Head(toLogin[k]).serverid)
           /\ \A g \in Gates : m_Gates[g] # k
<1> USE LoginAssumption
<1>1. /\ Head(toLogin[k]) \in Message /\ Head(toLogin[k]).type = "register"
      /\ Head(toLogin[k]) = toLogin[k][1] /\ 1 \in 1 .. Len(toLogin[k])
  BY Received DEF TypeOK
<1>2. Head(toLogin[k]).serverid \in Gates
  BY <1>1, MessageFields
<1>3. Pending(k, Head(toLogin[k]).serverid) /\ \A g \in Gates : m_Gates[g] # k
  BY <1>1 DEF GateInv, Registering
<1>4. gconn[k] = "open"
  BY <1>2, <1>3 DEF GateInv, Links, Pending
<1> QED  BY <1>2, <1>3, <1>4

(* Every step keeps the links, the registrations under way and the         *)
(* pointers to gate sessions.                                              *)
LEMMA GateStep == TypeOK /\ GateInv /\ [Next]_vars => GateInv'
<1> SUFFICES ASSUME TypeOK, GateInv, [Next]_vars PROVE GateInv'
  OBVIOUS
<1> USE LoginAssumption DEF userVars, acctVars, gateVars, gtVars, lossVars
<1> DEFINE PendNext(k, g) ==
             \/ link'[g] = k
             \/ /\ gconn'[k] = "open" /\ \A h \in Gates : link'[h] # k
                /\ link'[g] = None \/ HeadOf(toLogin'[link'[g]], "register")
<1>a. /\ m_Gates \in [Gates -> GateSessions \cup {None}]
      /\ gconn \in [GateSessions -> {"pool", "open", "closed"}]
      /\ gateId \in [GateSessions -> Gates \cup {None}]
      /\ link \in [Gates -> GateSessions \cup {None}]
      /\ toLogin \in [GateSessions -> Seq(Message)]
      /\ toGate \in [Gates -> Seq(Message)]
      /\ None \notin GateSessions \cup Gates
  BY DEF TypeOK
<1>b. Links /\ Registering /\ GatePointers /\ RegisteredReachable
  BY DEF GateInv
<1>d. ASSUME UNCHANGED <<m_Gates, gateVars, toLogin>>,
             \A g \in Gates : link[g] = None => toGate'[g] = toGate[g]
      PROVE  GateInv'
  <2>1. Links'
    BY <1>b, <1>d DEF Links
  <2>2. Registering'
    BY ONLY <1>b, <1>d DEF Registering, Pending, HeadOf, gateVars
  <2>3. GatePointers'
    BY <1>b, <1>d DEF GatePointers
  <2>4. RegisteredReachable'
    BY ONLY <1>b, <1>d DEF RegisteredReachable, HeadOf, gateVars
  <2> QED  BY <2>1, <2>2, <2>3, <2>4 DEF GateInv
<1>c. ASSUME UNCHANGED <<m_Gates, gateVars, toLogin, toGate>> PROVE GateInv'
  BY <1>c, <1>d
<1>e. ASSUME NEW k \in GateSessions, NEW i \in 1 .. Len(toLogin[k]),
             toLogin[k][i].type = "register"
      PROVE  /\ i = 1 /\ HeadOf(toLogin[k], "register") /\ Head(toLogin[k]) = toLogin[k][i]
             /\ Head(toLogin[k]).serverid \in Gates /\ gconn[k] = "open"
             /\ Pending(k, Head(toLogin[k]).serverid)
             /\ \A g \in Gates : m_Gates[g] # k
  <2>1. i = 1 /\ toLogin[k] \in Seq(Message)
    BY <1>a, <1>b, <1>e DEF Registering
  <2>2. toLogin[k] # <<>>
    BY <2>1
  <2>3. Head(toLogin[k]) = toLogin[k][1]
    BY <2>1, <2>2, HeadTailProperties
  <2>4. HeadOf(toLogin[k], "register")
    BY <1>e, <2>1, <2>2, <2>3 DEF HeadOf
  <2> QED  BY <2>1, <2>3, <2>4, Pends
<1>f. ASSUME \A k \in GateSessions : \A i \in 1 .. Len(toLogin'[k]) :
               /\ toLogin'[k][i].type \in {"register", "prepar"}
               /\ toLogin'[k][i].type = "register" =>
                    /\ i = 1 /\ PendNext(k, toLogin'[k][i].serverid)
                    /\ \A g \in Gates : m_Gates'[g] # k
      PROVE  Registering'
  BY <1>f DEF Registering, Pending, HeadOf
<1>1. ASSUME NEW s \in Sessions,
             ArmAccept(s) \/ Accept(s) \/ on_accept(s) \/ ClientCloses(s) \/ on_close(s)
      PROVE  GateInv'
  BY <1>1, <1>c DEF ArmAccept, Accept, on_accept, ClientCloses, on_close
<1>2. ASSUME NEW s \in Sessions, NEW a \in Accounts, NEW kind \in {"login", "new"},
             checkAccount(s, a, kind)
      PROVE  GateInv'
  BY <1>2, <1>c DEF checkAccount
<1>3. ASSUME NEW c \in checks,
             checkInvalid(c) \/ checkRefused(c) \/ CreateNewAccount(c) \/ noGate(c)
      PROVE  GateInv'
  BY <1>3, <1>c DEF checkInvalid, checkRefused, CreateNewAccount, noGate
<1>4. ASSUME NEW c \in checks, giveUserToGate(c) PROVE GateInv'
  <2>1. \A g \in Gates : link[g] = None => toGate'[g] = toGate[g]
    <3>1. PICK d \in Gates, q \in [Gates -> Seq(Message)] : GivenTo(c, d, q)
      BY <1>4, Given, Zenon
    <3> QED  BY <3>1 DEF GivenTo
  <2> QED  BY <1>4, <1>d, <2>1 DEF giveUserToGate
<1>5. ASSUME NEW k \in GateSessions, receiveUserPrepar(k) PROVE GateInv'
  <2> DEFINE q == toLogin[k]
  <2>1. /\ toLogin' = [toLogin EXCEPT ![k] = Tail(q)]
        /\ UNCHANGED <<m_Gates, gateVars, toGate>>
    BY <1>5 DEF receiveUserPrepar
  <2>2. /\ q \in Seq(Message) /\ Len(q) \in Nat \ {0} /\ Len(Tail(q)) = Len(q) - 1
        /\ \A i \in 1 .. Len(q) - 1 : Tail(q)[i] = q[i + 1]
        /\ Tail(q) \in Seq(Message) /\ q[1].type = "prepar"
    BY <1>5, <1>a, Received DEF receiveUserPrepar
  <2>3. \A i \in 1 .. Len(q) : q[i].type = "prepar"
    BY <1>b, <2>2 DEF Registering
  <2> HIDE DEF q
  <2>4. \A i \in 1 .. Len(Tail(q)) : Tail(q)[i].type = "prepar"
    BY <2>2, <2>3
  <2>5. Links' /\ GatePointers'
    BY <1>b, <2>1 DEF Links, GatePointers
  <2>7. ~HeadOf(q, "register") /\ HeadOf(q, "prepar")
    BY <1>5 DEF receiveUserPrepar, HeadOf, q
  <2>6. Registering'
    <3>1. \A l \in GateSessions : l # k => toLogin'[l] = toLogin[l]
      BY <1>a, <2>1
    <3>2. toLogin'[k] = Tail(q) /\ q = toLogin[k]
      BY <1>a, <2>1 DEF q
    <3>3. \A l \in GateSessions, g \in Gates : Pending(l, g) => PendNext(l, g)
      BY <1>a, <2>1, <2>7, <3>1, <3>2 DEF Pending
    <3> SUFFICES ASSUME NEW l \in GateSessions, NEW i \in 1 .. Len(toLogin'[l])
                 PROVE  /\ toLogin'[l][i].type \in {"register", "prepar"}
                        /\ toLogin'[l][i].type = "register" =>
                             /\ i = 1 /\ PendNext(l, toLogin'[l][i].serverid)
                             /\ \A h \in Gates : m_Gates'[h] # l
      BY <1>f
    <3>4. CASE l = k
      BY <2>4, <3>2, <3>4
    <3>5. CASE l # k
      BY <1>b, <1>e, <2>1, <3>1, <3>3, <3>5 DEF Registering
    <3> QED  BY <3>4, <3>5
  <2>8. RegisteredReachable'
    BY <1>a, <1>b, <2>1, <2>7 DEF RegisteredReachable, q
  <2> QED  BY <2>5, <2>6, <2>8 DEF GateInv
<1>6. ASSUME NEW k \in GateSessions, parseGateRegister(k) PROVE GateInv'
  <2> DEFINE q == toLogin[k]
             g == Head(q).serverid
  <2>1. /\ toLogin' = [toLogin EXCEPT ![k] = Tail(q)]
        /\ gateId' = [gateId EXCEPT ![k] = g]
        /\ m_Gates' = [m_Gates EXCEPT ![g] = k]
        /\ UNCHANGED <<gconn, link, toGate>>
    BY <1>6 DEF parseGateRegister
  <2>2. /\ q \in Seq(Message) /\ Len(q) \in Nat \ {0} /\ Len(Tail(q)) = Len(q) - 1
        /\ \A i \in 1 .. Len(q) - 1 : Tail(q)[i] = q[i + 1]
        /\ Tail(q) \in Seq(Message) /\ q[1].type = "register" /\ q[1] = Head(q)
        /\ Head(q) \in Message
    BY <1>6, <1>a, Received DEF parseGateRegister
  <2>3. /\ g \in Gates /\ gconn[k] = "open" /\ Pending(k, g)
        /\ \A h \in Gates : m_Gates[h] # k
    BY <1>6, Pends DEF parseGateRegister
  <2>4. \A i \in 2 .. Len(q) : q[i].type = "prepar"
    BY <1>b, <2>2 DEF Registering
  <2>0. k = link[g] => ~StaleRegister(g)
    BY <1>6 DEF parseGateRegister
  <2> HIDE DEF q, g
  <2>5. \A i \in 1 .. Len(Tail(q)) : Tail(q)[i].type = "prepar"
    BY <2>2, <2>4
  <2>a. \A l \in GateSessions : l # k => toLogin'[l] = toLogin[l]
    BY <1>a, <2>1
  <2>b. \A h \in Gates : link[h] = k => h = g
    BY <1>a, <1>b, <2>3 DEF Pending, Links
  <2>6. Links'
    BY <1>b, <2>1 DEF Links
  <2>7. GatePointers'
    BY <1>a, <1>b, <2>1, <2>3 DEF GatePointers
  <2>8. Registering'
    <3> SUFFICES ASSUME NEW l \in GateSessions, NEW i \in 1 .. Len(toLogin'[l])
                 PROVE  /\ toLogin'[l][i].type \in {"register", "prepar"}
                        /\ toLogin'[l][i].type = "register" =>
                             /\ i = 1 /\ PendNext(l, toLogin'[l][i].serverid)
                             /\ \A h \in Gates : m_Gates'[h] # l
      BY <1>f
    <3>1. CASE l = k
      <4>1. toLogin'[l] = Tail(q)
        BY <1>a, <2>1, <3>1
      <4> QED  BY <2>5, <4>1
    <3>2. CASE l # k
      <4>1. toLogin'[l] = toLogin[l] /\ \A h \in Gates : m_Gates'[h] = l => m_Gates[h] = l
        BY <1>a, <2>1, <2>a, <3>2
      <4>2. ASSUME toLogin[l][i].type = "register"
            PROVE  i = 1 /\ PendNext(l, toLogin[l][i].serverid) /\ \A h \in Gates : m_Gates'[h] # l
        <5> DEFINE e == Head(toLogin[l]).serverid
        <5>1. /\ i = 1 /\ HeadOf(toLogin[l], "register") /\ Head(toLogin[l]) = toLogin[l][i]
              /\ e \in Gates /\ Pending(l, e) /\ \A h \in Gates : m_Gates[h] # l
          BY <1>e, <4>1, <4>2
        <5>2. link[e] # k \/ link[e] = l
          <6> SUFFICES ASSUME link[e] = k, link[e] # l PROVE FALSE
            OBVIOUS
          <6>1. e = g
            BY <2>b, <5>1
          <6>2. StaleRegister(g)
            BY <5>1, <6>1 DEF StaleRegister
          <6> QED  BY <2>0, <6>1, <6>2
        <5>3. link[e] # None /\ link[e] # k => toLogin'[link[e]] = toLogin[link[e]]
          BY <1>a, <2>a, <5>1
        <5>4. UNCHANGED <<link, gconn, toLogin[l]>>
          BY <2>1, <4>1
        <5>5. PendNext(l, e)
          BY <1>a, <3>2, <5>1, <5>2, <5>3, <5>4 DEF Pending
        <5>6. toLogin'[l][i].serverid = e
          BY <4>1, <5>1
        <5> QED  BY <4>1, <5>1, <5>5, <5>6
      <4>3. toLogin[l][i].type \in {"register", "prepar"}
        BY <1>b, <4>1 DEF Registering
      <4>4. UNCHANGED toLogin[l][i]
        BY <4>1
      <4> QED  BY <4>1, <4>2, <4>3, <4>4
    <3> QED  BY <3>1, <3>2
  <2>9. RegisteredReachable'
    <3> SUFFICES ASSUME NEW h \in Gates, link[h] # None,
                        ~HeadOf(toLogin'[link[h]], "register")
                 PROVE  m_Gates'[h] = link[h]
      BY <2>1 DEF RegisteredReachable, HeadOf
    <3>1. CASE link[h] = k
      BY <1>a, <2>1, <2>3, <2>b, <3>1
    <3>2. CASE link[h] # k
      <4>1. toLogin'[link[h]] = toLogin[link[h]]
        BY <1>a, <2>a, <3>2
      <4>2. m_Gates[h] = link[h]
        BY <1>b, <4>1 DEF RegisteredReachable
      <4>3. h # g
        BY <2>3, <3>2, <4>1 DEF Pending
      <4> QED  BY <1>a, <2>1, <4>2, <4>3
    <3> QED  BY <3>1, <3>2
  <2> QED  BY <2>6, <2>7, <2>8, <2>9 DEF GateInv
<1>0. ASSUME NEW k \in GateSessions, gateSessionCloses(k) PROVE GateInv'
  <2>1. /\ gconn[k] = "open" /\ gconn' = [gconn EXCEPT ![k] = "closed"]
        /\ toLogin' = [toLogin EXCEPT ![k] = <<>>]
        /\ \A g \in Gates : link[g] # k
        /\ UNCHANGED <<m_Gates, gateId, link, toGate>>
    BY <1>0 DEF gateSessionCloses
  <2>2. /\ \A l \in GateSessions : l # k => toLogin'[l] = toLogin[l] /\ gconn'[l] = gconn[l]
        /\ toLogin'[k] = <<>> /\ gconn'[k] = "closed"
    BY <1>a, <2>1
  <2>3. \A g \in Gates : link[g] # None =>
          toLogin'[link[g]] = toLogin[link[g]] /\ gconn'[link[g]] = gconn[link[g]]
    BY <1>a, <2>1, <2>2
  <2>4. Links'
    BY <1>b, <2>1, <2>3 DEF Links
  <2>5. GatePointers'
    BY <1>a, <1>b, <2>1, <2>2 DEF GatePointers
  <2>6. Registering'
    <3> SUFFICES ASSUME NEW l \in GateSessions, NEW i \in 1 .. Len(toLogin'[l])
                 PROVE  /\ toLogin'[l][i].type \in {"register", "prepar"}
                        /\ toLogin'[l][i].type = "register" =>
                             /\ i = 1 /\ PendNext(l, toLogin'[l][i].serverid)
                             /\ \A h \in Gates : m_Gates'[h] # l
      BY <1>f
    <3>1. l # k /\ toLogin'[l] = toLogin[l]
      BY <2>2
    <3>2. toLogin[l][i].type \in {"register", "prepar"}
      BY <1>b, <3>1 DEF Registering
    <3>3. ASSUME toLogin[l][i].type = "register"
          PROVE  /\ i = 1 /\ PendNext(l, toLogin[l][i].serverid)
                 /\ \A h \in Gates : m_Gates'[h] # l
      <4> DEFINE e == toLogin[l][i].serverid
      <4>1. /\ i = 1 /\ gconn[l] = "open" /\ e \in Gates /\ Pending(l, e)
            /\ \A h \in Gates : m_Gates[h] # l
        BY <1>e, <3>1, <3>3
      <4>2. gconn'[l] = "open" /\ UNCHANGED link
        BY <2>1, <2>2, <3>1, <4>1
      <4> QED  BY <2>1, <2>3, <4>1, <4>2 DEF Pending
    <3> QED  BY <3>1, <3>2, <3>3
  <2>7. RegisteredReachable'
    BY <1>b, <2>1, <2>3 DEF RegisteredReachable
  <2> QED  BY <2>4, <2>5, <2>6, <2>7 DEF GateInv
<1>7. ASSUME NEW k \in GateSessions, gateOnClose(k) PROVE GateInv'
  <2>1. /\ gconn[k] = "closed" /\ gconn' = [gconn EXCEPT ![k] = "pool"]
        /\ UNCHANGED <<gateId, link, toLogin, toGate>>
    BY <1>7 DEF gateOnClose
  <2>2. \A g \in Gates : link[g] # k
    BY <1>a, <1>b, <2>1 DEF Links
  <2>3. \A g \in Gates : m_Gates'[g] = IF m_Gates[g] = k THEN None ELSE m_Gates[g]
    BY <1>7, <1>a, <1>b DEF gateOnClose, removeGate, GatePointers
  <2>4. Links'
    BY <1>a, <1>b, <2>1, <2>2 DEF Links
  <2>5. GatePointers'
    BY <1>a, <1>b, <2>1, <2>3 DEF GatePointers
  <2>6. Registering'
    <3> SUFFICES ASSUME NEW l \in GateSessions, NEW i \in 1 .. Len(toLogin'[l])
                 PROVE  /\ toLogin'[l][i].type \in {"register", "prepar"}
                        /\ toLogin'[l][i].type = "register" =>
                             /\ i = 1 /\ PendNext(l, toLogin'[l][i].serverid)
                             /\ \A h \in Gates : m_Gates'[h] # l
      BY <1>f
    <3>1. toLogin[l][i].type \in {"register", "prepar"}
      BY <1>b, <2>1 DEF Registering
    <3>2. ASSUME toLogin[l][i].type = "register"
          PROVE  /\ i = 1 /\ PendNext(l, toLogin[l][i].serverid)
                 /\ \A h \in Gates : m_Gates'[h] # l
      <4>1. /\ i = 1 /\ gconn[l] = "open" /\ Pending(l, toLogin[l][i].serverid)
            /\ \A h \in Gates : m_Gates[h] # l
        BY <1>e, <2>1, <3>2
      <4>2. gconn'[l] = "open" /\ \A h \in Gates : m_Gates'[h] # l
        BY <1>a, <2>1, <2>3, <4>1
      <4> QED  BY <2>1, <4>1, <4>2 DEF Pending
    <3> QED  BY <2>1, <3>1, <3>2
  <2>7. RegisteredReachable'
    BY <1>a, <1>b, <2>1, <2>2, <2>3 DEF RegisteredReachable
  <2> QED  BY <2>4, <2>5, <2>6, <2>7 DEF GateInv
<1>8. ASSUME NEW g \in Gates, NEW k \in GateSessions, gateConnects(g, k) PROVE GateInv'
  <2> DEFINE m == [type |-> "register", serverid |-> g, accounts |-> Online(g)]
  <2>1. /\ link[g] = None /\ gconn[k] = "pool"
        /\ link' = [link EXCEPT ![g] = k] /\ gconn' = [gconn EXCEPT ![k] = "open"]
        /\ toLogin' = [toLogin EXCEPT ![k] = <<m>>]
        /\ UNCHANGED <<m_Gates, gateId, toGate>>
    BY <1>8 DEF gateConnects
  <2>2. /\ m.type = "register" /\ m.serverid = g
        /\ Len(<<m>>) = 1 /\ <<m>>[1] = m /\ HeadOf(<<m>>, "register")
    BY DEF HeadOf
  <2>3. (\A h \in Gates : m_Gates[h] # k) /\ (\A h \in Gates : link[h] # k)
    BY <1>a, <1>b, <2>1 DEF GatePointers, Links
  <2> HIDE DEF m
  <2>4. Links'
    BY <1>a, <1>b, <2>1, <2>3 DEF Links
  <2>5. GatePointers'
    BY <1>a, <1>b, <2>1, <2>3 DEF GatePointers
  <2>a. /\ \A l \in GateSessions : l # k => toLogin'[l] = toLogin[l] /\ gconn'[l] = gconn[l]
        /\ \A h \in Gates : h # g => link'[h] = link[h]
        /\ toLogin'[k] = <<m>> /\ link'[g] = k
    BY <1>a, <2>1
  <2>6. Registering'
    <3> SUFFICES ASSUME NEW l \in GateSessions, NEW i \in 1 .. Len(toLogin'[l])
                 PROVE  /\ toLogin'[l][i].type \in {"register", "prepar"}
                        /\ toLogin'[l][i].type = "register" =>
                             /\ i = 1 /\ PendNext(l, toLogin'[l][i].serverid)
                             /\ \A h \in Gates : m_Gates'[h] # l
      BY <1>f
    <3>1. CASE l = k
      <4>1. i = 1 /\ toLogin'[l][i] = m
        <5>1. Len(toLogin'[l]) = 1 /\ toLogin'[l][1] = m
          BY <2>2, <2>a, <3>1
        <5>2. i = 1
          BY <5>1
        <5> QED  BY <5>1, <5>2
      <4>2. PendNext(l, g)
        BY <2>a, <3>1 DEF Pending
      <4> QED  BY <2>1, <2>2, <2>3, <3>1, <4>1, <4>2 DEF Pending
    <3>2. CASE l # k
      <4>1. toLogin'[l] = toLogin[l] /\ gconn'[l] = gconn[l]
        BY <2>a, <3>2
      <4>2. toLogin[l][i].type \in {"register", "prepar"}
        BY <1>b, <4>1 DEF Registering
      <4>3. ASSUME toLogin[l][i].type = "register"
            PROVE  /\ i = 1 /\ PendNext(l, toLogin[l][i].serverid)
                   /\ \A h \in Gates : m_Gates'[h] # l
        <5> DEFINE e == toLogin[l][i].serverid
        <5>1. /\ i = 1 /\ gconn[l] = "open" /\ e \in Gates /\ Pending(l, e)
              /\ \A h \in Gates : m_Gates[h] # l
          BY <1>e, <4>1, <4>3
        <5>3. CASE link[e] = l
          <6>1. link'[e] = l
            BY <1>a, <2>1, <2>a, <5>1, <5>3
          <6> QED  BY <2>1, <5>1, <6>1 DEF Pending
        <5>4. CASE link[e] # l
          <6>1. \A h \in Gates : link'[h] # l
            BY <2>a, <3>2, <5>1, <5>4 DEF Pending
          <6>2. CASE e = g
            <7>1. HeadOf(toLogin'[link'[e]], "register")
              BY <2>2, <2>a, <6>2
            <7> QED  BY <2>1, <4>1, <5>1, <6>1, <7>1 DEF Pending
          <6>3. CASE e # g
            <7>1. link'[e] = link[e] /\ (link[e] # None => toLogin'[link[e]] = toLogin[link[e]])
              BY <1>a, <2>3, <2>a, <5>1, <6>3
            <7>2. link[e] = None \/ HeadOf(toLogin[link[e]], "register")
              BY <5>1, <5>4 DEF Pending
            <7> QED  BY <2>1, <4>1, <5>1, <6>1, <7>1, <7>2 DEF Pending
          <6> QED  BY <6>2, <6>3
        <5> QED  BY <5>3, <5>4
      <4> QED  BY <4>1, <4>2, <4>3
    <3> QED  BY <3>1, <3>2
  <2>7. RegisteredReachable'
    BY <1>a, <1>b, <2>1, <2>2, <2>3 DEF RegisteredReachable
  <2> QED  BY <2>4, <2>5, <2>6, <2>7 DEF GateInv
<1>9. ASSUME NEW g \in Gates, addToWait(g) PROVE GateInv'
  <2> DEFINE k == link[g]
             q == toLogin[k]
             m == [type |-> "prepar", t |-> Head(toGate[g]).t]
  <2>1. /\ toGate[g] # <<>> /\ toGate' = [toGate EXCEPT ![g] = Tail(@)]
        /\ toLogin' = [toLogin EXCEPT ![k] = Append(q, m)]
        /\ UNCHANGED <<m_Gates, gateVars>>
    BY <1>9 DEF addToWait, HeadOf
  <2>2. k \in GateSessions /\ q \in Seq(Message)
    BY <1>a, <1>b, <2>1 DEF Links
  <2>3. m.type = "prepar" /\ m \in Message
    <3>1. Head(toGate[g]) \in Message /\ Head(toGate[g]).type = "login"
      BY <1>9, <1>a, Received DEF addToWait
    <3> QED  BY <3>1, MessageFields
  <2>4. Links'
    BY <1>a, <1>b, <2>1 DEF Links
  <2> HIDE DEF q, m
  <2>5. /\ Len(Append(q, m)) = Len(q) + 1 /\ Len(q) \in Nat
        /\ Append(q, m)[Len(q) + 1] = m
        /\ \A i \in 1 .. Len(q) : Append(q, m)[i] = q[i]
        /\ Append(q, m) # <<>> /\ Head(Append(q, m)) = Append(q, m)[1]
    BY <2>2, <2>3, AppendProperties, LenProperties
  <2>6. HeadOf(Append(q, m), "register") <=> HeadOf(q, "register")
    <3>1. CASE q = <<>>
      BY <2>3, <2>5, <3>1 DEF HeadOf
    <3>2. CASE q # <<>>
      <4>1. Head(q) = q[1] /\ 1 \in 1 .. Len(q)
        BY <2>2, <3>2, HeadTailProperties, EmptySeq
      <4> QED  BY <2>5, <3>2, <4>1 DEF HeadOf
    <3> QED  BY <3>1, <3>2
  <2>7. GatePointers'
    BY <1>b, <2>1 DEF GatePointers
  <2>8. Registering'
    <3>1. \A l \in GateSessions : l # k => toLogin'[l] = toLogin[l]
      BY <1>a, <2>1
    <3>2. toLogin'[k] = Append(q, m) /\ q = toLogin[k]
      BY <1>a, <2>1, <2>2 DEF q
    <3>3. \A l \in GateSessions, h \in Gates : Pending(l, h) => PendNext(l, h)
      BY <1>a, <2>1, <2>6, <3>1, <3>2 DEF Pending
    <3> SUFFICES ASSUME NEW l \in GateSessions, NEW i \in 1 .. Len(toLogin'[l])
                 PROVE  /\ toLogin'[l][i].type \in {"register", "prepar"}
                        /\ toLogin'[l][i].type = "register" =>
                             /\ i = 1 /\ PendNext(l, toLogin'[l][i].serverid)
                             /\ \A h \in Gates : m_Gates'[h] # l
      BY <1>f
    <3>4. CASE toLogin'[l][i] = m
      BY <2>3, <3>4
    <3>5. CASE i \in 1 .. Len(toLogin[l]) /\ toLogin'[l][i] = toLogin[l][i]
      <4>1. toLogin[l][i].type \in {"register", "prepar"}
        BY <1>b, <3>5 DEF Registering
      <4>2. ASSUME toLogin[l][i].type = "register"
            PROVE  /\ i = 1 /\ PendNext(l, toLogin[l][i].serverid)
                   /\ \A h \in Gates : m_Gates[h] # l
        <5>1. /\ i = 1 /\ Head(toLogin[l]) = toLogin[l][i] /\ Head(toLogin[l]).serverid \in Gates
              /\ Pending(l, Head(toLogin[l]).serverid) /\ \A h \in Gates : m_Gates[h] # l
          BY <1>e, <3>5, <4>2
        <5> QED  BY <3>3, <5>1
      <4> QED  BY <2>1, <3>5, <4>1, <4>2
    <3>6. toLogin'[l][i] = m \/ (i \in 1 .. Len(toLogin[l]) /\ toLogin'[l][i] = toLogin[l][i])
      <4>1. CASE l = k
        <5>1. i \in 1 .. Len(q) + 1
          BY <2>5, <3>2, <4>1
        <5>2. i \in 1 .. Len(q) \/ i = Len(q) + 1
          BY <2>5, <5>1
        <5> QED  BY <2>5, <3>2, <4>1, <5>2
      <4>2. CASE l # k
        BY <3>1, <4>2
      <4> QED  BY <4>1, <4>2
    <3> QED  BY <3>4, <3>5, <3>6
  <2>9. RegisteredReachable'
    BY <1>a, <1>b, <2>1, <2>2, <2>6 DEF RegisteredReachable, q
  <2> QED  BY <2>4, <2>7, <2>8, <2>9 DEF GateInv
<1>10. ASSUME NEW g \in Gates, kickUser(g) PROVE GateInv'
  <2>1. /\ toGate[g] # <<>> /\ toGate' = [toGate EXCEPT ![g] = Tail(@)]
        /\ UNCHANGED <<m_Gates, gateVars, toLogin>>
    BY <1>10 DEF kickUser, HeadOf
  <2> QED  BY <1>a, <1>b, <1>d, <2>1 DEF Links
<1>11. ASSUME NEW g \in Gates, NEW t \in Tickets, userConnects(g, t) \/ userLeaves(g, t)
       PROVE  GateInv'
  BY <1>11, <1>c DEF userConnects, userLeaves
<1>12. ASSUME NEW g \in Gates, NEW a \in Accounts, reconnTimer(g, a) PROVE GateInv'
  BY <1>12, <1>c DEF reconnTimer
<1>13. ASSUME NEW g \in Gates, gateLinkLost(g) PROVE GateInv'
  <2> DEFINE k == link[g]
  <2>1. /\ k \in GateSessions
        /\ link' = [link EXCEPT ![g] = None] /\ toGate' = [toGate EXCEPT ![g] = <<>>]
        /\ UNCHANGED <<m_Gates, gconn, gateId>>
    BY <1>13, <1>a DEF gateLinkLost
  <2>2. PICK n \in 0 .. Len(toLogin[k]) :
          toLogin' = [toLogin EXCEPT ![k] = SubSeq(@, 1, n)]
    BY <1>13 DEF gateLinkLost
  <2> DEFINE r == SubSeq(toLogin[k], 1, n)
  <2>3. Len(r) = n /\ \A i \in 1 .. n : i \in 1 .. Len(toLogin[k]) /\ r[i] = toLogin[k][i]
    BY <1>a, <2>1, FirstMessages
  <2>4. toLogin'[k] = r /\ \A l \in GateSessions : l # k => toLogin'[l] = toLogin[l]
    BY <1>a, <2>1, <2>2
  <2>5. link'[g] = None /\ \A h \in Gates : h # g => link[h] # k /\ link'[h] = link[h]
    BY <1>a, <1>b, <2>1 DEF Links
  <2>6. link[g] = k
    OBVIOUS
  <2> HIDE DEF k, r
  <2>7. Links'
    BY <1>a, <1>b, <2>1, <2>5 DEF Links
  <2>8. GatePointers'
    BY <1>b, <2>1 DEF GatePointers
  <2>9. Registering'
    <3> SUFFICES ASSUME NEW l \in GateSessions, NEW i \in 1 .. Len(toLogin'[l])
                 PROVE  /\ toLogin'[l][i].type \in {"register", "prepar"}
                        /\ toLogin'[l][i].type = "register" =>
                             /\ i = 1 /\ PendNext(l, toLogin'[l][i].serverid)
                             /\ \A h \in Gates : m_Gates'[h] # l
      BY <1>f
    <3>1. i \in 1 .. Len(toLogin[l]) /\ toLogin'[l][i] = toLogin[l][i]
      BY <2>3, <2>4
    <3>2. toLogin[l][i].type \in {"register", "prepar"}
      BY <1>b, <3>1 DEF Registering
    <3>3. ASSUME toLogin[l][i].type = "register"
          PROVE  /\ i = 1 /\ PendNext(l, toLogin'[l][i].serverid)
                 /\ \A h \in Gates : m_Gates'[h] # l
      <4> DEFINE e == toLogin[l][i].serverid
      <4>1. /\ i = 1 /\ gconn[l] = "open" /\ e \in Gates /\ Pending(l, e)
            /\ \A h \in Gates : m_Gates[h] # l
        BY <1>e, <3>1, <3>3
      <4>2. toLogin'[l][i].serverid = e /\ gconn'[l] = "open" /\ \A h \in Gates : m_Gates'[h] # l
        BY <2>1, <3>1, <4>1
      <4>3. CASE link[e] = l /\ e # g
        BY <2>5, <4>1, <4>2, <4>3 DEF Pending
      <4>4. CASE link[e] = l /\ e = g
        <5>1. \A h \in Gates : link'[h] # l
          BY <1>a, <2>5, <2>6, <4>4
        <5> QED  BY <2>5, <4>1, <4>2, <4>4, <5>1 DEF Pending
      <4>5. CASE link[e] # l
        <5>1. \A h \in Gates : link[h] # l
          BY <4>1, <4>5 DEF Pending
        <5>2. \A h \in Gates : link'[h] # l
          BY <1>a, <2>5, <5>1
        <5>3. CASE e = g
          BY <2>5, <4>1, <4>2, <5>2, <5>3 DEF Pending
        <5>4. CASE e # g
          <6>1. link'[e] = link[e] /\ (link[e] # None => toLogin'[link[e]] = toLogin[link[e]])
            BY <1>a, <2>4, <2>5, <4>1, <5>4
          <6>2. link[e] = None \/ HeadOf(toLogin[link[e]], "register")
            BY <4>1, <4>5 DEF Pending
          <6> QED  BY <4>1, <4>2, <5>2, <6>1, <6>2 DEF Pending
        <5> QED  BY <5>3, <5>4
      <4> HIDE DEF e
      <4> QED  BY <4>1, <4>2, <4>3, <4>4, <4>5
    <3> QED  BY <3>1, <3>2, <3>3
  <2>10. RegisteredReachable'
    <3> SUFFICES ASSUME NEW h \in Gates, link'[h] # None,
                        ~HeadOf(toLogin'[link'[h]], "register")
                 PROVE  m_Gates'[h] = link'[h]
      BY DEF RegisteredReachable, HeadOf
    <3>1. h # g /\ link'[h] = link[h] /\ toLogin'[link[h]] = toLogin[link[h]]
      BY <1>a, <2>4, <2>5
    <3> QED  BY <1>b, <2>1, <3>1 DEF RegisteredReachable
  <2> QED  BY <2>7, <2>8, <2>9, <2>10 DEF GateInv
<1>14. CASE restart
  BY <1>14 DEF restart, GateInv, Links, Registering, GatePointers, RegisteredReachable
<1>15. CASE UNCHANGED vars
  BY <1>15, <1>c DEF vars
<1> QED
  BY <1>0, <1>1, <1>2, <1>3, <1>4, <1>5, <1>6, <1>7, <1>8, <1>9, <1>10, <1>11, <1>12, <1>13,
     <1>14, <1>15
     DEF Next, Clients, MainLoop, GateSteps, checkAccountCall

-----------------------------------------------------------------------------
(* Every step keeps a session that waits for a gate on file.               *)
LEMMA FiledStep ==
    TypeOK /\ GateInv /\ WaitingIsFiled /\ Filed /\ [Next]_vars => WaitingIsFiled' /\ Filed'
<1> SUFFICES ASSUME TypeOK, GateInv, WaitingIsFiled, Filed, [Next]_vars
             PROVE  WaitingIsFiled' /\ Filed'
  OBVIOUS
<1> USE LoginAssumption DEF userVars, acctVars, gateVars, gtVars, lossVars
<1>a. /\ state \in [Sessions -> States]
      /\ m_WaitSessions \in [Tickets -> Sessions \cup {None}]
      /\ tickets \in Nat /\ \A t \in Tickets : t \in Nat
      /\ \A c \in checks : c.s \in Sessions
      /\ None \notin Sessions
  BY DEF TypeOK, Tickets
<1>b. ASSUME UNCHANGED <<m_WaitSessions, tickets>>,
             \A s \in Sessions : state'[s] = "wait_gate" => state[s] = "wait_gate"
      PROVE  WaitingIsFiled' /\ Filed'
  BY <1>b DEF WaitingIsFiled, Filed
<1>1. ASSUME NEW s \in Sessions,
             ArmAccept(s) \/ Accept(s) \/ on_accept(s) \/ ClientCloses(s) \/ on_close(s)
      PROVE  WaitingIsFiled' /\ Filed'
  BY <1>1, <1>a, <1>b DEF ArmAccept, Accept, on_accept, ClientCloses, on_close
<1>2. ASSUME NEW s \in Sessions, NEW a \in Accounts, NEW kind \in {"login", "new"},
             checkAccount(s, a, kind)
      PROVE  WaitingIsFiled' /\ Filed'
  BY <1>2, <1>a, <1>b DEF checkAccount
<1>3. ASSUME NEW c \in checks,
             checkInvalid(c) \/ checkRefused(c) \/ CreateNewAccount(c) \/ noGate(c)
      PROVE  WaitingIsFiled' /\ Filed'
  BY <1>3, <1>a, <1>b DEF checkInvalid, checkRefused, CreateNewAccount, noGate
<1>4. ASSUME NEW c \in checks, giveUserToGate(c) PROVE WaitingIsFiled' /\ Filed'
  <2>1. /\ tickets + 1 \in Tickets /\ tickets' = tickets + 1
        /\ m_WaitSessions' = [m_WaitSessions EXCEPT ![tickets + 1] = c.s]
        /\ state' = [state EXCEPT ![c.s] = "wait_gate"]
    BY <1>4, Given
  <2>2. \A t \in Tickets : m_WaitSessions[t] # None => t # tickets + 1
    BY <1>a DEF Filed
  <2>3. WaitingIsFiled'
    BY <1>a, <2>1, <2>2 DEF WaitingIsFiled
  <2>4. Filed'
    BY <1>a, <2>1 DEF Filed
  <2> QED  BY <2>3, <2>4
<1>5. ASSUME NEW k \in GateSessions, receiveUserPrepar(k) PROVE WaitingIsFiled' /\ Filed'
  <2> DEFINE t == Head(toLogin[k]).t
             s == m_WaitSessions[t]
  <2>1. /\ m_WaitSessions' = [m_WaitSessions EXCEPT ![t] = None]
        /\ state' = IF s = None THEN state ELSE [state EXCEPT ![s] = "wait_close"]
        /\ tickets' = tickets
    BY <1>5 DEF receiveUserPrepar
  <2>2. Head(toLogin[k]) \in Message /\ Head(toLogin[k]).type = "prepar"
    BY <1>5, Received DEF receiveUserPrepar, TypeOK
  <2>3. t \in Tickets
    BY <2>2, MessageFields
  <2> HIDE DEF t
  <2>4. WaitingIsFiled'
    BY <1>a, <2>1, <2>3 DEF WaitingIsFiled
  <2>5. Filed'
    BY <1>a, <2>1, <2>3 DEF Filed
  <2> QED  BY <2>4, <2>5
<1>6. ASSUME NEW k \in GateSessions,
             parseGateRegister(k) \/ gateSessionCloses(k) \/ gateOnClose(k)
      PROVE  WaitingIsFiled' /\ Filed'
  BY <1>6, <1>b DEF parseGateRegister, gateSessionCloses, gateOnClose
<1>7. ASSUME NEW g \in Gates, GateSteps(g) \/ gateLinkLost(g)
      PROVE  WaitingIsFiled' /\ Filed'
  BY <1>7, <1>b DEF GateSteps, gateConnects, addToWait, kickUser, userConnects, userLeaves,
                    reconnTimer, gateLinkLost
<1>8. CASE restart
  BY <1>8 DEF restart, WaitingIsFiled, Filed
<1>9. CASE UNCHANGED vars
  BY <1>9, <1>b DEF vars
<1> QED
  BY <1>1, <1>2, <1>3, <1>4, <1>5, <1>6, <1>7, <1>8, <1>9
     DEF Next, Clients, MainLoop, checkAccountCall

(* What Append and Tail do to the messages under way, one by one.          *)
LEMMA AppendMessages ==
    ASSUME NEW q \in Seq(Message), NEW m \in Message
    PROVE  /\ Append(q, m) \in Seq(Message) /\ Len(q) \in Nat
           /\ Len(Append(q, m)) = Len(q) + 1
           /\ Append(q, m)[Len(q) + 1] = m
           /\ \A i \in 1 .. Len(q) : Append(q, m)[i] = q[i]
           /\ \A i \in 1 .. Len(q) + 1 : i \in 1 .. Len(q) \/ i = Len(q) + 1
<1>1. Len(q) \in Nat
  BY LenProperties
<1>2. \A n \in Nat : \A i \in 1 .. n + 1 : i \in 1 .. n \/ i = n + 1
  OBVIOUS
<1>3. /\ Append(q, m) \in Seq(Message)
      /\ Len(Append(q, m)) = Len(q) + 1
      /\ Append(q, m)[Len(q) + 1] = m
      /\ \A i \in 1 .. Len(q) : Append(q, m)[i] = q[i]
  BY AppendProperties
<1> QED  BY ONLY <1>1, <1>2, <1>3

(* Every step keeps every ticket known.                                    *)
LEMMA KnownStep == TypeOK /\ GateInv /\ Known /\ [Next]_vars => Known'
<1> SUFFICES ASSUME TypeOK, GateInv, Known, [Next]_vars PROVE Known'
  OBVIOUS
<1> USE LoginAssumption DEF userVars, acctVars, gateVars, gtVars, lossVars
<1>a. /\ m_Accts \in [Accounts -> [gate : Gates, tran : Tickets] \cup {None}]
      /\ accountOf \in [Tickets -> Accounts \cup {None}]
      /\ users \in [Gates -> SUBSET Tickets]
      /\ onlineaccs \in [Gates -> [Accounts -> Tickets \cup {None}]]
      /\ toLogin \in [GateSessions -> Seq(Message)]
      /\ toGate \in [Gates -> Seq(Message)]
      /\ tickets \in Nat /\ None \notin Tickets
  BY DEF TypeOK
<1>b. TicketsOwned /\ UsersKnown /\ OnlineKnown /\ AcctsKnown /\ ToGateKnown /\ ToLoginKnown
  BY DEF Known
<1>c. ASSUME UNCHANGED <<tickets, accountOf, m_Accts, gtVars, toGate, toLogin>> PROVE Known'
  BY <1>b, <1>c DEF Known, TicketsOwned, UsersKnown, OnlineKnown, AcctsKnown, ToGateKnown,
                    ToLoginKnown
<1>d. UNCHANGED <<tickets, accountOf>> => TicketsOwned'
  BY <1>b DEF TicketsOwned
<1>e. UNCHANGED <<tickets, users>> => UsersKnown'
  BY <1>b DEF UsersKnown
<1>f. UNCHANGED <<tickets, onlineaccs>> => OnlineKnown'
  BY <1>b DEF OnlineKnown
<1>g. UNCHANGED <<tickets, m_Accts>> => AcctsKnown'
  BY <1>b DEF AcctsKnown
<1>h. UNCHANGED <<tickets, toGate>> => ToGateKnown'
  BY <1>b DEF ToGateKnown
<1>i. UNCHANGED <<tickets, toLogin>> => ToLoginKnown'
  BY <1>b DEF ToLoginKnown
<1>j. ASSUME NEW k \in GateSessions, NEW y, HeadOf(toLogin[k], y),
             toLogin' = [toLogin EXCEPT ![k] = Tail(@)], tickets' = tickets
      PROVE  ToLoginKnown'
  <2> DEFINE q == Tail(toLogin[k])
  <2>1. \A i \in 1 .. Len(q) : i + 1 \in 1 .. Len(toLogin[k]) /\ q[i] = toLogin[k][i + 1]
    BY <1>a, <1>j, Received
  <2>2. \A l \in GateSessions : toLogin'[l] = IF l = k THEN q ELSE toLogin[l]
    BY <1>a, <1>j
  <2> HIDE DEF q
  <2>3. \A i \in 1 .. Len(q) : q[i].type = "register" => \A x \in q[i].accounts : x[2] <= tickets
    BY <1>b, <2>1 DEF ToLoginKnown
  <2> QED  BY <1>b, <1>j, <2>2, <2>3 DEF ToLoginKnown
<1>k. ASSUME NEW g \in Gates, NEW y, HeadOf(toGate[g], y),
             toGate' = [toGate EXCEPT ![g] = Tail(@)], tickets' = tickets
      PROVE  /\ ToGateKnown'
             /\ Head(toGate[g]).t \in Tickets /\ Head(toGate[g]).t <= tickets
  <2>1. /\ Len(toGate[g]) \in Nat \ {0} /\ Len(Tail(toGate[g])) = Len(toGate[g]) - 1
        /\ \A i \in 1 .. Len(toGate[g]) - 1 : Tail(toGate[g])[i] = toGate[g][i + 1]
        /\ Head(toGate[g]) \in Message /\ Head(toGate[g]) = toGate[g][1]
    BY <1>a, <1>k, Received
  <2>2. ToGateKnown'
    BY <1>a, <1>b, <1>k, <2>1 DEF ToGateKnown
  <2>3. Head(toGate[g]).type # "register" /\ Head(toGate[g]).t <= tickets
    BY <1>b, <2>1 DEF ToGateKnown
  <2> QED  BY <2>1, <2>2, <2>3, MessageFields
<1>1. ASSUME NEW s \in Sessions,
             ArmAccept(s) \/ Accept(s) \/ on_accept(s) \/ ClientCloses(s) \/ on_close(s)
      PROVE  Known'
  BY <1>1, <1>c DEF ArmAccept, Accept, on_accept, ClientCloses, on_close
<1>2. ASSUME NEW s \in Sessions, NEW a \in Accounts, NEW kind \in {"login", "new"},
             checkAccount(s, a, kind)
      PROVE  Known'
  BY <1>2, <1>c DEF checkAccount
<1>3. ASSUME NEW c \in checks, checkInvalid(c) \/ checkRefused(c) \/ CreateNewAccount(c)
      PROVE  Known'
  BY <1>3, <1>c DEF checkInvalid, checkRefused, CreateNewAccount
<1>4. ASSUME NEW c \in checks, noGate(c) PROVE Known'
  <2>1. UNCHANGED <<tickets, accountOf, gtVars, toGate, toLogin>>
    BY <1>4 DEF noGate
  <2>2. AcctsKnown'
    BY <1>4, <1>a, <1>b DEF noGate, AcctsKnown
  <2> QED  BY <2>1, <2>2, <1>d, <1>e, <1>f, <1>h, <1>i DEF Known
<1>5. ASSUME NEW c \in checks, giveUserToGate(c) PROVE Known'
  <2>1. /\ c.a \in Accounts /\ tickets + 1 \in Tickets /\ tickets' = tickets + 1
        /\ accountOf' = [accountOf EXCEPT ![tickets + 1] = c.a]
    BY <1>5, Given
  <2>2. PICK g \in Gates, q \in [Gates -> Seq(Message)] : GivenTo(c, g, q)
    BY <1>5, Given, Zenon
  <2>3. UNCHANGED <<gtVars, toLogin>>
    BY <1>5 DEF giveUserToGate
  <2>4. \A t \in Tickets : t \in Nat /\ (t <= tickets + 1 => t <= tickets \/ t = tickets + 1)
    BY <1>a DEF Tickets
  <2>5. TicketsOwned'
    BY <1>a, <1>b, <2>1, <2>4 DEF TicketsOwned
  <2>6. UsersKnown' /\ OnlineKnown'
    <3>1. \A t \in Tickets : t <= tickets => t <= tickets + 1
      BY ONLY <1>a DEF Tickets
    <3>2. \A h \in Gates : \A t \in users[h] : t \in Tickets /\ t <= tickets
      BY <1>a, <1>b DEF UsersKnown
    <3>3. UNCHANGED users /\ UNCHANGED onlineaccs
      BY <2>3
    <3>4. UsersKnown'
      BY ONLY <2>1, <3>1, <3>2, <3>3 DEF UsersKnown
    <3>5. OnlineKnown'
      BY <1>a, <1>b, <2>1, <3>1, <3>3 DEF OnlineKnown
    <3> QED  BY <3>4, <3>5
  <2>7. AcctsKnown'
    BY <1>a, <1>b, <2>1, <2>2, <2>4 DEF AcctsKnown, GivenTo
  <2>8. ToLoginKnown'
    <3>1. \A k \in GateSessions : \A i \in 1 .. Len(toLogin[k]) :
            toLogin[k][i].type = "register" =>
                \A x \in toLogin[k][i].accounts : x[2] \in Tickets
      BY <1>a, MessageFields, ElementOfSeq
    <3> QED  BY <1>a, <1>b, <2>1, <2>3, <2>4, <3>1 DEF ToLoginKnown
  <2>9. ToGateKnown'
    <3> SUFFICES ASSUME NEW h \in Gates, NEW i \in 1 .. Len(toGate'[h])
                 PROVE  toGate'[h][i].type \in {"login", "kick"}
                          /\ toGate'[h][i].t <= tickets + 1
      BY <2>1 DEF ToGateKnown
    <3>1. \A j \in 1 .. Len(toGate[h]) : toGate[h][j].type \in {"login", "kick"}
                                           /\ toGate[h][j].t <= tickets + 1
      <4>1. \A j \in 1 .. Len(toGate[h]) : /\ toGate[h][j].type \in {"login", "kick"}
                                           /\ toGate[h][j].t <= tickets
                                           /\ toGate[h][j].t \in Tickets
        BY <1>a, <1>b, MessageFields, ElementOfSeq DEF ToGateKnown
      <4>2. \A t \in Tickets : t <= tickets => t <= tickets + 1
        BY ONLY <1>a DEF Tickets
      <4> QED  BY ONLY <4>1, <4>2
    <3>2. \A j \in 1 .. Len(q[h]) : q[h][j].type \in {"login", "kick"}
                                      /\ q[h][j].t <= tickets + 1
      <4>1. CASE q[h] = toGate[h]
        BY <3>1, <4>1
      <4>2. CASE /\ m_Accts[c.a] # None
                 /\ q[h] = Append(toGate[h], [type |-> "kick", t |-> m_Accts[c.a].tran])
        <5> DEFINE m == [type |-> "kick", t |-> m_Accts[c.a].tran]
        <5>1. m_Accts[c.a].tran \in Tickets /\ m_Accts[c.a].tran <= tickets
          BY <1>a, <1>b, <2>1, <4>2 DEF AcctsKnown
        <5>4. m_Accts[c.a].tran <= tickets + 1
          BY <1>a, <2>4, <5>1
        <5>2. m \in Message /\ m.type = "kick" /\ m.t <= tickets + 1
          BY <5>1, <5>4, MessageFields
        <5>3. q[h] = Append(toGate[h], m)
          BY <4>2
        <5> HIDE DEF m
        <5> QED  BY <1>a, <3>1, <5>2, <5>3, AppendMessages
      <4> QED  BY <2>2, <4>1, <4>2 DEF GivenTo
    <3>3. CASE toGate'[h] = q[h]
      BY <3>2, <3>3
    <3>4. CASE toGate'[h] = Append(q[h], [type |-> "login", t |-> tickets + 1])
      <4> DEFINE m == [type |-> "login", t |-> tickets + 1]
      <4>1. m \in Message /\ m.type = "login" /\ m.t = tickets + 1 /\ toGate'[h] = Append(q[h], m)
        BY <2>1, <3>4, MessageFields
      <4>2. tickets + 1 <= tickets + 1
        BY <1>a
      <4> HIDE DEF m
      <4> QED  BY <3>2, <4>1, <4>2, AppendMessages
    <3> QED  BY <2>2, <3>3, <3>4 DEF GivenTo
  <2> QED  BY <2>5, <2>6, <2>7, <2>8, <2>9 DEF Known
<1>6. ASSUME NEW k \in GateSessions, receiveUserPrepar(k) PROVE Known'
  <2>1. UNCHANGED <<tickets, accountOf, gtVars, toGate, m_Accts>>
    BY <1>6 DEF receiveUserPrepar
  <2>2. ToLoginKnown'
    BY <1>6, <1>j DEF receiveUserPrepar
  <2> QED  BY <2>1, <2>2, <1>d, <1>e, <1>f, <1>g, <1>h DEF Known
<1>7. ASSUME NEW k \in GateSessions, parseGateRegister(k) PROVE Known'
  <2>1. UNCHANGED <<tickets, accountOf, gtVars, toGate>>
    BY <1>7 DEF parseGateRegister
  <2>2. ToLoginKnown'
    BY <1>7, <1>j DEF parseGateRegister
  <2>3. AcctsKnown'
    <3> DEFINE g == Head(toLogin[k]).serverid
               accounts == Head(toLogin[k]).accounts
    <3>1. m_Accts' = m_Accts \/ m_Accts' = addAccounts(g, accounts)
      BY <1>7 DEF parseGateRegister
    <3>2. /\ Head(toLogin[k]).type = "register"
          /\ Head(toLogin[k]) = toLogin[k][1] /\ 1 \in 1 .. Len(toLogin[k])
      BY <1>7, <1>a, Received DEF parseGateRegister
    <3>3. \A x \in accounts : x[2] <= tickets
      BY <1>b, <3>2 DEF ToLoginKnown
    <3> HIDE DEF accounts, g
    <3>4. ASSUME NEW a \in Accounts, addAccounts(g, accounts)[a] # None
          PROVE  addAccounts(g, accounts)[a].tran <= tickets
      <4>1. CASE \E t \in Tickets : <<a, t>> \in accounts
        <5>1. <<a, CHOOSE t \in Tickets : <<a, t>> \in accounts>> \in accounts
          BY <4>1
        <5>2. addAccounts(g, accounts)[a].tran = CHOOSE t \in Tickets : <<a, t>> \in accounts
          BY <4>1 DEF addAccounts
        <5> QED  BY <3>3, <5>1, <5>2
      <4>2. CASE ~(\E t \in Tickets : <<a, t>> \in accounts)
        <5>1. addAccounts(g, accounts)[a] = m_Accts[a]
          BY <4>2 DEF addAccounts
        <5> QED  BY <1>b, <3>4, <5>1 DEF AcctsKnown
      <4> QED  BY <4>1, <4>2
    <3> QED  BY <1>b, <2>1, <3>1, <3>4 DEF AcctsKnown
  <2> QED  BY <2>1, <2>2, <2>3, <1>d, <1>e, <1>f, <1>h DEF Known
<1>8. ASSUME NEW k \in GateSessions, gateSessionCloses(k) \/ gateOnClose(k) PROVE Known'
  <2>1. CASE gateSessionCloses(k)
    <3>1. /\ UNCHANGED <<tickets, accountOf, m_Accts, gtVars, toGate>>
          /\ toLogin' = [toLogin EXCEPT ![k] = <<>>]
      BY <2>1 DEF gateSessionCloses
    <3>2. ToLoginKnown'
      BY <1>a, <1>b, <3>1 DEF ToLoginKnown
    <3> QED  BY <3>1, <3>2, <1>d, <1>e, <1>f, <1>g, <1>h DEF Known
  <2>2. CASE gateOnClose(k)
    BY <2>2, <1>c DEF gateOnClose
  <2> QED  BY <1>8, <2>1, <2>2
<1>9. ASSUME NEW g \in Gates, NEW k \in GateSessions, gateConnects(g, k) PROVE Known'
  <2> DEFINE m == [type |-> "register", serverid |-> g, accounts |-> Online(g)]
  <2>1. /\ UNCHANGED <<tickets, accountOf, gtVars, toGate, m_Accts>>
        /\ toLogin' = [toLogin EXCEPT ![k] = <<m>>]
    BY <1>9 DEF gateConnects
  <2>2. \A x \in m.accounts : x[2] <= tickets
    BY <1>a, <1>b DEF Online, OnlineKnown
  <2>3. Len(<<m>>) = 1 /\ <<m>>[1] = m
    OBVIOUS
  <2> HIDE DEF m
  <2>4. ToLoginKnown'
    BY <1>a, <1>b, <2>1, <2>2, <2>3 DEF ToLoginKnown
  <2> QED  BY <2>1, <2>4, <1>d, <1>e, <1>f, <1>g, <1>h DEF Known
<1>10. ASSUME NEW g \in Gates, addToWait(g) PROVE Known'
  <2> DEFINE m == [type |-> "prepar", t |-> Head(toGate[g]).t]
             k == link[g]
  <2>1. /\ UNCHANGED <<tickets, accountOf, onlineaccs, m_Accts>>
        /\ toLogin' = [toLogin EXCEPT ![k] = Append(@, m)]
        /\ users' = [users EXCEPT ![g] = @ \cup {Head(toGate[g]).t}]
    BY <1>10 DEF addToWait
  <2>2. ToGateKnown' /\ Head(toGate[g]).t \in Tickets /\ Head(toGate[g]).t <= tickets
    BY <1>10, <1>k, <2>1 DEF addToWait
  <2>3. UsersKnown'
    BY <1>a, <1>b, <2>1, <2>2 DEF UsersKnown
  <2>4. k \in GateSessions
    BY <1>10 DEF addToWait, HeadOf, GateInv, Links, TypeOK
  <2>5. m \in Message /\ m.type = "prepar"
    BY <2>2, MessageFields
  <2> HIDE DEF m, k
  <2>6. /\ Len(Append(toLogin[k], m)) = Len(toLogin[k]) + 1
        /\ Append(toLogin[k], m)[Len(toLogin[k]) + 1] = m
        /\ \A i \in 1 .. Len(toLogin[k]) : Append(toLogin[k], m)[i] = toLogin[k][i]
        /\ \A i \in 1 .. Len(toLogin[k]) + 1 : i \in 1 .. Len(toLogin[k]) \/ i = Len(toLogin[k]) + 1
    BY <1>a, <2>4, <2>5, AppendMessages
  <2>7. ToLoginKnown'
    BY <1>a, <1>b, <2>1, <2>4, <2>5, <2>6 DEF ToLoginKnown
  <2> QED  BY <2>1, <2>2, <2>3, <2>7, <1>d, <1>f, <1>g DEF Known
<1>11. ASSUME NEW g \in Gates, kickUser(g) PROVE Known'
  <2> DEFINE t == Head(toGate[g]).t
  <2>1. /\ UNCHANGED <<tickets, accountOf, m_Accts, toLogin>>
        /\ users' = [users EXCEPT ![g] = @ \ {t}] \/ users' = users
        /\ \/ onlineaccs' = [onlineaccs EXCEPT ![g][accountOf[t]] = None]
           \/ onlineaccs' = onlineaccs
    BY <1>11 DEF kickUser, kickOnline, kickWaiting, kickReconn, kickNobody
  <2>2. ToGateKnown' /\ t \in Tickets /\ t <= tickets
    BY <1>11, <1>k, <2>1 DEF kickUser
  <2>3. UsersKnown'
    BY <1>a, <1>b, <2>1 DEF UsersKnown
  <2>4. accountOf[t] \in Accounts
    BY <1>b, <2>2 DEF TicketsOwned
  <2> HIDE DEF t
  <2>5. \A h \in Gates, a \in Accounts :
          onlineaccs'[h][a] = None \/ onlineaccs'[h][a] = onlineaccs[h][a]
    <3>1. \A h \in Gates, a \in Accounts :
            [onlineaccs EXCEPT ![g][accountOf[t]] = None][h][a]
              = IF h = g /\ a = accountOf[t] THEN None ELSE onlineaccs[h][a]
      BY ONLY <1>a, <2>4, OnlineUpdate
    <3>2. CASE onlineaccs' = [onlineaccs EXCEPT ![g][accountOf[t]] = None]
      BY ONLY <3>1, <3>2
    <3>3. CASE onlineaccs' = onlineaccs
      BY ONLY <3>3
    <3> QED  BY ONLY <2>1, <3>2, <3>3
  <2>6. OnlineKnown'
    BY <1>b, <2>1, <2>5 DEF OnlineKnown
  <2> QED  BY <2>1, <2>2, <2>3, <2>6, <1>d, <1>g, <1>i DEF Known
<1>12. ASSUME NEW g \in Gates, NEW t \in Tickets, userConnects(g, t) \/ userLeaves(g, t)
       PROVE  Known'
  <2>1. UNCHANGED <<tickets, accountOf, m_Accts, toLogin, toGate>> /\ t <= tickets
    BY <1>12, <1>b DEF userConnects, userLeaves, UsersKnown
  <2>2. UsersKnown'
    <3>1. \A h \in Gates : users'[h] \subseteq users[h]
      <4>1. CASE userConnects(g, t)
        BY <4>1 DEF userConnects
      <4>2. CASE userLeaves(g, t)
        BY <4>2, <1>a DEF userLeaves
      <4> QED  BY <1>12, <4>1, <4>2
    <3> QED  BY <1>b, <2>1, <3>1 DEF UsersKnown
  <2>3. accountOf[t] \in Accounts
    BY <1>b, <2>1 DEF TicketsOwned
  <2>4. \A h \in Gates, a \in Accounts :
          onlineaccs'[h][a] \in {None, t, onlineaccs[h][a]}
    <3>1. \A x \in Tickets \cup {None} : \A h \in Gates, a \in Accounts :
            [onlineaccs EXCEPT ![g][accountOf[t]] = x][h][a]
              = IF h = g /\ a = accountOf[t] THEN x ELSE onlineaccs[h][a]
      BY ONLY <1>a, <2>3, OnlineUpdate
    <3>2. \E x \in {None, t} : \/ onlineaccs' = [onlineaccs EXCEPT ![g][accountOf[t]] = x]
                               \/ onlineaccs' = onlineaccs
      BY <1>12 DEF userConnects, userLeaves
    <3>3. ASSUME NEW x \in {None, t},
                 onlineaccs' = [onlineaccs EXCEPT ![g][accountOf[t]] = x]
          PROVE  \A h \in Gates, a \in Accounts : onlineaccs'[h][a] \in {x, onlineaccs[h][a]}
      BY ONLY <3>1, <3>3
    <3> QED  BY <3>2, <3>3
  <2>5. OnlineKnown'
    BY <1>b, <2>1, <2>4 DEF OnlineKnown
  <2> QED  BY <2>1, <2>2, <2>5, <1>d, <1>g, <1>h, <1>i DEF Known
<1>13. ASSUME NEW g \in Gates, NEW a \in Accounts, reconnTimer(g, a) PROVE Known'
  <2>1. /\ UNCHANGED <<tickets, accountOf, m_Accts, toLogin, toGate, users>>
        /\ onlineaccs' = [onlineaccs EXCEPT ![g][a] = None]
    BY <1>13 DEF reconnTimer
  <2>2. \A h \in Gates, b \in Accounts :
          [onlineaccs EXCEPT ![g][a] = None][h][b]
            = IF h = g /\ b = a THEN None ELSE onlineaccs[h][b]
    BY ONLY <1>a, <1>13, OnlineUpdate
  <2>3. OnlineKnown'
    BY <1>b, <2>1, <2>2 DEF OnlineKnown
  <2> QED  BY <2>1, <2>3, <1>d, <1>e, <1>g, <1>h, <1>i DEF Known
<1>14. ASSUME NEW g \in Gates, gateLinkLost(g) PROVE Known'
  <2> DEFINE k == link[g]
  <2>1. /\ UNCHANGED <<tickets, accountOf, m_Accts, gtVars>>
        /\ toGate' = [toGate EXCEPT ![g] = <<>>]
    BY <1>14 DEF gateLinkLost
  <2>2. PICK n \in 0 .. Len(toLogin[k]) :
          toLogin' = [toLogin EXCEPT ![k] = SubSeq(@, 1, n)]
    BY <1>14 DEF gateLinkLost
  <2>3. k \in GateSessions
    BY <1>14 DEF gateLinkLost, TypeOK
  <2> DEFINE r == SubSeq(toLogin[k], 1, n)
  <2>4. Len(r) = n /\ \A i \in 1 .. n : i \in 1 .. Len(toLogin[k]) /\ r[i] = toLogin[k][i]
    BY <1>a, <2>3, FirstMessages
  <2>5. \A l \in GateSessions : toLogin'[l] = IF l = k THEN r ELSE toLogin[l]
    BY <1>a, <2>2
  <2> HIDE DEF k, r
  <2>6. ToLoginKnown'
    BY <1>b, <2>1, <2>3, <2>4, <2>5 DEF ToLoginKnown
  <2>7. ToGateKnown'
    BY <1>a, <1>b, <2>1 DEF ToGateKnown
  <2> QED  BY <2>1, <2>6, <2>7, <1>d, <1>e, <1>f, <1>g DEF Known
<1>15. CASE restart
  <2>1. /\ UNCHANGED <<tickets, accountOf, gtVars>>
        /\ m_Accts' = [a \in Accounts |-> None]
        /\ toLogin' = [k \in GateSessions |-> <<>>]
        /\ toGate' = [g \in Gates |-> <<>>]
    BY <1>15 DEF restart
  <2>2. AcctsKnown' /\ ToGateKnown' /\ ToLoginKnown'
    BY <2>1 DEF AcctsKnown, ToGateKnown, ToLoginKnown
  <2> QED  BY <2>1, <2>2, <1>d, <1>e, <1>f DEF Known
<1>16. CASE UNCHANGED vars
  BY <1>16, <1>c DEF vars
<1> QED
  BY <1>1, <1>2, <1>3, <1>4, <1>5, <1>6, <1>7, <1>8, <1>9, <1>10, <1>11, <1>12, <1>13,
     <1>14, <1>15, <1>16
     DEF Next, Clients, MainLoop, GateSteps, checkAccountCall

-----------------------------------------------------------------------------
(* The tickets of the messages of one type in a queue.                     *)
Carried(q, y) == {q[i].t : i \in {j \in 1 .. Len(q) : q[j].type = y}}

(* A message that is sent adds its ticket.                                 *)
LEMMA CarriedAppend ==
    ASSUME NEW q \in Seq(Message), NEW m \in Message, NEW y
    PROVE  Carried(Append(q, m), y) = Carried(q, y) \cup (IF m.type = y THEN {m.t} ELSE {})
<1>1. /\ Len(q) \in Nat /\ Len(Append(q, m)) = Len(q) + 1
      /\ Append(q, m)[Len(q) + 1] = m
      /\ \A i \in 1 .. Len(q) : Append(q, m)[i] = q[i]
      /\ \A i \in 1 .. Len(q) + 1 : i \in 1 .. Len(q) \/ i = Len(q) + 1
  BY AppendMessages
<1>2. 1 .. Len(q) \subseteq 1 .. Len(q) + 1 /\ Len(q) + 1 \in 1 .. Len(q) + 1
  BY ONLY <1>1
<1> QED  BY ONLY <1>1, <1>2 DEF Carried

(* A message that is handled takes its ticket away, unless another one of  *)
(* the same type carries it too.                                           *)
LEMMA CarriedTail ==
    ASSUME NEW q \in Seq(Message), NEW z, HeadOf(q, z), NEW y
    PROVE  Carried(q, y) = Carried(Tail(q), y) \cup (IF z = y THEN {Head(q).t} ELSE {})
<1>1. /\ Len(q) \in Nat \ {0} /\ Head(q) = q[1] /\ Head(q).type = z
      /\ Len(Tail(q)) = Len(q) - 1
      /\ \A i \in 1 .. Len(Tail(q)) : i + 1 \in 1 .. Len(q) /\ Tail(q)[i] = q[i + 1]
  BY Received
<1>2. \A n \in Nat \ {0} : 1 \in 1 .. n /\ \A i \in 1 .. n : i = 1 \/ \E j \in 1 .. n - 1 : i = j + 1
  <2>1. ASSUME NEW n \in Nat \ {0}, NEW i \in 1 .. n, i # 1 PROVE \E j \in 1 .. n - 1 : i = j + 1
    <3>1. i - 1 \in 1 .. n - 1 /\ i = (i - 1) + 1
      BY <2>1
    <3> QED  BY <3>1
  <2> QED  BY <2>1
<1>3. 1 \in 1 .. Len(q) /\ \A i \in 1 .. Len(q) : i = 1 \/ \E j \in 1 .. Len(Tail(q)) : i = j + 1
  BY ONLY <1>1, <1>2
<1> HIDE DEF HeadOf
<1>4. ASSUME NEW x \in Carried(q, y)
      PROVE  x \in Carried(Tail(q), y) \cup (IF z = y THEN {Head(q).t} ELSE {})
  <2>1. PICK i \in 1 .. Len(q) : q[i].type = y /\ q[i].t = x
    BY <1>4 DEF Carried
  <2>2. CASE i = 1
    BY ONLY <1>1, <2>1, <2>2
  <2>3. CASE i # 1
    <3>1. PICK j \in 1 .. Len(Tail(q)) : i = j + 1
      BY <1>3, <2>3
    <3>2. Tail(q)[j].type = y /\ Tail(q)[j].t = x
      BY ONLY <1>1, <2>1, <3>1
    <3> QED  BY ONLY <3>2 DEF Carried
  <2> QED  BY <2>2, <2>3
<1>5. ASSUME NEW x \in Carried(Tail(q), y) PROVE x \in Carried(q, y)
  <2>1. PICK i \in 1 .. Len(Tail(q)) : Tail(q)[i].type = y /\ Tail(q)[i].t = x
    BY <1>5 DEF Carried
  <2>2. i + 1 \in 1 .. Len(q) /\ q[i + 1].type = y /\ q[i + 1].t = x
    BY ONLY <1>1, <2>1
  <2> QED  BY ONLY <2>2 DEF Carried
<1>6. z = y => Head(q).t \in Carried(q, y)
  BY ONLY <1>1, <1>3 DEF Carried
<1> QED  BY ONLY <1>4, <1>5, <1>6

(* Handling the first message, sending a kick, and sending the login of a  *)
(* ticket nobody was told to kick all keep the order.                      *)
LEMMA FollowsSteps ==
    ASSUME NEW q \in Seq(Message), Follows(q)
    PROVE  /\ \A z : HeadOf(q, z) => Follows(Tail(q))
           /\ HeadOf(q, "kick") => Head(q).t \notin Carried(q, "login")
           /\ \A m \in Message : m.type = "kick" => Follows(Append(q, m))
           /\ \A m \in Message : m.type = "login" /\ m.t \notin Carried(q, "kick") =>
                Follows(Append(q, m))
<1>1. ASSUME NEW z, HeadOf(q, z) PROVE Follows(Tail(q))
  <2> DEFINE r == Tail(q)
  <2>1. \A i \in 1 .. Len(r) : i + 1 \in 1 .. Len(q) /\ r[i] = q[i + 1]
    BY <1>1, Received
  <2> HIDE DEF r
  <2>2. \A i, j \in 1 .. Len(r) : i + 1 < j + 1 => i < j
    OBVIOUS
  <2> SUFFICES ASSUME NEW i \in 1 .. Len(r), NEW j \in 1 .. Len(r),
                      r[i].type = "login", r[j].type = "kick", r[i].t = r[j].t
               PROVE  i < j
    BY DEF Follows, r
  <2>3. i + 1 < j + 1
    BY <2>1 DEF Follows
  <2> QED  BY <2>2, <2>3
<1>2. ASSUME HeadOf(q, "kick") PROVE Head(q).t \notin Carried(q, "login")
  <2>1. Head(q) = q[1] /\ q[1].type = "kick" /\ 1 \in 1 .. Len(q)
    BY <1>2, Received
  <2>2. \A i \in 1 .. Len(q) : q[i].type = "login" => q[i].t # q[1].t
    <3> SUFFICES ASSUME NEW i \in 1 .. Len(q), q[i].type = "login", q[i].t = q[1].t PROVE FALSE
      OBVIOUS
    <3>1. i < 1
      BY <2>1 DEF Follows
    <3> QED  BY <3>1
  <2> QED  BY ONLY <2>1, <2>2 DEF Carried
<1>3. ASSUME NEW m \in Message
      PROVE  /\ Len(q) \in Nat /\ Len(Append(q, m)) = Len(q) + 1
             /\ Append(q, m)[Len(q) + 1] = m
             /\ \A i \in 1 .. Len(q) : Append(q, m)[i] = q[i]
             /\ \A i \in 1 .. Len(q) + 1 : i \in 1 .. Len(q) \/ i = Len(q) + 1
  BY AppendMessages
<1>4. ASSUME NEW m \in Message, m.type = "kick" PROVE Follows(Append(q, m))
  <2> DEFINE r == Append(q, m)
  <2>1. /\ Len(q) \in Nat /\ Len(r) = Len(q) + 1 /\ r[Len(q) + 1] = m
        /\ \A i \in 1 .. Len(q) : r[i] = q[i]
        /\ \A i \in 1 .. Len(q) + 1 : i \in 1 .. Len(q) \/ i = Len(q) + 1
    BY <1>3
  <2> HIDE DEF r
  <2> SUFFICES ASSUME NEW i \in 1 .. Len(r), NEW j \in 1 .. Len(r),
                      r[i].type = "login", r[j].type = "kick", r[i].t = r[j].t
               PROVE  i < j
    BY DEF Follows, r
  <2>2. i \in 1 .. Len(q)
    BY <1>4, <2>1
  <2>3. CASE j = Len(q) + 1
    BY ONLY <2>1, <2>2, <2>3
  <2>4. CASE j \in 1 .. Len(q)
    BY <2>1, <2>2, <2>4 DEF Follows
  <2> QED  BY <2>1, <2>3, <2>4
<1>5. ASSUME NEW m \in Message, m.type = "login", m.t \notin Carried(q, "kick")
      PROVE  Follows(Append(q, m))
  <2> DEFINE r == Append(q, m)
  <2>1. /\ Len(q) \in Nat /\ Len(r) = Len(q) + 1 /\ r[Len(q) + 1] = m
        /\ \A i \in 1 .. Len(q) : r[i] = q[i]
        /\ \A i \in 1 .. Len(q) + 1 : i \in 1 .. Len(q) \/ i = Len(q) + 1
    BY <1>3
  <2> HIDE DEF r
  <2> SUFFICES ASSUME NEW i \in 1 .. Len(r), NEW j \in 1 .. Len(r),
                      r[i].type = "login", r[j].type = "kick", r[i].t = r[j].t
               PROVE  i < j
    BY DEF Follows, r
  <2>2. j \in 1 .. Len(q)
    BY <1>5, <2>1
  <2>3. q[j].t \in Carried(q, "kick")
    BY <2>1, <2>2 DEF Carried
  <2>4. i \in 1 .. Len(q)
    BY <1>5, <2>1, <2>2, <2>3
  <2> QED  BY <2>1, <2>2, <2>4 DEF Follows
<1> QED  BY <1>1, <1>2, <1>4, <1>5

(* The queues after giveUserToGate.  Only the new ticket's login and the   *)
(* last ticket's kick have been added, and the order is kept.              *)
LEMMA GivenQueues ==
    ASSUME TypeOK, Known, KickFollows, NEW c \in checks, c.a \in Accounts,
           tickets + 1 \in Tickets,
           NEW g \in Gates, NEW q \in [Gates -> Seq(Message)], GivenTo(c, g, q),
           NEW h \in Gates
    PROVE  /\ Follows(toGate'[h])
           /\ \A t \in Carried(toGate'[h], "login") :
                \/ t \in Carried(toGate[h], "login")
                \/ t = tickets + 1 /\ h = g /\ link[g] # None /\ link[g] = m_Gates[g]
           /\ Carried(toGate[h], "kick") \subseteq Carried(toGate'[h], "kick")
           /\ m_Accts[c.a] # None /\ link[h] # None /\ link[h] = m_Gates[m_Accts[c.a].gate] =>
                m_Accts[c.a].tran \in Carried(toGate'[h], "kick")
<1> USE LoginAssumption
<1> DEFINE k == [type |-> "kick", t |-> m_Accts[c.a].tran]
           l == [type |-> "login", t |-> tickets + 1]
<1>1. toGate[h] \in Seq(Message) /\ Follows(toGate[h]) /\ q[h] \in Seq(Message)
  BY DEF TypeOK, KickFollows
<1>2. tickets \in Nat /\ l \in Message /\ l.type = "login" /\ l.t = tickets + 1
  <2>1. tickets \in Nat
    BY DEF TypeOK
  <2> QED  BY <2>1, MessageFields
<1>3. m_Accts[c.a] # None => /\ k \in Message /\ k.type = "kick" /\ k.t = m_Accts[c.a].tran
                             /\ m_Accts[c.a].tran # tickets + 1
  <2> SUFFICES ASSUME m_Accts[c.a] # None
               PROVE  k \in Message /\ m_Accts[c.a].tran # tickets + 1
    OBVIOUS
  <2>1. m_Accts[c.a].tran \in Tickets /\ m_Accts[c.a].tran <= tickets
    BY DEF TypeOK, Known, AcctsKnown
  <2>2. \A n \in Tickets : n <= tickets => n # tickets + 1
    BY <1>2 DEF Tickets
  <2> QED  BY <2>1, <2>2, MessageFields
<1>4. tickets + 1 \notin Carried(toGate[h], "kick")
  <2>1. \A i \in 1 .. Len(toGate[h]) : toGate[h][i].t <= tickets
    BY DEF Known, ToGateKnown
  <2>2. ~(tickets + 1 <= tickets)
    BY <1>2
  <2> QED  BY <2>1, <2>2 DEF Carried
<1>5. /\ q[h] = IF m_Accts[c.a] # None /\ link[h] # None
                     /\ link[h] = m_Gates[m_Accts[c.a].gate]
                THEN Append(toGate[h], k) ELSE toGate[h]
      /\ toGate'[h] = IF h = g /\ link[g] # None /\ link[g] = m_Gates[g]
                      THEN Append(q[h], l) ELSE q[h]
  BY DEF GivenTo
<1> HIDE DEF k, l
<1>6. /\ Follows(q[h]) /\ tickets + 1 \notin Carried(q[h], "kick")
      /\ Carried(q[h], "login") = Carried(toGate[h], "login")
      /\ Carried(toGate[h], "kick") \subseteq Carried(q[h], "kick")
      /\ m_Accts[c.a] # None /\ link[h] # None /\ link[h] = m_Gates[m_Accts[c.a].gate] =>
           m_Accts[c.a].tran \in Carried(q[h], "kick")
  <2>1. CASE m_Accts[c.a] # None /\ link[h] # None /\ link[h] = m_Gates[m_Accts[c.a].gate]
    <3>1. k \in Message /\ k.type = "kick" /\ k.t = m_Accts[c.a].tran /\ k.t # tickets + 1
      BY <1>3, <2>1
    <3>2. q[h] = Append(toGate[h], k)
      BY <1>5, <2>1
    <3>3. \A y : Carried(q[h], y) = Carried(toGate[h], y) \cup (IF k.type = y THEN {k.t} ELSE {})
      BY <1>1, <3>1, <3>2, CarriedAppend
    <3>4. Follows(q[h])
      BY <1>1, <3>1, <3>2, FollowsSteps
    <3> QED  BY ONLY <1>4, <3>1, <3>3, <3>4
  <2>2. CASE ~(m_Accts[c.a] # None /\ link[h] # None /\ link[h] = m_Gates[m_Accts[c.a].gate])
    <3>1. q[h] = toGate[h]
      BY <1>5, <2>2
    <3> QED  BY <1>1, <1>4, <2>2, <3>1
  <2> QED  BY <2>1, <2>2
<1>7. CASE h = g /\ link[g] # None /\ link[g] = m_Gates[g]
  <2>1. toGate'[h] = Append(q[h], l)
    BY <1>5, <1>7
  <2>2. \A y : Carried(Append(q[h], l), y) = Carried(q[h], y) \cup (IF l.type = y THEN {l.t} ELSE {})
    BY <1>1, <1>2, CarriedAppend
  <2>3. Follows(Append(q[h], l))
    BY <1>1, <1>2, <1>6, FollowsSteps
  <2> QED  BY ONLY <1>2, <1>6, <1>7, <2>1, <2>2, <2>3
<1>8. CASE ~(h = g /\ link[g] # None /\ link[g] = m_Gates[g])
  <2>1. toGate'[h] = q[h]
    BY <1>5, <1>8
  <2> QED  BY ONLY <1>6, <2>1
<1> QED  BY <1>7, <1>8

(* What Admitted says of one ticket at one gate.                           *)
Fine(g, t) ==
    \/ accountOf[t] \in disturbed
    \/ /\ link[g] # None /\ m_Gates[g] = link[g]
       /\ \/ t \in Carried(toGate[g], "kick") \cup kicked
          \/ m_Accts[accountOf[t]] = [gate |-> g, tran |-> t]

(* Admitted by way of Fine.                                                *)
LEMMA AdmittedFine ==
    /\ Admitted <=> \A g \in Gates : \A t \in users[g] \cup Carried(toGate[g], "login") : Fine(g, t)
    /\ \A g \in Gates : Guests(g) = users[g] \cup Carried(toGate[g], "login")
<1>1. \A g \in Gates, y \in {"login", "kick"} : InFlight(g, y) = Carried(toGate[g], y)
  BY DEF InFlight, Carried
<1> QED  BY <1>1 DEF Admitted, Guests, Fine

(* Every step keeps the order of kicks and admits one ticket per account.  *)
LEMMA AdmitStep ==
    TypeOK /\ GateInv /\ Known /\ KickFollows /\ Admitted /\ [Next]_vars
        => KickFollows' /\ Admitted'
<1> SUFFICES ASSUME TypeOK, GateInv, Known, KickFollows, Admitted, [Next]_vars
             PROVE  KickFollows' /\ Admitted'
  OBVIOUS
<1> USE LoginAssumption DEF userVars, acctVars, gateVars, gtVars, lossVars
<1>a. /\ m_Gates \in [Gates -> GateSessions \cup {None}]
      /\ link \in [Gates -> GateSessions \cup {None}]
      /\ users \in [Gates -> SUBSET Tickets]
      /\ toGate \in [Gates -> Seq(Message)]
      /\ accountOf \in [Tickets -> Accounts \cup {None}]
      /\ m_Accts \in [Accounts -> [gate : Gates, tran : Tickets] \cup {None}]
      /\ tickets \in Nat
  BY DEF TypeOK
<1>b. \A g \in Gates : \A t \in users[g] \cup Carried(toGate[g], "login") :
        Fine(g, t) /\ t \in Tickets /\ t <= tickets /\ accountOf[t] \in Accounts
  <2>1. \A g \in Gates : \A t \in Guests(g) : t \in Tickets /\ t <= tickets
    <3>1. \A g \in Gates : \A t \in users[g] : t <= tickets
      BY DEF Known, UsersKnown
    <3>2. \A g \in Gates : \A t \in InFlight(g, "login") : t <= tickets
      BY DEF Known, ToGateKnown, InFlight
    <3> QED  BY <3>1, <3>2, AffectedAccounts DEF Guests
  <2>2. \A g \in Gates : \A t \in Guests(g) : accountOf[t] \in Accounts
    BY <2>1 DEF Known, TicketsOwned
  <2> QED  BY <2>1, <2>2, AdmittedFine
<1>c. ASSUME \A g \in Gates : \A t \in users'[g] \cup Carried(toGate'[g], "login") : Fine(g, t)'
      PROVE  Admitted'
  BY <1>c, Zenon DEF Admitted, Guests, Fine, InFlight, Carried
<1>d. ASSUME UNCHANGED <<toGate, users, accountOf, disturbed, kicked, link, m_Gates, m_Accts>>
      PROVE  KickFollows' /\ Admitted'
  BY <1>d DEF KickFollows, Admitted, Guests, InFlight
<1>1. ASSUME NEW s \in Sessions,
             ArmAccept(s) \/ Accept(s) \/ on_accept(s) \/ ClientCloses(s) \/ on_close(s)
      PROVE  KickFollows' /\ Admitted'
  BY <1>1, <1>d DEF ArmAccept, Accept, on_accept, ClientCloses, on_close
<1>2. ASSUME NEW s \in Sessions, NEW a \in Accounts, NEW kind \in {"login", "new"},
             checkAccount(s, a, kind)
      PROVE  KickFollows' /\ Admitted'
  BY <1>2, <1>d DEF checkAccount
<1>3. ASSUME NEW c \in checks, checkInvalid(c) \/ checkRefused(c) \/ CreateNewAccount(c)
      PROVE  KickFollows' /\ Admitted'
  BY <1>3, <1>d DEF checkInvalid, checkRefused, CreateNewAccount
<1>4. ASSUME NEW c \in checks, noGate(c) PROVE KickFollows' /\ Admitted'
  <2>1. UNCHANGED <<toGate, users, accountOf, disturbed, kicked, link, m_Gates>> /\ getIdleGate = {}
    BY <1>4 DEF noGate
  <2>2. \A g \in Gates : m_Gates[g] = None
    BY <2>1 DEF getIdleGate
  <2>3. \A g \in Gates : \A t \in users[g] \cup Carried(toGate[g], "login") :
          accountOf[t] \in disturbed
    BY <1>b, <2>2 DEF Fine
  <2>4. Admitted'
    BY <1>c, <2>1, <2>3 DEF Fine
  <2> QED  BY <2>1, <2>4 DEF KickFollows
<1>5. ASSUME NEW c \in checks, giveUserToGate(c) PROVE KickFollows' /\ Admitted'
  <2>1. /\ c.a \in Accounts /\ tickets + 1 \in Tickets
        /\ accountOf' = [accountOf EXCEPT ![tickets + 1] = c.a]
        /\ UNCHANGED <<users, disturbed, kicked, link, m_Gates>>
    BY <1>5, Given DEF giveUserToGate
  <2>2. PICK g \in Gates, q \in [Gates -> Seq(Message)] : GivenTo(c, g, q)
    BY <1>5, Given, Zenon
  <2>3. \A h \in Gates :
          /\ Follows(toGate'[h])
          /\ \A t \in Carried(toGate'[h], "login") :
               \/ t \in Carried(toGate[h], "login")
               \/ t = tickets + 1 /\ h = g /\ link[g] # None /\ link[g] = m_Gates[g]
          /\ Carried(toGate[h], "kick") \subseteq Carried(toGate'[h], "kick")
          /\ m_Accts[c.a] # None /\ link[h] # None /\ link[h] = m_Gates[m_Accts[c.a].gate] =>
               m_Accts[c.a].tran \in Carried(toGate'[h], "kick")
    BY <2>1, <2>2, GivenQueues
  <2>4. m_Accts' = [m_Accts EXCEPT ![c.a] = [gate |-> g, tran |-> tickets + 1]]
    BY <2>2 DEF GivenTo
  <2>5. \A t \in Tickets : t <= tickets => t # tickets + 1
    BY <1>a DEF Tickets
  <2>6. ASSUME NEW h \in Gates, NEW t \in users'[h] \cup Carried(toGate'[h], "login")
        PROVE  Fine(h, t)'
    <3>1. CASE t = tickets + 1
      <4>1. t \notin users[h] \cup Carried(toGate[h], "login")
        BY <1>b, <2>5, <3>1
      <4>2. h = g /\ link[g] # None /\ link[g] = m_Gates[g]
        BY <2>1, <2>3, <4>1
      <4>3. accountOf'[t] = c.a /\ m_Accts'[c.a] = [gate |-> h, tran |-> t]
        BY <1>a, <2>1, <2>4, <3>1, <4>2
      <4> QED  BY <2>1, <4>2, <4>3 DEF Fine
    <3>2. CASE t # tickets + 1
      <4>1. t \in users[h] \cup Carried(toGate[h], "login")
        BY <2>1, <2>3, <3>2
      <4>2. /\ Fine(h, t) /\ t \in Tickets /\ accountOf[t] \in Accounts
            /\ accountOf'[t] = accountOf[t]
        BY <1>a, <1>b, <2>1, <3>2, <4>1
      <4>3. CASE accountOf[t] \in disturbed
        BY <2>1, <4>2, <4>3 DEF Fine
      <4>4. CASE /\ link[h] # None /\ m_Gates[h] = link[h]
                 /\ t \in Carried(toGate[h], "kick") \cup kicked
        BY <2>1, <2>3, <4>4 DEF Fine
      <4>5. CASE /\ link[h] # None /\ m_Gates[h] = link[h]
                 /\ m_Accts[accountOf[t]] = [gate |-> h, tran |-> t]
        <5>1. CASE accountOf[t] = c.a
          <6>1. m_Accts[c.a] # None /\ m_Accts[c.a].gate = h /\ m_Accts[c.a].tran = t
            <7>1. m_Accts[c.a] = [gate |-> h, tran |-> t]
              BY <4>5, <5>1
            <7>2. m_Accts[c.a] # None
              BY <7>1, <4>2
            <7> QED  BY <7>1, <7>2
          <6>2. t \in Carried(toGate'[h], "kick")
            BY <2>3, <4>5, <6>1
          <6> QED  BY <2>1, <4>5, <6>2 DEF Fine
        <5>2. CASE accountOf[t] # c.a
          <6>1. m_Accts'[accountOf'[t]] = [gate |-> h, tran |-> t]
            BY <1>a, <2>4, <4>2, <4>5, <5>2
          <6> QED  BY <2>1, <4>5, <6>1 DEF Fine
        <5> QED  BY <5>1, <5>2
      <4> QED  BY <4>2, <4>3, <4>4, <4>5 DEF Fine
    <3> QED  BY <3>1, <3>2
  <2> QED  BY <1>c, <2>3, <2>6 DEF KickFollows
<1>6. ASSUME NEW k \in GateSessions, receiveUserPrepar(k) PROVE KickFollows' /\ Admitted'
  BY <1>6, <1>d DEF receiveUserPrepar
<1>7. ASSUME NEW k \in GateSessions, parseGateRegister(k) PROVE KickFollows' /\ Admitted'
  <2> DEFINE d == Head(toLogin[k]).serverid
             accounts == Head(toLogin[k]).accounts
  <2>1. /\ m_Gates' = [m_Gates EXCEPT ![d] = k]
        /\ m_Accts' = IF assertion(d, accounts) THEN addAccounts(d, accounts) ELSE m_Accts
        /\ UNCHANGED <<toGate, users, accountOf, disturbed, kicked, link>>
    BY <1>7 DEF parseGateRegister
  <2>2. d \in Gates /\ ~(link[d] # None /\ m_Gates[d] = link[d])
    <3>1. d \in Gates /\ Pending(k, d) /\ \A h \in Gates : m_Gates[h] # k
      BY <1>7, Pends DEF parseGateRegister
    <3>2. ASSUME link[d] # None, HeadOf(toLogin[link[d]], "register") PROVE m_Gates[d] # link[d]
      <4> DEFINE l == link[d]
      <4>1. l \in GateSessions
        BY <1>a, <3>1, <3>2
      <4>2. \A h \in Gates : m_Gates[h] # l
        BY <3>2, <4>1, Pends
      <4> QED  BY <3>1, <4>2
    <3> QED  BY <3>1, <3>2 DEF Pending
  <2> HIDE DEF d, accounts
  <2>3. ASSUME NEW h \in Gates, NEW t \in users[h] \cup Carried(toGate[h], "login")
        PROVE  Fine(h, t)'
    <3>1. Fine(h, t) /\ accountOf[t] \in Accounts
      BY <1>b, <2>3
    <3>2. CASE accountOf[t] \in disturbed
      BY <2>1, <3>2 DEF Fine
    <3>3. CASE accountOf[t] \notin disturbed
      <4>1. h # d /\ link[h] # None /\ m_Gates[h] = link[h] /\ m_Gates'[h] = m_Gates[h]
        BY <1>a, <2>1, <2>2, <3>1, <3>3 DEF Fine
      <4>2. CASE t \in Carried(toGate[h], "kick") \cup kicked
        BY <2>1, <4>1, <4>2 DEF Fine
      <4>3. CASE m_Accts[accountOf[t]] = [gate |-> h, tran |-> t]
        <5> DEFINE a == accountOf[t]
        <5>1. m_Accts[a] # None /\ m_Accts[a].gate = h
          <6>1. t \in Tickets
            BY <1>b, <2>3
          <6> QED  BY <4>3, <6>1
        <5>2. m_Accts'[a] = m_Accts[a]
          <6>1. CASE assertion(d, accounts)
            <7>1. \A x \in accounts : x[1] # a
              BY <4>1, <5>1, <6>1 DEF assertion
            <7>2. \A n \in Tickets : <<a, n>> \notin accounts
              BY <7>1
            <7> QED  BY <2>1, <3>1, <6>1, <7>2 DEF addAccounts
          <6>2. CASE ~assertion(d, accounts)
            BY <2>1, <6>2
          <6> QED  BY <6>1, <6>2
        <5> QED  BY <2>1, <4>1, <4>3, <5>2 DEF Fine
      <4> QED  BY <3>1, <3>3, <4>2, <4>3 DEF Fine
    <3> QED  BY <3>2, <3>3
  <2>4. Admitted'
    BY <1>c, <2>1, <2>3
  <2> QED  BY <2>1, <2>4 DEF KickFollows
<1>0. ASSUME NEW k \in GateSessions, gateSessionCloses(k) PROVE KickFollows' /\ Admitted'
  BY <1>0, <1>d DEF gateSessionCloses
<1>8. ASSUME NEW k \in GateSessions, gateOnClose(k) PROVE KickFollows' /\ Admitted'
  <2>1. /\ gconn[k] = "closed" /\ m_Gates' = removeGate(k)
        /\ UNCHANGED <<toGate, users, accountOf, disturbed, kicked, link, m_Accts>>
    BY <1>8 DEF gateOnClose
  <2>2. \A g \in Gates : link[g] # None => link[g] # k
    BY <2>1 DEF GateInv, Links
  <2>3. \A g \in Gates : link[g] # None /\ m_Gates[g] = link[g] => m_Gates'[g] = link[g]
    BY <1>a, <2>1, <2>2 DEF removeGate
  <2>4. Admitted'
    BY <1>b, <1>c, <2>1, <2>3 DEF Fine
  <2> QED  BY <2>1, <2>4 DEF KickFollows
<1>9. ASSUME NEW g \in Gates, NEW k \in GateSessions, gateConnects(g, k)
      PROVE  KickFollows' /\ Admitted'
  <2>1. /\ link[g] = None /\ link' = [link EXCEPT ![g] = k]
        /\ UNCHANGED <<toGate, users, accountOf, disturbed, kicked, m_Gates, m_Accts>>
    BY <1>9 DEF gateConnects
  <2>2. \A h \in Gates : link[h] # None => link'[h] = link[h]
    BY <1>a, <2>1
  <2>3. Admitted'
    BY <1>b, <1>c, <2>1, <2>2 DEF Fine
  <2> QED  BY <2>1, <2>3 DEF KickFollows
<1>10. ASSUME NEW g \in Gates, addToWait(g) PROVE KickFollows' /\ Admitted'
  <2> DEFINE n == Head(toGate[g]).t
             r == Tail(toGate[g])
  <2>1. /\ HeadOf(toGate[g], "login") /\ toGate[g] \in Seq(Message)
        /\ toGate' = [toGate EXCEPT ![g] = r] /\ users' = [users EXCEPT ![g] = @ \cup {n}]
        /\ UNCHANGED <<accountOf, disturbed, kicked, link, m_Gates, m_Accts>>
    BY <1>10, <1>a DEF addToWait
  <2>2. /\ Carried(toGate[g], "login") = Carried(r, "login") \cup {n}
        /\ Carried(toGate[g], "kick") = Carried(r, "kick")
    <3>1. \A y : Carried(toGate[g], y)
                   = Carried(r, y) \cup (IF "login" = y THEN {n} ELSE {})
      BY <2>1, CarriedTail
    <3> HIDE DEF n, r
    <3> QED  BY ONLY <3>1
  <2>3. Follows(r)
    BY <2>1, FollowsSteps DEF KickFollows
  <2> HIDE DEF n, r
  <2>4. KickFollows'
    BY <1>a, <2>1, <2>3 DEF KickFollows
  <2>5. /\ \A h \in Gates : Carried(toGate'[h], "kick") = Carried(toGate[h], "kick")
        /\ \A h \in Gates : users'[h] \cup Carried(toGate'[h], "login")
                              = users[h] \cup Carried(toGate[h], "login")
    <3>1. \A h \in Gates : h # g => toGate'[h] = toGate[h] /\ users'[h] = users[h]
      BY <1>a, <2>1
    <3>2. toGate'[g] = r /\ users'[g] = users[g] \cup {n}
      BY <1>a, <2>1
    <3> QED  BY ONLY <3>1, <3>2, <2>2
  <2>6. Admitted'
    BY <1>b, <1>c, <2>1, <2>5 DEF Fine
  <2> QED  BY <2>4, <2>6
<1>11. ASSUME NEW g \in Gates, kickUser(g) PROVE KickFollows' /\ Admitted'
  <2> DEFINE n == Head(toGate[g]).t
             r == Tail(toGate[g])
  <2>1. /\ HeadOf(toGate[g], "kick") /\ toGate[g] \in Seq(Message)
        /\ toGate' = [toGate EXCEPT ![g] = r]
        /\ kicked \subseteq kicked'
        /\ \/ users' = [users EXCEPT ![g] = @ \ {n}]
           \/ users' = users /\ (n \in users[g] => n \in kicked')
        /\ UNCHANGED <<accountOf, disturbed, link, m_Gates, m_Accts>>
    BY <1>11, <1>a DEF kickUser, kickOnline, kickWaiting, kickReconn, kickNobody
  <2>2. /\ Carried(toGate[g], "login") = Carried(r, "login")
        /\ Carried(toGate[g], "kick") = Carried(r, "kick") \cup {n}
    <3>1. \A y : Carried(toGate[g], y)
                   = Carried(r, y) \cup (IF "kick" = y THEN {n} ELSE {})
      BY <2>1, CarriedTail
    <3> HIDE DEF n, r
    <3> QED  BY ONLY <3>1
  <2>3. Follows(r) /\ n \notin Carried(toGate[g], "login")
    BY <2>1, FollowsSteps DEF KickFollows
  <2> HIDE DEF n, r
  <2>4. KickFollows'
    BY <1>a, <2>1, <2>3 DEF KickFollows
  <2>5. ASSUME NEW h \in Gates, NEW t \in users'[h] \cup Carried(toGate'[h], "login")
        PROVE  /\ t \in users[h] \cup Carried(toGate[h], "login")
               /\ t \in Carried(toGate[h], "kick") \cup kicked =>
                    t \in Carried(toGate'[h], "kick") \cup kicked'
    <3>1. CASE h = g
      <4>1. /\ toGate'[h] = r /\ toGate[h] = toGate[g]
            /\ \/ users'[h] = users[h] \ {n}
               \/ users'[h] = users[h] /\ (n \in users[h] => n \in kicked')
        BY <1>a, <2>1, <3>1
      <4>2. t # n \/ t \in kicked'
        BY <2>2, <2>3, <2>5, <4>1
      <4> QED  BY <2>1, <2>2, <2>5, <4>1, <4>2
    <3>2. CASE h # g
      BY <1>a, <2>1, <2>5, <3>2
    <3> QED  BY <3>1, <3>2
  <2>6. Admitted'
    BY <1>b, <1>c, <2>1, <2>5 DEF Fine
  <2> QED  BY <2>4, <2>6
<1>12. ASSUME NEW g \in Gates, NEW t \in Tickets, userConnects(g, t) PROVE KickFollows' /\ Admitted'
  BY <1>12, <1>d DEF userConnects
<1>13. ASSUME NEW g \in Gates, NEW t \in Tickets, userLeaves(g, t) PROVE KickFollows' /\ Admitted'
  <2>1. /\ users' = [users EXCEPT ![g] = @ \ {t}]
        /\ UNCHANGED <<toGate, accountOf, disturbed, kicked, link, m_Gates, m_Accts>>
    BY <1>13 DEF userLeaves
  <2>2. \A h \in Gates : users'[h] \subseteq users[h]
    BY <1>a, <2>1
  <2>3. Admitted'
    BY <1>b, <1>c, <2>1, <2>2 DEF Fine
  <2> QED  BY <2>1, <2>3 DEF KickFollows
<1>14. ASSUME NEW g \in Gates, NEW a \in Accounts, reconnTimer(g, a) PROVE KickFollows' /\ Admitted'
  BY <1>14, <1>d DEF reconnTimer
<1>e. Follows(<<>>) /\ \A y : Carried(<<>>, y) = {}
  BY DEF Follows, Carried
<1>f. \A g \in Gates : \A t \in users[g] : accountOf[t] \in Affected(g)
  BY DEF Affected
<1>15. ASSUME NEW g \in Gates, gateLinkLost(g) PROVE KickFollows' /\ Admitted'
  <2>1. /\ disturbed' = disturbed \cup Affected(g)
        /\ toGate' = [toGate EXCEPT ![g] = <<>>] /\ link' = [link EXCEPT ![g] = None]
        /\ UNCHANGED <<users, accountOf, kicked, m_Gates, m_Accts>>
    BY <1>15 DEF gateLinkLost
  <2>2. \A h \in Gates : h # g => toGate'[h] = toGate[h] /\ link'[h] = link[h]
    BY <1>a, <2>1
  <2>3. toGate'[g] = <<>>
    BY <1>a, <2>1
  <2>4. KickFollows'
    BY <1>e, <2>2, <2>3 DEF KickFollows
  <2>5. ASSUME NEW h \in Gates, NEW t \in users'[h] \cup Carried(toGate'[h], "login")
        PROVE  Fine(h, t)'
    <3>1. CASE h = g
      <4>1. t \in users[g]
        BY <1>e, <2>1, <2>3, <3>1
      <4> QED  BY <1>f, <2>1, <4>1 DEF Fine
    <3>2. CASE h # g
      <4>1. Fine(h, t)
        BY <1>b, <2>1, <2>2, <3>2
      <4> QED  BY <2>1, <2>2, <3>2, <4>1 DEF Fine
    <3> QED  BY <3>1, <3>2
  <2> QED  BY <1>c, <2>4, <2>5
<1>16. CASE restart
  <2>1. /\ disturbed' = disturbed \cup UNION {Affected(g) : g \in Gates}
        /\ toGate' = [g \in Gates |-> <<>>]
        /\ UNCHANGED <<users, accountOf>>
    BY <1>16 DEF restart
  <2>2. KickFollows'
    BY <1>e, <2>1 DEF KickFollows
  <2>3. ASSUME NEW h \in Gates, NEW t \in users'[h] \cup Carried(toGate'[h], "login")
        PROVE  Fine(h, t)'
    <3>1. t \in users[h]
      BY <1>e, <2>1
    <3>2. accountOf[t] \in UNION {Affected(g) : g \in Gates}
      BY <1>f, <3>1
    <3> QED  BY <2>1, <3>2 DEF Fine
  <2> QED  BY <1>c, <2>2, <2>3
<1>17. CASE UNCHANGED vars
  BY <1>17, <1>d DEF vars
<1> QED
  BY <1>0, <1>1, <1>2, <1>3, <1>4, <1>5, <1>6, <1>7, <1>8, <1>9, <1>10, <1>11, <1>12, <1>13,
     <1>14, <1>15, <1>16, <1>17
     DEF Next, Clients, MainLoop, GateSteps, checkAccountCall

(* A step lets a gate have only the ticket it makes, and only one gate.    *)
LEMMA OneGateStep ==
    TypeOK /\ GateInv /\ Known /\ KickFollows /\ OneGatePerTicket /\ [Next]_vars
        => OneGatePerTicket'
<1> SUFFICES ASSUME TypeOK, GateInv, Known, KickFollows, OneGatePerTicket, [Next]_vars
             PROVE  OneGatePerTicket'
  OBVIOUS
<1> USE LoginAssumption DEF userVars, acctVars, gateVars, gtVars, lossVars
<1> DEFINE Has(h)  == users[h] \cup Carried(toGate[h], "login")
           Gets(h) == users'[h] \cup Carried(toGate'[h], "login")
<1>a. /\ users \in [Gates -> SUBSET Tickets] /\ toGate \in [Gates -> Seq(Message)]
      /\ tickets \in Nat
  BY DEF TypeOK
<1>b. \A g, h \in Gates : \A t \in Has(g) : t \in Has(h) => g = h
  BY AdmittedFine DEF OneGatePerTicket
<1>c. ASSUME \A g, h \in Gates : \A t \in Gets(g) : t \in Gets(h) => g = h
      PROVE  OneGatePerTicket'
  BY <1>c, Zenon DEF OneGatePerTicket, Guests, InFlight, Carried
<1>d. ASSUME \A h \in Gates : Gets(h) \subseteq Has(h) PROVE OneGatePerTicket'
  <2> HIDE DEF Has, Gets
  <2>1. \A g, h \in Gates : \A t \in Gets(g) : t \in Gets(h) => g = h
    BY ONLY <1>b, <1>d
  <2> QED  BY <1>c, <2>1
<1>e. ASSUME UNCHANGED <<users, toGate>> PROVE OneGatePerTicket'
  BY <1>d, <1>e
<1>1. ASSUME NEW s \in Sessions,
             ArmAccept(s) \/ Accept(s) \/ on_accept(s) \/ ClientCloses(s) \/ on_close(s)
      PROVE  OneGatePerTicket'
  BY <1>1, <1>e DEF ArmAccept, Accept, on_accept, ClientCloses, on_close
<1>2. ASSUME NEW s \in Sessions, NEW a \in Accounts, NEW kind \in {"login", "new"},
             checkAccount(s, a, kind)
      PROVE  OneGatePerTicket'
  BY <1>2, <1>e DEF checkAccount
<1>3. ASSUME NEW c \in checks,
             checkInvalid(c) \/ checkRefused(c) \/ CreateNewAccount(c) \/ noGate(c)
      PROVE  OneGatePerTicket'
  BY <1>3, <1>e DEF checkInvalid, checkRefused, CreateNewAccount, noGate
<1>4. ASSUME NEW c \in checks, giveUserToGate(c) PROVE OneGatePerTicket'
  <2>1. c.a \in Accounts /\ tickets + 1 \in Tickets /\ UNCHANGED users
    BY <1>4, Given DEF giveUserToGate
  <2>2. PICK g \in Gates, q \in [Gates -> Seq(Message)] : GivenTo(c, g, q)
    BY <1>4, Given, Zenon
  <2>3. \A h \in Gates : \A t \in Carried(toGate'[h], "login") :
          t \in Carried(toGate[h], "login") \/ (t = tickets + 1 /\ h = g)
    BY <2>1, <2>2, GivenQueues
  <2>4. \A h \in Gates : \A t \in Gets(h) : t \in Has(h) \/ (t = tickets + 1 /\ h = g)
    BY <2>1, <2>3
  <2>5. \A h \in Gates : tickets + 1 \notin Has(h)
    <3>1. ~(tickets + 1 <= tickets)
      BY <1>a
    <3>2. \A h \in Gates : tickets + 1 \notin users[h]
      BY <3>1 DEF Known, UsersKnown
    <3>3. \A h \in Gates : tickets + 1 \notin Carried(toGate[h], "login")
      BY <3>1 DEF Known, ToGateKnown, Carried
    <3> QED  BY <3>2, <3>3
  <2> HIDE DEF Has, Gets
  <2>6. \A h, k \in Gates : \A t \in Gets(h) : t \in Gets(k) => h = k
    BY ONLY <1>b, <2>4, <2>5
  <2> QED  BY <1>c, <2>6
<1>5. ASSUME NEW k \in GateSessions,
             \/ receiveUserPrepar(k) \/ parseGateRegister(k)
             \/ gateSessionCloses(k) \/ gateOnClose(k)
      PROVE  OneGatePerTicket'
  BY <1>5, <1>e DEF receiveUserPrepar, parseGateRegister, gateSessionCloses, gateOnClose
<1>6. ASSUME NEW g \in Gates, NEW k \in GateSessions, gateConnects(g, k)
      PROVE  OneGatePerTicket'
  BY <1>6, <1>e DEF gateConnects
<1>7. ASSUME NEW g \in Gates, addToWait(g) \/ kickUser(g) PROVE OneGatePerTicket'
  <2> DEFINE m == Head(toGate[g])
             r == Tail(toGate[g])
  <2>1. /\ HeadOf(toGate[g], m.type) /\ toGate[g] \in Seq(Message)
        /\ toGate' = [toGate EXCEPT ![g] = r]
        /\ \/ m.type = "login" /\ users' = [users EXCEPT ![g] = @ \cup {m.t}]
           \/ users' = [users EXCEPT ![g] = @ \ {m.t}]
           \/ users' = users
    BY <1>7, <1>a DEF addToWait, kickUser, kickOnline, kickWaiting, kickReconn, kickNobody,
                      gtVars, HeadOf
  <2>2. /\ Carried(r, "login") \subseteq Carried(toGate[g], "login")
        /\ m.type = "login" => m.t \in Carried(toGate[g], "login")
    <3>1. \A y : Carried(toGate[g], y) = Carried(r, y) \cup (IF m.type = y THEN {m.t} ELSE {})
      BY <2>1, CarriedTail
    <3> HIDE DEF m, r
    <3> QED  BY ONLY <3>1
  <2> HIDE DEF m, r
  <2>3. toGate'[g] = r /\ users'[g] \subseteq users[g] \cup (IF m.type = "login" THEN {m.t} ELSE {})
    BY <1>a, <2>1
  <2>4. \A h \in Gates : h # g => toGate'[h] = toGate[h] /\ users'[h] = users[h]
    BY <1>a, <2>1
  <2>5. \A h \in Gates : Gets(h) \subseteq Has(h)
    <3>1. Gets(g) \subseteq Has(g)
      BY ONLY <2>2, <2>3
    <3>2. \A h \in Gates : h # g => Gets(h) = Has(h)
      BY ONLY <2>4
    <3> HIDE DEF Has, Gets
    <3> QED  BY ONLY <3>1, <3>2
  <2> QED  BY <1>d, <2>5
<1>8. ASSUME NEW g \in Gates, NEW t \in Tickets, userConnects(g, t) PROVE OneGatePerTicket'
  BY <1>8, <1>e DEF userConnects
<1>9. ASSUME NEW g \in Gates, NEW t \in Tickets, userLeaves(g, t) PROVE OneGatePerTicket'
  <2>1. toGate' = toGate /\ \A h \in Gates : users'[h] \subseteq users[h]
    BY <1>9, <1>a DEF userLeaves
  <2> QED  BY <1>d, <2>1
<1>10. ASSUME NEW g \in Gates, NEW a \in Accounts, reconnTimer(g, a) PROVE OneGatePerTicket'
  BY <1>10, <1>e DEF reconnTimer
<1>11. ASSUME \A h \in Gates : toGate'[h] = toGate[h] \/ toGate'[h] = <<>>, UNCHANGED users
       PROVE  OneGatePerTicket'
  <2>1. Carried(<<>>, "login") = {}
    BY DEF Carried
  <2>2. \A h \in Gates : Gets(h) \subseteq Has(h)
    BY <1>11, <2>1
  <2> QED  BY <1>d, <2>2
<1>12. ASSUME NEW g \in Gates, gateLinkLost(g) PROVE OneGatePerTicket'
  BY <1>12, <1>11, <1>a DEF gateLinkLost
<1>13. CASE restart
  BY <1>13, <1>11 DEF restart
<1>14. CASE UNCHANGED vars
  BY <1>14, <1>e DEF vars
<1> QED
  BY <1>1, <1>2, <1>3, <1>4, <1>5, <1>6, <1>7, <1>8, <1>9, <1>10, <1>12, <1>13, <1>14
     DEF Next, Clients, MainLoop, GateSteps, checkAccountCall

-----------------------------------------------------------------------------
(* IInv holds in every reachable state of the login server and its gates.  *)
THEOREM Inductive == Spec => []IInv
<1>1. Init => IInv
  <2> SUFFICES ASSUME Init PROVE IInv
    OBVIOUS
  <2> USE LoginAssumption DEF Init
  <2>1. <<>> \in Seq(Message) /\ Len(<<>>) = 0
    BY EmptySeq
  <2>2. TypeOK
    <3>1. accepting \in [Sessions -> BOOLEAN] /\ aborted \in BOOLEAN
      BY Zenon
    <3>2. /\ conn \in [Sessions -> {"pool", "armed", "open", "closed"}]
          /\ state \in [Sessions -> States] /\ serial \in [Sessions -> 0 .. MaxConns]
      BY DEF States
    <3>3. AcctType /\ GateType /\ QueueType
      BY <2>1 DEF AcctType, GateType, QueueType
    <3>4. /\ users \in [Gates -> SUBSET Tickets] /\ connected \in [Gates -> SUBSET Tickets]
          /\ kicked \subseteq Tickets /\ losses \in 0 .. MaxLosses
          /\ onlineaccs \in [Gates -> [Accounts -> Tickets \cup {None}]]
          /\ disturbed \subseteq Accounts
      OBVIOUS
    <3> QED  BY <3>1, <3>2, <3>3, <3>4, TypeParts DEF UserType, WorldType
  <2>3. Counted /\ WaitingIsFiled /\ Filed
    BY DEF Counted, WaitingIsFiled, Filed
  <2>4. GateInv
    BY <2>1 DEF GateInv, Links, Registering, GatePointers, RegisteredReachable
  <2>5. Known
    <3>1. \A t \in Tickets : ~(t <= tickets)
      BY DEF Tickets
    <3> QED
      BY <2>1, <3>1 DEF Known, TicketsOwned, UsersKnown, OnlineKnown, AcctsKnown, ToGateKnown,
                        ToLoginKnown
  <2>6. KickFollows /\ Admitted
    BY <2>1 DEF KickFollows, Follows, Admitted, Guests, InFlight
  <2> QED  BY <2>2, <2>3, <2>4, <2>5, <2>6 DEF IInv
<1>2. IInv /\ [Next]_vars => IInv'
  <2> SUFFICES ASSUME IInv, [Next]_vars PROVE IInv'
    OBVIOUS
  <2>1. UserType' /\ AcctType' /\ GateType' /\ QueueType' /\ WorldType'
    BY UserStep, AcctStep, GateTypeStep, QueueTypeStep, WorldTypeStep DEF IInv, GateInv
  <2>2. TypeOK'
    BY <2>1 DEF TypeOK, UserType, AcctType, GateType, QueueType, WorldType
  <2> QED  BY <2>2, UserStep, GateStep, FiledStep, KnownStep, AdmitStep DEF IInv
<1> QED  BY <1>1, <1>2, PTL DEF Spec

(* Every variable of the login server keeps its type: indices into         *)
(* m_Gates, m_Accts and the session pools are always of the right kind.    *)
THEOREM TypeCorrect == Spec => []TypeOK
<1>1. IInv => TypeOK
  BY DEF IInv
<1> QED  BY <1>1, Inductive, PTL

(* m_Gates never points to a gate session that is back in the pool, nor to *)
(* one that serves another gate by now (addGate, removeGate).              *)
THEOREM GatePointersHolds == Spec => []GatePointers
<1>1. IInv => GatePointers
  BY DEF IInv, GateInv
<1> QED  BY <1>1, Inductive, PTL

(* The late on_close of a gate's previous session never takes the new      *)
(* registration away (removeGate).                                         *)
THEOREM RegisteredReachableHolds == Spec => []RegisteredReachable
<1>1. IInv => RegisteredReachable
  BY DEF IInv, GateInv
<1> QED  BY <1>1, Inductive, PTL

(* A client session that waits for its gate is always on file, so that the *)
(* gate's answer finds it (giveUserToGate, receiveUserPrepar).             *)
THEOREM WaitingIsFiledHolds == Spec => []WaitingIsFiled
<1>1. IInv => WaitingIsFiled
  BY DEF IInv
<1> QED  BY <1>1, Inductive, PTL

(* An account is let in with one ticket: the kick of each other ticket of  *)
(* it is on the way or found it online, unless a broken link cut the       *)
(* account off (checkAccountCall, kickUserFromGate, kickUser).             *)
THEOREM SingleLoginHolds == Spec => []SingleLogin
<1>1. IInv => SingleLogin
  <2> SUFFICES ASSUME IInv PROVE SingleLogin
    OBVIOUS
  <2>1. TypeOK /\ Known /\ Admitted
    BY DEF IInv
  <2> QED  BY <2>1 DEF Admitted, SingleLogin
<1> QED  BY <1>1, Inductive, PTL

(* A ticket is good at one gate, whatever was lost or restarted           *)
(* (giveUserToGate, addToWait).                                            *)
THEOREM OneGatePerTicketHolds == Spec => []OneGatePerTicket
<1>1. Init => OneGatePerTicket
  BY DEF Init, OneGatePerTicket, Guests, InFlight
<1>2. IInv /\ OneGatePerTicket /\ [Next]_vars => OneGatePerTicket'
  BY OneGateStep DEF IInv
<1> QED  BY <1>1, <1>2, Inductive, PTL DEF Spec

(* Of two clients that are let in for one account, at one gate or at two,  *)
(* one has been kicked or will be, unless a link broke (kickUserFromGate,  *)
(* kickUser).                                                              *)
THEOREM OneLoginPerAccountHolds == Spec => []OneLoginPerAccount
<1>1. TypeOK /\ Known /\ SingleLogin => OneLoginPerAccount
  <2> SUFFICES ASSUME TypeOK, Known, SingleLogin,
                      NEW g \in Gates, NEW h \in Gates, NEW t \in Guests(g), NEW u \in Guests(h),
                      accountOf[t] = accountOf[u], accountOf[t] \notin disturbed,
                      t \notin InFlight(g, "kick") \cup kicked,
                      u \notin InFlight(h, "kick") \cup kicked
               PROVE  g = h /\ t = u
    BY DEF OneLoginPerAccount
  <2>1. [gate |-> g, tran |-> t] = [gate |-> h, tran |-> u]
    BY DEF SingleLogin
  <2> QED  BY <2>1
<1>2. IInv => TypeOK /\ Known
  BY DEF IInv
<1> QED  BY <1>1, <1>2, SingleLoginHolds, Inductive, PTL
=============================================================================
