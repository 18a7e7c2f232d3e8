-------------------------- MODULE GateUsersProofs --------------------------
(***************************************************************************)
(* Proofs about the gate's users, for any number of sessions, tickets,     *)
(* accounts and game servers, and any number of running timers.            *)
(*                                                                         *)
(* The gate never lets two clients in with one ticket, however often they  *)
(* log in.  TicketInOnePlace alone is not inductive: parseLoginUser puts a *)
(* ticket into m_wait_map without looking whether it is used.  TicketInv   *)
(* adds why it is not: the login message was in flight, once, and a ticket *)
(* in flight is nowhere else.                                              *)
(*                                                                         *)
(* Messages reach their owner, players and accounts have one, as long as   *)
(* no session exchanges its ticket for another (UserInv, KeepsTicket);     *)
(* clients that log in once per connection can not make one do so.         *)
(***************************************************************************)
EXTENDS GateUsers, SequenceTheorems, TLAPS

-----------------------------------------------------------------------------
(* What is left of fromLogin after a step of the gate.                      *)
FromLoginShrinks ==
    \/ fromLogin' = fromLogin
    \/ fromLogin' = <<>>
    \/ fromLogin # <<>> /\ fromLogin' = Tail(fromLogin)

(* A step that gives no ticket a new place.                                 *)
Shrinks ==
    /\ m_wait_map' \subseteq m_wait_map
    /\ \A t \in Trans : m_recon_map'[t] \in {m_recon_map[t], None}
    /\ \A s \in Sessions : tran'[s] \in {tran[s], None}
    /\ issued' = issued /\ lastTrans' = lastTrans

(* The messages left after FromLoginShrinks were in fromLogin before it, in *)
(* different positions when they are in different positions now.            *)
LEMMA ShrinkPositions ==
    ASSUME fromLogin \in Seq(Message), FromLoginShrinks
    PROVE  /\ fromLogin' \in Seq(Message)
           /\ \E d \in Nat : \A i \in 1 .. Len(fromLogin') :
                /\ i + d \in 1 .. Len(fromLogin)
                /\ fromLogin'[i] = fromLogin[i + d]
<1>1. CASE fromLogin' = fromLogin
  <2>1. \A i \in 1 .. Len(fromLogin') :
          i + 0 \in 1 .. Len(fromLogin) /\ fromLogin'[i] = fromLogin[i + 0]
    BY <1>1
  <2> QED  BY <1>1, <2>1
<1>2. CASE fromLogin' = <<>>
  BY <1>2
<1>3. CASE fromLogin # <<>> /\ fromLogin' = Tail(fromLogin)
  <2>1. /\ Tail(fromLogin) \in Seq(Message)
        /\ Len(Tail(fromLogin)) = Len(fromLogin) - 1
        /\ \A i \in 1 .. Len(Tail(fromLogin)) : Tail(fromLogin)[i] = fromLogin[i + 1]
    BY <1>3, HeadTailProperties
  <2>2. Len(fromLogin) \in Nat
    BY LenProperties
  <2>3. \A i \in 1 .. Len(fromLogin') :
          i + 1 \in 1 .. Len(fromLogin) /\ fromLogin'[i] = fromLogin[i + 1]
    BY <1>3, <2>1, <2>2
  <2> QED  BY <1>3, <2>1, <2>3
<1> QED  BY <1>1, <1>2, <1>3 DEF FromLoginShrinks

(* A step that gives no ticket a new place and takes messages off the queue *)
(* keeps TicketInv.                                                         *)
LEMMA ShrinkKeeps ==
    ASSUME TicketInv, TicketTypes', FromLoginShrinks, Shrinks
    PROVE  TicketInv'
<1> USE GateAssumption
<1>1. PICK d \in Nat : \A i \in 1 .. Len(fromLogin') :
          i + d \in 1 .. Len(fromLogin) /\ fromLogin'[i] = fromLogin[i + d]
  BY ShrinkPositions DEF TicketInv, TicketTypes
<1>2. \A t \in Trans : Holders(t)' \subseteq Holders(t)
  BY DEF Shrinks, Holders, TicketInv, TicketTypes
<1>3. \A t \in Trans : Nowhere(t) => Nowhere(t)'
  BY <1>2 DEF Shrinks, Nowhere
<1>4. \A t \in Trans : \A i \in LoginFor(t)' : i \in Nat /\ i + d \in LoginFor(t)
  BY <1>1 DEF LoginFor
<1>5. Unissued' /\ InFlightAlone'
  <2> SUFFICES ASSUME NEW t \in Trans
               PROVE  /\ t \notin issued' => Nowhere(t)' /\ LoginFor(t)' = {}
                      /\ LoginFor(t)' # {} =>
                            Nowhere(t)' /\ \A i, j \in LoginFor(t)' : i = j
    BY DEF Unissued, InFlightAlone
  <2>1. \A i \in LoginFor(t)' : i \in Nat /\ i + d \in LoginFor(t)
    BY <1>4
  <2>2. /\ t \notin issued => Nowhere(t) /\ LoginFor(t) = {}
        /\ LoginFor(t) # {} => Nowhere(t) /\ \A i, j \in LoginFor(t) : i = j
    BY DEF TicketInv, Unissued, InFlightAlone
  <2> QED  BY <1>3, <2>1, <2>2 DEF Shrinks
<1>6. TicketInOnePlace'
  BY <1>2 DEF TicketInOnePlace, Shrinks, TicketInv, TicketTypes
<1> QED  BY <1>5, <1>6 DEF TicketInv

-----------------------------------------------------------------------------
(* The login server sends a kick for an old ticket and the login of a new  *)
(* one, which is in flight once and was nowhere.                           *)
LEMMA LogsInKeeps ==
    ASSUME TicketInv, NEW t \in Trans, LoginServerLogsIn(t)
    PROVE  TicketInv'
<1> USE GateAssumption
<1> DEFINE kick  == Kick(AccountOf[t])
           login == [type |-> "login", t |-> t]
           q     == fromLogin \o kick
<1>0. /\ UNCHANGED <<tran, gsid, m_activeGames, m_wait_map, m_recon_map>>
      /\ fromLogin' = q \o <<login>>
      /\ issued' = issued \cup {t} /\ t \notin issued
  BY DEF LoginServerLogsIn, sessionVars, userVars
<1>1. /\ kick \in Seq(Message) /\ Len(kick) \in 0 .. 1
      /\ \A i \in 1 .. Len(kick) : kick[i].type = "kick"
  <2> DEFINE a == AccountOf[t]
             m == [type |-> "kick", t |-> lastTrans[a]]
  <2>1. CASE lastTrans[a] = None
    BY <2>1 DEF Kick
  <2>2. CASE lastTrans[a] # None
    <3>1. m \in Message
      BY <2>2 DEF TicketInv, TicketTypes, Message
    <3>2. kick = <<m>>
      BY <2>2 DEF Kick
    <3> HIDE DEF kick, a
    <3> QED  BY <3>1, <3>2
  <2> QED  BY <2>1, <2>2
<1>2. login \in Message /\ <<login>> \in Seq(Message)
  BY DEF Message
<1>3. fromLogin \in Seq(Message)
  BY DEF TicketInv, TicketTypes
<1> HIDE DEF kick
<1>4. /\ q \in Seq(Message) /\ Len(q) = Len(fromLogin) + Len(kick)
      /\ \A i \in 1 .. Len(q) :
            q[i] = IF i <= Len(fromLogin) THEN fromLogin[i] ELSE kick[i - Len(fromLogin)]
  BY <1>1, <1>3, ConcatProperties
<1> HIDE DEF q
<1>5. /\ fromLogin' \in Seq(Message) /\ Len(fromLogin') = Len(q) + 1
      /\ \A i \in 1 .. Len(fromLogin') : fromLogin'[i] = IF i <= Len(q) THEN q[i] ELSE login
  <2>1. Len(<<login>>) = 1 /\ <<login>>[1] = login
    OBVIOUS
  <2>2. /\ q \o <<login>> \in Seq(Message)
        /\ Len(q \o <<login>>) = Len(q) + 1
        /\ \A i \in 1 .. Len(q) + 1 :
             (q \o <<login>>)[i] = IF i <= Len(q) THEN q[i] ELSE <<login>>[i - Len(q)]
    BY <1>2, <1>4, <2>1, ConcatProperties
  <2>3. Len(q) \in Nat
    BY <1>4, LenProperties
  <2> HIDE DEF login
  <2> QED  BY <1>0, <2>1, <2>2, <2>3
<1>6. Len(fromLogin) \in Nat /\ Len(q) \in Nat
  BY <1>3, <1>4, LenProperties
<1>7. \A u \in Trans : LoginFor(u)' \subseteq LoginFor(u) \cup (IF u = t THEN {Len(q) + 1} ELSE {})
  <2> SUFFICES ASSUME NEW u \in Trans, NEW i \in LoginFor(u)'
               PROVE  i \in LoginFor(u) \/ (u = t /\ i = Len(q) + 1)
    OBVIOUS
  <2>1. i \in 1 .. Len(q) + 1 /\ fromLogin'[i] = [type |-> "login", t |-> u]
    BY <1>5 DEF LoginFor
  <2>2. CASE i = Len(q) + 1
    <3>1. login = [type |-> "login", t |-> u]
      BY <1>5, <1>6, <2>1, <2>2
    <3> QED  BY <2>2, <3>1
  <2>3. CASE i \in 1 .. Len(fromLogin)
    BY <1>4, <1>5, <1>6, <1>1, <2>1, <2>3 DEF LoginFor
  <2>4. CASE i \in Len(fromLogin) + 1 .. Len(q)
    <3>1. fromLogin'[i] = kick[i - Len(fromLogin)]
      BY <1>4, <1>5, <1>6, <1>1, <2>1, <2>4
    <3>2. i - Len(fromLogin) \in 1 .. Len(kick)
      BY <1>1, <1>4, <1>6, <2>4
    <3>3. fromLogin'[i].type = "kick"
      BY <1>1, <3>1, <3>2
    <3> QED  BY <2>1, <3>3
  <2> QED  BY <1>1, <1>4, <1>6, <2>1, <2>2, <2>3, <2>4
<1>8. \A u \in Trans : (Nowhere(u)' <=> Nowhere(u))
  BY <1>0 DEF Nowhere, Holders
<1>9. Nowhere(t) /\ LoginFor(t) = {}
  BY <1>0 DEF TicketInv, Unissued
<1>10. TicketTypes'
  BY <1>0, <1>5 DEF TicketInv, TicketTypes, LoginServerLogsIn
<1>11. Unissued'
  BY <1>0, <1>7, <1>8 DEF TicketInv, Unissued
<1>12. InFlightAlone'
  BY <1>7, <1>8, <1>9 DEF TicketInv, InFlightAlone
<1>13. TicketInOnePlace'
  BY <1>0 DEF TicketInv, TicketInOnePlace, Holders
<1> QED  BY <1>10, <1>11, <1>12, <1>13 DEF TicketInv

(* addToWait: the ticket leaves the queue, where it was alone.              *)
LEMMA LoginUserKeeps ==
    ASSUME TicketInv, parseLoginUser
    PROVE  TicketInv'
<1>0. /\ UNCHANGED <<tran, gsid, m_activeGames, m_recon_map, issued, lastTrans>>
      /\ m_wait_map' = m_wait_map \cup {Head(fromLogin).t}
      /\ fromLogin # <<>> /\ fromLogin' = Tail(fromLogin)
      /\ Head(fromLogin).type = "login"
  BY DEF parseLoginUser, sessionVars
<1>1. fromLogin \in Seq(Message) /\ Len(fromLogin) \in Nat \ {0}
  BY <1>0, EmptySeq, LenProperties DEF TicketInv, TicketTypes
<1>2. /\ Head(fromLogin) = fromLogin[1] /\ Head(fromLogin) \in Message
      /\ fromLogin' \in Seq(Message) /\ Len(fromLogin') = Len(fromLogin) - 1
      /\ \A i \in 1 .. Len(fromLogin') : fromLogin'[i] = fromLogin[i + 1]
  BY <1>0, <1>1, HeadTailProperties
<1>3. PICK t \in Trans : Head(fromLogin) = [type |-> "login", t |-> t]
  BY <1>0, <1>2 DEF Message
<1>4. 1 \in LoginFor(t)
  BY <1>1, <1>2, <1>3 DEF LoginFor
<1>5. \A u \in Trans : \A i \in LoginFor(u)' : i \in Nat \ {0} /\ i + 1 \in LoginFor(u)
  BY <1>1, <1>2 DEF LoginFor
<1>6. Nowhere(t) /\ t \in issued /\ \A i \in LoginFor(t) : i = 1
  BY <1>3, <1>4 DEF TicketInv, InFlightAlone, Unissued
<1>7. LoginFor(t)' = {}
  BY <1>3, <1>5, <1>6
<1>8. \A u \in Trans \ {t} : Nowhere(u)' <=> Nowhere(u)
  BY <1>0, <1>3 DEF Nowhere, Holders
<1>9. TicketTypes'
  BY <1>0, <1>2, <1>3 DEF TicketInv, TicketTypes
<1>10. Unissued'
  BY <1>0, <1>5, <1>6, <1>7, <1>8 DEF TicketInv, Unissued
<1>11. InFlightAlone'
  BY <1>5, <1>7, <1>8 DEF TicketInv, InFlightAlone
<1>12. TicketInOnePlace'
  BY <1>0, <1>3, <1>6 DEF TicketInv, TicketInOnePlace, Holders, Nowhere
<1> QED  BY <1>9, <1>10, <1>11, <1>12 DEF TicketInv

-----------------------------------------------------------------------------
(* A ticket that was somewhere may move.                                    *)
LEMMA MoveKeeps ==
    ASSUME TicketInv, TicketTypes', TicketInOnePlace',
           NEW t \in Trans, ~Nowhere(t),
           issued' = issued, fromLogin' = fromLogin,
           \A u \in Trans \ {t} : Nowhere(u) => Nowhere(u)'
    PROVE  TicketInv'
<1>1. \A u \in Trans : LoginFor(u)' = LoginFor(u)
  BY DEF LoginFor
<1>2. t \in issued /\ LoginFor(t) = {}
  BY DEF TicketInv, Unissued, InFlightAlone
<1>3. Unissued' /\ InFlightAlone'
  BY <1>1, <1>2 DEF TicketInv, Unissued, InFlightAlone
<1> QED  BY <1>3 DEF TicketInv

(* A step that changes neither the places of tickets nor the queue.         *)
LEMMA FrameKeeps ==
    ASSUME TicketInv, gsid' \in [Sessions -> Games \cup {None}],
           m_activeGames' \subseteq Games,
           UNCHANGED <<tran, m_wait_map, m_recon_map, loginVars>>
    PROVE  TicketInv'
<1>1. FromLoginShrinks
  BY DEF FromLoginShrinks, loginVars
<1>2. Shrinks
  BY DEF Shrinks, loginVars
<1>3. TicketTypes'
  BY DEF TicketInv, TicketTypes, loginVars
<1> QED  BY <1>1, <1>2, <1>3, ShrinkKeeps

(* checkConn takes a waiting ticket, or one in its reconnect window, out of *)
(* its place and gives it to the session; a refused ticket is forgotten.    *)
LEMMA LoginGameKeeps ==
    ASSUME TicketInv, NEW s \in Sessions, NEW t \in Trans, parseLoginGame(s, t)
    PROVE  TicketInv'
<1> USE GateAssumption
<1>0. UNCHANGED <<loginVars, m_activeGames>>
  BY DEF parseLoginGame
<1>1. ASSUME \/ /\ t \in m_wait_map /\ m_recon_map' = m_recon_map
                /\ m_wait_map' = m_wait_map \ {t}
             \/ /\ m_recon_map[t] # None /\ t \notin m_wait_map
                /\ m_wait_map' = m_wait_map
                /\ m_recon_map' = [m_recon_map EXCEPT ![t] = None],
             tran' = [tran EXCEPT ![s] = t],
             gsid' \in [Sessions -> Games \cup {None}]
      PROVE  TicketInv'
  <2>1. TicketTypes'
    BY <1>0, <1>1 DEF TicketInv, TicketTypes, loginVars
  <2>2. /\ Holders(t) = {} /\ Holders(t)' = {s}
        /\ \A u \in Trans \ {t} : Holders(u)' \subseteq Holders(u)
    BY <1>1 DEF TicketInv, TicketInOnePlace, Holders, TicketTypes
  <2>3. m_recon_map'[t] = None /\ t \notin m_wait_map'
    BY <1>1 DEF TicketInv, TicketInOnePlace, TicketTypes
  <2>4. /\ \A u \in Trans \ {t} : m_recon_map'[u] = m_recon_map[u]
        /\ m_wait_map' \subseteq m_wait_map
    BY <1>1 DEF TicketInv, TicketTypes
  <2>5. TicketInOnePlace'
    BY <2>2, <2>3, <2>4 DEF TicketInv, TicketInOnePlace
  <2>6. \A u \in Trans \ {t} : Nowhere(u) => Nowhere(u)'
    BY <2>2, <2>4 DEF Nowhere
  <2>7. ~Nowhere(t)
    BY <1>1 DEF Nowhere
  <2> QED  BY <1>0, <2>1, <2>5, <2>6, <2>7, MoveKeeps DEF loginVars
<1>2. CASE ConnectNew(s, t)
  <2>1. gsid' \in [Sessions -> Games \cup {None}]
    <3>1. PICK g \in getIdleGameClient : gsid' = [gsid EXCEPT ![s] = g]
      BY <1>2 DEF ConnectNew
    <3> QED  BY <3>1 DEF TicketInv, TicketTypes, getIdleGameClient
  <2> QED  BY <1>1, <1>2, <2>1 DEF ConnectNew
<1>3. CASE Reconnect(s, t)
  BY <1>1, <1>3 DEF Reconnect, eraseData, TicketInv, TicketTypes
<1>4. CASE Refuse(s, t)
  <2>1. /\ m_wait_map' = m_wait_map \ {t}
        /\ UNCHANGED <<tran, gsid, m_activeGames, m_recon_map, issued, lastTrans, fromLogin>>
    BY <1>0, <1>4 DEF Refuse, loginVars
  <2>2. Shrinks /\ FromLoginShrinks /\ TicketTypes'
    BY <2>1 DEF Shrinks, FromLoginShrinks, TicketInv, TicketTypes
  <2> QED  BY <2>2, ShrinkKeeps
<1> QED  BY <1>2, <1>3, <1>4 DEF parseLoginGame

(* checkClose moves the ticket of a user who may reconnect from the session *)
(* to m_recon_map; otherwise the ticket is forgotten.                       *)
LEMMA CloseKeeps ==
    ASSUME TicketInv, NEW s \in Sessions, on_close(s)
    PROVE  TicketInv'
<1> USE GateAssumption
<1>0. /\ UNCHANGED <<loginVars, m_activeGames>>
      /\ tran' = [tran EXCEPT ![s] = None]
      /\ gsid' = [gsid EXCEPT ![s] = None]
  BY DEF on_close
<1>1. ASSUME UNCHANGED <<m_wait_map, m_recon_map>>
      PROVE  TicketInv'
  <2>1. Shrinks /\ FromLoginShrinks /\ TicketTypes'
    BY <1>0, <1>1
    DEF Shrinks, FromLoginShrinks, TicketInv, TicketTypes, loginVars
  <2> QED  BY <2>1, ShrinkKeeps
<1>2. CASE CloseAnonymous(s)
  BY <1>1, <1>2 DEF CloseAnonymous, userVars
<1>3. CASE CloseForGood(s)
  BY <1>1, <1>3 DEF CloseForGood
<1>4. CASE CloseForReconnect(s)
  <2>0. PICK t \in Trans : t = tran[s]
    BY <1>4 DEF CloseForReconnect, TicketInv, TicketTypes
  <2>1. /\ m_wait_map' = m_wait_map
        /\ m_recon_map' = addData(m_recon_map, t, gsid[s])
    BY <1>4, <2>0 DEF CloseForReconnect
  <2>2. s \in Holders(t)
    BY <2>0 DEF Holders
  <2>3. t \notin m_wait_map /\ Holders(t) = {s}
    BY <2>2 DEF TicketInv, TicketInOnePlace
  <2>4. TicketTypes'
    BY <1>0, <2>1 DEF TicketInv, TicketTypes, loginVars, addData
  <2>5. /\ Holders(t)' = {}
        /\ \A u \in Trans \ {t} : Holders(u)' \subseteq Holders(u)
    BY <1>0, <2>3 DEF Holders, TicketInv, TicketTypes
  <2>6. \A u \in Trans \ {t} : m_recon_map'[u] = m_recon_map[u]
    BY <2>1 DEF TicketInv, TicketTypes, addData
  <2>7. TicketInOnePlace'
    BY <2>1, <2>3, <2>5, <2>6 DEF TicketInv, TicketInOnePlace
  <2>8. \A u \in Trans \ {t} : Nowhere(u) => Nowhere(u)'
    BY <2>1, <2>5, <2>6 DEF Nowhere
  <2>9. ~Nowhere(t)
    BY <2>2 DEF Nowhere
  <2> QED  BY <1>0, <2>4, <2>7, <2>8, <2>9, MoveKeeps DEF loginVars
<1> QED  BY <1>2, <1>3, <1>4 DEF on_close

(* Kicks, timers and lost links take tickets away and give none a place.    *)
LEMMA RemovalKeeps ==
    ASSUME TicketInv,
           \/ LoginLinkLost \/ parseLoginKick
           \/ \E t \in Trans : eventCallRemoveWait(t) \/ eventCallRemoveReconn(t)
           \/ \E g \in Games : GameLinkLost(g)
    PROVE  TicketInv'
<1> USE GateAssumption
<1> SUFFICES Shrinks /\ FromLoginShrinks /\ TicketTypes'
  BY ShrinkKeeps
<1>0. fromLogin \in Seq(Message) /\ FromLoginShrinks => fromLogin' \in Seq(Message)
  BY ShrinkPositions
<1>1. CASE LoginLinkLost
  BY <1>0, <1>1 DEF LoginLinkLost, Shrinks, FromLoginShrinks, TicketInv, TicketTypes,
                    sessionVars, userVars
<1>2. CASE parseLoginKick
  <2>1. /\ UNCHANGED <<tran, gsid, m_activeGames, issued, lastTrans>>
        /\ FromLoginShrinks
    BY <1>2 DEF parseLoginKick, FromLoginShrinks
  <2>2. PICK t : kickUser(t)
    BY <1>2 DEF parseLoginKick
  <2>3. m_wait_map' \subseteq m_wait_map
    BY <2>2 DEF kickUser, kickOnline, kickOffline
  <2>4. m_recon_map' \in {m_recon_map, [m_recon_map EXCEPT ![t] = None]}
    BY <2>2 DEF kickUser, kickOnline, kickOffline, eraseData
  <2> QED  BY <1>0, <2>1, <2>3, <2>4 DEF Shrinks, TicketInv, TicketTypes
<1>3. ASSUME NEW t \in Trans, eventCallRemoveWait(t) \/ eventCallRemoveReconn(t)
      PROVE  Shrinks /\ FromLoginShrinks /\ TicketTypes'
  BY <1>3 DEF eventCallRemoveWait, eventCallRemoveReconn, eraseData, Shrinks,
              FromLoginShrinks, TicketInv, TicketTypes, sessionVars, loginVars
<1>4. ASSUME NEW g \in Games, GameLinkLost(g)
      PROVE  Shrinks /\ FromLoginShrinks /\ TicketTypes'
  <2>1. PICK T : m_recon_map' = [t \in Trans |-> IF t \in T THEN None ELSE m_recon_map[t]]
    BY <1>4 DEF GameLinkLost
  <2>2. /\ UNCHANGED <<tran, gsid, m_wait_map, loginVars>>
        /\ m_activeGames' \subseteq m_activeGames
    BY <1>4 DEF GameLinkLost
  <2> QED  BY <2>1, <2>2 DEF Shrinks, FromLoginShrinks, TicketInv, TicketTypes, loginVars
<1> QED  BY <1>1, <1>2, <1>3, <1>4

(* The other steps concern sockets, callbacks and game server links.        *)
LEMMA OthersKeep ==
    ASSUME TicketInv,
           \/ \E s \in Sessions : Accept(s) \/ SocketCloses(s) \/ on_accept(s) \/ setClose(s)
           \/ \E g \in Games : \/ parseGateRegister(g) \/ parseGameRegister(g)
                               \/ GameLinkBreaks(g) \/ removeGate(g)
           \/ \E g, h \in Games, t \in Trans : parseChangeGS(g, t, h)
           \/ UNCHANGED vars
    PROVE  TicketInv'
<1> SUFFICES /\ gsid' \in [Sessions -> Games \cup {None}]
             /\ m_activeGames' \subseteq Games
             /\ UNCHANGED <<tran, m_wait_map, m_recon_map, loginVars>>
  BY FrameKeeps
<1>0. gsid \in [Sessions -> Games \cup {None}] /\ m_activeGames \subseteq Games
  BY DEF TicketInv, TicketTypes
<1>1. CASE \E s \in Sessions : Accept(s) \/ SocketCloses(s) \/ on_accept(s) \/ setClose(s)
  BY <1>0, <1>1 DEF Accept, SocketCloses, on_accept, setClose, userVars
<1>2. CASE \E g \in Games : \/ parseGateRegister(g) \/ parseGameRegister(g)
                            \/ GameLinkBreaks(g) \/ removeGate(g)
  BY <1>0, <1>2 DEF parseGateRegister, parseGameRegister, GameLinkBreaks, removeGate,
                    sessionVars, userVars
<1>3. CASE \E g, h \in Games, t \in Trans : parseChangeGS(g, t, h)
  <2>1. PICK g \in Games, h \in Games, t \in Trans : parseChangeGS(g, t, h)
    BY <1>3
  <2>2. gsid' \in {gsid, [gsid EXCEPT ![m_onlines[t]] = h]}
    BY <2>1 DEF parseChangeGS
  <2>3. UNCHANGED <<tran, userVars, m_activeGames, loginVars>>
    BY <2>1 DEF parseChangeGS
  <2> QED  BY <1>0, <2>2, <2>3 DEF userVars
<1>4. CASE UNCHANGED vars
  BY <1>0, <1>4 DEF vars, sessionVars, userVars
<1> QED  BY <1>1, <1>2, <1>3, <1>4

-----------------------------------------------------------------------------
(* Every step keeps TicketInv.                                              *)
LEMMA TicketStep == TicketInv /\ [Next]_vars => TicketInv'
BY LogsInKeeps, LoginUserKeeps, LoginGameKeeps, CloseKeeps, RemovalKeeps, OthersKeep
DEF Next, Environment, MainLoop

(* TicketInv holds initially: no ticket is issued.                          *)
LEMMA TicketInit == Init => TicketInv
<1> SUFFICES ASSUME Init PROVE TicketInv
  OBVIOUS
<1>1. TicketTypes
  BY DEF Init, TicketTypes
<1>2. \A t \in Trans : Nowhere(t) /\ LoginFor(t) = {}
  BY GateAssumption DEF Init, Nowhere, Holders, LoginFor
<1>3. Unissued /\ InFlightAlone
  BY <1>2 DEF Unissued, InFlightAlone
<1>4. TicketInOnePlace
  BY <1>2 DEF TicketInOnePlace, Nowhere
<1> QED  BY <1>1, <1>3, <1>4 DEF TicketInv

(* TicketInv holds in every state the gate reaches: the ticket moves from   *)
(* the login server to m_wait_map, to a session, to m_recon_map and back to *)
(* a session, one place at a time (addToWait, checkConn, checkClose).       *)
THEOREM TicketInductive == Spec => []TicketInv
BY TicketInit, TicketStep, PTL DEF Spec

(* A ticket lets in one client: it is never held by two sessions, nor held  *)
(* while it still waits for a connection or a reconnect.                    *)
THEOREM OneClientPerTicket == Spec => []TicketInOnePlace
<1>1. TicketInv => TicketInOnePlace
  BY DEF TicketInv
<1> QED  BY <1>1, TicketInductive, PTL

-----------------------------------------------------------------------------
(* The users of the gate: routing, players and accounts.                    *)

(* A player that no removeGate is due for and that was not left behind: the *)
(* link works, the gate knows it, and the ticket has its owner.             *)
LEMMA LivePlayer ==
    ASSUME UserInv, NEW g \in Games, NEW u \in gsUsers[g],
           gsGate[g] # "old", u \notin leftBehind[g]
    PROVE  /\ u \in Trans /\ g \in m_activeGames /\ gsGate[g] = "current"
           /\ m_recon_map[u] = g \/ \E s \in Holders(u) : gsid[s] = g
<1>1. u \in Trans /\ gsGate[g] = "current"
  BY DEF UserInv, UserTypes, PlayersOnLink
<1>2. g \in m_activeGames
  BY <1>1 DEF UserInv, PlayersOnLink
<1> QED  BY <1>1, <1>2 DEF UserInv, NoOrphanPlayer

(* Steps that leave users, players and reconnect windows alone: they free   *)
(* no session and take no game server away.                                 *)
LEMMA UserFrame ==
    ASSUME UserInv, TicketInv',
           conn' \in [Sessions -> {"free", "open", "closed"}],
           \A s \in Sessions : conn'[s] = "free" => conn[s] = "free",
           m_activeGames \subseteq m_activeGames',
           UNCHANGED <<tran, gsid, m_onlines, m_onlineaccs, m_recon_map,
                       reconTimers, gameVars>>
    PROVE  UserInv'
<1> USE GateAssumption DEF gameVars, linkVars
<1>1. \A t : Holders(t)' = Holders(t)
  BY DEF Holders
<1>2. UserTypes' /\ HolderConnected' /\ PlayersOnLink' /\ FiledUnderOwn'
  BY DEF UserInv, UserTypes, HolderConnected, PlayersOnLink, FiledUnderOwn
<1>3. RoutedToOwner'
  BY DEF UserInv, UserTypes, RoutedToOwner
<1>4. NoOrphanPlayer' /\ OnlineAccountOwned'
  BY <1>1 DEF UserInv, NoOrphanPlayer, OnlineAccountOwned
<1> QED  BY <1>2, <1>3, <1>4 DEF UserInv

(* Sockets, timers of sessions and of waiting tickets, the messages of the  *)
(* login server except a kick, and a game server that registers.            *)
LEMMA FrameSteps ==
    ASSUME UserInv, TicketInv',
           \/ \E t \in Trans : LoginServerLogsIn(t) \/ eventCallRemoveWait(t)
           \/ LoginLinkLost \/ parseLoginUser
           \/ \E s \in Sessions : Accept(s) \/ SocketCloses(s) \/ on_accept(s) \/ setClose(s)
           \/ \E g \in Games : parseGameRegister(g)
           \/ UNCHANGED vars
    PROVE  UserInv'
<1>1. SUFFICES /\ conn' \in [Sessions -> {"free", "open", "closed"}]
               /\ \A s \in Sessions : conn'[s] = "free" => conn[s] = "free"
               /\ m_activeGames \subseteq m_activeGames'
               /\ UNCHANGED <<tran, gsid, m_onlines, m_onlineaccs, m_recon_map,
                              reconTimers, gameVars>>
  BY UserFrame
<1>2. conn \in [Sessions -> {"free", "open", "closed"}]
  BY DEF UserInv, UserTypes
<1>3. CASE \E t \in Trans : LoginServerLogsIn(t) \/ eventCallRemoveWait(t)
  BY <1>2, <1>3 DEF LoginServerLogsIn, eventCallRemoveWait, sessionVars, userVars
<1>4. CASE LoginLinkLost \/ parseLoginUser
  BY <1>2, <1>4 DEF LoginLinkLost, parseLoginUser, sessionVars, userVars
<1>5. CASE \E s \in Sessions : Accept(s) \/ SocketCloses(s) \/ on_accept(s) \/ setClose(s)
  BY <1>2, <1>5 DEF Accept, SocketCloses, on_accept, setClose, userVars
<1>6. CASE \E g \in Games : parseGameRegister(g)
  BY <1>2, <1>6 DEF parseGameRegister, sessionVars, userVars
<1>7. CASE UNCHANGED vars
  BY <1>2, <1>7 DEF vars, sessionVars, userVars
<1> QED  BY <1>3, <1>4, <1>5, <1>6, <1>7

(* A kick takes the ticket out of m_onlines or of m_recon_map, and in the   *)
(* latter case off its game server; the session keeps it until on_close.    *)
LEMMA KickKeeps ==
    ASSUME UserInv, TicketInv', parseLoginKick
    PROVE  UserInv'
<1> USE GateAssumption
<1>0. PICK t \in Trans : kickUser(t)
  <2>1. Head(fromLogin) \in Message /\ kickUser(Head(fromLogin).t)
    BY HeadTailProperties DEF parseLoginKick, UserInv, TicketInv, TicketTypes
  <2> QED  BY <2>1 DEF Message
<1>1. UNCHANGED <<conn, tran, gsid, reconTimers, m_activeGames, gsGate, leftBehind>>
  BY DEF parseLoginKick, linkVars
<1>2. \A u : Holders(u)' = Holders(u)
  BY <1>1 DEF Holders
<1>3. /\ m_onlines' \in {m_onlines, [m_onlines EXCEPT ![t] = None]}
      /\ m_onlineaccs' \in {m_onlineaccs, [m_onlineaccs EXCEPT ![AccountOf[t]] = None]}
  BY <1>0 DEF kickUser, kickOnline, kickOffline, eraseData
<1>4. /\ gsUsers' \in [Games -> SUBSET Trans]
      /\ \A g \in Games : gsUsers'[g] \subseteq gsUsers[g]
  BY <1>0 DEF kickUser, kickOnline, kickOffline, removePlayer, UserInv, UserTypes
<1>5. UserTypes' /\ HolderConnected'
  BY <1>1, <1>3, <1>4 DEF UserInv, UserTypes, HolderConnected
<1>6. PlayersOnLink'
  BY <1>1, <1>4 DEF UserInv, PlayersOnLink
<1>7. FiledUnderOwn' /\ OnlineAccountOwned'
  BY <1>1, <1>2, <1>3 DEF UserInv, UserTypes, FiledUnderOwn, OnlineAccountOwned
<1>8. RoutedToOwner'
  BY <1>1, <1>3 DEF UserInv, UserTypes, RoutedToOwner
<1>9. NoOrphanPlayer'
  <2> SUFFICES ASSUME NEW g \in Games, NEW u \in gsUsers'[g],
                      gsGate[g] # "old", u \notin leftBehind[g],
                      ~\E s \in Holders(u) : gsid[s] = g
               PROVE  m_recon_map'[u] = g
    BY <1>1, <1>2 DEF NoOrphanPlayer
  <2>1. /\ u \in Trans /\ u \in gsUsers[g] /\ m_recon_map[u] = g
        /\ g \in m_activeGames /\ gsGate[g] = "current"
    BY <1>4, LivePlayer
  <2>2. CASE kickOnline(t)
    BY <2>1, <2>2 DEF kickOnline
  <2>3. CASE kickOffline(t)
    <3>1. u # t
      BY <2>1, <2>3 DEF kickOffline, removePlayer, UserInv, UserTypes
    <3> QED  BY <2>1, <2>3, <3>1 DEF kickOffline, eraseData, UserInv, TicketInv, TicketTypes
  <2> QED  BY <1>0, <2>2, <2>3 DEF kickUser
<1> QED  BY <1>5, <1>6, <1>7, <1>8, <1>9 DEF UserInv

(* checkConn lets a session in: it had no ticket, so nobody loses one.      *)
LEMMA LetInKeeps ==
    ASSUME UserInv, TicketInv', KeepsTicket,
           NEW s \in Sessions, NEW t \in Trans, parseLoginGame(s, t)
    PROVE  UserInv'
<1> USE GateAssumption
<1>0. UNCHANGED <<conn, reconTimers, m_activeGames, gsGate, leftBehind, breaks>> /\ conn[s] = "open"
  BY DEF parseLoginGame, linkVars
<1>1. ASSUME Holders(t) = {}, tran' = [tran EXCEPT ![s] = t],
             NEW g \in Games, gsid' = [gsid EXCEPT ![s] = g],
             m_onlines' = addData(m_onlines, t, s),
             m_onlineaccs' \in {m_onlineaccs, addData(m_onlineaccs, AccountOf[t], t)},
             \/ /\ \/ gsUsers' = gsUsers
                   \/ /\ gsUsers' = [gsUsers EXCEPT ![g] = @ \cup {t}]
                      /\ gsGate[g] = "current" /\ g \in m_activeGames
                /\ m_recon_map[t] = None /\ m_recon_map' = m_recon_map
             \/ /\ gsUsers' = gsUsers /\ m_recon_map[t] = g
                /\ m_recon_map' = [m_recon_map EXCEPT ![t] = None]
      PROVE  UserInv'
  <2>1. tran[s] = None
    BY <1>1 DEF Holders, KeepsTicket, UserInv, TicketInv, TicketTypes
  <2>2. \A u \in Trans : Holders(u)' = IF u = t THEN {s} ELSE Holders(u)
    BY <1>1, <2>1 DEF Holders, UserInv, TicketInv, TicketTypes
  <2>3. m_onlines[t] = None
    BY <1>1 DEF UserInv, UserTypes, RoutedToOwner, Holders
  <2>4. m_onlines' = [m_onlines EXCEPT ![t] = s]
    BY <1>1, <2>3 DEF addData
  <2>5. UserTypes'
    BY <1>0, <1>1, <2>4 DEF UserInv, UserTypes, addData
  <2>6. HolderConnected'
    BY <1>0, <1>1 DEF UserInv, HolderConnected, TicketInv, TicketTypes
  <2>7. PlayersOnLink'
    BY <1>0, <1>1 DEF UserInv, PlayersOnLink, UserTypes
  <2>8. FiledUnderOwn'
    BY <1>1 DEF UserInv, FiledUnderOwn, UserTypes, addData
  <2>9. RoutedToOwner'
    BY <1>0, <1>1, <2>1, <2>4 DEF UserInv, RoutedToOwner, UserTypes, TicketInv, TicketTypes
  <2>10. OnlineAccountOwned'
    <3> SUFFICES ASSUME NEW a \in Accounts, m_onlineaccs'[a] # None
                 PROVE  \/ \E p \in Sessions : tran'[p] = m_onlineaccs'[a]
                        \/ reconTimers[m_onlineaccs'[a]] > 0
      BY <1>0 DEF OnlineAccountOwned, Holders
    <3>1. CASE m_onlineaccs'[a] = t
      BY <1>1, <3>1 DEF UserInv, TicketInv, TicketTypes
    <3>2. CASE m_onlineaccs'[a] # t
      <4>1. m_onlineaccs'[a] = m_onlineaccs[a]
        BY <1>1, <3>2 DEF addData, UserInv, UserTypes
      <4>2. \A p \in Sessions : tran[p] = m_onlineaccs[a] => tran'[p] = tran[p]
        BY <1>1, <2>1, <4>1 DEF UserInv, TicketInv, TicketTypes
      <4> QED  BY <4>1, <4>2 DEF UserInv, OnlineAccountOwned, Holders
    <3> QED  BY <3>1, <3>2
  <2>11. NoOrphanPlayer'
    <3> SUFFICES ASSUME NEW h \in Games, NEW u \in gsUsers'[h],
                        gsGate[h] # "old", u \notin leftBehind[h]
                 PROVE  m_recon_map'[u] = h \/ \E p \in Holders(u)' : gsid'[p] = h
      BY <1>0 DEF NoOrphanPlayer
    <3>0. u \in Trans
      BY <2>5 DEF UserTypes
    <3>1. CASE u = t
      <4>1. h = g
        <5>1. t \in gsUsers[h] => m_recon_map[t] = h
          BY <1>1, <3>1, LivePlayer
        <5> QED  BY <1>1, <3>1, <5>1 DEF UserInv, UserTypes
      <4> QED  BY <1>1, <2>2, <3>0, <3>1, <4>1 DEF UserInv, TicketInv, TicketTypes
    <3>2. CASE u # t
      <4>1. u \in gsUsers[h]
        BY <1>1, <3>2 DEF UserInv, UserTypes
      <4>2. m_recon_map'[u] = m_recon_map[u]
        BY <1>1, <3>0, <3>2 DEF UserInv, TicketInv, TicketTypes
      <4>3. Holders(u)' = Holders(u) /\ \A p \in Holders(u) : gsid'[p] = gsid[p]
        BY <1>1, <2>1, <2>2, <3>0, <3>2 DEF Holders, UserInv, TicketInv, TicketTypes
      <4> QED  BY <4>1, <4>2, <4>3, LivePlayer
    <3> QED  BY <3>1, <3>2
  <2> QED  BY <2>5, <2>6, <2>7, <2>8, <2>9, <2>10, <2>11 DEF UserInv
<1>2. CASE ConnectNew(s, t)
  <2>1. PICK g \in m_activeGames : /\ gsUsers' = addNewPlayer(g, t)
                                   /\ gsid' = [gsid EXCEPT ![s] = g]
    BY <1>2 DEF ConnectNew, getIdleGameClient
  <2>2. g \in Games /\ Holders(t) = {} /\ m_recon_map[t] = None
    BY <1>2 DEF ConnectNew, UserInv, TicketInv, TicketTypes, TicketInOnePlace
  <2> QED  BY <1>1, <1>2, <2>1, <2>2 DEF ConnectNew, addNewPlayer
<1>3. CASE Reconnect(s, t)
  <2>1. m_recon_map[t] \in Games /\ Holders(t) = {}
    BY <1>3 DEF Reconnect, UserInv, TicketInv, TicketTypes, TicketInOnePlace
  <2> QED  BY <1>1, <1>3, <2>1 DEF Reconnect, eraseData
<1>4. CASE Refuse(s, t)
  BY <1>0, <1>4, UserFrame DEF Refuse, UserInv, UserTypes, gameVars, linkVars
<1> QED  BY <1>2, <1>3, <1>4 DEF parseLoginGame

(* on_close of a session with a ticket: the ticket leaves m_onlines, its    *)
(* player stays with the reconnect window or is removed, and a timer runs   *)
(* that takes the account out.                                              *)
LEMMA CloseHolderKeeps ==
    ASSUME UserInv, TicketInv', NEW s \in Sessions, on_close(s), tran[s] # None
    PROVE  UserInv'
<1> USE GateAssumption
<1>0. PICK t \in Trans : t = tran[s]
  BY DEF UserInv, TicketInv, TicketTypes
<1>1. /\ conn' = [conn EXCEPT ![s] = "free"] /\ tran' = [tran EXCEPT ![s] = None]
      /\ gsid' = [gsid EXCEPT ![s] = None]
      /\ UNCHANGED <<m_activeGames, gsGate, leftBehind>>
      /\ CloseForReconnect(s) \/ CloseForGood(s)
      /\ reconTimers' = [reconTimers EXCEPT ![t] = @ + 1]
  BY <1>0 DEF on_close, CloseAnonymous, ArmReconnTimer, linkVars
<1>2. Holders(t) = {s} /\ m_recon_map[t] = None
  <2>1. s \in Holders(t)
    BY <1>0 DEF Holders
  <2> QED  BY <2>1 DEF UserInv, TicketInv, TicketInOnePlace
<1>3. \A p \in Sessions \ {s} : tran'[p] = tran[p] /\ gsid'[p] = gsid[p] /\ conn'[p] = conn[p]
  BY <1>1 DEF UserInv, UserTypes, TicketInv, TicketTypes
<1>4. m_onlines' = [m_onlines EXCEPT ![t] = None]
  BY <1>0, <1>1 DEF CloseForReconnect, CloseForGood, eraseData
<1>5. m_onlineaccs' \in {m_onlineaccs, [m_onlineaccs EXCEPT ![AccountOf[t]] = None]}
  BY <1>0, <1>1 DEF CloseForReconnect, CloseForGood, eraseAccount, eraseData
<1>6. /\ gsUsers' \in [Games -> SUBSET Trans]
      /\ \A g \in Games : gsUsers'[g] \subseteq gsUsers[g]
  BY <1>0, <1>1 DEF CloseForReconnect, CloseForGood, removePlayer, UserInv, UserTypes
<1>7. UserTypes' /\ HolderConnected'
  <2>1. UserTypes'
    <3>1. reconTimers' \in [Trans -> Nat]
      BY <1>1 DEF UserInv, UserTypes
    <3>2. m_onlineaccs' \in [Accounts -> Trans \cup {None}]
      BY <1>5 DEF UserInv, UserTypes
    <3> QED  BY <1>1, <1>4, <1>6, <3>1, <3>2 DEF UserInv, UserTypes
  <2>2. HolderConnected'
    BY <1>1, <1>3 DEF UserInv, HolderConnected, TicketInv, TicketTypes
  <2> QED  BY <2>1, <2>2
<1>8. PlayersOnLink'
  BY <1>1, <1>6 DEF UserInv, PlayersOnLink
<1>9. FiledUnderOwn'
  BY <1>5 DEF UserInv, FiledUnderOwn, UserTypes
<1>10. RoutedToOwner'
  BY <1>0, <1>3, <1>4 DEF UserInv, RoutedToOwner, UserTypes
<1>11. OnlineAccountOwned'
  <2> SUFFICES ASSUME NEW a \in Accounts, m_onlineaccs'[a] # None
               PROVE  \/ \E p \in Sessions : tran'[p] = m_onlineaccs'[a]
                      \/ reconTimers'[m_onlineaccs'[a]] > 0
    BY DEF OnlineAccountOwned, Holders
  <2>1. m_onlineaccs'[a] = m_onlineaccs[a] /\ m_onlineaccs[a] \in Trans
    BY <1>5 DEF UserInv, UserTypes
  <2>2. CASE m_onlineaccs[a] = t
    BY <1>1, <2>1, <2>2 DEF UserInv, UserTypes
  <2>3. CASE m_onlineaccs[a] # t
    <3>1. reconTimers'[m_onlineaccs[a]] = reconTimers[m_onlineaccs[a]]
      BY <1>1, <2>1, <2>3 DEF UserInv, UserTypes
    <3>2. \A p \in Sessions : tran[p] = m_onlineaccs[a] => tran'[p] = tran[p]
      BY <1>0, <1>3, <2>3
    <3> QED  BY <2>1, <3>1, <3>2 DEF UserInv, OnlineAccountOwned, Holders
  <2> QED  BY <2>2, <2>3
<1>12. NoOrphanPlayer'
  <2> SUFFICES ASSUME NEW g \in Games, NEW u \in gsUsers'[g],
                      gsGate[g] # "old", u \notin leftBehind[g]
               PROVE  m_recon_map'[u] = g \/ \E p \in Holders(u)' : gsid'[p] = g
    BY <1>1 DEF NoOrphanPlayer
  <2>1. /\ u \in Trans /\ u \in gsUsers[g]
        /\ g \in m_activeGames /\ gsGate[g] = "current"
    BY <1>6, LivePlayer
  <2>2. m_recon_map[u] = g \/ \E p \in Holders(u) : gsid[p] = g
    BY <2>1, LivePlayer
  <2>3. CASE u # t
    <3>1. m_recon_map'[u] = m_recon_map[u]
      BY <1>0, <1>1, <2>1, <2>3
      DEF CloseForReconnect, CloseForGood, addData, UserInv, TicketInv, TicketTypes
    <3>2. \A p \in Holders(u) : p \in Holders(u)' /\ gsid'[p] = gsid[p]
      BY <1>0, <1>3, <2>3 DEF Holders
    <3> QED  BY <2>2, <3>1, <3>2
  <2>4. CASE u = t
    <3>1. gsid[s] = g
      BY <1>2, <2>2, <2>4
    <3>2. ~CloseForGood(s)
      BY <1>0, <2>1, <2>4, <3>1 DEF CloseForGood, removePlayer, UserInv, UserTypes
    <3>3. CloseForReconnect(s)
      BY <1>1, <3>2
    <3> QED  BY <1>0, <1>2, <2>4, <3>1, <3>3
             DEF CloseForReconnect, addData, UserInv, TicketInv, TicketTypes
  <2> QED  BY <2>3, <2>4
<1> QED  BY <1>7, <1>8, <1>9, <1>10, <1>11, <1>12 DEF UserInv

(* on_close of a session without a ticket: m_onlines has no entry for it.   *)
LEMMA CloseAnonymousKeeps ==
    ASSUME UserInv, TicketInv', NEW s \in Sessions, on_close(s), tran[s] = None
    PROVE  UserInv'
<1> USE GateAssumption
<1>1. /\ conn' = [conn EXCEPT ![s] = "free"] /\ tran' = [tran EXCEPT ![s] = None]
      /\ gsid' = [gsid EXCEPT ![s] = None]
      /\ UNCHANGED <<m_activeGames, userVars, reconTimers, gsUsers, gsGate, leftBehind>>
  BY DEF on_close, CloseAnonymous, CloseForReconnect, CloseForGood, linkVars
<1>2. tran' = tran /\ \A p \in Sessions \ {s} : gsid'[p] = gsid[p] /\ conn'[p] = conn[p]
  BY <1>1 DEF UserInv, UserTypes, TicketInv, TicketTypes
<1>3. \A t : Holders(t)' = Holders(t)
  BY <1>2 DEF Holders
<1>4. UserTypes' /\ PlayersOnLink' /\ FiledUnderOwn'
  BY <1>1 DEF UserInv, UserTypes, PlayersOnLink, FiledUnderOwn, userVars
<1>5. HolderConnected'
  BY <1>2 DEF UserInv, HolderConnected
<1>6. RoutedToOwner'
  BY <1>1, <1>2 DEF UserInv, UserTypes, RoutedToOwner, userVars
<1>7. OnlineAccountOwned'
  BY <1>1, <1>3 DEF UserInv, OnlineAccountOwned, userVars
<1>8. \A t \in Trans : s \notin Holders(t)
  BY DEF Holders
<1>9. NoOrphanPlayer'
  BY <1>1, <1>2, <1>3, <1>8 DEF UserInv, UserTypes, NoOrphanPlayer, Holders, userVars
<1> QED  BY <1>4, <1>5, <1>6, <1>7, <1>9 DEF UserInv

(* The reconnect timer removes the player its window was open for, and the  *)
(* account with the ticket it was armed for.                                *)
LEMMA RemoveReconnKeeps ==
    ASSUME UserInv, TicketInv', NEW t \in Trans, eventCallRemoveReconn(t)
    PROVE  UserInv'
<1> USE GateAssumption
<1>1. /\ UNCHANGED <<conn, tran, gsid, m_onlines, m_activeGames, gsGate, leftBehind>>
      /\ m_recon_map' = [m_recon_map EXCEPT ![t] = None]
      /\ reconTimers[t] > 0 /\ reconTimers' = [reconTimers EXCEPT ![t] = @ - 1]
      /\ m_onlineaccs' = eraseAccount(t)
      /\ gsUsers' = IF m_recon_map[t] = None THEN gsUsers
                                             ELSE removePlayer(m_recon_map[t], t)
  BY DEF eventCallRemoveReconn, sessionVars, linkVars, eraseData
<1>2. \A u : Holders(u)' = Holders(u)
  BY <1>1 DEF Holders
<1>3. m_onlineaccs' \in {m_onlineaccs, [m_onlineaccs EXCEPT ![AccountOf[t]] = None]}
  BY <1>1 DEF eraseAccount, eraseData
<1>4. /\ gsUsers' \in [Games -> SUBSET Trans]
      /\ \A g \in Games : gsUsers'[g] \subseteq gsUsers[g]
  BY <1>1 DEF removePlayer, UserInv, UserTypes
<1>5. UserTypes' /\ HolderConnected' /\ PlayersOnLink' /\ FiledUnderOwn' /\ RoutedToOwner'
  <2>1. reconTimers' \in [Trans -> Nat]
    BY <1>1 DEF UserInv, UserTypes
  <2>2. m_onlineaccs' \in [Accounts -> Trans \cup {None}] /\ FiledUnderOwn'
    BY <1>3 DEF UserInv, UserTypes, FiledUnderOwn
  <2> QED  BY <1>1, <1>4, <2>1, <2>2
           DEF UserInv, UserTypes, HolderConnected, PlayersOnLink, RoutedToOwner
<1>6. OnlineAccountOwned'
  <2> SUFFICES ASSUME NEW a \in Accounts, m_onlineaccs'[a] # None
               PROVE  \/ \E p \in Sessions : tran[p] = m_onlineaccs'[a]
                      \/ reconTimers'[m_onlineaccs'[a]] > 0
    BY <1>1 DEF OnlineAccountOwned, Holders
  <2>1. m_onlineaccs'[a] = m_onlineaccs[a] /\ m_onlineaccs[a] \in Trans
    BY <1>3 DEF UserInv, UserTypes
  <2>2. m_onlineaccs[a] # t
    BY <1>1, <2>1 DEF eraseAccount, eraseData, UserInv, UserTypes, FiledUnderOwn
  <2>3. reconTimers'[m_onlineaccs[a]] = reconTimers[m_onlineaccs[a]]
    BY <1>1, <2>1, <2>2 DEF UserInv, UserTypes
  <2> QED  BY <2>1, <2>3 DEF UserInv, OnlineAccountOwned, Holders
<1>7. NoOrphanPlayer'
  <2> SUFFICES ASSUME NEW g \in Games, NEW u \in gsUsers'[g],
                      gsGate[g] # "old", u \notin leftBehind[g],
                      ~\E p \in Holders(u) : gsid[p] = g
               PROVE  m_recon_map'[u] = g
    BY <1>1, <1>2 DEF NoOrphanPlayer
  <2>1. /\ u \in Trans /\ u \in gsUsers[g] /\ m_recon_map[u] = g
        /\ g \in m_activeGames /\ gsGate[g] = "current"
    BY <1>4, LivePlayer
  <2>2. u # t
    BY <1>1, <2>1 DEF removePlayer, UserInv, UserTypes
  <2> QED  BY <1>1, <2>1, <2>2 DEF UserInv, TicketInv, TicketTypes
<1> QED  BY <1>5, <1>6, <1>7 DEF UserInv

(* The gate notices a broken link: the players of that game server wait for *)
(* its removeGate or are gone, whatever removeUsers skips.                  *)
LEMMA GameLostKeeps ==
    ASSUME UserInv, TicketInv', NEW g \in Games, GameLinkLost(g)
    PROVE  UserInv'
<1> USE GateAssumption
<1>1. /\ UNCHANGED <<conn, tran, gsid, m_onlines, m_onlineaccs, reconTimers>>
      /\ m_activeGames' = m_activeGames \ {g} /\ gsGate[g] # "current"
      /\ UNCHANGED <<gsUsers, gsGate, leftBehind>>
  BY DEF GameLinkLost, gameVars, linkVars
<1>2. \A u : Holders(u)' = Holders(u)
  BY <1>1 DEF Holders
<1>3. \A u \in Trans : m_recon_map[u] # g => m_recon_map'[u] = m_recon_map[u]
  <2>1. PICK T \in ErasedBy({t \in Trans : m_recon_map[t] = g}) :
          m_recon_map' = [t \in Trans |-> IF t \in T THEN None ELSE m_recon_map[t]]
    BY DEF GameLinkLost
  <2>2. T \subseteq {t \in Trans : m_recon_map[t] = g}
    BY <2>1 DEF ErasedBy
  <2> QED  BY <2>1, <2>2
<1>4. UserTypes' /\ HolderConnected' /\ PlayersOnLink' /\ FiledUnderOwn' /\ RoutedToOwner'
  BY <1>1 DEF UserInv, UserTypes, HolderConnected, PlayersOnLink, FiledUnderOwn, RoutedToOwner
<1>5. OnlineAccountOwned'
  BY <1>1, <1>2 DEF UserInv, OnlineAccountOwned
<1>6. NoOrphanPlayer'
  <2> SUFFICES ASSUME NEW k \in Games, NEW u \in gsUsers[k],
                      gsGate[k] # "old", u \notin leftBehind[k]
               PROVE  m_recon_map'[u] = k \/ \E s \in Holders(u) : gsid[s] = k
    BY <1>1, <1>2 DEF NoOrphanPlayer
  <2>1. k # g /\ u \in Trans
    BY <1>1, LivePlayer
  <2> QED  BY <1>3, <2>1, LivePlayer
<1> QED  BY <1>4, <1>5, <1>6 DEF UserInv

(* The game server's side of a link: a register leaves behind whom it finds, *)
(* a broken link's players are due for removeGate, which removes them.       *)
LEMMA LinkKeeps ==
    ASSUME UserInv, TicketInv', NEW g \in Games,
           parseGateRegister(g) \/ GameLinkBreaks(g) \/ removeGate(g)
    PROVE  UserInv'
<1> USE GateAssumption
<1>1. UNCHANGED <<conn, tran, gsid, m_onlines, m_onlineaccs, m_recon_map, reconTimers,
                  m_activeGames>>
  BY DEF parseGateRegister, GameLinkBreaks, removeGate, sessionVars, userVars
<1>2. \A u : Holders(u)' = Holders(u)
  BY <1>1 DEF Holders
<1>3. \/ /\ gsGate' = [gsGate EXCEPT ![g] = "current"] /\ gsUsers' = gsUsers
         /\ leftBehind' = [leftBehind EXCEPT ![g] = gsUsers[g]]
      \/ /\ gsGate' = [gsGate EXCEPT ![g] = "old"] /\ UNCHANGED <<gsUsers, leftBehind>>
      \/ /\ gsGate' = [gsGate EXCEPT ![g] = "none"]
         /\ gsUsers' = [gsUsers EXCEPT ![g] = {}]
         /\ leftBehind' = [leftBehind EXCEPT ![g] = {}]
  BY DEF parseGateRegister, GameLinkBreaks, removeGate
<1>4. UserTypes' /\ PlayersOnLink'
  BY <1>1, <1>3 DEF UserInv, UserTypes, PlayersOnLink
<1>5. HolderConnected' /\ FiledUnderOwn' /\ RoutedToOwner' /\ OnlineAccountOwned'
  BY <1>1, <1>2 DEF UserInv, HolderConnected, FiledUnderOwn, RoutedToOwner, OnlineAccountOwned
<1>6. NoOrphanPlayer'
  <2> SUFFICES ASSUME NEW k \in Games, NEW u \in gsUsers'[k],
                      gsGate'[k] # "old", u \notin leftBehind'[k]
               PROVE  m_recon_map[u] = k \/ \E s \in Holders(u) : gsid[s] = k
    BY <1>1, <1>2 DEF NoOrphanPlayer
  <2>1. /\ k # g /\ u \in gsUsers[k] /\ gsGate'[k] = gsGate[k]
        /\ leftBehind'[k] = leftBehind[k]
    BY <1>3 DEF UserInv, UserTypes
  <2> QED  BY <2>1, LivePlayer
<1> QED  BY <1>4, <1>5, <1>6 DEF UserInv

(* parseChangeGS moves session and player together, or removes the player.  *)
LEMMA ChangeGSKeeps ==
    ASSUME UserInv, TicketInv', NEW g \in Games, NEW h \in Games, NEW t \in Trans,
           parseChangeGS(g, t, h)
    PROVE  UserInv'
<1> USE GateAssumption
<1> DEFINE p == m_onlines[t]
<1>1. /\ UNCHANGED <<conn, tran, m_onlines, m_onlineaccs, m_recon_map, reconTimers,
                     m_activeGames, gsGate, leftBehind>>
      /\ p \in Sessions /\ gsid[p] = g /\ tran[p] = t
  BY DEF parseChangeGS, userVars, linkVars, UserInv, UserTypes
<1>2. \A u : Holders(u)' = Holders(u)
  BY <1>1 DEF Holders
<1>3. Holders(t) = {p} /\ m_recon_map[t] = None
  <2>1. p \in Holders(t)
    BY <1>1 DEF Holders
  <2> QED  BY <2>1 DEF UserInv, TicketInv, TicketInOnePlace
<1> DEFINE left == removePlayer(g, t)
<1>0. /\ left \in [Games -> SUBSET Trans] /\ \A k \in Games : left[k] \subseteq gsUsers[k]
      /\ \A k \in Games : \A u \in gsUsers[k] : u # t => u \in left[k]
      /\ gsGate[g] = "current" => t \notin left[g]
  BY DEF parseChangeGS, removePlayer, UserInv, UserTypes
<1>4. \/ /\ h \in m_activeGames /\ gsid' = [gsid EXCEPT ![p] = h]
         /\ \/ gsUsers' = left
            \/ gsGate[h] = "current" /\ gsUsers' = [left EXCEPT ![h] = @ \cup {t}]
      \/ gsid' = gsid /\ gsUsers' \in {gsUsers, left}
  BY DEF parseChangeGS
<1> HIDE DEF left
<1> HIDE DEF p
<1>5. UserTypes' /\ PlayersOnLink'
  BY <1>0, <1>1, <1>4 DEF UserInv, UserTypes, PlayersOnLink
<1>6. HolderConnected' /\ FiledUnderOwn' /\ RoutedToOwner'
  BY <1>1 DEF UserInv, UserTypes, HolderConnected, FiledUnderOwn, RoutedToOwner
<1>7. OnlineAccountOwned'
  BY <1>1, <1>2 DEF UserInv, OnlineAccountOwned
<1>8. NoOrphanPlayer'
  <2> SUFFICES ASSUME NEW k \in Games, NEW u \in gsUsers'[k],
                      gsGate[k] # "old", u \notin leftBehind[k]
               PROVE  m_recon_map[u] = k \/ \E q \in Holders(u) : gsid'[q] = k
    BY <1>1, <1>2 DEF NoOrphanPlayer
  <2>0. u \in Trans
    BY <1>5 DEF UserTypes
  <2>1. CASE u = t
    <3>1. t \in gsUsers[k] => k = g /\ gsGate[g] = "current"
      BY <1>1, <1>3, <2>1, LivePlayer
    <3>2. CASE gsid' = gsid /\ gsUsers' \in {gsUsers, left}
      BY <1>0, <1>1, <1>3, <2>1, <3>1, <3>2
    <3>3. CASE /\ gsid' = [gsid EXCEPT ![p] = h]
               /\ gsUsers' \in {left, [left EXCEPT ![h] = @ \cup {t}]}
      <4>1. k = h
        BY <1>0, <2>1, <3>1, <3>3
      <4> QED  BY <1>1, <1>3, <2>1, <3>3, <4>1 DEF UserInv, TicketInv, TicketTypes
    <3> QED  BY <1>4, <3>2, <3>3
  <2>2. CASE u # t
    <3>1. u \in gsUsers[k]
      BY <1>0, <1>4, <2>2
    <3>2. \A q \in Holders(u) : gsid'[q] = gsid[q]
      BY <1>1, <1>4, <2>2 DEF Holders, UserInv, TicketInv, TicketTypes
    <3> QED  BY <3>1, <3>2, LivePlayer
  <2> QED  BY <2>1, <2>2
<1> QED  BY <1>5, <1>6, <1>7, <1>8 DEF UserInv

-----------------------------------------------------------------------------
(* As long as no session exchanges its ticket, every step keeps UserInv.    *)
LEMMA UserStep ==
    ASSUME UserInv, [Next]_vars, [KeepsTicket]_vars
    PROVE  UserInv'
<1>1. TicketInv'
  BY TicketStep DEF UserInv
<1>2. CASE \E s \in Sessions, t \in Trans : parseLoginGame(s, t)
  <2>1. KeepsTicket
    BY <1>2 DEF KeepsTicket, vars, sessionVars
  <2> QED  BY <1>1, <1>2, <2>1, LetInKeeps
<1>3. CASE \E s \in Sessions : on_close(s)
  BY <1>1, <1>3, CloseHolderKeeps, CloseAnonymousKeeps
<1>4. CASE parseLoginKick
  BY <1>1, <1>4, KickKeeps
<1>5. CASE \E t \in Trans : eventCallRemoveReconn(t)
  BY <1>1, <1>5, RemoveReconnKeeps
<1>6. CASE \E g \in Games : GameLinkLost(g)
  BY <1>1, <1>6, GameLostKeeps
<1>7. CASE \E g, h \in Games, t \in Trans : parseChangeGS(g, t, h)
  BY <1>1, <1>7, ChangeGSKeeps
<1>8. CASE \E g \in Games : parseGateRegister(g) \/ GameLinkBreaks(g) \/ removeGate(g)
  BY <1>1, <1>8, LinkKeeps
<1> QED  BY <1>1, <1>2, <1>3, <1>4, <1>5, <1>6, <1>7, <1>8, FrameSteps
         DEF Next, Environment, MainLoop

(* UserInv holds in every state the gate reaches while no session exchanges *)
(* its ticket (checkConn, checkClose, kickUser, eventCallRemoveReconn,      *)
(* removeUsers and parseChangeGS).                                          *)
THEOREM UserInductive == Spec /\ [][KeepsTicket]_vars => []UserInv
<1>1. Init => UserInv
  <2> SUFFICES ASSUME Init PROVE UserInv
    OBVIOUS
  <2>1. TicketInv
    BY TicketInit
  <2>2. UserTypes /\ HolderConnected /\ PlayersOnLink /\ FiledUnderOwn
    BY DEF Init, UserTypes, HolderConnected, PlayersOnLink, FiledUnderOwn
  <2>3. RoutedToOwner /\ NoOrphanPlayer /\ OnlineAccountOwned
    BY DEF Init, RoutedToOwner, NoOrphanPlayer, OnlineAccountOwned
  <2> QED  BY <2>1, <2>2, <2>3 DEF UserInv
<1>2. UserInv /\ [Next]_vars /\ [KeepsTicket]_vars => UserInv'
  BY UserStep
<1> QED  BY <1>1, <1>2, PTL DEF Spec

(* A game server's message for a ticket reaches the session that logged in  *)
(* with it and no other (GateGameClient::parseGameMsg), while no session    *)
(* exchanges its ticket.                                                    *)
THEOREM RoutedToOwnerHolds == Spec /\ [][KeepsTicket]_vars => []RoutedToOwner
<1>1. UserInv => RoutedToOwner
  BY DEF UserInv
<1> QED  BY <1>1, UserInductive, PTL

(* No player lives on a game server that nobody can remove any more: a      *)
(* session bound to that server or a reconnect window to it has the ticket, *)
(* or the link broke and the server's removeGate is due, or the gate has    *)
(* registered again before it; while no session exchanges its ticket.       *)
THEOREM NoOrphanPlayerHolds == Spec /\ [][KeepsTicket]_vars => []NoOrphanPlayer
<1>1. UserInv => NoOrphanPlayer
  BY DEF UserInv
<1> QED  BY <1>1, UserInductive, PTL

(* An account reported as online has a session, or a timer that takes it    *)
(* out of m_onlineaccs, while no session exchanges its ticket.              *)
THEOREM OnlineAccountOwnedHolds == Spec /\ [][KeepsTicket]_vars => []OnlineAccountOwned
<1>1. UserInv => OnlineAccountOwned
  BY DEF UserInv
<1> QED  BY <1>1, UserInductive, PTL

-----------------------------------------------------------------------------
(* What the clients have to do for it.                                      *)

(* An open session with a ticket has logged in, and a session of the pool   *)
(* has none.                                                                *)
HolderLoggedIn ==
    /\ tran \in [Sessions -> Trans \cup {None}]
    /\ logins \in [Sessions -> Nat]
    /\ conn \in [Sessions -> {"free", "open", "closed"}]
    /\ \A s \in Sessions : tran[s] # None =>
           conn[s] # "free" /\ (conn[s] = "open" => logins[s] > 0)

(* The steps that concern no session's ticket, connection or login count.   *)
Elsewhere ==
    \/ \E t \in Trans : \/ LoginServerLogsIn(t)
                        \/ eventCallRemoveWait(t) \/ eventCallRemoveReconn(t)
    \/ LoginLinkLost \/ parseLoginUser \/ parseLoginKick
    \/ \E g \in Games : \/ parseGateRegister(g) \/ parseGameRegister(g)
                        \/ GameLinkBreaks(g) \/ removeGate(g) \/ GameLinkLost(g)
    \/ \E g, h \in Games, t \in Trans : parseChangeGS(g, t, h)

(* They leave these variables alone.                                       *)
LEMMA ElsewhereFrame == Elsewhere => UNCHANGED <<conn, tran, logins>>
<1>1. ASSUME NEW t \in Trans,
             LoginServerLogsIn(t) \/ eventCallRemoveWait(t) \/ eventCallRemoveReconn(t)
      PROVE  UNCHANGED <<conn, tran, logins>>
  BY <1>1 DEF LoginServerLogsIn, eventCallRemoveWait, eventCallRemoveReconn, sessionVars
<1>2. LoginLinkLost \/ parseLoginUser => UNCHANGED <<conn, tran, logins>>
  BY DEF LoginLinkLost, parseLoginUser, sessionVars
<1>3. parseLoginKick => UNCHANGED <<conn, tran, logins>>
  BY DEF parseLoginKick
<1>4. ASSUME NEW g \in Games,
             \/ parseGateRegister(g) \/ parseGameRegister(g)
             \/ GameLinkBreaks(g) \/ removeGate(g) \/ GameLinkLost(g)
      PROVE  UNCHANGED <<conn, tran, logins>>
  BY <1>4 DEF parseGateRegister, parseGameRegister, GameLinkBreaks, removeGate,
              GameLinkLost, sessionVars
<1>5. ASSUME NEW g \in Games, NEW h \in Games, NEW t \in Trans, parseChangeGS(g, t, h)
      PROVE  UNCHANGED <<conn, tran, logins>>
  BY <1>5 DEF parseChangeGS
<1> QED  BY <1>1, <1>2, <1>3, <1>4, <1>5 DEF Elsewhere

(* Every step keeps HolderLoggedIn.                                         *)
LEMMA HolderLoggedInStep ==
    ASSUME HolderLoggedIn, [Next]_vars
    PROVE  HolderLoggedIn'
<1> USE GateAssumption
<1>1. ASSUME UNCHANGED <<conn, tran, logins>>
      PROVE  HolderLoggedIn'
  BY <1>1 DEF HolderLoggedIn
<1>2. CASE UNCHANGED vars
  BY <1>1, <1>2 DEF vars, sessionVars
<1>3. ASSUME NEW s \in Sessions,
             Accept(s) \/ SocketCloses(s) \/ on_accept(s) \/ setClose(s) \/ on_close(s)
      PROVE  HolderLoggedIn'
  BY <1>3 DEF HolderLoggedIn, Accept, SocketCloses, on_accept, setClose, on_close
<1>4. ASSUME NEW s \in Sessions, NEW t \in Trans, parseLoginGame(s, t)
      PROVE  HolderLoggedIn'
  <2>1. tran' \in {tran, [tran EXCEPT ![s] = t]}
    BY <1>4 DEF parseLoginGame, ConnectNew, Reconnect, Refuse
  <2>2. conn' = conn /\ conn[s] = "open" /\ logins' = [logins EXCEPT ![s] = @ + 1]
    BY <1>4 DEF parseLoginGame
  <2> QED  BY <2>1, <2>2 DEF HolderLoggedIn
<1>5. CASE Elsewhere
  BY <1>1, <1>5, ElsewhereFrame
<1> QED  BY <1>2, <1>3, <1>4, <1>5 DEF Next, Environment, MainLoop, Elsewhere

(* A client that sends at most one LoginGame message on a connection        *)
(* exchanges no ticket (parseLoginGame; the pool's sessions have none).     *)
THEOREM OneLoginKeepsTicket ==
    ASSUME MaxLogins = 1
    PROVE  Spec => [][KeepsTicket]_vars
<1>1. Init => HolderLoggedIn
  BY DEF Init, HolderLoggedIn
<1>2. HolderLoggedIn /\ [Next]_vars => HolderLoggedIn'
  BY HolderLoggedInStep
<1>3. HolderLoggedIn /\ [Next]_vars => [KeepsTicket]_vars
  <2> SUFFICES ASSUME HolderLoggedIn, Next
               PROVE  KeepsTicket
    OBVIOUS
  <2>1. ASSUME NEW s \in Sessions, NEW t \in Trans, parseLoginGame(s, t)
        PROVE  KeepsTicket
    <3>1. tran[s] = None
      BY <2>1 DEF parseLoginGame, HolderLoggedIn
    <3>2. tran' \in {tran, [tran EXCEPT ![s] = t]}
      BY <2>1 DEF parseLoginGame, ConnectNew, Reconnect, Refuse
    <3> QED  BY <3>1, <3>2 DEF KeepsTicket, HolderLoggedIn
  <2>2. CASE \E s \in Sessions : \/ Accept(s) \/ SocketCloses(s) \/ on_accept(s)
                                 \/ setClose(s) \/ on_close(s)
    BY <2>2 DEF KeepsTicket, HolderLoggedIn, Accept, SocketCloses, on_accept,
                setClose, on_close
  <2>3. CASE Elsewhere
    BY <2>3, ElsewhereFrame DEF KeepsTicket
  <2> QED  BY <2>1, <2>2, <2>3 DEF Next, Environment, MainLoop, Elsewhere
<1> QED  BY <1>1, <1>2, <1>3, PTL DEF Spec

-----------------------------------------------------------------------------
(* A ticket's life.  Where a ticket is: TicketInv makes the places exclude  *)
(* each other.                                                              *)
At(t, p, h, g) == place[t] = p /\ holder[t] = h /\ server[t] = g

Whereabouts(t) ==
    /\ t \notin issued => At(t, "new", None, None)
    /\ LoginFor(t) # {} => At(t, "coming", None, None)
    /\ t \in m_wait_map => At(t, "waiting", None, None)
    /\ \A s \in Holders(t) : At(t, "held", s, gsid[s])
    /\ m_recon_map[t] # None => At(t, "window", None, m_recon_map[t])
    /\ t \in issued /\ LoginFor(t) = {} /\ Nowhere(t) => At(t, "gone", None, None)

(* The place, the session and the game server of a ticket in each case.     *)
LEMMA Located == TicketInv => \A t \in Trans : Whereabouts(t)
<1> SUFFICES ASSUME TicketInv, NEW t \in Trans PROVE Whereabouts(t)
  OBVIOUS
<1> USE GateAssumption
<1>1. /\ t \notin issued => Nowhere(t) /\ LoginFor(t) = {}
      /\ LoginFor(t) # {} => Nowhere(t)
      /\ \A s1, s2 \in Holders(t) : s1 = s2
      /\ t \in m_wait_map => Holders(t) = {} /\ m_recon_map[t] = None
      /\ m_recon_map[t] # None => Holders(t) = {}
  BY DEF TicketInv, Unissued, InFlightAlone, TicketInOnePlace
<1>2. Holders(t) = {} => holder[t] = None /\ server[t] = m_recon_map[t]
  BY DEF holder, server, Held, Holders
<1>3. \A s \in Holders(t) : holder[t] = s /\ server[t] = gsid[s]
  <2> SUFFICES ASSUME NEW s \in Holders(t)
               PROVE  holder[t] = s /\ server[t] = gsid[s]
    OBVIOUS
  <2>1. Held(t) /\ holder[t] = CHOOSE u \in Sessions : tran[u] = t
    BY DEF holder, Held, Holders
  <2>2. holder[t] \in Holders(t)
    BY <2>1 DEF Held, Holders
  <2>3. holder[t] = s
    BY <2>2, <1>1
  <2> QED  BY <2>1, <2>3 DEF server
<1>4. place[t] = IF t \notin issued THEN "new"
                 ELSE IF t \in m_wait_map THEN "waiting"
                 ELSE IF m_recon_map[t] # None THEN "window"
                 ELSE IF Holders(t) # {} THEN "held"
                 ELSE IF LoginFor(t) # {} THEN "coming" ELSE "gone"
  BY DEF place, Held, Holders
<1> QED  BY <1>1, <1>2, <1>3, <1>4 DEF Whereabouts, At, Nowhere

(* The same after a step.                                                   *)
LEMMA LocatedNext == TicketInv' => \A t \in Trans : Whereabouts(t)'
<1>1. (TicketInv => \A t \in Trans : Whereabouts(t))'
  BY Located, PTL
<1> QED  BY <1>1


(* A step that leaves a ticket where it is.                                 *)
Untouched(t) ==
    /\ t \in issued' <=> t \in issued
    /\ LoginFor(t)' # {} <=> LoginFor(t) # {}
    /\ t \in m_wait_map' <=> t \in m_wait_map
    /\ m_recon_map'[t] = m_recon_map[t]
    /\ \A s \in Sessions : /\ tran'[s] = t <=> tran[s] = t
                           /\ tran[s] = t => gsid'[s] = gsid[s]

(* An untouched ticket keeps its place, session and game server.            *)
LEMMA StaysWhere ==
    ASSUME TicketInv, TicketInv', NEW t \in Trans, Untouched(t)
    PROVE  TL!Moves(t)
<1>1. Whereabouts(t) /\ Whereabouts(t)'
  BY Located, LocatedNext
<1>2. Holders(t)' = Holders(t) /\ \A s \in Holders(t) : gsid'[s] = gsid[s]
  BY DEF Holders, Untouched
<1>3. Nowhere(t)' <=> Nowhere(t)
  BY <1>2 DEF Nowhere, Untouched
<1>4. \E q, h, g : At(t, q, h, g) /\ At(t, q, h, g)'
  <2>1. CASE t \notin issued
    BY <1>1, <2>1 DEF Whereabouts, Untouched
  <2>2. CASE LoginFor(t) # {}
    BY <1>1, <2>2 DEF Whereabouts, Untouched
  <2>3. CASE t \in m_wait_map
    BY <1>1, <2>3 DEF Whereabouts, Untouched
  <2>4. ASSUME NEW s \in Holders(t)
        PROVE  \E q, h, g : At(t, q, h, g) /\ At(t, q, h, g)'
    <3>1. At(t, "held", s, gsid[s])
      BY <1>1 DEF Whereabouts
    <3>2. place'[t] = "held" /\ holder'[t] = s /\ server'[t] = gsid[s]
      BY <1>1, <1>2 DEF Whereabouts, At
    <3> QED  BY <3>1, <3>2 DEF At
  <2>5. CASE m_recon_map[t] # None
    <3>1. At(t, "window", None, m_recon_map[t])
      BY <1>1, <2>5 DEF Whereabouts
    <3>2. place'[t] = "window" /\ holder'[t] = None /\ server'[t] = m_recon_map[t]
      BY <1>1, <2>5 DEF Whereabouts, At, Untouched
    <3> QED  BY <3>1, <3>2 DEF At
  <2>6. CASE t \in issued /\ LoginFor(t) = {} /\ Nowhere(t)
    BY <1>1, <1>3, <2>6 DEF Whereabouts, Untouched
  <2> QED  BY <2>1, <2>2, <2>3, <2>4, <2>5, <2>6 DEF Nowhere
<1> QED  BY <1>4 DEF At, TL!Moves, TL!Stays, TL!Becomes

(* An issued ticket that is nowhere after a step has come to its end.       *)
LEMMA EndsNowhere ==
    ASSUME TicketInv, TicketInv', NEW t \in Trans, t \in issued, t \in issued',
           LoginFor(t)' = {}, Nowhere(t)'
    PROVE  TL!Moves(t)
<1>1. Whereabouts(t) /\ Whereabouts(t)'
  BY Located, LocatedNext
<1>2. At(t, "gone", None, None)'
  BY <1>1 DEF Whereabouts
<1>3. \/ At(t, "gone", None, None)
      \/ place[t] \in {"coming", "waiting", "held", "window"}
  BY <1>1 DEF Whereabouts, At, Nowhere
<1> QED  BY <1>2, <1>3 DEF At, TL!Moves, TL!Stays, TL!End, TL!Becomes

(* A step that gives no ticket a new place leaves it where it is or ends it.*)
LEMMA ShrinkMoves ==
    ASSUME TicketInv, TicketInv', FromLoginShrinks, Shrinks,
           \A s \in Sessions : tran'[s] # None => gsid'[s] = gsid[s],
           NEW t \in Trans
    PROVE  TL!Moves(t)
<1> USE GateAssumption
<1>1. PICK d \in Nat : \A i \in 1 .. Len(fromLogin') :
          i + d \in 1 .. Len(fromLogin) /\ fromLogin'[i] = fromLogin[i + d]
  BY ShrinkPositions DEF TicketInv, TicketTypes
<1>2. LoginFor(t)' # {} => LoginFor(t) # {}
  BY <1>1 DEF LoginFor
<1>3. Holders(t)' \subseteq Holders(t) /\ (Nowhere(t) => Nowhere(t)')
  BY DEF Shrinks, Holders, Nowhere, TicketInv, TicketTypes
<1>4. /\ t \notin issued => Nowhere(t) /\ LoginFor(t) = {}
      /\ LoginFor(t) # {} => Nowhere(t)
      /\ \A s1, s2 \in Holders(t) : s1 = s2
      /\ t \in m_wait_map => Holders(t) = {} /\ m_recon_map[t] = None
      /\ m_recon_map[t] # None => Holders(t) = {}
  BY DEF TicketInv, Unissued, InFlightAlone, TicketInOnePlace
<1>5. CASE t \in issued /\ LoginFor(t)' = {} /\ Nowhere(t)'
  BY <1>5, EndsNowhere DEF Shrinks
<1>6. CASE t \notin issued \/ LoginFor(t)' # {} \/ ~Nowhere(t)'
  <2>1. Untouched(t)
    BY <1>2, <1>3, <1>4, <1>6 DEF Untouched, Shrinks, Nowhere, Holders
  <2> QED  BY <2>1, StaysWhere
<1> QED  BY <1>5, <1>6


(* The login server issues a ticket, which is on its way then; the messages *)
(* about other tickets stay in the queue.                                   *)
LEMMA LogsInMoves ==
    ASSUME TicketInv, TicketInv', NEW t \in Trans, LoginServerLogsIn(t), NEW u \in Trans
    PROVE  TL!Moves(u)
<1> USE GateAssumption
<1> DEFINE kick  == Kick(AccountOf[t])
           login == [type |-> "login", t |-> t]
           q     == fromLogin \o kick
<1>0. /\ UNCHANGED <<tran, gsid, m_wait_map, m_recon_map>>
      /\ fromLogin' = q \o <<login>>
      /\ issued' = issued \cup {t} /\ t \notin issued
  BY DEF LoginServerLogsIn, sessionVars, userVars
<1>1. fromLogin \in Seq(Message) /\ <<login>> \in Seq(Message)
  BY DEF TicketInv, TicketTypes, Message
<1>2. kick \in Seq(Message) /\ \A i \in 1 .. Len(kick) : kick[i].type = "kick"
  <2>1. CASE lastTrans[AccountOf[t]] = None
    BY <2>1 DEF Kick
  <2>2. CASE lastTrans[AccountOf[t]] # None
    <3> DEFINE m == [type |-> "kick", t |-> lastTrans[AccountOf[t]]]
    <3>1. m \in Message /\ m.type = "kick"
      BY <2>2 DEF TicketInv, TicketTypes, Message
    <3>2. kick = <<m>>
      BY <2>2 DEF Kick
    <3> HIDE DEF kick, m
    <3> QED  BY <3>1, <3>2
  <2> QED  BY <2>1, <2>2
<1> HIDE DEF kick
<1>3. /\ q \in Seq(Message) /\ Len(q) = Len(fromLogin) + Len(kick)
      /\ \A i \in 1 .. Len(q) :
            q[i] = IF i <= Len(fromLogin) THEN fromLogin[i] ELSE kick[i - Len(fromLogin)]
  BY <1>1, <1>2, ConcatProperties
<1>4. Len(fromLogin) \in Nat /\ Len(q) \in Nat /\ Len(kick) \in Nat
  BY <1>1, <1>2, <1>3, LenProperties
<1> HIDE DEF q
<1>5. /\ Len(fromLogin') = Len(q) + 1 /\ fromLogin'[Len(q) + 1] = login
      /\ \A i \in 1 .. Len(q) : fromLogin'[i] = q[i]
  <2>1. Len(<<login>>) = 1 /\ <<login>>[1] = login
    OBVIOUS
  <2>2. /\ Len(q \o <<login>>) = Len(q) + 1
        /\ \A i \in 1 .. Len(q) + 1 :
             (q \o <<login>>)[i] = IF i <= Len(q) THEN q[i] ELSE <<login>>[i - Len(q)]
    BY <1>1, <1>3, <2>1, ConcatProperties
  <2> HIDE DEF login
  <2> QED  BY <1>0, <1>4, <2>1, <2>2
<1>6. CASE u = t
  <2>1. Len(q) + 1 \in LoginFor(t)'
    BY <1>4, <1>5 DEF LoginFor
  <2>2. At(t, "new", None, None) /\ At(t, "coming", None, None)'
    BY <1>0, <2>1, Located, LocatedNext DEF Whereabouts
  <2> QED  BY <1>6, <2>2 DEF At, TL!Moves, TL!Issue, TL!Becomes
<1>7. CASE u # t
  <2>1. \A i \in LoginFor(u) : i \in LoginFor(u)'
    BY <1>2, <1>3, <1>4, <1>5 DEF LoginFor
  <2>2. \A i \in LoginFor(u)' : i \in LoginFor(u)
    <3> SUFFICES ASSUME NEW i \in LoginFor(u)' PROVE i \in LoginFor(u)
      OBVIOUS
    <3>1. i \in 1 .. Len(q) + 1 /\ fromLogin'[i] = [type |-> "login", t |-> u]
      BY <1>5 DEF LoginFor
    <3>2. i # Len(q) + 1
      BY <1>5, <1>7, <3>1
    <3>3. i \in 1 .. Len(q) /\ q[i] = [type |-> "login", t |-> u]
      BY <1>4, <1>5, <3>1, <3>2
    <3>4. ASSUME i > Len(fromLogin) PROVE FALSE
      <4>1. q[i] = kick[i - Len(fromLogin)] /\ i - Len(fromLogin) \in 1 .. Len(kick)
        BY <1>3, <1>4, <3>3, <3>4
      <4> QED  BY <1>2, <3>3, <4>1
    <3> QED  BY <1>3, <1>4, <3>3, <3>4 DEF LoginFor
  <2>3. Untouched(u)
    BY <1>0, <1>7, <2>1, <2>2 DEF Untouched
  <2> QED  BY <2>3, StaysWhere
<1> QED  BY <1>6, <1>7

(* addToWait: the ticket arrives, the others stay.                          *)
LEMMA LoginUserMoves ==
    ASSUME TicketInv, TicketInv', parseLoginUser, NEW u \in Trans
    PROVE  TL!Moves(u)
<1>0. /\ UNCHANGED <<tran, gsid, m_recon_map, issued>>
      /\ m_wait_map' = m_wait_map \cup {Head(fromLogin).t}
      /\ fromLogin # <<>> /\ fromLogin' = Tail(fromLogin)
      /\ Head(fromLogin).type = "login"
  BY DEF parseLoginUser, sessionVars
<1>1. fromLogin \in Seq(Message) /\ Len(fromLogin) \in Nat \ {0}
  BY <1>0, EmptySeq, LenProperties DEF TicketInv, TicketTypes
<1>2. /\ Head(fromLogin) = fromLogin[1] /\ Head(fromLogin) \in Message
      /\ Len(fromLogin') = Len(fromLogin) - 1
      /\ \A i \in 1 .. Len(fromLogin') : fromLogin'[i] = fromLogin[i + 1]
  BY <1>0, <1>1, HeadTailProperties
<1>3. PICK t \in Trans : Head(fromLogin) = [type |-> "login", t |-> t]
  BY <1>0, <1>2 DEF Message
<1>4. 1 \in LoginFor(t)
  BY <1>1, <1>2, <1>3 DEF LoginFor
<1>5. CASE u = t
  <2>1. At(t, "coming", None, None) /\ At(t, "waiting", None, None)'
    BY <1>0, <1>3, <1>4, Located, LocatedNext DEF Whereabouts
  <2> QED  BY <1>5, <2>1 DEF At, TL!Moves, TL!Arrive, TL!Becomes
<1>6. CASE u # t
  <2>1. \A i \in LoginFor(u)' : i + 1 \in LoginFor(u)
    BY <1>1, <1>2 DEF LoginFor
  <2>2. \A i \in LoginFor(u) : i - 1 \in LoginFor(u)'
    <3> SUFFICES ASSUME NEW i \in LoginFor(u) PROVE i - 1 \in LoginFor(u)'
      OBVIOUS
    <3>1. i \in 1 .. Len(fromLogin) /\ fromLogin[i] = [type |-> "login", t |-> u]
      BY DEF LoginFor
    <3>2. i # 1
      BY <1>2, <1>3, <1>6, <3>1
    <3>3. i - 1 \in 1 .. Len(fromLogin') /\ (i - 1) + 1 = i
      BY <1>1, <1>2, <3>1, <3>2
    <3> QED  BY <1>2, <3>1, <3>3 DEF LoginFor
  <2>3. LoginFor(u)' # {} <=> LoginFor(u) # {}
    BY <2>1, <2>2
  <2>4. Untouched(u)
    BY <1>0, <1>3, <1>6, <2>3 DEF Untouched
  <2> QED  BY <2>4, StaysWhere
<1> QED  BY <1>5, <1>6

(* checkConn admits the ticket or lets it resume on its game server; the    *)
(* ticket the session had before, if it had one, ends.                      *)
LEMMA LoginGameMoves ==
    ASSUME TicketInv, TicketInv', NEW s \in Sessions, NEW t \in Trans,
           parseLoginGame(s, t), NEW u \in Trans
    PROVE  TL!Moves(u)
<1> USE GateAssumption
<1>0. UNCHANGED <<issued, lastTrans, fromLogin>>
  BY DEF parseLoginGame, loginVars
<1>1. LoginFor(u)' = LoginFor(u)
  BY <1>0 DEF LoginFor
<1>2. ASSUME tran' = [tran EXCEPT ![s] = t], u # t,
             NEW g, gsid' = [gsid EXCEPT ![s] = g],
             m_recon_map'[u] = m_recon_map[u], m_wait_map' \ {t} = m_wait_map \ {t}
      PROVE  TL!Moves(u)
  <2>0. /\ tran'[s] = t /\ \A p \in Sessions \ {s} : tran'[p] = tran[p] /\ gsid'[p] = gsid[p]
        /\ u \in m_wait_map' <=> u \in m_wait_map
    BY <1>2 DEF TicketInv, TicketTypes
  <2>1. CASE tran[s] = u
    <3>1. Holders(u) = {s} /\ u \notin m_wait_map /\ m_recon_map[u] = None
      BY <2>1 DEF TicketInv, TicketInOnePlace, Holders
    <3>2. Holders(u)' = {}
      BY <1>2, <2>0, <3>1 DEF Holders
    <3>3. Nowhere(u)'
      BY <1>2, <2>0, <3>1, <3>2 DEF Nowhere
    <3>4. ~Nowhere(u)
      BY <3>1 DEF Nowhere
    <3>5. u \in issued /\ LoginFor(u) = {}
      BY <3>4 DEF TicketInv, Unissued, InFlightAlone
    <3> QED  BY <1>0, <1>1, <3>3, <3>5, EndsNowhere
  <2>2. CASE tran[s] # u
    <3>1. Untouched(u)
      BY <1>0, <1>1, <1>2, <2>0, <2>2 DEF Untouched
    <3> QED  BY <3>1, StaysWhere
  <2> QED  BY <2>1, <2>2
<1>3. CASE ConnectNew(s, t)
  <2>1. PICK g \in getIdleGameClient : gsid' = [gsid EXCEPT ![s] = g]
    BY <1>3 DEF ConnectNew
  <2>2. /\ t \in m_wait_map /\ m_recon_map' = m_recon_map
        /\ m_wait_map' = m_wait_map \ {t} /\ tran' = [tran EXCEPT ![s] = t]
    BY <1>3 DEF ConnectNew
  <2>3. CASE u = t
    <3>1. g \in Games /\ gsid'[s] = g /\ tran'[s] = t
      BY <2>1, <2>2 DEF getIdleGameClient, TicketInv, TicketTypes
    <3>2. At(t, "waiting", None, None)
      BY <2>2, Located DEF Whereabouts
    <3>3. s \in Holders(t)'
      BY <3>1 DEF Holders
    <3>4. place'[t] = "held" /\ holder'[t] = s /\ server'[t] = g
      BY <3>1, <3>3, LocatedNext DEF Whereabouts, At
    <3> QED  BY <2>3, <3>1, <3>2, <3>4 DEF At, TL!Moves, TL!Admit, TL!Becomes
  <2>4. CASE u # t
    BY <1>2, <2>1, <2>2, <2>4
  <2> QED  BY <2>3, <2>4
<1>4. CASE Reconnect(s, t)
  <2>1. /\ m_recon_map[t] # None /\ m_wait_map' = m_wait_map
        /\ m_recon_map' = [m_recon_map EXCEPT ![t] = None]
        /\ gsid' = [gsid EXCEPT ![s] = m_recon_map[t]]
        /\ tran' = [tran EXCEPT ![s] = t]
    BY <1>4 DEF Reconnect, eraseData
  <2>2. CASE u = t
    <3>1. gsid'[s] = m_recon_map[t] /\ tran'[s] = t
      BY <2>1 DEF TicketInv, TicketTypes
    <3>2. At(t, "window", None, m_recon_map[t])
      BY <2>1, Located DEF Whereabouts
    <3>3. s \in Holders(t)'
      BY <3>1 DEF Holders
    <3>4. place'[t] = "held" /\ holder'[t] = s /\ server'[t] = m_recon_map[t]
      BY <3>1, <3>3, LocatedNext DEF Whereabouts, At
    <3> QED  BY <2>2, <3>2, <3>4 DEF At, TL!Moves, TL!Resume, TL!Becomes
  <2>3. CASE u # t
    <3>1. m_recon_map'[u] = m_recon_map[u]
      BY <2>1, <2>3 DEF TicketInv, TicketTypes
    <3> QED  BY <1>2, <2>1, <2>3, <3>1
  <2> QED  BY <2>2, <2>3
<1>5. CASE Refuse(s, t)
  <2>1. m_wait_map' = m_wait_map \ {t} /\ UNCHANGED <<tran, gsid, m_recon_map>>
    BY <1>5 DEF Refuse
  <2>2. Shrinks /\ FromLoginShrinks
    BY <1>0, <2>1 DEF Shrinks, FromLoginShrinks
  <2> QED  BY <2>1, <2>2, ShrinkMoves
<1> QED  BY <1>3, <1>4, <1>5 DEF parseLoginGame


(* checkClose suspends the session's ticket, on its game server, or ends it.*)
LEMMA CloseMoves ==
    ASSUME TicketInv, TicketInv', NEW s \in Sessions, on_close(s), NEW u \in Trans
    PROVE  TL!Moves(u)
<1> USE GateAssumption
<1>0. /\ UNCHANGED <<issued, lastTrans, fromLogin>>
      /\ tran' = [tran EXCEPT ![s] = None]
      /\ gsid' = [gsid EXCEPT ![s] = None]
  BY DEF on_close, loginVars
<1>1. /\ tran'[s] = None
      /\ \A p \in Sessions \ {s} : tran'[p] = tran[p] /\ gsid'[p] = gsid[p]
  BY <1>0 DEF TicketInv, TicketTypes
<1>2. ASSUME UNCHANGED <<m_wait_map, m_recon_map>>
      PROVE  TL!Moves(u)
  <2>1. Shrinks /\ FromLoginShrinks
    BY <1>0, <1>1, <1>2 DEF Shrinks, FromLoginShrinks
  <2>2. \A p \in Sessions : tran'[p] # None => gsid'[p] = gsid[p]
    BY <1>1
  <2> QED  BY <2>1, <2>2, ShrinkMoves
<1>3. CASE CloseAnonymous(s)
  BY <1>2, <1>3 DEF CloseAnonymous, userVars
<1>4. CASE CloseForGood(s)
  BY <1>2, <1>4 DEF CloseForGood
<1>5. CASE CloseForReconnect(s)
  <2>0. PICK t \in Trans : t = tran[s]
    BY <1>5 DEF CloseForReconnect, TicketInv, TicketTypes
  <2>1. /\ m_wait_map' = m_wait_map /\ gsid[s] \in Games
        /\ m_recon_map' = addData(m_recon_map, t, gsid[s])
    BY <1>5, <2>0 DEF CloseForReconnect, TicketInv, TicketTypes
  <2>2. s \in Holders(t) /\ m_recon_map[t] = None
    BY <2>0 DEF Holders, TicketInv, TicketInOnePlace
  <2>3. /\ m_recon_map'[t] = gsid[s] /\ gsid[s] # None
        /\ \A v \in Trans \ {t} : m_recon_map'[v] = m_recon_map[v]
    BY <2>1, <2>2 DEF addData, TicketInv, TicketTypes
  <2>4. CASE u = t
    <3>1. At(t, "held", s, gsid[s])
      BY <2>2, Located DEF Whereabouts
    <3>2. place'[t] = "window" /\ holder'[t] = None /\ server'[t] = gsid[s]
      BY <2>3, LocatedNext DEF Whereabouts, At
    <3> QED  BY <2>4, <3>1, <3>2 DEF At, TL!Moves, TL!Suspend, TL!Becomes
  <2>5. CASE u # t
    <3>1. LoginFor(u)' = LoginFor(u)
      BY <1>0 DEF LoginFor
    <3>2. Untouched(u)
      BY <1>0, <1>1, <2>0, <2>1, <2>3, <2>5, <3>1 DEF Untouched
    <3> QED  BY <3>2, StaysWhere
  <2> QED  BY <2>4, <2>5
<1> QED  BY <1>3, <1>4, <1>5 DEF on_close

(* parseChangeGS moves the holder of a ticket to another game server.       *)
LEMMA ChangeGSMoves ==
    ASSUME TicketInv, TicketInv', NEW g \in Games, NEW h \in Games, NEW t \in Trans,
           parseChangeGS(g, t, h), NEW u \in Trans
    PROVE  TL!Moves(u)
<1> DEFINE p == m_onlines[t]
<1>0. /\ UNCHANGED <<tran, m_wait_map, m_recon_map, issued, fromLogin>>
      /\ gsid' \in {gsid, [gsid EXCEPT ![p] = h]}
      /\ tran[p] = t
  BY DEF parseChangeGS, userVars, loginVars
<1>1. LoginFor(u)' = LoginFor(u)
  BY <1>0 DEF LoginFor
<1> HIDE DEF p
<1>2. \A s \in Sessions \ {p} : gsid'[s] = gsid[s]
  BY <1>0 DEF TicketInv, TicketTypes
<1>3. CASE \A s \in Holders(u) : gsid'[s] = gsid[s]
  <2>1. Untouched(u)
    BY <1>0, <1>1, <1>3 DEF Untouched, Holders
  <2> QED  BY <2>1, StaysWhere
<1>4. CASE ~ \A s \in Holders(u) : gsid'[s] = gsid[s]
  <2>1. p \in Holders(u) /\ gsid'[p] = h
    BY <1>0, <1>2, <1>4 DEF Holders, TicketInv, TicketTypes
  <2>2. p \in Holders(u)'
    BY <1>0, <2>1 DEF Holders
  <2>3. At(u, "held", p, gsid[p])
    BY <2>1, Located DEF Whereabouts
  <2>4. place'[u] = "held" /\ holder'[u] = p /\ server'[u] = h
    <3>1. PICK s \in Sessions : s = p
      BY <2>1 DEF Holders
    <3>2. s \in Holders(u)' /\ gsid'[s] = h
      BY <2>1, <2>2, <3>1
    <3>3. place'[u] = "held" /\ holder'[u] = s /\ server'[u] = gsid'[s]
      BY <3>2, LocatedNext DEF Whereabouts, At
    <3> QED  BY <3>1, <3>2, <3>3
  <2> QED  BY <2>3, <2>4 DEF At, TL!Moves, TL!ChangeServer, TL!Becomes
<1> QED  BY <1>3, <1>4

(* Kicks, timers and lost links end tickets; sockets, callbacks and game    *)
(* servers that register leave them where they are.                         *)
LEMMA RemovalMoves ==
    ASSUME TicketInv, TicketInv',
           \/ LoginLinkLost \/ parseLoginKick
           \/ \E t \in Trans : eventCallRemoveWait(t) \/ eventCallRemoveReconn(t)
           \/ \E g \in Games : \/ GameLinkLost(g) \/ parseGateRegister(g)
                               \/ parseGameRegister(g) \/ GameLinkBreaks(g) \/ removeGate(g)
           \/ \E s \in Sessions : Accept(s) \/ SocketCloses(s) \/ on_accept(s) \/ setClose(s)
           \/ UNCHANGED vars,
           NEW u \in Trans
    PROVE  TL!Moves(u)
<1> USE GateAssumption
<1> SUFFICES Shrinks /\ FromLoginShrinks /\ gsid' = gsid
  BY ShrinkMoves
<1>1. CASE LoginLinkLost
  BY <1>1 DEF LoginLinkLost, Shrinks, FromLoginShrinks, sessionVars, userVars
<1>2. CASE parseLoginKick
  <2>1. UNCHANGED <<tran, gsid, issued, lastTrans>> /\ FromLoginShrinks
    BY <1>2 DEF parseLoginKick, FromLoginShrinks
  <2>2. PICK t : kickUser(t)
    BY <1>2 DEF parseLoginKick
  <2>3. m_wait_map' \subseteq m_wait_map
    BY <2>2 DEF kickUser, kickOnline, kickOffline
  <2>4. m_recon_map' \in {m_recon_map, [m_recon_map EXCEPT ![t] = None]}
    BY <2>2 DEF kickUser, kickOnline, kickOffline, eraseData
  <2> QED  BY <2>1, <2>3, <2>4 DEF Shrinks, TicketInv, TicketTypes
<1>3. CASE \E t \in Trans : eventCallRemoveWait(t) \/ eventCallRemoveReconn(t)
  BY <1>3 DEF eventCallRemoveWait, eventCallRemoveReconn, eraseData, Shrinks,
              FromLoginShrinks, TicketInv, TicketTypes, sessionVars, loginVars
<1>4. ASSUME NEW g \in Games, GameLinkLost(g)
      PROVE  Shrinks /\ FromLoginShrinks /\ gsid' = gsid
  <2>1. PICK T : m_recon_map' = [t \in Trans |-> IF t \in T THEN None ELSE m_recon_map[t]]
    BY <1>4 DEF GameLinkLost
  <2>2. UNCHANGED <<tran, gsid, m_wait_map, loginVars>>
    BY <1>4 DEF GameLinkLost
  <2> QED  BY <2>1, <2>2 DEF Shrinks, FromLoginShrinks, loginVars
<1>5. CASE \E g \in Games : \/ parseGateRegister(g) \/ parseGameRegister(g)
                            \/ GameLinkBreaks(g) \/ removeGate(g)
  BY <1>5 DEF parseGateRegister, parseGameRegister, GameLinkBreaks, removeGate, Shrinks, FromLoginShrinks, sessionVars, userVars, loginVars
<1>6. CASE \E s \in Sessions : Accept(s) \/ SocketCloses(s) \/ on_accept(s) \/ setClose(s)
  BY <1>6 DEF Accept, SocketCloses, on_accept, setClose, Shrinks, FromLoginShrinks,
              userVars, loginVars
<1>7. CASE UNCHANGED vars
  BY <1>7 DEF vars, Shrinks, FromLoginShrinks, sessionVars, userVars, loginVars
<1> QED  BY <1>1, <1>2, <1>3, <1>4, <1>5, <1>6, <1>7

(* The abstract state of a ticket has its type.                             *)
LEMMA LifeTypes ==
    TicketInv => /\ place \in [Trans -> TL!Places]
                 /\ holder \in [Trans -> Sessions \cup {None}]
                 /\ server \in [Trans -> Games \cup {None}]
<1> SUFFICES ASSUME TicketInv
             PROVE  /\ place \in [Trans -> TL!Places]
                    /\ holder \in [Trans -> Sessions \cup {None}]
                    /\ server \in [Trans -> Games \cup {None}]
  OBVIOUS
<1>1. place \in [Trans -> TL!Places]
  BY DEF place, TL!Places
<1>2. ASSUME NEW t \in Trans
      PROVE  (IF Held(t) THEN CHOOSE s \in Sessions : tran[s] = t ELSE None)
                 \in Sessions \cup {None}
  BY DEF Held
<1>3. holder \in [Trans -> Sessions \cup {None}]
  BY <1>2 DEF holder
<1>4. ASSUME NEW t \in Trans
      PROVE  (IF Held(t) THEN gsid[holder[t]] ELSE m_recon_map[t]) \in Games \cup {None}
  <2>1. CASE ~Held(t)
    BY <2>1 DEF TicketInv, TicketTypes
  <2>2. CASE Held(t)
    <3>1. PICK s \in Holders(t) : TRUE
      BY <2>2 DEF Held, Holders
    <3>2. holder[t] = s /\ s \in Sessions
      BY <3>1, Located DEF Whereabouts, At, Holders
    <3> QED  BY <2>2, <3>2 DEF TicketInv, TicketTypes
  <2> QED  BY <2>1, <2>2
<1>5. server \in [Trans -> Games \cup {None}]
  BY <1>4 DEF server
<1> QED  BY <1>1, <1>3, <1>5

(* The gate implements TicketLife, for any number of clients, tickets and   *)
(* game servers and however often a client logs in: every step of the gate  *)
(* moves each ticket as TicketLife allows or leaves it where it is          *)
(* (addToWait, checkConn, checkClose, kickUser and the two timers).         *)
THEOREM ImplementsTicketLifeHolds == Spec => ImplementsTicketLife
<1>1. Init => TL!Init
  <2> SUFFICES ASSUME Init PROVE TL!Init
    OBVIOUS
  <2>1. \A t \in Trans : t \notin issued /\ ~Held(t) /\ m_recon_map[t] = None
    BY GateAssumption DEF Init, Held
  <2>2. place = [t \in Trans |-> "new"]
    BY <2>1 DEF place
  <2>3. holder = [t \in Trans |-> None]
    BY <2>1 DEF holder
  <2>4. server = [t \in Trans |-> None]
    BY <2>1 DEF server
  <2> QED  BY <2>2, <2>3, <2>4 DEF TL!Init
<1>2. TicketInv /\ TicketInv' /\ [Next]_vars => [TL!Next]_(TL!vars)
  <2> SUFFICES ASSUME TicketInv, TicketInv', [Next]_vars
               PROVE  TL!Next
    OBVIOUS
  <2>1. \A u \in Trans : TL!Moves(u)
    BY LogsInMoves, LoginUserMoves, LoginGameMoves, CloseMoves, ChangeGSMoves, RemovalMoves
    DEF Next, Environment, MainLoop
  <2>2. (TicketInv => /\ place \in [Trans -> TL!Places]
                      /\ holder \in [Trans -> Sessions \cup {None}]
                      /\ server \in [Trans -> Games \cup {None}])'
    BY LifeTypes, PTL
  <2> QED  BY <2>1, <2>2 DEF TL!Next, TL!Places
<1> QED  BY <1>1, <1>2, TicketInductive, PTL DEF Spec, ImplementsTicketLife, TL!Spec

=============================================================================
