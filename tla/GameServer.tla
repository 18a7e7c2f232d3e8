----------------------------- MODULE GameServer -----------------------------
(***************************************************************************)
(* A game server and the database server behind it: users come in through  *)
(* the gates, their heroes are loaded from the database by a chain of      *)
(* three queries, kept in memory for good, saved every ten seconds and     *)
(* when the servers stop (gameserver/gate_manager.cpp, session.cpp,        *)
(* DreamHeroManager.cpp, DreamHero.cpp, db_client .cpp, server.cpp,        *)
(* databaseserver/db_quest.cpp, game_session.cpp, game_manager.cpp).       *)
(*                                                                         *)
(* The link between the two servers keeps order and may break.  The        *)
(* database server hands loads and saves to two workers, one for each kind *)
(* (_QUERY_HERO_INFO_, _SAVE_HERO_INFO_; see Database), so that a load and *)
(* a save of one hero run in any order.  What the gates and the clients    *)
(* send is input.  The game server may crash and be started again.         *)
(*                                                                         *)
(* Abstraction: a hero is a version that grows with every change a client  *)
(* makes, and what its suits say of equipment.  Only the row of            *)
(* `character` changes: nothing changes equipment after LoadFromConfig     *)
(* (EquipLevelUp has no caller), nor toys (the database server drops every *)
(* MsgVerifyToyGS2DB, see Messages), and the statements that write them    *)
(* are left out.  The suits of a hero are taken as one.                    *)
(***************************************************************************)
EXTENDS Naturals, Sequences, FiniteSets, SequencesExt

CONSTANTS
    Accounts,
    Tickets,      \* tran_id_type: one for each login
    AccountOf,    \* AccountOf[t]: the account of ticket t
    Gates,        \* gate ids
    Conns,        \* connections from gates (GateSession objects)
    GateOf,       \* GateOf[c]: the gate at the other end
    None,         \* NULL
    MaxVersion,   \* bound: versions of a hero
    MaxPending,   \* bound: saves under way when the timer saves once more
    MaxLoads,     \* bound: loads under way when a user is added
    MaxFaults     \* bound: failed statements, broken links and restarts together

(* A suit names no equipment ("bare"), the equipment the client chose      *)
(* ("own"), or its own suit id in place of each ("lost").                  *)
Suits == {"bare", "own", "lost"}

ASSUME GameAssumption ==
    /\ AccountOf \in [Tickets -> Accounts] /\ GateOf \in [Conns -> Gates]
    /\ IsFiniteSet(Accounts)
    /\ MaxVersion \in Nat \ {0} /\ MaxPending \in Nat /\ MaxLoads \in Nat
    /\ MaxFaults \in Nat
    /\ None \notin Tickets \cup Conns
    /\ None \notin [ver : 1 .. MaxVersion, suits : Suits, session : Tickets]
    /\ None \notin [gate : Gates, state : {"online", "offline"}, hero : BOOLEAN]

VARIABLES
    (* the game server *)
    game,                 \* "run", "wait_stop", "stopped" or "crashed"
    conn,                 \* conn[c]: the gate has connected and registered
    m_Gates,              \* m_Gates[g]: the connection registered for gate g
    m_Onlines,            \* m_Onlines[t]: the Session of ticket t
    _heros,               \* _heros[a]: the DreamHero of account a
    _save_all_heroes_ok,
    (* the link between the servers *)
    link,                 \* "up", "down", or "closing": the game server has closed it
    toDB,
    fromDB,
    (* the database server *)
    db,                   \* "run", "wait_stop" or "stopped"
    m_Games,              \* the game server has registered
    _receive_cose_msg,
    loads,                \* tasks of the worker for _QUERY_HERO_INFO_
    saves,                \* tasks of the worker for _SAVE_HERO_INFO_
    character,            \* character[a]: the stored version of account a's hero
    suits_name,           \* suits_name[a]: the column of that name in the row
    (* history *)
    atStop,               \* the heroes as they were when the server was told to stop
    doubled,              \* accounts that have had two sessions at once
    misread,              \* accounts whose hero was made from less than the database server had or was sent
    errors, losses, starts

gateVars    == <<conn, m_Gates>>
linkVars    == <<link, toDB, fromDB>>
rowVars     == <<character, suits_name>>
taskVars    == <<loads, saves, rowVars>>
dbVars      == <<db, m_Games, _receive_cose_msg, taskVars>>
faultVars   == <<errors, losses, starts>>
historyVars == <<atStop, doubled, misread>>
vars == <<game, gateVars, m_Onlines, _heros, _save_all_heroes_ok, linkVars, dbVars,
          historyVars, faultVars>>

Running == game \in {"run", "wait_stop"}

MayFail == errors + losses + starts < MaxFaults

\* The version of an account without a row.
NoRow == 0

\* The version of a hero as LoadFromConfig makes it; its suit is "bare".
FromConfig == 1

(* The column suits_name as it is read back: the suit's id and name are    *)
(* kept, and each equip id is read from the place of the suit id.          *)
ReadBack(s) == IF s = "own" THEN "lost" ELSE s

-----------------------------------------------------------------------------
(* Messages.  tcp_session::send_message drops what is sent on a link that  *)
(* is down.                                                                *)

ReqHeroData(t) == [type |-> "ReqHeroData", ticket |-> t]
SaveData(a, ver, suits) == [type |-> "SaveData", account |-> a, ver |-> ver, suits |-> suits]
SaveAllHeroes == [type |-> "SaveAllHeroes"]
ServerRegister == [type |-> "ServerRegister"]

HeroData(t, ver, suits) == [type |-> "HeroData", ticket |-> t, ver |-> ver, suits |-> suits]
NeedCreateHero(t) == [type |-> "NeedCreateHero", ticket |-> t]

ToDB(msgs) == toDB' = IF link = "up" THEN toDB \o msgs ELSE toDB

\* GameManager::sendMessage: only to a game server that is registered.
ToGame(msg) == fromDB' = IF m_Games /\ link = "up" THEN Append(fromDB, msg) ELSE fromDB

\* What the database server has stored of a, has queued, and will hear of.
Queued(a) == {saves[i].ver : i \in {j \in 1 .. Len(saves) : saves[j].account = a}}

Heard(a) ==
    {toDB[i].ver : i \in {j \in 1 .. Len(toDB) : toDB[j].type = "SaveData" /\ toDB[j].account = a}}

-----------------------------------------------------------------------------
(* Gates: GateSession and GateManager.                                     *)

(* A gate connects and registers.  One whose version is too old is closed, *)
(* and added all the same.                                                 *)
parseGateRegister(c) ==
    /\ Running /\ ~conn[c]
    /\ conn' = [conn EXCEPT ![c] = TRUE]
    /\ m_Gates' = [m_Gates EXCEPT ![GateOf[c]] = c]
    /\ UNCHANGED <<game, m_Onlines, _heros, _save_all_heroes_ok, linkVars, dbVars,
                   historyVars, faultVars>>

Removed(tickets) == [t \in Tickets |-> IF t \in tickets THEN None ELSE m_Onlines[t]]

UsersOfGate(g) == {t \in Tickets : m_Onlines[t] # None /\ m_Onlines[t].gate = g}

\* The users of a gate go with it, unless another connection has replaced this one.
removeGate(c) ==
    IF m_Gates[GateOf[c]] = c
    THEN /\ m_Onlines' = Removed(UsersOfGate(GateOf[c]))
         /\ m_Gates' = [m_Gates EXCEPT ![GateOf[c]] = None]
    ELSE UNCHANGED <<m_Onlines, m_Gates>>

GateOnClose(c) ==
    /\ Running /\ conn[c]
    /\ conn' = [conn EXCEPT ![c] = FALSE]
    /\ removeGate(c)
    /\ UNCHANGED <<game, _heros, _save_all_heroes_ok, linkVars, dbVars, historyVars, faultVars>>

-----------------------------------------------------------------------------
(* Users: GateManager::addUser and the Session.                            *)

Sessions(a) == {t \in Tickets : m_Onlines[t] # None /\ AccountOf[t] = a}

\* Faulty variant: a hero that is in memory keeps its old session.
Session_KeepsOld(t) ==
    IF _heros[AccountOf[t]] # None THEN UNCHANGED <<_heros, toDB>>
    ELSE ToDB(<<ReqHeroData(t)>>) /\ UNCHANGED _heros

\* The constructor: a hero in memory is taken over, another one is asked for.
Session(t) ==
    LET a == AccountOf[t]
    IN  IF _heros[a] # None
        THEN _heros' = [_heros EXCEPT ![a].session = t] /\ UNCHANGED toDB
        ELSE ToDB(<<ReqHeroData(t)>>) /\ UNCHANGED _heros

addUser(c, t) ==
    /\ Running /\ conn[c]
    /\ Len(toDB) + Len(loads) + Len(fromDB) < MaxLoads
    /\ IF m_Onlines[t] = None
       THEN /\ m_Onlines' = [m_Onlines EXCEPT ![t] =
                    [gate |-> GateOf[c], state |-> "online", hero |-> _heros[AccountOf[t]] # None]]
            /\ Session(t)
            /\ doubled' = doubled \cup (IF Sessions(AccountOf[t]) = {} THEN {} ELSE {AccountOf[t]})
       ELSE /\ m_Onlines' =                                                       \* setReconnet
                    (IF m_Onlines[t].gate = GateOf[c] THEN [m_Onlines EXCEPT ![t].state = "online"]
                     ELSE m_Onlines)
            /\ UNCHANGED <<_heros, toDB, doubled>>
    /\ UNCHANGED <<game, gateVars, _save_all_heroes_ok, link, fromDB, dbVars, atStop, misread,
                   faultVars>>

removeUser(c, t) ==
    /\ Running /\ conn[c] /\ m_Onlines[t] # None
    /\ m_Onlines' = Removed({t})
    /\ UNCHANGED <<game, gateVars, _heros, _save_all_heroes_ok, linkVars, dbVars, historyVars,
                   faultVars>>

\* The process is gone: what it had not sent is lost, the database server sees the link close.
Crash ==
    /\ game' = "crashed"
    /\ link' = (IF link = "up" THEN "closing" ELSE link)
    /\ m_Onlines' = [t \in Tickets |-> None] /\ m_Gates' = [g \in Gates |-> None]
    /\ conn' = [c \in Conns |-> FALSE]
    /\ _heros' = [a \in Accounts |-> None]
    /\ atStop' = [a \in Accounts |-> None]
    /\ fromDB' = <<>>

\* setWaitReconnet writes through _dream_hero, which is NULL until the hero has been loaded.
offlineUser(c, t) ==
    /\ Running /\ conn[c] /\ m_Onlines[t] # None
    /\ IF m_Onlines[t].hero
       THEN /\ m_Onlines' = [m_Onlines EXCEPT ![t].state = "offline"]
            /\ UNCHANGED <<game, gateVars, _heros, linkVars, atStop>>
       ELSE Crash /\ UNCHANGED toDB
    /\ UNCHANGED <<_save_all_heroes_ok, dbVars, doubled, misread, faultVars>>

(* parsePBMessage with C2SModifySuitReq (the suit becomes the client's),   *)
(* C2SDelSuitReq (no suit is left that names equipment; when the last suit *)
(* is deleted the loop runs past the end, and what follows is GameCrashes) *)
(* or C2SModifySuitNameReq (the name only) that changes the hero.          *)
ModifySuit(t) ==
    LET a == AccountOf[t]
    IN  /\ Running /\ m_Onlines[t] # None /\ m_Onlines[t].hero
        /\ _heros[a].ver < MaxVersion
        /\ \E s \in {"own", "bare", _heros[a].suits} :
              _heros' = [_heros EXCEPT ![a].ver = @ + 1, ![a].suits = s]
        /\ UNCHANGED <<game, gateVars, m_Onlines, _save_all_heroes_ok, linkVars, dbVars,
                       historyVars, faultVars>>

-----------------------------------------------------------------------------
(* Answers of the database server: GameDBClient.                           *)

Receives(type) == Running /\ fromDB # <<>> /\ Head(fromDB).type = type

\* Faulty variant: the row replaces a hero that is in memory already.
CreateHero_Reload(a, t, ver, suits) ==
    [_heros EXCEPT ![a] = [ver |-> ver, suits |-> suits, session |-> t]]

(* Both CreateHero: a hero that is in memory already keeps what it has and *)
(* gets the session that asked.                                            *)
CreateHero(a, t, ver, suits) ==
    IF _heros[a] = None
    THEN [_heros EXCEPT ![a] = [ver |-> ver, suits |-> suits, session |-> t]]
    ELSE [_heros EXCEPT ![a].session = t]

Answered(t, ver, suits) ==
    LET a == AccountOf[t]
    IN  /\ fromDB' = Tail(fromDB)
        /\ IF m_Onlines[t] # None
           THEN /\ _heros' = CreateHero(a, t, ver, suits)
                /\ m_Onlines' = [m_Onlines EXCEPT ![t].hero = TRUE]
                /\ misread' = misread \cup
                     (IF _heros[a] = None /\ \E v \in {character[a]} \cup Queued(a) \cup Heard(a) : v > ver
                      THEN {a} ELSE {})
           ELSE UNCHANGED <<_heros, m_Onlines, misread>>
        /\ UNCHANGED <<game, gateVars, _save_all_heroes_ok, link, toDB, dbVars, atStop, doubled, faultVars>>

parseQueryHeroInfo ==
    /\ Receives("HeroData")
    /\ Answered(Head(fromDB).ticket, Head(fromDB).ver, Head(fromDB).suits)

parseNeedCreateHero ==
    /\ Receives("NeedCreateHero")
    /\ Answered(Head(fromDB).ticket, FromConfig, "bare")

parseMsgSaveAllHeroes ==
    /\ Receives("SaveAllHeroes")
    /\ _save_all_heroes_ok' = TRUE
    /\ fromDB' = Tail(fromDB)
    /\ UNCHANGED <<game, gateVars, m_Onlines, _heros, link, toDB, dbVars, historyVars, faultVars>>

-----------------------------------------------------------------------------
(* Saving.                                                                 *)

\* What is written of the hero of a, as it is in memory.
HeroSave(a) == SaveData(a, _heros[a].ver, _heros[a].suits)

(* The timer of every hero in memory.  _session may have been released by  *)
(* then; its transid is sent along and nobody looks at it.                 *)
SaveHero(a) ==
    /\ Running /\ _heros[a] # None
    /\ Len(toDB) + Len(saves) < MaxPending
    /\ ToDB(<<HeroSave(a)>>)
    /\ UNCHANGED <<game, gateVars, m_Onlines, _heros, _save_all_heroes_ok, link, fromDB, dbVars,
                   historyVars, faultVars>>

InMemory == {a \in Accounts : _heros[a] # None}

\* A SaveData for every hero, in the order of the map.
AllHeroes ==
    LET order == SetToSeq(InMemory)
    IN  [i \in 1 .. Cardinality(InMemory) |-> HeroSave(order[i])]

\* Faulty variant: the end is announced before the heroes are sent.
SaveDreamHeroes_AnnouncedFirst == ToDB(<<SaveAllHeroes>> \o AllHeroes)

SaveDreamHeroes == ToDB(AllHeroes \o <<SaveAllHeroes>>)

\* ServerFrame::signalStop after the signal, once.
setStop ==
    /\ game = "run"
    /\ SaveDreamHeroes
    /\ game' = "wait_stop"
    /\ atStop' = _heros
    /\ UNCHANGED <<gateVars, m_Onlines, _heros, _save_all_heroes_ok, link, fromDB, dbVars, doubled,
                   misread, faultVars>>

(* Every round from then on: once the database server has answered, save   *)
(* again and shut down.  The link is closed at once, so that any part of   *)
(* what was sent last may be lost.                                         *)
checkStop ==
    /\ game = "wait_stop" /\ _save_all_heroes_ok
    /\ SaveDreamHeroes
    /\ link' = (IF link = "up" THEN "closing" ELSE link)
    /\ game' = "stopped"
    /\ conn' = [c \in Conns |-> FALSE]
    /\ fromDB' = <<>>
    /\ UNCHANGED <<m_Gates, m_Onlines, _heros, _save_all_heroes_ok, dbVars, historyVars, faultVars>>

-----------------------------------------------------------------------------
(* The link and the processes.                                             *)

\* GameDBClient::on_connect.
on_connect ==
    /\ Running /\ link = "down" /\ db # "stopped"
    /\ link' = "up" /\ toDB' = <<ServerRegister>>
    /\ UNCHANGED <<game, gateVars, m_Onlines, _heros, _save_all_heroes_ok, fromDB, dbVars,
                   historyVars, faultVars>>

\* GameSession::on_close: removeGame.
LinkCloses ==
    /\ link' = "down" /\ toDB' = <<>> /\ fromDB' = <<>> /\ m_Games' = FALSE
    /\ UNCHANGED <<game, gateVars, m_Onlines, _heros, _save_all_heroes_ok, db, _receive_cose_msg,
                   taskVars, historyVars, errors, starts>>

LinkLost == link = "up" /\ MayFail /\ losses' = losses + 1 /\ LinkCloses

\* One of the servers has closed its end, and the other has read what came before.
on_close ==
    /\ \/ link = "closing"
       \/ link = "up" /\ db = "stopped" /\ fromDB = <<>>
    /\ UNCHANGED losses
    /\ LinkCloses

GameCrashes ==
    /\ Running
    /\ Crash
    /\ UNCHANGED <<_save_all_heroes_ok, toDB, dbVars, doubled, misread, faultVars>>

GameStarts ==
    /\ game \in {"crashed", "stopped"} /\ MayFail /\ link = "down"
    /\ starts' = starts + 1
    /\ game' = "run" /\ _save_all_heroes_ok' = FALSE
    /\ m_Gates' = [g \in Gates |-> None] /\ m_Onlines' = [t \in Tickets |-> None]
    /\ _heros' = [a \in Accounts |-> None] /\ atStop' = [a \in Accounts |-> None]
    /\ UNCHANGED <<conn, linkVars, dbVars, doubled, misread, errors, losses>>

-----------------------------------------------------------------------------
(* The database server: GameSession's handlers in its main loop.           *)

DBHears(type) == db # "stopped" /\ link # "down" /\ toDB # <<>> /\ Head(toDB).type = type

gameUnchanged == UNCHANGED <<game, gateVars, m_Onlines, _heros, _save_all_heroes_ok>>

\* Database::addSQueryTask: a database that is stopping takes no more tasks.
addTask(queue, task) == IF db = "run" THEN Append(queue, task) ELSE queue

parseGameRegister ==
    /\ DBHears("ServerRegister")
    /\ m_Games' = TRUE
    /\ toDB' = Tail(toDB)
    /\ gameUnchanged
    /\ UNCHANGED <<link, fromDB, db, _receive_cose_msg, taskVars, historyVars, faultVars>>

HeroTask(t, stage, ver, suits) == [ticket |-> t, stage |-> stage, ver |-> ver, suits |-> suits]

queryHeroInfo ==
    /\ DBHears("ReqHeroData")
    /\ loads' = addTask(loads, HeroTask(Head(toDB).ticket, "hero", NoRow, "bare"))
    /\ toDB' = Tail(toDB)
    /\ gameUnchanged
    /\ UNCHANGED <<link, fromDB, db, m_Games, _receive_cose_msg, saves, rowVars,
                   historyVars, faultVars>>

saveSqlData ==
    /\ DBHears("SaveData")
    /\ saves' = addTask(saves, Head(toDB))
    /\ toDB' = Tail(toDB)
    /\ gameUnchanged
    /\ UNCHANGED <<link, fromDB, db, m_Games, _receive_cose_msg, loads, rowVars,
                   historyVars, faultVars>>

\* Faulty variant: the flag is set before it is looked at.
saveToClose_FlagFirst ==
    /\ DBHears("SaveAllHeroes")
    /\ toDB' = Tail(toDB)
    /\ _receive_cose_msg' = TRUE
    /\ gameUnchanged
    /\ UNCHANGED <<link, fromDB, db, m_Games, taskVars, historyVars, faultVars>>

\* Only the first game server that stops is answered.
saveToClose ==
    /\ DBHears("SaveAllHeroes")
    /\ toDB' = Tail(toDB)
    /\ IF _receive_cose_msg THEN UNCHANGED fromDB ELSE ToGame(SaveAllHeroes)
    /\ _receive_cose_msg' = TRUE
    /\ gameUnchanged
    /\ UNCHANGED <<link, db, m_Games, taskVars, historyVars, faultVars>>

\* The timer that saveToClose has set.
onSaveToClose ==
    /\ _receive_cose_msg /\ db = "run"
    /\ db' = "wait_stop"
    /\ gameUnchanged
    /\ UNCHANGED <<linkVars, m_Games, _receive_cose_msg, taskVars, historyVars, faultVars>>

\* DBServer::checkStop, when the database has stopped (Database!StopIsQuiet).
DBStops ==
    /\ db = "wait_stop" /\ loads = <<>> /\ saves = <<>>
    /\ db' = "stopped" /\ m_Games' = FALSE
    /\ gameUnchanged
    /\ UNCHANGED <<linkVars, _receive_cose_msg, taskVars, historyVars, faultVars>>

-----------------------------------------------------------------------------
(* Its two workers.  The callback of a load, which the main loop calls     *)
(* some time later (see Database), is part of the step.                    *)

\* The worker takes the first task; the callback may add another, with what has been read so far.
Load(stage, next) ==
    /\ loads # <<>> /\ Head(loads).stage = stage
    /\ loads' = Tail(loads) \o (IF db = "run" THEN next ELSE <<>>)
    /\ gameUnchanged
    /\ UNCHANGED <<link, toDB, db, m_Games, _receive_cose_msg, saves, rowVars, historyVars,
                   losses, starts>>

\* No row: the game server is told to create the hero.
dbDoQueryHeroInfo ==
    LET t     == Head(loads).ticket
        row   == character[AccountOf[t]]
        suits == ReadBack(suits_name[AccountOf[t]])
    IN  /\ Load("hero", IF row # NoRow THEN <<HeroTask(t, "equips", row, suits)>> ELSE <<>>)
        /\ IF row # NoRow THEN UNCHANGED fromDB ELSE ToGame(NeedCreateHero(t))
        /\ UNCHANGED errors

\* Faulty variant: the chain ends with the equipment.
dbDoQueryHeroEquips_Ends ==
    /\ Load("equips", <<>>)
    /\ UNCHANGED <<fromDB, errors>>

dbDoQueryHeroEquips ==
    /\ Load("equips", <<[Head(loads) EXCEPT !.stage = "toys"]>>)
    /\ UNCHANGED <<fromDB, errors>>

dbDoQuerryHeroToys ==
    /\ Load("toys", <<>>)
    /\ ToGame(HeroData(Head(loads).ticket, Head(loads).ver, Head(loads).suits))
    /\ UNCHANGED errors

(* A query fails.  After the first one the game server is told to create   *)
(* the hero, after the others nobody is told anything.                     *)
QueryFails ==
    /\ MayFail
    /\ errors' = errors + 1
    /\ \E stage \in {"hero", "equips", "toys"} :
          /\ Load(stage, <<>>)
          /\ IF stage = "hero" THEN ToGame(NeedCreateHero(Head(loads).ticket)) ELSE UNCHANGED fromDB

\* A statement that fails is called back and forgotten (dbCallNothing).
SaveWorker ==
    /\ saves # <<>>
    /\ LET s == Head(saves)
       IN  \/ /\ character' = [character EXCEPT ![s.account] = s.ver]
              /\ suits_name' = [suits_name EXCEPT ![s.account] = s.suits]
              /\ UNCHANGED errors
           \/ /\ MayFail
              /\ errors' = errors + 1
              /\ UNCHANGED rowVars
    /\ saves' = Tail(saves)
    /\ gameUnchanged
    /\ UNCHANGED <<linkVars, db, m_Games, _receive_cose_msg, loads, historyVars, losses,
                   starts>>

-----------------------------------------------------------------------------
\* Some accounts have a hero and some have none yet.
Init ==
    /\ game = "run"
    /\ conn = [c \in Conns |-> FALSE] /\ m_Gates = [g \in Gates |-> None]
    /\ m_Onlines = [t \in Tickets |-> None]
    /\ _heros = [a \in Accounts |-> None]
    /\ _save_all_heroes_ok = FALSE
    /\ link = "down" /\ toDB = <<>> /\ fromDB = <<>>
    /\ db = "run" /\ m_Games = FALSE /\ _receive_cose_msg = FALSE
    /\ loads = <<>> /\ saves = <<>>
    /\ character \in [Accounts -> {NoRow, FromConfig}]
    /\ suits_name = [a \in Accounts |-> "bare"]
    /\ atStop = [a \in Accounts |-> None]
    /\ doubled = {} /\ misread = {}
    /\ errors = 0 /\ losses = 0 /\ starts = 0

FromGate ==
    \E c \in Conns :
        \/ parseGateRegister(c) \/ GateOnClose(c)
        \/ \E t \in Tickets : addUser(c, t) \/ removeUser(c, t) \/ offlineUser(c, t)

FromDatabaseServer == parseQueryHeroInfo \/ parseNeedCreateHero \/ parseMsgSaveAllHeroes

DatabaseServer ==
    \/ parseGameRegister \/ queryHeroInfo \/ saveSqlData \/ saveToClose
    \/ DBStops

LoadWorker == dbDoQueryHeroInfo \/ dbDoQueryHeroEquips \/ dbDoQuerryHeroToys \/ QueryFails

\* Both servers have stopped, or a game server that is stopping waits for nobody.
Ended ==
    /\ ~Running \/ db = "stopped"
    /\ UNCHANGED vars

Next ==
    \/ FromGate \/ (\E t \in Tickets : ModifySuit(t))
    \/ FromDatabaseServer
    \/ (\E a \in Accounts : SaveHero(a)) \/ setStop \/ checkStop
    \/ on_connect \/ LinkLost \/ on_close \/ GameCrashes \/ GameStarts
    \/ DatabaseServer \/ onSaveToClose \/ LoadWorker \/ SaveWorker
    \/ Ended

Spec == Init /\ [][Next]_vars

(* Both main loops run, the workers are scheduled, what is sent arrives.   *)
Fairness ==
    /\ WF_vars(FromDatabaseServer) /\ WF_vars(checkStop)
    /\ WF_vars(DatabaseServer) /\ WF_vars(LoadWorker) /\ WF_vars(SaveWorker)

FairSpec == Spec /\ Fairness

-----------------------------------------------------------------------------
(* Properties.                                                             *)

\* What travels on the link, each way, and the tasks of the two workers.
ToDBMessage ==
    [type : {"ReqHeroData"}, ticket : Tickets]
      \cup [type : {"SaveData"}, account : Accounts, ver : 1 .. MaxVersion, suits : Suits]
      \cup [type : {"SaveAllHeroes", "ServerRegister"}]

FromDBMessage ==
    [type : {"HeroData"}, ticket : Tickets, ver : 1 .. MaxVersion, suits : Suits]
      \cup [type : {"NeedCreateHero"}, ticket : Tickets]
      \cup [type : {"SaveAllHeroes"}]

LoadTask ==
    [ticket : Tickets, stage : {"hero"}, ver : {NoRow}, suits : {"bare"}]
      \cup [ticket : Tickets, stage : {"equips", "toys"}, ver : 1 .. MaxVersion, suits : Suits]

SaveTask == [type : {"SaveData"}, account : Accounts, ver : 1 .. MaxVersion, suits : Suits]

\* Every variable holds a value of its type.
TypeOK ==
    /\ game \in {"run", "wait_stop", "stopped", "crashed"}
    /\ conn \in [Conns -> BOOLEAN]
    /\ m_Gates \in [Gates -> Conns \cup {None}]
    /\ m_Onlines \in [Tickets -> {None} \cup
            [gate : Gates, state : {"online", "offline"}, hero : BOOLEAN]]
    /\ _heros \in [Accounts -> {None} \cup
            [ver : 1 .. MaxVersion, suits : Suits, session : Tickets]]
    /\ atStop \in [Accounts -> {None} \cup
            [ver : 1 .. MaxVersion, suits : Suits, session : Tickets]]
    /\ _save_all_heroes_ok \in BOOLEAN
    /\ link \in {"up", "down", "closing"}
    /\ toDB \in Seq(ToDBMessage) /\ fromDB \in Seq(FromDBMessage)
    /\ db \in {"run", "wait_stop", "stopped"}
    /\ m_Games \in BOOLEAN /\ _receive_cose_msg \in BOOLEAN
    /\ loads \in Seq(LoadTask) /\ saves \in Seq(SaveTask)
    /\ character \in [Accounts -> 0 .. MaxVersion] /\ suits_name \in [Accounts -> Suits]
    /\ doubled \subseteq Accounts /\ misread \subseteq Accounts
    /\ errors \in Nat /\ losses \in Nat /\ starts \in Nat

(* A late answer of the database server, or a second one for another login  *)
(* of the account, never takes a hero in memory back to what is stored: the *)
(* changes its player has made since are kept, the equip ids of its suits   *)
(* among them (DreamHeroManager::CreateHero).                               *)
NoRollback ==
    [][\A a \in Accounts :
          _heros[a] # None /\ _heros'[a] # None =>
              /\ _heros'[a].ver >= _heros[a].ver
              /\ _heros'[a].ver = _heros[a].ver => _heros'[a].suits = _heros[a].suits]_vars

(* What is stored of an account never gets older, over crashes and restarts *)
(* of the game server and lost links, and a version that is stored again is *)
(* the same hero but for the equip ids of its suits, which a load loses     *)
(* (dbDoQueryHeroInfo, see SuitsKept).  An account is left out once its     *)
(* hero was made from less than the database server had: a query that       *)
(* failed, or one that ran, or was answered, before a save that the last    *)
(* game server had sent.                                                    *)
StoredNeverOlder ==
    [][\A a \in Accounts :
          \/ /\ character'[a] >= character[a]
             /\ character'[a] = character[a] =>
                    ReadBack(suits_name'[a]) = ReadBack(suits_name[a])
          \/ a \in misread]_vars

(* The equipment a client chose for a suit stays stored until the client    *)
(* changes it.  It does not: a hero that is loaded has the suit's id in its *)
(* place, and the next save stores that (GameServerSuits.cfg).              *)
SuitsKept == \A a \in Accounts : suits_name[a] # "lost"

(* While an account has one session at a time, its hero answers that        *)
(* session: the pointer a hero keeps is that of the session that uses it,   *)
(* not of one that was released (DreamHero::_session).                      *)
SessionOfHero ==
    \A t \in Tickets :
        m_Onlines[t] # None /\ m_Onlines[t].hero =>
            AccountOf[t] \in doubled \/ _heros[AccountOf[t]].session = t

(* A game server that stops leaves every hero at least as it was when it    *)
(* was told to stop with the database server, whatever becomes of the link  *)
(* and of the second save, as long as no statement fails.                   *)
StopKeepsHeroes ==
    game = "stopped" /\ errors = 0 =>
        \A a \in Accounts : atStop[a] # None =>
            \E v \in {character[a]} \cup Queued(a) : v >= atStop[a].ver

(* A user whose hero was asked for gets it, if it stays, no statement       *)
(* fails, the link holds and neither server stops or crashes.               *)
HeroArrives ==
    \A t \in Tickets :
        m_Onlines[t] # None /\ (\E i \in 1 .. Len(toDB) : toDB[i] = ReqHeroData(t)) ~>
            \/ m_Onlines[t] = None \/ m_Onlines[t].hero
            \/ errors > 0 \/ losses > 0 \/ ~Running \/ db # "run"

Announced == \E i \in 1 .. Len(toDB) : toDB[i].type = "SaveAllHeroes"

(* A game server that was told to stop, the first one to be told and over a *)
(* link that holds, stops.                                                  *)
StopEnds ==
    game = "wait_stop" /\ Announced ~> game # "wait_stop" \/ losses > 0 \/ starts > 0
=============================================================================
