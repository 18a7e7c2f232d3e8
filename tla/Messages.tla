------------------------------ MODULE Messages ------------------------------
(***************************************************************************)
(* The contract between the processes: which messages they send each       *)
(* other, which fields of them they set, and what the receiver makes of    *)
(* the bytes (common/protoc_common.h).                                     *)
(*                                                                         *)
(* A sender serializes whatever fields are set.  The receiver looks the    *)
(* class up by its name, merges the fields one after the other and drops   *)
(* the message without a trace if a required field is missing              *)
(* (ParseFromArray); otherwise it calls the handler registered for the     *)
(* class or, if there is none, the default handler of the link, which may  *)
(* relay the message: a client's message travels through the gate to the   *)
(* session of the game server, and an answer travels back.                 *)
(*                                                                         *)
(* Abstraction: a scalar is one value (what matters is whether it is set), *)
(* lengths and byte layout are left out.                                   *)
(***************************************************************************)
EXTENDS MessageClasses, SequencesExt

CONSTANTS MaxRepeated,   \* how many elements a repeated field is given at most
          MaxCount       \* DreamHero::SendClientInit's max_count (40)

ASSUME BoundsAssumption == MaxRepeated \in Nat /\ MaxCount \in Nat \ {0}

VARIABLES sent,    \* the message under way and the place in the code that sends it
          link,    \* the link it is on
          wire,    \* the fields that the receiver has still to read
          got,     \* what MergePartialFromCodedStream has put together so far
          phase    \* "idle", "reading" or how the message ended

vars == <<sent, link, wire, got, phase>>

-----------------------------------------------------------------------------
(***************************************************************************)
(* Messages as values.  has maps the number of every field that is set to  *)
(* its values (one, or those of a repeated field in order); unknown keeps  *)
(* what the parser could not place, to be written again.                   *)
(***************************************************************************)
New(c) == [class |-> c, has |-> <<>>, unknown |-> <<>>]

\* What a sender has set: f gives accessors of class c their values.
Set(c, f) == [class |-> c, set |-> f]

Scalar == <<Set("scalar", <<>>)>>

\* n values of a repeated field.
Times(n, v) == [i \in 1..n |-> v]

WireType(type) == IF type \in {"string", "bytes"} \cup Classes THEN 2 ELSE 0

Tag(number, type) == 8 * number + WireType(type)

RECURSIVE Serialize(_)
Serialize(m) ==
    LET fields(p) ==
            IF p.number \in DOMAIN m.has
            THEN [j \in DOMAIN m.has[p.number] |->
                    [tag  |-> Tag(p.number, p.type),
                     body |-> IF p.type \in Classes THEN Serialize(m.has[p.number][j]) ELSE <<>>]]
            ELSE <<>>
        order == Write(m.class).order
    IN  FlattenSeq([i \in DOMAIN order |-> fields(order[i])]) \o m.unknown

\* The message that the accessors called in d leave behind.
RECURSIVE Built(_)
Built(d) ==
    IF d.class \notin Classes THEN New(d.class)
    ELSE LET number   == Header(d.class)
             called   == {a \in DOMAIN d.set : d.set[a] # <<>>}
             values(n) == d.set[CHOOSE a \in called : number[a] = n]
         IN  [New(d.class) EXCEPT !.has = [n \in {number[a] : a \in called} |->
                 [i \in DOMAIN values(n) |-> Built(values(n)[i])]]]

RECURSIVE MergeFields(_, _)
MergeField(m, f) ==
    IF f.tag \in DOMAIN Merge(m.class)
    THEN LET reader == Merge(m.class)[f.tag]
             number == f.tag \div 8
             value  == IF reader.type \in Classes
                       THEN MergeFields(New(reader.type), f.body) ELSE New("scalar")
             before == IF reader.repeated /\ number \in DOMAIN m.has THEN m.has[number] ELSE <<>>
         IN  [m EXCEPT !.has = (number :> Append(before, value)) @@ @]
    ELSE [m EXCEPT !.unknown = Append(@, f)]
MergeFields(m, fs) == IF fs = <<>> THEN m ELSE MergeFields(MergeField(m, Head(fs)), Tail(fs))

RECURSIVE IsInitialized(_)
IsInitialized(m) ==
    /\ Write(m.class).required \subseteq DOMAIN m.has
    /\ \A n \in Write(m.class).nested \cap DOMAIN m.has :
           \A i \in DOMAIN m.has[n] : IsInitialized(m.has[n][i])

-----------------------------------------------------------------------------
(***************************************************************************)
(* What the processes send.  Each definition is the set of messages that   *)
(* one place in the code can put together.                                 *)
(***************************************************************************)
Version  == Set("ServerVersion", [major |-> Scalar, minor |-> Scalar, build |-> Scalar, appsvn |-> Scalar])
Register == Set("MsgServerRegister", [serverid |-> Scalar, version |-> <<Version>>])
UserData == Set("GTLGData", [account |-> Scalar, transid |-> Scalar])

\* Gate server.
GateRegisterGame == {Register}
AddNewPlayer     == {Set("MsgGT2GSAddUser", [data |-> <<UserData>>])}
OfflinePlayer    == {Set("MsgGT2GSOfflineUser", [trans |-> Scalar])}
RemovePlayer     == {Set("MsgGT2GSRemoveUser", [trans |-> Scalar])}
UserPrepared     == {Set("MsgGT2LNPrepar", [account |-> Scalar])}
GateOnlines      == {Set("MsgGT2LNOnlines", [onlines |-> Scalar])}
MakeRegisterData == {Times(n, UserData) : n \in 0..MaxRepeated}
GateRegisterLogin ==
    {Set("MsgGTRegisterLG", [ip |-> Scalar, port |-> Scalar, gateinfo |-> <<Register>>, accounts |-> users])
        : users \in MakeRegisterData}

\* Login server.
KickUserFromGate  == {Set("MsgLN2GTKickUser", [data |-> <<UserData>>])}
GiveUserToGate    == {Set("MsgLN2GTUserLogin", [data |-> <<UserData>>])}
ReceiveUserPrepar == {Set("LoginResponse", [gate_ip |-> Scalar, gate_port |-> Scalar,
                                            user_account |-> Scalar, result |-> Scalar])}
LoginFailed       == {Set("LoginResponse", [result |-> Scalar])}

\* Virtual client.
ClientLogin     == {Set("LoginRequest", [name |-> Scalar, pwd |-> Scalar])}
ClientLoginGame == {Set("LoginGame", [user_account |-> Scalar])}

\* Database server.
Suits(n)  == Times(n, Set("MsgSuitData", [suit_id |-> Scalar, suit_name |-> Scalar, equip_ids |-> Times(n, Scalar[1])]))
ToyBase   == Set("MsgToyBaseData", [toy_config_id |-> Scalar, toy_config_type |-> Scalar, toy_level |-> Scalar])
Toy       == Set("MsgToyData", [toy_cd_key |-> Scalar, time_stamp |-> Scalar, toy |-> <<ToyBase>>])
Equip     == Set("MsgEquipData", [id |-> Scalar, equip_id |-> Scalar, level |-> Scalar, equipped |-> Scalar,
                                  client_save_flag |-> Scalar, count |-> Scalar])
HeroRow(n) == Set("MsgHeroData", [account |-> Scalar, level |-> Scalar, name |-> Scalar, action_point |-> Scalar,
                                  gold |-> Scalar, diamand |-> Scalar, suits |-> Suits(n)])
HeroLoaded ==
    {Set("MsgHeroDataDB2GS", [account |-> Scalar, data |-> <<HeroRow(s)>>, equips |-> Times(e, Equip),
                              toys |-> Times(t, Toy)]) : s, e, t \in 0..MaxRepeated}
NeedCreateHero == {Set("MsgNeedCreateHeroDB2GS", <<>>)}
SaveToClose    == {Set("MsgSaveAllHeroesDB2GS", <<>>)}
ToyVerified    == {Set("MsgVerifyToyDB2GS", [toy |-> <<Toy>>, account |-> Scalar])}

\* Game server: its links.
GameRegisterDB   == {Register}
GameRegisterGate == {Register}
RequestHero      == {Set("MsgReqHeroDataGS2DB", [account |-> Scalar])}
SaveDreamHeroes  == {Set("MsgSaveAllHeroesGS2DB", <<>>)}
SaveHero         == {Set("MsgSaveDataGS2DB", [sql |-> Scalar])}
VerifyToyCDKey   == {Set("MsgVerifyToyGS2DB", [cdkey |-> Scalar])}

\* Game server: answers to a client.
VerifyToyUsed  == {Set("S2CVerifyToyCDKeyErrorACK", [cd_key |-> Scalar, error |-> Scalar])}
VerifyToy      == {Set("S2CVerifyToyCDKeyACK", [toydata |-> <<Toy>>])}
VerifyToyError == {Set("S2CVerifyToyCDKeyErrorACK", [cd_key |-> Scalar, error |-> Scalar])}
ModifySuit     == {Set("S2CModifySuitACK", [suit_id |-> Scalar, error |-> Scalar])}
DelSuit        == {Set("S2CDelSuitACK", [suit_id |-> Scalar, error |-> Scalar])}
ModifySuitName == {Set("S2CModifySuitNameACK", [suit_id |-> Scalar, suit_name |-> Scalar]),
                   Set("S2CModifySuitErrorACK", [suit_id |-> Scalar, error |-> Scalar])}
\* Nobody calls DreamHero::EquipLevelUp: its request has no handler in the game server.
EquipLevelUp      == {Set("S2CEquipLevelUpACK", [count |-> Scalar, gold |-> Scalar, level |-> Scalar, diamand |-> Scalar])}
EquipLevelUpError == {Set("S2CEquipLevelUpErrorACK", [equip_id |-> Scalar, error |-> Scalar])}

(***************************************************************************)
(* DreamHero::SendClientInit sends the equipment of a hero in batches.     *)
(* equip_temp stays the sub-message of equip_msg, but clear_equip() also   *)
(* takes back that equip_msg has one, and only the first round of the loop *)
(* (current_count is never reset) and the test after it call               *)
(* mutable_equip(), which would say so again.                              *)
(***************************************************************************)
EquipMessage(hasEquip, equips, begin, end) ==
    LET body == Set("S2CMsgHeroEquip", [equips |-> equips, begin |-> begin, end |-> end])
    IN  Set("S2CMsgEquipInit", [equip |-> IF hasEquip THEN <<body>> ELSE <<>>])

EquipBatches(n) ==
    LET loop[i \in 0..n] ==
            IF i = 0 THEN [out |-> <<>>, has |-> TRUE, equips |-> <<>>, begin |-> <<>>, end |-> <<>>]
            ELSE LET b == loop[i-1]
                     has    == b.has \/ i = 1
                     equips == Append(b.equips, Equip)
                     begin  == IF i = 1 THEN Scalar ELSE b.begin
                     end    == IF i = n THEN Scalar ELSE b.end
                 IN  IF i - 1 >= MaxCount
                     THEN [out |-> Append(b.out, EquipMessage(has, equips, begin, end)), has |-> FALSE,
                           equips |-> <<>>, begin |-> <<>>, end |-> <<>>]
                     ELSE [out |-> b.out, has |-> has, equips |-> equips, begin |-> begin, end |-> end]
        last == loop[n]
    IN  IF last.equips = <<>> THEN last.out
        ELSE Append(last.out, EquipMessage(TRUE, last.equips, last.begin, last.end))

SendClientInit(n) ==
    ToSet(EquipBatches(n))
        \cup {Set("S2CMsgToyInit", [toys |-> Times(t, ToyBase)]) : t \in 0..MaxRepeated}
        \cup {Set("S2CMsgHeroInit", [hero |-> <<HeroRow(s)>>]) : s \in 0..MaxRepeated}

(***************************************************************************)
(* Every place that sends, with its link, whether it has a caller or not.  *)
(* A hero with up to MaxCount + 1 equips fits into one batch.              *)
(* RegisterAccountFaildACK, which has no fields, goes to the real client   *)
(* only: the virtual client never registers.                               *)
(***************************************************************************)
Sites == [
    GateRegisterGame  |-> <<"gate>game", GateRegisterGame>>,
    AddNewPlayer      |-> <<"gate>game", AddNewPlayer>>,
    OfflinePlayer     |-> <<"gate>game", OfflinePlayer>>,
    RemovePlayer      |-> <<"gate>game", RemovePlayer>>,
    UserPrepared      |-> <<"gate>login", UserPrepared>>,
    GateOnlines       |-> <<"gate>login", GateOnlines>>,
    GateRegisterLogin |-> <<"gate>login", GateRegisterLogin>>,
    KickUserFromGate  |-> <<"login>gate", KickUserFromGate>>,
    GiveUserToGate    |-> <<"login>gate", GiveUserToGate>>,
    ReceiveUserPrepar |-> <<"login>client", ReceiveUserPrepar>>,
    LoginFailed       |-> <<"login>client", LoginFailed>>,
    ClientLogin       |-> <<"client>login", ClientLogin>>,
    ClientLoginGame   |-> <<"client>gate", ClientLoginGame>>,
    HeroLoaded        |-> <<"db>game", HeroLoaded>>,
    NeedCreateHero    |-> <<"db>game", NeedCreateHero>>,
    SaveToClose       |-> <<"db>game", SaveToClose>>,
    ToyVerified       |-> <<"db>game", ToyVerified>>,
    GameRegisterDB    |-> <<"game>db", GameRegisterDB>>,
    GameRegisterGate  |-> <<"game>gate", GameRegisterGate>>,
    RequestHero       |-> <<"game>db", RequestHero>>,
    SaveDreamHeroes   |-> <<"game>db", SaveDreamHeroes>>,
    SaveHero          |-> <<"game>db", SaveHero>>,
    VerifyToyCDKey    |-> <<"game>db", VerifyToyCDKey>>,
    VerifyToyUsed     |-> <<"game>gate", VerifyToyUsed>>,
    VerifyToy         |-> <<"game>gate", VerifyToy>>,
    VerifyToyError    |-> <<"game>gate", VerifyToyError>>,
    ModifySuit        |-> <<"game>gate", ModifySuit>>,
    DelSuit           |-> <<"game>gate", DelSuit>>,
    ModifySuitName    |-> <<"game>gate", ModifySuitName>>,
    EquipLevelUp      |-> <<"game>gate", EquipLevelUp>>,
    EquipLevelUpError |-> <<"game>gate", EquipLevelUpError>>,
    SendClientInit    |-> <<"game>gate", UNION {SendClientInit(n) : n \in 0..MaxCount+1}>>,
    SendClientBatches |-> <<"game>gate", UNION {SendClientInit(n) : n \in MaxCount+2..MaxCount+3}>>]

(***************************************************************************)
(* The client proper is not in the repository: it may send a message of    *)
(* any class with any of its fields set, and with a field that a later     *)
(* version of the class has.  Sub-messages are empty or as their own class *)
(* would be with every field set.                                          *)
(***************************************************************************)
LaterField == [tag |-> Tag(100, "uint32"), body |-> <<>>]

RECURSIVE Complete(_)
Complete(c) ==
    [New(c) EXCEPT !.has = [n \in {p.number : p \in ToSet(Write(c).order)} |->
        LET type == (CHOOSE p \in ToSet(Write(c).order) : p.number = n).type
        IN  IF type \in Classes THEN <<Complete(type)>> ELSE <<New("scalar")>>]]

PeerMessages(c) ==
    LET full == Complete(c).has
        nested == {n \in DOMAIN full : full[n][1].class # "scalar"}
    IN  UNION {{[class   |-> c,
                 has     |-> [n \in fields |->
                                IF n \in hollow THEN <<New(full[n][1].class)>> ELSE full[n]],
                 unknown |-> later]
                    : hollow \in SUBSET (fields \cap nested), later \in {<<>>, <<LaterField>>}}
               : fields \in SUBSET DOMAIN full}

-----------------------------------------------------------------------------
(***************************************************************************)
(* Who handles what: the registerCBFun calls of the receiver of each link, *)
(* and where its default handler sends a message on.  "session" is the     *)
(* dispatch to a user's session inside the game server.                    *)
(***************************************************************************)
GameOfGate   == {"MsgServerRegister", "MsgGT2GSAddUser", "MsgGT2GSRemoveUser", "MsgGT2GSOfflineUser"}
GateOfGame   == {"MsgServerRegister", "MsgGS2GTOnlines", "MsgDB2GTChangeGS"}
\* Faulty variant: one handler is not registered.
GameOfDB_Forgets == {"MsgHeroDataDB2GS", "MsgSaveAllHeroesDB2GS", "MsgVerifyToyDB2GS", "MsgVerifyToyErrorDB2GS"}
GameOfDB     == {"MsgHeroDataDB2GS", "MsgNeedCreateHeroDB2GS", "MsgSaveAllHeroesDB2GS", "MsgVerifyToyDB2GS",
                 "MsgVerifyToyErrorDB2GS"}
DBOfGame     == {"MsgServerRegister", "MsgReqHeroDataGS2DB", "MsgSaveDataGS2DB", "MsgSaveAllHeroesGS2DB",
                 "MsgVerifyToyGS2DB"}
GateOfLogin  == {"MsgLN2GTUserLogin", "MsgLN2GTKickUser"}
LoginOfGate  == {"MsgGTRegisterLG", "MsgGT2LNOnlines", "MsgGT2LNPrepar"}
LoginOfUser  == {"LoginRequest", "RegisterAccountRequest"}
GateOfUser   == {"LoginGame"}
SessionCalls == {"C2SModifySuitNameReq", "C2SModifySuitReq", "C2SDelSuitReq", "C2SVerifyToyCDKeyReq"}
ClientCalls  == {"LoginResponse", "S2CMsgHeroInit", "S2CMsgHeroEquip", "S2CMsgToyInit", "S2CMsgEquipInit",
                 "S2CModifySuitNameACK", "S2CModifySuitErrorACK", "S2CModifySuitACK", "S2CDelSuitACK",
                 "S2CVerifyToyCDKeyErrorACK", "S2CVerifyToyCDKeyACK", "S2CEquipLevelUpReq",
                 "S2CEquipLevelUpACK", "S2CEquipLevelUpErrorACK"}

Handlers(l) ==
    CASE l = "gate>game"    -> GameOfGate
      [] l = "game>gate"    -> GateOfGame
      [] l = "db>game"      -> GameOfDB
      [] l = "game>db"      -> DBOfGame
      [] l = "login>gate"   -> GateOfLogin
      [] l = "gate>login"   -> LoginOfGate
      [] l = "client>login" -> LoginOfUser
      [] l = "client>gate"  -> GateOfUser
      [] l = "session"      -> SessionCalls
      [] l \in {"gate>client", "login>client"} -> ClientCalls

\* The default handlers that relay: UserSession::parseGameMsg, GateSession::parseUserMsg,
\* GateGameClient::parseGameMsg and GameDBClient::parseDBMsgDefault.
Relays == [l \in {"client>gate", "gate>game", "game>gate", "db>game"} |->
    CASE l = "client>gate" -> "gate>game"
      [] l = "gate>game"   -> "session"
      [] l = "game>gate"   -> "gate>client"
      [] l = "db>game"     -> "game>gate"]

-----------------------------------------------------------------------------
Nothing == [site |-> "none", msg |-> New("none")]

Init == sent = Nothing /\ link = "none" /\ wire = <<>> /\ got = New("none") /\ phase = "idle"

\* pushProtocMessage: the name and the fields that are set go out on a link.
PushProtocMessage(m, l) ==
    /\ link' = l
    /\ wire' = Serialize(m)
    /\ got' = New(m.class)
    /\ phase' = "reading"

SendFromSite ==
    /\ phase = "idle"
    /\ \E s \in DOMAIN Sites : \E d \in Sites[s][2] :
           LET m == Built(d)
           IN  sent' = [site |-> s, msg |-> m] /\ PushProtocMessage(m, Sites[s][1])

SendFromPeer ==
    /\ phase = "idle"
    /\ \E c \in Classes, l \in {"client>gate", "client>login"} : \E m \in PeerMessages(c) :
           sent' = [site |-> "peer", msg |-> m] /\ PushProtocMessage(m, l)

\* One round of the loop of MergePartialFromCodedStream.
ReadField ==
    /\ phase = "reading" /\ wire # <<>>
    /\ got' = MergeField(got, Head(wire))
    /\ wire' = Tail(wire)
    /\ UNCHANGED <<sent, link, phase>>

\* callPBCBFun on a parsed message that came over link l.
CallPBCBFun(l) ==
    IF got.class \in Handlers(l) THEN phase' = "handled" /\ UNCHANGED <<link, wire, got>>
    ELSE IF l \notin DOMAIN Relays THEN phase' = "ignored" /\ UNCHANGED <<link, wire, got>>
    ELSE \/ /\ Relays[l] = "session"
            /\ phase' = (IF got.class \in Handlers("session") THEN "handled" ELSE "ignored")
            /\ link' = "session"
            /\ UNCHANGED <<wire, got>>
         \/ Relays[l] # "session" /\ PushProtocMessage(got, Relays[l])
         \/ phase' = "no user" /\ UNCHANGED <<link, wire, got>>   \* the user or its game server is gone

\* ParseFromArray at the end of the bytes, then the dispatch.
ParseProtocmessage ==
    /\ phase = "reading" /\ wire = <<>>
    /\ IF IsInitialized(got) THEN CallPBCBFun(link)
       ELSE phase' = "dropped" /\ UNCHANGED <<link, wire, got>>
    /\ UNCHANGED sent

Done ==
    /\ phase \notin {"idle", "reading"}
    /\ sent' = Nothing /\ link' = "none" /\ wire' = <<>> /\ got' = New("none") /\ phase' = "idle"

Next == SendFromSite \/ SendFromPeer \/ ReadField \/ ParseProtocmessage \/ Done

Spec == Init /\ [][Next]_vars

-----------------------------------------------------------------------------
(***************************************************************************)
(* What a handler is given is what was sent, complete: whatever the client *)
(* sends, and however many processes relay it, each of which parses it and *)
(* serializes it again, a handler is called with the same fields set (the  *)
(* ones its own version of the class does not know kept among them) and    *)
(* only if every required field, of sub-messages too, is there.            *)
(***************************************************************************)
HandledIsWhatWasSent ==
    phase = "handled" => got = sent.msg /\ IsInitialized(sent.msg)

\* The three places that leave required fields out (EverySentIsHandled).
KnownIncomplete == {"VerifyToyCDKey", "SendClientBatches", "EquipLevelUp"}

(***************************************************************************)
(* Every message the servers and the virtual client put together, but for  *)
(* those of the three places above, has its required fields set and        *)
(* reaches a handler (or a user who is gone): none is dropped by the       *)
(* parser of a process on its way, and none ends at a default handler that *)
(* ignores it.                                                             *)
(***************************************************************************)
SentIsHandled ==
    phase \in {"dropped", "ignored"} => sent.site \in KnownIncomplete \cup {"peer"}

(***************************************************************************)
(* The same of every place.  DreamHero::VerifyToyCDKey leaves out account, *)
(* SendClientInit leaves out end, or equip, of a hero with more than       *)
(* MaxCount + 1 equips, and EquipLevelUp, once something calls it, leaves  *)
(* out equip_id: the .proto files call these fields required, and the      *)
(* receiver drops the messages.                                            *)
(***************************************************************************)
EverySentIsHandled ==
    phase \in {"dropped", "ignored"} => sent.site = "peer"

=============================================================================
