--------------------------- MODULE MessageClasses ---------------------------
(***************************************************************************)
(* The protocol buffer classes the processes exchange, as protoc generated *)
(* them (common/message).  Three definitions per class C:                  *)
(*                                                                         *)
(*   C        the accessors of the header (has_x, set_x, mutable_x, add_x) *)
(*            with the field number each one works on;                     *)
(*   C_Merge  the tags MergePartialFromCodedStream recognises and what it  *)
(*            reads behind each; every other tag is skipped;               *)
(*   C_Write  what SerializeWithCachedSizes writes, in its order, and what *)
(*            IsInitialized asks for: the required fields, and the fields  *)
(*            whose sub-messages must be initialized too.                  *)
(*                                                                         *)
(* The writer and the reader are translated one by one from the generated  *)
(* code, so that the agreement of the two is something to check.           *)
(***************************************************************************)
EXTENDS Naturals, Sequences, TLC

\* A reader behind a tag: of one value, or of one more value of a repeated field.
One(type)  == [type |-> type, repeated |-> FALSE]
Many(type) == [type |-> type, repeated |-> TRUE]

\* A writer: Put under if (has_x()), PutEach in a loop over x_size().
Put(number, type)     == [number |-> number, type |-> type, repeated |-> FALSE]
PutEach(number, type) == [number |-> number, type |-> type, repeated |-> TRUE]

Layout(order, required, nested) == [order |-> order, required |-> required, nested |-> nested]

(***************************************************************************)
(* common/message/booth.pb.h, booth.pb.cc                                  *)
(***************************************************************************)
HoldBooth == [cityid |-> 1, boothid |-> 2, charid |-> 3]
HoldBooth_Merge == 8 :> One("uint32") @@ 16 :> One("uint32") @@ 24 :> One("uint32")
HoldBooth_Write == Layout(<<Put(1, "uint32"), Put(2, "uint32"), Put(3, "uint32")>>, {}, {})

BoothState == [states |-> 1]
BoothState_Merge == 10 :> Many("HoldBooth")
BoothState_Write == Layout(<<PutEach(1, "HoldBooth")>>, {}, {})

LeaveBooth == [boothids |-> 1]
LeaveBooth_Merge == 8 :> Many("uint32") @@ 10 :> Many("uint32")
LeaveBooth_Write == Layout(<<PutEach(1, "uint32")>>, {}, {})

GetBoothState == <<>>
GetBoothState_Merge == <<>>
GetBoothState_Write == Layout(<<>>, {}, {})


(***************************************************************************)
(* common/message/common.pb.h, common.pb.cc                                *)
(***************************************************************************)
MsgSuitData == [suit_id |-> 1, suit_name |-> 2, equip_ids |-> 3]
\* Faulty variant: equip_ids is read as if it were not repeated.
MsgSuitData_Merge_LastOnly == 8 :> One("int32") @@ 18 :> One("string") @@ 24 :> One("uint64") @@ 26 :> One("uint64")
MsgSuitData_Merge == 8 :> One("int32") @@ 18 :> One("string") @@ 24 :> Many("uint64") @@ 26 :> Many("uint64")
MsgSuitData_Write == Layout(<<Put(1, "int32"), Put(2, "string"), PutEach(3, "uint64")>>, {1, 2}, {})

MsgHeroData == [account |-> 1, level |-> 2, name |-> 3, action_point |-> 4, diamand |-> 5, gold |-> 6, suits |-> 7]
MsgHeroData_Merge == 8 :> One("uint64") @@ 16 :> One("uint32") @@ 26 :> One("string") @@ 32 :> One("int32") @@
    40 :> One("int32") @@ 48 :> One("int32") @@ 58 :> Many("MsgSuitData")
MsgHeroData_Write == Layout(<<Put(1, "uint64"), Put(2, "uint32"), Put(3, "string"), Put(4, "int32"),
    Put(5, "int32"), Put(6, "int32"), PutEach(7, "MsgSuitData")>>, {1, 2, 3, 4, 5, 6}, {7})

MsgEquipData == [id |-> 1, equip_id |-> 2, level |-> 3, equipped |-> 4, client_save_flag |-> 5, count |-> 6]
MsgEquipData_Merge == 8 :> One("uint64") @@ 16 :> One("int32") @@ 24 :> One("int32") @@ 32 :> One("bool") @@
    40 :> One("int32") @@ 48 :> One("int32")
MsgEquipData_Write == Layout(<<Put(1, "uint64"), Put(2, "int32"), Put(3, "int32"), Put(4, "bool"),
    Put(5, "int32"), Put(6, "int32")>>, {1, 2, 3, 4, 5, 6}, {})

MsgIntPair == [number_1 |-> 1, number_2 |-> 2]
MsgIntPair_Merge == 8 :> One("int32") @@ 16 :> One("int32")
MsgIntPair_Write == Layout(<<Put(1, "int32"), Put(2, "int32")>>, {1, 2}, {})

MsgToyBaseData == [toy_config_id |-> 1, toy_config_type |-> 2, toy_level |-> 3]
MsgToyBaseData_Merge == 8 :> One("int32") @@ 16 :> One("int32") @@ 24 :> One("int32")
MsgToyBaseData_Write == Layout(<<Put(1, "int32"), Put(2, "int32"), Put(3, "int32")>>, {1, 2, 3}, {})

MsgToyData == [toy_cd_key |-> 1, time_stamp |-> 2, toy |-> 3]
MsgToyData_Merge == 10 :> One("string") @@ 16 :> One("uint64") @@ 26 :> One("MsgToyBaseData")
MsgToyData_Write == Layout(<<Put(1, "string"), Put(2, "uint64"), Put(3, "MsgToyBaseData")>>, {1, 2, 3}, {3})


(***************************************************************************)
(* common/message/dream_hero.pb.h, dream_hero.pb.cc                        *)
(***************************************************************************)
S2CMsgHeroInit == [hero |-> 1]
S2CMsgHeroInit_Merge == 10 :> One("MsgHeroData")
S2CMsgHeroInit_Write == Layout(<<Put(1, "MsgHeroData")>>, {1}, {1})

S2CMsgHeroEquip == [equips |-> 1, end |-> 2, begin |-> 3]
S2CMsgHeroEquip_Merge == 10 :> Many("MsgEquipData") @@ 16 :> One("bool") @@ 24 :> One("bool")
S2CMsgHeroEquip_Write == Layout(<<PutEach(1, "MsgEquipData"), Put(2, "bool"), Put(3, "bool")>>, {2, 3}, {1})

S2CMsgToyInit == [toys |-> 1]
S2CMsgToyInit_Merge == 10 :> Many("MsgToyBaseData")
S2CMsgToyInit_Write == Layout(<<PutEach(1, "MsgToyBaseData")>>, {}, {1})

S2CMsgEquipInit == [equip |-> 1]
S2CMsgEquipInit_Merge == 10 :> One("S2CMsgHeroEquip")
S2CMsgEquipInit_Write == Layout(<<Put(1, "S2CMsgHeroEquip")>>, {1}, {1})

C2SModifySuitNameReq == [suit_id |-> 1, suit_name |-> 2]
C2SModifySuitNameReq_Merge == 8 :> One("int32") @@ 18 :> One("string")
C2SModifySuitNameReq_Write == Layout(<<Put(1, "int32"), Put(2, "string")>>, {1, 2}, {})

S2CModifySuitNameACK == [suit_id |-> 1, suit_name |-> 2]
S2CModifySuitNameACK_Merge == 8 :> One("int32") @@ 18 :> One("string")
S2CModifySuitNameACK_Write == Layout(<<Put(1, "int32"), Put(2, "string")>>, {1, 2}, {})

S2CModifySuitErrorACK == [suit_id |-> 1, error |-> 2]
S2CModifySuitErrorACK_Merge == 8 :> One("int32") @@ 16 :> One("enum")
S2CModifySuitErrorACK_Write == Layout(<<Put(1, "int32"), Put(2, "enum")>>, {1, 2}, {})

C2SModifySuitReq == [data |-> 1]
C2SModifySuitReq_Merge == 10 :> One("MsgSuitData")
C2SModifySuitReq_Write == Layout(<<Put(1, "MsgSuitData")>>, {1}, {1})

S2CModifySuitACK == [suit_id |-> 1, error |-> 2]
S2CModifySuitACK_Merge == 8 :> One("int32") @@ 16 :> One("enum")
S2CModifySuitACK_Write == Layout(<<Put(1, "int32"), Put(2, "enum")>>, {1, 2}, {})

C2SDelSuitReq == [suit_id |-> 1]
C2SDelSuitReq_Merge == 8 :> One("int32")
C2SDelSuitReq_Write == Layout(<<Put(1, "int32")>>, {1}, {})

S2CDelSuitACK == [suit_id |-> 1, error |-> 2]
S2CDelSuitACK_Merge == 8 :> One("int32") @@ 16 :> One("enum")
S2CDelSuitACK_Write == Layout(<<Put(1, "int32"), Put(2, "enum")>>, {1, 2}, {})

C2SVerifyToyCDKeyReq == [cd_key |-> 1]
C2SVerifyToyCDKeyReq_Merge == 10 :> One("string")
C2SVerifyToyCDKeyReq_Write == Layout(<<Put(1, "string")>>, {1}, {})

S2CVerifyToyCDKeyErrorACK == [cd_key |-> 1, error |-> 2]
S2CVerifyToyCDKeyErrorACK_Merge == 10 :> One("string") @@ 16 :> One("enum")
S2CVerifyToyCDKeyErrorACK_Write == Layout(<<Put(1, "string"), Put(2, "enum")>>, {1, 2}, {})

S2CVerifyToyCDKeyACK == [toydata |-> 1]
S2CVerifyToyCDKeyACK_Merge == 10 :> One("MsgToyData")
S2CVerifyToyCDKeyACK_Write == Layout(<<Put(1, "MsgToyData")>>, {1}, {1})

S2CEquipLevelUpReq == [equip_id |-> 1]
S2CEquipLevelUpReq_Merge == 8 :> One("uint64")
S2CEquipLevelUpReq_Write == Layout(<<Put(1, "uint64")>>, {1}, {})

S2CEquipLevelUpACK == [equip_id |-> 1, level |-> 2, gold |-> 3, count |-> 4, diamand |-> 5]
S2CEquipLevelUpACK_Merge == 8 :> One("uint64") @@ 16 :> One("int32") @@ 24 :> One("int32") @@
    32 :> One("int32") @@ 40 :> One("int32")
S2CEquipLevelUpACK_Write == Layout(<<Put(1, "uint64"), Put(2, "int32"), Put(3, "int32"), Put(4, "int32"),
    Put(5, "int32")>>, {1, 2, 3, 4, 5}, {})

S2CEquipLevelUpErrorACK == [equip_id |-> 1, error |-> 2]
S2CEquipLevelUpErrorACK_Merge == 8 :> One("uint64") @@ 16 :> One("enum")
S2CEquipLevelUpErrorACK_Write == Layout(<<Put(1, "uint64"), Put(2, "enum")>>, {1, 2}, {})


(***************************************************************************)
(* common/message/login.pb.h, login.pb.cc                                  *)
(***************************************************************************)
LoginRequest == [name |-> 1, pwd |-> 2]
LoginRequest_Merge == 10 :> One("string") @@ 18 :> One("string")
LoginRequest_Write == Layout(<<Put(1, "string"), Put(2, "string")>>, {}, {})

RegisterAccountRequest == [name |-> 1, pwd |-> 2]
RegisterAccountRequest_Merge == 10 :> One("string") @@ 18 :> One("string")
RegisterAccountRequest_Write == Layout(<<Put(1, "string"), Put(2, "string")>>, {1, 2}, {})

RegisterAccountFaildACK == <<>>
RegisterAccountFaildACK_Merge == <<>>
RegisterAccountFaildACK_Write == Layout(<<>>, {}, {})

LoginResponse == [gate_ip |-> 1, gate_port |-> 2, user_account |-> 3, result |-> 4, chartype |-> 5]
LoginResponse_Merge == 10 :> One("string") @@ 16 :> One("uint32") @@ 24 :> One("uint32") @@
    32 :> One("enum") @@ 40 :> One("uint32")
LoginResponse_Write == Layout(<<Put(1, "string"), Put(2, "uint32"), Put(3, "uint32"), Put(4, "enum"),
    Put(5, "uint32")>>, {}, {})

LoginGame == [user_account |-> 1]
LoginGame_Merge == 8 :> One("uint32")
LoginGame_Write == Layout(<<Put(1, "uint32")>>, {1}, {})

ClientExit == [charid |-> 1, user_account |-> 2]
ClientExit_Merge == 8 :> One("uint32") @@ 16 :> One("uint64")
ClientExit_Write == Layout(<<Put(1, "uint32"), Put(2, "uint64")>>, {}, {})


(***************************************************************************)
(* common/message/msg_game_db.pb.h, msg_game_db.pb.cc                      *)
(***************************************************************************)
MsgReqHeroDataGS2DB == [account |-> 1]
MsgReqHeroDataGS2DB_Merge == 8 :> One("uint64")
MsgReqHeroDataGS2DB_Write == Layout(<<Put(1, "uint64")>>, {1}, {})

MsgHeroDataDB2GS == [account |-> 1, data |-> 2, equips |-> 3, toys |-> 4]
MsgHeroDataDB2GS_Merge == 8 :> One("uint64") @@ 18 :> One("MsgHeroData") @@ 26 :> Many("MsgEquipData") @@
    34 :> Many("MsgToyData")
MsgHeroDataDB2GS_Write == Layout(<<Put(1, "uint64"), Put(2, "MsgHeroData"), PutEach(3, "MsgEquipData"),
    PutEach(4, "MsgToyData")>>, {1, 2}, {2, 3, 4})

MsgNeedCreateHeroDB2GS == <<>>
MsgNeedCreateHeroDB2GS_Merge == <<>>
MsgNeedCreateHeroDB2GS_Write == Layout(<<>>, {}, {})

MsgSaveHeroDataGS2DB == [account |-> 1, data |-> 2]
MsgSaveHeroDataGS2DB_Merge == 8 :> One("uint64") @@ 18 :> One("MsgHeroData")
MsgSaveHeroDataGS2DB_Write == Layout(<<Put(1, "uint64"), Put(2, "MsgHeroData")>>, {1, 2}, {2})

MsgSaveDataGS2DB == [sql |-> 1]
MsgSaveDataGS2DB_Merge == 10 :> One("bytes")
MsgSaveDataGS2DB_Write == Layout(<<Put(1, "bytes")>>, {1}, {})

MsgSaveAllHeroesGS2DB == <<>>
MsgSaveAllHeroesGS2DB_Merge == <<>>
MsgSaveAllHeroesGS2DB_Write == Layout(<<>>, {}, {})

MsgSaveAllHeroesDB2GS == <<>>
MsgSaveAllHeroesDB2GS_Merge == <<>>
MsgSaveAllHeroesDB2GS_Write == Layout(<<>>, {}, {})

MsgVerifyToyGS2DB == [cdkey |-> 1, account |-> 2]
MsgVerifyToyGS2DB_Merge == 10 :> One("string") @@ 16 :> One("uint64")
MsgVerifyToyGS2DB_Write == Layout(<<Put(1, "string"), Put(2, "uint64")>>, {1, 2}, {})

MsgVerifyToyErrorDB2GS == [error |-> 1, cdkey |-> 2]
MsgVerifyToyErrorDB2GS_Merge == 8 :> One("enum") @@ 18 :> One("string")
MsgVerifyToyErrorDB2GS_Write == Layout(<<Put(1, "enum"), Put(2, "string")>>, {1, 2}, {})

MsgVerifyToyDB2GS == [toy |-> 1, account |-> 2]
MsgVerifyToyDB2GS_Merge == 10 :> One("MsgToyData") @@ 16 :> One("uint64")
MsgVerifyToyDB2GS_Write == Layout(<<Put(1, "MsgToyData"), Put(2, "uint64")>>, {1, 2}, {1})


(***************************************************************************)
(* common/message/msg_gate_game.pb.h, msg_gate_game.pb.cc                  *)
(***************************************************************************)
MsgGT2GSAddUser == [data |-> 1]
MsgGT2GSAddUser_Merge == 10 :> One("GTLGData")
MsgGT2GSAddUser_Write == Layout(<<Put(1, "GTLGData")>>, {1}, {1})

MsgGT2GSRemoveUser == [trans |-> 1]
MsgGT2GSRemoveUser_Merge == 8 :> One("uint32")
MsgGT2GSRemoveUser_Write == Layout(<<Put(1, "uint32")>>, {1}, {})

MsgGT2GSOfflineUser == [trans |-> 1]
MsgGT2GSOfflineUser_Merge == 8 :> One("uint32")
MsgGT2GSOfflineUser_Write == Layout(<<Put(1, "uint32")>>, {1}, {})

MsgGS2GTOnlines == [onlines |-> 1]
MsgGS2GTOnlines_Merge == 8 :> One("uint32")
MsgGS2GTOnlines_Write == Layout(<<Put(1, "uint32")>>, {1}, {})


(***************************************************************************)
(* common/message/msg_gate_login.pb.h, msg_gate_login.pb.cc                *)
(***************************************************************************)
GTLGData == [account |-> 1, transid |-> 2]
GTLGData_Merge == 8 :> One("uint64") @@ 16 :> One("uint32")
GTLGData_Write == Layout(<<Put(1, "uint64"), Put(2, "uint32")>>, {1, 2}, {})

MsgLN2GTUserLogin == [data |-> 1]
MsgLN2GTUserLogin_Merge == 10 :> One("GTLGData")
MsgLN2GTUserLogin_Write == Layout(<<Put(1, "GTLGData")>>, {1}, {1})

MsgLN2GTKickUser == [data |-> 1]
MsgLN2GTKickUser_Merge == 10 :> One("GTLGData")
MsgLN2GTKickUser_Write == Layout(<<Put(1, "GTLGData")>>, {1}, {1})

MsgGT2LNOnlines == [onlines |-> 1]
MsgGT2LNOnlines_Merge == 8 :> One("uint32")
MsgGT2LNOnlines_Write == Layout(<<Put(1, "uint32")>>, {1}, {})

MsgGT2LNPrepar == [account |-> 1]
MsgGT2LNPrepar_Merge == 8 :> One("uint64")
MsgGT2LNPrepar_Write == Layout(<<Put(1, "uint64")>>, {1}, {})

MsgGTRegisterLG == [gateinfo |-> 1, ip |-> 2, port |-> 3, accounts |-> 4]
MsgGTRegisterLG_Merge == 10 :> One("MsgServerRegister") @@ 18 :> One("string") @@ 24 :> One("uint32") @@
    34 :> Many("GTLGData")
MsgGTRegisterLG_Write == Layout(<<Put(1, "MsgServerRegister"), Put(2, "string"), Put(3, "uint32"),
    PutEach(4, "GTLGData")>>, {1, 2, 3}, {1, 4})


(***************************************************************************)
(* common/message/msgs2c.pb.h, msgs2c.pb.cc                                *)
(***************************************************************************)
MsgS2CCreatePlayerError == [result |-> 1]
MsgS2CCreatePlayerError_Merge == 8 :> One("enum")
MsgS2CCreatePlayerError_Write == Layout(<<Put(1, "enum")>>, {1}, {})


(***************************************************************************)
(* common/message/msgs2s.pb.h, msgs2s.pb.cc                                *)
(***************************************************************************)
ServerVersion == [major |-> 1, minor |-> 2, build |-> 3, appsvn |-> 4]
ServerVersion_Merge == 8 :> One("uint32") @@ 16 :> One("uint32") @@ 24 :> One("uint32") @@ 32 :> One("uint32")
ServerVersion_Write == Layout(<<Put(1, "uint32"), Put(2, "uint32"), Put(3, "uint32"),
    Put(4, "uint32")>>, {1, 2, 3, 4}, {})

MsgServerRegister == [serverid |-> 1, version |-> 2]
MsgServerRegister_Merge == 8 :> One("uint32") @@ 18 :> One("ServerVersion")
MsgServerRegister_Write == Layout(<<Put(1, "uint32"), Put(2, "ServerVersion")>>, {1, 2}, {2})

MsgDB2GTChangeGS == [gameserverid |-> 1]
MsgDB2GTChangeGS_Merge == 8 :> One("uint32")
MsgDB2GTChangeGS_Write == Layout(<<Put(1, "uint32")>>, {1}, {})

(***************************************************************************)
(* The classes, under the names parseProtocmessage looks them up by.       *)
(***************************************************************************)
Generated == [
    HoldBooth |-> <<HoldBooth, HoldBooth_Merge, HoldBooth_Write>>,
    BoothState |-> <<BoothState, BoothState_Merge, BoothState_Write>>,
    LeaveBooth |-> <<LeaveBooth, LeaveBooth_Merge, LeaveBooth_Write>>,
    GetBoothState |-> <<GetBoothState, GetBoothState_Merge, GetBoothState_Write>>,
    MsgSuitData |-> <<MsgSuitData, MsgSuitData_Merge, MsgSuitData_Write>>,
    MsgHeroData |-> <<MsgHeroData, MsgHeroData_Merge, MsgHeroData_Write>>,
    MsgEquipData |-> <<MsgEquipData, MsgEquipData_Merge, MsgEquipData_Write>>,
    MsgIntPair |-> <<MsgIntPair, MsgIntPair_Merge, MsgIntPair_Write>>,
    MsgToyBaseData |-> <<MsgToyBaseData, MsgToyBaseData_Merge, MsgToyBaseData_Write>>,
    MsgToyData |-> <<MsgToyData, MsgToyData_Merge, MsgToyData_Write>>,
    S2CMsgHeroInit |-> <<S2CMsgHeroInit, S2CMsgHeroInit_Merge, S2CMsgHeroInit_Write>>,
    S2CMsgHeroEquip |-> <<S2CMsgHeroEquip, S2CMsgHeroEquip_Merge, S2CMsgHeroEquip_Write>>,
    S2CMsgToyInit |-> <<S2CMsgToyInit, S2CMsgToyInit_Merge, S2CMsgToyInit_Write>>,
    S2CMsgEquipInit |-> <<S2CMsgEquipInit, S2CMsgEquipInit_Merge, S2CMsgEquipInit_Write>>,
    C2SModifySuitNameReq |-> <<C2SModifySuitNameReq, C2SModifySuitNameReq_Merge, C2SModifySuitNameReq_Write>>,
    S2CModifySuitNameACK |-> <<S2CModifySuitNameACK, S2CModifySuitNameACK_Merge, S2CModifySuitNameACK_Write>>,
    S2CModifySuitErrorACK |-> <<S2CModifySuitErrorACK, S2CModifySuitErrorACK_Merge, S2CModifySuitErrorACK_Write>>,
    C2SModifySuitReq |-> <<C2SModifySuitReq, C2SModifySuitReq_Merge, C2SModifySuitReq_Write>>,
    S2CModifySuitACK |-> <<S2CModifySuitACK, S2CModifySuitACK_Merge, S2CModifySuitACK_Write>>,
    C2SDelSuitReq |-> <<C2SDelSuitReq, C2SDelSuitReq_Merge, C2SDelSuitReq_Write>>,
    S2CDelSuitACK |-> <<S2CDelSuitACK, S2CDelSuitACK_Merge, S2CDelSuitACK_Write>>,
    C2SVerifyToyCDKeyReq |-> <<C2SVerifyToyCDKeyReq, C2SVerifyToyCDKeyReq_Merge, C2SVerifyToyCDKeyReq_Write>>,
    S2CVerifyToyCDKeyErrorACK |-> <<S2CVerifyToyCDKeyErrorACK, S2CVerifyToyCDKeyErrorACK_Merge, S2CVerifyToyCDKeyErrorACK_Write>>,
    S2CVerifyToyCDKeyACK |-> <<S2CVerifyToyCDKeyACK, S2CVerifyToyCDKeyACK_Merge, S2CVerifyToyCDKeyACK_Write>>,
    S2CEquipLevelUpReq |-> <<S2CEquipLevelUpReq, S2CEquipLevelUpReq_Merge, S2CEquipLevelUpReq_Write>>,
    S2CEquipLevelUpACK |-> <<S2CEquipLevelUpACK, S2CEquipLevelUpACK_Merge, S2CEquipLevelUpACK_Write>>,
    S2CEquipLevelUpErrorACK |-> <<S2CEquipLevelUpErrorACK, S2CEquipLevelUpErrorACK_Merge, S2CEquipLevelUpErrorACK_Write>>,
    LoginRequest |-> <<LoginRequest, LoginRequest_Merge, LoginRequest_Write>>,
    RegisterAccountRequest |-> <<RegisterAccountRequest, RegisterAccountRequest_Merge, RegisterAccountRequest_Write>>,
    RegisterAccountFaildACK |-> <<RegisterAccountFaildACK, RegisterAccountFaildACK_Merge, RegisterAccountFaildACK_Write>>,
    LoginResponse |-> <<LoginResponse, LoginResponse_Merge, LoginResponse_Write>>,
    LoginGame |-> <<LoginGame, LoginGame_Merge, LoginGame_Write>>,
    ClientExit |-> <<ClientExit, ClientExit_Merge, ClientExit_Write>>,
    MsgReqHeroDataGS2DB |-> <<MsgReqHeroDataGS2DB, MsgReqHeroDataGS2DB_Merge, MsgReqHeroDataGS2DB_Write>>,
    MsgHeroDataDB2GS |-> <<MsgHeroDataDB2GS, MsgHeroDataDB2GS_Merge, MsgHeroDataDB2GS_Write>>,
    MsgNeedCreateHeroDB2GS |-> <<MsgNeedCreateHeroDB2GS, MsgNeedCreateHeroDB2GS_Merge, MsgNeedCreateHeroDB2GS_Write>>,
    MsgSaveHeroDataGS2DB |-> <<MsgSaveHeroDataGS2DB, MsgSaveHeroDataGS2DB_Merge, MsgSaveHeroDataGS2DB_Write>>,
    MsgSaveDataGS2DB |-> <<MsgSaveDataGS2DB, MsgSaveDataGS2DB_Merge, MsgSaveDataGS2DB_Write>>,
    MsgSaveAllHeroesGS2DB |-> <<MsgSaveAllHeroesGS2DB, MsgSaveAllHeroesGS2DB_Merge, MsgSaveAllHeroesGS2DB_Write>>,
    MsgSaveAllHeroesDB2GS |-> <<MsgSaveAllHeroesDB2GS, MsgSaveAllHeroesDB2GS_Merge, MsgSaveAllHeroesDB2GS_Write>>,
    MsgVerifyToyGS2DB |-> <<MsgVerifyToyGS2DB, MsgVerifyToyGS2DB_Merge, MsgVerifyToyGS2DB_Write>>,
    MsgVerifyToyErrorDB2GS |-> <<MsgVerifyToyErrorDB2GS, MsgVerifyToyErrorDB2GS_Merge, MsgVerifyToyErrorDB2GS_Write>>,
    MsgVerifyToyDB2GS |-> <<MsgVerifyToyDB2GS, MsgVerifyToyDB2GS_Merge, MsgVerifyToyDB2GS_Write>>,
    MsgGT2GSAddUser |-> <<MsgGT2GSAddUser, MsgGT2GSAddUser_Merge, MsgGT2GSAddUser_Write>>,
    MsgGT2GSRemoveUser |-> <<MsgGT2GSRemoveUser, MsgGT2GSRemoveUser_Merge, MsgGT2GSRemoveUser_Write>>,
    MsgGT2GSOfflineUser |-> <<MsgGT2GSOfflineUser, MsgGT2GSOfflineUser_Merge, MsgGT2GSOfflineUser_Write>>,
    MsgGS2GTOnlines |-> <<MsgGS2GTOnlines, MsgGS2GTOnlines_Merge, MsgGS2GTOnlines_Write>>,
    GTLGData |-> <<GTLGData, GTLGData_Merge, GTLGData_Write>>,
    MsgLN2GTUserLogin |-> <<MsgLN2GTUserLogin, MsgLN2GTUserLogin_Merge, MsgLN2GTUserLogin_Write>>,
    MsgLN2GTKickUser |-> <<MsgLN2GTKickUser, MsgLN2GTKickUser_Merge, MsgLN2GTKickUser_Write>>,
    MsgGT2LNOnlines |-> <<MsgGT2LNOnlines, MsgGT2LNOnlines_Merge, MsgGT2LNOnlines_Write>>,
    MsgGT2LNPrepar |-> <<MsgGT2LNPrepar, MsgGT2LNPrepar_Merge, MsgGT2LNPrepar_Write>>,
    MsgGTRegisterLG |-> <<MsgGTRegisterLG, MsgGTRegisterLG_Merge, MsgGTRegisterLG_Write>>,
    MsgS2CCreatePlayerError |-> <<MsgS2CCreatePlayerError, MsgS2CCreatePlayerError_Merge, MsgS2CCreatePlayerError_Write>>,
    ServerVersion |-> <<ServerVersion, ServerVersion_Merge, ServerVersion_Write>>,
    MsgServerRegister |-> <<MsgServerRegister, MsgServerRegister_Merge, MsgServerRegister_Write>>,
    MsgDB2GTChangeGS |-> <<MsgDB2GTChangeGS, MsgDB2GTChangeGS_Merge, MsgDB2GTChangeGS_Write>>]

Classes == DOMAIN Generated

Header(c) == Generated[c][1]
Merge(c)  == Generated[c][2]
Write(c)  == Generated[c][3]

=============================================================================
