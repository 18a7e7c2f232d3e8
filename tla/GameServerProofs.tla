-------------------------- MODULE GameServerProofs --------------------------
(***************************************************************************)
(* The safety of the game server and the database server behind it, for    *)
(* any number of accounts, logins, gates, failed statements, broken links, *)
(* crashes and restarts.                                                   *)
(*                                                                         *)
(* The sessions: an account that never had two sessions at once has one    *)
(* that its hero points to (OneSession, HeroLoaded).  The versions: what   *)
(* is stored of an account, what the worker has queued, what is on the     *)
(* link and what is in memory ascend in this order (Ascends, Below).  The  *)
(* suits: one version is one hero wherever it is, in a load on its way too,*)
(* but for the equip ids that a load loses (Known, Agree).  The stop: the  *)
(* announcement that all heroes were saved comes behind them on the link,  *)
(* so that the answer to it says that they were queued (Comes, Kept).      *)
(***************************************************************************)
EXTENDS GameServer, FiniteSetTheorems, SequenceTheorems, TLAPS

(* A session that has its hero has one in memory.                          *)
HeroLoaded ==
    \A t \in Tickets : m_Onlines[t] # None /\ m_Onlines[t].hero => _heros[AccountOf[t]] # None

(* Two sessions of one account are remembered.                             *)
OneSession ==
    \A t, u \in Tickets :
        m_Onlines[t] # None /\ m_Onlines[u] # None /\ AccountOf[t] = AccountOf[u] =>
            t = u \/ AccountOf[t] \in doubled

(* A link that is down carries nothing, one whose game server is gone      *)
(* brings nothing back.                                                    *)
LinkEnds ==
    /\ link = "up" => Running
    /\ link # "up" => fromDB = <<>>
    /\ link = "down" => toDB = <<>>

(* m is a save of account a.                                               *)
IsSave(m, a) == m.type = "SaveData" /\ m.account = a

(* The versions of a in two queues, the second behind the first, ascend    *)
(* from c on.                                                              *)
Ascends(c, s, q, a) ==
    /\ \A i \in 1 .. Len(s) : IsSave(s[i], a) => c <= s[i].ver
    /\ \A i \in 1 .. Len(q) : IsSave(q[i], a) => c <= q[i].ver
    /\ \A i, j \in 1 .. Len(s) : i < j /\ IsSave(s[i], a) /\ IsSave(s[j], a) => s[i].ver <= s[j].ver
    /\ \A i, j \in 1 .. Len(q) : i < j /\ IsSave(q[i], a) /\ IsSave(q[j], a) => q[i].ver <= q[j].ver
    /\ \A i \in 1 .. Len(s), j \in 1 .. Len(q) :
          IsSave(s[i], a) /\ IsSave(q[j], a) => s[i].ver <= q[j].ver

(* h is above them all.                                                    *)
Below(h, c, s, q, a) ==
    /\ c <= h
    /\ \A i \in 1 .. Len(s) : IsSave(s[i], a) => s[i].ver <= h
    /\ \A i \in 1 .. Len(q) : IsSave(q[i], a) => q[i].ver <= h

(* What is stored, queued, sent and in memory of an account ascends.       *)
VersionsAscend ==
    \A a \in Accounts \ misread :
        /\ Ascends(character[a], saves, toDB, a)
        /\ _heros[a] # None => Below(_heros[a].ver, character[a], saves, toDB, a)

(* The elements of a queue.                                                *)
Elems(q) == {q[i] : i \in 1 .. Len(q)}

(* Where version v of the hero of a may be, with suits s: in its row, in a *)
(* save on its way, in a load on its way, in an answer, and in memory.     *)
Stored(v, s, a) == character[a] = v /\ suits_name[a] = s

Saving(v, s, a) ==
    \E m \in Elems(saves) \cup Elems(toDB) : IsSave(m, a) /\ m.ver = v /\ m.suits = s

Loading(v, s, a) ==
    \E m \in Elems(loads) :
        m.stage # "hero" /\ AccountOf[m.ticket] = a /\ m.ver = v /\ m.suits = s

Sent(v, s, a) ==
    \E m \in Elems(fromDB) :
        m.type = "HeroData" /\ AccountOf[m.ticket] = a /\ m.ver = v /\ m.suits = s

Held(v, s, a) == _heros[a] # None /\ _heros[a].ver = v /\ _heros[a].suits = s

Known(v, s, a) ==
    Stored(v, s, a) \/ Saving(v, s, a) \/ Loading(v, s, a) \/ Sent(v, s, a) \/ Held(v, s, a)

(* What is loaded is not newer than the row.                               *)
LoadedBelow ==
    \A a \in Accounts \ misread : \A v \in 0 .. MaxVersion, s \in Suits :
        Loading(v, s, a) \/ Sent(v, s, a) => v <= character[a]

(* The first version names no equipment.                                   *)
FirstBare == \A a \in Accounts, s \in Suits : Known(FromConfig, s, a) => s = "bare"

(* One version is one hero wherever it is, but for equip ids that a load   *)
(* has lost.                                                               *)
Agree ==
    \A a \in Accounts \ misread : \A v \in 0 .. MaxVersion, s, u \in Suits :
        Known(v, s, a) /\ Known(v, u, a) => ReadBack(s) = ReadBack(u)

SuitsInv == LoadedBelow /\ FirstBare /\ Agree

(* Every save of a in q is as new as v.                                    *)
Newer(v, q, a) == \A i \in 1 .. Len(q) : IsSave(q[i], a) => v <= q[i].ver

(* The last of c and the saves of a in s is as new as v: once all of them  *)
(* have run, so is the row.                                                *)
Kept(v, c, s, a) ==
    \/ v <= c /\ Newer(v, s, a)
    \/ \E i \in 1 .. Len(s) :
          /\ IsSave(s[i], a) /\ v <= s[i].ver
          /\ \A j \in i .. Len(s) : IsSave(s[j], a) => v <= s[j].ver

(* A save of a as new as v is in q before position n, and none that is     *)
(* older comes behind it.                                                  *)
Comes(v, q, n, a) ==
    \E i \in 1 .. n - 1 :
        /\ i \in 1 .. Len(q) /\ IsSave(q[i], a) /\ v <= q[i].ver
        /\ \A j \in i .. Len(q) : IsSave(q[j], a) => v <= q[j].ver

(* The hero of a, as it was at the stop, is with the database server.      *)
Safe(a) ==
    /\ Kept(atStop[a].ver, character[a], saves, a)
    /\ Newer(atStop[a].ver, toDB, a)

Has(q, type) == \E i \in 1 .. Len(q) : q[i].type = type

(* Nothing of a stop is left of an earlier life of the game server.        *)
NotStopping ==
    /\ game \in {"run", "crashed"} => \A a \in Accounts : atStop[a] = None
    /\ game = "run" => /\ ~_save_all_heroes_ok
                       /\ ~Has(toDB, "SaveAllHeroes") /\ ~Has(fromDB, "SaveAllHeroes")

(* The heroes in memory are at least what they were when the stop began.   *)
StillInMemory ==
    \A a \in Accounts : atStop[a] # None => _heros[a] # None /\ atStop[a].ver <= _heros[a].ver

(* The database server stops only after it was told to.                    *)
StopsWhenTold == ~_receive_cose_msg => db = "run"

(* The announcement comes behind the heroes it is about.                   *)
Announces ==
    \A a \in Accounts, n \in 1 .. Len(toDB) :
        /\ toDB[n].type = "SaveAllHeroes" /\ ~_receive_cose_msg
        /\ atStop[a] # None /\ errors = 0
        => Comes(atStop[a].ver, toDB, n, a) \/ Safe(a)

(* The answer comes when they are with the database server.                *)
AnsweredSafe ==
    \/ Has(fromDB, "SaveAllHeroes") \/ _save_all_heroes_ok \/ game = "stopped"
    => \A a \in Accounts : atStop[a] # None /\ errors = 0 => Safe(a)

SessionInv == HeroLoaded /\ OneSession /\ SessionOfHero
StopInv == NotStopping /\ StillInMemory /\ StopsWhenTold /\ Announces /\ AnsweredSafe

IInv == TypeOK /\ LinkEnds /\ SessionInv /\ VersionsAscend /\ SuitsInv /\ StopInv

-----------------------------------------------------------------------------
(* Queues.                                                                 *)

(* What is behind a queue after something was put behind it.               *)
LEMMA Behind ==
    ASSUME NEW S, NEW q \in Seq(S), NEW r \in Seq(S)
    PROVE  /\ q \o r \in Seq(S) /\ Len(q) \in Nat /\ Len(r) \in Nat
           /\ Len(q \o r) = Len(q) + Len(r)
           /\ \A i \in 1 .. Len(q) : i \in 1 .. Len(q \o r) /\ (q \o r)[i] = q[i]
           /\ \A i \in 1 .. Len(r) : Len(q) + i \in 1 .. Len(q \o r) /\ (q \o r)[Len(q) + i] = r[i]
           /\ \A i \in 1 .. Len(q \o r) :
                 \/ i \in 1 .. Len(q)
                 \/ \E j \in 1 .. Len(r) : i = Len(q) + j
<1>1. /\ q \o r \in Seq(S) /\ Len(q) \in Nat /\ Len(r) \in Nat
      /\ Len(q \o r) = Len(q) + Len(r)
      /\ \A i \in 1 .. Len(q) + Len(r) : (q \o r)[i] =
              IF i <= Len(q) THEN q[i] ELSE r[i - Len(q)]
  BY ConcatProperties, LenProperties
<1>2. \A m, n \in Nat :
        /\ \A i \in 1 .. m : i \in 1 .. m + n /\ i <= m
        /\ \A i \in 1 .. n : m + i \in 1 .. m + n /\ ~(m + i <= m) /\ (m + i) - m = i
        /\ \A i \in 1 .. m + n : i \in 1 .. m \/ (i - m \in 1 .. n /\ i = m + (i - m))
  OBVIOUS
<1>3. \A i \in 1 .. Len(q) + Len(r) : i \in 1 .. Len(q) \/ \E j \in 1 .. Len(r) : i = Len(q) + j
  BY ONLY <1>1, <1>2
<1>4. /\ \A i \in 1 .. Len(q) : i \in 1 .. Len(q \o r) /\ (q \o r)[i] = q[i]
      /\ \A i \in 1 .. Len(r) : Len(q) + i \in 1 .. Len(q \o r) /\ (q \o r)[Len(q) + i] = r[i]
  BY ONLY <1>1, <1>2
<1> QED  BY ONLY <1>1, <1>3, <1>4

(* A queue and what is left of it without its first element.               *)
LEMMA Rest ==
    ASSUME NEW S, NEW q \in Seq(S), q # <<>>
    PROVE  /\ Head(q) \in S /\ Head(q) = q[1] /\ Tail(q) \in Seq(S)
           /\ Len(q) \in Nat \ {0} /\ 1 \in 1 .. Len(q) /\ Len(Tail(q)) = Len(q) - 1
           /\ \A i \in 1 .. Len(Tail(q)) : i + 1 \in 1 .. Len(q) /\ Tail(q)[i] = q[i + 1]
           /\ \A i \in 1 .. Len(q) : i = 1 \/ \E j \in 1 .. Len(Tail(q)) : i = j + 1
<1>1. /\ Head(q) \in S /\ Head(q) = q[1] /\ Tail(q) \in Seq(S)
      /\ Len(q) \in Nat \ {0} /\ Len(Tail(q)) = Len(q) - 1
      /\ \A i \in 1 .. Len(Tail(q)) : Tail(q)[i] = q[i + 1]
  BY HeadTailProperties, LenProperties, EmptySeq
<1>2. \A n \in Nat \ {0} :
        /\ 1 \in 1 .. n
        /\ \A i \in 1 .. n - 1 : i + 1 \in 1 .. n
        /\ \A i \in 1 .. n : i = 1 \/ (i - 1 \in 1 .. n - 1 /\ i = (i - 1) + 1)
  OBVIOUS
<1>3. \A i \in 1 .. Len(q) : i = 1 \/ \E j \in 1 .. Len(Tail(q)) : i = j + 1
  BY ONLY <1>1, <1>2
<1> QED  BY ONLY <1>1, <1>2, <1>3

(* The elements of a queue that something was put behind.                  *)
LEMMA ElemsBehind ==
    ASSUME NEW S, NEW q \in Seq(S), NEW r \in Seq(S)
    PROVE  Elems(q \o r) = Elems(q) \cup Elems(r)
<1>1. /\ \A i \in 1 .. Len(q) : i \in 1 .. Len(q \o r) /\ (q \o r)[i] = q[i]
      /\ \A i \in 1 .. Len(r) : Len(q) + i \in 1 .. Len(q \o r) /\ (q \o r)[Len(q) + i] = r[i]
      /\ \A i \in 1 .. Len(q \o r) : i \in 1 .. Len(q) \/ \E j \in 1 .. Len(r) : i = Len(q) + j
  BY Behind, SMTT(20)
<1>2. ASSUME NEW m \in Elems(q) PROVE m \in Elems(q \o r)
  BY <1>1 DEF Elems
<1>3. ASSUME NEW m \in Elems(r) PROVE m \in Elems(q \o r)
  BY <1>1 DEF Elems
<1>4. ASSUME NEW m \in Elems(q \o r) PROVE m \in Elems(q) \cup Elems(r)
  <2>1. PICK i \in 1 .. Len(q \o r) : m = (q \o r)[i]
    BY DEF Elems
  <2>2. CASE i \in 1 .. Len(q)
    BY <1>1, <2>1, <2>2 DEF Elems
  <2>3. ASSUME NEW j \in 1 .. Len(r), i = Len(q) + j PROVE m \in Elems(r)
    BY <1>1, <2>1, <2>3 DEF Elems
  <2> QED  BY <1>1, <2>2, <2>3
<1> QED  BY ONLY <1>2, <1>3, <1>4

(* Those of a queue without its first element, and of short queues.        *)
LEMMA ElemsRest ==
    ASSUME NEW S, NEW q \in Seq(S), q # <<>>
    PROVE  Head(q) \in Elems(q) /\ Elems(Tail(q)) \subseteq Elems(q)
<1>1. /\ Head(q) = q[1] /\ 1 \in 1 .. Len(q)
      /\ \A i \in 1 .. Len(Tail(q)) : i + 1 \in 1 .. Len(q) /\ Tail(q)[i] = q[i + 1]
  BY Rest
<1> QED  BY <1>1 DEF Elems

(* A queue has the elements of its type, an empty one has none, and one of *)
(* one element has that one.                                               *)
LEMMA ElemsShort ==
    /\ Elems(<<>>) = {}
    /\ \A m : Elems(<<m>>) = {m}
    /\ \A S : \A q \in Seq(S) : Elems(q) \subseteq S /\ \A m \in S : <<m>> \in Seq(S)
    /\ \A S : \A q \in Seq(S) : \A m \in S : Append(q, m) = q \o <<m>>
<1>1. Elems(<<>>) = {}
  <2>1. Len(<<>>) = 0 /\ \A i : i \notin 1 .. 0
    BY EmptySeq
  <2> QED  BY <2>1 DEF Elems
<1>2. \A m : Elems(<<m>>) = {m}
  <2>1. \A m : Len(<<m>>) = 1 /\ <<m>>[1] = m
    OBVIOUS
  <2>2. 1 .. 1 = {1}
    OBVIOUS
  <2> QED  BY <2>1, <2>2 DEF Elems
<1>3. \A S : \A q \in Seq(S) : Elems(q) \subseteq S
  BY ElementOfSeq DEF Elems
<1>4. \A S : \A q \in Seq(S) : \A m \in S : <<m>> \in Seq(S) /\ Append(q, m) = q \o <<m>>
  BY AppendIsConcat
<1> QED  BY <1>1, <1>2, <1>3, <1>4

(* Those of a queue that got one element more.                             *)
LEMMA ElemsAppend ==
    ASSUME NEW S, NEW q \in Seq(S), NEW m \in S
    PROVE  Elems(Append(q, m)) = Elems(q) \cup {m}
<1>1. <<m>> \in Seq(S) /\ Append(q, m) = q \o <<m>> /\ Elems(<<m>>) = {m}
  BY ElemsShort
<1> DEFINE r == <<m>>
<1>2. r \in Seq(S) /\ Append(q, m) = q \o r /\ Elems(r) = {m}
  BY <1>1
<1> HIDE DEF r
<1>3. Elems(q \o r) = Elems(q) \cup Elems(r)
  BY ONLY <1>2, q \in Seq(S), ElemsBehind, SMT
<1> QED  BY <1>2, <1>3

(* The fields of the messages and tasks.                                   *)
LEMMA Fields ==
    /\ \A m \in ToDBMessage :
         /\ m.type \in {"ReqHeroData", "SaveData", "SaveAllHeroes", "ServerRegister"}
         /\ m.type = "ReqHeroData" => m.ticket \in Tickets
         /\ m.type = "SaveData" =>
              m.account \in Accounts /\ m.ver \in 1 .. MaxVersion /\ m.suits \in Suits /\ m \in SaveTask
    /\ \A t \in Tickets : ReqHeroData(t) \in ToDBMessage
    /\ \A a \in Accounts, v \in 1 .. MaxVersion, s \in Suits :
         SaveData(a, v, s) \in SaveTask /\ SaveData(a, v, s) \in ToDBMessage
    /\ SaveAllHeroes \in ToDBMessage /\ ServerRegister \in ToDBMessage
    /\ SaveTask \subseteq ToDBMessage
    /\ \A m \in SaveTask :
         m.type = "SaveData" /\ m.account \in Accounts /\ m.ver \in 1 .. MaxVersion /\ m.suits \in Suits
BY DEF ToDBMessage, SaveTask, ReqHeroData, SaveData, SaveAllHeroes, ServerRegister

(* What the database server sends.                                         *)
LEMMA AnswerFields ==
    /\ \A m \in FromDBMessage :
         /\ m.type \in {"HeroData", "NeedCreateHero", "SaveAllHeroes"}
         /\ m.type = "HeroData" => m.ticket \in Tickets /\ m.ver \in 1 .. MaxVersion /\ m.suits \in Suits
         /\ m.type = "NeedCreateHero" => m.ticket \in Tickets
    /\ \A t \in Tickets : NeedCreateHero(t) \in FromDBMessage
    /\ \A t \in Tickets, v \in 1 .. MaxVersion, s \in Suits : HeroData(t, v, s) \in FromDBMessage
    /\ SaveAllHeroes \in FromDBMessage
BY DEF FromDBMessage, NeedCreateHero, HeroData, SaveAllHeroes

(* What a load task carries.                                               *)
LEMMA LoadFields ==
    /\ \A m \in LoadTask :
         /\ m.ticket \in Tickets /\ m.stage \in {"hero", "equips", "toys"}
         /\ m.stage # "hero" => m.ver \in 1 .. MaxVersion /\ m.suits \in Suits
         /\ m.stage = "equips" => [m EXCEPT !.stage = "toys"] \in LoadTask
    /\ \A t \in Tickets : HeroTask(t, "hero", NoRow, "bare") \in LoadTask
    /\ \A t \in Tickets, v \in 1 .. MaxVersion, s \in Suits : HeroTask(t, "equips", v, s) \in LoadTask
BY DEF LoadTask, HeroTask, NoRow

-----------------------------------------------------------------------------
(* Versions.                                                               *)

(* What is sent last is as new as what is in memory.                       *)
LEMMA AscendsSent ==
    ASSUME NEW c, NEW h \in Nat, NEW s \in Seq(SaveTask), NEW q \in Seq(ToDBMessage),
           NEW r \in Seq(ToDBMessage), NEW a, Ascends(c, s, q, a),
           \A i \in 1 .. Len(r) : IsSave(r[i], a) => r[i].ver = h /\ Below(h, c, s, q, a)
    PROVE  /\ Ascends(c, s, q \o r, a)
           /\ Below(h, c, s, q, a) => Below(h, c, s, q \o r, a)
<1>1. /\ Len(q) \in Nat /\ Len(r) \in Nat
      /\ \A i \in 1 .. Len(q) : i \in 1 .. Len(q \o r) /\ (q \o r)[i] = q[i]
      /\ \A i \in 1 .. Len(r) : Len(q) + i \in 1 .. Len(q \o r) /\ (q \o r)[Len(q) + i] = r[i]
      /\ \A i \in 1 .. Len(q \o r) : i \in 1 .. Len(q) \/ \E j \in 1 .. Len(r) : i = Len(q) + j
  BY Behind, SMTT(20)
<1>2. ASSUME NEW i \in 1 .. Len(q \o r), IsSave((q \o r)[i], a)
      PROVE  \/ i \in 1 .. Len(q) /\ (q \o r)[i] = q[i]
             \/ Below(h, c, s, q, a) /\ (q \o r)[i].ver = h
  <2>1. CASE i \in 1 .. Len(q)
    BY ONLY <1>1, <2>1
  <2>2. ASSUME NEW j \in 1 .. Len(r), i = Len(q) + j
        PROVE  Below(h, c, s, q, a) /\ (q \o r)[i].ver = h
    <3>1. (q \o r)[i] = r[j]
      BY ONLY <1>1, <2>2
    <3> QED  BY <1>2, <3>1
  <2> QED  BY ONLY <1>1, <2>1, <2>2, i \in 1 .. Len(q \o r)
<1>3. \A i, j \in 1 .. Len(q \o r) : i < j /\ j \in 1 .. Len(q) => i \in 1 .. Len(q)
  BY ONLY <1>1
<1>4. ASSUME NEW i \in 1 .. Len(q \o r), IsSave((q \o r)[i], a)
      PROVE  c <= (q \o r)[i].ver
  BY <1>2, <1>4 DEF Ascends, Below
<1>5. ASSUME NEW i \in 1 .. Len(q \o r), NEW j \in 1 .. Len(q \o r), i < j,
             IsSave((q \o r)[i], a), IsSave((q \o r)[j], a)
      PROVE  (q \o r)[i].ver <= (q \o r)[j].ver
  <2>1. CASE Below(h, c, s, q, a) /\ (q \o r)[j].ver = h
    <3>1. CASE i \in 1 .. Len(q) /\ (q \o r)[i] = q[i]
      BY <1>5, <2>1, <3>1 DEF Below
    <3>2. CASE (q \o r)[i].ver = h
      BY <2>1, <3>2
    <3> QED  BY <1>2, <1>5, <3>1, <3>2
  <2>2. CASE j \in 1 .. Len(q) /\ (q \o r)[j] = q[j]
    <3>1. i \in 1 .. Len(q) /\ (q \o r)[i] = q[i]
      <4>1. i \in 1 .. Len(q)
        BY ONLY <1>3, <1>5, <2>2
      <4> QED  BY ONLY <1>1, <4>1
    <3> QED  BY <1>5, <2>2, <3>1 DEF Ascends
  <2> QED  BY <1>2, <1>5, <2>1, <2>2
<1>6. ASSUME NEW i \in 1 .. Len(s), NEW j \in 1 .. Len(q \o r),
             IsSave(s[i], a), IsSave((q \o r)[j], a)
      PROVE  s[i].ver <= (q \o r)[j].ver
  BY <1>2, <1>6 DEF Ascends, Below
<1>7. Ascends(c, s, q \o r, a)
  BY <1>4, <1>5, <1>6 DEF Ascends
<1>8. ASSUME Below(h, c, s, q, a), NEW i \in 1 .. Len(q \o r), IsSave((q \o r)[i], a)
      PROVE  (q \o r)[i].ver <= h
  BY <1>2, <1>8 DEF Below
<1> QED  BY <1>7, <1>8 DEF Below

(* The database server takes the first message, and queues it if it is a   *)
(* save and no stop is under way.                                          *)
LEMMA AscendsHeard ==
    ASSUME NEW c, NEW s \in Seq(SaveTask), NEW q \in Seq(ToDBMessage), q # <<>>,
           NEW a, Ascends(c, s, q, a)
    PROVE  /\ Ascends(c, s, Tail(q), a)
           /\ \A h : Below(h, c, s, q, a) => Below(h, c, s, Tail(q), a)
           /\ Head(q) \in SaveTask =>
                /\ Ascends(c, Append(s, Head(q)), Tail(q), a)
                /\ \A h : Below(h, c, s, q, a) => Below(h, c, Append(s, Head(q)), Tail(q), a)
<1>1. /\ Head(q) = q[1] /\ 1 \in 1 .. Len(q) /\ Len(q) \in Nat
      /\ \A i \in 1 .. Len(Tail(q)) : i + 1 \in 1 .. Len(q) /\ Tail(q)[i] = q[i + 1]
      /\ \A i \in 1 .. Len(Tail(q)) : 1 < i + 1
      /\ \A i, j \in 1 .. Len(Tail(q)) : i < j => i + 1 < j + 1
  BY Rest
<1>2. Ascends(c, s, Tail(q), a) /\ \A h : Below(h, c, s, q, a) => Below(h, c, s, Tail(q), a)
  BY <1>1 DEF Ascends, Below
<1>3. ASSUME Head(q) \in SaveTask
      PROVE  /\ Ascends(c, Append(s, Head(q)), Tail(q), a)
             /\ \A h : Below(h, c, s, q, a) => Below(h, c, Append(s, Head(q)), Tail(q), a)
  <2> DEFINE u == Append(s, Head(q))
  <2>1. /\ Len(u) = Len(s) + 1 /\ Len(s) \in Nat /\ u[Len(s) + 1] = q[1]
        /\ \A i \in 1 .. Len(s) : u[i] = s[i]
    BY <1>1, <1>3, AppendProperties, LenProperties
  <2>2. \A n \in Nat : \A i \in 1 .. n + 1 : i \in 1 .. n \/ i = n + 1
    OBVIOUS
  <2>3. \A i \in 1 .. Len(u) : (i \in 1 .. Len(s) /\ u[i] = s[i]) \/ (i = Len(s) + 1 /\ u[i] = q[1])
    BY ONLY <2>1, <2>2
  <2>4. \A i, j \in 1 .. Len(u) : i < j => i \in 1 .. Len(s)
    <3>1. \A n \in Nat : \A i, j \in 1 .. n + 1 : i < j => i \in 1 .. n
      OBVIOUS
    <3> QED  BY ONLY <2>1, <3>1
  <2> HIDE DEF u
  <2>5. \A i \in 1 .. Len(u) : IsSave(u[i], a) => c <= u[i].ver
    BY <1>1, <2>3 DEF Ascends
  <2>6. ASSUME NEW i \in 1 .. Len(u), NEW j \in 1 .. Len(u), i < j, IsSave(u[i], a), IsSave(u[j], a)
        PROVE  u[i].ver <= u[j].ver
    <3>1. i \in 1 .. Len(s) /\ u[i] = s[i]
      BY ONLY <2>3, <2>4, <2>6, <2>1
    <3>2. CASE j \in 1 .. Len(s) /\ u[j] = s[j]
      BY <2>6, <3>1, <3>2 DEF Ascends
    <3>3. CASE u[j] = q[1]
      BY <1>1, <2>6, <3>1, <3>3 DEF Ascends
    <3> QED  BY <2>3, <3>2, <3>3
  <2>7. ASSUME NEW i \in 1 .. Len(u), NEW j \in 1 .. Len(Tail(q)), IsSave(u[i], a), IsSave(Tail(q)[j], a)
        PROVE  u[i].ver <= Tail(q)[j].ver
    <3>1. CASE i \in 1 .. Len(s) /\ u[i] = s[i]
      BY <1>1, <2>7, <3>1 DEF Ascends
    <3>2. CASE u[i] = q[1]
      BY <1>1, <2>7, <3>2 DEF Ascends
    <3> QED  BY <2>3, <3>1, <3>2
  <2>8. Ascends(c, u, Tail(q), a)
    BY <1>2, <2>5, <2>6, <2>7 DEF Ascends
  <2>9. ASSUME NEW h, Below(h, c, s, q, a) PROVE Below(h, c, u, Tail(q), a)
    BY <1>1, <1>2, <2>3, <2>9 DEF Below
  <2> QED  BY <2>8, <2>9 DEF u
<1> QED  BY <1>2, <1>3

(* The worker executes the first save, or it fails.                        *)
LEMMA AscendsStored ==
    ASSUME NEW c, NEW s \in Seq(SaveTask), s # <<>>, NEW q, NEW a, Ascends(c, s, q, a)
    PROVE  /\ Ascends(c, Tail(s), q, a)
           /\ \A h : Below(h, c, s, q, a) => Below(h, c, Tail(s), q, a)
           /\ Head(s).account = a =>
                /\ c <= Head(s).ver
                /\ Ascends(Head(s).ver, Tail(s), q, a)
                /\ \A h : Below(h, c, s, q, a) => Below(h, Head(s).ver, Tail(s), q, a)
<1>1. /\ Head(s) = s[1] /\ Head(s) \in SaveTask /\ 1 \in 1 .. Len(s) /\ Len(s) \in Nat
      /\ \A i \in 1 .. Len(Tail(s)) : i + 1 \in 1 .. Len(s) /\ Tail(s)[i] = s[i + 1]
      /\ \A i \in 1 .. Len(Tail(s)) : 1 < i + 1
      /\ \A i, j \in 1 .. Len(Tail(s)) : i < j => i + 1 < j + 1
  BY Rest
<1>2. Ascends(c, Tail(s), q, a) /\ \A h : Below(h, c, s, q, a) => Below(h, c, Tail(s), q, a)
  BY <1>1 DEF Ascends, Below
<1>3. ASSUME Head(s).account = a
      PROVE  /\ c <= Head(s).ver
             /\ Ascends(Head(s).ver, Tail(s), q, a)
             /\ \A h : Below(h, c, s, q, a) => Below(h, Head(s).ver, Tail(s), q, a)
  <2>1. IsSave(s[1], a)
    BY <1>1, <1>3, Fields DEF IsSave
  <2> QED  BY <1>1, <1>2, <2>1 DEF Ascends, Below
<1> QED  BY <1>2, <1>3

(* The link breaks.                                                        *)
LEMMA AscendsLost ==
    ASSUME NEW c, NEW s, NEW q, NEW a, Ascends(c, s, q, a)
    PROVE  /\ Ascends(c, s, <<>>, a)
           /\ \A h : Below(h, c, s, q, a) => Below(h, c, s, <<>>, a)
<1>1. Len(<<>>) = 0
  BY EmptySeq
<1>2. \A i : i \notin 1 .. 0
  OBVIOUS
<1> QED  BY <1>1, <1>2 DEF Ascends, Below

-----------------------------------------------------------------------------
(* The saves of a stop.                                                    *)

(* Saves that are as new as v may be put behind.                           *)
LEMMA NewerSent ==
    ASSUME NEW v, NEW q \in Seq(ToDBMessage), NEW r \in Seq(ToDBMessage), NEW a, Newer(v, r, a)
    PROVE  /\ Newer(v, q, a) => Newer(v, q \o r, a)
           /\ \A n \in Nat : Comes(v, q, n, a) => Comes(v, q \o r, n, a)
<1>1. /\ Len(q) \in Nat /\ Len(r) \in Nat
      /\ \A i \in 1 .. Len(q) : i \in 1 .. Len(q \o r) /\ (q \o r)[i] = q[i]
      /\ \A i \in 1 .. Len(r) : Len(q) + i \in 1 .. Len(q \o r) /\ (q \o r)[Len(q) + i] = r[i]
      /\ \A i \in 1 .. Len(q \o r) : i \in 1 .. Len(q) \/ \E j \in 1 .. Len(r) : i = Len(q) + j
      /\ Len(q \o r) = Len(q) + Len(r)
  BY Behind, SMTT(20)
<1>2. ASSUME NEW i \in 1 .. Len(q \o r), i \notin 1 .. Len(q), IsSave((q \o r)[i], a)
      PROVE  v <= (q \o r)[i].ver
  BY <1>1, <1>2 DEF Newer
<1>3. Newer(v, q, a) => Newer(v, q \o r, a)
  BY <1>1, <1>2 DEF Newer
<1>4. ASSUME NEW n \in Nat, Comes(v, q, n, a) PROVE Comes(v, q \o r, n, a)
  <2>1. PICK i \in 1 .. n - 1 :
           /\ i \in 1 .. Len(q) /\ IsSave(q[i], a) /\ v <= q[i].ver
           /\ \A j \in i .. Len(q) : IsSave(q[j], a) => v <= q[j].ver
    BY <1>4 DEF Comes
  <2>2. ASSUME NEW j \in i .. Len(q \o r), IsSave((q \o r)[j], a)
        PROVE  v <= (q \o r)[j].ver
    <3>1. j \in 1 .. Len(q \o r) /\ (j \in 1 .. Len(q) => j \in i .. Len(q))
      BY ONLY <1>1, <2>1, j \in i .. Len(q \o r)
    <3> QED  BY <1>1, <1>2, <2>1, <2>2, <3>1
  <2>3. i \in 1 .. Len(q \o r) /\ (q \o r)[i] = q[i]
    BY <1>1, <2>1
  <2> QED  BY <2>1, <2>2, <2>3 DEF Comes
<1> QED  BY <1>3, <1>4

(* The database server takes the first message.                            *)
LEMMA NewerHeard ==
    ASSUME NEW v, NEW q \in Seq(ToDBMessage), q # <<>>, NEW a
    PROVE  /\ Newer(v, q, a) => Newer(v, Tail(q), a)
           /\ \A n \in 1 .. Len(Tail(q)) : Comes(v, q, n + 1, a) =>
                \/ Comes(v, Tail(q), n, a)
                \/ IsSave(Head(q), a) /\ v <= Head(q).ver /\ Newer(v, Tail(q), a)
<1>1. /\ Head(q) = q[1] /\ 1 \in 1 .. Len(q) /\ Len(q) \in Nat \ {0} /\ Len(Tail(q)) = Len(q) - 1
      /\ \A i \in 1 .. Len(Tail(q)) : i + 1 \in 1 .. Len(q) /\ Tail(q)[i] = q[i + 1]
      /\ \A i \in 1 .. Len(q) : i = 1 \/ \E j \in 1 .. Len(Tail(q)) : i = j + 1
  BY Rest, SMTT(20)
<1>2. Newer(v, q, a) => Newer(v, Tail(q), a)
  BY <1>1 DEF Newer
<1>3. ASSUME NEW n \in 1 .. Len(Tail(q)), Comes(v, q, n + 1, a)
      PROVE  \/ Comes(v, Tail(q), n, a)
             \/ IsSave(Head(q), a) /\ v <= Head(q).ver /\ Newer(v, Tail(q), a)
  <2>1. PICK i \in 1 .. (n + 1) - 1 :
           /\ i \in 1 .. Len(q) /\ IsSave(q[i], a) /\ v <= q[i].ver
           /\ \A j \in i .. Len(q) : IsSave(q[j], a) => v <= q[j].ver
    BY <1>3 DEF Comes
  <2>2. CASE i = 1
    BY <1>1, <2>1, <2>2 DEF Newer
  <2>3. CASE i # 1
    <3>1. PICK k \in 1 .. Len(Tail(q)) : i = k + 1
      BY <1>1, <2>1, <2>3
    <3>2. k \in 1 .. n - 1
      BY ONLY <2>1, <3>1, <1>1, n \in 1 .. Len(Tail(q))
    <3>3. IsSave(Tail(q)[k], a) /\ v <= Tail(q)[k].ver
      BY ONLY <1>1, <2>1, <3>1
    <3>4. \A j \in k .. Len(Tail(q)) : j \in 1 .. Len(Tail(q)) /\ j + 1 \in i .. Len(q)
      BY ONLY <1>1, <3>1
    <3>5. \A j \in k .. Len(Tail(q)) : IsSave(Tail(q)[j], a) => v <= Tail(q)[j].ver
      BY ONLY <1>1, <2>1, <3>4
    <3> QED  BY <3>2, <3>3, <3>5, k \in 1 .. Len(Tail(q)) DEF Comes
  <2> QED  BY <2>2, <2>3
<1> QED  BY <1>2, <1>3

(* A save is queued.                                                       *)
LEMMA KeptQueued ==
    ASSUME NEW v, NEW c, NEW s \in Seq(SaveTask), NEW m \in SaveTask, NEW a,
           IsSave(m, a) => v <= m.ver
    PROVE  /\ Kept(v, c, s, a) => Kept(v, c, Append(s, m), a)
           /\ IsSave(m, a) => Kept(v, c, Append(s, m), a)
<1> DEFINE u == Append(s, m)
<1>1. /\ Len(u) = Len(s) + 1 /\ Len(s) \in Nat /\ u[Len(s) + 1] = m
      /\ \A i \in 1 .. Len(s) : u[i] = s[i]
  BY AppendProperties, LenProperties
<1>2. \A n \in Nat : /\ n + 1 \in 1 .. n + 1
                     /\ \A i \in 1 .. n : i \in 1 .. n + 1
                     /\ \A i \in 1 .. n + 1 : i \in 1 .. n \/ i = n + 1
                     /\ \A i \in 1 .. n : \A j \in i .. n + 1 : j \in i .. n \/ j = n + 1
                     /\ \A i \in 1 .. n : \A j \in i .. n : j \in 1 .. n
                     /\ \A j \in n + 1 .. n + 1 : j = n + 1
  OBVIOUS
<1> HIDE DEF u
<1>3. ASSUME v <= c, Newer(v, s, a) PROVE Kept(v, c, u, a)
  <2>1. Newer(v, u, a)
    BY <1>1, <1>2, <1>3 DEF Newer
  <2> QED  BY <1>3, <2>1 DEF Kept
<1>4. ASSUME NEW i \in 1 .. Len(s), IsSave(s[i], a), v <= s[i].ver,
             \A j \in i .. Len(s) : IsSave(s[j], a) => v <= s[j].ver
      PROVE  Kept(v, c, u, a)
  <2>1. i \in 1 .. Len(u) /\ u[i] = s[i]
    BY <1>1, <1>2
  <2>2. \A j \in i .. Len(u) : IsSave(u[j], a) => v <= u[j].ver
    BY <1>1, <1>2, <1>4
  <2> QED  BY <1>4, <2>1, <2>2 DEF Kept
<1>5. ASSUME IsSave(m, a) PROVE Kept(v, c, u, a)
  <2>1. \A j \in Len(s) + 1 .. Len(u) : u[j] = m
    BY <1>1, <1>2
  <2>2. Len(s) + 1 \in 1 .. Len(u)
    BY <1>1, <1>2
  <2> QED  BY <1>1, <1>5, <2>1, <2>2 DEF Kept
<1> QED  BY <1>3, <1>4, <1>5 DEF Kept, u

(* The worker executes the first save.                                     *)
LEMMA KeptStored ==
    ASSUME NEW v, NEW c, NEW s \in Seq(SaveTask), s # <<>>, NEW a, Kept(v, c, s, a)
    PROVE  Kept(v, IF Head(s).account = a THEN Head(s).ver ELSE c, Tail(s), a)
<1>1. /\ Head(s) = s[1] /\ Head(s) \in SaveTask /\ 1 \in 1 .. Len(s) /\ Len(s) \in Nat \ {0}
      /\ Len(Tail(s)) = Len(s) - 1
      /\ \A i \in 1 .. Len(Tail(s)) : i + 1 \in 1 .. Len(s) /\ Tail(s)[i] = s[i + 1]
      /\ \A i \in 1 .. Len(s) : i = 1 \/ \E j \in 1 .. Len(Tail(s)) : i = j + 1
  BY Rest, SMTT(20)
<1>2. IsSave(s[1], a) <=> Head(s).account = a
  BY <1>1, Fields DEF IsSave
<1> DEFINE d == IF Head(s).account = a THEN Head(s).ver ELSE c
<1>3. ASSUME v <= c, Newer(v, s, a) PROVE Kept(v, d, Tail(s), a)
  <2>1. v <= d /\ Newer(v, Tail(s), a)
    BY <1>1, <1>2, <1>3 DEF Newer
  <2> QED  BY <2>1 DEF Kept
<1>4. ASSUME NEW i \in 1 .. Len(s), IsSave(s[i], a), v <= s[i].ver,
             \A j \in i .. Len(s) : IsSave(s[j], a) => v <= s[j].ver
      PROVE  Kept(v, d, Tail(s), a)
  <2>1. CASE i = 1
    <3>1. v <= d /\ Newer(v, Tail(s), a)
      BY <1>1, <1>2, <1>4, <2>1 DEF Newer
    <3> QED  BY <3>1 DEF Kept
  <2>2. CASE i # 1
    <3>1. PICK k \in 1 .. Len(Tail(s)) : i = k + 1
      BY <1>1, <2>2
    <3>2. \A j \in k .. Len(Tail(s)) : j \in 1 .. Len(Tail(s)) /\ j + 1 \in i .. Len(s)
      BY ONLY <1>1, <3>1
    <3>3. /\ IsSave(Tail(s)[k], a) /\ v <= Tail(s)[k].ver
          /\ \A j \in k .. Len(Tail(s)) : IsSave(Tail(s)[j], a) => v <= Tail(s)[j].ver
      BY ONLY <1>1, <1>4, <3>1, <3>2
    <3> HIDE DEF d
    <3> QED  BY <3>3 DEF Kept
  <2> QED  BY <2>1, <2>2
<1> HIDE DEF d
<1>5. Kept(v, d, Tail(s), a)
  BY <1>3, <1>4 DEF Kept
<1> QED  BY <1>5 DEF d

(* SaveDreamHeroes sends every hero in memory as it is, and nothing else   *)
(* before the announcement.                                                *)
LEMMA AllSaved ==
    ASSUME TypeOK
    PROVE  /\ AllHeroes \in Seq(SaveTask)
           /\ \A i \in 1 .. Len(AllHeroes) :
                 \E a \in Accounts : _heros[a] # None /\ AllHeroes[i] = HeroSave(a)
           /\ \A a \in Accounts : _heros[a] # None =>
                 \E i \in 1 .. Len(AllHeroes) : AllHeroes[i] = HeroSave(a)
<1> DEFINE n == Cardinality(InMemory)
           order == SetToSeq(InMemory)
<1>1. IsFiniteSet(InMemory)
  <2>1. InMemory \in SUBSET Accounts
    BY DEF InMemory
  <2> QED  BY <2>1, FS_Subset, GameAssumption
<1>2. n \in Nat /\ ExistsBijection(1 .. n, InMemory)
  BY <1>1, FS_CardinalityType
<1>3. \E f \in [1 .. n -> InMemory] : IsInjective(f)
  BY <1>2, Zenon DEF ExistsBijection, Bijection, Injection
<1>4. order \in [1 .. n -> InMemory] /\ IsInjective(order)
  <2>1. order = CHOOSE f \in [1 .. n -> InMemory] : IsInjective(f)
    BY DEF SetToSeq
  <2> QED  BY <1>3, <2>1, Zenon
<1>5. \A a \in InMemory : \E i \in 1 .. n : order[i] = a
  <2>1. order \in Injection(1 .. n, InMemory)
    BY <1>4, Zenon DEF Injection
  <2>2. IsFiniteSet(1 .. n) /\ Cardinality(1 .. n) = n
    BY <1>2, FS_Interval
  <2>3. order \in Surjection(1 .. n, InMemory)
    BY <1>1, <2>1, <2>2, FS_Injection
  <2> QED  BY <2>3, Zenon DEF Surjection
<1> HIDE DEF n, order
<1>6. AllHeroes = [i \in 1 .. n |-> HeroSave(order[i])]
  BY DEF AllHeroes, n, order
<1>7. \A a \in InMemory : a \in Accounts /\ _heros[a] # None /\ HeroSave(a) \in SaveTask
  BY Fields DEF InMemory, TypeOK, HeroSave
<1>8. AllHeroes \in Seq(SaveTask) /\ Len(AllHeroes) = n
  BY <1>2, <1>4, <1>6, <1>7
<1>9. \A a \in Accounts : _heros[a] # None => a \in InMemory
  BY DEF InMemory
<1> QED  BY <1>4, <1>5, <1>6, <1>7, <1>8, <1>9

-----------------------------------------------------------------------------
(* Types.                                                                  *)

HeroRecord == [ver : 1 .. MaxVersion, suits : Suits, session : Tickets]
SessionRecord == [gate : Gates, state : {"online", "offline"}, hero : BOOLEAN]

GateType ==
    /\ game \in {"run", "wait_stop", "stopped", "crashed"}
    /\ conn \in [Conns -> BOOLEAN]
    /\ m_Gates \in [Gates -> Conns \cup {None}]
    /\ _save_all_heroes_ok \in BOOLEAN

HeroType ==
    /\ m_Onlines \in [Tickets -> {None} \cup SessionRecord]
    /\ _heros \in [Accounts -> {None} \cup HeroRecord]
    /\ atStop \in [Accounts -> {None} \cup HeroRecord]
    /\ doubled \subseteq Accounts /\ misread \subseteq Accounts

LinkType ==
    /\ link \in {"up", "down", "closing"}
    /\ toDB \in Seq(ToDBMessage) /\ fromDB \in Seq(FromDBMessage)

DBType ==
    /\ db \in {"run", "wait_stop", "stopped"}
    /\ m_Games \in BOOLEAN /\ _receive_cose_msg \in BOOLEAN
    /\ loads \in Seq(LoadTask) /\ saves \in Seq(SaveTask)
    /\ character \in [Accounts -> 0 .. MaxVersion] /\ suits_name \in [Accounts -> Suits]
    /\ errors \in Nat /\ losses \in Nat /\ starts \in Nat

(* The groups together are the type invariant.                             *)
LEMMA TypeParts == TypeOK <=> GateType /\ HeroType /\ LinkType /\ DBType
BY DEF TypeOK, GateType, HeroType, LinkType, DBType, HeroRecord, SessionRecord

(* The database server leaves the game server alone.                       *)
DBSide == DatabaseServer \/ onSaveToClose \/ LoadWorker \/ SaveWorker

(* The steps of the database server leave the game server alone.           *)
LEMMA DBSideFrame ==
    DBSide => UNCHANGED <<game, gateVars, m_Onlines, _heros, _save_all_heroes_ok, historyVars>>
<1> USE DEF gameUnchanged
<1>1. DatabaseServer \/ onSaveToClose =>
        UNCHANGED <<game, gateVars, m_Onlines, _heros, _save_all_heroes_ok, historyVars>>
  BY DEF DatabaseServer, parseGameRegister, queryHeroInfo, saveSqlData, saveToClose, DBStops,
         onSaveToClose
<1>2. LoadWorker \/ SaveWorker =>
        UNCHANGED <<game, gateVars, m_Onlines, _heros, _save_all_heroes_ok, historyVars>>
  BY DEF LoadWorker, SaveWorker, dbDoQueryHeroInfo, dbDoQueryHeroEquips, dbDoQuerryHeroToys,
         QueryFails, Load
<1> QED  BY <1>1, <1>2 DEF DBSide

(* The steps that break, close or set up the link.                         *)
LEMMA LinkFrame ==
    LinkLost \/ on_close \/ on_connect =>
        UNCHANGED <<game, gateVars, m_Onlines, _heros, _save_all_heroes_ok, historyVars>>
BY DEF LinkLost, on_close, on_connect, LinkCloses

(* The gates, and whether the server runs, keep their types.               *)
LEMMA GateTypeStep == TypeOK /\ [Next]_vars => GateType'
<1> SUFFICES ASSUME TypeOK, [Next]_vars PROVE GateType'
  OBVIOUS
<1> USE GameAssumption DEF gateVars
<1>a. GateType
  BY TypeParts
<1>1. ASSUME NEW c \in Conns, parseGateRegister(c) PROVE GateType'
  <2>1. conn' \in [Conns -> BOOLEAN]
    BY <1>1, <1>a, Zenon DEF parseGateRegister, GateType
  <2> QED  BY <1>1, <1>a, <2>1 DEF parseGateRegister, GateType
<1>2. ASSUME NEW c \in Conns, GateOnClose(c) PROVE GateType'
  <2>1. conn' \in [Conns -> BOOLEAN]
    BY <1>2, <1>a, Zenon DEF GateOnClose, GateType
  <2> QED  BY <1>2, <1>a, <2>1 DEF GateOnClose, removeGate, GateType
<1>3. ASSUME NEW c \in Conns, NEW t \in Tickets, addUser(c, t) \/ removeUser(c, t) PROVE GateType'
  BY <1>3, <1>a DEF addUser, removeUser, GateType
<1>4. ASSUME Crash, UNCHANGED _save_all_heroes_ok PROVE GateType'
  <2>1. conn' \in [Conns -> BOOLEAN]
    BY <1>4, Zenon DEF Crash
  <2> QED  BY <1>4, <1>a, <2>1 DEF Crash, GateType
<1>5. ASSUME NEW c \in Conns, NEW t \in Tickets, offlineUser(c, t) PROVE GateType'
  BY <1>5, <1>4, <1>a DEF offlineUser, GateType
<1>6. ASSUME NEW t \in Tickets, ModifySuit(t) PROVE GateType'
  BY <1>6, <1>a DEF ModifySuit, GateType
<1>7. CASE parseQueryHeroInfo \/ parseNeedCreateHero
  BY <1>7, <1>a DEF parseQueryHeroInfo, parseNeedCreateHero, Answered, GateType
<1>8. CASE parseMsgSaveAllHeroes
  <2>1. _save_all_heroes_ok' \in BOOLEAN
    BY <1>8, Zenon DEF parseMsgSaveAllHeroes
  <2> QED  BY <1>8, <1>a, <2>1 DEF parseMsgSaveAllHeroes, GateType
<1>9. ASSUME NEW a \in Accounts, SaveHero(a) PROVE GateType'
  BY <1>9, <1>a DEF SaveHero, GateType
<1>10. CASE setStop
  BY <1>10, <1>a DEF setStop, GateType
<1>11. CASE checkStop
  <2>1. conn' \in [Conns -> BOOLEAN]
    BY <1>11, Zenon DEF checkStop
  <2> QED  BY <1>11, <1>a, <2>1 DEF checkStop, GateType
<1>12. CASE GameCrashes
  BY <1>12, <1>4 DEF GameCrashes
<1>13. CASE GameStarts
  <2>1. _save_all_heroes_ok' \in BOOLEAN
    BY <1>13, Zenon DEF GameStarts
  <2> QED  BY <1>13, <1>a, <2>1 DEF GameStarts, GateType
<1>14. ASSUME UNCHANGED <<game, gateVars, _save_all_heroes_ok>> PROVE GateType'
  BY <1>14, <1>a DEF GateType
<1>15. CASE DBSide
  BY <1>14, <1>15, DBSideFrame
<1>16. CASE LinkLost \/ on_close \/ on_connect
  BY <1>14, <1>16, LinkFrame
<1>17. CASE Ended \/ UNCHANGED vars
  BY <1>14, <1>17 DEF Ended, vars
<1> QED
  BY <1>1, <1>2, <1>3, <1>5, <1>6, <1>7, <1>8, <1>9, <1>10, <1>11, <1>12, <1>13, <1>15, <1>16, <1>17
     DEF Next, FromGate, FromDatabaseServer, DBSide

(* Sessions and heroes keep their types.                                   *)
LEMMA HeroTypeStep == TypeOK /\ HeroLoaded /\ [Next]_vars => HeroType'
<1> SUFFICES ASSUME TypeOK, HeroLoaded, [Next]_vars PROVE HeroType'
  OBVIOUS
<1> USE GameAssumption DEF historyVars
<1>a. HeroType /\ LinkType /\ DBType
  BY TypeParts
<1>b. None \notin HeroRecord /\ None \notin SessionRecord
  BY DEF HeroRecord, SessionRecord
<1>c. /\ \A h \in HeroRecord : h.ver \in 1 .. MaxVersion /\ h.session \in Tickets
      /\ \A h \in HeroRecord : \A t \in Tickets : [h EXCEPT !.session = t] \in HeroRecord
      /\ \A h \in HeroRecord : h.suits \in Suits
      /\ \A h \in HeroRecord : \A v \in 1 .. MaxVersion, s \in Suits :
            [h EXCEPT !.ver = v, !.suits = s] \in HeroRecord
      /\ \A v \in 1 .. MaxVersion, s \in Suits, t \in Tickets :
            [ver |-> v, suits |-> s, session |-> t] \in HeroRecord
  BY DEF HeroRecord
<1>d. /\ \A g \in Gates : \A b \in BOOLEAN :
            [gate |-> g, state |-> "online", hero |-> b] \in SessionRecord
      /\ \A r \in SessionRecord : [r EXCEPT !.state = "online"] \in SessionRecord
      /\ \A r \in SessionRecord : [r EXCEPT !.state = "offline"] \in SessionRecord
      /\ \A r \in SessionRecord : [r EXCEPT !.hero = TRUE] \in SessionRecord
  BY DEF SessionRecord
<1>e. \A S \in SUBSET Tickets : Removed(S) \in [Tickets -> {None} \cup SessionRecord]
  BY <1>a DEF Removed, HeroType
<1>1. ASSUME NEW c \in Conns, parseGateRegister(c) PROVE HeroType'
  BY <1>1, <1>a DEF parseGateRegister, HeroType
<1>2. ASSUME NEW c \in Conns, GateOnClose(c) PROVE HeroType'
  <2>1. UsersOfGate(GateOf[c]) \in SUBSET Tickets
    BY DEF UsersOfGate
  <2> QED  BY <1>2, <1>a, <1>e, <2>1 DEF GateOnClose, removeGate, HeroType
<1>3. ASSUME NEW c \in Conns, NEW t \in Tickets, addUser(c, t) PROVE HeroType'
  <2> DEFINE b == _heros[AccountOf[t]] # None
  <2>1. b \in BOOLEAN
    BY Zenon
  <2>2. UNCHANGED <<atStop, misread>> /\ doubled' \subseteq Accounts
    BY <1>3, <1>a DEF addUser, HeroType
  <2>3. CASE m_Onlines[t] = None
    <3>1. /\ m_Onlines' = [m_Onlines EXCEPT ![t] =
                [gate |-> GateOf[c], state |-> "online", hero |-> b]]
          /\ Session(t)
      BY <1>3, <2>3 DEF addUser
    <3>2. m_Onlines' \in [Tickets -> {None} \cup SessionRecord]
      <4> HIDE DEF b
      <4>1. [gate |-> GateOf[c], state |-> "online", hero |-> b] \in SessionRecord
        BY <2>1, <1>d
      <4> QED  BY <3>1, <4>1, <1>a DEF HeroType
    <3>3. _heros' \in [Accounts -> {None} \cup HeroRecord]
      <4>1. \/ _heros' = _heros
            \/ /\ _heros[AccountOf[t]] # None
               /\ _heros' = [_heros EXCEPT ![AccountOf[t]].session = t]
        BY <3>1 DEF Session
      <4>2. _heros[AccountOf[t]] # None => [_heros[AccountOf[t]] EXCEPT !.session = t] \in HeroRecord
        BY <1>a, <1>c DEF HeroType
      <4> QED  BY <1>a, <4>1, <4>2 DEF HeroType
    <3> QED  BY <2>2, <3>2, <3>3, <1>a DEF HeroType
  <2>4. CASE m_Onlines[t] # None
    <3>1. UNCHANGED _heros /\ m_Onlines' =
                    (IF m_Onlines[t].gate = GateOf[c] THEN [m_Onlines EXCEPT ![t].state = "online"]
                     ELSE m_Onlines)
      BY <1>3, <2>4 DEF addUser
    <3>2. m_Onlines' \in [Tickets -> {None} \cup SessionRecord]
      BY <3>1, <2>4, <1>a, <1>d DEF HeroType
    <3> QED  BY <2>2, <3>1, <3>2, <1>a DEF HeroType
  <2> QED  BY <2>3, <2>4
<1>4. ASSUME NEW c \in Conns, NEW t \in Tickets, removeUser(c, t) PROVE HeroType'
  <2>1. {t} \in SUBSET Tickets
    OBVIOUS
  <2> QED  BY <1>4, <1>a, <1>e, <2>1 DEF removeUser, HeroType
<1>5. ASSUME Crash, UNCHANGED <<doubled, misread>> PROVE HeroType'
  BY <1>5, <1>a DEF Crash, HeroType
<1>6. ASSUME NEW c \in Conns, NEW t \in Tickets, offlineUser(c, t) PROVE HeroType'
  <2>1. CASE m_Onlines[t].hero
    BY <1>6, <1>a, <1>d, <2>1 DEF offlineUser, HeroType
  <2> QED  BY <1>6, <1>5, <2>1 DEF offlineUser
<1>7. ASSUME NEW t \in Tickets, ModifySuit(t) PROVE HeroType'
  <2>1. _heros[AccountOf[t]] \in HeroRecord
    BY <1>7, <1>a DEF ModifySuit, HeroLoaded, HeroType
  <2>2. _heros[AccountOf[t]].ver + 1 \in 1 .. MaxVersion
    BY <1>7, <2>1 DEF ModifySuit, HeroRecord
  <2>3. PICK s \in {"own", "bare", _heros[AccountOf[t]].suits} :
           _heros' = [_heros EXCEPT ![AccountOf[t]].ver = @ + 1, ![AccountOf[t]].suits = s]
    BY <1>7 DEF ModifySuit
  <2>4. s \in Suits
    BY <1>c, <2>1 DEF Suits
  <2>5. [_heros[AccountOf[t]] EXCEPT !.ver = @ + 1, !.suits = s] \in HeroRecord
    BY <1>c, <2>1, <2>2, <2>4
  <2>6. _heros' \in [Accounts -> {None} \cup HeroRecord]
    BY <1>a, <2>3, <2>5 DEF HeroType
  <2> QED  BY <1>7, <1>a, <2>6 DEF ModifySuit, HeroType
<1>8. ASSUME NEW t \in Tickets, NEW v \in 1 .. MaxVersion, NEW s \in Suits, Answered(t, v, s) PROVE HeroType'
  <2>1. CASE m_Onlines[t] # None
    <3>1. _heros' \in [Accounts -> {None} \cup HeroRecord]
      <4> DEFINE a == AccountOf[t]
      <4>1. _heros' = CreateHero(a, t, v, s)
        BY <1>8, <2>1 DEF Answered
      <4>2. CASE _heros[a] = None
        <5>1. [ver |-> v, suits |-> s, session |-> t] \in HeroRecord
          BY <1>c
        <5> QED  BY <1>a, <4>1, <4>2, <5>1 DEF CreateHero, HeroType
      <4>3. CASE _heros[a] # None
        <5>1. [_heros[a] EXCEPT !.session = t] \in HeroRecord
          BY <1>a, <1>c, <4>3 DEF HeroType
        <5> QED  BY <1>a, <4>1, <4>3, <5>1 DEF CreateHero, HeroType
      <4> QED  BY <4>2, <4>3
    <3>2. m_Onlines' \in [Tickets -> {None} \cup SessionRecord]
      BY <1>8, <1>a, <1>b, <1>d, <2>1 DEF Answered, HeroType
    <3>3. misread' \subseteq Accounts /\ UNCHANGED <<atStop, doubled>>
      BY <1>8, <1>a, <2>1 DEF Answered, HeroType
    <3> QED  BY <3>1, <3>2, <3>3, <1>a DEF HeroType
  <2> QED  BY <1>8, <1>a, <2>1 DEF Answered, HeroType
<1>9. CASE parseQueryHeroInfo \/ parseNeedCreateHero
  <2>1. fromDB # <<>> /\ Head(fromDB) \in FromDBMessage
    BY <1>9, <1>a, Rest DEF parseQueryHeroInfo, parseNeedCreateHero, Receives, LinkType
  <2>2. CASE parseQueryHeroInfo
    <3>1. /\ Head(fromDB).ticket \in Tickets /\ Head(fromDB).ver \in 1 .. MaxVersion
          /\ Head(fromDB).suits \in Suits
      BY <2>1, <2>2, AnswerFields DEF parseQueryHeroInfo, Receives
    <3> QED  BY <1>8, <2>2, <3>1 DEF parseQueryHeroInfo
  <2>3. CASE parseNeedCreateHero
    <3>1. Head(fromDB).ticket \in Tickets /\ FromConfig \in 1 .. MaxVersion /\ "bare" \in Suits
      BY <2>1, <2>3, AnswerFields DEF parseNeedCreateHero, Receives, FromConfig, Suits
    <3> QED  BY <1>8, <2>3, <3>1 DEF parseNeedCreateHero
  <2> QED  BY <1>9, <2>2, <2>3
<1>10. CASE parseMsgSaveAllHeroes
  BY <1>10, <1>a DEF parseMsgSaveAllHeroes, HeroType
<1>11. ASSUME NEW a \in Accounts, SaveHero(a) PROVE HeroType'
  BY <1>11, <1>a DEF SaveHero, HeroType
<1>12. CASE setStop \/ checkStop
  BY <1>12, <1>a DEF setStop, checkStop, HeroType
<1>13. CASE GameCrashes
  BY <1>13, <1>5 DEF GameCrashes
<1>14. CASE GameStarts
  BY <1>14, <1>a DEF GameStarts, HeroType
<1>15. ASSUME UNCHANGED <<m_Onlines, _heros, historyVars>> PROVE HeroType'
  BY <1>15, <1>a DEF HeroType
<1>16. CASE DBSide
  BY <1>15, <1>16, DBSideFrame
<1>17. CASE LinkLost \/ on_close \/ on_connect
  BY <1>15, <1>17, LinkFrame
<1>18. CASE Ended \/ UNCHANGED vars
  BY <1>15, <1>18 DEF Ended, vars
<1> QED
  BY <1>1, <1>2, <1>3, <1>4, <1>6, <1>7, <1>9, <1>10, <1>11, <1>12, <1>13, <1>14, <1>16, <1>17, <1>18
     DEF Next, FromGate, FromDatabaseServer, DBSide

(* The messages that a step of the game server sends.                      *)
LEMMA Sendable ==
    ASSUME TypeOK
    PROVE  /\ \A t \in Tickets : <<ReqHeroData(t)>> \in Seq(ToDBMessage)
           /\ \A a \in Accounts : _heros[a] # None =>
                 <<HeroSave(a)>> \in Seq(ToDBMessage)
           /\ AllHeroes \in Seq(ToDBMessage)
           /\ AllHeroes \o <<SaveAllHeroes>> \in Seq(ToDBMessage)
           /\ \A r \in Seq(ToDBMessage) : toDB \o r \in Seq(ToDBMessage)
<1>1. \A m \in ToDBMessage : <<m>> \in Seq(ToDBMessage)
  OBVIOUS
<1>2. \A a \in Accounts : _heros[a] # None => _heros[a].ver \in 1 .. MaxVersion /\ _heros[a].suits \in Suits
  BY DEF TypeOK
<1>3. AllHeroes \in Seq(ToDBMessage)
  BY AllSaved, Fields, SeqMonotonic
<1>4. toDB \in Seq(ToDBMessage)
  BY DEF TypeOK
<1>5. /\ \A t \in Tickets : <<ReqHeroData(t)>> \in Seq(ToDBMessage)
      /\ \A a \in Accounts : _heros[a] # None => <<HeroSave(a)>> \in Seq(ToDBMessage)
      /\ <<SaveAllHeroes>> \in Seq(ToDBMessage)
  BY <1>1, <1>2, Fields DEF HeroSave
<1>6. AllHeroes \o <<SaveAllHeroes>> \in Seq(ToDBMessage)
  BY <1>3, <1>5, ConcatProperties
<1>7. \A r \in Seq(ToDBMessage) : toDB \o r \in Seq(ToDBMessage)
  BY <1>4, ConcatProperties
<1> QED  BY <1>3, <1>5, <1>6, <1>7

(* The queues between the servers, and the database server's variables,    *)
(* keep their types.                                                       *)
LEMMA LinkTypeStep == TypeOK /\ [Next]_vars => LinkType'
<1> SUFFICES ASSUME TypeOK, [Next]_vars PROVE LinkType'
  OBVIOUS
<1> USE GameAssumption DEF linkVars
<1>a. LinkType /\ DBType
  BY TypeParts
<1>b. \A r \in Seq(ToDBMessage) : ToDB(r) => toDB' \in Seq(ToDBMessage)
  BY <1>a, Sendable DEF ToDB, LinkType
<1>c. \A m \in FromDBMessage : ToGame(m) => fromDB' \in Seq(FromDBMessage)
  BY <1>a, AppendProperties DEF ToGame, LinkType
<1>d. <<>> \in Seq(FromDBMessage) /\ <<>> \in Seq(ToDBMessage)
  BY EmptySeq
<1>1. ASSUME NEW c \in Conns, parseGateRegister(c) \/ GateOnClose(c) PROVE LinkType'
  BY <1>1, <1>a DEF parseGateRegister, GateOnClose, LinkType
<1>2. ASSUME NEW c \in Conns, NEW t \in Tickets, addUser(c, t) PROVE LinkType'
  <2>1. UNCHANGED <<link, fromDB>>
    BY <1>2 DEF addUser
  <2>2. toDB' = toDB \/ ToDB(<<ReqHeroData(t)>>)
    BY <1>2 DEF addUser, Session
  <2> QED  BY <1>a, <1>b, <2>1, <2>2, Sendable DEF LinkType
<1>3. ASSUME Crash, UNCHANGED toDB PROVE LinkType'
  BY <1>3, <1>a, <1>d DEF Crash, LinkType
<1>4. ASSUME NEW c \in Conns, NEW t \in Tickets, removeUser(c, t) \/ offlineUser(c, t) PROVE LinkType'
  BY <1>4, <1>a, <1>3 DEF removeUser, offlineUser, LinkType
<1>5. ASSUME NEW t \in Tickets, ModifySuit(t) PROVE LinkType'
  BY <1>5, <1>a DEF ModifySuit, LinkType
<1>6. ASSUME fromDB # <<>>, fromDB' = Tail(fromDB), UNCHANGED <<link, toDB>> PROVE LinkType'
  BY <1>6, <1>a, HeadTailProperties DEF LinkType
<1>7. CASE parseQueryHeroInfo \/ parseNeedCreateHero
  BY <1>7, <1>6 DEF parseQueryHeroInfo, parseNeedCreateHero, Answered, Receives
<1>8. CASE parseMsgSaveAllHeroes
  BY <1>8, <1>6 DEF parseMsgSaveAllHeroes, Receives
<1>9. ASSUME NEW a \in Accounts, SaveHero(a) PROVE LinkType'
  <2>1. /\ UNCHANGED <<link, fromDB>> /\ ToDB(<<HeroSave(a)>>)
        /\ <<HeroSave(a)>> \in Seq(ToDBMessage)
    BY <1>9, Sendable DEF SaveHero
  <2> QED  BY <1>a, <1>b, <2>1 DEF LinkType
<1>10. CASE setStop \/ checkStop
  <2>1. toDB' \in Seq(ToDBMessage)
    BY <1>10, <1>b, Sendable DEF setStop, checkStop, SaveDreamHeroes
  <2> QED  BY <1>10, <1>a, <1>d, <2>1 DEF setStop, checkStop, LinkType
<1>11. CASE GameCrashes
  BY <1>11, <1>3 DEF GameCrashes
<1>12. CASE LinkLost \/ on_close
  BY <1>12, <1>d DEF LinkLost, on_close, LinkCloses, LinkType
<1>13. CASE on_connect
  <2>1. <<ServerRegister>> \in Seq(ToDBMessage)
    BY Fields
  <2> QED  BY <1>13, <1>a, <2>1 DEF on_connect, LinkType
<1>14. ASSUME DBHears("ServerRegister") \/ DBHears("ReqHeroData") \/ DBHears("SaveData")
                \/ DBHears("SaveAllHeroes"),
              toDB' = Tail(toDB), UNCHANGED link,
              UNCHANGED fromDB \/ ToGame(SaveAllHeroes)
       PROVE  LinkType'
  <2>1. toDB' \in Seq(ToDBMessage)
    BY <1>14, <1>a, HeadTailProperties DEF DBHears, LinkType
  <2>2. fromDB' \in Seq(FromDBMessage)
    BY <1>14, <1>a, <1>c, AnswerFields DEF LinkType
  <2> QED  BY <1>14, <1>a, <2>1, <2>2 DEF LinkType
<1>15. CASE DatabaseServer
  <2>1. CASE parseGameRegister \/ queryHeroInfo \/ saveSqlData \/ saveToClose
    BY <1>14, <2>1 DEF parseGameRegister, queryHeroInfo, saveSqlData, saveToClose
  <2>2. CASE DBStops
    BY <1>a, <2>2 DEF DBStops, LinkType
  <2> QED  BY <1>15, <2>1, <2>2 DEF DatabaseServer
<1>16. CASE onSaveToClose \/ SaveWorker
  BY <1>16, <1>a DEF onSaveToClose, SaveWorker, LinkType
<1>17. ASSUME NEW stage, NEW next, Load(stage, next),
              \/ UNCHANGED fromDB
              \/ ToGame(NeedCreateHero(Head(loads).ticket))
              \/ stage = "toys" /\ ToGame(HeroData(Head(loads).ticket, Head(loads).ver, Head(loads).suits))
       PROVE  LinkType'
  <2>1. loads # <<>> /\ Head(loads) \in LoadTask /\ Head(loads).stage = stage
    BY <1>17, <1>a, HeadTailProperties DEF Load, DBType
  <2>2. fromDB' \in Seq(FromDBMessage)
    BY <1>17, <1>a, <1>c, <2>1, AnswerFields, LoadFields DEF LinkType
  <2> QED  BY <1>17, <1>a, <2>2 DEF Load, LinkType
<1>18. CASE LoadWorker
  BY <1>17, <1>18 DEF LoadWorker, dbDoQueryHeroInfo, dbDoQueryHeroEquips, dbDoQuerryHeroToys, QueryFails
<1>19. CASE GameStarts \/ Ended \/ UNCHANGED vars
  BY <1>19, <1>a DEF GameStarts, Ended, vars, LinkType
<1> QED
  BY <1>1, <1>2, <1>4, <1>5, <1>7, <1>8, <1>9, <1>10, <1>11, <1>12, <1>13, <1>15, <1>16, <1>18, <1>19
     DEF Next, FromGate, FromDatabaseServer

(* The steps of the game server and of the link leave the tasks alone.     *)
LEMMA TaskFrame ==
    ASSUME Next, ~DBSide
    PROVE  UNCHANGED <<taskVars, errors, db, _receive_cose_msg>>
<1> USE DEF dbVars, faultVars
<1>1. FromGate => UNCHANGED <<taskVars, errors, db, _receive_cose_msg>>
  BY DEF FromGate, parseGateRegister, GateOnClose, addUser, removeUser, offlineUser
<1>2. (\E t \in Tickets : ModifySuit(t)) \/ FromDatabaseServer \/ (\E a \in Accounts : SaveHero(a))
        \/ setStop \/ checkStop => UNCHANGED <<taskVars, errors, db, _receive_cose_msg>>
  BY DEF ModifySuit, FromDatabaseServer, parseQueryHeroInfo, parseNeedCreateHero, Answered,
         parseMsgSaveAllHeroes, SaveHero, setStop, checkStop
<1>3. on_connect \/ LinkLost \/ on_close \/ GameCrashes \/ GameStarts \/ Ended =>
        UNCHANGED <<taskVars, errors, db, _receive_cose_msg>>
  BY DEF on_connect, LinkLost, on_close, LinkCloses, GameCrashes, GameStarts, Ended, vars
<1> QED  BY <1>1, <1>2, <1>3 DEF Next, DBSide

(* Every step keeps the types of the database server.                      *)
LEMMA DBTypeStep == TypeOK /\ [Next]_vars => DBType'
<1> SUFFICES ASSUME TypeOK, [Next]_vars PROVE DBType'
  OBVIOUS
<1> USE GameAssumption DEF dbVars, faultVars, taskVars, rowVars
<1>a. LinkType /\ DBType
  BY TypeParts
<1>2. CASE FromGate
  <2>1. UNCHANGED <<m_Games, losses, starts>>
    BY <1>2 DEF FromGate, parseGateRegister, GateOnClose, addUser, removeUser, offlineUser
  <2>2. UNCHANGED <<taskVars, errors, db, _receive_cose_msg>>
    BY <1>2 DEF FromGate, parseGateRegister, GateOnClose, addUser, removeUser, offlineUser
  <2> QED  BY <1>a, <2>1, <2>2 DEF DBType
<1>3. CASE (\E t \in Tickets : ModifySuit(t)) \/ FromDatabaseServer \/ (\E a \in Accounts : SaveHero(a))
             \/ setStop \/ checkStop \/ Ended \/ on_connect \/ GameCrashes
  BY <1>3, <1>a DEF ModifySuit, FromDatabaseServer, parseQueryHeroInfo, parseNeedCreateHero, Answered,
         parseMsgSaveAllHeroes, SaveHero, setStop, checkStop, Ended, vars, on_connect, GameCrashes, DBType
<1>4. CASE LinkLost \/ on_close
  <2>1. m_Games' \in BOOLEAN
    BY <1>4, Zenon DEF LinkLost, on_close, LinkCloses
  <2> QED  BY <1>4, <1>a, <2>1 DEF LinkLost, on_close, LinkCloses, DBType
<1>5. CASE GameStarts
  BY <1>5, <1>a DEF GameStarts, DBType
<1>6. CASE parseGameRegister
  <2>1. m_Games' \in BOOLEAN
    BY <1>6, Zenon DEF parseGameRegister
  <2> QED  BY <1>6, <1>a, <2>1 DEF parseGameRegister, DBType
<1>7. CASE queryHeroInfo
  <2>1. Head(toDB) \in ToDBMessage /\ Head(toDB).type = "ReqHeroData"
    BY <1>7, <1>a, HeadTailProperties DEF queryHeroInfo, DBHears, LinkType
  <2>2. HeroTask(Head(toDB).ticket, "hero", NoRow, "bare") \in LoadTask
    BY <2>1, Fields, LoadFields
  <2>3. loads' \in Seq(LoadTask)
    BY <1>7, <1>a, <2>2, AppendProperties DEF queryHeroInfo, addTask, DBType
  <2> QED  BY <1>7, <1>a, <2>3 DEF queryHeroInfo, DBType
<1>8. CASE saveSqlData
  <2>1. Head(toDB) \in ToDBMessage /\ Head(toDB).type = "SaveData"
    BY <1>8, <1>a, HeadTailProperties DEF saveSqlData, DBHears, LinkType
  <2>2. saves' \in Seq(SaveTask)
    BY <1>8, <1>a, <2>1, Fields, AppendProperties DEF saveSqlData, addTask, DBType
  <2> QED  BY <1>8, <1>a, <2>2 DEF saveSqlData, DBType
<1>9. CASE saveToClose
  <2>1. _receive_cose_msg' \in BOOLEAN
    BY <1>9, Zenon DEF saveToClose
  <2> QED  BY <1>9, <1>a, <2>1 DEF saveToClose, DBType
<1>10. CASE DBStops \/ onSaveToClose
  <2>1. m_Games' \in BOOLEAN
    <3>1. m_Games' = FALSE \/ m_Games' = m_Games
      BY <1>10 DEF DBStops, onSaveToClose
    <3> QED  BY <3>1, <1>a, Zenon DEF DBType
  <2> QED  BY <1>10, <1>a, <2>1 DEF DBStops, onSaveToClose, DBType
<1>11. ASSUME NEW stage, NEW next \in Seq(LoadTask), Load(stage, next), errors' \in Nat PROVE DBType'
  <2>1. Tail(loads) \in Seq(LoadTask) /\ <<>> \in Seq(LoadTask)
    BY <1>11, <1>a, HeadTailProperties, EmptySeq DEF Load, DBType
  <2>2. loads' \in Seq(LoadTask)
    BY <1>11, <2>1, ConcatProperties DEF Load
  <2> QED  BY <1>11, <1>a, <2>2 DEF Load, DBType
<1>12. CASE LoadWorker
  <2>1. loads # <<>> /\ Head(loads) \in LoadTask
    BY <1>12, <1>a, HeadTailProperties
       DEF LoadWorker, dbDoQueryHeroInfo, dbDoQueryHeroEquips, dbDoQuerryHeroToys, QueryFails, Load, DBType
  <2>2. \A m \in LoadTask : <<m>> \in Seq(LoadTask)
    OBVIOUS
  <2>3. <<>> \in Seq(LoadTask)
    BY EmptySeq
  <2>4. CASE dbDoQueryHeroInfo
    <3> DEFINE t   == Head(loads).ticket
               row == character[AccountOf[t]]
               suits == ReadBack(suits_name[AccountOf[t]])
               next == IF row # NoRow THEN <<HeroTask(t, "equips", row, suits)>> ELSE <<>>
    <3>1. t \in Tickets /\ row \in 0 .. MaxVersion /\ suits \in Suits
      BY <1>a, <2>1, LoadFields DEF DBType, ReadBack, Suits
    <3>2. row # NoRow => row \in 1 .. MaxVersion
      BY <3>1 DEF NoRow
    <3>3. next \in Seq(LoadTask)
      BY <2>2, <2>3, <3>1, <3>2, LoadFields
    <3>4. Load("hero", next) /\ UNCHANGED errors
      BY <2>4 DEF dbDoQueryHeroInfo
    <3> HIDE DEF next
    <3> QED  BY <1>11, <1>a, <3>3, <3>4 DEF DBType
  <2>5. CASE dbDoQueryHeroEquips
    <3>1. Load("equips", <<[Head(loads) EXCEPT !.stage = "toys"]>>) /\ UNCHANGED errors
      BY <2>5 DEF dbDoQueryHeroEquips
    <3>2. Head(loads).stage = "equips"
      BY <3>1 DEF Load
    <3>3. [Head(loads) EXCEPT !.stage = "toys"] \in LoadTask
      BY <2>1, <3>2, LoadFields
    <3>4. <<[Head(loads) EXCEPT !.stage = "toys"]>> \in Seq(LoadTask)
      BY <2>2, <3>3
    <3> QED  BY <1>11, <1>a, <3>1, <3>4 DEF DBType
  <2>6. CASE dbDoQuerryHeroToys \/ QueryFails
    <3>1. PICK stage : Load(stage, <<>>)
      BY <2>6 DEF dbDoQuerryHeroToys, QueryFails
    <3>2. errors' \in Nat
      BY <1>a, <2>6 DEF dbDoQuerryHeroToys, QueryFails, DBType
    <3> QED  BY <1>11, <2>3, <3>1, <3>2
  <2> QED  BY <1>12, <2>4, <2>5, <2>6 DEF LoadWorker
<1>13. CASE SaveWorker
  <2>1. Head(saves) \in SaveTask /\ Tail(saves) \in Seq(SaveTask)
    BY <1>13, <1>a, HeadTailProperties DEF SaveWorker, DBType
  <2>2. character' \in [Accounts -> 0 .. MaxVersion]
    <3>1. Head(saves).account \in Accounts /\ Head(saves).ver \in 0 .. MaxVersion
      BY <2>1, Fields
    <3> QED  BY <1>13, <1>a, <3>1 DEF SaveWorker, DBType
  <2>3. errors' \in Nat
    BY <1>13, <1>a DEF SaveWorker, DBType
  <2>4. suits_name' \in [Accounts -> Suits]
    <3>1. Head(saves).account \in Accounts /\ Head(saves).suits \in Suits
      BY <2>1, Fields
    <3> QED  BY <1>13, <1>a, <3>1 DEF SaveWorker, DBType
  <2> QED  BY <1>13, <1>a, <2>1, <2>2, <2>3, <2>4 DEF SaveWorker, DBType
<1>14. CASE UNCHANGED vars
  BY <1>14, <1>a DEF vars, DBType
<1> QED
  BY <1>2, <1>3, <1>4, <1>5, <1>6, <1>7, <1>8, <1>9, <1>10, <1>12, <1>13, <1>14
     DEF Next, DatabaseServer

-----------------------------------------------------------------------------
(* Invariants.                                                             *)

(* A link that is down stays empty, and the game server's end closes with  *)
(* the process.                                                            *)
LEMMA LinkEndsStep == TypeOK /\ LinkEnds /\ [Next]_vars => LinkEnds'
<1> SUFFICES ASSUME TypeOK, LinkEnds, [Next]_vars PROVE LinkEnds'
  OBVIOUS
<1> USE DEF linkVars, LinkEnds, Running
<1>a. link \in {"up", "down", "closing"}
  BY DEF TypeOK
<1>b. \A r : ToDB(r) => toDB' = toDB \/ link = "up"
  BY DEF ToDB
<1>c. \A m : ToGame(m) => fromDB' = fromDB \/ link = "up"
  BY DEF ToGame
<1>1. ASSUME NEW c \in Conns, parseGateRegister(c) \/ GateOnClose(c) PROVE LinkEnds'
  BY <1>1 DEF parseGateRegister, GateOnClose
<1>2. ASSUME NEW c \in Conns, NEW t \in Tickets, addUser(c, t) PROVE LinkEnds'
  <2>1. UNCHANGED <<game, link, fromDB>> /\ (toDB' = toDB \/ link = "up")
    BY <1>2, <1>b DEF addUser, Session
  <2> QED  BY <2>1
<1>3. ASSUME Crash, UNCHANGED toDB PROVE LinkEnds'
  BY <1>3, <1>a DEF Crash
<1>4. ASSUME NEW c \in Conns, NEW t \in Tickets, removeUser(c, t) \/ offlineUser(c, t) PROVE LinkEnds'
  BY <1>4, <1>3 DEF removeUser, offlineUser
<1>5. ASSUME NEW t \in Tickets, ModifySuit(t) PROVE LinkEnds'
  BY <1>5 DEF ModifySuit
<1>6. CASE FromDatabaseServer
  <2>1. fromDB # <<>> /\ UNCHANGED <<game, link, toDB>>
    BY <1>6 DEF FromDatabaseServer, parseQueryHeroInfo, parseNeedCreateHero, parseMsgSaveAllHeroes,
                Answered, Receives
  <2> QED  BY <2>1
<1>7. ASSUME NEW a \in Accounts, SaveHero(a) PROVE LinkEnds'
  <2>1. UNCHANGED <<game, link, fromDB>> /\ (toDB' = toDB \/ link = "up")
    BY <1>7, <1>b DEF SaveHero
  <2> QED  BY <2>1
<1>8. CASE setStop
  BY <1>8, <1>b DEF setStop, SaveDreamHeroes
<1>9. CASE checkStop
  BY <1>9, <1>a, <1>b DEF checkStop, SaveDreamHeroes
<1>10. CASE on_connect
  BY <1>10 DEF on_connect
<1>11. CASE LinkLost \/ on_close
  BY <1>11 DEF LinkLost, on_close, LinkCloses
<1>12. CASE GameCrashes
  BY <1>12, <1>3 DEF GameCrashes
<1>13. CASE GameStarts
  BY <1>13 DEF GameStarts
<1>14. CASE DBSide
  <2>1. /\ UNCHANGED <<link, game>>
        /\ fromDB' = fromDB \/ link = "up"
        /\ toDB' = toDB \/ link # "down"
    <3>1. CASE DatabaseServer
      BY <1>c, <3>1, DBSideFrame
         DEF DBSide, DatabaseServer, parseGameRegister, queryHeroInfo, saveSqlData, saveToClose, DBStops,
             DBHears
    <3>2. CASE onSaveToClose \/ SaveWorker
      BY <3>2, DBSideFrame DEF DBSide, onSaveToClose, SaveWorker
    <3>3. CASE LoadWorker
      BY <1>c, <3>3, DBSideFrame
         DEF DBSide, LoadWorker, dbDoQueryHeroInfo, dbDoQueryHeroEquips, dbDoQuerryHeroToys, QueryFails, Load
    <3> QED  BY <1>14, <3>1, <3>2, <3>3 DEF DBSide
  <2> QED  BY <2>1
<1>15. CASE Ended \/ UNCHANGED vars
  BY <1>15 DEF Ended, vars
<1> QED
  BY <1>1, <1>2, <1>4, <1>5, <1>6, <1>7, <1>8, <1>9, <1>10, <1>11, <1>12, <1>13, <1>14, <1>15
     DEF Next, FromGate, DBSide

(* The sessions and the heroes they use.                                   *)
LEMMA SessionStep == TypeOK /\ SessionInv /\ [Next]_vars => SessionInv'
<1> SUFFICES ASSUME TypeOK, SessionInv, [Next]_vars PROVE SessionInv'
  OBVIOUS
<1> USE GameAssumption DEF SessionInv, historyVars
<1>a. /\ m_Onlines \in [Tickets -> {None} \cup SessionRecord]
      /\ _heros \in [Accounts -> {None} \cup HeroRecord]
      /\ None \notin HeroRecord /\ None \notin SessionRecord
      /\ fromDB \in Seq(FromDBMessage)
  BY TypeParts DEF HeroType, LinkType, HeroRecord, SessionRecord
<1>b. ASSUME UNCHANGED <<_heros, doubled>>,
             \A t \in Tickets : \/ m_Onlines'[t] = None
                                \/ /\ m_Onlines[t] # None
                                   /\ m_Onlines'[t].hero = m_Onlines[t].hero
      PROVE  SessionInv'
  BY <1>b DEF HeroLoaded, OneSession, SessionOfHero
<1>c. ASSUME NEW S, m_Onlines' = Removed(S), UNCHANGED <<_heros, doubled>> PROVE SessionInv'
  BY <1>c, <1>b DEF Removed
<1>1. ASSUME NEW c \in Conns, parseGateRegister(c) PROVE SessionInv'
  BY <1>1, <1>b DEF parseGateRegister
<1>2. ASSUME NEW c \in Conns, GateOnClose(c) PROVE SessionInv'
  BY <1>2, <1>b, <1>c DEF GateOnClose, removeGate
<1>3. ASSUME NEW c \in Conns, NEW t \in Tickets, addUser(c, t) PROVE SessionInv'
  <2>1. CASE m_Onlines[t] = None
    <3> DEFINE a == AccountOf[t]
    <3>1. /\ m_Onlines'[t].hero <=> _heros[a] # None
          /\ \A u \in Tickets : u # t => m_Onlines'[u] = m_Onlines[u]
          /\ doubled' = doubled \cup (IF Sessions(a) = {} THEN {} ELSE {a})
      <4>1. /\ m_Onlines' = [m_Onlines EXCEPT ![t] =
                    [gate |-> GateOf[c], state |-> "online", hero |-> _heros[a] # None]]
            /\ doubled' = doubled \cup (IF Sessions(a) = {} THEN {} ELSE {a})
        BY <1>3, <2>1 DEF addUser
      <4>2. m_Onlines'[t] = [gate |-> GateOf[c], state |-> "online", hero |-> _heros[a] # None]
        BY <1>a, <4>1
      <4>3. m_Onlines'[t].hero <=> _heros[a] # None
        <5> DEFINE b == _heros[a] # None
        <5>1. \A x : [gate |-> GateOf[c], state |-> "online", hero |-> x].hero = x
          OBVIOUS
        <5>2. m_Onlines'[t].hero = b
          BY <4>2, <5>1, Zenon
        <5> QED  BY <5>2, Zenon
      <4> QED  BY <1>a, <4>1, <4>3
    <3>2. \/ _heros[a] # None /\ _heros' = [_heros EXCEPT ![a].session = t]
          \/ _heros[a] = None /\ _heros' = _heros
      BY <1>3, <2>1 DEF addUser, Session
    <3>3. \A b \in Accounts : /\ _heros'[b] # None <=> _heros[b] # None
                              /\ b # a => _heros'[b] = _heros[b]
      BY <1>a, <3>2 DEF HeroRecord
    <3>4. _heros[a] # None => _heros'[a].session = t
      BY <1>a, <3>2 DEF HeroRecord
    <3>5. a \in Accounts /\ \A u \in Tickets : AccountOf[u] \in Accounts
      OBVIOUS
    <3>6. \A u \in Tickets : u # t /\ m_Onlines[u] # None /\ AccountOf[u] = a => a \in doubled'
      BY <3>1 DEF Sessions
    <3> HIDE DEF a
    <3>7. HeroLoaded'
      BY <3>1, <3>3, <3>5 DEF HeroLoaded, a
    <3>8. OneSession'
      BY <3>1, <3>5, <3>6 DEF OneSession, a
    <3>9. SessionOfHero'
      BY <3>1, <3>3, <3>4, <3>5, <3>6 DEF SessionOfHero, a
    <3> QED  BY <3>7, <3>8, <3>9
  <2>2. CASE m_Onlines[t] # None
    <3>1. /\ UNCHANGED <<_heros, doubled>>
          /\ m_Onlines' = m_Onlines \/ m_Onlines' = [m_Onlines EXCEPT ![t].state = "online"]
      BY <1>3, <2>2 DEF addUser
    <3> QED  BY <1>a, <1>b, <2>2, <3>1 DEF SessionRecord
  <2> QED  BY <2>1, <2>2
<1>4. ASSUME NEW c \in Conns, NEW t \in Tickets, removeUser(c, t) PROVE SessionInv'
  BY <1>4, <1>c DEF removeUser
<1>5. ASSUME Crash, UNCHANGED doubled PROVE SessionInv'
  BY <1>5 DEF Crash, HeroLoaded, OneSession, SessionOfHero
<1>6. ASSUME NEW c \in Conns, NEW t \in Tickets, offlineUser(c, t) PROVE SessionInv'
  <2>1. CASE m_Onlines[t].hero
    <3>1. UNCHANGED <<_heros, doubled>> /\ m_Onlines' = [m_Onlines EXCEPT ![t].state = "offline"]
          /\ m_Onlines[t] # None
      BY <1>6, <2>1 DEF offlineUser
    <3> QED  BY <1>a, <1>b, <3>1 DEF SessionRecord
  <2> QED  BY <1>5, <1>6, <2>1 DEF offlineUser
<1>7. ASSUME NEW t \in Tickets, ModifySuit(t) PROVE SessionInv'
  <2>1. PICK s \in {"own", "bare", _heros[AccountOf[t]].suits} :
           /\ UNCHANGED <<m_Onlines, doubled>>
           /\ _heros' = [_heros EXCEPT ![AccountOf[t]].ver = @ + 1, ![AccountOf[t]].suits = s]
        /\ _heros[AccountOf[t]] # None
    BY <1>7 DEF ModifySuit, HeroLoaded
  <2>2. \A a \in Accounts : _heros[a] # None => _heros'[a] # None /\ _heros'[a].session = _heros[a].session
    <3>1. \A a \in Accounts : _heros[a] # None => _heros'[a] # None
      <4>1. _heros[AccountOf[t]].ver + 1 \in 1 .. MaxVersion
        BY <1>7, <1>a, <2>1 DEF ModifySuit, HeroRecord
      <4>2. [_heros[AccountOf[t]] EXCEPT !.ver = @ + 1, !.suits = s] \in HeroRecord
        <5>1. _heros[AccountOf[t]] \in HeroRecord
          BY <1>a, <2>1
        <5>2. \A h \in HeroRecord, v \in 1 .. MaxVersion, u \in Suits :
                 h.suits \in Suits /\ [h EXCEPT !.ver = v, !.suits = u] \in HeroRecord
          BY DEF HeroRecord
        <5>3. s \in Suits
          BY <2>1, <4>1, <5>1, <5>2 DEF Suits
        <5> QED  BY <4>1, <5>1, <5>2, <5>3
      <4> QED  BY <1>a, <2>1, <4>2
    <3> QED  BY <1>a, <2>1, <3>1 DEF HeroRecord
  <2> QED  BY <2>1, <2>2 DEF HeroLoaded, OneSession, SessionOfHero
<1>8. ASSUME NEW t \in Tickets, NEW v \in 1 .. MaxVersion, NEW s \in Suits, Answered(t, v, s) PROVE SessionInv'
  <2>1. CASE m_Onlines[t] # None
    <3> DEFINE a == AccountOf[t]
    <3>1. /\ \A u \in Tickets : u # t => m_Onlines'[u] = m_Onlines[u]
          /\ UNCHANGED doubled
      BY <1>8, <1>a, <2>1 DEF Answered
    <3>2. _heros' = CreateHero(a, t, v, s)
      BY <1>8, <2>1 DEF Answered
    <3>3. _heros'[a].session = t /\ \A b \in Accounts : b # a => _heros'[b] = _heros[b]
      BY <1>a, <3>2 DEF CreateHero, HeroRecord
    <3>4. _heros'[a] # None
      <4>1. None # [ver |-> v, suits |-> s, session |-> t]
        BY <1>a DEF HeroRecord
      <4> QED  BY <1>a, <3>2, <4>1 DEF CreateHero, HeroRecord
    <3>5. a \in Accounts /\ \A u \in Tickets : AccountOf[u] \in Accounts
      OBVIOUS
    <3> HIDE DEF a
    <3>6. HeroLoaded'
      BY <3>1, <3>3, <3>4, <3>5 DEF HeroLoaded, a
    <3>7. OneSession'
      BY <3>1, <2>1 DEF OneSession
    <3>8. SessionOfHero'
      BY <2>1, <3>1, <3>3, <3>5 DEF SessionOfHero, OneSession, a
    <3> QED  BY <3>6, <3>7, <3>8
  <2> QED  BY <1>8, <1>b, <2>1 DEF Answered
<1>9. CASE parseQueryHeroInfo \/ parseNeedCreateHero
  <2>1. fromDB # <<>> /\ Head(fromDB) \in FromDBMessage
    BY <1>9, <1>a, Rest DEF parseQueryHeroInfo, parseNeedCreateHero, Receives
  <2>2. CASE parseQueryHeroInfo
    <3>1. /\ Head(fromDB).ticket \in Tickets /\ Head(fromDB).ver \in 1 .. MaxVersion
          /\ Head(fromDB).suits \in Suits
      BY <2>1, <2>2, AnswerFields DEF parseQueryHeroInfo, Receives
    <3> QED  BY <1>8, <2>2, <3>1 DEF parseQueryHeroInfo
  <2>3. CASE parseNeedCreateHero
    <3>1. Head(fromDB).ticket \in Tickets /\ FromConfig \in 1 .. MaxVersion /\ "bare" \in Suits
      BY <2>1, <2>3, AnswerFields DEF parseNeedCreateHero, Receives, FromConfig, Suits
    <3> QED  BY <1>8, <2>3, <3>1 DEF parseNeedCreateHero
  <2> QED  BY <1>9, <2>2, <2>3
<1>10. CASE parseMsgSaveAllHeroes \/ setStop \/ checkStop
  BY <1>10, <1>b DEF parseMsgSaveAllHeroes, setStop, checkStop
<1>11. ASSUME NEW a \in Accounts, SaveHero(a) PROVE SessionInv'
  BY <1>11, <1>b DEF SaveHero
<1>12. CASE GameCrashes
  BY <1>12, <1>5 DEF GameCrashes
<1>13. CASE GameStarts
  BY <1>13 DEF GameStarts, HeroLoaded, OneSession, SessionOfHero
<1>14. CASE DBSide
  BY <1>14, <1>b, DBSideFrame
<1>15. CASE LinkLost \/ on_close \/ on_connect
  BY <1>15, <1>b, LinkFrame
<1>16. CASE Ended \/ UNCHANGED vars
  BY <1>16, <1>b DEF Ended, vars
<1> QED
  BY <1>1, <1>2, <1>3, <1>4, <1>6, <1>7, <1>9, <1>10, <1>11, <1>12, <1>13, <1>14, <1>15, <1>16
     DEF Next, FromGate, FromDatabaseServer, DBSide

-----------------------------------------------------------------------------
(* What a step may do to the saves on their way from memory to the rows.   *)

(* m carries the hero of a as it is in memory.                             *)
InMemoryAs(m, a) == _heros[a] # None /\ m.ver = _heros[a].ver /\ m.suits = _heros[a].suits

Sends(r) ==
    /\ r \in Seq(ToDBMessage) /\ toDB' = toDB \o r
    /\ \A i \in 1 .. Len(r), a \in Accounts :
          IsSave(r[i], a) => InMemoryAs(r[i], a)
    /\ Has(r, "SaveAllHeroes") => setStop \/ checkStop
    /\ UNCHANGED <<saves, character, suits_name, _heros, misread>>

Hears ==
    /\ toDB # <<>> /\ toDB' = Tail(toDB)
    /\ saves' = saves \/ (Head(toDB) \in SaveTask /\ saves' = Append(saves, Head(toDB)))
    /\ Head(toDB).type = "SaveData" /\ db = "run" => saves' = Append(saves, Head(toDB))
    /\ UNCHANGED <<character, suits_name, _heros, misread>>

Loses == toDB' = <<>> /\ UNCHANGED <<saves, character, suits_name, _heros, misread>>

Stores ==
    /\ saves # <<>> /\ saves' = Tail(saves)
    /\ \/ /\ character' = [character EXCEPT ![Head(saves).account] = Head(saves).ver]
          /\ suits_name' = [suits_name EXCEPT ![Head(saves).account] = Head(saves).suits]
       \/ UNCHANGED <<character, suits_name>> /\ errors' = errors + 1
    /\ UNCHANGED <<toDB, _heros, misread>>

(* SaveHero and SaveDreamHeroes send what is in memory.                    *)
LEMMA SendsInMemory ==
    ASSUME TypeOK
    PROVE  /\ \A t \in Tickets : \A i \in 1 .. Len(<<ReqHeroData(t)>>), a \in Accounts :
                 ~IsSave(<<ReqHeroData(t)>>[i], a)
           /\ \A i \in 1 .. Len(<<ServerRegister>>), a \in Accounts : ~IsSave(<<ServerRegister>>[i], a)
           /\ \A b \in Accounts : \A i \in 1 .. Len(<<HeroSave(b)>>), a \in Accounts :
                 IsSave(<<HeroSave(b)>>[i], a) =>
                     /\ a = b /\ <<HeroSave(b)>>[i].ver = _heros[a].ver
                     /\ <<HeroSave(b)>>[i].suits = _heros[a].suits
           /\ \A i \in 1 .. Len(AllHeroes \o <<SaveAllHeroes>>), a \in Accounts :
                 IsSave((AllHeroes \o <<SaveAllHeroes>>)[i], a) =>
                     /\ _heros[a] # None
                     /\ (AllHeroes \o <<SaveAllHeroes>>)[i].ver = _heros[a].ver
                     /\ (AllHeroes \o <<SaveAllHeroes>>)[i].suits = _heros[a].suits
           /\ \A t \in Tickets : ~Has(<<ReqHeroData(t)>>, "SaveAllHeroes")
           /\ \A a \in Accounts : ~Has(<<HeroSave(a)>>, "SaveAllHeroes")
           /\ ~Has(<<ServerRegister>>, "SaveAllHeroes")
<1>1. \A m : Len(<<m>>) = 1 /\ <<m>>[1] = m /\ \A i \in 1 .. Len(<<m>>) : <<m>>[i] = m
  OBVIOUS
<1>2. /\ \A t \in Tickets : \A a : ~IsSave(ReqHeroData(t), a)
      /\ \A a : ~IsSave(ServerRegister, a)
      /\ \A a : ~IsSave(SaveAllHeroes, a)
      /\ \A a, b : /\ HeroSave(b).ver = _heros[b].ver /\ HeroSave(b).suits = _heros[b].suits
                   /\ IsSave(HeroSave(b), a) => a = b
  BY DEF IsSave, ReqHeroData, ServerRegister, SaveAllHeroes, SaveData, HeroSave
<1>3. ASSUME NEW i \in 1 .. Len(AllHeroes \o <<SaveAllHeroes>>), NEW a \in Accounts,
             IsSave((AllHeroes \o <<SaveAllHeroes>>)[i], a)
      PROVE  /\ _heros[a] # None
             /\ (AllHeroes \o <<SaveAllHeroes>>)[i].ver = _heros[a].ver
             /\ (AllHeroes \o <<SaveAllHeroes>>)[i].suits = _heros[a].suits
  <2>1. AllHeroes \in Seq(ToDBMessage) /\ <<SaveAllHeroes>> \in Seq(ToDBMessage)
    BY Sendable, Fields
  <2>2. /\ \A j \in 1 .. Len(AllHeroes) :
              j \in 1 .. Len(AllHeroes \o <<SaveAllHeroes>>)
                /\ (AllHeroes \o <<SaveAllHeroes>>)[j] = AllHeroes[j]
        /\ \A j \in 1 .. Len(<<SaveAllHeroes>>) :
              Len(AllHeroes) + j \in 1 .. Len(AllHeroes \o <<SaveAllHeroes>>)
                /\ (AllHeroes \o <<SaveAllHeroes>>)[Len(AllHeroes) + j] = <<SaveAllHeroes>>[j]
        /\ \A k \in 1 .. Len(AllHeroes \o <<SaveAllHeroes>>) :
              k \in 1 .. Len(AllHeroes) \/ \E j \in 1 .. Len(<<SaveAllHeroes>>) : k = Len(AllHeroes) + j
    BY <2>1, Behind, SMTT(20)
  <2>3. i \in 1 .. Len(AllHeroes)
    BY <1>1, <1>2, <1>3, <2>2
  <2>4. PICK b \in Accounts : _heros[b] # None /\ AllHeroes[i] = HeroSave(b)
    BY <2>3, AllSaved
  <2> QED  BY <1>2, <1>3, <2>2, <2>3, <2>4
<1>4. /\ \A t \in Tickets : ReqHeroData(t).type # "SaveAllHeroes"
      /\ \A a : HeroSave(a).type # "SaveAllHeroes"
      /\ ServerRegister.type # "SaveAllHeroes"
  BY DEF ReqHeroData, HeroSave, SaveData, ServerRegister
<1>5. /\ \A t \in Tickets : ~Has(<<ReqHeroData(t)>>, "SaveAllHeroes")
      /\ \A a \in Accounts : ~Has(<<HeroSave(a)>>, "SaveAllHeroes")
      /\ ~Has(<<ServerRegister>>, "SaveAllHeroes")
  BY <1>1, <1>4 DEF Has
<1> QED  BY <1>1, <1>2, <1>3, <1>5

(* The hero of a stays in memory, and what it is changes with its version. *)
Keeps(a) ==
    /\ _heros[a] # None /\ _heros[a].ver <= _heros'[a].ver
    /\ _heros'[a].ver = _heros[a].ver => _heros'[a].suits = _heros[a].suits

(* A hero that is made is new, or what the database server has sent.       *)
Made(v, s, a) == (v = FromConfig /\ s = "bare") \/ Sent(v, s, a)

(* Every step is one of these, or leaves the saves alone; a hero that is   *)
(* made is as new as all there is, or remembered as misread.               *)
LEMMA SaveSteps ==
    ASSUME TypeOK, LinkEnds, HeroLoaded, [Next]_vars
    PROVE  /\ \/ UNCHANGED <<toDB, saves, character, suits_name>>
              \/ \E r : Sends(r)
              \/ Hears \/ Loses \/ Stores
           /\ misread \subseteq misread'
           /\ \A a \in Accounts :
                 \/ _heros'[a] = None
                 \/ Keeps(a)
                 \/ /\ _heros[a] = None /\ UNCHANGED <<toDB, saves, character, suits_name>>
                    /\ a \in misread' \/ Below(_heros'[a].ver, character[a], saves, toDB, a)
                    /\ Made(_heros'[a].ver, _heros'[a].suits, a)
<1> DEFINE P == /\ \/ UNCHANGED <<toDB, saves, character, suits_name>>
                   \/ \E r : Sends(r)
                   \/ Hears \/ Loses \/ Stores
                /\ misread \subseteq misread'
                /\ \A a \in Accounts :
                      \/ _heros'[a] = None
                      \/ Keeps(a)
                      \/ /\ _heros[a] = None /\ UNCHANGED <<toDB, saves, character, suits_name>>
                         /\ a \in misread' \/ Below(_heros'[a].ver, character[a], saves, toDB, a)
                         /\ Made(_heros'[a].ver, _heros'[a].suits, a)
<1> SUFFICES P
  OBVIOUS
<1> USE GameAssumption DEF linkVars, rowVars, taskVars, dbVars, historyVars
<1>a. /\ _heros \in [Accounts -> {None} \cup HeroRecord]
      /\ None \notin HeroRecord /\ \A h \in HeroRecord : h.ver \in 1 .. MaxVersion
      /\ toDB \in Seq(ToDBMessage) /\ fromDB \in Seq(FromDBMessage) /\ saves \in Seq(SaveTask)
      /\ character \in [Accounts -> 0 .. MaxVersion]
  BY TypeParts DEF HeroType, LinkType, DBType, HeroRecord
<1>b. \A a \in Accounts : _heros[a] # None => _heros[a].ver <= _heros[a].ver
  BY <1>a
<1>e. ASSUME \A a \in Accounts :
                \/ _heros'[a] = _heros[a]
                \/ /\ _heros[a] # None /\ _heros'[a].ver = _heros[a].ver
                   /\ _heros'[a].suits = _heros[a].suits
      PROVE  \A a \in Accounts : _heros'[a] = None \/ Keeps(a)
  BY <1>b, <1>e DEF Keeps
<1>c. ASSUME UNCHANGED <<_heros, misread>>,
             \/ UNCHANGED <<toDB, saves, character, suits_name>>
             \/ \E r : Sends(r)
             \/ Hears \/ Loses \/ Stores
      PROVE  P
  BY <1>e, <1>c
<1>d. ASSUME NEW r \in Seq(ToDBMessage), ToDB(r), UNCHANGED <<saves, character, suits_name, _heros, misread>>,
             \A i \in 1 .. Len(r), a \in Accounts :
                 IsSave(r[i], a) => InMemoryAs(r[i], a),
             Has(r, "SaveAllHeroes") => setStop \/ checkStop
      PROVE  P
  <2>1. toDB' = toDB \/ Sends(r)
    BY <1>d DEF ToDB, Sends
  <2> HIDE DEF P
  <2> QED  BY <1>c, <1>d, <2>1
<1>1. ASSUME NEW c \in Conns, parseGateRegister(c) \/ GateOnClose(c) PROVE P
  BY <1>1, <1>c DEF parseGateRegister, GateOnClose
<1>2. ASSUME NEW c \in Conns, NEW t \in Tickets, addUser(c, t) PROVE P
  <2>1. UNCHANGED <<saves, character, suits_name, misread>>
    BY <1>2 DEF addUser
  <2>2. CASE ToDB(<<ReqHeroData(t)>>) /\ UNCHANGED _heros
    BY <1>d, <2>1, <2>2, Sendable, SendsInMemory
  <2>3. CASE _heros[AccountOf[t]] # None /\ _heros' = [_heros EXCEPT ![AccountOf[t]].session = t]
               /\ UNCHANGED toDB
    <3>1. \A a \in Accounts :
             \/ _heros'[a] = _heros[a]
             \/ /\ _heros[a] # None /\ _heros'[a].ver = _heros[a].ver
                /\ _heros'[a].suits = _heros[a].suits
      BY <1>a, <2>3 DEF HeroRecord
    <3>2. \A a \in Accounts : _heros'[a] = None \/ Keeps(a)
      BY <1>e, <3>1
    <3> QED  BY <2>1, <2>3, <3>2
  <2>4. CASE UNCHANGED <<_heros, toDB>>
    BY <1>c, <2>1, <2>4
  <2> QED  BY <1>2, <2>2, <2>3, <2>4 DEF addUser, Session
<1>3. ASSUME Crash, UNCHANGED <<toDB, saves, character, suits_name, misread>> PROVE P
  BY <1>3 DEF Crash
<1>4. ASSUME NEW c \in Conns, NEW t \in Tickets, removeUser(c, t) \/ offlineUser(c, t) PROVE P
  BY <1>4, <1>c, <1>3 DEF removeUser, offlineUser
<1>5. ASSUME NEW t \in Tickets, ModifySuit(t) PROVE P
  <2>1. UNCHANGED <<toDB, saves, character, suits_name, misread>> /\ _heros[AccountOf[t]] # None
    BY <1>5 DEF ModifySuit, HeroLoaded
  <2>2. PICK s : _heros' = [_heros EXCEPT ![AccountOf[t]].ver = @ + 1, ![AccountOf[t]].suits = s]
    BY <1>5 DEF ModifySuit
  <2>3. \A a \in Accounts : _heros[a] = _heros'[a] \/ (_heros[a] # None /\ _heros'[a].ver = _heros[a].ver + 1)
    BY <1>a, <2>1, <2>2 DEF HeroRecord
  <2>4. \A a \in Accounts : _heros'[a] = None \/ Keeps(a)
    <3>1. \A a \in Accounts : _heros[a] # None =>
             /\ _heros[a].ver <= _heros[a].ver /\ _heros[a].ver <= _heros[a].ver + 1
             /\ _heros[a].ver # _heros[a].ver + 1
      BY <1>a
    <3> QED  BY ONLY <2>3, <3>1 DEF Keeps
  <2> QED  BY <2>1, <2>4
<1>6. ASSUME NEW t \in Tickets, NEW v \in 1 .. MaxVersion, NEW s \in Suits, Answered(t, v, s),
             Made(v, s, AccountOf[t])
      PROVE  P
  <2>1. CASE m_Onlines[t] # None
    <3> DEFINE a == AccountOf[t]
    <3>1. /\ _heros' = CreateHero(a, t, v, s) /\ UNCHANGED <<toDB, saves, character, suits_name>>
          /\ misread' = misread \cup
               (IF _heros[a] = None /\ \E w \in {character[a]} \cup Queued(a) \cup Heard(a) : w > v
                THEN {a} ELSE {})
      BY <1>6, <2>1 DEF Answered
    <3>2. a \in Accounts
      OBVIOUS
    <3>3. CASE _heros[a] # None
      <4>1. _heros' = [_heros EXCEPT ![a].session = t] /\ misread' = misread
        BY <3>1, <3>3 DEF CreateHero
      <4>2. \A b \in Accounts :
               \/ _heros'[b] = _heros[b]
               \/ /\ _heros[b] # None /\ _heros'[b].ver = _heros[b].ver
                  /\ _heros'[b].suits = _heros[b].suits
        BY <1>a, <3>3, <4>1 DEF HeroRecord
      <4>3. \A b \in Accounts : _heros'[b] = None \/ Keeps(b)
        BY <1>e, <4>2
      <4> QED  BY <3>1, <4>1, <4>3
    <3>4. CASE _heros[a] = None
      <4>1. /\ _heros'[a].ver = v /\ _heros'[a].suits = s
            /\ \A b \in Accounts : b # a => _heros'[b] = _heros[b]
        BY <1>a, <3>1, <3>2, <3>4 DEF CreateHero
      <4>2. misread \subseteq misread'
        BY <3>1
      <4>3. a \in misread' \/ Below(v, character[a], saves, toDB, a)
        <5> SUFFICES ASSUME a \notin misread' PROVE Below(v, character[a], saves, toDB, a)
          OBVIOUS
        <5>1. \A w \in {character[a]} \cup Queued(a) \cup Heard(a) : ~(w > v)
          BY <3>1, <3>4
        <5>2. /\ \A i \in 1 .. Len(saves) : IsSave(saves[i], a) => saves[i].ver \in Queued(a)
              /\ \A i \in 1 .. Len(toDB) : IsSave(toDB[i], a) => toDB[i].ver \in Heard(a)
          BY DEF Queued, Heard, IsSave
        <5>3. /\ \A i \in 1 .. Len(saves) : IsSave(saves[i], a) => saves[i].ver \in Nat
              /\ \A i \in 1 .. Len(toDB) : IsSave(toDB[i], a) => toDB[i].ver \in Nat
          <6>1. /\ \A i \in 1 .. Len(saves) : saves[i] \in SaveTask
                /\ \A i \in 1 .. Len(toDB) : toDB[i] \in ToDBMessage
            BY <1>a, ElementOfSeq
          <6>2. MaxVersion \in Nat /\ \A k \in 1 .. MaxVersion : k \in Nat
            OBVIOUS
          <6> QED  BY <6>1, <6>2, Fields DEF IsSave
        <5>4. character[a] \in Nat /\ \A w \in Nat : ~(w > v) => w <= v
          BY <1>a, <3>2
        <5> QED  BY <5>1, <5>2, <5>3, <5>4 DEF Below
      <4>4. Made(_heros'[a].ver, _heros'[a].suits, a)
        BY <1>6, <4>1
      <4>5. \A b \in Accounts : b # a => _heros'[b] = None \/ Keeps(b)
        BY <1>b, <4>1 DEF Keeps
      <4> HIDE DEF a
      <4>6. a \in misread' \/ Below(_heros'[a].ver, character[a], saves, toDB, a)
        BY <4>1, <4>3
      <4> QED  BY <3>1, <3>4, <4>2, <4>4, <4>5, <4>6
    <3> QED  BY <3>3, <3>4
  <2>2. CASE m_Onlines[t] = None
    BY <1>6, <1>c, <2>2 DEF Answered
  <2> QED  BY <2>1, <2>2
<1>7. CASE parseQueryHeroInfo \/ parseNeedCreateHero
  <2>1. fromDB # <<>> /\ Head(fromDB) \in FromDBMessage
    BY <1>7, <1>a, Rest DEF parseQueryHeroInfo, parseNeedCreateHero, Receives
  <2>2. Head(fromDB) \in Elems(fromDB)
    BY <1>a, <2>1, Rest DEF Elems
  <2> HIDE DEF P
  <2>3. CASE parseQueryHeroInfo
    <3>1. /\ Head(fromDB).type = "HeroData" /\ Head(fromDB).ticket \in Tickets
          /\ Head(fromDB).ver \in 1 .. MaxVersion /\ Head(fromDB).suits \in Suits
          /\ Answered(Head(fromDB).ticket, Head(fromDB).ver, Head(fromDB).suits)
      BY <2>1, <2>3, AnswerFields DEF parseQueryHeroInfo, Receives
    <3>2. Made(Head(fromDB).ver, Head(fromDB).suits, AccountOf[Head(fromDB).ticket])
      BY <2>2, <3>1 DEF Made, Sent
    <3> QED  BY <1>6, <3>1, <3>2
  <2>4. CASE parseNeedCreateHero
    <3>1. /\ Head(fromDB).ticket \in Tickets /\ FromConfig \in 1 .. MaxVersion /\ "bare" \in Suits
          /\ Answered(Head(fromDB).ticket, FromConfig, "bare")
      BY <2>1, <2>4, AnswerFields DEF parseNeedCreateHero, Receives, FromConfig, Suits
    <3>2. Made(FromConfig, "bare", AccountOf[Head(fromDB).ticket])
      BY DEF Made
    <3> QED  BY <1>6, <3>1, <3>2
  <2> QED  BY <1>7, <2>3, <2>4
<1>8. CASE parseMsgSaveAllHeroes
  BY <1>8, <1>c DEF parseMsgSaveAllHeroes
<1> HIDE DEF P
<1>9. ASSUME NEW b \in Accounts, SaveHero(b) PROVE P
  <2>1. /\ _heros[b] # None /\ ToDB(<<HeroSave(b)>>)
        /\ UNCHANGED <<saves, character, suits_name, _heros, misread>>
    BY <1>9 DEF SaveHero
  <2> DEFINE r == <<HeroSave(b)>>
  <2>2. r \in Seq(ToDBMessage) /\ ToDB(r)
    BY <2>1, Sendable
  <2>3. \A i \in 1 .. Len(r), a \in Accounts : IsSave(r[i], a) => InMemoryAs(r[i], a)
    BY <2>1, SendsInMemory DEF InMemoryAs
  <2>4. ~Has(r, "SaveAllHeroes")
    BY SendsInMemory
  <2> HIDE DEF r
  <2> QED  BY <1>d, <2>1, <2>2, <2>3, <2>4
<1>10. CASE setStop \/ checkStop
  <2> DEFINE r == AllHeroes \o <<SaveAllHeroes>>
  <2>1. ToDB(r) /\ UNCHANGED <<saves, character, suits_name, _heros, misread>>
    BY <1>10 DEF setStop, checkStop, SaveDreamHeroes
  <2>2. r \in Seq(ToDBMessage)
    BY Sendable
  <2>3. \A i \in 1 .. Len(r), a \in Accounts : IsSave(r[i], a) => InMemoryAs(r[i], a)
    BY SendsInMemory DEF InMemoryAs
  <2> HIDE DEF r
  <2> QED  BY <1>d, <1>10, <2>1, <2>2, <2>3
<1>11. CASE on_connect
  <2>1. toDB' = toDB \o <<ServerRegister>> /\ <<ServerRegister>> \in Seq(ToDBMessage)
    BY <1>11, Fields DEF on_connect, LinkEnds
  <2>2. Sends(<<ServerRegister>>)
    BY <1>11, <2>1, SendsInMemory DEF on_connect, Sends
  <2>3. UNCHANGED <<_heros, misread>>
    BY <1>11, LinkFrame
  <2> QED  BY <1>c, <2>2, <2>3
<1>12. CASE LinkLost \/ on_close
  <2>1. Loses
    BY <1>12 DEF LinkLost, on_close, LinkCloses, Loses
  <2> QED  BY <1>c, <2>1 DEF Loses
<1>13. CASE GameCrashes
  BY <1>13, <1>3 DEF GameCrashes
<1>14. CASE GameStarts
  <2>1. UNCHANGED <<toDB, saves, character, suits_name, misread>> /\ \A a \in Accounts : _heros'[a] = None
    BY <1>14 DEF GameStarts
  <2> QED  BY <2>1 DEF P
<1>15. CASE DatabaseServer
  <2>1. UNCHANGED <<_heros, misread>>
    BY <1>15, DBSideFrame DEF DBSide
  <2>2. CASE parseGameRegister \/ queryHeroInfo \/ saveToClose
    <3>1. Hears
      BY <2>1, <2>2 DEF parseGameRegister, queryHeroInfo, saveToClose, DBHears, Hears
    <3> QED  BY <1>c, <2>1, <3>1
  <2>3. CASE saveSqlData
    <3>1. Head(toDB) \in SaveTask
      BY <1>a, <2>3, Rest, Fields DEF saveSqlData, DBHears
    <3>2. Hears
      BY <2>1, <2>3, <3>1 DEF saveSqlData, DBHears, Hears, addTask
    <3> QED  BY <1>c, <2>1, <3>2
  <2>4. CASE DBStops
    BY <1>c, <2>1, <2>4 DEF DBStops
  <2> QED  BY <1>15, <2>2, <2>3, <2>4 DEF DatabaseServer
<1>16. CASE onSaveToClose
  BY <1>16, <1>c, DBSideFrame DEF onSaveToClose, DBSide
<1>17. CASE LoadWorker
  BY <1>17, <1>c, DBSideFrame
     DEF LoadWorker, DBSide, dbDoQueryHeroInfo, dbDoQueryHeroEquips, dbDoQuerryHeroToys, QueryFails, Load
<1>18. CASE SaveWorker
  <2>1. UNCHANGED <<_heros, misread>>
    BY <1>18, DBSideFrame DEF DBSide
  <2>2. Stores
    BY <1>18, <2>1 DEF SaveWorker, Stores
  <2> QED  BY <1>c, <2>1, <2>2
<1>19. CASE Ended \/ UNCHANGED vars
  BY <1>19, <1>c DEF Ended, vars
<1> QED
  BY <1>1, <1>2, <1>4, <1>5, <1>7, <1>8, <1>9, <1>10, <1>11, <1>12, <1>13, <1>14, <1>15, <1>16, <1>17,
     <1>18, <1>19
     DEF Next, FromGate, FromDatabaseServer

(* What is stored, queued, sent and in memory stays in ascending order.    *)
LEMMA VersionsStep ==
    TypeOK /\ LinkEnds /\ HeroLoaded /\ VersionsAscend /\ [Next]_vars => VersionsAscend'
<1> SUFFICES ASSUME TypeOK, LinkEnds, HeroLoaded, VersionsAscend, [Next]_vars,
                    NEW a \in Accounts, a \notin misread'
             PROVE  /\ Ascends(character'[a], saves', toDB', a)
                    /\ _heros'[a] # None => Below(_heros'[a].ver, character'[a], saves', toDB', a)
  BY DEF VersionsAscend
<1>a. /\ _heros[a] # None => _heros[a].ver \in Nat
      /\ toDB \in Seq(ToDBMessage) /\ saves \in Seq(SaveTask) /\ character[a] \in Nat
      /\ character \in [Accounts -> 0 .. MaxVersion]
  BY DEF TypeOK
<1>b. a \notin misread
  BY SaveSteps
<1>c. /\ Ascends(character[a], saves, toDB, a)
      /\ _heros[a] # None => Below(_heros[a].ver, character[a], saves, toDB, a)
  BY <1>b DEF VersionsAscend
<1>1. CASE UNCHANGED <<toDB, saves, character, suits_name>>
  <2>1. \/ _heros'[a] = None
        \/ _heros[a] # None /\ _heros[a].ver <= _heros'[a].ver
        \/ Below(_heros'[a].ver, character[a], saves, toDB, a)
    BY SaveSteps DEF Keeps
  <2>2. CASE _heros'[a] # None /\ _heros[a] # None /\ _heros[a].ver <= _heros'[a].ver
    <3>1. _heros'[a].ver \in Nat
      BY <2>2, HeroTypeStep DEF HeroType, HeroRecord
    <3>2. /\ \A i \in 1 .. Len(saves) : IsSave(saves[i], a) => saves[i].ver \in Nat
          /\ \A i \in 1 .. Len(toDB) : IsSave(toDB[i], a) => toDB[i].ver \in Nat
      BY <1>a, Fields, ElementOfSeq DEF IsSave
    <3>3. \A x \in Nat : x <= _heros[a].ver => x <= _heros'[a].ver
      BY <1>a, <2>2, <3>1
    <3>4. Below(_heros'[a].ver, character[a], saves, toDB, a)
      BY <1>a, <1>c, <2>2, <3>2, <3>3 DEF Below
    <3> QED  BY <1>1, <1>c, <3>4
  <2> QED  BY <1>1, <1>c, <2>1, <2>2
<1>2. ASSUME NEW r, Sends(r)
      PROVE  /\ Ascends(character'[a], saves', toDB', a)
             /\ _heros'[a] # None => Below(_heros'[a].ver, character'[a], saves', toDB', a)
  <2> DEFINE h == IF _heros[a] # None THEN _heros[a].ver ELSE 0
  <2>1. /\ h \in Nat /\ r \in Seq(ToDBMessage)
        /\ \A i \in 1 .. Len(r) : IsSave(r[i], a) => r[i].ver = h /\ Below(h, character[a], saves, toDB, a)
    BY <1>2, <1>a, <1>c DEF Sends, InMemoryAs
  <2>2. _heros[a] # None => h = _heros[a].ver
    OBVIOUS
  <2> HIDE DEF h
  <2>3. /\ Ascends(character[a], saves, toDB \o r, a)
        /\ Below(h, character[a], saves, toDB, a) => Below(h, character[a], saves, toDB \o r, a)
    BY <1>a, <1>c, <2>1, AscendsSent
  <2> QED  BY <1>2, <1>c, <2>2, <2>3 DEF Sends
<1>3. CASE Hears
  <2>1. toDB # <<>>
    BY <1>3 DEF Hears
  <2>2. /\ Ascends(character[a], saves, Tail(toDB), a)
        /\ \A h : Below(h, character[a], saves, toDB, a) => Below(h, character[a], saves, Tail(toDB), a)
        /\ Head(toDB) \in SaveTask =>
             /\ Ascends(character[a], Append(saves, Head(toDB)), Tail(toDB), a)
             /\ \A h : Below(h, character[a], saves, toDB, a) =>
                  Below(h, character[a], Append(saves, Head(toDB)), Tail(toDB), a)
    BY <1>a, <1>c, <2>1, AscendsHeard
  <2> QED  BY <1>3, <1>c, <2>2 DEF Hears
<1>4. CASE Loses
  <2>1. /\ Ascends(character[a], saves, <<>>, a)
        /\ \A h : Below(h, character[a], saves, toDB, a) => Below(h, character[a], saves, <<>>, a)
    BY <1>c, AscendsLost
  <2> QED  BY <1>4, <1>c, <2>1 DEF Loses
<1>5. CASE Stores
  <2>1. saves # <<>>
    BY <1>5 DEF Stores
  <2>2. /\ Ascends(character[a], Tail(saves), toDB, a)
        /\ \A h : Below(h, character[a], saves, toDB, a) => Below(h, character[a], Tail(saves), toDB, a)
        /\ Head(saves).account = a =>
             /\ Ascends(Head(saves).ver, Tail(saves), toDB, a)
             /\ \A h : Below(h, character[a], saves, toDB, a) => Below(h, Head(saves).ver, Tail(saves), toDB, a)
    BY <1>a, <1>c, <2>1, AscendsStored
  <2>3. \/ character'[a] = character[a]
        \/ Head(saves).account = a /\ character'[a] = Head(saves).ver
    BY <1>5, <1>a DEF Stores
  <2> QED  BY <1>5, <1>c, <2>2, <2>3 DEF Stores
<1> QED  BY <1>1, <1>2, <1>3, <1>4, <1>5, SaveSteps

(* The row of an account never gets older.                                 *)
LEMMA RowStep ==
    ASSUME TypeOK, LinkEnds, HeroLoaded, VersionsAscend, [Next]_vars, NEW a \in Accounts, a \notin misread
    PROVE  character'[a] >= character[a]
<1>1. /\ character \in [Accounts -> 0 .. MaxVersion] /\ character[a] \in Nat
      /\ saves \in Seq(SaveTask) /\ MaxVersion \in Nat
  BY GameAssumption DEF TypeOK
<1>2. character' = character \/ Stores
  BY SaveSteps DEF Sends, Hears, Loses
<1>3. CASE Stores
  <2>1. saves # <<>>
    BY <1>3 DEF Stores
  <2>2. Head(saves).account = a => character[a] <= Head(saves).ver
    BY <1>1, <2>1, AscendsStored DEF VersionsAscend
  <2>3. Head(saves).ver \in Nat
    BY <1>1, <2>1, Rest, Fields
  <2>4. \/ character'[a] = character[a]
        \/ Head(saves).account = a /\ character'[a] = Head(saves).ver
    BY <1>3, <1>1 DEF Stores
  <2> QED  BY <1>1, <2>2, <2>3, <2>4
<1> QED  BY <1>1, <1>2, <1>3

(* Loads: a step adds what it reads back from the row, and answers what it *)
(* has loaded.                                                             *)
LEMMA LoadSteps ==
    ASSUME TypeOK, [Next]_vars, NEW a \in Accounts, NEW v \in 0 .. MaxVersion, NEW s \in Suits
    PROVE  /\ Loading(v, s, a)' =>
                \/ Loading(v, s, a)
                \/ v # NoRow /\ \E u \in Suits : Stored(v, u, a) /\ s = ReadBack(u)
           /\ Sent(v, s, a)' => Sent(v, s, a) \/ Loading(v, s, a)
<1> DEFINE L == Loading(v, s, a)' =>
                    \/ Loading(v, s, a)
                    \/ v # NoRow /\ \E u \in Suits : Stored(v, u, a) /\ s = ReadBack(u)
           F == Sent(v, s, a)' => Sent(v, s, a) \/ Loading(v, s, a)
<1> SUFFICES L /\ F
  OBVIOUS
<1> USE DEF linkVars, dbVars, taskVars
<1>a. /\ loads \in Seq(LoadTask) /\ fromDB \in Seq(FromDBMessage) /\ toDB \in Seq(ToDBMessage)
      /\ suits_name \in [Accounts -> Suits]
  BY DEF TypeOK
<1>b. ASSUME Elems(loads') \subseteq Elems(loads) PROVE L
  BY <1>b DEF Loading
<1>c. ASSUME Elems(fromDB') \subseteq Elems(fromDB) PROVE F
  BY <1>c DEF Sent
<1>d. ASSUME fromDB' = fromDB \/ fromDB' = <<>> \/ (fromDB # <<>> /\ fromDB' = Tail(fromDB)) PROVE F
  <2>1. fromDB # <<>> => Elems(Tail(fromDB)) \subseteq Elems(fromDB)
    BY <1>a, ElemsRest, SMTT(20)
  <2>2. Elems(fromDB') \subseteq Elems(fromDB)
    BY <1>d, <2>1, ElemsShort
  <2> HIDE DEF F
  <2> QED  BY <1>c, <2>2
<1>e. ASSUME NEW m \in FromDBMessage, ToGame(m),
             m.type = "HeroData" /\ AccountOf[m.ticket] = a /\ m.ver = v /\ m.suits = s => Loading(v, s, a)
      PROVE  F
  <2>1. ASSUME fromDB' = Append(fromDB, m) PROVE F
    <3>1. Elems(Append(fromDB, m)) = Elems(fromDB) \cup {m}
      BY ONLY <1>a, m \in FromDBMessage, ElemsAppend, SMT
    <3> QED  BY <1>e, <2>1, <3>1 DEF Sent
  <2>2. ASSUME fromDB' = fromDB PROVE F
    <3> HIDE DEF F
    <3> QED  BY <1>d, <2>2
  <2> QED  BY <1>e, <2>1, <2>2 DEF ToGame
<1> HIDE DEF L, F
<1>1. CASE Next /\ ~DBSide
  <2>1. loads' = loads
    BY <1>1, TaskFrame
  <2>2. ASSUME FromGate PROVE F
    BY <2>2, <1>d DEF FromGate, parseGateRegister, GateOnClose, addUser, removeUser, offlineUser, Crash
  <2>3. ASSUME FromDatabaseServer PROVE F
    BY <2>3, <1>d DEF FromDatabaseServer, parseQueryHeroInfo, parseNeedCreateHero, parseMsgSaveAllHeroes,
                      Answered, Receives
  <2>4. ASSUME \/ \E t \in Tickets : ModifySuit(t)
               \/ \E b \in Accounts : SaveHero(b)
               \/ setStop \/ checkStop \/ on_connect \/ LinkLost \/ on_close \/ GameCrashes
               \/ GameStarts \/ Ended
        PROVE  F
    BY <2>4, <1>d DEF ModifySuit, SaveHero, setStop, checkStop, on_connect, LinkLost, on_close, LinkCloses,
                      GameCrashes, Crash, GameStarts, Ended, vars
  <2>5. F
    BY <1>1, <2>2, <2>3, <2>4 DEF Next, DBSide
  <2> QED  BY <1>b, <2>1, <2>5
<1>2. CASE parseGameRegister \/ saveSqlData \/ DBStops \/ onSaveToClose \/ SaveWorker
  <2>1. loads' = loads /\ fromDB' = fromDB
    BY <1>2 DEF parseGameRegister, saveSqlData, DBStops, onSaveToClose, SaveWorker
  <2> QED  BY <1>b, <1>d, <2>1
<1>3. CASE saveToClose
  <2>1. loads' = loads /\ (fromDB' = fromDB \/ ToGame(SaveAllHeroes))
    BY <1>3 DEF saveToClose
  <2>2. SaveAllHeroes \in FromDBMessage /\ SaveAllHeroes.type # "HeroData"
    BY AnswerFields DEF SaveAllHeroes
  <2> QED  BY <1>b, <1>d, <1>e, <2>1, <2>2
<1>4. CASE queryHeroInfo
  <2> DEFINE m == HeroTask(Head(toDB).ticket, "hero", NoRow, "bare")
  <2>1. m \in LoadTask /\ m.stage = "hero"
    <3>1. Head(toDB) \in ToDBMessage /\ Head(toDB).type = "ReqHeroData"
      BY <1>4, <1>a, HeadTailProperties DEF queryHeroInfo, DBHears
    <3> QED  BY <3>1, Fields, LoadFields DEF HeroTask
  <2>2. fromDB' = fromDB /\ (loads' = loads \/ loads' = Append(loads, m))
    BY <1>4 DEF queryHeroInfo, addTask
  <2> HIDE DEF m
  <2>4. Elems(Append(loads, m)) = Elems(loads) \cup {m}
    BY ONLY <1>a, <2>1, ElemsAppend, SMT
  <2>5. Elems(loads') \subseteq Elems(loads) \cup {m}
    BY <2>2, <2>4
  <2>6. L
    BY <2>1, <2>5 DEF L, Loading
  <2> QED  BY <1>d, <2>2, <2>6
<1>5. ASSUME NEW stage, NEW next \in Seq(LoadTask), Load(stage, next),
             \A m \in Elems(next) : m.stage # "hero" /\ AccountOf[m.ticket] = a /\ m.ver = v /\ m.suits = s =>
                 \/ Loading(v, s, a)
                 \/ v # NoRow /\ \E u \in Suits : Stored(v, u, a) /\ s = ReadBack(u)
      PROVE  L /\ loads # <<>> /\ Head(loads) \in Elems(loads) /\ Head(loads) \in LoadTask /\ Head(loads).stage = stage
  <2>1. loads # <<>> /\ Head(loads).stage = stage /\ Head(loads) \in LoadTask /\ Tail(loads) \in Seq(LoadTask)
    BY <1>5, <1>a, HeadTailProperties DEF Load
  <2>2. Head(loads) \in Elems(loads) /\ Elems(Tail(loads)) \subseteq Elems(loads)
    BY <1>a, <2>1, ElemsRest, SMTT(20)
  <2>3. loads' = Tail(loads) \o next \/ loads' = Tail(loads) \o <<>>
    BY <1>5 DEF Load
  <2>4. /\ Elems(Tail(loads) \o next) = Elems(Tail(loads)) \cup Elems(next)
        /\ Tail(loads) \o <<>> = Tail(loads)
    <3>1. Elems(Tail(loads) \o next) = Elems(Tail(loads)) \cup Elems(next)
      <4> DEFINE rest == Tail(loads)
      <4>1. rest \in Seq(LoadTask)
        BY <2>1
      <4> HIDE DEF rest
      <4>2. Elems(rest \o next) = Elems(rest) \cup Elems(next)
        BY ONLY <4>1, next \in Seq(LoadTask), ElemsBehind, SMT
      <4> QED  BY <4>2 DEF rest
    <3> QED  BY <2>1, <3>1, ConcatEmptySeq
  <2>5. Elems(loads') \subseteq Elems(loads) \cup Elems(next)
    BY <2>2, <2>3, <2>4
  <2>6. L
    BY <1>5, <2>5 DEF L, Loading
  <2> QED  BY <2>1, <2>2, <2>6
<1>6. <<>> \in Seq(LoadTask) /\ Elems(<<>>) = {}
  BY ElemsShort, EmptySeq
<1>7. ASSUME loads # <<>>, Head(loads) \in LoadTask, ToGame(NeedCreateHero(Head(loads).ticket)) PROVE F
  <2>1. NeedCreateHero(Head(loads).ticket) \in FromDBMessage /\ NeedCreateHero(Head(loads).ticket).type # "HeroData"
    BY <1>7, AnswerFields, LoadFields DEF NeedCreateHero
  <2> QED  BY <1>e, <1>7, <2>1
<1>8. CASE dbDoQueryHeroInfo
  <2> DEFINE t     == Head(loads).ticket
             row   == character[AccountOf[t]]
             suits == ReadBack(suits_name[AccountOf[t]])
             next  == IF row # NoRow THEN <<HeroTask(t, "equips", row, suits)>> ELSE <<>>
  <2>1. Load("hero", next) /\ (fromDB' = fromDB \/ ToGame(NeedCreateHero(t)))
    BY <1>8 DEF dbDoQueryHeroInfo
  <2>2. Head(loads) \in LoadTask /\ t \in Tickets
    BY <1>a, <2>1, HeadTailProperties, LoadFields DEF Load
  <2>3. AccountOf[t] \in Accounts /\ row \in 0 .. MaxVersion /\ suits \in Suits
    BY <2>2, GameAssumption DEF TypeOK, ReadBack, Suits
  <2>4. row # NoRow => HeroTask(t, "equips", row, suits) \in LoadTask
    BY <2>2, <2>3, GameAssumption, LoadFields DEF NoRow
  <2>5. next \in Seq(LoadTask) /\ \A m \in Elems(next) : row # NoRow /\ m = HeroTask(t, "equips", row, suits)
    BY <2>4, <1>6, ElemsShort
  <2>6. ASSUME NEW m \in Elems(next), AccountOf[m.ticket] = a, m.ver = v, m.suits = s
        PROVE  v # NoRow /\ \E u \in Suits : Stored(v, u, a) /\ s = ReadBack(u)
    <3>1. m.ticket = t /\ m.ver = row /\ m.suits = suits /\ row # NoRow
      BY <2>5 DEF HeroTask
    <3>2. suits_name[a] \in Suits /\ Stored(v, suits_name[a], a) /\ s = ReadBack(suits_name[a])
      BY <1>a, <2>6, <3>1 DEF Stored
    <3> QED  BY <2>6, <3>1, <3>2
  <2> HIDE DEF next
  <2>7. L /\ loads # <<>>
    BY <1>5, <2>1, <2>5, <2>6
  <2>8. F
    BY <1>d, <1>7, <2>1, <2>2, <2>7
  <2> QED  BY <2>7, <2>8
<1>9. CASE dbDoQueryHeroEquips
  <2> DEFINE m == [Head(loads) EXCEPT !.stage = "toys"]
  <2>1. Load("equips", <<m>>) /\ fromDB' = fromDB
    BY <1>9 DEF dbDoQueryHeroEquips
  <2>2. loads # <<>> /\ Head(loads) \in LoadTask /\ Head(loads).stage = "equips"
    BY <1>a, <2>1, HeadTailProperties DEF Load
  <2>3. /\ m \in LoadTask /\ m.ticket = Head(loads).ticket /\ m.ver = Head(loads).ver
        /\ m.suits = Head(loads).suits
    BY <2>2, LoadFields DEF LoadTask
  <2>4. Head(loads) \in Elems(loads)
    BY <1>a, <2>2, ElemsRest, SMTT(20)
  <2>5. AccountOf[m.ticket] = a /\ m.ver = v /\ m.suits = s => Loading(v, s, a)
    BY <2>2, <2>3, <2>4 DEF Loading
  <2> HIDE DEF m
  <2>6. <<m>> \in Seq(LoadTask) /\ Elems(<<m>>) = {m}
    BY <2>3, ElemsShort, <1>a
  <2>7. L
    BY <1>5, <2>1, <2>5, <2>6
  <2> QED  BY <1>d, <2>1, <2>7
<1>10. CASE dbDoQuerryHeroToys
  <2> DEFINE m == HeroData(Head(loads).ticket, Head(loads).ver, Head(loads).suits)
  <2>1. Load("toys", <<>>) /\ ToGame(m)
    BY <1>10 DEF dbDoQuerryHeroToys
  <2>2. L /\ Head(loads) \in Elems(loads) /\ Head(loads) \in LoadTask /\ Head(loads).stage = "toys"
    BY <1>5, <1>6, <2>1
  <2>3. /\ m \in FromDBMessage /\ m.ticket = Head(loads).ticket /\ m.ver = Head(loads).ver
        /\ m.suits = Head(loads).suits
    BY <2>2, AnswerFields, LoadFields DEF HeroData
  <2>4. AccountOf[m.ticket] = a /\ m.ver = v /\ m.suits = s => Loading(v, s, a)
    BY <2>2, <2>3 DEF Loading
  <2> HIDE DEF m
  <2>5. F
    BY <1>e, <2>1, <2>3, <2>4
  <2> QED  BY <2>2, <2>5
<1>11. CASE QueryFails
  <2>1. PICK stage : Load(stage, <<>>) /\ (fromDB' = fromDB \/ ToGame(NeedCreateHero(Head(loads).ticket)))
    BY <1>11 DEF QueryFails
  <2>2. L /\ loads # <<>> /\ Head(loads) \in LoadTask
    BY <1>5, <1>6, <2>1
  <2> QED  BY <1>d, <1>7, <2>1, <2>2
<1>12. CASE UNCHANGED vars
  <2>1. loads' = loads /\ fromDB' = fromDB
    BY <1>12 DEF vars
  <2> QED  BY <1>b, <1>d, <2>1
<1> QED
  BY <1>1, <1>2, <1>3, <1>4, <1>8, <1>9, <1>10, <1>11, <1>12 DEF DBSide, DatabaseServer, LoadWorker

(* Saves: a step stores what was on its way, and sends what is in memory.  *)
LEMMA SavingSteps ==
    ASSUME TypeOK, LinkEnds, HeroLoaded, [Next]_vars,
           NEW a \in Accounts, NEW v \in 0 .. MaxVersion, NEW s \in Suits
    PROVE  /\ Saving(v, s, a)' => Saving(v, s, a) \/ Held(v, s, a)
           /\ Stored(v, s, a)' => Stored(v, s, a) \/ Saving(v, s, a)
<1>a. /\ toDB \in Seq(ToDBMessage) /\ saves \in Seq(SaveTask)
      /\ character \in [Accounts -> 0 .. MaxVersion] /\ suits_name \in [Accounts -> Suits]
  BY DEF TypeOK
<1>1. CASE UNCHANGED <<toDB, saves, character, suits_name>>
  BY <1>1 DEF Saving, Stored
<1>2. ASSUME NEW r, Sends(r)
      PROVE  /\ Saving(v, s, a)' => Saving(v, s, a) \/ Held(v, s, a)
             /\ Stored(v, s, a)' => Stored(v, s, a) \/ Saving(v, s, a)
  <2>1. /\ r \in Seq(ToDBMessage) /\ toDB' = toDB \o r /\ UNCHANGED <<saves, character, suits_name>>
        /\ \A i \in 1 .. Len(r) : IsSave(r[i], a) => InMemoryAs(r[i], a)
    BY <1>2 DEF Sends
  <2>2. Elems(toDB \o r) = Elems(toDB) \cup Elems(r)
    BY ONLY <1>a, <2>1, ElemsBehind, SMT
  <2>3. \A m \in Elems(r) : IsSave(m, a) => InMemoryAs(m, a)
    BY <2>1 DEF Elems
  <2>4. Elems(saves') = Elems(saves) /\ Elems(toDB') = Elems(toDB) \cup Elems(r)
    BY <2>1, <2>2
  <2> QED  BY <2>1, <2>3, <2>4 DEF Saving, Stored, Held, InMemoryAs
<1>3. CASE Hears
  <2>1. /\ toDB # <<>> /\ toDB' = Tail(toDB) /\ UNCHANGED <<character, suits_name>>
        /\ saves' = saves \/ (Head(toDB) \in SaveTask /\ saves' = Append(saves, Head(toDB)))
    BY <1>3 DEF Hears
  <2>2. Head(toDB) \in Elems(toDB) /\ Elems(Tail(toDB)) \subseteq Elems(toDB)
    BY <1>a, <2>1, ElemsRest, SMTT(20)
  <2>3. Head(toDB) \in SaveTask => Elems(Append(saves, Head(toDB))) = Elems(saves) \cup {Head(toDB)}
    <3> SUFFICES ASSUME Head(toDB) \in SaveTask
                 PROVE  Elems(Append(saves, Head(toDB))) = Elems(saves) \cup {Head(toDB)}
      OBVIOUS
    <3> QED  BY ONLY <1>a, Head(toDB) \in SaveTask, ElemsAppend, SMT
  <2>4. Elems(saves') \cup Elems(toDB') \subseteq Elems(saves) \cup Elems(toDB)
    BY <2>1, <2>2, <2>3
  <2> QED  BY <2>1, <2>4 DEF Saving, Stored
<1>4. CASE Loses
  <2>1. Elems(toDB') = {} /\ UNCHANGED <<saves, character, suits_name>>
    BY <1>4, ElemsShort DEF Loses
  <2> QED  BY <2>1 DEF Saving, Stored
<1>5. CASE Stores
  <2>1. /\ saves # <<>> /\ saves' = Tail(saves) /\ UNCHANGED toDB
        /\ \/ /\ character' = [character EXCEPT ![Head(saves).account] = Head(saves).ver]
              /\ suits_name' = [suits_name EXCEPT ![Head(saves).account] = Head(saves).suits]
           \/ UNCHANGED <<character, suits_name>>
    BY <1>5 DEF Stores
  <2>2. Head(saves) \in Elems(saves) /\ Elems(Tail(saves)) \subseteq Elems(saves)
    BY <1>a, <2>1, ElemsRest, SMTT(20)
  <2>3. Head(saves) \in SaveTask
    BY <1>a, <2>1, HeadTailProperties
  <2>4. \/ character'[a] = character[a] /\ suits_name'[a] = suits_name[a]
        \/ IsSave(Head(saves), a) /\ character'[a] = Head(saves).ver /\ suits_name'[a] = Head(saves).suits
    BY <1>a, <2>1, <2>3, Fields DEF IsSave
  <2> QED  BY <2>1, <2>2, <2>4 DEF Saving, Stored
<1> QED  BY <1>1, <1>2, <1>3, <1>4, <1>5, SaveSteps

(* The hero of a changes: its version grows.                               *)
Changed(v, s, a) ==
    /\ _heros[a] # None /\ _heros[a].ver < v
    /\ v = _heros'[a].ver /\ s = _heros'[a].suits

(* Where a version with its suits comes from: it was there, a load has     *)
(* read it back, it is new, or a client has changed the hero.              *)
LEMMA KnownSteps ==
    ASSUME TypeOK, LinkEnds, HeroLoaded, [Next]_vars,
           NEW a \in Accounts, NEW v \in 0 .. MaxVersion, NEW s \in Suits, Known(v, s, a)'
    PROVE  \/ Known(v, s, a)
           \/ \E u \in Suits : Stored(v, u, a) /\ s = ReadBack(u)
           \/ v = FromConfig /\ s = "bare"
           \/ Changed(v, s, a)
<1>1. CASE Saving(v, s, a)' \/ Stored(v, s, a)'
  BY <1>1, SavingSteps DEF Known
<1>2. CASE Loading(v, s, a)' \/ Sent(v, s, a)'
  BY <1>2, LoadSteps DEF Known
<1>3. CASE Held(v, s, a)'
  <2>1. _heros'[a] # None /\ _heros'[a].ver = v /\ _heros'[a].suits = s
    BY <1>3 DEF Held
  <2>2. CASE Keeps(a)
    <3>1. _heros[a].ver \in Nat /\ v \in Nat /\ _heros[a].ver <= v
      BY <2>1, <2>2, GameAssumption DEF TypeOK, Keeps
    <3>2. _heros[a].ver = v \/ _heros[a].ver < v
      BY ONLY <3>1
    <3> QED  BY <2>1, <2>2, <3>2 DEF Keeps, Changed, Known, Held
  <2>3. CASE Made(v, s, a)
    BY <2>3 DEF Made, Known
  <2> QED  BY <2>1, <2>2, <2>3, SaveSteps
<1> QED  BY <1>1, <1>2, <1>3 DEF Known

(* All there is of an account is as old as the hero in memory.             *)
LEMMA KnownBelow ==
    ASSUME TypeOK, VersionsAscend, LoadedBelow, NEW a \in Accounts, a \notin misread, _heros[a] # None,
           NEW v \in 0 .. MaxVersion, NEW s \in Suits, Known(v, s, a)
    PROVE  v <= _heros[a].ver
<1>a. v \in Nat /\ character[a] \in Nat /\ _heros[a].ver \in Nat
  BY GameAssumption DEF TypeOK
<1>b. Below(_heros[a].ver, character[a], saves, toDB, a)
  BY DEF VersionsAscend
<1>1. CASE Stored(v, s, a)
  BY <1>1, <1>b DEF Stored, Below
<1>2. CASE Saving(v, s, a)
  BY <1>2, <1>b DEF Saving, Elems, Below
<1>3. CASE Loading(v, s, a) \/ Sent(v, s, a)
  <2>1. v <= character[a] /\ character[a] <= _heros[a].ver
    BY <1>3, <1>b DEF LoadedBelow, Below
  <2> QED  BY <1>a, <2>1
<1>4. CASE Held(v, s, a)
  BY <1>4, <1>a DEF Held
<1> QED  BY <1>1, <1>2, <1>3, <1>4 DEF Known

(* Every step keeps one version one hero.                                  *)
LEMMA SuitsStep ==
    TypeOK /\ LinkEnds /\ HeroLoaded /\ VersionsAscend /\ SuitsInv /\ [Next]_vars => SuitsInv'
<1> SUFFICES ASSUME TypeOK, LinkEnds, HeroLoaded, VersionsAscend, SuitsInv, [Next]_vars
             PROVE  SuitsInv'
  OBVIOUS
<1>a. LoadedBelow /\ FirstBare /\ Agree
  BY DEF SuitsInv
<1>b. misread \subseteq misread'
  BY SaveSteps
<1>c. 0 .. MaxVersion \subseteq Nat /\ FromConfig = 1 /\ FromConfig \in 0 .. MaxVersion
  BY GameAssumption DEF FromConfig
<1>d. \A a \in Accounts : _heros[a] # None => _heros[a].ver \in Nat \ {0}
  BY GameAssumption DEF TypeOK
<1>e. \A u \in Suits : ReadBack(u) \in Suits /\ ReadBack(ReadBack(u)) = ReadBack(u) /\ ReadBack("bare") = "bare"
  BY DEF ReadBack, Suits
<1>1. LoadedBelow'
  <2> SUFFICES ASSUME NEW a \in Accounts, a \notin misread', NEW v \in 0 .. MaxVersion, NEW s \in Suits,
                      Loading(v, s, a)' \/ Sent(v, s, a)'
               PROVE  v <= character'[a]
    BY DEF LoadedBelow
  <2>1. a \notin misread
    BY <1>b
  <2>2. v <= character[a]
    <3>1. CASE Loading(v, s, a) \/ Sent(v, s, a)
      BY <1>a, <2>1, <3>1 DEF LoadedBelow
    <3>2. CASE \E u \in Suits : Stored(v, u, a)
      BY <1>c, <3>2 DEF Stored
    <3> QED  BY <3>1, <3>2, LoadSteps
  <2>3. character'[a] >= character[a]
    BY <2>1, RowStep
  <2>4. v \in Nat /\ character[a] \in Nat /\ character'[a] \in Nat
    <3>1. character[a] \in 0 .. MaxVersion /\ character'[a] \in 0 .. MaxVersion
      BY DBTypeStep DEF TypeOK, DBType
    <3> QED  BY <1>c, <3>1
  <2> QED  BY ONLY <2>2, <2>3, <2>4
<1>2. FirstBare'
  <2> SUFFICES ASSUME NEW a \in Accounts, NEW s \in Suits, Known(FromConfig, s, a)'
               PROVE  s = "bare"
    BY DEF FirstBare
  <2>1. ~Changed(FromConfig, s, a)
    BY <1>c, <1>d DEF Changed
  <2>2. ASSUME NEW u \in Suits, Stored(FromConfig, u, a), s = ReadBack(u) PROVE s = "bare"
    <3>1. u = "bare"
      BY <1>a, <2>2 DEF FirstBare, Known
    <3> QED  BY <1>e, <2>2, <3>1
  <2>3. Known(FromConfig, s, a) => s = "bare"
    BY <1>a DEF FirstBare
  <2> QED  BY <1>c, <2>1, <2>2, <2>3, KnownSteps
<1>3. Agree'
  <2> SUFFICES ASSUME NEW a \in Accounts, a \notin misread', NEW v \in 0 .. MaxVersion,
                      NEW s \in Suits, NEW u \in Suits, Known(v, s, a)', Known(v, u, a)'
               PROVE  ReadBack(s) = ReadBack(u)
    BY DEF Agree
  <2> DEFINE Was(x) == \E w \in Suits : Known(v, w, a) /\ ReadBack(w) = ReadBack(x)
             New(x) == v = FromConfig /\ x = "bare"
  <2>1. a \notin misread
    BY <1>b
  <2>2. ASSUME NEW x \in Suits, Known(v, x, a)'
        PROVE  Was(x) \/ New(x) \/ Changed(v, x, a)
    <3>1. ASSUME NEW w \in Suits, Stored(v, w, a), x = ReadBack(w) PROVE Was(x)
      BY <1>e, <3>1 DEF Known
    <3> QED  BY <2>2, <3>1, KnownSteps
  <2>3. ASSUME NEW x \in Suits, NEW y \in Suits, Changed(v, y, a) PROVE ~Was(x) /\ ~New(x)
    <3>1. _heros[a] # None /\ _heros[a].ver < v
      BY <2>3 DEF Changed
    <3>2. \A w \in Suits : Known(v, w, a) => v <= _heros[a].ver
      BY <1>a, <2>1, <3>1, KnownBelow
    <3>3. _heros[a].ver \in Nat \ {0} /\ v \in Nat
      BY <1>c, <1>d, <3>1
    <3>4. ~(v <= _heros[a].ver) /\ v # 1
      BY ONLY <3>1, <3>3
    <3> QED  BY <1>c, <3>2, <3>4
  <2>4. ASSUME NEW x \in Suits, NEW y \in Suits, Was(x), New(y) PROVE ReadBack(x) = ReadBack(y)
    BY <1>a, <1>e, <2>4 DEF FirstBare
  <2>5. CASE Was(s) /\ Was(u)
    <3>1. \A w, z \in Suits : Known(v, w, a) /\ Known(v, z, a) => ReadBack(w) = ReadBack(z)
      BY <1>a, <2>1 DEF Agree
    <3> QED  BY <2>5, <3>1
  <2>6. CASE Changed(v, s, a) /\ Changed(v, u, a)
    BY <2>6 DEF Changed
  <2>7. CASE New(s) /\ New(u)
    BY <2>7
  <2> HIDE DEF Was, New
  <2> QED  BY <2>2, <2>3, <2>4, <2>5, <2>6, <2>7
<1> QED  BY <1>1, <1>2, <1>3 DEF SuitsInv

(* What StoredNeverOlder says of a step.                                   *)
LEMMA StoredStep ==
    ASSUME TypeOK, LinkEnds, HeroLoaded, VersionsAscend, SuitsInv, [Next]_vars,
           NEW a \in Accounts, a \notin misread
    PROVE  /\ character'[a] >= character[a]
           /\ character'[a] = character[a] => ReadBack(suits_name'[a]) = ReadBack(suits_name[a])
<1>1. /\ character[a] \in 0 .. MaxVersion /\ suits_name[a] \in Suits
      /\ character'[a] \in 0 .. MaxVersion /\ suits_name'[a] \in Suits
  BY DBTypeStep DEF TypeOK, DBType
<1>2. ASSUME character'[a] = character[a] PROVE ReadBack(suits_name'[a]) = ReadBack(suits_name[a])
  <2> DEFINE v == character[a]
             s == suits_name'[a]
  <2>1. Known(v, suits_name[a], a)
    BY DEF Known, Stored
  <2>2. Stored(v, s, a) \/ Saving(v, s, a)
    <3>1. \A w \in 0 .. MaxVersion, x \in Suits :
             character'[a] = w /\ suits_name'[a] = x => Stored(w, x, a) \/ Saving(w, x, a)
      BY SavingSteps DEF Stored
    <3> QED  BY <1>1, <1>2, <3>1
  <2>3. Known(v, s, a)
    BY <2>2 DEF Known
  <2> QED  BY <1>1, <2>1, <2>3 DEF SuitsInv, Agree
<1> QED  BY <1>2, RowStep

-----------------------------------------------------------------------------
(* The stop.                                                               *)

(* The answers that are waiting: taking one adds none, and only the first  *)
(* announcement is answered.                                               *)
LEMMA AnswersStep ==
    ASSUME TypeOK, [Next]_vars, Has(fromDB', "SaveAllHeroes")
    PROVE  Has(fromDB, "SaveAllHeroes") \/ (saveToClose /\ ~_receive_cose_msg)
<1> USE DEF linkVars
<1>a. fromDB \in Seq(FromDBMessage)
  BY DEF TypeOK
<1>b. ASSUME fromDB # <<>>, fromDB' = Tail(fromDB) PROVE Has(fromDB, "SaveAllHeroes")
  <2>1. \A i \in 1 .. Len(Tail(fromDB)) : i + 1 \in 1 .. Len(fromDB) /\ Tail(fromDB)[i] = fromDB[i + 1]
    BY <1>a, <1>b, Rest
  <2> QED  BY <1>b, <2>1 DEF Has
<1>c. ASSUME fromDB' = <<>> PROVE FALSE
  <2>1. Len(<<>>) = 0 /\ \A i : i \notin 1 .. 0
    BY EmptySeq
  <2> QED  BY <1>c, <2>1 DEF Has
<1>d. ASSUME NEW m \in FromDBMessage, ToGame(m), m.type # "SaveAllHeroes"
      PROVE  Has(fromDB, "SaveAllHeroes")
  <2>1. CASE fromDB' = Append(fromDB, m)
    <3>1. /\ Len(Append(fromDB, m)) = Len(fromDB) + 1 /\ Len(fromDB) \in Nat
          /\ \A i \in 1 .. Len(fromDB) : Append(fromDB, m)[i] = fromDB[i]
          /\ Append(fromDB, m)[Len(fromDB) + 1] = m
      BY <1>a, AppendProperties, LenProperties
    <3>2. \A n \in Nat : \A i \in 1 .. n + 1 : i \in 1 .. n \/ i = n + 1
      OBVIOUS
    <3> QED  BY <1>d, <2>1, <3>1, <3>2 DEF Has
  <2> QED  BY <1>d, <2>1 DEF ToGame
<1>1. CASE FromGate
  <2>1. fromDB' = fromDB \/ fromDB' = <<>>
    BY <1>1 DEF FromGate, parseGateRegister, GateOnClose, addUser, removeUser, offlineUser, Crash
  <2> QED  BY <1>c, <2>1
<1>2. CASE FromDatabaseServer
  <2>1. fromDB # <<>> /\ fromDB' = Tail(fromDB)
    BY <1>2 DEF FromDatabaseServer, parseQueryHeroInfo, parseNeedCreateHero, parseMsgSaveAllHeroes,
                Answered, Receives
  <2> QED  BY <1>b, <2>1
<1>3. CASE \/ \E t \in Tickets : ModifySuit(t)
           \/ \E a \in Accounts : SaveHero(a)
           \/ setStop \/ checkStop \/ on_connect \/ LinkLost \/ on_close \/ GameCrashes \/ GameStarts
           \/ Ended \/ UNCHANGED vars
  <2>1. fromDB' = fromDB \/ fromDB' = <<>>
    BY <1>3 DEF ModifySuit, SaveHero, setStop, checkStop, on_connect, LinkLost, on_close, LinkCloses,
                GameCrashes, Crash, GameStarts, Ended, vars
  <2> QED  BY <1>c, <2>1
<1>4. CASE DatabaseServer \/ onSaveToClose \/ SaveWorker
  <2>1. fromDB' = fromDB \/ (saveToClose /\ ~_receive_cose_msg)
    BY <1>4 DEF DatabaseServer, parseGameRegister, queryHeroInfo, saveSqlData, saveToClose, DBStops,
                onSaveToClose, SaveWorker
  <2> QED  BY <2>1
<1>5. ASSUME NEW stage, NEW next, Load(stage, next),
             \/ UNCHANGED fromDB
             \/ ToGame(NeedCreateHero(Head(loads).ticket))
             \/ stage = "toys" /\ ToGame(HeroData(Head(loads).ticket, Head(loads).ver, Head(loads).suits))
      PROVE  Has(fromDB, "SaveAllHeroes")
  <2>1. loads # <<>> /\ Head(loads) \in LoadTask /\ Head(loads).stage = stage
    BY <1>5, HeadTailProperties DEF Load, TypeOK
  <2>2. \A t, v, s : NeedCreateHero(t).type # "SaveAllHeroes" /\ HeroData(t, v, s).type # "SaveAllHeroes"
    BY DEF NeedCreateHero, HeroData
  <2>3. /\ NeedCreateHero(Head(loads).ticket) \in FromDBMessage
        /\ stage = "toys" => HeroData(Head(loads).ticket, Head(loads).ver, Head(loads).suits) \in FromDBMessage
    BY <2>1, AnswerFields, LoadFields
  <2> QED  BY <1>5, <1>d, <2>2, <2>3
<1>6. CASE LoadWorker
  BY <1>5, <1>6 DEF LoadWorker, dbDoQueryHeroInfo, dbDoQueryHeroEquips, dbDoQuerryHeroToys, QueryFails
<1> QED  BY <1>1, <1>2, <1>3, <1>4, <1>5, <1>6 DEF Next

(* Who changes what the stop is about.                                     *)
LEMMA ControlSteps ==
    ASSUME TypeOK, [Next]_vars
    PROVE  /\ \/ setStop
              \/ \A a \in Accounts :
                    \/ atStop'[a] = None
                    \/ atStop'[a] = atStop[a] /\ (_heros[a] # None => _heros'[a] # None)
           /\ game' = "crashed" =>
                (game = "crashed" /\ UNCHANGED atStop) \/ \A a \in Accounts : atStop'[a] = None
           /\ game' = "run" => (game = "run" /\ UNCHANGED atStop) \/ GameStarts
           /\ game' = "stopped" => game = "stopped" \/ checkStop
           /\ _save_all_heroes_ok' => _save_all_heroes_ok \/ parseMsgSaveAllHeroes
           /\ _receive_cose_msg => _receive_cose_msg'
           /\ errors \in Nat /\ (errors' = errors \/ errors' = errors + 1)
           /\ db' = db \/ db # "run" \/ _receive_cose_msg
<1> DEFINE P == /\ \/ setStop
                   \/ \A a \in Accounts :
                         \/ atStop'[a] = None
                         \/ atStop'[a] = atStop[a] /\ (_heros[a] # None => _heros'[a] # None)
                /\ game' = "crashed" =>
                     (game = "crashed" /\ UNCHANGED atStop) \/ \A a \in Accounts : atStop'[a] = None
                /\ game' = "run" => (game = "run" /\ UNCHANGED atStop) \/ GameStarts
                /\ game' = "stopped" => game = "stopped" \/ checkStop
                /\ _save_all_heroes_ok' => _save_all_heroes_ok \/ parseMsgSaveAllHeroes
           R == /\ _receive_cose_msg => _receive_cose_msg'
                /\ errors' = errors \/ errors' = errors + 1
                /\ db' = db \/ db # "run" \/ _receive_cose_msg
<1> USE DEF historyVars, faultVars, dbVars
<1>1. R
  <2>1. CASE DBSide
    <3>1. CASE DatabaseServer \/ onSaveToClose
      BY <3>1 DEF DatabaseServer, parseGameRegister, queryHeroInfo, saveSqlData, saveToClose, DBStops,
                  onSaveToClose
    <3>2. CASE LoadWorker
      <4>1. UNCHANGED <<db, _receive_cose_msg>> /\ (errors' = errors \/ errors' = errors + 1)
        BY <3>2 DEF LoadWorker, dbDoQueryHeroInfo, dbDoQueryHeroEquips, dbDoQuerryHeroToys, QueryFails, Load
      <4> QED  BY <4>1
    <3>3. CASE SaveWorker
      <4>1. UNCHANGED <<db, _receive_cose_msg>> /\ (errors' = errors \/ errors' = errors + 1)
        BY <3>3 DEF SaveWorker
      <4> QED  BY <4>1
    <3> QED  BY <2>1, <3>1, <3>2, <3>3 DEF DBSide
  <2>2. CASE Next /\ ~DBSide
    BY <2>2, TaskFrame
  <2>3. CASE UNCHANGED vars
    BY <2>3 DEF vars
  <2> QED  BY <2>1, <2>2, <2>3
<1>2. ASSUME UNCHANGED <<game, _save_all_heroes_ok, atStop>>,
             \A a \in Accounts : _heros[a] # None => _heros'[a] # None
      PROVE  P
  BY <1>2
<1>3. ASSUME DBSide PROVE P
  BY <1>2, <1>3, DBSideFrame
<1>4. ASSUME LinkLost \/ on_close \/ on_connect PROVE P
  BY <1>2, <1>4, LinkFrame
<1>5. ASSUME Crash, UNCHANGED _save_all_heroes_ok PROVE P
  <2>1. game' = "crashed" /\ \A a \in Accounts : atStop'[a] = None
    BY <1>5 DEF Crash
  <2> QED  BY <1>5, <2>1
<1>6. ASSUME NEW c \in Conns, parseGateRegister(c) \/ GateOnClose(c) PROVE P
  BY <1>2, <1>6 DEF parseGateRegister, GateOnClose
<1>7. ASSUME NEW c \in Conns, NEW t \in Tickets, removeUser(c, t) \/ offlineUser(c, t) PROVE P
  BY <1>2, <1>5, <1>7 DEF removeUser, offlineUser
<1>8. ASSUME \/ \E c \in Conns, t \in Tickets : addUser(c, t)
             \/ \E t \in Tickets : ModifySuit(t)
             \/ parseQueryHeroInfo \/ parseNeedCreateHero,
             \A a \in Accounts : _heros[a] # None => _heros'[a] # None
      PROVE  P
  BY <1>2, <1>8 DEF addUser, ModifySuit, parseQueryHeroInfo, parseNeedCreateHero, Answered
<1>9. ASSUME parseMsgSaveAllHeroes PROVE P
  BY <1>9 DEF parseMsgSaveAllHeroes
<1>10. ASSUME NEW a \in Accounts, SaveHero(a) PROVE P
  BY <1>2, <1>10 DEF SaveHero
<1>11. ASSUME setStop PROVE P
  BY <1>11 DEF setStop
<1>12. ASSUME checkStop PROVE P
  BY <1>12 DEF checkStop
<1>13. ASSUME GameCrashes PROVE P
  BY <1>5, <1>13 DEF GameCrashes
<1>14. ASSUME GameStarts PROVE P
  BY <1>14 DEF GameStarts
<1>15. ASSUME Ended \/ UNCHANGED vars PROVE P
  BY <1>2, <1>15 DEF Ended, vars
<1>16. errors \in Nat
  BY DEF TypeOK
<1>17. ASSUME \/ \E c \in Conns, t \in Tickets : addUser(c, t)
              \/ \E t \in Tickets : ModifySuit(t)
              \/ parseQueryHeroInfo \/ parseNeedCreateHero
       PROVE  \A a \in Accounts : _heros[a] # None => _heros'[a] # None
  <2> USE GameAssumption
  <2>1. /\ _heros \in [Accounts -> {None} \cup HeroRecord]
        /\ None \notin HeroRecord
        /\ fromDB \in Seq(FromDBMessage)
    BY TypeParts DEF HeroType, LinkType, HeroRecord
  <2>2. \A h \in HeroRecord : \A t \in Tickets : [h EXCEPT !.session = t] \in HeroRecord
    BY DEF HeroRecord
  <2>3. ASSUME NEW t \in Tickets, _heros' = [_heros EXCEPT ![AccountOf[t]].session = t]
        PROVE  \A a \in Accounts : _heros[a] # None => _heros'[a] # None
    BY <2>1, <2>2, <2>3
  <2>4. ASSUME NEW c \in Conns, NEW t \in Tickets, addUser(c, t)
        PROVE  \A a \in Accounts : _heros[a] # None => _heros'[a] # None
    BY <2>3, <2>4 DEF addUser, Session
  <2>5. ASSUME NEW t \in Tickets, ModifySuit(t)
        PROVE  \A a \in Accounts : _heros[a] # None => _heros'[a] # None
    <3>1. \A h \in HeroRecord, s \in Suits, v \in 1 .. MaxVersion :
             h.suits \in Suits /\ [h EXCEPT !.ver = v, !.suits = s] \in HeroRecord
      BY DEF HeroRecord
    <3>a. \A h \in HeroRecord : h.ver < MaxVersion => h.ver + 1 \in 1 .. MaxVersion
      BY DEF HeroRecord
    <3>2. PICK s \in {"own", "bare", _heros[AccountOf[t]].suits} :
             /\ _heros[AccountOf[t]].ver < MaxVersion
             /\ _heros' = [_heros EXCEPT ![AccountOf[t]].ver = @ + 1, ![AccountOf[t]].suits = s]
      BY <2>5 DEF ModifySuit
    <3>3. _heros[AccountOf[t]] # None =>
            [_heros[AccountOf[t]] EXCEPT !.ver = @ + 1, !.suits = s] \in HeroRecord
      <4>1. _heros[AccountOf[t]] # None => _heros[AccountOf[t]] \in HeroRecord
        BY <2>1
      <4>2. _heros[AccountOf[t]] # None => s \in Suits /\ _heros[AccountOf[t]].ver + 1 \in 1 .. MaxVersion
        BY <3>1, <3>2, <3>a, <4>1 DEF Suits
      <4> QED  BY <3>1, <4>1, <4>2
    <3> QED  BY <2>1, <3>2, <3>3
  <2>6. ASSUME parseQueryHeroInfo \/ parseNeedCreateHero
        PROVE  \A a \in Accounts : _heros[a] # None => _heros'[a] # None
    <3>1. Head(fromDB) \in FromDBMessage /\ Head(fromDB).ticket \in Tickets
      BY <2>1, <2>6, Rest, AnswerFields DEF parseQueryHeroInfo, parseNeedCreateHero, Receives
    <3>2. PICK v, s : Answered(Head(fromDB).ticket, v, s)
      BY <2>6 DEF parseQueryHeroInfo, parseNeedCreateHero
    <3> DEFINE t == Head(fromDB).ticket
    <3>3. _heros' = _heros \/ _heros' = CreateHero(AccountOf[t], t, v, s)
      BY <3>2 DEF Answered
    <3> HIDE DEF t
    <3>4. CASE _heros' = CreateHero(AccountOf[t], t, v, s) /\ _heros[AccountOf[t]] # None
      BY <2>3, <3>1, <3>4 DEF CreateHero, t
    <3>5. CASE _heros' = CreateHero(AccountOf[t], t, v, s) /\ _heros[AccountOf[t]] = None
      BY <2>1, <3>1, <3>5 DEF CreateHero, t
    <3> QED  BY <3>3, <3>4, <3>5
  <2> QED  BY <1>17, <2>4, <2>5, <2>6
<1> HIDE DEF P, R
<1>18. P
  BY <1>3, <1>4, <1>6, <1>7, <1>8, <1>9, <1>10, <1>11, <1>12, <1>13, <1>14, <1>15, <1>17
     DEF Next, FromGate, FromDatabaseServer, DBSide
<1> QED  BY <1>1, <1>16, <1>18 DEF P, R

(* A hero that is safe stays safe while no statement fails.                *)
LEMMA SafeStep ==
    ASSUME TypeOK, LinkEnds, HeroLoaded, StillInMemory, [Next]_vars, errors' = 0,
           NEW a \in Accounts, atStop[a] # None, atStop'[a] = atStop[a], Safe(a)
    PROVE  Safe(a)'
<1> DEFINE v == atStop[a].ver
<1>a. /\ toDB \in Seq(ToDBMessage) /\ saves \in Seq(SaveTask)
      /\ character \in [Accounts -> 0 .. MaxVersion]
  BY DEF TypeOK
<1>b. Kept(v, character[a], saves, a) /\ Newer(v, toDB, a)
  BY DEF Safe
<1>c. atStop'[a].ver = v /\ v <= _heros[a].ver
  BY DEF StillInMemory
<1> HIDE DEF v
<1> SUFFICES Kept(v, character'[a], saves', a) /\ Newer(v, toDB', a)
  BY <1>c DEF Safe
<1>1. CASE UNCHANGED <<toDB, saves, character, suits_name>>
  BY <1>1, <1>b
<1>2. ASSUME NEW r, Sends(r)
      PROVE  Kept(v, character'[a], saves', a) /\ Newer(v, toDB', a)
  <2>1. r \in Seq(ToDBMessage) /\ Newer(v, r, a)
    BY <1>2, <1>c DEF Sends, InMemoryAs, Newer
  <2>2. Newer(v, toDB \o r, a)
    BY <1>a, <1>b, <2>1, NewerSent
  <2> QED  BY <1>2, <1>b, <2>2 DEF Sends
<1>3. CASE Hears
  <2>1. toDB # <<>>
    BY <1>3 DEF Hears
  <2>2. Newer(v, Tail(toDB), a)
    BY <1>a, <1>b, <2>1, NewerHeard
  <2>3. Head(toDB) = toDB[1] /\ 1 \in 1 .. Len(toDB)
    BY <1>a, <2>1, Rest
  <2>4. IsSave(Head(toDB), a) => v <= Head(toDB).ver
    BY <1>b, <2>3 DEF Newer
  <2>5. Head(toDB) \in SaveTask => Kept(v, character[a], Append(saves, Head(toDB)), a)
    BY <1>a, <1>b, <2>4, KeptQueued
  <2> QED  BY <1>3, <1>b, <2>2, <2>5 DEF Hears
<1>4. CASE Loses
  <2>1. Newer(v, <<>>, a)
    <3>1. Len(<<>>) = 0 /\ \A i : i \notin 1 .. 0
      BY EmptySeq
    <3> QED  BY <3>1 DEF Newer
  <2> QED  BY <1>4, <1>b, <2>1 DEF Loses
<1>5. CASE Stores
  <2>1. saves # <<>> /\ character' = [character EXCEPT ![Head(saves).account] = Head(saves).ver]
    BY <1>5, errors \in Nat DEF Stores, TypeOK
  <2>2. character'[a] = IF Head(saves).account = a THEN Head(saves).ver ELSE character[a]
    BY <1>a, <2>1
  <2>3. Kept(v, character'[a], Tail(saves), a)
    BY <1>a, <1>b, <2>1, <2>2, KeptStored
  <2> QED  BY <1>5, <1>b, <2>3 DEF Stores
<1> QED  BY <1>1, <1>2, <1>3, <1>4, <1>5, SaveSteps

(* When the stop begins every hero goes out before the announcement.       *)
LEMMA StopAnnounces ==
    ASSUME TypeOK, NotStopping, setStop, NEW a \in Accounts, _heros[a] # None,
           NEW n \in 1 .. Len(toDB'), toDB'[n].type = "SaveAllHeroes"
    PROVE  Comes(_heros[a].ver, toDB', n, a)
<1> DEFINE r == AllHeroes \o <<SaveAllHeroes>>
           v == _heros[a].ver
<1>a. /\ toDB \in Seq(ToDBMessage) /\ AllHeroes \in Seq(ToDBMessage)
      /\ <<SaveAllHeroes>> \in Seq(ToDBMessage) /\ r \in Seq(ToDBMessage)
      /\ v \in 1 .. MaxVersion
  BY Sendable, Fields DEF TypeOK
<1>b. ~Has(toDB, "SaveAllHeroes")
  BY DEF NotStopping, setStop
<1>1. toDB' = toDB \o r
  <2>1. toDB' = toDB \o r \/ toDB' = toDB
    BY DEF setStop, SaveDreamHeroes, ToDB
  <2>2. toDB' # toDB
    BY <1>b DEF Has
  <2> QED  BY <2>1, <2>2
<1>2. /\ Len(AllHeroes) \in Nat
      /\ \A j \in 1 .. Len(AllHeroes) : j \in 1 .. Len(r) /\ r[j] = AllHeroes[j]
      /\ Len(r) = Len(AllHeroes) + 1
      /\ r[Len(AllHeroes) + 1] = SaveAllHeroes
      /\ \A k \in 1 .. Len(r) : k \in 1 .. Len(AllHeroes) \/ k = Len(AllHeroes) + 1
  <2>1. Len(<<SaveAllHeroes>>) = 1 /\ <<SaveAllHeroes>>[1] = SaveAllHeroes
    OBVIOUS
  <2>2. /\ Len(AllHeroes) \in Nat
        /\ \A j \in 1 .. Len(AllHeroes) : j \in 1 .. Len(r) /\ r[j] = AllHeroes[j]
        /\ Len(r) = Len(AllHeroes) + Len(<<SaveAllHeroes>>)
        /\ \A j \in 1 .. Len(<<SaveAllHeroes>>) :
              Len(AllHeroes) + j \in 1 .. Len(r) /\ r[Len(AllHeroes) + j] = <<SaveAllHeroes>>[j]
    BY <1>a, Behind, SMTT(20)
  <2>3. \A m \in Nat : \A k \in 1 .. m + 1 : k \in 1 .. m \/ k = m + 1
    OBVIOUS
  <2> HIDE DEF r
  <2> QED  BY <2>1, <2>2, <2>3
<1>3. PICK i \in 1 .. Len(AllHeroes) : AllHeroes[i] = HeroSave(a)
  BY AllSaved
<1>4. IsSave(r[i], a) /\ r[i].ver = v
  BY <1>2, <1>3 DEF IsSave, HeroSave, SaveData
<1>5. \A k \in 1 .. Len(r) : IsSave(r[k], a) => v <= r[k].ver
  <2>1. \A k \in 1 .. Len(r) : IsSave(r[k], a) => r[k].ver = v
    BY SendsInMemory
  <2>2. v <= v
    BY <1>a
  <2> HIDE DEF r, v
  <2> QED  BY <2>1, <2>2
<1> HIDE DEF r, v
<1>6. /\ Len(toDB) \in Nat /\ Len(r) \in Nat /\ Len(toDB') = Len(toDB) + Len(r)
      /\ \A j \in 1 .. Len(toDB) : j \in 1 .. Len(toDB') /\ toDB'[j] = toDB[j]
      /\ \A j \in 1 .. Len(r) : Len(toDB) + j \in 1 .. Len(toDB') /\ toDB'[Len(toDB) + j] = r[j]
      /\ \A k \in 1 .. Len(toDB') : k \in 1 .. Len(toDB) \/ \E j \in 1 .. Len(r) : k = Len(toDB) + j
  <2>1. /\ Len(toDB) \in Nat /\ Len(r) \in Nat /\ Len(toDB \o r) = Len(toDB) + Len(r)
        /\ \A j \in 1 .. Len(toDB) : j \in 1 .. Len(toDB \o r) /\ (toDB \o r)[j] = toDB[j]
        /\ \A j \in 1 .. Len(r) :
              Len(toDB) + j \in 1 .. Len(toDB \o r) /\ (toDB \o r)[Len(toDB) + j] = r[j]
        /\ \A k \in 1 .. Len(toDB \o r) :
              k \in 1 .. Len(toDB) \/ \E j \in 1 .. Len(r) : k = Len(toDB) + j
    <3>1. toDB \in Seq(ToDBMessage) /\ r \in Seq(ToDBMessage)
      BY <1>a
    <3> QED  BY ONLY <3>1, Behind, SMTT(30)
  <2> QED  BY ONLY <1>1, <2>1
<1>7. n = Len(toDB) + (Len(AllHeroes) + 1)
  <2>1. n \notin 1 .. Len(toDB)
    BY <1>6, <1>b DEF Has
  <2>2. PICK j \in 1 .. Len(r) : n = Len(toDB) + j
    BY <1>6, <2>1
  <2>3. j \notin 1 .. Len(AllHeroes)
    <3>1. \A k \in 1 .. Len(AllHeroes) : AllHeroes[k].type = "SaveData"
      BY AllSaved, ElementOfSeq, Fields
    <3>2. toDB'[n] = r[j]
      BY ONLY <1>6, <2>2
    <3>3. r[j].type = "SaveAllHeroes"
      BY <3>2
    <3>4. \A k \in 1 .. Len(AllHeroes) : r[k].type = "SaveData"
      BY ONLY <1>2, <3>1
    <3> QED  BY ONLY <3>3, <3>4
  <2>4. j = Len(AllHeroes) + 1
    BY ONLY <1>2, <2>2, <2>3
  <2> QED  BY ONLY <2>2, <2>4
<1>8. Len(toDB) + i \in 1 .. n - 1 /\ Len(toDB) + i \in 1 .. Len(toDB')
  BY ONLY <1>2, <1>6, <1>7, i \in 1 .. Len(AllHeroes)
<1>9. toDB'[Len(toDB) + i] = r[i]
  BY <1>2, <1>6
<1>10. ASSUME NEW j \in Len(toDB) + i .. Len(toDB'), IsSave(toDB'[j], a) PROVE v <= toDB'[j].ver
  <2>1. j \in 1 .. Len(toDB') /\ j \notin 1 .. Len(toDB)
    BY ONLY <1>6, j \in Len(toDB) + i .. Len(toDB'), i \in 1 .. Len(AllHeroes)
  <2>2. PICK k \in 1 .. Len(r) : j = Len(toDB) + k
    BY <1>6, <2>1
  <2> QED  BY <1>5, <1>6, <1>10, <2>2
<1>11. v <= toDB'[Len(toDB) + i].ver
  BY <1>4, <1>9, <1>a
<1>12. Comes(v, toDB', n, a)
  BY <1>4, <1>8, <1>9, <1>10, <1>11 DEF Comes
<1> QED  BY <1>12 DEF v

-----------------------------------------------------------------------------
(* The stop.                                                               *)

(* Whether a queue has a message, by its parts.                            *)
LEMMA HasParts ==
    ASSUME NEW S, NEW q \in Seq(S), NEW r \in Seq(S), NEW type
    PROVE  /\ Has(q \o r, type) => Has(q, type) \/ Has(r, type)
           /\ q # <<>> /\ Has(Tail(q), type) => Has(q, type)
           /\ q # <<>> /\ Head(q).type = type => Has(q, type)
           /\ ~Has(<<>>, type)
<1>1. Has(q \o r, type) => Has(q, type) \/ Has(r, type)
  <2>1. /\ \A i \in 1 .. Len(q) : (q \o r)[i] = q[i]
        /\ \A i \in 1 .. Len(r) : (q \o r)[Len(q) + i] = r[i]
        /\ \A i \in 1 .. Len(q \o r) : i \in 1 .. Len(q) \/ \E j \in 1 .. Len(r) : i = Len(q) + j
    BY Behind, SMTT(20)
  <2> QED  BY <2>1 DEF Has
<1>2. ASSUME q # <<>>
      PROVE  /\ Has(Tail(q), type) => Has(q, type)
             /\ Head(q).type = type => Has(q, type)
  <2>1. /\ Head(q) = q[1] /\ 1 \in 1 .. Len(q)
        /\ \A i \in 1 .. Len(Tail(q)) : i + 1 \in 1 .. Len(q) /\ Tail(q)[i] = q[i + 1]
    BY <1>2, Rest
  <2> QED  BY <2>1 DEF Has
<1>3. ~Has(<<>>, type)
  <2>1. Len(<<>>) = 0 /\ \A i : i \notin 1 .. 0
    BY EmptySeq
  <2> QED  BY <2>1 DEF Has
<1> QED  BY <1>1, <1>2, <1>3

(* Every step keeps NotStopping.                                           *)
LEMMA NotStoppingStep ==
    ASSUME TypeOK, LinkEnds, HeroLoaded, NotStopping, [Next]_vars
    PROVE  NotStopping'
<1>a. toDB \in Seq(ToDBMessage) /\ fromDB \in Seq(FromDBMessage)
  BY DEF TypeOK
<1>b. ~Has(<<>>, "SaveAllHeroes")
  BY <1>a, HasParts
<1>1. ASSUME game' \in {"run", "crashed"}, NEW a \in Accounts PROVE atStop'[a] = None
  <2>1. CASE GameStarts
    BY <2>1 DEF GameStarts
  <2>2. CASE game \in {"run", "crashed"} /\ UNCHANGED atStop
    BY <2>2 DEF NotStopping
  <2> QED  BY <1>1, <2>1, <2>2, ControlSteps
<1>2. ASSUME GameStarts
      PROVE  /\ ~_save_all_heroes_ok'
             /\ ~Has(toDB', "SaveAllHeroes") /\ ~Has(fromDB', "SaveAllHeroes")
  <2>1. toDB' = <<>> /\ fromDB' = <<>> /\ ~_save_all_heroes_ok'
    BY <1>2 DEF GameStarts, LinkEnds, linkVars
  <2> QED  BY <2>1, <1>b
<1>3. ASSUME game' = "run", game = "run"
      PROVE  /\ ~_save_all_heroes_ok'
             /\ ~Has(toDB', "SaveAllHeroes") /\ ~Has(fromDB', "SaveAllHeroes")
  <2>a. /\ ~_save_all_heroes_ok
        /\ ~Has(toDB, "SaveAllHeroes") /\ ~Has(fromDB, "SaveAllHeroes")
    BY <1>3 DEF NotStopping
  <2>b. ~setStop /\ ~checkStop
    BY <1>3 DEF setStop, checkStop
  <2>1. ~parseMsgSaveAllHeroes
    BY <1>a, <2>a, HasParts DEF parseMsgSaveAllHeroes, Receives
  <2>2. ~saveToClose
    BY <1>a, <2>a, HasParts DEF saveToClose, DBHears
  <2>3. ASSUME NEW r, Sends(r) PROVE ~Has(toDB', "SaveAllHeroes")
    BY <1>a, <2>3, <2>a, <2>b, HasParts DEF Sends
  <2>4. ASSUME Hears PROVE ~Has(toDB', "SaveAllHeroes")
    <3>1. toDB # <<>> /\ toDB' = Tail(toDB)
      BY <2>4 DEF Hears
    <3>2. Has(Tail(toDB), "SaveAllHeroes") => Has(toDB, "SaveAllHeroes")
      BY <1>a, <3>1, HasParts
    <3> QED  BY <2>a, <3>1, <3>2
  <2>5. ~Has(toDB', "SaveAllHeroes")
    BY <1>b, <2>a, <2>3, <2>4, SaveSteps DEF Loses, Stores
  <2> QED  BY <2>a, <2>1, <2>2, <2>5, ControlSteps, AnswersStep
<1>4. game' = "run" => game = "run" \/ GameStarts
  BY ControlSteps
<1> QED  BY <1>1, <1>2, <1>3, <1>4 DEF NotStopping

(* Every step keeps StillInMemory.                                         *)
LEMMA StillInMemoryStep ==
    ASSUME TypeOK, LinkEnds, HeroLoaded, StillInMemory, [Next]_vars
    PROVE  StillInMemory'
<1> SUFFICES ASSUME NEW a \in Accounts, atStop'[a] # None
             PROVE  _heros'[a] # None /\ atStop'[a].ver <= _heros'[a].ver
  BY DEF StillInMemory
<1> USE GameAssumption
<1>1. CASE setStop
  <2>1. atStop' = _heros /\ _heros' = _heros
    BY <1>1 DEF setStop
  <2>2. _heros[a] \in HeroRecord
    BY <2>1, TypeParts DEF HeroType
  <2> QED  BY <2>1, <2>2 DEF HeroRecord
<1>2. CASE atStop'[a] = atStop[a] /\ (_heros[a] # None => _heros'[a] # None)
  <2>1. _heros[a] # None /\ atStop[a].ver <= _heros[a].ver /\ _heros'[a] # None
    BY <1>2 DEF StillInMemory
  <2>2. _heros[a].ver <= _heros'[a].ver
    BY <2>1, SaveSteps DEF Keeps
  <2>3. atStop[a] \in HeroRecord /\ _heros[a] \in HeroRecord /\ _heros'[a] \in HeroRecord
    BY <1>2, <2>1, TypeParts, HeroTypeStep DEF HeroType
  <2> QED  BY <1>2, <2>1, <2>2, <2>3 DEF HeroRecord
<1> QED  BY <1>1, <1>2, ControlSteps

(* Every step keeps Announces: what is on the link stays before the        *)
(* announcement.                                                           *)
LEMMA AnnouncesStep ==
    ASSUME TypeOK, LinkEnds, HeroLoaded, StopInv, [Next]_vars
    PROVE  Announces'
<1>a. /\ toDB \in Seq(ToDBMessage) /\ saves \in Seq(SaveTask)
      /\ _receive_cose_msg \in BOOLEAN /\ Len(toDB) \in Nat
  BY LenProperties DEF TypeOK
<1>b. NotStopping /\ StillInMemory /\ StopsWhenTold /\ Announces /\ AnsweredSafe
  BY DEF StopInv
<1> SUFFICES ASSUME NEW a \in Accounts, NEW n \in 1 .. Len(toDB'),
                    toDB'[n].type = "SaveAllHeroes", ~_receive_cose_msg',
                    atStop'[a] # None, errors' = 0
             PROVE  Comes(atStop'[a].ver, toDB', n, a) \/ Safe(a)'
  BY DEF Announces
<1>c. ~_receive_cose_msg /\ errors = 0 /\ db = "run"
  BY <1>b, ControlSteps DEF StopsWhenTold
<1>1. CASE setStop
  <2>1. atStop'[a] = _heros[a]
    BY <1>1 DEF setStop
  <2> QED  BY <1>1, <1>b, <2>1, StopAnnounces
<1>2. ASSUME ~setStop PROVE Comes(atStop'[a].ver, toDB', n, a) \/ Safe(a)'
  <2> DEFINE v == atStop[a].ver
  <2>a. atStop'[a] = atStop[a] /\ atStop[a] # None
    BY <1>2, ControlSteps
  <2>b. Safe(a) => Safe(a)'
    BY <1>b, <2>a, SafeStep
  <2>c. \A k \in 1 .. Len(toDB) : toDB[k].type = "SaveAllHeroes" => Comes(v, toDB, k, a) \/ Safe(a)
    BY <1>b, <1>c, <2>a DEF Announces
  <2>d. v <= _heros[a].ver /\ _heros[a] # None
    BY <1>b, <2>a DEF StillInMemory
  <2> HIDE DEF v
  <2> SUFFICES Comes(v, toDB', n, a) \/ Safe(a)'
    BY <2>a DEF v
  <2>1. CASE UNCHANGED toDB
    BY <2>1, <2>b, <2>c
  <2>2. ASSUME NEW r, Sends(r) PROVE Comes(v, toDB', n, a) \/ Safe(a)'
    <3>1. r \in Seq(ToDBMessage) /\ toDB' = toDB \o r /\ Newer(v, r, a)
      BY <2>2, <2>d DEF Sends, InMemoryAs, Newer
    <3>2. /\ Len(toDB) \in Nat
          /\ \A i \in 1 .. Len(toDB) : toDB'[i] = toDB[i]
          /\ \A i \in 1 .. Len(r) : toDB'[Len(toDB) + i] = r[i]
          /\ \A i \in 1 .. Len(toDB') : i \in 1 .. Len(toDB) \/ \E j \in 1 .. Len(r) : i = Len(toDB) + j
      <4>1. /\ Len(toDB) \in Nat
            /\ \A i \in 1 .. Len(toDB) : (toDB \o r)[i] = toDB[i]
            /\ \A i \in 1 .. Len(r) : (toDB \o r)[Len(toDB) + i] = r[i]
            /\ \A i \in 1 .. Len(toDB \o r) :
                  i \in 1 .. Len(toDB) \/ \E j \in 1 .. Len(r) : i = Len(toDB) + j
        BY <1>a, <3>1, Behind, SMTT(20)
      <4> QED  BY ONLY <3>1, <4>1
    <3>3. CASE n \in 1 .. Len(toDB)
      <4>1. Comes(v, toDB, n, a) \/ Safe(a)
        BY <2>c, <3>2, <3>3
      <4>2. n \in Nat
        BY <3>2, <3>3
      <4>3. Comes(v, toDB, n, a) => Comes(v, toDB', n, a)
        BY <1>a, <3>1, <4>2, NewerSent
      <4> QED  BY <2>b, <4>1, <4>3
    <3>4. CASE \E j \in 1 .. Len(r) : n = Len(toDB) + j
      <4>1. Has(r, "SaveAllHeroes")
        BY <3>2, <3>4 DEF Has
      <4>2. checkStop
        BY <1>2, <2>2, <4>1 DEF Sends
      <4>3. _save_all_heroes_ok
        BY <4>2 DEF checkStop
      <4>4. Safe(a)
        BY <1>b, <1>c, <2>a, <4>3 DEF AnsweredSafe
      <4> QED  BY <2>b, <4>4
    <3> QED  BY <3>2, <3>3, <3>4
  <2>3. CASE Hears
    <3>1. toDB # <<>> /\ toDB' = Tail(toDB)
      BY <2>3 DEF Hears
    <3>2. /\ Head(toDB) = toDB[1] /\ 1 \in 1 .. Len(toDB) /\ Head(toDB) \in ToDBMessage
          /\ n + 1 \in 1 .. Len(toDB) /\ toDB'[n] = toDB[n + 1]
      BY <1>a, <3>1, Rest
    <3>3. CASE Safe(a)
      BY <2>b, <3>3
    <3>4. CASE Comes(v, toDB, n + 1, a) /\ ~Comes(v, toDB', n, a)
      <4>1. IsSave(Head(toDB), a) /\ v <= Head(toDB).ver /\ Newer(v, toDB', a)
        BY <1>a, <3>1, <3>4, NewerHeard
      <4>2. Head(toDB) \in SaveTask
        BY <3>2, <4>1, Fields DEF IsSave
      <4>3. saves' = Append(saves, Head(toDB)) /\ character' = character
        BY <1>c, <2>3, <4>1 DEF Hears, IsSave
      <4>4. Kept(v, character[a], saves', a)
        BY <1>a, <4>1, <4>2, <4>3, KeptQueued
      <4> QED  BY <2>a, <4>1, <4>3, <4>4 DEF Safe, v
    <3>5. Comes(v, toDB, n + 1, a) \/ Safe(a)
      BY <2>c, <3>2
    <3> QED  BY <3>3, <3>4, <3>5
  <2>4. CASE Loses
    <3>1. Len(toDB') = 0 /\ \A i : i \notin 1 .. 0
      BY <2>4, EmptySeq DEF Loses
    <3> QED  BY <3>1
  <2>5. CASE Stores
    BY <2>1, <2>5 DEF Stores
  <2> QED  BY <2>1, <2>2, <2>3, <2>4, <2>5, SaveSteps
<1> QED  BY <1>1, <1>2

(* Every step keeps AnsweredSafe: what was queued stays queued or is       *)
(* stored.                                                                 *)
LEMMA AnsweredSafeStep ==
    ASSUME TypeOK, LinkEnds, HeroLoaded, StopInv, [Next]_vars
    PROVE  AnsweredSafe'
<1>a. toDB \in Seq(ToDBMessage) /\ fromDB \in Seq(FromDBMessage)
  BY DEF TypeOK
<1>b. NotStopping /\ StillInMemory /\ StopsWhenTold /\ Announces /\ AnsweredSafe
  BY DEF StopInv
<1> SUFFICES ASSUME Has(fromDB', "SaveAllHeroes") \/ _save_all_heroes_ok' \/ game' = "stopped",
                    NEW a \in Accounts, atStop'[a] # None, errors' = 0
             PROVE  Safe(a)'
  BY DEF AnsweredSafe
<1>c. errors = 0
  BY ControlSteps
<1>1. \/ Has(fromDB, "SaveAllHeroes") \/ _save_all_heroes_ok \/ game = "stopped"
      \/ saveToClose /\ ~_receive_cose_msg
  <2>1. parseMsgSaveAllHeroes => Has(fromDB, "SaveAllHeroes")
    BY <1>a, HasParts DEF parseMsgSaveAllHeroes, Receives
  <2>2. checkStop => _save_all_heroes_ok
    BY DEF checkStop
  <2> QED  BY <2>1, <2>2, ControlSteps, AnswersStep
<1>2. ~setStop
  <2>1. setStop => game = "run" /\ ~saveToClose
    <3>1. setStop /\ saveToClose => FALSE
      <4>1. setStop => game' # game
        BY DEF setStop
      <4>2. saveToClose => game' = game
        BY DEF saveToClose, gameUnchanged
      <4> QED  BY <4>1, <4>2
    <3> QED  BY <3>1 DEF setStop
  <2> QED  BY <1>1, <1>b, <2>1 DEF NotStopping
<1>3. atStop'[a] = atStop[a] /\ atStop[a] # None
  BY <1>2, ControlSteps
<1>4. Safe(a)
  <2>1. CASE Has(fromDB, "SaveAllHeroes") \/ _save_all_heroes_ok \/ game = "stopped"
    BY <1>b, <1>c, <1>3, <2>1 DEF AnsweredSafe
  <2>2. CASE saveToClose /\ ~_receive_cose_msg
    <3>1. toDB # <<>> /\ Head(toDB).type = "SaveAllHeroes"
      BY <2>2 DEF saveToClose, DBHears
    <3>2. 1 \in 1 .. Len(toDB) /\ toDB[1].type = "SaveAllHeroes"
      BY <1>a, <3>1, Rest
    <3>3. Comes(atStop[a].ver, toDB, 1, a) \/ Safe(a)
      BY <1>b, <1>c, <1>3, <2>2, <3>2 DEF Announces
    <3>4. \A i : i \notin 1 .. 1 - 1
      OBVIOUS
    <3> QED  BY <3>3, <3>4 DEF Comes
  <2> QED  BY <1>1, <2>1, <2>2
<1> QED  BY <1>b, <1>3, <1>4, SafeStep

(* Every step keeps the invariant of the stop.                             *)
LEMMA StopStep == TypeOK /\ LinkEnds /\ HeroLoaded /\ StopInv /\ [Next]_vars => StopInv'
<1> SUFFICES ASSUME TypeOK, LinkEnds, HeroLoaded, StopInv, [Next]_vars PROVE StopInv'
  OBVIOUS
<1>1. NotStopping' /\ StillInMemory'
  BY NotStoppingStep, StillInMemoryStep DEF StopInv
<1>2. StopsWhenTold'
  BY ControlSteps DEF StopInv, StopsWhenTold
<1>3. Announces' /\ AnsweredSafe'
  BY AnnouncesStep, AnsweredSafeStep
<1> QED  BY <1>1, <1>2, <1>3 DEF StopInv

-----------------------------------------------------------------------------
(* The theorems.                                                           *)

(* The invariant holds initially.                                          *)
LEMMA InitInv == Init => IInv
<1> SUFFICES ASSUME Init PROVE IInv
  OBVIOUS
<1> USE GameAssumption DEF Init
<1>a. \A S : <<>> \in Seq(S)
  OBVIOUS
<1>b. Len(<<>>) = 0 /\ \A i : i \notin 1 .. 0
  BY EmptySeq
<1>c. ~Has(<<>>, "SaveAllHeroes")
  BY <1>b DEF Has
<1>1. TypeOK
  <2>1. GateType /\ HeroType
    BY DEF GateType, HeroType
  <2>2. LinkType
    BY <1>a DEF LinkType
  <2>3. character \in [Accounts -> 0 .. MaxVersion]
    BY DEF NoRow, FromConfig
  <2>4. DBType
    BY <1>a, <2>3 DEF DBType, Suits
  <2> QED  BY <2>1, <2>2, <2>4, TypeParts
<1>2. LinkEnds
  BY DEF LinkEnds, Running
<1>3. SessionInv
  BY DEF SessionInv, HeroLoaded, OneSession, SessionOfHero
<1>4. VersionsAscend
  BY <1>b DEF VersionsAscend, Ascends
<1>5. SuitsInv
  <2>1. Elems(<<>>) = {}
    BY ElemsShort
  <2>2. \A a \in Accounts : \A v, s :
          /\ Known(v, s, a) => Stored(v, s, a)
          /\ ~Loading(v, s, a) /\ ~Sent(v, s, a)
    BY <2>1 DEF Known, Saving, Loading, Sent, Held
  <2>3. \A a \in Accounts : \A v, s : Stored(v, s, a) => s = "bare"
    BY DEF Stored
  <2> QED  BY <2>2, <2>3 DEF SuitsInv, LoadedBelow, FirstBare, Agree
<1>6. StopInv
  BY <1>b, <1>c DEF StopInv, NotStopping, StillInMemory, StopsWhenTold, Announces, AnsweredSafe
<1> QED  BY <1>1, <1>2, <1>3, <1>4, <1>5, <1>6 DEF IInv

(* Every step keeps the invariant.                                         *)
LEMMA StepInv == IInv /\ [Next]_vars => IInv'
<1> SUFFICES ASSUME IInv, [Next]_vars PROVE IInv'
  OBVIOUS
<1>a. TypeOK /\ LinkEnds /\ SessionInv /\ HeroLoaded /\ VersionsAscend /\ SuitsInv /\ StopInv
  BY DEF IInv, SessionInv
<1>1. GateType' /\ HeroType' /\ LinkType' /\ DBType'
  BY <1>a, GateTypeStep, HeroTypeStep, LinkTypeStep, DBTypeStep
<1>2. TypeOK'
  BY <1>1 DEF TypeOK, GateType, HeroType, LinkType, DBType, HeroRecord, SessionRecord
<1>3. LinkEnds' /\ SessionInv' /\ VersionsAscend' /\ SuitsInv' /\ StopInv'
  BY <1>a, LinkEndsStep, SessionStep, VersionsStep, SuitsStep, StopStep
<1> QED  BY <1>2, <1>3 DEF IInv

(* The sessions, the versions and the stop together are an invariant of    *)
(* the game server, the link and the database server.                      *)
THEOREM Inductive == Spec => []IInv
BY InitInv, StepInv, PTL DEF Spec

(* Every variable keeps its type: no handler of the game server or of the  *)
(* database server (Session, GameDBClient, GameSession, DBQuestManager)    *)
(* reads a hero, a session or a message that is not there.                 *)
THEOREM TypeCorrect == Spec => []TypeOK
<1>1. IInv => TypeOK
  BY DEF IInv
<1> QED  BY <1>1, Inductive, PTL

(* While an account has one session at a time, its hero answers that       *)
(* session (DreamHero::_session), for any number of gates and logins.      *)
THEOREM SessionOfHeroHolds == Spec => []SessionOfHero
<1>1. IInv => SessionOfHero
  BY DEF IInv, SessionInv
<1> QED  BY <1>1, Inductive, PTL

(* A game server that has stopped left every hero, at least as it was when *)
(* it was told to, with the database server (DreamHeroManager::            *)
(* SaveDreamHeroes, saveToClose), for any number of heroes.                *)
THEOREM StopKeepsHeroesHolds == Spec => []StopKeepsHeroes
<1>1. IInv => StopKeepsHeroes
  <2> SUFFICES ASSUME IInv, game = "stopped", errors = 0, NEW a \in Accounts, atStop[a] # None
               PROVE  \E v \in {character[a]} \cup Queued(a) : v >= atStop[a].ver
    BY DEF StopKeepsHeroes
  <2> USE GameAssumption
  <2>1. Kept(atStop[a].ver, character[a], saves, a)
    BY DEF IInv, StopInv, AnsweredSafe, Safe
  <2>2. /\ atStop[a] \in HeroRecord /\ character[a] \in Nat
        /\ \A i \in 1 .. Len(saves) : saves[i] \in SaveTask
    BY ElementOfSeq DEF IInv, TypeOK, HeroRecord
  <2>3. CASE atStop[a].ver <= character[a]
    BY <2>2, <2>3 DEF HeroRecord
  <2>4. ASSUME NEW i \in 1 .. Len(saves), IsSave(saves[i], a), atStop[a].ver <= saves[i].ver
        PROVE  \E v \in {character[a]} \cup Queued(a) : v >= atStop[a].ver
    <3>1. saves[i].ver \in Queued(a)
      BY <2>4 DEF Queued, IsSave
    <3>2. saves[i].ver >= atStop[a].ver
      BY <2>2, <2>4, Fields DEF HeroRecord
    <3> QED  BY <3>1, <3>2
  <2> QED  BY <2>1, <2>3, <2>4 DEF Kept
<1> QED  BY <1>1, Inductive, PTL

(* No answer of the database server takes a hero in memory back to what is *)
(* stored, its suits included (DreamHeroManager::CreateHero).              *)
THEOREM NoRollbackHolds == Spec => NoRollback
<1> DEFINE A == \A a \in Accounts :
                   _heros[a] # None /\ _heros'[a] # None =>
                       /\ _heros'[a].ver >= _heros[a].ver
                       /\ _heros'[a].ver = _heros[a].ver => _heros'[a].suits = _heros[a].suits
<1>1. IInv /\ [Next]_vars => [A]_vars
  <2> SUFFICES ASSUME IInv, [Next]_vars, NEW a \in Accounts, _heros[a] # None, _heros'[a] # None
               PROVE  /\ _heros'[a].ver >= _heros[a].ver
                      /\ _heros'[a].ver = _heros[a].ver => _heros'[a].suits = _heros[a].suits
    OBVIOUS
  <2> USE GameAssumption
  <2>1. TypeOK /\ LinkEnds /\ HeroLoaded
    BY DEF IInv, SessionInv
  <2>2. Keeps(a)
    BY <2>1, SaveSteps
  <2>3. _heros[a] \in HeroRecord /\ _heros'[a] \in HeroRecord
    BY <2>1, TypeParts, HeroTypeStep DEF HeroType
  <2> QED  BY <2>2, <2>3 DEF HeroRecord, Keeps
<1> QED  BY <1>1, Inductive, PTL DEF Spec, NoRollback

(* What is stored of an account never gets older, and a version that is    *)
(* stored again is the same hero but for the equip ids that a load loses   *)
(* (dbDoQueryHeroInfo), unless its hero was made from less than the        *)
(* database server had, over any number of crashes, restarts, lost links   *)
(* and failed statements.                                                  *)
THEOREM StoredNeverOlderHolds == Spec => StoredNeverOlder
<1> DEFINE A == \A a \in Accounts :
                   \/ /\ character'[a] >= character[a]
                      /\ character'[a] = character[a] =>
                             ReadBack(suits_name'[a]) = ReadBack(suits_name[a])
                   \/ a \in misread
<1>1. IInv /\ [Next]_vars => [A]_vars
  BY StoredStep DEF IInv, SessionInv
<1> QED  BY <1>1, Inductive, PTL DEF Spec, StoredNeverOlder
=============================================================================
