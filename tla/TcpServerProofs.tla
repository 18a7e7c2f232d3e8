-------------------------- MODULE TcpServerProofs --------------------------
(***************************************************************************)
(* The pool of sessions and the delivery of messages, for any number of    *)
(* sessions, connections, messages and failed accepts.                     *)
(*                                                                         *)
(* A session is pooled, armed or serving (OnePlace).  What keeps it there  *)
(* is that it has a father only once its one accept was handled, and no    *)
(* second accept is posted to it before it is freed (Clean).  A message    *)
(* outlives its connection only in the receive queue of the run whose      *)
(* callbacks freed the session, and the session is in the pool until the   *)
(* queue is empty (Owned).                                                 *)
(***************************************************************************)
EXTENDS TcpServer, FiniteSetTheorems, SequenceTheorems, TLAPS

SessionRecord ==
    [valid : BOOLEAN, connected : BOOLEAN, father : BOOLEAN, sending : BOOLEAN,
     queue : {0, 1}, conn : Conns \cup {None}, open : BOOLEAN,
     ip : Ips \cup {None}, reading : BOOLEAN, writing : BOOLEAN]

(* What is posted to a session's io_service.                               *)
Posted == {"accept", "close", "write", "written", "writeError", "readError"} \cup Kinds

Message == [from : Sessions, conn : Conns]

(* Every variable the sessions depend on holds a value of its type.        *)
TypeOK ==
    /\ m_sessions \in Seq(Sessions) /\ accepting \in Seq(Sessions)
    /\ ses \in [Sessions -> SessionRecord]
    /\ io \in [Sessions -> Seq(Posted)]
    /\ cbs \in Seq({"on_accept", "on_close"} \X Sessions)
    /\ calls \in Seq({"on_accept", "on_close"} \X Sessions)
    /\ recv \in Seq(Message) /\ procs \in Seq(Message)
    /\ pc \in {"poll", "call", "deliver"}

In(s, q) == \E i \in 1 .. Len(q) : q[i] = s
Distinct(q) == \A i, j \in 1 .. Len(q) : q[i] = q[j] => i = j

(* Every session is once in p, or once in a, or in c.                      *)
OnePlace(p, a, c) ==
    /\ Distinct(p) /\ Distinct(a)
    /\ \A s \in Sessions : In(s, p) => ~In(s, a) /\ s \notin c
    /\ \A s \in Sessions : In(s, a) => s \notin c
    /\ \A s \in Sessions : In(s, p) \/ In(s, a) \/ s \in c

Served == {s \in Sessions : ses[s].conn # None}

Placed == OnePlace(m_sessions, accepting, Served)

(* A session r with the handlers q posted to it.                           *)
Clean(r, q) ==
    /\ r.connected => r.father
    /\ r.father => r.conn # None /\ ~In("accept", q)
    /\ r.open => r.conn # None
    /\ In("accept", q) => r.conn # None
    /\ \A i, j \in 1 .. Len(q) : q[i] = "accept" /\ q[j] = "accept" => i = j

AllClean == \A s \in Sessions : Clean(ses[s], io[s])

(* The session a message was read by is in the pool.                       *)
Freed(s) == ses[s].conn = None /\ ~In(s, accepting)

Owned ==
    /\ \A i \in 1 .. Len(recv) :
          ses[recv[i].from].conn = recv[i].conn \/ (pc = "call" /\ Freed(recv[i].from))
    /\ \A i \in 1 .. Len(procs) :
          ses[procs[i].from].conn = procs[i].conn \/ Freed(procs[i].from)
    /\ procs # <<>> => pc = "deliver"

IInv == TypeOK /\ Placed /\ AllClean /\ Owned /\ DeliveredToOwner

-----------------------------------------------------------------------------
(* Lists.                                                                  *)

(* The elements of a concatenation, by position.                           *)
LEMMA Behind ==
    ASSUME NEW S, NEW q \in Seq(S), NEW r \in Seq(S)
    PROVE  /\ q \o r \in Seq(S) /\ Len(q) \in Nat /\ Len(r) \in Nat
           /\ Len(q \o r) = Len(q) + Len(r)
           /\ \A i \in 1 .. Len(q) : i \in 1 .. Len(q \o r) /\ (q \o r)[i] = q[i]
           /\ \A i \in 1 .. Len(r) : Len(q) + i \in 1 .. Len(q \o r) /\ (q \o r)[Len(q) + i] = r[i]
           /\ \A i \in 1 .. Len(q \o r) :
                 \/ i \in 1 .. Len(q)
                 \/ \E j \in 1 .. Len(r) : i = Len(q) + j
<1>1. /\ q \o r \in Seq(S) /\ Len(q) \in Nat /\ Len(r) \in Nat
      /\ Len(q \o r) = Len(q) + Len(r)
      /\ \A i \in 1 .. Len(q) + Len(r) : (q \o r)[i] =
              IF i <= Len(q) THEN q[i] ELSE r[i - Len(q)]
  BY ConcatProperties, LenProperties
<1>2. \A m, n \in Nat :
        /\ \A i \in 1 .. m : i \in 1 .. m + n /\ i <= m
        /\ \A i \in 1 .. n : m + i \in 1 .. m + n /\ ~(m + i <= m) /\ (m + i) - m = i
        /\ \A i \in 1 .. m + n : i \in 1 .. m \/ (i - m \in 1 .. n /\ i = m + (i - m))
  OBVIOUS
<1>3. \A i \in 1 .. Len(q) + Len(r) : i \in 1 .. Len(q) \/ \E j \in 1 .. Len(r) : i = Len(q) + j
  BY ONLY <1>1, <1>2
<1>4. /\ \A i \in 1 .. Len(q) : i \in 1 .. Len(q \o r) /\ (q \o r)[i] = q[i]
      /\ \A i \in 1 .. Len(r) : Len(q) + i \in 1 .. Len(q \o r) /\ (q \o r)[Len(q) + i] = r[i]
  BY ONLY <1>1, <1>2
<1> QED  BY ONLY <1>1, <1>3, <1>4

(* Append is a concatenation with one element.                             *)
LEMMA OneBehind ==
    ASSUME NEW S, NEW q \in Seq(S), NEW e \in S
    PROVE  /\ <<e>> \in Seq(S) /\ Len(<<e>>) = 1 /\ <<e>>[1] = e
           /\ Append(q, e) \in Seq(S) /\ Append(q, e) = q \o <<e>>
  OBVIOUS

(* What Head and Tail leave of a queue, by position.                       *)
LEMMA Rest ==
    ASSUME NEW S, NEW q \in Seq(S), q # <<>>
    PROVE  /\ Head(q) \in S /\ Head(q) = q[1] /\ Tail(q) \in Seq(S)
           /\ Len(q) \in Nat \ {0} /\ 1 \in 1 .. Len(q) /\ Len(Tail(q)) = Len(q) - 1
           /\ \A i \in 1 .. Len(Tail(q)) : i + 1 \in 1 .. Len(q) /\ i + 1 # 1 /\ Tail(q)[i] = q[i + 1]
           /\ \A i \in 1 .. Len(q) : i = 1 \/ \E j \in 1 .. Len(Tail(q)) : i = j + 1
           /\ \A i, j \in 1 .. Len(Tail(q)) : i + 1 = j + 1 => i = j
<1>1. /\ Head(q) \in S /\ Head(q) = q[1] /\ Tail(q) \in Seq(S)
      /\ Len(q) \in Nat \ {0} /\ Len(Tail(q)) = Len(q) - 1
      /\ \A i \in 1 .. Len(Tail(q)) : Tail(q)[i] = q[i + 1]
  BY HeadTailProperties, LenProperties, EmptySeq
<1>2. \A n \in Nat \ {0} :
        /\ 1 \in 1 .. n
        /\ \A i \in 1 .. n - 1 : i + 1 \in 1 .. n /\ i + 1 # 1
        /\ \A i \in 1 .. n : i = 1 \/ (i - 1 \in 1 .. n - 1 /\ i = (i - 1) + 1)
        /\ \A i, j \in 1 .. n - 1 : i + 1 = j + 1 => i = j
  OBVIOUS
<1>3. \A i \in 1 .. Len(q) : i = 1 \/ \E j \in 1 .. Len(Tail(q)) : i = j + 1
  BY ONLY <1>1, <1>2
<1> QED  BY ONLY <1>1, <1>2, <1>3

(* What is in a list that grew, or lost its first.                         *)
LEMMA InBehind ==
    ASSUME NEW S, NEW q \in Seq(S), NEW r \in Seq(S)
    PROVE  /\ \A s : In(s, q \o r) <=> In(s, q) \/ In(s, r)
           /\ Distinct(q) /\ Distinct(r) /\ (\A s \in S : ~(In(s, q) /\ In(s, r))) => Distinct(q \o r)
<1>1. /\ Len(q) \in Nat /\ Len(r) \in Nat
      /\ \A i \in 1 .. Len(q) : i \in 1 .. Len(q \o r) /\ (q \o r)[i] = q[i]
      /\ \A i \in 1 .. Len(r) : Len(q) + i \in 1 .. Len(q \o r) /\ (q \o r)[Len(q) + i] = r[i]
      /\ \A i \in 1 .. Len(q \o r) : i \in 1 .. Len(q) \/ \E j \in 1 .. Len(r) : i = Len(q) + j
  BY Behind, SMTT(30)
<1>2. ASSUME NEW s PROVE In(s, q \o r) <=> In(s, q) \/ In(s, r)
  <2>1. ASSUME NEW i \in 1 .. Len(q \o r), (q \o r)[i] = s PROVE In(s, q) \/ In(s, r)
    <3>1. CASE i \in 1 .. Len(q)
      BY <1>1, <2>1, <3>1 DEF In
    <3>2. ASSUME NEW j \in 1 .. Len(r), i = Len(q) + j PROVE In(s, r)
      BY <1>1, <2>1, <3>2 DEF In
    <3> QED  BY <1>1, <3>1, <3>2
  <2>2. In(s, q) => In(s, q \o r)
    BY <1>1 DEF In
  <2>3. In(s, r) => In(s, q \o r)
    BY <1>1 DEF In
  <2> QED  BY <2>1, <2>2, <2>3 DEF In
<1>3. ASSUME Distinct(q), Distinct(r), \A s \in S : ~(In(s, q) /\ In(s, r)),
             NEW i \in 1 .. Len(q \o r), NEW j \in 1 .. Len(q \o r), (q \o r)[i] = (q \o r)[j]
      PROVE  i = j
  <2>1. \A k \in 1 .. Len(q), m \in 1 .. Len(r) : q[k] # r[m]
    <3>1. \A k \in 1 .. Len(q) : q[k] \in S
      BY ElementOfSeq
    <3> QED  BY <1>3, <3>1 DEF In
  <2>2. CASE i \in 1 .. Len(q) /\ j \in 1 .. Len(q)
    BY <1>1, <1>3, <2>2 DEF Distinct
  <2>3. ASSUME NEW k \in 1 .. Len(r), i = Len(q) + k, j \in 1 .. Len(q) PROVE FALSE
    BY <1>1, <1>3, <2>1, <2>3
  <2>4. ASSUME NEW k \in 1 .. Len(r), j = Len(q) + k, i \in 1 .. Len(q) PROVE FALSE
    BY <1>1, <1>3, <2>1, <2>4
  <2>5. ASSUME NEW k \in 1 .. Len(r), i = Len(q) + k, NEW m \in 1 .. Len(r), j = Len(q) + m
        PROVE  i = j
    <3>1. r[k] = r[m]
      BY <1>1, <1>3, <2>5
    <3> QED  BY <1>3, <2>5, <3>1 DEF Distinct
  <2> QED  BY <1>1, <2>2, <2>3, <2>4, <2>5
<1> QED  BY <1>2, <1>3 DEF Distinct

(* A list of one element.                                                  *)
LEMMA InOne ==
    ASSUME NEW e
    PROVE  Distinct(<<e>>) /\ \A s : In(s, <<e>>) <=> s = e
<1>1. Len(<<e>>) = 1 /\ <<e>>[1] = e /\ \A i \in 1 .. 1 : i = 1
  OBVIOUS
<1>2. 1 \in 1 .. 1
  OBVIOUS
<1> QED  BY <1>1, <1>2 DEF In, Distinct

(* The empty list.                                                         *)
LEMMA InNone == Distinct(<<>>) /\ \A s : ~In(s, <<>>)
<1>1. Len(<<>>) = 0 /\ \A i : i \notin 1 .. 0
  BY EmptySeq
<1> QED  BY <1>1 DEF In, Distinct

(* Taking the head takes one element off a list.                           *)
LEMMA InRest ==
    ASSUME NEW S, NEW q \in Seq(S), q # <<>>
    PROVE  /\ In(Head(q), q)
           /\ \A s : In(s, q) <=> s = Head(q) \/ In(s, Tail(q))
           /\ Distinct(q) => Distinct(Tail(q)) /\ ~In(Head(q), Tail(q))
<1>1. /\ Head(q) = q[1] /\ 1 \in 1 .. Len(q)
      /\ \A i \in 1 .. Len(Tail(q)) : i + 1 \in 1 .. Len(q) /\ i + 1 # 1 /\ Tail(q)[i] = q[i + 1]
      /\ \A i \in 1 .. Len(q) : i = 1 \/ \E j \in 1 .. Len(Tail(q)) : i = j + 1
      /\ \A i, j \in 1 .. Len(Tail(q)) : i + 1 = j + 1 => i = j
  BY Rest
<1>2. In(Head(q), q)
  BY ONLY <1>1 DEF In
<1>3. ASSUME NEW s PROVE In(s, q) <=> s = Head(q) \/ In(s, Tail(q))
  <2>1. In(s, Tail(q)) => In(s, q)
    BY ONLY <1>1 DEF In
  <2>2. ASSUME NEW i \in 1 .. Len(q), q[i] = s PROVE s = Head(q) \/ In(s, Tail(q))
    BY ONLY <1>1, <2>2, i \in 1 .. Len(q) DEF In
  <2> QED  BY <1>2, <2>1, <2>2 DEF In
<1>4. Distinct(q) => Distinct(Tail(q)) /\ ~In(Head(q), Tail(q))
  BY ONLY <1>1 DEF Distinct, In
<1> QED  BY <1>2, <1>3, <1>4

(* Append puts one element into a list.                                    *)
LEMMA InAppended ==
    ASSUME NEW S, NEW q \in Seq(S), NEW e \in S
    PROVE  /\ Append(q, e) \in Seq(S)
           /\ \A s : In(s, Append(q, e)) <=> In(s, q) \/ s = e
           /\ Distinct(q) /\ ~In(e, q) => Distinct(Append(q, e))
<1>1. <<e>> \in Seq(S) /\ Append(q, e) \in Seq(S) /\ Append(q, e) = q \o <<e>>
  BY OneBehind
<1>2. /\ \A s : In(s, q \o <<e>>) <=> In(s, q) \/ In(s, <<e>>)
      /\ Distinct(q) /\ Distinct(<<e>>) /\ (\A s \in S : ~(In(s, q) /\ In(s, <<e>>)))
           => Distinct(q \o <<e>>)
  BY <1>1, InBehind
<1>3. Distinct(<<e>>) /\ \A s : In(s, <<e>>) <=> s = e
  BY InOne
<1> QED  BY ONLY <1>1, <1>2, <1>3

(* A list cut in two.                                                      *)
LEMMA Cut ==
    ASSUME NEW S, NEW q \in Seq(S), NEW n \in 0 .. Len(q), Distinct(q)
    PROVE  LET x == SubSeq(q, 1, n)
               y == SubSeq(q, n + 1, Len(q))
           IN  /\ x \in Seq(S) /\ y \in Seq(S) /\ Distinct(x) /\ Distinct(y)
               /\ \A s : In(s, q) <=> In(s, x) \/ In(s, y)
               /\ \A s : ~(In(s, x) /\ In(s, y))
<1> DEFINE x == SubSeq(q, 1, n)
           y == SubSeq(q, n + 1, Len(q))
           m == Len(q)
<1>a. m \in Nat /\ n \in Nat
  BY LenProperties
<1>b. \A k \in Nat : \A l \in 0 .. k :
        /\ 1 .. l \subseteq 1 .. k
        /\ \A i \in 1 .. l : i \in 1 .. k
        /\ \A i \in l + 1 .. k : i \in 1 .. k
        /\ \A i \in 1 .. k - l : l + i \in 1 .. k /\ l + i \notin 1 .. l
        /\ \A i \in 1 .. k : i \in 1 .. l \/ (i - l \in 1 .. k - l /\ i = l + (i - l))
        /\ \A i, j \in 1 .. k - l : l + i = l + j => i = j
  OBVIOUS
<1>1. /\ x \in Seq(S) /\ Len(x) = n /\ \A i \in 1 .. n : x[i] = q[i]
  <2>1. \A i \in 1 .. n : i \in 1 .. m /\ q[i] \in S /\ 1 + i - 1 = i
    BY <1>a, <1>b, ElementOfSeq
  <2>2. x = [i \in 1 .. n |-> q[i]]
    BY <1>a, <2>1
  <2> QED  BY <1>a, <2>1, <2>2
<1>2. /\ y \in Seq(S) /\ Len(y) = m - n /\ \A i \in 1 .. m - n : y[i] = q[n + i]
  <2>1. \A i \in 1 .. m - n : n + i \in 1 .. m /\ q[n + i] \in S /\ (n + 1) + i - 1 = n + i
    BY <1>a, <1>b, ElementOfSeq
  <2>2. y = [i \in 1 .. m - n |-> q[n + i]]
    BY <1>a, <2>1
  <2>3. m - n \in Nat
    BY <1>a
  <2> QED  BY <1>a, <2>1, <2>2, <2>3
<1> HIDE DEF x, y, m
<1>3. Distinct(x)
  BY ONLY <1>a, <1>b, <1>1, Distinct(q), n \in 0 .. m DEF Distinct, m
<1>4. Distinct(y)
  <2>1. \A i, j \in 1 .. m - n :
          n + i \in 1 .. m /\ n + j \in 1 .. m /\ (n + i = n + j => i = j)
    BY ONLY <1>a, <1>b, n \in 0 .. m DEF m
  <2>2. \A i, j \in 1 .. m : q[i] = q[j] => i = j
    BY DEF Distinct, m
  <2> QED  BY ONLY <1>2, <2>1, <2>2 DEF Distinct
<1>5. ASSUME NEW s PROVE (In(s, q) <=> In(s, x) \/ In(s, y)) /\ ~(In(s, x) /\ In(s, y))
  <2>1. In(s, x) => In(s, q)
    BY ONLY <1>a, <1>b, <1>1, n \in 0 .. m DEF In, m
  <2>2. In(s, y) => In(s, q)
    BY ONLY <1>a, <1>b, <1>2, n \in 0 .. m DEF In, m
  <2>3. In(s, q) => In(s, x) \/ In(s, y)
    <3> SUFFICES ASSUME NEW i \in 1 .. m, q[i] = s PROVE In(s, x) \/ In(s, y)
      BY DEF In, m
    <3>1. i \in 1 .. n \/ (i - n \in 1 .. m - n /\ i = n + (i - n))
      BY <1>a, <1>b DEF m
    <3>2. CASE i \in 1 .. n
      BY <1>1, <3>2 DEF In
    <3>3. CASE i - n \in 1 .. m - n /\ i = n + (i - n)
      <4> DEFINE j == i - n
      <4> HIDE DEF j
      <4>1. j \in 1 .. m - n /\ i = n + j
        BY <3>3 DEF j
      <4> QED  BY <1>2, <4>1 DEF In
    <3> QED  BY <3>1, <3>2, <3>3
  <2>4. ~(In(s, x) /\ In(s, y))
    BY ONLY <1>a, <1>b, <1>1, <1>2, Distinct(q), n \in 0 .. m DEF In, Distinct, m
  <2> QED  BY <2>1, <2>2, <2>3, <2>4
<1> QED  BY <1>1, <1>2, <1>3, <1>4, <1>5 DEF x, y, m

-----------------------------------------------------------------------------
(* Places.                                                                 *)

(* Arm: the first n of the pool are armed.                                 *)
LEMMA PlaceArmed ==
    ASSUME NEW p \in Seq(Sessions), NEW a \in Seq(Sessions), NEW c, OnePlace(p, a, c),
           NEW n \in 0 .. Len(p)
    PROVE  /\ OnePlace(SubSeq(p, n + 1, Len(p)), a \o SubSeq(p, 1, n), c)
           /\ SubSeq(p, n + 1, Len(p)) \in Seq(Sessions)
           /\ a \o SubSeq(p, 1, n) \in Seq(Sessions)
<1> DEFINE x == SubSeq(p, 1, n)
           y == SubSeq(p, n + 1, Len(p))
<1>1. /\ x \in Seq(Sessions) /\ y \in Seq(Sessions) /\ Distinct(x) /\ Distinct(y)
      /\ \A s : In(s, p) <=> In(s, x) \/ In(s, y)
      /\ \A s : ~(In(s, x) /\ In(s, y))
  BY Cut DEF OnePlace
<1> HIDE DEF x, y
<1>2. \A s : In(s, a \o x) <=> In(s, a) \/ In(s, x)
  BY <1>1, InBehind
<1>3. Distinct(a \o x)
  BY <1>1, InBehind DEF OnePlace
<1>4. a \o x \in Seq(Sessions)
  BY <1>1, Behind
<1> QED  BY <1>1, <1>2, <1>3, <1>4 DEF OnePlace, x, y

(* free_session of a session that served.                                  *)
LEMMA PlaceFreed ==
    ASSUME NEW p \in Seq(Sessions), NEW a \in Seq(Sessions), NEW c, OnePlace(p, a, c),
           NEW s \in Sessions, s \in c
    PROVE  OnePlace(Append(p, s), a, c \ {s}) /\ Append(p, s) \in Seq(Sessions)
<1>1. /\ Append(p, s) \in Seq(Sessions)
      /\ \A t : In(t, Append(p, s)) <=> In(t, p) \/ t = s
      /\ Distinct(p) /\ ~In(s, p) => Distinct(Append(p, s))
  BY InAppended
<1> QED  BY <1>1 DEF OnePlace

(* free_session of one whose accept was refused or failed.                 *)
LEMMA PlaceRefused ==
    ASSUME NEW p \in Seq(Sessions), NEW a \in Seq(Sessions), NEW c, OnePlace(p, a, c), a # <<>>
    PROVE  OnePlace(Append(p, Head(a)), Tail(a), c) /\ Append(p, Head(a)) \in Seq(Sessions)
<1>0. Head(a) \in Sessions
  BY Rest
<1>1. /\ Append(p, Head(a)) \in Seq(Sessions)
      /\ \A t : In(t, Append(p, Head(a))) <=> In(t, p) \/ t = Head(a)
      /\ Distinct(p) /\ ~In(Head(a), p) => Distinct(Append(p, Head(a)))
  BY <1>0, InAppended
<1>2. In(Head(a), a) /\ (\A t : In(t, a) <=> t = Head(a) \/ In(t, Tail(a)))
      /\ Distinct(Tail(a)) /\ ~In(Head(a), Tail(a))
  BY InRest DEF OnePlace
<1> QED  BY <1>0, <1>1, <1>2 DEF OnePlace

(* The first one armed gets a connection.                                  *)
LEMMA PlaceServed ==
    ASSUME NEW p \in Seq(Sessions), NEW a \in Seq(Sessions), NEW c, OnePlace(p, a, c), a # <<>>
    PROVE  OnePlace(p, Tail(a), c \cup {Head(a)})
<1>1. In(Head(a), a) /\ (\A t : In(t, a) <=> t = Head(a) \/ In(t, Tail(a)))
      /\ Distinct(Tail(a)) /\ ~In(Head(a), Tail(a))
  BY InRest DEF OnePlace
<1> QED  BY <1>1 DEF OnePlace

-----------------------------------------------------------------------------
(* Sessions.                                                               *)

(* u is what a step that neither accepts nor frees makes of r.             *)
Keeps(r, u) ==
    /\ u \in SessionRecord /\ u.conn = r.conn
    /\ u.father = r.father
    /\ u.connected => r.connected
    /\ u.open => r.open

(* The assignments of the session handlers that leave connection and       *)
(* father alone.                                                           *)
LEMMA Fields ==
    ASSUME NEW r \in SessionRecord
    PROVE  /\ Keeps(r, r)
           /\ Keeps(r, [r EXCEPT !.valid = TRUE])
           /\ Keeps(r, [r EXCEPT !.queue = 1])
           /\ Keeps(r, [r EXCEPT !.reading = FALSE])
           /\ Keeps(r, [r EXCEPT !.reading = r.open])
           /\ Keeps(r, [r EXCEPT !.writing = FALSE])
           /\ Keeps(r, [r EXCEPT !.sending = FALSE])
           /\ Keeps(r, [r EXCEPT !.queue = 0, !.sending = TRUE, !.writing = r.open])
           /\ Keeps(r, [r EXCEPT !.open = FALSE, !.reading = FALSE, !.writing = FALSE])
           /\ Keeps(r, [r EXCEPT !.connected = FALSE])
           /\ Keeps(r, [r EXCEPT !.queue = 0, !.connected = FALSE])
BY DEF Keeps, SessionRecord

(* Two such assignments in a row are one.                                  *)
LEMMA KeepsTwice ==
    ASSUME NEW r, NEW u, NEW w, Keeps(r, u), Keeps(u, w)
    PROVE  Keeps(r, w)
BY DEF Keeps

(* reset() leaves no connection, no father and no socket.                  *)
LEMMA ResetFields ==
    /\ Reset \in SessionRecord
    /\ Reset.conn = None /\ ~Reset.father /\ ~Reset.connected /\ ~Reset.open
BY DEF Reset, SessionRecord

(* What an accept by the operating system changes in a session.            *)
LEMMA ServedFields ==
    ASSUME NEW r \in SessionRecord, NEW c \in Conns
    PROVE  LET u == [r EXCEPT !.conn = c, !.open = TRUE]
           IN  /\ u \in SessionRecord /\ u.conn = c /\ u.father = r.father
               /\ u.connected = r.connected
BY DEF SessionRecord

(* What handle_accept changes in a session.                                *)
LEMMA AcceptedFields ==
    ASSUME NEW r \in SessionRecord, NEW i \in Ips \cup {None}
    PROVE  LET u == [r EXCEPT !.valid = TRUE, !.connected = TRUE, !.father = TRUE, !.ip = i]
               w == [u EXCEPT !.reading = u.open]
           IN  /\ u \in SessionRecord /\ u.conn = r.conn /\ u.open = r.open
               /\ w \in SessionRecord /\ w.conn = r.conn /\ w.open = r.open /\ w.father
BY DEF SessionRecord

(* Handlers that are posted behind, and the first one that is taken.       *)
LEMMA CleanStep ==
    ASSUME NEW S, NEW r, NEW u, Keeps(r, u), NEW q \in Seq(S), NEW e \in Seq(S), ~In("accept", e),
           Clean(r, q)
    PROVE  /\ Clean(u, q \o e)
           /\ q # <<>> => Clean(u, Tail(q) \o e)
<1>1. Clean(u, q)
  <2>1. u.connected => u.father
    BY DEF Clean, Keeps
  <2>2. u.father => u.conn # None /\ ~In("accept", q)
    BY DEF Clean, Keeps
  <2>3. (u.open => u.conn # None) /\ (In("accept", q) => u.conn # None)
    BY DEF Clean, Keeps
  <2> QED  BY <2>1, <2>2, <2>3 DEF Clean
<1>2. ASSUME NEW x \in Seq(S), Clean(u, x) PROVE Clean(u, x \o e)
  <2>1. \A s : In(s, x \o e) <=> In(s, x) \/ In(s, e)
    BY <1>2, InBehind
  <2>2. /\ \A i \in 1 .. Len(x) : (x \o e)[i] = x[i]
        /\ \A i \in 1 .. Len(e) : (x \o e)[Len(x) + i] = e[i]
        /\ \A i \in 1 .. Len(x \o e) : i \in 1 .. Len(x) \/ \E j \in 1 .. Len(e) : i = Len(x) + j
    BY <1>2, Behind, SMTT(20)
  <2>3. \A i \in 1 .. Len(x \o e) : (x \o e)[i] = "accept" => i \in 1 .. Len(x) /\ x[i] = "accept"
    BY <2>2 DEF In
  <2>4. \A i, j \in 1 .. Len(x \o e) : (x \o e)[i] = "accept" /\ (x \o e)[j] = "accept" => i = j
    BY <1>2, <2>3 DEF Clean
  <2> QED  BY <1>2, <2>1, <2>4 DEF Clean
<1>3. ASSUME q # <<>> PROVE Tail(q) \in Seq(S) /\ Clean(u, Tail(q))
  <2>1. /\ Tail(q) \in Seq(S)
        /\ \A i \in 1 .. Len(Tail(q)) : i + 1 \in 1 .. Len(q) /\ Tail(q)[i] = q[i + 1]
        /\ \A i, j \in 1 .. Len(Tail(q)) : i + 1 = j + 1 => i = j
    BY <1>3, Rest
  <2>2. In("accept", Tail(q)) => In("accept", q)
    BY <2>1 DEF In
  <2>3. \A i, j \in 1 .. Len(Tail(q)) : Tail(q)[i] = "accept" /\ Tail(q)[j] = "accept" => i = j
    BY <1>1, <2>1 DEF Clean
  <2> QED  BY <1>1, <2>1, <2>2, <2>3 DEF Clean
<1> QED  BY <1>1, <1>2, <1>3

(* handle_accept takes the only accept there is.                           *)
LEMMA CleanAccepted ==
    ASSUME NEW S, NEW r, NEW u, u.conn = r.conn, u.father, NEW q \in Seq(S), q # <<>>,
           NEW e \in Seq(S), ~In("accept", e), Head(q) = "accept", Clean(r, q)
    PROVE  Clean(u, Tail(q) \o e)
<1>1. /\ Head(q) = q[1] /\ 1 \in 1 .. Len(q) /\ Tail(q) \in Seq(S)
      /\ \A i \in 1 .. Len(Tail(q)) : i + 1 \in 1 .. Len(q) /\ i + 1 # 1 /\ Tail(q)[i] = q[i + 1]
  BY Rest
<1>2. r.conn # None
  BY <1>1 DEF Clean, In
<1>3. ~In("accept", Tail(q))
  BY <1>1 DEF Clean, In
<1>4. ~In("accept", Tail(q) \o e)
  BY <1>1, <1>3, InBehind
<1>5. \A i \in 1 .. Len(Tail(q) \o e) : (Tail(q) \o e)[i] # "accept"
  BY <1>4 DEF In
<1> QED  BY <1>2, <1>4, <1>5 DEF Clean

(* The accept of a session that had none.                                  *)
LEMMA CleanServed ==
    ASSUME NEW S, "accept" \in S, NEW r, NEW u, r.conn = None, u.conn # None, u.father = r.father,
           u.connected = r.connected, NEW q \in Seq(S), Clean(r, q)
    PROVE  Clean(u, Append(q, "accept"))
<1>1. ~r.father /\ ~r.connected /\ ~In("accept", q)
  BY DEF Clean
<1>2. /\ Len(Append(q, "accept")) = Len(q) + 1 /\ Len(q) \in Nat
      /\ \A i \in 1 .. Len(q) : Append(q, "accept")[i] = q[i]
  BY AppendProperties, LenProperties
<1>3. \A n \in Nat : \A i \in 1 .. n + 1 : i \in 1 .. n \/ i = n + 1
  OBVIOUS
<1>4. \A i \in 1 .. Len(Append(q, "accept")) : Append(q, "accept")[i] = "accept" => i = Len(q) + 1
  BY <1>1, <1>2, <1>3 DEF In
<1> QED  BY <1>1, <1>4 DEF Clean

(* A session that is freed.                                                *)
LEMMA CleanFreed ==
    ASSUME NEW S, NEW r, NEW q \in Seq(S), NEW e \in Seq(S), ~In("accept", e), Clean(r, q),
           r.father \/ r.conn = None
    PROVE  Clean(Reset, q \o e)
<1>1. ~In("accept", q)
  BY DEF Clean
<1>2. ~In("accept", q \o e)
  BY <1>1, InBehind
<1>3. \A i \in 1 .. Len(q \o e) : (q \o e)[i] # "accept"
  BY <1>2 DEF In
<1> QED  BY <1>2, <1>3, ResetFields DEF Clean

-----------------------------------------------------------------------------
(* Steps at one session, which leave it where it is.                       *)

Local(s, r, q) ==
    /\ ses' = [ses EXCEPT ![s] = r] /\ io' = [io EXCEPT ![s] = q]
    /\ r \in SessionRecord /\ q \in Seq(Posted) /\ Clean(r, q)
    /\ r.conn = ses[s].conn

(* A step of one session keeps all sessions clean and where they are.      *)
LEMMA LocalStep ==
    ASSUME TypeOK, AllClean, NEW s \in Sessions, NEW r, NEW q, Local(s, r, q)
    PROVE  /\ ses' \in [Sessions -> SessionRecord] /\ io' \in [Sessions -> Seq(Posted)]
           /\ AllClean'
           /\ \A t \in Sessions : ses'[t].conn = ses[t].conn
           /\ Served' = Served
<1>1. /\ ses' \in [Sessions -> SessionRecord] /\ io' \in [Sessions -> Seq(Posted)]
      /\ ses'[s] = r /\ io'[s] = q
      /\ \A t \in Sessions : t # s => ses'[t] = ses[t] /\ io'[t] = io[t]
  BY DEF Local, TypeOK
<1>2. ASSUME NEW t \in Sessions PROVE Clean(ses[t], io[t])'
  BY <1>1 DEF Local, AllClean, Clean
<1>3. \A t \in Sessions : ses'[t].conn = ses[t].conn
  BY <1>1 DEF Local
<1> QED  BY <1>1, <1>2, <1>3 DEF AllClean, Served

(* A received message is posted and is not an accept.                      *)
LEMMA PostedKinds == Kinds \subseteq Posted /\ "accept" \notin Kinds
BY KindAssumption DEF Posted

(* One posted handler that is not an accept.                               *)
LEMMA PostedOne ==
    ASSUME NEW h \in Posted, h # "accept"
    PROVE  <<h>> \in Seq(Posted) /\ ~In("accept", <<h>>)
BY InOne

(* The completions of a closed socket contain no accept.                   *)
LEMMA PostedAborted ==
    ASSUME NEW s
    PROVE  Aborted(s) \in Seq(Posted) /\ ~In("accept", Aborted(s))
<1>1. <<"readError">> \in Seq(Posted) /\ ~In("accept", <<"readError">>)
  BY PostedOne DEF Posted
<1>2. <<"writeError">> \in Seq(Posted) /\ ~In("accept", <<"writeError">>)
  BY PostedOne DEF Posted
<1>3. <<>> \in Seq(Posted) /\ ~In("accept", <<>>)
  BY InNone
<1>4. ASSUME NEW x \in Seq(Posted), ~In("accept", x), NEW y \in Seq(Posted), ~In("accept", y)
      PROVE  x \o y \in Seq(Posted) /\ ~In("accept", x \o y)
  BY <1>4, Behind, InBehind
<1> DEFINE x == IF ses[s].reading THEN <<"readError">> ELSE <<>>
           y == IF ses[s].writing THEN <<"writeError">> ELSE <<>>
<1>5. x \in Seq(Posted) /\ ~In("accept", x) /\ y \in Seq(Posted) /\ ~In("accept", y)
  BY <1>1, <1>2, <1>3
<1>6. Aborted(s) = x \o y
  BY DEF Aborted
<1> HIDE DEF x, y
<1> QED  BY <1>4, <1>5, <1>6

(* What is posted behind the handlers of a session that keeps its place.   *)
LEMMA LocalPost ==
    ASSUME TypeOK, NEW s \in Sessions, NEW rest \in Seq(Posted), Clean(ses[s], rest),
           NEW r, Keeps(ses[s], r), NEW e \in Seq(Posted), ~In("accept", e),
           ses' = [ses EXCEPT ![s] = r], io' = [io EXCEPT ![s] = rest \o e]
    PROVE  Local(s, r, rest \o e)
<1>1. Clean(r, rest \o e)
  BY CleanStep
<1>2. rest \o e \in Seq(Posted)
  BY Behind
<1> QED  BY <1>1, <1>2 DEF Local, Keeps

(* A handler that posts nothing is local to its session.                   *)
LEMMA LocalKept ==
    ASSUME TypeOK, NEW s \in Sessions, NEW rest \in Seq(Posted), Clean(ses[s], rest),
           NEW r, Keeps(ses[s], r),
           ses' = [ses EXCEPT ![s] = r], io' = [io EXCEPT ![s] = rest]
    PROVE  Local(s, r, rest)
<1>1. <<>> \in Seq(Posted) /\ ~In("accept", <<>>) /\ rest \o <<>> = rest
  BY InNone, ConcatEmptySeq
<1> QED  BY <1>1, LocalPost

(* A handler that posts one more handler is local to its session.          *)
LEMMA LocalAppend ==
    ASSUME TypeOK, NEW s \in Sessions, NEW rest \in Seq(Posted), Clean(ses[s], rest),
           NEW r, Keeps(ses[s], r), NEW h \in Posted, h # "accept",
           ses' = [ses EXCEPT ![s] = r], io' = [io EXCEPT ![s] = Append(rest, h)]
    PROVE  Local(s, r, Append(rest, h))
<1>1. <<h>> \in Seq(Posted) /\ ~In("accept", <<h>>) /\ Append(rest, h) = rest \o <<h>>
  BY PostedOne, OneBehind
<1> QED  BY <1>1, LocalPost

(* The operations of the application, the peers and the operating system.  *)
LEMMA OutsideSteps ==
    ASSUME TypeOK, AllClean, NEW s \in Sessions,
           \/ send_message(s) \/ close(s) \/ Written(s) \/ ReadSeesIt(s)
           \/ \E k \in Kinds : Arrives(s, k)
    PROVE  \E r, q : Local(s, r, q)
<1>a. ses[s] \in SessionRecord /\ io[s] \in Seq(Posted) /\ Clean(ses[s], io[s])
  BY DEF TypeOK, AllClean
<1>b. ses \in [Sessions -> SessionRecord] /\ io \in [Sessions -> Seq(Posted)]
  BY DEF TypeOK
<1>1. ASSUME NEW r, Keeps(ses[s], r), NEW h \in Posted, h # "accept",
             ses' = [ses EXCEPT ![s] = r], io' = [io EXCEPT ![s] = Append(io[s], h)]
      PROVE  \E x, q : Local(s, x, q)
  BY <1>1, <1>a, LocalAppend
<1>2. Keeps(ses[s], ses[s]) /\ Keeps(ses[s], [ses[s] EXCEPT !.queue = 1])
      /\ Keeps(ses[s], [ses[s] EXCEPT !.reading = FALSE])
      /\ Keeps(ses[s], [ses[s] EXCEPT !.writing = FALSE])
  BY <1>a, Fields
<1>3. CASE send_message(s)
  <2>1. /\ ses' = [ses EXCEPT ![s] = [ses[s] EXCEPT !.queue = 1]]
        /\ io' = [io EXCEPT ![s] = Append(io[s], "write")]
    BY <1>3 DEF send_message
  <2> QED  BY <1>1, <1>2, <2>1 DEF Posted
<1>4. CASE close(s)
  <2>1. ses' = [ses EXCEPT ![s] = ses[s]] /\ io' = [io EXCEPT ![s] = Append(io[s], "close")]
    BY <1>4, <1>b DEF close
  <2> QED  BY <1>1, <1>2, <2>1 DEF Posted
<1>5. CASE Written(s)
  <2>1. PICK h \in {"written", "writeError"} :
          /\ ses' = [ses EXCEPT ![s] = [ses[s] EXCEPT !.writing = FALSE]]
          /\ io' = [io EXCEPT ![s] = Append(io[s], h)]
    BY <1>5 DEF Written
  <2> QED  BY <1>1, <1>2, <2>1 DEF Posted
<1>6. CASE ReadSeesIt(s)
  <2>1. /\ ses' = [ses EXCEPT ![s] = [ses[s] EXCEPT !.reading = FALSE]]
        /\ io' = [io EXCEPT ![s] = Append(io[s], "readError")]
    BY <1>6 DEF ReadSeesIt
  <2> QED  BY <1>1, <1>2, <2>1 DEF Posted
<1>7. ASSUME NEW k \in Kinds, Arrives(s, k) PROVE \E r, q : Local(s, r, q)
  <2>1. /\ ses' = [ses EXCEPT ![s] = [ses[s] EXCEPT !.reading = FALSE]]
        /\ io' = [io EXCEPT ![s] = Append(io[s], k)]
    BY <1>7 DEF Arrives
  <2> QED  BY <1>1, <1>2, <2>1, PostedKinds
<1> QED  BY <1>3, <1>4, <1>5, <1>6, <1>7

(* What a handler leaves to the other threads.                             *)
Leaves(s) ==
    /\ cbs' = cbs \/ cbs' = Append(cbs, <<"on_accept", s>>) \/ cbs' = Append(cbs, <<"on_close", s>>)
    /\ \/ recv' = recv
       \/ ses[s].father /\ recv' = Append(recv, [from |-> s, conn |-> ses[s].conn])

(* _on_close is local to its session.                                      *)
LEMMA OnCloseLocal ==
    ASSUME TypeOK, NEW s \in Sessions, NEW rest \in Seq(Posted), Clean(ses[s], rest),
           _on_close(s, rest)
    PROVE  /\ \E r, q : Local(s, r, q)
           /\ recv' = recv => Leaves(s)
<1>a. ses[s] \in SessionRecord
  BY DEF TypeOK
<1> DEFINE r == [SocketClosed(s) EXCEPT !.queue = 0, !.connected = FALSE]
<1>1. Keeps(ses[s], SocketClosed(s))
  BY <1>a, Fields DEF SocketClosed
<1>2. SocketClosed(s) \in SessionRecord
  BY <1>1 DEF Keeps
<1>3. Keeps(SocketClosed(s), r)
  BY <1>2, Fields
<1>4. Keeps(ses[s], r)
  BY <1>1, <1>3, KeepsTwice
<1>5. ses' = [ses EXCEPT ![s] = r] /\ io' = [io EXCEPT ![s] = rest \o Aborted(s)]
  BY DEF _on_close
<1> HIDE DEF r
<1>6. Local(s, r, rest \o Aborted(s))
  BY <1>4, <1>5, PostedAborted, LocalPost
<1>7. cbs' = cbs \/ cbs' = Append(cbs, <<"on_close", s>>)
  BY DEF _on_close
<1> QED  BY <1>6, <1>7 DEF Leaves

(* handle_close is local to its session.                                   *)
LEMMA CloseLocal ==
    ASSUME TypeOK, NEW s \in Sessions, NEW rest \in Seq(Posted), Clean(ses[s], rest),
           handle_close(s, rest)
    PROVE  (\E r, q : Local(s, r, q)) /\ Leaves(s)
<1>a. ses[s] \in SessionRecord
  BY DEF TypeOK
<1> DEFINE r == [SocketClosed(s) EXCEPT !.connected = FALSE]
<1>1. Keeps(ses[s], SocketClosed(s))
  BY <1>a, Fields DEF SocketClosed
<1>2. SocketClosed(s) \in SessionRecord
  BY <1>1 DEF Keeps
<1>3. Keeps(SocketClosed(s), r)
  BY <1>2, Fields
<1>4. Keeps(ses[s], r)
  BY <1>1, <1>3, KeepsTwice
<1>5. ses' = [ses EXCEPT ![s] = r] /\ io' = [io EXCEPT ![s] = rest \o Aborted(s)]
  BY DEF handle_close
<1> HIDE DEF r
<1>6. Local(s, r, rest \o Aborted(s))
  BY <1>4, <1>5, PostedAborted, LocalPost
<1> QED  BY <1>6 DEF Leaves, handle_close

(* _write_message is local to its session.                                 *)
LEMMA WriteLocal ==
    ASSUME TypeOK, NEW s \in Sessions, NEW rest \in Seq(Posted), Clean(ses[s], rest),
           NEW u, Keeps(ses[s], u), _write_message(s, rest, u)
    PROVE  (\E r, q : Local(s, r, q)) /\ Leaves(s)
<1> DEFINE w == u.connected /\ ~u.sending /\ u.queue > 0
           x == [u EXCEPT !.queue = 0, !.sending = TRUE, !.writing = u.open]
<1>1. u \in SessionRecord
  BY DEF Keeps
<1>2. Keeps(ses[s], x)
  <2>1. Keeps(u, x)
    BY <1>1, Fields
  <2> QED  BY <2>1, KeepsTwice
<1>3. PICK r : Keeps(ses[s], r) /\ ses' = [ses EXCEPT ![s] = r]
  <2>1. ses' = [ses EXCEPT ![s] = IF w THEN x ELSE u]
    BY DEF _write_message
  <2> HIDE DEF w, x
  <2>2. CASE w
    BY <1>2, <2>1, <2>2
  <2>3. CASE ~w
    BY <2>1, <2>3
  <2> QED  BY <2>2, <2>3
<1>4. io' = [io EXCEPT ![s] = rest] \/ io' = [io EXCEPT ![s] = Append(rest, "writeError")]
  BY DEF _write_message
<1>5. "writeError" \in Posted
  BY DEF Posted
<1>6. \E q : Local(s, r, q)
  BY <1>3, <1>4, <1>5, LocalKept, LocalAppend
<1> QED  BY <1>6 DEF _write_message, Leaves

(* handle_write is local to its session, with and without an error.        *)
LEMMA WrittenLocal ==
    ASSUME TypeOK, NEW s \in Sessions, NEW rest \in Seq(Posted), Clean(ses[s], rest),
           NEW error, handle_write(s, rest, error)
    PROVE  (\E r, q : Local(s, r, q)) /\ Leaves(s)
<1>a. ses[s] \in SessionRecord /\ ses \in [Sessions -> SessionRecord]
  BY DEF TypeOK
<1>b. Keeps(ses[s], ses[s]) /\ Keeps(ses[s], [ses[s] EXCEPT !.sending = FALSE])
  BY <1>a, Fields
<1>1. CASE io' = [io EXCEPT ![s] = rest] /\ UNCHANGED <<ses, cbs, recv>>
  <2>1. ses' = [ses EXCEPT ![s] = ses[s]]
    BY <1>a, <1>1
  <2>2. Local(s, ses[s], rest)
    BY <1>1, <1>b, <2>1, LocalKept
  <2> QED  BY <1>1, <2>2 DEF Leaves
<1>2. CASE _on_close(s, rest) /\ UNCHANGED recv
  BY <1>2, OnCloseLocal
<1>3. CASE _write_message(s, rest, [ses[s] EXCEPT !.sending = FALSE])
  BY <1>3, <1>b, WriteLocal
<1> QED  BY <1>1, <1>2, <1>3 DEF handle_write

(* Starting the next read is local to the session.                         *)
LEMMA ReadsLocal ==
    ASSUME TypeOK, NEW s \in Sessions, NEW rest \in Seq(Posted), Clean(ses[s], rest),
           Reads(ses[s], s, rest)
    PROVE  \E r, q : Local(s, r, q)
<1> DEFINE r == [ses[s] EXCEPT !.reading = ses[s].open]
<1>1. Keeps(ses[s], r)
  BY Fields DEF TypeOK
<1>2. ses' = [ses EXCEPT ![s] = r]
  BY DEF Reads
<1> HIDE DEF r
<1>3. io' = [io EXCEPT ![s] = rest] \/ io' = [io EXCEPT ![s] = Append(rest, "readError")]
  BY DEF Reads
<1>4. "readError" \in Posted
  BY DEF Posted
<1> QED  BY <1>1, <1>2, <1>3, <1>4, LocalKept, LocalAppend

(* handle_read_some with an error is local to its session.                 *)
LEMMA ReadFailsLocal ==
    ASSUME TypeOK, NEW s \in Sessions, NEW rest \in Seq(Posted), Clean(ses[s], rest),
           ReadFails(s, rest)
    PROVE  (\E r, q : Local(s, r, q)) /\ Leaves(s)
<1>a. ses[s] \in SessionRecord /\ ses \in [Sessions -> SessionRecord]
  BY DEF TypeOK
<1>1. CASE io' = [io EXCEPT ![s] = rest] /\ UNCHANGED <<ses, cbs, recv>>
  <2>1. ses' = [ses EXCEPT ![s] = ses[s]]
    BY <1>a, <1>1
  <2>2. Keeps(ses[s], ses[s])
    BY <1>a, Fields
  <2>3. Local(s, ses[s], rest)
    BY <1>1, <2>1, <2>2, LocalKept
  <2> QED  BY <1>1, <2>3 DEF Leaves
<1>2. CASE _on_close(s, rest) /\ UNCHANGED recv
  BY <1>2, OnCloseLocal
<1> QED  BY <1>1, <1>2 DEF ReadFails

(* handle_read_some is local to its session, whatever it has read.         *)
LEMMA ReadSomeLocal ==
    ASSUME TypeOK, NEW s \in Sessions, NEW rest \in Seq(Posted), Clean(ses[s], rest),
           NEW kind, ReadSome(s, rest, kind)
    PROVE  (\E r, q : Local(s, r, q)) /\ Leaves(s)
<1>a. ses[s] \in SessionRecord /\ ses \in [Sessions -> SessionRecord]
  BY DEF TypeOK
<1>b. Keeps(ses[s], ses[s]) /\ "close" \in Posted
  BY <1>a, Fields DEF Posted
<1>1. CASE io' = [io EXCEPT ![s] = rest] /\ UNCHANGED <<ses, cbs, recv>>
  <2>1. ses' = [ses EXCEPT ![s] = ses[s]]
    BY <1>a, <1>1
  <2>2. Local(s, ses[s], rest)
    BY <1>1, <1>b, <2>1, LocalKept
  <2> QED  BY <1>1, <2>2 DEF Leaves
<1>2. CASE io' = [io EXCEPT ![s] = Append(rest, "close")] /\ UNCHANGED <<ses, cbs, recv>>
  <2>1. ses' = [ses EXCEPT ![s] = ses[s]]
    BY <1>a, <1>2
  <2>2. Local(s, ses[s], Append(rest, "close"))
    BY <1>2, <1>b, <2>1, LocalAppend
  <2> QED  BY <1>2, <2>2 DEF Leaves
<1>3. CASE _on_close(s, Append(rest, "close")) /\ UNCHANGED recv
  <2>1. <<"close">> \in Seq(Posted) /\ ~In("accept", <<"close">>)
        /\ Append(rest, "close") = rest \o <<"close">> /\ Append(rest, "close") \in Seq(Posted)
    BY <1>b, PostedOne, OneBehind
  <2>2. Clean(ses[s], Append(rest, "close"))
    BY <1>b, <2>1, CleanStep
  <2> QED  BY <1>3, <2>1, <2>2, OnCloseLocal
<1>4. CASE /\ recv' = IF ses[s].father THEN Append(recv, [from |-> s, conn |-> ses[s].conn]) ELSE recv
           /\ Reads(ses[s], s, rest) /\ UNCHANGED cbs
  BY <1>4, ReadsLocal DEF Leaves
<1> QED  BY <1>1, <1>2, <1>3, <1>4 DEF ReadSome

(* handle_accept takes the one accept off and sets the father.             *)
LEMMA AcceptLocal ==
    ASSUME TypeOK, AllClean, NEW s \in Sessions, io[s] # <<>>, Head(io[s]) = "accept",
           handle_accept(s, Tail(io[s]))
    PROVE  (\E r, q : Local(s, r, q)) /\ Leaves(s)
<1>a. /\ ses[s] \in SessionRecord /\ io[s] \in Seq(Posted) /\ Clean(ses[s], io[s])
      /\ Tail(io[s]) \in Seq(Posted)
  BY Rest DEF TypeOK, AllClean
<1> DEFINE rest == Tail(io[s])
           i == IF ses[s].ip = None /\ ses[s].open THEN IpOf[ses[s].conn] ELSE ses[s].ip
           u == [ses[s] EXCEPT !.valid = TRUE, !.connected = TRUE, !.father = TRUE, !.ip = i]
           w == [u EXCEPT !.reading = u.open]
<1>1. i \in Ips \cup {None}
  <2>1. ses[s].open => ses[s].conn \in Conns
    BY <1>a DEF Clean, SessionRecord
  <2> QED  BY <1>a, <2>1 DEF SessionRecord, Ips
<1> HIDE DEF i
<1>2. w \in SessionRecord /\ w.conn = ses[s].conn /\ w.father
  BY <1>1, <1>a, AcceptedFields
<1>3. handle_accept(s, rest) <=>
        /\ Reads(u, s, rest)
        /\ cbs' = Append(cbs, <<"on_accept", s>>)
        /\ UNCHANGED <<peer, recv, m_banip, hacked>>
  BY DEF handle_accept, i
<1>4. ses' = [ses EXCEPT ![s] = w]
  BY <1>3 DEF Reads
<1> HIDE DEF u, w
<1>5. PICK e \in {<<>>, <<"readError">>} : io' = [io EXCEPT ![s] = rest \o e]
  <2>1. io' = [io EXCEPT ![s] = rest] \/ io' = [io EXCEPT ![s] = Append(rest, "readError")]
    BY <1>3 DEF Reads
  <2>2. rest \o <<>> = rest
    BY <1>a, ConcatEmptySeq
  <2>3. Append(rest, "readError") = rest \o <<"readError">>
    BY <1>a, OneBehind DEF Posted
  <2> QED  BY <2>1, <2>2, <2>3
<1>6. e \in Seq(Posted) /\ ~In("accept", e)
  <2>1. "readError" \in Posted
    BY DEF Posted
  <2>2. <<"readError">> \in Seq(Posted) /\ ~In("accept", <<"readError">>)
    BY <2>1, PostedOne
  <2>3. <<>> \in Seq(Posted) /\ ~In("accept", <<>>)
    BY InNone
  <2> QED  BY <2>2, <2>3
<1>7. Clean(w, rest \o e)
  BY <1>2, <1>6, <1>a, CleanAccepted
<1>8. rest \o e \in Seq(Posted)
  BY <1>6, <1>a, Behind
<1>9. Local(s, w, rest \o e)
  BY <1>2, <1>4, <1>5, <1>7, <1>8 DEF Local
<1> QED  BY <1>3, <1>9 DEF Leaves

(* Every handler of the io thread is local to its session.                 *)
LEMMA HandlerSteps ==
    ASSUME TypeOK, AllClean, NEW s \in Sessions, Handler(s)
    PROVE  (\E r, q : Local(s, r, q)) /\ Leaves(s)
<1>a. /\ io[s] # <<>> /\ io[s] \in Seq(Posted) /\ Head(io[s]) \in Posted
      /\ Tail(io[s]) \in Seq(Posted) /\ ses[s] \in SessionRecord /\ Clean(ses[s], io[s])
  BY Rest DEF TypeOK, AllClean, Handler
<1>b. Clean(ses[s], Tail(io[s]))
  <2>1. <<>> \in Seq(Posted) /\ ~In("accept", <<>>) /\ Tail(io[s]) \o <<>> = Tail(io[s])
    BY <1>a, InNone, ConcatEmptySeq
  <2>2. Keeps(ses[s], ses[s])
    BY <1>a, Fields
  <2>3. Clean(ses[s], Tail(io[s]) \o <<>>)
    BY <1>a, <2>1, <2>2, CleanStep
  <2> QED  BY <2>1, <2>3
<1>c. Keeps(ses[s], ses[s])
  BY <1>a, Fields
<1>1. CASE Head(io[s]) = "accept"
  <2>1. handle_accept(s, Tail(io[s]))
    BY <1>1, KindAssumption DEF Handler
  <2> QED  BY <1>1, <1>a, <2>1, AcceptLocal
<1>2. CASE Head(io[s]) = "close"
  <2>1. handle_close(s, Tail(io[s]))
    BY <1>2, KindAssumption DEF Handler
  <2> QED  BY <1>a, <1>b, <2>1, CloseLocal
<1>3. CASE Head(io[s]) = "write"
  <2>1. _write_message(s, Tail(io[s]), ses[s])
    BY <1>3, KindAssumption DEF Handler
  <2> QED  BY <1>a, <1>b, <1>c, <2>1, WriteLocal
<1>4. CASE Head(io[s]) \in {"written", "writeError"}
  <2>1. handle_write(s, Tail(io[s]), FALSE) \/ handle_write(s, Tail(io[s]), TRUE)
    BY <1>4, KindAssumption DEF Handler
  <2> QED  BY <1>a, <1>b, <2>1, WrittenLocal
<1>5. CASE Head(io[s]) = "readError"
  <2>1. ReadFails(s, Tail(io[s]))
    BY <1>5, KindAssumption DEF Handler
  <2> QED  BY <1>a, <1>b, <2>1, ReadFailsLocal
<1>6. CASE Head(io[s]) \in Kinds
  <2>1. ReadSome(s, Tail(io[s]), Head(io[s]))
    BY <1>6, KindAssumption DEF Handler
  <2> QED  BY <1>a, <1>b, <2>1, ReadSomeLocal
<1> QED  BY <1>a, <1>1, <1>2, <1>3, <1>4, <1>5, <1>6 DEF Posted

-----------------------------------------------------------------------------
(* Steps that move a session.                                              *)

(* free_session takes the connection off the session it pools.             *)
LEMMA FreeStep ==
    ASSUME TypeOK, AllClean, NEW s \in Sessions, NEW p, free_session(s, p),
           ses[s].father \/ ses[s].conn = None
    PROVE  /\ ses' \in [Sessions -> SessionRecord] /\ io' \in [Sessions -> Seq(Posted)]
           /\ AllClean'
           /\ ses'[s].conn = None /\ \A t \in Sessions : t # s => ses'[t].conn = ses[t].conn
           /\ Served' = Served \ {s}
           /\ m_sessions' = Append(m_sessions, s)
<1>a. ses' = [ses EXCEPT ![s] = Reset] /\ io' = [io EXCEPT ![s] = io[s] \o Aborted(s)]
  BY DEF free_session
<1>b. io[s] \in Seq(Posted) /\ Aborted(s) \in Seq(Posted) /\ ~In("accept", Aborted(s))
  BY PostedAborted DEF TypeOK
<1>1. io[s] \o Aborted(s) \in Seq(Posted)
  BY <1>b, Behind
<1>2. /\ ses' \in [Sessions -> SessionRecord] /\ io' \in [Sessions -> Seq(Posted)]
      /\ ses'[s] = Reset /\ io'[s] = io[s] \o Aborted(s)
      /\ \A t \in Sessions : t # s => ses'[t] = ses[t] /\ io'[t] = io[t]
  BY <1>a, <1>1, ResetFields DEF TypeOK
<1>3. Clean(Reset, io[s] \o Aborted(s))
  BY <1>b, CleanFreed DEF AllClean
<1>4. ASSUME NEW t \in Sessions PROVE Clean(ses[t], io[t])'
  <2>1. CASE t = s
    BY <1>2, <1>3, <2>1
  <2>2. CASE t # s
    BY <1>2, <2>2 DEF AllClean, Clean
  <2> QED  BY <2>1, <2>2
<1>5. ses'[s].conn = None /\ \A t \in Sessions : t # s => ses'[t].conn = ses[t].conn
  BY <1>2, ResetFields
<1> QED  BY <1>2, <1>4, <1>5 DEF AllClean, Served, free_session

(* The fields of the messages that were read.                              *)
LEMMA MessageFields ==
    ASSUME TypeOK
    PROVE  /\ \A i \in 1 .. Len(recv) : recv[i].from \in Sessions /\ recv[i].conn # None
           /\ \A i \in 1 .. Len(procs) : procs[i].from \in Sessions /\ procs[i].conn # None
<1>1. /\ \A i \in 1 .. Len(recv) : recv[i] \in Message
      /\ \A i \in 1 .. Len(procs) : procs[i] \in Message
  BY ElementOfSeq DEF TypeOK
<1>2. \A m \in Message : m.from \in Sessions /\ m.conn # None
  BY SessionAssumption DEF Message
<1> QED  BY <1>1, <1>2

(* The session at the head of the armed ones is not served, and nothing    *)
(* that was read by it waits to be delivered.                              *)
LEMMA ArmedHead ==
    ASSUME IInv, accepting # <<>>
    PROVE  /\ Head(accepting) \in Sessions /\ ses[Head(accepting)].conn = None
           /\ \A i \in 1 .. Len(recv) : recv[i].from # Head(accepting)
           /\ \A i \in 1 .. Len(procs) : procs[i].from # Head(accepting)
           /\ Tail(accepting) \in Seq(Sessions)
           /\ \A t : In(t, Tail(accepting)) => In(t, accepting)
<1>1. /\ Head(accepting) \in Sessions /\ Tail(accepting) \in Seq(Sessions)
      /\ In(Head(accepting), accepting) /\ \A t : In(t, Tail(accepting)) => In(t, accepting)
  BY Rest, InRest DEF IInv, TypeOK
<1>2. ses[Head(accepting)].conn = None
  BY <1>1 DEF IInv, Placed, OnePlace, Served
<1> QED  BY <1>1, <1>2, MessageFields DEF IInv, Owned, Freed

(* A session is freed by the acceptor.                                     *)
LEMMA RefuseStep ==
    ASSUME IInv, accepting # <<>>, NEW p, free_session(Head(accepting), p),
           accepting' = Tail(accepting), UNCHANGED <<queues, pc, handled>>
    PROVE  IInv'
<1> DEFINE s == Head(accepting)
<1>a. /\ TypeOK /\ AllClean /\ Placed /\ Owned /\ DeliveredToOwner
      /\ m_sessions \in Seq(Sessions) /\ accepting \in Seq(Sessions)
  BY DEF IInv, TypeOK
<1>b. /\ s \in Sessions /\ ses[s].conn = None
      /\ \A i \in 1 .. Len(recv) : recv[i].from # s
      /\ \A i \in 1 .. Len(procs) : procs[i].from # s
      /\ Tail(accepting) \in Seq(Sessions)
      /\ \A t : In(t, Tail(accepting)) => In(t, accepting)
  BY ArmedHead
<1> HIDE DEF s
<1>1. /\ ses' \in [Sessions -> SessionRecord] /\ io' \in [Sessions -> Seq(Posted)]
      /\ AllClean'
      /\ ses'[s].conn = None /\ \A t \in Sessions : t # s => ses'[t].conn = ses[t].conn
      /\ Served' = Served \ {s}
      /\ m_sessions' = Append(m_sessions, s)
  BY <1>a, <1>b, FreeStep DEF s
<1>2. Served' = Served
  BY <1>1, <1>b DEF Served
<1>3. OnePlace(m_sessions', accepting', Served') /\ m_sessions' \in Seq(Sessions)
  BY <1>a, <1>1, <1>2, PlaceRefused DEF Placed, s
<1>4. TypeOK'
  BY <1>a, <1>b, <1>1, <1>3 DEF TypeOK, queues
<1>5. \A t \in Sessions : ses'[t].conn = ses[t].conn
  BY <1>1, <1>b
<1>6. \A t \in Sessions : Freed(t) => Freed(t)'
  BY <1>5, <1>b DEF Freed
<1>7. /\ \A i \in 1 .. Len(recv) : recv[i].from \in Sessions
      /\ \A i \in 1 .. Len(procs) : procs[i].from \in Sessions
  BY <1>a, MessageFields
<1>8. Owned'
  BY <1>a, <1>5, <1>6, <1>7 DEF Owned, queues
<1> QED  BY <1>a, <1>1, <1>3, <1>4, <1>8 DEF IInv, Placed, DeliveredToOwner

(* A session gets a connection.                                            *)
LEMMA ServeStep ==
    ASSUME IInv, accepting # <<>>, NEW c \in Conns,
           ses' = [ses EXCEPT ![Head(accepting)].conn = c, ![Head(accepting)].open = TRUE],
           io' = [io EXCEPT ![Head(accepting)] = Append(@, "accept")],
           accepting' = Tail(accepting), UNCHANGED <<m_sessions, queues, pc, handled>>
    PROVE  IInv'
<1> DEFINE s == Head(accepting)
           u == [ses[s] EXCEPT !.conn = c, !.open = TRUE]
<1>a. /\ TypeOK /\ AllClean /\ Placed /\ Owned /\ DeliveredToOwner
      /\ m_sessions \in Seq(Sessions) /\ accepting \in Seq(Sessions)
      /\ ses \in [Sessions -> SessionRecord] /\ io \in [Sessions -> Seq(Posted)]
      /\ "accept" \in Posted /\ c # None
  BY SessionAssumption DEF IInv, TypeOK, Posted
<1>b. /\ s \in Sessions /\ ses[s].conn = None
      /\ \A i \in 1 .. Len(recv) : recv[i].from # s
      /\ \A i \in 1 .. Len(procs) : procs[i].from # s
      /\ Tail(accepting) \in Seq(Sessions)
      /\ \A t : In(t, Tail(accepting)) => In(t, accepting)
  BY ArmedHead
<1>c. /\ u \in SessionRecord /\ u.conn = c /\ u.father = ses[s].father
      /\ u.connected = ses[s].connected
  BY <1>a, <1>b, ServedFields
<1>d. ses' = [ses EXCEPT ![s] = u] /\ io' = [io EXCEPT ![s] = Append(io[s], "accept")]
  BY <1>a, <1>b DEF SessionRecord
<1> HIDE DEF s, u
<1>1. Append(io[s], "accept") \in Seq(Posted)
  BY <1>a, <1>b, OneBehind
<1>2. /\ ses' \in [Sessions -> SessionRecord] /\ io' \in [Sessions -> Seq(Posted)]
      /\ ses'[s] = u /\ io'[s] = Append(io[s], "accept")
      /\ \A t \in Sessions : t # s => ses'[t] = ses[t] /\ io'[t] = io[t]
  <2>1. /\ ses' \in [Sessions -> SessionRecord] /\ ses'[s] = u
        /\ \A t \in Sessions : t # s => ses'[t] = ses[t]
    <3>1. ses' = [ses EXCEPT ![s] = u]
      BY <1>d
    <3> QED  BY ONLY <1>a, <1>b, <1>c, <3>1
  <2>2. /\ io' \in [Sessions -> Seq(Posted)] /\ io'[s] = Append(io[s], "accept")
        /\ \A t \in Sessions : t # s => io'[t] = io[t]
    <3>1. io' = [io EXCEPT ![s] = Append(io[s], "accept")]
      BY <1>d
    <3> QED  BY ONLY <1>a, <1>b, <1>1, <3>1
  <2> QED  BY <2>1, <2>2
<1>3. Clean(u, Append(io[s], "accept"))
  BY <1>a, <1>b, <1>c, CleanServed DEF AllClean
<1>4. AllClean'
  <2>1. ASSUME NEW t \in Sessions PROVE Clean(ses[t], io[t])'
    <3>1. CASE t = s
      BY <1>2, <1>3, <3>1
    <3>2. CASE t # s
      BY <1>2, <1>a, <3>2 DEF AllClean, Clean
    <3> QED  BY <3>1, <3>2
  <2> QED  BY <2>1 DEF AllClean
<1>5. Served' = Served \cup {s}
  BY <1>a, <1>b, <1>c, <1>2 DEF Served
<1>6. OnePlace(m_sessions', accepting', Served')
  BY <1>a, <1>5, PlaceServed DEF Placed, s
<1>7. TypeOK'
  BY <1>a, <1>b, <1>2 DEF TypeOK, queues
<1>9. /\ \A i \in 1 .. Len(recv) : recv[i].from \in Sessions
      /\ \A i \in 1 .. Len(procs) : procs[i].from \in Sessions
  BY <1>a, MessageFields
<1>10. Owned'
  <2> DEFINE F(t) == ses'[t].conn = None /\ ~In(t, accepting')
  <2>1. \A t \in Sessions : t # s => ses'[t].conn = ses[t].conn /\ (Freed(t) => F(t))
    BY <1>2, <1>b DEF Freed
  <2> HIDE DEF F
  <2>2. \A i \in 1 .. Len(recv) :
           ses'[recv[i].from].conn = recv[i].conn \/ (pc = "call" /\ F(recv[i].from))
    BY <1>a, <1>b, <1>9, <2>1 DEF Owned
  <2>3. \A i \in 1 .. Len(procs) :
           ses'[procs[i].from].conn = procs[i].conn \/ F(procs[i].from)
    BY <1>a, <1>b, <1>9, <2>1 DEF Owned
  <2>4. UNCHANGED <<recv, procs, pc>>
    BY DEF queues
  <2> QED  BY <1>a, <2>2, <2>3, <2>4 DEF Owned, Freed, F
<1> QED  BY <1>a, <1>4, <1>6, <1>7, <1>10 DEF IInv, Placed, DeliveredToOwner

-----------------------------------------------------------------------------
(* The invariant, step by step.                                            *)

(* A step that is local to a session keeps the invariant.                  *)
LEMMA LocalInv ==
    ASSUME IInv, NEW s \in Sessions, \E r, q : Local(s, r, q), Leaves(s),
           UNCHANGED <<pool, calls, procs, pc, handled>>
    PROVE  IInv'
<1> DEFINE F(t) == ses'[t].conn = None /\ ~In(t, accepting')
<1>a. TypeOK /\ AllClean /\ Placed /\ Owned /\ DeliveredToOwner
  BY DEF IInv
<1>1. /\ ses' \in [Sessions -> SessionRecord] /\ io' \in [Sessions -> Seq(Posted)]
      /\ AllClean'
      /\ \A t \in Sessions : ses'[t].conn = ses[t].conn
      /\ Served' = Served
  BY <1>a, LocalStep
<1>2. cbs' \in Seq({"on_accept", "on_close"} \X Sessions)
  <2>1. <<"on_accept", s>> \in {"on_accept", "on_close"} \X Sessions
        /\ <<"on_close", s>> \in {"on_accept", "on_close"} \X Sessions
    OBVIOUS
  <2>2. cbs \in Seq({"on_accept", "on_close"} \X Sessions)
    BY <1>a DEF TypeOK
  <2>3. \A e \in {"on_accept", "on_close"} \X Sessions :
           Append(cbs, e) \in Seq({"on_accept", "on_close"} \X Sessions)
    BY <2>2, AppendProperties
  <2> QED  BY <2>1, <2>2, <2>3 DEF Leaves
<1>3. \A t \in Sessions : Freed(t) => F(t)
  BY <1>1 DEF Freed, pool
<1> HIDE DEF F
<1>4. \A i \in 1 .. Len(recv) :
         ses'[recv[i].from].conn = recv[i].conn \/ (pc' = "call" /\ F(recv[i].from))
  BY <1>a, <1>1, <1>3, MessageFields DEF Owned
<1>5. \A i \in 1 .. Len(procs') :
         ses'[procs'[i].from].conn = procs'[i].conn \/ F(procs'[i].from)
  BY <1>a, <1>1, <1>3, MessageFields DEF Owned
<1>6. /\ recv' \in Seq(Message)
      /\ \A i \in 1 .. Len(recv') :
           ses'[recv'[i].from].conn = recv'[i].conn \/ (pc' = "call" /\ F(recv'[i].from))
  <2>1. CASE recv' = recv
    BY <1>a, <1>4, <2>1 DEF TypeOK
  <2>2. CASE ses[s].father /\ recv' = Append(recv, [from |-> s, conn |-> ses[s].conn])
    <3> DEFINE m == [from |-> s, conn |-> ses[s].conn]
    <3>1. ses[s].conn \in Conns
      BY <1>a, <2>2 DEF TypeOK, AllClean, Clean, SessionRecord
    <3>2. m \in Message /\ m.from = s /\ m.conn = ses[s].conn
      BY <3>1 DEF Message
    <3>3. recv \in Seq(Message) /\ recv' = Append(recv, m)
      BY <1>a, <2>2 DEF TypeOK
    <3> HIDE DEF m
    <3>4. /\ recv' \in Seq(Message) /\ Len(recv') = Len(recv) + 1 /\ Len(recv) \in Nat
          /\ recv'[Len(recv) + 1] = m /\ \A i \in 1 .. Len(recv) : recv'[i] = recv[i]
      BY <3>2, <3>3, AppendProperties, LenProperties
    <3>5. \A n \in Nat : \A i \in 1 .. n + 1 : i \in 1 .. n \/ i = n + 1
      OBVIOUS
    <3>6. \A i \in 1 .. Len(recv') : i \in 1 .. Len(recv) \/ i = Len(recv) + 1
      BY ONLY <3>4, <3>5
    <3>7. ses'[s].conn = m.conn
      BY <1>1, <3>2
    <3> QED  BY <1>4, <3>2, <3>4, <3>6, <3>7
  <2> QED  BY <2>1, <2>2 DEF Leaves
<1>7. TypeOK'
  BY <1>a, <1>1, <1>2, <1>6 DEF TypeOK, pool
<1>8. Owned'
  BY <1>a, <1>5, <1>6 DEF Owned, Freed, F
<1>9. Placed'
  BY <1>a, <1>1 DEF Placed, pool
<1> QED  BY <1>a, <1>1, <1>7, <1>8, <1>9 DEF IInv, DeliveredToOwner

(* Arming takes a session out of the pool and keeps the invariant.         *)
LEMMA ArmInv == IInv /\ Arm => IInv'
<1> SUFFICES ASSUME IInv, Arm PROVE IInv'
  OBVIOUS
<1>a. /\ TypeOK /\ AllClean /\ Placed /\ Owned /\ DeliveredToOwner
      /\ m_sessions \in Seq(Sessions) /\ accepting \in Seq(Sessions)
      /\ ses \in [Sessions -> SessionRecord]
      /\ Len(m_sessions) \in Nat /\ Len(accepting) \in Nat
  BY LenProperties DEF IInv, TypeOK
<1> DEFINE room == Listen - Len(accepting)
           n == IF room <= 0 THEN 0
                ELSE IF room < Len(m_sessions) THEN room ELSE Len(m_sessions)
           armed == {m_sessions[i] : i \in 1 .. n}
<1>1. n \in 0 .. Len(m_sessions)
  BY <1>a, ListenAssumption
<1>2. /\ pc = "deliver" /\ procs = <<>> /\ pc' = "poll"
      /\ ses' = [s \in Sessions |-> IF s \in armed THEN [ses[s] EXCEPT !.valid = TRUE] ELSE ses[s]]
      /\ accepting' = accepting \o SubSeq(m_sessions, 1, n)
      /\ m_sessions' = SubSeq(m_sessions, n + 1, Len(m_sessions))
      /\ UNCHANGED <<io, queues, handled>>
  BY DEF Arm, history
<1> HIDE DEF n, armed
<1>3. \A s \in Sessions : Keeps(ses[s], ses'[s])
  BY <1>a, <1>2, Fields
<1>4. ses' \in [Sessions -> SessionRecord] /\ \A s \in Sessions : ses'[s].conn = ses[s].conn
  BY <1>2, <1>3 DEF Keeps
<1>5. Served' = Served
  BY <1>4 DEF Served
<1>6. AllClean'
  <2>1. ASSUME NEW s \in Sessions PROVE Clean(ses[s], io[s])'
    <3>1. /\ io[s] \in Seq(Posted) /\ <<>> \in Seq(Posted) /\ ~In("accept", <<>>)
          /\ io[s] \o <<>> = io[s] /\ Clean(ses[s], io[s])
      BY <1>a, InNone, ConcatEmptySeq DEF TypeOK, AllClean
    <3>2. Clean(ses'[s], io[s] \o <<>>)
      BY <1>3, <3>1, CleanStep
    <3> QED  BY <1>2, <3>1, <3>2
  <2> QED  BY <2>1 DEF AllClean
<1>7. /\ OnePlace(m_sessions', accepting', Served')
      /\ m_sessions' \in Seq(Sessions) /\ accepting' \in Seq(Sessions)
  BY <1>a, <1>1, <1>2, <1>5, PlaceArmed DEF Placed
<1>8. TypeOK'
  BY <1>a, <1>2, <1>4, <1>7 DEF TypeOK, queues
<1>9. Owned'
  <2>1. recv' = recv /\ procs' = <<>>
    BY <1>2 DEF queues
  <2>2. \A i \in 1 .. Len(recv) : ses'[recv[i].from].conn = recv[i].conn
    BY <1>a, <1>2, <1>4, MessageFields DEF Owned
  <2>3. Len(<<>>) = 0 /\ \A i : i \notin 1 .. 0
    BY EmptySeq
  <2> QED  BY <2>1, <2>2, <2>3 DEF Owned
<1> QED  BY <1>2, <1>a, <1>6, <1>7, <1>8, <1>9 DEF IInv, Placed, DeliveredToOwner

(* The callback of a connection that ended frees its session.              *)
LEMMA OnCloseInv == IInv /\ OnClose => IInv'
<1> SUFFICES ASSUME IInv, OnClose PROVE IInv'
  OBVIOUS
<1> DEFINE s == Head(calls)[2]
           F(t) == ses'[t].conn = None /\ ~In(t, accepting')
<1>a. /\ TypeOK /\ AllClean /\ Placed /\ Owned /\ DeliveredToOwner
      /\ m_sessions \in Seq(Sessions) /\ accepting \in Seq(Sessions)
  BY DEF IInv, TypeOK
<1>b. /\ pc = "call" /\ calls # <<>> /\ calls' = Tail(calls) /\ on_close(s)
      /\ UNCHANGED <<accepting, cbs, recv, procs, pc, handled>>
  BY DEF OnClose, history
<1>c. s \in Sessions /\ calls' \in Seq({"on_accept", "on_close"} \X Sessions)
  BY <1>a, <1>b, Rest DEF TypeOK
<1>d. procs = <<>>
  BY <1>a, <1>b DEF Owned
<1> HIDE DEF s
<1>1. CASE ~ses[s].father
  <2>1. UNCHANGED <<ses, io, m_sessions>>
    BY <1>1, <1>b DEF on_close
  <2>2. TypeOK'
    BY <1>a, <1>b, <1>c, <2>1 DEF TypeOK
  <2> QED  BY <1>a, <1>b, <2>1, <2>2
           DEF IInv, Placed, Served, AllClean, Owned, Freed, DeliveredToOwner
<1>2. CASE ses[s].father
  <2>0. ses[s].conn # None
    BY <1>2, <1>a, <1>c DEF AllClean, Clean
  <2>1. /\ ses' \in [Sessions -> SessionRecord] /\ io' \in [Sessions -> Seq(Posted)]
        /\ AllClean'
        /\ ses'[s].conn = None /\ \A t \in Sessions : t # s => ses'[t].conn = ses[t].conn
        /\ Served' = Served \ {s}
        /\ m_sessions' = Append(m_sessions, s)
    BY <1>2, <1>a, <1>b, <1>c, FreeStep DEF on_close
  <2>2. s \in Served /\ ~In(s, accepting)
    BY <1>a, <1>c, <2>0 DEF Served, Placed, OnePlace
  <2>3. OnePlace(m_sessions', accepting', Served') /\ m_sessions' \in Seq(Sessions)
    BY <1>a, <1>b, <1>c, <2>1, <2>2, PlaceFreed DEF Placed
  <2>4. TypeOK'
    BY <1>a, <1>b, <1>c, <2>1, <2>3 DEF TypeOK
  <2>5. F(s) /\ \A t \in Sessions : Freed(t) => F(t)
    BY <1>b, <2>1, <2>2 DEF Freed
  <2> HIDE DEF F
  <2>6. \A i \in 1 .. Len(recv) :
           ses'[recv[i].from].conn = recv[i].conn \/ F(recv[i].from)
    BY <1>a, <2>1, <2>5, MessageFields DEF Owned
  <2>7. Owned'
    <3>1. Len(<<>>) = 0 /\ \A i : i \notin 1 .. 0
      BY EmptySeq
    <3> QED  BY <1>b, <1>d, <2>6, <3>1 DEF Owned, Freed, F
  <2> QED  BY <1>a, <1>b, <2>1, <2>3, <2>4, <2>7 DEF IInv, Placed, DeliveredToOwner
<1> QED  BY <1>1, <1>2

(* Polling, on_accept and swapping the receive queues keep the invariant.  *)
LEMMA QueueInv == IInv /\ (Poll \/ on_accept \/ SwapRecv) => IInv'
<1> SUFFICES ASSUME IInv, Poll \/ on_accept \/ SwapRecv PROVE IInv'
  OBVIOUS
<1>a. TypeOK /\ AllClean /\ Placed /\ Owned /\ DeliveredToOwner
  BY DEF IInv
<1>b. UNCHANGED <<m_sessions, accepting, ses, io, handled>>
  BY DEF Poll, on_accept, SwapRecv, pool, history
<1>c. /\ \A S : <<>> \in Seq(S)
      /\ Len(<<>>) = 0 /\ \A i : i \notin 1 .. 0
  BY EmptySeq
<1>1. TypeOK'
  <2>1. CASE Poll
    BY <1>a, <1>b, <1>c, <2>1 DEF TypeOK, Poll
  <2>2. CASE on_accept
    <3>1. calls' \in Seq({"on_accept", "on_close"} \X Sessions)
      BY <1>a, <2>2, Rest DEF TypeOK, on_accept
    <3> QED  BY <1>a, <1>b, <2>2, <3>1 DEF TypeOK, on_accept
  <2>3. CASE SwapRecv
    BY <1>a, <1>b, <1>c, <2>3 DEF TypeOK, SwapRecv
  <2> QED  BY <2>1, <2>2, <2>3
<1>2. Owned'
  <2>1. CASE Poll
    BY <1>a, <1>b, <2>1 DEF Poll, Owned, Freed
  <2>2. CASE on_accept
    BY <1>a, <1>b, <2>2 DEF on_accept, Owned, Freed
  <2>3. CASE SwapRecv
    BY <1>a, <1>b, <1>c, <2>3 DEF SwapRecv, Owned, Freed
  <2> QED  BY <2>1, <2>2, <2>3
<1> QED  BY <1>a, <1>b, <1>1, <1>2 DEF IInv, Placed, Served, AllClean, DeliveredToOwner

(* A session with a connection is not in the pool: what it is handed was   *)
(* read on that connection.                                                *)
LEMMA DeliverInv == IInv /\ Deliver => IInv'
<1> SUFFICES ASSUME IInv, Deliver PROVE IInv'
  OBVIOUS
<1>a. TypeOK /\ AllClean /\ Placed /\ Owned /\ DeliveredToOwner /\ procs \in Seq(Message)
  BY DEF IInv, TypeOK
<1>b. /\ UNCHANGED <<m_sessions, accepting, ses, io, cbs, calls, recv, pc>>
      /\ procs # <<>> /\ procs' = Tail(procs) /\ pc = "deliver"
  BY DEF Deliver, pool
<1>c. /\ procs' \in Seq(Message) /\ Head(procs) = procs[1] /\ 1 \in 1 .. Len(procs)
      /\ \A i \in 1 .. Len(procs') : i + 1 \in 1 .. Len(procs) /\ procs'[i] = procs[i + 1]
  BY <1>a, <1>b, Rest
<1> DEFINE m == Head(procs)
<1>1. TypeOK'
  BY <1>a, <1>b, <1>c DEF TypeOK
<1>2. Owned'
  BY <1>a, <1>b, <1>c DEF Owned, Freed
<1>3. MayProc(m.from) => ses[m.from].conn = m.conn
  <2> SUFFICES ASSUME ses[m.from].connected PROVE ses[m.from].conn = m.conn
    BY DEF MayProc
  <2>1. m.from \in Sessions
    BY <1>a, <1>c, MessageFields
  <2>2. ses[m.from].conn # None
    BY <1>a, <2>1 DEF AllClean, Clean
  <2> QED  BY <1>a, <1>c, <2>2 DEF Owned, Freed
<1>4. DeliveredToOwner'
  <2>1. CASE handled' = handled
    BY <1>a, <2>1 DEF DeliveredToOwner
  <2>2. CASE MayProc(m.from) /\ handled' = handled \cup {<<m.from, m.conn, ses[m.from].conn>>}
    <3>1. <<m.from, m.conn, ses[m.from].conn>>[2] = <<m.from, m.conn, ses[m.from].conn>>[3]
      BY <1>3, <2>2
    <3> QED  BY <1>a, <2>2, <3>1 DEF DeliveredToOwner
  <2> QED  BY <2>1, <2>2 DEF Deliver
<1> QED  BY <1>a, <1>b, <1>1, <1>2, <1>4 DEF IInv, Placed, Served, AllClean

(* Every step keeps the invariant.                                         *)
LEMMA StepInv == IInv /\ [Next]_vars => IInv'
<1> SUFFICES ASSUME IInv, [Next]_vars PROVE IInv'
  OBVIOUS
<1>a. TypeOK /\ AllClean
  BY DEF IInv
<1>1. ASSUME UNCHANGED <<pool, ses, io, queues, pc, handled>> PROVE IInv'
  BY <1>1 DEF IInv, TypeOK, Placed, Served, AllClean, Owned, Freed, DeliveredToOwner, pool, queues
<1>2. CASE Main
  BY <1>2, ArmInv, QueueInv, OnCloseInv, DeliverInv DEF Main
<1>3. ASSUME NEW s \in Sessions,
             \/ send_message(s) \/ close(s) \/ Written(s) \/ ReadSeesIt(s)
             \/ \E k \in Kinds : Arrives(s, k)
      PROVE  IInv'
  <2>1. \E r, q : Local(s, r, q)
    BY <1>3, <1>a, OutsideSteps
  <2>2. UNCHANGED <<pool, queues, pc, handled>>
    BY <1>3 DEF send_message, close, Written, ReadSeesIt, Arrives, history
  <2>3. Leaves(s)
    BY <2>2 DEF Leaves, queues
  <2> QED  BY <2>1, <2>2, <2>3, LocalInv DEF queues
<1>4. ASSUME NEW s \in Sessions, Handler(s) PROVE IInv'
  <2>1. UNCHANGED <<pool, calls, procs, pc, handled>>
    BY <1>4 DEF Handler
  <2> QED  BY <1>4, <1>a, <2>1, HandlerSteps, LocalInv
<1>5. ASSUME NEW c \in Conns, HandleAccept(c) PROVE IInv'
  <2>1. /\ accepting # <<>> /\ accepting' = Tail(accepting)
        /\ UNCHANGED <<queues, pc, handled>>
    BY <1>5 DEF HandleAccept, history
  <2>2. \/ \E p : free_session(Head(accepting), p)
        \/ /\ ses' = [ses EXCEPT ![Head(accepting)].conn = c, ![Head(accepting)].open = TRUE]
           /\ io' = [io EXCEPT ![Head(accepting)] = Append(@, "accept")]
           /\ UNCHANGED m_sessions
    BY <1>5 DEF HandleAccept
  <2>3. CASE \E p : free_session(Head(accepting), p)
    BY <2>1, <2>3, RefuseStep
  <2>4. CASE /\ ses' = [ses EXCEPT ![Head(accepting)].conn = c, ![Head(accepting)].open = TRUE]
             /\ io' = [io EXCEPT ![Head(accepting)] = Append(@, "accept")]
             /\ UNCHANGED m_sessions
    BY <2>1, <2>4, ServeStep
  <2> QED  BY <2>2, <2>3, <2>4
<1>6. CASE AcceptFails
  <2>1. /\ accepting # <<>> /\ accepting' = Tail(accepting)
        /\ UNCHANGED <<queues, pc, handled>>
        /\ free_session(Head(accepting), Hangup(Head(accepting)))
    BY <1>6 DEF AcceptFails, history
  <2> QED  BY <2>1, RefuseStep
<1>7. ASSUME NEW c \in Conns, Connects(c) \/ Disconnects(c) PROVE IInv'
  <2>1. UNCHANGED <<pool, ses, io, queues, pc, handled>>
    BY <1>7 DEF Connects, Disconnects, history
  <2> QED  BY <1>1, <2>1
<1>8. CASE UNCHANGED vars
  BY <1>1, <1>8 DEF vars, pool, queues
<1> QED  BY <1>2, <1>3, <1>4, <1>5, <1>6, <1>7, <1>8 DEF Next

(* The invariant holds when all sessions are in the pool.                  *)
LEMMA InitInv == Init => IInv
<1> SUFFICES ASSUME Init PROVE IInv
  OBVIOUS
<1> DEFINE n == Cardinality(Sessions)
<1>a. /\ \A S : <<>> \in Seq(S)
      /\ Len(<<>>) = 0 /\ \A i : i \notin 1 .. 0
      /\ Distinct(<<>>) /\ \A s : ~In(s, <<>>)
  BY EmptySeq, InNone
<1>b. n \in Nat
  BY SessionAssumption, FS_CardinalityType
<1>c. m_sessions \in [1 .. n -> Sessions] /\ Range(m_sessions) = Sessions
  BY DEF Init
<1> HIDE DEF n
<1>1. m_sessions \in Seq(Sessions) /\ Len(m_sessions) = n
  BY <1>b, <1>c
<1>2. \A s \in Sessions : In(s, m_sessions)
  BY <1>c, <1>1 DEF Range, In
<1>3. Distinct(m_sessions)
  <2>1. IsFiniteSet(1 .. n) /\ Cardinality(1 .. n) = n
    BY <1>b, FS_Interval
  <2>2. m_sessions \in Surjection(1 .. n, Sessions)
    BY <1>c DEF Surjection, Range
  <2>3. m_sessions \in Injection(1 .. n, Sessions)
    BY <2>1, <2>2, SessionAssumption, FS_SurjSameCardinalityImpliesInj DEF n
  <2> QED  BY <1>1, <2>3 DEF Injection, IsInjective, Distinct
<1>4. ASSUME NEW s \in Sessions PROVE ses[s] = Reset /\ io[s] = <<>>
  BY DEF Init
<1>5. TypeOK
  BY <1>a, <1>1, ResetFields DEF Init, TypeOK
<1>6. Placed
  <2>1. Served = {} /\ accepting = <<>>
    BY <1>4, ResetFields DEF Served, Init
  <2> QED  BY <1>a, <1>2, <1>3, <2>1 DEF Placed, OnePlace
<1>7. AllClean
  BY <1>a, <1>4, ResetFields DEF AllClean, Clean
<1>8. Owned /\ DeliveredToOwner
  BY <1>a DEF Init, Owned, DeliveredToOwner
<1> QED  BY <1>5, <1>6, <1>7, <1>8 DEF IInv

-----------------------------------------------------------------------------
(* The theorems.                                                           *)

(* The places of the sessions, their handlers and the owners of the        *)
(* messages that wait are an inductive invariant of the server.            *)
THEOREM Inductive == Spec => []IInv
BY InitInv, StepInv, PTL DEF Spec

(* A session is in the pool once, or armed once, or serves one connection: *)
(* no two of free_session's callers pool it twice (tcp_server::            *)
(* free_session, handle_accept, tcp_session::on_close).                    *)
THEOREM SessionInOnePlaceHolds == Spec => []SessionInOnePlace
<1>1. IInv => SessionInOnePlace
  <2> SUFFICES ASSUME IInv, NEW s \in Sessions
               PROVE  Count(s, m_sessions) + Count(s, accepting) + Serving(s) = 1
    BY DEF SessionInOnePlace
  <2>1. ASSUME NEW q \in Seq(Sessions), Distinct(q)
        PROVE  Count(s, q) = IF In(s, q) THEN 1 ELSE 0
    <3>1. CASE ~In(s, q)
      <4>1. {i \in 1 .. Len(q) : q[i] = s} = {}
        BY <3>1 DEF In
      <4> QED  BY <3>1, <4>1, FS_EmptySet DEF Count
    <3>2. CASE In(s, q)
      <4>1. PICK k \in 1 .. Len(q) : q[k] = s
        BY <3>2 DEF In
      <4>2. {i \in 1 .. Len(q) : q[i] = s} = {k}
        BY <2>1, <4>1 DEF Distinct
      <4> QED  BY <3>2, <4>2, FS_Singleton DEF Count
    <3> QED  BY <3>1, <3>2
  <2>2. /\ Count(s, m_sessions) = IF In(s, m_sessions) THEN 1 ELSE 0
        /\ Count(s, accepting) = IF In(s, accepting) THEN 1 ELSE 0
    BY <2>1 DEF IInv, TypeOK, Placed, OnePlace
  <2>3. Serving(s) = IF s \in Served THEN 1 ELSE 0
    BY DEF Serving, Served
  <2>4. /\ In(s, m_sessions) => ~In(s, accepting) /\ s \notin Served
        /\ In(s, accepting) => s \notin Served
        /\ In(s, m_sessions) \/ In(s, accepting) \/ s \in Served
    BY DEF IInv, Placed, OnePlace
  <2> QED  BY <2>2, <2>3, <2>4
<1> QED  BY <1>1, Inductive, PTL

(* A message is handed to the session only while that still has the        *)
(* connection the message was read on (tcp_server::_real_run).             *)
THEOREM DeliveredToOwnerHolds == Spec => []DeliveredToOwner
<1>1. IInv => DeliveredToOwner
  BY DEF IInv
<1> QED  BY <1>1, Inductive, PTL
=============================================================================
