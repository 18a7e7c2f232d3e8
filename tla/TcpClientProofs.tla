-------------------------- MODULE TcpClientProofs --------------------------
(***************************************************************************)
(* The callbacks of a link that reconnects, its io thread and its main     *)
(* loop together, are the double-buffered queue of SwapQueue and hence one *)
(* first-in first-out queue, for any number of faults and messages.        *)
(*                                                                         *)
(* The queue's theorems speak of producers that add any call at any time   *)
(* and of a consumer that does nothing else.  Here the producers are the   *)
(* handlers of the io thread, and a call posts further handlers before it  *)
(* is popped: every step of the composition has to be a step of the queue  *)
(* or none of its business.                                                *)
(***************************************************************************)
EXTENDS TcpClient, SwapQueueProofs

(* What the main loop does to the callbacks: Swap, Front, Pop and Leave of  *)
(* poll, with the effects of the call in Pop.                               *)
LEMMA MainThreadSteps ==
    ASSUME Loop \/ send_message \/ close
    PROVE  [Next]_vars
<1>1. CASE RunReconnects \/ send_message \/ close
  BY <1>1 DEF RunReconnects, send_message, close, cb, vars
<1>2. CASE Polls
  BY <1>2 DEF Polls, Next, Consumer
<1>3. CASE Callback
  BY <1>3 DEF Callback, Next, Consumer
<1> QED
  BY <1>1, <1>2, <1>3 DEF Loop

(* What the io thread does to them: handle_connect and _on_close add one.   *)
LEMMA IoThreadSteps ==
    ASSUME IoThread
    PROVE  [Next]_vars
<1> USE CallsAssumption
<1>1. CASE _connect \/ handle_close \/ _write_message \/ handle_write \/ OnCloseClears
  BY <1>1 DEF _connect, handle_close, _write_message, handle_write, OnCloseClears, cb, vars
<1>2. ASSUME NEW e \in BOOLEAN, handle_connect(e)
      PROVE  [Next]_vars
  <2>1. CASE m_isconnected
    BY <1>2, <2>1 DEF handle_connect, cb, vars
  <2>2. CASE ~m_isconnected
    <3>1. PICK x \in {"on_connect", "on_connect_failed"} : add_cb(x)
      BY <1>2, <2>2 DEF handle_connect
    <3> QED
      BY <3>1 DEF Next
  <2> QED
    BY <2>1, <2>2
<1>3. CASE OnCloseCloses
  BY <1>3 DEF OnCloseCloses, Next
<1> QED
  BY <1>1, <1>2, <1>3 DEF IoThread

(* The operating system, the clock and the server touch no callback.        *)
LEMMA WorldSteps ==
    ASSUME Completion \/ TimePasses \/ ServerGoes \/ ServerComes
    PROVE  UNCHANGED vars
<1>1. CASE Completion
  BY <1>1 DEF Completion, Completes, cb, vars
<1>2. CASE TimePasses \/ ServerGoes \/ ServerComes
  BY <1>2 DEF TimePasses, ServerGoes, ServerComes, cb, vars
<1> QED
  BY <1>1, <1>2

(* The link's callbacks behave like the double-buffered queue alone         *)
(* (tcp_client::run_no_wait, _handle_connect and tcp_session::_on_close).   *)
THEOREM ClientUsesQueue == ClientSpec => Spec
<1>1. ClientInit => Init
  BY DEF ClientInit
<1>2. [ClientNext]_clientVars => [Next]_vars
  <2>1. ClientNext => [Next]_vars
    BY MainThreadSteps, IoThreadSteps, WorldSteps DEF ClientNext
  <2>2. UNCHANGED clientVars => UNCHANGED vars
    BY DEF clientVars, cb, vars
  <2> QED
    BY <2>1, <2>2
<1> QED
  BY <1>1, <1>2, PTL DEF ClientSpec, Spec

(* Every on_connect, on_connect_failed and on_close of a link is called     *)
(* once, in the order the io thread added them, also when it adds them      *)
(* while the main thread drains or is in a call (call_back_mgr::poll).      *)
THEOREM ClientImplementsFifo == ClientSpec => ImplementsFifo
BY ClientUsesQueue, ImplementsFifoHolds, PTL

(* The main thread pops callbacks without the mutex: the io thread pushes   *)
(* to the other list meanwhile, so the two never race (call_back_mgr::poll, *)
(* add_cb).                                                                 *)
THEOREM ClientDrainsAlone == ClientSpec => []DrainedAlone
BY ClientUsesQueue, DrainedAloneHolds, PTL

-----------------------------------------------------------------------------
(* Where the elements of H are in a sequence of handlers, and that there is *)
(* at most one.                                                             *)
Places(q, H) == {i \in 1 .. Len(q) : q[i] \in H}

Single(A) == \A i, j \in A : i = j

(* A handler that is posted.                                                *)
LEMMA PlacesAppend ==
    ASSUME NEW S, NEW q \in Seq(S), NEW x \in S, NEW H
    PROVE  /\ Append(q, x) \in Seq(S)
           /\ Places(q, H) \subseteq Places(Append(q, x), H)
           /\ x \in H => Places(Append(q, x), H) # {}
           /\ x \notin H => Places(Append(q, x), H) = Places(q, H)
           /\ Places(q, H) = {} => Single(Places(Append(q, x), H))
<1>1. /\ Append(q, x) \in Seq(S) /\ Len(Append(q, x)) = Len(q) + 1
      /\ \A i \in 1 .. Len(q) : Append(q, x)[i] = q[i]
      /\ Append(q, x)[Len(q) + 1] = x
      /\ Len(q) \in Nat
  BY AppendProperties, LenProperties
<1>2. Len(q) + 1 \in 1 .. Len(Append(q, x))
  BY <1>1
<1>3. Places(q, H) \subseteq Places(Append(q, x), H)
  BY <1>1 DEF Places
<1>4. x \in H => Places(Append(q, x), H) # {}
  BY <1>1, <1>2 DEF Places
<1>5. \A i \in Places(Append(q, x), H) : i \in Places(q, H) \/ (i = Len(q) + 1 /\ x \in H)
  <2> SUFFICES ASSUME NEW i \in Places(Append(q, x), H)
               PROVE  i \in Places(q, H) \/ (i = Len(q) + 1 /\ x \in H)
    OBVIOUS
  <2>1. i \in 1 .. Len(q) + 1 /\ Append(q, x)[i] \in H
    BY <1>1 DEF Places
  <2>2. CASE i = Len(q) + 1
    BY <1>1, <2>1, <2>2
  <2>3. CASE i # Len(q) + 1
    <3>1. i \in 1 .. Len(q)
      BY <1>1, <2>1, <2>3
    <3> QED  BY <1>1, <2>1, <3>1 DEF Places
  <2> QED  BY <2>2, <2>3
<1> QED  BY <1>1, <1>3, <1>4, <1>5 DEF Single

(* The handler at the head is run.                                          *)
LEMMA PlacesTail ==
    ASSUME NEW S, NEW q \in Seq(S), q # <<>>, NEW H
    PROVE  /\ Tail(q) \in Seq(S) /\ Head(q) \in S
           /\ Places(Tail(q), H) # {} => Places(q, H) # {}
           /\ Head(q) \notin H /\ Places(q, H) # {} => Places(Tail(q), H) # {}
           /\ Single(Places(q, H)) => Single(Places(Tail(q), H))
           /\ Head(q) \in H => Places(q, H) # {}
           /\ Head(q) \in H /\ Single(Places(q, H)) => Places(Tail(q), H) = {}
<1>1. /\ Tail(q) \in Seq(S) /\ Head(q) \in S /\ Head(q) = q[1]
      /\ Len(Tail(q)) = Len(q) - 1
      /\ \A i \in 1 .. Len(Tail(q)) : Tail(q)[i] = q[i + 1]
      /\ Len(q) \in Nat \ {0}
  BY HeadTailProperties, LenProperties, EmptySeq
<1>2. \A i \in Places(Tail(q), H) : i \in Nat \ {0} /\ i + 1 \in Places(q, H)
  BY <1>1 DEF Places
<1>3. \A i \in Places(q, H) : i = 1 \/ i - 1 \in Places(Tail(q), H)
  <2> SUFFICES ASSUME NEW i \in Places(q, H), i # 1
               PROVE  i - 1 \in Places(Tail(q), H)
    OBVIOUS
  <2>1. i \in 1 .. Len(q) /\ q[i] \in H
    BY DEF Places
  <2>2. i - 1 \in 1 .. Len(Tail(q)) /\ (i - 1) + 1 = i
    BY <1>1, <2>1
  <2> QED  BY <1>1, <2>1, <2>2 DEF Places
<1>4. Head(q) \in H <=> 1 \in Places(q, H)
  BY <1>1 DEF Places
<1>5. Places(Tail(q), H) # {} => Places(q, H) # {}
  BY <1>2
<1>6. Head(q) \notin H /\ Places(q, H) # {} => Places(Tail(q), H) # {}
  BY <1>3, <1>4
<1>7. Single(Places(q, H)) => Single(Places(Tail(q), H))
  BY <1>2 DEF Single
<1>8. Head(q) \in H /\ Single(Places(q, H)) => Places(Tail(q), H) = {}
  BY <1>2, <1>4 DEF Single
<1> QED  BY <1>1, <1>4, <1>5, <1>6, <1>7, <1>8

(* Handlers that are posted together.                                       *)
LEMMA PlacesConcat ==
    ASSUME NEW S, NEW q \in Seq(S), NEW r \in Seq(S), NEW H
    PROVE  /\ q \o r \in Seq(S)
           /\ Places(q \o r, H) # {} <=> Places(q, H) # {} \/ Places(r, H) # {}
           /\ Single(Places(q, H)) /\ Places(r, H) = {} => Single(Places(q \o r, H))
           /\ Places(q, H) = {} /\ Single(Places(r, H)) => Single(Places(q \o r, H))
<1>1. /\ q \o r \in Seq(S) /\ Len(q \o r) = Len(q) + Len(r)
      /\ \A i \in 1 .. Len(q) + Len(r) :
            (q \o r)[i] = IF i <= Len(q) THEN q[i] ELSE r[i - Len(q)]
      /\ Len(q) \in Nat /\ Len(r) \in Nat
  BY ConcatProperties, LenProperties
<1>2. \A i \in Places(q, H) : i \in Places(q \o r, H)
  BY <1>1 DEF Places
<1>3. \A i \in Places(r, H) : i + Len(q) \in Places(q \o r, H)
  <2> SUFFICES ASSUME NEW i \in Places(r, H) PROVE i + Len(q) \in Places(q \o r, H)
    OBVIOUS
  <2>1. i \in 1 .. Len(r) /\ r[i] \in H
    BY DEF Places
  <2>2. /\ i + Len(q) \in 1 .. Len(q) + Len(r) /\ ~(i + Len(q) <= Len(q))
        /\ (i + Len(q)) - Len(q) = i
    BY <1>1, <2>1
  <2> QED  BY <1>1, <2>1, <2>2 DEF Places
<1>4. \A i \in Places(q \o r, H) : i \in Nat /\ (i \in Places(q, H) \/ i - Len(q) \in Places(r, H))
  <2> SUFFICES ASSUME NEW i \in Places(q \o r, H)
               PROVE  i \in Nat /\ (i \in Places(q, H) \/ i - Len(q) \in Places(r, H))
    OBVIOUS
  <2>1. i \in 1 .. Len(q) + Len(r) /\ (q \o r)[i] \in H
    BY <1>1 DEF Places
  <2>2. CASE i <= Len(q)
    BY <1>1, <2>1, <2>2 DEF Places
  <2>3. CASE ~(i <= Len(q))
    <3>1. i - Len(q) \in 1 .. Len(r)
      BY <1>1, <2>1, <2>3
    <3> QED  BY <1>1, <2>1, <2>3, <3>1 DEF Places
  <2> QED  BY <2>2, <2>3
<1>5. Places(q \o r, H) # {} <=> Places(q, H) # {} \/ Places(r, H) # {}
  BY <1>2, <1>3, <1>4
<1>6. ASSUME Single(Places(q, H)), Places(r, H) = {}
      PROVE  Single(Places(q \o r, H))
  BY <1>4, <1>6 DEF Single
<1>7. ASSUME Places(q, H) = {}, Single(Places(r, H))
      PROVE  Single(Places(q \o r, H))
  <2>1. \A i, j \in Places(q \o r, H) : i \in Nat /\ j \in Nat /\ i - Len(q) = j - Len(q)
    BY <1>4, <1>7 DEF Single
  <2> QED  BY <1>1, <2>1 DEF Single
<1> QED  BY <1>1, <1>5, <1>6, <1>7

-----------------------------------------------------------------------------
(* The link itself.  The types of its state; the four invariants of         *)
(* TcpClient are inductive together with them and with the queue's.         *)
Handlers == {"connect", "connected", "refused", "close", "write", "written",
             "writeError", "readError"}

ClientTypes ==
    /\ io \in Seq(Handlers) /\ reads \in Nat /\ m_queue_send_msg \in Nat
    /\ socket \in {"closed", "connecting", "open", "broken"}
    /\ m_isconnected \in BOOLEAN /\ m_isconnecting \in BOOLEAN
    /\ m_is_sending_data \in BOOLEAN /\ writing \in BOOLEAN
    /\ closing \in BOOLEAN /\ failedWrite \in BOOLEAN

LinkInv == ClientTypes /\ LossNoticed /\ OneConnect /\ OneWrite /\ QueuedGoesOut

ClientInv == IInv /\ LinkInv

Connects == {"connected", "refused"}
Writes == {"written", "writeError"}

(* The invariants in terms of Places.                                       *)
LEMMA InTermsOfPlaces ==
    /\ \A H : Posted(H) = Places(io, H)
    /\ OneConnect <=>
         /\ m_isconnecting <=> (socket = "connecting" \/ Places(io, Connects) # {})
         /\ socket = "connecting" => Places(io, Connects) = {}
         /\ Single(Places(io, Connects))
         /\ ~(m_isconnecting /\ m_isconnected)
    /\ OneWrite <=>
         /\ writing => Places(io, Writes) = {}
         /\ Single(Places(io, Writes))
         /\ writing \/ Places(io, Writes) # {} => m_is_sending_data
         /\ m_is_sending_data => writing \/ Places(io, Writes) # {} \/ failedWrite
    /\ LossNoticed <=>
         (m_isconnected => \/ reads > 0 \/ closing \/ Places(io, {"readError"}) # {}
                           \/ Awaited("on_connect"))
    /\ QueuedGoesOut <=>
         (m_isconnected /\ m_queue_send_msg > 0 =>
            \/ Places(io, {"write"}) # {} \/ m_is_sending_data
            \/ Awaited("on_connect"))
BY DEF Posted, Places, Connects, Writes, Single, OneConnect, OneWrite, LossNoticed,
       QueuedGoesOut

(* The same after a step.                                                   *)
LEMMA InTermsOfPlacesNext ==
    /\ OneConnect' <=>
         /\ m_isconnecting' <=> (socket' = "connecting" \/ Places(io', Connects) # {})
         /\ socket' = "connecting" => Places(io', Connects) = {}
         /\ Single(Places(io', Connects))
         /\ ~(m_isconnecting' /\ m_isconnected')
    /\ OneWrite' <=>
         /\ writing' => Places(io', Writes) = {}
         /\ Single(Places(io', Writes))
         /\ writing' \/ Places(io', Writes) # {} => m_is_sending_data'
         /\ m_is_sending_data' => writing' \/ Places(io', Writes) # {} \/ failedWrite'
    /\ LossNoticed' <=>
         (m_isconnected' => \/ reads' > 0 \/ closing' \/ Places(io', {"readError"}) # {}
                            \/ Awaited("on_connect")')
    /\ QueuedGoesOut' <=>
         (m_isconnected' /\ m_queue_send_msg' > 0 =>
            \/ Places(io', {"write"}) # {} \/ m_is_sending_data'
            \/ Awaited("on_connect")')
BY DEF Posted, Places, Connects, Writes, Single, OneConnect, OneWrite, LossNoticed,
       QueuedGoesOut

(* A sequence of one handler, or of none.                                   *)
LEMMA PlacesOne ==
    /\ \A H, x : /\ x \in H => Places(<<x>>, H) = {1}
                 /\ x \notin H => Places(<<x>>, H) = {}
    /\ \A H : Places(<<>>, H) = {}
<1>1. \A x : Len(<<x>>) = 1 /\ <<x>>[1] = x
  OBVIOUS
<1>2. \A H, x : \A i : i \in Places(<<x>>, H) <=> i = 1 /\ x \in H
  BY <1>1 DEF Places
<1> QED  BY <1>2 DEF Places

(* What closing a socket posts: the end of its connect and of its write.    *)
LEMMA AbortedPlaces ==
    ASSUME ClientTypes
    PROVE  /\ Aborted \in Seq(Handlers)
           /\ Places(Aborted, Connects) # {} <=> socket = "connecting"
           /\ Places(Aborted, Writes) # {} <=> writing
           /\ Single(Places(Aborted, Connects)) /\ Single(Places(Aborted, Writes))
<1> DEFINE a == IF socket = "connecting" THEN <<"refused">> ELSE <<>>
           b == [n \in 1 .. reads |-> "readError"]
           c == IF writing THEN <<"writeError">> ELSE <<>>
<1>1. /\ a \in Seq(Handlers)
      /\ Places(a, Connects) # {} <=> socket = "connecting"
      /\ Single(Places(a, Connects)) /\ Places(a, Writes) = {}
  <2>1. CASE socket = "connecting"
    BY <2>1, PlacesOne DEF Handlers, Connects, Writes, Single
  <2>2. CASE socket # "connecting"
    BY <2>2, PlacesOne DEF Single
  <2> QED  BY <2>1, <2>2
<1>2. /\ c \in Seq(Handlers)
      /\ Places(c, Writes) # {} <=> writing
      /\ Single(Places(c, Writes)) /\ Places(c, Connects) = {}
  <2>1. CASE writing
    BY <2>1, PlacesOne DEF Handlers, Connects, Writes, Single
  <2>2. CASE ~writing
    BY <2>2, PlacesOne DEF Single
  <2> QED  BY <2>1, <2>2
<1>3. b \in Seq(Handlers) /\ Places(b, Connects) = {} /\ Places(b, Writes) = {}
  <2>1. b \in [1 .. reads -> Handlers] /\ reads \in Nat
    BY DEF Handlers, ClientTypes
  <2>2. b \in Seq(Handlers) /\ Len(b) = reads
    BY <2>1, IsASeq, LenProperties
  <2> QED  BY <2>2 DEF Places, Connects, Writes
<1>4. Aborted = (a \o b) \o c
  BY DEF Aborted
<1> HIDE DEF a, b, c
<1>5. \A H : /\ a \o b \in Seq(Handlers)
             /\ Places(a \o b, H) # {} <=> Places(a, H) # {} \/ Places(b, H) # {}
             /\ Single(Places(a, H)) /\ Places(b, H) = {} => Single(Places(a \o b, H))
             /\ Places(a, H) = {} /\ Single(Places(b, H)) => Single(Places(a \o b, H))
  BY <1>1, <1>3, PlacesConcat, SMTT(20)
<1>6. \A H : /\ (a \o b) \o c \in Seq(Handlers)
             /\ Places((a \o b) \o c, H) # {} <=> Places(a \o b, H) # {} \/ Places(c, H) # {}
             /\ Single(Places(a \o b, H)) /\ Places(c, H) = {} =>
                    Single(Places((a \o b) \o c, H))
             /\ Places(a \o b, H) = {} /\ Single(Places(c, H)) =>
                    Single(Places((a \o b) \o c, H))
  <2> DEFINE ab == a \o b
  <2>1. ab \in Seq(Handlers)
    BY <1>5
  <2> HIDE DEF ab
  <2>2. \A H : /\ ab \o c \in Seq(Handlers)
               /\ Places(ab \o c, H) # {} <=> Places(ab, H) # {} \/ Places(c, H) # {}
               /\ Single(Places(ab, H)) /\ Places(c, H) = {} => Single(Places(ab \o c, H))
               /\ Places(ab, H) = {} /\ Single(Places(c, H)) => Single(Places(ab \o c, H))
    BY <1>2, <2>1, PlacesConcat, SMTT(20)
  <2> QED  BY <2>2 DEF ab
<1> QED  BY <1>1, <1>2, <1>3, <1>4, <1>5, <1>6

(* A callback that is added waits, and so do the others.                    *)
LEMMA AwaitedAdd ==
    ASSUME TypeOK, NEW x \in Calls, add_cb(x), NEW y \in Calls, Awaited(y) \/ x = y
    PROVE  Awaited(y)'
<1> DEFINE c == current_queue
<1>1. /\ c \in {0, 1} /\ list \in [{0, 1} -> Seq(Calls)]
      /\ list' = [list EXCEPT ![c] = Append(@, x)]
  BY DEF add_cb, TypeOK
<1> HIDE DEF c
<1>2. /\ list[c] \in Seq(Calls)
      /\ list'[c] = Append(list[c], x) /\ list'[1 - c] = list[1 - c] /\ 1 - c \in {0, 1}
  BY <1>1
<1>3. /\ Len(list'[c]) = Len(list[c]) + 1 /\ list'[c][Len(list[c]) + 1] = x
      /\ \A j \in 1 .. Len(list[c]) : list'[c][j] = list[c][j]
      /\ Len(list[c]) \in Nat
  BY <1>2, AppendProperties, LenProperties
<1>4. CASE x = y
  <2>1. Len(list[c]) + 1 \in 1 .. Len(list'[c])
    BY <1>3
  <2> QED  BY <1>1, <1>3, <1>4, <2>1 DEF Awaited
<1>5. CASE Awaited(y)
  <2>1. PICK i \in {0, 1} : \E j \in 1 .. Len(list[i]) : list[i][j] = y
    BY <1>5 DEF Awaited
  <2>2. PICK j \in 1 .. Len(list[i]) : list[i][j] = y
    BY <2>1
  <2>3. CASE i = c
    <3>1. j \in 1 .. Len(list'[i]) /\ list'[i][j] = y
      BY <1>3, <2>2, <2>3
    <3> QED  BY <3>1 DEF Awaited
  <2>4. CASE i # c
    <3>1. list'[i] = list[i]
      BY <1>1, <1>2, <2>4
    <3> QED  BY <2>2, <3>1 DEF Awaited
  <2> QED  BY <2>3, <2>4
<1> QED  BY <1>4, <1>5

(* A callback that is popped leaves the others waiting.                     *)
LEMMA AwaitedPop ==
    ASSUME IInv, Pop, NEW y \in Calls, Awaited(y), Head(list[proc_index]) # y
    PROVE  Awaited(y)'
<1> DEFINE c == proc_index
<1>1. /\ c \in {0, 1} /\ list \in [{0, 1} -> Seq(Calls)] /\ list[c] # <<>>
      /\ list' = [list EXCEPT ![c] = Tail(@)]
  BY DEF Pop, IInv, TypeOK, Phase, Draining
<1> HIDE DEF c
<1>2. list[c] \in Seq(Calls) /\ list'[c] = Tail(list[c])
  BY <1>1
<1>3. /\ Len(list'[c]) = Len(list[c]) - 1 /\ Head(list[c]) = list[c][1]
      /\ \A j \in 1 .. Len(list'[c]) : list'[c][j] = list[c][j + 1]
      /\ Len(list[c]) \in Nat
  BY <1>1, <1>2, HeadTailProperties, LenProperties
<1>4. PICK i \in {0, 1} : \E j \in 1 .. Len(list[i]) : list[i][j] = y
  BY DEF Awaited
<1>5. PICK j \in 1 .. Len(list[i]) : list[i][j] = y
  BY <1>4
<1>6. CASE i = c
  <2>1. j # 1
    BY <1>3, <1>5, <1>6 DEF c
  <2>2. j - 1 \in 1 .. Len(list'[i]) /\ (j - 1) + 1 = j
    BY <1>3, <1>5, <1>6, <2>1
  <2>3. list'[i][j - 1] = y
    BY <1>3, <1>5, <1>6, <2>2
  <2> QED  BY <2>2, <2>3 DEF Awaited
<1>7. CASE i # c
  <2>1. list'[i] = list[i]
    BY <1>1, <1>7
  <2> QED  BY <1>5, <2>1 DEF Awaited
<1> QED  BY <1>6, <1>7

(* What a handler does to io: it is taken off, and others are posted.       *)
LEMMA Taken ==
    ASSUME ClientTypes, NEW h, Runs(h)
    PROVE  /\ Tail(io) \in Seq(Handlers) /\ ~closing
           /\ \A H : /\ Places(Tail(io), H) # {} => Places(io, H) # {}
                     /\ h \notin H /\ Places(io, H) # {} => Places(Tail(io), H) # {}
                     /\ Single(Places(io, H)) => Single(Places(Tail(io), H))
                     /\ h \in H => Places(io, H) # {}
                     /\ h \in H /\ Single(Places(io, H)) => Places(Tail(io), H) = {}
<1>1. io \in Seq(Handlers) /\ io # <<>> /\ Head(io) = h /\ ~closing
  BY DEF Runs, ClientTypes
<1> QED  BY <1>1, PlacesTail, SMTT(20)

(* A handler is posted.                                                     *)
LEMMA PostedOne ==
    ASSUME NEW q \in Seq(Handlers), NEW x \in Handlers
    PROVE  /\ Append(q, x) \in Seq(Handlers)
           /\ \A H : /\ Places(q, H) # {} => Places(Append(q, x), H) # {}
                     /\ x \in H => Places(Append(q, x), H) # {}
                     /\ x \notin H => Places(Append(q, x), H) = Places(q, H)
                     /\ Places(q, H) = {} => Single(Places(Append(q, x), H))
BY PlacesAppend, SMTT(20)

(* The ends of a closed socket's operations are posted.                     *)
LEMMA PostedAborted ==
    ASSUME ClientTypes, NEW q \in Seq(Handlers)
    PROVE  /\ q \o Aborted \in Seq(Handlers)
           /\ \A H \in {Connects, Writes} :
                /\ Places(q \o Aborted, H) # {} <=> Places(q, H) # {} \/ Places(Aborted, H) # {}
                /\ Single(Places(q, H)) /\ Places(Aborted, H) = {} =>
                       Single(Places(q \o Aborted, H))
                /\ Places(q, H) = {} => Single(Places(q \o Aborted, H))
<1>1. Aborted \in Seq(Handlers)
  BY AbortedPlaces
<1>2. \A H : /\ q \o Aborted \in Seq(Handlers)
             /\ Places(q \o Aborted, H) # {} <=> Places(q, H) # {} \/ Places(Aborted, H) # {}
             /\ Single(Places(q, H)) /\ Places(Aborted, H) = {} =>
                    Single(Places(q \o Aborted, H))
             /\ Places(q, H) = {} /\ Single(Places(Aborted, H)) =>
                    Single(Places(q \o Aborted, H))
  BY <1>1, PlacesConcat, SMTT(20)
<1>3. \A H \in {Connects, Writes} : Single(Places(Aborted, H))
  BY AbortedPlaces
<1> QED  BY <1>2, <1>3

-----------------------------------------------------------------------------
(* The main thread keeps the link's invariants.                             *)
LEMMA MainThreadKeeps ==
    ASSUME ClientInv, Loop \/ send_message \/ close
    PROVE  LinkInv'
<1> USE InTermsOfPlaces, InTermsOfPlacesNext DEF ClientInv, LinkInv
<1>0. io \in Seq(Handlers)
  BY DEF ClientTypes
<1>1. CASE RunReconnects
  <2>1. UNCHANGED list /\ UNCHANGED io
    BY <1>1 DEF RunReconnects, cb
  <2>2. Awaited("on_connect")' <=> Awaited("on_connect")
    BY <2>1 DEF Awaited
  <2>3. /\ m_isconnecting' = TRUE /\ socket' = "connecting" /\ ~m_isconnected /\ ~m_isconnecting
        /\ UNCHANGED <<m_isconnected, m_is_sending_data, m_queue_send_msg, writing,
                       reads, closing, failedWrite>>
    BY <1>1 DEF RunReconnects, reconnect, sending
  <2>4. ClientTypes'
    BY <2>1, <2>3 DEF ClientTypes
  <2> QED  BY <2>1, <2>2, <2>3, <2>4
<1>2. CASE Polls
  <2>1. UNCHANGED <<list, io, m_isconnected, m_isconnecting, m_is_sending_data,
                    m_queue_send_msg, writing, socket, reads, closing, failedWrite>>
    BY <1>2 DEF Polls, Swap, Front, Leave, flags, sending
  <2>2. Awaited("on_connect")' <=> Awaited("on_connect")
    BY <2>1 DEF Awaited
  <2>3. ClientTypes'
    BY <2>1 DEF ClientTypes
  <2> QED  BY <2>1, <2>2, <2>3
<1>3. CASE Callback
  <2>0. UNCHANGED <<m_isconnected, m_isconnecting, m_is_sending_data, writing, socket,
                    closing, failedWrite>>
    BY <1>3 DEF Callback, flags
  <2>1. CASE Head(list[proc_index]) # "on_connect"
    <3>1. UNCHANGED <<reads, m_queue_send_msg, io>> /\ Pop
      BY <1>3, <2>1 DEF Callback
    <3>2. Awaited("on_connect") => Awaited("on_connect")'
      BY <2>1, <3>1, AwaitedPop, CallsAssumption
    <3>3. ClientTypes'
      BY <2>0, <3>1 DEF ClientTypes
    <3> QED  BY <2>0, <3>1, <3>2, <3>3
  <2>2. CASE Head(list[proc_index]) = "on_connect"
    <3>1. PICK rest \in Seq(Handlers) :
            /\ Sends(rest) /\ reads' \in Nat
            /\ reads' > 0 \/ Places(rest, {"readError"}) # {}
            /\ Places(rest, Connects) = Places(io, Connects)
            /\ Places(rest, Writes) = Places(io, Writes)
      <4>1. CASE socket \in {"open", "broken"}
        <5>1. reads' = reads + 1 /\ Sends(io)
          BY <1>3, <2>2, <4>1 DEF Callback
        <5> QED  BY <1>0, <5>1 DEF ClientTypes
      <4>2. CASE socket \notin {"open", "broken"}
        <5> DEFINE r == Append(io, "readError")
        <5>1. reads' = reads /\ Sends(r)
          BY <1>3, <2>2, <4>2 DEF Callback
        <5>2. /\ r \in Seq(Handlers)
              /\ "readError" \in {"readError"} => Places(r, {"readError"}) # {}
              /\ "readError" \notin Connects => Places(r, Connects) = Places(io, Connects)
              /\ "readError" \notin Writes => Places(r, Writes) = Places(io, Writes)
          BY <1>0, PostedOne DEF Handlers
        <5>3. "readError" \notin Connects /\ "readError" \notin Writes
          BY DEF Connects, Writes
        <5> HIDE DEF r
        <5> QED  BY <5>1, <5>2, <5>3 DEF ClientTypes
      <4> QED  BY <4>1, <4>2
    <3>2. CASE m_isconnected
      <4>1. m_queue_send_msg' = m_queue_send_msg + 1 /\ io' = Append(rest, "write")
        BY <3>1, <3>2 DEF Sends
      <4>2. /\ io' \in Seq(Handlers) /\ Places(io', {"write"}) # {}
            /\ Places(rest, {"readError"}) # {} => Places(io', {"readError"}) # {}
            /\ "write" \notin Connects => Places(io', Connects) = Places(rest, Connects)
            /\ "write" \notin Writes => Places(io', Writes) = Places(rest, Writes)
        BY <4>1, PostedOne DEF Handlers
      <4>3. "write" \notin Connects /\ "write" \notin Writes
        BY DEF Connects, Writes
      <4>4. ClientTypes'
        BY <2>0, <3>1, <4>1, <4>2 DEF ClientTypes
      <4> QED  BY <2>0, <3>1, <4>2, <4>3, <4>4
    <3>3. CASE ~m_isconnected
      <4>1. m_queue_send_msg' = m_queue_send_msg /\ io' = rest
        BY <3>1, <3>3 DEF Sends
      <4>2. ClientTypes'
        BY <2>0, <3>1, <4>1 DEF ClientTypes
      <4> QED  BY <2>0, <3>1, <3>3, <4>1, <4>2
    <3> QED  BY <3>2, <3>3 DEF ClientTypes
  <2> QED  BY <2>1, <2>2
<1>4. CASE send_message \/ close
  <2>1. PICK h \in {"write", "close"} :
          /\ io' = Append(io, h)
          /\ m_queue_send_msg' \in Nat
          /\ m_queue_send_msg' > 0 => m_queue_send_msg > 0 \/ h = "write"
          /\ UNCHANGED <<list, m_isconnected, m_isconnecting, m_is_sending_data,
                         writing, socket, reads, closing, failedWrite>>
    BY <1>4 DEF send_message, close, Sends, cb, flags, sending, ClientTypes
  <2>2. Awaited("on_connect")' <=> Awaited("on_connect")
    BY <2>1 DEF Awaited
  <2>3. h \in Handlers /\ h \notin Connects /\ h \notin Writes
    BY <2>1 DEF Handlers, Connects, Writes
  <2>4. /\ io' \in Seq(Handlers)
        /\ Places(io, {"readError"}) # {} => Places(io', {"readError"}) # {}
        /\ Places(io, {"write"}) # {} => Places(io', {"write"}) # {}
        /\ h = "write" => Places(io', {"write"}) # {}
        /\ Places(io', Connects) = Places(io, Connects)
        /\ Places(io', Writes) = Places(io, Writes)
    BY <1>0, <2>1, <2>3, PostedOne
  <2>5. ClientTypes'
    BY <2>1, <2>4 DEF ClientTypes
  <2> QED  BY <2>1, <2>2, <2>4, <2>5
<1> QED  BY <1>1, <1>2, <1>3, <1>4 DEF Loop

(* The start of a write keeps them, at a handler after which no end of a    *)
(* write is posted unless the client is busy.                               *)
LEMMA WriteKeeps ==
    ASSUME ClientInv, NEW rest \in Seq(Handlers), NEW busy \in BOOLEAN,
           WriteStarts(rest, busy),
           Places(rest, Connects) # {} <=> Places(io, Connects) # {},
           Single(Places(rest, Connects)), Single(Places(rest, Writes)),
           Places(io, {"readError"}) # {} => Places(rest, {"readError"}) # {},
           busy => /\ m_is_sending_data
                   /\ Places(rest, Writes) # {} <=> Places(io, Writes) # {},
           ~busy => ~writing /\ Places(rest, Writes) = {},
           UNCHANGED <<list, m_isconnected, m_isconnecting, socket, reads, closing,
                       failedWrite>>
    PROVE  LinkInv'
<1> USE InTermsOfPlaces, InTermsOfPlacesNext DEF ClientInv, LinkInv
<1>0. Awaited("on_connect")' <=> Awaited("on_connect")
  BY DEF Awaited
<1>1. CASE m_isconnected /\ ~busy /\ m_queue_send_msg > 0
  <2>1. /\ m_queue_send_msg' = 0 /\ m_is_sending_data' = TRUE
        /\ writing' = (socket \in {"open", "broken"})
        /\ io' = IF socket \in {"open", "broken"} THEN rest ELSE Append(rest, "writeError")
    BY <1>1 DEF WriteStarts
  <2>2. CASE socket \in {"open", "broken"}
    <3>1. ClientTypes'
      BY <2>1, <2>2 DEF ClientTypes
    <3> QED  BY <1>0, <1>1, <2>1, <2>2, <3>1
  <2>3. CASE socket \notin {"open", "broken"}
    <3>1. "writeError" \in Handlers /\ "writeError" \in Writes /\ "writeError" \notin Connects
      BY DEF Handlers, Writes, Connects
    <3>2. /\ io' \in Seq(Handlers)
          /\ Places(rest, {"readError"}) # {} => Places(io', {"readError"}) # {}
          /\ Places(io', Connects) = Places(rest, Connects)
          /\ Places(io', Writes) # {} /\ Single(Places(io', Writes))
      BY <1>1, <2>1, <2>3, <3>1, PostedOne
    <3>3. ClientTypes'
      BY <2>1, <2>3, <3>2 DEF ClientTypes
    <3> QED  BY <1>0, <1>1, <2>1, <2>3, <3>2, <3>3
  <2> QED  BY <2>2, <2>3
<1>2. CASE ~(m_isconnected /\ ~busy /\ m_queue_send_msg > 0)
  <2>1. /\ m_is_sending_data' = busy /\ io' = rest
        /\ UNCHANGED <<m_queue_send_msg, writing>>
    BY <1>2 DEF WriteStarts
  <2>2. ClientTypes'
    BY <2>1 DEF ClientTypes
  <2> QED  BY <1>0, <1>2, <2>1, <2>2
<1> QED  BY <1>1, <1>2

(* The io thread keeps them.                                                *)
LEMMA IoThreadKeeps ==
    ASSUME ClientInv, IoThread
    PROVE  LinkInv'
<1> USE InTermsOfPlaces, InTermsOfPlacesNext DEF ClientInv, LinkInv
<1>0. io \in Seq(Handlers) /\ ClientTypes
  BY DEF ClientTypes
<1>1. CASE _connect
  <2>1. /\ Runs("connect") /\ io' = Tail(io)
        /\ m_isconnecting' = (m_isconnecting \/ ~m_isconnected)
        /\ socket' = IF m_isconnected \/ m_isconnecting THEN socket ELSE "connecting"
        /\ UNCHANGED <<list, m_isconnected, m_is_sending_data, m_queue_send_msg,
                       writing, reads, closing, failedWrite>>
    BY <1>1 DEF _connect, reconnect, cb, sending
  <2>2. Awaited("on_connect")' <=> Awaited("on_connect")
    BY <2>1 DEF Awaited
  <2>3. "connect" \notin Connects /\ "connect" \notin Writes
    BY DEF Connects, Writes
  <2>4. /\ io' \in Seq(Handlers)
        /\ Places(io', Connects) # {} <=> Places(io, Connects) # {}
        /\ Places(io', Writes) # {} <=> Places(io, Writes) # {}
        /\ Single(Places(io', Connects)) /\ Single(Places(io', Writes))
        /\ Places(io, {"readError"}) # {} => Places(io', {"readError"}) # {}
        /\ Places(io, {"write"}) # {} => Places(io', {"write"}) # {}
    BY <1>0, <2>1, <2>3, Taken
  <2>5. ClientTypes'
    BY <2>1, <2>4 DEF ClientTypes
  <2> QED  BY <2>1, <2>2, <2>4, <2>5 DEF ClientTypes
<1>2. ASSUME NEW e \in BOOLEAN, handle_connect(e)
      PROVE  LinkInv'
  <2> DEFINE h == IF e THEN "refused" ELSE "connected"
  <2>1. /\ Runs(h) /\ io' = Tail(io) /\ m_isconnecting' = FALSE
        /\ UNCHANGED <<m_is_sending_data, m_queue_send_msg, writing, socket, reads,
                       closing, failedWrite>>
    BY <1>2 DEF handle_connect, Connecting, sending
  <2>2. h \in Connects /\ h \notin Writes /\ h # "readError" /\ h # "write"
    BY DEF Connects, Writes
  <2> HIDE DEF h
  <2>3. /\ io' \in Seq(Handlers)
        /\ Places(io, Connects) # {} /\ Places(io', Connects) = {}
        /\ Places(io', Writes) # {} <=> Places(io, Writes) # {}
        /\ Single(Places(io', Writes))
    BY <1>0, <2>1, <2>2, Taken
  <2>4. ~m_isconnected /\ m_isconnecting /\ socket # "connecting"
    BY <2>3
  <2>5. /\ m_isconnected' = ~e
        /\ add_cb(IF e THEN "on_connect_failed" ELSE "on_connect")
    BY <1>2, <2>4 DEF handle_connect
  <2>6. ~e => Awaited("on_connect")'
    BY <2>5, AwaitedAdd, CallsAssumption DEF IInv
  <2>7. ClientTypes'
    BY <2>1, <2>3, <2>5 DEF ClientTypes
  <2>8. Single(Places(io', Connects))
    BY <2>3 DEF Single
  <2> QED  BY <2>1, <2>3, <2>4, <2>5, <2>6, <2>7, <2>8
<1>3. ASSUME NEW q \in Seq(Handlers), io' = q \o Aborted,
             Places(q, Connects) # {} <=> Places(io, Connects) # {},
             Places(q, Writes) # {} <=> Places(io, Writes) # {},
             Single(Places(q, Connects)), Single(Places(q, Writes)),
             socket' = "closed", reads' = 0, writing' = FALSE, m_isconnected' = FALSE,
             closing' = FALSE,
             UNCHANGED <<m_isconnecting, m_is_sending_data, m_queue_send_msg, failedWrite>>
      PROVE  LinkInv'
  <2>1. /\ io' \in Seq(Handlers)
        /\ Places(io', Connects) # {} <=> Places(q, Connects) # {} \/ Places(Aborted, Connects) # {}
        /\ Places(io', Writes) # {} <=> Places(q, Writes) # {} \/ Places(Aborted, Writes) # {}
        /\ Places(Aborted, Connects) = {} => Single(Places(io', Connects))
        /\ Places(q, Connects) = {} => Single(Places(io', Connects))
        /\ Places(Aborted, Writes) = {} => Single(Places(io', Writes))
        /\ Places(q, Writes) = {} => Single(Places(io', Writes))
    BY <1>0, <1>3, PostedAborted
  <2>2. /\ Places(Aborted, Connects) # {} <=> socket = "connecting"
        /\ Places(Aborted, Writes) # {} <=> writing
    BY <1>0, AbortedPlaces
  <2>3. ClientTypes'
    BY <1>0, <1>3, <2>1 DEF ClientTypes
  <2> QED  BY <1>3, <2>1, <2>2, <2>3
<1>4. CASE handle_close
  <2>1. /\ Runs("close") /\ io' = Tail(io) \o Aborted
        /\ socket' = "closed" /\ reads' = 0 /\ writing' = FALSE /\ m_isconnected' = FALSE
        /\ UNCHANGED <<m_isconnecting, m_is_sending_data, m_queue_send_msg, closing, failedWrite>>
    BY <1>4 DEF handle_close
  <2>2. "close" \notin Connects /\ "close" \notin Writes
    BY DEF Connects, Writes
  <2>3. /\ Tail(io) \in Seq(Handlers) /\ ~closing
        /\ Places(Tail(io), Connects) # {} <=> Places(io, Connects) # {}
        /\ Places(Tail(io), Writes) # {} <=> Places(io, Writes) # {}
        /\ Single(Places(Tail(io), Connects)) /\ Single(Places(Tail(io), Writes))
    BY <1>0, <2>1, <2>2, Taken
  <2>4. closing' = FALSE
    BY <2>1, <2>3 DEF ClientTypes
  <2> QED  BY <1>3, <2>1, <2>3, <2>4
<1>5. CASE _write_message
  <2>1. /\ Runs("write") /\ WriteStarts(Tail(io), m_is_sending_data)
        /\ UNCHANGED <<list, m_isconnected, m_isconnecting, socket, reads, closing, failedWrite>>
    BY <1>5 DEF _write_message, cb, flags
  <2>2. "write" \notin Connects /\ "write" \notin Writes
    BY DEF Connects, Writes
  <2>3. /\ Tail(io) \in Seq(Handlers)
        /\ Places(Tail(io), Connects) # {} <=> Places(io, Connects) # {}
        /\ Places(Tail(io), Writes) # {} <=> Places(io, Writes) # {}
        /\ Single(Places(Tail(io), Connects)) /\ Single(Places(Tail(io), Writes))
        /\ Places(io, {"readError"}) # {} => Places(Tail(io), {"readError"}) # {}
    BY <1>0, <2>1, <2>2, Taken
  <2>4. m_is_sending_data \in BOOLEAN
    BY DEF ClientTypes
  <2>5. ~m_is_sending_data => ~writing /\ Places(Tail(io), Writes) = {}
    BY <2>3
  <2> QED  BY <2>1, <2>3, <2>4, <2>5, WriteKeeps
<1>6. CASE handle_write
  <2>1. /\ Runs("written") /\ WriteStarts(Tail(io), FALSE)
        /\ UNCHANGED <<list, m_isconnected, m_isconnecting, socket, reads, closing, failedWrite>>
    BY <1>6 DEF handle_write, Written, cb, flags
  <2>2. "written" \notin Connects /\ "written" \in Writes
    BY DEF Connects, Writes
  <2>3. /\ Tail(io) \in Seq(Handlers)
        /\ Places(Tail(io), Connects) # {} <=> Places(io, Connects) # {}
        /\ Places(io, Writes) # {} /\ Places(Tail(io), Writes) = {}
        /\ Single(Places(Tail(io), Connects)) /\ Single(Places(Tail(io), Writes))
        /\ Places(io, {"readError"}) # {} => Places(Tail(io), {"readError"}) # {}
    BY <1>0, <2>1, <2>2, Taken
  <2>4. ~writing
    BY <2>3
  <2> QED  BY <2>1, <2>3, <2>4, WriteKeeps
<1>7. CASE OnCloseClears
  <2>1. PICK h \in {"readError", "writeError"} :
          /\ Runs(h) /\ io' = Tail(io)
          /\ failedWrite' = (failedWrite \/ h = "writeError")
          /\ m_queue_send_msg' = 0 /\ closing' = TRUE
          /\ UNCHANGED <<m_isconnected, m_isconnecting, m_is_sending_data, writing,
                         socket, reads>>
    BY <1>7 DEF OnCloseClears, Runs, flags
  <2>2. h \notin Connects /\ (h \in Writes <=> h = "writeError")
    BY <2>1 DEF Connects, Writes
  <2>3. /\ io' \in Seq(Handlers)
        /\ Places(io', Connects) # {} <=> Places(io, Connects) # {}
        /\ Places(io', Writes) # {} => Places(io, Writes) # {}
        /\ Single(Places(io', Connects)) /\ Single(Places(io', Writes))
        /\ h \notin Writes /\ Places(io, Writes) # {} => Places(io', Writes) # {}
    BY <1>0, <2>1, <2>2, Taken
  <2>4. ClientTypes'
    BY <2>1, <2>3 DEF ClientTypes
  <2>5. OneConnect'
    BY <2>1, <2>3
  <2>6. OneWrite'
    <3>1. CASE h = "writeError"
      <4>1. Places(io, Writes) # {} /\ failedWrite'
        BY <1>0, <2>1, <2>2, <3>1, Taken
      <4> QED  BY <2>1, <2>3, <4>1
    <3>2. CASE h # "writeError"
      <4>1. (Places(io', Writes) # {} <=> Places(io, Writes) # {}) /\ (failedWrite => failedWrite')
        BY <2>1, <2>2, <2>3, <3>2
      <4>2. writing => Places(io', Writes) = {}
        BY <4>1
      <4> QED  BY <2>1, <2>3, <4>1, <4>2
    <3> QED  BY <3>1, <3>2
  <2>7. LossNoticed' /\ QueuedGoesOut'
    BY <2>1
  <2> QED  BY <2>4, <2>5, <2>6, <2>7
<1>8. CASE OnCloseCloses
  BY <1>0, <1>3, <1>8 DEF OnCloseCloses
<1> QED  BY <1>1, <1>2, <1>4, <1>5, <1>6, <1>7, <1>8 DEF IoThread

(* The operating system and the server keep them.                           *)
LEMMA WorldKeeps ==
    ASSUME ClientInv,
           Completion \/ TimePasses \/ ServerGoes \/ ServerComes \/ UNCHANGED clientVars
    PROVE  LinkInv'
<1> USE InTermsOfPlaces, InTermsOfPlacesNext DEF ClientInv, LinkInv
<1>0. io \in Seq(Handlers) /\ ClientTypes
  BY DEF ClientTypes
<1>1. UNCHANGED <<list, m_isconnected, m_isconnecting, m_is_sending_data,
                  m_queue_send_msg, closing, failedWrite>>
  BY DEF Completion, Completes, TimePasses, ServerGoes, ServerComes, clientVars, cb,
         flags, sending
<1>2. Awaited("on_connect")' <=> Awaited("on_connect")
  BY <1>1 DEF Awaited
<1>3. CASE Completion
  <2>0. PICK h \in Handlers \ {"write"} :
          /\ io' = Append(io, h) /\ reads' \in Nat /\ writing' \in BOOLEAN
          /\ socket' \in {"closed", "connecting", "open", "broken"}
          /\ \/ /\ socket = "connecting" /\ socket' # "connecting" /\ h \in Connects
                /\ UNCHANGED <<reads, writing>>
             \/ /\ socket' = socket /\ socket # "connecting" /\ h = "readError"
                /\ UNCHANGED writing
             \/ /\ socket' = socket /\ socket # "connecting" /\ h \in Writes
                /\ writing /\ ~writing' /\ UNCHANGED reads
    <3> USE DEF Connects, Writes, Handlers, ClientTypes
    <3>1. CASE socket = "connecting" /\ up /\ Completes("open", reads, writing, "connected")
      BY <1>0, <3>1 DEF Completes
    <3>2. CASE socket = "connecting" /\ ~up /\ Completes("closed", reads, writing, "refused")
      BY <1>0, <3>2 DEF Completes
    <3>3. CASE /\ socket = "broken" /\ reads > 0
               /\ Completes(socket, reads - 1, writing, "readError")
      BY <1>0, <3>3 DEF Completes
    <3>4. CASE /\ socket \in {"open", "broken"} /\ writing
               /\ Completes(socket, reads, FALSE, "written")
      BY <1>0, <3>4 DEF Completes
    <3>5. CASE socket = "broken" /\ writing /\ Completes(socket, reads, FALSE, "writeError")
      BY <1>0, <3>5 DEF Completes
    <3> QED  BY <1>3, <3>1, <3>2, <3>3, <3>4, <3>5 DEF Completion
  <2>1. /\ h \in Connects => h \notin Writes
        /\ h = "readError" => h \notin Connects /\ h \notin Writes
        /\ h \in Writes => h \notin Connects
    BY DEF Connects, Writes
  <2>2. /\ io' \in Seq(Handlers)
        /\ \A H : /\ Places(io, H) # {} => Places(io', H) # {}
                  /\ h \in H => Places(io', H) # {}
                  /\ h \notin H => Places(io', H) = Places(io, H)
                  /\ Places(io, H) = {} => Single(Places(io', H))
    BY <1>0, <2>0, PostedOne
  <2>3. /\ Places(io, {"readError"}) # {} => Places(io', {"readError"}) # {}
        /\ h = "readError" => Places(io', {"readError"}) # {}
        /\ Places(io, {"write"}) # {} => Places(io', {"write"}) # {}
    BY <2>2
  <2>4. ClientTypes'
    BY <1>0, <1>1, <2>0, <2>2 DEF ClientTypes
  <2>5. CASE h \in Connects
    <3>1. /\ Places(io', Connects) # {} /\ Places(io', Writes) = Places(io, Writes)
          /\ Places(io, Connects) = {} => Single(Places(io', Connects))
      BY <2>1, <2>2, <2>5
    <3> QED  BY <1>1, <1>2, <2>0, <2>1, <2>3, <2>4, <2>5, <3>1
  <2>6. CASE h = "readError"
    <3>1. Places(io', Connects) = Places(io, Connects) /\ Places(io', Writes) = Places(io, Writes)
      BY <2>1, <2>2, <2>6
    <3> QED  BY <1>1, <1>2, <2>0, <2>1, <2>3, <2>4, <2>6, <3>1
  <2>7. CASE h \in Writes
    <3>1. /\ Places(io', Writes) # {} /\ Places(io', Connects) = Places(io, Connects)
          /\ Places(io, Writes) = {} => Single(Places(io', Writes))
      BY <2>1, <2>2, <2>7
    <3> QED  BY <1>1, <1>2, <2>0, <2>1, <2>3, <2>4, <2>7, <3>1
  <2> QED  BY <2>0, <2>5, <2>6, <2>7
<1>4. CASE TimePasses \/ ServerGoes \/ ServerComes \/ UNCHANGED clientVars
  <2>1. /\ UNCHANGED <<io, reads, writing>>
        /\ socket' \in {"closed", "connecting", "open", "broken"}
        /\ socket' = "connecting" <=> socket = "connecting"
    BY <1>0, <1>4 DEF TimePasses, ServerGoes, ServerComes, clientVars, sending, ClientTypes
  <2>2. ClientTypes'
    BY <1>0, <1>1, <2>1 DEF ClientTypes
  <2> QED  BY <1>1, <1>2, <2>1, <2>2
<1> QED  BY <1>3, <1>4

-----------------------------------------------------------------------------
(* The invariants hold together in every state of a link: what the main     *)
(* thread, the io thread and the operating system have under way for each   *)
(* other is always enough to go on.                                         *)
THEOREM ClientInductive == ClientSpec => []ClientInv
<1>1. ClientInit => LinkInv
  <2> SUFFICES ASSUME ClientInit PROVE LinkInv
    OBVIOUS
  <2>1. "connect" \notin Connects /\ "connect" \notin Writes /\ "connect" \in Handlers
    BY DEF Connects, Writes, Handlers
  <2>2. Places(io, Connects) = {} /\ Places(io, Writes) = {}
    BY <2>1, PlacesOne DEF ClientInit
  <2>3. ClientTypes
    <3>1. <<"connect">> \in Seq(Handlers)
      BY <2>1
    <3> QED  BY <3>1 DEF ClientInit, ClientTypes
  <2>4. Single({})
    BY DEF Single
  <2> QED  BY <2>2, <2>3, <2>4, InTermsOfPlaces DEF ClientInit, LinkInv
<1>2. IInv /\ LinkInv /\ [ClientNext]_clientVars => LinkInv'
  BY MainThreadKeeps, IoThreadKeeps, WorldKeeps DEF ClientNext, ClientInv
<1>3. ClientSpec => []IInv
  BY ClientUsesQueue, Invariance, PTL
<1> QED  BY <1>1, <1>2, <1>3, PTL DEF ClientSpec, ClientInv

(* A link that is lost is noticed (handle_connect, handle_read_some,        *)
(* _on_close): what LinkComesBack needs first.                              *)
THEOREM LossNoticedHolds == ClientSpec => []LossNoticed
BY ClientInductive, PTL DEF ClientInv, LinkInv

(* Exactly one connect is outstanding while m_isconnecting is set, and none *)
(* otherwise, whichever thread started it (run_no_wait, _connect): the flag *)
(* cannot be left behind.                                                   *)
THEOREM OneConnectHolds == ClientSpec => []OneConnect
BY ClientInductive, PTL DEF ClientInv, LinkInv

(* No two writes overlap on the socket (_write_message, handle_write), and  *)
(* only a failed write leaves m_is_sending_data set with none under way.    *)
THEOREM OneWriteHolds == ClientSpec => []OneWrite
BY ClientInductive, PTL DEF ClientInv, LinkInv

(* A message that is queued on a connected link is taken along by a handler *)
(* that is posted, by the write under way or by on_connect (send_message).  *)
THEOREM QueuedGoesOutHolds == ClientSpec => []QueuedGoesOut
BY ClientInductive, PTL DEF ClientInv, LinkInv

(* The four together: what handle_connect, _on_close and _write_message     *)
(* keep true of the link for any number of messages, closes and outages.    *)
THEOREM LinkConsistentHolds == ClientSpec => []LinkConsistent
BY LossNoticedHolds, OneConnectHolds, OneWriteHolds, QueuedGoesOutHolds, PTL
   DEF LinkConsistent
=============================================================================
