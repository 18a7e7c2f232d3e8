--------------------------- MODULE DatabaseProofs ---------------------------
(***************************************************************************)
(* Proofs about the asynchronous database, for any number of tasks, queues *)
(* and workers, any number of retries and a stop at any point.             *)
(*                                                                         *)
(* IInv says where a worker and the main thread stand; with it every step  *)
(* is a step of TaskLife or leaves its state alone.  Placed and Ordered    *)
(* are the invariant of TaskLife, kept by its three steps, which the       *)
(* refinement carries over to the database.                                *)
(***************************************************************************)
EXTENDS Database, SequenceTheorems, TLAPS

(* popped is set between getTask and the store; a task is executed and     *)
(* reported, and pointed to for a while after that.                        *)
WorkerShape ==
    \A th \in Threads :
        /\ pc[th] = "store" <=> popped[th] # None
        /\ pc[th] \in {"query", "done", "error", "next", "clear"} => _task[th] # None

(* Nothing waits for its callback outside of run()'s delivery.             *)
Delivering == mpc # "deliver" => tem = <<>>

(* checkStop goes on to the workers only when the queues are empty, which  *)
(* they stay, and leaves only workers behind that have exited.             *)
Stopping ==
    /\ _obj_state = "run" => mpc \in {"loop", "results", "deliver"}
    /\ mpc \in {"threads", "join"} =>
         /\ _obj_state = "wait_stop" /\ QueuesEmpty
         /\ \A th \in Threads : th < at => pc[th] \in {"none", "exited"}
    /\ mpc = "join" => at \in Threads
    /\ _obj_state = "stop" => mpc \in {"results", "loop", "down"}
    /\ \A th \in Threads : _stop[th] => _obj_state # "run" /\ QueuesEmpty

(* A worker fetches tasks with a connection, or without one when there is  *)
(* nothing left to fetch.                                                  *)
Connected ==
    \A th \in Threads :
        /\ pc[th] = "work" => _connect[th] \/ _stop[th]
        /\ pc[th] \in {"store", "query", "done", "next"} => _connect[th]

(* Only an exception leaves a worker with a task at the top of its loop.   *)
Finished ==
    retries = 0 => \A th \in Threads :
        pc[th] \in {"none", "top", "connect", "work", "exited"} => _task[th] = None

IInv == TypeOK /\ WorkerShape /\ Delivering /\ Stopping /\ StopIsQuiet /\ Connected /\ Finished

Distinct(s) == \A i, j \in 1 .. Len(s) : s[i] = s[j] => i = j

(* A task that was added is in one place: reported, in a worker's hands or *)
(* in the queue of its type.                                               *)
Placed(a, w, h, r) ==
    /\ Distinct(a) /\ Distinct(r) /\ \A q \in Queues : Distinct(w[q])
    /\ Elements(r) \subseteq Elements(a)
    /\ \A q \in Queues : \A t \in Elements(w[q]) :
         TypeOf[t] = q /\ t \in Elements(a) /\ t \notin Elements(r)
    /\ \A th \in Threads : h[th] # None =>
         /\ TypeOf[h[th]] = QueueOf[th]
         /\ h[th] \in Elements(a) /\ h[th] \notin Elements(r)
         /\ h[th] \notin Elements(w[QueueOf[th]])
         /\ \A other \in Threads \ {th} : h[other] # h[th]
    /\ \A t \in Elements(a) :
         \/ t \in Elements(r) \/ t \in Elements(w[TypeOf[t]])
         \/ \E th \in Threads : h[th] = t

(* Of two tasks of a type with one worker, the one added first is ahead.   *)
Ahead(a, i, j) == i < j /\ TypeOf[a[i]] = TypeOf[a[j]] /\ TypeOf[a[j]] # Normal

Ordered(a, w, h, r) ==
    \A i, j \in 1 .. Len(a) : Ahead(a, i, j) =>
        /\ \A n \in 1 .. Len(r) : r[n] = a[j] => \E m \in 1 .. n - 1 : r[m] = a[i]
        /\ \A th \in Threads : h[th] = a[j] => a[i] \in Elements(r)
        /\ \A n \in 1 .. Len(w[TypeOf[a[j]]]) : w[TypeOf[a[j]]][n] = a[j] =>
             \/ a[i] \in Elements(r) \/ \E th \in Threads : h[th] = a[i]
             \/ \E m \in 1 .. n - 1 : w[TypeOf[a[j]]][m] = a[i]

TaskInv == Placed(added, _works, held, Reported) /\ Ordered(added, _works, held, Reported)

-----------------------------------------------------------------------------
(* Append adds one element to a sequence of results or tasks.              *)
LEMMA ElementsAppend ==
    ASSUME NEW S, NEW s \in Seq(S), NEW x \in S
    PROVE  Elements(Append(s, x)) = Elements(s) \cup {x}
<1>1. /\ Len(Append(s, x)) = Len(s) + 1 /\ Len(s) \in Nat
      /\ \A i \in 1 .. Len(s) : Append(s, x)[i] = s[i]
      /\ Append(s, x)[Len(s) + 1] = x
  BY AppendProperties, LenProperties
<1>2. 1 .. Len(s) + 1 = (1 .. Len(s)) \cup {Len(s) + 1}
  BY <1>1
<1> QED  BY <1>1, <1>2 DEF Elements

(* A sequence without repetitions has none after a new element is appended.*)
LEMMA DistinctAppend ==
    ASSUME NEW S, NEW s \in Seq(S), NEW x \in S, Distinct(s), x \notin Elements(s)
    PROVE  Distinct(Append(s, x))
<1>1. /\ Len(Append(s, x)) = Len(s) + 1 /\ Len(s) \in Nat
      /\ \A i \in 1 .. Len(s) : Append(s, x)[i] = s[i]
      /\ Append(s, x)[Len(s) + 1] = x
  BY AppendProperties, LenProperties
<1>2. \A i \in 1 .. Len(s) : s[i] # x
  BY DEF Elements
<1> QED  BY <1>1, <1>2 DEF Distinct

(* _works[q].pop(): the head goes, every other task moves one place up.    *)
LEMMA TakingHead ==
    ASSUME NEW S, NEW s \in Seq(S), s # <<>>
    PROVE  /\ Head(s) \in S /\ Tail(s) \in Seq(S) /\ Head(s) = s[1]
           /\ Len(s) \in Nat \ {0} /\ Len(Tail(s)) = Len(s) - 1
           /\ \A i \in 1 .. Len(Tail(s)) : Tail(s)[i] = s[i + 1]
           /\ Elements(s) = Elements(Tail(s)) \cup {Head(s)}
           /\ Distinct(s) => Distinct(Tail(s)) /\ Head(s) \notin Elements(Tail(s))
<1>1. /\ Head(s) \in S /\ Tail(s) \in Seq(S) /\ Head(s) = s[1]
      /\ Len(s) \in Nat \ {0} /\ Len(Tail(s)) = Len(s) - 1
      /\ \A i \in 1 .. Len(Tail(s)) : Tail(s)[i] = s[i + 1]
  BY HeadTailProperties, EmptySeq
<1>2. \A i \in 1 .. Len(s) : i = 1 \/ (i - 1 \in 1 .. Len(Tail(s)) /\ s[i] = Tail(s)[i - 1])
  BY <1>1
<1>3. \A i \in 1 .. Len(Tail(s)) : i + 1 \in 1 .. Len(s)
  BY <1>1
<1>4. 1 \in 1 .. Len(s)
  BY <1>1
<1>5. Elements(s) = Elements(Tail(s)) \cup {Head(s)}
  <2>1. \A i \in 1 .. Len(s) : s[i] \in Elements(Tail(s)) \cup {Head(s)}
    BY <1>1, <1>2 DEF Elements
  <2>2. \A i \in 1 .. Len(Tail(s)) : Tail(s)[i] \in Elements(s)
    BY <1>1, <1>3 DEF Elements
  <2>3. Head(s) \in Elements(s)
    BY <1>1, <1>4 DEF Elements
  <2> QED  BY <2>1, <2>2, <2>3 DEF Elements
<1>6. ASSUME Distinct(s)
      PROVE  Distinct(Tail(s)) /\ Head(s) \notin Elements(Tail(s))
  BY <1>1, <1>3, <1>4, <1>6 DEF Distinct, Elements
<1> QED  BY <1>1, <1>5, <1>6

-----------------------------------------------------------------------------
(* Adding a task, at the end of the queue of its type, keeps the order.    *)
LEMMA AddKeeps ==
    ASSUME NEW a \in Seq(Tasks), NEW w \in [Queues -> Seq(Tasks)],
           NEW h \in [Threads -> Tasks \cup {None}], NEW r \in Seq(Tasks),
           Placed(a, w, h, r), Ordered(a, w, h, r),
           NEW t \in Tasks, t \notin Elements(a)
    PROVE  LET b == Append(a, t)
               v == [w EXCEPT ![TypeOf[t]] = Append(@, t)]
           IN  Placed(b, v, h, r) /\ Ordered(b, v, h, r)
<1> DEFINE b == Append(a, t)
           q == TypeOf[t]
           v == [w EXCEPT ![q] = Append(@, t)]
<1> USE DatabaseAssumption
<1>1. q \in Queues /\ w[q] \in Seq(Tasks) /\ v \in [Queues -> Seq(Tasks)]
  OBVIOUS
<1>2. /\ Elements(b) = Elements(a) \cup {t}
      /\ Len(b) = Len(a) + 1 /\ Len(a) \in Nat
      /\ \A i \in 1 .. Len(a) : b[i] = a[i] /\ a[i] \in Tasks /\ a[i] \in Elements(a)
      /\ b[Len(a) + 1] = t
  <2>1. \A i \in 1 .. Len(a) : a[i] \in Tasks
    BY ElementOfSeq
  <2> QED  BY <2>1, ElementsAppend, AppendProperties, LenProperties DEF Elements
<1>3. /\ v[q] = Append(w[q], t) /\ Elements(v[q]) = Elements(w[q]) \cup {t}
      /\ Len(v[q]) = Len(w[q]) + 1 /\ Len(w[q]) \in Nat
      /\ \A n \in 1 .. Len(w[q]) : v[q][n] = w[q][n]
      /\ v[q][Len(w[q]) + 1] = t
  BY <1>1, ElementsAppend, AppendProperties, LenProperties
<1>4. \A p \in Queues \ {q} : v[p] = w[p]
  OBVIOUS
<1>5. /\ t \notin Elements(r) /\ \A p \in Queues : t \notin Elements(w[p])
      /\ \A th \in Threads : h[th] # t
  BY DEF Placed
<1>6. Placed(b, v, h, r)
  <2>1. Distinct(b) /\ Distinct(r)
    BY DistinctAppend DEF Placed
  <2>2. ASSUME NEW p \in Queues PROVE Distinct(v[p])
    <3>1. CASE p = q  BY <3>1, <1>1, <1>3, <1>5, DistinctAppend DEF Placed
    <3>2. CASE p # q  BY <3>2, <1>4 DEF Placed
    <3> QED  BY <3>1, <3>2
  <2> HIDE DEF b, v
  <2>3. ASSUME NEW p \in Queues
        PROVE  Elements(v[p]) = Elements(w[p]) \cup (IF p = q THEN {t} ELSE {})
    <3>1. CASE p = q  BY ONLY <3>1, <1>3
    <3>2. CASE p # q  BY ONLY <3>2, <2>3, <1>4
    <3> QED  BY <3>1, <3>2
  <2>4. Elements(r) \subseteq Elements(b)
    BY <1>2 DEF Placed
  <2>5. \A p \in Queues : \A x \in Elements(v[p]) :
          TypeOf[x] = p /\ x \in Elements(b) /\ x \notin Elements(r)
    BY <1>2, <1>5, <2>3 DEF Placed
  <2>6. ASSUME NEW th \in Threads, h[th] # None
        PROVE  /\ TypeOf[h[th]] = QueueOf[th]
               /\ h[th] \in Elements(b) /\ h[th] \notin Elements(r)
               /\ h[th] \notin Elements(v[QueueOf[th]])
               /\ \A other \in Threads \ {th} : h[other] # h[th]
    BY <2>6, <1>2, <1>5, <2>3 DEF Placed
  <2>7. ASSUME NEW x \in Elements(b)
        PROVE  \/ x \in Elements(r) \/ x \in Elements(v[TypeOf[x]])
               \/ \E th \in Threads : h[th] = x
    <3>1. CASE x = t  BY <3>1, <1>1, <2>3
    <3>2. CASE x \in Elements(a)
      <4>1. TypeOf[x] \in Queues
        BY <3>2, <1>2 DEF Elements
      <4>2. \/ x \in Elements(r) \/ x \in Elements(w[TypeOf[x]])
            \/ \E th \in Threads : h[th] = x
        BY <3>2 DEF Placed
      <4> QED  BY <4>1, <4>2, <2>3
    <3> QED  BY <3>1, <3>2, <1>2
  <2> QED  BY <2>1, <2>2, <2>4, <2>5, <2>6, <2>7 DEF Placed
<1>7. Ordered(b, v, h, r)
  <2> SUFFICES ASSUME NEW i \in 1 .. Len(b), NEW j \in 1 .. Len(b), Ahead(b, i, j)
               PROVE
        /\ \A n \in 1 .. Len(r) : r[n] = b[j] => \E m \in 1 .. n - 1 : r[m] = b[i]
        /\ \A th \in Threads : h[th] = b[j] => b[i] \in Elements(r)
        /\ \A n \in 1 .. Len(v[TypeOf[b[j]]]) : v[TypeOf[b[j]]][n] = b[j] =>
             \/ b[i] \in Elements(r) \/ \E th \in Threads : h[th] = b[i]
             \/ \E m \in 1 .. n - 1 : v[TypeOf[b[j]]][m] = b[i]
    BY DEF Ordered
  <2> HIDE DEF b, v
  <2>1. i \in 1 .. Len(a) /\ b[i] = a[i] /\ i < j
    BY <1>2 DEF Ahead
  <2>2. CASE j = Len(a) + 1
    <3>1. b[j] = t /\ TypeOf[a[i]] = q
      BY <2>1, <2>2, <1>2 DEF Ahead
    <3>2. \A n \in 1 .. Len(r) : r[n] # t
      BY <1>5 DEF Elements
    <3>3. \/ a[i] \in Elements(r) \/ a[i] \in Elements(w[q])
          \/ \E th \in Threads : h[th] = a[i]
      BY <2>1, <3>1, <1>2 DEF Placed
    <3>4. ASSUME a[i] \in Elements(w[q]), NEW n \in 1 .. Len(v[q]), v[q][n] = t
          PROVE  \E m \in 1 .. n - 1 : v[q][m] = a[i]
      <4>1. PICK m \in 1 .. Len(w[q]) : w[q][m] = a[i]
        BY <3>4 DEF Elements
      <4>2. \A k \in 1 .. Len(w[q]) : w[q][k] # t
        <5>1. \A k \in 1 .. Len(w[q]) : w[q][k] \in Elements(w[q])
          BY DEF Elements
        <5> QED  BY <5>1, <1>1, <1>5
      <4>3. n = Len(w[q]) + 1
        <5>1. n \in 1 .. Len(w[q]) + 1 /\ Len(w[q]) \in Nat
          BY <1>3
        <5>2. n \notin 1 .. Len(w[q])
          BY <3>4, <4>2, <1>3
        <5>3. \A len \in Nat : \A k \in 1 .. len + 1 : k \notin 1 .. len => k = len + 1
          BY ONLY TRUE
        <5> HIDE DEF q
        <5> QED  BY ONLY <5>1, <5>2, <5>3
      <4>4. m \in 1 .. n - 1
        BY ONLY <4>3, <1>3
      <4>5. v[q][m] = a[i]
        BY ONLY <4>1, <1>3
      <4> QED  BY ONLY <4>4, <4>5
    <3>5. ASSUME NEW n \in 1 .. Len(v[q]), v[q][n] = t
          PROVE  \/ a[i] \in Elements(r) \/ \E th \in Threads : h[th] = a[i]
                 \/ \E m \in 1 .. n - 1 : v[q][m] = a[i]
      BY <3>3, <3>4, <3>5
    <3> QED  BY ONLY <2>1, <3>1, <3>2, <3>5, <1>5 DEF q
  <2>3. CASE j \in 1 .. Len(a)
    <3>1. b[j] = a[j] /\ Ahead(a, i, j)
      BY <2>1, <2>3, <1>2 DEF Ahead
    <3>2. /\ \A n \in 1 .. Len(r) : r[n] = a[j] => \E m \in 1 .. n - 1 : r[m] = a[i]
          /\ \A th \in Threads : h[th] = a[j] => a[i] \in Elements(r)
          /\ \A n \in 1 .. Len(w[TypeOf[a[j]]]) : w[TypeOf[a[j]]][n] = a[j] =>
               \/ a[i] \in Elements(r) \/ \E th \in Threads : h[th] = a[i]
               \/ \E m \in 1 .. n - 1 : w[TypeOf[a[j]]][m] = a[i]
      BY <2>1, <2>3, <3>1 DEF Ordered
    <3> DEFINE p == TypeOf[a[j]]
    <3>3. p \in Queues /\ w[p] \in Seq(Tasks) /\ Len(w[p]) \in Nat
      BY <2>3, <1>2, LenProperties
    <3>4. ASSUME NEW n \in 1 .. Len(v[p]), v[p][n] = a[j]
          PROVE  \/ a[i] \in Elements(r) \/ \E th \in Threads : h[th] = a[i]
                 \/ \E m \in 1 .. n - 1 : v[p][m] = a[i]
      <4>1. n \in 1 .. Len(w[p]) /\ w[p][n] = a[j]
        <5>1. CASE p = q
          <6>1. a[j] # t
            BY <2>3, <1>2
          <6> QED  BY <3>4, <5>1, <6>1, <1>3
        <5>2. CASE p # q  BY <3>3, <3>4, <5>2, <1>4
        <5> QED  BY <5>1, <5>2
      <4>2. \A m \in 1 .. n - 1 : v[p][m] = w[p][m]
        <5>1. CASE p = q  BY <4>1, <5>1, <1>3
        <5>2. CASE p # q  BY <3>3, <5>2, <1>4
        <5> QED  BY <5>1, <5>2
      <4> QED  BY <3>2, <4>1, <4>2
    <3> QED  BY <2>1, <3>1, <3>2, <3>4
  <2>4. j = Len(a) + 1 \/ j \in 1 .. Len(a)
    <3>1. Len(b) = Len(a) + 1 /\ Len(a) \in Nat /\ j \in 1 .. Len(b)
      BY <1>2
    <3> QED  BY ONLY <3>1
  <2> QED  BY <2>2, <2>3, <2>4
<1> QED  BY <1>6, <1>7

(* An idle worker takes the head of its queue: of a type with one worker,  *)
(* everything ahead of it is reported by then.                             *)
LEMMA TakeKeeps ==
    ASSUME NEW a \in Seq(Tasks), NEW w \in [Queues -> Seq(Tasks)],
           NEW h \in [Threads -> Tasks \cup {None}], NEW r \in Seq(Tasks),
           Placed(a, w, h, r), Ordered(a, w, h, r),
           NEW th \in Threads, h[th] = None, w[QueueOf[th]] # <<>>
    PROVE  LET g == [h EXCEPT ![th] = Head(w[QueueOf[th]])]
               v == [w EXCEPT ![QueueOf[th]] = Tail(@)]
           IN  Placed(a, v, g, r) /\ Ordered(a, v, g, r)
<1> DEFINE q == QueueOf[th]
           x == Head(w[q])
           g == [h EXCEPT ![th] = x]
           v == [w EXCEPT ![q] = Tail(@)]
<1> USE DatabaseAssumption
<1>1. q \in Queues /\ w[q] \in Seq(Tasks) /\ w[q] # <<>>
  OBVIOUS
<1>2. /\ x \in Tasks /\ Tail(w[q]) \in Seq(Tasks) /\ x = w[q][1]
      /\ Len(w[q]) \in Nat \ {0} /\ Len(Tail(w[q])) = Len(w[q]) - 1
      /\ \A i \in 1 .. Len(Tail(w[q])) : Tail(w[q])[i] = w[q][i + 1]
      /\ Elements(w[q]) = Elements(Tail(w[q])) \cup {x}
      /\ Distinct(w[q]) => Distinct(Tail(w[q])) /\ x \notin Elements(Tail(w[q]))
  BY <1>1, TakingHead
<1>3. Distinct(w[q])
  BY <1>1 DEF Placed
<1>4. v[q] = Tail(w[q]) /\ \A p \in Queues \ {q} : v[p] = w[p]
  BY <1>1
<1>5. /\ g[th] = x /\ x # None /\ \A o \in Threads \ {th} : g[o] = h[o]
  BY <1>2
<1>6. /\ TypeOf[x] = q /\ x \in Elements(a) /\ x \notin Elements(r)
      /\ x \in Elements(w[q])
  BY <1>1, <1>2 DEF Placed
<1>7. \A o \in Threads : h[o] # x
  <2> SUFFICES ASSUME NEW o \in Threads, h[o] = x PROVE FALSE
    OBVIOUS
  <2>1. TypeOf[x] = QueueOf[o] /\ x \notin Elements(w[QueueOf[o]])
    BY <1>5 DEF Placed
  <2> QED  BY <2>1, <1>6
<1> HIDE DEF x, g, v
<1>8. Placed(a, v, g, r)
  <2>1. Distinct(a) /\ Distinct(r) /\ Elements(r) \subseteq Elements(a)
    BY DEF Placed
  <2>2. \A p \in Queues : Distinct(v[p])
    BY <1>2, <1>3, <1>4 DEF Placed
  <2>3. \A p \in Queues : Elements(v[p]) = Elements(w[p]) \ (IF p = q THEN {x} ELSE {})
    BY <1>2, <1>3, <1>4
  <2>4. \A p \in Queues : \A t \in Elements(v[p]) :
          TypeOf[t] = p /\ t \in Elements(a) /\ t \notin Elements(r)
    BY <2>3 DEF Placed
  <2>5. ASSUME NEW o \in Threads, g[o] # None
        PROVE  /\ TypeOf[g[o]] = QueueOf[o]
               /\ g[o] \in Elements(a) /\ g[o] \notin Elements(r)
               /\ g[o] \notin Elements(v[QueueOf[o]])
               /\ \A other \in Threads \ {o} : g[other] # g[o]
    <3>1. CASE o = th
      BY <3>1, <1>1, <1>5, <1>6, <1>7, <2>3
    <3>2. CASE o # th
      <4>1. g[o] = h[o] /\ h[o] # None /\ QueueOf[o] \in Queues
        BY <2>5, <3>2, <1>5
      <4>2. /\ TypeOf[h[o]] = QueueOf[o]
            /\ h[o] \in Elements(a) /\ h[o] \notin Elements(r)
            /\ h[o] \notin Elements(w[QueueOf[o]])
            /\ \A other \in Threads \ {o} : h[other] # h[o]
        BY <4>1 DEF Placed
      <4> QED  BY <4>1, <4>2, <1>5, <1>7, <2>3
    <3> QED  BY <3>1, <3>2
  <2>6. ASSUME NEW t \in Elements(a)
        PROVE  \/ t \in Elements(r) \/ t \in Elements(v[TypeOf[t]])
               \/ \E o \in Threads : g[o] = t
    <3>1. CASE t = x  BY <3>1, <1>5
    <3>2. CASE t # x
      <4>1. \/ t \in Elements(r) \/ t \in Elements(w[TypeOf[t]])
            \/ \E o \in Threads : h[o] = t
        BY DEF Placed
      <4>2. t \in Tasks /\ TypeOf[t] \in Queues
        BY ElementOfSeq DEF Elements
      <4>3. ASSUME NEW o \in Threads, h[o] = t PROVE \E k \in Threads : g[k] = t
        <5>1. o # th
          BY <4>2, <4>3
        <5> QED  BY <4>3, <5>1, <1>5
      <4> QED  BY <3>2, <4>1, <4>2, <4>3, <2>3
    <3> QED  BY <3>1, <3>2
  <2> QED  BY <2>1, <2>2, <2>4, <2>5, <2>6 DEF Placed
<1>9. Ordered(a, v, g, r)
  <2> SUFFICES ASSUME NEW i \in 1 .. Len(a), NEW j \in 1 .. Len(a), Ahead(a, i, j)
               PROVE
        /\ \A n \in 1 .. Len(r) : r[n] = a[j] => \E m \in 1 .. n - 1 : r[m] = a[i]
        /\ \A o \in Threads : g[o] = a[j] => a[i] \in Elements(r)
        /\ \A n \in 1 .. Len(v[TypeOf[a[j]]]) : v[TypeOf[a[j]]][n] = a[j] =>
             \/ a[i] \in Elements(r) \/ \E o \in Threads : g[o] = a[i]
             \/ \E m \in 1 .. n - 1 : v[TypeOf[a[j]]][m] = a[i]
    BY DEF Ordered
  <2> DEFINE p == TypeOf[a[j]]
  <2>1. /\ \A n \in 1 .. Len(r) : r[n] = a[j] => \E m \in 1 .. n - 1 : r[m] = a[i]
        /\ \A o \in Threads : h[o] = a[j] => a[i] \in Elements(r)
        /\ \A n \in 1 .. Len(w[p]) : w[p][n] = a[j] =>
             \/ a[i] \in Elements(r) \/ \E o \in Threads : h[o] = a[i]
             \/ \E m \in 1 .. n - 1 : w[p][m] = a[i]
    BY DEF Ordered
  <2>2. a[i] \in Tasks /\ a[j] \in Tasks /\ p \in Queues /\ p # Normal /\ TypeOf[a[i]] = p
    BY ElementOfSeq DEF Ahead
  <2>3. \A o \in Threads : h[o] = a[i] => g[o] = a[i]
    BY <2>2, <1>5
  <2>4. ASSUME x = a[j] PROVE a[i] \in Elements(r)
    <3>1. p = q /\ 1 \in 1 .. Len(w[p]) /\ w[p][1] = a[j]
      BY <2>4, <1>2, <1>6
    <3>2. a[i] \in Elements(r) \/ \E o \in Threads : h[o] = a[i]
      BY <2>1, <3>1
    <3>3. ASSUME NEW o \in Threads, h[o] = a[i] PROVE FALSE
      <4>1. h[o] # None
        BY <3>3, <2>2
      <4>2. QueueOf[o] = q
        BY <3>1, <3>3, <2>2, <4>1 DEF Placed
      <4>3. o = th
        BY <4>2, <3>1, <2>2
      <4> QED  BY <3>3, <4>1, <4>3
    <3> QED  BY <3>2, <3>3
  <2>5. \A o \in Threads : g[o] = a[j] => a[i] \in Elements(r)
    BY <2>1, <2>4, <1>5
  <2>6. ASSUME NEW n \in 1 .. Len(v[p]), v[p][n] = a[j]
        PROVE  \/ a[i] \in Elements(r) \/ \E o \in Threads : g[o] = a[i]
               \/ \E m \in 1 .. n - 1 : v[p][m] = a[i]
    <3>1. CASE p # q
      <4>1. v[p] = w[p]
        BY <2>2, <3>1, <1>4
      <4>2. n \in 1 .. Len(w[p]) /\ w[p][n] = a[j]
        BY <2>6, <4>1
      <4>3. \/ a[i] \in Elements(r) \/ \E o \in Threads : h[o] = a[i]
            \/ \E m \in 1 .. n - 1 : w[p][m] = a[i]
        BY <2>1, <4>2
      <4> HIDE DEF p
      <4> QED  BY <2>3, <4>1, <4>3
    <3>2. CASE p = q
      <4>1. n + 1 \in 1 .. Len(w[p]) /\ w[p][n + 1] = a[j]
        <5>1. n \in 1 .. Len(Tail(w[q])) /\ Tail(w[q])[n] = a[j]
          BY <2>6, <3>2, <1>4
        <5>2. n + 1 \in 1 .. Len(w[q])
          <6>1. Len(w[q]) \in Nat /\ Len(Tail(w[q])) = Len(w[q]) - 1
            BY <1>2
          <6>2. \A k \in Nat : \A i2 \in 1 .. k - 1 : i2 + 1 \in 1 .. k
            OBVIOUS
          <6>3. n \in 1 .. Len(w[q]) - 1
            BY <5>1, <6>1
          <6> QED  BY <6>1, <6>2, <6>3
        <5> QED  BY <3>2, <5>1, <5>2, <1>2
      <4>2. ASSUME NEW m \in 1 .. (n + 1) - 1, w[p][m] = a[i]
            PROVE  (\E o \in Threads : g[o] = a[i]) \/ \E k \in 1 .. n - 1 : v[p][k] = a[i]
        <5>1. CASE m = 1  BY <4>2, <5>1, <3>2, <1>2, <1>5
        <5>2. CASE m # 1
          <6>1. m - 1 \in 1 .. n - 1 /\ m - 1 \in 1 .. Len(Tail(w[q]))
            BY <2>6, <3>2, <5>2, <1>2, <1>4
          <6>2. v[p][m - 1] = w[p][m]
            BY <3>2, <6>1, <1>2, <1>4
          <6> QED  BY <4>2, <6>1, <6>2
        <5> QED  BY <5>1, <5>2
      <4>3. \/ a[i] \in Elements(r) \/ \E o \in Threads : h[o] = a[i]
            \/ \E m \in 1 .. (n + 1) - 1 : w[p][m] = a[i]
        BY <2>1, <4>1
      <4> QED  BY <2>3, <4>2, <4>3
    <3> QED  BY <3>1, <3>2
  <2> QED  BY <2>1, <2>5, <2>6
<1> QED  BY <1>8, <1>9 DEF g, v, x

(* A worker reports its task: everything ahead of it is reported already.  *)
LEMMA ReportKeeps ==
    ASSUME NEW a \in Seq(Tasks), NEW w \in [Queues -> Seq(Tasks)],
           NEW h \in [Threads -> Tasks \cup {None}], NEW r \in Seq(Tasks),
           Placed(a, w, h, r), Ordered(a, w, h, r),
           NEW th \in Threads, h[th] # None
    PROVE  LET g == [h EXCEPT ![th] = None]
               s == Append(r, h[th])
           IN  Placed(a, w, g, s) /\ Ordered(a, w, g, s)
<1> DEFINE x == h[th]
           g == [h EXCEPT ![th] = None]
           s == Append(r, x)
<1> USE DatabaseAssumption
<1>1. x \in Tasks
  OBVIOUS
<1>2. /\ s \in Seq(Tasks) /\ Len(s) = Len(r) + 1 /\ Len(r) \in Nat
      /\ \A n \in 1 .. Len(r) : s[n] = r[n]
      /\ s[Len(r) + 1] = x
      /\ Elements(s) = Elements(r) \cup {x}
  BY <1>1, AppendProperties, LenProperties, ElementsAppend
<1>3. g[th] = None /\ \A o \in Threads \ {th} : g[o] = h[o]
  OBVIOUS
<1>4. /\ TypeOf[x] = QueueOf[th] /\ x \in Elements(a) /\ x \notin Elements(r)
      /\ x \notin Elements(w[QueueOf[th]])
      /\ \A o \in Threads \ {th} : h[o] # x
  BY DEF Placed
<1>5. Distinct(s)
  BY <1>1, <1>4, DistinctAppend DEF Placed
<1> HIDE DEF x, g, s
<1>6. Placed(a, w, g, s)
  <2>1. /\ Distinct(a) /\ \A q \in Queues : Distinct(w[q])
        /\ Elements(s) \subseteq Elements(a)
    BY <1>2, <1>4 DEF Placed
  <2>2. \A q \in Queues : \A t \in Elements(w[q]) :
          TypeOf[t] = q /\ t \in Elements(a) /\ t \notin Elements(s)
    BY <1>2, <1>4 DEF Placed
  <2>3. ASSUME NEW o \in Threads, g[o] # None
        PROVE  /\ TypeOf[g[o]] = QueueOf[o]
               /\ g[o] \in Elements(a) /\ g[o] \notin Elements(s)
               /\ g[o] \notin Elements(w[QueueOf[o]])
               /\ \A other \in Threads \ {o} : g[other] # g[o]
    <3>1. o # th /\ g[o] = h[o] /\ h[o] # None
      BY <2>3, <1>3
    <3>2. /\ TypeOf[h[o]] = QueueOf[o]
          /\ h[o] \in Elements(a) /\ h[o] \notin Elements(r)
          /\ h[o] \notin Elements(w[QueueOf[o]])
          /\ \A other \in Threads \ {o} : h[other] # h[o]
      BY <3>1 DEF Placed
    <3> QED  BY <3>1, <3>2, <1>2, <1>3, <1>4
  <2>4. ASSUME NEW t \in Elements(a)
        PROVE  \/ t \in Elements(s) \/ t \in Elements(w[TypeOf[t]])
               \/ \E o \in Threads : g[o] = t
    <3>1. \/ t \in Elements(r) \/ t \in Elements(w[TypeOf[t]])
          \/ \E o \in Threads : h[o] = t
      BY DEF Placed
    <3>2. ASSUME NEW o \in Threads, h[o] = t
          PROVE  t \in Elements(s) \/ \E k \in Threads : g[k] = t
      BY <3>2, <1>2, <1>3 DEF x
    <3> QED  BY <3>1, <3>2, <1>2
  <2> QED  BY <2>1, <2>2, <2>3, <2>4, <1>5 DEF Placed
<1>7. Ordered(a, w, g, s)
  <2> SUFFICES ASSUME NEW i \in 1 .. Len(a), NEW j \in 1 .. Len(a), Ahead(a, i, j)
               PROVE
        /\ \A n \in 1 .. Len(s) : s[n] = a[j] => \E m \in 1 .. n - 1 : s[m] = a[i]
        /\ \A o \in Threads : g[o] = a[j] => a[i] \in Elements(s)
        /\ \A n \in 1 .. Len(w[TypeOf[a[j]]]) : w[TypeOf[a[j]]][n] = a[j] =>
             \/ a[i] \in Elements(s) \/ \E o \in Threads : g[o] = a[i]
             \/ \E m \in 1 .. n - 1 : w[TypeOf[a[j]]][m] = a[i]
    BY DEF Ordered
  <2> DEFINE p == TypeOf[a[j]]
  <2>1. /\ \A n \in 1 .. Len(r) : r[n] = a[j] => \E m \in 1 .. n - 1 : r[m] = a[i]
        /\ \A o \in Threads : h[o] = a[j] => a[i] \in Elements(r)
        /\ \A n \in 1 .. Len(w[p]) : w[p][n] = a[j] =>
             \/ a[i] \in Elements(r) \/ \E o \in Threads : h[o] = a[i]
             \/ \E m \in 1 .. n - 1 : w[p][m] = a[i]
    BY DEF Ordered
  <2>2. a[i] \in Tasks /\ a[j] \in Tasks
    BY ElementOfSeq
  <2>3. ASSUME NEW n \in 1 .. Len(s), s[n] = a[j]
        PROVE  \E m \in 1 .. n - 1 : s[m] = a[i]
    <3>1. CASE n \in 1 .. Len(r)
      <4>1. PICK m \in 1 .. n - 1 : r[m] = a[i]
        BY <2>1, <2>3, <3>1, <1>2
      <4>2. m \in 1 .. Len(r)
        BY <3>1, <1>2
      <4> QED  BY <4>1, <4>2, <1>2
    <3>2. CASE n = Len(r) + 1
      <4>1. h[th] = a[j]
        BY <2>3, <3>2, <1>2 DEF x
      <4>2. a[i] \in Elements(r)
        BY <2>1, <4>1
      <4>3. PICK m \in 1 .. Len(r) : r[m] = a[i]
        BY <4>2 DEF Elements
      <4> QED  BY <3>2, <4>3, <1>2
    <3>3. n \in 1 .. Len(r) \/ n = Len(r) + 1
      BY <1>2
    <3> QED  BY <3>1, <3>2, <3>3
  <2>4. \A o \in Threads : g[o] = a[j] => a[i] \in Elements(s)
    <3>1. \A o \in Threads : g[o] = a[j] => h[o] = a[j]
      BY <2>2, <1>3
    <3> QED  BY <3>1, <2>1, <1>2
  <2>5. \A o \in Threads : h[o] = a[i] => a[i] \in Elements(s) \/ g[o] = a[i]
    BY <1>2, <1>3 DEF x
  <2>6. ASSUME NEW n \in 1 .. Len(w[p]), w[p][n] = a[j]
        PROVE  \/ a[i] \in Elements(s) \/ \E o \in Threads : g[o] = a[i]
               \/ \E m \in 1 .. n - 1 : w[p][m] = a[i]
    <3>1. \/ a[i] \in Elements(r) \/ \E o \in Threads : h[o] = a[i]
          \/ \E m \in 1 .. n - 1 : w[p][m] = a[i]
      BY <2>1, <2>6
    <3> HIDE DEF p
    <3> QED  BY <2>5, <3>1, <1>2
  <2> QED  BY <2>3, <2>4, <2>6
<1> QED  BY <1>6, <1>7 DEF g, s, x

-----------------------------------------------------------------------------
(* Every step keeps every variable in its type.                            *)
LEMMA TypeStep == IInv /\ [Next]_vars => TypeOK'
<1> SUFFICES ASSUME TypeOK, WorkerShape, Stopping, [Next]_vars PROVE TypeOK'
  BY DEF IInv
<1> USE DatabaseAssumption DEF TypeOK, threadVars, mainVars, logVars, goto
<1>1. CASE requestStop
  BY <1>1 DEF requestStop, InMainThread
<1>2. ASSUME NEW t \in Tasks, addTask(t) PROVE TypeOK'
  BY <1>2 DEF addTask, addThread, InMainThread
<1>3. ASSUME NEW t \in Tasks, refuseTask(t) PROVE TypeOK'
  BY <1>3 DEF refuseTask, InMainThread
<1>4. ASSUME NEW th \in Threads, workerLeaves(th) PROVE TypeOK'
  BY <1>4 DEF workerLeaves
<1>5. ASSUME NEW th \in Threads, workerLoops(th) PROVE TypeOK'
  BY <1>5 DEF workerLoops
<1>6. ASSUME NEW th \in Threads, realConnect(th) PROVE TypeOK'
  BY <1>6 DEF realConnect
<1>7. ASSUME NEW th \in Threads, connectStopped(th) PROVE TypeOK'
  BY <1>7 DEF connectStopped
<1>8. ASSUME NEW th \in Threads, workTaskKept(th) PROVE TypeOK'
  BY <1>8 DEF workTaskKept, Begin
<1>9. ASSUME NEW th \in Threads, getTask(th) PROVE TypeOK'
  <2>1. /\ Head(_works[QueueOf[th]]) \in Tasks
        /\ Tail(_works[QueueOf[th]]) \in Seq(Tasks)
    BY <1>9, HeadTailProperties DEF getTask
  <2> QED  BY <1>9, <2>1 DEF getTask
<1>10. ASSUME NEW th \in Threads, getTaskNone(th) PROVE TypeOK'
  BY <1>10 DEF getTaskNone, Fetching
<1>11. ASSUME NEW th \in Threads, storeTask(th) PROVE TypeOK'
  BY <1>11 DEF storeTask, Begin
<1>12. ASSUME NEW th \in Threads, queryDone(th) PROVE TypeOK'
  BY <1>12 DEF queryDone
<1>13. ASSUME NEW th \in Threads, queryError(th) PROVE TypeOK'
  BY <1>13 DEF queryError
<1>14. ASSUME NEW th \in Threads, queryUnfinished(th) PROVE TypeOK'
  <2>1. retries' \in 0 .. MaxRetries
    BY <1>14 DEF queryUnfinished
  <2> QED  BY <1>14, <2>1 DEF queryUnfinished
<1>15. ASSUME NEW th \in Threads, addDone(th) PROVE TypeOK'
  <2>1. _task[th] \in Tasks
    BY <1>15 DEF addDone, WorkerShape
  <2> QED  BY <1>15, <2>1 DEF addDone
<1>16. ASSUME NEW th \in Threads, clearTask(th) PROVE TypeOK'
  BY <1>16 DEF clearTask
<1>17. CASE checkStop
  BY <1>17 DEF checkStop
<1>18. CASE checkThread
  <2>1. at' \in 1 .. ThreadCount + 1
    BY <1>18 DEF checkThread
  <2> QED  BY <1>18, <2>1 DEF checkThread, setStop
<1>19. CASE joinThread
  <2>1. at' \in 1 .. ThreadCount + 1
    BY <1>19 DEF joinThread, Stopping, Threads
  <2> QED  BY <1>19, <2>1 DEF joinThread
<1>20. CASE allJoined
  BY <1>20 DEF allJoined
<1>21. CASE takeResults
  <2>1. tem' \in Seq(Tasks) /\ _results' \in Seq(Tasks)
    <3>1. <<>> \in Seq(Tasks)
      BY EmptySeq
    <3>2. \/ tem' = _results /\ _results' = <<>>
          \/ tem' = tem /\ _results' = _results
      BY <1>21 DEF takeResults
    <3> QED  BY <3>1, <3>2
  <2> QED  BY <1>21, <2>1 DEF takeResults
<1>22. CASE execute
  <2>1. Head(tem) \in Tasks /\ Tail(tem) \in Seq(Tasks)
    BY <1>22, HeadTailProperties DEF execute
  <2> QED  BY <1>22, <2>1 DEF execute
<1>23. CASE executed
  BY <1>23 DEF executed
<1>24. CASE shutDown
  BY <1>24 DEF shutDown
<1>25. CASE Terminated \/ UNCHANGED vars
  BY <1>25 DEF Terminated, vars, threadVars, mainVars, logVars
<1> QED
  BY <1>1, <1>2, <1>3, <1>4, <1>5, <1>6, <1>7, <1>8, <1>9, <1>10, <1>11, <1>12,
     <1>13, <1>14, <1>15, <1>16, <1>17, <1>18, <1>19, <1>20, <1>21, <1>22, <1>23, <1>24, <1>25
     DEF Next, Client, Worker, MainLoop

(* What the steps of the main thread and of the workers do to each other.  *)
LEMMA ShapeStep == IInv /\ [Next]_vars => WorkerShape' /\ Delivering' /\ Connected' /\ Finished'
<1> SUFFICES ASSUME IInv, [Next]_vars
             PROVE  WorkerShape' /\ Delivering' /\ Connected' /\ Finished'
  OBVIOUS
<1> USE DatabaseAssumption
    DEF IInv, TypeOK, WorkerShape, Delivering, Connected, Finished,
        threadVars, mainVars, logVars, goto
<1>1. CASE requestStop
  BY <1>1 DEF requestStop, InMainThread
<1>2. ASSUME NEW t \in Tasks, addTask(t) PROVE WorkerShape' /\ Delivering' /\ Connected' /\ Finished'
  BY <1>2 DEF addTask, addThread, InMainThread, Started
<1>3. ASSUME NEW t \in Tasks, refuseTask(t) PROVE WorkerShape' /\ Delivering' /\ Connected' /\ Finished'
  BY <1>3 DEF refuseTask, InMainThread
<1>4. ASSUME NEW th \in Threads, workerLeaves(th) PROVE WorkerShape' /\ Delivering' /\ Connected' /\ Finished'
  BY <1>4 DEF workerLeaves
<1>5. ASSUME NEW th \in Threads, workerLoops(th) PROVE WorkerShape' /\ Delivering' /\ Connected' /\ Finished'
  BY <1>5 DEF workerLoops
<1>6. ASSUME NEW th \in Threads, realConnect(th) PROVE WorkerShape' /\ Delivering' /\ Connected' /\ Finished'
  BY <1>6 DEF realConnect
<1>7. ASSUME NEW th \in Threads, connectStopped(th) PROVE WorkerShape' /\ Delivering' /\ Connected' /\ Finished'
  BY <1>7 DEF connectStopped
<1>8. ASSUME NEW th \in Threads, workTaskKept(th) PROVE WorkerShape' /\ Delivering' /\ Connected' /\ Finished'
  BY <1>8 DEF workTaskKept, Begin
<1>9. ASSUME NEW th \in Threads, getTask(th) PROVE WorkerShape' /\ Delivering' /\ Connected' /\ Finished'
  <2>1. ~_stop[th]
    BY <1>9 DEF getTask, Stopping, QueuesEmpty
  <2>2. Head(_works[QueueOf[th]]) \in Tasks
    BY <1>9, HeadTailProperties DEF getTask
  <2> QED  BY <1>9, <2>1, <2>2 DEF getTask, Fetching
<1>10. ASSUME NEW th \in Threads, getTaskNone(th) PROVE WorkerShape' /\ Delivering' /\ Connected' /\ Finished'
  BY <1>10 DEF getTaskNone, Fetching
<1>11. ASSUME NEW th \in Threads, storeTask(th) PROVE WorkerShape' /\ Delivering' /\ Connected' /\ Finished'
  BY <1>11 DEF storeTask, Begin
<1>12. ASSUME NEW th \in Threads, queryDone(th) PROVE WorkerShape' /\ Delivering' /\ Connected' /\ Finished'
  BY <1>12 DEF queryDone
<1>13. ASSUME NEW th \in Threads, queryError(th) PROVE WorkerShape' /\ Delivering' /\ Connected' /\ Finished'
  BY <1>13 DEF queryError
<1>14. ASSUME NEW th \in Threads, queryUnfinished(th) PROVE WorkerShape' /\ Delivering' /\ Connected' /\ Finished'
  BY <1>14 DEF queryUnfinished
<1>15. ASSUME NEW th \in Threads, addDone(th) PROVE WorkerShape' /\ Delivering' /\ Connected' /\ Finished'
  BY <1>15 DEF addDone
<1>16. ASSUME NEW th \in Threads, clearTask(th) PROVE WorkerShape' /\ Delivering' /\ Connected' /\ Finished'
  BY <1>16 DEF clearTask
<1>17. CASE checkStop
  BY <1>17 DEF checkStop
<1>18. CASE checkThread
  <2>1. \A th \in Threads : _stop[th] => _stop'[th]
    <3>1. _stop' = _stop \/ _stop' = [_stop EXCEPT ![at] = TRUE]
      BY <1>18 DEF checkThread, setStop
    <3>2. ASSUME NEW th \in Threads, _stop[th], _stop' = [_stop EXCEPT ![at] = TRUE]
          PROVE  _stop'[th]
      <4>1. _stop'[th] = IF th = at THEN TRUE ELSE _stop[th]
        BY <3>2
      <4> QED  BY <3>2, <4>1, Zenon
    <3> QED  BY <3>1, <3>2
  <2>2. UNCHANGED <<pc, _task, popped, _connect, retries, tem>> /\ mpc # "deliver"
    BY <1>18 DEF checkThread
  <2> QED  BY <2>1, <2>2
<1>19. CASE joinThread
  BY <1>19 DEF joinThread
<1>20. CASE allJoined
  BY <1>20 DEF allJoined
<1>21. CASE takeResults
  BY <1>21 DEF takeResults
<1>22. CASE execute
  BY <1>22 DEF execute
<1>23. CASE executed
  BY <1>23 DEF executed
<1>24. CASE shutDown
  BY <1>24 DEF shutDown
<1>25. CASE Terminated \/ UNCHANGED vars
  BY <1>25 DEF Terminated, vars
<1> QED
  BY <1>1, <1>2, <1>3, <1>4, <1>5, <1>6, <1>7, <1>8, <1>9, <1>10, <1>11, <1>12,
     <1>13, <1>14, <1>15, <1>16, <1>17, <1>18, <1>19, <1>20, <1>21, <1>22, <1>23, <1>24, <1>25
     DEF Next, Client, Worker, MainLoop

(* The flags of a stop agree with what the workers may still do.           *)
LEMMA StopStep == IInv /\ [Next]_vars => Stopping' /\ StopIsQuiet'
<1> SUFFICES ASSUME IInv, [Next]_vars PROVE Stopping' /\ StopIsQuiet'
  OBVIOUS
<1> USE DatabaseAssumption
    DEF IInv, TypeOK, Stopping, StopIsQuiet, QueuesEmpty, threadVars, mainVars, logVars, goto
<1>1. CASE requestStop
  BY <1>1 DEF requestStop, InMainThread
<1>2. ASSUME NEW t \in Tasks, addTask(t) PROVE Stopping' /\ StopIsQuiet'
  BY <1>2 DEF addTask, addThread, InMainThread, Started
<1>3. ASSUME NEW t \in Tasks, refuseTask(t) PROVE Stopping' /\ StopIsQuiet'
  BY <1>3 DEF refuseTask, InMainThread
<1>4. ASSUME NEW th \in Threads, workerLeaves(th) PROVE Stopping' /\ StopIsQuiet'
  BY <1>4 DEF workerLeaves
<1>5. ASSUME NEW th \in Threads, workerLoops(th) PROVE Stopping' /\ StopIsQuiet'
  BY <1>5 DEF workerLoops
<1>6. ASSUME NEW th \in Threads, realConnect(th) PROVE Stopping' /\ StopIsQuiet'
  BY <1>6 DEF realConnect
<1>7. ASSUME NEW th \in Threads, connectStopped(th) PROVE Stopping' /\ StopIsQuiet'
  BY <1>7 DEF connectStopped
<1>8. ASSUME NEW th \in Threads, workTaskKept(th) PROVE Stopping' /\ StopIsQuiet'
  BY <1>8 DEF workTaskKept, Begin
<1>9. ASSUME NEW th \in Threads, getTask(th) PROVE Stopping' /\ StopIsQuiet'
  BY <1>9 DEF getTask, Fetching
<1>10. ASSUME NEW th \in Threads, getTaskNone(th) PROVE Stopping' /\ StopIsQuiet'
  BY <1>10 DEF getTaskNone, Fetching
<1>11. ASSUME NEW th \in Threads, storeTask(th) PROVE Stopping' /\ StopIsQuiet'
  BY <1>11 DEF storeTask, Begin
<1>12. ASSUME NEW th \in Threads, queryDone(th) PROVE Stopping' /\ StopIsQuiet'
  BY <1>12 DEF queryDone
<1>13. ASSUME NEW th \in Threads, queryError(th) PROVE Stopping' /\ StopIsQuiet'
  BY <1>13 DEF queryError
<1>14. ASSUME NEW th \in Threads, queryUnfinished(th) PROVE Stopping' /\ StopIsQuiet'
  BY <1>14 DEF queryUnfinished
<1>15. ASSUME NEW th \in Threads, addDone(th) PROVE Stopping' /\ StopIsQuiet'
  BY <1>15 DEF addDone
<1>16. ASSUME NEW th \in Threads, clearTask(th) PROVE Stopping' /\ StopIsQuiet'
  BY <1>16 DEF clearTask
<1>17. CASE checkStop
  <2>1. \A th \in Threads : ~(th < 1)
    BY DEF Threads
  <2> QED  BY <1>17, <2>1 DEF checkStop
<1>18. CASE checkThread
  <2>0. at \in Threads /\ mpc = "threads" /\ UNCHANGED <<_obj_state, _works, pc>>
    BY <1>18 DEF checkThread, Threads
  <2>1. CASE ~Started(at) /\ at' = at + 1 /\ UNCHANGED <<mpc, _stop>>
    <3>1. \A th \in Threads : th < at + 1 => th < at \/ th = at
      BY <2>0 DEF Threads
    <3> QED  BY <2>0, <2>1, <3>1 DEF Started
  <2>2. CASE _stop' = setStop(at) /\ mpc' = "join" /\ UNCHANGED at
    BY <2>0, <2>2 DEF setStop
  <2>3. CASE mpc' = "results" /\ UNCHANGED <<at, _stop>>
    BY <2>0, <2>3
  <2> QED  BY <1>18, <2>1, <2>2, <2>3 DEF checkThread
<1>19. CASE joinThread
  <2>1. \A th \in Threads : th < at + 1 => th < at \/ th = at
    BY DEF Threads
  <2> QED  BY <1>19, <2>1 DEF joinThread
<1>20. CASE allJoined
  <2>1. \A th \in Threads : th < at
    BY <1>20 DEF allJoined, Threads
  <2> QED  BY <1>20, <2>1 DEF allJoined
<1>21. CASE takeResults
  BY <1>21 DEF takeResults
<1>22. CASE execute
  BY <1>22 DEF execute
<1>23. CASE executed
  BY <1>23 DEF executed
<1>24. CASE shutDown
  BY <1>24 DEF shutDown
<1>25. CASE Terminated \/ UNCHANGED vars
  BY <1>25 DEF Terminated, vars
<1> QED
  BY <1>1, <1>2, <1>3, <1>4, <1>5, <1>6, <1>7, <1>8, <1>9, <1>10, <1>11, <1>12,
     <1>13, <1>14, <1>15, <1>16, <1>17, <1>18, <1>19, <1>20, <1>21, <1>22, <1>23, <1>24, <1>25
     DEF Next, Client, Worker, MainLoop

(* IInv holds in every reachable state of the database.                    *)
THEOREM Inductive == Spec => []IInv
<1>1. Init => IInv
  <2>1. <<>> \in Seq(Tasks)
    BY EmptySeq
  <2> QED
    BY <2>1, DatabaseAssumption
       DEF Init, IInv, TypeOK, WorkerShape, Delivering, Stopping, StopIsQuiet, Connected, Finished
<1>2. IInv /\ [Next]_vars => IInv'
  BY TypeStep, ShapeStep, StopStep DEF IInv
<1> QED
  BY <1>1, <1>2, PTL DEF Spec

-----------------------------------------------------------------------------
(* The results, as run() takes them and calls back, stay one sequence.     *)
LEMMA ReportedSame ==
    ASSUME NEW c \in Seq(Tasks), NEW m \in Seq(Tasks), NEW r \in Seq(Tasks)
    PROVE  /\ c \o m \o r \in Seq(Tasks)
           /\ c \o r \o <<>> = c \o <<>> \o r
           /\ m # <<>> => Append(c, Head(m)) \o Tail(m) \o r = c \o m \o r
           /\ \A x \in Tasks : c \o m \o Append(r, x) = Append(c \o m \o r, x)
<1>1. c \o m \in Seq(Tasks) /\ c \o m \o r \in Seq(Tasks)
  BY ConcatProperties
<1>2. c \o r \o <<>> = c \o <<>> \o r
  BY ConcatEmptySeq, ConcatProperties
<1>3. ASSUME m # <<>> PROVE Append(c, Head(m)) \o Tail(m) = c \o m
  BY <1>3, HeadTailProperties
<1>4. ASSUME NEW x \in Tasks PROVE c \o m \o Append(r, x) = Append(c \o m \o r, x)
  <2> DEFINE s == c \o m
  <2>1. s \in Seq(Tasks)
    BY <1>1
  <2> HIDE DEF s
  <2>2. s \o Append(r, x) = Append(s \o r, x)
    BY <2>1
  <2> QED  BY <2>2 DEF s
<1> QED  BY <1>1, <1>2, <1>3, <1>4

(* What TaskLife sees of the state has its type.                           *)
LEMMA BarType ==
    ASSUME TypeOK
    PROVE  /\ added \in Seq(Tasks) /\ _works \in [Queues -> Seq(Tasks)]
           /\ held \in [Threads -> Tasks \cup {None}] /\ Reported \in Seq(Tasks)
<1>1. \A th \in Threads : Held(th) \in Tasks \cup {None}
  BY DEF TypeOK, Held
<1>2. Reported \in Seq(Tasks)
  BY ReportedSame DEF TypeOK, Reported
<1> QED  BY <1>1, <1>2 DEF TypeOK, held

(* A step that leaves queues, workers and results alone as TaskLife sees   *)
(* them.                                                                   *)
Silent == UNCHANGED <<added, _works, held, Reported>>

(* Every step of the database is a step of TaskLife or a silent one.       *)
LEMMA StepSimulation ==
    ASSUME IInv, [Next]_vars
    PROVE  \/ \E t \in Tasks : L!Add(t)
           \/ \E th \in Threads : L!Take(th) \/ L!Report(th)
           \/ Silent
<1> USE DatabaseAssumption DEF threadVars, mainVars, logVars
<1>a. /\ called \in Seq(Tasks) /\ tem \in Seq(Tasks) /\ _results \in Seq(Tasks)
      /\ held \in [Threads -> Tasks \cup {None}]
      /\ \A th \in Threads : held[th] = Held(th)
  BY BarType DEF IInv, TypeOK, held
<1>b. ASSUME \A th \in Threads : Held(th)' = Held(th) PROVE held' = held
  BY <1>b DEF held
<1>c. ASSUME NEW th \in Threads, \A o \in Threads \ {th} : Held(o)' = Held(o),
             NEW x, Held(th)' = x
      PROVE  held' = [held EXCEPT ![th] = x]
  BY <1>c DEF held
<1>d. ASSUME UNCHANGED <<called, tem, _results>> PROVE Reported' = Reported
  BY <1>d DEF Reported
<1>1. CASE requestStop \/ \E t \in Tasks : refuseTask(t)
  <2>1. UNCHANGED <<added, _works, called, tem, _results, pc, _task, popped>>
    BY <1>1 DEF requestStop, refuseTask
  <2> QED  BY <2>1, <1>b, <1>d DEF Silent, Held
<1>2. ASSUME NEW t \in Tasks, addTask(t) PROVE L!Add(t)
  <2>1. \A th \in Threads : Held(th)' = Held(th)
    BY <1>2 DEF addTask, addThread, Started, Held, IInv, TypeOK, WorkerShape
  <2>2. UNCHANGED <<held, Reported>>
    BY <1>2, <2>1, <1>b, <1>d DEF addTask
  <2> QED  BY <1>2, <2>2 DEF addTask, Elements, L!Add
<1>3. ASSUME NEW th \in Threads,
             \/ workerLeaves(th) \/ workerLoops(th) \/ realConnect(th) \/ connectStopped(th)
             \/ workTaskKept(th) \/ queryDone(th) \/ queryError(th) \/ queryUnfinished(th)
      PROVE  Silent
  <2>1. /\ UNCHANGED <<added, _works, called, tem, _results, _task, popped>>
        /\ \E label \in {"exited", "work", "connect", "query", "top", "done", "error"} :
              pc' = [pc EXCEPT ![th] = label]
        /\ pc[th] \notin {"store", "next", "clear"}
    BY <1>3 DEF workerLeaves, workerLoops, realConnect, connectStopped, workTaskKept, Begin,
                queryDone, queryError, queryUnfinished, goto
  <2>2. \A o \in Threads : Held(o)' = Held(o)
    BY <2>1 DEF Held, IInv, TypeOK
  <2> QED  BY <2>1, <2>2, <1>b, <1>d DEF Silent
<1>4. ASSUME NEW th \in Threads, getTask(th) PROVE L!Take(th)
  <2>1. Held(th) = None
    BY <1>4 DEF getTask, Fetching, Held
  <2>2. /\ Held(th)' = Head(_works[QueueOf[th]])
        /\ \A o \in Threads \ {th} : Held(o)' = Held(o)
    BY <1>4 DEF getTask, goto, Held, IInv, TypeOK
  <2>3. held' = [held EXCEPT ![th] = Head(_works[QueueOf[th]])]
    BY <2>2, <1>c
  <2> QED  BY <1>4, <2>1, <2>3, <1>a, <1>d DEF getTask, L!Take
<1>5. ASSUME NEW th \in Threads, getTaskNone(th) \/ storeTask(th) \/ clearTask(th)
      PROVE  Silent
  <2>1. UNCHANGED <<added, _works, called, tem, _results>>
    BY <1>5 DEF getTaskNone, storeTask, clearTask
  <2>2. \A o \in Threads : Held(o)' = Held(o)
    <3>1. CASE getTaskNone(th)
      BY <3>1 DEF getTaskNone, goto, Fetching, Held, IInv, TypeOK
    <3>2. CASE storeTask(th)
      BY <3>2 DEF storeTask, Begin, goto, Held, IInv, TypeOK
    <3>3. CASE clearTask(th)
      BY <3>3 DEF clearTask, goto, Held, IInv, TypeOK
    <3> QED  BY <1>5, <3>1, <3>2, <3>3
  <2> QED  BY <2>1, <2>2, <1>b, <1>d DEF Silent
<1>6. ASSUME NEW th \in Threads, addDone(th) PROVE L!Report(th)
  <2>1. Held(th) = _task[th] /\ _task[th] \in Tasks
    BY <1>6 DEF addDone, Held, IInv, TypeOK, WorkerShape
  <2>2. Held(th)' = None /\ \A o \in Threads \ {th} : Held(o)' = Held(o)
    BY <1>6 DEF addDone, goto, Held, IInv, TypeOK
  <2>3. held' = [held EXCEPT ![th] = None]
    BY <2>2, <1>c
  <2>4. Reported' = Append(Reported, _task[th])
    <3>1. called' = called /\ tem' = tem /\ _results' = Append(_results, _task[th])
      BY <1>6 DEF addDone
    <3>2. called \o tem \o Append(_results, _task[th])
            = Append(called \o tem \o _results, _task[th])
      BY ONLY <2>1, <1>a, ReportedSame
    <3> QED  BY ONLY <3>1, <3>2 DEF Reported
  <2> QED  BY <1>6, <2>1, <2>3, <2>4, <1>a DEF addDone, L!Report
<1>7. CASE checkStop \/ checkThread \/ joinThread \/ allJoined \/ executed \/ shutDown
  <2>1. UNCHANGED <<added, _works, called, tem, _results, pc, _task, popped>>
    BY <1>7 DEF checkStop, checkThread, joinThread, allJoined, executed, shutDown
  <2> QED  BY <2>1, <1>b, <1>d DEF Silent, Held
<1>8. CASE takeResults \/ execute
  <2>1. UNCHANGED <<added, _works, pc, _task, popped>>
    BY <1>8 DEF takeResults, execute
  <2>2. Reported' = Reported
    <3>1. CASE takeResults
      <4>1. tem = <<>>
        BY <3>1 DEF takeResults, IInv, Delivering
      <4>2. \/ UNCHANGED <<called, tem, _results>>
            \/ called' = called /\ tem' = _results /\ _results' = <<>>
        BY <3>1 DEF takeResults
      <4> QED  BY <4>1, <4>2, <1>a, <1>d, ReportedSame DEF Reported
    <3>2. CASE execute
      BY <3>2, <1>a, ReportedSame DEF execute, Reported
    <3> QED  BY <1>8, <3>1, <3>2
  <2> QED  BY <2>1, <2>2, <1>b DEF Silent, Held
<1>9. CASE Terminated \/ UNCHANGED vars
  BY <1>9, <1>b, <1>d DEF Terminated, vars, Silent, Held
<1> QED
  BY <1>1, <1>2, <1>3, <1>4, <1>5, <1>6, <1>7, <1>8, <1>9 DEF Next, Client, Worker, MainLoop

(* The database implements the life cycle of its tasks: added, taken by    *)
(* one worker in the order of its queue, reported once - through retries,  *)
(* lost connections, late stores, deliveries and the stop (db_thread::work,*)
(* Database::run, checkStop).                                              *)
THEOREM ImplementsTaskLifeHolds == Spec => ImplementsTaskLife
<1>1. Init => L!Init
  <2>1. ASSUME Init PROVE held = [th \in Threads |-> None]
    BY <2>1 DEF Init, held, Held
  <2>2. ASSUME Init PROVE Reported = <<>>
    BY <2>2 DEF Init, Reported
  <2> QED  BY <2>1, <2>2 DEF Init, L!Init
<1>2. IInv /\ [Next]_vars => [L!Next]_(L!vars)
  BY StepSimulation DEF Silent, L!Next, L!vars
<1> QED
  BY <1>1, <1>2, Inductive, PTL DEF Spec, ImplementsTaskLife, L!Spec

-----------------------------------------------------------------------------
(* Every task has one place, and tasks of a type with one worker keep the  *)
(* order in which they were added.                                         *)
THEOREM TasksPlaced == Spec => []TaskInv
<1>1. Init => TaskInv
  <2> SUFFICES ASSUME Init PROVE TaskInv
    OBVIOUS
  <2>1. held = [th \in Threads |-> None] /\ Reported = <<>> /\ added = <<>>
        /\ _works = [q \in Queues |-> <<>>]
    BY DEF Init, held, Held, Reported
  <2>2. Len(<<>>) = 0 /\ Elements(<<>>) = {}
    BY DEF Elements
  <2> QED  BY <2>1, <2>2 DEF TaskInv, Placed, Ordered, Distinct
<1>2. IInv /\ TaskInv /\ [Next]_vars => TaskInv'
  <2> SUFFICES ASSUME IInv, TaskInv, [Next]_vars PROVE TaskInv'
    OBVIOUS
  <2>1. /\ added \in Seq(Tasks) /\ _works \in [Queues -> Seq(Tasks)]
        /\ held \in [Threads -> Tasks \cup {None}] /\ Reported \in Seq(Tasks)
    BY BarType DEF IInv
  <2>2. ASSUME NEW t \in Tasks, L!Add(t) PROVE TaskInv'
    <3>1. t \notin Elements(added)
      BY <2>2 DEF L!Add, Elements
    <3>2. /\ added' = Append(added, t)
          /\ _works' = [_works EXCEPT ![TypeOf[t]] = Append(@, t)]
          /\ held' = held /\ Reported' = Reported
      BY <2>2 DEF L!Add
    <3> QED  BY <2>1, <3>1, <3>2, AddKeeps DEF TaskInv
  <2>3. ASSUME NEW th \in Threads, L!Take(th) PROVE TaskInv'
    <3>1. /\ held[th] = None /\ _works[QueueOf[th]] # <<>>
          /\ _works' = [_works EXCEPT ![QueueOf[th]] = Tail(@)]
          /\ held' = [held EXCEPT ![th] = Head(_works[QueueOf[th]])]
          /\ added' = added /\ Reported' = Reported
      BY <2>3 DEF L!Take
    <3> QED  BY <2>1, <3>1, TakeKeeps DEF TaskInv
  <2>4. ASSUME NEW th \in Threads, L!Report(th) PROVE TaskInv'
    <3>1. /\ held[th] # None /\ held' = [held EXCEPT ![th] = None]
          /\ Reported' = Append(Reported, held[th])
          /\ added' = added /\ _works' = _works
      BY <2>4 DEF L!Report
    <3> QED  BY <2>1, <3>1, ReportKeeps DEF TaskInv
  <2>5. CASE Silent
    BY <2>5 DEF Silent, TaskInv
  <2> QED  BY <2>2, <2>3, <2>4, <2>5, StepSimulation
<1> QED
  BY <1>1, <1>2, Inductive, PTL DEF Spec

(* No worker touches a task that was reported, nor one another worker has, *)
(* while _task still points to the last one (db_thread::work, releaseTask).*)
THEOREM NoUseAfterReleaseHolds == Spec => []NoUseAfterRelease
<1>1. TaskInv => NoUseAfterRelease
  BY DEF TaskInv, Placed, NoUseAfterRelease, held
<1> QED  BY <1>1, TasksPlaced, PTL

(* A task is reported and called back at most once, whatever fails and is  *)
(* tried again (queryUnfinished, Database::run).                           *)
THEOREM CalledBackOnceHolds == Spec => []CalledBackOnce
<1>1. TaskInv => CalledBackOnce
  BY DEF TaskInv, Placed, Distinct, CalledBackOnce
<1> QED  BY <1>1, TasksPlaced, PTL

(* Tasks of a type with one worker are reported, and called back, in the   *)
(* order in which they were added, through retries and failures            *)
(* (addSQueryTask and its like, db_thread::work).                          *)
THEOREM CalledInOrderHolds == Spec => []CalledInOrder
<1>1. TaskInv => CalledInOrder
  BY DEF TaskInv, Placed, Ordered, Ahead, CalledInOrder
<1> QED  BY <1>1, TasksPlaced, PTL

(* Once the database counts as stopped no worker runs and no task is       *)
(* queued, whatever the workers did while checkStop joined them.           *)
THEOREM StopIsQuietHolds == Spec => []StopIsQuiet
<1>1. IInv => StopIsQuiet
  BY DEF IInv
<1> QED  BY <1>1, Inductive, PTL

(* Without exceptions no task is lost in a stop, although isDone does not  *)
(* see a task between getTask and the store to _task (checkStop).          *)
THEOREM StoppedAfterLastTaskHolds == Spec => []StoppedAfterLastTask
<1>1. IInv /\ TaskInv => StoppedAfterLastTask
  <2> SUFFICES ASSUME IInv, TaskInv, _obj_state = "stop", retries = 0,
                      NEW t \in Elements(added)
               PROVE  t \in Elements(called \o _results)
    BY DEF StoppedAfterLastTask
  <2> USE DatabaseAssumption
  <2>1. added \in Seq(Tasks) /\ t \in Tasks /\ TypeOf[t] \in Queues
    BY ElementOfSeq DEF IInv, TypeOK, Elements
  <2>2. _works[TypeOf[t]] = <<>> /\ Elements(<<>>) = {}
    BY <2>1 DEF IInv, StopIsQuiet, QueuesEmpty, Elements
  <2>3. \A th \in Threads : held[th] = None
    BY DEF held, Held, IInv, StopIsQuiet, Finished
  <2>4. t \in Elements(Reported)
    BY <2>1, <2>2, <2>3 DEF TaskInv, Placed
  <2>5. tem = <<>> /\ called \in Seq(Tasks)
    BY DEF IInv, TypeOK, Stopping, Delivering
  <2>6. Reported = called \o _results
    BY <2>5, ConcatEmptySeq DEF Reported
  <2> QED  BY <2>4, <2>6
<1> QED  BY <1>1, Inductive, TasksPlaced, PTL
=============================================================================
