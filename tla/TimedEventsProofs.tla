------------------------- MODULE TimedEventsProofs -------------------------
(* Proofs about TimedEvents, for every set of objects and types and every  *)
(* bound.                                                                  *)
EXTENDS TimedEvents, WellFoundedInduction, TLAPS

(* A nonempty set of naturals has a smallest element: the walk over the    *)
(* list always finds its next event.                                       *)
LEMMA SmallestExists ==
    ASSUME NEW S \in SUBSET Nat, S # {}
    PROVE  \E e \in S : \A f \in S : e <= f
<1>1. PICK e \in S : \A f \in S : <<f, e>> \notin OpToRel(<, Nat)
  BY NatLessThanWellFounded, WFMin
<1>2. \A f \in S : ~(f < e)
  BY <1>1 DEF OpToRel
<1>. QED
  BY <1>2

(* First returns the end of the list or an element of the set.             *)
LEMMA FirstIsMember ==
    ASSUME NEW S \in SUBSET Nat
    PROVE  First(S) = End \/ First(S) \in S
<1>1. CASE S = {}
  BY <1>1 DEF First
<1>2. CASE S # {}
  BY <1>2, SmallestExists DEF First
<1>. QED
  BY <1>1, <1>2

(* Successor advances the iterator strictly, inside the list.              *)
LEMMA SuccessorAdvances ==
    ASSUME TypeOK, NEW e \in Nat
    PROVE  Successor(e) = End \/ (Successor(e) \in list /\ Successor(e) > e)
<1>. DEFINE S == {f \in list : f > e}
<1>1. \A f \in list : f \in Nat
  BY DEF TypeOK, Ids
<1>2. S \in SUBSET Nat
  BY <1>1
<1>3. First(S) = End \/ First(S) \in S
  BY <1>2, FirstIsMember
<1>. QED
  BY <1>3 DEF Successor

-----------------------------------------------------------------------------
(* decRef marks the event, takes one reference and releases the memory     *)
(* with the last one; nothing else changes.                                *)
LEMMA DecRefFacts ==
    ASSUME NEW ev \in EventRecord
    PROVE  /\ decRef(ev) \in EventRecord
           /\ decRef(ev).deleted
           /\ decRef(ev).ref = ev.ref - 1
           /\ decRef(ev).freed <=> ev.ref <= 1
           /\ decRef(ev).owner = ev.owner
           /\ decRef(ev).type = ev.type
           /\ decRef(ev).deletes = ev.deletes
           /\ decRef(ev).planned = ev.planned
           /\ decRef(ev).repeats = ev.repeats
<1>1. decRef(ev).deleted = TRUE
  BY DEF decRef, EventRecord
<1>2. decRef(ev).freed = (ev.ref <= 1)
  BY DEF decRef, EventRecord
<1>3. decRef(ev) \in EventRecord
  <2>1. (ev.ref <= 1) \in BOOLEAN /\ ev.ref - 1 \in Int
    BY DEF EventRecord
  <2>. QED
    BY <2>1, Zenon DEF decRef, EventRecord
<1>4. /\ decRef(ev).ref = ev.ref - 1
      /\ decRef(ev).owner = ev.owner
      /\ decRef(ev).type = ev.type
      /\ decRef(ev).deletes = ev.deletes
      /\ decRef(ev).planned = ev.planned
      /\ decRef(ev).repeats = ev.repeats
  BY DEF decRef, EventRecord
<1>. QED
  BY <1>1, <1>2, <1>3, <1>4

(* The event eventAddEvent allocates is a well-typed record.               *)
LEMMA NewEventType ==
    ASSUME NEW o \in Objects, NEW t \in Types, NEW time \in Intervals,
           NEW repeat \in Repeats, NEW deletes \in BOOLEAN
    PROVE  NewEvent(o, t, time, repeat, deletes) \in EventRecord
BY EventsAssumption DEF NewEvent, EventRecord

(* Dropping a set of events held by one object, its destructor included.   *)
LEMMA DropPreserves ==
    ASSUME IInv, NEW o \in Objects, NEW S \in SUBSET m_events[o],
           event' = DecRefAll(S),
           m_events' = [m_events EXCEPT ![o] = @ \ S],
           alive' = alive \/ (alive' = alive \ {o} /\ S = m_events[o]),
           UNCHANGED <<count, list, phase, itr, cur, diff, fires>>
    PROVE  IInv'
<1>. USE DEF IInv
<1>1. /\ Ids' = Ids
      /\ \A e \in Ids : e \in S => event'[e] = decRef(event[e])
      /\ \A e \in Ids : e \notin S => event'[e] = event[e]
  BY DEF DecRefAll, Ids
<1>2. \A e \in Ids : event[e] \in EventRecord
  BY DEF TypeOK
<1>3. \A e \in Ids :
         /\ event'[e] \in EventRecord
         /\ event'[e].owner = event[e].owner
         /\ event'[e].planned = event[e].planned
         /\ event'[e].deletes = event[e].deletes
         /\ event'[e].repeats = event[e].repeats
  BY <1>1, <1>2, DecRefFacts
<1>4. \A e \in S : e \in Ids /\ event[e].owner = o
  BY DEF TypeOK, Held
<1>5. TypeOK'
  <2>1. event' \in [Ids -> EventRecord]
    BY <1>3 DEF DecRefAll
  <2>2. m_events' \in [Objects -> SUBSET Ids]
    BY DEF TypeOK
  <2>3. alive' \in SUBSET Objects
    BY DEF TypeOK
  <2>. QED
    BY <1>1, <2>1, <2>2, <2>3 DEF TypeOK
<1>6. \A e \in Ids : e \in m_events'[event[e].owner]
                     <=> e \in m_events[event[e].owner] /\ e \notin S
  BY <1>2, <1>4 DEF TypeOK, EventRecord
<1>7. RefCount'
  <2>. SUFFICES ASSUME NEW e \in Ids
                PROVE  /\ event'[e].ref
                            = (IF e \in m_events'[event'[e].owner] THEN 1 ELSE 0)
                              + (IF e \in list' THEN 1 ELSE 0)
                       /\ event'[e].freed <=> event'[e].ref = 0
    BY <1>1 DEF RefCount
  <2>1. CASE e \in S
    BY <2>1, <1>1, <1>2, <1>3, <1>4, <1>6, DecRefFacts DEF RefCount
  <2>2. CASE e \notin S
    BY <2>2, <1>1, <1>3, <1>6 DEF RefCount
  <2>. QED
    BY <2>1, <2>2
<1>8. Held'
  <2>1. ASSUME NEW p \in Objects, NEW e \in m_events'[p]
        PROVE  event'[e].owner = p /\ p \in alive'
    BY <1>3 DEF Held, TypeOK
  <2>2. ASSUME NEW e \in Ids, ~event'[e].deleted
        PROVE  e \in list' /\ e \in m_events'[event'[e].owner]
    BY <2>2, <1>1, <1>2, <1>3, <1>6, DecRefFacts DEF Held
  <2>. QED
    BY <1>1, <2>1, <2>2 DEF Held
<1>9. Iterators'
  BY DEF Iterators
<1>10. Countdown' /\ FiresAtMostPlanned'
  BY <1>1, <1>3 DEF Countdown, FiresAtMostPlanned, TypeOK
<1>. QED
  BY <1>5, <1>7, <1>8, <1>9, <1>10

(* Arming an event: both containers take it, with a reference each.        *)
LEMMA AddPreserves ==
    ASSUME IInv, NEW o \in Objects, NEW t \in Types, NEW time \in Intervals,
           NEW repeat \in Repeats, NEW deletes \in BOOLEAN,
           eventAddEvent(o, t, time, repeat, deletes)
    PROVE  IInv'
<1>. DEFINE n == count + 1
            new == NewEvent(o, t, time, repeat, deletes)
<1>. USE DEF IInv
<1>0. count \in Nat /\ repeat \in Int
  BY EventsAssumption DEF TypeOK
<1>1. Ids' = 1 .. n /\ n \in Ids' /\ n \notin Ids /\ Ids' = Ids \cup {n}
  BY <1>0 DEF eventAddEvent, Ids
<1>2. event'[n] = new /\ \A e \in Ids : event'[e] = event[e]
  BY <1>0 DEF eventAddEvent, Ids
<1>3. fires'[n] = 0 /\ \A e \in Ids : fires'[e] = fires[e]
  BY <1>0 DEF eventAddEvent, Ids
<1>4. new \in EventRecord
  BY NewEventType
<1>5. /\ new.owner = o /\ new.ref = 2 /\ new.planned = repeat
      /\ new.repeats = repeat
  BY DEF NewEvent
<1>6. new.deleted = FALSE /\ new.freed = FALSE
  BY DEF NewEvent
<1>7. /\ list' = list \cup {n}
      /\ m_events' = [m_events EXCEPT ![o] = @ \cup {n}]
      /\ UNCHANGED <<alive, phase, itr, cur, diff>>
      /\ o \in alive
  BY DEF eventAddEvent
<1>8. TypeOK'
  <2>1. event' \in [Ids' -> EventRecord]
    <3>1. \A e \in Ids' : event'[e] \in EventRecord
      BY <1>1, <1>2, <1>4 DEF TypeOK
    <3>. QED
      BY <3>1, <1>1, Zenon DEF eventAddEvent
  <2>2. fires' \in [Ids' -> Nat]
    <3>1. \A e \in Ids : fires[e] \in Nat
      BY DEF TypeOK
    <3>2. \A e \in Ids' : fires'[e] \in Nat
      BY <3>1, <1>1, <1>3
    <3>. QED
      BY <3>2, <1>1, Zenon DEF eventAddEvent
  <2>3. m_events' \in [Objects -> SUBSET Ids']
    BY <1>1, <1>7 DEF TypeOK
  <2>4. count' \in Nat
    BY <1>0 DEF eventAddEvent
  <2>. QED
    BY <1>1, <1>7, <2>1, <2>2, <2>3, <2>4 DEF TypeOK
<1>9. /\ n \in m_events'[o] /\ n \in list'
      /\ \A e \in Ids : e \in list' <=> e \in list
      /\ \A e \in Ids, p \in Objects : e \in m_events'[p] <=> e \in m_events[p]
      /\ \A p \in Objects : n \in m_events'[p] => p = o
      /\ \A e \in Ids : event[e].owner \in Objects
  BY <1>1, <1>7 DEF TypeOK, EventRecord
<1>10. RefCount'
  <2>1. ASSUME NEW e \in Ids
        PROVE  /\ event'[e].ref
                    = (IF e \in m_events'[event'[e].owner] THEN 1 ELSE 0)
                      + (IF e \in list' THEN 1 ELSE 0)
               /\ event'[e].freed <=> event'[e].ref = 0
    BY <1>2, <1>9 DEF RefCount
  <2>2. /\ event'[n].ref
              = (IF n \in m_events'[event'[n].owner] THEN 1 ELSE 0)
                + (IF n \in list' THEN 1 ELSE 0)
        /\ event'[n].freed <=> event'[n].ref = 0
    BY <1>2, <1>5, <1>6, <1>9
  <2>. QED
    BY <1>1, <2>1, <2>2 DEF RefCount
<1>11. Held'
  <2>1. ASSUME NEW p \in Objects, NEW e \in m_events'[p]
        PROVE  event'[e].owner = p /\ p \in alive'
    BY <1>1, <1>2, <1>5, <1>7, <1>8, <1>9 DEF Held, TypeOK
  <2>2. ASSUME NEW e \in Ids', ~event'[e].deleted
        PROVE  e \in list' /\ e \in m_events'[event'[e].owner]
    BY <2>2, <1>1, <1>2, <1>5, <1>9 DEF Held
  <2>. QED
    BY <2>1, <2>2 DEF Held
<1>12. Iterators'
  BY <1>7 DEF Iterators
<1>13. cur' = cur /\ cur # n
  BY <1>0, <1>1, <1>7 DEF TypeOK, End
<1>14. Countdown'
  <2>1. ASSUME NEW e \in list, event'[e] = event[e], fires'[e] = fires[e]
        PROVE  LET running == IF cur' = e THEN 1 ELSE 0 IN
               /\ event'[e].planned > 0 => /\ event'[e].repeats > 0
                                           /\ fires'[e] + event'[e].repeats
                                                 = event'[e].planned + running
               /\ event'[e].deletes => fires'[e] = running
    BY <2>1, <1>13 DEF Countdown
  <2>2. LET running == IF cur' = n THEN 1 ELSE 0 IN
               /\ event'[n].planned > 0 => /\ event'[n].repeats > 0
                                           /\ fires'[n] + event'[n].repeats
                                                 = event'[n].planned + running
               /\ event'[n].deletes => fires'[n] = running
    BY <1>0, <1>2, <1>3, <1>5, <1>13
  <2>. QED
    BY <1>2, <1>3, <1>7, <2>1, <2>2 DEF Countdown, TypeOK
<1>15. FiresAtMostPlanned'
  <2>1. event'[n].planned > 0 => fires'[n] <= event'[n].planned
    BY <1>0, <1>2, <1>3, <1>5
  <2>2. fires'[n] <= 1
    BY <1>3
  <2>. QED
    BY <1>1, <1>2, <1>3, <2>1, <2>2 DEF FiresAtMostPlanned
<1>. QED
  BY <1>8, <1>10, <1>11, <1>12, <1>14, <1>15

(* Retiming an event changes its clock only.                               *)
LEMMA ModifyPreserves ==
    ASSUME IInv, NEW o \in Objects, NEW t \in Types, NEW time \in Intervals,
           eventModifyTimeAndTimeLeft(o, t, time)
    PROVE  IInv'
<1>. USE DEF IInv
<1>1. Ids' = Ids /\ time \in Nat
  BY EventsAssumption DEF eventModifyTimeAndTimeLeft, Ids
<1>2. \A e \in Ids :
         /\ event'[e] \in EventRecord
         /\ event'[e].owner = event[e].owner
         /\ event'[e].planned = event[e].planned
         /\ event'[e].deletes = event[e].deletes
         /\ event'[e].repeats = event[e].repeats
         /\ event'[e].ref = event[e].ref
         /\ event'[e].deleted = event[e].deleted
         /\ event'[e].freed = event[e].freed
  <2>. TAKE e \in Ids
  <2>1. event[e] \in EventRecord
    BY DEF TypeOK
  <2>2. event'[e] \in {event[e], [event[e] EXCEPT !.msTime = time, !.currTime = time]}
    BY DEF eventModifyTimeAndTimeLeft
  <2>. QED
    BY ONLY <1>1, <2>1, <2>2 DEF EventRecord
<1>3. UNCHANGED <<count, alive, m_events, list, phase, itr, cur, diff, fires>>
  BY DEF eventModifyTimeAndTimeLeft
<1>4. TypeOK'
  <2>1. event' \in [Ids -> EventRecord]
    BY <1>2 DEF eventModifyTimeAndTimeLeft
  <2>. QED
    BY <2>1, <1>1, <1>3 DEF TypeOK
<1>5. RefCount'
  BY <1>1, <1>2, <1>3 DEF RefCount
<1>6. Held'
  BY <1>1, <1>2, <1>3 DEF Held, TypeOK
<1>7. Iterators'
  BY <1>3 DEF Iterators
<1>8. Countdown'
  BY <1>1, <1>2, <1>3 DEF Countdown, TypeOK
<1>9. FiresAtMostPlanned'
  BY <1>1, <1>2, <1>3 DEF FiresAtMostPlanned
<1>. QED
  BY <1>4, <1>5, <1>6, <1>7, <1>8, <1>9

(* The holder drops an event: one that was cancelled, or whose last        *)
(* callback has returned.                                                  *)
LEMMA HolderDropPreserves ==
    ASSUME IInv, NEW e \in list, cur \in {e, End},
           event' = [event EXCEPT ![e] = decRef(@)],
           list' = list \ {e},
           cur' = End, phase' = "walk",
           itr' = End \/ (itr' \in list /\ itr' > e),
           UNCHANGED <<count, alive, m_events, diff, fires>>
    PROVE  IInv'
<1>. USE DEF IInv
<1>1. Ids' = Ids /\ e \in Ids /\ e \in Nat /\ e # End
  BY DEF Ids, TypeOK, End
<1>2. \A f \in Ids : event[f] \in EventRecord
  BY DEF TypeOK
<1>3. /\ event'[e] = decRef(event[e])
      /\ \A f \in Ids : f # e => event'[f] = event[f]
  BY <1>1 DEF TypeOK
<1>4. \A f \in Ids :
         /\ event'[f] \in EventRecord
         /\ event'[f].owner = event[f].owner
         /\ event'[f].planned = event[f].planned
         /\ event'[f].deletes = event[f].deletes
         /\ event'[f].repeats = event[f].repeats
  BY <1>1, <1>2, <1>3, DecRefFacts
<1>5. TypeOK'
  <2>1. event' \in [Ids -> EventRecord]
    BY <1>1, <1>2, DecRefFacts DEF TypeOK
  <2>. QED
    BY <1>1, <2>1 DEF TypeOK
<1>6. RefCount'
  <2>. SUFFICES ASSUME NEW f \in Ids
                PROVE  /\ event'[f].ref
                            = (IF f \in m_events'[event'[f].owner] THEN 1 ELSE 0)
                              + (IF f \in list' THEN 1 ELSE 0)
                       /\ event'[f].freed <=> event'[f].ref = 0
    BY <1>1 DEF RefCount
  <2>1. CASE f = e
    BY <2>1, <1>1, <1>2, <1>3, <1>4, DecRefFacts DEF RefCount
  <2>2. CASE f # e
    BY <2>2, <1>3 DEF RefCount
  <2>. QED
    BY <2>1, <2>2
<1>7. Held'
  <2>1. ASSUME NEW p \in Objects, NEW f \in m_events'[p]
        PROVE  event'[f].owner = p /\ p \in alive'
    BY <1>4 DEF Held, TypeOK
  <2>2. ASSUME NEW f \in Ids, ~event'[f].deleted
        PROVE  f \in list' /\ f \in m_events'[event'[f].owner]
    BY <2>2, <1>1, <1>2, <1>3, <1>4, DecRefFacts DEF Held
  <2>. QED
    BY <1>1, <2>1, <2>2 DEF Held
<1>8. Iterators'
  BY <1>1 DEF Iterators, End, TypeOK, Ids
<1>9. Countdown'
  <2>1. \A f \in list' : f \in list /\ f # e /\ f \in Ids /\ cur # f
                          /\ cur' # f
    BY <1>1 DEF TypeOK, Ids, End
  <2>. QED
    BY <2>1, <1>4 DEF Countdown
<1>10. FiresAtMostPlanned'
  BY <1>1, <1>4 DEF FiresAtMostPlanned
<1>. QED
  BY <1>5, <1>6, <1>7, <1>8, <1>9, <1>10

(* The start of the walk moves the iterator only.                          *)
LEMMA BeginPreserves ==
    ASSUME IInv, NEW d \in Frames, updateBegin(d)
    PROVE  IInv'
<1>. USE DEF IInv
<1>1. Ids' = Ids /\ d \in Nat
  BY EventsAssumption DEF updateBegin, Ids
<1>2. itr' = End \/ itr' \in list
  BY FirstIsMember DEF updateBegin, TypeOK, Ids
<1>3. UNCHANGED <<count, event, alive, m_events, list, cur, fires>>
      /\ phase = "idle" /\ phase' = "walk" /\ diff' = d
  BY DEF updateBegin
<1>4. TypeOK'
  BY <1>1, <1>2, <1>3 DEF TypeOK
<1>5. Iterators'
  BY <1>2, <1>3 DEF Iterators
<1>. QED
  BY <1>1, <1>3, <1>4, <1>5 DEF RefCount, Held, Countdown, FiresAtMostPlanned

(* The end of the walk.                                                    *)
LEMMA EndPreserves ==
    ASSUME IInv, updateEnd
    PROVE  IInv'
<1>. USE DEF IInv
<1>1. Ids' = Ids
  BY DEF updateEnd, Ids
<1>2. UNCHANGED <<count, event, alive, m_events, list, itr, cur, fires>>
      /\ phase = "walk" /\ phase' = "idle" /\ diff' = 0
  BY DEF updateEnd
<1>3. TypeOK' /\ Iterators'
  BY <1>1, <1>2 DEF TypeOK, Iterators
<1>. QED
  BY <1>1, <1>2, <1>3 DEF RefCount, Held, Countdown, FiresAtMostPlanned

(* An event that is not due: its remaining time stays a natural number.    *)
LEMMA NotDuePreserves ==
    ASSUME IInv, updateNotDue
    PROVE  IInv'
<1>. USE DEF IInv
<1>1. Ids' = Ids /\ itr \in Ids /\ itr \in Nat
  BY DEF updateNotDue, Ids, TypeOK, End
<1>2. itr' = End \/ (itr' \in list /\ itr' > itr)
  BY <1>1, SuccessorAdvances DEF updateNotDue
<1>3. UNCHANGED <<count, alive, m_events, list, phase, cur, diff, fires>>
      /\ phase = "walk"
  BY DEF updateNotDue
<1>4. event[itr].currTime - diff \in Nat
  BY <1>1 DEF updateNotDue, TypeOK, EventRecord
<1>5. \A e \in Ids :
         /\ event'[e] \in EventRecord
         /\ event'[e].owner = event[e].owner
         /\ event'[e].planned = event[e].planned
         /\ event'[e].deletes = event[e].deletes
         /\ event'[e].repeats = event[e].repeats
         /\ event'[e].ref = event[e].ref
         /\ event'[e].deleted = event[e].deleted
         /\ event'[e].freed = event[e].freed
  BY <1>1, <1>4 DEF updateNotDue, TypeOK, EventRecord
<1>6. TypeOK'
  <2>1. event' \in [Ids -> EventRecord]
    BY <1>5 DEF updateNotDue, TypeOK
  <2>. QED
    BY <2>1, <1>1, <1>2, <1>3 DEF TypeOK
<1>7. RefCount'
  BY <1>1, <1>3, <1>5 DEF RefCount
<1>8. Held'
  BY <1>1, <1>3, <1>5 DEF Held, TypeOK
<1>9. Iterators'
  BY <1>2, <1>3 DEF Iterators
<1>10. Countdown' /\ FiresAtMostPlanned'
  BY <1>1, <1>3, <1>5 DEF Countdown, FiresAtMostPlanned, TypeOK
<1>. QED
  BY <1>6, <1>7, <1>8, <1>9, <1>10

(* A callback starts: the event is charged one firing and stays in place.  *)
LEMMA FirePreserves ==
    ASSUME IInv, updateFire
    PROVE  IInv'
<1>. USE DEF IInv
<1>1. /\ Ids' = Ids /\ itr \in Ids /\ itr \in Nat /\ itr \in list
      /\ itr # End
  BY DEF updateFire, Ids, TypeOK, End, Iterators
<1>2. itr' = End \/ (itr' \in list /\ itr' > itr)
  BY <1>1, SuccessorAdvances DEF updateFire
<1>3. UNCHANGED <<count, event, alive, m_events, list, diff>>
      /\ phase = "walk" /\ phase' = "callback" /\ cur' = itr
  BY DEF updateFire
<1>4. cur = End
  BY <1>3 DEF Iterators
<1>5. /\ fires' \in [Ids -> Nat]
      /\ \A e \in Ids : e # itr => fires'[e] = fires[e]
      /\ Bounded(event[itr]) => fires'[itr] = fires[itr] + 1
      /\ ~Bounded(event[itr]) => fires'[itr] = fires[itr]
  BY <1>1 DEF updateFire, TypeOK
<1>6. TypeOK'
  BY <1>1, <1>2, <1>3, <1>5 DEF TypeOK
<1>7. Iterators'
  BY <1>1, <1>2, <1>3 DEF Iterators
<1>8. RefCount' /\ Held'
  BY <1>1, <1>3 DEF RefCount, Held
<1>9. event[itr].planned \in Int /\ fires[itr] \in Nat
        /\ event[itr].repeats \in Int
  BY <1>1 DEF TypeOK, EventRecord
<1>10. Countdown'
  <2>1. ASSUME NEW e \in list, e # itr
        PROVE  LET running == IF cur' = e THEN 1 ELSE 0 IN
               /\ event'[e].planned > 0 => /\ event'[e].repeats > 0
                                           /\ fires'[e] + event'[e].repeats
                                                 = event'[e].planned + running
               /\ event'[e].deletes => fires'[e] = running
    <3>1. e \in Ids /\ e # End /\ fires'[e] = fires[e]
      BY <2>1, <1>5 DEF TypeOK, Ids, End
    <3>. QED
      BY <3>1, <2>1, <1>3, <1>4 DEF Countdown
  <2>2. LET running == IF cur' = itr THEN 1 ELSE 0 IN
               /\ event'[itr].planned > 0 => /\ event'[itr].repeats > 0
                                             /\ fires'[itr] + event'[itr].repeats
                                                   = event'[itr].planned + running
               /\ event'[itr].deletes => fires'[itr] = running
    <3>1. /\ event[itr].planned > 0 => /\ event[itr].repeats > 0
                                       /\ fires[itr] + event[itr].repeats
                                             = event[itr].planned
          /\ event[itr].deletes => fires[itr] = 0
      BY <1>1, <1>4, <1>9 DEF Countdown
    <3>. QED
      BY <3>1, <1>3, <1>5, <1>9 DEF Bounded
  <2>. QED
    BY <2>1, <2>2, <1>3 DEF Countdown
<1>11. FiresAtMostPlanned'
  <2>1. /\ event[itr].planned > 0 => fires'[itr] <= event[itr].planned
        /\ event[itr].deletes => fires'[itr] <= 1
    <3>1. /\ event[itr].planned > 0 => /\ event[itr].repeats > 0
                                       /\ fires[itr] + event[itr].repeats
                                             = event[itr].planned
          /\ event[itr].deletes => fires[itr] = 0
      BY <1>1, <1>4, <1>9 DEF Countdown
    <3>. QED
      BY <3>1, <1>5, <1>9 DEF Bounded
  <2>. QED
    BY <2>1, <1>1, <1>3, <1>5 DEF FiresAtMostPlanned
<1>. QED
  BY <1>6, <1>7, <1>8, <1>10, <1>11

(* A callback returns and the event stays armed.                           *)
LEMMA RearmPreserves ==
    ASSUME IInv, updateFired, ~LastFiring(event[cur])
    PROVE  IInv'
<1>. USE DEF IInv
<1>. DEFINE rearmed == Rearm(event[cur])
<1>1. /\ Ids' = Ids /\ cur \in Ids /\ cur \in Nat /\ cur \in list
      /\ cur # End
  BY DEF updateFired, Ids, TypeOK, End, Iterators
<1>2. /\ event' = [event EXCEPT ![cur] = rearmed]
      /\ UNCHANGED <<count, alive, m_events, list, itr, diff, fires>>
      /\ phase' = "walk" /\ cur' = End
  BY DEF updateFired
<1>3. event[cur] \in EventRecord
  BY <1>1 DEF TypeOK
<1>4. /\ rearmed.owner = event[cur].owner
      /\ rearmed.planned = event[cur].planned
      /\ rearmed.deletes = event[cur].deletes
      /\ rearmed.ref = event[cur].ref
      /\ rearmed.deleted = event[cur].deleted
      /\ rearmed.freed = event[cur].freed
      /\ event[cur].repeats > 0 => rearmed.repeats = event[cur].repeats - 1
  BY <1>3 DEF EventRecord, Rearm
<1>5. rearmed \in EventRecord
  <2>1. (IF event[cur].repeats > 0 THEN event[cur].repeats - 1
                                   ELSE event[cur].repeats) \in Int
    BY <1>3 DEF EventRecord
  <2>. QED
    BY <1>3, <2>1, Zenon DEF EventRecord, Rearm
<1>6. /\ event'[cur] = rearmed
      /\ \A e \in Ids : e # cur => event'[e] = event[e]
  BY <1>1, <1>2 DEF TypeOK
<1>. HIDE DEF rearmed
<1>7. TypeOK'
  BY <1>1, <1>2, <1>5 DEF TypeOK
<1>8. \A e \in Ids :
         /\ event'[e].owner = event[e].owner
         /\ event'[e].planned = event[e].planned
         /\ event'[e].deletes = event[e].deletes
         /\ event'[e].ref = event[e].ref
         /\ event'[e].deleted = event[e].deleted
         /\ event'[e].freed = event[e].freed
  BY <1>4, <1>6
<1>9. RefCount'
  BY <1>1, <1>2, <1>8 DEF RefCount
<1>10. Held'
  BY <1>1, <1>2, <1>8 DEF Held, TypeOK
<1>11. Iterators'
  BY <1>2 DEF Iterators
<1>12. FiresAtMostPlanned'
  BY <1>1, <1>2, <1>8 DEF FiresAtMostPlanned
<1>13. Countdown'
  <2>1. ASSUME NEW e \in list, e # cur
        PROVE  LET running == IF cur' = e THEN 1 ELSE 0 IN
               /\ event'[e].planned > 0 => /\ event'[e].repeats > 0
                                           /\ fires'[e] + event'[e].repeats
                                                 = event'[e].planned + running
               /\ event'[e].deletes => fires'[e] = running
    <3>1. e \in Ids /\ e # End /\ event'[e] = event[e]
      BY <2>1, <1>6 DEF TypeOK, Ids, End
    <3>. QED
      BY <3>1, <2>1, <1>2 DEF Countdown
  <2>2. LET running == IF cur' = cur THEN 1 ELSE 0 IN
               /\ event'[cur].planned > 0 => /\ event'[cur].repeats > 0
                                             /\ fires'[cur] + event'[cur].repeats
                                                   = event'[cur].planned + running
               /\ event'[cur].deletes => fires'[cur] = running
    <3>1. /\ event[cur].planned > 0 => /\ event[cur].repeats > 0
                                       /\ fires[cur] + event[cur].repeats
                                             = event[cur].planned + 1
          /\ event[cur].repeats # 1
          /\ ~event[cur].deletes
      BY <1>1 DEF Countdown, LastFiring
    <3>2. fires[cur] \in Nat /\ event[cur].repeats \in Int
             /\ event[cur].planned \in Int
      BY <1>1, <1>3 DEF TypeOK, EventRecord
    <3>. QED
      BY <3>1, <3>2, <1>1, <1>2, <1>4, <1>6
  <2>. QED
    BY <2>1, <2>2, <1>2 DEF Countdown
<1>. QED
  BY <1>7, <1>9, <1>10, <1>11, <1>12, <1>13

-----------------------------------------------------------------------------
(* The invariant is inductive.                                             *)
THEOREM Inductive == Spec => []IInv
<1>1. Init => IInv
  <2>. SUFFICES ASSUME Init PROVE IInv
    OBVIOUS
  <2>1. Ids = {}
    BY DEF Init, Ids
  <2>2. TypeOK
    BY <2>1 DEF Init, TypeOK, End
  <2>. QED
    BY <2>1, <2>2 DEF Init, IInv, RefCount, Held, Iterators, Countdown,
                      FiresAtMostPlanned
<1>2. IInv /\ [Next]_vars => IInv'
  <2>. SUFFICES ASSUME IInv, [Next]_vars PROVE IInv'
    OBVIOUS
  <2>1. ASSUME NEW o \in Objects, NEW t \in Types, NEW time \in Intervals,
               NEW repeat \in Repeats, NEW deletes \in BOOLEAN,
               eventAddEvent(o, t, time, repeat, deletes)
        PROVE  IInv'
    BY <2>1, AddPreserves
  <2>2. ASSUME NEW o \in Objects, NEW S \in SUBSET m_events[o],
               RemoveFromObject(o, S)
        PROVE  IInv'
    BY <2>2, DropPreserves DEF RemoveFromObject
  <2>3. ASSUME NEW o \in Objects, NEW t \in Types, eventRemoveEvents(o, t)
        PROVE  IInv'
    <3>1. OfType(o, t) \in SUBSET m_events[o]
      BY DEF OfType
    <3>. QED
      BY <2>2, <2>3, <3>1 DEF eventRemoveEvents
  <2>4. ASSUME NEW o \in Objects, eventRemoveAll(o)
        PROVE  IInv'
    BY <2>2, <2>4 DEF eventRemoveAll
  <2>5. ASSUME NEW o \in Objects, NEW e \in m_events[o],
               eventRemoveByPointer(o, e)
        PROVE  IInv'
    <3>1. {e} \in SUBSET m_events[o]
      OBVIOUS
    <3>. QED
      BY <2>2, <2>5, <3>1 DEF eventRemoveByPointer
  <2>6. ASSUME NEW o \in Objects, NEW t \in Types, NEW time \in Intervals,
               eventModifyTimeAndTimeLeft(o, t, time)
        PROVE  IInv'
    BY <2>6, ModifyPreserves
  <2>7. ASSUME NEW o \in Objects, DestroyObject(o)
        PROVE  IInv'
    <3>1. m_events' = [m_events EXCEPT ![o] = @ \ m_events[o]]
      BY <2>7 DEF DestroyObject, IInv, TypeOK
    <3>2. /\ event' = DecRefAll(m_events[o])
          /\ alive' = alive \ {o}
          /\ UNCHANGED <<count, list, phase, itr, cur, diff, fires>>
      BY <2>7 DEF DestroyObject
    <3>3. m_events[o] \in SUBSET m_events[o]
      OBVIOUS
    <3>. QED
      BY <3>1, <3>2, <3>3, DropPreserves
  <2>8. ASSUME NEW d \in Frames, updateBegin(d)
        PROVE  IInv'
    BY <2>8, BeginPreserves
  <2>9. CASE updateReap
    <3>1. itr \in list /\ itr \in Nat /\ cur = End
      BY <2>9 DEF updateReap, IInv, Iterators, TypeOK, Ids, End
    <3>2. itr' = End \/ (itr' \in list /\ itr' > itr)
      BY <2>9, <3>1, SuccessorAdvances DEF updateReap, IInv
    <3>. QED
      BY <2>9, <3>1, <3>2, HolderDropPreserves DEF updateReap
  <2>10. CASE updateNotDue
    BY <2>10, NotDuePreserves
  <2>11. CASE updateFire
    BY <2>11, FirePreserves
  <2>12. CASE updateFired
    <3>1. CASE LastFiring(event[cur])
      <4>1. cur \in list /\ (itr = End \/ (itr \in list /\ itr > cur))
        BY <2>12 DEF updateFired, IInv, Iterators
      <4>. QED
        BY <2>12, <3>1, <4>1, HolderDropPreserves DEF updateFired
    <3>2. CASE ~LastFiring(event[cur])
      BY <2>12, <3>2, RearmPreserves
    <3>. QED
      BY <3>1, <3>2
  <2>13. CASE updateEnd
    BY <2>13, EndPreserves
  <2>14. CASE UNCHANGED vars
    BY <2>14 DEF vars, IInv, TypeOK, RefCount, Held, Iterators, Countdown,
                 FiresAtMostPlanned, Ids
  <2>. QED
    BY <2>1, <2>3, <2>4, <2>5, <2>6, <2>7, <2>8, <2>9, <2>10, <2>11, <2>12,
       <2>13, <2>14 DEF Next, Client, update, Walk
<1>. QED
  BY <1>1, <1>2, PTL DEF Spec

(* Type correctness of the event machinery.                                *)
THEOREM TypeCorrect == Spec => []TypeOK
<1>1. IInv => TypeOK
  BY DEF IInv
<1>. QED
  BY <1>1, Inductive, PTL

(* Memory safety of decRef: nothing refers to a released event.            *)
THEOREM MemorySafe == Spec => []NoUseAfterFree
<1>1. IInv => NoUseAfterFree
  <2>. SUFFICES ASSUME IInv, NEW e \in Ids, event[e].freed
                PROVE  /\ \A o \in Objects : e \notin m_events[o]
                       /\ e \notin list
                       /\ e # itr
                       /\ e # cur
    BY DEF NoUseAfterFree
  <2>1. event[e].ref = 0
    BY DEF IInv, RefCount
  <2>2. e \notin list /\ e \notin m_events[event[e].owner]
    BY <2>1 DEF IInv, RefCount
  <2>3. \A o \in Objects : e \notin m_events[o]
    BY <2>2 DEF IInv, Held
  <2>4. e # itr /\ e # cur
    BY <2>2 DEF IInv, Iterators, Ids, End, TypeOK
  <2>. QED
    BY <2>2, <2>3, <2>4
<1>. QED
  BY <1>1, Inductive, PTL

(* A bounded event never fires more often than it was armed for.           *)
THEOREM BoundedFiring == Spec => []FiresAtMostPlanned
<1>1. IInv => FiresAtMostPlanned
  BY DEF IInv
<1>. QED
  BY <1>1, Inductive, PTL

(* Cancelling an event, or destroying its object, stops its callback.      *)
THEOREM CancelStops == Spec => FiresOnlyWhileHeld
<1>1. IInv /\ [Next]_vars =>
        [\A e \in Ids : (cur' = e /\ cur # e) =>
            /\ event[e].owner \in alive
            /\ e \in m_events[event[e].owner]]_vars
  <2>. SUFFICES ASSUME IInv, Next, NEW e \in Ids, cur' = e, cur # e
                PROVE  /\ event[e].owner \in alive
                       /\ e \in m_events[event[e].owner]
    BY DEF vars
  <2>1. e # End
    BY DEF IInv, TypeOK, Ids, End
  <2>2. updateFire
    BY <2>1 DEF Next, Client, update, Walk, eventAddEvent, eventRemoveEvents,
                eventRemoveAll, eventRemoveByPointer, RemoveFromObject,
                eventModifyTimeAndTimeLeft, DestroyObject, updateBegin,
                updateReap, updateNotDue, updateFired, updateEnd
  <2>3. ~event[e].deleted
    BY <2>2 DEF updateFire
  <2>4. e \in m_events[event[e].owner] /\ event[e].owner \in Objects
    BY <2>3 DEF IInv, Held, TypeOK, EventRecord
  <2>. QED
    BY <2>4 DEF IInv, Held
<1>. QED
  BY <1>1, Inductive, PTL DEF Spec, FiresOnlyWhileHeld
=============================================================================
