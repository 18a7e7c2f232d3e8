---------------------------- MODULE TimedEvents ----------------------------
(***************************************************************************)
(* The timed events of common/event_manager.h and event_table_object.cpp.  *)
(*                                                                         *)
(* A TimedEvent is reference counted by hand.  It is held by the multimap  *)
(* m_events of the EventableObject it was armed for and by the list        *)
(* m_events of the EventableObjectHolder that fires it.  Both containers   *)
(* drop their reference on their own: the object when it cancels the event *)
(* or is destroyed, the holder when it meets a deleted event or one that   *)
(* has fired for the last time.  A callback runs in the middle of the      *)
(* holder's walk over its list and may arm, cancel, retime or destroy      *)
(* anything, the event that is firing and its object included.             *)
(*                                                                         *)
(* There is one holder per process and every object answers -1 from        *)
(* eventGetInstanceID, so eventRelocate, instanceId and the flag           *)
(* DO_NOT_EXECUTE_IN_WORLD_CONTEXT (which no caller uses) are left out.    *)
(* Events are numbered in the order they are allocated.  The holder only   *)
(* ever pushes a new event at the back of its list, so the list is the set *)
(* of numbers it holds, walked in increasing order.                        *)
(***************************************************************************)
EXTENDS Integers

CONSTANTS
    Objects,      \* the EventableObjects
    Types,        \* eventType
    SingleTypes,  \* the types their owner arms only after hasEvent said no
    MaxEvents,    \* bound: TimedEvents allocated in one behaviour
    Intervals,    \* values of msTime
    Repeats,      \* values of repeats: n > 0 fires n times, n <= 0 for ever
    Frames        \* values of time_difference, the length of one server frame

ASSUME EventsAssumption ==
    /\ SingleTypes \subseteq Types
    /\ MaxEvents \in Nat
    /\ Intervals \subseteq Nat
    /\ Repeats \subseteq Int
    /\ Frames \subseteq Nat

VARIABLES
    count,     \* how many TimedEvents have been allocated
    event,     \* event[i]: the i-th TimedEvent
    alive,     \* the objects that have not been destroyed
    m_events,  \* m_events[o]: the events in the multimap of object o
    list,      \* the events in the list of the holder
    phase,     \* "idle", "walk" (inside update) or "callback"
    itr,       \* the iterator of update: the next event it will look at
    cur,       \* it2 of update: the event whose callback is running
    diff,      \* the argument time_difference of update
    fires      \* history: how often a bounded event's callback has run

vars == <<count, event, alive, m_events, list, phase, itr, cur, diff, fires>>

Ids == 1 .. count
End == 0       \* m_events.end(), and "no event" for cur

EventRecord ==
    [owner : Objects, type : Types, deletes : BOOLEAN, planned : Int,
     msTime : Nat, currTime : Nat, repeats : Int,
     deleted : BOOLEAN, ref : Int, freed : BOOLEAN]

-----------------------------------------------------------------------------
(* TimedEvent.                                                             *)

(* The constructor and the two incRef calls of eventAddEvent and of the    *)
(* holder's addEvent.  "planned" remembers the repeat argument, "deletes"  *)
(* is EVENT_FLAG_DELETES_OBJECT.                                           *)
NewEvent(o, t, time, repeat, deletes) ==
    [owner |-> o, type |-> t, deletes |-> deletes, planned |-> repeat,
     msTime |-> time, currTime |-> time, repeats |-> repeat,
     deleted |-> FALSE, ref |-> 2, freed |-> FALSE]

(* Faulty variant: the memory is released with the first reference.        *)
decRef_FreesEarly(ev) ==
    [ev EXCEPT !.deleted = TRUE, !.ref = @ - 1, !.freed = TRUE]

decRef(ev) ==
    [ev EXCEPT !.deleted = TRUE, !.ref = @ - 1, !.freed = (ev.ref <= 1)]

DecRefAll(S) == [e \in Ids |-> IF e \in S THEN decRef(event[e]) ELSE event[e]]

-----------------------------------------------------------------------------
(* EventableObject.  These run on the main thread, outside update or       *)
(* inside a callback that update makes.                                    *)

OfType(o, t) == {e \in m_events[o] : event[e].type = t}

eventHasEvent(o, t) == \E e \in OfType(o, t) : ~event[e].deleted

eventAddEvent(o, t, time, repeat, deletes) ==
    /\ phase # "walk"
    /\ o \in alive
    /\ t \in SingleTypes => ~eventHasEvent(o, t)
    /\ count < MaxEvents
    /\ count' = count + 1
    /\ event' = [e \in 1 .. count + 1 |->
                    IF e = count + 1 THEN NewEvent(o, t, time, repeat, deletes)
                                     ELSE event[e]]
    /\ fires' = [e \in 1 .. count + 1 |-> IF e = count + 1 THEN 0 ELSE fires[e]]
    /\ m_events' = [m_events EXCEPT ![o] = @ \cup {count + 1}]
    /\ list' = list \cup {count + 1}
    /\ UNCHANGED <<alive, phase, itr, cur, diff>>

RemoveFromObject(o, S) ==
    /\ phase # "walk"
    /\ o \in alive
    /\ S # {}
    /\ event' = DecRefAll(S)
    /\ m_events' = [m_events EXCEPT ![o] = @ \ S]
    /\ UNCHANGED <<count, alive, list, phase, itr, cur, diff, fires>>

eventRemoveEvents(o, t) == RemoveFromObject(o, OfType(o, t))

eventRemoveAll(o) == RemoveFromObject(o, m_events[o])

eventRemoveByPointer(o, e) == e \in m_events[o] /\ RemoveFromObject(o, {e})

eventModifyTimeAndTimeLeft(o, t, time) ==
    /\ phase # "walk"
    /\ o \in alive
    /\ event' = [e \in Ids |->
                    IF e \in OfType(o, t)
                      THEN [event[e] EXCEPT !.msTime = time, !.currTime = time]
                      ELSE event[e]]
    /\ UNCHANGED <<count, alive, m_events, list, phase, itr, cur, diff, fires>>

(* Faulty variant: the destructor clears the multimap without decRef.      *)
DestroyObject_NoDecRef(o) ==
    /\ phase # "walk"
    /\ o \in alive
    /\ alive' = alive \ {o}
    /\ m_events' = [m_events EXCEPT ![o] = {}]
    /\ UNCHANGED <<count, event, list, phase, itr, cur, diff, fires>>

(* ~EventableObject.                                                       *)
DestroyObject(o) ==
    /\ phase # "walk"
    /\ o \in alive
    /\ alive' = alive \ {o}
    /\ event' = DecRefAll(m_events[o])
    /\ m_events' = [m_events EXCEPT ![o] = {}]
    /\ UNCHANGED <<count, list, phase, itr, cur, diff, fires>>

-----------------------------------------------------------------------------
(* EventableObjectHolder::update, one iteration of its loop at a time.     *)

First(S) == IF S = {} THEN End ELSE CHOOSE e \in S : \A f \in S : e <= f

Successor(e) == First({f \in list : f > e})

updateBegin(time_difference) ==
    /\ phase = "idle"
    /\ phase' = "walk"
    /\ itr' = First(list)
    /\ diff' = time_difference
    /\ UNCHANGED <<count, event, alive, m_events, list, cur, fires>>

(* Faulty variant: the event leaves the list and keeps its reference.      *)
updateReap_NoDecRef ==
    /\ phase = "walk" /\ itr # End
    /\ event[itr].deleted
    /\ list' = list \ {itr}
    /\ itr' = Successor(itr)
    /\ UNCHANGED <<count, event, alive, m_events, phase, cur, diff, fires>>

(* A deleted event: the holder drops its reference.                        *)
updateReap ==
    /\ phase = "walk" /\ itr # End
    /\ event[itr].deleted
    /\ event' = [event EXCEPT ![itr] = decRef(@)]
    /\ list' = list \ {itr}
    /\ itr' = Successor(itr)
    /\ UNCHANGED <<count, alive, m_events, phase, cur, diff, fires>>

(* Faulty variant: the time is taken off before it is compared.            *)
updateNotDue_NoTest ==
    /\ phase = "walk" /\ itr # End
    /\ ~event[itr].deleted
    /\ event' = [event EXCEPT ![itr].currTime = @ - diff]
    /\ itr' = Successor(itr)
    /\ UNCHANGED <<count, alive, m_events, list, phase, cur, diff, fires>>

updateNotDue ==
    /\ phase = "walk" /\ itr # End
    /\ ~event[itr].deleted
    /\ event[itr].currTime > diff
    /\ event' = [event EXCEPT ![itr].currTime = @ - diff]
    /\ itr' = Successor(itr)
    /\ UNCHANGED <<count, alive, m_events, list, phase, cur, diff, fires>>

(* Events that stop by themselves.                                         *)
Bounded(ev) == ev.deletes \/ ev.planned > 0

(* ev->cb->execute() begins: the iterator already points at the next event *)
(* and everything else waits until the callback returns.                   *)
updateFire ==
    /\ phase = "walk" /\ itr # End
    /\ ~event[itr].deleted
    /\ event[itr].currTime <= diff
    /\ phase' = "callback"
    /\ cur' = itr
    /\ itr' = Successor(itr)
    /\ fires' = [fires EXCEPT ![itr] = IF Bounded(event[itr]) THEN @ + 1 ELSE @]
    /\ UNCHANGED <<count, event, alive, m_events, list, diff>>

(* Faulty variant: the counter is compared before it is decremented.       *)
LastFiring_OffByOne(ev) == ev.deletes \/ ev.repeats = 0 \/ ev.deleted

(* The callback was the last one of the event, or has cancelled it.        *)
LastFiring(ev) == ev.deletes \/ ev.repeats = 1 \/ ev.deleted

(* The event waits for its next firing.  A negative counter is decremented *)
(* too and never comes to zero: it is left as it is.                       *)
Rearm(ev) ==
    [ev EXCEPT !.repeats = IF ev.repeats > 0 THEN ev.repeats - 1 ELSE ev.repeats,
               !.currTime = ev.msTime]

(* The callback returns.                                                   *)
updateFired ==
    /\ phase = "callback"
    /\ phase' = "walk"
    /\ cur' = End
    /\ \/ /\ LastFiring(event[cur])
          /\ event' = [event EXCEPT ![cur] = decRef(@)]
          /\ list' = list \ {cur}
       \/ /\ ~LastFiring(event[cur])
          /\ event' = [event EXCEPT ![cur] = Rearm(event[cur])]
          /\ UNCHANGED list
    /\ UNCHANGED <<count, alive, m_events, itr, diff, fires>>

updateEnd ==
    /\ phase = "walk" /\ itr = End
    /\ phase' = "idle"
    /\ diff' = 0
    /\ UNCHANGED <<count, event, alive, m_events, list, itr, cur, fires>>

-----------------------------------------------------------------------------
Init ==
    /\ count = 0
    /\ event = <<>>
    /\ alive = Objects
    /\ m_events = [o \in Objects |-> {}]
    /\ list = {}
    /\ phase = "idle"
    /\ itr = End
    /\ cur = End
    /\ diff = 0
    /\ fires = <<>>

Client ==
    \E o \in Objects :
        \/ \E t \in Types, time \in Intervals, repeat \in Repeats,
              deletes \in BOOLEAN : eventAddEvent(o, t, time, repeat, deletes)
        \/ \E t \in Types : eventRemoveEvents(o, t)
        \/ eventRemoveAll(o)
        \/ \E e \in m_events[o] : eventRemoveByPointer(o, e)
        \/ \E t \in Types, time \in Intervals :
              eventModifyTimeAndTimeLeft(o, t, time)
        \/ DestroyObject(o)

Walk == updateReap \/ updateNotDue \/ updateFire \/ updateFired \/ updateEnd

update == Walk \/ \E d \in Frames : updateBegin(d)

Next == Client \/ update

Spec == Init /\ [][Next]_vars

(* The main loop calls update once per frame and callbacks return.  What   *)
(* the program arms, cancels or retimes is up to the program.              *)
FairSpec == Spec /\ WF_vars(Walk) /\ WF_vars(\E d \in Frames : updateBegin(d))

-----------------------------------------------------------------------------
(* Every variable holds a value of its type; no remaining time is negative *)
(* (currTime is unsigned: update must not subtract more than is left).     *)
TypeOK ==
    /\ count \in Nat
    /\ event \in [Ids -> EventRecord]
    /\ alive \in SUBSET Objects
    /\ m_events \in [Objects -> SUBSET Ids]
    /\ list \in SUBSET Ids
    /\ phase \in {"idle", "walk", "callback"}
    /\ itr \in Ids \cup {End}
    /\ cur \in Ids \cup {End}
    /\ diff \in Nat
    /\ fires \in [Ids -> Nat]

(* No container, no iterator and no running callback refers to an event    *)
(* whose memory decRef has released, whatever callbacks cancel or destroy  *)
(* while update walks its list.                                            *)
NoUseAfterFree ==
    \A e \in Ids : event[e].freed =>
        /\ \A o \in Objects : e \notin m_events[o]
        /\ e \notin list
        /\ e # itr
        /\ e # cur

(* A callback starts only while the object it was armed for exists and     *)
(* still holds the event: cancelling an event or destroying its object     *)
(* stops it even when the event is due in the same walk of update.         *)
FiresOnlyWhileHeld ==
    [][\A e \in Ids : (cur' = e /\ cur # e) =>
          /\ event[e].owner \in alive
          /\ e \in m_events[event[e].owner]]_vars

(* An event armed for n repetitions fires at most n times, and one armed   *)
(* with EVENT_FLAG_DELETES_OBJECT at most once, also when its own callback *)
(* retimes it.                                                             *)
FiresAtMostPlanned ==
    \A e \in Ids :
        /\ event[e].planned > 0 => fires[e] <= event[e].planned
        /\ event[e].deletes => fires[e] <= 1

(* An event its object has let go of is released: the holder drops its own *)
(* reference at the latest in its next walk.                               *)
CancelledIsFreed ==
    \A e \in 1 .. MaxEvents :
        (e \in Ids /\ \A o \in Objects : e \notin m_events[o])
            ~> (e \in Ids /\ event[e].freed)

(* The inductive invariant behind the three properties above.  An event    *)
(* has one reference per container that holds it, and is released with     *)
(* the last one; an event not marked deleted is still held by both; the    *)
(* iterator and the running event are in the list, the iterator behind     *)
(* the running event.                                                      *)
RefCount ==
    \A e \in Ids :
        /\ event[e].ref = (IF e \in m_events[event[e].owner] THEN 1 ELSE 0)
                            + (IF e \in list THEN 1 ELSE 0)
        /\ event[e].freed <=> event[e].ref = 0

Held ==
    /\ \A o \in Objects : \A e \in m_events[o] :
          event[e].owner = o /\ o \in alive
    /\ \A e \in Ids : ~event[e].deleted =>
          e \in list /\ e \in m_events[event[e].owner]

Iterators ==
    /\ itr # End => itr \in list
    /\ cur # End => cur \in list /\ (itr = End \/ itr > cur)
    /\ phase = "callback" <=> cur # End

(* A bounded event in the list has used up exactly its past firings.       *)
Countdown ==
    \A e \in list :
        LET running == IF cur = e THEN 1 ELSE 0 IN
        /\ event[e].planned > 0 => /\ event[e].repeats > 0
                                   /\ fires[e] + event[e].repeats
                                         = event[e].planned + running
        /\ event[e].deletes => fires[e] = running

IInv == TypeOK /\ RefCount /\ Held /\ Iterators /\ Countdown /\ FiresAtMostPlanned

(* EVENT_FLAG_DELETES_OBJECT, by the comment on it: "delete the event      *)
(* object after execution".                                                *)
DeletedAfterExecution ==
    \A e \in Ids :
        event[e].deletes /\ fires[e] > 0 /\ cur # e => event[e].freed
=============================================================================
