----------------------------- MODULE TicketLife -----------------------------
(***************************************************************************)
(* What the gate promises for a ticket, whatever its clients, its timers   *)
(* and the other servers do in between.  A ticket comes from the login     *)
(* server, waits for its client, is held by one session, which may lose    *)
(* its connection and leave it to a reconnect, and ends once and for all.  *)
(* It never goes from one session to another but through a reconnect       *)
(* window, and who reconnects is back on the game server he was on.        *)
(*                                                                         *)
(* Several tickets may move in one step: a lost link ends all the tickets  *)
(* it carried.                                                             *)
(***************************************************************************)
CONSTANTS Tickets, Sessions, Games, None

VARIABLES
    place,    \* place[t]: where the ticket is
    holder,   \* holder[t]: the session that holds it, or None
    server    \* server[t]: the game server its user is on or comes back to

vars == <<place, holder, server>>

Places == {"new", "coming", "waiting", "held", "window", "gone"}

Init ==
    /\ place = [t \in Tickets |-> "new"]
    /\ holder = [t \in Tickets |-> None]
    /\ server = [t \in Tickets |-> None]

Becomes(t, p, h, g) == place'[t] = p /\ holder'[t] = h /\ server'[t] = g

Stays(t) == Becomes(t, place[t], holder[t], server[t])

Issue(t) == place[t] = "new" /\ Becomes(t, "coming", None, None)

Arrive(t) == place[t] = "coming" /\ Becomes(t, "waiting", None, None)

Admit(t, s, g) == place[t] = "waiting" /\ Becomes(t, "held", s, g)

ChangeServer(t, g) == place[t] = "held" /\ Becomes(t, "held", holder[t], g)

Suspend(t) == place[t] = "held" /\ Becomes(t, "window", None, server[t])

Resume(t, s) == place[t] = "window" /\ Becomes(t, "held", s, server[t])

End(t) == place[t] \notin {"new", "gone"} /\ Becomes(t, "gone", None, None)

Moves(t) ==
    \/ Stays(t) \/ Issue(t) \/ Arrive(t) \/ Suspend(t) \/ End(t)
    \/ \E s \in Sessions : Resume(t, s)
    \/ \E g \in Games : ChangeServer(t, g) \/ \E s \in Sessions : Admit(t, s, g)

Next ==
    /\ place' \in [Tickets -> Places]
    /\ holder' \in [Tickets -> Sessions \cup {None}]
    /\ server' \in [Tickets -> Games \cup {None}]
    /\ \A t \in Tickets : Moves(t)

Spec == Init /\ [][Next]_vars
=============================================================================
