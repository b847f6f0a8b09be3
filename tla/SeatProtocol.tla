---------------------------- MODULE SeatProtocol ----------------------------
(***************************************************************************)
(* How a session comes to sit in a room, as its client can rely on it.  It *)
(* asks for a ticket and may be granted one, the only one for that seat    *)
(* until it is used or void.  A socket of the session uses it while nobody *)
(* has the seat, and then takes the seat.  From then on another socket of  *)
(* the session may take the seat without a ticket.  A socket takes a seat  *)
(* once: one that has lost it does not come back.  A seat may be lost at   *)
(* any time.                                                               *)
(***************************************************************************)
CONSTANTS Room, Session, Conn, Request, None

VARIABLES ticket,   \* of each request: its stage, and the seat it asks for
          socket,   \* of each socket: its seat, the ticket it has used, its stage
          seat      \* who sits there

vars == <<ticket, socket, seat>>

Init ==
    /\ ticket = [q \in Request |-> [stage |-> "free", room |-> None, session |-> None]]
    /\ socket = [c \in Conn |-> [stage |-> "new", room |-> None, session |-> None, ticket |-> None]]
    /\ seat = [r \in Room |-> [s \in Session |-> None]]

OfSeat(k, r, s) == k.room = r /\ k.session = s

Ask(q, r, s) ==
    /\ ticket[q].stage = "free"
    /\ ticket' = [ticket EXCEPT ![q] = [stage |-> "asked", room |-> r, session |-> s]]
    /\ UNCHANGED <<socket, seat>>

Refuse(q) ==
    /\ ticket[q].stage = "asked"
    /\ ticket' = [ticket EXCEPT ![q].stage = "void"]
    /\ UNCHANGED <<socket, seat>>

\* The seat is free; a ticket granted for it before is void.
Grant(q) ==
    LET r == ticket[q].room
        s == ticket[q].session
    IN  /\ ticket[q].stage = "asked"
        /\ seat[r][s] = None
        /\ ticket' = [p \in Request |->
                        IF p = q THEN [ticket[q] EXCEPT !.stage = "granted"]
                        ELSE IF OfSeat(ticket[p], r, s) /\ ticket[p].stage = "granted"
                             THEN [ticket[p] EXCEPT !.stage = "void"]
                             ELSE ticket[p]]
        /\ UNCHANGED <<socket, seat>>

\* The ticket is void, and whoever sits there loses the seat.
Expire(q) ==
    /\ ticket[q].stage = "granted"
    /\ ticket' = [ticket EXCEPT ![q].stage = "void"]
    /\ seat' = [seat EXCEPT ![ticket[q].room][ticket[q].session] = None]
    /\ UNCHANGED socket

Open(c, r, s) ==
    /\ socket[c].stage = "new"
    /\ socket' = [socket EXCEPT ![c] = [stage |-> "standing", room |-> r, session |-> s, ticket |-> None]]
    /\ UNCHANGED <<ticket, seat>>

Use(c, q) ==
    /\ ticket[q].stage = "granted"
    /\ OfSeat(socket[c], ticket[q].room, ticket[q].session)
    /\ socket[c].stage = "standing" /\ socket[c].ticket = None
    /\ seat[socket[c].room][socket[c].session] = None
    /\ ticket' = [ticket EXCEPT ![q].stage = "used"]
    /\ socket' = [socket EXCEPT ![c].ticket = q]
    /\ UNCHANGED seat

\* A socket that has used a ticket for the seat has sat there.
Opened(r, s) == \E d \in Conn : socket[d].stage = "sat" /\ socket[d].ticket # None /\ OfSeat(socket[d], r, s)

Take(c) ==
    LET r == socket[c].room
        s == socket[c].session
    IN  /\ socket[c].stage = "standing"
        /\ socket[c].ticket # None \/ Opened(r, s)
        /\ socket' = [socket EXCEPT ![c].stage = "sat"]
        /\ seat' = [seat EXCEPT ![r][s] = c]
        /\ UNCHANGED ticket

Lose(r, S) ==
    /\ seat' = [seat EXCEPT ![r] = [s \in Session |-> IF s \in S THEN None ELSE @[s]]]
    /\ UNCHANGED <<ticket, socket>>

Next ==
    \/ \E q \in Request :
         \/ \E r \in Room, s \in Session : Ask(q, r, s)
         \/ Refuse(q) \/ Grant(q) \/ Expire(q)
    \/ \E c \in Conn :
         \/ \E r \in Room, s \in Session : Open(c, r, s)
         \/ \E q \in Request : Use(c, q)
         \/ Take(c)
    \/ \E r \in Room, S \in SUBSET Session : Lose(r, S)

Spec == Init /\ [][Next]_vars
=============================================================================
