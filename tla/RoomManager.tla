----------------------------- MODULE RoomManager -----------------------------
(***************************************************************************)
(* Seats, clients and rooms of one magx process: the RoomManager of        *)
(* packages/core/src/rooms.ts with the parts of Room, Client, Server and   *)
(* LocalCache its handlers work on.                                        *)
(*                                                                         *)
(* A session gets a seat in a room in two halves.  An HTTP request (create *)
(* or join) reserves it: room.clients maps the session to null and a timer *)
(* will take the seat back.  A websocket of the session then redeems the   *)
(* reservation, answers "joined", and becomes the session's client.  A     *)
(* websocket of a session that already has a client answers "reconnected"  *)
(* and takes the seat over.  Every handler is an async function: an action *)
(* below is the code between two awaits, and whatever is pending after it  *)
(* is a stage of a request, of a connection or of a room.                  *)
(***************************************************************************)
EXTENDS Naturals, FiniteSets

CONSTANTS
    Room,          \* the room objects that may ever be created
    Session,       \* session ids (IAuth.id)
    Conn,          \* websockets, each with its server-side Client object
    Request,       \* create and join requests; each owns at most one reservation
    None,          \* no entry in a Map
    Null,          \* the null entry of room.clients: a seat without a client
    HooksSuspend,  \* TRUE: awaited hooks and caches let other events in
    Exclusive,     \* TRUE: a session uses a room with one socket at a time
    WaitSeconds,   \* seconds onLeave waits for a reconnection, 0: it does not
    MaxRemovals    \* bound: lock() and closeRoom() run while fewer removals are pending

ASSUME NamesDiffer ==
    /\ None \notin Conn \cup Request \cup {Null}
    /\ Null \notin Conn

ASSUME ParametersTyped ==
    /\ HooksSuspend \in BOOLEAN
    /\ Exclusive \in BOOLEAN
    /\ WaitSeconds \in Nat
    /\ MaxRemovals \in Nat

VARIABLES
    room,      \* Room object: is it in the rooms map, its host and flags
    clients,   \* room.clients
    reserved,  \* reservedSeats: the request whose options and timer an entry holds
    request,   \* create and join requests, with the timer of their reservation
    conn,      \* sockets and their Client objects
    tracking,  \* room.disposers: the connection the patches of a session go to
    cache,     \* the rooms cache
    closing,   \* calls of removeRoom that wait for room.onClose
    deleting   \* calls of removeRoom that wait for cache.remove

vars == <<room, clients, reserved, request, conn, tracking, cache, closing, deleting>>

RoomStage == {"none", "creating", "failed", "registered", "removed"}

RequestStage == {"unused", "creating", "authorizing", "refused", "armed", "redeemed", "expired"}

ConnStage == {"idle", "verifying", "rejected", "refused", "awaitJoined",
              "awaitReconnected", "joining", "established"}

RoomRecord ==
    [stage : RoomStage, host : Session \cup {None}, locked : BOOLEAN, terminated : BOOLEAN]

RequestRecord == [stage : RequestStage, room : Room \cup {None}, session : Session \cup {None}]

ConnRecord ==
    [stage : ConnStage, room : Room \cup {None}, session : Session \cup {None},
     socket : {"none", "open", "closing", "closed"},
     status : {"connecting", "connected", "disconnected", "reconnected"},
     via : Request \cup {None},                      \* the reservation it redeemed
     leave : {"no", "waiting", "leaving", "done"},    \* its onClientDisconnected
     left : 0..WaitSeconds]                           \* seconds of its waitReconnection

CacheRecord ==
    [state : {"never", "listed", "removed"}, clients : SUBSET Session, locked : BOOLEAN]

VariablesTyped ==
    /\ room \in [Room -> RoomRecord]
    /\ clients \in [Room -> [Session -> Conn \cup {Null, None}]]
    /\ reserved \in [Room -> [Session -> Request \cup {None}]]
    /\ request \in [Request -> RequestRecord]
    /\ conn \in [Conn -> ConnRecord]
    /\ tracking \in [Room -> [Session -> Conn \cup {None}]]
    /\ cache \in [Room -> CacheRecord]
    /\ closing \in [Room -> Nat]
    /\ deleting \in [Room -> Nat]

\* A request and a socket in use belong to a session and a room.
Placed ==
    /\ \A q \in Request : request[q].stage # "unused" =>
         request[q].room \in Room /\ request[q].session \in Session
    /\ \A c \in Conn : conn[c].stage # "idle" =>
         conn[c].room \in Room /\ conn[c].session \in Session

TypeOK == VariablesTyped /\ Placed

Init ==
    /\ room = [r \in Room |-> [stage |-> "none", host |-> None,
                               locked |-> FALSE, terminated |-> FALSE]]
    /\ clients = [r \in Room |-> [s \in Session |-> None]]
    /\ reserved = [r \in Room |-> [s \in Session |-> None]]
    /\ request = [q \in Request |-> [stage |-> "unused", room |-> None, session |-> None]]
    /\ conn = [c \in Conn |-> [stage |-> "idle", room |-> None, session |-> None,
                               socket |-> "none", status |-> "connecting", via |-> None,
                               leave |-> "no", left |-> 0]]
    /\ tracking = [r \in Room |-> [s \in Session |-> None]]
    /\ cache = [r \in Room |-> [state |-> "never", clients |-> {}, locked |-> FALSE]]
    /\ closing = [r \in Room |-> 0]
    /\ deleting = [r \in Room |-> 0]

-----------------------------------------------------------------------------
(* Shared pieces of the handlers. *)

\* The rooms map.
rooms == {r \in Room : room[r].stage = "registered"}

\* The sessions with an entry in room.clients, reserved seats included, before
\* and after a handler's change.
Keys(r) == {s \in Session : clients[r][s] # None}
KeysAfter(r) == {s \in Session : clients'[r][s] # None}

\* The balancer finds the process of a room through the cache, so only rooms
\* that have been written there receive requests and sockets.
Announced(r) == cache[r].state # "never"

\* With resolved hooks and the in-memory cache every continuation is a
\* microtask: it runs before the next timer, socket or HTTP event.
Pending ==
    \/ \E q \in Request : request[q].stage \in {"creating", "authorizing"}
    \/ \E c \in Conn : conn[c].stage \in {"verifying", "joining"} \/ conn[c].leave = "leaving"
    \/ \E r \in Room : closing[r] + deleting[r] > 0

NextEvent == HooksSuspend \/ ~Pending

\* Under Exclusive a session uses a room only while the server holds no
\* earlier socket of it there; otherwise a client may be back before the
\* server has seen its old socket close.
MayUse(s, r) ==
    Exclusive => \A c \in Conn :
        conn[c].session = s /\ conn[c].room = r => conn[c].socket = "closed"

\* Mutant: the room object is written before the handler changes the room.
RelistEarly(r) ==
    cache' = [cache EXCEPT ![r] = [state |-> "listed", clients |-> Keys(r),
                                   locked |-> room[r].locked]]

\* cache.set(room.id, room.toObject()), after the handler changed the room.
Relist(r) ==
    cache' = [cache EXCEPT ![r] = [state |-> "listed", clients |-> KeysAfter(r),
                                   locked |-> room'[r].locked]]

\* Mutant: a room without clients is kept and listed like any other.
RelistEmpty(r) == Relist(r) /\ UNCHANGED closing

\* The tail of removeRoomClient, of updateCache and of the reservation timer.
RemoveIfEmpty(r) ==
    IF KeysAfter(r) = {}
    THEN closing' = [closing EXCEPT ![r] = @ + 1] /\ UNCHANGED cache
    ELSE Relist(r) /\ UNCHANGED closing

RemoveRoomClient(r, s) ==
    /\ clients' = [clients EXCEPT ![r][s] = None]
    /\ RemoveIfEmpty(r)

\* A Client object after terminate(); a socket that is gone stays gone.
Terminated(k) == IF k.socket = "open" THEN [k EXCEPT !.socket = "closing"] ELSE k

\* Mutants: the entry of reservedSeats is kept; any session counts as expected.
ReservationKept(r, s) == UNCHANGED reserved
AnySessionExpected(r, s) == r \in rooms

\* reservedSeats.delete and reservedSeats.has.
DropReservation(r, s) == reserved' = [reserved EXCEPT ![r][s] = None]
HasReservation(r, s) == reserved[r][s] # None

\* Mutant: clearTimeout is forgotten when the reservation is redeemed.
TimerNotCleared(q) == request[q].stage \in {"armed", "redeemed"}

\* The reservation timer can still fire.
TimerArmed(q) == request[q].stage = "armed"

\* Mutant: the disposer of the session is not removed.
TrackingKept(r, s) == UNCHANGED tracking

\* stopTracking: the disposer is found by the session id, whoever owns it.
StopTracking(r, s) == tracking' = [tracking EXCEPT ![r][s] = None]

\* Mutant: rooms.delete is forgotten.
RoomKept(r) == UNCHANGED room

\* rooms.delete, whatever the room holds now.
ForgetRoom(r) == room' = [room EXCEPT ![r].stage = "removed"]

\* Socket c takes the seat.  startTracking keeps an older disposer of the id.
SetRoomClient(c) ==
    LET r == conn[c].room
        s == conn[c].session
    IN  /\ clients' = [clients EXCEPT ![r][s] = c]
        /\ tracking' = [tracking EXCEPT ![r][s] = IF @ = None THEN c ELSE @]

-----------------------------------------------------------------------------
(* HTTP requests. *)

\* createRoom up to room.onCreate: a new room object, hosted by the session.
CreateRoom(r, s, q) ==
    /\ NextEvent
    /\ room[r].stage = "none"
    /\ request[q].stage = "unused"
    /\ room' = [room EXCEPT ![r] = [@ EXCEPT !.stage = "creating", !.host = s]]
    /\ request' = [request EXCEPT ![q] = [stage |-> "creating", room |-> r, session |-> s]]
    /\ UNCHANGED <<clients, reserved, conn, tracking, cache, closing, deleting>>

CreateFailed(q) ==
    /\ request[q].stage = "creating"
    /\ room' = [room EXCEPT ![request[q].room].stage = "failed"]
    /\ request' = [request EXCEPT ![q].stage = "refused"]
    /\ UNCHANGED <<clients, reserved, conn, tracking, cache, closing, deleting>>

\* onCreate is done: the room is registered and its creator joins it.
RoomCreated(q) ==
    /\ request[q].stage = "creating"
    /\ room' = [room EXCEPT ![request[q].room].stage = "registered"]
    /\ request' = [request EXCEPT ![q].stage =
                     IF room[request[q].room].locked THEN "refused" ELSE "authorizing"]
    /\ UNCHANGED <<clients, reserved, conn, tracking, cache, closing, deleting>>

\* joinRoom up to room.onAuth.  A request of a member changes nothing.
JoinRoom(q, r, s) ==
    /\ NextEvent
    /\ request[q].stage = "unused"
    /\ r \in rooms
    /\ Announced(r)
    /\ ~room[r].locked
    /\ clients[r][s] \in {None, Null}
    /\ MayUse(s, r)
    /\ request' = [request EXCEPT ![q] = [stage |-> "authorizing", room |-> r, session |-> s]]
    /\ UNCHANGED <<room, clients, reserved, conn, tracking, cache, closing, deleting>>

AuthFailed(q) ==
    /\ request[q].stage = "authorizing"
    /\ request' = [request EXCEPT ![q].stage = "refused"]
    /\ UNCHANGED <<room, clients, reserved, conn, tracking, cache, closing, deleting>>

\* reserveSeat's checks: the room is registered, the session has no entry.
SeatFree(r, s) == r \in rooms /\ clients[r][s] = None

\* onAuth is done: reserveSeat takes the seat and arms the reservation timer.
ReserveSeat(q) ==
    LET r == request[q].room
        s == request[q].session
    IN  /\ request[q].stage = "authorizing"
        /\ SeatFree(r, s)
        /\ clients' = [clients EXCEPT ![r][s] = Null]
        /\ reserved' = [reserved EXCEPT ![r][s] = q]
        /\ request' = [request EXCEPT ![q].stage = "armed"]
        /\ UNCHANGED room
        /\ Relist(r)
        /\ UNCHANGED <<conn, tracking, closing, deleting>>

\* reserveSeat throws; nobody awaits it, joinRoom answers as if it had worked.
ReserveSeatThrows(q) ==
    /\ request[q].stage = "authorizing"
    /\ ~SeatFree(request[q].room, request[q].session)
    /\ request' = [request EXCEPT ![q].stage = "refused"]
    /\ UNCHANGED <<room, clients, reserved, conn, tracking, cache, closing, deleting>>

\* The reservation timer deletes whatever entries the session has by now.
ReservationTimeout(q) ==
    LET r == request[q].room
        s == request[q].session
    IN  /\ NextEvent
        /\ TimerArmed(q)
        /\ request' = [request EXCEPT ![q].stage = "expired"]
        /\ DropReservation(r, s)
        /\ UNCHANGED room
        /\ RemoveRoomClient(r, s)
        /\ UNCHANGED <<conn, tracking, deleting>>

\* updateRoom by the host: it can lock a room, and hand it over, not unlock it.
UpdateRoom(s, r, lock, host) ==
    /\ NextEvent
    /\ r \in rooms
    /\ Announced(r)
    /\ room[r].host = s
    /\ room' = [room EXCEPT ![r] = [@ EXCEPT !.locked = lock \/ @, !.host = host]]
    /\ UNCHANGED clients
    /\ Relist(r)
    /\ UNCHANGED <<reserved, request, conn, tracking, closing, deleting>>

\* leaveRoom: onLeave is called and not awaited; the socket stays open.
LeaveRoom(s, r) ==
    /\ NextEvent
    /\ r \in rooms
    /\ Announced(r)
    /\ clients[r][s] \in Conn
    /\ StopTracking(r, s)
    /\ UNCHANGED room
    /\ RemoveRoomClient(r, s)
    /\ UNCHANGED <<reserved, request, conn, deleting>>

\* closeRoom by the host.  Seats without a client are skipped, reservations
\* and their timers stay.
CloseRoom(s, r) ==
    LET seated == {c \in Conn : \E t \in Session : clients[r][t] = c}
    IN  /\ NextEvent
        /\ r \in rooms
        /\ Announced(r)
        /\ room[r].host = s
        /\ closing[r] + deleting[r] < MaxRemovals
        /\ room' = [room EXCEPT ![r].terminated = TRUE]
        /\ conn' = [c \in Conn |-> IF c \in seated THEN Terminated(conn[c]) ELSE conn[c]]
        /\ tracking' = [tracking EXCEPT ![r] =
                          [t \in Session |-> IF clients[r][t] \in Conn THEN None ELSE @[t]]]
        /\ clients' = [clients EXCEPT ![r] = [t \in Session |-> None]]
        /\ closing' = [closing EXCEPT ![r] = @ + 1]
        /\ UNCHANGED <<reserved, request, cache, deleting>>

-----------------------------------------------------------------------------
(* Rooms. *)

\* lock() and unlock(), called by the code of the room, also from inside its
\* hooks, end in updateCache.
SetLocked(r, b) ==
    /\ room[r].stage \in {"creating", "registered", "removed"}
    /\ closing[r] + deleting[r] < MaxRemovals
    /\ room' = [room EXCEPT ![r].locked = b]
    /\ UNCHANGED clients
    /\ RemoveIfEmpty(r)
    /\ UNCHANGED <<reserved, request, conn, tracking, deleting>>

\* Mutant: cache.remove is forgotten.
ListingKept(r) ==
    /\ closing[r] > 0
    /\ closing' = [closing EXCEPT ![r] = @ - 1]
    /\ deleting' = [deleting EXCEPT ![r] = @ + 1]
    /\ UNCHANGED <<room, clients, reserved, request, conn, tracking, cache>>

\* removeRoom after onClose: cache.remove.  LocalCache never settles the
\* promise for a key it does not hold, and that call ends there.
RoomClosed(r) ==
    /\ closing[r] > 0
    /\ closing' = [closing EXCEPT ![r] = @ - 1]
    /\ IF cache[r].state = "listed"
       THEN /\ cache' = [cache EXCEPT ![r] = [state |-> "removed", clients |-> {},
                                              locked |-> FALSE]]
            /\ deleting' = [deleting EXCEPT ![r] = @ + 1]
       ELSE UNCHANGED <<cache, deleting>>
    /\ UNCHANGED <<room, clients, reserved, request, conn, tracking>>

\* removeRoom after cache.remove.
RoomDeleted(r) ==
    /\ deleting[r] > 0
    /\ deleting' = [deleting EXCEPT ![r] = @ - 1]
    /\ ForgetRoom(r)
    /\ UNCHANGED <<clients, reserved, request, conn, tracking, cache, closing>>

-----------------------------------------------------------------------------
(* Sockets. *)

\* A websocket opens; the server starts to verify its token.
Connect(c, s, r) ==
    /\ NextEvent
    /\ conn[c].stage = "idle"
    /\ Announced(r)
    /\ MayUse(s, r)
    /\ conn' = [conn EXCEPT ![c] = [@ EXCEPT !.stage = "verifying", !.socket = "open",
                                              !.room = r, !.session = s]]
    /\ UNCHANGED <<room, clients, reserved, request, tracking, cache, closing, deleting>>

\* No session has this token: the client stays without an id.
VerifyFailed(c) ==
    /\ conn[c].stage = "verifying"
    /\ conn' = [conn EXCEPT ![c] = Terminated([@ EXCEPT !.stage = "rejected"])]
    /\ UNCHANGED <<room, clients, reserved, request, tracking, cache, closing, deleting>>

\* onClientConnected for an unknown room, or for a session without a seat.
ConnectRefused(c) ==
    LET r == conn[c].room
        s == conn[c].session
    IN  /\ conn[c].stage = "verifying"
        /\ \/ r \notin rooms
           \/ clients[r][s] \notin Conn /\ ~HasReservation(r, s)
        /\ conn' = [conn EXCEPT ![c] = Terminated([@ EXCEPT !.stage = "refused"])]
        /\ UNCHANGED <<room, clients, reserved, request, tracking, cache, closing, deleting>>

\* onClientConnected for a session with a client: an earlier socket that is
\* still connected is terminated, "reconnected" will take the seat over.
ConnectReturning(c) ==
    LET old == clients[conn[c].room][conn[c].session]
    IN  /\ conn[c].stage = "verifying"
        /\ conn[c].room \in rooms
        /\ old \in Conn
        /\ conn' = [conn EXCEPT ![c].stage = "awaitReconnected",
                                ![old] = IF @.status # "disconnected" THEN Terminated(@) ELSE @]
        /\ UNCHANGED <<room, clients, reserved, request, tracking, cache, closing, deleting>>

\* onClientConnected with a reservation: its timer and its entry are disposed.
ConnectSeated(c) ==
    LET r == conn[c].room
        s == conn[c].session
    IN  /\ conn[c].stage = "verifying"
        /\ r \in rooms
        /\ clients[r][s] \notin Conn
        /\ HasReservation(r, s)
        /\ request' = [request EXCEPT ![reserved[r][s]].stage = "redeemed"]
        /\ DropReservation(r, s)
        /\ conn' = [conn EXCEPT ![c] = [@ EXCEPT !.stage = "awaitJoined", !.via = reserved[r][s]]]
        /\ UNCHANGED <<room, clients, tracking, cache, closing, deleting>>

\* Mutant: only a returning client is timed.
ReturningTimed(c) == conn[c].stage = "awaitReconnected"

\* The client has been told to answer and has not.
AwaitsAnswer(c) == conn[c].stage \in {"awaitJoined", "awaitReconnected"}

\* The connection timer, armed until the client answers; it can only close.
ConnectionTimeout(c) ==
    /\ NextEvent
    /\ AwaitsAnswer(c)
    /\ conn[c].socket = "open"
    /\ conn' = [conn EXCEPT ![c] = Terminated(@)]
    /\ UNCHANGED <<room, clients, reserved, request, tracking, cache, closing, deleting>>

\* A closing socket still delivers what was under way.
Delivers(c) == conn[c].socket \in {"open", "closing"}

\* The client answered "joined": room.onJoin is called.
Joined(c) ==
    /\ NextEvent
    /\ conn[c].stage = "awaitJoined"
    /\ Delivers(c)
    /\ conn' = [conn EXCEPT ![c].stage = "joining"]
    /\ UNCHANGED <<room, clients, reserved, request, tracking, cache, closing, deleting>>

JoinFailed(c) ==
    /\ conn[c].stage = "joining"
    /\ conn' = [conn EXCEPT ![c] = Terminated([@ EXCEPT !.stage = "refused"])]
    /\ UNCHANGED <<room, clients, reserved, request, tracking, cache, closing, deleting>>

\* onJoin is done: the socket takes the seat, whatever happened meanwhile.
JoinDone(c) ==
    /\ conn[c].stage = "joining"
    /\ SetRoomClient(c)
    /\ conn' = [conn EXCEPT ![c] = [@ EXCEPT !.stage = "established", !.status = "connected"]]
    /\ UNCHANGED <<room, reserved, request, cache, closing, deleting>>

\* The client answered "reconnected".
Reconnected(c) ==
    /\ NextEvent
    /\ conn[c].stage = "awaitReconnected"
    /\ Delivers(c)
    /\ SetRoomClient(c)
    /\ conn' = [conn EXCEPT ![c] = [@ EXCEPT !.stage = "established", !.status = "reconnected"]]
    /\ UNCHANGED <<room, reserved, request, cache, closing, deleting>>

-----------------------------------------------------------------------------
(* onClientDisconnected and waitReconnection. *)

\* Without a verified session the Client object has no id.
HasId(c) == conn[c].stage \notin {"verifying", "rejected"}

Closed(k) == [k EXCEPT !.socket = "closed", !.status = "disconnected"]

\* The room is not registered (any more).
DisconnectNoRoom(c) ==
    /\ NextEvent
    /\ Delivers(c)
    /\ conn[c].room \notin rooms
    /\ conn' = [conn EXCEPT ![c] = Closed(@)]
    /\ UNCHANGED <<room, clients, reserved, request, tracking, cache, closing, deleting>>

\* A socket without an id: nothing to delete, the room is settled all the same.
DisconnectNoId(c) ==
    /\ NextEvent
    /\ Delivers(c)
    /\ conn[c].room \in rooms
    /\ ~HasId(c)
    /\ conn' = [conn EXCEPT ![c] = Closed(@)]
    /\ UNCHANGED <<room, clients>>
    /\ RemoveIfEmpty(conn[c].room)
    /\ UNCHANGED <<reserved, request, tracking, deleting>>

\* The session has no client: its seat, whosever reservation it is, is freed.
DisconnectNoClient(c) ==
    LET r == conn[c].room
        s == conn[c].session
    IN  /\ NextEvent
        /\ Delivers(c)
        /\ r \in rooms
        /\ HasId(c)
        /\ clients[r][s] \notin Conn
        /\ conn' = [conn EXCEPT ![c] = Closed(@)]
        /\ StopTracking(r, s)
        /\ UNCHANGED room
        /\ RemoveRoomClient(r, s)
        /\ UNCHANGED <<reserved, request, deleting>>

\* onLeave waits for a reconnection when the close is not consented;
\* waitReconnection throws at once in a terminated room.
Waits(r, consented) == ~consented /\ WaitSeconds > 0 /\ ~room[r].terminated

\* The session has a client, this one or its successor: onLeave is called.
DisconnectClient(c, consented) ==
    LET r == conn[c].room
        s == conn[c].session
    IN  /\ NextEvent
        /\ Delivers(c)
        /\ r \in rooms
        /\ HasId(c)
        /\ clients[r][s] \in Conn
        /\ conn' = [conn EXCEPT ![c] =
                      [Closed(@) EXCEPT !.leave = IF Waits(r, consented) THEN "waiting" ELSE "leaving",
                                        !.left = IF Waits(r, consented) THEN WaitSeconds ELSE 0]]
        /\ StopTracking(r, s)
        /\ UNCHANGED <<room, clients, reserved, request, cache, closing, deleting>>

\* Mutant: the status of the session's client is not looked at.
SeatHeld(r, s) == clients[r][s] \in Conn

\* The session's client has finished a (re)connection.
SeatRetaken(r, s) == clients[r][s] \in Conn /\ conn[clients[r][s]].status = "connected"

\* onLeave is done.
LeaveDone(c) ==
    LET r == conn[c].room
        s == conn[c].session
    IN  /\ conn[c].leave = "leaving"
        /\ conn' = [conn EXCEPT ![c].leave = "done"]
        /\ UNCHANGED room
        /\ IF SeatRetaken(r, s)
           THEN UNCHANGED <<clients, cache, closing>>
           ELSE RemoveRoomClient(r, s)
        /\ UNCHANGED <<reserved, request, tracking, deleting>>

\* Mutant: the seconds are not looked at.
WaitForever(c) ==
    \/ clients[conn[c].room][conn[c].session] \notin Conn
    \/ room[conn[c].room].terminated

\* The poll of waitReconnection gives up: no client, no time or no room left.
WaitOver(c) ==
    \/ clients[conn[c].room][conn[c].session] \notin Conn
    \/ conn[c].left <= 1
    \/ room[conn[c].room].terminated

\* The poll sees the client that took the seat over.
WaitMet(c) == conn[clients[conn[c].room][conn[c].session]].status = "reconnected"

WaitRejected(c) ==
    /\ NextEvent
    /\ conn[c].leave = "waiting"
    /\ WaitOver(c)
    /\ conn' = [conn EXCEPT ![c] = [@ EXCEPT !.leave = "leaving", !.left = 0]]
    /\ UNCHANGED <<room, clients, reserved, request, tracking, cache, closing, deleting>>

WaitResolved(c) ==
    /\ NextEvent
    /\ conn[c].leave = "waiting"
    /\ ~WaitOver(c)
    /\ WaitMet(c)
    /\ LET n == clients[conn[c].room][conn[c].session]
       IN  conn' = [conn EXCEPT ![n].status = "connected",
                                ![c] = [@ EXCEPT !.leave = "leaving", !.left = 0]]
    /\ UNCHANGED <<room, clients, reserved, request, tracking, cache, closing, deleting>>

WaitTick(c) ==
    /\ NextEvent
    /\ conn[c].leave = "waiting"
    /\ ~WaitOver(c)
    /\ ~WaitMet(c)
    /\ conn' = [conn EXCEPT ![c].left = @ - 1]
    /\ UNCHANGED <<room, clients, reserved, request, tracking, cache, closing, deleting>>

-----------------------------------------------------------------------------
RequestStep(q) ==
    \/ \E r \in Room, s \in Session : CreateRoom(r, s, q)
    \/ CreateFailed(q)
    \/ RoomCreated(q)
    \/ \E r \in Room, s \in Session : JoinRoom(q, r, s)
    \/ AuthFailed(q)
    \/ ReserveSeat(q)
    \/ ReserveSeatThrows(q)
    \/ ReservationTimeout(q)

RoomStep(r) ==
    \/ \E s, h \in Session, b \in BOOLEAN : UpdateRoom(s, r, b, h)
    \/ \E s \in Session : LeaveRoom(s, r)
    \/ \E s \in Session : CloseRoom(s, r)
    \/ \E b \in BOOLEAN : SetLocked(r, b)
    \/ RoomClosed(r)
    \/ RoomDeleted(r)

Verified(c) == VerifyFailed(c) \/ ConnectRefused(c) \/ ConnectReturning(c) \/ ConnectSeated(c)

ConnectStep(c) ==
    \/ \E s \in Session, r \in Room : Connect(c, s, r)
    \/ Verified(c)
    \/ ConnectionTimeout(c)
    \/ Joined(c)
    \/ JoinFailed(c)
    \/ JoinDone(c)
    \/ Reconnected(c)

\* onClientDisconnected up to onLeave.
Disconnect(c) ==
    \/ DisconnectNoRoom(c)
    \/ DisconnectNoId(c)
    \/ DisconnectNoClient(c)
    \/ \E consented \in BOOLEAN : DisconnectClient(c, consented)

\* One poll of waitReconnection.
WaitPoll(c) == WaitRejected(c) \/ WaitResolved(c) \/ WaitTick(c)

Next ==
    \/ \E q \in Request : RequestStep(q)
    \/ \E r \in Room : RoomStep(r)
    \/ \E c \in Conn : ConnectStep(c) \/ Disconnect(c) \/ LeaveDone(c) \/ WaitPoll(c)

Spec == Init /\ [][Next]_vars


\* What the process does by itself: awaited hooks and caches settle, timers
\* fire, a socket being closed is reported closed.  Nothing is assumed of the
\* requests and answers of clients.
Fairness ==
    /\ \A q \in Request :
         /\ WF_vars(RoomCreated(q) \/ CreateFailed(q))
         /\ WF_vars(ReserveSeat(q) \/ ReserveSeatThrows(q) \/ AuthFailed(q))
         /\ WF_vars(ReservationTimeout(q))
    /\ \A r \in Room : WF_vars(RoomClosed(r)) /\ WF_vars(RoomDeleted(r))
    /\ \A c \in Conn :
         /\ WF_vars(Verified(c))
         /\ WF_vars(ConnectionTimeout(c))
         /\ WF_vars(JoinDone(c) \/ JoinFailed(c))
         /\ WF_vars(conn[c].socket = "closing" /\ Disconnect(c))
         /\ WF_vars(LeaveDone(c))
         /\ WF_vars(WaitPoll(c))

FairSpec == Spec /\ Fairness

-----------------------------------------------------------------------------
(* Safety of every interleaving. *)

\* An entry of reservedSeats has its timer running, and the timer is that of
\* the request that reserved this very seat (reserveSeat, its timer and
\* onClientConnected keep the two in step): no reservation can outlive its
\* three seconds unredeemed.
SeatBacked ==
    \A r \in Room, s \in Session : reserved[r][s] # None =>
        request[reserved[r][s]] = [stage |-> "armed", room |-> r, session |-> s]

\* A reservation lets one socket in, however many sockets of the session race
\* through onClientConnected, and it is not open to redemption afterwards.
SingleUse ==
    \A c \in Conn : conn[c].via # None =>
        /\ request[conn[c].via].stage = "redeemed"
        /\ \A d \in Conn : conn[d].via = conn[c].via => d = c

\* The session was let into the room by onAuth and redeemed the seat it got.
Admitted(r, s) ==
    \E q \in Request : request[q] = [stage |-> "redeemed", room |-> r, session |-> s]

\* Until it takes the seat a socket of a new client holds the reservation it
\* redeemed, for its own session and room; a returning one has a session that
\* redeemed one before.
HandshakeAdmitted ==
    \A c \in Conn :
        /\ conn[c].stage \in {"awaitJoined", "joining"} => conn[c].via # None
        /\ conn[c].via # None =>
             request[conn[c].via] =
               [stage |-> "redeemed", room |-> conn[c].room, session |-> conn[c].session]
        /\ conn[c].stage = "idle" => conn[c].via = None
        /\ conn[c].stage = "awaitReconnected" => Admitted(conn[c].room, conn[c].session)

\* A client in room.clients is a socket of that session to that room that has
\* finished its handshake, and a reservation was redeemed for it: neither the handshake of a
\* returning client nor a late "joined" lets anybody in without one.
SeatAdmitted ==
    \A r \in Room, s \in Session : clients[r][s] \in Conn =>
        /\ conn[clients[r][s]].room = r
        /\ conn[clients[r][s]].session = s
        /\ conn[clients[r][s]].stage = "established"
        /\ Admitted(r, s)

\* A room that is offered in the cache although nobody is in it is being
\* removed: removeRoomClient, updateCache and the timer never leave one behind.
NoAbandonedListing ==
    \A r \in rooms : cache[r].state = "listed" /\ Keys(r) = {} => closing[r] + deleting[r] > 0

\* A registered room with clients can be found in the cache, unless a removal
\* that started when it was empty is about to delete it.
OccupiedRoomListed ==
    \A r \in rooms : Keys(r) # {} => cache[r].state = "listed" \/ deleting[r] > 0

\* The cache never names a member the room has lost, but for a room without
\* clients whose removal is waiting for onClose.
NoPhantomMembers ==
    \A r \in Room : cache[r].state = "listed" =>
        cache[r].clients \subseteq Keys(r) \/ closing[r] > 0

-----------------------------------------------------------------------------
(* Refinement of SeatProtocol. *)

\* A reservation can be redeemed while reservedSeats has it.
TicketStage(k, q) ==
    CASE k.stage = "unused" -> "free"
      [] k.stage \in {"creating", "authorizing"} -> "asked"
      [] k.stage = "armed" /\ reserved[k.room][k.session] = q -> "granted"
      [] k.stage = "redeemed" -> "used"
      [] OTHER -> "void"

TicketsHeld ==
    [q \in Request |-> [stage |-> TicketStage(request[q], q),
                        room |-> request[q].room, session |-> request[q].session]]

\* A socket is known to the protocol once its client has connected, and has sat
\* once setRoomClient has seated it; both are for good.
SocketStage(k) ==
    CASE k.stage = "idle" -> "new"
      [] k.stage = "established" -> "sat"
      [] OTHER -> "standing"

SocketsSeen ==
    [c \in Conn |-> [stage |-> SocketStage(conn[c]), room |-> conn[c].room,
                     session |-> conn[c].session, ticket |-> conn[c].via]]

\* A reserved seat is nobody's yet.
SeatsTaken ==
    [r \in Room |-> [s \in Session |-> IF clients[r][s] \in Conn THEN clients[r][s] ELSE None]]

Protocol == INSTANCE SeatProtocol WITH ticket <- TicketsHeld, socket <- SocketsSeen, seat <- SeatsTaken

\* The room manager keeps the promise of SeatProtocol in every interleaving
\* (reserveSeat, its timer and onClientConnected, rooms.ts:105-235): tickets are
\* used once, in time and by their own session, a returning socket comes after one
\* that has sat, and a socket that has lost its seat never sits again.
KeepsProtocol == Protocol!Spec

-----------------------------------------------------------------------------
(* What one socket at a time buys, with hooks that do not suspend. *)

\* A client whose socket is gone is not a member, except while onLeave holds
\* its seat: a close never gets lost between the handlers.
NoGhostMembers ==
    \A r \in rooms, s \in Session : clients[r][s] \in Conn =>
        Delivers(clients[r][s]) \/ conn[clients[r][s]].leave \in {"waiting", "leaving"}

\* Once no removal is under way the cached object is the room: same members,
\* same lock.
CacheExact ==
    \A r \in rooms : closing[r] + deleting[r] = 0 /\ Keys(r) # {} =>
        cache[r] = [state |-> "listed", clients |-> Keys(r), locked |-> room[r].locked]

\* Every member with a socket receives the patches of the state tracker.
EveryMemberTracked ==
    \A r \in rooms, s \in Session : clients[r][s] \in Conn /\ Delivers(clients[r][s]) =>
        tracking[r][s] = clients[r][s]

\* Patches go to members only: leaving, by whatever way, ends the tracking.
OnlyMembersTracked ==
    \A r \in rooms, s \in Session : tracking[r][s] # None => clients[r][s] = tracking[r][s]

\* A member whose socket is open keeps its seat until it asks to leave or the
\* host closes the room: no timer and no other socket takes it.
NoEviction ==
    [][\A r \in rooms, s \in Session :
        /\ clients[r][s] \in Conn
        /\ clients'[r][s] # clients[r][s]
        /\ conn[clients[r][s]].socket = "open"
        => LeaveRoom(s, r) \/ room'[r].terminated]_vars

-----------------------------------------------------------------------------
(* Liveness. *)

\* A reserved seat is taken or given back: by the reservation timer, by the
\* connection timer of the socket that redeemed it, or by its close.
SeatsReleased ==
    \A r \in Room, s \in Session : clients[r][s] = Null ~> clients[r][s] # Null

\* A member whose socket has closed is replaced by a reconnected socket or
\* loses its seat, whatever onLeave waits for.
ClosedMembersGo ==
    \A r \in Room, s \in Session, c \in Conn :
        clients[r][s] = c /\ conn[c].socket = "closed" ~> clients[r][s] # c \/ r \notin rooms

\* A room closed by its host is removed.
ClosedRoomsGo == \A r \in Room : room[r].terminated ~> room[r].stage = "removed"

-----------------------------------------------------------------------------
(* What the comments and the readme say, and the code does not keep. *)

\* closeRoom terminates all clients of the room and removes it, so a
\* terminated room has no members.
ClosedRoomIsEmpty ==
    \A r \in Room, s \in Session : room[r].terminated => clients[r][s] \notin Conn

\* State is synchronized between server and client: once the earlier sockets
\* of a member are closed and dealt with, it receives patches.
LoneMemberTracked ==
    \A r \in rooms, s \in Session, c \in Conn :
        /\ clients[r][s] = c
        /\ conn[c].socket = "open"
        /\ \A d \in Conn \ {c} : conn[d].room = r /\ conn[d].session = s =>
             conn[d].socket = "closed" /\ conn[d].leave \in {"no", "done"}
        => tracking[r][s] = c

\* waitReconnection does not give up on a session that has reconnected.
ReconnectionHonoured ==
    [][\A c \in Conn : WaitRejected(c) /\ ~room[conn[c].room].terminated =>
        \/ clients[conn[c].room][conn[c].session] \notin Conn
        \/ ~WaitMet(c)]_vars
==============================================================================
