-------------------------- MODULE RoomListingProofs --------------------------
(***************************************************************************)
(* Proofs about the entries of rooms in the cache: no empty room stays on  *)
(* offer, occupied rooms can be found, and no entry names a lost member.   *)
(***************************************************************************)
EXTENDS RoomManagerProofs

-----------------------------------------------------------------------------
(* What these properties rest on. *)

\* The room object has not been put in the rooms map, and may never be.
Early(r) == room[r].stage \in {"none", "creating", "failed"}

\* One createRoom works on a room object.
Creating ==
    \A q \in Request : request[q].stage = "creating" =>
        /\ room[request[q].room].stage = "creating"
        /\ \A p \in Request :
             request[p].stage = "creating" /\ request[p].room = request[q].room => p = q

\* Nobody has a seat in such a room, and nobody can find it.
EarlyEmpty == \A r \in Room : Early(r) => ~Announced(r) /\ Keys(r) = {} /\ deleting[r] = 0

\* Sockets are opened to rooms that have been in the cache.
SocketsAnnounced == \A c \in Conn : conn[c].stage # "idle" => Announced(conn[c].room)

\* A room that is out of the cache is about to leave the rooms map.
RemovalPending == \A r \in rooms : cache[r].state = "removed" => deleting[r] > 0

-----------------------------------------------------------------------------
(* What a step does to the listing of a room. *)

SameStage(r) == room'[r].stage = room[r].stage

SameCache(r) == cache'[r] = cache[r] /\ closing'[r] = closing[r] /\ deleting'[r] = deleting[r]

\* The cache holds the room as it is after the step.
Lists(r) ==
    /\ cache'[r].state = "listed" /\ cache'[r].clients = KeysAfter(r)
    /\ cache'[r].locked = room'[r].locked
    /\ closing'[r] = closing[r] /\ deleting'[r] = deleting[r]

\* A handler that may have emptied the room ends by removing or listing it.
Settles(r) ==
    /\ SameStage(r)
    /\ KeysAfter(r) \subseteq Keys(r)
    /\ \/ KeysAfter(r) # {} /\ Lists(r)
       \/ /\ KeysAfter(r) = {} /\ closing'[r] = closing[r] + 1
          /\ cache'[r] = cache[r] /\ deleting'[r] = deleting[r]

\* reserveSeat.
Reserves(r) == SameStage(r) /\ r \in rooms /\ KeysAfter(r) # {} /\ Keys(r) \subseteq KeysAfter(r) /\ Lists(r)

\* updateRoom.
Updates(r) == SameStage(r) /\ r \in rooms /\ Announced(r) /\ KeysAfter(r) = Keys(r) /\ Lists(r)

\* A socket takes a seat; the cache is not written.
Seats(r) ==
    /\ SameStage(r) /\ SameCache(r) /\ Keys(r) \subseteq KeysAfter(r)
    /\ KeysAfter(r) # Keys(r) => \E c \in Conn : conn[c].stage # "idle" /\ conn[c].room = r

\* removeRoom after onClose.
Unlists(r) ==
    /\ SameStage(r) /\ KeysAfter(r) = Keys(r)
    /\ \/ /\ cache[r].state = "listed" /\ cache'[r].state = "removed"
          /\ deleting'[r] = deleting[r] + 1
       \/ cache[r].state # "listed" /\ cache'[r] = cache[r] /\ deleting'[r] = deleting[r]

\* removeRoom at its end.
Deletes(r) ==
    /\ deleting[r] > 0 /\ room'[r].stage = "removed"
    /\ KeysAfter(r) = Keys(r) /\ cache'[r] = cache[r] /\ closing'[r] = closing[r]

\* createRoom.
Creates(r) ==
    /\ SameCache(r) /\ KeysAfter(r) = Keys(r)
    /\ \/ room[r].stage = "none" /\ room'[r].stage = "creating"
       \/ room'[r].stage = "failed" /\ \E q \in Request : CreateFailed(q) /\ request[q].room = r
       \/ room'[r].stage = "registered" /\ \E q \in Request : RoomCreated(q) /\ request[q].room = r

\* Every way a step can change the listing of a room.
ListingMoves(r) ==
    \/ Settles(r)
    \/ Reserves(r)
    \/ Updates(r)
    \/ Seats(r)
    \/ Unlists(r)
    \/ Deletes(r)
    \/ Creates(r)

\* A step that leaves the room, its clients and its entry alone.
LEMMA RestMoves ==
    ASSUME NEW r \in Room, UNCHANGED <<clients, cache, closing, deleting>>, SameStage(r)
    PROVE  ListingMoves(r)
<1>1. KeysAfter(r) = Keys(r) /\ SameCache(r)
  BY DEF Keys, KeysAfter, SameCache
<1> QED
  BY <1>1 DEF ListingMoves, Seats

\* The tail of a handler of room x.
LEMMA TailMoves ==
    ASSUME VariablesTyped, NEW x, RemoveIfEmpty(x), NEW r \in Room,
           deleting' = deleting, SameStage(r), KeysAfter(r) \subseteq Keys(r),
           r # x => KeysAfter(r) = Keys(r)
    PROVE  ListingMoves(r)
<1>1. CASE r # x
  <2>1. SameCache(r)
    BY <1>1 DEF RemoveIfEmpty, Relist, SameCache, VariablesTyped
  <2> QED
    BY <1>1, <2>1 DEF ListingMoves, Seats
<1>2. CASE r = x /\ KeysAfter(r) = {}
  <2>1. closing'[r] = closing[r] + 1 /\ cache'[r] = cache[r]
    BY <1>2 DEF RemoveIfEmpty, VariablesTyped
  <2> QED
    BY <1>2, <2>1 DEF ListingMoves, Settles
<1>3. CASE r = x /\ KeysAfter(r) # {}
  <2>1. Relist(r) /\ closing' = closing
    BY <1>3 DEF RemoveIfEmpty
  <2>2. Lists(r)
    BY <2>1 DEF Relist, Lists, VariablesTyped
  <2> QED
    BY <1>3, <2>2 DEF ListingMoves, Settles
<1> QED
  BY <1>1, <1>2, <1>3

\* removeRoomClient of room x.
LEMMA RemoveClientMoves ==
    ASSUME VariablesTyped, NEW x, NEW s, RemoveRoomClient(x, s), NEW r \in Room,
           deleting' = deleting, SameStage(r)
    PROVE  ListingMoves(r)
<1>1. KeysAfter(r) \subseteq Keys(r) /\ (r # x => KeysAfter(r) = Keys(r))
  BY DEF RemoveRoomClient, Keys, KeysAfter, VariablesTyped
<1> QED
  BY <1>1, TailMoves DEF RemoveRoomClient

\* Create and join requests.
LEMMA RequestListing ==
    ASSUME VariablesTyped, Placed, NEW q \in Request, RequestStep(q), NEW r \in Room
    PROVE  ListingMoves(r)
<1>1. CASE \E x \in Room, s \in Session : CreateRoom(x, s, q)
  <2> PICK x \in Room, s \in Session : CreateRoom(x, s, q)
    BY <1>1
  <2>1. UNCHANGED <<clients, cache, closing, deleting>>
    BY DEF CreateRoom
  <2>2. CASE r # x
    <3>1. SameStage(r)
      BY <2>2 DEF CreateRoom, SameStage
    <3> QED
      BY <2>1, <3>1, RestMoves
  <2>3. CASE r = x
    <3>1. room[r].stage = "none" /\ room'[r].stage = "creating"
      BY <2>3 DEF CreateRoom, VariablesTyped, RoomRecord
    <3>2. SameCache(r) /\ KeysAfter(r) = Keys(r)
      BY <2>1 DEF SameCache, Keys, KeysAfter
    <3> QED
      BY <3>1, <3>2 DEF ListingMoves, Creates
  <2> QED
    BY <2>2, <2>3
<1>2. CASE CreateFailed(q) \/ RoomCreated(q)
  <2>1. UNCHANGED <<clients, cache, closing, deleting>>
    BY <1>2 DEF CreateFailed, RoomCreated
  <2>2. CASE r # request[q].room
    <3>1. ASSUME CreateFailed(q) PROVE SameStage(r)
      BY <2>2, <3>1 DEF CreateFailed, SameStage, VariablesTyped
    <3>2. ASSUME RoomCreated(q) PROVE SameStage(r)
      BY <2>2, <3>2 DEF RoomCreated, SameStage, VariablesTyped
    <3>3. SameStage(r)
      BY <1>2, <3>1, <3>2
    <3> QED
      BY <2>1, <3>3, RestMoves
  <2>3. CASE r = request[q].room
    <3>1. \/ room'[r].stage = "failed" /\ CreateFailed(q)
          \/ room'[r].stage = "registered" /\ RoomCreated(q)
      BY <1>2, <2>3 DEF CreateFailed, RoomCreated, VariablesTyped, RoomRecord
    <3>2. SameCache(r) /\ KeysAfter(r) = Keys(r)
      BY <2>1 DEF SameCache, Keys, KeysAfter
    <3> QED
      BY <2>3, <3>1, <3>2 DEF ListingMoves, Creates
  <2> QED
    BY <2>2, <2>3
<1>3. CASE \/ \E x \in Room, s \in Session : JoinRoom(q, x, s)
           \/ AuthFailed(q) \/ ReserveSeatThrows(q)
  <2>1. UNCHANGED <<room, clients, cache, closing, deleting>>
    BY <1>3 DEF JoinRoom, AuthFailed, ReserveSeatThrows
  <2> QED
    BY <2>1, RestMoves DEF SameStage
<1>4. CASE ReserveSeat(q)
  <2> DEFINE x == request[q].room
             s == request[q].session
  <2>1. x \in Room /\ s \in Session /\ x \in rooms
    BY <1>4 DEF ReserveSeat, SeatFree, Placed
  <2>2. SameStage(r) /\ closing' = closing /\ deleting' = deleting /\ Relist(x)
    BY <1>4 DEF ReserveSeat, SameStage
  <2>3. clients' = [clients EXCEPT ![x][s] = Null]
    BY <1>4 DEF ReserveSeat
  <2> HIDE DEF x, s
  <2>4. CASE r # x
    <3>1. KeysAfter(r) = Keys(r)
      BY <2>3, <2>4 DEF Keys, KeysAfter
    <3>2. SameCache(r)
      BY <2>2, <2>4 DEF Relist, SameCache
    <3> QED
      BY <2>2, <3>1, <3>2 DEF ListingMoves, Seats
  <2>5. CASE r = x
    <3>1. KeysAfter(r) # {} /\ Keys(r) \subseteq KeysAfter(r)
      BY <2>1, <2>3, <2>5, NamesDiffer DEF Keys, KeysAfter, VariablesTyped
    <3>2. Lists(r)
      BY <2>2, <2>5 DEF Relist, Lists, VariablesTyped
    <3>3. r \in rooms /\ SameStage(r)
      BY <2>1, <2>2, <2>5
    <3>4. Reserves(r)
      BY <3>1, <3>2, <3>3 DEF Reserves
    <3> QED
      BY <3>4 DEF ListingMoves
  <2> QED
    BY <2>4, <2>5
<1>5. CASE ReservationTimeout(q)
  <2>1. request[q].room \in Room /\ request[q].session \in Session
    BY <1>5 DEF ReservationTimeout, TimerArmed, Placed
  <2>2. /\ RemoveRoomClient(request[q].room, request[q].session)
        /\ room' = room /\ deleting' = deleting
    BY <1>5 DEF ReservationTimeout
  <2> QED
    BY <2>1, <2>2, RemoveClientMoves DEF SameStage
<1> QED
  BY <1>1, <1>2, <1>3, <1>4, <1>5 DEF RequestStep

\* Operations on rooms, and removeRoom.
LEMMA RoomListing ==
    ASSUME VariablesTyped, NEW x \in Room, RoomStep(x), NEW r \in Room
    PROVE  ListingMoves(r)
<1>1. CASE \E s, h \in Session, b \in BOOLEAN : UpdateRoom(s, x, b, h)
  <2>1. /\ x \in rooms /\ Announced(x) /\ clients' = clients /\ Relist(x)
        /\ closing' = closing /\ deleting' = deleting
    BY <1>1 DEF UpdateRoom
  <2>2. SameStage(r)
    BY <1>1 DEF UpdateRoom, SameStage, VariablesTyped, RoomRecord
  <2>3. KeysAfter(r) = Keys(r)
    BY <2>1 DEF Keys, KeysAfter
  <2>4. CASE r # x
    BY <2>1, <2>2, <2>3, <2>4 DEF Relist, SameCache, ListingMoves, Seats
  <2>5. CASE r = x
    <3>1. Lists(r)
      BY <2>1, <2>5 DEF Relist, Lists, VariablesTyped
    <3> QED
      BY <2>1, <2>2, <2>3, <2>5, <3>1 DEF ListingMoves, Updates
  <2> QED
    BY <2>4, <2>5
<1>2. CASE \E s \in Session : LeaveRoom(s, x)
  BY <1>2, RemoveClientMoves DEF LeaveRoom, SameStage
<1>3. CASE \E s \in Session : CloseRoom(s, x)
  <2>1. /\ clients' = [clients EXCEPT ![x] = [t \in Session |-> None]]
        /\ closing' = [closing EXCEPT ![x] = @ + 1]
        /\ cache' = cache /\ deleting' = deleting
    BY <1>3 DEF CloseRoom
  <2>2. SameStage(r)
    BY <1>3 DEF CloseRoom, SameStage, VariablesTyped, RoomRecord
  <2>3. CASE r # x
    <3>1. KeysAfter(r) = Keys(r) /\ SameCache(r)
      BY <2>1, <2>3 DEF Keys, KeysAfter, SameCache
    <3> QED
      BY <2>2, <3>1 DEF ListingMoves, Seats
  <2>4. CASE r = x
    <3>1. KeysAfter(r) = {} /\ closing'[r] = closing[r] + 1
      BY <2>1, <2>4 DEF Keys, KeysAfter, VariablesTyped
    <3> QED
      BY <2>1, <2>2, <3>1 DEF ListingMoves, Settles
  <2> QED
    BY <2>3, <2>4
<1>4. CASE \E b \in BOOLEAN : SetLocked(x, b)
  <2>1. clients' = clients /\ deleting' = deleting /\ RemoveIfEmpty(x)
    BY <1>4 DEF SetLocked
  <2>2. SameStage(r)
    BY <1>4 DEF SetLocked, SameStage, VariablesTyped, RoomRecord
  <2>3. KeysAfter(r) = Keys(r)
    BY <2>1 DEF Keys, KeysAfter
  <2> QED
    BY <2>1, <2>2, <2>3, TailMoves
<1>5. CASE RoomClosed(x)
  <2>1. SameStage(r) /\ KeysAfter(r) = Keys(r)
    BY <1>5 DEF RoomClosed, SameStage, Keys, KeysAfter
  <2>2. CASE r # x
    <3>1. closing'[r] = closing[r]
      BY <1>5, <2>2 DEF RoomClosed, VariablesTyped
    <3>2. cache'[r] = cache[r] /\ deleting'[r] = deleting[r]
      BY <1>5, <2>2 DEF RoomClosed, VariablesTyped
    <3>3. SameCache(r)
      BY <3>1, <3>2 DEF SameCache
    <3> QED
      BY <2>1, <3>3 DEF ListingMoves, Seats
  <2>3. CASE r = x
    BY <1>5, <2>1, <2>3 DEF RoomClosed, ListingMoves, Unlists, VariablesTyped
  <2> QED
    BY <2>2, <2>3
<1>6. CASE RoomDeleted(x)
  <2>1. /\ deleting[x] > 0 /\ clients' = clients /\ cache' = cache /\ closing' = closing
        /\ deleting' = [deleting EXCEPT ![x] = @ - 1]
    BY <1>6 DEF RoomDeleted
  <2>2. KeysAfter(r) = Keys(r)
    BY <2>1 DEF Keys, KeysAfter
  <2>3. CASE r # x
    BY <1>6, <2>1, <2>2, <2>3 DEF RoomDeleted, ForgetRoom, SameStage, SameCache, ListingMoves, Seats
  <2>4. CASE r = x
    <3>1. room'[r].stage = "removed"
      BY <1>6, <2>4 DEF RoomDeleted, ForgetRoom, VariablesTyped, RoomRecord
    <3> QED
      BY <2>1, <2>2, <2>4, <3>1 DEF ListingMoves, Deletes
  <2> QED
    BY <2>3, <2>4
<1> QED
  BY <1>1, <1>2, <1>3, <1>4, <1>5, <1>6 DEF RoomStep

\* Sockets that connect.
LEMMA ConnListing ==
    ASSUME VariablesTyped, Placed, NEW c \in Conn, ConnectStep(c), NEW r \in Room
    PROVE  ListingMoves(r)
<1>1. ASSUME JoinDone(c) \/ Reconnected(c)
      PROVE  ListingMoves(r)
  <2>1. room' = room /\ UNCHANGED <<cache, closing, deleting>>
    BY <1>1 DEF JoinDone, Reconnected
  <2>2. SameStage(r) /\ SameCache(r)
    BY <2>1 DEF SameStage, SameCache
  <2>3. PICK x \in Room, s \in Session : x = conn[c].room /\ s = conn[c].session
    BY <1>1 DEF JoinDone, Reconnected, Placed
  <2>4. conn[c].stage # "idle" /\ clients' = [clients EXCEPT ![x][s] = c]
    BY <1>1, <2>3 DEF JoinDone, Reconnected, SetRoomClient
  <2>5. Keys(r) \subseteq KeysAfter(r)
    BY <2>4, NamesDiffer DEF Keys, KeysAfter, VariablesTyped
  <2>6. r # x => KeysAfter(r) = Keys(r)
    BY <2>4 DEF Keys, KeysAfter
  <2> QED
    BY <2>2, <2>3, <2>4, <2>5, <2>6 DEF ListingMoves, Seats
<1>2. ASSUME ~JoinDone(c), ~Reconnected(c)
      PROVE  ListingMoves(r)
  <2>1. UNCHANGED <<room, clients, cache, closing, deleting>>
    BY <1>2 DEF ConnectStep, Verified, Connect, VerifyFailed, ConnectRefused, ConnectReturning,
                ConnectSeated, ConnectionTimeout, Joined, JoinFailed
  <2> QED
    BY <2>1, RestMoves DEF SameStage
<1> QED
  BY <1>1, <1>2

\* Sockets that close, and onLeave.
LEMMA DisconnectListing ==
    ASSUME VariablesTyped, NEW c \in Conn,
           Disconnect(c) \/ LeaveDone(c) \/ WaitPoll(c), NEW r \in Room
    PROVE  ListingMoves(r)
<1>1. CASE DisconnectNoId(c)
  <2>1. PICK x \in Room : x = conn[c].room
    BY <1>1 DEF DisconnectNoId, rooms
  <2>2. /\ room' = room /\ clients' = clients /\ deleting' = deleting /\ RemoveIfEmpty(x)
    BY <1>1, <2>1 DEF DisconnectNoId
  <2>3. KeysAfter(r) = Keys(r)
    BY <2>2 DEF Keys, KeysAfter
  <2> QED
    BY <2>2, <2>3, TailMoves DEF SameStage
<1>2. CASE DisconnectNoClient(c) \/ (LeaveDone(c) /\ ~SeatRetaken(conn[c].room, conn[c].session))
  <2>1. PICK x, s : x = conn[c].room /\ s = conn[c].session
    OBVIOUS
  <2>2. room' = room /\ deleting' = deleting /\ RemoveRoomClient(x, s)
    BY <1>2, <2>1 DEF DisconnectNoClient, LeaveDone
  <2> QED
    BY <2>2, RemoveClientMoves DEF SameStage
<1>3. CASE UNCHANGED <<room, clients, cache, closing, deleting>>
  BY <1>3, RestMoves DEF SameStage
<1>4. CASE LeaveDone(c) /\ SeatRetaken(conn[c].room, conn[c].session)
  BY <1>3, <1>4 DEF LeaveDone
<1> QED
  BY <1>1, <1>2, <1>3, <1>4 DEF Disconnect, DisconnectNoRoom, DisconnectClient, WaitPoll,
                                WaitRejected, WaitResolved, WaitTick

\* Every step of the specification moves the listing of a room in one of these ways.
LEMMA StepListing ==
    ASSUME VariablesTyped, Placed, Next, NEW r \in Room
    PROVE  ListingMoves(r)
BY RequestListing, RoomListing, ConnListing, DisconnectListing DEF Next

-----------------------------------------------------------------------------
(* The invariants the listing properties rest on. *)

\* A room that has been in the cache stays known there.
LEMMA AnnouncedStays ==
    ASSUME VariablesTyped, Placed, Next, NEW r \in Room, Announced(r)
    PROVE  cache'[r].state # "never"
BY StepListing DEF Announced, ListingMoves, Settles, Reserves, Updates, Seats, Unlists, Deletes,
                   Creates, SameCache, Lists

\* Sockets stay in rooms that have been in the cache.
LEMMA SocketsAnnouncedStep ==
    ASSUME VariablesTyped, Placed, SeatBacked, SocketsAnnounced, Next
    PROVE  SocketsAnnounced'
<1> SUFFICES ASSUME NEW c \in Conn, conn'[c].stage # "idle"
             PROVE  cache'[conn'[c].room].state # "never"
  BY DEF SocketsAnnounced, Announced
<1>1. ASSUME conn[c].stage # "idle", conn'[c].room = conn[c].room
      PROVE  cache'[conn'[c].room].state # "never"
  BY <1>1, AnnouncedStays DEF SocketsAnnounced, Placed
<1>2. ConnMoves(c)
  BY StepMoves DEF VariablesTyped
<1>3. CASE ConnectSeated(c)
  BY <1>1, <1>3, SeatedEffect DEF ConnectSeated
<1>4. CASE conn[c].stage = "idle" /\ conn'[c].room \in Room /\ Announced(conn'[c].room)
  <2>1. PICK x \in Room : x = conn'[c].room
    BY <1>4
  <2> QED
    BY <1>4, <2>1, AnnouncedStays
<1> QED
  BY <1>1, <1>2, <1>3, <1>4 DEF ConnMoves, Moves, Stays, Kept

\* A request that is creating a room after a step was so before, or is created.
LEMMA CreatingFrom ==
    ASSUME request \in [Request -> RequestRecord], Next,
           NEW q \in Request, request'[q].stage = "creating"
    PROVE  \/ request'[q] = request[q]
           \/ \E x \in Room, s \in Session : CreateRoom(x, s, q)
<1>1. ASSUME NEW p \in Request, RequestStep(p), p # q
      PROVE  request'[q] = request[q]
  BY <1>1 DEF RequestStep, CreateRoom, CreateFailed, RoomCreated, JoinRoom, AuthFailed,
              ReserveSeat, ReserveSeatThrows, ReservationTimeout
<1>2. CASE RequestStep(q) /\ ~(\E x \in Room, s \in Session : CreateRoom(x, s, q))
  <2>1. request'[q].stage # "creating"
    BY <1>2 DEF RequestStep, CreateFailed, RoomCreated, JoinRoom, AuthFailed, ReserveSeat,
                ReserveSeatThrows, ReservationTimeout, RequestRecord
  <2> QED
    BY <2>1
<1>3. ASSUME NEW r \in Room, RoomStep(r)
      PROVE  request' = request
  BY <1>3 DEF RoomStep, UpdateRoom, LeaveRoom, CloseRoom, SetLocked, RoomClosed, RoomDeleted
<1>4. ASSUME NEW c \in Conn, ConnectSeated(c)
      PROVE  request'[q] = request[q]
  BY <1>4 DEF ConnectSeated, RequestRecord
<1>5. ASSUME NEW c \in Conn, ConnectStep(c), ~ConnectSeated(c)
      PROVE  request' = request
  BY <1>5 DEF ConnectStep, Verified, Connect, VerifyFailed, ConnectRefused, ConnectReturning,
              ConnectionTimeout, Joined, JoinFailed, JoinDone, Reconnected
<1>6. ASSUME NEW c \in Conn, Disconnect(c) \/ LeaveDone(c) \/ WaitPoll(c)
      PROVE  request' = request
  BY <1>6 DEF Disconnect, DisconnectNoRoom, DisconnectNoId, DisconnectNoClient, DisconnectClient,
              LeaveDone, WaitPoll, WaitRejected, WaitResolved, WaitTick
<1> QED
  BY <1>1, <1>2, <1>3, <1>4, <1>5, <1>6 DEF Next

\* A room that is being created is only changed by its own request.
LEMMA CreatingStep ==
    ASSUME VariablesTyped, Placed, Creating, EarlyEmpty, Next
    PROVE  Creating'
<1>1. ASSUME NEW q \in Request, request'[q].stage = "creating", request'[q] = request[q]
      PROVE  room'[request[q].room].stage = "creating"
  <2>1. PICK r \in Room : r = request[q].room
    BY <1>1 DEF Placed
  <2>2. request[q].stage = "creating" /\ room[r].stage = "creating"
    BY <1>1, <2>1 DEF Creating
  <2>3. deleting[r] = 0
    BY <2>2 DEF EarlyEmpty, Early
  <2>4. ASSUME NEW p \in Request, request[p].room = r, CreateFailed(p) \/ RoomCreated(p)
        PROVE  FALSE
    <3>1. p = q
      BY <2>1, <2>2, <2>4 DEF Creating, CreateFailed, RoomCreated
    <3>2. request'[q].stage # "creating"
      BY <2>4, <3>1 DEF CreateFailed, RoomCreated, VariablesTyped, RequestRecord
    <3> QED
      BY <1>1, <3>2
  <2>5. ListingMoves(r)
    BY StepListing
  <2>6. SameStage(r)
    BY <2>2, <2>3, <2>4, <2>5 DEF ListingMoves, Settles, Reserves, Updates, Seats, Unlists,
                                  Deletes, Creates
  <2> QED
    BY <2>1, <2>2, <2>6 DEF SameStage
<1>2. ASSUME NEW q \in Request, NEW x \in Room, NEW s \in Session, CreateRoom(x, s, q)
      PROVE  /\ room[x].stage = "none" /\ room'[x].stage = "creating"
             /\ request'[q].room = x
             /\ \A p \in Request : p # q => request'[p] = request[p]
  BY <1>2 DEF CreateRoom, VariablesTyped, RoomRecord
<1>3. ASSUME NEW q \in Request, request'[q].stage = "creating"
      PROVE  \/ request'[q] = request[q]
             \/ \E x \in Room, s \in Session : CreateRoom(x, s, q)
  BY <1>3, CreatingFrom DEF VariablesTyped
<1>4. ASSUME NEW q \in Request, request'[q].stage = "creating"
      PROVE  room'[request'[q].room].stage = "creating"
  BY <1>1, <1>2, <1>3, <1>4
<1>5. ASSUME NEW q \in Request, NEW p \in Request, p # q,
             request'[q].stage = "creating", request'[p].stage = "creating",
             request'[p].room = request'[q].room
      PROVE  FALSE
  <2>1. ASSUME request'[p] = request[p], request'[q] = request[q]
        PROVE  FALSE
    BY <1>5, <2>1 DEF Creating
  <2>2. ASSUME NEW o \in Request, NEW x \in Room, NEW s \in Session, CreateRoom(x, s, o),
               o \in {p, q}
        PROVE  FALSE
    <3>1. PICK n \in {p, q} : n # o
      BY <1>5
    <3>2. request'[n] = request[n] /\ request'[n].room = x /\ request'[n].stage = "creating"
      BY <1>2, <1>5, <2>2, <3>1
    <3>3. room[x].stage = "creating"
      BY <3>2 DEF Creating
    <3> QED
      BY <1>2, <2>2, <3>3
  <2> QED
    BY <1>3, <1>5, <2>1, <2>2
<1> QED
  BY <1>4, <1>5 DEF Creating

\* A room that is not in the rooms map yet stays empty and unlisted.
LEMMA EarlyEmptyStep ==
    ASSUME VariablesTyped, Placed, Creating, EarlyEmpty, SocketsAnnounced, Next
    PROVE  EarlyEmpty'
<1> SUFFICES ASSUME NEW r \in Room, room'[r].stage \in {"none", "creating", "failed"}
             PROVE  cache'[r].state = "never" /\ KeysAfter(r) = {} /\ deleting'[r] = 0
  BY DEF EarlyEmpty, Early, Announced, Keys, KeysAfter
<1>1. ListingMoves(r)
  BY StepListing
<1>2. ASSUME Early(r)
      PROVE  /\ cache[r].state = "never" /\ Keys(r) = {} /\ deleting[r] = 0 /\ r \notin rooms
             /\ \A c \in Conn : conn[c].stage # "idle" => conn[c].room # r
  BY <1>2 DEF EarlyEmpty, SocketsAnnounced, Announced, Early, rooms
<1>3. CASE SameStage(r)
  <2>1. Early(r)
    BY <1>3 DEF SameStage, Early
  <2> QED
    BY <1>1, <1>2, <2>1 DEF ListingMoves, Settles, Reserves, Updates, Seats, Unlists, Deletes,
                            Creates, SameCache
<1>4. CASE Deletes(r)
  BY <1>4 DEF Deletes
<1>5. CASE Creates(r)
  <2>1. Early(r)
    <3>1. ASSUME NEW q \in Request, CreateFailed(q), request[q].room = r
          PROVE  Early(r)
      BY <3>1 DEF CreateFailed, Creating, Early
    <3> QED
      BY <1>5, <3>1 DEF Creates, Early
  <2> QED
    BY <1>2, <1>5, <2>1 DEF Creates, SameCache
<1> QED
  BY <1>1, <1>3, <1>4, <1>5 DEF ListingMoves, Settles, Reserves, Updates, Seats, Unlists

-----------------------------------------------------------------------------
(* The listing of rooms. *)

\* The properties, and what they rest on.
Listing ==
    /\ Creating
    /\ EarlyEmpty
    /\ SocketsAnnounced
    /\ RemovalPending
    /\ NoAbandonedListing
    /\ OccupiedRoomListed
    /\ NoPhantomMembers

\* A room in the rooms map was there before, or has just been created.
LEMMA RegisteredFrom ==
    ASSUME VariablesTyped, Placed, Creating, EarlyEmpty, Next,
           NEW r \in Room, room'[r].stage = "registered"
    PROVE  \/ r \in rooms /\ (Settles(r) \/ Reserves(r) \/ Updates(r) \/ Seats(r) \/ Unlists(r))
           \/ KeysAfter(r) = {} /\ cache'[r].state = "never"
<1>1. ListingMoves(r)
  BY StepListing
<1>2. CASE SameStage(r) /\ ~Creates(r)
  BY <1>1, <1>2 DEF SameStage, ListingMoves, Deletes, rooms
<1>3. CASE Deletes(r)
  BY <1>3 DEF Deletes
<1>4. CASE Creates(r)
  <2>1. PICK q \in Request : RoomCreated(q) /\ request[q].room = r
    BY <1>4 DEF Creates
  <2>2. Early(r)
    BY <2>1 DEF RoomCreated, Creating, Early
  <2> QED
    BY <1>4, <2>2 DEF Creates, SameCache, EarlyEmpty, Announced
<1> QED
  BY <1>1, <1>2, <1>3, <1>4 DEF ListingMoves, Settles, Reserves, Updates, Seats, Unlists

\* A removal that has reached the cache stays under way.
LEMMA RemovalPendingStep ==
    ASSUME VariablesTyped, Placed, Creating, EarlyEmpty, RemovalPending, Next
    PROVE  RemovalPending'
<1> SUFFICES ASSUME NEW r \in Room, room'[r].stage = "registered", cache'[r].state = "removed"
             PROVE  deleting'[r] > 0
  BY DEF RemovalPending, rooms
<1>1. deleting[r] \in Nat
  BY DEF VariablesTyped
<1> QED
  BY <1>1, RegisteredFrom DEF RemovalPending, Settles, Reserves, Updates, Seats, Unlists, Lists,
                              SameCache

\* Whoever empties a listed room has its removal started.
LEMMA NoAbandonedStep ==
    ASSUME VariablesTyped, Placed, Creating, EarlyEmpty, RemovalPending, NoAbandonedListing, Next
    PROVE  NoAbandonedListing'
<1> SUFFICES ASSUME NEW r \in Room, room'[r].stage = "registered",
                    cache'[r].state = "listed", KeysAfter(r) = {}
             PROVE  closing'[r] + deleting'[r] > 0
  BY DEF NoAbandonedListing, rooms, Keys, KeysAfter
<1>1. deleting[r] \in Nat /\ closing[r] \in Nat /\ cache[r].state \in {"never", "listed", "removed"}
  BY DEF VariablesTyped, CacheRecord
<1>2. CASE r \in rooms /\ Settles(r)
  BY <1>1, <1>2 DEF Settles
<1>3. CASE r \in rooms /\ (Updates(r) \/ Seats(r))
  <2>1. Keys(r) = {} /\ closing'[r] = closing[r] /\ deleting'[r] = deleting[r]
    BY <1>3 DEF Updates, Seats, SameCache, Lists
  <2>2. cache[r].state \in {"listed", "removed"}
    BY <1>1, <1>3 DEF Updates, Seats, SameCache, Announced
  <2> QED
    BY <1>1, <1>3, <2>1, <2>2 DEF NoAbandonedListing, RemovalPending
<1> QED
  BY <1>2, <1>3, RegisteredFrom DEF Reserves, Unlists

\* Whoever gets a seat gets it in a room that is listed or being removed.
LEMMA OccupiedStep ==
    ASSUME VariablesTyped, Placed, Creating, EarlyEmpty, SocketsAnnounced, RemovalPending,
           OccupiedRoomListed, Next
    PROVE  OccupiedRoomListed'
<1> SUFFICES ASSUME NEW r \in Room, room'[r].stage = "registered", KeysAfter(r) # {}
             PROVE  cache'[r].state = "listed" \/ deleting'[r] > 0
  BY DEF OccupiedRoomListed, rooms, Keys, KeysAfter
<1>1. deleting[r] \in Nat /\ cache[r].state \in {"never", "listed", "removed"}
  BY DEF VariablesTyped, CacheRecord
<1>2. CASE r \in rooms /\ Seats(r)
  <2>1. CASE KeysAfter(r) = Keys(r)
    BY <1>2, <2>1 DEF OccupiedRoomListed, Seats, SameCache
  <2>2. CASE KeysAfter(r) # Keys(r)
    <3>1. Announced(r)
      BY <1>2, <2>2 DEF Seats, SocketsAnnounced
    <3> QED
      BY <1>1, <1>2, <3>1 DEF Announced, RemovalPending, Seats, SameCache
  <2> QED
    BY <2>1, <2>2
<1>3. CASE r \in rooms /\ Unlists(r)
  BY <1>1, <1>3 DEF Unlists, OccupiedRoomListed
<1> QED
  BY <1>2, <1>3, RegisteredFrom DEF Settles, Reserves, Updates, Lists

\* An entry is written with the members of the room, or an emptied room is
\* being removed.
LEMMA NoPhantomStep ==
    ASSUME VariablesTyped, Placed, NoPhantomMembers, Next
    PROVE  NoPhantomMembers'
<1> SUFFICES ASSUME NEW r \in Room, cache'[r].state = "listed"
             PROVE  cache'[r].clients \subseteq KeysAfter(r) \/ closing'[r] > 0
  BY DEF NoPhantomMembers, Keys, KeysAfter
<1>1. closing[r] \in Nat
  BY DEF VariablesTyped
<1>2. cache[r].state = "listed" => cache[r].clients \subseteq Keys(r) \/ closing[r] > 0
  BY DEF NoPhantomMembers
<1>3. ListingMoves(r)
  BY StepListing
<1>4. CASE Settles(r)
  BY <1>1, <1>4 DEF Settles, Lists
<1>5. CASE Unlists(r)
  BY <1>5 DEF Unlists
<1>6. CASE Reserves(r) \/ Updates(r) \/ Seats(r) \/ Deletes(r) \/ Creates(r)
  BY <1>2, <1>6 DEF Reserves, Updates, Seats, Deletes, Creates, Lists, SameCache
<1> QED
  BY <1>3, <1>4, <1>5, <1>6 DEF ListingMoves

\* No room exists initially.
LEMMA ListingInit == Init => Listing
<1> SUFFICES ASSUME Init PROVE Listing
  OBVIOUS
<1>1. Creating /\ SocketsAnnounced
  BY DEF Init, Creating, SocketsAnnounced
<1>2. EarlyEmpty
  BY DEF Init, EarlyEmpty, Announced, Keys
<1>3. rooms = {}
  BY DEF Init, rooms
<1>4. NoPhantomMembers
  BY DEF Init, NoPhantomMembers
<1> QED
  BY <1>1, <1>2, <1>3, <1>4 DEF Listing, RemovalPending, NoAbandonedListing, OccupiedRoomListed

\* Every step, and every stutter, keeps the listing right.
LEMMA ListingStep == IInv /\ Listing /\ [Next]_vars => Listing'
<1> SUFFICES ASSUME IInv, Listing, [Next]_vars PROVE Listing'
  OBVIOUS
<1>1. CASE Next
  <2>1. Creating' /\ EarlyEmpty' /\ SocketsAnnounced'
    BY <1>1, CreatingStep, EarlyEmptyStep, SocketsAnnouncedStep DEF IInv, Listing
  <2>2. RemovalPending' /\ NoAbandonedListing' /\ OccupiedRoomListed'
    BY <1>1, RemovalPendingStep, NoAbandonedStep, OccupiedStep DEF IInv, Listing
  <2>3. NoPhantomMembers'
    BY <1>1, NoPhantomStep DEF IInv, Listing
  <2> QED
    BY <2>1, <2>2, <2>3 DEF Listing
<1>2. CASE UNCHANGED vars
  <2> USE <1>2 DEF vars, Listing
  <2>1. Creating' /\ SocketsAnnounced'
    BY DEF Creating, SocketsAnnounced, Announced
  <2>2. EarlyEmpty' /\ RemovalPending'
    BY DEF EarlyEmpty, Early, Announced, Keys, RemovalPending, rooms
  <2>3. NoAbandonedListing' /\ OccupiedRoomListed' /\ NoPhantomMembers'
    BY DEF NoAbandonedListing, OccupiedRoomListed, NoPhantomMembers, Keys, rooms
  <2> QED
    BY <2>1, <2>2, <2>3
<1> QED
  BY <1>1, <1>2

\* The listing of every room is right in every reachable state.
THEOREM ListingInvariance == Spec => []Listing
BY Invariance, ListingInit, ListingStep, PTL DEF Spec

\* No handler leaves an empty room on offer without having its removal started.
THEOREM NoRoomAbandoned == Spec => []NoAbandonedListing
<1>1. Listing => NoAbandonedListing
  BY DEF Listing
<1> QED
  BY <1>1, ListingInvariance, PTL

\* Whoever has a seat in a registered room can be found through the cache,
\* unless a removal of the room has already reached it.
THEOREM OccupiedRoomsListed == Spec => []OccupiedRoomListed
<1>1. Listing => OccupiedRoomListed
  BY DEF Listing
<1> QED
  BY <1>1, ListingInvariance, PTL

\* However joins, closes and removals interleave, the cache names no member
\* the room has lost unless the emptied room is being removed.
THEOREM NoMemberPhantom == Spec => []NoPhantomMembers
<1>1. Listing => NoPhantomMembers
  BY DEF Listing
<1> QED
  BY <1>1, ListingInvariance, PTL
==============================================================================
