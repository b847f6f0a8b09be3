-------------------------- MODULE RoomManagerProofs --------------------------
(***************************************************************************)
(* Proofs about RoomManager, for every set of rooms, sessions, sockets and *)
(* requests, whether or not hooks suspend and sessions overlap sockets:    *)
(* that only admitted sessions sit, and that it implements SeatProtocol.   *)
(***************************************************************************)
EXTENDS RoomManager, TLAPS

-----------------------------------------------------------------------------
(* Updates of the records keep their types. *)

\* An update of a field of a room object leaves a room object.
LEMMA RoomUpdate ==
    ASSUME NEW k \in RoomRecord
    PROVE  /\ \A x \in RoomStage : [k EXCEPT !.stage = x] \in RoomRecord
           /\ \A x \in Session : [k EXCEPT !.host = x] \in RoomRecord
           /\ \A x \in BOOLEAN : [k EXCEPT !.locked = x] \in RoomRecord
           /\ \A x \in BOOLEAN : [k EXCEPT !.terminated = x] \in RoomRecord
           /\ k.locked \in BOOLEAN
BY DEF RoomRecord

\* An update of the stage of a request leaves a request.
LEMMA RequestUpdate ==
    ASSUME NEW k \in RequestRecord
    PROVE  \A x \in RequestStage : [k EXCEPT !.stage = x] \in RequestRecord
BY DEF RequestRecord

\* An update of a field of a connection leaves a connection.
LEMMA ConnUpdate ==
    ASSUME NEW k \in ConnRecord
    PROVE  /\ \A x \in ConnStage : [k EXCEPT !.stage = x] \in ConnRecord
           /\ \A x \in {"none", "open", "closing", "closed"} : [k EXCEPT !.socket = x] \in ConnRecord
           /\ \A x \in {"connecting", "connected", "disconnected", "reconnected"} :
                [k EXCEPT !.status = x] \in ConnRecord
           /\ \A x \in Room : [k EXCEPT !.room = x] \in ConnRecord
           /\ \A x \in Session : [k EXCEPT !.session = x] \in ConnRecord
           /\ \A x \in Request \cup {None} : [k EXCEPT !.via = x] \in ConnRecord
           /\ \A x \in {"no", "waiting", "leaving", "done"} : [k EXCEPT !.leave = x] \in ConnRecord
           /\ \A x \in 0..WaitSeconds : [k EXCEPT !.left = x] \in ConnRecord
           /\ k.left \in 0..WaitSeconds
BY DEF ConnRecord

\* A terminated or closed connection is a connection.
LEMMA ConnEnd ==
    ASSUME NEW k \in ConnRecord
    PROVE  Terminated(k) \in ConnRecord /\ Closed(k) \in ConnRecord
BY ConnUpdate DEF Terminated, Closed

\* toObject() is a room object for the cache; a room without clients is
\* counted for removal instead.
LEMMA RemoveIfEmptyType ==
    ASSUME VariablesTyped, room' \in [Room -> RoomRecord], NEW r, RemoveIfEmpty(r)
    PROVE  cache' \in [Room -> CacheRecord] /\ closing' \in [Room -> Nat]
<1>1. ASSUME NEW x \in Room, x = r
      PROVE  [state |-> "listed", clients |-> KeysAfter(r), locked |-> room'[r].locked] \in CacheRecord
  <2>1. KeysAfter(r) \subseteq Session
    BY DEF KeysAfter
  <2>2. room'[r].locked \in BOOLEAN
    BY <1>1, RoomUpdate
  <2> QED
    BY <2>1, <2>2 DEF CacheRecord
<1>2. CASE KeysAfter(r) = {}
  <2>1. closing' = [closing EXCEPT ![r] = @ + 1] /\ cache' = cache
    BY <1>2 DEF RemoveIfEmpty
  <2>2. ASSUME NEW x \in Room PROVE closing[x] + 1 \in Nat
    BY DEF VariablesTyped
  <2> QED
    BY <2>1, <2>2 DEF VariablesTyped
<1>3. CASE KeysAfter(r) # {}
  BY <1>1, <1>3 DEF RemoveIfEmpty, Relist, VariablesTyped
<1> QED
  BY <1>2, <1>3

-----------------------------------------------------------------------------
(* Types. *)

\* The initial state has the declared types.
LEMMA TypeInit == Init => VariablesTyped
<1> SUFFICES ASSUME Init PROVE VariablesTyped
  OBVIOUS
<1>1. room \in [Room -> RoomRecord] /\ request \in [Request -> RequestRecord]
  BY DEF Init, RoomRecord, RoomStage, RequestRecord, RequestStage
<1>2. conn \in [Conn -> ConnRecord]
  BY ParametersTyped DEF Init, ConnRecord, ConnStage
<1>3. cache \in [Room -> CacheRecord]
  BY DEF Init, CacheRecord
<1>4. /\ clients \in [Room -> [Session -> Conn \cup {Null, None}]]
      /\ reserved \in [Room -> [Session -> Request \cup {None}]]
      /\ tracking \in [Room -> [Session -> Conn \cup {None}]]
  BY DEF Init
<1>5. closing \in [Room -> Nat] /\ deleting \in [Room -> Nat]
  BY DEF Init
<1> QED
  BY <1>1, <1>2, <1>3, <1>4, <1>5 DEF VariablesTyped

\* The handlers of a request keep the types.
LEMMA TypeRequest ==
    ASSUME VariablesTyped, NEW q \in Request, RequestStep(q)
    PROVE  VariablesTyped'
<1>1. CASE \E r \in Room, s \in Session : CreateRoom(r, s, q)
  <2> PICK r \in Room, s \in Session : CreateRoom(r, s, q)
    BY <1>1
  <2>1. (room \in [Room -> RoomRecord])'
    BY RoomUpdate DEF CreateRoom, VariablesTyped, RoomStage
  <2>2. (request \in [Request -> RequestRecord])'
    BY DEF CreateRoom, VariablesTyped, RequestRecord, RequestStage
  <2> QED
    BY <2>1, <2>2 DEF CreateRoom, VariablesTyped
<1>2. CASE CreateFailed(q)
  BY <1>2, RoomUpdate, RequestUpdate DEF CreateFailed, VariablesTyped, RoomStage, RequestStage
<1>3. CASE RoomCreated(q)
  BY <1>3, RoomUpdate, RequestUpdate DEF RoomCreated, VariablesTyped, RoomStage, RequestStage
<1>4. CASE \E r \in Room, s \in Session : JoinRoom(q, r, s)
  BY <1>4 DEF JoinRoom, VariablesTyped, RequestRecord, RequestStage
<1>5. CASE AuthFailed(q)
  BY <1>5, RequestUpdate DEF AuthFailed, VariablesTyped, RequestStage
<1>6. CASE ReserveSeat(q)
  <2>1. (clients \in [Room -> [Session -> Conn \cup {Null, None}]])'
    BY <1>6 DEF ReserveSeat, VariablesTyped
  <2>2. (reserved \in [Room -> [Session -> Request \cup {None}]])'
    BY <1>6 DEF ReserveSeat, VariablesTyped
  <2>3. (cache \in [Room -> CacheRecord])'
    BY <1>6 DEF ReserveSeat, VariablesTyped, Relist, CacheRecord, KeysAfter, SeatFree, rooms, RoomRecord
  <2>4. (request \in [Request -> RequestRecord])'
    BY <1>6, RequestUpdate DEF ReserveSeat, VariablesTyped, RequestStage
  <2> QED
    BY <1>6, <2>1, <2>2, <2>3, <2>4 DEF ReserveSeat, VariablesTyped
<1>7. CASE ReserveSeatThrows(q)
  BY <1>7, RequestUpdate DEF ReserveSeatThrows, VariablesTyped, RequestStage
<1>8. CASE ReservationTimeout(q)
  <2>1. (cache \in [Room -> CacheRecord] /\ closing \in [Room -> Nat])'
    BY <1>8, RemoveIfEmptyType DEF ReservationTimeout, RemoveRoomClient, VariablesTyped
  <2>2. (request \in [Request -> RequestRecord])'
    BY <1>8, RequestUpdate DEF ReservationTimeout, VariablesTyped, RequestStage
  <2>3. (clients \in [Room -> [Session -> Conn \cup {Null, None}]])'
    BY <1>8 DEF ReservationTimeout, RemoveRoomClient, VariablesTyped
  <2>4. (reserved \in [Room -> [Session -> Request \cup {None}]])'
    BY <1>8 DEF ReservationTimeout, DropReservation, VariablesTyped
  <2> QED
    BY <1>8, <2>1, <2>2, <2>3, <2>4 DEF ReservationTimeout, VariablesTyped
<1> QED
  BY <1>1, <1>2, <1>3, <1>4, <1>5, <1>6, <1>7, <1>8 DEF RequestStep

\* removeRoomClient keeps the types.
LEMMA RemoveClientType ==
    ASSUME VariablesTyped, room' \in [Room -> RoomRecord], NEW r, NEW s, RemoveRoomClient(r, s)
    PROVE  /\ clients' \in [Room -> [Session -> Conn \cup {Null, None}]]
           /\ cache' \in [Room -> CacheRecord]
           /\ closing' \in [Room -> Nat]
BY RemoveIfEmptyType DEF RemoveRoomClient, VariablesTyped

\* The operations on a room keep the types.
LEMMA TypeRoom ==
    ASSUME VariablesTyped, NEW r \in Room, RoomStep(r)
    PROVE  VariablesTyped'
<1>1. CASE \E s, h \in Session, b \in BOOLEAN : UpdateRoom(s, r, b, h)
  <2> PICK s \in Session, h \in Session, b \in BOOLEAN : UpdateRoom(s, r, b, h)
    BY <1>1
  <2>1. (room \in [Room -> RoomRecord])'
    BY RoomUpdate DEF UpdateRoom, VariablesTyped
  <2>2. KeysAfter(r) \subseteq Session /\ room'[r].locked \in BOOLEAN
    BY <2>1, RoomUpdate DEF KeysAfter
  <2>3. (cache \in [Room -> CacheRecord])'
    BY <2>2 DEF UpdateRoom, Relist, VariablesTyped, CacheRecord
  <2> QED
    BY <2>1, <2>3 DEF UpdateRoom, VariablesTyped
<1>2. CASE \E s \in Session : LeaveRoom(s, r)
  <2> PICK s \in Session : LeaveRoom(s, r)
    BY <1>2
  <2>1. (room \in [Room -> RoomRecord])'
    BY DEF LeaveRoom, VariablesTyped
  <2>2. (tracking \in [Room -> [Session -> Conn \cup {None}]])'
    BY DEF LeaveRoom, StopTracking, VariablesTyped
  <2> QED
    BY <2>1, <2>2, RemoveClientType DEF LeaveRoom, VariablesTyped
<1>3. CASE \E s \in Session : CloseRoom(s, r)
  <2> PICK s \in Session : CloseRoom(s, r)
    BY <1>3
  <2>1. (room \in [Room -> RoomRecord])'
    BY RoomUpdate DEF CloseRoom, VariablesTyped
  <2>2. (conn \in [Conn -> ConnRecord])'
    BY ConnEnd DEF CloseRoom, VariablesTyped
  <2>3. (tracking \in [Room -> [Session -> Conn \cup {None}]])'
    BY DEF CloseRoom, VariablesTyped
  <2>4. (clients \in [Room -> [Session -> Conn \cup {Null, None}]])'
    BY DEF CloseRoom, VariablesTyped
  <2>5. (closing \in [Room -> Nat])'
    BY DEF CloseRoom, VariablesTyped
  <2> QED
    BY <2>1, <2>2, <2>3, <2>4, <2>5 DEF CloseRoom, VariablesTyped
<1>4. CASE \E b \in BOOLEAN : SetLocked(r, b)
  <2> PICK b \in BOOLEAN : SetLocked(r, b)
    BY <1>4
  <2>1. (room \in [Room -> RoomRecord])'
    BY RoomUpdate DEF SetLocked, VariablesTyped
  <2> QED
    BY <2>1, RemoveIfEmptyType DEF SetLocked, VariablesTyped
<1>5. CASE RoomClosed(r)
  <2>1. (cache \in [Room -> CacheRecord])'
    <3>1. [state |-> "removed", clients |-> {}, locked |-> FALSE] \in CacheRecord
      BY DEF CacheRecord
    <3> QED
      BY <1>5, <3>1 DEF RoomClosed, VariablesTyped
  <2>2. (closing \in [Room -> Nat] /\ deleting \in [Room -> Nat])'
    BY <1>5 DEF RoomClosed, VariablesTyped
  <2> QED
    BY <1>5, <2>1, <2>2 DEF RoomClosed, VariablesTyped
<1>6. CASE RoomDeleted(r)
  <2>1. (room \in [Room -> RoomRecord])'
    BY <1>6, RoomUpdate DEF RoomDeleted, ForgetRoom, VariablesTyped, RoomStage
  <2>2. (deleting \in [Room -> Nat])'
    BY <1>6 DEF RoomDeleted, VariablesTyped
  <2> QED
    BY <1>6, <2>1, <2>2 DEF RoomDeleted, VariablesTyped
<1> QED
  BY <1>1, <1>2, <1>3, <1>4, <1>5, <1>6 DEF RoomStep

\* Taking the seat keeps the types.
LEMMA SetRoomClientType ==
    ASSUME VariablesTyped, NEW c \in Conn, SetRoomClient(c)
    PROVE  /\ clients' \in [Room -> [Session -> Conn \cup {Null, None}]]
           /\ tracking' \in [Room -> [Session -> Conn \cup {None}]]
<1>1. clients' \in [Room -> [Session -> Conn \cup {Null, None}]]
  BY DEF SetRoomClient, VariablesTyped
<1>2. tracking' \in [Room -> [Session -> Conn \cup {None}]]
  BY DEF SetRoomClient, VariablesTyped
<1> QED
  BY <1>1, <1>2

\* The handlers of a connecting socket keep the types.
LEMMA TypeConnect ==
    ASSUME VariablesTyped, Placed, NEW c \in Conn, ConnectStep(c)
    PROVE  VariablesTyped'
<1>1. CASE \E s \in Session, r \in Room : Connect(c, s, r)
  <2> PICK s \in Session, r \in Room : Connect(c, s, r)
    BY <1>1
  <2>1. [conn[c] EXCEPT !.stage = "verifying", !.socket = "open", !.room = r, !.session = s]
          \in ConnRecord
    BY ConnUpdate DEF VariablesTyped, ConnStage
  <2> QED
    BY <2>1 DEF Connect, VariablesTyped
<1>2. CASE VerifyFailed(c)
  BY <1>2, ConnUpdate, ConnEnd DEF VerifyFailed, VariablesTyped, ConnStage
<1>3. CASE ConnectRefused(c)
  BY <1>3, ConnUpdate, ConnEnd DEF ConnectRefused, VariablesTyped, ConnStage
<1>4. CASE ConnectReturning(c)
  BY <1>4, ConnUpdate, ConnEnd DEF ConnectReturning, VariablesTyped, ConnStage
<1>5. CASE ConnectSeated(c)
  <2> DEFINE r == conn[c].room
             s == conn[c].session
  <2>1. r \in Room /\ s \in Session
    BY <1>5 DEF ConnectSeated, Placed
  <2>2. reserved[r][s] \in Request \cup {None}
    BY <2>1 DEF VariablesTyped
  <2>3. (conn \in [Conn -> ConnRecord])'
    BY <1>5, <2>2, ConnUpdate DEF ConnectSeated, VariablesTyped, ConnStage
  <2>4. (request \in [Request -> RequestRecord])'
    BY <1>5, RequestUpdate DEF ConnectSeated, VariablesTyped, RequestStage
  <2>5. (reserved \in [Room -> [Session -> Request \cup {None}]])'
    BY <1>5 DEF ConnectSeated, DropReservation, VariablesTyped
  <2> QED
    BY <1>5, <2>3, <2>4, <2>5 DEF ConnectSeated, VariablesTyped
<1>6. CASE ConnectionTimeout(c)
  BY <1>6, ConnEnd DEF ConnectionTimeout, VariablesTyped
<1>7. CASE Joined(c)
  BY <1>7, ConnUpdate DEF Joined, VariablesTyped, ConnStage
<1>8. CASE JoinFailed(c)
  BY <1>8, ConnUpdate, ConnEnd DEF JoinFailed, VariablesTyped, ConnStage
<1>9. CASE JoinDone(c)
  BY <1>9, ConnUpdate, SetRoomClientType DEF JoinDone, VariablesTyped, ConnStage
<1>10. CASE Reconnected(c)
  BY <1>10, ConnUpdate, SetRoomClientType DEF Reconnected, VariablesTyped, ConnStage
<1> QED
  BY <1>1, <1>2, <1>3, <1>4, <1>5, <1>6, <1>7, <1>8, <1>9, <1>10 DEF ConnectStep, Verified

\* The handlers of a socket that closes keep the types.
LEMMA TypeDisconnect ==
    ASSUME VariablesTyped, Placed, NEW c \in Conn,
           Disconnect(c) \/ LeaveDone(c) \/ WaitPoll(c)
    PROVE  VariablesTyped'
<1> DEFINE r == conn[c].room
           s == conn[c].session
<1>1. CASE DisconnectNoRoom(c)
  BY <1>1, ConnEnd DEF DisconnectNoRoom, VariablesTyped
<1>2. CASE DisconnectNoId(c)
  <2>1. (conn \in [Conn -> ConnRecord] /\ room \in [Room -> RoomRecord])'
    BY <1>2, ConnEnd DEF DisconnectNoId, VariablesTyped
  <2> QED
    BY <1>2, <2>1, RemoveIfEmptyType DEF DisconnectNoId, VariablesTyped
<1>3. CASE DisconnectNoClient(c)
  <2>1. (conn \in [Conn -> ConnRecord] /\ room \in [Room -> RoomRecord])'
    BY <1>3, ConnEnd DEF DisconnectNoClient, VariablesTyped
  <2>2. (tracking \in [Room -> [Session -> Conn \cup {None}]])'
    BY <1>3 DEF DisconnectNoClient, StopTracking, VariablesTyped
  <2> QED
    BY <1>3, <2>1, <2>2, RemoveClientType DEF DisconnectNoClient, VariablesTyped
<1>4. CASE \E consented \in BOOLEAN : DisconnectClient(c, consented)
  <2> PICK consented \in BOOLEAN : DisconnectClient(c, consented)
    BY <1>4
  <2>1. \A x \in {"waiting", "leaving"}, n \in 0..WaitSeconds :
          [Closed(conn[c]) EXCEPT !.leave = x, !.left = n] \in ConnRecord
    BY ConnEnd, ConnUpdate DEF VariablesTyped
  <2>2. 0 \in 0..WaitSeconds /\ WaitSeconds \in 0..WaitSeconds
    BY ParametersTyped
  <2>3. (conn \in [Conn -> ConnRecord])'
    BY <2>1, <2>2 DEF DisconnectClient, VariablesTyped
  <2>4. (tracking \in [Room -> [Session -> Conn \cup {None}]])'
    BY DEF DisconnectClient, StopTracking, VariablesTyped
  <2> QED
    BY <2>3, <2>4 DEF DisconnectClient, VariablesTyped
<1>5. CASE LeaveDone(c)
  <2>1. (conn \in [Conn -> ConnRecord] /\ room \in [Room -> RoomRecord])'
    BY <1>5, ConnUpdate DEF LeaveDone, VariablesTyped
  <2>2. CASE SeatRetaken(r, s)
    BY <1>5, <2>1, <2>2 DEF LeaveDone, VariablesTyped
  <2>3. CASE ~SeatRetaken(r, s)
    BY <1>5, <2>1, <2>3, RemoveClientType DEF LeaveDone, VariablesTyped
  <2> QED
    BY <2>2, <2>3
<1>6. ASSUME NEW k \in ConnRecord
      PROVE  [k EXCEPT !.leave = "leaving", !.left = 0] \in ConnRecord
  <2>1. 0 \in 0..WaitSeconds
    BY ParametersTyped
  <2> QED
    BY <1>6, <2>1, ConnUpdate
<1>7. CASE WaitRejected(c)
  BY <1>6, <1>7 DEF WaitRejected, VariablesTyped
<1>8. CASE WaitResolved(c)
  BY <1>6, <1>8, ConnUpdate DEF WaitResolved, VariablesTyped
<1>9. CASE WaitTick(c)
  <2>1. conn[c].left \in 0..WaitSeconds /\ ~(conn[c].left <= 1)
    BY <1>9, ConnUpdate DEF WaitTick, WaitOver, VariablesTyped
  <2>2. conn[c].left - 1 \in 0..WaitSeconds
    BY <2>1, ParametersTyped
  <2> QED
    BY <1>9, <2>2, ConnUpdate DEF WaitTick, VariablesTyped
<1> QED
  BY <1>1, <1>2, <1>3, <1>4, <1>5, <1>7, <1>8, <1>9 DEF Disconnect, WaitPoll

-----------------------------------------------------------------------------
(* What a step does to the identity of connections and requests. *)

\* The connection keeps its session, room and reservation.
Kept(d) ==
    /\ conn'[d].room = conn[d].room
    /\ conn'[d].session = conn[d].session
    /\ conn'[d].via = conn[d].via

\* It goes from one stage to another and keeps the rest.
Moves(d, from, to) == Kept(d) /\ conn[d].stage = from /\ conn'[d].stage = to

\* It may be terminated, closed, or wait: the stage stays.
Stays(d) == Kept(d) /\ conn'[d].stage = conn[d].stage

\* Every way a step can change a connection.
ConnMoves(d) ==
    \/ Stays(d)
    \/ /\ conn[d].stage = "idle" /\ conn'[d].stage = "verifying"
       /\ conn'[d].room \in Room /\ conn'[d].session \in Session
       /\ conn'[d].via = conn[d].via /\ Announced(conn'[d].room)
    \/ Moves(d, "verifying", "rejected")
    \/ Moves(d, "verifying", "refused")
    \/ Moves(d, "verifying", "awaitReconnected") /\ ConnectReturning(d)
    \/ conn'[d].stage = "awaitJoined" /\ ConnectSeated(d)
    \/ Moves(d, "awaitJoined", "joining")
    \/ Moves(d, "joining", "refused")
    \/ Moves(d, "joining", "established") /\ JoinDone(d)
    \/ Moves(d, "awaitReconnected", "established") /\ Reconnected(d)

\* Terminating or closing a connection does not touch its identity.
LEMMA EndKeeps ==
    ASSUME NEW k \in ConnRecord
    PROVE  \A j \in {Terminated(k), Closed(k)} :
             j.stage = k.stage /\ j.room = k.room /\ j.session = k.session /\ j.via = k.via
BY DEF Terminated, Closed, ConnRecord

LEMMA ConnectMoves ==
    ASSUME conn \in [Conn -> ConnRecord], NEW c \in Conn, ConnectStep(c), NEW d \in Conn
    PROVE  ConnMoves(d)
<1> USE DEF Kept, Moves, Stays, ConnMoves
<1>1. CASE \E s \in Session, r \in Room : Connect(c, s, r)
  BY <1>1 DEF Connect, ConnRecord
<1>2. CASE VerifyFailed(c)
  BY <1>2 DEF VerifyFailed, Terminated, ConnRecord
<1>3. CASE ConnectRefused(c)
  BY <1>3 DEF ConnectRefused, Terminated, ConnRecord
<1>4. CASE ConnectReturning(c)
  <2>1. CASE d = c
    <3> DEFINE k == [conn[c] EXCEPT !.stage = "awaitReconnected"]
    <3>1. k \in ConnRecord
      BY ConnUpdate DEF ConnStage
    <3>2. conn'[c] \in {k, Terminated(k)}
      BY <1>4 DEF ConnectReturning
    <3>3. /\ k.stage = "awaitReconnected" /\ k.room = conn[c].room
          /\ k.session = conn[c].session /\ k.via = conn[c].via
      BY DEF ConnRecord
    <3> HIDE DEF k
    <3>4. /\ conn'[c].stage = "awaitReconnected" /\ conn'[c].room = conn[c].room
          /\ conn'[c].session = conn[c].session /\ conn'[c].via = conn[c].via
      BY <3>1, <3>2, <3>3, EndKeeps
    <3> QED
      BY <1>4, <2>1, <3>4 DEF ConnectReturning
  <2>2. CASE d # c
    <3>1. conn'[d] \in {conn[d], Terminated(conn[d])}
      BY <1>4, <2>2 DEF ConnectReturning
    <3> QED
      BY <3>1, EndKeeps
  <2> QED
    BY <2>1, <2>2
<1>5. CASE ConnectSeated(c)
  <2>1. CASE d = c
    BY <1>5, <2>1 DEF ConnectSeated, ConnRecord
  <2>2. CASE d # c
    BY <1>5, <2>2 DEF ConnectSeated
  <2> QED
    BY <2>1, <2>2
<1>6. CASE ConnectionTimeout(c)
  BY <1>6, EndKeeps DEF ConnectionTimeout
<1>7. CASE Joined(c)
  BY <1>7 DEF Joined, ConnRecord
<1>8. CASE JoinFailed(c)
  BY <1>8 DEF JoinFailed, Terminated, ConnRecord
<1>9. CASE JoinDone(c)
  <2>1. CASE d = c
    BY <1>9, <2>1 DEF JoinDone, ConnRecord
  <2>2. CASE d # c
    BY <1>9, <2>2 DEF JoinDone
  <2> QED
    BY <2>1, <2>2
<1>10. CASE Reconnected(c)
  <2>1. CASE d = c
    BY <1>10, <2>1 DEF Reconnected, ConnRecord
  <2>2. CASE d # c
    BY <1>10, <2>2 DEF Reconnected
  <2> QED
    BY <2>1, <2>2
<1> QED
  BY <1>1, <1>2, <1>3, <1>4, <1>5, <1>6, <1>7, <1>8, <1>9, <1>10 DEF ConnectStep, Verified

LEMMA OtherMoves ==
    ASSUME conn \in [Conn -> ConnRecord], NEW d \in Conn,
           \/ \E q \in Request : RequestStep(q)
           \/ \E r \in Room : RoomStep(r)
           \/ \E c \in Conn : Disconnect(c) \/ LeaveDone(c) \/ WaitPoll(c)
    PROVE  Stays(d)
<1> USE DEF Kept, Stays
<1>1. CASE \E q \in Request : RequestStep(q)
  BY <1>1 DEF RequestStep, CreateRoom, CreateFailed, RoomCreated, JoinRoom, AuthFailed,
              ReserveSeat, ReserveSeatThrows, ReservationTimeout
<1>2. CASE \E r \in Room : RoomStep(r)
  <2>1. PICK r \in Room : RoomStep(r)
    BY <1>2
  <2>2. CASE \E s \in Session : CloseRoom(s, r)
    BY <2>2, EndKeeps DEF CloseRoom
  <2>3. CASE conn' = conn
    BY <2>3
  <2> QED
    BY <2>1, <2>2, <2>3 DEF RoomStep, UpdateRoom, LeaveRoom, SetLocked, RoomClosed, RoomDeleted
<1>3. ASSUME NEW c \in Conn, Disconnect(c)
      PROVE  Stays(d)
  <2>1. CASE DisconnectNoRoom(c) \/ DisconnectNoId(c) \/ DisconnectNoClient(c)
    BY <2>1, EndKeeps DEF DisconnectNoRoom, DisconnectNoId, DisconnectNoClient
  <2>2. CASE \E consented \in BOOLEAN : DisconnectClient(c, consented)
    <3>1. PICK x, n : conn' = [conn EXCEPT ![c] = [Closed(@) EXCEPT !.leave = x, !.left = n]]
      BY <2>2 DEF DisconnectClient
    <3> QED
      BY <3>1 DEF Closed, ConnRecord
  <2> QED
    BY <1>3, <2>1, <2>2 DEF Disconnect
<1>4. ASSUME NEW c \in Conn, LeaveDone(c) \/ WaitPoll(c)
      PROVE  Stays(d)
  <2>1. CASE LeaveDone(c)
    BY <2>1 DEF LeaveDone, ConnRecord
  <2>2. CASE WaitRejected(c)
    BY <2>2 DEF WaitRejected, ConnRecord
  <2>4. CASE WaitTick(c)
    BY <2>4 DEF WaitTick, ConnRecord
  <2>3. CASE WaitResolved(c)
    <3>1. PICK n : conn' = [conn EXCEPT ![n].status = "connected",
                                        ![c] = [@ EXCEPT !.leave = "leaving", !.left = 0]]
      BY <2>3 DEF WaitResolved
    <3>2. PICK k \in {conn[d], [conn[d] EXCEPT !.status = "connected"]} :
            conn'[d] \in {k, [k EXCEPT !.leave = "leaving", !.left = 0]}
      BY <3>1
    <3>3. /\ k.room = conn[d].room /\ k.session = conn[d].session
          /\ k.via = conn[d].via /\ k.stage = conn[d].stage
      BY <3>2 DEF ConnRecord
    <3>6. conn[d] \in ConnRecord
      OBVIOUS
    <3>4. k \in ConnRecord
      BY ONLY <3>2, <3>6 DEF ConnRecord
    <3>5. /\ conn'[d].room = k.room /\ conn'[d].session = k.session
          /\ conn'[d].via = k.via /\ conn'[d].stage = k.stage
      BY ONLY <3>2, <3>4 DEF ConnRecord
    <3> QED
      BY ONLY <3>3, <3>5 DEF Kept, Stays
  <2> QED
    BY <1>4, <2>1, <2>2, <2>3, <2>4 DEF WaitPoll
<1> QED
  BY <1>1, <1>2, <1>3, <1>4

\* Every step of the specification moves a connection in one of these ways.
LEMMA StepMoves ==
    ASSUME conn \in [Conn -> ConnRecord], Next, NEW d \in Conn
    PROVE  ConnMoves(d)
BY ConnectMoves, OtherMoves DEF Next, ConnMoves

\* Only the stage of a request changes, from one to another.
Turns(q, from, to) ==
    /\ request[q].stage = from
    /\ request'[q] = [request[q] EXCEPT !.stage = to]

\* Socket c redeems the reservation of request q.
Redeems(c, q) ==
    /\ ConnectSeated(c)
    /\ q = reserved[conn[c].room][conn[c].session]
    /\ request'[q] = [request[q] EXCEPT !.stage = "redeemed"]

\* Every way a step can change a request.
RequestMoves(q) ==
    \/ request'[q] = request[q]
    \/ /\ request[q].stage = "unused"
       /\ request'[q].stage \in {"creating", "authorizing"}
       /\ request'[q].room \in Room /\ request'[q].session \in Session
    \/ \E to \in {"refused", "authorizing"} : Turns(q, "creating", to)
    \/ Turns(q, "authorizing", "refused")
    \/ Turns(q, "authorizing", "armed") /\ ReserveSeat(q)
    \/ Turns(q, "armed", "expired") /\ ReservationTimeout(q)
    \/ \E c \in Conn : Redeems(c, q)

\* Every step of the specification changes a request in one of these ways.
LEMMA StepTurns ==
    ASSUME request \in [Request -> RequestRecord], Next, NEW q \in Request
    PROVE  RequestMoves(q)
<1> USE DEF Turns, RequestMoves
<1>1. ASSUME NEW p \in Request, RequestStep(p)
      PROVE  RequestMoves(q)
  <2>1. CASE p # q
    BY <1>1, <2>1 DEF RequestStep, CreateRoom, CreateFailed, RoomCreated, JoinRoom, AuthFailed,
                      ReserveSeat, ReserveSeatThrows, ReservationTimeout
  <2>2. CASE p = q
    <3>1. CASE \E r \in Room, s \in Session : CreateRoom(r, s, q) \/ JoinRoom(q, r, s)
      BY <3>1 DEF CreateRoom, JoinRoom
    <3>2. CASE CreateFailed(q) \/ AuthFailed(q) \/ ReserveSeatThrows(q)
      BY <3>2 DEF CreateFailed, AuthFailed, ReserveSeatThrows
    <3>3. CASE RoomCreated(q)
      BY <3>3 DEF RoomCreated
    <3>4. CASE ReserveSeat(q)
      BY <3>4 DEF ReserveSeat
    <3>5. CASE ReservationTimeout(q)
      BY <3>5 DEF ReservationTimeout, TimerArmed
    <3> QED
      BY <1>1, <2>2, <3>1, <3>2, <3>3, <3>4, <3>5 DEF RequestStep
  <2> QED
    BY <2>1, <2>2
<1>2. ASSUME NEW r \in Room, RoomStep(r)
      PROVE  RequestMoves(q)
  BY <1>2 DEF RoomStep, UpdateRoom, LeaveRoom, CloseRoom, SetLocked, RoomClosed, RoomDeleted
<1>3. ASSUME NEW c \in Conn, ConnectStep(c)
      PROVE  RequestMoves(q)
  <2>1. CASE ConnectSeated(c)
    BY <2>1 DEF ConnectSeated, Redeems
  <2>2. CASE request' = request
    BY <2>2
  <2> QED
    BY <1>3, <2>1, <2>2 DEF ConnectStep, Verified, Connect, VerifyFailed, ConnectRefused,
              ConnectReturning, ConnectionTimeout, Joined, JoinFailed, JoinDone, Reconnected
<1>4. ASSUME NEW c \in Conn, Disconnect(c) \/ LeaveDone(c) \/ WaitPoll(c)
      PROVE  request' = request
  BY <1>4 DEF Disconnect, DisconnectNoRoom, DisconnectNoId, DisconnectNoClient, DisconnectClient,
              LeaveDone, WaitPoll, WaitRejected, WaitResolved, WaitTick
<1> QED
  BY <1>1, <1>2, <1>3, <1>4 DEF Next

\* Every step fills an entry of room.clients with a client, if it does, by
\* letting a socket of that session and room take the seat.
LEMMA StepSeats ==
    ASSUME clients \in [Room -> [Session -> Conn \cup {Null, None}]], Next,
           NEW r \in Room, NEW s \in Session, clients'[r][s] \in Conn
    PROVE  \/ clients'[r][s] = clients[r][s]
           \/ \E c \in Conn : /\ clients'[r][s] = c
                              /\ conn[c].room = r /\ conn[c].session = s
                              /\ JoinDone(c) \/ Reconnected(c)
<1>1. ASSUME NEW q \in Request, RequestStep(q)
      PROVE  clients'[r][s] = clients[r][s]
  <2>1. CASE ReserveSeat(q)
    BY <2>1, NamesDiffer DEF ReserveSeat
  <2>2. CASE ReservationTimeout(q)
    BY <2>2, NamesDiffer DEF ReservationTimeout, RemoveRoomClient
  <2>3. CASE clients' = clients
    BY <2>3
  <2> QED
    BY <1>1, <2>1, <2>2, <2>3 DEF RequestStep, CreateRoom, CreateFailed, RoomCreated, JoinRoom,
                                  AuthFailed, ReserveSeatThrows
<1>2. ASSUME NEW x \in Room, RoomStep(x)
      PROVE  clients'[r][s] = clients[r][s]
  <2>1. CASE \E t \in Session : LeaveRoom(t, x)
    BY <2>1, NamesDiffer DEF LeaveRoom, RemoveRoomClient
  <2>2. CASE \E t \in Session : CloseRoom(t, x)
    BY <2>2, NamesDiffer DEF CloseRoom
  <2>3. CASE clients' = clients
    BY <2>3
  <2> QED
    BY <1>2, <2>1, <2>2, <2>3 DEF RoomStep, UpdateRoom, SetLocked, RoomClosed, RoomDeleted
<1>3. ASSUME NEW c \in Conn, JoinDone(c) \/ Reconnected(c)
      PROVE  \/ clients'[r][s] = clients[r][s]
             \/ clients'[r][s] = c /\ conn[c].room = r /\ conn[c].session = s
  BY <1>3 DEF JoinDone, Reconnected, SetRoomClient
<1>4. ASSUME NEW c \in Conn, ConnectStep(c), ~JoinDone(c), ~Reconnected(c)
      PROVE  clients' = clients
  BY <1>4 DEF ConnectStep, Verified, Connect, VerifyFailed, ConnectRefused, ConnectReturning,
              ConnectSeated, ConnectionTimeout, Joined, JoinFailed
<1>5. ASSUME NEW c \in Conn, Disconnect(c) \/ LeaveDone(c) \/ WaitPoll(c)
      PROVE  clients'[r][s] = clients[r][s]
  <2>1. CASE DisconnectNoClient(c)
    BY <2>1, NamesDiffer DEF DisconnectNoClient, RemoveRoomClient
  <2>2. CASE LeaveDone(c)
    BY <2>2, NamesDiffer DEF LeaveDone, RemoveRoomClient
  <2>3. CASE clients' = clients
    BY <2>3
  <2> QED
    BY <1>5, <2>1, <2>2, <2>3 DEF Disconnect, DisconnectNoRoom, DisconnectNoId, DisconnectClient,
                                  WaitPoll, WaitRejected, WaitResolved, WaitTick
<1> QED
  BY <1>1, <1>2, <1>3, <1>4, <1>5 DEF Next

\* Every step fills an entry of reservedSeats, if it does, by reserveSeat.
LEMMA StepReserves ==
    ASSUME reserved \in [Room -> [Session -> Request \cup {None}]], Next,
           NEW r \in Room, NEW s \in Session
    PROVE  \/ reserved'[r][s] \in {reserved[r][s], None}
           \/ \E q \in Request : /\ reserved'[r][s] = q /\ ReserveSeat(q)
                                 /\ request[q].room = r /\ request[q].session = s
<1>1. ASSUME NEW q \in Request, RequestStep(q), ~ReserveSeat(q)
      PROVE  reserved'[r][s] \in {reserved[r][s], None}
  <2>1. CASE ReservationTimeout(q)
    BY <2>1 DEF ReservationTimeout, DropReservation
  <2>2. CASE reserved' = reserved
    BY <2>2
  <2> QED
    BY <1>1, <2>1, <2>2 DEF RequestStep, CreateRoom, CreateFailed, RoomCreated, JoinRoom,
                            AuthFailed, ReserveSeatThrows
<1>2. ASSUME NEW q \in Request, ReserveSeat(q)
      PROVE  \/ reserved'[r][s] = reserved[r][s]
             \/ reserved'[r][s] = q /\ request[q].room = r /\ request[q].session = s
  BY <1>2 DEF ReserveSeat
<1>3. ASSUME NEW x \in Room, RoomStep(x)
      PROVE  reserved' = reserved
  BY <1>3 DEF RoomStep, UpdateRoom, LeaveRoom, CloseRoom, SetLocked, RoomClosed, RoomDeleted
<1>4. ASSUME NEW c \in Conn, ConnectStep(c)
      PROVE  reserved'[r][s] \in {reserved[r][s], None}
  <2>1. CASE ConnectSeated(c)
    BY <2>1 DEF ConnectSeated, DropReservation
  <2>2. CASE reserved' = reserved
    BY <2>2
  <2> QED
    BY <1>4, <2>1, <2>2 DEF ConnectStep, Verified, Connect, VerifyFailed, ConnectRefused,
              ConnectReturning, ConnectionTimeout, Joined, JoinFailed, JoinDone, Reconnected
<1>5. ASSUME NEW c \in Conn, Disconnect(c) \/ LeaveDone(c) \/ WaitPoll(c)
      PROVE  reserved' = reserved
  BY <1>5 DEF Disconnect, DisconnectNoRoom, DisconnectNoId, DisconnectNoClient, DisconnectClient,
              LeaveDone, WaitPoll, WaitRejected, WaitResolved, WaitTick
<1> QED
  BY <1>1, <1>2, <1>3, <1>4, <1>5 DEF Next

-----------------------------------------------------------------------------
(* Type correctness. *)

\* A request keeps its session and room when its stage changes.
LEMMA TurnKeeps ==
    ASSUME NEW k \in RequestRecord, NEW x
    PROVE  LET j == [k EXCEPT !.stage = x]
           IN  j.stage = x /\ j.room = k.room /\ j.session = k.session
BY DEF RequestRecord

\* The request behind an entry of reservedSeats.
LEMMA Backing ==
    ASSUME SeatBacked, NEW r \in Room, NEW s \in Session, NEW q, reserved[r][s] = q, q # None
    PROVE  request[q].stage = "armed" /\ request[q].room = r /\ request[q].session = s
<1>1. request[q] = [stage |-> "armed", room |-> r, session |-> s]
  BY DEF SeatBacked
<1> QED
  BY <1>1

\* Only an armed reservation of the socket's own session and room is redeemed.
LEMMA RedeemsOwn ==
    ASSUME Placed, SeatBacked, NEW c \in Conn, NEW q \in Request, Redeems(c, q)
    PROVE  /\ Turns(q, "armed", "redeemed")
           /\ conn[c].room \in Room /\ conn[c].session \in Session
           /\ request[q].room = conn[c].room
           /\ request[q].session = conn[c].session
<1>1. conn[c].room \in Room /\ conn[c].session \in Session
  BY DEF Redeems, ConnectSeated, Placed
<1>2. reserved[conn[c].room][conn[c].session] = q /\ q # None
  BY NamesDiffer DEF Redeems
<1>3. request[q].stage = "armed" /\ request[q].room = conn[c].room
      /\ request[q].session = conn[c].session
  BY <1>1, <1>2, Backing
<1> QED
  BY <1>1, <1>3 DEF Redeems, Turns

\* No handler moves a request or a socket in use to another session or room.
\* That a redeemed request was in use needs SeatBacked.
LEMMA PlacedStep ==
    ASSUME VariablesTyped, Placed, SeatBacked, Next
    PROVE  Placed'
<1>1. ASSUME NEW q \in Request, request'[q].stage # "unused"
      PROVE  request'[q].room \in Room /\ request'[q].session \in Session
  <2>1. RequestMoves(q) /\ request[q] \in RequestRecord
    BY StepTurns DEF VariablesTyped
  <2>2. CASE request'[q] = request[q]
    BY <1>1, <2>2 DEF Placed
  <2>3. ASSUME NEW from, NEW to, Turns(q, from, to), from # "unused"
        PROVE  request'[q].room \in Room /\ request'[q].session \in Session
    BY <2>1, <2>3, TurnKeeps DEF Turns, Placed
  <2>4. ASSUME NEW c \in Conn, Redeems(c, q)
        PROVE  request'[q].room \in Room /\ request'[q].session \in Session
    BY <2>3, <2>4, RedeemsOwn
  <2>5. CASE request[q].stage = "unused" /\ request'[q].room \in Room /\ request'[q].session \in Session
    BY <2>5
  <2> QED
    BY <2>1, <2>2, <2>3, <2>4, <2>5 DEF RequestMoves
<1>2. ASSUME NEW c \in Conn, conn'[c].stage # "idle"
      PROVE  conn'[c].room \in Room /\ conn'[c].session \in Session
  <2>1. ConnMoves(c)
    BY StepMoves DEF VariablesTyped
  <2>2. CASE ConnectSeated(c)
    BY <2>2 DEF ConnectSeated, Placed, VariablesTyped, ConnRecord
  <2> QED
    BY <1>2, <2>1, <2>2 DEF ConnMoves, Moves, Stays, Kept, Placed
<1> QED
  BY <1>1, <1>2 DEF Placed

-----------------------------------------------------------------------------
(* Reservations. *)

\* The seat of an entry of reservedSeats is backed after every step.
LEMMA SeatBackedStep ==
    ASSUME VariablesTyped, Placed, SeatBacked, Next
    PROVE  SeatBacked'
<1> SUFFICES ASSUME NEW r \in Room, NEW s \in Session, reserved'[r][s] # None
             PROVE  request'[reserved'[r][s]] = [stage |-> "armed", room |-> r, session |-> s]
  BY DEF SeatBacked
<1>1. ASSUME NEW q \in Request, reserved'[r][s] = q, ReserveSeat(q),
             request[q].room = r, request[q].session = s
      PROVE  request'[q] = [stage |-> "armed", room |-> r, session |-> s]
  <2>1. request[q] \in RequestRecord /\ request'[q] = [request[q] EXCEPT !.stage = "armed"]
    BY <1>1 DEF ReserveSeat, VariablesTyped
  <2> QED
    BY <1>1, <2>1 DEF RequestRecord
<1>2. CASE reserved'[r][s] = reserved[r][s]
  <2> DEFINE q == reserved[r][s]
  <2>1. q \in Request /\ q # None
    BY <1>2 DEF VariablesTyped
  <2>2. request[q].stage = "armed" /\ request[q].room = r /\ request[q].session = s
    BY <2>1, Backing
  <2>3. RequestMoves(q)
    BY <2>1, StepTurns DEF VariablesTyped
  <2>4. ~ReservationTimeout(q)
    <3> SUFFICES ASSUME ReservationTimeout(q) PROVE FALSE
      OBVIOUS
    <3>1. reserved'[r][s] = None
      BY <2>2 DEF ReservationTimeout, DropReservation, VariablesTyped
    <3> QED
      BY <3>1
  <2>5. ASSUME NEW c \in Conn, Redeems(c, q)
        PROVE  FALSE
    <3>1. conn[c].room = r /\ conn[c].session = s
      BY <2>1, <2>2, <2>5, RedeemsOwn
    <3>2. reserved'[r][s] = None
      BY <2>5, <3>1 DEF Redeems, ConnectSeated, DropReservation, VariablesTyped
    <3> QED
      BY <3>2
  <2>6. request'[q] = request[q]
    BY <2>2, <2>3, <2>4, <2>5 DEF RequestMoves, Turns
  <2> QED
    BY <1>2, <2>6 DEF SeatBacked
<1> QED
  BY <1>1, <1>2, StepReserves DEF VariablesTyped

\* A redeemed request never changes again.
LEMMA RedeemedStays ==
    ASSUME VariablesTyped, Placed, SeatBacked, Next,
           NEW q \in Request, request[q].stage = "redeemed"
    PROVE  request'[q] = request[q]
<1>1. RequestMoves(q)
  BY StepTurns DEF VariablesTyped
<1>2. ASSUME NEW c \in Conn, Redeems(c, q)
      PROVE  FALSE
  BY <1>2, RedeemsOwn DEF Turns
<1> QED
  BY <1>1, <1>2 DEF RequestMoves, Turns

\* Admitted, in the state after the step.
AdmittedAfter(r, s) ==
    \E q \in Request : request'[q] = [stage |-> "redeemed", room |-> r, session |-> s]

\* A session that was admitted stays admitted.
LEMMA AdmittedStays ==
    ASSUME VariablesTyped, Placed, SeatBacked, Next, NEW r, NEW s, Admitted(r, s)
    PROVE  AdmittedAfter(r, s)
<1>1. PICK q \in Request : request[q] = [stage |-> "redeemed", room |-> r, session |-> s]
  BY DEF Admitted
<1>2. request'[q] = request[q]
  BY <1>1, RedeemedStays
<1> QED
  BY <1>1, <1>2 DEF AdmittedAfter

\* What onClientConnected does with a reservation.
LEMMA SeatedEffect ==
    ASSUME VariablesTyped, Placed, SeatBacked, NEW c \in Conn, ConnectSeated(c)
    PROVE  \E q \in Request :
             /\ Redeems(c, q)
             /\ conn'[c].via = q /\ conn'[c].stage = "awaitJoined"
             /\ conn'[c].room = conn[c].room /\ conn'[c].session = conn[c].session
             /\ request'[q] = [stage |-> "redeemed", room |-> conn[c].room,
                               session |-> conn[c].session]
             /\ \A d \in Conn : d # c => conn'[d] = conn[d]
<1> DEFINE q == reserved[conn[c].room][conn[c].session]
<1>1. conn[c].room \in Room /\ conn[c].session \in Session
  BY DEF ConnectSeated, Placed
<1>2. q \in Request
  BY <1>1 DEF ConnectSeated, HasReservation, VariablesTyped
<1>3. Redeems(c, q)
  BY <1>2 DEF ConnectSeated, Redeems, VariablesTyped
<1>4. request[q].room = conn[c].room /\ request[q].session = conn[c].session
  BY <1>2, <1>3, RedeemsOwn
<1>5. request'[q] = [request[q] EXCEPT !.stage = "redeemed"] /\ request[q] \in RequestRecord
  BY <1>2, <1>3 DEF Redeems, VariablesTyped
<1>6. request'[q] = [stage |-> "redeemed", room |-> conn[c].room, session |-> conn[c].session]
  BY <1>4, <1>5 DEF RequestRecord
<1>7. /\ conn'[c].via = q /\ conn'[c].stage = "awaitJoined"
      /\ conn'[c].room = conn[c].room /\ conn'[c].session = conn[c].session
  BY DEF ConnectSeated, VariablesTyped, ConnRecord
<1>8. \A d \in Conn : d # c => conn'[d] = conn[d]
  BY DEF ConnectSeated, VariablesTyped
<1> QED
  BY <1>2, <1>3, <1>6, <1>7, <1>8

\* Handshakes stay backed by a redeemed reservation.
LEMMA HandshakeStep ==
    ASSUME VariablesTyped, Placed, SeatBacked, HandshakeAdmitted, SeatAdmitted, Next
    PROVE  HandshakeAdmitted'
<1> SUFFICES ASSUME NEW d \in Conn
             PROVE  /\ conn'[d].stage \in {"awaitJoined", "joining"} => conn'[d].via # None
                    /\ conn'[d].via # None => request'[conn'[d].via] =
                         [stage |-> "redeemed", room |-> conn'[d].room, session |-> conn'[d].session]
                    /\ conn'[d].stage = "idle" => conn'[d].via = None
                    /\ conn'[d].stage = "awaitReconnected" =>
                         AdmittedAfter(conn'[d].room, conn'[d].session)
  BY Zenon DEF HandshakeAdmitted, Admitted, AdmittedAfter
<1>1. ConnMoves(d)
  BY StepMoves DEF VariablesTyped
<1>2. conn[d].via \in Request \cup {None} /\ (conn[d].via # None => conn[d].via \in Request)
  BY DEF VariablesTyped, ConnRecord
<1>3. ASSUME conn[d].via # None
      PROVE  request'[conn[d].via] =
               [stage |-> "redeemed", room |-> conn[d].room, session |-> conn[d].session]
  <2>1. request[conn[d].via] =
          [stage |-> "redeemed", room |-> conn[d].room, session |-> conn[d].session]
    BY <1>3 DEF HandshakeAdmitted
  <2> QED
    BY <1>2, <1>3, <2>1, RedeemedStays
<1>4. CASE ConnectSeated(d)
  BY <1>4, SeatedEffect, NamesDiffer
<1>5. CASE Kept(d) /\ conn[d].stage # "idle" /\ conn'[d].stage # "idle"
           /\ (conn'[d].stage \in {"awaitJoined", "joining"} =>
                 conn[d].stage \in {"awaitJoined", "joining"})
           /\ conn'[d].stage # "awaitReconnected"
  BY <1>3, <1>5 DEF Kept, HandshakeAdmitted
<1>6. CASE Stays(d)
  <2>1. conn[d].stage = "awaitReconnected" => AdmittedAfter(conn[d].room, conn[d].session)
    BY AdmittedStays DEF HandshakeAdmitted
  <2> QED
    BY <1>3, <1>6, <2>1 DEF Stays, Kept, HandshakeAdmitted
<1>7. CASE conn[d].stage = "idle" /\ conn'[d].stage = "verifying" /\ conn'[d].via = conn[d].via
  BY <1>7 DEF HandshakeAdmitted
<1>8. CASE Moves(d, "verifying", "awaitReconnected") /\ ConnectReturning(d)
  <2>1. conn[d].room \in Room /\ conn[d].session \in Session
    BY <1>8 DEF Moves, Placed
  <2>2. Admitted(conn[d].room, conn[d].session)
    BY <1>8, <2>1 DEF ConnectReturning, SeatAdmitted
  <2>3. AdmittedAfter(conn[d].room, conn[d].session)
    BY <2>2, AdmittedStays
  <2> QED
    BY <1>3, <1>8, <2>3 DEF Moves, Kept
<1> QED
  BY <1>1, <1>4, <1>5, <1>6, <1>7, <1>8 DEF ConnMoves, Moves

\* A reservation stays redeemed by one socket only.
LEMMA SingleUseStep ==
    ASSUME VariablesTyped, Placed, SeatBacked, HandshakeAdmitted, SingleUse, Next
    PROVE  SingleUse'
<1>1. CASE \A d \in Conn : conn'[d].via = conn[d].via
  <2> SUFFICES ASSUME NEW c \in Conn, conn[c].via # None
               PROVE  request'[conn[c].via].stage = "redeemed"
    BY <1>1 DEF SingleUse
  <2>1. conn[c].via \in Request
    BY DEF VariablesTyped, ConnRecord
  <2> QED
    BY <2>1, RedeemedStays DEF SingleUse
<1>2. ASSUME NEW c \in Conn, ConnectSeated(c)
      PROVE  SingleUse'
  <2>1. PICK q \in Request :
             /\ Redeems(c, q)
             /\ conn'[c].via = q
             /\ request'[q] = [stage |-> "redeemed", room |-> conn[c].room,
                               session |-> conn[c].session]
             /\ \A d \in Conn : d # c => conn'[d] = conn[d]
    BY <1>2, SeatedEffect
  <2>2. request[q].stage = "armed" /\ request'[q].stage = "redeemed"
    BY <2>1, RedeemsOwn DEF Turns
  <2>3. \A d \in Conn : conn[d].via # None =>
          conn[d].via \in Request /\ request[conn[d].via].stage = "redeemed"
    BY DEF SingleUse, VariablesTyped, ConnRecord
  <2>4. \A d \in Conn : conn[d].via # None =>
          conn[d].via # q /\ request'[conn[d].via].stage = "redeemed"
    BY <2>2, <2>3, RedeemedStays
  <2> QED
    BY <2>1, <2>2, <2>4 DEF SingleUse
<1>3. CASE \A c \in Conn : ~ConnectSeated(c)
  <2>1. \A d \in Conn : conn'[d].via = conn[d].via
    BY <1>3, StepMoves DEF VariablesTyped, ConnMoves, Moves, Stays, Kept
  <2> QED
    BY <1>1, <2>1
<1> QED
  BY <1>2, <1>3

\* SeatAdmitted, in the state after the step.
LEMMA SeatAdmittedAfter ==
    ASSUME \A r \in Room, s \in Session : clients'[r][s] \in Conn =>
             /\ conn'[clients'[r][s]].room = r
             /\ conn'[clients'[r][s]].session = s
             /\ conn'[clients'[r][s]].stage = "established"
             /\ AdmittedAfter(r, s)
    PROVE  SeatAdmitted'
  BY Zenon DEF SeatAdmitted, Admitted, AdmittedAfter

\* Clients of a room stay admitted sockets of their session.
LEMMA SeatAdmittedStep ==
    ASSUME VariablesTyped, Placed, SeatBacked, HandshakeAdmitted, SeatAdmitted, Next
    PROVE  SeatAdmitted'
<1> SUFFICES ASSUME NEW r \in Room, NEW s \in Session, clients'[r][s] \in Conn
             PROVE  /\ conn'[clients'[r][s]].room = r
                    /\ conn'[clients'[r][s]].session = s
                    /\ conn'[clients'[r][s]].stage = "established"
                    /\ AdmittedAfter(r, s)
  BY SeatAdmittedAfter
<1> DEFINE c == clients'[r][s]
<1>1. ConnMoves(c)
  BY StepMoves DEF VariablesTyped
<1>2. CASE clients[r][s] = c
  <2>1. /\ conn[c].room = r /\ conn[c].session = s
        /\ conn[c].stage = "established" /\ Admitted(r, s)
    BY <1>2 DEF SeatAdmitted
  <2>2. Stays(c)
    BY <1>1, <2>1 DEF ConnMoves, Moves, ConnectSeated
  <2> QED
    BY <2>1, <2>2, AdmittedStays DEF Stays, Kept
<1>3. CASE conn[c].room = r /\ conn[c].session = s /\ (JoinDone(c) \/ Reconnected(c))
  <2>1. conn[c].stage \in {"joining", "awaitReconnected"}
    BY <1>3 DEF JoinDone, Reconnected
  <2>2. Admitted(r, s)
    <3>1. CASE conn[c].stage = "joining"
      <4>1. conn[c].via \in Request
        BY <3>1 DEF HandshakeAdmitted, VariablesTyped, ConnRecord
      <4>2. request[conn[c].via] = [stage |-> "redeemed", room |-> r, session |-> s]
        BY <1>3, <3>1 DEF HandshakeAdmitted
      <4> QED
        BY <4>1, <4>2 DEF Admitted
    <3>2. CASE conn[c].stage = "awaitReconnected"
      BY <1>3, <3>2 DEF HandshakeAdmitted
    <3> QED
      BY <2>1, <3>1, <3>2
  <2>3. /\ conn'[c].stage = "established"
        /\ conn'[c].room = conn[c].room /\ conn'[c].session = conn[c].session
    <3>1. CASE JoinDone(c)
      BY <3>1 DEF JoinDone, VariablesTyped, ConnRecord
    <3>2. CASE Reconnected(c)
      BY <3>2 DEF Reconnected, VariablesTyped, ConnRecord
    <3> QED
      BY <1>3, <3>1, <3>2
  <2> QED
    BY <1>3, <2>2, <2>3, AdmittedStays
<1>4. clients \in [Room -> [Session -> Conn \cup {Null, None}]] /\ clients'[r][s] \in Conn
  BY DEF VariablesTyped
<1>5. \/ clients'[r][s] = clients[r][s]
      \/ \E d \in Conn : /\ clients'[r][s] = d
                         /\ conn[d].room = r /\ conn[d].session = s
                         /\ JoinDone(d) \/ Reconnected(d)
  BY <1>4, StepSeats
<1> QED
  BY <1>2, <1>3, <1>5

-----------------------------------------------------------------------------
(* The inductive invariant. *)

\* The types of all variables are kept by every step.
LEMMA TypedStep ==
    ASSUME VariablesTyped, Placed, Next
    PROVE  VariablesTyped'
<1>1. CASE \E q \in Request : RequestStep(q)
  BY <1>1, TypeRequest
<1>2. CASE \E r \in Room : RoomStep(r)
  BY <1>2, TypeRoom
<1>3. ASSUME NEW c \in Conn, ConnectStep(c)
      PROVE  VariablesTyped'
  BY <1>3, TypeConnect
<1>4. ASSUME NEW c \in Conn, Disconnect(c) \/ LeaveDone(c) \/ WaitPoll(c)
      PROVE  VariablesTyped'
  BY <1>4, TypeDisconnect
<1> QED
  BY <1>1, <1>2, <1>3, <1>4 DEF Next

\* Each conjunct needs those before it: that a redeemed reservation is that of
\* the socket's own seat needs SeatBacked, that a handshake ends with an
\* admitted client needs HandshakeAdmitted, and that a returning one starts
\* with one needs SeatAdmitted.
IInv == VariablesTyped /\ Placed /\ SeatBacked /\ HandshakeAdmitted /\ SingleUse /\ SeatAdmitted

\* Nothing is reserved, connected or seated initially.
LEMMA InvInit == Init => IInv
<1> SUFFICES ASSUME Init PROVE IInv
  OBVIOUS
<1>1. VariablesTyped
  BY TypeInit
<1>2. Placed
  BY DEF Init, Placed
<1>3. SeatBacked
  BY DEF Init, SeatBacked
<1>4. HandshakeAdmitted /\ SingleUse
  BY DEF Init, HandshakeAdmitted, SingleUse
<1>5. SeatAdmitted
  BY NamesDiffer DEF Init, SeatAdmitted
<1> QED
  BY <1>1, <1>2, <1>3, <1>4, <1>5 DEF IInv

\* Every step, and every stutter, keeps the invariant.
LEMMA InvStep == IInv /\ [Next]_vars => IInv'
<1> SUFFICES ASSUME IInv, [Next]_vars PROVE IInv'
  OBVIOUS
<1>1. CASE Next
  <2>1. VariablesTyped' /\ Placed'
    BY <1>1, TypedStep, PlacedStep DEF IInv
  <2>2. SeatBacked'
    BY <1>1, SeatBackedStep DEF IInv
  <2>3. HandshakeAdmitted' /\ SingleUse'
    BY <1>1, HandshakeStep, SingleUseStep DEF IInv
  <2>4. SeatAdmitted'
    BY <1>1, SeatAdmittedStep DEF IInv
  <2> QED
    BY <2>1, <2>2, <2>3, <2>4 DEF IInv
<1>2. CASE UNCHANGED vars
  <2>1. VariablesTyped' /\ Placed'
    BY <1>2 DEF IInv, vars, VariablesTyped, Placed
  <2>2. SeatBacked'
    BY <1>2 DEF IInv, vars, SeatBacked
  <2>3. HandshakeAdmitted' /\ SingleUse'
    BY <1>2 DEF IInv, vars, HandshakeAdmitted, Admitted, SingleUse
  <2>4. SeatAdmitted'
    <3>1. clients' = clients /\ conn' = conn /\ request' = request
      BY <1>2 DEF vars
    <3>2. \A r \in Room, s \in Session : Admitted(r, s) => AdmittedAfter(r, s)
      BY <3>1 DEF Admitted, AdmittedAfter
    <3> QED
      BY <3>1, <3>2, SeatAdmittedAfter DEF IInv, SeatAdmitted
  <2> QED
    BY <2>1, <2>2, <2>3, <2>4 DEF IInv
<1> QED
  BY <1>1, <1>2

\* The invariant holds in every reachable state of the room manager.
THEOREM Invariance == Spec => []IInv
BY InvInit, InvStep, PTL DEF Spec

-----------------------------------------------------------------------------
(* What follows for the room manager. *)

\* Every handler of the room manager keeps its maps, its timers and the seats
\* of its Client objects well formed.
THEOREM TypeCorrect == Spec => []TypeOK
<1>1. IInv => TypeOK
  BY DEF IInv, TypeOK
<1> QED
  BY <1>1, Invariance, PTL

\* No reservation is left without its timer: reserveSeat, the timer and
\* onClientConnected keep reservedSeats and the timers in step.
THEOREM ReservationsBacked == Spec => []SeatBacked
<1>1. IInv => SeatBacked
  BY DEF IInv
<1> QED
  BY <1>1, Invariance, PTL

\* However many sockets race through onClientConnected, a reservation lets in
\* one of them.
THEOREM ReservationsSingleUse == Spec => []SingleUse
<1>1. IInv => SingleUse
  BY DEF IInv
<1> QED
  BY <1>1, Invariance, PTL

\* A socket the server waits for in onClientConnected or onJoin was admitted.
THEOREM HandshakesAdmitted == Spec => []HandshakeAdmitted
<1>1. IInv => HandshakeAdmitted
  BY DEF IInv
<1> QED
  BY <1>1, Invariance, PTL

\* Nobody becomes a client of a room without a reservation of its own session
\* for that room, by whichever interleaving of joins, reconnections, closes,
\* timeouts and removals.
THEOREM MembersAdmitted == Spec => []SeatAdmitted
<1>1. IInv => SeatAdmitted
  BY DEF IInv
<1> QED
  BY <1>1, Invariance, PTL

-----------------------------------------------------------------------------
(* Who has sat with a reservation. *)

\* A socket that redeemed a reservation of this session and room has sat there.
SatBy(r, s) ==
    \E d \in Conn : /\ conn[d].stage = "established" /\ conn[d].via # None
                    /\ conn[d].room = r /\ conn[d].session = s

\* SatBy, in the state after the step.
SatByAfter(r, s) ==
    \E d \in Conn : /\ conn'[d].stage = "established" /\ conn'[d].via # None
                    /\ conn'[d].room = r /\ conn'[d].session = s

\* Whoever sits, and whoever is about to sit as a returning client, comes after
\* a socket that has sat with a reservation of the same session for the same
\* room; a socket that has not been answered has neither seat nor reservation.
OpenedFirst ==
    /\ \A r \in Room, s \in Session : clients[r][s] \in Conn => SatBy(r, s)
    /\ \A c \in Conn : /\ conn[c].stage = "awaitReconnected" => SatBy(conn[c].room, conn[c].session)
                       /\ conn[c].stage \in {"idle", "verifying"} => conn[c].via = None

\* OpenedFirst, in the state after the step.
LEMMA OpenedFirstAfter ==
    ASSUME \A r \in Room, s \in Session : clients'[r][s] \in Conn => SatByAfter(r, s),
           \A c \in Conn :
             /\ conn'[c].stage = "awaitReconnected" => SatByAfter(conn'[c].room, conn'[c].session)
             /\ conn'[c].stage \in {"idle", "verifying"} => conn'[c].via = None
    PROVE  OpenedFirst'
  BY Zenon DEF OpenedFirst, SatBy, SatByAfter

\* A socket that has sat stays one that has.
LEMMA SatByStays ==
    ASSUME VariablesTyped, Next, NEW r, NEW s, SatBy(r, s)
    PROVE  SatByAfter(r, s)
<1>1. PICK d \in Conn : /\ conn[d].stage = "established" /\ conn[d].via # None
                        /\ conn[d].room = r /\ conn[d].session = s
  BY DEF SatBy
<1>2. ConnMoves(d)
  BY StepMoves DEF VariablesTyped
<1>3. Stays(d)
  BY <1>1, <1>2 DEF ConnMoves, Moves, ConnectSeated
<1> QED
  BY <1>1, <1>3 DEF Stays, Kept, SatByAfter

\* Nobody has sat initially.
LEMMA OpenedFirstInit == Init => OpenedFirst
BY NamesDiffer DEF Init, OpenedFirst

\* Only a socket that has redeemed a reservation takes a seat nobody has sat on.
LEMMA OpenedFirstStep ==
    ASSUME IInv, OpenedFirst, Next
    PROVE  OpenedFirst'
<1>1. ASSUME NEW r \in Room, NEW s \in Session, clients'[r][s] \in Conn
      PROVE  SatByAfter(r, s)
  <2>1. CASE clients'[r][s] = clients[r][s]
    <3>1. SatBy(r, s)
      BY <1>1, <2>1 DEF OpenedFirst
    <3> QED
      BY <3>1, SatByStays DEF IInv
  <2>2. ASSUME NEW c \in Conn, conn[c].room = r, conn[c].session = s, JoinDone(c)
        PROVE  SatByAfter(r, s)
    <3>1. conn[c].stage = "joining" /\ conn[c].via # None
      BY <2>2 DEF JoinDone, IInv, HandshakeAdmitted
    <3>2. /\ conn'[c].stage = "established" /\ conn'[c].via = conn[c].via
          /\ conn'[c].room = r /\ conn'[c].session = s
      BY <2>2 DEF JoinDone, IInv, VariablesTyped, ConnRecord
    <3> QED
      BY <3>1, <3>2 DEF SatByAfter
  <2>3. ASSUME NEW c \in Conn, conn[c].room = r, conn[c].session = s, Reconnected(c)
        PROVE  SatByAfter(r, s)
    <3>1. SatBy(r, s)
      BY <2>3 DEF Reconnected, OpenedFirst
    <3> QED
      BY <3>1, SatByStays DEF IInv
  <2>4. clients \in [Room -> [Session -> Conn \cup {Null, None}]]
    BY DEF IInv, VariablesTyped
  <2> QED
    BY <1>1, <2>1, <2>2, <2>3, <2>4, StepSeats
<1>2. ASSUME NEW c \in Conn
      PROVE  /\ conn'[c].stage = "awaitReconnected" => SatByAfter(conn'[c].room, conn'[c].session)
             /\ conn'[c].stage \in {"idle", "verifying"} => conn'[c].via = None
  <2>1. ConnMoves(c)
    BY StepMoves DEF IInv, VariablesTyped
  <2>2. conn'[c].stage \in {"idle", "verifying"} => conn'[c].via = None
    BY <2>1 DEF ConnMoves, Moves, Stays, Kept, OpenedFirst
  <2>3. ASSUME conn'[c].stage = "awaitReconnected"
        PROVE  SatByAfter(conn'[c].room, conn'[c].session)
    <3>1. CASE Stays(c)
      <4>1. SatBy(conn[c].room, conn[c].session)
        BY <2>3, <3>1 DEF Stays, OpenedFirst
      <4>2. SatByAfter(conn[c].room, conn[c].session)
        BY <4>1, SatByStays DEF IInv
      <4> QED
        BY <3>1, <4>2 DEF Stays, Kept
    <3>2. CASE Moves(c, "verifying", "awaitReconnected") /\ ConnectReturning(c)
      <4>1. conn[c].room \in Room /\ conn[c].session \in Session
        BY <3>2 DEF Moves, IInv, Placed
      <4>2. SatBy(conn[c].room, conn[c].session)
        BY <3>2, <4>1 DEF ConnectReturning, OpenedFirst
      <4>3. SatByAfter(conn[c].room, conn[c].session)
        BY <4>2, SatByStays DEF IInv
      <4> QED
        BY <3>2, <4>3 DEF Moves, Kept
    <3> QED
      BY <2>1, <2>3, <3>1, <3>2 DEF ConnMoves, Moves
  <2> QED
    BY <2>2, <2>3
<1> QED
  BY <1>1, <1>2, OpenedFirstAfter

\* The strengthening a returning socket needs: OpenedFirst rests on IInv.
PInv == IInv /\ OpenedFirst

\* Every step, and every stutter, keeps it.
LEMMA PInvStep == PInv /\ [Next]_vars => PInv'
<1> SUFFICES ASSUME PInv, [Next]_vars PROVE PInv'
  OBVIOUS
<1>1. IInv'
  BY InvStep DEF PInv
<1>2. CASE Next
  BY <1>1, <1>2, OpenedFirstStep DEF PInv
<1>3. CASE UNCHANGED vars
  <2>1. clients' = clients /\ conn' = conn
    BY <1>3 DEF vars
  <2>2. \A r, s : SatBy(r, s) => SatByAfter(r, s)
    BY <2>1 DEF SatBy, SatByAfter
  <2>3. OpenedFirst'
    BY <2>1, <2>2, OpenedFirstAfter DEF PInv, OpenedFirst
  <2> QED
    BY <1>1, <2>3 DEF PInv
<1> QED
  BY <1>2, <1>3

\* Nobody sits as a returning client before a socket has sat by reservation.
THEOREM ReturningComeSecond == Spec => []PInv
<1>1. Init => PInv
  BY InvInit, OpenedFirstInit DEF PInv
<1> QED
  BY <1>1, PInvStep, PTL DEF Spec

-----------------------------------------------------------------------------
(* Tickets, sockets and seats, before and after a step. *)

\* The reservation of the request can be redeemed.
Redeemable(q) ==
    request[q].stage = "armed" /\ reserved[request[q].room][request[q].session] = q

\* Redeemable, in the state after the step.
RedeemableAfter(q) ==
    request'[q].stage = "armed" /\ reserved'[request'[q].room][request'[q].session] = q

\* A ticket, in the state after the step.
TicketAfter(q) ==
    [stage |-> CASE request'[q].stage = "unused" -> "free"
                 [] request'[q].stage \in {"creating", "authorizing"} -> "asked"
                 [] RedeemableAfter(q) -> "granted"
                 [] request'[q].stage = "redeemed" -> "used"
                 [] OTHER -> "void",
     room |-> request'[q].room, session |-> request'[q].session]

\* All tickets, in the state after the step.
LEMMA TicketsAfter == TicketsHeld' = [q \in Request |-> TicketAfter(q)]
BY DEF TicketsHeld, TicketStage, TicketAfter, RedeemableAfter

\* What a ticket is, by the stage of its request.
LEMMA TicketIs ==
    ASSUME NEW q \in Request
    PROVE  /\ TicketsHeld[q].room = request[q].room /\ TicketsHeld[q].session = request[q].session
           /\ TicketsHeld[q].stage = "free" <=> request[q].stage = "unused"
           /\ TicketsHeld[q].stage = "asked" <=> request[q].stage \in {"creating", "authorizing"}
           /\ TicketsHeld[q].stage = "granted" <=> Redeemable(q)
<1>1. TicketsHeld[q].room = request[q].room /\ TicketsHeld[q].session = request[q].session
  BY DEF TicketsHeld
<1>2. TicketsHeld[q].stage = TicketStage(request[q], q)
  BY DEF TicketsHeld
<1>3. TicketStage(request[q], q) = "free" <=> request[q].stage = "unused"
  BY DEF TicketStage
<1>4. TicketStage(request[q], q) = "asked" <=> request[q].stage \in {"creating", "authorizing"}
  BY DEF TicketStage
<1>5. TicketStage(request[q], q) = "granted" <=> Redeemable(q)
  BY DEF TicketStage, Redeemable
<1> QED
  BY <1>1, <1>2, <1>3, <1>4, <1>5

\* A ticket whose request and reservation a step leaves alone.
LEMMA TicketKept ==
    ASSUME NEW q \in Request, request'[q] = request[q], RedeemableAfter(q) <=> Redeemable(q)
    PROVE  TicketAfter(q) = TicketsHeld[q]
BY DEF TicketsHeld, TicketStage, TicketAfter, Redeemable, RedeemableAfter

\* A ticket whose request keeps its session and room goes to another stage.
LEMMA TicketTurns ==
    ASSUME NEW q \in Request, NEW k \in RequestRecord, request[q] = k,
           NEW to, request'[q] = [k EXCEPT !.stage = to]
    PROVE  /\ TicketAfter(q) = [TicketsHeld[q] EXCEPT !.stage = TicketAfter(q).stage]
           /\ to \in {"creating", "authorizing"} => TicketAfter(q).stage = "asked"
           /\ to = "armed" /\ RedeemableAfter(q) => TicketAfter(q).stage = "granted"
           /\ to \in {"refused", "expired"} => TicketAfter(q).stage = "void"
           /\ to = "redeemed" => TicketAfter(q).stage = "used"
<1>1. request'[q].stage = to /\ request'[q].room = k.room /\ request'[q].session = k.session
  BY TurnKeeps
<1>2. TicketAfter(q) = [TicketsHeld[q] EXCEPT !.stage = TicketAfter(q).stage]
  BY <1>1 DEF TicketsHeld, TicketAfter
<1>3. to \in {"creating", "authorizing"} => TicketAfter(q).stage = "asked"
  BY <1>1 DEF TicketAfter, RedeemableAfter
<1>4. to = "armed" /\ RedeemableAfter(q) => TicketAfter(q).stage = "granted"
  BY <1>1 DEF TicketAfter, RedeemableAfter
<1>5. to \in {"refused", "expired"} => TicketAfter(q).stage = "void"
  BY <1>1 DEF TicketAfter, RedeemableAfter
<1>6. to = "redeemed" => TicketAfter(q).stage = "used"
  BY <1>1 DEF TicketAfter, RedeemableAfter
<1> QED
  BY <1>2, <1>3, <1>4, <1>5, <1>6

\* All tickets but one are left alone.
LEMMA OneTicket ==
    ASSUME NEW q \in Request, \A p \in Request \ {q} : TicketAfter(p) = TicketsHeld[p]
    PROVE  TicketsHeld' = [TicketsHeld EXCEPT ![q] = TicketAfter(q)]
BY TicketsAfter DEF TicketsHeld

\* All tickets are left alone.
LEMMA NoTicket ==
    ASSUME \A p \in Request : TicketAfter(p) = TicketsHeld[p]
    PROVE  TicketsHeld' = TicketsHeld
BY TicketsAfter DEF TicketsHeld

\* A socket, in the state after the step.
SocketAfter(c) ==
    [stage |-> SocketStage(conn'[c]), room |-> conn'[c].room,
     session |-> conn'[c].session, ticket |-> conn'[c].via]

\* All sockets, in the state after the step.
LEMMA SocketsAfter == SocketsSeen' = [c \in Conn |-> SocketAfter(c)]
BY DEF SocketsSeen, SocketAfter

\* A socket that keeps its place and reservation, and does not sit down.
LEMMA SocketKept ==
    ASSUME NEW c \in Conn, Kept(c), SocketStage(conn'[c]) = SocketStage(conn[c])
    PROVE  SocketAfter(c) = SocketsSeen[c]
BY DEF Kept, SocketAfter, SocketsSeen

\* All sockets but one are left alone.
LEMMA OneSocketMoves ==
    ASSUME NEW c \in Conn, \A d \in Conn \ {c} : SocketAfter(d) = SocketsSeen[d]
    PROVE  SocketsSeen' = [SocketsSeen EXCEPT ![c] = SocketAfter(c)]
BY SocketsAfter DEF SocketsSeen

\* All sockets are left alone.
LEMMA NoSocket ==
    ASSUME \A d \in Conn : SocketAfter(d) = SocketsSeen[d]
    PROVE  SocketsSeen' = SocketsSeen
BY SocketsAfter DEF SocketsSeen

\* Who sits there, in the state before and after the step.
Sitting(r, s) == IF clients[r][s] \in Conn THEN clients[r][s] ELSE None
SittingAfter(r, s) == IF clients'[r][s] \in Conn THEN clients'[r][s] ELSE None

\* All seats, before and after the step.
LEMMA SeatsAfter ==
    /\ SeatsTaken = [r \in Room |-> [s \in Session |-> Sitting(r, s)]]
    /\ SeatsTaken' = [r \in Room |-> [s \in Session |-> SittingAfter(r, s)]]
BY DEF SeatsTaken, Sitting, SittingAfter

\* All seats are left alone.
LEMMA NoSeat ==
    ASSUME \A r \in Room, s \in Session : SittingAfter(r, s) = Sitting(r, s)
    PROVE  SeatsTaken' = SeatsTaken
BY SeatsAfter

\* One seat changes hands, or all sessions of a set get up.
LEMMA OneSeat ==
    ASSUME NEW r \in Room, NEW s \in Session,
           \A x \in Room, y \in Session : x # r \/ y # s => SittingAfter(x, y) = Sitting(x, y)
    PROVE  SeatsTaken' = [SeatsTaken EXCEPT ![r][s] = SittingAfter(r, s)]
BY SeatsAfter

LEMMA SeatsLost ==
    ASSUME NEW r \in Room, NEW S \in SUBSET Session,
           \A x \in Room, y \in Session :
             SittingAfter(x, y) = IF x = r /\ y \in S THEN None ELSE Sitting(x, y)
    PROVE  SeatsTaken' = [SeatsTaken EXCEPT ![r] = [s \in Session |-> IF s \in S THEN None ELSE @[s]]]
BY SeatsAfter

-----------------------------------------------------------------------------
(* Every handler is a step of SeatProtocol, or none. *)

\* What a step does not touch keeps its image.
LEMMA FrameKept ==
    /\ request' = request /\ reserved' = reserved => TicketsHeld' = TicketsHeld
    /\ conn' = conn => SocketsSeen' = SocketsSeen
    /\ clients' = clients => SeatsTaken' = SeatsTaken
BY DEF TicketsHeld, TicketStage, SocketsSeen, SeatsTaken

\* A step that leaves the identity and the seat of every socket alone.
LEMMA SocketsStay ==
    ASSUME \A d \in Conn : Stays(d)
    PROVE  SocketsSeen' = SocketsSeen
BY SocketKept, NoSocket DEF Stays, SocketStage

\* A request changes alone while no reservation does.
LEMMA OthersKept ==
    ASSUME reserved' = reserved, NEW q \in Request,
           \A p \in Request \ {q} : request'[p] = request[p]
    PROVE  TicketsHeld' = [TicketsHeld EXCEPT ![q] = TicketAfter(q)]
<1>1. \A p \in Request \ {q} : TicketAfter(p) = TicketsHeld[p]
  BY TicketKept DEF Redeemable, RedeemableAfter
<1> QED
  BY <1>1, OneTicket

\* createRoom and joinRoom ask for a ticket.
LEMMA AskStep ==
    ASSUME IInv, NEW q \in Request, NEW r \in Room, NEW s \in Session,
           CreateRoom(r, s, q) \/ JoinRoom(q, r, s)
    PROVE  Protocol!Ask(q, r, s)
<1>1. /\ request[q].stage = "unused" /\ reserved' = reserved /\ conn' = conn /\ clients' = clients
      /\ \A p \in Request \ {q} : request'[p] = request[p]
      /\ request'[q].room = r /\ request'[q].session = s
      /\ request'[q].stage \in {"creating", "authorizing"}
  BY DEF CreateRoom, JoinRoom, IInv, VariablesTyped
<1>2. TicketAfter(q) = [stage |-> "asked", room |-> r, session |-> s]
  BY <1>1 DEF TicketAfter, RedeemableAfter
<1>3. TicketsHeld' = [TicketsHeld EXCEPT ![q] = [stage |-> "asked", room |-> r, session |-> s]]
  BY <1>1, <1>2, OthersKept
<1>4. TicketsHeld[q].stage = "free"
  BY <1>1, TicketIs
<1> QED
  BY <1>1, <1>3, <1>4, FrameKept DEF Protocol!Ask

\* A request that is turned down makes its ticket void.
LEMMA RefuseStep ==
    ASSUME IInv, NEW q \in Request, request[q].stage \in {"creating", "authorizing"},
           request' = [request EXCEPT ![q].stage = "refused"],
           reserved' = reserved, conn' = conn, clients' = clients
    PROVE  Protocol!Refuse(q)
<1>1. request[q] \in RequestRecord /\ request'[q] = [request[q] EXCEPT !.stage = "refused"]
  BY DEF IInv, VariablesTyped
<1>2. TicketAfter(q) = [TicketsHeld[q] EXCEPT !.stage = "void"]
  BY <1>1, TicketTurns
<1>3. \A p \in Request \ {q} : request'[p] = request[p]
  BY DEF IInv, VariablesTyped
<1>4. TicketsHeld' = [TicketsHeld EXCEPT ![q].stage = "void"]
  BY <1>2, <1>3, OthersKept
<1>5. TicketsHeld[q].stage = "asked"
  BY TicketIs
<1> QED
  BY <1>4, <1>5, FrameKept DEF Protocol!Refuse

\* A room that has been created without a lock makes its request wait on.
LEMMA CreatedStep ==
    ASSUME IInv, NEW q \in Request, RoomCreated(q)
    PROVE  Protocol!Refuse(q) \/ UNCHANGED <<TicketsHeld, SocketsSeen, SeatsTaken>>
<1>1. /\ request[q].stage = "creating" /\ reserved' = reserved
      /\ conn' = conn /\ clients' = clients
      /\ \/ request' = [request EXCEPT ![q].stage = "refused"]
         \/ request' = [request EXCEPT ![q].stage = "authorizing"]
  BY DEF RoomCreated
<1>2. CASE request' = [request EXCEPT ![q].stage = "refused"]
  BY <1>1, <1>2, RefuseStep
<1>3. CASE request' = [request EXCEPT ![q].stage = "authorizing"]
  <2>1. request[q] \in RequestRecord /\ request'[q] = [request[q] EXCEPT !.stage = "authorizing"]
    BY <1>3 DEF IInv, VariablesTyped
  <2>2. /\ request'[q].stage = "authorizing" /\ request'[q].room = request[q].room
        /\ request'[q].session = request[q].session
    BY <2>1, TurnKeeps
  <2>3. TicketAfter(q) = TicketsHeld[q]
    BY <1>1, <2>2 DEF TicketAfter, RedeemableAfter, TicketsHeld, TicketStage
  <2>4. \A p \in Request \ {q} : request'[p] = request[p]
    BY <1>3 DEF IInv, VariablesTyped
  <2>5. TicketsHeld' = [TicketsHeld EXCEPT ![q] = TicketsHeld[q]]
    BY <1>1, <2>3, <2>4, OthersKept
  <2>6. TicketsHeld' = TicketsHeld
    BY <2>5 DEF TicketsHeld
  <2> QED
    BY <1>1, <2>6, FrameKept
<1> QED
  BY <1>1, <1>2, <1>3

\* reserveSeat grants the ticket, in the place of one granted before.
LEMMA GrantStep ==
    ASSUME IInv, NEW q \in Request, ReserveSeat(q)
    PROVE  Protocol!Grant(q)
<1> DEFINE r == request[q].room
           s == request[q].session
<1>1. request[q].stage = "authorizing" /\ clients[r][s] = None /\ r \in Room /\ s \in Session
  BY DEF ReserveSeat, SeatFree, IInv, Placed
<1>2. /\ reserved' = [reserved EXCEPT ![r][s] = q]
      /\ clients' = [clients EXCEPT ![r][s] = Null]
      /\ request' = [request EXCEPT ![q].stage = "armed"]
      /\ conn' = conn
  BY DEF ReserveSeat
<1>3. request[q] \in RequestRecord /\ request'[q] = [request[q] EXCEPT !.stage = "armed"]
  BY <1>2 DEF IInv, VariablesTyped
<1>4. request'[q].stage = "armed" /\ request'[q].room = r /\ request'[q].session = s
  BY <1>3, TurnKeeps
<1>5. reserved'[r][s] = q
  BY <1>1, <1>2 DEF IInv, VariablesTyped
<1>6. TicketAfter(q) = [TicketsHeld[q] EXCEPT !.stage = "granted"]
  <2>1. RedeemableAfter(q)
    BY <1>4, <1>5 DEF RedeemableAfter
  <2>2. TicketAfter(q).stage = "granted"
    BY <1>3, <2>1, TicketTurns
  <2> QED
    BY <1>3, <2>2, TicketTurns
<1>7. ASSUME NEW p \in Request, p # q
      PROVE  TicketAfter(p) = IF Protocol!OfSeat(TicketsHeld[p], r, s) /\ TicketsHeld[p].stage = "granted"
                              THEN [TicketsHeld[p] EXCEPT !.stage = "void"]
                              ELSE TicketsHeld[p]
  <2>1. request'[p] = request[p]
    BY <1>2, <1>7 DEF IInv, VariablesTyped
  <2>2. CASE Redeemable(p) /\ request[p].room = r /\ request[p].session = s
    <3>1. Protocol!OfSeat(TicketsHeld[p], r, s) /\ TicketsHeld[p].stage = "granted"
      BY <2>2, TicketIs DEF Protocol!OfSeat
    <3>2. ~RedeemableAfter(p) /\ request'[p].stage = "armed"
      BY <1>5, <1>7, <2>1, <2>2 DEF Redeemable, RedeemableAfter
    <3>3. TicketAfter(p) = [stage |-> "void", room |-> request[p].room, session |-> request[p].session]
      BY <2>1, <3>2 DEF TicketAfter
    <3>4. [TicketsHeld[p] EXCEPT !.stage = "void"] =
            [stage |-> "void", room |-> request[p].room, session |-> request[p].session]
      BY DEF TicketsHeld
    <3> QED
      BY <3>1, <3>3, <3>4
  <2>3. CASE ~(Redeemable(p) /\ request[p].room = r /\ request[p].session = s)
    <3>1. ~(Protocol!OfSeat(TicketsHeld[p], r, s) /\ TicketsHeld[p].stage = "granted")
      BY <2>3, TicketIs DEF Protocol!OfSeat
    <3>2. request[p].stage = "armed" => request[p].room \in Room /\ request[p].session \in Session
      BY DEF IInv, Placed
    <3>3. ASSUME request[p].stage = "armed", request[p].room # r \/ request[p].session # s
          PROVE  reserved'[request[p].room][request[p].session] =
                   reserved[request[p].room][request[p].session]
      BY <1>1, <1>2, <3>2, <3>3 DEF IInv, VariablesTyped
    <3>4. RedeemableAfter(p) <=> Redeemable(p)
      BY <1>5, <1>7, <2>1, <2>3, <3>3 DEF Redeemable, RedeemableAfter
    <3> QED
      BY <2>1, <3>1, <3>4, TicketKept
  <2> QED
    BY <2>2, <2>3
<1>8. TicketsHeld[q].room = r /\ TicketsHeld[q].session = s /\ TicketsHeld[q].stage = "asked"
  BY <1>1, TicketIs
<1>9. TicketsHeld' = [p \in Request |->
                    IF p = q THEN [TicketsHeld[q] EXCEPT !.stage = "granted"]
                    ELSE IF Protocol!OfSeat(TicketsHeld[p], r, s) /\ TicketsHeld[p].stage = "granted"
                         THEN [TicketsHeld[p] EXCEPT !.stage = "void"]
                         ELSE TicketsHeld[p]]
  BY <1>6, <1>7, TicketsAfter
<1>10. SeatsTaken[r][s] = None
  BY <1>1, NamesDiffer, SeatsAfter DEF Sitting
<1>11. \A x \in Room, y \in Session : SittingAfter(x, y) = Sitting(x, y)
  BY <1>1, <1>2, NamesDiffer DEF IInv, VariablesTyped, Sitting, SittingAfter
<1>12. SeatsTaken' = SeatsTaken /\ SocketsSeen' = SocketsSeen
  BY <1>2, <1>11, NoSeat, FrameKept
<1> HIDE DEF r, s
<1> QED
  BY <1>8, <1>9, <1>10, <1>12 DEF Protocol!Grant

\* Sessions of a set lose their seats in a room, if they had one.
LEMMA LoseStep ==
    ASSUME NEW r \in Room, NEW S \in SUBSET Session,
           \A x \in Room, y \in Session :
             SittingAfter(x, y) = IF x = r /\ y \in S THEN None ELSE Sitting(x, y),
           TicketsHeld' = TicketsHeld, SocketsSeen' = SocketsSeen
    PROVE  Protocol!Lose(r, S)
BY SeatsLost DEF Protocol!Lose

\* removeRoomClient takes the seat of one session.
LEMMA RemovedSeat ==
    ASSUME VariablesTyped, NEW r \in Room, NEW s \in Session, RemoveRoomClient(r, s)
    PROVE  \A x \in Room, y \in Session :
             SittingAfter(x, y) = IF x = r /\ y \in {s} THEN None ELSE Sitting(x, y)
<1>1. clients' = [clients EXCEPT ![r][s] = None]
  BY DEF RemoveRoomClient
<1>2. ASSUME NEW x \in Room, NEW y \in Session
      PROVE  clients'[x][y] = IF x = r /\ y \in {s} THEN None ELSE clients[x][y]
  BY <1>1 DEF VariablesTyped
<1> QED
  BY <1>2, NamesDiffer DEF Sitting, SittingAfter

\* The reservation timer makes the ticket void that holds the seat by now, if
\* there is one, and whoever sits there loses the seat.
LEMMA ExpireStep ==
    ASSUME IInv, NEW q \in Request, ReservationTimeout(q)
    PROVE  Protocol!Next
<1> DEFINE r == request[q].room
           s == request[q].session
<1>1. request[q].stage = "armed" /\ r \in Room /\ s \in Session
  BY DEF ReservationTimeout, TimerArmed, IInv, Placed
<1>2. /\ request' = [request EXCEPT ![q].stage = "expired"]
      /\ reserved' = [reserved EXCEPT ![r][s] = None]
      /\ RemoveRoomClient(r, s)
      /\ conn' = conn
  BY DEF ReservationTimeout, DropReservation
<1>3. request[q] \in RequestRecord /\ request'[q] = [request[q] EXCEPT !.stage = "expired"]
  BY <1>2 DEF IInv, VariablesTyped
<1>4. TicketAfter(q) = [TicketsHeld[q] EXCEPT !.stage = "void"]
  BY <1>3, TicketTurns
<1>5. reserved'[r][s] = None /\ q # None
  BY <1>1, <1>2, NamesDiffer DEF IInv, VariablesTyped
<1>6. ASSUME NEW p \in Request, p # q, reserved[r][s] # p
      PROVE  TicketAfter(p) = TicketsHeld[p]
  <2>1. request'[p] = request[p]
    BY <1>2, <1>6 DEF IInv, VariablesTyped
  <2>2. request[p].stage = "armed" => request[p].room \in Room /\ request[p].session \in Session
    BY DEF IInv, Placed
  <2>3. ASSUME request[p].stage = "armed", request[p].room # r \/ request[p].session # s
        PROVE  reserved'[request[p].room][request[p].session] =
                 reserved[request[p].room][request[p].session]
    BY <1>1, <1>2, <2>2, <2>3 DEF IInv, VariablesTyped
  <2>4. p # None
    BY NamesDiffer
  <2>5. RedeemableAfter(p) <=> Redeemable(p)
    BY <1>5, <1>6, <2>1, <2>3, <2>4 DEF Redeemable, RedeemableAfter
  <2> QED
    BY <2>1, <2>5, TicketKept
<1>7. \A x \in Room, y \in Session :
        SittingAfter(x, y) = IF x = r /\ y \in {s} THEN None ELSE Sitting(x, y)
  BY <1>1, <1>2, RemovedSeat DEF IInv
<1>8. SocketsSeen' = SocketsSeen
  BY <1>2, FrameKept
<1>9. ASSUME NEW p \in Request, reserved[r][s] = p
      PROVE  Protocol!Expire(p)
  <2>1. request[p].stage = "armed" /\ request[p].room = r /\ request[p].session = s
    BY <1>1, <1>9, NamesDiffer, Backing DEF IInv
  <2>2. TicketsHeld[p].stage = "granted" /\ TicketsHeld[p].room = r /\ TicketsHeld[p].session = s
    BY <1>9, <2>1, TicketIs DEF Redeemable
  <2>3. TicketAfter(p) = [TicketsHeld[p] EXCEPT !.stage = "void"]
    <3>1. CASE p = q
      BY <1>4, <3>1
    <3>2. CASE p # q
      <4>1. request'[p] = request[p]
        BY <1>2, <3>2 DEF IInv, VariablesTyped
      <4>2. ~RedeemableAfter(p)
        BY <1>5, <2>1, <4>1, NamesDiffer DEF RedeemableAfter
      <4>3. TicketAfter(p) = [stage |-> "void", room |-> request[p].room, session |-> request[p].session]
        BY <2>1, <4>1, <4>2 DEF TicketAfter
      <4> QED
        BY <4>3 DEF TicketsHeld
    <3> QED
      BY <3>1, <3>2
  <2>4. ASSUME NEW o \in Request, o # p
        PROVE  TicketAfter(o) = TicketsHeld[o]
    <3>1. CASE o # q
      BY <1>6, <1>9, <2>4, <3>1
    <3>2. CASE o = q
      <4>1. ~Redeemable(q)
        BY <1>9, <2>4, <3>2 DEF Redeemable
      <4>2. TicketsHeld[q] = [stage |-> "void", room |-> r, session |-> s]
        BY <1>1, <4>1 DEF Redeemable, TicketsHeld, TicketStage
      <4> QED
        BY <1>4, <3>2, <4>2
    <3> QED
      BY <3>1, <3>2
  <2>5. TicketsHeld' = [TicketsHeld EXCEPT ![p].stage = "void"]
    BY <2>3, <2>4, OneTicket
  <2>6. SittingAfter(r, s) = None
    BY <1>1, <1>7
  <2>7. \A x \in Room, y \in Session : x # r \/ y # s => SittingAfter(x, y) = Sitting(x, y)
    BY <1>7
  <2>8. SeatsTaken' = [SeatsTaken EXCEPT ![r][s] = None]
    BY <1>1, <2>6, <2>7, OneSeat
  <2> HIDE DEF r, s
  <2> QED
    BY <1>8, <2>2, <2>5, <2>8 DEF Protocol!Expire
<1>10. CASE reserved[r][s] = None
  <2>1. \A p \in Request : p # q => TicketAfter(p) = TicketsHeld[p]
    BY <1>6, <1>10, NamesDiffer
  <2>2. ~Redeemable(q)
    BY <1>5, <1>10 DEF Redeemable
  <2>3. TicketsHeld[q] = [stage |-> "void", room |-> r, session |-> s]
    BY <1>1, <2>2 DEF Redeemable, TicketsHeld, TicketStage
  <2>4. TicketAfter(q) = TicketsHeld[q]
    BY <1>4, <2>3
  <2>5. TicketsHeld' = TicketsHeld
    BY <2>1, <2>4, NoTicket
  <2>6. PICK S \in SUBSET Session : S = {s}
    BY <1>1
  <2>7. Protocol!Lose(r, S)
    BY <1>1, <1>7, <1>8, <2>5, <2>6, LoseStep
  <2> QED
    BY <1>1, <2>7 DEF Protocol!Next
<1>11. reserved[r][s] \in Request \cup {None}
  BY <1>1 DEF IInv, VariablesTyped
<1> QED
  BY <1>9, <1>10, <1>11 DEF Protocol!Next

\* A request's handlers follow the protocol.
LEMMA RequestFollows ==
    ASSUME IInv, NEW q \in Request, RequestStep(q)
    PROVE  Protocol!Next \/ UNCHANGED <<TicketsHeld, SocketsSeen, SeatsTaken>>
<1>1. CASE \E r \in Room, s \in Session : CreateRoom(r, s, q) \/ JoinRoom(q, r, s)
  BY <1>1, AskStep DEF Protocol!Next
<1>2. CASE CreateFailed(q) \/ AuthFailed(q) \/ ReserveSeatThrows(q)
  <2>1. Protocol!Refuse(q)
    BY <1>2, RefuseStep DEF CreateFailed, AuthFailed, ReserveSeatThrows
  <2> QED
    BY <2>1 DEF Protocol!Next
<1>3. CASE RoomCreated(q)
  BY <1>3, CreatedStep DEF Protocol!Next
<1>4. CASE ReserveSeat(q)
  BY <1>4, GrantStep DEF Protocol!Next
<1>5. CASE ReservationTimeout(q)
  BY <1>5, ExpireStep
<1> QED
  BY <1>1, <1>2, <1>3, <1>4, <1>5 DEF RequestStep

\* The operations on a room take seats at most.
LEMMA RoomFollows ==
    ASSUME IInv, NEW r \in Room, RoomStep(r)
    PROVE  Protocol!Next \/ UNCHANGED <<TicketsHeld, SocketsSeen, SeatsTaken>>
<1>1. TicketsHeld' = TicketsHeld
  BY FrameKept DEF RoomStep, UpdateRoom, LeaveRoom, CloseRoom, SetLocked, RoomClosed, RoomDeleted
<1>2. SocketsSeen' = SocketsSeen
  BY OtherMoves, SocketsStay DEF IInv, VariablesTyped
<1>3. CASE \E s \in Session : LeaveRoom(s, r)
  <2>1. PICK s \in Session : RemoveRoomClient(r, s)
    BY <1>3 DEF LeaveRoom
  <2>2. PICK S \in SUBSET Session : S = {s}
    OBVIOUS
  <2>3. Protocol!Lose(r, S)
    BY <1>1, <1>2, <2>1, <2>2, RemovedSeat, LoseStep DEF IInv
  <2> QED
    BY <2>3 DEF Protocol!Next
<1>4. CASE \E s \in Session : CloseRoom(s, r)
  <2>1. clients' = [clients EXCEPT ![r] = [t \in Session |-> None]]
    BY <1>4 DEF CloseRoom
  <2>2. \A x \in Room, y \in Session :
          clients'[x][y] = IF x = r THEN None ELSE clients[x][y]
    BY <2>1 DEF IInv, VariablesTyped
  <2>3. \A x \in Room, y \in Session :
          SittingAfter(x, y) = IF x = r /\ y \in Session THEN None ELSE Sitting(x, y)
    BY <2>2, NamesDiffer DEF Sitting, SittingAfter
  <2>4. PICK S \in SUBSET Session : S = Session
    OBVIOUS
  <2>5. Protocol!Lose(r, S)
    BY <1>1, <1>2, <2>3, <2>4, LoseStep
  <2> QED
    BY <2>5 DEF Protocol!Next
<1>5. CASE clients' = clients
  BY <1>1, <1>2, <1>5, FrameKept
<1> QED
  BY <1>3, <1>4, <1>5 DEF RoomStep, UpdateRoom, SetLocked, RoomClosed, RoomDeleted

\* A websocket that opens gets its place.
LEMMA OpenStep ==
    ASSUME IInv, OpenedFirst, NEW c \in Conn, NEW s \in Session, NEW r \in Room, Connect(c, s, r)
    PROVE  Protocol!Open(c, r, s)
<1>1. conn[c] \in ConnRecord /\ conn[c].stage = "idle" /\ conn[c].via = None
  BY DEF Connect, IInv, VariablesTyped, OpenedFirst
<1>2. conn'[c] = [conn[c] EXCEPT !.stage = "verifying", !.socket = "open",
                                 !.room = r, !.session = s]
  BY DEF Connect, IInv, VariablesTyped
<1>3. /\ conn'[c].stage = "verifying" /\ conn'[c].room = r
      /\ conn'[c].session = s /\ conn'[c].via = None
  BY <1>1, <1>2 DEF ConnRecord
<1>4. SocketAfter(c) = [stage |-> "standing", room |-> r, session |-> s, ticket |-> None]
  BY <1>3 DEF SocketAfter, SocketStage
<1>5. ASSUME NEW d \in Conn, d # c
      PROVE  SocketAfter(d) = SocketsSeen[d]
  <2>1. conn'[d] = conn[d]
    BY <1>5 DEF Connect, IInv, VariablesTyped
  <2> QED
    BY <2>1 DEF SocketAfter, SocketsSeen
<1>6. SocketsSeen' = [SocketsSeen EXCEPT ![c] = SocketAfter(c)]
  BY <1>5, OneSocketMoves
<1>7. SocketsSeen' = [SocketsSeen EXCEPT ![c] = [stage |-> "standing", room |-> r,
                                          session |-> s, ticket |-> None]]
  BY <1>4, <1>6
<1>8. SocketsSeen[c].stage = "new"
  BY <1>1 DEF SocketsSeen, SocketStage
<1>9. TicketsHeld' = TicketsHeld /\ SeatsTaken' = SeatsTaken
  BY FrameKept DEF Connect
<1> QED
  BY <1>7, <1>8, <1>9 DEF Protocol!Open

\* onClientConnected uses the ticket of the socket's own seat, which is free.
LEMMA UseStep ==
    ASSUME IInv, OpenedFirst, NEW c \in Conn, ConnectSeated(c)
    PROVE  \E q \in Request : Protocol!Use(c, q)
<1> DEFINE r == conn[c].room
           s == conn[c].session
<1>1. PICK q \in Request :
             /\ Redeems(c, q)
             /\ conn'[c].via = q /\ conn'[c].stage = "awaitJoined"
             /\ conn'[c].room = conn[c].room /\ conn'[c].session = conn[c].session
             /\ \A d \in Conn : d # c => conn'[d] = conn[d]
  BY SeatedEffect DEF IInv
<1>2. /\ request[q].stage = "armed" /\ request[q].room = r /\ request[q].session = s
      /\ r \in Room /\ s \in Session
  BY <1>1, RedeemsOwn DEF IInv, Turns
<1>3. reserved[r][s] = q /\ request[q] \in RequestRecord
      /\ request'[q] = [request[q] EXCEPT !.stage = "redeemed"]
  BY <1>1 DEF Redeems, IInv, VariablesTyped
<1>4. TicketsHeld[q].stage = "granted" /\ TicketsHeld[q].room = r /\ TicketsHeld[q].session = s
  BY <1>2, <1>3, TicketIs DEF Redeemable
<1>5. TicketAfter(q) = [TicketsHeld[q] EXCEPT !.stage = "used"]
  BY <1>3, TicketTurns
<1>6. ASSUME NEW p \in Request, p # q
      PROVE  TicketAfter(p) = TicketsHeld[p]
  <2>1. request' = [request EXCEPT ![q].stage = "redeemed"] /\ reserved' = [reserved EXCEPT ![r][s] = None]
    BY <1>3 DEF ConnectSeated, DropReservation
  <2>2. request'[p] = request[p]
    BY <1>6, <2>1 DEF IInv, VariablesTyped
  <2>3. request[p].stage = "armed" => request[p].room \in Room /\ request[p].session \in Session
    BY DEF IInv, Placed
  <2>4. ASSUME request[p].stage = "armed", request[p].room # r \/ request[p].session # s
        PROVE  reserved'[request[p].room][request[p].session] =
                 reserved[request[p].room][request[p].session]
    BY <1>2, <2>1, <2>3, <2>4 DEF IInv, VariablesTyped
  <2>5. reserved'[r][s] = None /\ p # None
    BY <1>2, <2>1, NamesDiffer DEF IInv, VariablesTyped
  <2>6. RedeemableAfter(p) <=> Redeemable(p)
    BY <1>3, <1>6, <2>2, <2>4, <2>5 DEF Redeemable, RedeemableAfter
  <2> QED
    BY <2>2, <2>6, TicketKept
<1>7. TicketsHeld' = [TicketsHeld EXCEPT ![q].stage = "used"]
  BY <1>5, <1>6, OneTicket
<1>8. conn[c].stage = "verifying" /\ conn[c].via = None
  BY DEF ConnectSeated, OpenedFirst
<1>9. SocketAfter(c) = [SocketsSeen[c] EXCEPT !.ticket = q]
  BY <1>1, <1>8 DEF SocketAfter, SocketsSeen, SocketStage
<1>10. \A d \in Conn \ {c} : SocketAfter(d) = SocketsSeen[d]
  BY <1>1 DEF SocketAfter, SocketsSeen
<1>11. SocketsSeen' = [SocketsSeen EXCEPT ![c].ticket = q]
  BY <1>9, <1>10, OneSocketMoves
<1>12. /\ SocketsSeen[c].room = r /\ SocketsSeen[c].session = s
       /\ SocketsSeen[c].ticket = None /\ SocketsSeen[c].stage = "standing"
  BY <1>8 DEF SocketsSeen, SocketStage
<1>13. SeatsTaken[r][s] = None
  BY <1>2, SeatsAfter DEF ConnectSeated, Sitting
<1>14. SeatsTaken' = SeatsTaken
  BY FrameKept DEF ConnectSeated
<1> HIDE DEF r, s
<1> QED
  BY <1>4, <1>7, <1>11, <1>12, <1>13, <1>14 DEF Protocol!Use, Protocol!OfSeat

\* "joined" and "reconnected" take the seat, once for a socket.
LEMMA TakeStep ==
    ASSUME IInv, OpenedFirst, NEW c \in Conn, JoinDone(c) \/ Reconnected(c)
    PROVE  Protocol!Take(c)
<1> DEFINE r == conn[c].room
           s == conn[c].session
<1>1. conn[c].stage \in {"joining", "awaitReconnected"} /\ conn[c] \in ConnRecord
  BY DEF JoinDone, Reconnected, IInv, VariablesTyped
<1>2. r \in Room /\ s \in Session
  BY <1>1 DEF IInv, Placed
<1>3. /\ conn'[c].stage = "established" /\ conn'[c].room = conn[c].room
      /\ conn'[c].session = conn[c].session /\ conn'[c].via = conn[c].via
  <2>1. CASE JoinDone(c)
    BY <2>1 DEF JoinDone, IInv, VariablesTyped, ConnRecord
  <2>2. CASE Reconnected(c)
    BY <2>2 DEF Reconnected, IInv, VariablesTyped, ConnRecord
  <2> QED
    BY <2>1, <2>2
<1>4. SocketAfter(c) = [SocketsSeen[c] EXCEPT !.stage = "sat"]
  BY <1>3 DEF SocketAfter, SocketsSeen, SocketStage
<1>5. \A d \in Conn \ {c} : SocketAfter(d) = SocketsSeen[d]
  <2>1. \A d \in Conn \ {c} : conn'[d] = conn[d]
    BY DEF JoinDone, Reconnected, IInv, VariablesTyped
  <2> QED
    BY <2>1 DEF SocketAfter, SocketsSeen
<1>6. SocketsSeen' = [SocketsSeen EXCEPT ![c].stage = "sat"]
  BY <1>4, <1>5, OneSocketMoves
<1>7. SocketsSeen[c].room = r /\ SocketsSeen[c].session = s /\ SocketsSeen[c].ticket = conn[c].via
      /\ SocketsSeen[c].stage = "standing"
  BY <1>1 DEF SocketsSeen, SocketStage
<1>8. SocketsSeen[c].ticket # None \/ Protocol!Opened(r, s)
  <2>1. CASE conn[c].stage = "joining"
    BY <1>7, <2>1 DEF IInv, HandshakeAdmitted
  <2>2. CASE conn[c].stage = "awaitReconnected"
    <3>1. PICK d \in Conn : /\ conn[d].stage = "established" /\ conn[d].via # None
                            /\ conn[d].room = r /\ conn[d].session = s
      BY <2>2 DEF OpenedFirst, SatBy
    <3>2. /\ SocketsSeen[d].stage = "sat" /\ SocketsSeen[d].ticket # None
          /\ SocketsSeen[d].room = r /\ SocketsSeen[d].session = s
      BY <3>1 DEF SocketsSeen, SocketStage
    <3> QED
      BY <3>2 DEF Protocol!Opened, Protocol!OfSeat
  <2> QED
    BY <1>1, <2>1, <2>2
<1>9. clients' = [clients EXCEPT ![r][s] = c]
  BY DEF JoinDone, Reconnected, SetRoomClient
<1>10. SittingAfter(r, s) = c
  BY <1>2, <1>9 DEF IInv, VariablesTyped, SittingAfter
<1>11. ASSUME NEW x \in Room, NEW y \in Session, x # r \/ y # s
       PROVE  SittingAfter(x, y) = Sitting(x, y)
  <2>1. clients'[x][y] = clients[x][y]
    BY <1>2, <1>9, <1>11 DEF IInv, VariablesTyped
  <2> QED
    BY <2>1 DEF Sitting, SittingAfter
<1>12. SeatsTaken' = [SeatsTaken EXCEPT ![r][s] = c]
  BY <1>2, <1>10, <1>11, OneSeat
<1>13. TicketsHeld' = TicketsHeld
  BY FrameKept DEF JoinDone, Reconnected
<1> HIDE DEF r, s
<1> QED
  BY <1>6, <1>7, <1>8, <1>12, <1>13 DEF Protocol!Take

\* The rest of the handshake neither seats a socket nor moves it.
LEMMA SilentConnect ==
    ASSUME conn \in [Conn -> ConnRecord], NEW c \in Conn, NEW d \in Conn,
           \/ VerifyFailed(c) \/ ConnectRefused(c) \/ ConnectReturning(c)
           \/ ConnectionTimeout(c) \/ Joined(c) \/ JoinFailed(c)
    PROVE  Kept(d) /\ SocketStage(conn'[d]) = SocketStage(conn[d])
<1>1. CASE d # c
  <2>1. conn'[d] \in {conn[d], Terminated(conn[d])}
    BY <1>1 DEF VerifyFailed, ConnectRefused, ConnectReturning, ConnectionTimeout, Joined, JoinFailed
  <2> QED
    BY <2>1, EndKeeps DEF Kept, SocketStage
<1>2. CASE d = c
  <2>1. ASSUME NEW x \in ConnStage \ {"idle", "established"},
               conn[c].stage \notin {"idle", "established"},
               conn'[c] \in {[conn[c] EXCEPT !.stage = x], Terminated([conn[c] EXCEPT !.stage = x])}
        PROVE  Kept(c) /\ SocketStage(conn'[c]) = SocketStage(conn[c])
    <3> DEFINE k == [conn[c] EXCEPT !.stage = x]
    <3>1. k \in ConnRecord
      BY ConnUpdate
    <3>2. k.stage = x /\ k.room = conn[c].room /\ k.session = conn[c].session /\ k.via = conn[c].via
      BY DEF ConnRecord
    <3> HIDE DEF k
    <3>3. /\ conn'[c].stage = x /\ conn'[c].room = conn[c].room
          /\ conn'[c].session = conn[c].session /\ conn'[c].via = conn[c].via
      BY <2>1, <3>1, <3>2, EndKeeps DEF k
    <3> QED
      BY <2>1, <3>3 DEF Kept, SocketStage
  <2>2. CASE VerifyFailed(c)
    BY <1>2, <2>1, <2>2 DEF VerifyFailed, ConnStage
  <2>3. CASE ConnectRefused(c)
    BY <1>2, <2>1, <2>3 DEF ConnectRefused, ConnStage
  <2>4. CASE ConnectReturning(c)
    <3>1. conn'[c] \in {[conn[c] EXCEPT !.stage = "awaitReconnected"],
                        Terminated([conn[c] EXCEPT !.stage = "awaitReconnected"])}
      BY <2>4 DEF ConnectReturning
    <3> QED
      BY <1>2, <2>1, <2>4, <3>1 DEF ConnectReturning, ConnStage
  <2>5. CASE Joined(c)
    BY <1>2, <2>1, <2>5 DEF Joined, ConnStage
  <2>6. CASE JoinFailed(c)
    BY <1>2, <2>1, <2>6 DEF JoinFailed, ConnStage
  <2>7. CASE ConnectionTimeout(c)
    <3>1. conn'[c] = Terminated(conn[c])
      BY <2>7 DEF ConnectionTimeout
    <3> QED
      BY <1>2, <3>1, EndKeeps DEF Kept, SocketStage
  <2> QED
    BY <2>2, <2>3, <2>4, <2>5, <2>6, <2>7
<1> QED
  BY <1>1, <1>2

\* The handshake follows the protocol.
LEMMA ConnectFollows ==
    ASSUME IInv, OpenedFirst, NEW c \in Conn, ConnectStep(c)
    PROVE  Protocol!Next \/ UNCHANGED <<TicketsHeld, SocketsSeen, SeatsTaken>>
<1>1. CASE \E s \in Session, r \in Room : Connect(c, s, r)
  BY <1>1, OpenStep DEF Protocol!Next
<1>2. CASE ConnectSeated(c)
  BY <1>2, UseStep DEF Protocol!Next
<1>3. CASE JoinDone(c) \/ Reconnected(c)
  BY <1>3, TakeStep DEF Protocol!Next
<1>4. CASE \/ VerifyFailed(c) \/ ConnectRefused(c) \/ ConnectReturning(c)
           \/ ConnectionTimeout(c) \/ Joined(c) \/ JoinFailed(c)
  <2>1. request' = request /\ reserved' = reserved /\ clients' = clients
    BY <1>4 DEF VerifyFailed, ConnectRefused, ConnectReturning, ConnectionTimeout, Joined, JoinFailed
  <2>2. \A d \in Conn : SocketAfter(d) = SocketsSeen[d]
    BY <1>4, SilentConnect, SocketKept DEF IInv, VariablesTyped
  <2> QED
    BY <2>1, <2>2, NoSocket, FrameKept
<1> QED
  BY <1>1, <1>2, <1>3, <1>4 DEF ConnectStep, Verified

\* A close takes a seat at most.
LEMMA CloseFollows ==
    ASSUME IInv, NEW c \in Conn, Disconnect(c) \/ LeaveDone(c) \/ WaitPoll(c)
    PROVE  Protocol!Next \/ UNCHANGED <<TicketsHeld, SocketsSeen, SeatsTaken>>
<1>1. TicketsHeld' = TicketsHeld
  BY FrameKept DEF Disconnect, DisconnectNoRoom, DisconnectNoId, DisconnectNoClient, DisconnectClient,
         LeaveDone, WaitPoll, WaitRejected, WaitResolved, WaitTick
<1>2. SocketsSeen' = SocketsSeen
  BY OtherMoves, SocketsStay DEF IInv, VariablesTyped
<1>3. ASSUME NEW r, NEW s, RemoveRoomClient(r, s)
      PROVE  Protocol!Next \/ UNCHANGED <<TicketsHeld, SocketsSeen, SeatsTaken>>
  <2>1. CASE r \in Room /\ s \in Session
    <3>1. PICK S \in SUBSET Session : S = {s}
      BY <2>1
    <3>2. Protocol!Lose(r, S)
      BY <1>1, <1>2, <1>3, <2>1, <3>1, RemovedSeat, LoseStep DEF IInv
    <3> QED
      BY <2>1, <3>2 DEF Protocol!Next
  <2>2. CASE ~(r \in Room /\ s \in Session)
    <3>1. \A x \in Room, y \in Session : clients'[x][y] = clients[x][y]
      BY <1>3, <2>2 DEF RemoveRoomClient, IInv, VariablesTyped
    <3>2. SeatsTaken' = SeatsTaken
      BY <3>1, NoSeat DEF Sitting, SittingAfter
    <3> QED
      BY <1>1, <1>2, <3>2
  <2> QED
    BY <2>1, <2>2
<1>4. CASE clients' = clients
  BY <1>1, <1>2, <1>4, FrameKept
<1>5. CASE DisconnectNoClient(c)
  BY <1>3, <1>5 DEF DisconnectNoClient
<1>6. CASE LeaveDone(c)
  BY <1>3, <1>4, <1>6 DEF LeaveDone
<1> QED
  BY <1>4, <1>5, <1>6 DEF Disconnect, DisconnectNoRoom, DisconnectNoId, DisconnectClient,
                          WaitPoll, WaitRejected, WaitResolved, WaitTick

\* Nobody has asked for a ticket, opened a socket or taken a seat initially.
LEMMA ProtocolInit == Init => Protocol!Init
<1> SUFFICES ASSUME Init PROVE Protocol!Init
  OBVIOUS
<1>1. TicketsHeld = [q \in Request |-> [stage |-> "free", room |-> None, session |-> None]]
  BY DEF Init, TicketsHeld, TicketStage
<1>2. SocketsSeen = [c \in Conn |-> [stage |-> "new", room |-> None, session |-> None, ticket |-> None]]
  BY DEF Init, SocketsSeen, SocketStage
<1>3. SeatsTaken = [r \in Room |-> [s \in Session |-> None]]
  BY NamesDiffer DEF Init, SeatsTaken
<1> QED
  BY <1>1, <1>2, <1>3 DEF Protocol!Init

\* Every step of the room manager is a step of the protocol, or no step of it.
LEMMA ProtocolStep == PInv /\ [Next]_vars => [Protocol!Next]_(Protocol!vars)
<1> SUFFICES ASSUME PInv, [Next]_vars
             PROVE  Protocol!Next \/ UNCHANGED <<TicketsHeld, SocketsSeen, SeatsTaken>>
  BY DEF Protocol!vars
<1>1. CASE \E q \in Request : RequestStep(q)
  BY <1>1, RequestFollows DEF PInv
<1>2. CASE \E r \in Room : RoomStep(r)
  BY <1>2, RoomFollows DEF PInv
<1>3. CASE \E c \in Conn : ConnectStep(c)
  BY <1>3, ConnectFollows DEF PInv
<1>4. CASE \E c \in Conn : Disconnect(c) \/ LeaveDone(c) \/ WaitPoll(c)
  BY <1>4, CloseFollows DEF PInv
<1>5. CASE UNCHANGED vars
  BY <1>5, FrameKept DEF vars
<1> QED
  BY <1>1, <1>2, <1>3, <1>4, <1>5 DEF Next

\* The room manager implements SeatProtocol: whatever the order of requests,
\* timers, handshakes, closes and removals, a ticket is used once, in time and
\* for its own seat, and only a socket that has used one, or comes after one
\* that has, takes a seat, and once.
THEOREM ProtocolKept == Spec => KeepsProtocol
<1>1. Init => PInv /\ Protocol!Init
  BY InvInit, OpenedFirstInit, ProtocolInit DEF PInv
<1> QED
  BY <1>1, PInvStep, ProtocolStep, PTL DEF Spec, KeepsProtocol, Protocol!Spec
==============================================================================
