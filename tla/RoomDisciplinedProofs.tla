------------------------ MODULE RoomDisciplinedProofs ------------------------
(***************************************************************************)
(* Proofs about RoomManager when hooks do not suspend, a session uses a    *)
(* room with one socket at a time and onLeave does not wait: members have  *)
(* their sockets, their patches and their places in the cache.             *)
(***************************************************************************)
EXTENDS RoomListingProofs

Disciplined == ~HooksSuspend /\ Exclusive /\ WaitSeconds = 0

-----------------------------------------------------------------------------
(* What these properties rest on. *)

\* A handler of the request, or of the connection, is between two awaits.
Working(q) == request[q].stage \in {"creating", "authorizing"}
Busy(c) == conn[c].stage \in {"verifying", "joining"} \/ conn[c].leave = "leaving"

\* One handler at a time is between two awaits.
OneTask ==
    /\ \A p, q \in Request : Working(p) /\ Working(q) => p = q
    /\ \A c, d \in Conn : Busy(c) /\ Busy(d) => c = d
    /\ \A q \in Request, c \in Conn : ~(Working(q) /\ Busy(c))

\* Nobody disconnects in the middle of a handler, and nobody returns.
SocketRight(k) ==
    /\ k.stage = "idle" => k.socket = "none"
    /\ k.stage \in {"verifying", "joining"} => k.socket \in {"open", "closing"}
    /\ k.stage = "established" /\ k.socket \in {"open", "closing"} => k.status = "connected"
    /\ k.stage # "awaitReconnected"
    /\ k.socket = "closed" => k.status = "disconnected"
    /\ k.leave # "no" => k.socket = "closed"
    /\ k.leave # "waiting"

Sockets == \A c \in Conn : SocketRight(conn[c])

At(c, r, s) == conn[c].room = r /\ conn[c].session = s

\* A session uses a room with one socket at a time.
OneSocket ==
    \A c, d \in Conn :
        /\ conn[c].room = conn[d].room /\ conn[c].session = conn[d].session
        /\ Delivers(c) /\ Delivers(d)
        => c = d

\* Requests get to a room once it is in the rooms map.
Requested ==
    \A q \in Request : request[q].stage \in {"authorizing", "armed"} => ~Early(request[q].room)

EarlyUntracked == \A r \in Room, s \in Session : Early(r) => tracking[r][s] = None

\* The room is empty, its removal has begun, and no handler works on it: it
\* gets no member any more, whatever reservations and sockets it has left.
Doomed(r) ==
    /\ Keys(r) = {}
    /\ Announced(r)
    /\ closing[r] + deleting[r] > 0
    /\ \A q \in Request : Working(q) => request[q].room # r
    /\ \A c \in Conn : Busy(c) => conn[c].room # r

\* The member of a seat receives its patches, and its socket delivers unless
\* onLeave is called for it; a socket that joins will take a reserved seat.
SocketOf(r, s, c) ==
    /\ tracking[r][s] = c <=> clients[r][s] = c /\ Delivers(c)
    /\ clients[r][s] = c => Delivers(c) \/ conn[c].leave = "leaving"
    /\ At(c, r, s) /\ conn[c].leave = "leaving" => clients[r][s] = c
    /\ At(c, r, s) /\ conn[c].stage \in {"awaitJoined", "joining"} /\ Delivers(c) =>
         clients[r][s] = Null \/ Doomed(r)

\* A seat is asked for without a socket, and while it is reserved no socket has
\* got any further than its verification.
RequestOf(r, s, q) ==
    request[q].room = r /\ request[q].session = s =>
        /\ request[q].stage = "authorizing" => \A c \in Conn : At(c, r, s) => ~Delivers(c)
        /\ request[q].stage = "armed" =>
             /\ (clients[r][s] = Null /\ reserved[r][s] = q) \/ Doomed(r)
             /\ \A c \in Conn : At(c, r, s) /\ Delivers(c) =>
                  conn[c].stage \in {"verifying", "rejected"}

SeatOf(r, s) ==
    /\ \A c \in Conn : SocketOf(r, s, c)
    /\ \A q \in Request : RequestOf(r, s, q)

SeatsTrue == \A r \in rooms, s \in Session : SeatOf(r, s)

\* The inductive invariant.
Discipline ==
    /\ OneTask
    /\ Sockets
    /\ OneSocket
    /\ Requested
    /\ EarlyUntracked
    /\ SeatsTrue
    /\ CacheExact

-----------------------------------------------------------------------------
(* What a step does to the handlers under way. *)

WorkingAfter(q) == request'[q].stage \in {"creating", "authorizing"}
BusyAfter(c) == conn'[c].stage \in {"verifying", "joining"} \/ conn'[c].leave = "leaving"

\* When an event is taken no handler is between two awaits.
LEMMA EventAlone ==
    ASSUME Disciplined, VariablesTyped, NextEvent
    PROVE  /\ \A q \in Request : ~Working(q)
           /\ \A c \in Conn : ~Busy(c)
           /\ \A r \in Room : closing[r] + deleting[r] = 0
           /\ \A r \in Room : ~Doomed(r)
<1>1. ~Pending
  BY DEF Disciplined, NextEvent
<1>2. \A q \in Request : ~Working(q)
  BY <1>1 DEF Pending, Working
<1>3. \A c \in Conn : ~Busy(c)
  BY <1>1 DEF Pending, Busy
<1>4. ASSUME NEW r \in Room
      PROVE  closing[r] + deleting[r] = 0
  <2>1. closing[r] \in Nat /\ deleting[r] \in Nat
    BY DEF VariablesTyped
  <2>2. ~(closing[r] + deleting[r] > 0)
    BY <1>1 DEF Pending
  <2> QED
    BY ONLY <2>1, <2>2
<1>5. \A r \in Room : ~Doomed(r)
  BY <1>4 DEF Doomed
<1> QED
  BY <1>2, <1>3, <1>4, <1>5

\* A connection that a step leaves alone, or only terminates.
Calm(d) == conn'[d] \in {conn[d], Terminated(conn[d])}

LEMMA CalmKeeps ==
    ASSUME conn \in [Conn -> ConnRecord], NEW d \in Conn, Calm(d)
    PROVE  /\ conn'[d].room = conn[d].room /\ conn'[d].session = conn[d].session
           /\ conn'[d].stage = conn[d].stage /\ conn'[d].status = conn[d].status
           /\ conn'[d].leave = conn[d].leave
           /\ Delivers(d)' = Delivers(d)
           /\ SocketRight(conn[d]) => SocketRight(conn'[d])
<1>1. conn[d] \in ConnRecord
  OBVIOUS
<1>2. CASE conn'[d] = conn[d]
  BY <1>2 DEF Delivers
<1>3. CASE conn'[d] = [conn[d] EXCEPT !.socket = "closing"] /\ conn[d].socket = "open"
  <2>1. /\ conn'[d].room = conn[d].room /\ conn'[d].session = conn[d].session
        /\ conn'[d].stage = conn[d].stage /\ conn'[d].status = conn[d].status
        /\ conn'[d].leave = conn[d].leave /\ conn'[d].socket = "closing"
    BY <1>1, <1>3 DEF ConnRecord
  <2>2. Delivers(d)' = Delivers(d)
    BY <1>3, <2>1 DEF Delivers
  <2>3. SocketRight(conn[d]) => SocketRight(conn'[d])
    BY <1>3, <2>1 DEF SocketRight
  <2> QED
    BY ONLY <2>1, <2>2, <2>3
<1> QED
  BY <1>2, <1>3 DEF Calm, Terminated

\* The connection goes to another stage, socket, status and state of onLeave.
Becomes(c, stage, socket, status, leave) ==
    /\ conn'[c].room = conn[c].room /\ conn'[c].session = conn[c].session
    /\ conn'[c].stage = stage /\ conn'[c].socket = socket
    /\ conn'[c].status = status /\ conn'[c].leave = leave

\* The socket of a connection that has been terminated.
Ending(c) == IF conn[c].socket = "open" THEN "closing" ELSE conn[c].socket

Alone(c) == \A d \in Conn : d # c => conn'[d] = conn[d]

\* What the handlers that work for one connection make of it.
LEMMA HandlerFates ==
    ASSUME conn \in [Conn -> ConnRecord], NEW c \in Conn
    PROVE  /\ VerifyFailed(c) =>
                Alone(c) /\ Becomes(c, "rejected", Ending(c), conn[c].status, conn[c].leave)
           /\ ConnectRefused(c) =>
                Alone(c) /\ Becomes(c, "refused", Ending(c), conn[c].status, conn[c].leave)
           /\ ConnectSeated(c) =>
                Alone(c) /\ Becomes(c, "awaitJoined", conn[c].socket, conn[c].status, conn[c].leave)
           /\ Joined(c) =>
                Alone(c) /\ Becomes(c, "joining", conn[c].socket, conn[c].status, conn[c].leave)
           /\ JoinFailed(c) =>
                Alone(c) /\ Becomes(c, "refused", Ending(c), conn[c].status, conn[c].leave)
           /\ JoinDone(c) =>
                Alone(c) /\ Becomes(c, "established", conn[c].socket, "connected", conn[c].leave)
           /\ LeaveDone(c) =>
                Alone(c) /\ Becomes(c, conn[c].stage, conn[c].socket, conn[c].status, "done")
<1>1. conn[c] \in ConnRecord
  OBVIOUS
<1> USE DEF Alone, Becomes
<1>2. ASSUME NEW st, conn' = [conn EXCEPT ![c] = Terminated([@ EXCEPT !.stage = st])]
      PROVE  Alone(c) /\ Becomes(c, st, Ending(c), conn[c].status, conn[c].leave)
  <2>1. conn'[c] = Terminated([conn[c] EXCEPT !.stage = st])
    BY <1>2
  <2>2. Becomes(c, st, Ending(c), conn[c].status, conn[c].leave)
    BY <1>1, <2>1 DEF Terminated, Ending, ConnRecord
  <2> QED
    BY <1>2, <2>2
<1>3. VerifyFailed(c) => Alone(c) /\ Becomes(c, "rejected", Ending(c), conn[c].status, conn[c].leave)
  BY <1>2 DEF VerifyFailed
<1>4. ConnectRefused(c) => Alone(c) /\ Becomes(c, "refused", Ending(c), conn[c].status, conn[c].leave)
  BY <1>2 DEF ConnectRefused
<1>5. ConnectSeated(c) =>
        Alone(c) /\ Becomes(c, "awaitJoined", conn[c].socket, conn[c].status, conn[c].leave)
  BY <1>1 DEF ConnectSeated, ConnRecord
<1>6. Joined(c) => Alone(c) /\ Becomes(c, "joining", conn[c].socket, conn[c].status, conn[c].leave)
  BY <1>1 DEF Joined, ConnRecord
<1>7. JoinFailed(c) => Alone(c) /\ Becomes(c, "refused", Ending(c), conn[c].status, conn[c].leave)
  BY <1>2 DEF JoinFailed
<1>8. JoinDone(c) =>
        Alone(c) /\ Becomes(c, "established", conn[c].socket, "connected", conn[c].leave)
  BY <1>1 DEF JoinDone, ConnRecord
<1>9. LeaveDone(c) =>
        Alone(c) /\ Becomes(c, conn[c].stage, conn[c].socket, conn[c].status, "done")
  BY <1>1 DEF LeaveDone, ConnRecord
<1> QED
  BY ONLY <1>3, <1>4, <1>5, <1>6, <1>7, <1>8, <1>9

\* What a close makes of a connection; onLeave does not wait.
LEMMA CloseFates ==
    ASSUME Disciplined, conn \in [Conn -> ConnRecord], NEW c \in Conn
    PROVE  /\ DisconnectNoRoom(c) \/ DisconnectNoId(c) \/ DisconnectNoClient(c) =>
                Alone(c) /\ Becomes(c, conn[c].stage, "closed", "disconnected", conn[c].leave)
           /\ \A b \in BOOLEAN : DisconnectClient(c, b) =>
                Alone(c) /\ Becomes(c, conn[c].stage, "closed", "disconnected", "leaving")
<1>1. conn[c] \in ConnRecord
  OBVIOUS
<1> USE DEF Alone, Becomes
<1>2. ASSUME DisconnectNoRoom(c) \/ DisconnectNoId(c) \/ DisconnectNoClient(c)
      PROVE  Alone(c) /\ Becomes(c, conn[c].stage, "closed", "disconnected", conn[c].leave)
  <2>1. conn' = [conn EXCEPT ![c] = Closed(@)]
    BY <1>2 DEF DisconnectNoRoom, DisconnectNoId, DisconnectNoClient
  <2> QED
    BY <1>1, <2>1 DEF Closed, ConnRecord
<1>3. ASSUME NEW b \in BOOLEAN, DisconnectClient(c, b)
      PROVE  Alone(c) /\ Becomes(c, conn[c].stage, "closed", "disconnected", "leaving")
  <2>1. ~Waits(conn[c].room, b)
    <3>1. ~(0 > 0)
      OBVIOUS
    <3> QED
      BY <3>1 DEF Waits, Disciplined
  <2>2. conn' = [conn EXCEPT ![c] = [Closed(@) EXCEPT !.leave = "leaving", !.left = 0]]
    BY <1>3, <2>1 DEF DisconnectClient
  <2>3. conn'[c] = [Closed(conn[c]) EXCEPT !.leave = "leaving", !.left = 0]
    BY <2>2
  <2>4. Becomes(c, conn[c].stage, "closed", "disconnected", "leaving")
    BY <1>1, <2>3 DEF Closed, ConnRecord
  <2> QED
    BY <2>2, <2>4
<1> QED
  BY ONLY <1>2, <1>3

\* Nobody returns to a seat and no onLeave waits.
LEMMA NobodyReturns ==
    ASSUME IInv, Discipline, NEW c \in Conn
    PROVE  ~ConnectReturning(c) /\ ~Reconnected(c) /\ ~WaitPoll(c)
<1>1. SocketRight(conn[c])
  BY DEF Discipline, Sockets
<1>2. ~Reconnected(c)
  BY <1>1 DEF SocketRight, Reconnected
<1>3. ~WaitPoll(c)
  BY <1>1 DEF SocketRight, WaitPoll, WaitRejected, WaitResolved, WaitTick
<1>4. ASSUME ConnectReturning(c)
      PROVE  FALSE
  <2>1. conn[c].stage = "verifying"
    BY <1>4 DEF ConnectReturning
  <2>2. Busy(c) /\ Delivers(c)
    BY <1>1, <2>1 DEF SocketRight, Busy, Delivers
  <2>3. PICK r \in rooms : r = conn[c].room
    BY <1>4 DEF ConnectReturning
  <2>4. PICK s \in Session : s = conn[c].session
    BY <2>1 DEF IInv, Placed
  <2>5. PICK d \in Conn : d = clients[r][s]
    BY <1>4, <2>3, <2>4 DEF ConnectReturning
  <2>6. r \in Room
    BY DEF rooms
  <2>7. conn[d].room = r /\ conn[d].session = s /\ conn[d].stage = "established"
    BY <2>5, <2>6 DEF IInv, SeatAdmitted
  <2>8. Delivers(d) \/ conn[d].leave = "leaving"
    BY <2>5 DEF Discipline, SeatsTrue, SeatOf, SocketOf
  <2>9. c # d
    BY <2>1, <2>7
  <2>10. CASE Delivers(d)
    BY <2>2, <2>3, <2>4, <2>7, <2>9, <2>10 DEF Discipline, OneSocket
  <2>11. CASE Busy(d)
    BY <2>2, <2>9, <2>11 DEF Discipline, OneTask
  <2> QED
    BY <2>8, <2>10, <2>11 DEF Busy
<1> QED
  BY <1>2, <1>3, <1>4

\* A handler that works for one connection.
HandlerStep(c) ==
    \/ VerifyFailed(c) \/ ConnectRefused(c) \/ ConnectSeated(c)
    \/ Joined(c) \/ JoinFailed(c) \/ JoinDone(c) \/ LeaveDone(c)

CloseStep(c) ==
    \/ DisconnectNoRoom(c) \/ DisconnectNoId(c) \/ DisconnectNoClient(c)
    \/ \E b \in BOOLEAN : DisconnectClient(c, b)

\* The steps that are left.
LEMMA StepCases ==
    ASSUME IInv, Discipline, Next
    PROVE  \/ \E q \in Request : RequestStep(q)
           \/ \E r \in Room : RoomStep(r)
           \/ \E c \in Conn : \/ \E s \in Session, r \in Room : Connect(c, s, r)
                              \/ ConnectionTimeout(c)
                              \/ HandlerStep(c)
                              \/ CloseStep(c)
<1>1. ASSUME NEW c \in Conn, ConnectStep(c)
      PROVE  \/ \E s \in Session, r \in Room : Connect(c, s, r)
             \/ ConnectionTimeout(c)
             \/ HandlerStep(c)
  BY <1>1, NobodyReturns DEF ConnectStep, Verified, HandlerStep
<1>2. ASSUME NEW c \in Conn, Disconnect(c)
      PROVE  CloseStep(c)
  BY <1>2 DEF Disconnect, CloseStep
<1>3. ASSUME NEW c \in Conn, LeaveDone(c)
      PROVE  HandlerStep(c)
  BY <1>3 DEF HandlerStep
<1> QED
  BY <1>1, <1>2, <1>3, NobodyReturns DEF Next

\* Requests and operations on rooms terminate connections at most.
LEMMA CalmSteps ==
    ASSUME conn \in [Conn -> ConnRecord], NEW d \in Conn,
           \/ \E q \in Request : RequestStep(q)
           \/ \E r \in Room : RoomStep(r)
           \/ \E c \in Conn : ConnectionTimeout(c)
    PROVE  Calm(d)
<1>1. CASE \E q \in Request : RequestStep(q)
  <2>1. conn' = conn
    BY <1>1 DEF RequestStep, CreateRoom, CreateFailed, RoomCreated, JoinRoom, AuthFailed,
                ReserveSeat, ReserveSeatThrows, ReservationTimeout
  <2> QED
    BY <2>1 DEF Calm
<1>2. CASE \E r \in Room : RoomStep(r)
  <2>1. PICK r \in Room : RoomStep(r)
    BY <1>2
  <2>2. CASE \E s \in Session : CloseRoom(s, r)
    BY <2>2 DEF CloseRoom, Calm
  <2>3. CASE conn' = conn
    BY <2>3 DEF Calm
  <2> QED
    BY <2>1, <2>2, <2>3 DEF RoomStep, UpdateRoom, LeaveRoom, SetLocked, RoomClosed, RoomDeleted
<1>3. CASE \E c \in Conn : ConnectionTimeout(c)
  BY <1>3 DEF ConnectionTimeout, Calm
<1> QED
  BY <1>1, <1>2, <1>3

\* What a websocket that opens looks like.
LEMMA ConnectFate ==
    ASSUME conn \in [Conn -> ConnRecord], NEW c \in Conn, NEW s, NEW r, Connect(c, s, r)
    PROVE  /\ Alone(c)
           /\ conn[c].stage = "idle"
           /\ conn'[c].stage = "verifying" /\ conn'[c].socket = "open"
           /\ conn'[c].room = r /\ conn'[c].session = s
           /\ conn'[c].status = conn[c].status /\ conn'[c].leave = conn[c].leave
<1>1. conn[c] \in ConnRecord
  OBVIOUS
<1>2. conn'[c] = [conn[c] EXCEPT !.stage = "verifying", !.socket = "open",
                                 !.room = r, !.session = s]
  BY DEF Connect
<1>3. /\ conn'[c].stage = "verifying" /\ conn'[c].socket = "open"
      /\ conn'[c].room = r /\ conn'[c].session = s
      /\ conn'[c].status = conn[c].status /\ conn'[c].leave = conn[c].leave
  BY ONLY <1>1, <1>2 DEF ConnRecord
<1> QED
  BY <1>3 DEF Connect, Alone

\* The shape of every connection is kept.
LEMMA SocketsStep ==
    ASSUME Disciplined, IInv, Discipline, Next
    PROVE  Sockets'
<1> SUFFICES ASSUME NEW d \in Conn
             PROVE  SocketRight(conn'[d])
  BY DEF Sockets
<1>1. SocketRight(conn[d]) /\ conn \in [Conn -> ConnRecord]
  BY DEF Discipline, Sockets, IInv, VariablesTyped
<1>2. CASE \/ \E q \in Request : RequestStep(q)
           \/ \E r \in Room : RoomStep(r)
           \/ \E c \in Conn : ConnectionTimeout(c)
  BY <1>1, <1>2, CalmSteps, CalmKeeps
<1>3. ASSUME NEW c \in Conn, NEW s \in Session, NEW r \in Room, Connect(c, s, r)
      PROVE  SocketRight(conn'[d])
  <2>1. CASE d # c
    BY <1>1, <1>3, <2>1, ConnectFate DEF Alone
  <2>2. CASE d = c
    BY <1>1, <1>3, <2>2, ConnectFate DEF SocketRight
  <2> QED
    BY <2>1, <2>2
<1>4. ASSUME NEW c \in Conn, HandlerStep(c)
      PROVE  SocketRight(conn'[d])
  <2>1. CASE d # c
    BY <1>1, <1>4, <2>1, HandlerFates DEF HandlerStep, Alone
  <2>2. CASE d = c /\ VerifyFailed(d)
    BY <1>1, <2>2, HandlerFates DEF SocketRight, Becomes, Ending, VerifyFailed
  <2>3. CASE d = c /\ ConnectRefused(d)
    BY <1>1, <2>3, HandlerFates DEF SocketRight, Becomes, Ending, ConnectRefused
  <2>4. CASE d = c /\ ConnectSeated(d)
    BY <1>1, <2>4, HandlerFates DEF SocketRight, Becomes, ConnectSeated
  <2>5. CASE d = c /\ Joined(d)
    BY <1>1, <2>5, HandlerFates DEF SocketRight, Becomes, Joined, Delivers
  <2>6. CASE d = c /\ JoinFailed(d)
    BY <1>1, <2>6, HandlerFates DEF SocketRight, Becomes, Ending, JoinFailed
  <2>7. CASE d = c /\ JoinDone(d)
    BY <1>1, <2>7, HandlerFates DEF SocketRight, Becomes, JoinDone
  <2>8. CASE d = c /\ LeaveDone(d)
    BY <1>1, <2>8, HandlerFates DEF SocketRight, Becomes, LeaveDone
  <2> QED
    BY <1>4, <2>1, <2>2, <2>3, <2>4, <2>5, <2>6, <2>7, <2>8 DEF HandlerStep
<1>5. ASSUME NEW c \in Conn, CloseStep(c)
      PROVE  SocketRight(conn'[d])
  <2>1. CASE d # c
    BY <1>1, <1>5, <2>1, CloseFates DEF CloseStep, Alone
  <2>2. CASE d = c
    <3>1. \/ Becomes(d, conn[d].stage, "closed", "disconnected", conn[d].leave)
          \/ Becomes(d, conn[d].stage, "closed", "disconnected", "leaving")
      BY <1>1, <1>5, <2>2, CloseFates DEF CloseStep
    <3>2. Delivers(d) /\ ~Busy(d)
      BY <1>5, <2>2, EventAlone DEF CloseStep, DisconnectNoRoom, DisconnectNoId,
             DisconnectNoClient, DisconnectClient, IInv
    <3> QED
      BY <1>1, <3>1, <3>2 DEF SocketRight, Becomes, Delivers, Busy
  <2> QED
    BY <2>1, <2>2
<1> QED
  BY <1>2, <1>3, <1>4, <1>5, StepCases

\* A connection that delivers did so before, or has just been opened.
LEMMA DeliversFrom ==
    ASSUME Disciplined, IInv, Discipline, Next, NEW d \in Conn, Delivers(d)'
    PROVE  \/ /\ Delivers(d)
              /\ conn'[d].room = conn[d].room /\ conn'[d].session = conn[d].session
           \/ \E s \in Session, r \in Room : Connect(d, s, r)
<1>1. conn \in [Conn -> ConnRecord]
  BY DEF IInv, VariablesTyped
<1>2. CASE \/ \E q \in Request : RequestStep(q)
           \/ \E r \in Room : RoomStep(r)
           \/ \E c \in Conn : ConnectionTimeout(c)
  BY <1>1, <1>2, CalmSteps, CalmKeeps
<1>3. CASE conn'[d] = conn[d]
  BY <1>3 DEF Delivers
<1>4. ASSUME NEW c \in Conn, NEW s \in Session, NEW r \in Room, Connect(c, s, r), d # c
      PROVE  conn'[d] = conn[d]
  BY <1>1, <1>4, ConnectFate DEF Alone
<1>5. ASSUME NEW c \in Conn, HandlerStep(c) \/ CloseStep(c), d # c
      PROVE  conn'[d] = conn[d]
  BY <1>1, <1>5, HandlerFates, CloseFates DEF HandlerStep, CloseStep, Alone
<1>6. CASE CloseStep(d)
  <2>1. conn'[d].socket = "closed"
    BY <1>1, <1>6, CloseFates DEF CloseStep, Becomes
  <2> QED
    BY <2>1 DEF Delivers
<1>7. CASE HandlerStep(d)
  <2>1. /\ conn'[d].room = conn[d].room /\ conn'[d].session = conn[d].session
        /\ conn'[d].socket \in {conn[d].socket, Ending(d)}
    BY <1>1, <1>7, HandlerFates DEF HandlerStep, Becomes
  <2> QED
    BY <2>1 DEF Delivers, Ending
<1> QED
  BY <1>2, <1>3, <1>4, <1>5, <1>6, <1>7, StepCases

\* Sessions keep to one socket.
LEMMA OneSocketStep ==
    ASSUME Disciplined, IInv, Discipline, Next
    PROVE  OneSocket'
<1> SUFFICES ASSUME NEW c \in Conn, NEW d \in Conn, c # d,
                    conn'[c].room = conn'[d].room, conn'[c].session = conn'[d].session,
                    Delivers(c)', Delivers(d)'
             PROVE  FALSE
  BY DEF OneSocket
<1>1. conn \in [Conn -> ConnRecord]
  BY DEF IInv, VariablesTyped
<1>2. ASSUME NEW e \in Conn, NEW f \in Conn, e # f,
             conn'[e].room = conn'[f].room, conn'[e].session = conn'[f].session,
             Delivers(f)', NEW s \in Session, NEW r \in Room, Connect(e, s, r)
      PROVE  FALSE
  <2>1. conn'[f] = conn[f] /\ conn'[e].room = r /\ conn'[e].session = s
    BY <1>1, <1>2, ConnectFate DEF Alone
  <2>2. conn[f].socket \in {"open", "closing"}
    BY <1>2, <2>1 DEF Delivers
  <2>3. conn[f].session = s /\ conn[f].room = r
    BY <1>2, <2>1
  <2>4. conn[f].socket = "closed"
    BY <1>2, <2>3 DEF Connect, MayUse, Disciplined
  <2> QED
    BY <2>2, <2>4
<1>3. ASSUME Delivers(c), Delivers(d),
             conn'[c].room = conn[c].room, conn'[c].session = conn[c].session,
             conn'[d].room = conn[d].room, conn'[d].session = conn[d].session
      PROVE  FALSE
  BY <1>3 DEF Discipline, OneSocket
<1> QED
  BY <1>2, <1>3, DeliversFrom

\* Handlers only come to their end.
Shrinks ==
    /\ \A q \in Request : WorkingAfter(q) => Working(q) /\ request'[q].room = request[q].room
    /\ \A c \in Conn : BusyAfter(c) => Busy(c) /\ conn'[c].room = conn[c].room

\* An event starts one.
Starts ==
    /\ NextEvent
    /\ \/ \E p \in Request : /\ \A q \in Request : WorkingAfter(q) => q = p
                             /\ \A c \in Conn : ~BusyAfter(c)
       \/ \E d \in Conn : /\ \A c \in Conn : BusyAfter(c) => c = d
                          /\ \A q \in Request : ~WorkingAfter(q)

\* Connections that are left alone or terminated are as busy as before.
LEMMA CalmBusy ==
    ASSUME conn \in [Conn -> ConnRecord], NEW d \in Conn, Calm(d)
    PROVE  BusyAfter(d) => Busy(d) /\ conn'[d].room = conn[d].room
BY CalmKeeps DEF BusyAfter, Busy

LEMMA RequestTasks ==
    ASSUME Disciplined, VariablesTyped, NEW p \in Request, RequestStep(p)
    PROVE  Shrinks \/ Starts
<1>1. conn \in [Conn -> ConnRecord] /\ request[p] \in RequestRecord
      /\ request \in [Request -> RequestRecord]
  BY DEF VariablesTyped
<1>2. \A c \in Conn : BusyAfter(c) => Busy(c) /\ conn'[c].room = conn[c].room
  BY <1>1, CalmSteps, CalmBusy
<1>3. \A q \in Request : q # p => request'[q] = request[q]
  BY <1>1 DEF RequestStep, CreateRoom, CreateFailed, RoomCreated, JoinRoom, AuthFailed,
         ReserveSeat, ReserveSeatThrows, ReservationTimeout
<1>4. \A q \in Request : q # p => (WorkingAfter(q) => Working(q) /\ request'[q].room = request[q].room)
  BY <1>3 DEF WorkingAfter, Working
<1>5. CASE \E r \in Room, s \in Session : CreateRoom(r, s, p) \/ JoinRoom(p, r, s)
  <2>1. NextEvent
    BY <1>5 DEF CreateRoom, JoinRoom
  <2>2. \A q \in Request : WorkingAfter(q) => q = p
    BY <1>4, <2>1, EventAlone
  <2>3. \A c \in Conn : ~BusyAfter(c)
    BY <1>2, <2>1, EventAlone
  <2> QED
    BY <2>1, <2>2, <2>3 DEF Starts
<1>6. CASE RoomCreated(p)
  <2>1. Working(p)
    BY <1>6 DEF RoomCreated, Working
  <2>2. request'[p].room = request[p].room
    BY <1>1, <1>6 DEF RoomCreated, RequestRecord
  <2> QED
    BY <1>2, <1>4, <2>1, <2>2 DEF Shrinks
<1>7. CASE CreateFailed(p) \/ AuthFailed(p) \/ ReserveSeat(p) \/ ReserveSeatThrows(p)
           \/ ReservationTimeout(p)
  <2>1. request'[p].stage \in {"refused", "armed", "expired"}
    BY <1>1, <1>7 DEF CreateFailed, AuthFailed, ReserveSeat, ReserveSeatThrows,
                      ReservationTimeout, RequestRecord
  <2>2. ~WorkingAfter(p)
    BY <2>1 DEF WorkingAfter
  <2> QED
    BY <1>2, <1>4, <2>2 DEF Shrinks
<1> QED
  BY <1>5, <1>6, <1>7 DEF RequestStep

LEMMA SocketTasks ==
    ASSUME Disciplined, IInv, Discipline, NEW c \in Conn,
           HandlerStep(c) \/ CloseStep(c) \/ (\E s \in Session, r \in Room : Connect(c, s, r))
    PROVE  Shrinks \/ Starts
<1>1. conn \in [Conn -> ConnRecord] /\ request \in [Request -> RequestRecord]
  BY DEF IInv, VariablesTyped
<1>2. Alone(c)
  BY <1>1, HandlerFates, CloseFates, ConnectFate DEF HandlerStep, CloseStep
<1>3. \A d \in Conn : d # c => (BusyAfter(d) => Busy(d) /\ conn'[d].room = conn[d].room)
  BY <1>2 DEF Alone, BusyAfter, Busy
<1>4. \A q \in Request : WorkingAfter(q) => Working(q) /\ request'[q].room = request[q].room
  <2>1. CASE ConnectSeated(c)
    <3>1. PICK p : request' = [request EXCEPT ![p].stage = "redeemed"]
      BY <2>1 DEF ConnectSeated
    <3> QED
      BY <1>1, <3>1 DEF WorkingAfter, Working, RequestRecord
  <2>2. CASE request' = request
    BY <2>2 DEF WorkingAfter, Working
  <2> QED
    BY <2>1, <2>2 DEF HandlerStep, CloseStep, VerifyFailed, ConnectRefused, Joined, JoinFailed,
                      JoinDone, LeaveDone, DisconnectNoRoom, DisconnectNoId, DisconnectNoClient,
                      DisconnectClient, Connect
<1>5. CASE NextEvent
  <2>1. \A q \in Request : ~WorkingAfter(q)
    BY <1>4, <1>5, EventAlone DEF IInv
  <2>2. \A d \in Conn : BusyAfter(d) => d = c
    BY <1>3, <1>5, EventAlone DEF IInv
  <2> QED
    BY <1>5, <2>1, <2>2 DEF Starts
<1>6. CASE ~NextEvent
  <2>1. SocketRight(conn[c])
    BY DEF Discipline, Sockets
  <2>2. \/ VerifyFailed(c) \/ ConnectRefused(c) \/ ConnectSeated(c)
        \/ JoinFailed(c) \/ JoinDone(c) \/ LeaveDone(c)
    BY <1>6 DEF HandlerStep, CloseStep, Joined, DisconnectNoRoom, DisconnectNoId,
                DisconnectNoClient, DisconnectClient, Connect
  <2>3. /\ conn'[c].stage \in {"rejected", "refused", "awaitJoined", "established", conn[c].stage}
        /\ conn'[c].room = conn[c].room
    BY <1>1, <2>2, HandlerFates DEF Becomes
  <2>4. Busy(c)
    BY <2>2 DEF VerifyFailed, ConnectRefused, ConnectSeated, JoinFailed, JoinDone, LeaveDone, Busy
  <2> QED
    BY <1>3, <1>4, <2>3, <2>4 DEF Shrinks
<1> QED
  BY <1>5, <1>6

LEMMA StepTasks ==
    ASSUME Disciplined, IInv, Discipline, Next
    PROVE  Shrinks \/ Starts
<1>1. ASSUME NEW r \in Room, RoomStep(r)
      PROVE  Shrinks
  <2>1. \A c \in Conn : BusyAfter(c) => Busy(c) /\ conn'[c].room = conn[c].room
    BY <1>1, CalmSteps, CalmBusy DEF IInv, VariablesTyped
  <2>2. request' = request
    BY <1>1 DEF RoomStep, UpdateRoom, LeaveRoom, CloseRoom, SetLocked, RoomClosed, RoomDeleted
  <2> QED
    BY <2>1, <2>2 DEF Shrinks, Working, WorkingAfter
<1>2. ASSUME NEW c \in Conn, ConnectionTimeout(c)
      PROVE  Shrinks
  <2>1. \A d \in Conn : BusyAfter(d) => Busy(d) /\ conn'[d].room = conn[d].room
    BY <1>2, CalmSteps, CalmBusy DEF IInv, VariablesTyped
  <2>2. request' = request
    BY <1>2 DEF ConnectionTimeout
  <2> QED
    BY <2>1, <2>2 DEF Shrinks, Working, WorkingAfter
<1> QED
  BY <1>1, <1>2, StepCases, RequestTasks, SocketTasks DEF IInv

\* One handler at a time.
LEMMA OneTaskStep ==
    ASSUME Disciplined, IInv, Discipline, Next
    PROVE  OneTask'
<1> SUFFICES /\ \A p, q \in Request : WorkingAfter(p) /\ WorkingAfter(q) => p = q
             /\ \A c, d \in Conn : BusyAfter(c) /\ BusyAfter(d) => c = d
             /\ \A q \in Request, c \in Conn : ~(WorkingAfter(q) /\ BusyAfter(c))
  BY DEF OneTask, Working, WorkingAfter, Busy, BusyAfter
<1>1. CASE Shrinks
  BY <1>1 DEF Shrinks, Discipline, OneTask
<1>2. CASE Starts
  BY <1>2 DEF Starts
<1> QED
  BY <1>1, <1>2, StepTasks

-----------------------------------------------------------------------------
(* Where the contents of a seat come from. *)

\* A request that asks for a seat, or holds one, did so before or has just
\* got that far.
LEMMA AsksFrom ==
    ASSUME request \in [Request -> RequestRecord], Next,
           NEW q \in Request, request'[q].stage \in {"authorizing", "armed"}
    PROVE  \/ request'[q] = request[q]
           \/ \E r \in Room, s \in Session : JoinRoom(q, r, s)
           \/ RoomCreated(q)
           \/ ReserveSeat(q)
<1>1. ASSUME NEW p \in Request, RequestStep(p), p # q
      PROVE  request'[q] = request[q]
  BY <1>1 DEF RequestStep, CreateRoom, CreateFailed, RoomCreated, JoinRoom, AuthFailed,
              ReserveSeat, ReserveSeatThrows, ReservationTimeout
<1>2. CASE \/ \E r \in Room, s \in Session : CreateRoom(r, s, q)
           \/ CreateFailed(q) \/ AuthFailed(q) \/ ReserveSeatThrows(q) \/ ReservationTimeout(q)
  <2>1. CASE CreateFailed(q) \/ AuthFailed(q) \/ ReserveSeatThrows(q) \/ ReservationTimeout(q)
    <3>1. PICK x \in {"refused", "expired"} : request' = [request EXCEPT ![q].stage = x]
      BY <2>1 DEF CreateFailed, AuthFailed, ReserveSeatThrows, ReservationTimeout
    <3> QED
      BY <3>1 DEF RequestRecord
  <2>2. ASSUME NEW r \in Room, NEW s \in Session, CreateRoom(r, s, q)
        PROVE  request'[q].stage = "creating"
    BY <2>2 DEF CreateRoom
  <2> QED
    BY <1>2, <2>1, <2>2
<1>3. ASSUME NEW r \in Room, RoomStep(r)
      PROVE  request' = request
  BY <1>3 DEF RoomStep, UpdateRoom, LeaveRoom, CloseRoom, SetLocked, RoomClosed, RoomDeleted
<1>4. ASSUME NEW c \in Conn, ConnectStep(c)
      PROVE  request'[q] = request[q]
  <2>1. CASE ConnectSeated(c)
    <3>1. PICK p : request' = [request EXCEPT ![p].stage = "redeemed"]
      BY <2>1 DEF ConnectSeated
    <3> QED
      BY <3>1 DEF RequestRecord
  <2>2. CASE request' = request
    BY <2>2
  <2> QED
    BY <1>4, <2>1, <2>2 DEF ConnectStep, Verified, Connect, VerifyFailed, ConnectRefused,
              ConnectReturning, ConnectionTimeout, Joined, JoinFailed, JoinDone, Reconnected
<1>5. ASSUME NEW c \in Conn, Disconnect(c) \/ LeaveDone(c) \/ WaitPoll(c)
      PROVE  request' = request
  BY <1>5 DEF Disconnect, DisconnectNoRoom, DisconnectNoId, DisconnectNoClient, DisconnectClient,
              LeaveDone, WaitPoll, WaitRejected, WaitResolved, WaitTick
<1> QED
  BY <1>1, <1>2, <1>3, <1>4, <1>5 DEF Next, RequestStep

\* The request is for this seat.
Asks(q, r, s) == request[q].room = r /\ request[q].session = s

\* What changes the entry of room.clients.
ClientsMove(r, s) ==
    \/ \E q \in Request : Asks(q, r, s) /\ (ReserveSeat(q) \/ ReservationTimeout(q))
    \/ LeaveRoom(s, r)
    \/ \E t \in Session : CloseRoom(t, r)
    \/ \E c \in Conn : At(c, r, s) /\ (JoinDone(c) \/ DisconnectNoClient(c) \/ LeaveDone(c))

LEMMA ClientsFrom ==
    ASSUME IInv, Discipline, Next, NEW r \in Room, NEW s \in Session,
           clients'[r][s] # clients[r][s]
    PROVE  ClientsMove(r, s)
<1>1. clients \in [Room -> [Session -> Conn \cup {Null, None}]]
  BY DEF IInv, VariablesTyped
<1>2. ASSUME NEW x, NEW t, NEW v, clients' = [clients EXCEPT ![x][t] = v]
      PROVE  x = r /\ t = s
  BY <1>1, <1>2
<1>3. ASSUME NEW q \in Request, RequestStep(q)
      PROVE  Asks(q, r, s) /\ (ReserveSeat(q) \/ ReservationTimeout(q))
  <2>1. CASE ReserveSeat(q)
    BY <1>2, <2>1 DEF ReserveSeat, Asks
  <2>2. CASE ReservationTimeout(q)
    BY <1>2, <2>2 DEF ReservationTimeout, RemoveRoomClient, Asks
  <2>3. CASE clients' = clients
    BY <2>3
  <2> QED
    BY <1>3, <2>1, <2>2, <2>3 DEF RequestStep, CreateRoom, CreateFailed, RoomCreated, JoinRoom,
                                  AuthFailed, ReserveSeatThrows
<1>4. ASSUME NEW x \in Room, RoomStep(x)
      PROVE  LeaveRoom(s, r) \/ \E t \in Session : CloseRoom(t, r)
  <2>1. ASSUME NEW t \in Session, LeaveRoom(t, x)
        PROVE  LeaveRoom(s, r)
    <3>1. x = r /\ t = s
      BY <1>2, <2>1 DEF LeaveRoom, RemoveRoomClient
    <3> QED
      BY <2>1, <3>1
  <2>2. ASSUME NEW t \in Session, CloseRoom(t, x)
        PROVE  CloseRoom(t, r)
    <3>1. x = r
      BY <1>1, <2>2 DEF CloseRoom
    <3> QED
      BY <2>2, <3>1
  <2>3. CASE clients' = clients
    BY <2>3
  <2> QED
    BY <1>4, <2>1, <2>2, <2>3 DEF RoomStep, UpdateRoom, SetLocked, RoomClosed, RoomDeleted
<1>5. ASSUME NEW c \in Conn,
             \/ \E t \in Session, x \in Room : Connect(c, t, x)
             \/ ConnectionTimeout(c) \/ HandlerStep(c) \/ CloseStep(c)
      PROVE  At(c, r, s) /\ (JoinDone(c) \/ DisconnectNoClient(c) \/ LeaveDone(c))
  <2>1. CASE JoinDone(c)
    BY <1>2, <2>1 DEF JoinDone, SetRoomClient, At
  <2>2. CASE DisconnectNoClient(c)
    BY <1>2, <2>2 DEF DisconnectNoClient, RemoveRoomClient, At
  <2>3. CASE LeaveDone(c)
    <3>1. \/ clients' = clients
          \/ clients' = [clients EXCEPT ![conn[c].room][conn[c].session] = None]
      BY <2>3 DEF LeaveDone, RemoveRoomClient
    <3>2. clients' # clients
      OBVIOUS
    <3>3. clients' = [clients EXCEPT ![conn[c].room][conn[c].session] = None]
      BY <3>1, <3>2
    <3>4. conn[c].room = r /\ conn[c].session = s
      BY <1>2, <3>3
    <3> QED
      BY <2>3, <3>4 DEF At
  <2>4. clients' # clients
    OBVIOUS
  <2>5. ~ConnectionTimeout(c) /\ ~(\E t \in Session, x \in Room : Connect(c, t, x))
    BY <2>4 DEF Connect, ConnectionTimeout
  <2>6. ASSUME HandlerStep(c)
        PROVE  JoinDone(c) \/ LeaveDone(c)
    BY <2>4, <2>6 DEF HandlerStep, VerifyFailed, ConnectRefused, ConnectSeated, Joined, JoinFailed
  <2>7. ASSUME CloseStep(c)
        PROVE  DisconnectNoClient(c)
    BY <2>4, <2>7 DEF CloseStep, DisconnectNoRoom, DisconnectNoId, DisconnectClient
  <2> QED
    BY <1>5, <2>1, <2>2, <2>3, <2>5, <2>6, <2>7
<1> QED
  BY <1>3, <1>4, <1>5, StepCases DEF ClientsMove

\* What changes who receives the patches of a session.
TrackingMove(r, s) ==
    \/ LeaveRoom(s, r)
    \/ \E t \in Session : CloseRoom(t, r)
    \/ \E c \in Conn : /\ At(c, r, s)
                       /\ \/ JoinDone(c) \/ DisconnectNoClient(c)
                          \/ \E b \in BOOLEAN : DisconnectClient(c, b)

LEMMA TrackingFrom ==
    ASSUME IInv, Discipline, Next, NEW r \in Room, NEW s \in Session,
           tracking'[r][s] # tracking[r][s]
    PROVE  TrackingMove(r, s)
<1>1. tracking \in [Room -> [Session -> Conn \cup {None}]]
  BY DEF IInv, VariablesTyped
<1>2. ASSUME NEW x, NEW t, NEW v, tracking' = [tracking EXCEPT ![x][t] = v]
      PROVE  x = r /\ t = s
  BY <1>1, <1>2
<1>3. ASSUME NEW q \in Request, RequestStep(q)
      PROVE  FALSE
  BY <1>3 DEF RequestStep, CreateRoom, CreateFailed, RoomCreated, JoinRoom, AuthFailed,
              ReserveSeat, ReserveSeatThrows, ReservationTimeout
<1>4. ASSUME NEW x \in Room, RoomStep(x)
      PROVE  LeaveRoom(s, r) \/ \E t \in Session : CloseRoom(t, r)
  <2>1. ASSUME NEW t \in Session, LeaveRoom(t, x)
        PROVE  LeaveRoom(s, r)
    <3>1. x = r /\ t = s
      BY <1>2, <2>1 DEF LeaveRoom, StopTracking
    <3> QED
      BY <2>1, <3>1
  <2>2. ASSUME NEW t \in Session, CloseRoom(t, x)
        PROVE  CloseRoom(t, r)
    <3>1. x = r
      BY <1>1, <2>2 DEF CloseRoom
    <3> QED
      BY <2>2, <3>1
  <2>3. CASE tracking' = tracking
    BY <2>3
  <2> QED
    BY <1>4, <2>1, <2>2, <2>3 DEF RoomStep, UpdateRoom, SetLocked, RoomClosed, RoomDeleted
<1>5. ASSUME NEW c \in Conn,
             \/ \E t \in Session, x \in Room : Connect(c, t, x)
             \/ ConnectionTimeout(c) \/ HandlerStep(c) \/ CloseStep(c)
      PROVE  /\ At(c, r, s)
             /\ \/ JoinDone(c) \/ DisconnectNoClient(c)
                \/ \E b \in BOOLEAN : DisconnectClient(c, b)
  <2>1. CASE JoinDone(c)
    <3>1. PICK v : tracking' = [tracking EXCEPT ![conn[c].room][conn[c].session] = v]
      <4>1. tracking' = [tracking EXCEPT ![conn[c].room][conn[c].session] =
                           IF tracking[conn[c].room][conn[c].session] = None THEN c
                           ELSE tracking[conn[c].room][conn[c].session]]
        BY <2>1 DEF JoinDone, SetRoomClient
      <4> QED
        BY <4>1
    <3> QED
      BY <1>2, <2>1, <3>1 DEF At
  <2>2. CASE DisconnectNoClient(c)
    BY <1>2, <2>2 DEF DisconnectNoClient, StopTracking, At
  <2>3. CASE \E b \in BOOLEAN : DisconnectClient(c, b)
    <3>1. tracking' = [tracking EXCEPT ![conn[c].room][conn[c].session] = None]
      BY <2>3 DEF DisconnectClient, StopTracking
    <3> QED
      BY <1>2, <2>3, <3>1 DEF At
  <2>4. tracking' # tracking
    OBVIOUS
  <2>5. ~ConnectionTimeout(c) /\ ~(\E t \in Session, x \in Room : Connect(c, t, x))
    BY <2>4 DEF Connect, ConnectionTimeout
  <2>6. ASSUME HandlerStep(c)
        PROVE  JoinDone(c)
    BY <2>4, <2>6 DEF HandlerStep, VerifyFailed, ConnectRefused, ConnectSeated, Joined, JoinFailed,
                      LeaveDone
  <2>7. ASSUME CloseStep(c)
        PROVE  DisconnectNoClient(c) \/ \E b \in BOOLEAN : DisconnectClient(c, b)
    BY <2>4, <2>7 DEF CloseStep, DisconnectNoRoom, DisconnectNoId
  <2> QED
    BY <1>5, <2>1, <2>2, <2>3, <2>5, <2>6, <2>7
<1> QED
  BY <1>3, <1>4, <1>5, StepCases DEF TrackingMove

\* What changes the entry of reservedSeats.
ReservedMove(r, s) ==
    \/ \E q \in Request : Asks(q, r, s) /\ (ReserveSeat(q) \/ ReservationTimeout(q))
    \/ \E c \in Conn : At(c, r, s) /\ ConnectSeated(c)

LEMMA ReservedFrom ==
    ASSUME IInv, Discipline, Next, NEW r \in Room, NEW s \in Session,
           reserved'[r][s] # reserved[r][s]
    PROVE  ReservedMove(r, s)
<1>1. reserved \in [Room -> [Session -> Request \cup {None}]]
  BY DEF IInv, VariablesTyped
<1>2. ASSUME NEW x, NEW t, NEW v, reserved' = [reserved EXCEPT ![x][t] = v]
      PROVE  x = r /\ t = s
  BY <1>1, <1>2
<1>3. ASSUME NEW q \in Request, RequestStep(q)
      PROVE  Asks(q, r, s) /\ (ReserveSeat(q) \/ ReservationTimeout(q))
  <2>1. CASE ReserveSeat(q)
    BY <1>2, <2>1 DEF ReserveSeat, Asks
  <2>2. CASE ReservationTimeout(q)
    BY <1>2, <2>2 DEF ReservationTimeout, DropReservation, Asks
  <2>3. CASE reserved' = reserved
    BY <2>3
  <2> QED
    BY <1>3, <2>1, <2>2, <2>3 DEF RequestStep, CreateRoom, CreateFailed, RoomCreated, JoinRoom,
                                  AuthFailed, ReserveSeatThrows
<1>4. ASSUME NEW x \in Room, RoomStep(x)
      PROVE  FALSE
  BY <1>4 DEF RoomStep, UpdateRoom, LeaveRoom, CloseRoom, SetLocked, RoomClosed, RoomDeleted
<1>5. ASSUME NEW c \in Conn,
             \/ \E t \in Session, x \in Room : Connect(c, t, x)
             \/ ConnectionTimeout(c) \/ HandlerStep(c) \/ CloseStep(c)
      PROVE  At(c, r, s) /\ ConnectSeated(c)
  <2>1. CASE ConnectSeated(c)
    <3>1. reserved' = [reserved EXCEPT ![conn[c].room][conn[c].session] = None]
      BY <2>1 DEF ConnectSeated, DropReservation
    <3> QED
      BY <1>2, <2>1, <3>1 DEF At
  <2>2. reserved' # reserved
    OBVIOUS
  <2>3. ~ConnectionTimeout(c) /\ ~(\E t \in Session, x \in Room : Connect(c, t, x))
    BY <2>2 DEF Connect, ConnectionTimeout
  <2>4. ASSUME HandlerStep(c)
        PROVE  ConnectSeated(c)
    BY <2>2, <2>4 DEF HandlerStep, VerifyFailed, ConnectRefused, Joined, JoinFailed, JoinDone,
                      LeaveDone
  <2>5. ~CloseStep(c)
    BY <2>2 DEF CloseStep, DisconnectNoRoom, DisconnectNoId, DisconnectNoClient, DisconnectClient
  <2> QED
    BY <1>5, <2>1, <2>3, <2>4, <2>5
<1> QED
  BY <1>3, <1>4, <1>5, StepCases DEF ReservedMove

-----------------------------------------------------------------------------
(* Rooms. *)

\* A room in the rooms map was there before, or its creation is done.
LEMMA RegisteredOrCreated ==
    ASSUME VariablesTyped, Placed, Creating, Next,
           NEW r \in Room, room'[r].stage = "registered"
    PROVE  \/ r \in rooms
           \/ Early(r) /\ \E q \in Request : RoomCreated(q) /\ request[q].room = r
<1>1. ListingMoves(r)
  BY StepListing
<1>2. CASE SameStage(r)
  BY <1>2 DEF SameStage, rooms
<1>3. CASE Creates(r)
  <2>1. PICK q \in Request : RoomCreated(q) /\ request[q].room = r
    BY <1>3 DEF Creates
  <2>2. Early(r)
    BY <2>1 DEF RoomCreated, Creating, Early
  <2> QED
    BY <2>1, <2>2
<1>4. CASE Deletes(r)
  BY <1>4 DEF Deletes
<1> QED
  BY <1>1, <1>2, <1>3, <1>4 DEF ListingMoves, Settles, Reserves, Updates, Seats, Unlists

\* A room that has been in the rooms map never gets back to its creation.
LEMMA EarlyFrom ==
    ASSUME VariablesTyped, Placed, Creating, Next, NEW r \in Room, Early(r)'
    PROVE  Early(r)
<1>1. ListingMoves(r)
  BY StepListing
<1>2. room'[r].stage \in {"none", "creating", "failed"}
  BY DEF Early
<1>3. CASE SameStage(r)
  BY <1>2, <1>3 DEF SameStage, Early
<1>4. CASE Creates(r)
  <2>1. ASSUME NEW q \in Request, CreateFailed(q), request[q].room = r
        PROVE  Early(r)
    BY <2>1 DEF CreateFailed, Creating, Early
  <2> QED
    BY <1>2, <1>4, <2>1 DEF Creates, Early
<1>5. CASE Deletes(r)
  BY <1>2, <1>5 DEF Deletes
<1> QED
  BY <1>1, <1>3, <1>4, <1>5 DEF ListingMoves, Settles, Reserves, Updates, Seats, Unlists

\* Requests are for rooms that have been created.
LEMMA RequestedStep ==
    ASSUME IInv, Listing, Requested, Next
    PROVE  Requested'
<1>1. VariablesTyped /\ Placed /\ Creating
  BY DEF IInv, Listing
<1> SUFFICES ASSUME NEW q \in Request, request'[q].stage \in {"authorizing", "armed"},
                    room'[request'[q].room].stage \in {"none", "creating", "failed"}
             PROVE  FALSE
  BY DEF Requested, Early
<1>2. ASSUME NEW r \in Room, request'[q].room = r, ~Early(r)
      PROVE  FALSE
  BY <1>1, <1>2, EarlyFrom DEF Early
<1>3. request \in [Request -> RequestRecord] /\ request[q] \in RequestRecord
  BY <1>1 DEF VariablesTyped
<1>4. CASE request'[q] = request[q]
  <2>1. request[q].room \in Room /\ ~Early(request[q].room)
    BY <1>1, <1>4 DEF Placed, Requested
  <2> QED
    BY <1>2, <1>4, <2>1
<1>5. ASSUME NEW r \in Room, NEW s \in Session, JoinRoom(q, r, s)
      PROVE  FALSE
  <2>1. request'[q].room = r
    BY <1>3, <1>5 DEF JoinRoom
  <2>2. ~Early(r)
    BY <1>5 DEF JoinRoom, rooms, Early
  <2> QED
    BY <1>2, <2>1, <2>2
<1>6. CASE RoomCreated(q)
  <2>1. PICK r \in Room : r = request[q].room
    BY <1>1, <1>6 DEF RoomCreated, Placed
  <2>2. request'[q].room = r
    BY <1>3, <1>6, <2>1 DEF RoomCreated, RequestRecord
  <2>3. room'[r].stage = "registered"
    BY <1>1, <1>6, <2>1 DEF RoomCreated, VariablesTyped, RoomRecord
  <2> QED
    BY <2>2, <2>3
<1>7. CASE ReserveSeat(q)
  <2>1. PICK r \in Room : r = request[q].room
    BY <1>1, <1>7 DEF ReserveSeat, Placed
  <2>2. request'[q].room = r
    BY <1>3, <1>7, <2>1 DEF ReserveSeat, RequestRecord
  <2>3. ~Early(r)
    BY <1>7, <2>1 DEF ReserveSeat, SeatFree, rooms, Early
  <2> QED
    BY <1>2, <2>2, <2>3
<1> QED
  BY <1>3, <1>4, <1>5, <1>6, <1>7, AsksFrom

\* Nobody receives patches of a room that is being created.
LEMMA EarlyUntrackedStep ==
    ASSUME IInv, Listing, Discipline, Next
    PROVE  EarlyUntracked'
<1>1. VariablesTyped /\ Placed /\ Creating
  BY DEF IInv, Listing
<1> SUFFICES ASSUME NEW r \in Room, NEW s \in Session, Early(r)'
             PROVE  tracking'[r][s] = None
  BY DEF EarlyUntracked
<1>2. Early(r)
  BY <1>1, EarlyFrom
<1>3. ~Announced(r) /\ r \notin rooms
  BY <1>2 DEF Listing, EarlyEmpty, Early, rooms
<1>4. tracking[r][s] = None
  BY <1>2 DEF Discipline, EarlyUntracked
<1>5. ~TrackingMove(r, s)
  <2>1. ASSUME NEW c \in Conn, At(c, r, s), conn[c].stage # "idle"
        PROVE  FALSE
    BY <1>3, <2>1 DEF At, Listing, SocketsAnnounced
  <2>2. ~(\E c \in Conn : At(c, r, s) /\ JoinDone(c))
    BY <2>1 DEF JoinDone
  <2>3. ~(\E c \in Conn : At(c, r, s) /\ DisconnectNoClient(c))
    BY <1>3 DEF DisconnectNoClient, At
  <2>4. ~(\E c \in Conn : At(c, r, s) /\ \E b \in BOOLEAN : DisconnectClient(c, b))
    BY <1>3 DEF DisconnectClient, At
  <2> QED
    BY <1>3, <2>2, <2>3, <2>4 DEF TrackingMove, LeaveRoom, CloseRoom
<1> QED
  BY <1>4, <1>5, TrackingFrom

\* Only handlers that work on a room fill one that is empty.
LEMMA FilledFrom ==
    ASSUME IInv, Discipline, Next, NEW r \in Room, NEW s \in Session,
           clients[r][s] = None, clients'[r][s] # None
    PROVE  \/ \E q \in Request : Working(q) /\ request[q].room = r /\ ReserveSeat(q)
           \/ \E c \in Conn : Busy(c) /\ conn[c].room = r /\ JoinDone(c)
<1>1. clients \in [Room -> [Session -> Conn \cup {Null, None}]]
  BY DEF IInv, VariablesTyped
<1>2. ClientsMove(r, s)
  BY ClientsFrom
<1>3. ASSUME NEW q \in Request, Asks(q, r, s), ReserveSeat(q)
      PROVE  Working(q) /\ request[q].room = r
  BY <1>3 DEF ReserveSeat, Working, Asks
<1>4. ASSUME NEW c \in Conn, At(c, r, s), JoinDone(c)
      PROVE  Busy(c) /\ conn[c].room = r
  BY <1>4 DEF JoinDone, Busy, At
<1>5. ASSUME NEW x, NEW t, clients' = [clients EXCEPT ![x][t] = None]
      PROVE  FALSE
  BY <1>1, <1>5
<1>6. ASSUME NEW q \in Request, ReservationTimeout(q)
      PROVE  FALSE
  BY <1>5, <1>6 DEF ReservationTimeout, RemoveRoomClient
<1>7. ~LeaveRoom(s, r)
  BY <1>5 DEF LeaveRoom, RemoveRoomClient
<1>8. ASSUME NEW t \in Session, CloseRoom(t, r)
      PROVE  FALSE
  BY <1>1, <1>8 DEF CloseRoom
<1>9. ASSUME NEW c \in Conn, DisconnectNoClient(c) \/ LeaveDone(c)
      PROVE  FALSE
  <2>1. clients' # clients
    OBVIOUS
  <2>2. clients' = [clients EXCEPT ![conn[c].room][conn[c].session] = None]
    BY <1>9, <2>1 DEF DisconnectNoClient, LeaveDone, RemoveRoomClient
  <2> QED
    BY <1>5, <2>2
<1> QED
  BY <1>2, <1>3, <1>4, <1>6, <1>7, <1>8, <1>9 DEF ClientsMove

\* A room that is done for stays so until it is out of the rooms map.
LEMMA DoomStays ==
    ASSUME Disciplined, IInv, Listing, Discipline, Next,
           NEW r \in rooms, room'[r].stage = "registered", Doomed(r)
    PROVE  Doomed(r)'
<1>1. VariablesTyped /\ Placed /\ Creating /\ EarlyEmpty /\ RemovalPending /\ r \in Room
  BY DEF IInv, Listing, rooms
<1>2. /\ Keys(r) = {} /\ Announced(r) /\ closing[r] + deleting[r] > 0
      /\ \A q \in Request : Working(q) => request[q].room # r
      /\ \A c \in Conn : Busy(c) => conn[c].room # r
  BY DEF Doomed
<1>3. KeysAfter(r) = {}
  <2>1. ASSUME NEW s \in Session, clients'[r][s] # None
        PROVE  FALSE
    <3>1. clients[r][s] = None
      BY <1>2 DEF Keys
    <3> QED
      BY <1>1, <1>2, <2>1, <3>1, FilledFrom
  <2> QED
    BY <2>1 DEF KeysAfter
<1>4. cache'[r].state # "never"
  BY <1>1, <1>2, AnnouncedStays
<1>5. closing'[r] + deleting'[r] > 0
  <2>1. closing[r] \in Nat /\ deleting[r] \in Nat /\ cache[r].state \in {"never", "listed", "removed"}
    BY <1>1 DEF VariablesTyped, CacheRecord
  <2>2. Settles(r) \/ Reserves(r) \/ Updates(r) \/ Seats(r) \/ Unlists(r)
    BY <1>1, <1>4, RegisteredFrom
  <2>3. CASE Settles(r)
    BY <1>3, <2>1, <2>3 DEF Settles
  <2>4. CASE Updates(r) \/ Seats(r)
    BY <1>2, <2>4 DEF Updates, Seats, Lists, SameCache
  <2>5. CASE Unlists(r)
    <3>1. closing'[r] \in Nat
      BY <1>1, InvStep DEF IInv, VariablesTyped
    <3>2. CASE deleting'[r] = deleting[r] + 1
      BY <2>1, <3>1, <3>2
    <3>3. CASE cache[r].state # "listed" /\ deleting'[r] = deleting[r]
      <4>1. cache[r].state = "removed"
        BY <1>2, <2>1, <3>3 DEF Announced
      <4>2. deleting[r] > 0
        BY <1>1, <4>1 DEF RemovalPending
      <4> QED
        BY <2>1, <3>1, <3>3, <4>2
    <3> QED
      BY <2>5, <3>2, <3>3 DEF Unlists
  <2> QED
    BY <1>3, <2>2, <2>3, <2>4, <2>5 DEF Reserves
<1>6. ~NextEvent
  BY <1>1, EventAlone
<1>7. Shrinks
  BY <1>6, StepTasks DEF Starts
<1>8. \A q \in Request : WorkingAfter(q) => request'[q].room # r
  BY <1>2, <1>7 DEF Shrinks
<1>9. \A c \in Conn : BusyAfter(c) => conn'[c].room # r
  BY <1>2, <1>7 DEF Shrinks
<1> QED
  BY <1>3, <1>4, <1>5, <1>8, <1>9 DEF Doomed, Keys, KeysAfter, Announced, Working, WorkingAfter,
                                      Busy, BusyAfter

-----------------------------------------------------------------------------
(* A seat that a step does not work on. *)

Right == Disciplined /\ IInv /\ Listing /\ Discipline

\* The client of a seat is a socket of that seat, and so is whoever receives
\* its patches.
LEMMA CellFacts ==
    ASSUME Right, NEW r \in rooms, NEW s \in Session
    PROVE  /\ r \in Room
           /\ SeatOf(r, s)
           /\ \A c \in Conn : clients[r][s] = c => At(c, r, s) /\ conn[c].stage = "established"
           /\ \A c \in Conn : tracking[r][s] = c => clients[r][s] = c /\ Delivers(c)
           /\ tracking[r][s] \in Conn \cup {None}
           /\ clients[r][s] \in Conn \cup {Null, None}
           /\ reserved[r][s] \in Request \cup {None}
<1>1. r \in Room
  BY DEF rooms
<1>2. SeatOf(r, s)
  BY DEF Right, Discipline, SeatsTrue
<1>3. \A c \in Conn : clients[r][s] = c => At(c, r, s) /\ conn[c].stage = "established"
  BY <1>1 DEF Right, IInv, SeatAdmitted, At
<1>4. \A c \in Conn : tracking[r][s] = c => clients[r][s] = c /\ Delivers(c)
  BY <1>2 DEF SeatOf, SocketOf
<1>5. /\ tracking[r][s] \in Conn \cup {None}
      /\ clients[r][s] \in Conn \cup {Null, None}
      /\ reserved[r][s] \in Request \cup {None}
  BY <1>1 DEF Right, IInv, VariablesTyped
<1> QED
  BY <1>1, <1>2, <1>3, <1>4, <1>5

\* A handler works on the room.
LEMMA NotDoomed ==
    ASSUME NEW r, Doomed(r)
    PROVE  /\ Keys(r) = {}
           /\ \A q \in Request : Working(q) => request[q].room # r
           /\ \A c \in Conn : Busy(c) => conn[c].room # r
BY DEF Doomed

\* A calm socket keeps its part in a seat whose client stays.
LEMMA SocketStays ==
    ASSUME Right, Next, NEW r \in rooms, room'[r].stage = "registered",
           NEW s \in Session, NEW c \in Conn, Calm(c),
           clients'[r][s] = clients[r][s], tracking'[r][s] = tracking[r][s]
    PROVE  SocketOf(r, s, c)'
<1>1. /\ conn'[c].room = conn[c].room /\ conn'[c].session = conn[c].session
      /\ conn'[c].stage = conn[c].stage /\ conn'[c].leave = conn[c].leave
      /\ Delivers(c)' = Delivers(c)
  BY CalmKeeps DEF Right, IInv, VariablesTyped
<1>2. Doomed(r) => Doomed(r)'
  BY DoomStays DEF Right
<1>3. SocketOf(r, s, c)
  BY CellFacts DEF SeatOf
<1>4. At(c, r, s)' = At(c, r, s)
  BY <1>1 DEF At
<1> QED
  BY ONLY <1>1, <1>2, <1>3, <1>4, clients'[r][s] = clients[r][s],
          tracking'[r][s] = tracking[r][s] DEF SocketOf

\* A socket of another seat has no part in this one.
LEMMA SocketElsewhere ==
    ASSUME NEW r, NEW s, NEW c, ~At(c, r, s)', clients'[r][s] # c, tracking'[r][s] # c
    PROVE  SocketOf(r, s, c)'
BY DEF SocketOf

\* The request does not come to ask for the seat.
Tame(q, r, s) ==
    \/ request'[q] = request[q]
    \/ request'[q].stage \notin {"authorizing", "armed"}
    \/ request'[q].room # r
    \/ request'[q].session # s

\* Sockets come no further than requests for the seat allow.
Unmoved(r, s) ==
    \A c \in Conn : At(c, r, s)' /\ Delivers(c)' =>
        /\ At(c, r, s) /\ Delivers(c)
        /\ conn'[c].stage \in {conn[c].stage, "rejected"}

LEMMA RequestStays ==
    ASSUME Right, Next, NEW r \in rooms, room'[r].stage = "registered",
           NEW s \in Session, NEW q \in Request, Tame(q, r, s), Unmoved(r, s),
           clients'[r][s] = clients[r][s], reserved'[r][s] = reserved[r][s]
    PROVE  RequestOf(r, s, q)'
<1>1. RequestOf(r, s, q)
  BY CellFacts DEF SeatOf
<1>2. Doomed(r) => Doomed(r)'
  BY DoomStays DEF Right
<1> SUFFICES ASSUME request'[q].room = r, request'[q].session = s,
                    request'[q].stage \in {"authorizing", "armed"}
             PROVE  /\ request'[q].stage = "authorizing" =>
                         \A c \in Conn : At(c, r, s)' => ~Delivers(c)'
                    /\ request'[q].stage = "armed" =>
                         /\ (clients'[r][s] = Null /\ reserved'[r][s] = q) \/ Doomed(r)'
                         /\ \A c \in Conn : At(c, r, s)' /\ Delivers(c)' =>
                              conn'[c].stage \in {"verifying", "rejected"}
  BY DEF RequestOf
<1>3. request'[q] = request[q]
  BY DEF Tame
<1>4. request[q].room = r /\ request[q].session = s
  BY <1>3
<1>5. CASE request'[q].stage = "authorizing"
  <2>1. \A c \in Conn : At(c, r, s) => ~Delivers(c)
    BY <1>1, <1>3, <1>4, <1>5 DEF RequestOf
  <2> QED
    BY <1>5, <2>1 DEF Unmoved
<1>6. CASE request'[q].stage = "armed"
  <2>1. /\ (clients[r][s] = Null /\ reserved[r][s] = q) \/ Doomed(r)
        /\ \A c \in Conn : At(c, r, s) /\ Delivers(c) => conn[c].stage \in {"verifying", "rejected"}
    BY <1>1, <1>3, <1>4, <1>6 DEF RequestOf
  <2>2. (clients'[r][s] = Null /\ reserved'[r][s] = q) \/ Doomed(r)'
    BY <1>2, <2>1
  <2>3. \A c \in Conn : At(c, r, s)' /\ Delivers(c)' => conn'[c].stage \in {"verifying", "rejected"}
    BY <2>1 DEF Unmoved
  <2> QED
    BY <1>6, <2>2, <2>3
<1> QED
  BY <1>5, <1>6

\* The connection is calm, or not of this seat.
Steady(c, r, s) ==
    \/ Calm(c)
    \/ ~At(c, r, s)' /\ clients[r][s] # c /\ tracking[r][s] # c

LEMMA SeatQuiet ==
    ASSUME Right, Next, NEW r \in rooms, room'[r].stage = "registered", NEW s \in Session,
           clients'[r][s] = clients[r][s], tracking'[r][s] = tracking[r][s],
           reserved'[r][s] = reserved[r][s],
           \A c \in Conn : Steady(c, r, s), \A q \in Request : Tame(q, r, s)
    PROVE  SeatOf(r, s)'
<1>1. ASSUME NEW c \in Conn
      PROVE  SocketOf(r, s, c)'
  BY SocketStays, SocketElsewhere DEF Steady
<1>2. ASSUME NEW c \in Conn, Calm(c), At(c, r, s)', Delivers(c)'
      PROVE  At(c, r, s) /\ Delivers(c) /\ conn'[c].stage = conn[c].stage
  BY <1>2, CalmKeeps DEF Right, IInv, VariablesTyped, At
<1>3. Unmoved(r, s)
  BY <1>2 DEF Unmoved, Steady
<1>4. ASSUME NEW q \in Request
      PROVE  RequestOf(r, s, q)'
  BY <1>3, RequestStays
<1> QED
  BY <1>1, <1>4 DEF SeatOf

-----------------------------------------------------------------------------
(* The seat a step works on. *)

\* A join request gets as far as onAuth: the session has no socket there.
LEMMA JoinRoomSeat ==
    ASSUME Right, Next, NEW r \in rooms, room'[r].stage = "registered", NEW s \in Session,
           NEW q \in Request, JoinRoom(q, r, s)
    PROVE  SeatOf(r, s)'
<1>1. /\ clients' = clients /\ tracking' = tracking /\ reserved' = reserved /\ conn' = conn
      /\ request' = [request EXCEPT ![q] = [stage |-> "authorizing", room |-> r, session |-> s]]
  BY DEF JoinRoom
<1>2. \A c \in Conn : At(c, r, s) => ~Delivers(c)
  <2>1. \A c \in Conn : At(c, r, s) => conn[c].socket = "closed"
    BY DEF JoinRoom, MayUse, Right, Disciplined, At
  <2> QED
    BY <2>1 DEF Delivers
<1>3. ASSUME NEW c \in Conn
      PROVE  SocketOf(r, s, c)' /\ At(c, r, s)' = At(c, r, s) /\ Delivers(c)' = Delivers(c)
  BY <1>1, SocketStays DEF Calm, At, Delivers
<1>4. Unmoved(r, s)
  BY <1>1, <1>3 DEF Unmoved
<1>5. ASSUME NEW p \in Request, p # q
      PROVE  RequestOf(r, s, p)'
  <2>1. Tame(p, r, s)
    BY <1>1, <1>5 DEF Tame
  <2> QED
    BY <1>1, <1>4, <2>1, RequestStays
<1>6. RequestOf(r, s, q)'
  <2>1. request'[q].stage = "authorizing"
    BY <1>1 DEF Right, IInv, VariablesTyped
  <2> QED
    BY <1>2, <1>3, <2>1 DEF RequestOf
<1> QED
  BY <1>3, <1>5, <1>6 DEF SeatOf

\* The seat is reserved.
LEMMA ReserveSeatSeat ==
    ASSUME Right, Next, NEW r \in rooms, room'[r].stage = "registered", NEW s \in Session,
           NEW q \in Request, Asks(q, r, s), ReserveSeat(q)
    PROVE  SeatOf(r, s)'
<1>1. /\ clients' = [clients EXCEPT ![r][s] = Null]
      /\ reserved' = [reserved EXCEPT ![r][s] = q]
      /\ request' = [request EXCEPT ![q].stage = "armed"]
      /\ tracking' = tracking /\ conn' = conn
      /\ clients[r][s] = None /\ request[q].stage = "authorizing"
  BY DEF ReserveSeat, Asks, SeatFree
<1>2. r \in Room /\ SeatOf(r, s)
  BY CellFacts
<1>3. clients'[r][s] = Null /\ reserved'[r][s] = q /\ tracking'[r][s] = tracking[r][s]
  BY <1>1, <1>2 DEF Right, IInv, VariablesTyped
<1>4. Working(q) /\ ~Doomed(r)
  BY <1>1, NotDoomed DEF Working, Asks
<1>5. \A c \in Conn : At(c, r, s) => ~Delivers(c) /\ conn[c].leave # "leaving"
  BY <1>1, <1>2, NamesDiffer DEF SeatOf, RequestOf, SocketOf, Asks
<1>6. \A c \in Conn : At(c, r, s)' = At(c, r, s) /\ Delivers(c)' = Delivers(c)
  BY <1>1 DEF At, Delivers
<1>7. ASSUME NEW c \in Conn
      PROVE  SocketOf(r, s, c)'
  <2>1. clients'[r][s] # c /\ tracking'[r][s] # c
    BY <1>1, <1>2, <1>3, CellFacts, NamesDiffer
  <2>2. At(c, r, s)' => conn'[c].leave # "leaving" /\ ~Delivers(c)'
    BY <1>1, <1>5, <1>6
  <2> QED
    BY <2>1, <2>2 DEF SocketOf
<1>8. ASSUME NEW p \in Request, p # q, request'[p].room = r, request'[p].session = s
      PROVE  request'[p].stage \notin {"authorizing", "armed"}
  <2>1. request'[p] = request[p]
    BY <1>1, <1>8
  <2>2. request[p].stage # "authorizing"
    BY <1>4, <1>8 DEF Right, Discipline, OneTask, Working
  <2>3. request[p].stage # "armed"
    BY <1>1, <1>2, <1>4, <1>8, <2>1, NamesDiffer DEF SeatOf, RequestOf
  <2> QED
    BY <2>1, <2>2, <2>3
<1>9. RequestOf(r, s, q)'
  <2>1. request'[q].stage = "armed"
    BY <1>1 DEF Right, IInv, VariablesTyped, RequestRecord
  <2>2. \A c \in Conn : At(c, r, s)' => ~Delivers(c)'
    BY <1>5, <1>6
  <2> QED
    BY <1>3, <2>1, <2>2 DEF RequestOf
<1>10. ASSUME NEW p \in Request
       PROVE  RequestOf(r, s, p)'
  BY <1>8, <1>9 DEF RequestOf
<1> QED
  BY <1>7, <1>10 DEF SeatOf

\* The reservation of the seat expires: it was still reserved.
LEMMA TimeoutSeat ==
    ASSUME Right, Next, NEW r \in rooms, room'[r].stage = "registered", NEW s \in Session,
           NEW q \in Request, Asks(q, r, s), ReservationTimeout(q)
    PROVE  SeatOf(r, s)'
<1>1. /\ clients' = [clients EXCEPT ![r][s] = None]
      /\ request' = [request EXCEPT ![q].stage = "expired"]
      /\ tracking' = tracking /\ conn' = conn
      /\ request[q].stage = "armed" /\ NextEvent
  BY DEF ReservationTimeout, RemoveRoomClient, Asks, TimerArmed
<1>2. r \in Room /\ SeatOf(r, s)
  BY CellFacts
<1>3. ~Doomed(r) /\ (\A p \in Request : ~Working(p)) /\ (\A c \in Conn : ~Busy(c))
  BY <1>1, <1>2, EventAlone DEF Right, IInv
<1>4. /\ clients[r][s] = Null /\ reserved[r][s] = q
      /\ \A c \in Conn : At(c, r, s) /\ Delivers(c) => conn[c].stage \in {"verifying", "rejected"}
  BY <1>1, <1>2, <1>3 DEF SeatOf, RequestOf, Asks
<1>5. clients'[r][s] = None /\ tracking'[r][s] = tracking[r][s]
  BY <1>1, <1>2 DEF Right, IInv, VariablesTyped
<1>6. ASSUME NEW c \in Conn
      PROVE  SocketOf(r, s, c)'
  <2>1. clients'[r][s] # c /\ tracking'[r][s] # c
    BY <1>2, <1>4, <1>5, CellFacts, NamesDiffer
  <2>2. At(c, r, s)' = At(c, r, s) /\ Delivers(c)' = Delivers(c) /\ conn'[c] = conn[c]
    BY <1>1 DEF At, Delivers
  <2>3. conn[c].leave # "leaving"
    BY <1>3 DEF Busy
  <2> QED
    BY <1>4, <2>1, <2>2, <2>3 DEF SocketOf
<1>7. ASSUME NEW p \in Request, request'[p].room = r, request'[p].session = s
      PROVE  request'[p].stage \notin {"authorizing", "armed"}
  <2>1. CASE p = q
    BY <1>1, <2>1 DEF Right, IInv, VariablesTyped, RequestRecord
  <2>2. CASE p # q
    <3>1. request'[p] = request[p]
      BY <1>1, <2>2
    <3>2. request[p].stage # "authorizing"
      BY <1>3 DEF Working
    <3>3. request[p].stage # "armed"
      BY <1>2, <1>3, <1>4, <1>7, <2>2, <3>1 DEF SeatOf, RequestOf
    <3> QED
      BY <3>1, <3>2, <3>3
  <2> QED
    BY <2>1, <2>2
<1> QED
  BY <1>6, <1>7 DEF SeatOf, RequestOf

\* The client leaves.
LEMMA LeaveRoomSeat ==
    ASSUME Right, Next, NEW r \in rooms, room'[r].stage = "registered", NEW s \in Session,
           LeaveRoom(s, r)
    PROVE  SeatOf(r, s)'
<1>1. /\ clients' = [clients EXCEPT ![r][s] = None]
      /\ tracking' = [tracking EXCEPT ![r][s] = None]
      /\ request' = request /\ conn' = conn
      /\ clients[r][s] \in Conn /\ NextEvent
  BY DEF LeaveRoom, RemoveRoomClient, StopTracking
<1>2. r \in Room /\ SeatOf(r, s)
  BY CellFacts
<1>3. ~Doomed(r) /\ (\A p \in Request : ~Working(p)) /\ (\A c \in Conn : ~Busy(c))
  BY <1>1, <1>2, EventAlone DEF Right, IInv
<1>4. clients'[r][s] = None /\ tracking'[r][s] = None
  BY <1>1, <1>2 DEF Right, IInv, VariablesTyped
<1>5. clients[r][s] # Null
  BY <1>1, NamesDiffer
<1>6. ASSUME NEW c \in Conn
      PROVE  SocketOf(r, s, c)'
  <2>1. clients'[r][s] # c /\ tracking'[r][s] # c
    BY <1>4, NamesDiffer
  <2>2. At(c, r, s)' = At(c, r, s) /\ Delivers(c)' = Delivers(c) /\ conn'[c] = conn[c]
    BY <1>1 DEF At, Delivers
  <2>3. conn[c].leave # "leaving"
    BY <1>3 DEF Busy
  <2>4. At(c, r, s) /\ Delivers(c) => conn[c].stage \notin {"awaitJoined", "joining"}
    BY <1>2, <1>3, <1>5 DEF SeatOf, SocketOf
  <2> QED
    BY <2>1, <2>2, <2>3, <2>4 DEF SocketOf
<1>7. ASSUME NEW p \in Request, request'[p].room = r, request'[p].session = s
      PROVE  request'[p].stage \notin {"authorizing", "armed"}
  <2>1. request[p].stage # "authorizing"
    BY <1>3 DEF Working
  <2>2. request[p].stage # "armed"
    BY <1>1, <1>2, <1>3, <1>5, <1>7 DEF SeatOf, RequestOf
  <2> QED
    BY <1>1, <2>1, <2>2
<1> QED
  BY <1>6, <1>7 DEF SeatOf, RequestOf

\* The host closes the room: it is done for.
LEMMA CloseRoomSeat ==
    ASSUME Right, Next, NEW r \in rooms, room'[r].stage = "registered", NEW s \in Session,
           NEW t \in Session, CloseRoom(t, r)
    PROVE  SeatOf(r, s)'
<1>1. /\ clients' = [clients EXCEPT ![r] = [u \in Session |-> None]]
      /\ tracking' = [tracking EXCEPT ![r] =
                        [u \in Session |-> IF clients[r][u] \in Conn THEN None ELSE @[u]]]
      /\ closing' = [closing EXCEPT ![r] = @ + 1]
      /\ request' = request /\ cache' = cache /\ deleting' = deleting
      /\ NextEvent /\ Announced(r)
  BY DEF CloseRoom
<1>2. r \in Room /\ SeatOf(r, s)
  BY CellFacts
<1>3. /\ \A p \in Request : ~Working(p)
      /\ \A c \in Conn : ~Busy(c)
      /\ closing[r] + deleting[r] = 0
  BY <1>1, <1>2, EventAlone DEF Right, IInv
<1>4. \A u \in Session : clients'[r][u] = None
  BY <1>1, <1>2 DEF Right, IInv, VariablesTyped
<1>5. tracking'[r][s] = None
  <2>1. tracking'[r][s] = IF clients[r][s] \in Conn THEN None ELSE tracking[r][s]
    BY <1>1, <1>2 DEF Right, IInv, VariablesTyped
  <2> QED
    BY <1>2, <2>1, CellFacts
<1>6. ASSUME NEW c \in Conn
      PROVE  /\ At(c, r, s)' = At(c, r, s) /\ Delivers(c)' = Delivers(c)
             /\ conn'[c].stage = conn[c].stage /\ conn'[c].leave = conn[c].leave
  <2>1. Calm(c)
    BY <1>2, CalmSteps DEF RoomStep, Right, IInv, VariablesTyped
  <2> QED
    BY <2>1, CalmKeeps DEF Right, IInv, VariablesTyped, At
<1>7. Doomed(r)'
  <2>1. closing[r] \in Nat /\ deleting[r] \in Nat
    BY <1>2 DEF Right, IInv, VariablesTyped
  <2>2. closing'[r] + deleting'[r] > 0
    BY <1>1, <1>2, <1>3, <2>1 DEF Right, IInv, VariablesTyped
  <2>3. \A p \in Request : ~Working(p)'
    BY <1>1, <1>3 DEF Working
  <2>4. \A c \in Conn : ~Busy(c)'
    BY <1>3, <1>6 DEF Busy
  <2> QED
    BY <1>1, <1>4, <2>2, <2>3, <2>4 DEF Doomed, Keys, Announced
<1>8. ASSUME NEW c \in Conn
      PROVE  SocketOf(r, s, c)'
  <2>1. clients'[r][s] # c /\ tracking'[r][s] # c
    BY <1>4, <1>5, NamesDiffer
  <2>2. conn'[c].leave # "leaving"
    BY <1>3, <1>6 DEF Busy
  <2> QED
    BY <1>7, <2>1, <2>2 DEF SocketOf
<1>9. ASSUME NEW p \in Request
      PROVE  RequestOf(r, s, p)'
  <2>1. request[p].stage # "authorizing"
    BY <1>3 DEF Working
  <2>2. RequestOf(r, s, p)
    BY <1>2 DEF SeatOf
  <2> QED
    BY <1>1, <1>6, <1>7, <2>1, <2>2 DEF RequestOf
<1> QED
  BY <1>8, <1>9 DEF SeatOf

\* Nobody disturbs the other sockets of the seat.
LEMMA OthersStay ==
    ASSUME Right, Next, NEW r \in rooms, room'[r].stage = "registered", NEW s \in Session,
           NEW c \in Conn, Alone(c),
           clients'[r][s] = clients[r][s], tracking'[r][s] = tracking[r][s]
    PROVE  \A d \in Conn : d # c => SocketOf(r, s, d)'
BY SocketStays DEF Alone, Calm

\* A websocket opens.
LEMMA ConnectSeat ==
    ASSUME Right, Next, NEW r \in rooms, room'[r].stage = "registered", NEW s \in Session,
           NEW c \in Conn, Connect(c, s, r)
    PROVE  SeatOf(r, s)'
<1>1. /\ clients' = clients /\ tracking' = tracking /\ reserved' = reserved
      /\ request' = request /\ NextEvent
  BY DEF Connect
<1>2. r \in Room /\ SeatOf(r, s) /\ conn \in [Conn -> ConnRecord]
  BY CellFacts DEF Right, IInv, VariablesTyped
<1>3. ~Doomed(r) /\ (\A p \in Request : ~Working(p))
  BY <1>1, <1>2, EventAlone DEF Right, IInv
<1>4. /\ Alone(c) /\ conn[c].stage = "idle" /\ conn'[c].stage = "verifying"
      /\ conn'[c].leave = conn[c].leave
  BY <1>2, ConnectFate
<1>5. SocketOf(r, s, c)'
  <2>1. clients[r][s] # c /\ tracking[r][s] # c
    BY <1>4, CellFacts
  <2>2. conn[c].leave = "no"
    BY <1>4 DEF Right, Discipline, Sockets, SocketRight
  <2> QED
    BY <1>1, <1>4, <2>1, <2>2 DEF SocketOf
<1>6. \A d \in Conn : d # c => SocketOf(r, s, d)'
  BY <1>1, <1>4, OthersStay
<1>7. ASSUME NEW p \in Request
      PROVE  RequestOf(r, s, p)'
  <2>1. request[p].stage # "authorizing"
    BY <1>3 DEF Working
  <2>2. ASSUME Asks(p, r, s), request[p].stage = "armed"
        PROVE  /\ clients[r][s] = Null /\ reserved[r][s] = p
               /\ \A d \in Conn : At(d, r, s) /\ Delivers(d) => conn[d].stage \in {"verifying", "rejected"}
    BY <1>2, <1>3, <2>2 DEF SeatOf, RequestOf, Asks
  <2>3. ASSUME NEW d \in Conn, At(d, r, s)', Delivers(d)', Asks(p, r, s), request[p].stage = "armed"
        PROVE  conn'[d].stage \in {"verifying", "rejected"}
    <3>1. CASE d = c
      BY <1>4, <3>1
    <3>2. CASE d # c
      <4>1. conn'[d] = conn[d]
        BY <1>4, <3>2 DEF Alone
      <4>2. At(d, r, s) /\ Delivers(d)
        BY <2>3, <4>1 DEF At, Delivers
      <4> QED
        BY <2>2, <2>3, <4>1, <4>2
    <3> QED
      BY <3>1, <3>2
  <2> QED
    BY <1>1, <2>1, <2>2, <2>3 DEF RequestOf, Asks
<1> QED
  BY <1>5, <1>6, <1>7 DEF SeatOf

\* The server turns a websocket away: no seat was reserved for it.
LEMMA RefusedSeat ==
    ASSUME Right, Next, NEW r \in rooms, room'[r].stage = "registered", NEW s \in Session,
           NEW c \in Conn, At(c, r, s), VerifyFailed(c) \/ ConnectRefused(c)
    PROVE  SeatOf(r, s)'
<1>1. /\ clients' = clients /\ tracking' = tracking /\ reserved' = reserved
      /\ request' = request /\ conn[c].stage = "verifying"
  BY DEF VerifyFailed, ConnectRefused
<1>2. r \in Room /\ SeatOf(r, s) /\ conn \in [Conn -> ConnRecord]
  BY CellFacts DEF Right, IInv, VariablesTyped
<1>3. /\ Alone(c)
      /\ VerifyFailed(c) => conn'[c].stage = "rejected"
      /\ conn'[c].stage \in {"rejected", "refused"}
      /\ conn'[c].leave = conn[c].leave
  BY <1>2, HandlerFates DEF Becomes
<1>4. Busy(c) /\ ~Doomed(r)
  BY <1>1, NotDoomed DEF Busy, At
<1>5. Delivers(c) /\ conn[c].leave = "no"
  BY <1>1 DEF Right, Discipline, Sockets, SocketRight, Delivers
<1>6. SocketOf(r, s, c)'
  <2>1. clients[r][s] # c /\ tracking[r][s] # c
    BY <1>1, CellFacts
  <2> QED
    BY <1>1, <1>3, <1>5, <2>1 DEF SocketOf
<1>7. \A d \in Conn : d # c => SocketOf(r, s, d)'
  BY <1>1, <1>3, OthersStay
<1>8. ASSUME NEW p \in Request
      PROVE  RequestOf(r, s, p)'
  <2>1. CASE ~(Asks(p, r, s) /\ request[p].stage \in {"authorizing", "armed"})
    BY <1>1, <2>1 DEF RequestOf, Asks
  <2>2. CASE Asks(p, r, s) /\ request[p].stage = "authorizing"
    BY <1>4, <2>2 DEF Right, Discipline, OneTask, Working
  <2>3. CASE Asks(p, r, s) /\ request[p].stage = "armed"
    <3>1. clients[r][s] = Null /\ reserved[r][s] = p
      BY <1>2, <1>4, <2>3 DEF SeatOf, RequestOf, Asks
    <3>2. HasReservation(r, s)
      BY <3>1, NamesDiffer DEF HasReservation
    <3>3. VerifyFailed(c)
      BY <3>2 DEF ConnectRefused, At
    <3>4. Unmoved(r, s)
      <4>1. ASSUME NEW d \in Conn, d # c, At(d, r, s)', Delivers(d)'
            PROVE  At(d, r, s) /\ Delivers(d) /\ conn'[d].stage = conn[d].stage
        BY <1>3, <4>1 DEF Alone, At, Delivers
      <4> QED
        BY <1>3, <1>5, <3>3, <4>1 DEF Unmoved
    <3> QED
      BY <1>1, <3>4, RequestStays DEF Tame
  <2> QED
    BY <2>1, <2>2, <2>3
<1> QED
  BY <1>6, <1>7, <1>8 DEF SeatOf

\* A websocket redeems the reservation of the seat.
LEMMA ConnectSeatedSeat ==
    ASSUME Right, Next, NEW r \in rooms, room'[r].stage = "registered", NEW s \in Session,
           NEW c \in Conn, At(c, r, s), ConnectSeated(c)
    PROVE  SeatOf(r, s)'
<1>1. /\ clients' = clients /\ tracking' = tracking
      /\ request' = [request EXCEPT ![reserved[r][s]].stage = "redeemed"]
      /\ conn[c].stage = "verifying" /\ reserved[r][s] # None
  BY DEF ConnectSeated, At, HasReservation
<1>2. r \in Room /\ SeatOf(r, s) /\ conn \in [Conn -> ConnRecord]
  BY CellFacts DEF Right, IInv, VariablesTyped
<1>3. Alone(c) /\ conn'[c].stage = "awaitJoined" /\ conn'[c].leave = conn[c].leave
  BY <1>2, HandlerFates DEF Becomes
<1>4. Busy(c) /\ ~Doomed(r)
  BY <1>1, NotDoomed DEF Busy, At
<1>5. PICK q \in Request : q = reserved[r][s]
  BY <1>1, CellFacts
<1>6. request[q].stage = "armed" /\ Asks(q, r, s)
  BY <1>2, <1>5, <1>1, Backing DEF Right, IInv, Asks
<1>7. clients[r][s] = Null
  BY <1>2, <1>4, <1>6 DEF SeatOf, RequestOf, Asks
<1>8. SocketOf(r, s, c)'
  <2>1. clients[r][s] # c /\ tracking[r][s] # c
    BY <1>1, CellFacts
  <2>2. conn[c].leave = "no"
    BY <1>1 DEF Right, Discipline, Sockets, SocketRight
  <2> QED
    BY <1>1, <1>3, <1>7, <2>1, <2>2 DEF SocketOf
<1>9. \A d \in Conn : d # c => SocketOf(r, s, d)'
  BY <1>1, <1>3, OthersStay
<1>10. ASSUME NEW p \in Request, request'[p].room = r, request'[p].session = s
       PROVE  request'[p].stage \notin {"authorizing", "armed"}
  <2>1. CASE p = q
    BY <1>1, <1>5, <2>1 DEF Right, IInv, VariablesTyped, RequestRecord
  <2>2. CASE p # q
    <3>1. request'[p] = request[p]
      BY <1>1, <1>5, <2>2
    <3>2. request[p].stage # "authorizing"
      BY <1>4 DEF Right, Discipline, OneTask, Working
    <3>3. request[p].stage # "armed"
      BY <1>2, <1>4, <1>5, <1>10, <2>2, <3>1 DEF SeatOf, RequestOf
    <3> QED
      BY <3>1, <3>2, <3>3
  <2> QED
    BY <2>1, <2>2
<1> QED
  BY <1>8, <1>9, <1>10 DEF SeatOf, RequestOf

\* The client answers, and onJoin fails or not: the seat is still reserved.
LEMMA JoiningSeat ==
    ASSUME Right, Next, NEW r \in rooms, room'[r].stage = "registered", NEW s \in Session,
           NEW c \in Conn, At(c, r, s), Joined(c) \/ JoinFailed(c)
    PROVE  SeatOf(r, s)'
<1>1. /\ clients' = clients /\ tracking' = tracking /\ reserved' = reserved /\ request' = request
      /\ conn[c].stage \in {"awaitJoined", "joining"}
  BY DEF Joined, JoinFailed
<1>2. r \in Room /\ SeatOf(r, s) /\ conn \in [Conn -> ConnRecord]
  BY CellFacts DEF Right, IInv, VariablesTyped
<1>3. /\ Alone(c) /\ conn'[c].stage \in {"joining", "refused"}
      /\ conn'[c].leave = conn[c].leave
  BY <1>2, HandlerFates DEF Becomes
<1>4. Delivers(c) /\ conn[c].leave = "no"
  BY <1>1 DEF Joined, JoinFailed, Right, Discipline, Sockets, SocketRight, Delivers
<1>5. clients[r][s] = Null \/ Doomed(r)
  BY <1>1, <1>2, <1>4 DEF SeatOf, SocketOf
<1>6. Doomed(r) => Doomed(r)'
  BY DoomStays DEF Right
<1>7. SocketOf(r, s, c)'
  <2>1. clients[r][s] # c /\ tracking[r][s] # c
    BY <1>1, CellFacts
  <2> QED
    BY <1>1, <1>3, <1>4, <1>5, <1>6, <2>1 DEF SocketOf
<1>8. \A d \in Conn : d # c => SocketOf(r, s, d)'
  BY <1>1, <1>3, OthersStay
<1>9. ASSUME NEW p \in Request, request'[p].room = r, request'[p].session = s
      PROVE  request'[p].stage \notin {"authorizing", "armed"}
  <2>1. request[p].stage # "authorizing"
    BY <1>1, <1>2, <1>4, <1>9 DEF SeatOf, RequestOf
  <2>2. request[p].stage # "armed"
    BY <1>1, <1>2, <1>4, <1>9 DEF SeatOf, RequestOf
  <2> QED
    BY <1>1, <2>1, <2>2
<1> QED
  BY <1>7, <1>8, <1>9 DEF SeatOf, RequestOf

\* The socket that joins takes a seat that is still reserved.
LEMMA JoinTakesReserved ==
    ASSUME Right, NEW r \in rooms, NEW s \in Session, NEW c \in Conn, At(c, r, s), JoinDone(c)
    PROVE  /\ clients[r][s] = Null
           /\ Delivers(c) /\ conn[c].leave = "no"
<1>1. conn[c].stage = "joining"
  BY DEF JoinDone
<1>2. Busy(c) /\ ~Doomed(r)
  BY <1>1, NotDoomed DEF Busy, At
<1>3. Delivers(c) /\ conn[c].leave = "no"
  BY <1>1 DEF Right, Discipline, Sockets, SocketRight, Delivers
<1>4. SocketOf(r, s, c)
  BY CellFacts DEF SeatOf
<1> QED
  BY <1>1, <1>2, <1>3, <1>4 DEF SocketOf

LEMMA JoinDoneSeat ==
    ASSUME Right, Next, NEW r \in rooms, room'[r].stage = "registered", NEW s \in Session,
           NEW c \in Conn, At(c, r, s), JoinDone(c)
    PROVE  SeatOf(r, s)'
<1>1. r \in Room /\ SeatOf(r, s) /\ conn \in [Conn -> ConnRecord]
  BY CellFacts DEF Right, IInv, VariablesTyped
<1>2. clients[r][s] = Null /\ Delivers(c) /\ conn[c].leave = "no" /\ conn[c].stage = "joining"
  BY JoinTakesReserved DEF JoinDone
<1>3. tracking[r][s] = None
  BY <1>2, CellFacts, NamesDiffer
<1>4. clients'[r][s] = c /\ tracking'[r][s] = c /\ request' = request
  BY <1>1, <1>3 DEF JoinDone, SetRoomClient, At, Right, IInv, VariablesTyped
<1>5. /\ Alone(c) /\ conn'[c].stage = "established"
      /\ conn'[c].leave = conn[c].leave /\ conn'[c].socket = conn[c].socket
  BY <1>1, HandlerFates DEF Becomes
<1>6. SocketOf(r, s, c)'
  BY <1>2, <1>4, <1>5 DEF SocketOf, Delivers
<1>7. ASSUME NEW d \in Conn, d # c
      PROVE  SocketOf(r, s, d)'
  <2>1. clients'[r][s] # d /\ tracking'[r][s] # d
    BY <1>4, <1>7
  <2>2. conn'[d] = conn[d]
    BY <1>5, <1>7 DEF Alone
  <2>3. At(d, r, s) => ~Delivers(d)
    BY <1>2, <1>7 DEF Right, Discipline, OneSocket, At
  <2>4. At(d, r, s) => conn[d].leave # "leaving"
    BY <1>1, <1>2, NamesDiffer DEF SeatOf, SocketOf
  <2> QED
    BY <2>1, <2>2, <2>3, <2>4 DEF SocketOf, At, Delivers
<1>8. ASSUME NEW p \in Request, request'[p].room = r, request'[p].session = s
      PROVE  request'[p].stage \notin {"authorizing", "armed"}
  <2>1. request[p].stage # "authorizing"
    BY <1>1, <1>2, <1>4, <1>8 DEF SeatOf, RequestOf
  <2>2. request[p].stage # "armed"
    BY <1>1, <1>2, <1>4, <1>8 DEF SeatOf, RequestOf
  <2> QED
    BY <1>4, <2>1, <2>2
<1> QED
  BY <1>6, <1>7, <1>8 DEF SeatOf, RequestOf

\* The client for which onLeave was called is still the one of the seat.
LEMMA LeavingHoldsSeat ==
    ASSUME Right, NEW r \in rooms, NEW s \in Session, NEW c \in Conn, At(c, r, s), LeaveDone(c)
    PROVE  clients[r][s] = c /\ ~Delivers(c) /\ ~SeatRetaken(r, s)
<1>1. conn[c].leave = "leaving"
  BY DEF LeaveDone
<1>2. conn[c].socket = "closed" /\ conn[c].status = "disconnected"
  BY <1>1 DEF Right, Discipline, Sockets, SocketRight
<1>3. clients[r][s] = c
  BY <1>1, CellFacts DEF SeatOf, SocketOf
<1> QED
  BY <1>2, <1>3 DEF Delivers, SeatRetaken

\* onLeave is done: the seat is free.
LEMMA LeaveDoneSeat ==
    ASSUME Right, Next, NEW r \in rooms, room'[r].stage = "registered", NEW s \in Session,
           NEW c \in Conn, At(c, r, s), LeaveDone(c)
    PROVE  SeatOf(r, s)'
<1>1. r \in Room /\ SeatOf(r, s) /\ conn \in [Conn -> ConnRecord]
  BY CellFacts DEF Right, IInv, VariablesTyped
<1>2. clients[r][s] = c /\ ~Delivers(c) /\ ~SeatRetaken(r, s) /\ clients[r][s] # None
  BY LeavingHoldsSeat, NamesDiffer
<1>3. /\ clients' = [clients EXCEPT ![r][s] = None]
      /\ tracking' = tracking /\ request' = request
  BY <1>2 DEF LeaveDone, RemoveRoomClient, At
<1>4. tracking[r][s] = None
  BY <1>2, CellFacts
<1>5. clients'[r][s] = None /\ tracking'[r][s] = None
  BY <1>1, <1>3, <1>4 DEF Right, IInv, VariablesTyped
<1>6. Busy(c) /\ ~Doomed(r)
  BY NotDoomed DEF Busy, At, LeaveDone
<1>7. /\ Alone(c) /\ conn'[c].leave = "done" /\ conn'[c].socket = conn[c].socket
  BY <1>1, HandlerFates DEF Becomes
<1>8. ASSUME NEW d \in Conn
      PROVE  SocketOf(r, s, d)'
  <2>1. clients'[r][s] # d /\ tracking'[r][s] # d
    BY <1>5, NamesDiffer
  <2>2. CASE d = c
    <3>1. ~Delivers(c)'
      BY <1>2, <1>7 DEF Delivers
    <3> QED
      BY <1>7, <2>1, <2>2, <3>1 DEF SocketOf
  <2>3. CASE d # c
    <3>1. conn'[d] = conn[d]
      BY <1>7, <2>3 DEF Alone
    <3>2. conn[d].leave # "leaving"
      BY <1>6, <2>3 DEF Right, Discipline, OneTask, Busy
    <3>3. At(d, r, s) /\ Delivers(d) => conn[d].stage \notin {"awaitJoined", "joining"}
      BY <1>1, <1>2, <1>6, NamesDiffer DEF SeatOf, SocketOf
    <3> QED
      BY <2>1, <3>1, <3>2, <3>3 DEF SocketOf, At, Delivers
  <2> QED
    BY <2>2, <2>3
<1>9. ASSUME NEW p \in Request, request'[p].room = r, request'[p].session = s
      PROVE  request'[p].stage \notin {"authorizing", "armed"}
  <2>1. request[p].stage # "authorizing"
    BY <1>6 DEF Right, Discipline, OneTask, Working
  <2>2. request[p].stage # "armed"
    BY <1>1, <1>2, <1>3, <1>6, <1>9, NamesDiffer DEF SeatOf, RequestOf
  <2> QED
    BY <1>3, <2>1, <2>2
<1> QED
  BY <1>8, <1>9 DEF SeatOf, RequestOf

\* A websocket that was rejected closes.
LEMMA NoIdSeat ==
    ASSUME Right, Next, NEW r \in rooms, room'[r].stage = "registered", NEW s \in Session,
           NEW c \in Conn, At(c, r, s), DisconnectNoId(c)
    PROVE  SeatOf(r, s)'
<1>1. /\ clients' = clients /\ tracking' = tracking /\ reserved' = reserved /\ request' = request
      /\ conn[c].stage \in {"verifying", "rejected"} /\ Delivers(c)
  BY DEF DisconnectNoId, HasId
<1>2. r \in Room /\ SeatOf(r, s) /\ conn \in [Conn -> ConnRecord]
  BY CellFacts DEF Right, IInv, VariablesTyped
<1>3. /\ Alone(c) /\ conn'[c].socket = "closed" /\ conn'[c].leave = conn[c].leave
  BY <1>2, CloseFates DEF Becomes, Right
<1>4. ~Delivers(c)' /\ conn[c].leave = "no"
  BY <1>1, <1>3 DEF Right, Discipline, Sockets, SocketRight, Delivers
<1>5. SocketOf(r, s, c)'
  <2>1. clients[r][s] # c /\ tracking[r][s] # c
    BY <1>1, CellFacts
  <2> QED
    BY <1>1, <1>3, <1>4, <2>1 DEF SocketOf
<1>6. \A d \in Conn : d # c => SocketOf(r, s, d)'
  BY <1>1, <1>3, OthersStay
<1>7. Unmoved(r, s)
  <2>1. ASSUME NEW d \in Conn, d # c, At(d, r, s)', Delivers(d)'
        PROVE  At(d, r, s) /\ Delivers(d) /\ conn'[d].stage = conn[d].stage
    BY <1>3, <2>1 DEF Alone, At, Delivers
  <2> QED
    BY <1>4, <2>1 DEF Unmoved
<1>8. ASSUME NEW p \in Request
      PROVE  RequestOf(r, s, p)'
  BY <1>1, <1>7, RequestStays DEF Tame
<1> QED
  BY <1>5, <1>6, <1>8 DEF SeatOf

\* A websocket closes whose session has no client: it held the reservation.
LEMMA NoClientSeat ==
    ASSUME Right, Next, NEW r \in rooms, room'[r].stage = "registered", NEW s \in Session,
           NEW c \in Conn, At(c, r, s), DisconnectNoClient(c)
    PROVE  SeatOf(r, s)'
<1>1. /\ clients' = [clients EXCEPT ![r][s] = None]
      /\ tracking' = [tracking EXCEPT ![r][s] = None]
      /\ request' = request /\ NextEvent /\ Delivers(c) /\ clients[r][s] \notin Conn
      /\ conn[c].stage \notin {"verifying", "rejected"}
  BY DEF DisconnectNoClient, RemoveRoomClient, StopTracking, At, HasId
<1>2. r \in Room /\ SeatOf(r, s) /\ conn \in [Conn -> ConnRecord]
  BY CellFacts DEF Right, IInv, VariablesTyped
<1>3. ~Doomed(r) /\ (\A p \in Request : ~Working(p)) /\ (\A d \in Conn : ~Busy(d))
  BY <1>1, <1>2, EventAlone DEF Right, IInv
<1>4. clients'[r][s] = None /\ tracking'[r][s] = None
  BY <1>1, <1>2 DEF Right, IInv, VariablesTyped
<1>5. Alone(c) /\ conn'[c].socket = "closed" /\ conn'[c].leave = conn[c].leave
  BY <1>2, CloseFates DEF Becomes, Right
<1>6. ASSUME NEW d \in Conn
      PROVE  SocketOf(r, s, d)'
  <2>1. clients'[r][s] # d /\ tracking'[r][s] # d
    BY <1>4, NamesDiffer
  <2>2. conn'[d].leave # "leaving"
    BY <1>3, <1>5 DEF Busy, Alone
  <2>3. At(d, r, s)' => ~Delivers(d)'
    <3>1. CASE d = c
      BY <1>5, <3>1 DEF Delivers
    <3>2. CASE d # c
      <4>1. conn'[d] = conn[d]
        BY <1>5, <3>2 DEF Alone
      <4>2. At(d, r, s) => ~Delivers(d)
        BY <1>1, <3>2 DEF Right, Discipline, OneSocket, At
      <4> QED
        BY <4>1, <4>2 DEF At, Delivers
    <3> QED
      BY <3>1, <3>2
  <2> QED
    BY <2>1, <2>2, <2>3 DEF SocketOf
<1>7. ASSUME NEW p \in Request, request'[p].room = r, request'[p].session = s
      PROVE  request'[p].stage \notin {"authorizing", "armed"}
  <2>1. request[p].stage # "authorizing"
    BY <1>3 DEF Working
  <2>2. request[p].stage # "armed"
    BY <1>1, <1>2, <1>7 DEF SeatOf, RequestOf
  <2> QED
    BY <1>1, <2>1, <2>2
<1> QED
  BY <1>6, <1>7 DEF SeatOf, RequestOf

\* The client's websocket closes: onLeave is called for it.
LEMMA ClientCloseSeat ==
    ASSUME Right, Next, NEW r \in rooms, room'[r].stage = "registered", NEW s \in Session,
           NEW c \in Conn, At(c, r, s), NEW b \in BOOLEAN, DisconnectClient(c, b)
    PROVE  SeatOf(r, s)'
<1>1. /\ clients' = clients /\ tracking' = [tracking EXCEPT ![r][s] = None]
      /\ request' = request /\ NextEvent /\ Delivers(c) /\ clients[r][s] \in Conn
  BY DEF DisconnectClient, StopTracking, At
<1>2. r \in Room /\ SeatOf(r, s) /\ conn \in [Conn -> ConnRecord]
  BY CellFacts DEF Right, IInv, VariablesTyped
<1>3. ~Doomed(r) /\ (\A p \in Request : ~Working(p)) /\ (\A d \in Conn : ~Busy(d))
  BY <1>1, <1>2, EventAlone DEF Right, IInv
<1>4. tracking'[r][s] = None
  BY <1>1, <1>2 DEF Right, IInv, VariablesTyped
<1>5. Alone(c) /\ conn'[c].socket = "closed" /\ conn'[c].leave = "leaving"
  BY <1>2, CloseFates DEF Becomes, Right
<1>6. clients[r][s] = c
  <2>1. PICK d \in Conn : d = clients[r][s]
    BY <1>1
  <2>2. At(d, r, s) /\ Delivers(d)
    BY <1>2, <1>3, <2>1, CellFacts DEF SeatOf, SocketOf, Busy
  <2> QED
    BY <1>1, <2>1, <2>2 DEF Right, Discipline, OneSocket, At
<1>7. clients[r][s] # Null
  BY <1>1, NamesDiffer
<1>8. ASSUME NEW d \in Conn
      PROVE  SocketOf(r, s, d)'
  <2>1. tracking'[r][s] # d
    BY <1>4, NamesDiffer
  <2>2. CASE d = c
    <3>1. ~Delivers(c)'
      BY <1>5 DEF Delivers
    <3> QED
      BY <1>1, <1>5, <1>6, <2>1, <2>2, <3>1 DEF SocketOf
  <2>3. CASE d # c
    <3>1. conn'[d] = conn[d] /\ conn[d].leave # "leaving" /\ clients'[r][s] # d
      BY <1>1, <1>3, <1>5, <1>6, <2>3 DEF Alone, Busy
    <3>2. At(d, r, s) => ~Delivers(d)
      BY <1>1, <2>3 DEF Right, Discipline, OneSocket, At
    <3> QED
      BY <2>1, <3>1, <3>2 DEF SocketOf, At, Delivers
  <2> QED
    BY <2>2, <2>3
<1>9. ASSUME NEW p \in Request, request'[p].room = r, request'[p].session = s
      PROVE  request'[p].stage \notin {"authorizing", "armed"}
  <2>1. request[p].stage # "authorizing"
    BY <1>3 DEF Working
  <2>2. request[p].stage # "armed"
    BY <1>1, <1>2, <1>3, <1>7, <1>9 DEF SeatOf, RequestOf
  <2> QED
    BY <1>1, <2>1, <2>2
<1> QED
  BY <1>8, <1>9 DEF SeatOf, RequestOf

-----------------------------------------------------------------------------
(* Seats. *)

\* The step works on the seat.
WorksOn(r, s) ==
    \/ \E q \in Request : \/ JoinRoom(q, r, s)
                          \/ Asks(q, r, s) /\ (ReserveSeat(q) \/ ReservationTimeout(q))
    \/ LeaveRoom(s, r)
    \/ \E t \in Session : CloseRoom(t, r)
    \/ \E c \in Conn : \/ Connect(c, s, r)
                       \/ At(c, r, s) /\ (HandlerStep(c) \/ CloseStep(c))

LEMMA SeatWorked ==
    ASSUME Right, Next, NEW r \in rooms, room'[r].stage = "registered", NEW s \in Session,
           WorksOn(r, s)
    PROVE  SeatOf(r, s)'
<1>1. ASSUME NEW q \in Request,
             JoinRoom(q, r, s) \/ (Asks(q, r, s) /\ (ReserveSeat(q) \/ ReservationTimeout(q)))
      PROVE  SeatOf(r, s)'
  BY <1>1, JoinRoomSeat, ReserveSeatSeat, TimeoutSeat
<1>2. ASSUME LeaveRoom(s, r) \/ \E t \in Session : CloseRoom(t, r)
      PROVE  SeatOf(r, s)'
  BY <1>2, LeaveRoomSeat, CloseRoomSeat
<1>3. ASSUME NEW c \in Conn, Connect(c, s, r)
      PROVE  SeatOf(r, s)'
  BY <1>3, ConnectSeat
<1>4. ASSUME NEW c \in Conn, At(c, r, s), HandlerStep(c)
      PROVE  SeatOf(r, s)'
  BY <1>4, RefusedSeat, ConnectSeatedSeat, JoiningSeat, JoinDoneSeat, LeaveDoneSeat
     DEF HandlerStep
<1>5. ASSUME NEW c \in Conn, At(c, r, s), CloseStep(c)
      PROVE  SeatOf(r, s)'
  <2>1. ~DisconnectNoRoom(c)
    BY <1>5 DEF DisconnectNoRoom, At
  <2> QED
    BY <1>5, <2>1, NoIdSeat, NoClientSeat, ClientCloseSeat DEF CloseStep
<1> QED
  BY <1>1, <1>2, <1>3, <1>4, <1>5 DEF WorksOn

\* No request comes to ask for a seat that the step does not work on.
LEMMA RequestsTame ==
    ASSUME Right, Next, NEW r \in rooms, NEW s \in Session, ~WorksOn(r, s), NEW q \in Request
    PROVE  Tame(q, r, s)
<1>1. request \in [Request -> RequestRecord] /\ request[q] \in RequestRecord
  BY DEF Right, IInv, VariablesTyped
<1>2. ASSUME NEW x \in Room, NEW t \in Session, JoinRoom(q, x, t)
      PROVE  Tame(q, r, s)
  <2>1. request'[q].room = x /\ request'[q].session = t
    BY <1>1, <1>2 DEF JoinRoom
  <2>2. x # r \/ t # s
    BY <1>2 DEF WorksOn
  <2> QED
    BY <2>1, <2>2 DEF Tame
<1>3. ASSUME RoomCreated(q)
      PROVE  Tame(q, r, s)
  <2>1. request'[q].room = request[q].room
    BY <1>1, <1>3 DEF RoomCreated, RequestRecord
  <2>2. request[q].room # r
    BY <1>3 DEF RoomCreated, Right, Listing, Creating, rooms
  <2> QED
    BY <2>1, <2>2 DEF Tame
<1>4. ASSUME ReserveSeat(q)
      PROVE  Tame(q, r, s)
  <2>1. request'[q].room = request[q].room /\ request'[q].session = request[q].session
    BY <1>1, <1>4 DEF ReserveSeat, RequestRecord
  <2>2. ~Asks(q, r, s)
    BY <1>4 DEF WorksOn
  <2> QED
    BY <2>1, <2>2 DEF Tame, Asks
<1> QED
  BY <1>1, <1>2, <1>3, <1>4, AsksFrom DEF Tame

\* Nor does a socket come to it.
LEMMA SocketsSteady ==
    ASSUME Right, Next, NEW r \in rooms, NEW s \in Session, ~WorksOn(r, s), NEW d \in Conn
    PROVE  Steady(d, r, s)
<1>1. conn \in [Conn -> ConnRecord] /\ Disciplined /\ IInv /\ Discipline
  BY DEF Right, IInv, VariablesTyped
<1>2. CASE \/ \E q \in Request : RequestStep(q)
           \/ \E x \in Room : RoomStep(x)
           \/ \E c \in Conn : ConnectionTimeout(c)
  BY <1>1, <1>2, CalmSteps DEF Steady
<1>3. ASSUME NEW c \in Conn, Alone(c), c # d
      PROVE  Steady(d, r, s)
  BY <1>3 DEF Alone, Steady, Calm
<1>4. ASSUME ~At(d, r, s)', ~At(d, r, s) \/ conn[d].stage = "idle"
      PROVE  Steady(d, r, s)
  <2>1. clients[r][s] # d /\ tracking[r][s] # d
    BY <1>4, CellFacts
  <2> QED
    BY <1>4, <2>1 DEF Steady
<1>5. ASSUME NEW c \in Conn, NEW t \in Session, NEW x \in Room, Connect(c, t, x)
      PROVE  Steady(d, r, s)
  <2>1. Alone(c) /\ conn[c].stage = "idle" /\ conn'[c].room = x /\ conn'[c].session = t
    BY <1>1, <1>5, ConnectFate
  <2>2. x # r \/ t # s
    BY <1>5 DEF WorksOn
  <2>3. ~At(c, r, s)'
    BY <2>1, <2>2 DEF At
  <2> QED
    BY <1>3, <1>4, <2>1, <2>3
<1>6. ASSUME NEW c \in Conn, HandlerStep(c) \/ CloseStep(c)
      PROVE  Steady(d, r, s)
  <2>1. Alone(c) /\ conn'[c].room = conn[c].room /\ conn'[c].session = conn[c].session
    BY <1>1, <1>6, HandlerFates, CloseFates DEF HandlerStep, CloseStep, Becomes
  <2>2. ~At(c, r, s)
    BY <1>6 DEF WorksOn
  <2>3. ~At(c, r, s)'
    BY <2>1, <2>2 DEF At
  <2> QED
    BY <1>3, <1>4, <2>1, <2>2, <2>3
<1> QED
  BY <1>1, <1>2, <1>5, <1>6, StepCases

\* A seat that the step does not work on is as right as before.
LEMMA SeatLeftAlone ==
    ASSUME Right, Next, NEW r \in rooms, room'[r].stage = "registered", NEW s \in Session,
           ~WorksOn(r, s)
    PROVE  SeatOf(r, s)'
<1>1. r \in Room /\ IInv /\ Discipline
  BY CellFacts DEF Right
<1>2. clients'[r][s] = clients[r][s]
  BY <1>1, ClientsFrom DEF ClientsMove, WorksOn, HandlerStep, CloseStep
<1>3. tracking'[r][s] = tracking[r][s]
  BY <1>1, TrackingFrom DEF TrackingMove, WorksOn, HandlerStep, CloseStep
<1>4. reserved'[r][s] = reserved[r][s]
  BY <1>1, ReservedFrom DEF ReservedMove, WorksOn, HandlerStep, CloseStep
<1> QED
  BY <1>2, <1>3, <1>4, RequestsTame, SocketsSteady, SeatQuiet

\* The seats of a room that has just been created.
LEMMA CreatedSeat ==
    ASSUME Right, Next, NEW r \in Room, Early(r), NEW s \in Session,
           NEW q \in Request, RoomCreated(q), request[q].room = r
    PROVE  SeatOf(r, s)'
<1>1. /\ clients' = clients /\ tracking' = tracking /\ conn' = conn
      /\ request' = [request EXCEPT ![q].stage =
                       IF room[request[q].room].locked THEN "refused" ELSE "authorizing"]
  BY DEF RoomCreated
<1>2. clients[r][s] = None /\ ~Announced(r) /\ tracking[r][s] = None
  BY DEF Right, Listing, EarlyEmpty, Keys, Discipline, EarlyUntracked
<1>3. ASSUME NEW c \in Conn, At(c, r, s)
      PROVE  ~Delivers(c) /\ conn[c].leave # "leaving"
  <2>1. conn[c].stage = "idle"
    BY <1>2, <1>3 DEF Right, Listing, SocketsAnnounced, At
  <2>2. SocketRight(conn[c])
    BY DEF Right, Discipline, Sockets
  <2> QED
    BY <2>1, <2>2 DEF SocketRight, Delivers
<1>4. ASSUME NEW c \in Conn
      PROVE  SocketOf(r, s, c)'
  BY <1>1, <1>2, <1>3, NamesDiffer DEF SocketOf, At, Delivers
<1>5. ASSUME NEW p \in Request, request'[p].room = r
      PROVE  request'[p].stage # "armed"
  <2>1. CASE p = q
    BY <1>1, <2>1 DEF Right, IInv, VariablesTyped, RequestRecord
  <2>2. CASE p # q
    <3>1. request'[p] = request[p]
      BY <1>1, <2>2
    <3> QED
      BY <1>5, <3>1 DEF Right, Discipline, Requested
  <2> QED
    BY <2>1, <2>2
<1>6. \A c \in Conn : At(c, r, s)' => ~Delivers(c)'
  BY <1>1, <1>3 DEF At, Delivers
<1> QED
  BY <1>4, <1>5, <1>6 DEF SeatOf, RequestOf

\* Every step leaves the seats of the registered rooms right.
LEMMA SeatsStep ==
    ASSUME Right, Next
    PROVE  SeatsTrue'
<1> SUFFICES ASSUME NEW r \in Room, room'[r].stage = "registered", NEW s \in Session
             PROVE  SeatOf(r, s)'
  BY DEF SeatsTrue, rooms
<1>1. \/ r \in rooms
      \/ Early(r) /\ \E q \in Request : RoomCreated(q) /\ request[q].room = r
  BY RegisteredOrCreated DEF Right, IInv, Listing
<1> QED
  BY <1>1, CreatedSeat, SeatWorked, SeatLeftAlone

-----------------------------------------------------------------------------
(* The cache. *)

\* What locks and unlocks a room.
LEMMA LockFrom ==
    ASSUME VariablesTyped, Next, NEW r \in rooms, room'[r].locked # room[r].locked
    PROVE  \/ \E s, h \in Session, b \in BOOLEAN : UpdateRoom(s, r, b, h)
           \/ \E b \in BOOLEAN : SetLocked(r, b)
<1>1. r \in Room /\ room \in [Room -> RoomRecord] /\ room[r] \in RoomRecord
  BY DEF rooms, VariablesTyped
<1>2. ASSUME NEW q \in Request, RequestStep(q)
      PROVE  FALSE
  <2>1. ASSUME NEW x \in Room, NEW s \in Session, CreateRoom(x, s, q)
        PROVE  FALSE
    <3>1. x # r
      BY <2>1 DEF CreateRoom, rooms
    <3> QED
      BY <2>1, <3>1 DEF CreateRoom
  <2>2. ASSUME CreateFailed(q) \/ RoomCreated(q)
        PROVE  FALSE
    <3>1. PICK x, v : room' = [room EXCEPT ![x].stage = v]
      BY <2>2 DEF CreateFailed, RoomCreated
    <3> QED
      BY <1>1, <3>1 DEF RoomRecord
  <2>3. room' # room
    OBVIOUS
  <2> QED
    BY <1>2, <2>1, <2>2, <2>3 DEF RequestStep, JoinRoom, AuthFailed, ReserveSeat,
                                  ReserveSeatThrows, ReservationTimeout
<1>3. ASSUME NEW x \in Room, RoomStep(x)
      PROVE  \/ \E s, h \in Session, b \in BOOLEAN : UpdateRoom(s, r, b, h)
             \/ \E b \in BOOLEAN : SetLocked(r, b)
  <2>1. ASSUME NEW s \in Session, NEW h \in Session, NEW b \in BOOLEAN, UpdateRoom(s, x, b, h)
        PROVE  x = r
    BY <1>1, <2>1 DEF UpdateRoom
  <2>2. ASSUME NEW b \in BOOLEAN, SetLocked(x, b)
        PROVE  x = r
    BY <1>1, <2>2 DEF SetLocked
  <2>3. ASSUME NEW s \in Session, CloseRoom(s, x)
        PROVE  FALSE
    BY <1>1, <2>3 DEF CloseRoom, RoomRecord
  <2>4. ~RoomDeleted(x)
    BY <1>1 DEF RoomDeleted, ForgetRoom, RoomRecord
  <2>5. room' # room
    OBVIOUS
  <2> QED
    BY <1>3, <2>1, <2>2, <2>3, <2>4, <2>5 DEF RoomStep, LeaveRoom, RoomClosed
<1>4. ASSUME NEW c \in Conn, ConnectStep(c)
      PROVE  room' = room
  BY <1>4 DEF ConnectStep, Verified, Connect, VerifyFailed, ConnectRefused, ConnectReturning,
              ConnectSeated, ConnectionTimeout, Joined, JoinFailed, JoinDone, Reconnected
<1>5. ASSUME NEW c \in Conn, Disconnect(c) \/ LeaveDone(c) \/ WaitPoll(c)
      PROVE  room' = room
  BY <1>5 DEF Disconnect, DisconnectNoRoom, DisconnectNoId, DisconnectNoClient, DisconnectClient,
              LeaveDone, WaitPoll, WaitRejected, WaitResolved, WaitTick
<1> QED
  BY <1>2, <1>3, <1>4, <1>5 DEF Next

\* A step that does not list the room and does not empty a seat of it leaves
\* its keys alone: a socket takes a seat that was reserved.
LEMMA SeatsKeys ==
    ASSUME Right, Next, NEW r \in rooms, Seats(r), ~Relist(r)
    PROVE  KeysAfter(r) = Keys(r)
<1> SUFFICES ASSUME NEW s \in Session, clients[r][s] = None, clients'[r][s] # None
             PROVE  FALSE
  BY DEF Seats, Keys, KeysAfter
<1>1. IInv /\ Discipline /\ Placed /\ r \in Room
  BY DEF Right, IInv, rooms
<1>2. ASSUME NEW q \in Request, request[q].room = r, ReserveSeat(q)
      PROVE  FALSE
  BY <1>2 DEF ReserveSeat
<1>3. ASSUME NEW c \in Conn, conn[c].room = r, JoinDone(c)
      PROVE  FALSE
  <2>1. PICK t \in Session : At(c, r, t)
    BY <1>1, <1>3 DEF JoinDone, Placed, At
  <2>2. clients[r][t] = Null
    BY <1>3, <2>1, JoinTakesReserved
  <2>3. clients' = [clients EXCEPT ![r][t] = c]
    BY <1>3, <2>1 DEF JoinDone, SetRoomClient, At
  <2>4. t # s
    BY <2>2, NamesDiffer
  <2> QED
    BY <1>1, <2>3, <2>4 DEF IInv, VariablesTyped
<1> QED
  BY <1>1, <1>2, <1>3, FilledFrom

\* Whatever a step does to a room it leaves its entry true, or starts to
\* remove the room.
LEMMA CacheStep ==
    ASSUME Right, Next
    PROVE  CacheExact'
<1>1. VariablesTyped /\ Placed /\ Creating /\ EarlyEmpty
  BY DEF Right, IInv, Listing
<1>2. cache' \in [Room -> CacheRecord] /\ deleting' \in [Room -> Nat] /\ closing' \in [Room -> Nat]
  BY InvStep DEF Right, IInv, VariablesTyped
<1> SUFFICES ASSUME NEW r \in Room, room'[r].stage = "registered",
                    closing'[r] + deleting'[r] = 0, KeysAfter(r) # {}
             PROVE  cache'[r] = [state |-> "listed", clients |-> KeysAfter(r),
                                 locked |-> room'[r].locked]
  BY DEF CacheExact, rooms, Keys, KeysAfter
<1>3. closing'[r] = 0 /\ deleting'[r] = 0
  BY <1>2
<1>4. /\ r \in rooms
      /\ Settles(r) \/ Reserves(r) \/ Updates(r) \/ Seats(r) \/ Unlists(r)
  BY <1>1, RegisteredFrom
<1>5. CASE Relist(r)
  BY <1>1, <1>5 DEF Relist, VariablesTyped
<1>6. CASE Lists(r)
  <2>1. cache'[r] \in CacheRecord
    BY <1>2
  <2> QED
    BY ONLY <1>6, <2>1 DEF Lists, CacheRecord
<1>7. CASE Seats(r) /\ ~Relist(r)
  <2>1. KeysAfter(r) = Keys(r) /\ SameCache(r)
    BY <1>4, <1>7, SeatsKeys DEF Seats
  <2>2. closing[r] + deleting[r] = 0
    BY <1>3, <2>1 DEF SameCache
  <2>3. cache[r] = [state |-> "listed", clients |-> Keys(r), locked |-> room[r].locked]
    BY <1>4, <2>1, <2>2 DEF Right, Discipline, CacheExact
  <2>4. CASE room'[r].locked = room[r].locked
    BY <2>1, <2>3, <2>4 DEF SameCache
  <2>5. CASE room'[r].locked # room[r].locked
    <3>1. ASSUME NEW b \in BOOLEAN, SetLocked(r, b)
          PROVE  Relist(r)
      BY <3>1 DEF SetLocked, RemoveIfEmpty
    <3> QED
      BY <1>1, <1>4, <1>7, <2>5, <3>1, LockFrom DEF UpdateRoom
  <2> QED
    BY <2>4, <2>5
<1>8. ~Unlists(r)
  <2>1. ASSUME Unlists(r)
        PROVE  FALSE
    <3>1. deleting[r] \in Nat
      BY <1>1 DEF VariablesTyped
    <3>2. cache[r].state # "listed" /\ deleting[r] = 0
      BY <1>3, <2>1, <3>1 DEF Unlists
    <3>3. Keys(r) # {}
      BY <2>1 DEF Unlists
    <3> QED
      BY <1>4, <3>2, <3>3 DEF Right, Listing, OccupiedRoomListed
  <2> QED
    BY <2>1
<1> QED
  BY <1>4, <1>5, <1>6, <1>7, <1>8 DEF Settles, Reserves, Updates

-----------------------------------------------------------------------------
(* The theorems. *)

\* No room exists initially, and no socket is open.
LEMMA DisciplineInit == Init => Discipline
<1> SUFFICES ASSUME Init PROVE Discipline
  OBVIOUS
<1>1. OneTask
  BY DEF Init, OneTask, Working, Busy
<1>2. Sockets
  BY DEF Init, Sockets, SocketRight
<1>3. OneSocket
  BY DEF Init, OneSocket, Delivers
<1>4. Requested /\ EarlyUntracked
  BY DEF Init, Requested, EarlyUntracked
<1>5. rooms = {}
  BY DEF Init, rooms
<1>6. SeatsTrue /\ CacheExact
  BY <1>5 DEF SeatsTrue, CacheExact
<1> QED
  BY <1>1, <1>2, <1>3, <1>4, <1>6 DEF Discipline

\* Every step, and every stutter, keeps the discipline.
LEMMA DisciplineStep ==
    ASSUME Disciplined
    PROVE  IInv /\ Listing /\ Discipline /\ [Next]_vars => Discipline'
<1> SUFFICES ASSUME IInv, Listing, Discipline, [Next]_vars PROVE Discipline'
  OBVIOUS
<1>1. CASE Next
  <2>1. OneTask' /\ Sockets' /\ OneSocket'
    BY <1>1, OneTaskStep, SocketsStep, OneSocketStep
  <2>2. Requested' /\ EarlyUntracked'
    BY <1>1, RequestedStep, EarlyUntrackedStep DEF Discipline
  <2>3. SeatsTrue' /\ CacheExact'
    BY <1>1, SeatsStep, CacheStep DEF Right
  <2> QED
    BY <2>1, <2>2, <2>3 DEF Discipline
<1>2. CASE UNCHANGED vars
  <2> USE <1>2 DEF vars, Discipline
  <2>1. OneTask' /\ Sockets'
    BY DEF OneTask, Working, Busy, Sockets, SocketRight
  <2>2. OneSocket'
    BY DEF OneSocket, Delivers
  <2>3. Requested' /\ EarlyUntracked'
    BY DEF Requested, EarlyUntracked, Early
  <2>4. SeatsTrue'
    <3>1. ASSUME NEW r \in Room
          PROVE  Doomed(r)' = Doomed(r)
      BY DEF Doomed, Keys, Announced, Working, Busy
    <3>2. ASSUME NEW r \in rooms, NEW s \in Session, NEW c \in Conn
          PROVE  SocketOf(r, s, c)'
      <4>1. SocketOf(r, s, c) /\ r \in Room
        BY DEF SeatsTrue, SeatOf, rooms
      <4>2. /\ tracking' = tracking /\ clients' = clients /\ conn' = conn
            /\ At(c, r, s)' = At(c, r, s) /\ Delivers(c)' = Delivers(c)
        BY DEF At, Delivers
      <4> QED
        BY <3>1, <4>1, <4>2 DEF SocketOf
    <3>3. ASSUME NEW r \in rooms, NEW s \in Session, NEW q \in Request
          PROVE  RequestOf(r, s, q)'
      <4>1. RequestOf(r, s, q) /\ r \in Room
        BY DEF SeatsTrue, SeatOf, rooms
      <4>2. /\ request' = request /\ clients' = clients /\ conn' = conn /\ reserved' = reserved
            /\ \A c \in Conn : At(c, r, s)' = At(c, r, s) /\ Delivers(c)' = Delivers(c)
        BY DEF At, Delivers
      <4> QED
        BY <3>1, <4>1, <4>2 DEF RequestOf
    <3> QED
      BY <3>2, <3>3 DEF SeatsTrue, SeatOf, rooms
  <2>5. CacheExact'
    BY DEF CacheExact, Keys, rooms
  <2> QED
    BY <2>1, <2>2, <2>3, <2>4, <2>5
<1> QED
  BY <1>1, <1>2

\* One task at a time, one socket of a session in a room, and the seats true:
\* inductive when hooks do not suspend and onLeave does not wait.
THEOREM DisciplineKept ==
    ASSUME Disciplined
    PROVE  Spec => []Discipline
<1>1. IInv /\ Listing /\ Discipline /\ [Next]_vars => Discipline'
  BY DisciplineStep
<1> QED
  BY <1>1, DisciplineInit, Invariance, ListingInvariance, PTL DEF Spec

\* A member whose socket is gone is one for which onLeave is being called:
\* no close gets lost between the handlers of rooms.ts.
THEOREM NoGhosts ==
    ASSUME Disciplined
    PROVE  Spec => []NoGhostMembers
<1>1. IInv /\ Listing /\ Discipline => NoGhostMembers
  <2> SUFFICES ASSUME Right, NEW r \in rooms, NEW s \in Session, NEW c \in Conn, clients[r][s] = c
               PROVE  Delivers(c) \/ conn[c].leave = "leaving"
    BY DEF NoGhostMembers, Right
  <2> QED
    BY CellFacts DEF SeatOf, SocketOf
<1> QED
  BY <1>1, DisciplineKept, Invariance, ListingInvariance, PTL

\* The entry of a room in the cache is the room, its members and its lock,
\* unless removeRoom is under way.
THEOREM CacheIsExact ==
    ASSUME Disciplined
    PROVE  Spec => []CacheExact
<1>1. Discipline => CacheExact
  BY DEF Discipline
<1> QED
  BY <1>1, DisciplineKept, PTL

\* startTracking was called for every member with a socket, and nothing has
\* stopped it.
THEOREM MembersTracked ==
    ASSUME Disciplined
    PROVE  Spec => []EveryMemberTracked
<1>1. IInv /\ Listing /\ Discipline => EveryMemberTracked
  <2> SUFFICES ASSUME Right, NEW r \in rooms, NEW s \in Session, NEW c \in Conn, clients[r][s] = c,
                      Delivers(c)
               PROVE  tracking[r][s] = c
    BY DEF EveryMemberTracked, Right
  <2> QED
    BY CellFacts DEF SeatOf, SocketOf
<1> QED
  BY <1>1, DisciplineKept, Invariance, ListingInvariance, PTL

\* The patches of a session go to its member: stopTracking is never missed.
THEOREM TrackedAreMembers ==
    ASSUME Disciplined
    PROVE  Spec => []OnlyMembersTracked
<1>1. IInv /\ Listing /\ Discipline => OnlyMembersTracked
  <2> SUFFICES ASSUME Right, NEW r \in rooms, NEW s \in Session, tracking[r][s] # None
               PROVE  clients[r][s] = tracking[r][s]
    BY DEF OnlyMembersTracked, Right
  <2> QED
    BY CellFacts
<1> QED
  BY <1>1, DisciplineKept, Invariance, ListingInvariance, PTL

\* What takes a seat from a member whose socket is open.
LEMMA EvictedFrom ==
    ASSUME Right, Next, NEW r \in rooms, NEW s \in Session, NEW c \in Conn, clients[r][s] = c,
           clients'[r][s] # c, conn[c].socket = "open"
    PROVE  LeaveRoom(s, r) \/ room'[r].terminated
<1>1. r \in Room /\ IInv /\ Discipline /\ SeatOf(r, s) /\ clients[r][s] \notin {Null, None}
  BY CellFacts, NamesDiffer DEF Right
<1>2. ClientsMove(r, s)
  BY <1>1, ClientsFrom
<1>3. ASSUME NEW q \in Request, Asks(q, r, s), ReserveSeat(q)
      PROVE  FALSE
  BY <1>1, <1>3 DEF ReserveSeat, SeatFree, Asks
<1>4. ASSUME NEW q \in Request, Asks(q, r, s), ReservationTimeout(q)
      PROVE  FALSE
  <2>1. ~Doomed(r) /\ request[q].stage = "armed"
    BY <1>1, <1>4, EventAlone DEF ReservationTimeout, TimerArmed, Right, IInv
  <2> QED
    BY <1>1, <1>4, <2>1 DEF SeatOf, RequestOf, Asks
<1>5. ASSUME NEW t \in Session, CloseRoom(t, r)
      PROVE  room'[r].terminated
  BY <1>1, <1>5 DEF CloseRoom, IInv, VariablesTyped, RoomRecord
<1>6. ASSUME NEW d \in Conn, At(d, r, s), JoinDone(d)
      PROVE  FALSE
  BY <1>1, <1>6, JoinTakesReserved
<1>7. ASSUME NEW d \in Conn, At(d, r, s), DisconnectNoClient(d)
      PROVE  FALSE
  BY <1>7 DEF DisconnectNoClient, At
<1>8. ASSUME NEW d \in Conn, At(d, r, s), LeaveDone(d)
      PROVE  FALSE
  BY <1>8, LeavingHoldsSeat DEF Delivers
<1> QED
  BY <1>2, <1>3, <1>4, <1>5, <1>6, <1>7, <1>8 DEF ClientsMove

\* A member whose socket is open loses its seat by leaveRoom or closeRoom
\* only: no timer, no close and no other socket takes it.
THEOREM NobodyEvicted ==
    ASSUME Disciplined
    PROVE  Spec => NoEviction
<1> DEFINE Spared(r, s) == /\ clients[r][s] \in Conn
                           /\ clients'[r][s] # clients[r][s]
                           /\ conn[clients[r][s]].socket = "open"
                           => LeaveRoom(s, r) \/ room'[r].terminated
           AllSpared == \A r \in rooms, s \in Session : Spared(r, s)
<1>1. IInv /\ Listing /\ Discipline /\ [Next]_vars => [AllSpared]_vars
  <2> SUFFICES ASSUME Right, Next, NEW r \in rooms, NEW s \in Session, NEW c \in Conn,
                      clients[r][s] = c, clients'[r][s] # c, conn[c].socket = "open"
               PROVE  LeaveRoom(s, r) \/ room'[r].terminated
    BY DEF Right
  <2> QED
    BY EvictedFrom
<1> QED
  BY <1>1, DisciplineKept, Invariance, ListingInvariance, PTL DEF Spec, NoEviction
==============================================================================
