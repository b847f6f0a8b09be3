------------------------------- MODULE Relay -------------------------------
(***************************************************************************)
(* A RelayRoom with its seats, its players and the state it relays, up to  *)
(* the copy of that state each player holds: RelayRoom and Room of         *)
(* packages/core/src/room, the handlers of rooms.ts they are called from,  *)
(* the Client of the server and the Room of the client library.            *)
(*                                                                         *)
(* The room adds a player when a client joins, marks it away while it      *)
(* waits for a reconnection, and removes it when the client leaves.  Every *)
(* change of the state is a patch: listeners collect patches per session,  *)
(* an interval sends them, the socket delivers them in order.  The state   *)
(* besides the players is one cell per session, which only its owner       *)
(* writes (patch_state): first in its own copy, then in the room.          *)
(*                                                                         *)
(* Hooks of a RelayRoom do not suspend and the cache is local, so that an  *)
(* event of the server and its continuations are one action.  A session    *)
(* opens a socket when the server has seen its previous one close; what    *)
(* happens otherwise is the subject of RoomManager.                        *)
(***************************************************************************)
EXTENDS Naturals, FiniteSets, SequencesExt

CONSTANTS
    Session,
    Host,         \* the session that created the room
    MaxConns,     \* bound: websockets, numbered as they open
    None,         \* no entry
    Null,         \* the entry of room.clients of a reserved seat
    MaxPlayers,   \* maxPlayers of the room
    WaitSeconds,  \* reconnectionTimeout of the room
    Writers,      \* bound: the sessions that write their cell
    MaxWrites     \* bound: values a cell takes after the first

Conn == 1..MaxConns

States == [players : [Session -> {None, "here", "away"}], cells : [Session -> 0..MaxWrites]]

ASSUME Values ==
    /\ Host \in Session
    /\ None \notin Session \cup Conn \cup {Null}
    /\ Null \notin Conn
    /\ None \notin States \cup {"here", "away"}

\* A room with reconnectionTimeout 0 does not wait, one with maxPlayers 0 is never full.
ASSUME Bounds ==
    /\ IsFiniteSet(Session)
    /\ {MaxConns, MaxWrites} \subseteq Nat
    /\ {MaxPlayers, WaitSeconds} \subseteq Nat \ {0}

VARIABLES
    open,      \* the room is in the rooms map
    terminated,  \* room.terminated
    locked,    \* room.locked
    unlocked,  \* history: the host, and nobody later, has unlocked the room
    calm,      \* a session does nothing but reconnect while the room waits for it
    seat,      \* room.clients
    reserved,  \* sessions in reservedSeats
    timers,    \* armed reservation timers of a session
    conn,      \* Client objects, their sockets and their waitReconnection
    tracking,  \* room.disposers: whose patches are collected, and the patches
    state,     \* room.state
    up,        \* client to server: values of the own cell
    down,      \* server to client: snapshots and patches
    view       \* the copy of the state the application holds

roomVars == <<open, terminated, locked, unlocked, calm>>
seatVars == <<seat, reserved, timers>>
netVars == <<up, down, view>>
vars == <<roomVars, seatVars, conn, tracking, state, netVars>>

Patches ==
    [type : {"player"}, of : Session, value : {None, "here", "away"}]
      \cup [type : {"cell"}, of : Session, to : 0..MaxWrites]

Messages == Patches \cup [type : {"snapshot"}, data : States]

VariablesTyped ==
    /\ {open, terminated, locked, unlocked, calm} \subseteq BOOLEAN
    /\ seat \in [Session -> Conn \cup {None, Null}]
    /\ reserved \subseteq Session
    /\ timers \in [Session -> Nat]
    /\ conn \in [Conn -> [stage : {"idle", "awaitJoined", "awaitReconnected", "established"},
                          session : Session \cup {None}, socket : {"none", "open", "closed"},
                          status : {"connecting", "connected", "disconnected", "reconnected"},
                          wait : 0..WaitSeconds]]
    /\ tracking \in [Session -> [conn : Conn \cup {None}, patches : Seq(Patches)]]
    /\ state \in States
    /\ up \in [Conn -> Seq(0..MaxWrites)]
    /\ down \in [Conn -> Seq(Messages)]
    /\ view \in [Conn -> States \cup {None}]

\* Seats and listeners are a session's own, and no interval of an open room sends
\* patches to a socket that is closed.
Owned ==
    /\ \A s \in Session : seat[s] \in Conn => conn[seat[s]].session = s
    /\ \A s \in Session : LET c == tracking[s].conn
                         IN  c # None => /\ conn[c].session = s
                                         /\ open => conn[c].socket = "open"

TypeOK == VariablesTyped /\ Owned

\* The room has just been created: its host holds a reservation.
Init ==
    /\ open = TRUE /\ terminated = FALSE /\ locked = FALSE /\ unlocked = FALSE /\ calm \in BOOLEAN
    /\ seat = [s \in Session |-> IF s = Host THEN Null ELSE None]
    /\ reserved = {Host}
    /\ timers = [s \in Session |-> IF s = Host THEN 1 ELSE 0]
    /\ conn = [c \in Conn |-> [stage |-> "idle", session |-> None, socket |-> "none",
                               status |-> "connecting", wait |-> 0]]
    /\ tracking = [s \in Session |-> [conn |-> None, patches |-> <<>>]]
    /\ state = [players |-> [s \in Session |-> None], cells |-> [s \in Session |-> 0]]
    /\ up = [c \in Conn |-> <<>>]
    /\ down = [c \in Conn |-> <<>>]
    /\ view = [c \in Conn |-> None]

-----------------------------------------------------------------------------
(* Pieces of the handlers. *)

ConnsOf(s) == {c \in Conn : conn[c].session = s}
Seats == {s \in Session : seat[s] # None}
Waiting(s) == \E c \in ConnsOf(s) : conn[c].wait > 0

\* Every socket before c is in use, c is not.
IsNext(c) == \A d \in Conn : conn[d].stage = "idle" <=> d >= c

\* The session may open a socket or ask for a seat.
MayUse(s) == \A c \in ConnsOf(s) : conn[c].socket = "closed"

\* broadcastPatch: every listener but the one of the session itself.
Broadcast(track, s, patch) ==
    [t \in Session |->
        IF t = s \/ track[t].conn = None THEN track[t]
        ELSE [track[t] EXCEPT !.patches = Append(@, patch)]]

PlayerPatch(s, value) == [type |-> "player", of |-> s, value |-> value]
CellPatch(s, to) == [type |-> "cell", of |-> s, to |-> to]

\* addPlayer and removePlayer tell the others.
SetPlayer(track, s, value) ==
    /\ state' = [state EXCEPT !.players[s] = value]
    /\ tracking' = Broadcast(track, s, PlayerPatch(s, value))

\* Mutant: only the end of a connection is recorded.
OnlyAwayIsSet(track, s, value) ==
    IF state.players[s] = None \/ value = "here"
    THEN tracking' = track /\ UNCHANGED state
    ELSE SetPlayer(track, s, value)

\* setPlayerConection: only for a player that is there, only a change.
SetPlayerConnection(track, s, value) ==
    IF state.players[s] \in {None, value}
    THEN tracking' = track /\ UNCHANGED state
    ELSE SetPlayer(track, s, value)

\* Mutant: the listener of the session stays.
ListenerStays(s) == tracking

\* stopTracking: patches that were not sent are lost.
Untracked(s) == [tracking EXCEPT ![s] = [conn |-> None, patches |-> <<>>]]

\* removeRoomClient: a room without clients is removed.
RemoveRoomClient(s) ==
    /\ seat' = [seat EXCEPT ![s] = None]
    /\ open' = (open /\ Seats \ {s} # {})
    /\ UNCHANGED <<terminated, locked, unlocked, calm, reserved, timers>>

\* The messages of a socket that closes are lost with it.
Silence(c) ==
    /\ up' = [up EXCEPT ![c] = <<>>]
    /\ down' = [down EXCEPT ![c] = <<>>]
    /\ view' = [view EXCEPT ![c] = None]

\* startTracking, unless the session is tracked: the listener starts, and the
\* snapshot that waited in the client's queue is sent with the state of now.
StartTracking(c, track) ==
    LET s == conn[c].session
    IN  IF track[s].conn = None
        THEN /\ tracking' = [track EXCEPT ![s] = [conn |-> c, patches |-> <<>>]]
             /\ down' = [down EXCEPT ![c] = Append(@, [type |-> "snapshot", data |-> state'])]
        ELSE tracking' = track /\ UNCHANGED down

-----------------------------------------------------------------------------
(* Requests. *)

\* joinRoom and reserveSeat.
JoinRoom(s) ==
    /\ open /\ ~locked
    /\ seat[s] = None
    /\ MayUse(s)
    /\ calm => ~Waiting(s)
    /\ seat' = [seat EXCEPT ![s] = Null]
    /\ reserved' = reserved \cup {s}
    /\ timers' = [timers EXCEPT ![s] = @ + 1]
    /\ UNCHANGED <<roomVars, conn, tracking, state, netVars>>

\* The reservation timer deletes the entries of the session, whatever they are.
ReservationTimeout(s) ==
    /\ timers[s] > 0
    /\ timers' = [timers EXCEPT ![s] = @ - 1]
    /\ reserved' = reserved \ {s}
    /\ seat' = [seat EXCEPT ![s] = None]
    /\ open' = (open /\ Seats \ {s} # {})
    /\ UNCHANGED <<terminated, locked, unlocked, calm, conn, tracking, state, netVars>>

\* leaveRoom: the player is removed, the socket stays open.
LeaveRoom(s) ==
    /\ open
    /\ seat[s] \in Conn
    /\ calm => ~Waiting(s)
    /\ SetPlayer(Untracked(s), s, None)
    /\ RemoveRoomClient(s)
    /\ UNCHANGED <<conn, netVars>>

\* closeRoom by the host: the clients leave one after the other, their sockets are
\* closed, and waits will find the room terminated.
CloseRoom ==
    LET gone == {s \in Session : seat[s] \in Conn}
        removals == SetToSeq({PlayerPatch(s, None) : s \in gone})
    IN
    /\ open
    /\ open' = FALSE
    /\ terminated' = TRUE
    /\ seat' = [s \in Session |-> None]
    /\ tracking' = [s \in Session |->
                      IF s \in gone THEN Untracked(s)[s]
                      ELSE IF tracking[s].conn = None THEN tracking[s]
                      ELSE [tracking[s] EXCEPT !.patches = @ \o removals]]
    /\ state' = [state EXCEPT !.players = [s \in Session |-> IF s \in gone THEN None ELSE @[s]]]
    /\ conn' = [c \in Conn |->
                  IF \E s \in Session : seat[s] = c THEN [conn[c] EXCEPT !.socket = "closed"]
                  ELSE conn[c]]
    /\ UNCHANGED <<locked, unlocked, calm, reserved, timers, netVars>>

\* update_room, a message of the host: it locks and unlocks the room.
UpdateRoom(lock) ==
    /\ \E c \in ConnsOf(Host) : conn[c].socket = "open" /\ conn[c].stage = "established"
    /\ lock # locked
    /\ locked' = lock
    /\ unlocked' = ~lock
    /\ UNCHANGED <<open, terminated, calm, seatVars, conn, tracking, state, netVars>>

-----------------------------------------------------------------------------
(* Sockets. *)

\* Mutant: the timer of a redeemed reservation still runs.
TimerRuns(s) == UNCHANGED timers

DisposeTimer(s) == timers' = [timers EXCEPT ![s] = @ - 1]

\* onClientConnected of a session with a reservation: its timer is disposed.
ConnectSeated(c, s) ==
    /\ open
    /\ IsNext(c)
    /\ MayUse(s)
    /\ seat[s] \notin Conn
    /\ s \in reserved
    /\ calm => ~Waiting(s)
    /\ reserved' = reserved \ {s}
    /\ DisposeTimer(s)
    /\ conn' = [conn EXCEPT ![c] = [@ EXCEPT !.stage = "awaitJoined", !.session = s,
                                              !.socket = "open"]]
    /\ UNCHANGED <<roomVars, seat, tracking, state, netVars>>

\* onClientConnected of a session with a client.
ConnectReturning(c, s) ==
    /\ open
    /\ IsNext(c)
    /\ MayUse(s)
    /\ seat[s] \in Conn
    /\ conn' = [conn EXCEPT ![c] = [@ EXCEPT !.stage = "awaitReconnected", !.session = s,
                                              !.socket = "open"]]
    /\ UNCHANGED <<roomVars, seatVars, tracking, state, netVars>>

\* Mutant: the last seat is not counted.
LocksTooLate == Cardinality(Seats) > MaxPlayers

\* The room is full once a client has joined; reserved seats count.
Full == Cardinality(Seats) >= MaxPlayers

\* "joined": onJoin adds the player and locks a full room, then the client gets
\* its seat, is tracked and receives the state.
Joined(c) ==
    LET s == conn[c].session
    IN  /\ conn[c].stage = "awaitJoined"
        /\ conn[c].socket = "open"
        /\ conn' = [conn EXCEPT ![c] = [@ EXCEPT !.stage = "established", !.status = "connected"]]
        /\ state' = [state EXCEPT !.players[s] = "here"]
        /\ locked' = (locked \/ Full)
        /\ unlocked' = (unlocked /\ ~Full)
        /\ StartTracking(c, Broadcast(tracking, s, PlayerPatch(s, "here")))
        /\ seat' = [seat EXCEPT ![s] = c]
        /\ UNCHANGED <<open, terminated, calm, reserved, timers, up, view>>

\* "reconnected": the client gets the seat of the one that was waited for, or
\* that has been removed meanwhile.
Reconnected(c) ==
    LET s == conn[c].session
    IN  /\ conn[c].stage = "awaitReconnected"
        /\ conn[c].socket = "open"
        /\ conn' = [conn EXCEPT ![c] = [@ EXCEPT !.stage = "established",
                                                  !.status = "reconnected"]]
        /\ UNCHANGED state
        /\ StartTracking(c, tracking)
        /\ seat' = [seat EXCEPT ![s] = c]
        /\ UNCHANGED <<roomVars, reserved, timers, up, view>>

\* A socket closes, normally (consented) or not; a client that does not answer
\* in time is closed too.  onLeave removes the player or starts to wait.
Drop(c, consented) ==
    LET s == conn[c].session
        waits == open /\ seat[s] \in Conn /\ ~consented
    IN  /\ conn[c].socket = "open"
        /\ calm => ~Waiting(s)
        /\ conn' = [conn EXCEPT ![c] = [@ EXCEPT !.socket = "closed", !.status = "disconnected",
                                                  !.wait = IF waits THEN WaitSeconds ELSE 0]]
        /\ Silence(c)
        /\ \/ /\ ~open
              /\ UNCHANGED <<roomVars, seatVars, tracking, state>>
           \/ /\ waits
              /\ SetPlayerConnection(Untracked(s), s, "away")
              /\ UNCHANGED <<roomVars, seatVars>>
           \/ /\ open /\ ~waits
              /\ IF seat[s] \in Conn THEN SetPlayer(Untracked(s), s, None)
                 ELSE tracking' = Untracked(s) /\ UNCHANGED state
              /\ RemoveRoomClient(s)

Left(c) == conn[c].wait - 1

\* A second of waitReconnection passes.  The wait is rejected when the seat is
\* free or only reserved, when time is up, and when the room is closed.
WaitTick(c) ==
    LET s == conn[c].session
        new == seat[s]
    IN  /\ conn[c].wait > 0
        /\ UNCHANGED <<netVars>>
        /\ \/ /\ new \notin Conn \/ Left(c) = 0 \/ terminated
              /\ conn' = [conn EXCEPT ![c].wait = 0]
              /\ SetPlayer(tracking, s, None)
              /\ IF new \in Conn /\ conn[new].status = "connected"
                 THEN UNCHANGED <<roomVars, seatVars>>
                 ELSE RemoveRoomClient(s)
           \/ /\ ~terminated /\ new \in Conn /\ Left(c) > 0
              /\ conn[new].status = "reconnected"
              /\ conn' = [conn EXCEPT ![c].wait = 0, ![new].status = "connected"]
              /\ SetPlayerConnection(tracking, s, "here")
              /\ UNCHANGED <<roomVars, seatVars>>
           \/ /\ ~terminated /\ new \in Conn /\ Left(c) > 0
              /\ conn[new].status # "reconnected"
              /\ conn' = [conn EXCEPT ![c].wait = Left(c)]
              /\ UNCHANGED <<roomVars, seatVars, tracking, state>>

-----------------------------------------------------------------------------
(* State changes on their way. *)

\* Mutant: patches are taken from the end of the list.
LastFirst(s) == Reverse(tracking[s].patches)

Collected(s) == tracking[s].patches

\* The patch interval of a session fires.
Flush(s) ==
    LET c == tracking[s].conn
    IN  /\ c # None
        /\ tracking[s].patches # <<>>
        /\ tracking' = [tracking EXCEPT ![s].patches = <<>>]
        /\ down' = IF conn[c].socket # "open" THEN down
                   ELSE [down EXCEPT ![c] = @ \o Collected(s)]
        /\ UNCHANGED <<roomVars, seatVars, conn, state, up, view>>

\* What an application does with a snapshot and with a patch.
Apply(copy, msg) ==
    CASE msg.type = "snapshot" -> msg.data
      [] msg.type = "player" -> [copy EXCEPT !.players[msg.of] = msg.value]
      [] msg.type = "cell" -> [copy EXCEPT !.cells[msg.of] = msg.to]

\* The client library receives the next message and calls the handler.
Deliver(c) ==
    /\ down[c] # <<>>
    /\ view' = [view EXCEPT ![c] = Apply(@, Head(down[c]))]
    /\ down' = [down EXCEPT ![c] = Tail(@)]
    /\ UNCHANGED <<roomVars, seatVars, conn, tracking, state, up>>

\* The application changes its own cell and sends the patch.
Write(c) ==
    LET s == conn[c].session
    IN  /\ s \in Writers
        /\ view[c] # None
        /\ view[c].cells[s] < MaxWrites
        /\ view' = [view EXCEPT ![c].cells[s] = @ + 1]
        /\ up' = [up EXCEPT ![c] = Append(@, view[c].cells[s] + 1)]
        /\ UNCHANGED <<roomVars, seatVars, conn, tracking, state, down>>

\* patch_state: the state changes and every other listener is told.
PatchState(c) ==
    LET s == conn[c].session
    IN  /\ up[c] # <<>>
        /\ up' = [up EXCEPT ![c] = Tail(@)]
        /\ state' = [state EXCEPT !.cells[s] = Head(up[c])]
        /\ tracking' = Broadcast(tracking, s, CellPatch(s, Head(up[c])))
        /\ UNCHANGED <<roomVars, seatVars, conn, down, view>>

-----------------------------------------------------------------------------
Next ==
    \/ \E s \in Session : JoinRoom(s) \/ ReservationTimeout(s) \/ LeaveRoom(s) \/ Flush(s)
    \/ CloseRoom
    \/ \E lock \in BOOLEAN : UpdateRoom(lock)
    \/ \E c \in Conn, s \in Session : ConnectSeated(c, s) \/ ConnectReturning(c, s)
    \/ \E c \in Conn, consented \in BOOLEAN : Drop(c, consented)
    \/ \E c \in Conn : Joined(c) \/ Reconnected(c) \/ WaitTick(c) \/ Deliver(c)
                         \/ Write(c) \/ PatchState(c)

Spec == Init /\ [][Next]_vars

-----------------------------------------------------------------------------
(* Properties. *)

\* What is on its way to the player of s, and collected for it.
Coming(s) == down[tracking[s].conn] \o tracking[s].patches

Field(copy, kind, t) == IF kind = "player" THEN copy.players[t] ELSE copy.cells[t]

Tells(msg, kind, t) == msg.type = "snapshot" \/ (msg.type = kind /\ msg.of = t)

\* What a message that tells of t says.
Value(msg, kind, t) ==
    CASE msg.type = "snapshot" -> Field(msg.data, kind, t)
      [] msg.type = "player" -> msg.value
      [] msg.type = "cell" -> msg.to

\* The copy has the value v for t, or will have it when the messages have arrived:
\* the last one that tells of t decides.
WillHave(copy, messages, kind, t, v) ==
    LET telling == {i \in DOMAIN messages : Tells(messages[i], kind, t)}
    IN  \/ telling = {} /\ copy # None /\ Field(copy, kind, t) = v
        \/ \E i \in telling : /\ \A j \in telling : j <= i
                              /\ Value(messages[i], kind, t) = v

\* The value of the own cell when everything on its way has reached the room.
Written(c, s) == IF up[c] = <<>> THEN state.cells[s] ELSE Last(up[c])

\* A player's copy, with the patches collected for it and on their way, is the
\* state of the room, the room lacks nothing but the player's own writes on their
\* way, and no write of the player is undone.  Its own player is not included: a
\* returning player is never told that it counts as connected again (relay.ts).
ViewCatchesUp ==
    \A s \in Session :
        LET c == tracking[s].conn
        IN  c # None /\ conn[c].socket = "open" =>
              /\ \A t \in Session \ {s} :
                   /\ WillHave(view[c], Coming(s), "player", t, state.players[t])
                   /\ WillHave(view[c], Coming(s), "cell", t, state.cells[t])
              /\ WillHave(view[c], Coming(s), "cell", s, Written(c, s))

\* Every player of an open room holds a seat, so that leaving, closing the room
\* or the end of a wait will remove it, if the session does nothing but reconnect
\* while the room waits for it (relay.ts, rooms.ts).
PlayersSeated ==
    open /\ calm => \A s \in Session : state.players[s] # None => seat[s] # None

\* Under the same condition a room with maxPlayers players is locked, unless its
\* host has unlocked it (relay.ts onJoin).
FullIsLocked ==
    open /\ calm /\ Cardinality({s \in Session : state.players[s] # None}) >= MaxPlayers
        => locked \/ unlocked

\* Whatever a session does, a player that is away is being waited for: a timer of
\* its own or of a later connection will set it back or remove it, and until then
\* no write, leave or close can leave it away for good (relay.ts onLeave).
AwayIsWaitedFor ==
    \A s \in Session : state.players[s] = "away" => Waiting(s)
=============================================================================
