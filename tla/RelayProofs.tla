---------------------------- MODULE RelayProofs ----------------------------
(***************************************************************************)
(* Proofs about Relay: its types, that the copies of the state catch up,   *)
(* that players are seated, full rooms locked, and absent players waited   *)
(* for.  The sockets and the channels come first (Basics).  The waits, the *)
(* seats of sessions that only reconnect (Calmly) and the copies of the    *)
(* state rest on them, the full rooms on Calmly too.                       *)
(***************************************************************************)
EXTENDS Relay, SequenceTheorems, FiniteSetTheorems, TLAPS

Tracking == [Session -> [conn : Conn \cup {None}, patches : Seq(Patches)]]

Connection ==
    [stage : {"idle", "awaitJoined", "awaitReconnected", "established"},
     session : Session \cup {None}, socket : {"none", "open", "closed"},
     status : {"connecting", "connected", "disconnected", "reconnected"},
     wait : 0..WaitSeconds]

-----------------------------------------------------------------------------
(* What the pieces of the handlers do to the listeners. *)

LEMMA BroadcastEffect ==
    ASSUME NEW track \in Tracking, NEW s, NEW patch \in Patches
    PROVE  /\ Broadcast(track, s, patch) \in Tracking
           /\ \A t \in Session :
                /\ Broadcast(track, s, patch)[t].conn = track[t].conn
                /\ Broadcast(track, s, patch)[t].patches =
                     IF t = s \/ track[t].conn = None THEN track[t].patches
                     ELSE Append(track[t].patches, patch)
<1>1. ASSUME NEW t \in Session
      PROVE  /\ Append(track[t].patches, patch) \in Seq(Patches)
             /\ track[t] \in [conn : Conn \cup {None}, patches : Seq(Patches)]
  BY AppendProperties DEF Tracking
<1> QED
  BY <1>1 DEF Broadcast, Tracking

LEMMA UntrackedEffect ==
    ASSUME tracking \in Tracking, NEW s
    PROVE  /\ Untracked(s) \in Tracking
           /\ \A t \in Session : /\ t # s => Untracked(s)[t] = tracking[t]
                                 /\ t = s => Untracked(s)[t] = [conn |-> None, patches |-> <<>>]
BY EmptySeq DEF Untracked, Tracking

LEMMA SetPlayerEffect ==
    ASSUME NEW track \in Tracking, NEW s \in Session, NEW value \in {None, "here", "away"},
           state \in States, SetPlayer(track, s, value)
    PROVE  /\ tracking' = Broadcast(track, s, PlayerPatch(s, value))
           /\ tracking' \in Tracking
           /\ \A t \in Session : tracking'[t].conn = track[t].conn
           /\ state' \in States
           /\ state'.cells = state.cells
           /\ \A t \in Session : state'.players[t] = IF t = s THEN value ELSE state.players[t]
           /\ PlayerPatch(s, value) \in Patches
<1>1. PlayerPatch(s, value) \in Patches
  BY DEF PlayerPatch, Patches
<1>2. tracking' = Broadcast(track, s, PlayerPatch(s, value))
  BY DEF SetPlayer
<1>3. state' = [state EXCEPT !.players[s] = value]
  BY DEF SetPlayer
<1> QED
  BY <1>1, <1>2, <1>3, BroadcastEffect DEF States

-----------------------------------------------------------------------------
(* Sockets, seats, listeners and channels. *)

ConnsTrue ==
    \A c \in Conn :
        /\ conn[c].stage = "idle" =>
             conn[c].session = None /\ conn[c].socket = "none" /\ conn[c].wait = 0
        /\ conn[c].stage # "idle" => conn[c].session \in Session /\ conn[c].socket # "none"
        /\ conn[c].wait > 0 => conn[c].socket = "closed"

SeatsTrue ==
    /\ \A s \in Session : seat[s] \in Conn => conn[seat[s]].session = s
    /\ \A s \in reserved : timers[s] > 0

\* A session opens a socket when its others are closed.
OneSocket ==
    \A c, d \in Conn :
        /\ conn[c].socket = "open" /\ conn[d].socket = "open"
        /\ conn[c].session = conn[d].session
        => c = d

\* A listener is one of an established connection of its session that has been
\* sent the state, and it never collects what the session itself wrote.
Listens(s, c) ==
    /\ conn[c].session = s /\ conn[c].stage = "established"
    /\ open => conn[c].socket = "open"
    /\ conn[c].socket = "open" => view[c] # None \/ down[c] # <<>>

IsOwn(patch, s) == patch.type = "cell" /\ patch.of = s

ListenersTrue ==
    \A s \in Session :
        /\ tracking[s].conn # None => Listens(s, tracking[s].conn)
        /\ \A i \in DOMAIN tracking[s].patches : ~IsOwn(tracking[s].patches[i], s)

\* Nothing is on its way on a socket that is not established, that is closed
\* while the room is open, or that the session has replaced.  The first message,
\* and only that, is a snapshot, and a client that writes has had it.
Silent(c) == view[c] = None /\ up[c] = <<>> /\ down[c] = <<>>

Snapshots(c) ==
    /\ up[c] # <<>> => view[c] # None
    /\ \A i \in DOMAIN down[c] :
         /\ down[c][i].type = "snapshot" <=> view[c] = None /\ i = 1
         /\ ~IsOwn(down[c][i], conn[c].session)

Replaced(c) ==
    \E d \in Conn : conn[d].socket = "open" /\ d # c /\ conn[d].session = conn[c].session

ChannelsTrue ==
    \A c \in Conn :
        /\ conn[c].stage # "established" => Silent(c)
        /\ open /\ conn[c].socket = "closed" => Silent(c)
        /\ Replaced(c) => Silent(c)
        /\ Snapshots(c)

Basics ==
    /\ VariablesTyped
    /\ ConnsTrue
    /\ SeatsTrue
    /\ OneSocket
    /\ ListenersTrue
    /\ ChannelsTrue

LEMMA TrackingTyped ==
    ASSUME Basics
    PROVE  tracking \in Tracking /\ state \in States /\ conn \in [Conn -> Connection]
BY DEF Basics, VariablesTyped, Tracking, Connection

\* A step that leaves the sockets alone and takes from, or adds to, the listeners
\* nothing but patches that are not their own.
Collects(track) ==
    /\ tracking' \in Tracking
    /\ \A s \in Session :
         /\ tracking'[s].conn = track[s].conn
         /\ \A i \in DOMAIN tracking'[s].patches : ~IsOwn(tracking'[s].patches[i], s)

LEMMA BroadcastQuiet ==
    ASSUME NEW track \in Tracking, NEW s \in Session, NEW patch \in Patches,
           patch.type = "player" \/ patch.of = s,
           \A t \in Session : \A i \in DOMAIN track[t].patches : ~IsOwn(track[t].patches[i], t),
           NEW new, new = Broadcast(track, s, patch)
    PROVE  \A t \in Session : \A i \in DOMAIN new[t].patches : ~IsOwn(new[t].patches[i], t)
<1>1. \A t \in Session :
        new[t].patches = IF t = s \/ track[t].conn = None THEN track[t].patches
                         ELSE Append(track[t].patches, patch)
  BY BroadcastEffect
<1>2. ASSUME NEW t \in Session
      PROVE  \A i \in DOMAIN new[t].patches : ~IsOwn(new[t].patches[i], t)
  <2>1. CASE t = s \/ track[t].conn = None
    <3>1. new[t].patches = track[t].patches
      BY <1>1, <2>1
    <3> QED
      BY <3>1
  <2>2. CASE t # s /\ track[t].conn # None
    <3>1. new[t].patches = Append(track[t].patches, patch)
      BY ONLY <1>1, <2>2, t \in Session
    <3>2. track[t].patches \in Seq(Patches)
      BY DEF Tracking
    <3>3. ~IsOwn(patch, t)
      BY <2>2 DEF IsOwn
    <3>4. /\ DOMAIN Append(track[t].patches, patch) = 1..Len(track[t].patches) + 1
          /\ DOMAIN track[t].patches = 1..Len(track[t].patches)
          /\ Append(track[t].patches, patch)[Len(track[t].patches) + 1] = patch
          /\ \A i \in 1..Len(track[t].patches) :
               Append(track[t].patches, patch)[i] = track[t].patches[i]
          /\ Len(track[t].patches) \in Nat
      BY <3>2, AppendProperties, LenProperties
    <3> QED
      BY <3>1, <3>3, <3>4
  <2> QED
    BY <2>1, <2>2
<1> QED
  BY <1>2

LEMMA BroadcastCollects ==
    ASSUME NEW track \in Tracking, NEW s \in Session, NEW patch \in Patches,
           patch.type = "player" \/ patch.of = s,
           \A t \in Session : \A i \in DOMAIN track[t].patches : ~IsOwn(track[t].patches[i], t),
           tracking' = Broadcast(track, s, patch)
    PROVE  Collects(track)
BY BroadcastEffect, BroadcastQuiet DEF Collects

LEMMA SetPlayerCollects ==
    ASSUME NEW track \in Tracking, NEW s \in Session, NEW value \in {None, "here", "away"},
           state \in States,
           \A t \in Session : \A i \in DOMAIN track[t].patches : ~IsOwn(track[t].patches[i], t),
           SetPlayer(track, s, value) \/ SetPlayerConnection(track, s, value)
    PROVE  Collects(track) /\ state' \in States
<1>1. CASE SetPlayer(track, s, value)
  <2>1. /\ PlayerPatch(s, value) \in Patches
        /\ tracking' = Broadcast(track, s, PlayerPatch(s, value))
        /\ state' \in States
    BY <1>1, SetPlayerEffect
  <2>2. PlayerPatch(s, value).type = "player"
    BY DEF PlayerPatch
  <2> QED
    BY <2>1, <2>2, BroadcastCollects
<1>2. CASE tracking' = track /\ UNCHANGED state
  BY <1>2 DEF Collects
<1> QED
  BY <1>1, <1>2 DEF SetPlayerConnection

LEMMA UntrackedQuiet ==
    ASSUME Basics, NEW s \in Session
    PROVE  /\ Untracked(s) \in Tracking
           /\ \A t \in Session : \A i \in DOMAIN Untracked(s)[t].patches :
                ~IsOwn(Untracked(s)[t].patches[i], t)
           /\ \A t \in Session : Untracked(s)[t].conn = IF t = s THEN None ELSE tracking[t].conn
<1>1. tracking \in Tracking
  BY TrackingTyped
<1>2. DOMAIN <<>> = {}
  OBVIOUS
<1> QED
  BY <1>1, <1>2, UntrackedEffect DEF Basics, ListenersTrue


-----------------------------------------------------------------------------
(* Steps that neither open nor close a socket, nor send anything. *)

SameSockets ==
    \A c \in Conn :
        /\ conn'[c].stage = conn[c].stage /\ conn'[c].session = conn[c].session
        /\ conn'[c].socket = conn[c].socket
        /\ conn'[c].wait > 0 => conn[c].wait > 0

\* Seats are only given up, listeners only stopped, and the room only closed.
Fewer ==
    /\ open' => open
    /\ \A s \in reserved' : timers'[s] > 0
    /\ \A s \in Session :
         /\ seat'[s] \in Conn => seat'[s] = seat[s]
         /\ tracking'[s].conn # None => tracking'[s].conn = tracking[s].conn
         /\ \A i \in DOMAIN tracking'[s].patches : ~IsOwn(tracking'[s].patches[i], s)

LEMMA StillKeeps ==
    ASSUME Basics, VariablesTyped', SameSockets, Fewer, UNCHANGED netVars
    PROVE  Basics'
<1>1. ConnsTrue' /\ OneSocket'
  <2>1. ConnsTrue'
    <3>1. \A c \in Conn : conn'[c].wait \in 0..WaitSeconds
      BY DEF VariablesTyped
    <3>2. \A c \in Conn : ~(conn'[c].wait > 0) => conn'[c].wait = 0
      BY <3>1, Bounds
    <3> QED
      BY <3>2 DEF Basics, ConnsTrue, SameSockets
  <2>2. OneSocket'
    BY DEF Basics, OneSocket, SameSockets
  <2> QED
    BY <2>1, <2>2
<1>2. SeatsTrue'
  BY DEF Basics, SeatsTrue, SameSockets, Fewer
<1>3. ListenersTrue'
  <2>1. ASSUME NEW s \in Session, tracking'[s].conn # None
        PROVE  Listens(s, tracking[s].conn)'
    <3> DEFINE c == tracking[s].conn
    <3>1. Listens(s, c) /\ c \in Conn /\ tracking'[s].conn = c
      BY <2>1, TrackingTyped DEF Basics, ListenersTrue, Fewer, Tracking
    <3>2. conn'[c].session = s /\ conn'[c].stage = "established"
      BY <3>1 DEF Listens, SameSockets
    <3>3. open' => conn'[c].socket = "open"
      BY <3>1 DEF Listens, SameSockets, Fewer
    <3>4. conn'[c].socket = "open" => view'[c] # None \/ down'[c] # <<>>
      BY <3>1 DEF Listens, SameSockets, netVars
    <3> QED
      BY <3>1, <3>2, <3>3, <3>4 DEF Listens
  <2> QED
    BY <2>1 DEF ListenersTrue, Fewer
<1>4. ChannelsTrue'
  <2>1. ASSUME NEW c \in Conn
        PROVE  /\ Silent(c)' <=> Silent(c)
               /\ Replaced(c)' <=> Replaced(c)
               /\ Snapshots(c)' <=> Snapshots(c)
    BY DEF Silent, Replaced, Snapshots, SameSockets, netVars
  <2> QED
    BY <2>1 DEF Basics, ChannelsTrue, SameSockets, Fewer
<1> QED
  BY <1>1, <1>2, <1>3, <1>4 DEF Basics

\* The listeners of a step that removes or changes a player, or nothing.
LEMMA CollectsFewer ==
    ASSUME Basics, NEW track, Collects(track),
           \A s \in Session : track[s].conn # None => track[s].conn = tracking[s].conn,
           open' => open,
           \A s \in Session : seat'[s] \in Conn => seat'[s] = seat[s],
           UNCHANGED <<reserved, timers>>
    PROVE  Fewer
BY DEF Collects, Fewer, Basics, SeatsTrue

LEMMA JoinRoomBasics ==
    ASSUME Basics, NEW s \in Session, JoinRoom(s)
    PROVE  Basics'
<1>1. VariablesTyped'
  BY DEF JoinRoom, Basics, VariablesTyped, roomVars, netVars
<1>2. SameSockets /\ Fewer
  BY Values DEF JoinRoom, Basics, VariablesTyped, SameSockets, Fewer, SeatsTrue, ListenersTrue, roomVars
<1> QED
  BY <1>1, <1>2, StillKeeps DEF JoinRoom

LEMMA ReservationTimeoutBasics ==
    ASSUME Basics, NEW s \in Session, ReservationTimeout(s)
    PROVE  Basics'
<1>1. VariablesTyped'
  BY DEF ReservationTimeout, Basics, VariablesTyped, netVars
<1>2. SameSockets /\ Fewer
  BY Values DEF ReservationTimeout, Basics, VariablesTyped, SameSockets, Fewer, SeatsTrue, ListenersTrue
<1> QED
  BY <1>1, <1>2, StillKeeps DEF ReservationTimeout

LEMMA UpdateRoomBasics ==
    ASSUME Basics, NEW lock \in BOOLEAN, UpdateRoom(lock)
    PROVE  Basics'
<1>1. VariablesTyped'
  BY DEF UpdateRoom, Basics, VariablesTyped, seatVars, netVars
<1>2. SameSockets /\ Fewer
  BY DEF UpdateRoom, Basics, SameSockets, Fewer, SeatsTrue, ListenersTrue, seatVars
<1> QED
  BY <1>1, <1>2, StillKeeps DEF UpdateRoom

\* The seat of a removed client is free, the others keep theirs.
LEMMA RemovalEffect ==
    ASSUME Basics, NEW s \in Session, RemoveRoomClient(s)
    PROVE  /\ \A t \in Session : seat'[t] = IF t = s THEN None ELSE seat[t]
           /\ seat' \in [Session -> Conn \cup {None, Null}]
           /\ open' \in BOOLEAN /\ (open' => open)
           /\ UNCHANGED <<terminated, locked, unlocked, calm, reserved, timers>>
BY DEF RemoveRoomClient, Basics, VariablesTyped

LEMMA LeaveRoomBasics ==
    ASSUME Basics, NEW s \in Session, LeaveRoom(s)
    PROVE  Basics'
<1>1. SetPlayer(Untracked(s), s, None) /\ RemoveRoomClient(s) /\ UNCHANGED <<conn, netVars>>
  BY DEF LeaveRoom
<1>2. Collects(Untracked(s)) /\ state' \in States
  BY <1>1, UntrackedQuiet, TrackingTyped, SetPlayerCollects
<1>3. VariablesTyped'
  BY <1>1, <1>2, RemovalEffect DEF Basics, VariablesTyped, netVars, Collects, Tracking
<1>4. Fewer
  <2>1. \A t \in Session : Untracked(s)[t].conn # None => Untracked(s)[t].conn = tracking[t].conn
    BY UntrackedQuiet
  <2>2. \A t \in Session : seat'[t] \in Conn => seat'[t] = seat[t]
    BY <1>1, RemovalEffect, Values
  <2> QED
    BY <1>1, <1>2, <2>1, <2>2, RemovalEffect, CollectsFewer
<1>5. SameSockets
  BY <1>1 DEF SameSockets
<1> QED
  BY <1>1, <1>3, <1>4, <1>5, StillKeeps

\* What a second of a wait leaves as it is.
LEMMA WaitTickEffect ==
    ASSUME Basics, NEW c \in Conn, WaitTick(c)
    PROVE  LET s == conn[c].session
           IN  /\ s \in Session
               /\ conn' \in [Conn -> Connection]
               /\ SameSockets
               /\ \A d \in Conn : d # c => conn'[d].wait = conn[d].wait
               /\ \/ SetPlayer(tracking, s, None)
                  \/ SetPlayerConnection(tracking, s, "here")
                  \/ tracking' = tracking /\ UNCHANGED state /\ conn'[c].wait > 0
               /\ \/ UNCHANGED <<roomVars, seatVars>>
                  \/ RemoveRoomClient(s) /\ SetPlayer(tracking, s, None)
<1> DEFINE s == conn[c].session
           new == seat[s]
<1>1. conn[c].wait > 0 /\ conn[c].wait \in 0..WaitSeconds /\ s \in Session
  BY Bounds DEF WaitTick, Basics, ConnsTrue, VariablesTyped
<1>2. conn \in [Conn -> Connection]
  BY TrackingTyped
<1>3. CASE /\ conn' = [conn EXCEPT ![c].wait = 0]
           /\ SetPlayer(tracking, s, None)
           /\ UNCHANGED <<roomVars, seatVars>> \/ RemoveRoomClient(s)
  <2>1. conn' \in [Conn -> Connection] /\ SameSockets /\ \A d \in Conn : d # c => conn'[d].wait = conn[d].wait
    BY <1>1, <1>2, <1>3, Bounds DEF Connection, SameSockets
  <2> QED
    BY <1>1, <1>3, <2>1
<1>4. CASE /\ new \in Conn
           /\ conn' = [conn EXCEPT ![c].wait = 0, ![new].status = "connected"]
           /\ SetPlayerConnection(tracking, s, "here")
           /\ UNCHANGED <<roomVars, seatVars>>
  <2>1. conn' \in [Conn -> Connection] /\ SameSockets /\ \A d \in Conn : d # c => conn'[d].wait = conn[d].wait
    <3>1. PICK k : k = [conn EXCEPT ![c].wait = 0] /\ conn' = [k EXCEPT ![new].status = "connected"]
      BY <1>4
    <3>2. /\ k \in [Conn -> Connection]
          /\ \A d \in Conn : /\ k[d].stage = conn[d].stage /\ k[d].session = conn[d].session
                             /\ k[d].socket = conn[d].socket
                             /\ d # c => k[d].wait = conn[d].wait
          /\ k[c].wait = 0
      BY <1>1, <1>2, <3>1, Bounds DEF Connection
    <3>3. /\ conn' \in [Conn -> Connection]
          /\ \A d \in Conn : /\ conn'[d].stage = k[d].stage /\ conn'[d].session = k[d].session
                             /\ conn'[d].socket = k[d].socket /\ conn'[d].wait = k[d].wait
      <4>1. new \in Conn /\ conn' = [k EXCEPT ![new].status = "connected"]
        BY <1>4, <3>1
      <4>2. k \in [Conn -> Connection]
        BY <3>2
      <4> HIDE DEF new
      <4>3. conn' \in [Conn -> Connection]
        BY ONLY <4>1, <4>2 DEF Connection
      <4>4. ASSUME NEW d \in Conn
            PROVE  /\ conn'[d].stage = k[d].stage /\ conn'[d].session = k[d].session
                   /\ conn'[d].socket = k[d].socket /\ conn'[d].wait = k[d].wait
        BY ONLY <4>1, <4>2 DEF Connection
      <4> QED
        BY ONLY <4>3, <4>4
    <3>4. ASSUME NEW d \in Conn, d # c
          PROVE  conn'[d].wait = conn[d].wait
      <4>1. k[d].wait = conn[d].wait
        BY <3>2, <3>4
      <4>2. conn'[d].wait = k[d].wait
        BY <3>3
      <4> QED
        BY ONLY <4>1, <4>2
    <3>5. ASSUME NEW d \in Conn
          PROVE  conn'[d].wait > 0 => conn[d].wait > 0
      <4>1. conn'[c].wait = 0
        BY ONLY <3>2, <3>3, c \in Conn
      <4>2. ~(0 > 0)
        OBVIOUS
      <4>3. CASE d = c
        BY ONLY <4>1, <4>2, <4>3
      <4> QED
        BY ONLY <3>4, d \in Conn, <4>3
    <3>6. ASSUME NEW d \in Conn
          PROVE  /\ conn'[d].stage = conn[d].stage
                 /\ conn'[d].session = conn[d].session
                 /\ conn'[d].socket = conn[d].socket
      <4>1. /\ k[d].stage = conn[d].stage /\ k[d].session = conn[d].session
            /\ k[d].socket = conn[d].socket
        BY <3>2
      <4>2. /\ conn'[d].stage = k[d].stage /\ conn'[d].session = k[d].session
            /\ conn'[d].socket = k[d].socket
        BY <3>3
      <4> QED
        BY ONLY <4>1, <4>2
    <3> QED
      BY ONLY <3>3, <3>4, <3>5, <3>6 DEF SameSockets
  <2> QED
    BY <1>1, <1>4, <2>1
<1>5. CASE /\ Left(c) > 0
           /\ conn' = [conn EXCEPT ![c].wait = Left(c)]
           /\ UNCHANGED <<roomVars, seatVars, tracking, state>>
  <2>1. Left(c) \in 0..WaitSeconds
    BY <1>1, <1>5, Bounds DEF Left
  <2>2. conn' \in [Conn -> Connection] /\ SameSockets /\ \A d \in Conn : d # c => conn'[d].wait = conn[d].wait
    BY <1>1, <1>2, <1>5, <2>1 DEF Connection, SameSockets
  <2>3. conn'[c].wait > 0
    BY <1>2, <1>5
  <2> QED
    BY <1>1, <1>5, <2>2, <2>3
<1> QED
  BY <1>3, <1>4, <1>5 DEF WaitTick

LEMMA WaitTickBasics ==
    ASSUME Basics, NEW c \in Conn, WaitTick(c)
    PROVE  Basics'
<1> DEFINE s == conn[c].session
<1>1. /\ s \in Session /\ conn' \in [Conn -> Connection] /\ SameSockets
      /\ UNCHANGED netVars
  BY WaitTickEffect DEF WaitTick
<1>2. Collects(tracking) /\ state' \in States
  <2>1. \A t \in Session : \A i \in DOMAIN tracking[t].patches : ~IsOwn(tracking[t].patches[i], t)
    BY DEF Basics, ListenersTrue
  <2>2. CASE SetPlayer(tracking, s, None) \/ SetPlayerConnection(tracking, s, "here")
    BY <1>1, <2>1, <2>2, TrackingTyped, SetPlayerCollects
  <2>3. CASE tracking' = tracking /\ UNCHANGED state
    BY <2>1, <2>3, TrackingTyped DEF Collects
  <2> QED
    BY <2>2, <2>3, WaitTickEffect
<1>3. /\ seat' \in [Session -> Conn \cup {None, Null}]
      /\ open' \in BOOLEAN /\ (open' => open)
      /\ UNCHANGED <<terminated, locked, unlocked, calm, reserved, timers>>
      /\ \A t \in Session : seat'[t] \in Conn => seat'[t] = seat[t]
  <2>1. CASE UNCHANGED <<roomVars, seatVars>>
    BY <2>1 DEF roomVars, seatVars, Basics, VariablesTyped
  <2>2. CASE RemoveRoomClient(s)
    BY <1>1, <2>2, RemovalEffect, Values
  <2> QED
    BY <2>1, <2>2, WaitTickEffect
<1>4. VariablesTyped'
  BY <1>1, <1>2, <1>3 DEF Basics, VariablesTyped, netVars, Collects, Tracking, Connection
<1>5. Fewer
  BY <1>2, <1>3, CollectsFewer
<1> QED
  BY <1>1, <1>4, <1>5, StillKeeps


-----------------------------------------------------------------------------
(* A socket opens. *)

Connects(c, s) ==
    /\ open
    /\ IsNext(c)
    /\ MayUse(s)
    /\ \E stage \in {"awaitJoined", "awaitReconnected"} :
         conn' = [conn EXCEPT ![c] = [@ EXCEPT !.stage = stage, !.session = s, !.socket = "open"]]
    /\ reserved' \subseteq reserved
    /\ timers' \in [Session -> Nat] /\ \A t \in Session : t # s => timers'[t] = timers[t]
    /\ timers'[s] # timers[s] => s \notin reserved'
    /\ UNCHANGED <<roomVars, seat, tracking, state, netVars>>

LEMMA ConnectsBasics ==
    ASSUME Basics, NEW c \in Conn, NEW s \in Session, Connects(c, s)
    PROVE  Basics'
<1>1. /\ conn[c].stage = "idle" /\ conn[c].session = None /\ conn[c].wait = 0 /\ Silent(c)
  BY Bounds DEF Connects, IsNext, Basics, ConnsTrue, ChannelsTrue, Conn
<1>2. /\ conn' \in [Conn -> Connection]
      /\ conn'[c].stage \in {"awaitJoined", "awaitReconnected"} /\ conn'[c].session = s
      /\ conn'[c].socket = "open" /\ conn'[c].wait = conn[c].wait
      /\ \A d \in Conn : d # c => conn'[d] = conn[d]
  <2>1. PICK stage \in {"awaitJoined", "awaitReconnected"} :
          conn' = [conn EXCEPT ![c] = [@ EXCEPT !.stage = stage, !.session = s, !.socket = "open"]]
    BY DEF Connects
  <2>2. conn \in [Conn -> Connection] /\ conn[c] \in Connection
    BY TrackingTyped
  <2>3. [conn[c] EXCEPT !.stage = stage, !.session = s, !.socket = "open"] \in Connection
    BY <2>2 DEF Connection
  <2>4. /\ conn' \in [Conn -> Connection]
        /\ conn'[c] = [conn[c] EXCEPT !.stage = stage, !.session = s, !.socket = "open"]
        /\ \A d \in Conn : d # c => conn'[d] = conn[d]
    BY <2>1, <2>2, <2>3
  <2> QED
    BY <2>2, <2>4 DEF Connection
<1>3. \A d \in Conn : conn[d].session = s => conn[d].socket = "closed"
  BY DEF Connects, MayUse, ConnsOf
<1>4. UNCHANGED <<open, terminated, locked, unlocked, calm, seat, tracking, state, up, down, view>> /\ open
  BY DEF Connects, roomVars, netVars
<1>5. VariablesTyped'
  BY <1>2, <1>4 DEF Basics, VariablesTyped, Connection, Connects
<1>6. ConnsTrue'
  BY <1>1, <1>2 DEF Basics, ConnsTrue
<1>7. SeatsTrue'
  <2>1. ASSUME NEW t \in Session, seat[t] \in Conn
        PROVE  conn'[seat[t]].session = t
    BY <1>1, <1>2, <2>1, Values DEF Basics, SeatsTrue
  <2>2. \A t \in reserved' : timers'[t] > 0
    BY DEF Connects, Basics, SeatsTrue, VariablesTyped
  <2> QED
    BY <1>4, <2>1, <2>2 DEF SeatsTrue
<1>8. OneSocket'
  BY <1>2, <1>3 DEF Basics, OneSocket
<1>9. ListenersTrue'
  <2>1. ASSUME NEW t \in Session, tracking[t].conn # None
        PROVE  Listens(t, tracking[t].conn)'
    <3>1. Listens(t, tracking[t].conn) /\ tracking[t].conn \in Conn
      BY <2>1, TrackingTyped DEF Basics, ListenersTrue, Tracking
    <3>2. tracking[t].conn # c
      BY <1>1, <3>1 DEF Listens
    <3> QED
      BY <1>2, <1>4, <3>1, <3>2 DEF Listens
  <2> QED
    BY <1>4, <2>1 DEF Basics, ListenersTrue
<1>10. ChannelsTrue'
  <2> SUFFICES ASSUME NEW d \in Conn
      PROVE  /\ conn'[d].stage # "established" => Silent(d)'
             /\ open' /\ conn'[d].socket = "closed" => Silent(d)'
             /\ Replaced(d)' => Silent(d)'
             /\ Snapshots(d)'
    BY DEF ChannelsTrue
  <2>1. Silent(d)' <=> Silent(d)
    BY <1>4 DEF Silent
  <2>2. CASE d = c
    <3>1. Silent(d)
      BY <1>1, <2>2
    <3>2. Snapshots(d)'
      BY <1>4, <3>1 DEF Silent, Snapshots
    <3> QED
      BY <2>1, <3>1, <3>2
  <2>3. CASE d # c
    <3>1. Snapshots(d)'
      BY <1>2, <1>4, <2>3 DEF Basics, ChannelsTrue, Snapshots
    <3>2. Replaced(d)' => Replaced(d) \/ conn[d].socket = "closed"
      BY <1>2, <1>3, <2>3 DEF Replaced
    <3> QED
      BY <1>2, <1>4, <2>1, <2>3, <3>1, <3>2 DEF Basics, ChannelsTrue
  <2> QED
    BY <2>2, <2>3
<1> QED
  BY <1>5, <1>6, <1>7, <1>8, <1>9, <1>10 DEF Basics

LEMMA ConnectSeatedBasics ==
    ASSUME Basics, NEW c \in Conn, NEW s \in Session, ConnectSeated(c, s)
    PROVE  Basics'
<1>1. /\ timers' \in [Session -> Nat]
      /\ \A t \in Session : t # s => timers'[t] = timers[t]
  BY DEF ConnectSeated, DisposeTimer, Basics, VariablesTyped, SeatsTrue
<1> QED
  BY <1>1, ConnectsBasics DEF ConnectSeated, Connects

LEMMA ConnectReturningBasics ==
    ASSUME Basics, NEW c \in Conn, NEW s \in Session, ConnectReturning(c, s)
    PROVE  Basics'
BY ConnectsBasics DEF ConnectReturning, Connects, seatVars, Basics, VariablesTyped

-----------------------------------------------------------------------------
(* A connection is established. *)

Establishes(c, track) ==
    LET s == conn[c].session
    IN  /\ conn[c].stage \in {"awaitJoined", "awaitReconnected"}
        /\ conn[c].socket = "open"
        /\ \E status \in {"connected", "reconnected"} :
             conn' = [conn EXCEPT ![c] = [@ EXCEPT !.stage = "established", !.status = status]]
        /\ StartTracking(c, track)
        /\ seat' = [seat EXCEPT ![s] = c]
        /\ state' \in States
        /\ {locked', unlocked'} \subseteq BOOLEAN
        /\ UNCHANGED <<open, terminated, calm, reserved, timers, up, view>>


\* What starts to track collects for the same listeners as before.
Prepared(track) ==
    /\ track \in Tracking
    /\ \A t \in Session :
         /\ track[t].conn = tracking[t].conn
         /\ \A i \in DOMAIN track[t].patches : ~IsOwn(track[t].patches[i], t)

\* An open room sends the state to a client that joins or returns; a closed one
\* may still have a listener on a closed socket.
LEMMA StartTrackingEffect ==
    ASSUME Basics, NEW c \in Conn, NEW track, Prepared(track), Establishes(c, track),
           NEW s, s = conn[c].session
    PROVE  /\ s \in Session
           /\ tracking' \in Tracking
           /\ \A t \in Session : t # s => tracking'[t] = track[t]
           /\ \A d \in Conn : d # c => down'[d] = down[d]
           /\ down' \in [Conn -> Seq(Messages)]
           /\ \/ /\ tracking[s].conn = None
                 /\ tracking'[s] = [conn |-> c, patches |-> <<>>]
                 /\ down'[c] = <<[type |-> "snapshot", data |-> state']>>
              \/ /\ tracking[s].conn \in Conn \ {c}
                 /\ tracking'[s] = track[s]
                 /\ down'[c] = <<>>
                 /\ ~open
           /\ view[c] = None
<1>1. /\ s \in Session /\ Silent(c)
      /\ conn[c].socket = "open" /\ conn[c].stage # "established"
  BY DEF Establishes, Basics, ConnsTrue, ChannelsTrue
<1>2. /\ track \in Tracking /\ track[s].conn = tracking[s].conn
      /\ down \in [Conn -> Seq(Messages)] /\ tracking[s].conn \in Conn \cup {None}
  BY <1>1, TrackingTyped DEF Prepared, Basics, VariablesTyped, Tracking
<1>3. CASE tracking[s].conn = None
  <2>1. /\ tracking' = [track EXCEPT ![s] = [conn |-> c, patches |-> <<>>]]
        /\ down' = [down EXCEPT ![c] = Append(@, [type |-> "snapshot", data |-> state'])]
    BY <1>2, <1>3 DEF Establishes, StartTracking
  <2>2. [type |-> "snapshot", data |-> state'] \in Messages
    BY DEF Establishes, Messages
  <2>3. Append(down[c], [type |-> "snapshot", data |-> state'])
          = <<[type |-> "snapshot", data |-> state']>>
    BY <1>1 DEF Silent
  <2>4. <<[type |-> "snapshot", data |-> state']>> \in Seq(Messages)
    BY <2>2
  <2>5. tracking' \in Tracking
    BY <1>1, <1>2, <2>1, EmptySeq DEF Tracking
  <2>6. \A t \in Session : t # s => tracking'[t] = track[t]
    BY <1>1, <1>2, <2>1 DEF Tracking
  <2>7. tracking'[s] = [conn |-> c, patches |-> <<>>]
    BY <1>1, <1>2, <2>1 DEF Tracking
  <2>8. /\ down' \in [Conn -> Seq(Messages)] /\ down'[c] = <<[type |-> "snapshot", data |-> state']>>
        /\ \A d \in Conn : d # c => down'[d] = down[d]
    BY <1>2, <2>1, <2>3, <2>4
  <2> QED
    BY <1>1, <1>3, <2>5, <2>6, <2>7, <2>8 DEF Silent
<1>4. CASE tracking[s].conn # None
  <2>1. tracking' = track /\ UNCHANGED down
    BY <1>2, <1>4 DEF Establishes, StartTracking
  <2>2. Listens(s, tracking[s].conn) /\ tracking[s].conn \in Conn
    BY <1>1, <1>2, <1>4 DEF Basics, ListenersTrue
  <2>3. tracking[s].conn # c
    BY <1>1, <2>2 DEF Listens
  <2>4. ~open
    BY <1>1, <2>2, <2>3 DEF Listens, Basics, OneSocket
  <2> QED
    BY <1>1, <1>2, <2>1, <2>2, <2>3, <2>4 DEF Silent
<1> QED
  BY <1>3, <1>4

LEMMA EstablishesBasics ==
    ASSUME Basics, NEW c \in Conn, NEW track, Prepared(track), Establishes(c, track)
    PROVE  Basics'
<1> PICK s \in Session : s = conn[c].session
  BY DEF Establishes, Basics, ConnsTrue
<1>1. conn[c].socket = "open" /\ conn[c].stage # "established" /\ conn[c].stage # "idle"
  BY DEF Establishes, Basics, ConnsTrue
<1>2. /\ conn' \in [Conn -> Connection]
      /\ conn'[c].stage = "established" /\ conn'[c].session = s
      /\ conn'[c].socket = "open" /\ conn'[c].wait = conn[c].wait
      /\ \A d \in Conn : d # c => conn'[d] = conn[d]
  <2>1. PICK status \in {"connected", "reconnected"} :
          conn' = [conn EXCEPT ![c] = [@ EXCEPT !.stage = "established", !.status = status]]
    BY DEF Establishes
  <2>2. conn \in [Conn -> Connection] /\ conn[c] \in Connection
    BY TrackingTyped
  <2>3. [conn[c] EXCEPT !.stage = "established", !.status = status] \in Connection
    BY <2>2 DEF Connection
  <2>4. /\ conn' \in [Conn -> Connection]
        /\ conn'[c] = [conn[c] EXCEPT !.stage = "established", !.status = status]
        /\ \A d \in Conn : d # c => conn'[d] = conn[d]
    BY <2>1, <2>2, <2>3
  <2> QED
    BY <1>1, <2>2, <2>4 DEF Connection
<1>3. /\ seat' \in [Session -> Conn \cup {None, Null}]
      /\ seat'[s] = c
      /\ \A t \in Session : t # s => seat'[t] = seat[t]
      /\ UNCHANGED <<open, terminated, calm, reserved, timers, up, view>>
      /\ state' \in States /\ {locked', unlocked'} \subseteq BOOLEAN
  BY <1>1 DEF Establishes, Basics, VariablesTyped
<1>4. \A d \in Conn : conn'[d].socket = conn[d].socket /\ conn'[d].session = conn[d].session
  BY <1>1, <1>2
<1>0. /\ tracking' \in Tracking
      /\ \A t \in Session : t # s => tracking'[t] = track[t]
      /\ \A d \in Conn : d # c => down'[d] = down[d]
      /\ down' \in [Conn -> Seq(Messages)]
      /\ \/ /\ tracking[s].conn = None
            /\ tracking'[s] = [conn |-> c, patches |-> <<>>]
            /\ down'[c] = <<[type |-> "snapshot", data |-> state']>>
         \/ /\ tracking[s].conn \in Conn \ {c}
            /\ tracking'[s] = track[s]
            /\ down'[c] = <<>>
            /\ ~open
      /\ view[c] = None
  BY StartTrackingEffect
<1>5. VariablesTyped'
  BY <1>2, <1>3, <1>0 DEF Basics, VariablesTyped, Tracking, Connection
<1>6. ConnsTrue'
  BY <1>1, <1>2 DEF Basics, ConnsTrue
<1>7. SeatsTrue'
  BY <1>3, <1>4 DEF Basics, SeatsTrue
<1>8. OneSocket'
  BY <1>4 DEF Basics, OneSocket
<1>9. ListenersTrue'
  <2>1. ASSUME NEW t \in Session, NEW d \in Conn, tracking'[t].conn = d, t # s
        PROVE  Listens(t, d)'
    <3>1. track[t].conn = d
      BY <2>1, <1>0
    <3>2. Listens(t, d)
      BY <2>1, <3>1, Values DEF Basics, ListenersTrue, Prepared
    <3>3. d # c
      BY <2>1, <3>2 DEF Listens
    <3>4. down'[d] = down[d]
      BY <3>3, <1>0
    <3> QED
      BY <1>2, <1>3, <3>2, <3>3, <3>4 DEF Listens
  <2>2. ASSUME NEW d \in Conn, tracking'[s].conn = d
        PROVE  Listens(s, d)'
    <3>1. CASE tracking'[s] = [conn |-> c, patches |-> <<>>] /\ down'[c] # <<>>
      BY <1>2, <2>2, <3>1 DEF Listens
    <3>2. CASE track[s].conn = d /\ d # c /\ ~open
      <4>1. Listens(s, d)
        BY <3>2, Values DEF Basics, ListenersTrue, Prepared
      <4>2. conn[d].socket # "open"
        BY <1>1, <3>2, <4>1 DEF Basics, OneSocket, Listens
      <4>3. conn'[d] = conn[d] /\ ~open'
        BY <1>2, <1>3, <3>2
      <4> QED
        BY <4>1, <4>2, <4>3 DEF Listens
    <3>3. <<[type |-> "snapshot", data |-> state']>> # <<>>
      OBVIOUS
    <3>4. \/ tracking'[s] = [conn |-> c, patches |-> <<>>] /\ down'[c] # <<>>
          \/ tracking[s].conn \in Conn \ {c} /\ tracking'[s] = track[s] /\ ~open
      BY <3>3, <1>0
    <3> QED
      BY <2>2, <3>1, <3>2, <3>4 DEF Prepared
  <2>3. ASSUME NEW t \in Session
        PROVE  \A i \in DOMAIN tracking'[t].patches : ~IsOwn(tracking'[t].patches[i], t)
    <3>1. DOMAIN <<>> = {}
      OBVIOUS
    <3>2. tracking'[t].patches = track[t].patches \/ tracking'[t].patches = <<>>
      <4>1. t # s => tracking'[t] = track[t]
        BY <1>0
      <4>2. tracking'[s] = [conn |-> c, patches |-> <<>>] \/ tracking'[s] = track[s]
        BY <1>0
      <4> QED
        BY <4>1, <4>2
    <3> QED
      BY <3>1, <3>2 DEF Prepared
  <2>4. \A t \in Session : tracking'[t].conn \in Conn \cup {None}
    BY <1>0 DEF Tracking
  <2> QED
    BY <2>1, <2>2, <2>3, <2>4 DEF ListenersTrue
<1>10. ChannelsTrue'
  <2> SUFFICES ASSUME NEW d \in Conn
      PROVE  /\ conn'[d].stage # "established" => Silent(d)'
             /\ open' /\ conn'[d].socket = "closed" => Silent(d)'
             /\ Replaced(d)' => Silent(d)'
             /\ Snapshots(d)'
    BY DEF ChannelsTrue
  <2>1. Replaced(d)' <=> Replaced(d)
    BY <1>4 DEF Replaced
  <2>2. CASE d = c
    <3>1. ~Replaced(d)
      BY <1>1, <2>2 DEF Basics, OneSocket, Replaced
    <3>3. view'[c] = None /\ up'[c] = <<>>
      BY <1>1, <1>3, <1>0 DEF Basics, ChannelsTrue, Silent
    <3>2. Snapshots(d)'
      <4>1. CASE down'[c] = <<>>
        BY <2>2, <3>3, <4>1 DEF Snapshots
      <4>2. CASE down'[c] = <<[type |-> "snapshot", data |-> state']>>
        <5>1. DOMAIN down'[c] = {1} /\ down'[c][1].type = "snapshot"
          BY <4>2
        <5> QED
          BY <2>2, <3>3, <5>1 DEF Snapshots, IsOwn
      <4> QED
        BY <4>1, <4>2, <1>0
    <3> QED
      BY <1>2, <2>1, <2>2, <3>1, <3>2
  <2>3. CASE d # c
    <3>1. down'[d] = down[d] /\ view'[d] = view[d] /\ up'[d] = up[d] /\ conn'[d] = conn[d]
      BY <1>2, <1>3, <2>3, <1>0
    <3>2. Silent(d)' <=> Silent(d)
      BY <3>1 DEF Silent
    <3>3. Snapshots(d)' <=> Snapshots(d)
      BY <3>1 DEF Snapshots
    <3> QED
      BY <1>3, <2>1, <3>1, <3>2, <3>3 DEF Basics, ChannelsTrue
  <2> QED
    BY <2>2, <2>3
<1> QED
  BY <1>5, <1>6, <1>7, <1>8, <1>9, <1>10 DEF Basics

LEMMA JoinedBasics ==
    ASSUME Basics, NEW c \in Conn, Joined(c)
    PROVE  /\ Prepared(Broadcast(tracking, conn[c].session, PlayerPatch(conn[c].session, "here")))
           /\ Establishes(c, Broadcast(tracking, conn[c].session,
                                       PlayerPatch(conn[c].session, "here")))
           /\ Basics'
<1> PICK s \in Session : s = conn[c].session
  BY DEF Joined, Basics, ConnsTrue
<1> PICK patch : patch = PlayerPatch(s, "here")
  OBVIOUS
<1> DEFINE track == Broadcast(tracking, s, patch)
<1>1. patch \in Patches /\ patch.type = "player"
  BY DEF Joined, Basics, ConnsTrue, PlayerPatch, Patches
<1>2. state' \in States
  BY <1>1 DEF Joined, Basics, VariablesTyped, States
<1>3. Prepared(track)
  <2>1. tracking \in Tracking /\ track \in Tracking
    BY <1>1, TrackingTyped, BroadcastEffect
  <2>2. \A t \in Session : \A i \in DOMAIN tracking[t].patches : ~IsOwn(tracking[t].patches[i], t)
    BY DEF Basics, ListenersTrue
  <2>3. PICK new : new = track
    OBVIOUS
  <2>4. \A t \in Session : \A i \in DOMAIN new[t].patches : ~IsOwn(new[t].patches[i], t)
    BY <1>1, <2>1, <2>2, <2>3, BroadcastQuiet
  <2>5. new \in Tracking /\ \A t \in Session : new[t].conn = tracking[t].conn
    BY <1>1, <2>1, <2>3, BroadcastEffect
  <2>6. Prepared(new)
    BY <2>4, <2>5 DEF Prepared
  <2> QED
    BY <2>3, <2>6
<1>4. Establishes(c, track)
  <2>1. {locked', unlocked'} \subseteq BOOLEAN
    BY DEF Joined, Basics, VariablesTyped, Full
  <2> QED
    BY <1>2, <2>1 DEF Joined, Establishes
<1> QED
  BY <1>3, <1>4, EstablishesBasics

LEMMA ReconnectedBasics ==
    ASSUME Basics, NEW c \in Conn, Reconnected(c)
    PROVE  Prepared(tracking) /\ Establishes(c, tracking) /\ Basics'
<1>1. Prepared(tracking)
  BY TrackingTyped DEF Prepared, Basics, ListenersTrue
<1>2. Establishes(c, tracking)
  BY DEF Reconnected, Establishes, Basics, VariablesTyped, roomVars
<1> QED
  BY <1>1, <1>2, EstablishesBasics


-----------------------------------------------------------------------------
(* A socket closes. *)

LEMMA DropEffect ==
    ASSUME Basics, NEW c \in Conn, NEW consented \in BOOLEAN, Drop(c, consented),
           NEW s, s = conn[c].session
    PROVE  /\ s \in Session /\ conn[c].stage # "idle"
           /\ conn' \in [Conn -> Connection]
           /\ \A d \in Conn : d # c => conn'[d] = conn[d]
           /\ conn'[c].stage = conn[c].stage /\ conn'[c].session = s
           /\ conn'[c].socket = "closed" /\ conn'[c].status = "disconnected"
           /\ conn'[c].wait = IF open /\ seat[s] \in Conn /\ ~consented THEN WaitSeconds ELSE 0
           /\ up' \in [Conn -> Seq(0..MaxWrites)] /\ down' \in [Conn -> Seq(Messages)]
           /\ view' \in [Conn -> States \cup {None}]
           /\ up'[c] = <<>> /\ down'[c] = <<>> /\ view'[c] = None
           /\ \A d \in Conn : d # c => up'[d] = up[d] /\ down'[d] = down[d] /\ view'[d] = view[d]
<1> DEFINE waits == open /\ seat[s] \in Conn /\ ~consented
           left == IF waits THEN WaitSeconds ELSE 0
<1>1. s \in Session /\ conn[c].stage # "idle"
  BY DEF Drop, Basics, ConnsTrue
<1>2. /\ conn' = [conn EXCEPT ![c] = [@ EXCEPT !.socket = "closed", !.status = "disconnected",
                                               !.wait = left]]
      /\ left \in 0..WaitSeconds
  BY Bounds DEF Drop
<1>3. conn \in [Conn -> Connection] /\ conn[c] \in Connection
  BY TrackingTyped
<1> HIDE DEF left
<1>4. [conn[c] EXCEPT !.socket = "closed", !.status = "disconnected", !.wait = left] \in Connection
  BY <1>2, <1>3 DEF Connection
<1>5. /\ conn' \in [Conn -> Connection]
      /\ conn'[c] = [conn[c] EXCEPT !.socket = "closed", !.status = "disconnected", !.wait = left]
      /\ \A d \in Conn : d # c => conn'[d] = conn[d]
  BY <1>2, <1>3, <1>4
<1>6. /\ conn'[c].stage = conn[c].stage /\ conn'[c].session = s
      /\ conn'[c].socket = "closed" /\ conn'[c].status = "disconnected"
      /\ conn'[c].wait = left
  BY <1>3, <1>5 DEF Connection
<1>7. /\ up' \in [Conn -> Seq(0..MaxWrites)] /\ down' \in [Conn -> Seq(Messages)]
      /\ view' \in [Conn -> States \cup {None}]
      /\ up'[c] = <<>> /\ down'[c] = <<>> /\ view'[c] = None
      /\ \A d \in Conn : d # c => up'[d] = up[d] /\ down'[d] = down[d] /\ view'[d] = view[d]
  BY EmptySeq DEF Drop, Silence, Basics, VariablesTyped
<1> QED
  BY <1>1, <1>5, <1>6, <1>7 DEF left

LEMMA DropCollects ==
    ASSUME Basics, NEW c \in Conn, NEW consented \in BOOLEAN, Drop(c, consented),
           NEW s, s = conn[c].session
    PROVE  /\ tracking' \in Tracking /\ state' \in States
           /\ \A t \in Session :
                /\ \A i \in DOMAIN tracking'[t].patches : ~IsOwn(tracking'[t].patches[i], t)
                /\ tracking'[t].conn = IF open /\ t = s THEN None ELSE tracking[t].conn
           /\ seat' \in [Session -> Conn \cup {None, Null}]
           /\ \A t \in Session : seat'[t] \in Conn => seat'[t] = seat[t]
           /\ open' \in BOOLEAN /\ (open' => open)
           /\ UNCHANGED <<terminated, locked, unlocked, calm, reserved, timers>>
<1>1. s \in Session
  BY DropEffect
<1>2. /\ Untracked(s) \in Tracking
      /\ \A t \in Session : \A i \in DOMAIN Untracked(s)[t].patches :
           ~IsOwn(Untracked(s)[t].patches[i], t)
      /\ \A t \in Session : Untracked(s)[t].conn = IF t = s THEN None ELSE tracking[t].conn
  BY <1>1, UntrackedQuiet
<1>3. CASE ~open /\ UNCHANGED <<roomVars, seatVars, tracking, state>>
  BY <1>3, TrackingTyped DEF Basics, VariablesTyped, ListenersTrue, roomVars, seatVars
<1>4. CASE /\ open
           /\ SetPlayerConnection(Untracked(s), s, "away")
           /\ UNCHANGED <<roomVars, seatVars>>
  <2>1. Collects(Untracked(s)) /\ state' \in States
    BY <1>1, <1>2, <1>4, TrackingTyped, SetPlayerCollects
  <2> QED
    BY <1>2, <1>4, <2>1 DEF Collects, Basics, VariablesTyped, roomVars, seatVars
<1>5. CASE /\ open
           /\ RemoveRoomClient(s)
           /\ \/ SetPlayer(Untracked(s), s, None)
              \/ tracking' = Untracked(s) /\ UNCHANGED state
  <2>1. Collects(Untracked(s)) /\ state' \in States
    <3>1. CASE SetPlayer(Untracked(s), s, None)
      BY <1>1, <1>2, <3>1, TrackingTyped, SetPlayerCollects
    <3>2. CASE tracking' = Untracked(s) /\ UNCHANGED state
      BY <1>2, <3>2, TrackingTyped DEF Collects
    <3> QED
      BY <1>5, <3>1, <3>2
  <2>2. \A t \in Session : seat'[t] \in Conn => seat'[t] = seat[t]
    BY <1>1, <1>5, RemovalEffect, Values
  <2> QED
    BY <1>1, <1>2, <1>5, <2>1, <2>2, RemovalEffect DEF Collects
<1> QED
  BY <1>3, <1>4, <1>5 DEF Drop

LEMMA DropBasics ==
    ASSUME Basics, NEW c \in Conn, NEW consented \in BOOLEAN, Drop(c, consented)
    PROVE  Basics'
<1> PICK s : s = conn[c].session
  OBVIOUS
<1>1. /\ s \in Session /\ conn[c].stage # "idle"
      /\ conn' \in [Conn -> Connection]
      /\ \A d \in Conn : d # c => conn'[d] = conn[d]
      /\ conn'[c].stage = conn[c].stage /\ conn'[c].session = s
      /\ conn'[c].socket = "closed"
  BY DropEffect
<1>2. /\ up' \in [Conn -> Seq(0..MaxWrites)] /\ down' \in [Conn -> Seq(Messages)]
      /\ view' \in [Conn -> States \cup {None}]
      /\ up'[c] = <<>> /\ down'[c] = <<>> /\ view'[c] = None
      /\ \A d \in Conn : d # c => up'[d] = up[d] /\ down'[d] = down[d] /\ view'[d] = view[d]
  BY DropEffect
<1>3. /\ tracking' \in Tracking /\ state' \in States
      /\ \A t \in Session :
           /\ \A i \in DOMAIN tracking'[t].patches : ~IsOwn(tracking'[t].patches[i], t)
           /\ tracking'[t].conn = IF open /\ t = s THEN None ELSE tracking[t].conn
  BY DropCollects
<1>4. /\ seat' \in [Session -> Conn \cup {None, Null}]
      /\ \A t \in Session : seat'[t] \in Conn => seat'[t] = seat[t]
      /\ open' \in BOOLEAN /\ (open' => open)
      /\ UNCHANGED <<terminated, locked, unlocked, calm, reserved, timers>>
  BY DropCollects
<1>5. VariablesTyped'
  BY <1>1, <1>2, <1>3, <1>4 DEF Basics, VariablesTyped, Connection, Tracking
<1>6. ConnsTrue'
  BY <1>1 DEF Basics, ConnsTrue
<1>7. SeatsTrue'
  BY <1>1, <1>4 DEF Basics, SeatsTrue
<1>8. OneSocket'
  BY <1>1 DEF Basics, OneSocket
<1>9. ListenersTrue'
  <2>1. ASSUME NEW t \in Session, NEW d \in Conn, tracking'[t].conn = d
        PROVE  Listens(t, d)'
    <3>1. tracking[t].conn = d /\ ~(open /\ t = s)
      BY <1>3, <2>1, Values
    <3>2. Listens(t, d)
      BY <3>1, Values DEF Basics, ListenersTrue
    <3>3. CASE d = c
      BY <1>1, <1>4, <3>1, <3>2, <3>3 DEF Listens
    <3>4. CASE d # c
      BY <1>1, <1>2, <1>4, <3>2, <3>4 DEF Listens
    <3> QED
      BY <3>3, <3>4
  <2>2. \A t \in Session : tracking'[t].conn \in Conn \cup {None}
    BY <1>3 DEF Tracking
  <2> QED
    BY <1>3, <2>1, <2>2 DEF ListenersTrue
<1>10. ChannelsTrue'
  <2> SUFFICES ASSUME NEW d \in Conn
      PROVE  /\ conn'[d].stage # "established" => Silent(d)'
             /\ open' /\ conn'[d].socket = "closed" => Silent(d)'
             /\ Replaced(d)' => Silent(d)'
             /\ Snapshots(d)'
    BY DEF ChannelsTrue
  <2>1. CASE d = c
    <3>1. Silent(d)'
      BY <1>2, <2>1 DEF Silent
    <3>2. DOMAIN down'[d] = {} /\ up'[d] = <<>>
      BY <1>2, <2>1
    <3>3. Snapshots(d)'
      BY <3>2 DEF Snapshots
    <3> QED
      BY <3>1, <3>3
  <2>2. CASE d # c
    <3>1. down'[d] = down[d] /\ view'[d] = view[d] /\ up'[d] = up[d] /\ conn'[d] = conn[d]
      BY <1>1, <1>2, <2>2
    <3>2. (Silent(d)' <=> Silent(d)) /\ (Snapshots(d)' <=> Snapshots(d))
      BY <3>1 DEF Silent, Snapshots
    <3>3. Replaced(d)' => Replaced(d)
      BY <1>1, <3>1 DEF Replaced
    <3> QED
      BY <1>4, <3>1, <3>2, <3>3 DEF Basics, ChannelsTrue
  <2> QED
    BY <2>1, <2>2
<1> QED
  BY <1>5, <1>6, <1>7, <1>8, <1>9, <1>10 DEF Basics

-----------------------------------------------------------------------------
(* The room closes. *)

Gone == {s \in Session : seat[s] \in Conn}
Removals == SetToSeq({PlayerPatch(s, None) : s \in Gone})

LEMMA SetToSeqEffect ==
    ASSUME NEW S, IsFiniteSet(S)
    PROVE  /\ SetToSeq(S) \in Seq(S)
           /\ \A x \in S : \E i \in DOMAIN SetToSeq(S) : SetToSeq(S)[i] = x
           /\ \A i, j \in DOMAIN SetToSeq(S) : SetToSeq(S)[i] = SetToSeq(S)[j] => i = j
<1> DEFINE n == Cardinality(S)
<1>1. n \in Nat /\ Bijection(1..n, S) # {}
  BY FS_CardinalityType DEF ExistsBijection
<1>2. \E f \in [1..n -> S] : IsInjective(f)
  BY <1>1 DEF Bijection, Injection
<1>3. SetToSeq(S) \in [1..n -> S] /\ IsInjective(SetToSeq(S))
  BY <1>2 DEF SetToSeq
<1>4. SetToSeq(S) \in Seq(S)
  BY <1>1, <1>3, SeqDef
<1>5. SetToSeq(S) \in Injection(1..n, S)
  BY <1>3 DEF Injection
<1>6. IsFiniteSet(1..n) /\ Cardinality(1..n) = n
  BY <1>1, FS_Interval
<1>7. SetToSeq(S) \in Surjection(1..n, S)
  BY <1>1, <1>5, <1>6, FS_Injection
<1> QED
  BY <1>3, <1>4, <1>7 DEF Surjection, IsInjective

\* Every player that is removed is told of once.
LEMMA RemovalsTell ==
    /\ Removals \in Seq(Patches)
    /\ \A i \in DOMAIN Removals : \E s \in Gone : Removals[i] = PlayerPatch(s, None)
    /\ \A s \in Gone : \E i \in DOMAIN Removals : Removals[i] = PlayerPatch(s, None)
    /\ \A i, j \in DOMAIN Removals : Removals[i] = Removals[j] => i = j
<1> DEFINE S == {PlayerPatch(s, None) : s \in Gone}
           image == [s \in Gone |-> PlayerPatch(s, None)]
<1>1. IsFiniteSet(S)
  <2>1. IsFiniteSet(Gone)
    BY Bounds, FS_Subset DEF Gone
  <2>2. image \in Surjection(Gone, S)
    BY DEF Surjection
  <2> QED
    BY <2>1, <2>2, FS_Surjection
<1>2. S \subseteq Patches
  BY DEF PlayerPatch, Patches, Gone
<1>3. /\ Removals \in Seq(S)
      /\ \A x \in S : \E i \in DOMAIN Removals : Removals[i] = x
      /\ \A i, j \in DOMAIN Removals : Removals[i] = Removals[j] => i = j
  BY <1>1, SetToSeqEffect DEF Removals
<1> HIDE DEF S
<1>4. Removals \in Seq(Patches) /\ \A i \in DOMAIN Removals : Removals[i] \in S
  BY <1>2, <1>3
<1> QED
  BY <1>3, <1>4 DEF S

LEMMA ConcatElements ==
    ASSUME NEW S, NEW p \in Seq(S), NEW q \in Seq(S)
    PROVE  /\ p \o q \in Seq(S)
           /\ DOMAIN p = 1..Len(p) /\ DOMAIN q = 1..Len(q) /\ Len(p) \in Nat /\ Len(q) \in Nat
           /\ DOMAIN (p \o q) = 1..Len(p) + Len(q)
           /\ \A i \in DOMAIN p : (p \o q)[i] = p[i]
           /\ \A i \in DOMAIN q : (p \o q)[Len(p) + i] = q[i]
           /\ \A i \in DOMAIN (p \o q) :
                \/ i \in DOMAIN p
                \/ /\ \E j \in DOMAIN q : i = Len(p) + j /\ (p \o q)[i] = q[j]
                   /\ i = 1 => p = <<>>
<1>1. /\ p \o q \in Seq(S) /\ Len(p \o q) = Len(p) + Len(q)
      /\ \A i \in 1..Len(p) + Len(q) : (p \o q)[i] = IF i <= Len(p) THEN p[i] ELSE q[i - Len(p)]
  BY ConcatProperties
<1>2. /\ DOMAIN p = 1..Len(p) /\ DOMAIN q = 1..Len(q) /\ Len(p) \in Nat /\ Len(q) \in Nat
      /\ DOMAIN (p \o q) = 1..Len(p) + Len(q)
  BY <1>1, LenProperties
<1>3. \A i \in DOMAIN q : Len(p) + i \in 1..Len(p) + Len(q) /\ ~(Len(p) + i <= Len(p)) /\ Len(p) + i - Len(p) = i
  BY <1>2
<1>4. \A i \in DOMAIN q : (p \o q)[Len(p) + i] = q[i]
  BY <1>1, <1>2, <1>3
<1>5. \A i \in DOMAIN p : (p \o q)[i] = p[i]
  BY <1>1, <1>2
<1>6. ASSUME NEW i \in DOMAIN (p \o q), i \notin DOMAIN p
      PROVE  /\ \E j \in DOMAIN q : i = Len(p) + j /\ (p \o q)[i] = q[j]
             /\ i = 1 => p = <<>>
  <2>1. i - Len(p) \in DOMAIN q /\ i = Len(p) + (i - Len(p))
    BY <1>2, <1>6
  <2>2. i = 1 => Len(p) = 0
    BY <1>2, <1>6
  <2> QED
    BY <1>4, <2>1, <2>2, EmptySeq
<1> QED
  BY <1>1, <1>2, <1>4, <1>5, <1>6

\* The listeners that stay collect the removals.
LEMMA CloseRoomEffect ==
    ASSUME Basics, CloseRoom
    PROVE  /\ open /\ ~open' /\ terminated'
           /\ seat' = [s \in Session |-> None]
           /\ state' \in States
           /\ state'.cells = state.cells
           /\ \A s \in Session : state'.players[s] = IF s \in Gone THEN None ELSE state.players[s]
           /\ tracking' \in Tracking
           /\ \A s \in Gone : tracking'[s] = [conn |-> None, patches |-> <<>>]
           /\ \A s \in Session \ Gone :
                /\ tracking'[s].conn = tracking[s].conn
                /\ tracking'[s].patches = IF tracking[s].conn = None THEN tracking[s].patches
                                          ELSE tracking[s].patches \o Removals
           /\ conn' \in [Conn -> Connection]
           /\ \A c \in Conn :
                /\ conn'[c].stage = conn[c].stage /\ conn'[c].session = conn[c].session
                /\ conn'[c].status = conn[c].status /\ conn'[c].wait = conn[c].wait
                /\ conn'[c].socket = IF \E s \in Session : seat[s] = c THEN "closed"
                                     ELSE conn[c].socket
           /\ UNCHANGED <<locked, unlocked, calm, reserved, timers, netVars>>
<1>1. /\ open /\ ~open' /\ terminated'
      /\ seat' = [s \in Session |-> None]
      /\ tracking' = [s \in Session |->
                      IF s \in Gone THEN Untracked(s)[s]
                      ELSE IF tracking[s].conn = None THEN tracking[s]
                      ELSE [tracking[s] EXCEPT !.patches = @ \o Removals]]
      /\ state' = [state EXCEPT !.players = [s \in Session |-> IF s \in Gone THEN None ELSE @[s]]]
      /\ conn' = [c \in Conn |->
                  IF \E s \in Session : seat[s] = c THEN [conn[c] EXCEPT !.socket = "closed"]
                  ELSE conn[c]]
      /\ UNCHANGED <<locked, unlocked, calm, reserved, timers, netVars>>
  BY Zenon DEF CloseRoom, Gone, Removals
<1>2. tracking \in Tracking /\ state \in States /\ conn \in [Conn -> Connection] /\ Gone \subseteq Session
  BY TrackingTyped DEF Gone
<1>3. /\ state' \in States /\ state'.cells = state.cells
      /\ \A s \in Session : state'.players[s] = IF s \in Gone THEN None ELSE state.players[s]
  BY <1>1, <1>2 DEF States
<1>4. ASSUME NEW s \in Session
      PROVE  /\ tracking'[s] \in [conn : Conn \cup {None}, patches : Seq(Patches)]
             /\ s \in Gone => tracking'[s] = [conn |-> None, patches |-> <<>>]
             /\ s \notin Gone =>
                  /\ tracking'[s].conn = tracking[s].conn
                  /\ tracking'[s].patches = IF tracking[s].conn = None THEN tracking[s].patches
                                            ELSE tracking[s].patches \o Removals
  <2>1. tracking[s] \in [conn : Conn \cup {None}, patches : Seq(Patches)]
    BY <1>2 DEF Tracking
  <2>2. CASE s \in Gone
    <3>1. tracking'[s] = [conn |-> None, patches |-> <<>>]
      BY <1>1, <1>2, <2>2, UntrackedEffect
    <3> QED
      BY <2>2, <3>1, EmptySeq
  <2>3. CASE s \notin Gone /\ tracking[s].conn = None
    BY <1>1, <2>1, <2>3
  <2>4. CASE s \notin Gone /\ tracking[s].conn # None
    <3>1. tracking[s].patches \o Removals \in Seq(Patches)
      BY <2>1, RemovalsTell, ConcatProperties
    <3>2. tracking'[s] = [tracking[s] EXCEPT !.patches = @ \o Removals]
      BY <1>1, <2>4
    <3> QED
      BY <2>1, <2>4, <3>1, <3>2
  <2> QED
    BY <2>2, <2>3, <2>4
<1>5. tracking' \in Tracking
  BY <1>1, <1>4 DEF Tracking
<1>6. \A c \in Conn :
        /\ conn'[c] \in Connection
        /\ conn'[c].stage = conn[c].stage /\ conn'[c].session = conn[c].session
        /\ conn'[c].status = conn[c].status /\ conn'[c].wait = conn[c].wait
        /\ conn'[c].socket = IF \E s \in Session : seat[s] = c THEN "closed" ELSE conn[c].socket
  <2> SUFFICES ASSUME NEW c \in Conn
      PROVE  /\ conn'[c] \in Connection
             /\ conn'[c].stage = conn[c].stage /\ conn'[c].session = conn[c].session
             /\ conn'[c].status = conn[c].status /\ conn'[c].wait = conn[c].wait
             /\ conn'[c].socket = IF \E s \in Session : seat[s] = c THEN "closed"
                                  ELSE conn[c].socket
    OBVIOUS
  <2>1. conn'[c] = IF \E s \in Session : seat[s] = c THEN [conn[c] EXCEPT !.socket = "closed"]
                   ELSE conn[c]
    BY <1>1
  <2>2. conn[c] \in Connection
    BY <1>2
  <2> QED
    BY ONLY <2>1, <2>2 DEF Connection
<1>7. conn' \in [Conn -> Connection]
  BY <1>1, <1>6
<1> QED
  BY <1>1, <1>2, <1>3, <1>4, <1>5, <1>6, <1>7

LEMMA CloseRoomBasics ==
    ASSUME Basics, CloseRoom
    PROVE  Basics'
<1>1. /\ open /\ ~open' /\ terminated'
      /\ seat' = [s \in Session |-> None]
      /\ state' \in States /\ tracking' \in Tracking /\ conn' \in [Conn -> Connection]
      /\ UNCHANGED <<locked, unlocked, calm, reserved, timers, up, down, view>>
  BY CloseRoomEffect DEF netVars
<1>2. \A c \in Conn :
        /\ conn'[c].stage = conn[c].stage /\ conn'[c].session = conn[c].session
        /\ conn'[c].wait = conn[c].wait
        /\ conn'[c].socket = IF \E s \in Session : seat[s] = c THEN "closed" ELSE conn[c].socket
  BY CloseRoomEffect
<1>3. VariablesTyped'
  <2>1. open' \in BOOLEAN /\ terminated' \in BOOLEAN
    BY DEF CloseRoom
  <2> QED
    BY <1>1, <2>1 DEF Basics, VariablesTyped, Tracking, Connection
<1>4. ConnsTrue'
  <2>1. \A c \in Conn : conn[c].stage = "idle" => ~(\E s \in Session : seat[s] = c)
    BY Values DEF Basics, ConnsTrue, SeatsTrue
  <2> QED
    BY <1>2, <2>1 DEF Basics, ConnsTrue
<1>5. SeatsTrue'
  BY <1>1, Values DEF Basics, SeatsTrue
<1>6. OneSocket'
  BY <1>2 DEF Basics, OneSocket
<1>7. ListenersTrue'
  <2>1. ASSUME NEW t \in Session, NEW d \in Conn, tracking'[t].conn = d
        PROVE  Listens(t, d)'
    <3>1. t \notin Gone /\ tracking[t].conn = d
      BY <2>1, CloseRoomEffect, Values
    <3>2. Listens(t, d)
      BY <3>1, Values DEF Basics, ListenersTrue
    <3> QED
      BY <1>1, <1>2, <3>2 DEF Listens
  <2>2. ASSUME NEW t \in Session
        PROVE  \A i \in DOMAIN tracking'[t].patches : ~IsOwn(tracking'[t].patches[i], t)
    <3>1. \A i \in DOMAIN tracking[t].patches : ~IsOwn(tracking[t].patches[i], t)
      BY DEF Basics, ListenersTrue
    <3>2. CASE tracking'[t] = [conn |-> None, patches |-> <<>>]
      <4>1. tracking'[t].patches = <<>>
        BY <3>2
      <4> QED
        BY <4>1
    <3>3. CASE tracking'[t].patches = tracking[t].patches
      BY <3>1, <3>3
    <3>4. CASE tracking'[t].patches = tracking[t].patches \o Removals
      <4>1. PICK p \in Seq(Patches) : p = tracking[t].patches
        BY TrackingTyped DEF Tracking
      <4>2. \A i \in DOMAIN Removals : ~IsOwn(Removals[i], t)
        BY RemovalsTell DEF IsOwn, PlayerPatch
      <4>3. /\ DOMAIN p = 1..Len(p) /\ DOMAIN Removals = 1..Len(Removals)
            /\ Len(p) \in Nat /\ Len(Removals) \in Nat
            /\ DOMAIN (p \o Removals) = 1..Len(p) + Len(Removals)
            /\ \A i \in DOMAIN p : (p \o Removals)[i] = p[i]
            /\ \A i \in DOMAIN Removals : (p \o Removals)[Len(p) + i] = Removals[i]
        BY RemovalsTell, ConcatElements
      <4>4. ASSUME NEW i \in DOMAIN (p \o Removals)
            PROVE  ~IsOwn((p \o Removals)[i], t)
        <5>1. CASE i \in DOMAIN p
          BY <3>1, <4>1, <4>3, <5>1
        <5>2. CASE i \notin DOMAIN p
          <6>1. i - Len(p) \in DOMAIN Removals /\ Len(p) + (i - Len(p)) = i
            BY <4>3, <5>2
          <6>2. (p \o Removals)[i] = Removals[i - Len(p)]
            BY <4>3, <6>1
          <6> QED
            BY <4>2, <6>1, <6>2
        <5> QED
          BY <5>1, <5>2
      <4> QED
        BY <3>4, <4>1, <4>4
    <3> QED
      BY <3>2, <3>3, <3>4, CloseRoomEffect
  <2>3. \A t \in Session : tracking'[t].conn \in Conn \cup {None}
    BY <1>1 DEF Tracking
  <2> QED
    BY <2>1, <2>2, <2>3 DEF ListenersTrue
<1>8. ChannelsTrue'
  <2>1. ASSUME NEW c \in Conn
        PROVE  /\ Silent(c)' <=> Silent(c)
               /\ Replaced(c)' => Replaced(c)
               /\ Snapshots(c)' <=> Snapshots(c)
    BY <1>1, <1>2 DEF Silent, Replaced, Snapshots
  <2> QED
    BY <1>1, <1>2, <2>1 DEF Basics, ChannelsTrue
<1> QED
  BY <1>3, <1>4, <1>5, <1>6, <1>7, <1>8 DEF Basics


-----------------------------------------------------------------------------
(* State changes on their way. *)

\* A step of one channel that is in use, the room and the sockets being the same.
ChannelStep(c) ==
    /\ ~Silent(c)
    /\ UNCHANGED <<roomVars, seatVars, conn>>
    /\ Collects(tracking)
    /\ \A d \in Conn : d # c => up'[d] = up[d] /\ down'[d] = down[d] /\ view'[d] = view[d]
    /\ view'[c] # None \/ down'[c] # <<>>
    /\ Snapshots(c)'

LEMMA ChannelStepBasics ==
    ASSUME Basics, NEW c \in Conn, ChannelStep(c), VariablesTyped'
    PROVE  Basics'
<1>1. /\ UNCHANGED <<open, terminated, locked, unlocked, calm, seat, reserved, timers, conn>>
      /\ \A d \in Conn : d # c => up'[d] = up[d] /\ down'[d] = down[d] /\ view'[d] = view[d]
  BY DEF ChannelStep, roomVars, seatVars
<1>2. ConnsTrue' /\ SeatsTrue' /\ OneSocket'
  BY <1>1 DEF Basics, ConnsTrue, SeatsTrue, OneSocket
<1>3. ListenersTrue'
  <2>1. ASSUME NEW t \in Session, NEW d \in Conn, tracking'[t].conn = d
        PROVE  Listens(t, d)'
    <3>1. Listens(t, d)
      BY <2>1, Values DEF Basics, ListenersTrue, ChannelStep, Collects
    <3>2. view'[d] # None \/ down'[d] # <<>> \/ (view'[d] = view[d] /\ down'[d] = down[d])
      BY <1>1 DEF ChannelStep
    <3> QED
      BY <1>1, <3>1, <3>2 DEF Listens
  <2>2. \A t \in Session : tracking'[t].conn \in Conn \cup {None}
    BY DEF ChannelStep, Collects, Tracking
  <2> QED
    BY <2>1, <2>2 DEF ListenersTrue, ChannelStep, Collects
<1>4. ChannelsTrue'
  <2> SUFFICES ASSUME NEW d \in Conn
      PROVE  /\ conn'[d].stage # "established" => Silent(d)'
             /\ open' /\ conn'[d].socket = "closed" => Silent(d)'
             /\ Replaced(d)' => Silent(d)'
             /\ Snapshots(d)'
    BY DEF ChannelsTrue
  <2>1. Replaced(d)' <=> Replaced(d)
    BY <1>1 DEF Replaced
  <2>2. CASE d = c
    BY <1>1, <2>1, <2>2 DEF Basics, ChannelsTrue, ChannelStep
  <2>3. CASE d # c
    <3>1. (Silent(d)' <=> Silent(d)) /\ (Snapshots(d)' <=> Snapshots(d))
      BY <1>1, <2>3 DEF Silent, Snapshots
    <3> QED
      BY <1>1, <2>1, <3>1 DEF Basics, ChannelsTrue
  <2> QED
    BY <2>2, <2>3
<1> QED
  BY <1>2, <1>3, <1>4 DEF Basics

LEMMA FlushBasics ==
    ASSUME Basics, NEW s \in Session, Flush(s)
    PROVE  Basics'
<1> PICK c \in Conn : c = tracking[s].conn
  BY TrackingTyped DEF Flush, Tracking
<1> PICK p \in Seq(Patches) : p = tracking[s].patches
  BY TrackingTyped DEF Tracking
<1>1. /\ tracking' = [tracking EXCEPT ![s].patches = <<>>]
      /\ down' = IF conn[c].socket # "open" THEN down ELSE [down EXCEPT ![c] = @ \o p]
      /\ UNCHANGED <<roomVars, seatVars, conn, state, up, view>>
  BY DEF Flush, Collected
<1>2. Collects(tracking)
  <2>1. /\ tracking' \in Tracking
        /\ \A t \in Session : t # s => tracking'[t] = tracking[t]
        /\ tracking'[s].conn = tracking[s].conn /\ tracking'[s].patches = <<>>
    BY <1>1, TrackingTyped, EmptySeq DEF Tracking
  <2> QED
    BY <2>1 DEF Collects, Basics, ListenersTrue
<1>3. Listens(s, c) /\ \A i \in DOMAIN p : ~IsOwn(p[i], s)
  BY Values DEF Basics, ListenersTrue
<1>4. down \in [Conn -> Seq(Messages)] /\ p \in Seq(Messages)
  BY DEF Basics, VariablesTyped, Messages
<1>5. CASE conn[c].socket # "open"
  <2>1. UNCHANGED <<roomVars, seatVars, conn, state, netVars>>
    BY <1>1, <1>5 DEF netVars
  <2>2. VariablesTyped'
    BY <1>2, <2>1 DEF Basics, VariablesTyped, Collects, Tracking, roomVars, seatVars, netVars
  <2>3. SameSockets /\ Fewer
    BY <1>2, <2>1 DEF SameSockets, Fewer, Collects, Basics, SeatsTrue, roomVars, seatVars
  <2> QED
    BY <2>1, <2>2, <2>3, StillKeeps
<1>6. CASE conn[c].socket = "open"
  <2> PICK q \in Seq(Messages) : q = down[c]
    BY <1>4
  <2>1. down' = [down EXCEPT ![c] = q \o p] /\ q \o p \in Seq(Messages)
    BY <1>1, <1>4, <1>6, ConcatProperties
  <2>2. down' \in [Conn -> Seq(Messages)] /\ down'[c] = q \o p
    BY <1>4, <2>1
  <2>3. VariablesTyped'
    BY <1>1, <1>2, <2>2 DEF Basics, VariablesTyped, Collects, Tracking, roomVars, seatVars
  <2> PICK w \in Seq(Messages) : w = q \o p
    BY <2>1
  <2>4. /\ Len(q) \in Nat /\ Len(p) \in Nat
        /\ DOMAIN q = 1..Len(q) /\ DOMAIN w = 1..Len(q) + Len(p)
        /\ \A i \in DOMAIN q : w[i] = q[i]
        /\ \A i \in DOMAIN w : \/ i \in DOMAIN q
                               \/ /\ \E j \in DOMAIN p : w[i] = p[j]
                                  /\ i = 1 => q = <<>>
    <3>1. /\ p \in Seq(Messages) /\ q \in Seq(Messages) /\ w = q \o p
      BY <1>4
    <3> QED
      BY ONLY <3>1, ConcatElements
  <2>5. view[c] # None \/ (q # <<>> /\ Len(q) > 0)
    BY <1>3, <1>6, <2>1, EmptySeq DEF Listens
  <2>6. ASSUME NEW i \in DOMAIN w
        PROVE  /\ w[i].type = "snapshot" <=> view[c] = None /\ i = 1
               /\ ~IsOwn(w[i], s)
    <3>1. CASE i \in DOMAIN q
      <4>1. /\ q[i].type = "snapshot" <=> view[c] = None /\ i = 1
            /\ ~IsOwn(q[i], conn[c].session)
        BY <3>1 DEF Basics, ChannelsTrue, Snapshots
      <4>2. w[i] = q[i] /\ conn[c].session = s
        BY <1>3, <2>4, <3>1 DEF Listens
      <4> QED
        BY <4>1, <4>2
    <3>2. CASE i \notin DOMAIN q
      <4>1. PICK j \in DOMAIN p : w[i] = p[j]
        BY <2>4, <3>2
      <4>2. w[i] \in Patches /\ ~IsOwn(w[i], s)
        BY <1>3, <4>1, LenProperties, ElementOfSeq
      <4> QED
        BY <2>4, <2>5, <3>2, <4>2 DEF Patches
    <3> QED
      BY <3>1, <3>2
  <2>7. Snapshots(c)'
    <3>1. up[c] # <<>> => view[c] # None
      BY DEF Basics, ChannelsTrue, Snapshots
    <3>2. down'[c] = w /\ conn[c].session = s
      BY <1>3, <2>2 DEF Listens
    <3> QED
      BY <1>1, <2>6, <3>1, <3>2 DEF Snapshots
  <2>8. view'[c] # None \/ down'[c] # <<>>
    <3>1. Len(q) > 0 => w # <<>>
      BY <2>4
    <3> QED
      BY <1>1, <2>2, <2>5, <3>1
  <2>9. ChannelStep(c)
    BY <1>1, <1>2, <1>4, <2>1, <2>5, <2>7, <2>8 DEF ChannelStep, Silent
  <2> QED
    BY <2>3, <2>9, ChannelStepBasics
<1> QED
  BY <1>5, <1>6

\* The first message is a snapshot for a client without a copy, a patch otherwise.
LEMMA ApplyTyped ==
    ASSUME NEW copy \in States \cup {None}, NEW msg \in Messages,
           msg.type = "snapshot" <=> copy = None
    PROVE  Apply(copy, msg) \in States
<1>1. CASE msg.type = "snapshot"
  BY <1>1 DEF Apply, Messages, Patches
<1>2. CASE msg.type = "player"
  BY <1>2 DEF Apply, Messages, Patches, States
<1>3. CASE msg.type = "cell"
  BY <1>3 DEF Apply, Messages, Patches, States
<1> QED
  BY <1>1, <1>2, <1>3 DEF Messages, Patches

\* What a delivery finds and leaves.
LEMMA DeliverEffect ==
    ASSUME Basics, NEW c \in Conn, Deliver(c)
    PROVE  /\ down[c] # <<>> /\ down[c] \in Seq(Messages)
           /\ Head(down[c]) = down[c][1] /\ down[c][1] \in Messages
           /\ down[c][1].type = "snapshot" <=> view[c] = None
           /\ down'[c] = Tail(down[c]) /\ down'[c] \in Seq(Messages)
           /\ Len(down'[c]) = Len(down[c]) - 1 /\ Len(down[c]) \in Nat
           /\ \A i \in 1..Len(down'[c]) : down'[c][i] = down[c][i + 1]
           /\ view'[c] = Apply(view[c], down[c][1])
           /\ view'[c] \in States
           /\ \A d \in Conn : d # c => down'[d] = down[d] /\ view'[d] = view[d]
           /\ down' \in [Conn -> Seq(Messages)] /\ view' \in [Conn -> States \cup {None}]
           /\ ~IsOwn(down[c][1], conn[c].session)
<1>1. down[c] # <<>> /\ down[c] \in Seq(Messages) /\ view[c] \in States \cup {None}
  BY DEF Deliver, Basics, VariablesTyped
<1>2. /\ Head(down[c]) = down[c][1] /\ down[c][1] \in Messages /\ 1 \in DOMAIN down[c]
      /\ Tail(down[c]) \in Seq(Messages) /\ Len(Tail(down[c])) = Len(down[c]) - 1
      /\ Len(down[c]) \in Nat
      /\ \A i \in 1..Len(Tail(down[c])) : Tail(down[c])[i] = down[c][i + 1]
  BY <1>1, HeadTailProperties, LenProperties, EmptySeq
<1>3. (down[c][1].type = "snapshot" <=> view[c] = None) /\ ~IsOwn(down[c][1], conn[c].session)
  BY <1>2 DEF Basics, ChannelsTrue, Snapshots
<1>4. Apply(view[c], down[c][1]) \in States
  BY <1>1, <1>2, <1>3, ApplyTyped
<1>5. /\ view' = [view EXCEPT ![c] = Apply(view[c], down[c][1])]
      /\ down' = [down EXCEPT ![c] = Tail(down[c])]
  BY <1>2 DEF Deliver
<1> QED
  BY <1>1, <1>2, <1>3, <1>4, <1>5 DEF Basics, VariablesTyped

LEMMA DeliverBasics ==
    ASSUME Basics, NEW c \in Conn, Deliver(c)
    PROVE  Basics'
<1>1. UNCHANGED <<roomVars, seatVars, conn, tracking, state, up>>
  BY DEF Deliver
<1>2. VariablesTyped'
  BY <1>1, DeliverEffect DEF Basics, VariablesTyped, roomVars, seatVars
<1>3. Snapshots(c)'
  <2>1. ASSUME NEW i \in DOMAIN down'[c]
        PROVE  down'[c][i].type # "snapshot" /\ ~IsOwn(down'[c][i], conn[c].session)
    <3>1. i \in Nat /\ i + 1 \in DOMAIN down[c] /\ i + 1 # 1 /\ down'[c][i] = down[c][i + 1]
      BY DeliverEffect, LenProperties
    <3> QED
      BY <3>1 DEF Basics, ChannelsTrue, Snapshots
  <2> QED
    BY <1>1, <2>1, DeliverEffect, Values DEF Snapshots
<1>4. ChannelStep(c)
  <2>1. ~Silent(c) /\ view'[c] # None
    BY DeliverEffect, Values DEF Silent
  <2>2. Collects(tracking)
    BY <1>1, TrackingTyped DEF Collects, Basics, ListenersTrue
  <2> QED
    BY <1>1, <1>3, <2>1, <2>2, DeliverEffect DEF ChannelStep
<1> QED
  BY <1>2, <1>4, ChannelStepBasics

\* A client that has a copy is one of a session.
LEMMA HasSession ==
    ASSUME Basics, NEW c \in Conn, ~Silent(c)
    PROVE  conn[c].session \in Session /\ conn[c].stage = "established"
BY DEF Basics, ConnsTrue, ChannelsTrue

LEMMA WriteBasics ==
    ASSUME Basics, NEW c \in Conn, Write(c)
    PROVE  Basics'
<1>1. ~Silent(c) /\ view[c] # None
  BY DEF Write, Silent
<1> PICK s \in Session : s = conn[c].session
  BY <1>1, HasSession
<1>2. view[c] \in States /\ view[c].cells[s] \in 0..MaxWrites /\ view[c].cells[s] + 1 \in 0..MaxWrites
  BY SMTT(30), <1>1, Bounds DEF Write, Basics, VariablesTyped, States
<1>3. /\ view' = [view EXCEPT ![c].cells[s] = @ + 1]
      /\ up' = [up EXCEPT ![c] = Append(@, view[c].cells[s] + 1)]
      /\ UNCHANGED <<roomVars, seatVars, conn, tracking, state, down>>
  BY DEF Write
<1>4. view'[c] \in States /\ view' \in [Conn -> States \cup {None}]
  BY <1>2, <1>3 DEF Basics, VariablesTyped, States
<1>5. up' \in [Conn -> Seq(0..MaxWrites)]
  BY <1>2, <1>3, AppendProperties DEF Basics, VariablesTyped
<1>6. VariablesTyped'
  BY <1>3, <1>4, <1>5 DEF Basics, VariablesTyped, roomVars, seatVars
<1>7. Snapshots(c)'
  BY <1>1, <1>3, <1>4, Values DEF Basics, ChannelsTrue, Snapshots
<1>8. \A d \in Conn : d # c => up'[d] = up[d] /\ down'[d] = down[d] /\ view'[d] = view[d]
  BY <1>3 DEF Basics, VariablesTyped
<1>9. ChannelStep(c)
  <2>1. Collects(tracking)
    BY <1>3, TrackingTyped DEF Collects, Basics, ListenersTrue
  <2> QED
    BY <1>1, <1>3, <1>4, <1>7, <1>8, <2>1, Values DEF ChannelStep
<1> QED
  BY <1>6, <1>9, ChannelStepBasics

\* What a patch of a client finds and leaves.
LEMMA PatchStateEffect ==
    ASSUME Basics, NEW c \in Conn, PatchState(c), NEW s, s = conn[c].session
    PROVE  /\ s \in Session /\ ~Silent(c)
           /\ up[c] # <<>> /\ up[c] \in Seq(0..MaxWrites) /\ Head(up[c]) \in 0..MaxWrites
           /\ up'[c] = Tail(up[c]) /\ \A d \in Conn : d # c => up'[d] = up[d]
           /\ up' \in [Conn -> Seq(0..MaxWrites)]
           /\ state' \in States
           /\ state'.players = state.players
           /\ \A t \in Session : state'.cells[t] = IF t = s THEN Head(up[c]) ELSE state.cells[t]
           /\ CellPatch(s, Head(up[c])) \in Patches
           /\ tracking' = Broadcast(tracking, s, CellPatch(s, Head(up[c])))
           /\ UNCHANGED <<roomVars, seatVars, conn, down, view>>
<1>1. ~Silent(c) /\ up[c] # <<>> /\ up[c] \in Seq(0..MaxWrites)
  BY DEF PatchState, Silent, Basics, VariablesTyped
<1>2. s \in Session
  BY <1>1, HasSession
<1>3. Head(up[c]) \in 0..MaxWrites /\ Tail(up[c]) \in Seq(0..MaxWrites)
  BY <1>1, HeadTailProperties
<1>4. /\ up' = [up EXCEPT ![c] = Tail(@)]
      /\ state' = [state EXCEPT !.cells[s] = Head(up[c])]
      /\ tracking' = Broadcast(tracking, s, CellPatch(s, Head(up[c])))
      /\ UNCHANGED <<roomVars, seatVars, conn, down, view>>
  BY DEF PatchState
<1>5. CellPatch(s, Head(up[c])) \in Patches
  BY <1>2, <1>3 DEF CellPatch, Patches
<1>6. /\ state' \in States /\ state'.players = state.players
      /\ \A t \in Session : state'.cells[t] = IF t = s THEN Head(up[c]) ELSE state.cells[t]
  BY <1>2, <1>3, <1>4, TrackingTyped DEF States
<1>7. /\ up'[c] = Tail(up[c]) /\ \A d \in Conn : d # c => up'[d] = up[d]
      /\ up' \in [Conn -> Seq(0..MaxWrites)]
  BY <1>3, <1>4 DEF Basics, VariablesTyped
<1> QED
  BY <1>1, <1>2, <1>3, <1>4, <1>5, <1>6, <1>7

LEMMA PatchStateBasics ==
    ASSUME Basics, NEW c \in Conn, PatchState(c)
    PROVE  Basics'
<1> PICK s : s = conn[c].session
  OBVIOUS
<1>1. /\ s \in Session /\ ~Silent(c)
      /\ CellPatch(s, Head(up[c])) \in Patches
      /\ tracking' = Broadcast(tracking, s, CellPatch(s, Head(up[c])))
      /\ UNCHANGED <<roomVars, seatVars, conn, down, view>>
      /\ up' \in [Conn -> Seq(0..MaxWrites)] /\ state' \in States
      /\ \A d \in Conn : d # c => up'[d] = up[d]
  BY PatchStateEffect
<1>2. Collects(tracking)
  <2>1. \A t \in Session : \A i \in DOMAIN tracking[t].patches : ~IsOwn(tracking[t].patches[i], t)
    BY DEF Basics, ListenersTrue
  <2>2. CellPatch(s, Head(up[c])).of = s
    BY DEF CellPatch
  <2> QED
    BY <1>1, <2>1, <2>2, TrackingTyped, BroadcastCollects
<1>3. VariablesTyped'
  BY <1>1, <1>2 DEF Basics, VariablesTyped, Collects, Tracking, roomVars, seatVars
<1>4. view[c] # None /\ Snapshots(c)'
  <2>1. up[c] # <<>>
    BY PatchStateEffect
  <2> QED
    BY <1>1, <2>1 DEF Basics, ChannelsTrue, Snapshots
<1>5. ChannelStep(c)
  BY <1>1, <1>2, <1>4 DEF ChannelStep
<1> QED
  BY <1>3, <1>5, ChannelStepBasics


-----------------------------------------------------------------------------
LEMMA BasicsInit ==
    ASSUME Init
    PROVE  Basics
<1>1. VariablesTyped
  <2>1. conn \in [Conn -> Connection]
    BY Bounds DEF Init, Connection
  <2>2. tracking \in Tracking
    BY EmptySeq DEF Init, Tracking
  <2>3. state \in States
    BY Bounds DEF Init, States
  <2>4. up \in [Conn -> Seq(0..MaxWrites)] /\ down \in [Conn -> Seq(Messages)]
    BY EmptySeq DEF Init
  <2>5. /\ {open, terminated, locked, unlocked, calm} \subseteq BOOLEAN
        /\ seat \in [Session -> Conn \cup {None, Null}]
        /\ reserved \subseteq Session /\ timers \in [Session -> Nat]
        /\ view \in [Conn -> States \cup {None}]
    BY Values DEF Init
  <2> QED
    BY <2>1, <2>2, <2>3, <2>4, <2>5 DEF VariablesTyped, Connection, Tracking
<1>2. ConnsTrue /\ OneSocket
  BY DEF Init, ConnsTrue, OneSocket
<1>3. SeatsTrue
  BY Values DEF Init, SeatsTrue
<1>4. DOMAIN <<>> = {}
  OBVIOUS
<1>5. ListenersTrue
  BY <1>4 DEF Init, ListenersTrue
<1>6. ChannelsTrue
  BY <1>4 DEF Init, ChannelsTrue, Silent, Snapshots
<1> QED
  BY <1>1, <1>2, <1>3, <1>5, <1>6 DEF Basics

LEMMA BasicsStep ==
    ASSUME Basics, [Next]_vars
    PROVE  Basics'
<1>1. ASSUME NEW s \in Session, JoinRoom(s)
      PROVE  Basics'
  BY <1>1, JoinRoomBasics
<1>2. ASSUME NEW s \in Session, ReservationTimeout(s)
      PROVE  Basics'
  BY <1>2, ReservationTimeoutBasics
<1>3. ASSUME NEW s \in Session, LeaveRoom(s)
      PROVE  Basics'
  BY <1>3, LeaveRoomBasics
<1>4. ASSUME NEW s \in Session, Flush(s)
      PROVE  Basics'
  BY <1>4, FlushBasics
<1>5. CASE CloseRoom
  BY <1>5, CloseRoomBasics
<1>6. ASSUME NEW lock \in BOOLEAN, UpdateRoom(lock)
      PROVE  Basics'
  BY <1>6, UpdateRoomBasics
<1>7. ASSUME NEW c \in Conn, NEW s \in Session, ConnectSeated(c, s)
      PROVE  Basics'
  BY <1>7, ConnectSeatedBasics
<1>8. ASSUME NEW c \in Conn, NEW s \in Session, ConnectReturning(c, s)
      PROVE  Basics'
  BY <1>8, ConnectReturningBasics
<1>9. ASSUME NEW c \in Conn, NEW consented \in BOOLEAN, Drop(c, consented)
      PROVE  Basics'
  BY <1>9, DropBasics
<1>10. ASSUME NEW c \in Conn, Joined(c)
       PROVE  Basics'
  BY <1>10, JoinedBasics
<1>11. ASSUME NEW c \in Conn, Reconnected(c)
       PROVE  Basics'
  BY <1>11, ReconnectedBasics
<1>12. ASSUME NEW c \in Conn, WaitTick(c)
       PROVE  Basics'
  BY <1>12, WaitTickBasics
<1>13. ASSUME NEW c \in Conn, Deliver(c)
       PROVE  Basics'
  BY <1>13, DeliverBasics
<1>14. ASSUME NEW c \in Conn, Write(c)
       PROVE  Basics'
  BY <1>14, WriteBasics
<1>15. ASSUME NEW c \in Conn, PatchState(c)
       PROVE  Basics'
  BY <1>15, PatchStateBasics
<1>16. CASE UNCHANGED vars
  <2>1. /\ UNCHANGED <<open, terminated, locked, unlocked, calm, seat, reserved, timers, conn>>
        /\ UNCHANGED <<tracking, state, up, down, view>>
    BY <1>16 DEF vars, roomVars, seatVars, netVars
  <2>2. VariablesTyped' /\ ConnsTrue' /\ SeatsTrue'
    BY <2>1 DEF Basics, VariablesTyped, ConnsTrue, SeatsTrue
  <2>3. OneSocket' /\ ListenersTrue'
    BY <2>1 DEF Basics, OneSocket, ListenersTrue, Listens
  <2>4. ChannelsTrue'
    BY <2>1 DEF Basics, ChannelsTrue, Silent, Replaced, Snapshots
  <2> QED
    BY <2>2, <2>3, <2>4 DEF Basics
<1> QED
  BY <1>1, <1>2, <1>3, <1>4, <1>5, <1>6, <1>7, <1>8, <1>9, <1>10, <1>11, <1>12, <1>13, <1>14,
     <1>15, <1>16 DEF Next

\* The sockets, seats, listeners and channels of the room are as described above
\* in every reachable state (rooms.ts, room/index.ts, client.ts).
THEOREM SocketsInvariant == Spec => []Basics
BY BasicsInit, BasicsStep, PTL DEF Spec

\* The variables keep their types, seats and listeners are a session's own, and an
\* open room sends patches only to open sockets (relay.ts, tracking of room/index.ts).
THEOREM TypeCorrect == Spec => []TypeOK
<1>1. ASSUME Basics
      PROVE  TypeOK
  BY <1>1 DEF Basics, TypeOK, Owned, SeatsTrue, ListenersTrue, Listens
<1> QED
  BY <1>1, SocketsInvariant, PTL


-----------------------------------------------------------------------------
(* A player that is away is waited for. *)

\* Nobody goes away and every wait goes on.
StillAwaited ==
    /\ \A s \in Session : state'.players[s] = "away" => state.players[s] = "away"
    /\ \A c \in Conn : conn[c].wait > 0 => conn'[c].wait > 0 /\ conn'[c].session = conn[c].session

LEMMA StillAwaitedKeeps ==
    ASSUME AwayIsWaitedFor, StillAwaited
    PROVE  AwayIsWaitedFor'
BY DEF AwayIsWaitedFor, StillAwaited, Waiting, ConnsOf

LEMMA SetPlayerAway ==
    ASSUME Basics, NEW track \in Tracking, NEW s \in Session, NEW value \in {None, "here"},
           SetPlayer(track, s, value) \/ SetPlayerConnection(track, s, value)
    PROVE  \A t \in Session : state'.players[t] = "away" => state.players[t] = "away" /\ t # s
<1>1. CASE SetPlayer(track, s, value)
  <2>1. /\ \A t \in Session : state'.players[t] = IF t = s THEN value ELSE state.players[t]
    BY <1>1, TrackingTyped, SetPlayerEffect
  <2> QED
    BY <2>1, Values
<1>2. CASE state.players[s] \in {None, value} /\ UNCHANGED state
  BY <1>2, Values
<1> QED
  BY <1>1, <1>2 DEF SetPlayerConnection

LEMMA DropAway ==
    ASSUME Basics, AwayIsWaitedFor, NEW c \in Conn, NEW consented \in BOOLEAN, Drop(c, consented)
    PROVE  AwayIsWaitedFor'
<1> PICK s : s = conn[c].session
  OBVIOUS
<1>1. /\ s \in Session /\ conn[c].wait = 0
      /\ \A d \in Conn : d # c => conn'[d] = conn[d]
      /\ conn'[c].session = s
      /\ open /\ seat[s] \in Conn /\ ~consented => conn'[c].wait > 0
  <2>1. ~(conn[c].wait > 0) /\ conn[c].wait \in Nat
    BY Bounds DEF Drop, Basics, ConnsTrue, VariablesTyped
  <2> QED
    BY <2>1, DropEffect, Bounds
<1>2. \A d \in Conn : conn[d].wait > 0 => conn'[d].wait > 0 /\ conn'[d].session = conn[d].session
  BY <1>1
<1>3. Untracked(s) \in Tracking
  BY <1>1, UntrackedQuiet
<1>4. CASE UNCHANGED state
  BY <1>2, <1>4, StillAwaitedKeeps DEF StillAwaited
<1>5. CASE /\ open /\ seat[s] \in Conn /\ ~consented
           /\ SetPlayer(Untracked(s), s, "away")
  <2>1. \A t \in Session : t # s => state'.players[t] = state.players[t]
    BY <1>1, <1>3, <1>5, TrackingTyped, SetPlayerEffect
  <2>2. ASSUME NEW t \in Session, state'.players[t] = "away"
        PROVE  Waiting(t)'
    <3>1. CASE t = s
      BY <1>1, <1>5, <3>1 DEF Waiting, ConnsOf
    <3>2. CASE t # s
      BY <1>2, <2>1, <2>2, <3>2 DEF AwayIsWaitedFor, Waiting, ConnsOf
    <3> QED
      BY <3>1, <3>2
  <2> QED
    BY <2>2 DEF AwayIsWaitedFor
<1>6. CASE SetPlayer(Untracked(s), s, None)
  BY <1>1, <1>2, <1>3, <1>6, SetPlayerAway, StillAwaitedKeeps DEF StillAwaited
<1> QED
  BY <1>4, <1>5, <1>6 DEF Drop, SetPlayerConnection

LEMMA WaitTickAway ==
    ASSUME Basics, AwayIsWaitedFor, NEW c \in Conn, WaitTick(c)
    PROVE  AwayIsWaitedFor'
<1> PICK s : s = conn[c].session
  OBVIOUS
<1>1. /\ s \in Session /\ SameSockets
      /\ \A d \in Conn : d # c => conn'[d].wait = conn[d].wait
  BY WaitTickEffect
<1>2. CASE SetPlayer(tracking, s, None) \/ SetPlayerConnection(tracking, s, "here")
  <2>1. \A t \in Session : state'.players[t] = "away" => state.players[t] = "away" /\ t # s
    BY <1>1, <1>2, TrackingTyped, SetPlayerAway
  <2>2. ASSUME NEW t \in Session, state'.players[t] = "away"
        PROVE  Waiting(t)'
    <3>1. PICK d \in Conn : conn[d].session = t /\ conn[d].wait > 0
      BY <2>1, <2>2 DEF AwayIsWaitedFor, Waiting, ConnsOf
    <3>2. d # c
      BY <2>1, <2>2, <3>1
    <3> QED
      BY <1>1, <3>1, <3>2 DEF Waiting, ConnsOf, SameSockets
  <2> QED
    BY <2>2 DEF AwayIsWaitedFor
<1>3. CASE UNCHANGED state /\ conn'[c].wait > 0
  <2>1. StillAwaited
    BY <1>1, <1>3 DEF StillAwaited, SameSockets
  <2> QED
    BY <2>1, StillAwaitedKeeps
<1> QED
  BY <1>2, <1>3, WaitTickEffect

\* Every other step leaves the waits alone and nobody away who was not.
LEMMA OtherAway ==
    ASSUME Basics, AwayIsWaitedFor, [Next]_vars,
           ~(\E c \in Conn, consented \in BOOLEAN : Drop(c, consented)),
           ~(\E c \in Conn : WaitTick(c))
    PROVE  AwayIsWaitedFor'
<1> SUFFICES StillAwaited
  BY StillAwaitedKeeps
<1>1. CASE UNCHANGED <<conn, state>>
  BY <1>1 DEF StillAwaited
<1>2. ASSUME NEW s \in Session, LeaveRoom(s)
      PROVE  StillAwaited
  <2>1. Untracked(s) \in Tracking
    BY UntrackedQuiet
  <2> QED
    BY <1>2, <2>1, SetPlayerAway DEF LeaveRoom, StillAwaited
<1>3. CASE CloseRoom
  BY <1>3, CloseRoomEffect, Values DEF StillAwaited
<1>4. ASSUME NEW c \in Conn, NEW s \in Session, ConnectSeated(c, s) \/ ConnectReturning(c, s)
      PROVE  StillAwaited
  <2>1. conn[c].wait = 0 /\ UNCHANGED state
    BY <1>4 DEF ConnectSeated, ConnectReturning, IsNext, Basics, ConnsTrue, Conn
  <2>2. \A d \in Conn : d # c => conn'[d] = conn[d]
    BY <1>4, TrackingTyped DEF ConnectSeated, ConnectReturning
  <2> QED
    BY <2>1, <2>2 DEF StillAwaited
<1>5. ASSUME NEW c \in Conn, Joined(c)
      PROVE  StillAwaited
  <2> PICK s \in Session : s = conn[c].session
    BY <1>5 DEF Joined, Basics, ConnsTrue
  <2>1. state' = [state EXCEPT !.players[s] = "here"]
    BY <1>5 DEF Joined
  <2>2. \A t \in Session : state'.players[t] = "away" => state.players[t] = "away"
    BY <2>1, TrackingTyped DEF States
  <2>3. \A d \in Conn : conn'[d].wait = conn[d].wait /\ conn'[d].session = conn[d].session
    BY <1>5, TrackingTyped DEF Joined, Connection
  <2> QED
    BY <2>2, <2>3 DEF StillAwaited
<1>6. ASSUME NEW c \in Conn, Reconnected(c)
      PROVE  StillAwaited
  BY <1>6, TrackingTyped DEF Reconnected, Connection, StillAwaited
<1>7. ASSUME NEW c \in Conn, PatchState(c)
      PROVE  StillAwaited
  BY <1>7, PatchStateEffect DEF StillAwaited
<1> QED
  BY <1>1, <1>2, <1>3, <1>4, <1>5, <1>6, <1>7
  DEF Next, vars, JoinRoom, ReservationTimeout, Flush, UpdateRoom, Deliver, Write

\* Whatever sessions do, a player that is away is waited for (relay.ts onLeave):
\* only the end of its own last wait sets it back or removes it.
THEOREM AwayAwaited == Spec => []AwayIsWaitedFor
<1>1. Init => AwayIsWaitedFor
  BY Values DEF Init, AwayIsWaitedFor
<1>2. Basics /\ AwayIsWaitedFor /\ [Next]_vars => AwayIsWaitedFor'
  BY DropAway, WaitTickAway, OtherAway
<1> QED
  BY <1>1, <1>2, SocketsInvariant, PTL DEF Spec


-----------------------------------------------------------------------------
(* Sessions that only reconnect while they are waited for. *)

\* A reservation has one timer, and its session neither plays nor is waited for.
ReservedFree(s) ==
    /\ timers[s] <= 1
    /\ timers[s] > 0 => s \in reserved
    /\ s \in reserved => /\ MayUse(s) /\ ~Waiting(s)
                         /\ seat[s] \notin Conn
                         /\ open => seat[s] = Null

\* Nor does one that is about to join.
JoiningFree(s) ==
    \A c \in ConnsOf(s) :
        conn[c].stage = "awaitJoined" /\ conn[c].socket = "open" =>
          /\ ~Waiting(s)
          /\ open => seat[s] = Null

PlayerSeated(s) == open /\ state.players[s] # None => seat[s] \in Conn

CalmSeat(s) == ReservedFree(s) /\ JoiningFree(s) /\ PlayerSeated(s)

Calmly == calm => \A s \in Session : CalmSeat(s)

\* A step that does not concern s, or closes the room.
Unconcerned(s) ==
    /\ open' => open
    /\ timers'[s] = timers[s]
    /\ s \in reserved' <=> s \in reserved
    /\ seat'[s] = seat[s] \/ (~open' /\ seat'[s] = None)
    /\ state'.players[s] # None => state.players[s] # None
    /\ \A c \in Conn : conn'[c].session = s =>
         /\ conn[c].session = s
         /\ conn'[c].socket \in {conn[c].socket, "closed"}
         /\ conn'[c].stage = "awaitJoined" => conn[c].stage = "awaitJoined"
         /\ conn'[c].wait > 0 => conn[c].wait > 0

LEMMA UnconcernedCalm ==
    ASSUME Basics, NEW s \in Session, CalmSeat(s), Unconcerned(s)
    PROVE  CalmSeat(s)'
<1>1. (Waiting(s)' => Waiting(s)) /\ (MayUse(s) => MayUse(s)')
  BY DEF Unconcerned, Waiting, MayUse, ConnsOf
<1>2. ReservedFree(s)'
  BY <1>1, Values DEF CalmSeat, ReservedFree, Unconcerned
<1>3. JoiningFree(s)'
  <2> SUFFICES ASSUME NEW c \in Conn, conn'[c].session = s, conn'[c].stage = "awaitJoined",
                      conn'[c].socket = "open"
      PROVE  ~Waiting(s)' /\ (open' => seat'[s] = Null)
    BY DEF JoiningFree, ConnsOf
  <2>1. conn[c].session = s /\ conn[c].stage = "awaitJoined" /\ conn[c].socket = "open"
    BY DEF Unconcerned
  <2> QED
    BY <1>1, <2>1 DEF CalmSeat, JoiningFree, Unconcerned, ConnsOf
<1>4. PlayerSeated(s)'
  BY DEF CalmSeat, PlayerSeated, Unconcerned
<1> QED
  BY <1>2, <1>3, <1>4 DEF CalmSeat

\* One session is concerned.
LEMMA OneConcerned ==
    ASSUME Basics, Calmly, calm, UNCHANGED calm, NEW s \in Session,
           \A t \in Session \ {s} : Unconcerned(t), CalmSeat(s)'
    PROVE  Calmly'
<1>1. \A t \in Session \ {s} : CalmSeat(t)'
  BY UnconcernedCalm DEF Calmly
<1> QED
  BY <1>1 DEF Calmly

LEMMA JoinRoomCalm ==
    ASSUME Basics, Calmly, calm, NEW s \in Session, JoinRoom(s)
    PROVE  Calmly'
<1>1. /\ open /\ seat[s] = None /\ MayUse(s) /\ ~Waiting(s)
      /\ UNCHANGED <<open, calm, conn, state>>
      /\ seat' = [seat EXCEPT ![s] = Null] /\ reserved' = reserved \cup {s}
      /\ timers' = [timers EXCEPT ![s] = @ + 1]
  BY DEF JoinRoom, roomVars
<1>2. \A t \in Session \ {s} : Unconcerned(t)
  BY <1>1 DEF Unconcerned, Basics, VariablesTyped
<1>3. CalmSeat(s)'
  <2>1. timers[s] = 0 /\ state.players[s] = None
    BY <1>1, Values DEF Calmly, CalmSeat, ReservedFree, PlayerSeated, Basics, VariablesTyped
  <2>2. timers'[s] = 1 /\ s \in reserved' /\ seat'[s] = Null
    BY <1>1, <2>1 DEF Basics, VariablesTyped
  <2>3. MayUse(s)' /\ ~Waiting(s)'
    BY <1>1 DEF MayUse, Waiting, ConnsOf
  <2>4. ReservedFree(s)' /\ JoiningFree(s)'
    BY <2>2, <2>3, Values DEF ReservedFree, JoiningFree
  <2> QED
    BY <1>1, <2>1, <2>4 DEF CalmSeat, PlayerSeated
<1> QED
  BY <1>1, <1>2, <1>3, OneConcerned

LEMMA ReservationTimeoutCalm ==
    ASSUME Basics, Calmly, calm, NEW s \in Session, ReservationTimeout(s)
    PROVE  Calmly'
<1>1. /\ timers[s] > 0 /\ (open' => open) /\ UNCHANGED <<calm, conn, state>>
      /\ seat' = [seat EXCEPT ![s] = None] /\ reserved' = reserved \ {s}
      /\ timers' = [timers EXCEPT ![s] = @ - 1]
  BY DEF ReservationTimeout
<1>2. \A t \in Session \ {s} : Unconcerned(t)
  BY <1>1 DEF Unconcerned, Basics, VariablesTyped
<1>3. CalmSeat(s)'
  <2>1. /\ s \in reserved /\ timers[s] = 1 /\ MayUse(s)
        /\ open => state.players[s] = None
    BY <1>1 DEF Calmly, CalmSeat, ReservedFree, PlayerSeated, Basics, VariablesTyped
  <2>2. timers'[s] = 0 /\ s \notin reserved'
    BY <1>1, <2>1 DEF Basics, VariablesTyped
  <2>3. ReservedFree(s)'
    BY <2>2 DEF ReservedFree
  <2>4. JoiningFree(s)'
    BY <1>1, <2>1 DEF JoiningFree, MayUse, ConnsOf
  <2> QED
    BY <1>1, <2>1, <2>3, <2>4 DEF CalmSeat, PlayerSeated
<1> QED
  BY <1>1, <1>2, <1>3, OneConcerned

LEMMA LeaveRoomCalm ==
    ASSUME Basics, Calmly, calm, NEW s \in Session, LeaveRoom(s)
    PROVE  Calmly'
<1>1. /\ open /\ seat[s] \in Conn /\ (open' => open) /\ UNCHANGED <<calm, conn, reserved, timers>>
      /\ \A t \in Session : seat'[t] = IF t = s THEN None ELSE seat[t]
  BY RemovalEffect DEF LeaveRoom
<1>2. \A t \in Session : state'.players[t] = IF t = s THEN None ELSE state.players[t]
  <2>1. Untracked(s) \in Tracking
    BY UntrackedQuiet
  <2> QED
    BY <2>1, TrackingTyped, SetPlayerEffect DEF LeaveRoom
<1>3. \A t \in Session \ {s} : Unconcerned(t)
  BY <1>1, <1>2 DEF Unconcerned
<1>4. CalmSeat(s)'
  <2>1. s \notin reserved /\ timers[s] <= 1 /\ ~(timers[s] > 0)
    BY <1>1 DEF Calmly, CalmSeat, ReservedFree
  <2>2. ReservedFree(s)'
    BY <1>1, <2>1 DEF ReservedFree
  <2>3. \A c \in ConnsOf(s) : ~(conn[c].stage = "awaitJoined" /\ conn[c].socket = "open")
    BY <1>1, Values DEF Calmly, CalmSeat, JoiningFree
  <2>4. JoiningFree(s)'
    BY <1>1, <2>3 DEF JoiningFree, ConnsOf
  <2> QED
    BY <1>2, <2>2, <2>4 DEF CalmSeat, PlayerSeated
<1> QED
  BY <1>1, <1>3, <1>4, OneConcerned

LEMMA ConnectSeatedCalm ==
    ASSUME Basics, Calmly, calm, NEW c \in Conn, NEW s \in Session, ConnectSeated(c, s)
    PROVE  Calmly'
<1>1. /\ open /\ s \in reserved /\ UNCHANGED <<open, calm, seat, state>>
      /\ reserved' = reserved \ {s} /\ timers' = [timers EXCEPT ![s] = @ - 1]
  BY DEF ConnectSeated, DisposeTimer, roomVars
<1>2. /\ conn'[c].stage = "awaitJoined" /\ conn'[c].session = s /\ conn'[c].wait = conn[c].wait
      /\ \A d \in Conn : d # c => conn'[d] = conn[d]
  BY TrackingTyped DEF ConnectSeated, Connection
<1>3. conn[c].wait = 0
  BY DEF ConnectSeated, IsNext, Basics, ConnsTrue, Conn
<1>4. \A t \in Session \ {s} : Unconcerned(t)
  BY <1>1, <1>2 DEF Unconcerned, Basics, VariablesTyped
<1>5. CalmSeat(s)'
  <2>1. timers[s] = 1 /\ ~Waiting(s) /\ seat[s] = Null /\ MayUse(s) /\ state.players[s] = None
    BY <1>1, Values DEF Calmly, CalmSeat, ReservedFree, PlayerSeated, Basics, SeatsTrue, VariablesTyped
  <2>2. timers'[s] = 0 /\ s \notin reserved'
    BY <1>1, <2>1 DEF Basics, VariablesTyped
  <2>3. ReservedFree(s)'
    BY <2>2 DEF ReservedFree
  <2>4. ~Waiting(s)'
    BY <1>2, <1>3, <2>1 DEF Waiting, ConnsOf
  <2>5. JoiningFree(s)'
    BY <1>1, <2>1, <2>4 DEF JoiningFree
  <2> QED
    BY <1>1, <2>1, <2>3, <2>5 DEF CalmSeat, PlayerSeated
<1> QED
  BY <1>1, <1>4, <1>5, OneConcerned

LEMMA ConnectReturningCalm ==
    ASSUME Basics, Calmly, calm, NEW c \in Conn, NEW s \in Session, ConnectReturning(c, s)
    PROVE  Calmly'
<1>1. seat[s] \in Conn /\ MayUse(s) /\ UNCHANGED <<open, calm, seat, reserved, timers, state>>
  BY DEF ConnectReturning, roomVars, seatVars
<1>2. /\ conn'[c].stage = "awaitReconnected" /\ conn'[c].session = s
      /\ \A d \in Conn : d # c => conn'[d] = conn[d]
  BY TrackingTyped DEF ConnectReturning, Connection
<1>3. \A t \in Session \ {s} : Unconcerned(t)
  BY <1>1, <1>2 DEF Unconcerned
<1>4. CalmSeat(s)'
  <2>1. ReservedFree(s)'
    BY <1>1 DEF Calmly, CalmSeat, ReservedFree
  <2>2. JoiningFree(s)'
    BY <1>1, <1>2 DEF JoiningFree, MayUse, ConnsOf
  <2> QED
    BY <1>1, <2>1, <2>2 DEF CalmSeat, PlayerSeated
<1> QED
  BY <1>1, <1>3, <1>4, OneConcerned

LEMMA EstablishesCalm ==
    ASSUME Basics, Calmly, calm, NEW c \in Conn, Joined(c) \/ Reconnected(c)
    PROVE  Calmly'
<1> PICK s \in Session : s = conn[c].session
  BY DEF Joined, Reconnected, Basics, ConnsTrue
<1>1. /\ conn[c].socket = "open" /\ UNCHANGED <<open, calm, reserved, timers>>
      /\ seat' = [seat EXCEPT ![s] = c]
  BY DEF Joined, Reconnected, roomVars
<1>2. /\ conn'[c].stage = "established" /\ conn'[c].session = s /\ conn'[c].wait = conn[c].wait
      /\ conn'[c].socket = conn[c].socket
      /\ \A d \in Conn : d # c => conn'[d] = conn[d]
  <2>1. PICK status \in {"connected", "reconnected"} :
          conn' = [conn EXCEPT ![c] = [@ EXCEPT !.stage = "established", !.status = status]]
    BY DEF Joined, Reconnected
  <2> QED
    BY <2>1, TrackingTyped DEF Connection
<1>3. \A t \in Session : t # s => state'.players[t] = state.players[t]
  BY TrackingTyped DEF Joined, Reconnected, States
<1>4. \A t \in Session \ {s} : Unconcerned(t)
  BY <1>1, <1>2, <1>3 DEF Unconcerned, Basics, VariablesTyped
<1>5. CalmSeat(s)'
  <2>1. s \notin reserved
    BY <1>1 DEF Calmly, CalmSeat, ReservedFree, MayUse, ConnsOf
  <2>2. ReservedFree(s)'
    BY <1>1, <2>1 DEF Calmly, CalmSeat, ReservedFree
  <2>3. JoiningFree(s)'
    BY <1>1, <1>2 DEF JoiningFree, ConnsOf, Basics, OneSocket
  <2>4. seat'[s] \in Conn
    BY <1>1 DEF Basics, VariablesTyped
  <2> QED
    BY <2>2, <2>3, <2>4 DEF CalmSeat, PlayerSeated
<1> QED
  BY <1>1, <1>4, <1>5, OneConcerned


LEMMA DropCalm ==
    ASSUME Basics, Calmly, calm, NEW c \in Conn, NEW consented \in BOOLEAN, Drop(c, consented)
    PROVE  Calmly'
<1> PICK s : s = conn[c].session
  OBVIOUS
<1> DEFINE waits == open /\ seat[s] \in Conn /\ ~consented
<1>1. /\ s \in Session /\ conn[c].socket = "open"
      /\ conn'[c].session = s /\ conn'[c].socket = "closed"
      /\ \A d \in Conn : d # c => conn'[d] = conn[d]
      /\ (open' => open) /\ UNCHANGED <<calm, reserved, timers>>
  <2>1. /\ s \in Session /\ conn'[c].session = s /\ conn'[c].socket = "closed"
        /\ \A d \in Conn : d # c => conn'[d] = conn[d]
    BY DropEffect
  <2>2. (open' => open) /\ UNCHANGED <<calm, reserved, timers>>
    BY DropCollects
  <2> QED
    BY <2>1, <2>2 DEF Drop
<1>2. Untracked(s) \in Tracking
  BY <1>1, UntrackedQuiet
<1>3. /\ \A t \in Session : t # s => /\ seat'[t] = seat[t]
                                     /\ state'.players[t] = state.players[t]
      /\ \/ ~open /\ seat'[s] = seat[s] /\ state'.players[s] = state.players[s]
         \/ waits /\ seat'[s] = seat[s]
         \/ open /\ seat[s] \in Conn /\ seat'[s] = None /\ state'.players[s] = None
         \/ open /\ seat[s] \notin Conn /\ seat'[s] = None /\ state'.players[s] = state.players[s]
  <2>1. CASE ~open /\ UNCHANGED <<roomVars, seatVars, tracking, state>>
    BY <2>1 DEF seatVars
  <2>2. CASE waits /\ SetPlayerConnection(Untracked(s), s, "away") /\ UNCHANGED <<roomVars, seatVars>>
    BY <1>1, <1>2, <2>2, TrackingTyped, SetPlayerEffect DEF SetPlayerConnection, seatVars
  <2>3. CASE open /\ seat[s] \in Conn /\ SetPlayer(Untracked(s), s, None) /\ RemoveRoomClient(s)
    <3>1. \A t \in Session : state'.players[t] = IF t = s THEN None ELSE state.players[t]
      BY <1>1, <1>2, <2>3, TrackingTyped, SetPlayerEffect
    <3> QED
      BY <1>1, <2>3, <3>1, RemovalEffect
  <2>4. CASE open /\ seat[s] \notin Conn /\ UNCHANGED state /\ RemoveRoomClient(s)
    BY <1>1, <2>4, RemovalEffect
  <2> QED
    BY <2>1, <2>2, <2>3, <2>4 DEF Drop
<1> HIDE DEF waits
<1>4. \A t \in Session \ {s} : Unconcerned(t)
  BY <1>1, <1>3 DEF Unconcerned
<1>5. CalmSeat(s)'
  <2>1. s \notin reserved
    BY <1>1 DEF Calmly, CalmSeat, ReservedFree, MayUse, ConnsOf
  <2>2. ReservedFree(s)'
    BY <1>1, <2>1 DEF Calmly, CalmSeat, ReservedFree
  <2>3. \A d \in Conn : conn'[d].session = s => conn'[d].socket # "open"
    BY <1>1 DEF Basics, OneSocket
  <2>4. JoiningFree(s)'
    BY <2>3 DEF JoiningFree, ConnsOf
  <2>5. PlayerSeated(s)'
    <3>1. PlayerSeated(s)
      BY <1>1 DEF Calmly, CalmSeat
    <3> QED
      BY <1>1, <1>3, <3>1 DEF PlayerSeated, waits
  <2> QED
    BY <2>2, <2>4, <2>5 DEF CalmSeat
<1> QED
  BY <1>1, <1>4, <1>5, OneConcerned

LEMMA WaitTickCalm ==
    ASSUME Basics, Calmly, calm, NEW c \in Conn, WaitTick(c)
    PROVE  Calmly'
<1> PICK s : s = conn[c].session
  OBVIOUS
<1>1. /\ s \in Session /\ SameSockets /\ conn[c].wait > 0
      /\ \A d \in Conn : d # c => conn'[d].wait = conn[d].wait
  BY WaitTickEffect DEF WaitTick
<1>2. \A t \in Session : t # s => state'.players[t] = state.players[t]
  BY <1>1, TrackingTyped, SetPlayerEffect, WaitTickEffect DEF SetPlayerConnection
<1>3. /\ (open' => open) /\ UNCHANGED <<calm, reserved, timers>>
      /\ \A t \in Session : t # s => seat'[t] = seat[t]
      /\ seat'[s] = seat[s] \/ (seat'[s] = None /\ SetPlayer(tracking, s, None))
  BY <1>1, RemovalEffect, WaitTickEffect DEF roomVars, seatVars
<1>4. \A t \in Session \ {s} : Unconcerned(t)
  BY <1>1, <1>2, <1>3 DEF Unconcerned, SameSockets
<1>5. CalmSeat(s)'
  <2>1. Waiting(s)
    BY <1>1 DEF Waiting, ConnsOf
  <2>2. ReservedFree(s)'
    BY <1>1, <1>3, <2>1 DEF Calmly, CalmSeat, ReservedFree
  <2>3. JoiningFree(s)'
    BY <1>1, <2>1 DEF Calmly, CalmSeat, JoiningFree, ConnsOf, SameSockets
  <2>4. PlayerSeated(s)'
    <3>1. CASE SetPlayer(tracking, s, None)
      BY <1>1, <3>1, TrackingTyped, SetPlayerEffect DEF PlayerSeated
    <3>2. CASE state'.players[s] # None => state.players[s] # None
      BY <1>1, <1>3, <3>1, <3>2 DEF Calmly, CalmSeat, PlayerSeated
    <3>3. CASE SetPlayerConnection(tracking, s, "here")
      <4>1. CASE state.players[s] # None
        BY <1>1, <3>2, <4>1
      <4>2. CASE UNCHANGED state
        BY <3>2, <4>2
      <4> QED
        BY <3>3, <4>1, <4>2 DEF SetPlayerConnection
    <3> QED
      BY <3>1, <3>2, <3>3, WaitTickEffect
  <2> QED
    BY <2>2, <2>3, <2>4 DEF CalmSeat
<1> QED
  BY <1>1, <1>3, <1>4, <1>5, OneConcerned

LEMMA CloseRoomCalm ==
    ASSUME Basics, Calmly, CloseRoom
    PROVE  Calmly'
<1>1. \A s \in Session : Unconcerned(s)
  BY CloseRoomEffect DEF Unconcerned
<1> QED
  BY <1>1, CloseRoomEffect, UnconcernedCalm DEF Calmly

LEMMA CalmStep ==
    ASSUME Basics, Calmly, [Next]_vars
    PROVE  Calmly'
<1>1. UNCHANGED calm
  BY RemovalEffect DEF Next, vars, JoinRoom, ReservationTimeout, LeaveRoom, Flush, CloseRoom,
     UpdateRoom, ConnectSeated, ConnectReturning, Drop, Joined, Reconnected, WaitTick, Deliver,
     Write, PatchState, RemoveRoomClient, roomVars
<1>2. CASE ~calm
  BY <1>1, <1>2 DEF Calmly
<1>3. CASE calm /\ UNCHANGED <<open, seat, reserved, timers, conn>> /\ state'.players = state.players
  <2>1. \A s \in Session : Unconcerned(s)
    BY <1>3 DEF Unconcerned
  <2> QED
    BY <1>1, <2>1, UnconcernedCalm DEF Calmly
<1>4. ASSUME NEW s \in Session, Flush(s)
      PROVE  Calmly'
  BY <1>2, <1>3, <1>4 DEF Flush, roomVars, seatVars
<1>5. ASSUME NEW lock \in BOOLEAN, UpdateRoom(lock)
      PROVE  Calmly'
  BY <1>2, <1>3, <1>5 DEF UpdateRoom, seatVars
<1>6. ASSUME NEW c \in Conn, Deliver(c) \/ Write(c) \/ PatchState(c)
      PROVE  Calmly'
  BY <1>2, <1>3, <1>6, PatchStateEffect DEF Deliver, Write, roomVars, seatVars
<1>7. CASE UNCHANGED vars
  BY <1>2, <1>3, <1>7 DEF vars, roomVars, seatVars
<1> QED
  BY <1>2, <1>4, <1>5, <1>6, <1>7, JoinRoomCalm, ReservationTimeoutCalm, LeaveRoomCalm,
     CloseRoomCalm, ConnectSeatedCalm, ConnectReturningCalm, EstablishesCalm, DropCalm,
     WaitTickCalm DEF Next

LEMMA CalmInit ==
    ASSUME Init
    PROVE  Calmly
<1> SUFFICES ASSUME NEW s \in Session
    PROVE  CalmSeat(s)
  BY DEF Calmly
<1>1. \A c \in Conn : conn[c].session = None
  BY DEF Init
<1>2. ConnsOf(s) = {}
  BY <1>1, Values DEF ConnsOf
<1>3. ReservedFree(s)
  BY <1>2, Values DEF Init, ReservedFree, MayUse, Waiting
<1>4. JoiningFree(s) /\ PlayerSeated(s)
  BY <1>2 DEF Init, JoiningFree, PlayerSeated
<1> QED
  BY <1>3, <1>4 DEF CalmSeat

\* Seats, reservations and waits of such sessions are as described above.
THEOREM CalmInvariant == Spec => []Calmly
<1>1. Init => Calmly
  BY CalmInit
<1>2. Basics /\ Calmly /\ [Next]_vars => Calmly'
  BY CalmStep
<1> QED
  BY <1>1, <1>2, SocketsInvariant, PTL DEF Spec

\* Every player of an open room holds a seat, however requests, timers and sockets
\* interleave, if its session does nothing but reconnect while it is waited for.
THEOREM PlayersKeepSeats == Spec => []PlayersSeated
<1>1. Calmly => PlayersSeated
  BY Values DEF Calmly, CalmSeat, PlayerSeated, PlayersSeated
<1> QED
  BY <1>1, CalmInvariant, PTL

\* How many players a room has is a matter of who plays.
Players == {s \in Session : state.players[s] # None}

LEMMA FewerPlayers ==
    ASSUME NEW S, NEW T, S \subseteq T, T \subseteq Session
    PROVE  Cardinality(S) <= Cardinality(T) /\ Cardinality(S) \in Nat /\ Cardinality(T) \in Nat
<1>1. IsFiniteSet(T)
  BY Bounds, FS_Subset
<1> QED
  BY <1>1, FS_Subset, FS_CardinalityType

\* A step that adds no player and does not unlock the room.
LEMMA NoNewPlayer ==
    ASSUME FullIsLocked, UNCHANGED calm, open' => open,
           \A s \in Session : state'.players[s] # None => state.players[s] # None,
           (locked \/ unlocked) => (locked' \/ unlocked')
    PROVE  FullIsLocked'
<1>1. Players' \subseteq Players
  BY DEF Players
<1>2. Cardinality(Players') <= Cardinality(Players)
      /\ Cardinality(Players') \in Nat /\ Cardinality(Players) \in Nat
  BY <1>1, FewerPlayers DEF Players
<1> QED
  BY <1>2, Bounds DEF FullIsLocked, Players

LEMMA SetPlayerNone ==
    ASSUME Basics, NEW track \in Tracking, NEW s \in Session,
           \/ SetPlayer(track, s, None)
           \/ \E value \in {"here", "away"} : SetPlayerConnection(track, s, value)
    PROVE  \A t \in Session : state'.players[t] # None => state.players[t] # None
<1>1. CASE SetPlayer(track, s, None)
  BY <1>1, TrackingTyped, SetPlayerEffect
<1>2. ASSUME NEW value \in {"here", "away"}, SetPlayerConnection(track, s, value)
      PROVE  \A t \in Session : state'.players[t] # None => state.players[t] # None
  <2>1. CASE state.players[s] # None /\ SetPlayer(track, s, value)
    BY <2>1, TrackingTyped, SetPlayerEffect
  <2>2. CASE UNCHANGED state
    BY <2>2
  <2> QED
    BY <1>2, <2>1, <2>2 DEF SetPlayerConnection
<1> QED
  BY <1>1, <1>2

LEMMA JoinedFull ==
    ASSUME Basics, Calmly, FullIsLocked, NEW c \in Conn, Joined(c)
    PROVE  FullIsLocked'
<1> PICK s \in Session : s = conn[c].session
  BY DEF Joined, Basics, ConnsTrue
<1> SUFFICES ASSUME open, calm, Cardinality(Players') >= MaxPlayers
    PROVE  locked' \/ unlocked'
  BY DEF Joined, FullIsLocked, Players
<1>1. seat[s] = Null
  BY DEF Joined, Calmly, CalmSeat, JoiningFree, ConnsOf
<1>2. \A t \in Session : t # s => state'.players[t] = state.players[t]
  BY TrackingTyped DEF Joined, States
<1>3. Players' \subseteq Seats
  BY <1>1, <1>2, Values DEF Calmly, CalmSeat, PlayerSeated, Players, Seats
<1>4. Cardinality(Players') <= Cardinality(Seats)
      /\ Cardinality(Players') \in Nat /\ Cardinality(Seats) \in Nat
  BY <1>3, FewerPlayers DEF Seats
<1>5. Full
  BY <1>4, Bounds DEF Full
<1> QED
  BY <1>5 DEF Joined

LEMMA FullStep ==
    ASSUME Basics, Calmly, FullIsLocked, [Next]_vars
    PROVE  FullIsLocked'
<1>1. CASE UNCHANGED <<open, locked, unlocked, calm>> /\ state'.players = state.players
  BY <1>1, NoNewPlayer
<1>2. ASSUME NEW s \in Session, JoinRoom(s) \/ Flush(s)
      PROVE  FullIsLocked'
  BY <1>1, <1>2 DEF JoinRoom, Flush, roomVars
<1>3. ASSUME NEW s \in Session, ReservationTimeout(s)
      PROVE  FullIsLocked'
  BY <1>3, NoNewPlayer DEF ReservationTimeout
<1>4. ASSUME NEW s \in Session, LeaveRoom(s)
      PROVE  FullIsLocked'
  <2>1. Untracked(s) \in Tracking
    BY UntrackedQuiet
  <2>2. \A t \in Session : state'.players[t] # None => state.players[t] # None
    BY <1>4, <2>1, SetPlayerNone DEF LeaveRoom
  <2> QED
    BY <1>4, <2>2, RemovalEffect, NoNewPlayer DEF LeaveRoom
<1>5. CASE CloseRoom
  BY <1>5, CloseRoomEffect DEF FullIsLocked
<1>6. ASSUME NEW lock \in BOOLEAN, UpdateRoom(lock)
      PROVE  FullIsLocked'
  BY <1>6, NoNewPlayer DEF UpdateRoom
<1>7. ASSUME NEW c \in Conn, NEW s \in Session, ConnectSeated(c, s) \/ ConnectReturning(c, s)
      PROVE  FullIsLocked'
  BY <1>1, <1>7 DEF ConnectSeated, ConnectReturning, roomVars
<1>8. ASSUME NEW c \in Conn, NEW consented \in BOOLEAN, Drop(c, consented)
      PROVE  FullIsLocked'
  <2> PICK s : s = conn[c].session
    OBVIOUS
  <2>1. s \in Session
    BY <1>8, DropEffect
  <2>2. Untracked(s) \in Tracking
    BY <2>1, UntrackedQuiet
  <2>3. \A t \in Session : state'.players[t] # None => state.players[t] # None
    <3>1. CASE UNCHANGED state
      BY <3>1
    <3>2. CASE SetPlayerConnection(Untracked(s), s, "away") \/ SetPlayer(Untracked(s), s, None)
      BY <2>1, <2>2, <3>2, SetPlayerNone
    <3> QED
      BY <1>8, <3>1, <3>2 DEF Drop
  <2> QED
    BY <1>8, <2>3, DropCollects, NoNewPlayer
<1>9. ASSUME NEW c \in Conn, Joined(c)
      PROVE  FullIsLocked'
  BY <1>9, JoinedFull
<1>10. ASSUME NEW c \in Conn, Reconnected(c)
       PROVE  FullIsLocked'
  BY <1>1, <1>10 DEF Reconnected, roomVars
<1>11. ASSUME NEW c \in Conn, WaitTick(c)
       PROVE  FullIsLocked'
  <2> PICK s : s = conn[c].session
    OBVIOUS
  <2>1. s \in Session
    BY <1>11, WaitTickEffect
  <2>2. \A t \in Session : state'.players[t] # None => state.players[t] # None
    BY <1>11, <2>1, TrackingTyped, WaitTickEffect, SetPlayerNone
  <2>3. (open' => open) /\ UNCHANGED <<locked, unlocked, calm>>
    BY <1>11, <2>1, RemovalEffect, WaitTickEffect DEF roomVars
  <2> QED
    BY <2>2, <2>3, NoNewPlayer
<1>12. ASSUME NEW c \in Conn, Deliver(c) \/ Write(c) \/ PatchState(c)
       PROVE  FullIsLocked'
  BY <1>1, <1>12, PatchStateEffect DEF Deliver, Write, roomVars
<1>13. CASE UNCHANGED vars
  BY <1>1, <1>13 DEF vars, roomVars
<1> QED
  BY <1>2, <1>3, <1>4, <1>5, <1>6, <1>7, <1>8, <1>9, <1>10, <1>11, <1>12, <1>13 DEF Next

\* Under the same condition the last player locks the room (relay.ts onJoin), and
\* only its host unlocks it while it is full.
THEOREM FullRoomsLocked == Spec => []FullIsLocked
<1>1. Init => FullIsLocked
  <2> SUFFICES ASSUME Init
      PROVE  Cardinality({s \in Session : state.players[s] # None}) = 0
    BY Bounds DEF FullIsLocked
  <2>1. {s \in Session : state.players[s] # None} = {}
    BY DEF Init
  <2> QED
    BY <2>1, FS_EmptySet
<1>2. ASSUME Basics, Calmly, FullIsLocked, [Next]_vars
      PROVE  FullIsLocked'
  BY <1>2, FullStep
<1> QED
  BY <1>1, <1>2, SocketsInvariant, CalmInvariant, PTL DEF Spec


-----------------------------------------------------------------------------
(* Messages and the copies they are applied to. *)

Kinds == {"player", "cell"}

\* Messages that come later decide, if they tell of t.
LEMMA LaterTells ==
    ASSUME NEW copy, NEW kind \in Kinds, NEW t, NEW v,
           NEW ms \in Seq(Messages), NEW ns \in Seq(Messages), Len(ms) <= Len(ns),
           \A i \in 1..Len(ms) : ns[i] = ms[i],
           \/ /\ \A i \in Len(ms) + 1..Len(ns) : ~Tells(ns[i], kind, t)
              /\ WillHave(copy, ms, kind, t, v)
           \/ \E i \in Len(ms) + 1..Len(ns) :
                /\ Tells(ns[i], kind, t) /\ Value(ns[i], kind, t) = v
                /\ \A j \in Len(ms) + 1..Len(ns) : Tells(ns[j], kind, t) => j <= i
    PROVE  WillHave(copy, ns, kind, t, v)
<1>1. /\ Len(ms) \in Nat /\ Len(ns) \in Nat
      /\ DOMAIN ms = 1..Len(ms) /\ DOMAIN ns = 1..Len(ns)
  BY LenProperties
<1>2. ASSUME \A i \in Len(ms) + 1..Len(ns) : ~Tells(ns[i], kind, t),
             WillHave(copy, ms, kind, t, v)
      PROVE  WillHave(copy, ns, kind, t, v)
  <2>1. \A i \in DOMAIN ns : Tells(ns[i], kind, t) => i \in DOMAIN ms
    BY <1>1, <1>2
  <2>2. \A i \in DOMAIN ms : i \in DOMAIN ns /\ ns[i] = ms[i]
    BY <1>1
  <2>3. {i \in DOMAIN ns : Tells(ns[i], kind, t)} = {i \in DOMAIN ms : Tells(ms[i], kind, t)}
    BY <2>1, <2>2
  <2> QED
    BY <1>2, <2>2, <2>3 DEF WillHave
<1>3. ASSUME NEW i \in Len(ms) + 1..Len(ns),
             Tells(ns[i], kind, t), Value(ns[i], kind, t) = v,
             \A j \in Len(ms) + 1..Len(ns) : Tells(ns[j], kind, t) => j <= i
      PROVE  WillHave(copy, ns, kind, t, v)
  <2>1. i \in DOMAIN ns
    BY <1>1
  <2>2. \A j \in DOMAIN ns : Tells(ns[j], kind, t) => j <= i
    BY <1>1, <1>3
  <2> QED
    BY <1>3, <2>1, <2>2 DEF WillHave
<1> QED
  BY <1>2, <1>3

\* The message that arrives is applied, the others stay.
LEMMA ArrivalTells ==
    ASSUME NEW copy \in States \cup {None}, NEW kind \in Kinds, NEW t \in Session, NEW v,
           NEW ms \in Seq(Messages), NEW ns \in Seq(Messages), Len(ms) = Len(ns) + 1,
           \A i \in 1..Len(ns) : ns[i] = ms[i + 1],
           ms[1].type = "snapshot" <=> copy = None,
           WillHave(copy, ms, kind, t, v)
    PROVE  WillHave(Apply(copy, ms[1]), ns, kind, t, v)
<1>1. /\ Len(ns) \in Nat /\ DOMAIN ms = 1..Len(ns) + 1 /\ DOMAIN ns = 1..Len(ns)
      /\ ms[1] \in Messages
  BY LenProperties
<1>2. Apply(copy, ms[1]) \in States /\ Apply(copy, ms[1]) # None
  BY <1>1, ApplyTyped, Values
<1>3. ASSUME NEW i \in DOMAIN ms, i # 1, Tells(ms[i], kind, t), Value(ms[i], kind, t) = v,
             \A j \in DOMAIN ms : Tells(ms[j], kind, t) => j <= i
      PROVE  WillHave(Apply(copy, ms[1]), ns, kind, t, v)
  <2>1. i - 1 \in DOMAIN ns /\ (i - 1) + 1 = i
    BY <1>1, <1>3
  <2>2. ns[i - 1] = ms[i]
    BY <1>1, <2>1
  <2>3. \A j \in DOMAIN ns : Tells(ns[j], kind, t) => j <= i - 1
    BY <1>1, <1>3
  <2> QED
    BY <1>3, <2>1, <2>2, <2>3 DEF WillHave
<1>4. ASSUME \A j \in DOMAIN ms : Tells(ms[j], kind, t) => j = 1,
             Field(Apply(copy, ms[1]), kind, t) = v
      PROVE  WillHave(Apply(copy, ms[1]), ns, kind, t, v)
  <2>1. \A j \in DOMAIN ns : ~Tells(ns[j], kind, t)
    BY <1>1, <1>4
  <2> QED
    BY <1>2, <1>4, <2>1 DEF WillHave
<1>5. Tells(ms[1], kind, t) => Field(Apply(copy, ms[1]), kind, t) = Value(ms[1], kind, t)
  <2>1. CASE ms[1].type = "snapshot"
    BY <2>1 DEF Apply, Field, Value
  <2>2. CASE ms[1].type = "player" /\ kind = "player" /\ ms[1].of = t
    <3>1. copy \in States
      BY <2>2
    <3> QED
      BY <2>2, <3>1 DEF Apply, Field, Value, States
  <2>3. CASE ms[1].type = "cell" /\ kind = "cell" /\ ms[1].of = t
    <3>1. copy \in States
      BY <2>3
    <3> QED
      BY <2>3, <3>1 DEF Apply, Field, Value, States
  <2> QED
    BY <2>1, <2>2, <2>3 DEF Tells, Kinds
<1>6. ~Tells(ms[1], kind, t) => Field(Apply(copy, ms[1]), kind, t) = Field(copy, kind, t)
  <2>1. CASE ms[1].type = "player" /\ ~(kind = "player" /\ ms[1].of = t)
    <3>1. copy \in States /\ ms[1].of \in Session
      BY <1>1, <2>1 DEF Messages, Patches
    <3> QED
      BY <2>1, <3>1 DEF Apply, Field, States, Kinds
  <2>2. CASE ms[1].type = "cell" /\ ~(kind = "cell" /\ ms[1].of = t)
    <3>1. copy \in States /\ ms[1].of \in Session
      BY <1>1, <2>2 DEF Messages, Patches
    <3> QED
      BY <2>2, <3>1 DEF Apply, Field, States, Kinds
  <2>3. ms[1].type \in {"snapshot", "player", "cell"}
    BY <1>1 DEF Messages, Patches
  <2> QED
    BY <2>1, <2>2, <2>3 DEF Tells, Kinds
<1>7. CASE /\ \A i \in DOMAIN ms : ~Tells(ms[i], kind, t)
           /\ Field(copy, kind, t) = v
  BY <1>1, <1>4, <1>6, <1>7
<1>8. CASE \E i \in DOMAIN ms :
             /\ Tells(ms[i], kind, t) /\ Value(ms[i], kind, t) = v
             /\ \A j \in DOMAIN ms : Tells(ms[j], kind, t) => j <= i
  <2> PICK i \in DOMAIN ms :
             /\ Tells(ms[i], kind, t) /\ Value(ms[i], kind, t) = v
             /\ \A j \in DOMAIN ms : Tells(ms[j], kind, t) => j <= i
    BY <1>8
  <2>1. CASE i = 1
    <3>1. \A j \in DOMAIN ms : Tells(ms[j], kind, t) => j = 1
      BY <1>1, <2>1
    <3> QED
      BY <1>4, <1>5, <2>1, <3>1
  <2> QED
    BY <1>3, <2>1
<1> QED
  BY <1>7, <1>8 DEF WillHave


-----------------------------------------------------------------------------
(* The copies catch up. *)

\* What ViewCatchesUp says of the listener c of s.
CaughtUp(s, c) ==
    /\ \A t \in Session \ {s} :
         /\ WillHave(view[c], down[c] \o tracking[s].patches, "player", t, state.players[t])
         /\ WillHave(view[c], down[c] \o tracking[s].patches, "cell", t, state.cells[t])
    /\ WillHave(view[c], down[c] \o tracking[s].patches, "cell", s, Written(c, s))

Follows(s) ==
    \A c \in Conn : tracking[s].conn = c /\ conn[c].socket = "open" => CaughtUp(s, c)

LEMMA FollowsMeans ==
    ASSUME Basics
    PROVE  ViewCatchesUp <=> \A s \in Session : Follows(s)
<1>1. \A s \in Session : tracking[s].conn # None <=> tracking[s].conn \in Conn
  BY TrackingTyped, Values DEF Tracking
<1> QED
  BY <1>1 DEF ViewCatchesUp, Follows, CaughtUp, Coming

\* The step leaves the channel of an established connection as it is, or closes it.
SameChannel(c) ==
    conn[c].stage = "established" /\ conn'[c].socket = "open" =>
      /\ conn[c].socket = "open"
      /\ up'[c] = up[c] /\ down'[c] = down[c] /\ view'[c] = view[c]

\* A listener that is told nothing follows what does not change, its own player apart.
LEMMA NotTold ==
    ASSUME Basics, NEW s \in Session, Follows(s),
           tracking'[s].conn # None => tracking'[s] = tracking[s],
           \A c \in Conn : tracking[s].conn = c => SameChannel(c),
           state'.cells = state.cells,
           \A t \in Session \ {s} : state'.players[t] = state.players[t]
    PROVE  Follows(s)'
<1> SUFFICES ASSUME NEW c \in Conn, tracking'[s].conn = c, conn'[c].socket = "open"
    PROVE  CaughtUp(s, c)'
  BY DEF Follows
<1>1. tracking'[s] = tracking[s] /\ tracking[s].conn = c
  BY Values
<1>2. conn[c].socket = "open" /\ up'[c] = up[c] /\ down'[c] = down[c] /\ view'[c] = view[c]
  BY <1>1, Values DEF Basics, ListenersTrue, Listens, SameChannel
<1>3. CaughtUp(s, c)
  BY <1>1, <1>2 DEF Follows
<1>4. Written(c, s)' = Written(c, s)
  BY <1>2 DEF Written
<1> QED
  BY <1>1, <1>2, <1>3, <1>4 DEF CaughtUp

\* What is on its way to a listener when one more patch has been collected.
LEMMA OneMore ==
    ASSUME NEW p \in Seq(Messages), NEW q \in Seq(Patches), NEW patch \in Patches
    PROVE  /\ p \o q \in Seq(Messages) /\ p \o Append(q, patch) \in Seq(Messages)
           /\ Len(p \o Append(q, patch)) = Len(p \o q) + 1
           /\ \A i \in 1..Len(p \o q) : (p \o Append(q, patch))[i] = (p \o q)[i]
           /\ (p \o Append(q, patch))[Len(p \o q) + 1] = patch
<1>1. q \in Seq(Messages) /\ Append(q, patch) \in Seq(Messages)
  BY AppendProperties DEF Messages
<1>2. p \o Append(q, patch) = Append(p \o q, patch) /\ p \o q \in Seq(Messages)
  <2> HIDE DEF Messages
  <2>1. p \o q \in Seq(Messages)
    BY <1>1, ConcatProperties
  <2>2. patch \in Messages
    BY DEF Messages
  <2>3. Append(q, patch) = q \o <<patch>> /\ Append(p \o q, patch) = (p \o q) \o <<patch>>
    BY ONLY SMTT(30), <1>1, <2>1, <2>2
  <2>4. <<patch>> \in Seq(Messages)
    BY <2>2
  <2> QED
    BY <1>1, <2>1, <2>3, <2>4, ConcatAssociative
<1>3. patch \in Messages
  BY DEF Messages
<1> QED
  BY <1>2, <1>3, AppendProperties

LEMMA Told ==
    ASSUME NEW copy, NEW kind \in Kinds, NEW t, NEW v, NEW patch \in Patches,
           NEW p \in Seq(Messages), NEW q \in Seq(Patches),
           \/ Tells(patch, kind, t) /\ Value(patch, kind, t) = v
           \/ ~Tells(patch, kind, t) /\ WillHave(copy, p \o q, kind, t, v)
    PROVE  WillHave(copy, p \o Append(q, patch), kind, t, v)
<1> PICK ms, ns : ms = p \o q /\ ns = p \o Append(q, patch)
  OBVIOUS
<1>1. /\ ms \in Seq(Messages) /\ ns \in Seq(Messages) /\ Len(ns) = Len(ms) + 1 /\ Len(ms) \in Nat
      /\ \A i \in 1..Len(ms) : ns[i] = ms[i]
      /\ ns[Len(ms) + 1] = patch
  BY OneMore, LenProperties
<1>2. CASE Tells(patch, kind, t) /\ Value(patch, kind, t) = v
  <2>1. \E i \in Len(ms) + 1..Len(ns) :
          /\ Tells(ns[i], kind, t) /\ Value(ns[i], kind, t) = v
          /\ \A j \in Len(ms) + 1..Len(ns) : Tells(ns[j], kind, t) => j <= i
    BY <1>1, <1>2
  <2>2. Len(ms) <= Len(ns)
    BY <1>1
  <2>3. WillHave(copy, ns, kind, t, v)
    BY <1>1, <2>1, <2>2, LaterTells
  <2> QED
    BY <2>3
<1>3. CASE ~Tells(patch, kind, t) /\ WillHave(copy, p \o q, kind, t, v)
  <2>1. \A i \in Len(ms) + 1..Len(ns) : ~Tells(ns[i], kind, t)
    BY <1>1, <1>3
  <2>2. Len(ms) <= Len(ns)
    BY <1>1
  <2>3. WillHave(copy, ns, kind, t, v)
    BY <1>1, <1>3, <2>1, <2>2, LaterTells
  <2> QED
    BY <2>3
<1> QED
  BY <1>2, <1>3

\* A listener that is told of a change follows it.
LEMMA ToldFollows ==
    ASSUME Basics, NEW s \in Session, Follows(s), NEW o \in Session \ {s},
           NEW patch \in Patches,
           tracking'[s].conn = tracking[s].conn,
           tracking[s].conn # None => tracking'[s].patches = Append(tracking[s].patches, patch),
           \A c \in Conn : tracking[s].conn = c => SameChannel(c),
           \/ /\ patch.type = "player" /\ patch.of = o /\ state'.players[o] = patch.value
              /\ \A t \in Session \ {o} : state'.players[t] = state.players[t]
              /\ state'.cells = state.cells
           \/ /\ patch.type = "cell" /\ patch.of = o /\ state'.cells[o] = patch.to
              /\ \A t \in Session \ {o} : state'.cells[t] = state.cells[t]
              /\ state'.players = state.players
    PROVE  Follows(s)'
<1> SUFFICES ASSUME NEW c \in Conn, tracking'[s].conn = c, conn'[c].socket = "open"
    PROVE  CaughtUp(s, c)'
  BY DEF Follows
<1>1. tracking[s].conn = c /\ tracking[s].conn # None
  BY Values
<1>2. conn[c].socket = "open" /\ up'[c] = up[c] /\ down'[c] = down[c] /\ view'[c] = view[c]
  BY <1>1 DEF Basics, ListenersTrue, Listens, SameChannel
<1>3. CaughtUp(s, c)
  BY <1>1, <1>2 DEF Follows
<1> PICK p, q : p = down[c] /\ q = tracking[s].patches
  OBVIOUS
<1>4. p \in Seq(Messages) /\ q \in Seq(Patches) /\ tracking'[s].patches = Append(q, patch)
  BY <1>1, TrackingTyped DEF Basics, VariablesTyped, Tracking
<1>5. ASSUME NEW kind \in Kinds, NEW t \in Session, NEW v,
             kind = patch.type /\ t = o => Value(patch, kind, t) = v,
             ~(kind = patch.type /\ t = o) => WillHave(view[c], p \o q, kind, t, v)
      PROVE  WillHave(view[c], p \o Append(q, patch), kind, t, v)
  <2>1. Tells(patch, kind, t) <=> kind = patch.type /\ t = o
    BY DEF Tells, Patches
  <2> QED
    BY <1>4, <1>5, <2>1, Told
<1>6. ASSUME NEW t \in Session \ {s}
      PROVE  WillHave(view[c], p \o Append(q, patch), "player", t, state'.players[t])
  <2>1. WillHave(view[c], p \o q, "player", t, state.players[t])
    BY <1>3 DEF CaughtUp
  <2>2. CASE patch.type = "player" /\ t = o
    BY <1>5, <2>2 DEF Kinds, Value
  <2>3. CASE ~(patch.type = "player" /\ t = o)
    <3>1. state'.players[t] = state.players[t]
      BY <2>3
    <3> QED
      BY <1>5, <2>1, <2>3, <3>1 DEF Kinds
  <2> QED
    BY <2>2, <2>3
<1>7. ASSUME NEW t \in Session \ {s}
      PROVE  WillHave(view[c], p \o Append(q, patch), "cell", t, state'.cells[t])
  <2>1. WillHave(view[c], p \o q, "cell", t, state.cells[t])
    BY <1>3 DEF CaughtUp
  <2>2. CASE patch.type = "cell" /\ t = o
    BY <1>5, <2>2 DEF Kinds, Value
  <2>3. CASE ~(patch.type = "cell" /\ t = o)
    <3>1. state'.cells[t] = state.cells[t]
      BY <2>3
    <3> QED
      BY <1>5, <2>1, <2>3, <3>1 DEF Kinds
  <2> QED
    BY <2>2, <2>3
<1>8. WillHave(view[c], p \o Append(q, patch), "cell", s, Written(c, s)')
  <2>1. Written(c, s)' = Written(c, s)
    BY <1>2 DEF Written
  <2>2. WillHave(view[c], p \o q, "cell", s, Written(c, s))
    BY <1>3 DEF CaughtUp
  <2> QED
    BY <1>5, <2>1, <2>2 DEF Kinds
<1> QED
  BY <1>2, <1>4, <1>6, <1>7, <1>8 DEF CaughtUp


AllFollow == \A s \in Session : Follows(s)

\* A player changes, or nothing does, and the listener of its session may stop.
LEMMA SetPlayerFollows ==
    ASSUME Basics, AllFollow, NEW o \in Session, NEW track \in Tracking,
           \A s \in Session \ {o} : track[s] = tracking[s],
           track[o].conn # None => track[o] = tracking[o],
           \A c \in Conn : SameChannel(c),
           \/ \E value \in {None, "here", "away"} :
                SetPlayer(track, o, value) \/ SetPlayerConnection(track, o, value)
           \/ tracking' = track /\ UNCHANGED state
    PROVE  AllFollow'
<1>1. CASE tracking' = track /\ UNCHANGED state
  <2>1. ASSUME NEW s \in Session
        PROVE  Follows(s)'
    BY <1>1, NotTold DEF AllFollow
  <2> QED
    BY <2>1 DEF AllFollow
<1>2. ASSUME NEW value \in {None, "here", "away"}, SetPlayer(track, o, value)
      PROVE  AllFollow'
  <2> PICK patch : patch = PlayerPatch(o, value)
    OBVIOUS
  <2>1. /\ patch \in Patches
        /\ patch.type = "player" /\ patch.of = o /\ patch.value = value
        /\ tracking' = Broadcast(track, o, patch)
        /\ state'.cells = state.cells
        /\ \A t \in Session : state'.players[t] = IF t = o THEN value ELSE state.players[t]
    <3>1. /\ patch \in Patches /\ tracking' = Broadcast(track, o, patch)
          /\ state'.cells = state.cells
          /\ \A t \in Session : state'.players[t] = IF t = o THEN value ELSE state.players[t]
      BY <1>2, TrackingTyped, SetPlayerEffect
    <3>2. patch.type = "player" /\ patch.of = o /\ patch.value = value
      BY DEF PlayerPatch
    <3> QED
      BY <3>1, <3>2
  <2>2. \A t \in Session :
          /\ tracking'[t].conn = track[t].conn
          /\ tracking'[t].patches =
               IF t = o \/ track[t].conn = None THEN track[t].patches
               ELSE Append(track[t].patches, patch)
    BY <2>1, BroadcastEffect
  <2>3. ASSUME NEW s \in Session \ {o}
        PROVE  Follows(s)'
    <3>1. tracking'[s].conn = tracking[s].conn
      BY <2>2
    <3>2. tracking[s].conn # None => tracking'[s].patches = Append(tracking[s].patches, patch)
      BY <2>2
    <3>3. Follows(s)
      BY DEF AllFollow
    <3>4. /\ patch.type = "player" /\ patch.of = o /\ state'.players[o] = patch.value
          /\ \A t \in Session \ {o} : state'.players[t] = state.players[t]
          /\ state'.cells = state.cells
      BY <2>1
    <3> QED
      BY <2>1, <3>1, <3>2, <3>3, <3>4, ToldFollows
  <2>4. Follows(o)'
    <3>1. tracking'[o].conn # None => tracking'[o] = tracking[o]
      <4>1. tracking'[o] = track[o]
        BY <2>1 DEF Broadcast
      <4> QED
        BY <4>1
    <3>2. Follows(o) /\ \A t \in Session \ {o} : state'.players[t] = state.players[t]
      BY <2>1 DEF AllFollow
    <3> QED
      BY <2>1, <3>1, <3>2, NotTold
  <2> QED
    BY <2>3, <2>4 DEF AllFollow
<1> QED
  BY <1>1, <1>2 DEF SetPlayerConnection

LEMMA QuietFollows ==
    ASSUME Basics, AllFollow, UNCHANGED <<tracking, state>>, \A c \in Conn : SameChannel(c)
    PROVE  AllFollow'
<1>1. ASSUME NEW s \in Session
      PROVE  Follows(s)'
  BY NotTold DEF AllFollow
<1> QED
  BY <1>1 DEF AllFollow

LEMMA LeaveRoomFollows ==
    ASSUME Basics, AllFollow, NEW s \in Session, LeaveRoom(s)
    PROVE  AllFollow'
<1>1. \A c \in Conn : SameChannel(c)
  BY DEF LeaveRoom, SameChannel, netVars
<1>2. /\ Untracked(s) \in Tracking
      /\ \A t \in Session \ {s} : Untracked(s)[t] = tracking[t]
      /\ Untracked(s)[s].conn = None
  BY TrackingTyped, UntrackedEffect
<1> QED
  BY <1>1, <1>2, SetPlayerFollows DEF LeaveRoom

LEMMA DropFollows ==
    ASSUME Basics, AllFollow, NEW c \in Conn, NEW consented \in BOOLEAN, Drop(c, consented)
    PROVE  AllFollow'
<1> PICK s : s = conn[c].session
  OBVIOUS
<1>1. s \in Session
  BY DropEffect
<1>2. \A d \in Conn : SameChannel(d)
  <2>1. conn'[c].socket = "closed"
    BY DropEffect
  <2>2. \A d \in Conn : d # c => /\ conn'[d] = conn[d] /\ up'[d] = up[d]
                                 /\ down'[d] = down[d] /\ view'[d] = view[d]
    BY DropEffect
  <2> QED
    BY <2>1, <2>2 DEF SameChannel
<1>3. /\ Untracked(s) \in Tracking
      /\ \A t \in Session \ {s} : Untracked(s)[t] = tracking[t]
      /\ Untracked(s)[s].conn = None
  BY <1>1, TrackingTyped, UntrackedEffect
<1>4. CASE UNCHANGED <<tracking, state>>
  BY <1>2, <1>4, QuietFollows
<1>5. CASE \/ \E value \in {None, "here", "away"} :
                SetPlayer(Untracked(s), s, value) \/ SetPlayerConnection(Untracked(s), s, value)
           \/ tracking' = Untracked(s) /\ UNCHANGED state
  BY <1>1, <1>2, <1>3, <1>5, SetPlayerFollows
<1> QED
  BY <1>4, <1>5 DEF Drop

LEMMA WaitTickFollows ==
    ASSUME Basics, AllFollow, NEW c \in Conn, WaitTick(c)
    PROVE  AllFollow'
<1> PICK s : s = conn[c].session
  OBVIOUS
<1>1. s \in Session /\ SameSockets
  BY WaitTickEffect
<1>2. \A d \in Conn : SameChannel(d)
  BY <1>1 DEF WaitTick, SameChannel, SameSockets, netVars
<1>3. \/ \E value \in {None, "here", "away"} :
           SetPlayer(tracking, s, value) \/ SetPlayerConnection(tracking, s, value)
      \/ tracking' = tracking /\ UNCHANGED state
  BY WaitTickEffect
<1> QED
  BY <1>1, <1>2, <1>3, TrackingTyped, SetPlayerFollows

LEMMA ConnectFollows ==
    ASSUME Basics, AllFollow, NEW c \in Conn, NEW s \in Session,
           ConnectSeated(c, s) \/ ConnectReturning(c, s)
    PROVE  AllFollow'
<1>1. /\ conn[c].stage = "idle" /\ UNCHANGED <<tracking, state, up, down, view>>
      /\ \A d \in Conn : d # c => conn'[d] = conn[d]
  <2>1. IsNext(c) /\ UNCHANGED <<tracking, state, up, down, view>>
    BY DEF ConnectSeated, ConnectReturning, netVars
  <2>2. conn[c].stage = "idle"
    BY <2>1 DEF IsNext, Conn
  <2>3. \A d \in Conn : d # c => conn'[d] = conn[d]
    BY TrackingTyped DEF ConnectSeated, ConnectReturning
  <2> QED
    BY <2>1, <2>2, <2>3
<1>2. \A d \in Conn : SameChannel(d)
  BY <1>1 DEF SameChannel
<1> QED
  BY <1>1, <1>2, QuietFollows

\* A new listener follows the state from its snapshot on.
LEMMA SnapshotFollows ==
    ASSUME NEW kind \in Kinds, NEW t, NEW copy, NEW data \in States
    PROVE  WillHave(copy, <<[type |-> "snapshot", data |-> data]>> \o <<>>, kind, t,
                    Field(data, kind, t))
<1> PICK ms : ms = <<[type |-> "snapshot", data |-> data]>>
  OBVIOUS
<1>1. ms \in Seq(Messages) /\ ms \o <<>> = ms
  <2>1. [type |-> "snapshot", data |-> data] \in Messages
    BY DEF Messages
  <2> HIDE DEF Messages
  <2>2. ms \in Seq(Messages)
    BY <2>1
  <2> QED
    BY <2>2, ConcatEmptySeq
<1>2. DOMAIN ms = {1} /\ ms[1] = [type |-> "snapshot", data |-> data]
  OBVIOUS
<1>3. WillHave(copy, ms, kind, t, Field(data, kind, t))
  BY <1>2 DEF WillHave, Tells, Value
<1> QED
  BY <1>1, <1>3

LEMMA EstablishesFollows ==
    ASSUME Basics, AllFollow, NEW c \in Conn, NEW track, Prepared(track), Establishes(c, track),
           NEW s \in Session, s = conn[c].session,
           \/ track = tracking /\ UNCHANGED state
           \/ /\ track = Broadcast(tracking, s, PlayerPatch(s, "here"))
              /\ state' = [state EXCEPT !.players[s] = "here"]
    PROVE  AllFollow'
<1>1. /\ tracking' \in Tracking
      /\ \A t \in Session : t # s => tracking'[t] = track[t]
      /\ \A d \in Conn : d # c => down'[d] = down[d]
      /\ \/ /\ tracking[s].conn = None
            /\ tracking'[s] = [conn |-> c, patches |-> <<>>]
            /\ down'[c] = <<[type |-> "snapshot", data |-> state']>>
         \/ /\ tracking[s].conn \in Conn \ {c}
            /\ tracking'[s] = track[s]
      /\ view[c] = None
  BY StartTrackingEffect
<1>2. /\ conn[c].stage # "established" /\ conn[c].socket = "open"
      /\ \A d \in Conn : conn'[d].socket = conn[d].socket
      /\ UNCHANGED <<up, view>>
      /\ up[c] = <<>>
      /\ state' \in States
  BY TrackingTyped DEF Establishes, Connection, Basics, ChannelsTrue, Silent
<1>3. \A d \in Conn : SameChannel(d)
  BY <1>1, <1>2 DEF SameChannel
<1>4. ASSUME NEW t \in Session \ {s}
      PROVE  Follows(t)'
  <2>1. Follows(t) /\ tracking'[t] = track[t]
    BY <1>1 DEF AllFollow
  <2>2. CASE track = tracking /\ UNCHANGED state
    BY <1>3, <2>1, <2>2, NotTold
  <2>3. CASE /\ track = Broadcast(tracking, s, PlayerPatch(s, "here"))
             /\ state' = [state EXCEPT !.players[s] = "here"]
    <3> PICK patch : patch = PlayerPatch(s, "here")
      OBVIOUS
    <3>1. patch \in Patches /\ patch.type = "player" /\ patch.of = s /\ patch.value = "here"
      BY DEF PlayerPatch, Patches
    <3>2. /\ track[t].conn = tracking[t].conn
          /\ tracking[t].conn # None => track[t].patches = Append(tracking[t].patches, patch)
      <4>1. tracking \in Tracking /\ track = Broadcast(tracking, s, patch)
        BY <2>3, TrackingTyped
      <4>2. \A u \in Session :
              /\ Broadcast(tracking, s, patch)[u].conn = tracking[u].conn
              /\ Broadcast(tracking, s, patch)[u].patches =
                   IF u = s \/ tracking[u].conn = None THEN tracking[u].patches
                   ELSE Append(tracking[u].patches, patch)
        BY <3>1, <4>1, BroadcastEffect
      <4> QED
        BY <4>1, <4>2
    <3>3. /\ state'.players[s] = "here" /\ state'.cells = state.cells
          /\ \A u \in Session \ {s} : state'.players[u] = state.players[u]
      BY <2>3, TrackingTyped DEF States
    <3> QED
      BY <1>3, <2>1, <3>1, <3>2, <3>3, ToldFollows
  <2> QED
    BY <2>2, <2>3
<1>5. Follows(s)'
  <2>1. CASE /\ tracking'[s] = [conn |-> c, patches |-> <<>>]
             /\ down'[c] = <<[type |-> "snapshot", data |-> state']>>
    <3> SUFFICES CaughtUp(s, c)'
      BY <2>1 DEF Follows
    <3>1. Written(c, s)' = state'.cells[s]
      BY <1>2 DEF Written
    <3>2. tracking'[s].patches = <<>>
      BY <2>1
    <3>3. \A kind \in Kinds, t \in Session :
            WillHave(view'[c], down'[c] \o tracking'[s].patches, kind, t, Field(state', kind, t))
      BY <1>2, <2>1, <3>2, SnapshotFollows
    <3>4. \A t \in Session :
            /\ WillHave(view'[c], down'[c] \o tracking'[s].patches, "player", t, state'.players[t])
            /\ WillHave(view'[c], down'[c] \o tracking'[s].patches, "cell", t, state'.cells[t])
      BY <3>3 DEF Kinds, Field
    <3> QED
      BY <3>1, <3>4 DEF CaughtUp
  <2>2. CASE tracking[s].conn \in Conn \ {c} /\ tracking'[s] = track[s]
    <3> SUFFICES ASSUME NEW d \in Conn, tracking'[s].conn = d, conn'[d].socket = "open"
        PROVE  FALSE
      BY DEF Follows
    <3>1. tracking[s].conn = d /\ d # c
      BY <2>2 DEF Prepared
    <3>2. conn[d].session = s /\ conn[d].socket = "open"
      BY <1>2, <3>1, Values DEF Basics, ListenersTrue, Listens
    <3> QED
      BY <1>2, <3>1, <3>2 DEF Basics, OneSocket
  <2> QED
    BY <1>1, <2>1, <2>2
<1> QED
  BY <1>4, <1>5 DEF AllFollow


LEMMA JoinedFollows ==
    ASSUME Basics, AllFollow, NEW c \in Conn, Joined(c)
    PROVE  AllFollow'
<1> PICK s \in Session : s = conn[c].session
  BY DEF Joined, Basics, ConnsTrue
<1> DEFINE track == Broadcast(tracking, s, PlayerPatch(s, "here"))
<1>1. Prepared(track) /\ Establishes(c, track)
  BY JoinedBasics
<1>2. state' = [state EXCEPT !.players[s] = "here"]
  BY DEF Joined
<1> QED
  BY <1>1, <1>2, EstablishesFollows

LEMMA ReconnectedFollows ==
    ASSUME Basics, AllFollow, NEW c \in Conn, Reconnected(c)
    PROVE  AllFollow'
<1> PICK s \in Session : s = conn[c].session
  BY DEF Reconnected, Basics, ConnsTrue
<1>1. Prepared(tracking) /\ Establishes(c, tracking)
  BY ReconnectedBasics
<1>2. UNCHANGED state
  BY DEF Reconnected
<1> QED
  BY <1>1, <1>2, EstablishesFollows

\* The removals tell of those who are gone, and of each of them once.
LEMMA RemovalsFollow ==
    ASSUME NEW copy, NEW kind \in Kinds, NEW t \in Session, NEW v,
           NEW p \in Seq(Messages), NEW q \in Seq(Patches),
           IF kind = "player" /\ t \in Gone THEN v = None
           ELSE WillHave(copy, p \o q, kind, t, v)
    PROVE  WillHave(copy, p \o (q \o Removals), kind, t, v)
<1>1. Removals \in Seq(Patches) /\ Removals \in Seq(Messages) /\ q \in Seq(Messages)
  BY RemovalsTell DEF Messages
<1> PICK r \in Seq(Messages) : r = Removals
  BY <1>1
<1>2. p \o (q \o r) = (p \o q) \o r /\ p \o q \in Seq(Messages)
  <2>1. p \in Seq(Messages) /\ q \in Seq(Messages) /\ r \in Seq(Messages)
    BY <1>1
  <2> HIDE DEF Messages
  <2> QED
    BY ONLY SMTT(30), <2>1, ConcatAssociative, ConcatProperties
<1> PICK ms \in Seq(Messages) : ms = p \o q
  BY <1>2
<1> PICK ns : ns = ms \o r
  OBVIOUS
<1>3. /\ ns \in Seq(Messages) /\ Len(ms) \in Nat /\ Len(r) \in Nat /\ Len(ns) = Len(ms) + Len(r)
      /\ DOMAIN r = 1..Len(r)
      /\ \A i \in 1..Len(ms) : ns[i] = ms[i]
      /\ \A i \in DOMAIN r : ns[Len(ms) + i] = r[i]
  <2>1. ms \in Seq(Messages) /\ r \in Seq(Messages) /\ ns = ms \o r
    OBVIOUS
  <2> HIDE DEF Messages
  <2>2. /\ ns \in Seq(Messages) /\ Len(ns) = Len(ms) + Len(r)
        /\ DOMAIN ms = 1..Len(ms)
    BY ONLY <2>1, ConcatProperties, LenProperties
  <2>3. /\ Len(ms) \in Nat /\ Len(r) \in Nat /\ DOMAIN r = 1..Len(r) /\ DOMAIN ms = 1..Len(ms)
        /\ \A i \in DOMAIN ms : ns[i] = ms[i]
        /\ \A i \in DOMAIN r : ns[Len(ms) + i] = r[i]
    BY ONLY <2>1, ConcatElements
  <2> QED
    BY <2>2, <2>3
<1>4. \A i \in Len(ms) + 1..Len(ns) : i - Len(ms) \in DOMAIN r /\ ns[i] = r[i - Len(ms)]
  <2> SUFFICES ASSUME NEW i \in Len(ms) + 1..Len(ns)
      PROVE  i - Len(ms) \in DOMAIN r /\ ns[i] = r[i - Len(ms)]
    OBVIOUS
  <2>1. i - Len(ms) \in DOMAIN r /\ Len(ms) + (i - Len(ms)) = i
    BY ONLY <1>3, i \in Len(ms) + 1..Len(ns)
  <2> QED
    BY <1>3, <2>1
<1>5. CASE kind = "player" /\ t \in Gone
  <2>1. PICK j \in DOMAIN r : r[j] = PlayerPatch(t, None)
    BY <1>5, RemovalsTell
  <2>2. Tells(r[j], kind, t) /\ Value(r[j], kind, t) = None
    BY <1>5, <2>1 DEF Tells, Value, PlayerPatch
  <2>3. \A i \in DOMAIN r : Tells(r[i], kind, t) => i = j
    <3> SUFFICES ASSUME NEW i \in DOMAIN r, Tells(r[i], kind, t)
        PROVE  i = j
      OBVIOUS
    <3>1. PICK s \in Gone : r[i] = PlayerPatch(s, None)
      BY RemovalsTell
    <3>2. s = t
      BY <3>1 DEF Tells, PlayerPatch
    <3> QED
      BY <2>1, <3>1, <3>2, RemovalsTell
  <2>4. Len(ms) + j \in Len(ms) + 1..Len(ns) /\ ns[Len(ms) + j] = r[j]
    BY ONLY <1>3, j \in DOMAIN r
  <2>5. ASSUME NEW i \in Len(ms) + 1..Len(ns), Tells(ns[i], kind, t)
        PROVE  i <= Len(ms) + j
    <3>1. i - Len(ms) = j
      BY <1>4, <2>3, <2>5
    <3>2. i \in Int /\ Len(ms) \in Nat /\ j \in Nat
      BY <1>3
    <3> QED
      BY ONLY <3>1, <3>2
  <2>6. Tells(ns[Len(ms) + j], kind, t) /\ Value(ns[Len(ms) + j], kind, t) = v
    BY <1>5, <2>2, <2>4
  <2>7. Len(ms) <= Len(ns)
    BY <1>3
  <2>8. WillHave(copy, ns, kind, t, v)
    <3>1. \E i \in Len(ms) + 1..Len(ns) :
            /\ Tells(ns[i], kind, t) /\ Value(ns[i], kind, t) = v
            /\ \A h \in Len(ms) + 1..Len(ns) : Tells(ns[h], kind, t) => h <= i
      BY ONLY <2>4, <2>5, <2>6
    <3>2. \A i \in 1..Len(ms) : ns[i] = ms[i]
      BY <1>3
    <3> QED
      BY ONLY <2>7, <3>1, <3>2, LaterTells, kind \in Kinds, ms \in Seq(Messages), ns \in Seq(Messages)
  <2> QED
    BY <1>2, <2>8
<1>6. CASE ~(kind = "player" /\ t \in Gone)
  <2>1. \A i \in DOMAIN r : ~Tells(r[i], kind, t)
    <3> SUFFICES ASSUME NEW i \in DOMAIN r
        PROVE  ~Tells(r[i], kind, t)
      OBVIOUS
    <3>1. PICK s \in Gone : r[i] = PlayerPatch(s, None)
      BY RemovalsTell
    <3> QED
      BY <1>6, <3>1 DEF Tells, PlayerPatch, Kinds
  <2>2. \A i \in Len(ms) + 1..Len(ns) : ~Tells(ns[i], kind, t)
    BY <1>4, <2>1
  <2>3. Len(ms) <= Len(ns)
    BY <1>3
  <2>4. WillHave(copy, ns, kind, t, v)
    BY <1>3, <1>6, <2>2, <2>3, LaterTells
  <2> QED
    BY <1>2, <2>4
<1> QED
  BY <1>5, <1>6

LEMMA CloseRoomFollows ==
    ASSUME Basics, AllFollow, CloseRoom
    PROVE  AllFollow'
<1> SUFFICES ASSUME NEW s \in Session, NEW c \in Conn, tracking'[s].conn = c,
                    conn'[c].socket = "open"
    PROVE  CaughtUp(s, c)'
  BY DEF AllFollow, Follows
<1>1. s \notin Gone /\ tracking[s].conn = c
  BY CloseRoomEffect, Values
<1>2. conn[c].socket = "open" /\ UNCHANGED <<up, down, view>>
  BY CloseRoomEffect DEF netVars
<1>3. CaughtUp(s, c)
  BY <1>1, <1>2 DEF AllFollow, Follows
<1> PICK p, q : p = down[c] /\ q = tracking[s].patches
  OBVIOUS
<1>4. /\ p \in Seq(Messages) /\ q \in Seq(Patches)
      /\ tracking'[s].patches = q \o Removals
  <2>1. p \in Seq(Messages)
    BY DEF Basics, VariablesTyped
  <2>2. q \in Seq(Patches)
    BY TrackingTyped DEF Tracking
  <2>3. tracking[s].conn # None
    BY <1>1, Values
  <2>4. tracking'[s].patches = IF tracking[s].conn = None THEN tracking[s].patches
                               ELSE tracking[s].patches \o Removals
    BY <1>1, CloseRoomEffect
  <2> QED
    BY ONLY <2>1, <2>2, <2>3, <2>4, q = tracking[s].patches
<1>5. /\ state'.cells = state.cells
      /\ \A t \in Session : state'.players[t] = IF t \in Gone THEN None ELSE state.players[t]
  BY CloseRoomEffect
<1>6. ASSUME NEW t \in Session \ {s}
      PROVE  /\ WillHave(view[c], p \o (q \o Removals), "player", t, state'.players[t])
             /\ WillHave(view[c], p \o (q \o Removals), "cell", t, state'.cells[t])
  <2>1. /\ WillHave(view[c], p \o q, "player", t, state.players[t])
        /\ WillHave(view[c], p \o q, "cell", t, state.cells[t])
    BY <1>3 DEF CaughtUp
  <2>2. WillHave(view[c], p \o (q \o Removals), "player", t, state'.players[t])
    <3>1. IF t \in Gone THEN state'.players[t] = None
          ELSE WillHave(view[c], p \o q, "player", t, state'.players[t])
      BY <1>5, <2>1
    <3> QED
      BY <1>4, <3>1, RemovalsFollow DEF Kinds
  <2>3. WillHave(view[c], p \o (q \o Removals), "cell", t, state'.cells[t])
    BY <1>4, <1>5, <2>1, RemovalsFollow DEF Kinds
  <2> QED
    BY <2>2, <2>3
<1>7. WillHave(view[c], p \o (q \o Removals), "cell", s, Written(c, s)')
  <2>1. Written(c, s)' = Written(c, s)
    BY <1>2, <1>5 DEF Written
  <2>2. WillHave(view[c], p \o q, "cell", s, Written(c, s))
    BY <1>3 DEF CaughtUp
  <2> QED
    BY <1>4, <2>1, <2>2, RemovalsFollow DEF Kinds
<1> QED
  BY <1>2, <1>4, <1>6, <1>7 DEF CaughtUp


\* Patches go from the listener to its socket.
LEMMA FlushFollows ==
    ASSUME Basics, AllFollow, NEW s \in Session, Flush(s)
    PROVE  AllFollow'
<1> PICK c \in Conn : c = tracking[s].conn
  BY TrackingTyped DEF Flush, Tracking
<1>1. /\ tracking' = [tracking EXCEPT ![s].patches = <<>>]
      /\ down' = IF conn[c].socket # "open" THEN down
                 ELSE [down EXCEPT ![c] = @ \o tracking[s].patches]
      /\ UNCHANGED <<conn, state, up, view>>
  BY DEF Flush, Collected
<1>2. /\ \A d \in Conn : d # c => down'[d] = down[d]
      /\ conn[c].socket = "open" => down'[c] = down[c] \o tracking[s].patches
      /\ \A t \in Session : t # s => tracking'[t] = tracking[t]
      /\ tracking'[s].patches = <<>> /\ tracking'[s].conn = c
  BY <1>1, TrackingTyped DEF Basics, VariablesTyped, Tracking
<1>3. ASSUME NEW t \in Session \ {s}
      PROVE  Follows(t)'
  <2>1. tracking[t].conn # c
    BY Values DEF Basics, ListenersTrue, Listens
  <2>2. \A d \in Conn : tracking[t].conn = d => SameChannel(d)
    BY <1>1, <1>2, <2>1 DEF SameChannel
  <2> QED
    BY <1>1, <1>2, <2>2, NotTold DEF AllFollow
<1>4. Follows(s)'
  <2> SUFFICES ASSUME conn[c].socket = "open"
      PROVE  CaughtUp(s, c)'
    BY <1>1, <1>2 DEF Follows
  <2> PICK p, q : p = down[c] /\ q = tracking[s].patches
    OBVIOUS
  <2>1. CaughtUp(s, c)
    BY DEF AllFollow, Follows
  <2>2. p \in Seq(Messages) /\ q \in Seq(Messages)
    BY TrackingTyped DEF Basics, VariablesTyped, Tracking, Messages
  <2>3. (p \o q) \o <<>> = p \o q
    BY ONLY <2>2, ConcatProperties, ConcatEmptySeq
  <2>4. down'[c] \o tracking'[s].patches = down[c] \o tracking[s].patches
    BY <1>2, <2>3
  <2>5. Written(c, s)' = Written(c, s)
    BY <1>1 DEF Written
  <2> QED
    BY <1>1, <2>1, <2>4, <2>5 DEF CaughtUp
<1> QED
  BY <1>3, <1>4 DEF AllFollow

LEMMA DeliverFollows ==
    ASSUME Basics, AllFollow, NEW c \in Conn, Deliver(c)
    PROVE  AllFollow'
<1>1. UNCHANGED <<conn, tracking, state, up>>
  BY DEF Deliver
<1>2. /\ down[c] \in Seq(Messages) /\ down'[c] \in Seq(Messages)
      /\ Len(down[c]) = Len(down'[c]) + 1
      /\ \A i \in 1..Len(down'[c]) : down'[c][i] = down[c][i + 1]
      /\ down[c][1].type = "snapshot" <=> view[c] = None
      /\ view'[c] = Apply(view[c], down[c][1])
      /\ \A d \in Conn : d # c => down'[d] = down[d] /\ view'[d] = view[d]
  <2>1. Len(down[c]) \in Nat /\ Len(down'[c]) = Len(down[c]) - 1
    BY DeliverEffect
  <2> QED
    BY <2>1, DeliverEffect
<1>3. ASSUME NEW s \in Session, tracking[s].conn # c
      PROVE  Follows(s)'
  <2>1. \A d \in Conn : tracking[s].conn = d => SameChannel(d)
    BY <1>1, <1>2, <1>3 DEF SameChannel
  <2> QED
    BY <1>1, <2>1, NotTold DEF AllFollow
<1>4. ASSUME NEW s \in Session, tracking[s].conn = c
      PROVE  Follows(s)'
  <2> SUFFICES ASSUME conn[c].socket = "open"
      PROVE  CaughtUp(s, c)'
    BY <1>1, <1>4 DEF Follows
  <2>1. CaughtUp(s, c)
    BY <1>4 DEF AllFollow, Follows
  <2> PICK p, d, q : p = down[c] /\ d = down'[c] /\ q = tracking[s].patches
    OBVIOUS
  <2> PICK ms, ns : ms = p \o q /\ ns = d \o q
    OBVIOUS
  <2>2. p \in Seq(Messages) /\ d \in Seq(Messages) /\ q \in Seq(Messages)
    BY <1>2, TrackingTyped DEF Tracking, Messages
  <2>3. /\ ms \in Seq(Messages) /\ Len(ms) = Len(p) + Len(q)
        /\ \A i \in 1..Len(p) + Len(q) : ms[i] = IF i <= Len(p) THEN p[i] ELSE q[i - Len(p)]
    BY ONLY <2>2, ms = p \o q, ConcatProperties
  <2>4. /\ ns \in Seq(Messages) /\ Len(ns) = Len(d) + Len(q)
        /\ \A i \in 1..Len(d) + Len(q) : ns[i] = IF i <= Len(d) THEN d[i] ELSE q[i - Len(d)]
    BY ONLY <2>2, ns = d \o q, ConcatProperties
  <2>5. Len(p) \in Nat /\ Len(d) \in Nat /\ Len(q) \in Nat /\ Len(p) = Len(d) + 1
    BY <1>2, <2>2, LenProperties
  <2>6. Len(ms) = Len(ns) + 1
    BY ONLY <2>3, <2>4, <2>5
  <2>7. ASSUME NEW i \in 1..Len(ns)
        PROVE  ns[i] = ms[i + 1]
    <3>1. i \in 1..Len(d) + Len(q) /\ i + 1 \in 1..Len(p) + Len(q)
      BY ONLY <2>4, <2>5, <2>7
    <3>2. CASE i <= Len(d)
      <4>1. i \in 1..Len(d) /\ i + 1 <= Len(p)
        BY ONLY <2>5, <3>1, <3>2
      <4>2. d[i] = p[i + 1]
        BY <1>2, <4>1
      <4> QED
        BY ONLY <2>3, <2>4, <3>1, <3>2, <4>1, <4>2
    <3>3. CASE ~(i <= Len(d))
      <4>1. ~(i + 1 <= Len(p)) /\ (i + 1) - Len(p) = i - Len(d)
        BY ONLY <2>5, <3>1, <3>3
      <4>2. ns[i] = q[i - Len(d)] /\ ms[i + 1] = q[(i + 1) - Len(p)]
        BY ONLY <2>3, <2>4, <3>1, <3>3, <4>1
      <4> QED
        BY ONLY <4>1, <4>2
    <3> QED
      BY ONLY <3>2, <3>3
  <2>8. ms[1] = p[1]
    <3>1. 1 \in 1..Len(p) + Len(q) /\ 1 <= Len(p)
      BY ONLY <2>5
    <3> QED
      BY ONLY <2>3, <3>1
  <2>9. ASSUME NEW kind \in Kinds, NEW t \in Session, NEW v, WillHave(view[c], ms, kind, t, v)
        PROVE  WillHave(view'[c], ns, kind, t, v)
    <3>1. view[c] \in States \cup {None}
      BY DEF Basics, VariablesTyped
    <3>2. ms[1].type = "snapshot" <=> view[c] = None
      BY <1>2, <2>8
    <3>3. WillHave(Apply(view[c], ms[1]), ns, kind, t, v)
      BY <2>3, <2>4, <2>6, <2>7, <2>9, <3>1, <3>2, ArrivalTells
    <3> QED
      BY <1>2, <2>8, <3>3
  <2>10. Written(c, s)' = Written(c, s)
    BY <1>1 DEF Written
  <2>11. \A t \in Session \ {s} : /\ WillHave(view[c], ms, "player", t, state.players[t])
                                  /\ WillHave(view[c], ms, "cell", t, state.cells[t])
    BY <2>1 DEF CaughtUp
  <2>12. WillHave(view[c], ms, "cell", s, Written(c, s))
    BY <2>1 DEF CaughtUp
  <2>13. \A t \in Session \ {s} : /\ WillHave(view'[c], ns, "player", t, state'.players[t])
                                  /\ WillHave(view'[c], ns, "cell", t, state'.cells[t])
    BY <1>1, <2>9, <2>11 DEF Kinds
  <2>14. WillHave(view'[c], ns, "cell", s, Written(c, s)')
    BY <2>9, <2>10, <2>12 DEF Kinds
  <2> QED
    BY <1>1, <2>13, <2>14 DEF CaughtUp
<1> QED
  BY <1>3, <1>4 DEF AllFollow

\* Nothing on its way to a client that has a copy tells of its own cell.
LEMMA OwnNotTold ==
    ASSUME Basics, NEW s \in Session, NEW c \in Conn, tracking[s].conn = c, view[c] # None,
           NEW ms, ms = down[c] \o tracking[s].patches
    PROVE  \A i \in DOMAIN ms : ~Tells(ms[i], "cell", s)
<1> PICK p, q : p = down[c] /\ q = tracking[s].patches /\ ms = p \o q
  OBVIOUS
<1>1. p \in Seq(Messages) /\ q \in Seq(Patches) /\ q \in Seq(Messages)
  BY TrackingTyped DEF Basics, VariablesTyped, Tracking, Messages
<1>2. conn[c].session = s
  BY Values DEF Basics, ListenersTrue, Listens
<1>3. \A i \in DOMAIN p : ~Tells(p[i], "cell", s)
  BY <1>2 DEF Basics, ChannelsTrue, Snapshots, Tells, IsOwn
<1>4. \A i \in DOMAIN q : ~Tells(q[i], "cell", s)
  <2> SUFFICES ASSUME NEW i \in DOMAIN q
      PROVE  ~Tells(q[i], "cell", s)
    OBVIOUS
  <2>1. q[i] \in Patches
    BY <1>1, LenProperties, ElementOfSeq
  <2>2. ~IsOwn(q[i], s)
    BY DEF Basics, ListenersTrue
  <2> QED
    BY <2>1, <2>2 DEF Tells, IsOwn, Patches
<1>5. /\ \A i \in DOMAIN p : ms[i] = p[i]
      /\ \A i \in DOMAIN ms : i \in DOMAIN p \/ \E j \in DOMAIN q : ms[i] = q[j]
  <2> HIDE DEF Messages
  <2> QED
    BY ONLY <1>1, ms = p \o q, ConcatElements
<1>6. \A i \in DOMAIN ms : ~Tells(ms[i], "cell", s)
  BY <1>3, <1>4, <1>5
<1> QED
  BY <1>6

LEMMA WriteEffect ==
    ASSUME Basics, NEW c \in Conn, Write(c), NEW o, o = conn[c].session
    PROVE  \E new \in 0..MaxWrites :
             /\ o \in Session /\ view[c] # None /\ view'[c] # None
             /\ view'[c].players = view[c].players
             /\ \A t \in Session : view'[c].cells[t] = IF t = o THEN new ELSE view[c].cells[t]
             /\ up'[c] = Append(up[c], new) /\ up[c] \in Seq(0..MaxWrites)
<1>1. ~Silent(c) /\ view[c] # None
  BY DEF Write, Silent
<1>2. o \in Session
  BY <1>1, HasSession
<1>3. view[c] \in States /\ view[c].cells[o] \in 0..MaxWrites /\ view[c].cells[o] + 1 \in 0..MaxWrites
  BY <1>1, <1>2, Bounds DEF Write, Basics, VariablesTyped, States
<1>4. /\ view' = [view EXCEPT ![c].cells[o] = @ + 1]
      /\ up' = [up EXCEPT ![c] = Append(@, view[c].cells[o] + 1)]
  BY DEF Write
<1>5. /\ view'[c] \in States
      /\ view'[c].players = view[c].players
      /\ \A t \in Session :
           view'[c].cells[t] = IF t = o THEN view[c].cells[o] + 1 ELSE view[c].cells[t]
  BY <1>2, <1>3, <1>4 DEF Basics, VariablesTyped, States
<1>6. view'[c] # None
  <2> HIDE DEF States
  <2> QED
    BY <1>5, Values
<1>7. up'[c] = Append(up[c], view[c].cells[o] + 1) /\ up[c] \in Seq(0..MaxWrites)
  BY <1>4 DEF Basics, VariablesTyped
<1> QED
  BY <1>1, <1>2, <1>3, <1>5, <1>6, <1>7

LEMMA WriteFollows ==
    ASSUME Basics, AllFollow, NEW c \in Conn, Write(c)
    PROVE  AllFollow'
<1> PICK o : o = conn[c].session
  OBVIOUS
<1> PICK new \in 0..MaxWrites :
         /\ o \in Session /\ view[c] # None /\ view'[c] # None
         /\ view'[c].players = view[c].players
         /\ \A t \in Session : view'[c].cells[t] = IF t = o THEN new ELSE view[c].cells[t]
         /\ up'[c] = Append(up[c], new) /\ up[c] \in Seq(0..MaxWrites)
  BY WriteEffect
<1>2. /\ view' = [view EXCEPT ![c].cells[o] = @ + 1]
      /\ up' = [up EXCEPT ![c] = Append(@, view[c].cells[o] + 1)]
      /\ UNCHANGED <<conn, tracking, state, down>>
  BY DEF Write
<1>3. ASSUME NEW s \in Session, tracking[s].conn # c
      PROVE  Follows(s)'
  <2>1. \A d \in Conn : tracking[s].conn = d => SameChannel(d)
    BY <1>2, <1>3 DEF SameChannel, Basics, VariablesTyped
  <2> QED
    BY <1>2, <2>1, NotTold DEF AllFollow
<1>4. ASSUME NEW s \in Session, tracking[s].conn = c
      PROVE  Follows(s)'
  <2> SUFFICES ASSUME conn[c].socket = "open"
      PROVE  CaughtUp(s, c)'
    BY <1>2, <1>4 DEF Follows
  <2>1. CaughtUp(s, c) /\ s = o
    BY <1>4, Values DEF AllFollow, Follows, Basics, ListenersTrue, Listens
  <2> PICK ms : ms = down[c] \o tracking[s].patches
    OBVIOUS
  <2>2. \A i \in DOMAIN ms : ~Tells(ms[i], "cell", s)
    BY <1>4, OwnNotTold
  <2>4. Written(c, s)' = new
    <3> PICK u, w : u = up[c] /\ w = Append(u, new)
      OBVIOUS
    <3> PICK S : S = 0..MaxWrites
      OBVIOUS
    <3>1. u \in Seq(S) /\ new \in S /\ up'[c] = w
      OBVIOUS
    <3>2. Len(u) \in Nat /\ Len(w) = Len(u) + 1 /\ w[Len(u) + 1] = new /\ w # <<>>
      BY ONLY <3>1, w = Append(u, new), AppendProperties, LenProperties
    <3> QED
      BY <3>1, <3>2 DEF Written, Last
  <2>5. WillHave(view'[c], ms, "cell", s, new)
    BY <2>1, <2>2 DEF WillHave, Field
  <2>6. ASSUME NEW t \in Session \ {s}
        PROVE  /\ WillHave(view'[c], ms, "player", t, state'.players[t])
               /\ WillHave(view'[c], ms, "cell", t, state'.cells[t])
    <3>1. /\ WillHave(view[c], ms, "player", t, state.players[t])
          /\ WillHave(view[c], ms, "cell", t, state.cells[t])
      BY <2>1 DEF CaughtUp
    <3>2. /\ Field(view'[c], "player", t) = Field(view[c], "player", t)
          /\ Field(view'[c], "cell", t) = Field(view[c], "cell", t)
      BY <2>1 DEF Field
    <3> QED
      BY <1>2, <3>1, <3>2 DEF WillHave
  <2> QED
    BY <1>2, <2>4, <2>5, <2>6 DEF CaughtUp
<1> QED
  BY <1>3, <1>4 DEF AllFollow

LEMMA PatchStateFollows ==
    ASSUME Basics, AllFollow, NEW c \in Conn, PatchState(c)
    PROVE  AllFollow'
<1> PICK o, patch : o = conn[c].session /\ patch = CellPatch(o, Head(up[c]))
  OBVIOUS
<1>1. /\ o \in Session /\ ~Silent(c)
      /\ up[c] # <<>> /\ up[c] \in Seq(0..MaxWrites) /\ up'[c] = Tail(up[c])
      /\ \A d \in Conn : d # c => up'[d] = up[d]
      /\ UNCHANGED <<conn, down, view>>
  BY PatchStateEffect
<1>2. /\ patch \in Patches /\ tracking' = Broadcast(tracking, o, patch)
      /\ state'.players = state.players
      /\ \A t \in Session : state'.cells[t] = IF t = o THEN Head(up[c]) ELSE state.cells[t]
  BY PatchStateEffect
<1>3. patch.type = "cell" /\ patch.of = o /\ patch.to = Head(up[c])
  BY DEF CellPatch
<1>4. \A t \in Session :
        /\ tracking'[t].conn = tracking[t].conn
        /\ tracking'[t].patches =
             IF t = o \/ tracking[t].conn = None THEN tracking[t].patches
             ELSE Append(tracking[t].patches, patch)
  BY <1>1, <1>2, TrackingTyped, BroadcastEffect
<1>5. ASSUME NEW s \in Session \ {o}
      PROVE  Follows(s)'
  <2>1. tracking[s].conn # c
    BY Values DEF Basics, ListenersTrue, Listens
  <2>2. \A d \in Conn : tracking[s].conn = d => SameChannel(d)
    BY <1>1, <2>1 DEF SameChannel
  <2>3. /\ tracking'[s].conn = tracking[s].conn
        /\ tracking[s].conn # None => tracking'[s].patches = Append(tracking[s].patches, patch)
    BY <1>4
  <2>4. Follows(s)
    BY DEF AllFollow
  <2>5. /\ state'.cells[o] = patch.to /\ state'.players = state.players
        /\ \A t \in Session \ {o} : state'.cells[t] = state.cells[t]
    BY <1>1, <1>2, <1>3
  <2> QED
    BY <1>1, <1>2, <1>3, <2>2, <2>3, <2>4, <2>5, ToldFollows
<1>6. Follows(o)'
  <2> SUFFICES ASSUME NEW d \in Conn, tracking[o].conn = d, conn[d].socket = "open"
      PROVE  CaughtUp(o, d)'
    BY <1>1, <1>4 DEF Follows
  <2>1. conn[d].session = o
    BY <1>1, Values DEF Basics, ListenersTrue, Listens
  <2>2. d = c
    BY <1>1, <2>1 DEF Basics, ChannelsTrue, Replaced
  <2>3. CaughtUp(o, c)
    BY <1>1, <2>2 DEF AllFollow, Follows
  <2>4. tracking'[o].patches = tracking[o].patches
    BY <1>1, <1>4
  <2>5. Written(c, o)' = Written(c, o)
    <3> PICK q, r, S : q = up[c] /\ r = Tail(q) /\ S = 0..MaxWrites
      OBVIOUS
    <3>1. q \in Seq(S) /\ q # <<>> /\ up'[c] = r
      BY <1>1
    <3>2. /\ Len(q) \in Nat /\ Len(q) > 0 /\ Head(q) = q[1]
          /\ r \in Seq(S) /\ Len(r) = Len(q) - 1
          /\ \A i \in 1..Len(r) : r[i] = q[i + 1]
      BY ONLY <3>1, r = Tail(q), EmptySeq, LenProperties, HeadTailProperties
    <3>3. r = <<>> <=> Len(q) = 1
      BY ONLY <3>2, EmptySeq
    <3>4. r # <<>> => r[Len(r)] = q[Len(q)]
      <4>1. r # <<>> => Len(r) \in 1..Len(r) /\ Len(r) + 1 = Len(q)
        BY ONLY <3>2, <3>3
      <4> QED
        BY ONLY <3>2, <4>1
    <3>5. state'.cells[o] = q[1]
      BY <1>1, <1>2, <3>2
    <3> QED
      BY <3>1, <3>3, <3>4, <3>5 DEF Written, Last
  <2> QED
    BY <1>1, <1>2, <2>2, <2>3, <2>4, <2>5 DEF CaughtUp
<1> QED
  BY <1>5, <1>6 DEF AllFollow

LEMMA FollowsStep ==
    ASSUME Basics, AllFollow, [Next]_vars
    PROVE  AllFollow'
<1>1. CASE UNCHANGED <<conn, tracking, state, up, down, view>>
  <2>1. \A c \in Conn : SameChannel(c)
    BY <1>1 DEF SameChannel
  <2> QED
    BY <1>1, <2>1, QuietFollows
<1> QED
  BY <1>1, LeaveRoomFollows, FlushFollows, CloseRoomFollows, ConnectFollows, DropFollows,
     JoinedFollows, ReconnectedFollows, WaitTickFollows, DeliverFollows, WriteFollows,
     PatchStateFollows
  DEF Next, vars, netVars, JoinRoom, ReservationTimeout, UpdateRoom

\* The copy of every tracked player with an open socket, with what is collected for it
\* and on its way, is the state of the room, and no write of its own is undone, for any
\* number of sessions, sockets and values (tracking of room/index.ts, relay.ts).
THEOREM ViewsCatchUp == Spec => []ViewCatchesUp
<1>1. Init => AllFollow
  BY Values DEF Init, AllFollow, Follows
<1>2. Basics /\ AllFollow /\ [Next]_vars => AllFollow'
  BY FollowsStep
<1>3. Basics /\ AllFollow => ViewCatchesUp
  BY FollowsMeans DEF AllFollow
<1> QED
  BY <1>1, <1>2, <1>3, SocketsInvariant, PTL DEF Spec

=============================================================================
