----------------------------- MODULE Transport -----------------------------
(***************************************************************************)
(* The websocket transport and its clients, on both sides: the pings of    *)
(* WebSocketTransport, the queue of Client, the requests of                *)
(* WebSocketClient, and the client library's connectRoom and dispatch      *)
(* (packages/core/src/transport, packages/magx-client/src).                *)
(*                                                                         *)
(* Rooms appear as what they may ask of a client: send, request, and the   *)
(* refusal or the admission of a connection.                               *)
(***************************************************************************)
EXTENDS Naturals, Sequences

CONSTANTS
    Client,       \* websockets, each with its Client object and its library Room
    Addressed,    \* bound: the clients a room sends messages and requests to
    MaxPings,     \* maxPingRetries
    Lag,          \* pings a client that is there leaves open at most, plus one
    MaxMessages,  \* bound: messages sent to a client
    MaxRequests   \* bound: requests sent to a client

ASSUME Bounds == {MaxPings, Lag, MaxMessages, MaxRequests} \subseteq Nat

VARIABLES
    interval,   \* the ping interval runs
    socket,     \* "terminated": closed because pings were not answered
    silent,     \* the peer is gone without closing its socket
    pingCount,  \* pings since the last pong
    unanswered, \* pings the peer has not answered
    status,     \* Client.status; "connecting" is split: the token is verified, the
                \* client is told to answer, the room's onJoin is called
    queue,      \* Client.messages
    sent,       \* number of messages the room has sent
    requests,   \* the promises of Client.request
    down,       \* frames on their way to the client
    up,         \* frames on their way to the server
    promise,    \* what connectRoom of the library answered
    got         \* messages the library's handlers were called with

pingVars == <<interval, silent, pingCount, unanswered>>
serverVars == <<status, queue, sent, requests>>
libraryVars == <<promise, got>>
vars == <<socket, pingVars, serverVars, down, up, libraryVars>>

Message(n) == [type |-> "message", n |-> n]
RequestFrame(id) == [type |-> "request", n |-> id]
Event(type) == [type |-> type, n |-> 0]

Down == [type : {"connected", "error"}, n : {0}] \cup [type : {"message"}, n : 1..MaxMessages]
          \cup [type : {"request"}, n : 1..MaxRequests]
Up == [type : {"joined"}, n : {0}] \cup [type : {"result", "empty"}, n : 1..MaxRequests]

TypeOK ==
    /\ interval \in BOOLEAN
    /\ socket \in [Client -> {"none", "open", "closed", "terminated"}]
    /\ silent \in [Client -> BOOLEAN]
    /\ pingCount \in [Client -> 0..MaxPings]
    /\ unanswered \in [Client -> Nat]
    /\ status \in [Client -> {"verifying", "connecting", "joining", "connected", "disconnected"}]
    /\ queue \in [Client -> Seq(1..MaxMessages)]
    /\ sent \in [Client -> 0..MaxMessages]
    /\ requests \in [Client -> [1..MaxRequests -> {"none", "pending", "resolved", "rejected"}]]
    /\ down \in [Client -> Seq(Down)]
    /\ up \in [Client -> Seq(Up)]
    /\ promise \in [Client -> {"none", "pending", "resolved", "rejected"}]
    /\ got \in [Client -> Seq(1..MaxMessages)]

Init ==
    /\ interval = TRUE
    /\ socket = [c \in Client |-> "none"]
    /\ silent = [c \in Client |-> FALSE]
    /\ pingCount = [c \in Client |-> 0]
    /\ unanswered = [c \in Client |-> 0]
    /\ status = [c \in Client |-> "verifying"]
    /\ queue = [c \in Client |-> <<>>]
    /\ sent = [c \in Client |-> 0]
    /\ requests = [c \in Client |-> [id \in 1..MaxRequests |-> "none"]]
    /\ down = [c \in Client |-> <<>>]
    /\ up = [c \in Client |-> <<>>]
    /\ promise = [c \in Client |-> "none"]
    /\ got = [c \in Client |-> <<>>]

Open == {c \in Client : socket[c] = "open"}

\* ws.send: nothing is sent on a socket that is closed.
Emit(c, frames) == down' = IF c \in Open THEN [down EXCEPT ![c] = @ \o frames] ELSE down

\* The close of a socket: undelivered frames are lost, the status is set.
Closed(cs, how) ==
    /\ socket' = [c \in Client |-> IF c \in cs THEN how ELSE socket[c]]
    /\ status' = [c \in Client |-> IF c \in cs THEN "disconnected" ELSE status[c]]
    /\ down' = [c \in Client |-> IF c \in cs THEN <<>> ELSE down[c]]
    /\ up' = [c \in Client |-> IF c \in cs THEN <<>> ELSE up[c]]

-----------------------------------------------------------------------------
(* Opening a room. *)

\* connectRoom: the library opens the socket, the server verifies its token.
Connect(c) ==
    /\ socket[c] = "none"
    /\ socket' = [socket EXCEPT ![c] = "open"]
    /\ promise' = [promise EXCEPT ![c] = "pending"]
    /\ UNCHANGED <<pingVars, serverVars, down, up, got>>

\* The room admits the client, which is told to answer.
Admit(c) ==
    /\ c \in Open
    /\ status[c] = "verifying"
    /\ status' = [status EXCEPT ![c] = "connecting"]
    /\ Emit(c, <<Event("connected")>>)
    /\ UNCHANGED <<socket, pingVars, queue, sent, requests, up, libraryVars>>

\* There is no such room or seat, the client did not answer in time, or onJoin has
\* failed: client.error.
Refuse(c) ==
    /\ c \in Open
    /\ status[c] \in {"verifying", "connecting", "joining"}
    /\ socket' = [socket EXCEPT ![c] = "closed"]
    /\ status' = [status EXCEPT ![c] = "disconnected"]
    /\ down' = [down EXCEPT ![c] = Append(@, Event("error"))]
    /\ UNCHANGED <<pingVars, queue, sent, requests, up, libraryVars>>

\* The token is not known, or the socket closes for any other reason.
Close(c) ==
    /\ c \in Open
    /\ Closed({c}, "closed")
    /\ UNCHANGED <<pingVars, queue, sent, requests, libraryVars>>

-----------------------------------------------------------------------------
(* Messages and requests. *)

\* client.send: messages of the onJoin hook wait for the end of it.
Send(c) ==
    /\ status[c] \in {"joining", "connected"}
    /\ c \in Addressed
    /\ sent[c] < MaxMessages
    /\ sent' = [sent EXCEPT ![c] = @ + 1]
    /\ IF status[c] = "joining"
       THEN queue' = [queue EXCEPT ![c] = Append(@, sent[c] + 1)] /\ UNCHANGED down
       ELSE Emit(c, <<Message(sent[c] + 1)>>) /\ UNCHANGED queue
    /\ UNCHANGED <<socket, pingVars, status, requests, up, libraryVars>>

\* "joined" or "reconnected": the room's hook runs, if it has one.
Answered(c) ==
    /\ up[c] # <<>>
    /\ Head(up[c]).type = "joined"
    /\ up' = [up EXCEPT ![c] = Tail(@)]
    /\ status' = [status EXCEPT ![c] = IF @ = "connecting" THEN "joining" ELSE @]
    /\ UNCHANGED <<socket, pingVars, queue, sent, requests, down, libraryVars>>

\* Mutant: the queued messages are kept after they were sent.
KeepQueue(c) == queue[c]

Sent(c) == <<>>

\* The client is a member: its status changes and the queue is sent.  (A hook that
\* ends after its socket has closed sends nothing; RoomManager has its effects.)
Seated(c) ==
    /\ status[c] = "joining"
    /\ status' = [status EXCEPT ![c] = "connected"]
    /\ Emit(c, [i \in DOMAIN queue[c] |-> Message(queue[c][i])])
    /\ queue' = [queue EXCEPT ![c] = Sent(c)]
    /\ UNCHANGED <<socket, pingVars, sent, requests, up, libraryVars>>

\* client.request: the timer starts, and the request overtakes queued messages.
Request(c, id) ==
    /\ status[c] \in {"joining", "connected", "disconnected"}
    /\ c \in Addressed
    /\ requests[c][id] = "none"
    /\ \A i \in 1..id - 1 : requests[c][i] # "none"
    /\ requests' = [requests EXCEPT ![c][id] = "pending"]
    /\ Emit(c, <<RequestFrame(id)>>)
    /\ UNCHANGED <<socket, pingVars, status, queue, sent, up, libraryVars>>

\* Settling a promise that is settled changes nothing.
Settle(c, id, outcome) ==
    requests' = [requests EXCEPT ![c][id] = IF @ = "pending" THEN outcome ELSE @]

\* Mutant: the timer ends with the connection.
TimerEnds(c) == c \in Open

TimerRuns(c) == TRUE

RequestTimeout(c, id) ==
    /\ requests[c][id] = "pending"
    /\ TimerRuns(c)
    /\ Settle(c, id, "rejected")
    /\ UNCHANGED <<socket, pingVars, status, queue, sent, down, up, libraryVars>>

\* The server reads [id, error, data], the library sends [id, result]: a result
\* rejects the request, a handler that returns nothing resolves it.
Response(c) ==
    /\ up[c] # <<>>
    /\ Head(up[c]).type \in {"result", "empty"}
    /\ up' = [up EXCEPT ![c] = Tail(@)]
    /\ Settle(c, Head(up[c]).n, IF Head(up[c]).type = "result" THEN "rejected" ELSE "resolved")
    /\ UNCHANGED <<socket, pingVars, status, queue, sent, down, libraryVars>>

\* The library receives a frame and calls the handler.  A request type without a
\* handler, or whose handler fails, is not answered.
Dispatch(c) ==
    LET frame == Head(down[c])
        Answer(frames) == up' = IF c \in Open THEN [up EXCEPT ![c] = @ \o frames] ELSE up
    IN  /\ down[c] # <<>>
        /\ ~silent[c]
        /\ down' = [down EXCEPT ![c] = Tail(@)]
        /\ \/ /\ frame.type = "connected"
              /\ promise' = [promise EXCEPT ![c] = "resolved"]
              /\ Answer(<<Event("joined")>>)
              /\ UNCHANGED got
           \/ /\ frame.type = "error"
              /\ promise' = [promise EXCEPT ![c] = IF @ = "pending" THEN "rejected" ELSE @]
              /\ UNCHANGED <<up, got>>
           \/ /\ frame.type = "message"
              /\ got' = [got EXCEPT ![c] = Append(@, frame.n)]
              /\ UNCHANGED <<promise, up>>
           \/ /\ frame.type = "request"
              /\ \/ UNCHANGED up
                 \/ Answer(<<[type |-> "result", n |-> frame.n]>>)
                 \/ Answer(<<[type |-> "empty", n |-> frame.n]>>)
              /\ UNCHANGED <<promise, got>>
        /\ UNCHANGED <<socket, pingVars, serverVars>>

-----------------------------------------------------------------------------
(* Pings. *)

\* The peer is gone: it answers nothing any more.
Vanish(c) ==
    /\ c \in Open
    /\ ~silent[c]
    /\ silent' = [silent EXCEPT ![c] = TRUE]
    /\ UNCHANGED <<socket, interval, pingCount, unanswered, serverVars, down, up, libraryVars>>

\* Mutant: a client is given up one ping early.
OneEarly(c) == pingCount[c] + 1 >= MaxPings

\* The client has left maxPingRetries pings in a row unanswered.
GivenUp(c) == pingCount[c] >= MaxPings

\* The interval fires: clients that do not answer are terminated, and with the
\* first of them the interval itself is cleared.  The peers that are there have
\* answered every ping but the last Lag - 1.
PingClients ==
    LET lost == {c \in Open : GivenUp(c)}
        pinged == Open \ lost
    IN  /\ interval
        /\ \A c \in Open : silent[c] \/ unanswered[c] < Lag
        /\ interval' = (lost = {})
        /\ pingCount' = [c \in Client |-> pingCount[c] + IF c \in pinged THEN 1 ELSE 0]
        /\ unanswered' = [c \in Client |-> unanswered[c]
                            + IF c \in pinged /\ ~silent[c] THEN 1 ELSE 0]
        /\ Closed(lost, "terminated")
        /\ UNCHANGED <<silent, queue, sent, requests, libraryVars>>

\* The pong of the oldest ping arrives.
Pong(c) ==
    /\ c \in Open
    /\ ~silent[c]
    /\ unanswered[c] > 0
    /\ unanswered' = [unanswered EXCEPT ![c] = @ - 1]
    /\ pingCount' = [pingCount EXCEPT ![c] = 0]
    /\ UNCHANGED <<interval, silent, socket, serverVars, down, up, libraryVars>>

-----------------------------------------------------------------------------
Next ==
    \/ \E c \in Client : \/ Connect(c) \/ Admit(c) \/ Refuse(c) \/ Close(c)
                         \/ Send(c) \/ Answered(c) \/ Seated(c) \/ Response(c) \/ Dispatch(c)
                         \/ Vanish(c) \/ Pong(c)
    \/ \E c \in Client, id \in 1..MaxRequests : Request(c, id) \/ RequestTimeout(c, id)
    \/ PingClients

\* The timers of the server fire, and a peer that is there answers its pings.
Fairness ==
    /\ WF_vars(PingClients)
    /\ \A c \in Client : WF_vars(Pong(c))
    /\ \A c \in Client, id \in 1..MaxRequests : WF_vars(RequestTimeout(c, id))

Spec == Init /\ [][Next]_vars /\ Fairness

-----------------------------------------------------------------------------
(* Properties. *)

MessagesIn(frames) == {i \in DOMAIN frames : frames[i].type = "message"}

\* Of total messages, numbered as they were sent, some are received, the next ones
\* are in frames and the last ones are waiting, each of them once and in order.
InOrder(received, frames, waiting, total) ==
    LET first == Len(received) + 1
        last == total - Len(waiting)
    IN  /\ first <= last + 1
        /\ \A i \in DOMAIN received : received[i] = i
        /\ \A i \in DOMAIN waiting : waiting[i] = last + i
        /\ {frames[i].n : i \in MessagesIn(frames)} = first..last
        /\ \A i, j \in MessagesIn(frames) : i < j => frames[i].n < frames[j].n

\* As long as the socket of a client is open its handlers have received, or will
\* receive, every message of the room once and in the order the room sent them,
\* those it sent before the client had answered included (transport/index.ts), and
\* none before connectRoom has handed the room to the application (client.ts).
MessagesInOrder ==
    \A c \in Client :
        /\ c \in Open => InOrder(got[c], down[c], queue[c], sent[c])
        /\ got[c] # <<>> => promise[c] = "resolved"

\* The pings never close the connection of a client that answers each of them
\* before maxPingRetries more are sent (websocket/transport.ts).
ResponsiveStay == \A c \in Client : socket[c] = "terminated" => silent[c]

\* Every request of the room settles, whatever becomes of the client
\* (websocket/client.ts).
RequestsSettle ==
    \A c \in Client, id \in 1..MaxRequests :
        requests[c][id] = "pending" ~> requests[c][id] \in {"resolved", "rejected"}

\* Every client that is gone is disconnected after some pings: "max ping retries
\* before disconnect" (websocket/transport.ts).  It does not hold: the interval is
\* cleared when the first client is given up.
SilentClientsGo ==
    \A c \in Client : socket[c] = "open" /\ silent[c] ~> socket[c] # "open"
=============================================================================
