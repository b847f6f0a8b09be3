------------------------------- MODULE PubSub -------------------------------
(***************************************************************************)
(* The channels between the processes of a cluster, as IPCManager uses     *)
(* them: subscribe, unsubscribe and publish are frames a process sends to  *)
(* the bus, the bus delivers what is published to the subscribers it knows *)
(* by then, and a process drops what it has no listener for.               *)
(*                                                                         *)
(* Two buses are modelled.  Under IPCWorker and IPCMaster the bus is the   *)
(* cluster master: one pipe per worker carries all frames in order, and    *)
(* the master keeps the subscriptions of a worker that is gone; sending to *)
(* it is an 'error' event nobody handles, which ends the master.  Under    *)
(* RedisManager commands and publications use two connections, so that     *)
(* they overtake each other, and subscriptions end with the connection.    *)
(***************************************************************************)
EXTENDS Naturals, Sequences

CONSTANTS
    Process        \* ids of the processes, each used once

VARIABLES
    alive,         \* processes that have been started and run
    redis,         \* TRUE: RedisManager, FALSE: IPCWorker and IPCMaster
    up,            \* the bus runs
    out,           \* frames on their way from a process to the bus, per lane
    subscribers,   \* the bus: pairs of a channel and a process
    listening,     \* the processes: the channels they have a listener for
    inbox          \* messages on their way to a process

busVars == <<alive, redis, up, out, subscribers, listening, inbox>>

Lane == {"command", "publish"}

\* The connection a frame takes.
LaneOf(frame) == IF redis /\ frame.event = "publish" THEN "publish" ELSE "command"

BusTypeOK(Channel) ==
    /\ alive \subseteq Process
    /\ {redis, up} \subseteq BOOLEAN
    /\ subscribers \subseteq Channel \X Process
    /\ listening \in [Process -> SUBSET Channel]
    /\ \A p \in Process \ alive : listening[p] = {} /\ inbox[p] = <<>>

BusInit ==
    /\ redis \in BOOLEAN
    /\ up = TRUE
    /\ out = [p \in Process |-> [l \in Lane |-> <<>>]]
    /\ inbox = [p \in Process |-> <<>>]

Subscribe(ch) == [event |-> "subscribe", channel |-> ch]
Unsubscribe(ch) == [event |-> "unsubscribe", channel |-> ch]
Publish(ch, d) == [event |-> "publish", channel |-> ch, data |-> d]

\* A frame is written to its connection.
Put(lanes, frame) == [lanes EXCEPT ![LaneOf(frame)] = Append(@, frame)]

Send(p, frame) == out' = [out EXCEPT ![p] = Put(@, frame)]

\* p removes its listener of a channel and tells the bus.
Forget(p, ch) ==
    /\ Send(p, Unsubscribe(ch))
    /\ listening' = [listening EXCEPT ![p] = @ \ {ch}]

Silent == UNCHANGED <<out, listening>>

\* The processes the bus sends a publication on ch to, the publisher included.
Recipients(ch) == {p \in Process : <<ch, p>> \in subscribers}

\* Mutant: a process that is gone is still sent to.
AnyReachable(ch) == Recipients(ch)

Reachable(ch) == Recipients(ch) \cap alive

Deliver(ch, d) ==
    /\ inbox' = [p \in Process |-> IF p \in Reachable(ch)
                                   THEN Append(inbox[p], [channel |-> ch, data |-> d])
                                   ELSE inbox[p]]
    /\ up' = (redis \/ Recipients(ch) \subseteq alive)

\* Mutant: unsubscribing is not passed on.
SubscribeOnly(p, frame) ==
    /\ subscribers' = IF frame.event = "subscribe"
                      THEN subscribers \cup {<<frame.channel, p>>} ELSE subscribers
    /\ UNCHANGED <<inbox, up>>

Resubscribe(p, frame) ==
    /\ subscribers' = IF frame.event = "subscribe" THEN subscribers \cup {<<frame.channel, p>>}
                      ELSE subscribers \ {<<frame.channel, p>>}
    /\ UNCHANGED <<inbox, up>>

\* Mutant: the last frame of a lane is handled first.
LastOf(q) == q[Len(q)]

NextOf(q) == Head(q)

\* The bus handles the next frame of a lane.
BusHandles(p, l) ==
    LET frame == NextOf(out[p][l])
    IN  /\ up
        /\ out[p][l] # <<>>
        /\ out' = [out EXCEPT ![p][l] = Tail(@)]
        /\ IF frame.event = "publish"
           THEN Deliver(frame.channel, frame.data) /\ UNCHANGED subscribers
           ELSE Resubscribe(p, frame)
        /\ UNCHANGED <<alive, redis, listening>>

\* The message p takes from its inbox, if it has a listener for it.
Receives(p) ==
    /\ p \in alive
    /\ inbox[p] # <<>>
    /\ inbox' = [inbox EXCEPT ![p] = Tail(@)]
    /\ UNCHANGED <<alive, redis, up, subscribers>>

Received(p) == Head(inbox[p])

Listened(p) == Received(p).channel \in listening[p]

\* A process dies: a prefix of what it sent is on its way, the rest is lost.
\* The master does not drop its subscriptions, Redis does.
ProcessExit(p) ==
    /\ p \in alive
    /\ alive' = alive \ {p}
    /\ inbox' = [inbox EXCEPT ![p] = <<>>]
    /\ listening' = [listening EXCEPT ![p] = {}]
    /\ subscribers' = IF redis THEN {s \in subscribers : s[2] # p} ELSE subscribers
    /\ \E n \in 0..Len(out[p]["command"]), m \in 0..Len(out[p]["publish"]) :
         out' = [out EXCEPT ![p] = [l \in Lane |->
                      IF l = "publish" THEN SubSeq(@[l], 1, m)
                      ELSE IF redis THEN <<>> ELSE SubSeq(@[l], 1, n)]]
    /\ UNCHANGED <<redis, up>>

\* Nothing is on its way.
Quiet ==
    \A p \in Process : inbox[p] = <<>> /\ \A l \in Lane : out[p][l] = <<>>
=============================================================================
