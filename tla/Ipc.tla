-------------------------------- MODULE Ipc --------------------------------
(***************************************************************************)
(* requestProcess of IPCManager: one process asks another to execute a     *)
(* method, or asks the master to work on a shared cache, and waits for the *)
(* answer or for its timeout.  The requests of the load balancer and every *)
(* call of IPCWorkerCache take this way.                                   *)
(***************************************************************************)
EXTENDS PubSub

CONSTANTS
    Master,      \* the pseudo process id "master" of the cache middleware
    None,        \* no process, or no entry under the key of the cache
    MaxCalls     \* bound: the calls of requestProcess in a behaviour

ASSUME MasterDiffers == Master \notin Process /\ None \notin Process \cup {Master}

ASSUME CallsTyped == MaxCalls \in Nat

VARIABLES
    handlers,    \* processes whose load balancer has registered its handlers
    request,     \* the parameters of a call
    caller,      \* what its caller knows: the promise, its timer and listener
    effect,      \* what the other side has done about it
    store        \* the call whose data the master's cache holds under the key

vars == <<busVars, handlers, request, caller, effect, store>>

\* The calls, numbered in the order they are made.
Call == 1..MaxCalls

RequestChannel(t) == <<"ipc-request", t>>
ResponseChannel(c) == <<"ipc-response", c>>

Channel == {RequestChannel(t) : t \in Process \cup {Master}} \cup {ResponseChannel(c) : c \in Call}

TypeOK ==
    /\ BusTypeOK(Channel)
    /\ handlers \subseteq Process
    /\ request \in [Call -> [from : Process \cup {None}, to : Process \cup {Master, None},
                             method : {"room", "set", "get", "remove"}]]
    /\ caller \in [Call -> {"idle", "waiting", "resolved", "rejected", "gaveUp", "lost"}]
    /\ effect \in [Call -> {"none", "running", "done", "failed"}]
    /\ store \in Call \cup {None}

\* Every process has subscribed to its requests, its handlers come later.
Init ==
    /\ BusInit
    /\ alive = Process
    /\ subscribers = {<<RequestChannel(p), p>> : p \in Process}
    /\ listening = [p \in Process |-> {RequestChannel(p)}]
    /\ handlers = {}
    /\ request = [c \in Call |-> [from |-> None, to |-> None, method |-> "room"]]
    /\ caller = [c \in Call |-> "idle"]
    /\ effect = [c \in Call |-> "none"]
    /\ store = None

-----------------------------------------------------------------------------
(* The calling process. *)

\* Mutant: the request is published before its response is subscribed to.
PublishFirst(lanes, c, t) ==
    Put(Put(lanes, Publish(RequestChannel(t), c)), Subscribe(ResponseChannel(c)))

\* The response is subscribed to, then the request is published.
CallFrames(lanes, c, t) ==
    Put(Put(lanes, Subscribe(ResponseChannel(c))), Publish(RequestChannel(t), c))

\* p calls a method of process t, or of the master's cache.
RequestProcess(c, p, t, m) ==
    /\ p \in alive
    /\ caller[c] = "idle" /\ \A d \in Call : d < c => caller[d] # "idle"
    /\ IF m = "room" THEN t \in Process ELSE t = Master /\ ~redis
    /\ request' = [request EXCEPT ![c] = [from |-> p, to |-> t, method |-> m]]
    /\ caller' = [caller EXCEPT ![c] = "waiting"]
    /\ out' = [out EXCEPT ![p] = CallFrames(@, c, t)]
    /\ listening' = [listening EXCEPT ![p] = @ \cup {ResponseChannel(c)}]
    /\ UNCHANGED <<alive, redis, up, subscribers, inbox, handlers, effect, store>>

\* An answer settles the promise, stops the timer and removes the listener.
TakeAnswer(p) ==
    LET c == Received(p).channel[2]
    IN  /\ Receives(p)
        /\ Received(p).channel[1] = "ipc-response"
        /\ Listened(p)
        /\ caller' = [caller EXCEPT ![c] = IF Received(p).data = "done" THEN "resolved"
                                           ELSE "rejected"]
        /\ Forget(p, ResponseChannel(c))
        /\ UNCHANGED <<handlers, request, effect, store>>

\* Mutant: the call is made once more before giving up.
TryAgain(c) ==
    /\ caller[c] = "waiting"
    /\ request[c].from \in alive
    /\ caller' = [caller EXCEPT ![c] = "gaveUp"]
    /\ listening' = [listening EXCEPT ![request[c].from] = @ \ {ResponseChannel(c)}]
    /\ out' = [out EXCEPT ![request[c].from] =
                 Put(Put(@, Unsubscribe(ResponseChannel(c))),
                     Publish(RequestChannel(request[c].to), c))]
    /\ UNCHANGED <<alive, redis, up, subscribers, inbox, handlers, request, effect, store>>

\* The timer of the call fires.
GiveUp(c) ==
    /\ caller[c] = "waiting"
    /\ request[c].from \in alive
    /\ caller' = [caller EXCEPT ![c] = "gaveUp"]
    /\ Forget(request[c].from, ResponseChannel(c))
    /\ UNCHANGED <<alive, redis, up, subscribers, inbox, handlers, request, effect, store>>

-----------------------------------------------------------------------------
(* The called process. *)

\* The constructor of the load balancer calls onRequest for its methods.
RegisterHandlers(p) ==
    /\ p \in alive \ handlers
    /\ handlers' = handlers \cup {p}
    /\ UNCHANGED <<busVars, request, caller, effect, store>>

\* The handler starts; without one the request is dropped and never answered.
TakeRequest(p) ==
    LET c == Received(p).data
    IN  /\ Receives(p)
        /\ Received(p).channel = RequestChannel(p)
        /\ effect' = IF p \in handlers THEN [effect EXCEPT ![c] = "running"] ELSE effect
        /\ Silent
        /\ UNCHANGED <<handlers, request, caller, store>>

\* The promise of the handler settles, and its outcome is published.
HandlerDone(c, outcome) ==
    /\ request[c].to \in alive
    /\ effect[c] = "running"
    /\ effect' = [effect EXCEPT ![c] = outcome]
    /\ Send(request[c].to, Publish(ResponseChannel(c), outcome))
    /\ UNCHANGED <<alive, redis, up, subscribers, listening, inbox, handlers, request, caller, store>>

\* A message whose listener has been removed.
DropMessage(p) ==
    /\ Receives(p)
    /\ ~Listened(p)
    /\ Silent
    /\ UNCHANGED <<handlers, request, caller, effect, store>>

-----------------------------------------------------------------------------
(* The bus and the cache of the master. *)

ForMaster(p, l) == NextOf(out[p][l]).channel = RequestChannel(Master)

PassOn(p, l) ==
    /\ out[p][l] # <<>> /\ ~ForMaster(p, l)
    /\ BusHandles(p, l)
    /\ UNCHANGED <<handlers, request, caller, effect, store>>

\* IPCMasterCache works on its LocalCache and publishes the outcome, but for
\* the removal of an absent key, whose promise never settles.
CacheHandles(p, l) ==
    LET c == NextOf(out[p][l]).data
        method == request[c].method
    IN  /\ up
        /\ out[p][l] # <<>> /\ ForMaster(p, l)
        /\ out' = [out EXCEPT ![p][l] = Tail(@)]
        /\ store' = CASE method = "set" -> c [] method = "remove" -> None [] OTHER -> store
        /\ IF method = "remove" /\ store = None
           THEN effect' = [effect EXCEPT ![c] = "running"] /\ UNCHANGED <<inbox, up>>
           ELSE effect' = [effect EXCEPT ![c] = "done"] /\ Deliver(ResponseChannel(c), "done")
        /\ UNCHANGED <<alive, redis, subscribers, listening, handlers, request, caller>>

Exit(p) ==
    /\ ProcessExit(p)
    /\ caller' = [c \in Call |-> IF request[c].from = p /\ caller[c] = "waiting"
                                 THEN "lost" ELSE caller[c]]
    /\ UNCHANGED <<handlers, request, effect, store>>

-----------------------------------------------------------------------------
Next ==
    \/ \E c \in Call, p \in Process, t \in Process \cup {Master},
          m \in {"room", "set", "get", "remove"} : RequestProcess(c, p, t, m)
    \/ \E c \in Call : GiveUp(c) \/ \E o \in {"done", "failed"} : HandlerDone(c, o)
    \/ \E p \in Process :
         \/ RegisterHandlers(p)
         \/ TakeAnswer(p)
         \/ TakeRequest(p)
         \/ DropMessage(p)
         \/ Exit(p)
         \/ \E l \in Lane : PassOn(p, l) \/ CacheHandles(p, l)

\* Only timers are sure to happen: an answer may never come.
Spec == Init /\ [][Next]_vars /\ \A c \in Call : WF_vars(GiveUp(c))

-----------------------------------------------------------------------------
\* An answer cannot come before its caller is subscribed to it: the requester
\* subscribes first and one pipe keeps the order (ipcm/index.ts:169-181).  With
\* the two connections of RedisManager the answer can be lost.
AnswerFindsCaller ==
    \A c \in Call : ~redis /\ caller[c] = "waiting" /\ effect[c] # "none" =>
        <<ResponseChannel(c), request[c].from>> \in subscribers

\* A settled call leaves no subscription behind, on either side: once nothing is
\* on its way, the response channels of running processes are those of the calls
\* that wait (ipcm/index.ts:164 and 171).
NoLeakedChannels ==
    Quiet /\ up => \A c \in Call, p \in alive :
        LET waits == caller[c] = "waiting" /\ request[c].from = p
        IN  /\ waits <=> <<ResponseChannel(c), p>> \in subscribers
            /\ waits <=> ResponseChannel(c) \in listening[p]

\* The cache of the master executes the calls of one process in the order they
\* were made: a room listed and then removed is not listed again, although
\* rooms.ts does not wait for the calls (cache/cluster.ts:35-57).
CacheInOrder ==
    \A c, d \in Call :
        /\ c < d
        /\ request[c].from = request[d].from
        /\ request[c].to = Master /\ request[d].to = Master
        /\ effect[d] # "none"
        => effect[c] # "none"

\* A request is executed at most once, its caller is told the outcome only
\* after it, and every caller is told something (ipcm/index.ts:159-184).
Promise == INSTANCE RemoteCall WITH Call <- Call, caller <- caller, effect <- effect
KeepsPromise == Promise!Spec
=============================================================================
