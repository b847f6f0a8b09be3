----------------------------- MODULE Discovery -----------------------------
(***************************************************************************)
(* How the processes of a cluster find each other and notice that one is   *)
(* gone: IPCManager.init and its health check.  getAvaliableRooms relies   *)
(* on it: it removes the rooms of unknown processes from the shared cache. *)
(*                                                                         *)
(* The bus is that of PubSub without the way from a process to it: a frame *)
(* takes effect when it is sent, the delays are in the inboxes, and under  *)
(* Redis in the subscriptions, which another connection carries.  What a   *)
(* process sends to itself is left out where its handler ignores it.       *)
(*                                                                         *)
(* Time is discrete.  A due interval fires before the clock goes on, and a *)
(* message arrives within a tick, but for MaxLate ticks of a behaviour     *)
(* under the cluster master.                                               *)
(***************************************************************************)
EXTENDS Naturals, Integers, Sequences, FiniteSets

CONSTANTS
    Process,     \* ids of the processes, each used once
    Interval,    \* healthCheckInterval, in ticks
    MaxLate,     \* bound: ticks with a message on its way, under the master
    MaxBusy,     \* bound: processes start and end while no more is on its way
    None         \* no interval is running

ASSUME TimesTyped == Interval \in Nat \ {0} /\ {MaxLate, MaxBusy} \subseteq Nat

ASSUME ProcessesFinite == IsFiniteSet(Process)

ASSUME NoneDiffers == None \notin Int

VARIABLES
    redis,       \* TRUE: RedisManager, FALSE: IPCWorker and IPCMaster
    up,          \* the bus runs
    alive,       \* processes that run
    subscribers, \* the bus: pairs of a channel and a process
    pending,     \* subscriptions on their way to Redis
    inbox,       \* messages on their way to a process
    started,     \* processes that have called init
    leaving,     \* processes that have called terminate
    instances,   \* ids in the instances map of a process
    left,        \* ticks until the ttl of an instance, -1 when it has passed
    timer,       \* ticks until the health check of a process fires
    age,         \* ticks since the start, or the end, of a process, up to MaxAge
    late         \* late ticks so far

busVars == <<redis, up, alive, subscribers, pending, inbox>>
discoveryVars == <<instances, left, timer>>
clockVars == <<age, late>>
vars == <<busVars, started, leaving, discoveryVars, clockVars>>

Ttl == 2 * Interval

\* Ages above this one are not told apart.
MaxAge(p) == MaxLate + 1 + IF p \in alive THEN Interval ELSE Ttl + Interval

AddChannel == <<"instance", "add">>
DeleteChannel == <<"instance", "delete">>
DiscoveryChannel(p) == <<"discovery", p>>
InfoChannel(p) == <<"info", p>>

Channel == {AddChannel, DeleteChannel}
           \cup {DiscoveryChannel(p) : p \in Process} \cup {InfoChannel(p) : p \in Process}

TypeOK ==
    /\ {redis, up} \subseteq BOOLEAN
    /\ subscribers \subseteq Channel \X Process
    /\ pending \subseteq Channel \X alive /\ (pending # {} => redis)
    /\ \A p \in Process \ alive : inbox[p] = <<>>
    /\ alive \subseteq started /\ started \subseteq Process
    /\ leaving \subseteq started
    /\ instances \in [Process -> SUBSET started]
    /\ left \in [Process -> [Process -> -1..Ttl]]
    /\ timer \in [Process -> 0..Interval \cup {None}]
    /\ age \in [Process -> 0..Ttl + Interval + MaxLate + 1]
    /\ late \in 0..MaxLate

Init ==
    /\ redis \in BOOLEAN
    /\ up = TRUE
    /\ pending = {}
    /\ inbox = [p \in Process |-> <<>>]
    /\ alive = {} /\ started = {} /\ leaving = {}
    /\ subscribers = {}
    /\ instances = [p \in Process |-> {}]
    /\ left = [p \in Process |-> [q \in Process |-> 0]]
    /\ timer = [p \in Process |-> None]
    /\ age = [p \in Process |-> 0]
    /\ late = 0

-----------------------------------------------------------------------------
\* The subscriptions of p, on their way or at the bus.
Listens(p, ch) == <<ch, p>> \in subscribers \cup pending

Subscribe(p, chs) ==
    IF redis THEN pending' = pending \cup ((chs \X {p}) \ subscribers) /\ UNCHANGED subscribers
    ELSE subscribers' = subscribers \cup (chs \X {p}) /\ UNCHANGED pending

Unsubscribe(p, chs) ==
    /\ subscribers' = subscribers \ (chs \X {p})
    /\ pending' = pending \ (chs \X {p})

SubscribersOf(ch) == {q \in Process : <<ch, q>> \in subscribers}

RunningSubscribersOf(ch) == SubscribersOf(ch) \cap alive

\* p publishes: the inboxes then, and whether the bus runs after it.  Sending to
\* a worker that is gone ends the master.
Publish(p, ch, to, rest) ==
    /\ inbox' = [q \in Process |-> IF up /\ q \in RunningSubscribersOf(ch) \cap to
                                    THEN Append(rest[q], [channel |-> ch, data |-> p])
                                    ELSE rest[q]]
    /\ up' = (up /\ (redis \/ SubscribersOf(ch) \subseteq alive))

Others(p) == Process \ {p}

\* What is on its way: the processes with messages, and the subscriptions.
InFlight == {p \in Process : inbox[p] # <<>>} \cup pending

Calm == Cardinality(InFlight) <= MaxBusy

\* A subscription reaches Redis.
SubscriptionArrives(s) ==
    /\ s \in pending
    /\ pending' = pending \ {s}
    /\ subscribers' = subscribers \cup {s}
    /\ UNCHANGED <<redis, up, alive, inbox, started, leaving, discoveryVars, clockVars>>

\* A new process, a worker forked by the master or not, subscribes, announces
\* itself and starts its health check.
StartProcess(p) ==
    /\ p \notin started /\ Calm /\ up
    /\ started' = started \cup {p}
    /\ alive' = alive \cup {p}
    /\ Subscribe(p, {AddChannel, DeleteChannel, DiscoveryChannel(p)})
    /\ Publish(p, AddChannel, Others(p), inbox)
    /\ instances' = [instances EXCEPT ![p] = {p}]
    /\ timer' = [timer EXCEPT ![p] = Interval]
    /\ UNCHANGED <<redis, leaving, left, age, late>>

\* Mutant: an instance is given one interval to report instead of two.
OneInterval == Interval

FullTtl == Ttl

\* updateInstanceState: the instance is known and fresh; a process that was
\* alone starts its health check again.
UpdateInstance(p, id) ==
    /\ instances' = [instances EXCEPT ![p] = @ \cup {id}]
    /\ left' = [left EXCEPT ![p][id] = FullTtl]
    /\ timer' = [timer EXCEPT ![p] =
                   IF @ = None /\ Cardinality(instances[p] \cup {id}) > 1 THEN Interval ELSE @]

\* deleteInstance of the ids in gone; a process left alone stops its health check.
Remaining(p, gone) == instances[p] \ gone

DeleteInstances(p, gone) ==
    /\ instances' = [instances EXCEPT ![p] = Remaining(p, gone)]
    /\ left' = [left EXCEPT ![p] = [q \in Process |-> IF q \in gone THEN 0 ELSE @[q]]]

\* Mutant: the health check is stopped by any deletion.
StopAlways(p, gone) == IF gone # {} THEN None ELSE timer[p]

StopIfAlone(p, gone) ==
    IF gone # {} /\ Cardinality(Remaining(p, gone)) < 2 THEN None ELSE timer[p]

\* p takes the next message of its inbox, from id on a channel it listens to.
Receives(p, ch, id) ==
    /\ p \in alive
    /\ inbox[p] # <<>>
    /\ Head(inbox[p]) = [channel |-> ch, data |-> id]
    /\ Listens(p, ch)

InboxAfter(p) == [inbox EXCEPT ![p] = Tail(@)]

\* "instance:add": answer the new process, and listen to it.
OnAdd(p, id) ==
    /\ Receives(p, AddChannel, id)
    /\ Subscribe(p, {InfoChannel(id)})
    /\ Publish(p, DiscoveryChannel(id), Others(p), InboxAfter(p))
    /\ UNCHANGED <<redis, alive, started, leaving, discoveryVars, clockVars>>

\* "<p>:discovery": an older process has answered.
OnDiscovery(p, id) ==
    /\ Receives(p, DiscoveryChannel(p), id)
    /\ Subscribe(p, {InfoChannel(id)})
    /\ UpdateInstance(p, id)
    /\ inbox' = InboxAfter(p)
    /\ UNCHANGED <<redis, up, alive, started, leaving, clockVars>>

\* "<id>:info": the instance is still there.
OnInfo(p, id) ==
    /\ Receives(p, InfoChannel(id), id)
    /\ UpdateInstance(p, id)
    /\ inbox' = InboxAfter(p)
    /\ UNCHANGED <<redis, up, alive, subscribers, pending, started, leaving, clockVars>>

\* "instance:delete": the instance, which may be p itself, has terminated.
OnDelete(p, id) ==
    /\ Receives(p, DeleteChannel, id)
    /\ Unsubscribe(p, {InfoChannel(id)})
    /\ DeleteInstances(p, {id})
    /\ timer' = [timer EXCEPT ![p] = StopIfAlone(p, {id})]
    /\ inbox' = InboxAfter(p)
    /\ UNCHANGED <<redis, up, alive, started, leaving, clockVars>>

DropMessage(p) ==
    /\ p \in alive
    /\ inbox[p] # <<>>
    /\ ~Listens(p, Head(inbox[p]).channel)
    /\ inbox' = InboxAfter(p)
    /\ UNCHANGED <<redis, up, alive, subscribers, pending, started, leaving,
                    discoveryVars, clockVars>>

\* Instances whose ttl has passed; the own entry has ttl -1 and is skipped.
Expired(p) == {q \in instances[p] \ {p} : left[p][q] = -1}

\* The interval fires: publish the own state, forget the expired instances.
HealthCheck(p) ==
    /\ p \in alive
    /\ timer[p] = 0
    /\ Publish(p, InfoChannel(p), Others(p), inbox)
    /\ Unsubscribe(p, {InfoChannel(q) : q \in Expired(p)})
    /\ DeleteInstances(p, Expired(p))
    /\ timer' = [timer EXCEPT ![p] = IF StopIfAlone(p, Expired(p)) = None THEN None ELSE Interval]
    /\ UNCHANGED <<redis, alive, started, leaving, clockVars>>

\* terminate() publishes the deletion and then throws: close is not defined.
Terminate(p) ==
    /\ p \in alive \ leaving /\ Calm
    /\ leaving' = leaving \cup {p}
    /\ Publish(p, DeleteChannel, Process, inbox)
    /\ UNCHANGED <<redis, alive, subscribers, pending, started, discoveryVars, clockVars>>

\* A process dies.  Redis drops its subscriptions, the master does not.
Exit(p) ==
    /\ p \in alive /\ Calm
    /\ alive' = alive \ {p}
    /\ inbox' = [inbox EXCEPT ![p] = <<>>]
    /\ pending' = {s \in pending : s[2] # p}
    /\ subscribers' = IF redis THEN {s \in subscribers : s[2] # p} ELSE subscribers
    /\ DeleteInstances(p, Process)
    /\ timer' = [timer EXCEPT ![p] = None]
    /\ age' = [age EXCEPT ![p] = 0]
    /\ UNCHANGED <<redis, up, started, leaving, late>>

\* getAvaliableRooms on p removes the rooms of all other processes from the
\* shared cache.
KnownProcesses(p) == instances[p] \cup {p}

-----------------------------------------------------------------------------
\* The clock goes on once every due interval has fired.  It stops with the
\* master: its workers exit when it does.
Tick ==
    /\ started # {} /\ up
    /\ \A p \in alive : timer[p] # 0
    /\ late' = IF InFlight = {} THEN late ELSE late + 1
    /\ late' <= IF redis THEN 0 ELSE MaxLate
    /\ timer' = [p \in Process |-> IF timer[p] = None THEN None ELSE timer[p] - 1]
    /\ left' = [p \in Process |-> [q \in Process |->
                  IF q \in instances[p] \ {p} /\ left[p][q] > -1 THEN left[p][q] - 1 ELSE left[p][q]]]
    /\ age' = [p \in Process |-> IF p \in started /\ age[p] < MaxAge(p) THEN age[p] + 1 ELSE age[p]]
    /\ UNCHANGED <<busVars, started, leaving, instances>>

Handle(p) ==
    \/ DropMessage(p)
    \/ \E id \in Process : OnAdd(p, id) \/ OnDiscovery(p, id) \/ OnInfo(p, id) \/ OnDelete(p, id)

Next ==
    \/ Tick
    \/ \E s \in pending : SubscriptionArrives(s)
    \/ \E p \in Process :
         \/ StartProcess(p) \/ Terminate(p) \/ Exit(p)
         \/ Handle(p)
         \/ HealthCheck(p)

Spec == Init /\ [][Next]_vars

-----------------------------------------------------------------------------
Member(p) == p \in alive \ leaving

Mutual(p, q) == q \in instances[p] /\ p \in instances[q]

\* A process that knows another one reports to it and checks on it: its health
\* check runs (ipcm/index.ts:141-157).
KnowersCheck ==
    \A p \in alive : Cardinality(instances[p]) > 1 => timer[p] # None

\* Two processes that know each other do so until one of them goes, although
\* others come and go and up to MaxLate ticks are lost on the way: the ttl of
\* two intervals is enough (ipcm/index.ts:142).
MutualStays ==
    [][\A p, q \in Process : p # q /\ Mutual(p, q) /\ up' =>
          \/ ~Member(p)' \/ ~Member(q)'
          \/ Mutual(p, q)']_vars

\* Under the cluster master getAvaliableRooms spares the rooms of every running
\* process once neither of the two is new: the owner becomes known by its first
\* :info, the process that lists the rooms knows nobody before the others have
\* answered it (rooms.ts:250-252).
RoomsSpared ==
    \A p, q \in Process :
        /\ up /\ ~redis /\ Member(p) /\ Member(q)
        /\ age[p] > Interval + late
        /\ age[q] > late
        => p \in KnownProcesses(q)

\* A process that is gone is forgotten three intervals later, by the ttl of two
\* and the check that finds it has passed (ipcm/index.ts:106-111).
GoneForgotten ==
    \A p, q \in Process :
        Member(p) /\ q \in started \ alive /\ age[q] > Ttl + Interval + late
        => q \notin instances[p]
=============================================================================
