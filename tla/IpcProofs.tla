------------------------------ MODULE IpcProofs ------------------------------
(***************************************************************************)
(* Proofs about Ipc: its types, that it implements RemoteCall, and the     *)
(* three safety properties of the run.  They rest on one invariant: which  *)
(* frames and messages may be on their way, how often, and in which order. *)
(***************************************************************************)
EXTENDS Ipc, Queues

\* What a call puts on its way.
Listens(c) == Subscribe(ResponseChannel(c))
Stops(c) == Unsubscribe(ResponseChannel(c))
Asks(c, t) == Publish(RequestChannel(t), c)
Answers(c, o) == Publish(ResponseChannel(c), o)

Outcome == {"done", "failed"}
Target == Process \cup {Master}

Frame ==
    {Listens(c) : c \in Call} \cup {Stops(c) : c \in Call}
      \cup {Asks(c, t) : c \in Call, t \in Target}
      \cup {Answers(c, o) : c \in Call, o \in Outcome}

Asked(c, t) == [channel |-> RequestChannel(t), data |-> c]
Answered(c, o) == [channel |-> ResponseChannel(c), data |-> o]

Message ==
    {Asked(c, t) : c \in Call, t \in Process} \cup {Answered(c, o) : c \in Call, o \in Outcome}

\* The types, those of the queues included.
Typed ==
    /\ TypeOK
    /\ out \in [Process -> [Lane -> Seq(Frame)]]
    /\ inbox \in [Process -> Seq(Message)]

\* The connection of publications.
AskLane == IF redis THEN "publish" ELSE "command"

\* Calls are made in order, from running processes; nothing is done about a
\* call that is not made.
CallsMade ==
    \A c \in Call :
        /\ caller[c] = "idle" =>
             /\ request[c].from = None /\ request[c].to = None /\ effect[c] = "none"
             /\ \A d \in Call : c < d => caller[d] = "idle"
        /\ caller[c] # "idle" => request[c].from \in Process /\ request[c].to \in Target
        /\ caller[c] = "waiting" => request[c].from \in alive
        /\ request[c].to = Master => ~redis

\* A frame on its way is one its call has put there, a request only until it is
\* taken up, an answer with the outcome.
FramesTrue ==
    \A p \in Process, l \in Lane, c \in Call :
        /\ Has(out[p][l], Listens(c)) => l = "command" /\ p = request[c].from
        /\ Has(out[p][l], Stops(c)) =>
             l = "command" /\ p = request[c].from /\ caller[c] # "waiting"
        /\ \A t \in Target : Has(out[p][l], Asks(c, t)) =>
             l = AskLane /\ p = request[c].from /\ t = request[c].to /\ effect[c] = "none"
        /\ \A o \in Outcome : Has(out[p][l], Answers(c, o)) => effect[c] = o

FramesOnce ==
    \A p \in Process, l \in Lane, c \in Call :
        /\ Once(out[p][l], Listens(c)) /\ Once(out[p][l], Stops(c))
        /\ \A t \in Target : Once(out[p][l], Asks(c, t))

\* A message on its way is one of a call too, a request only once.
MessagesTrue ==
    \A p \in Process, c \in Call :
        /\ \A t \in Process : Has(inbox[p], Asked(c, t)) =>
             /\ p = t /\ t = request[c].to /\ effect[c] = "none"
             /\ \A q \in Process, l \in Lane : ~Has(out[q][l], Asks(c, t))
        /\ \A t \in Process : Once(inbox[p], Asked(c, t))
        /\ \A o \in Outcome : Has(inbox[p], Answered(c, o)) => effect[c] = o

\* Who is subscribed and who listens.
ChannelsTrue ==
    /\ \A p \in Process, t \in Target : <<RequestChannel(t), p>> \in subscribers => t = p
    /\ \A p \in Process, c \in Call :
         /\ <<ResponseChannel(c), p>> \in subscribers => p = request[c].from
         /\ ResponseChannel(c) \in listening[p] <=> caller[c] = "waiting" /\ p = request[c].from

\* What a running process has put on its way, and its subscriptions, tell that it
\* waits for the answer of the call, or that it does not.
Subscribed(c) == <<ResponseChannel(c), request[c].from>> \in subscribers

SubscriptionsTrue ==
    \A c \in Call :
        LET q == out[request[c].from]["command"]
        IN  request[c].from \in alive =>
              /\ caller[c] = "waiting" => Subscribed(c) \/ Has(q, Listens(c))
              /\ caller[c] # "waiting" =>
                   /\ Subscribed(c) => Has(q, Stops(c))
                   /\ Has(q, Listens(c)) => Before(q, Listens(c), Stops(c))

\* On one connection the subscription is in front of the request.
ListensFirst ==
    \A c \in Call : ~redis /\ caller[c] = "waiting" =>
        \/ Subscribed(c)
        \/ Before(out[request[c].from]["command"], Listens(c), Asks(c, request[c].to))

\* A request to the master is on its way until it is taken up, behind those made
\* before it.
MasterAsked ==
    \A c \in Call : request[c].to = Master /\ request[c].from \in alive /\ effect[c] = "none" =>
        Has(out[request[c].from]["command"], Asks(c, Master))

AskedInOrder ==
    \A c, d \in Call :
        LET q == out[request[d].from]["command"]
        IN  /\ c < d
            /\ request[c].from = request[d].from
            /\ request[c].to = Master /\ request[d].to = Master
            /\ Has(q, Asks(d, Master))
            => effect[c] # "none" \/ Before(q, Asks(c, Master), Asks(d, Master))

IInv ==
    /\ Typed
    /\ CallsMade
    /\ FramesTrue
    /\ FramesOnce
    /\ MessagesTrue
    /\ ChannelsTrue
    /\ SubscriptionsTrue
    /\ ListensFirst
    /\ MasterAsked
    /\ AskedInOrder
    /\ CacheInOrder

-----------------------------------------------------------------------------
(* Frames and messages of different calls, or kinds, differ. *)

LEMMA FramesDiffer ==
    /\ \A c, d : Listens(c) = Listens(d) => c = d
    /\ \A c, d : Stops(c) = Stops(d) => c = d
    /\ \A c, t, d, u : Asks(c, t) = Asks(d, u) => c = d /\ t = u
    /\ \A c, o, d, n : Answers(c, o) = Answers(d, n) => c = d /\ o = n
    /\ \A c, d : Listens(c) # Stops(d)
    /\ \A c, d, t : Listens(c) # Asks(d, t)
    /\ \A c, d, o : Listens(c) # Answers(d, o)
    /\ \A c, d, t : Stops(c) # Asks(d, t)
    /\ \A c, d, o : Stops(c) # Answers(d, o)
    /\ \A c, t, d, o : Asks(c, t) # Answers(d, o)
<1> USE DEF Listens, Stops, Asks, Answers, Subscribe, Unsubscribe, Publish,
            RequestChannel, ResponseChannel
<1>1. /\ \A c : Listens(c).event = "subscribe" /\ Listens(c).channel[2] = c
      /\ \A c : Stops(c).event = "unsubscribe" /\ Stops(c).channel[2] = c
      /\ \A c, t : /\ Asks(c, t).event = "publish" /\ Asks(c, t).channel[1] = "ipc-request"
                   /\ Asks(c, t).channel[2] = t /\ Asks(c, t).data = c
      /\ \A c, o : /\ Answers(c, o).event = "publish" /\ Answers(c, o).channel[1] = "ipc-response"
                   /\ Answers(c, o).channel[2] = c /\ Answers(c, o).data = o
  OBVIOUS
<1> HIDE DEF Listens, Stops, Asks, Answers
<1>2. /\ \A c, d : Listens(c) = Listens(d) => c = d
      /\ \A c, d : Stops(c) = Stops(d) => c = d
      /\ \A c, t, d, u : Asks(c, t) = Asks(d, u) => c = d /\ t = u
      /\ \A c, o, d, n : Answers(c, o) = Answers(d, n) => c = d /\ o = n
  BY <1>1
<1>3. /\ \A c, d : Listens(c) # Stops(d)
      /\ \A c, d, t : Listens(c) # Asks(d, t)
      /\ \A c, d, o : Listens(c) # Answers(d, o)
      /\ \A c, d, t : Stops(c) # Asks(d, t)
      /\ \A c, d, o : Stops(c) # Answers(d, o)
      /\ \A c, t, d, o : Asks(c, t) # Answers(d, o)
  BY <1>1
<1> QED
  BY <1>2, <1>3

LEMMA MessagesDiffer ==
    /\ \A c, t, d, u : Asked(c, t) = Asked(d, u) => c = d /\ t = u
    /\ \A c, o, d, n : Answered(c, o) = Answered(d, n) => c = d /\ o = n
    /\ \A c, t, d, o : Asked(c, t) # Answered(d, o)
<1> USE DEF Asked, Answered, RequestChannel, ResponseChannel
<1>1. /\ \A c, t : /\ Asked(c, t).channel[1] = "ipc-request"
                   /\ Asked(c, t).channel[2] = t /\ Asked(c, t).data = c
      /\ \A c, o : /\ Answered(c, o).channel[1] = "ipc-response"
                   /\ Answered(c, o).channel[2] = c /\ Answered(c, o).data = o
  OBVIOUS
<1> HIDE DEF Asked, Answered
<1> QED
  BY <1>1

LEMMA FrameKinds ==
    ASSUME NEW c \in Call, NEW t \in Target, NEW o \in Outcome
    PROVE  /\ {Listens(c), Stops(c), Asks(c, t), Answers(c, o)} \subseteq Frame
           /\ LaneOf(Listens(c)) = "command" /\ LaneOf(Stops(c)) = "command"
           /\ LaneOf(Asks(c, t)) = AskLane /\ LaneOf(Answers(c, o)) = AskLane
           /\ AskLane \in Lane /\ "command" \in Lane
<1>1. {Listens(c), Stops(c), Asks(c, t), Answers(c, o)} \subseteq Frame
  BY DEF Frame
<1>2. LaneOf(Listens(c)) = "command" /\ LaneOf(Stops(c)) = "command"
  BY DEF LaneOf, Listens, Stops, Subscribe, Unsubscribe
<1>3. LaneOf(Asks(c, t)) = AskLane /\ LaneOf(Answers(c, o)) = AskLane
  BY DEF LaneOf, Asks, Answers, Publish, AskLane
<1>4. AskLane \in Lane /\ "command" \in Lane
  BY DEF AskLane, Lane
<1> QED
  BY <1>1, <1>2, <1>3, <1>4

\* The lanes b are the lanes a with the frame f behind the others of its lane.
Extended(b, a, f) ==
    /\ b \in [Lane -> Seq(Frame)]
    /\ \A l \in Lane : \A e :
         /\ Has(b[l], e) <=> Has(a[l], e) \/ (l = LaneOf(f) /\ e = f)
         /\ Once(a[l], e) /\ (e = f => ~Has(a[l], e)) => Once(b[l], e)
         /\ \A g : Before(b[l], e, g) <=>
              Before(a[l], e, g) \/ (l = LaneOf(f) /\ Has(a[l], e) /\ g = f)

LEMMA PutEffect ==
    ASSUME NEW lanes \in [Lane -> Seq(Frame)], NEW f \in Frame, LaneOf(f) \in Lane
    PROVE  Extended(Put(lanes, f), lanes, f)
<1>1. \A l \in Lane : Put(lanes, f)[l] = IF l = LaneOf(f) THEN Append(lanes[l], f) ELSE lanes[l]
  BY DEF Put
<1>2. \A l \in Lane : lanes[l] \in Seq(Frame) /\ Append(lanes[l], f) \in Seq(Frame)
  BY AppendProperties
<1>3. Put(lanes, f) \in [Lane -> Seq(Frame)]
  BY <1>2 DEF Put
<1>4. ASSUME NEW l \in Lane, NEW e
      PROVE  /\ Has(Put(lanes, f)[l], e) <=> Has(lanes[l], e) \/ (l = LaneOf(f) /\ e = f)
             /\ Once(lanes[l], e) /\ (e = f => ~Has(lanes[l], e)) => Once(Put(lanes, f)[l], e)
             /\ \A g : Before(Put(lanes, f)[l], e, g) <=>
                   Before(lanes[l], e, g) \/ (l = LaneOf(f) /\ Has(lanes[l], e) /\ g = f)
  <2>1. CASE l = LaneOf(f)
    <3>1. Put(lanes, f)[l] = Append(lanes[l], f) /\ lanes[l] \in Seq(Frame)
      BY <1>1, <1>2, <2>1
    <3>2. Has(Append(lanes[l], f), e) <=> Has(lanes[l], e) \/ f = e
      BY <3>1, HasAppend
    <3>3. Once(lanes[l], e) /\ (e = f => ~Has(lanes[l], e)) => Once(Append(lanes[l], f), e)
      BY <3>1, OnceAppend
    <3>4. \A g : Before(Append(lanes[l], f), e, g) <=>
                   Before(lanes[l], e, g) \/ (Has(lanes[l], e) /\ f = g)
      BY <3>1, BeforeAppend
    <3> QED
      BY <2>1, <3>1, <3>2, <3>3, <3>4
  <2>2. CASE l # LaneOf(f)
    BY <1>1, <2>2
  <2> QED
    BY <2>1, <2>2
<1> QED
  BY <1>3, <1>4 DEF Extended

-----------------------------------------------------------------------------
(* What a step does to the queues. *)

OutTyped == out \in [Process -> [Lane -> Seq(Frame)]]
OutTypedAfter == out' \in [Process -> [Lane -> Seq(Frame)]]

\* p has sent the frame f, and nothing else has been sent.
Adds(p, f) ==
    /\ OutTypedAfter
    /\ \A q \in Process, l \in Lane : \A e :
         LET new == q = p /\ l = LaneOf(f)
         IN  /\ Has(out'[q][l], e) <=> Has(out[q][l], e) \/ (new /\ e = f)
             /\ Once(out[q][l], e) /\ (e = f => ~Has(out[q][l], e)) => Once(out'[q][l], e)
             /\ \A g : Before(out'[q][l], e, g) <=>
                  Before(out[q][l], e, g) \/ (new /\ Has(out[q][l], e) /\ g = f)

LEMMA SendEffect ==
    ASSUME OutTyped, NEW p \in Process, NEW f \in Frame, LaneOf(f) \in Lane, Send(p, f)
    PROVE  Adds(p, f)
<1>1. out[p] \in [Lane -> Seq(Frame)]
  BY DEF OutTyped
<1>2. \A q \in Process : out'[q] = IF q = p THEN Put(out[p], f) ELSE out[q]
  BY DEF Send, OutTyped
<1>3. OutTypedAfter
  BY <1>1, PutEffect DEF Send, OutTyped, OutTypedAfter, Extended
<1>4. ASSUME NEW q \in Process, NEW l \in Lane, NEW e
      PROVE  LET new == q = p /\ l = LaneOf(f)
             IN  /\ Has(out'[q][l], e) <=> Has(out[q][l], e) \/ (new /\ e = f)
                 /\ Once(out[q][l], e) /\ (e = f => ~Has(out[q][l], e)) => Once(out'[q][l], e)
                 /\ \A g : Before(out'[q][l], e, g) <=>
                      Before(out[q][l], e, g) \/ (new /\ Has(out[q][l], e) /\ g = f)
  <2>1. CASE q = p
    <3>1. Extended(out'[q], out[q], f)
      BY <1>1, <1>2, <2>1, PutEffect
    <3> QED
      BY <2>1, <3>1 DEF Extended
  <2>2. CASE q # p
    BY <1>2, <2>2
  <2> QED
    BY <2>1, <2>2
<1> QED
  BY <1>3, <1>4 DEF Adds

\* A request adds its subscription and then itself.
AddsCall(p, c, t) ==
    /\ OutTypedAfter
    /\ \A q \in Process, l \in Lane : \A e :
         LET first == q = p /\ l = "command" /\ e = Listens(c)
             new == q = p /\ l = AskLane
         IN  /\ Has(out'[q][l], e) <=> Has(out[q][l], e) \/ first \/ (new /\ e = Asks(c, t))
             /\ Once(out[q][l], e) /\ (e \in {Listens(c), Asks(c, t)} => ~Has(out[q][l], e))
                  => Once(out'[q][l], e)
             /\ Before(out'[q][l], e, Asks(c, t)) <=>
                  Before(out[q][l], e, Asks(c, t)) \/ (new /\ (Has(out[q][l], e) \/ first))
             /\ \A g : g \notin {Listens(c), Asks(c, t)} =>
                  (Before(out'[q][l], e, g) <=> Before(out[q][l], e, g))

LEMMA CallEffect ==
    ASSUME OutTyped, NEW p \in Process, NEW c \in Call, NEW t \in Target,
           out' = [out EXCEPT ![p] = CallFrames(@, c, t)]
    PROVE  AddsCall(p, c, t)
<1> DEFINE once == Put(out[p], Listens(c))
           twice == Put(once, Asks(c, t))
<1>1. out[p] \in [Lane -> Seq(Frame)]
  BY DEF OutTyped
<1>2. \A o \in Outcome : {Listens(c), Asks(c, t)} \subseteq Frame
  BY FrameKinds
<1>3. /\ Listens(c) \in Frame /\ Asks(c, t) \in Frame
      /\ LaneOf(Listens(c)) = "command" /\ LaneOf(Asks(c, t)) = AskLane
      /\ AskLane \in Lane /\ "command" \in Lane
      /\ Listens(c) # Asks(c, t)
  BY <1>2, FrameKinds, FramesDiffer DEF Outcome
<1>4. Extended(once, out[p], Listens(c))
  BY <1>1, <1>3, PutEffect
<1>5. Extended(twice, once, Asks(c, t))
  <2>1. once \in [Lane -> Seq(Frame)]
    BY <1>4 DEF Extended
  <2> QED
    BY <1>3, <2>1, PutEffect
<1>6. \A q \in Process : out'[q] = IF q = p THEN twice ELSE out[q]
  BY DEF CallFrames, OutTyped, Listens, Asks
<1> HIDE DEF once, twice
<1>7. OutTypedAfter
  <2>1. out' = [out EXCEPT ![p] = twice]
    BY DEF CallFrames, OutTyped, Listens, Asks, once, twice
  <2> QED
    BY <1>5, <2>1 DEF OutTyped, OutTypedAfter, Extended
<1>8. ASSUME NEW q \in Process, NEW l \in Lane, NEW e
      PROVE  LET first == q = p /\ l = "command" /\ e = Listens(c)
                 new == q = p /\ l = AskLane
             IN  /\ Has(out'[q][l], e) <=> Has(out[q][l], e) \/ first \/ (new /\ e = Asks(c, t))
                 /\ Once(out[q][l], e) /\ (e \in {Listens(c), Asks(c, t)} => ~Has(out[q][l], e))
                      => Once(out'[q][l], e)
                 /\ Before(out'[q][l], e, Asks(c, t)) <=>
                      Before(out[q][l], e, Asks(c, t)) \/ (new /\ (Has(out[q][l], e) \/ first))
                 /\ \A g : g \notin {Listens(c), Asks(c, t)} =>
                      (Before(out'[q][l], e, g) <=> Before(out[q][l], e, g))
  <2>1. CASE q = p
    <3>1. out'[q][l] = twice[l]
      BY <1>6, <2>1
    <3> QED
      BY <1>3, <1>4, <1>5, <2>1, <3>1 DEF Extended
  <2>2. CASE q # p
    BY <1>6, <2>2
  <2> QED
    BY <2>1, <2>2
<1> QED
  BY <1>7, <1>8 DEF AddsCall


\* The bus takes the first frame of a lane.
Takes(p, l, f) ==
    /\ OutTypedAfter
    /\ f \in Frame /\ Has(out[p][l], f)
    /\ Once(out[p][l], f) => ~Has(out'[p][l], f)
    /\ \A q \in Process, k \in Lane : \A e, g :
         LET here == q = p /\ k = l
         IN  /\ Has(out'[q][k], e) => Has(out[q][k], e)
             /\ Has(out[q][k], e) => Has(out'[q][k], e) \/ (here /\ e = f)
             /\ Once(out[q][k], e) => Once(out'[q][k], e)
             /\ Before(out[q][k], e, g) /\ Once(out[q][k], g) =>
                  /\ here => f # g
                  /\ Has(out'[q][k], g)
                  /\ Before(out'[q][k], e, g) \/ (here /\ e = f)

LEMMA TakeEffect ==
    ASSUME OutTyped, NEW p \in Process, NEW l \in Lane, out[p][l] # <<>>,
           out' = [out EXCEPT ![p][l] = Tail(@)]
    PROVE  Takes(p, l, Head(out[p][l]))
<1> DEFINE s == out[p][l]
<1>1. s \in Seq(Frame) /\ s # <<>>
  BY DEF OutTyped
<1>2. \A q \in Process, k \in Lane :
        out'[q][k] = IF q = p /\ k = l THEN Tail(s) ELSE out[q][k]
  BY DEF OutTyped
<1>3. Tail(s) \in Seq(Frame)
  BY <1>1, HeadTailProperties
<1>4. OutTypedAfter
  BY <1>3 DEF OutTyped, OutTypedAfter
<1>5. Head(s) \in Frame /\ Has(s, Head(s))
  BY <1>1, HasSome
<1> HIDE DEF s
<1>6. ASSUME NEW q \in Process, NEW k \in Lane, NEW e, NEW g
      PROVE  LET here == q = p /\ k = l
             IN  /\ Has(out'[q][k], e) => Has(out[q][k], e)
                 /\ Has(out[q][k], e) => Has(out'[q][k], e) \/ (here /\ e = Head(s))
                 /\ Once(out[q][k], e) => Once(out'[q][k], e)
                 /\ Before(out[q][k], e, g) /\ Once(out[q][k], g) =>
                      /\ here => Head(s) # g
                      /\ Has(out'[q][k], g)
                      /\ Before(out'[q][k], e, g) \/ (here /\ e = Head(s))
  <2>1. CASE q = p /\ k = l
    <3>1. out'[q][k] = Tail(s) /\ out[q][k] = s
      BY <1>2, <2>1 DEF s
    <3>2. /\ Has(Tail(s), e) => Has(s, e)
          /\ Has(s, e) => Has(Tail(s), e) \/ e = Head(s)
          /\ Once(s, e) => Once(Tail(s), e)
      BY <1>1, HasTail
    <3>3. Before(s, e, g) => /\ Once(s, g) => Head(s) # g
                             /\ Has(Tail(s), g)
                             /\ e = Head(s) \/ Before(Tail(s), e, g)
      BY <1>1, BeforeTail
    <3> QED
      BY <2>1, <3>1, <3>2, <3>3
  <2>2. CASE ~(q = p /\ k = l)
    <3>1. out'[q][k] = out[q][k]
      BY <1>2, <2>2
    <3>2. Before(out[q][k], e, g) => Has(out[q][k], g)
      BY DEF Before, Has
    <3> QED
      BY <2>2, <3>1, <3>2
  <2> QED
    BY <2>1, <2>2
<1>7. Once(s, Head(s)) => ~Has(out'[p][l], Head(s))
  <2>1. out'[p][l] = Tail(s)
    BY <1>2
  <2> QED
    BY <1>1, <2>1, HasTail
<1> QED
  BY <1>4, <1>5, <1>6, <1>7 DEF Takes, s

\* A process that is gone: what the bus still gets is a prefix of each lane.
Truncates(p) ==
    /\ OutTypedAfter
    /\ \A q \in Process, l \in Lane :
         /\ q # p => out'[q] = out[q]
         /\ \A e : /\ Has(out'[q][l], e) => Has(out[q][l], e)
                   /\ Once(out[q][l], e) => Once(out'[q][l], e)
                   /\ \A g : Before(out[q][l], e, g) /\ Once(out[q][l], g) /\ Has(out'[q][l], g)
                               => Before(out'[q][l], e, g)

LEMMA ExitEffect ==
    ASSUME OutTyped, NEW p \in Process, ProcessExit(p)
    PROVE  Truncates(p)
<1>1. PICK n \in 0..Len(out[p]["command"]), m \in 0..Len(out[p]["publish"]) :
         out' = [out EXCEPT ![p] = [l \in Lane |->
                      IF l = "publish" THEN SubSeq(@[l], 1, m)
                      ELSE IF redis THEN <<>> ELSE SubSeq(@[l], 1, n)]]
  BY DEF ProcessExit
<1> DEFINE first == out[p]["command"]
           second == out[p]["publish"]
<1>2. first \in Seq(Frame) /\ second \in Seq(Frame)
  BY DEF OutTyped, Lane
<1>3. /\ out'[p]["command"] = IF redis THEN <<>> ELSE SubSeq(first, 1, n)
      /\ out'[p]["publish"] = SubSeq(second, 1, m)
      /\ \A q \in Process : q # p => out'[q] = out[q]
  BY <1>1 DEF OutTyped, Lane
<1> HIDE DEF first, second
<1>4. SubSeq(first, 1, n) \in Seq(Frame) /\ SubSeq(second, 1, m) \in Seq(Frame)
  BY <1>1, <1>2, HasPrefix DEF first, second
<1>5. OutTypedAfter
  <2>1. <<>> \in Seq(Frame)
    BY EmptySeq
  <2>2. \A l \in Lane : out'[p][l] \in Seq(Frame)
    BY <1>3, <1>4, <2>1 DEF Lane
  <2>3. out' = [out EXCEPT ![p] = [l \in Lane |-> out'[p][l]]]
    BY <1>1 DEF OutTyped
  <2> QED
    BY <2>2, <2>3 DEF OutTyped, OutTypedAfter
<1>6. ASSUME NEW q \in Process, NEW l \in Lane, NEW e, NEW g
      PROVE  /\ Has(out'[q][l], e) => Has(out[q][l], e)
             /\ Once(out[q][l], e) => Once(out'[q][l], e)
             /\ Before(out[q][l], e, g) /\ Once(out[q][l], g) /\ Has(out'[q][l], g)
                  => Before(out'[q][l], e, g)
  <2>1. CASE q # p
    BY <1>3, <2>1
  <2>2. CASE q = p /\ l = "command" /\ redis
    <3>1. ~Has(out'[q][l], e) /\ ~Has(out'[q][l], g) /\ Once(out'[q][l], e)
      <4>1. out'[q][l] = <<>> /\ Len(<<>>) = 0
        BY <1>3, <2>2
      <4> QED
        BY <4>1 DEF Has, Once
    <3> QED
      BY <3>1
  <2>3. CASE q = p /\ l = "command" /\ ~redis
    <3>1. out'[q][l] = SubSeq(first, 1, n) /\ out[q][l] = first /\ n \in 0..Len(first)
      BY <1>1, <1>3, <2>3 DEF first
    <3> QED
      BY <1>2, <3>1, HasPrefix, BeforePrefix
  <2>4. CASE q = p /\ l = "publish"
    <3>1. out'[q][l] = SubSeq(second, 1, m) /\ out[q][l] = second /\ m \in 0..Len(second)
      BY <1>1, <1>3, <2>4 DEF second
    <3> QED
      BY <1>2, <3>1, HasPrefix, BeforePrefix
  <2> QED
    BY <2>1, <2>2, <2>3, <2>4 DEF Lane
<1> QED
  BY <1>3, <1>5, <1>6 DEF Truncates


InTyped == inbox \in [Process -> Seq(Message)]
InTypedAfter == inbox' \in [Process -> Seq(Message)]

\* The message m reaches the processes of S, and no other message any process.
Arrives(m, S) ==
    /\ InTypedAfter
    /\ \A q \in Process : \A e :
         /\ Has(inbox'[q], e) <=> Has(inbox[q], e) \/ (q \in S /\ e = m)
         /\ Once(inbox[q], e) /\ (e = m => ~Has(inbox[q], e)) => Once(inbox'[q], e)

LEMMA DeliverEffect ==
    ASSUME InTyped, NEW ch, NEW d, [channel |-> ch, data |-> d] \in Message, Deliver(ch, d)
    PROVE  Arrives([channel |-> ch, data |-> d], Reachable(ch))
<1> DEFINE m == [channel |-> ch, data |-> d]
<1>1. \A q \in Process :
        inbox'[q] = IF q \in Reachable(ch) THEN Append(inbox[q], m) ELSE inbox[q]
  BY DEF Deliver
<1>2. \A q \in Process : inbox[q] \in Seq(Message)
  BY DEF InTyped
<1> HIDE DEF m
<1>3. m \in Message
  BY DEF m
<1>4. InTypedAfter
  <2>1. ASSUME NEW q \in Process PROVE inbox'[q] \in Seq(Message)
    <3>1. Append(inbox[q], m) \in Seq(Message)
      BY <1>2, <1>3, AppendProperties
    <3> QED
      BY <1>1, <1>2, <3>1
  <2> QED
    BY <2>1 DEF InTypedAfter, Deliver
<1>5. ASSUME NEW q \in Process, NEW e
      PROVE  /\ Has(inbox'[q], e) <=> Has(inbox[q], e) \/ (q \in Reachable(ch) /\ e = m)
             /\ Once(inbox[q], e) /\ (e = m => ~Has(inbox[q], e)) => Once(inbox'[q], e)
  <2>1. CASE q \in Reachable(ch)
    <3>1. inbox'[q] = Append(inbox[q], m) /\ inbox[q] \in Seq(Message)
      BY <1>1, <1>2, <2>1
    <3>2. Has(Append(inbox[q], m), e) <=> Has(inbox[q], e) \/ m = e
      BY <1>3, <3>1, HasAppend
    <3>3. Once(inbox[q], e) /\ (m # e \/ ~Has(inbox[q], e)) => Once(Append(inbox[q], m), e)
      BY <1>3, <3>1, OnceAppend
    <3> QED
      BY <2>1, <3>1, <3>2, <3>3
  <2>2. CASE q \notin Reachable(ch)
    BY <1>1, <2>2
  <2> QED
    BY <2>1, <2>2
<1> QED
  BY <1>4, <1>5 DEF Arrives, m

\* Messages leave the inbox of p, m the first of them unless p is gone.
Leaves ==
    /\ InTypedAfter
    /\ \A q \in Process : \A e :
         /\ Has(inbox'[q], e) => Has(inbox[q], e)
         /\ Once(inbox[q], e) => Once(inbox'[q], e)

LEMMA ReceiveEffect ==
    ASSUME InTyped, NEW p \in Process, Receives(p)
    PROVE  /\ Leaves
           /\ Received(p) \in Message /\ Has(inbox[p], Received(p))
           /\ Once(inbox[p], Received(p)) => ~Has(inbox'[p], Received(p))
<1>1. inbox[p] \in Seq(Message) /\ inbox[p] # <<>>
  BY DEF InTyped, Receives
<1>2. Received(p) \in Message /\ Has(inbox[p], Received(p))
  BY <1>1, HasSome DEF Received
<1>3. \A q \in Process : inbox'[q] = IF q = p THEN Tail(inbox[p]) ELSE inbox[q]
  BY DEF Receives, InTyped
<1>4. Tail(inbox[p]) \in Seq(Message)
  BY <1>1, HeadTailProperties
<1>5. InTypedAfter
  BY <1>4 DEF Receives, InTyped, InTypedAfter
<1>6. \A e : /\ Has(Tail(inbox[p]), e) => Has(inbox[p], e)
             /\ Once(inbox[p], e) => Once(Tail(inbox[p]), e)
             /\ Once(inbox[p], e) /\ e = Head(inbox[p]) => ~Has(Tail(inbox[p]), e)
  BY <1>1, HasTail
<1>7. Leaves
  BY <1>3, <1>5, <1>6 DEF Leaves
<1> QED
  BY <1>2, <1>3, <1>6, <1>7 DEF Received

LEMMA GoneEffect ==
    ASSUME InTyped, NEW p \in Process, ProcessExit(p)
    PROVE  Leaves
<1>1. \A q \in Process : inbox'[q] = IF q = p THEN <<>> ELSE inbox[q]
  BY DEF ProcessExit, InTyped
<1>2. InTypedAfter
  <2>1. <<>> \in Seq(Message)
    BY EmptySeq
  <2> QED
    BY <2>1 DEF ProcessExit, InTyped, InTypedAfter
<1>3. \A e : ~Has(<<>>, e) /\ Once(<<>>, e)
  <2>1. Len(<<>>) = 0
    BY EmptySeq
  <2> QED
    BY <2>1 DEF Has, Once
<1> QED
  BY <1>1, <1>2, <1>3 DEF Leaves


-----------------------------------------------------------------------------
(* A call is settled by its answer or by its timer. *)

Settles(c) ==
    /\ caller[c] = "waiting"
    /\ \E v \in {"resolved", "rejected", "gaveUp"} : caller' = [caller EXCEPT ![c] = v]
    /\ Adds(request[c].from, Stops(c))
    /\ listening' = [listening EXCEPT ![request[c].from] = @ \ {ResponseChannel(c)}]
    /\ Leaves
    /\ \A p \in Process \ alive : inbox'[p] = <<>>
    /\ UNCHANGED <<alive, redis, up, subscribers, handlers, request, effect, store>>

LEMMA SettleKeeps ==
    ASSUME IInv, NEW c \in Call, Settles(c)
    PROVE  IInv'
<1> DEFINE p == request[c].from
<1>1. p \in alive /\ p \in Process
  BY DEF IInv, CallsMade, Settles
<1>2. /\ \A d \in Call : d # c => caller'[d] = caller[d]
      /\ caller'[c] \in {"resolved", "rejected", "gaveUp"}
      /\ caller' \in [Call -> {"idle", "waiting", "resolved", "rejected", "gaveUp", "lost"}]
  BY DEF Settles, IInv, Typed, TypeOK
<1>3. \A q \in Process, l \in Lane : \A e :
        LET new == q = p /\ l = "command"
        IN  /\ Has(out'[q][l], e) <=> Has(out[q][l], e) \/ (new /\ e = Stops(c))
            /\ Once(out[q][l], e) /\ (e = Stops(c) => ~Has(out[q][l], e)) => Once(out'[q][l], e)
            /\ \A g : Before(out'[q][l], e, g) <=>
                 Before(out[q][l], e, g) \/ (new /\ Has(out[q][l], e) /\ g = Stops(c))
  BY FrameKinds DEF Settles, Adds, Outcome, Target
<1>4. Typed'
  <2>1. \A q \in Process : listening'[q] \subseteq listening[q]
    BY <1>1 DEF IInv, Typed, TypeOK, BusTypeOK, Settles
  <2>2. BusTypeOK(Channel)'
    BY <1>1, <2>1 DEF IInv, Typed, TypeOK, BusTypeOK, Settles, Channel, Call, RequestChannel, ResponseChannel
  <2>3. TypeOK'
    BY <1>2, <2>2 DEF IInv, Typed, TypeOK, Settles
  <2> QED
    BY <2>3 DEF Settles, Adds, Leaves, OutTypedAfter, InTypedAfter, Typed
<1>5. CallsMade'
  BY <1>2 DEF IInv, CallsMade, Settles
<1>6. FramesTrue'
  <2> SUFFICES ASSUME NEW q \in Process, NEW l \in Lane, NEW d \in Call
      PROVE  /\ Has(out'[q][l], Listens(d)) => l = "command" /\ q = request[d].from
             /\ Has(out'[q][l], Stops(d)) =>
                  l = "command" /\ q = request[d].from /\ caller'[d] # "waiting"
             /\ \A t \in Target : Has(out'[q][l], Asks(d, t)) =>
                  l = AskLane /\ q = request[d].from /\ t = request[d].to /\ effect[d] = "none"
             /\ \A o \in Outcome : Has(out'[q][l], Answers(d, o)) => effect[d] = o
    BY DEF FramesTrue, Settles, AskLane
  <2>1. \A e : Has(out'[q][l], e) => Has(out[q][l], e) \/ (q = p /\ l = "command" /\ e = Stops(c))
    BY <1>3
  <2>2. Has(out'[q][l], Listens(d)) => l = "command" /\ q = request[d].from
    BY <2>1, FramesDiffer DEF IInv, FramesTrue
  <2>3. Has(out'[q][l], Stops(d)) => l = "command" /\ q = request[d].from /\ caller'[d] # "waiting"
    BY <1>2, <2>1, FramesDiffer DEF IInv, FramesTrue
  <2>4. ASSUME NEW t \in Target, Has(out'[q][l], Asks(d, t))
        PROVE  l = AskLane /\ q = request[d].from /\ t = request[d].to /\ effect[d] = "none"
    BY <2>1, <2>4, FramesDiffer DEF IInv, FramesTrue
  <2>5. ASSUME NEW o \in Outcome, Has(out'[q][l], Answers(d, o))
        PROVE  effect[d] = o
    BY <2>1, <2>5, FramesDiffer DEF IInv, FramesTrue
  <2> QED
    BY <2>2, <2>3, <2>4, <2>5
<1>7. FramesOnce'
  <2>1. \A q \in Process, l \in Lane : ~Has(out[q][l], Stops(c))
    BY DEF IInv, FramesTrue, Settles
  <2> QED
    BY <1>3, <2>1 DEF IInv, FramesOnce
<1>8. MessagesTrue'
  <2>1. \A q \in Process, l \in Lane : \A d, t : Has(out'[q][l], Asks(d, t)) => Has(out[q][l], Asks(d, t))
    BY <1>3, FramesDiffer
  <2>2. ASSUME NEW q \in Process, NEW d \in Call, NEW t \in Process
        PROVE  /\ Once(inbox'[q], Asked(d, t))
               /\ Has(inbox'[q], Asked(d, t)) =>
                    /\ q = t /\ t = request[d].to /\ effect[d] = "none"
                    /\ \A r \in Process, l \in Lane : ~Has(out'[r][l], Asks(d, t))
    <3>1. /\ Once(inbox[q], Asked(d, t))
          /\ Has(inbox[q], Asked(d, t)) =>
               /\ q = t /\ t = request[d].to /\ effect[d] = "none"
               /\ \A r \in Process, l \in Lane : ~Has(out[r][l], Asks(d, t))
      BY DEF IInv, MessagesTrue
    <3>2. /\ Has(inbox'[q], Asked(d, t)) => Has(inbox[q], Asked(d, t))
          /\ Once(inbox[q], Asked(d, t)) => Once(inbox'[q], Asked(d, t))
      BY DEF Settles, Leaves
    <3> QED
      BY ONLY <2>1, <3>1, <3>2
  <2>3. ASSUME NEW q \in Process, NEW d \in Call, NEW o \in Outcome, Has(inbox'[q], Answered(d, o))
        PROVE  effect[d] = o
    BY <2>3 DEF IInv, MessagesTrue, Settles, Leaves
  <2> QED
    BY <2>2, <2>3 DEF MessagesTrue, Settles
<1>9. ChannelsTrue'
  BY <1>1, <1>2 DEF IInv, ChannelsTrue, Settles, ResponseChannel, Typed, TypeOK, BusTypeOK
<1>10. SubscriptionsTrue'
  <2> SUFFICES ASSUME NEW d \in Call, request[d].from \in alive
      PROVE  LET q == out'[request[d].from]["command"]
             IN  /\ caller'[d] = "waiting" => Subscribed(d) \/ Has(q, Listens(d))
                 /\ caller'[d] # "waiting" =>
                      /\ Subscribed(d) => Has(q, Stops(d))
                      /\ Has(q, Listens(d)) => Before(q, Listens(d), Stops(d))
    BY DEF SubscriptionsTrue, Settles, Subscribed
  <2> DEFINE r == request[d].from
             q == out[r]["command"]
             k == out'[r]["command"]
  <2>1. r \in Process
    BY DEF IInv, Typed, TypeOK, BusTypeOK
  <2>2. /\ \A e : Has(k, e) <=> Has(q, e) \/ (r = p /\ e = Stops(c))
        /\ \A e, g : Before(k, e, g) <=> Before(q, e, g) \/ (r = p /\ Has(q, e) /\ g = Stops(c))
    BY <1>3, <2>1 DEF Lane
  <2>3. /\ caller[d] = "waiting" => Subscribed(d) \/ Has(q, Listens(d))
        /\ caller[d] # "waiting" =>
             /\ Subscribed(d) => Has(q, Stops(d))
             /\ Has(q, Listens(d)) => Before(q, Listens(d), Stops(d))
    BY DEF IInv, SubscriptionsTrue
  <2> HIDE DEF q, k
  <2>4. CASE d = c
    BY <1>2, <2>2, <2>4, FramesDiffer DEF k
  <2>5. CASE d # c
    BY <1>2, <2>2, <2>3, <2>5, FramesDiffer DEF k
  <2> QED
    BY <2>4, <2>5
<1>11. ListensFirst'
  <2> SUFFICES ASSUME NEW d \in Call, ~redis, caller'[d] = "waiting"
      PROVE  \/ Subscribed(d)
             \/ Before(out'[request[d].from]["command"], Listens(d), Asks(d, request[d].to))
    BY DEF ListensFirst, Settles, Subscribed
  <2>1. d # c /\ caller[d] = "waiting" /\ request[d].from \in Process
    BY <1>2 DEF IInv, CallsMade
  <2> QED
    BY <1>3, <2>1 DEF IInv, ListensFirst, Lane
<1>12. MasterAsked' /\ AskedInOrder'
  <2>1. ASSUME NEW d \in Call, request[d].to = Master
        PROVE  request[d].from \in Process
    BY <2>1, MasterDiffers DEF IInv, CallsMade
  <2>2. \A q \in Process : \A d :
          /\ Has(out'[q]["command"], Asks(d, Master)) <=> Has(out[q]["command"], Asks(d, Master))
          /\ \A e : Before(out[q]["command"], e, Asks(d, Master)) =>
                    Before(out'[q]["command"], e, Asks(d, Master))
    BY <1>3, FramesDiffer DEF Lane
  <2>3. MasterAsked'
    BY <2>1, <2>2 DEF IInv, MasterAsked, Settles
  <2>4. AskedInOrder'
    BY <2>1, <2>2 DEF IInv, AskedInOrder, Settles
  <2> QED
    BY <2>3, <2>4
<1>13. CacheInOrder'
  BY DEF IInv, CacheInOrder, Settles
<1> QED
  BY <1>4, <1>5, <1>6, <1>7, <1>8, <1>9, <1>10, <1>11, <1>12, <1>13 DEF IInv

LEMMA GiveUpKeeps ==
    ASSUME IInv, NEW c \in Call, GiveUp(c)
    PROVE  IInv'
<1>1. request[c].from \in Process /\ OutTyped /\ InTyped
  BY DEF IInv, Typed, CallsMade, GiveUp, OutTyped, InTyped
<1>2. Adds(request[c].from, Stops(c))
  <2>1. Stops(c) \in Frame /\ LaneOf(Stops(c)) = "command" /\ "command" \in Lane
    BY FrameKinds DEF Outcome, Target
  <2> QED
    BY <1>1, <2>1, SendEffect DEF GiveUp, Forget, Stops
<1>3. Leaves /\ \A p \in Process \ alive : inbox'[p] = <<>>
  <2>1. inbox' = inbox /\ \A p \in Process \ alive : inbox[p] = <<>>
    BY DEF GiveUp, IInv, Typed, TypeOK, BusTypeOK
  <2> QED
    BY <1>1, <2>1 DEF Leaves, InTyped, InTypedAfter
<1>4. Settles(c)
  BY <1>2, <1>3 DEF GiveUp, Settles, Forget
<1> QED
  BY <1>4, SettleKeeps

\* An answer that is listened to is one of a call of the process that waits, and
\* tells what has been done about it.
LEMMA AnswerTold ==
    ASSUME IInv, NEW p \in Process, TakeAnswer(p)
    PROVE  \E c \in Call, o \in Outcome :
             /\ Received(p) = Answered(c, o) /\ Received(p).channel[2] = c /\ Received(p).data = o
             /\ caller[c] = "waiting" /\ request[c].from = p /\ effect[c] = o
<1>1. InTyped /\ Receives(p)
  BY DEF IInv, Typed, InTyped, TakeAnswer
<1>2. Received(p) \in Message /\ Has(inbox[p], Received(p))
  BY <1>1, ReceiveEffect
<1>3. PICK c \in Call, o \in Outcome : Received(p) = Answered(c, o)
  <2>1. ASSUME NEW c \in Call, NEW t \in Process, Received(p) = Asked(c, t)
        PROVE  FALSE
    BY <2>1 DEF TakeAnswer, Asked, RequestChannel
  <2> QED
    BY <1>2, <2>1 DEF Message
<1>4. Received(p).channel = ResponseChannel(c) /\ Received(p).channel[2] = c /\ Received(p).data = o
  BY <1>3 DEF Answered, ResponseChannel
<1>5. ResponseChannel(c) \in listening[p]
  BY <1>4 DEF TakeAnswer, Listened
<1>6. caller[c] = "waiting" /\ request[c].from = p
  BY <1>5 DEF IInv, ChannelsTrue
<1>7. effect[c] = o
  BY <1>2, <1>3 DEF IInv, MessagesTrue
<1> QED
  BY <1>3, <1>4, <1>6, <1>7

LEMMA TakeAnswerKeeps ==
    ASSUME IInv, NEW p \in Process, TakeAnswer(p)
    PROVE  IInv'
<1>1. PICK c \in Call, o \in Outcome :
         /\ Received(p).channel[2] = c /\ Received(p).data = o
         /\ caller[c] = "waiting" /\ request[c].from = p /\ effect[c] = o
  BY AnswerTold
<1>2. OutTyped /\ InTyped /\ Receives(p)
  BY DEF IInv, Typed, OutTyped, InTyped, TakeAnswer
<1>3. Adds(p, Stops(c))
  <2>1. Stops(c) \in Frame /\ LaneOf(Stops(c)) = "command" /\ "command" \in Lane
    BY FrameKinds DEF Outcome, Target
  <2> QED
    BY <1>1, <1>2, <2>1, SendEffect DEF TakeAnswer, Forget, Stops
<1>4. Leaves
  BY <1>2, ReceiveEffect
<1>5. \A q \in Process \ alive : inbox'[q] = <<>>
  BY <1>2 DEF Receives, InTyped, IInv, Typed, TypeOK, BusTypeOK
<1>6. \E v \in {"resolved", "rejected", "gaveUp"} : caller' = [caller EXCEPT ![c] = v]
  BY <1>1 DEF TakeAnswer
<1>7. listening' = [listening EXCEPT ![p] = @ \ {ResponseChannel(c)}]
  BY <1>1 DEF TakeAnswer, Forget
<1>8. Settles(c)
  BY <1>1, <1>3, <1>4, <1>5, <1>6, <1>7 DEF TakeAnswer, Receives, Settles
<1> QED
  BY <1>8, SettleKeeps


-----------------------------------------------------------------------------
(* A call is made. *)

\* Nothing of a call that is not made is on its way.
LEMMA IdleUnknown ==
    ASSUME IInv, NEW c \in Call, caller[c] = "idle"
    PROVE  /\ effect[c] = "none"
           /\ \A q \in Process, l \in Lane :
                /\ ~Has(out[q][l], Listens(c)) /\ ~Has(out[q][l], Stops(c))
                /\ \A t \in Target : ~Has(out[q][l], Asks(c, t))
           /\ \A q \in Process :
                /\ \A t \in Process : ~Has(inbox[q], Asked(c, t))
                /\ <<ResponseChannel(c), q>> \notin subscribers
<1>1. request[c].from = None /\ request[c].to = None /\ effect[c] = "none"
  BY DEF IInv, CallsMade
<1>2. None \notin Process /\ None \notin Target
  BY MasterDiffers DEF Target
<1>3. ASSUME NEW q \in Process, NEW l \in Lane
      PROVE  /\ ~Has(out[q][l], Listens(c)) /\ ~Has(out[q][l], Stops(c))
             /\ \A t \in Target : ~Has(out[q][l], Asks(c, t))
  BY <1>1, <1>2 DEF IInv, FramesTrue
<1>4. ASSUME NEW q \in Process
      PROVE  /\ \A t \in Process : ~Has(inbox[q], Asked(c, t))
             /\ <<ResponseChannel(c), q>> \notin subscribers
  BY <1>1, <1>2 DEF IInv, MessagesTrue, ChannelsTrue
<1> QED
  BY <1>1, <1>3, <1>4

LEMMA RequestKeeps ==
    ASSUME IInv, NEW c \in Call, NEW p \in Process, NEW t \in Target,
           NEW m \in {"room", "set", "get", "remove"}, RequestProcess(c, p, t, m)
    PROVE  IInv'
<1>1. /\ p \in alive /\ caller[c] = "idle"
      /\ \A d \in Call : d < c => caller[d] # "idle"
      /\ t = Master => ~redis
  BY MasterDiffers DEF RequestProcess
<1>2. /\ request'[c].from = p /\ request'[c].to = t
      /\ request' \in [Call -> [from : Process \cup {None}, to : Process \cup {Master, None},
                                method : {"room", "set", "get", "remove"}]]
      /\ \A d \in Call : d # c => request'[d] = request[d]
  BY DEF RequestProcess, IInv, Typed, TypeOK, Target
<1>3. /\ caller'[c] = "waiting"
      /\ caller' \in [Call -> {"idle", "waiting", "resolved", "rejected", "gaveUp", "lost"}]
      /\ \A d \in Call : d # c => caller'[d] = caller[d]
  BY DEF RequestProcess, IInv, Typed, TypeOK
<1>4. AddsCall(p, c, t)
  <2>1. OutTyped
    BY DEF IInv, Typed, OutTyped
  <2> QED
    BY <2>1, CallEffect DEF RequestProcess
<1>5. /\ effect[c] = "none"
      /\ \A q \in Process, l \in Lane :
           /\ ~Has(out[q][l], Listens(c)) /\ ~Has(out[q][l], Stops(c))
           /\ \A u \in Target : ~Has(out[q][l], Asks(c, u))
      /\ \A q \in Process :
           /\ \A u \in Process : ~Has(inbox[q], Asked(c, u))
           /\ <<ResponseChannel(c), q>> \notin subscribers
  BY <1>1, IdleUnknown
<1>6. UNCHANGED <<alive, redis, up, subscribers, inbox, handlers, effect, store>>
  BY DEF RequestProcess
<1>7. \A q \in Process : listening'[q] = IF q = p THEN listening[q] \cup {ResponseChannel(c)}
                                         ELSE listening[q]
  BY DEF RequestProcess, IInv, Typed, TypeOK, BusTypeOK
<1>8. \A q \in Process, l \in Lane : \A e :
        /\ Has(out'[q][l], e) =>
             \/ Has(out[q][l], e)
             \/ q = p /\ l = "command" /\ e = Listens(c)
             \/ q = p /\ l = AskLane /\ e = Asks(c, t)
        /\ Has(out[q][l], e) => Has(out'[q][l], e)
  BY <1>4 DEF AddsCall
<1>9. Typed'
  <2>1. ResponseChannel(c) \in Channel
    BY DEF Channel
  <2>2. BusTypeOK(Channel)'
    <3>1. listening' \in [Process -> SUBSET Channel]
      BY <2>1 DEF RequestProcess, IInv, Typed, TypeOK, BusTypeOK
    <3>2. \A q \in Process \ alive : listening'[q] = {} /\ inbox'[q] = <<>>
      BY <1>1, <1>6, <1>7 DEF IInv, Typed, TypeOK, BusTypeOK
    <3> QED
      BY <1>6, <3>1, <3>2 DEF IInv, Typed, TypeOK, BusTypeOK, Channel, Call, RequestChannel, ResponseChannel
  <2>3. TypeOK'
    BY <1>2, <1>3, <1>6, <2>2 DEF IInv, Typed, TypeOK
  <2> QED
    BY <1>4, <1>6, <2>3 DEF AddsCall, OutTypedAfter, IInv, Typed
<1>10. CallsMade'
  <2> SUFFICES ASSUME NEW d \in Call
      PROVE  /\ caller'[d] = "idle" =>
                  /\ request'[d].from = None /\ request'[d].to = None /\ effect'[d] = "none"
                  /\ \A x \in Call : d < x => caller'[x] = "idle"
             /\ caller'[d] # "idle" => request'[d].from \in Process /\ request'[d].to \in Target
             /\ caller'[d] = "waiting" => request'[d].from \in alive'
             /\ request'[d].to = Master => ~redis'
    BY DEF CallsMade
  <2>1. CASE d = c
    BY <1>1, <1>2, <1>3, <1>6, <2>1
  <2>2. CASE d # c
    <3>1. caller[d] = "idle" => ~(d < c)
      BY <1>1
    <3> QED
      BY <1>2, <1>3, <1>6, <2>2, <3>1 DEF IInv, CallsMade
  <2> QED
    BY <2>1, <2>2
<1>11. FramesTrue'
  <2> SUFFICES ASSUME NEW q \in Process, NEW l \in Lane, NEW d \in Call
      PROVE  /\ Has(out'[q][l], Listens(d)) => l = "command" /\ q = request'[d].from
             /\ Has(out'[q][l], Stops(d)) =>
                  l = "command" /\ q = request'[d].from /\ caller'[d] # "waiting"
             /\ \A u \in Target : Has(out'[q][l], Asks(d, u)) =>
                  l = AskLane /\ q = request'[d].from /\ u = request'[d].to /\ effect[d] = "none"
             /\ \A o \in Outcome : Has(out'[q][l], Answers(d, o)) => effect[d] = o
    BY <1>6 DEF FramesTrue, AskLane
  <2>1. Has(out'[q][l], Listens(d)) => l = "command" /\ q = request'[d].from
    <3>1. Has(out'[q][l], Listens(d)) =>
            Has(out[q][l], Listens(d)) \/ (q = p /\ l = "command" /\ d = c)
      BY <1>8, FramesDiffer
    <3>2. Has(out[q][l], Listens(d)) => d # c /\ l = "command" /\ q = request[d].from
      BY <1>5 DEF IInv, FramesTrue
    <3> QED
      BY <1>2, <3>1, <3>2
  <2>2. Has(out'[q][l], Stops(d)) =>
          l = "command" /\ q = request'[d].from /\ caller'[d] # "waiting"
    <3>1. Has(out'[q][l], Stops(d)) => Has(out[q][l], Stops(d))
      BY <1>8, FramesDiffer
    <3>2. Has(out[q][l], Stops(d)) =>
            d # c /\ l = "command" /\ q = request[d].from /\ caller[d] # "waiting"
      BY <1>5 DEF IInv, FramesTrue
    <3> QED
      BY <1>2, <1>3, <3>1, <3>2
  <2>3. ASSUME NEW u \in Target, Has(out'[q][l], Asks(d, u))
        PROVE  l = AskLane /\ q = request'[d].from /\ u = request'[d].to /\ effect[d] = "none"
    <3>1. Has(out[q][l], Asks(d, u)) \/ (q = p /\ l = AskLane /\ d = c /\ u = t)
      BY <1>8, <2>3, FramesDiffer
    <3>2. Has(out[q][l], Asks(d, u)) =>
            /\ d # c
            /\ l = AskLane /\ q = request[d].from /\ u = request[d].to /\ effect[d] = "none"
      BY <1>5 DEF IInv, FramesTrue
    <3> QED
      BY <1>2, <1>5, <3>1, <3>2
  <2>4. ASSUME NEW o \in Outcome, Has(out'[q][l], Answers(d, o))
        PROVE  effect[d] = o
    <3>1. Has(out[q][l], Answers(d, o))
      BY <1>8, <2>4, FramesDiffer
    <3> QED
      BY <3>1 DEF IInv, FramesTrue
  <2> QED
    BY <2>1, <2>2, <2>3, <2>4
<1>12. FramesOnce'
  <2>1. \A q \in Process, l \in Lane : \A e :
          Once(out[q][l], e) /\ (e \in {Listens(c), Asks(c, t)} => ~Has(out[q][l], e))
            => Once(out'[q][l], e)
    BY <1>4 DEF AddsCall
  <2>2. ASSUME NEW q \in Process, NEW l \in Lane, NEW d \in Call
        PROVE  /\ Once(out'[q][l], Listens(d)) /\ Once(out'[q][l], Stops(d))
               /\ \A u \in Target : Once(out'[q][l], Asks(d, u))
    BY <1>5, <2>1 DEF IInv, FramesOnce
  <2> QED
    BY <2>2 DEF FramesOnce
<1>13. MessagesTrue'
  <2>1. ASSUME NEW q \in Process, NEW d \in Call, NEW u \in Process
        PROVE  /\ Once(inbox[q], Asked(d, u))
               /\ Has(inbox[q], Asked(d, u)) =>
                    /\ q = u /\ u = request'[d].to /\ effect[d] = "none"
                    /\ \A r \in Process, l \in Lane : ~Has(out'[r][l], Asks(d, u))
    <3>1. d # c => \A r \in Process, l \in Lane :
            Has(out'[r][l], Asks(d, u)) => Has(out[r][l], Asks(d, u))
      BY <1>8, FramesDiffer
    <3>2. Has(inbox[q], Asked(d, u)) => d # c
      BY <1>5
    <3>3. /\ Once(inbox[q], Asked(d, u))
          /\ Has(inbox[q], Asked(d, u)) =>
               /\ q = u /\ u = request[d].to /\ effect[d] = "none"
               /\ \A r \in Process, l \in Lane : ~Has(out[r][l], Asks(d, u))
      BY DEF IInv, MessagesTrue
    <3> QED
      BY <1>2, <3>1, <3>2, <3>3
  <2> QED
    BY <1>6, <2>1 DEF IInv, MessagesTrue
<1>14. ChannelsTrue'
  <2>1. ASSUME NEW q \in Process, NEW d \in Call
        PROVE  /\ <<ResponseChannel(d), q>> \in subscribers => q = request'[d].from
               /\ ResponseChannel(d) \in listening'[q] <=>
                    caller'[d] = "waiting" /\ q = request'[d].from
    <3>1. ResponseChannel(d) = ResponseChannel(c) => d = c
      BY DEF ResponseChannel
    <3>2. /\ <<ResponseChannel(d), q>> \in subscribers => q = request[d].from
          /\ ResponseChannel(d) \in listening[q] <=> caller[d] = "waiting" /\ q = request[d].from
      BY DEF IInv, ChannelsTrue
    <3>3. CASE d = c
      BY <1>1, <1>2, <1>3, <1>5, <1>7, <3>2, <3>3
    <3>4. CASE d # c
      <4>1. request'[d] = request[d] /\ caller'[d] = caller[d]
        BY <1>2, <1>3, <3>4
      <4>2. ResponseChannel(d) \in listening'[q] <=> ResponseChannel(d) \in listening[q]
        BY <1>7, <3>1, <3>4
      <4> QED
        BY ONLY <3>2, <4>1, <4>2
    <3> QED
      BY <3>3, <3>4
  <2> QED
    BY <1>6, <2>1 DEF IInv, ChannelsTrue
<1>15. ASSUME NEW d \in Call, d # c, request[d].from \in Process
       PROVE  /\ Has(out'[request[d].from]["command"], Listens(d)) <=>
                   Has(out[request[d].from]["command"], Listens(d))
              /\ Has(out'[request[d].from]["command"], Stops(d)) <=>
                   Has(out[request[d].from]["command"], Stops(d))
              /\ Before(out'[request[d].from]["command"], Listens(d), Stops(d)) <=>
                   Before(out[request[d].from]["command"], Listens(d), Stops(d))
  <2>1. Listens(d) # Listens(c) /\ Stops(d) \notin {Listens(c), Asks(c, t)} /\ Listens(d) # Asks(c, t)
    BY <1>15, FramesDiffer
  <2> QED
    BY <1>4, <1>15, <2>1 DEF AddsCall, Lane
<1>16. SubscriptionsTrue'
  <2> SUFFICES ASSUME NEW d \in Call, request'[d].from \in alive
      PROVE  LET q == out'[request'[d].from]["command"]
                 s == <<ResponseChannel(d), request'[d].from>> \in subscribers
             IN  /\ caller'[d] = "waiting" => s \/ Has(q, Listens(d))
                 /\ caller'[d] # "waiting" =>
                      /\ s => Has(q, Stops(d))
                      /\ Has(q, Listens(d)) => Before(q, Listens(d), Stops(d))
    BY <1>6 DEF SubscriptionsTrue, Subscribed
  <2>1. CASE d = c
    <3>1. Has(out'[p]["command"], Listens(c))
      BY <1>4 DEF AddsCall, Lane
    <3> QED
      BY <1>2, <1>3, <2>1, <3>1
  <2>2. CASE d # c
    <3>1. request[d].from = request'[d].from /\ request[d].from \in Process /\ caller'[d] = caller[d]
      BY <1>2, <1>3, <2>2 DEF IInv, Typed, TypeOK, BusTypeOK
    <3> QED
      BY <1>15, <2>2, <3>1 DEF IInv, SubscriptionsTrue, Subscribed
  <2> QED
    BY <2>1, <2>2
<1>17. ListensFirst'
  <2> SUFFICES ASSUME NEW d \in Call, ~redis, caller'[d] = "waiting"
      PROVE  \/ <<ResponseChannel(d), request'[d].from>> \in subscribers
             \/ Before(out'[request'[d].from]["command"], Listens(d), Asks(d, request'[d].to))
    BY <1>6 DEF ListensFirst, Subscribed
  <2>1. CASE d = c
    <3>1. Before(out'[p]["command"], Listens(c), Asks(c, t))
      BY <1>4 DEF AddsCall, Lane, AskLane
    <3> QED
      BY <1>2, <2>1, <3>1
  <2>2. CASE d # c
    <3>1. request[d].from = request'[d].from /\ request[d].to = request'[d].to
          /\ request[d].from \in Process /\ caller[d] = "waiting"
      BY <1>2, <1>3, <2>2 DEF IInv, CallsMade
    <3>2. Before(out[request[d].from]["command"], Listens(d), Asks(d, request[d].to)) =>
            Before(out'[request[d].from]["command"], Listens(d), Asks(d, request[d].to))
      BY <1>4, <2>2, <3>1, FramesDiffer DEF AddsCall, Lane
    <3> QED
      BY <3>1, <3>2 DEF IInv, ListensFirst, Subscribed
  <2> QED
    BY <2>1, <2>2
<1>18. MasterAsked'
  <2> SUFFICES ASSUME NEW d \in Call, request'[d].to = Master, request'[d].from \in alive,
                      effect[d] = "none"
      PROVE  Has(out'[request'[d].from]["command"], Asks(d, Master))
    BY <1>6 DEF MasterAsked
  <2>1. CASE d = c
    <3>1. Has(out'[p]["command"], Asks(c, t)) /\ t = Master
      BY <1>1, <1>2, <1>4, <2>1 DEF AddsCall, Lane, AskLane
    <3> QED
      BY <1>2, <2>1, <3>1
  <2>2. CASE d # c
    <3>1. request[d] = request'[d] /\ request[d].from \in Process
      BY <1>2, <2>2 DEF IInv, Typed, TypeOK, BusTypeOK
    <3> QED
      BY <1>6, <1>8, <3>1 DEF IInv, MasterAsked, Lane
  <2> QED
    BY <2>1, <2>2
<1>19. AskedInOrder'
  <2> SUFFICES ASSUME NEW d \in Call, NEW e \in Call, d < e,
                      request'[d].from = request'[e].from,
                      request'[d].to = Master, request'[e].to = Master,
                      Has(out'[request'[e].from]["command"], Asks(e, Master)), effect[d] = "none"
      PROVE  Before(out'[request'[e].from]["command"], Asks(d, Master), Asks(e, Master))
    BY <1>6 DEF AskedInOrder
  <2>1. CASE e = c
    <3>1. d # c /\ request'[d] = request[d] /\ request[d].from = p /\ t = Master
      BY <1>2, <2>1 DEF Call
    <3>2. Has(out[p]["command"], Asks(d, Master))
      BY <1>1, <3>1 DEF IInv, MasterAsked
    <3>3. AskLane = "command" /\ AskLane \in Lane
      BY <1>1, <3>1 DEF AskLane, Lane
    <3> QED
      BY <1>2, <1>4, <2>1, <3>1, <3>2, <3>3 DEF AddsCall
  <2>2. CASE e # c
    <3>1. caller[e] # "idle" /\ request'[e] = request[e]
      BY <1>2, <2>2, MasterDiffers DEF IInv, CallsMade
    <3>2. d # c
      BY <1>1, <3>1 DEF IInv, CallsMade
    <3>3. request'[d] = request[d] /\ request[e].from \in Process
      BY <1>2, <3>1, <3>2 DEF IInv, CallsMade
    <3>4. /\ Has(out[request[e].from]["command"], Asks(e, Master))
          /\ Before(out[request[e].from]["command"], Asks(d, Master), Asks(e, Master)) =>
               Before(out'[request[e].from]["command"], Asks(d, Master), Asks(e, Master))
      BY <1>4, <1>8, <2>2, <3>1, <3>3, FramesDiffer DEF AddsCall, Lane
    <3> QED
      BY <3>1, <3>3, <3>4 DEF IInv, AskedInOrder
  <2> QED
    BY <2>1, <2>2
<1>20. CacheInOrder'
  <2> SUFFICES ASSUME NEW d \in Call, NEW e \in Call, d < e,
                      request'[d].from = request'[e].from,
                      request'[d].to = Master, request'[e].to = Master, effect[e] # "none"
      PROVE  effect[d] # "none"
    BY <1>6 DEF CacheInOrder
  <2>1. e # c /\ caller[e] # "idle"
    BY <1>5 DEF IInv, CallsMade
  <2>2. d # c
    BY <1>1, <2>1 DEF IInv, CallsMade
  <2> QED
    BY <1>2, <2>1, <2>2 DEF IInv, CacheInOrder
<1> QED
  BY <1>9, <1>10, <1>11, <1>12, <1>13, <1>14, <1>16, <1>17, <1>18, <1>19, <1>20 DEF IInv


-----------------------------------------------------------------------------
(* Messages are taken. *)

\* A step that sends nothing and tells nobody anything.
Idles ==
    /\ Leaves
    /\ handlers' \subseteq Process
    /\ \A p \in Process \ alive : inbox'[p] = <<>>
    /\ UNCHANGED <<alive, redis, up, out, subscribers, listening, request, caller, effect, store>>

LEMMA IdleKeeps ==
    ASSUME IInv, Idles
    PROVE  IInv'
<1>1. Typed'
  <2>1. BusTypeOK(Channel)'
    BY DEF IInv, Typed, TypeOK, BusTypeOK, Idles, Channel, Call, RequestChannel, ResponseChannel
  <2>2. TypeOK'
    BY <2>1 DEF IInv, Typed, TypeOK, Idles
  <2> QED
    BY <2>2 DEF IInv, Typed, Idles, Leaves, InTypedAfter
<1>2. CallsMade'
  BY DEF IInv, CallsMade, Idles
<1>3. FramesTrue' /\ FramesOnce'
  BY DEF IInv, FramesTrue, FramesOnce, AskLane, Idles
<1>4. MessagesTrue'
  BY DEF IInv, MessagesTrue, Idles, Leaves
<1>5. ChannelsTrue'
  BY DEF IInv, ChannelsTrue, Idles
<1>6. SubscriptionsTrue' /\ ListensFirst'
  BY DEF IInv, SubscriptionsTrue, ListensFirst, Subscribed, Idles
<1>7. MasterAsked' /\ AskedInOrder' /\ CacheInOrder'
  BY DEF IInv, MasterAsked, AskedInOrder, CacheInOrder, Idles
<1> QED
  BY <1>1, <1>2, <1>3, <1>4, <1>5, <1>6, <1>7 DEF IInv

LEMMA RegisterKeeps ==
    ASSUME IInv, NEW p \in Process, RegisterHandlers(p)
    PROVE  IInv'
<1>1. handlers' \subseteq Process
  BY DEF RegisterHandlers, IInv, Typed, TypeOK
<1>2. UNCHANGED <<alive, redis, up, out, subscribers, listening, inbox, request, caller, effect, store>>
  BY DEF RegisterHandlers, busVars
<1>3. Leaves /\ \A q \in Process \ alive : inbox'[q] = <<>>
  BY <1>2 DEF Leaves, InTypedAfter, IInv, Typed, TypeOK, BusTypeOK
<1> QED
  BY <1>1, <1>2, <1>3, IdleKeeps DEF Idles

LEMMA DropKeeps ==
    ASSUME IInv, NEW p \in Process, DropMessage(p)
    PROVE  IInv'
<1>1. Leaves
  BY ReceiveEffect DEF DropMessage, IInv, Typed, InTyped
<1>2. \A q \in Process \ alive : inbox'[q] = <<>>
  BY DEF DropMessage, Receives, IInv, Typed, TypeOK, BusTypeOK
<1> QED
  BY <1>1, <1>2, IdleKeeps DEF Idles, DropMessage, Receives, Silent, IInv, Typed, TypeOK

\* A request that is received is one of a call that is made and not taken up.
LEMMA RequestTold ==
    ASSUME IInv, NEW p \in Process, TakeRequest(p)
    PROVE  \E c \in Call :
             /\ Received(p) = Asked(c, p) /\ Received(p).data = c
             /\ effect[c] = "none" /\ caller[c] # "idle"
<1>1. Received(p) \in Message /\ Has(inbox[p], Received(p))
  BY ReceiveEffect DEF TakeRequest, IInv, Typed, InTyped
<1>2. ASSUME NEW c \in Call, NEW o \in Outcome, Received(p) = Answered(c, o)
      PROVE  FALSE
  BY <1>2 DEF TakeRequest, Answered, RequestChannel, ResponseChannel
<1>3. ASSUME NEW c \in Call, NEW t \in Process, Received(p) = Asked(c, t)
      PROVE  t = p
  BY <1>3 DEF TakeRequest, Asked, RequestChannel
<1>4. PICK c \in Call : Received(p) = Asked(c, p)
  BY <1>1, <1>2, <1>3 DEF Message
<1>5. Received(p).data = c
  BY <1>4 DEF Asked
<1>6. request[c].to = p /\ effect[c] = "none"
  BY <1>1, <1>4 DEF IInv, MessagesTrue
<1>7. caller[c] # "idle"
  BY <1>6, MasterDiffers DEF IInv, CallsMade
<1> QED
  BY <1>4, <1>5, <1>6, <1>7

\* A request that is taken up is the only one of its call, in whatever queue.
LEMMA TakeRequestKeeps ==
    ASSUME IInv, NEW p \in Process, TakeRequest(p)
    PROVE  IInv'
<1>1. InTyped /\ Receives(p)
  BY DEF TakeRequest, IInv, Typed, InTyped
<1>2. /\ Leaves /\ Received(p) \in Message /\ Has(inbox[p], Received(p))
      /\ Once(inbox[p], Received(p)) => ~Has(inbox'[p], Received(p))
  BY <1>1, ReceiveEffect
<1>3. \A q \in Process \ alive : inbox'[q] = <<>>
  BY <1>1 DEF Receives, IInv, Typed, TypeOK, BusTypeOK
<1>4. UNCHANGED <<alive, redis, up, out, subscribers, listening, handlers, request, caller, store>>
  BY <1>1 DEF TakeRequest, Receives, Silent
<1>5. CASE p \notin handlers
  BY <1>2, <1>3, <1>4, <1>5, IdleKeeps DEF Idles, TakeRequest, IInv, Typed, TypeOK
<1>6. CASE p \in handlers
  <2>1. PICK c \in Call :
           /\ Received(p) = Asked(c, p) /\ Received(p).data = c
           /\ effect[c] = "none" /\ caller[c] # "idle"
    BY RequestTold
  <2>2. effect' = [effect EXCEPT ![c] = "running"]
    BY <1>6, <2>1 DEF TakeRequest
  <2>3. /\ request[c].to = p /\ effect[c] = "none"
        /\ \A q \in Process, l \in Lane : ~Has(out[q][l], Asks(c, p))
        /\ ~Has(inbox'[p], Asked(c, p))
    BY <1>2, <2>1 DEF IInv, MessagesTrue
  <2>4. p \in Target /\ p # Master
    BY MasterDiffers DEF Target
  <2>5. /\ effect'[c] = "running"
        /\ effect' \in [Call -> {"none", "running", "done", "failed"}]
        /\ \A d \in Call : d # c => effect'[d] = effect[d]
    BY <2>2 DEF IInv, Typed, TypeOK
  <2>6. \A q \in Process, l \in Lane, t \in Target : ~Has(out[q][l], Asks(c, t))
    BY <2>3, <2>4 DEF IInv, FramesTrue
  <2>7. \A q \in Process, t \in Process : ~Has(inbox'[q], Asked(c, t))
    BY <1>2, <2>3 DEF IInv, MessagesTrue, Leaves
  <2>8. Typed'
    <3>1. BusTypeOK(Channel)'
      BY <1>3, <1>4 DEF IInv, Typed, TypeOK, BusTypeOK, Channel, Call, RequestChannel, ResponseChannel
    <3>2. TypeOK'
      BY <1>4, <2>5, <3>1 DEF IInv, Typed, TypeOK
    <3> QED
      BY <1>2, <1>4, <3>2 DEF IInv, Typed, Leaves, InTypedAfter
  <2>9. CallsMade'
    BY <1>4, <2>1, <2>5 DEF IInv, CallsMade
  <2>10. FramesTrue' /\ FramesOnce'
    <3>1. ASSUME NEW q \in Process, NEW l \in Lane, NEW d \in Call
          PROVE  /\ \A t \in Target : Has(out[q][l], Asks(d, t)) => effect'[d] = "none"
                 /\ \A o \in Outcome : Has(out[q][l], Answers(d, o)) => effect'[d] = o
      BY <2>3, <2>5, <2>6 DEF IInv, FramesTrue, Outcome
    <3> QED
      BY <1>4, <3>1 DEF IInv, FramesTrue, FramesOnce, AskLane
  <2>11. MessagesTrue'
    <3>1. ASSUME NEW q \in Process, NEW d \in Call
          PROVE  /\ \A t \in Process : Has(inbox'[q], Asked(d, t)) =>
                      /\ q = t /\ t = request[d].to /\ effect'[d] = "none"
                      /\ \A r \in Process, l \in Lane : ~Has(out[r][l], Asks(d, t))
                 /\ \A t \in Process : Once(inbox'[q], Asked(d, t))
                 /\ \A o \in Outcome : Has(inbox'[q], Answered(d, o)) => effect'[d] = o
      <4>1. /\ \A t \in Process : Has(inbox[q], Asked(d, t)) =>
                 /\ q = t /\ t = request[d].to /\ effect[d] = "none"
                 /\ \A r \in Process, l \in Lane : ~Has(out[r][l], Asks(d, t))
            /\ \A t \in Process : Once(inbox[q], Asked(d, t))
            /\ \A o \in Outcome : Has(inbox[q], Answered(d, o)) => effect[d] = o
        BY DEF IInv, MessagesTrue
      <4>2. \A e : (Has(inbox'[q], e) => Has(inbox[q], e)) /\ (Once(inbox[q], e) => Once(inbox'[q], e))
        BY <1>2 DEF Leaves
      <4>3. ASSUME NEW o \in Outcome, Has(inbox'[q], Answered(d, o))
            PROVE  effect'[d] = o
        BY <2>3, <2>5, <4>1, <4>2, <4>3 DEF Outcome
      <4>4. ASSUME NEW t \in Process, Has(inbox'[q], Asked(d, t))
            PROVE  /\ q = t /\ t = request[d].to /\ effect'[d] = "none"
                   /\ \A r \in Process, l \in Lane : ~Has(out[r][l], Asks(d, t))
        BY <2>5, <2>7, <4>1, <4>2, <4>4
      <4> QED
        BY <4>1, <4>2, <4>3, <4>4
    <3> QED
      BY <1>4, <3>1 DEF MessagesTrue
  <2>12. ChannelsTrue'
    BY <1>4 DEF IInv, ChannelsTrue
  <2>13. SubscriptionsTrue' /\ ListensFirst'
    BY <1>4 DEF IInv, SubscriptionsTrue, ListensFirst, Subscribed
  <2>14. MasterAsked' /\ AskedInOrder' /\ CacheInOrder'
    BY <1>4, <2>3, <2>4, <2>5 DEF IInv, MasterAsked, AskedInOrder, CacheInOrder
  <2> QED
    BY <2>8, <2>9, <2>10, <2>11, <2>12, <2>13, <2>14 DEF IInv
<1> QED
  BY <1>5, <1>6

-----------------------------------------------------------------------------
(* The outcome of a handler is published. *)

LEMMA HandlerKeeps ==
    ASSUME IInv, NEW c \in Call, NEW o \in Outcome, HandlerDone(c, o)
    PROVE  IInv'
<1> DEFINE p == request[c].to
<1>1. p \in Process /\ p # Master /\ effect[c] = "running"
  BY MasterDiffers DEF HandlerDone, IInv, Typed, TypeOK, BusTypeOK
<1>2. Adds(p, Answers(c, o))
  <2>1. Answers(c, o) \in Frame /\ LaneOf(Answers(c, o)) \in Lane
    BY FrameKinds DEF Target
  <2> QED
    BY <1>1, <2>1, SendEffect DEF HandlerDone, Answers, IInv, Typed, OutTyped
<1>3. /\ effect'[c] = o
      /\ effect' \in [Call -> {"none", "running", "done", "failed"}]
      /\ \A d \in Call : d # c => effect'[d] = effect[d]
  BY DEF HandlerDone, IInv, Typed, TypeOK, Outcome
<1>4. UNCHANGED <<alive, redis, up, subscribers, listening, inbox, handlers, request, caller, store>>
  BY DEF HandlerDone
<1>5. \A q \in Process, l \in Lane : \A e :
        /\ Has(out'[q][l], e) => Has(out[q][l], e) \/ e = Answers(c, o)
        /\ e # Answers(c, o) =>
             /\ Has(out[q][l], e) => Has(out'[q][l], e)
             /\ Once(out[q][l], e) => Once(out'[q][l], e)
        /\ \A g : g # Answers(c, o) => (Before(out'[q][l], e, g) <=> Before(out[q][l], e, g))
  BY <1>2 DEF Adds
<1>6. \A d \in Call : effect'[d] = "none" <=> effect[d] = "none"
  BY <1>1, <1>3 DEF Outcome
<1>7. Typed'
  <2>1. BusTypeOK(Channel)'
    BY <1>4 DEF IInv, Typed, TypeOK, BusTypeOK, Channel, Call, RequestChannel, ResponseChannel
  <2>2. TypeOK'
    BY <1>3, <1>4, <2>1 DEF IInv, Typed, TypeOK
  <2> QED
    BY <1>2, <1>4, <2>2 DEF IInv, Typed, Adds, OutTypedAfter
<1>8. CallsMade'
  BY <1>4, <1>6 DEF IInv, CallsMade
<1>9. FramesTrue'
  <2>1. ASSUME NEW q \in Process, NEW l \in Lane, NEW d \in Call
        PROVE  /\ Has(out'[q][l], Listens(d)) => l = "command" /\ q = request[d].from
               /\ Has(out'[q][l], Stops(d)) =>
                    l = "command" /\ q = request[d].from /\ caller[d] # "waiting"
    <3>1. /\ Has(out'[q][l], Listens(d)) => Has(out[q][l], Listens(d))
          /\ Has(out'[q][l], Stops(d)) => Has(out[q][l], Stops(d))
      BY <1>5, FramesDiffer
    <3> QED
      BY <3>1 DEF IInv, FramesTrue
  <2>2. ASSUME NEW q \in Process, NEW l \in Lane, NEW d \in Call, NEW t \in Target,
               Has(out'[q][l], Asks(d, t))
        PROVE  l = AskLane /\ q = request[d].from /\ t = request[d].to /\ effect'[d] = "none"
    BY <1>5, <1>6, <2>2, FramesDiffer DEF IInv, FramesTrue
  <2>3. ASSUME NEW q \in Process, NEW l \in Lane, NEW d \in Call, NEW n \in Outcome,
               Has(out'[q][l], Answers(d, n))
        PROVE  effect'[d] = n
    <3>1. CASE Answers(d, n) = Answers(c, o)
      BY <1>3, <3>1, FramesDiffer
    <3>2. CASE Answers(d, n) # Answers(c, o)
      <4>1. effect[d] = n
        BY <1>5, <2>3, <3>2 DEF IInv, FramesTrue
      <4> QED
        BY <1>1, <1>3, <4>1 DEF Outcome
    <3> QED
      BY <3>1, <3>2
  <2> QED
    BY <1>4, <2>1, <2>2, <2>3 DEF FramesTrue, AskLane
<1>10. FramesOnce'
  <2>1. ASSUME NEW q \in Process, NEW l \in Lane, NEW d \in Call
        PROVE  /\ Once(out'[q][l], Listens(d)) /\ Once(out'[q][l], Stops(d))
               /\ \A t \in Target : Once(out'[q][l], Asks(d, t))
    BY <1>5, FramesDiffer DEF IInv, FramesOnce
  <2> QED
    BY <2>1 DEF FramesOnce
<1>11. MessagesTrue'
  <2>1. ASSUME NEW q \in Process, NEW d \in Call
        PROVE  /\ \A t \in Process : Has(inbox[q], Asked(d, t)) =>
                    /\ q = t /\ t = request[d].to /\ effect'[d] = "none"
                    /\ \A r \in Process, l \in Lane : ~Has(out'[r][l], Asks(d, t))
               /\ \A n \in Outcome : Has(inbox[q], Answered(d, n)) => effect'[d] = n
    <3>1. ASSUME NEW t \in Process, Has(inbox[q], Asked(d, t))
          PROVE  /\ q = t /\ t = request[d].to /\ effect'[d] = "none"
                 /\ \A r \in Process, l \in Lane : ~Has(out'[r][l], Asks(d, t))
      BY <1>5, <1>6, <3>1, FramesDiffer DEF IInv, MessagesTrue
    <3>2. ASSUME NEW n \in Outcome, Has(inbox[q], Answered(d, n))
          PROVE  effect'[d] = n
      BY <1>1, <1>3, <3>2 DEF IInv, MessagesTrue, Outcome
    <3> QED
      BY <3>1, <3>2
  <2> QED
    BY <1>4, <2>1 DEF IInv, MessagesTrue
<1>12. ChannelsTrue'
  BY <1>4 DEF IInv, ChannelsTrue
<1>13. \A d \in Call : request[d].from \in alive => request[d].from \in Process
  BY DEF IInv, Typed, TypeOK, BusTypeOK
<1>14. SubscriptionsTrue'
  <2>1. ASSUME NEW q \in Process, NEW d \in Call
        PROVE  /\ Has(out'[q]["command"], Listens(d)) <=> Has(out[q]["command"], Listens(d))
               /\ Has(out[q]["command"], Stops(d)) => Has(out'[q]["command"], Stops(d))
               /\ Before(out[q]["command"], Listens(d), Stops(d)) =>
                    Before(out'[q]["command"], Listens(d), Stops(d))
    BY <1>5, FramesDiffer DEF Lane
  <2> QED
    BY <1>4, <1>13, <2>1 DEF IInv, SubscriptionsTrue, Subscribed
<1>15. ListensFirst'
  <2>1. ASSUME NEW q \in Process, NEW d \in Call, NEW t
        PROVE  Before(out[q]["command"], Listens(d), Asks(d, t)) =>
                 Before(out'[q]["command"], Listens(d), Asks(d, t))
    BY <1>5, FramesDiffer DEF Lane
  <2>2. \A d \in Call : caller[d] = "waiting" => request[d].from \in Process
    BY DEF IInv, CallsMade
  <2> QED
    BY <1>4, <2>1, <2>2 DEF IInv, ListensFirst, Subscribed
<1>16. MasterAsked' /\ AskedInOrder' /\ CacheInOrder'
  <2>1. ASSUME NEW q \in Process, NEW d
        PROVE  /\ Has(out'[q]["command"], Asks(d, Master)) <=> Has(out[q]["command"], Asks(d, Master))
               /\ \A e : Before(out[q]["command"], e, Asks(d, Master)) =>
                         Before(out'[q]["command"], e, Asks(d, Master))
    BY <1>5, FramesDiffer DEF Lane
  <2>2. \A d \in Call : request[d].to = Master => request[d].from \in Process
    BY MasterDiffers DEF IInv, CallsMade
  <2>3. MasterAsked'
    BY <1>4, <1>6, <1>13, <2>1 DEF IInv, MasterAsked
  <2>4. AskedInOrder'
    BY <1>4, <1>6, <2>1, <2>2 DEF IInv, AskedInOrder
  <2>5. CacheInOrder'
    BY <1>4, <1>6 DEF IInv, CacheInOrder
  <2> QED
    BY <2>3, <2>4, <2>5
<1> QED
  BY <1>7, <1>8, <1>9, <1>10, <1>11, <1>12, <1>14, <1>15, <1>16 DEF IInv


-----------------------------------------------------------------------------
(* The bus takes a frame. *)

\* Fewer frames are on their way.
LEMMA FramesFewer ==
    ASSUME FramesTrue, UNCHANGED <<redis, request, caller, effect>>,
           \A q \in Process, l \in Lane : \A e : Has(out'[q][l], e) => Has(out[q][l], e)
    PROVE  FramesTrue'
<1> SUFFICES ASSUME NEW q \in Process, NEW l \in Lane, NEW c \in Call
    PROVE  /\ Has(out'[q][l], Listens(c)) => l = "command" /\ q = request[c].from
           /\ Has(out'[q][l], Stops(c)) =>
                l = "command" /\ q = request[c].from /\ caller[c] # "waiting"
           /\ \A t \in Target : Has(out'[q][l], Asks(c, t)) =>
                l = AskLane /\ q = request[c].from /\ t = request[c].to /\ effect[c] = "none"
           /\ \A o \in Outcome : Has(out'[q][l], Answers(c, o)) => effect[c] = o
  BY DEF FramesTrue, AskLane
<1> QED
  BY DEF FramesTrue

\* What the bus takes is a frame of a call, by its kind.
LEMMA FrameCases ==
    ASSUME NEW f \in Frame
    PROVE  \/ \E c \in Call : f = Listens(c) /\ f.event = "subscribe" /\ f.channel = ResponseChannel(c)
           \/ \E c \in Call : f = Stops(c) /\ f.event = "unsubscribe" /\ f.channel = ResponseChannel(c)
           \/ \E c \in Call, t \in Target :
                f = Asks(c, t) /\ f.event = "publish" /\ f.channel = RequestChannel(t) /\ f.data = c
           \/ \E c \in Call, o \in Outcome :
                f = Answers(c, o) /\ f.event = "publish" /\ f.channel = ResponseChannel(c) /\ f.data = o
<1>1. CASE \E c \in Call : f = Listens(c)
  BY <1>1 DEF Listens, Subscribe
<1>2. CASE \E c \in Call : f = Stops(c)
  BY <1>2 DEF Stops, Unsubscribe
<1>3. CASE \E c \in Call, t \in Target : f = Asks(c, t)
  BY <1>3 DEF Asks, Publish
<1>4. CASE \E c \in Call, o \in Outcome : f = Answers(c, o)
  BY <1>4 DEF Answers, Publish
<1> QED
  BY <1>1, <1>2, <1>3, <1>4 DEF Frame

\* The taken frame is not on its way any more, on any connection.
LEMMA TakenGone ==
    ASSUME IInv, NEW p \in Process, NEW l \in Lane, NEW f \in Frame, Takes(p, l, f)
    PROVE  /\ \A c \in Call : f \in {Listens(c), Stops(c)} =>
                p = request[c].from /\ l = "command" /\ ~Has(out'[p]["command"], f)
           /\ \A c \in Call, t \in Target : f = Asks(c, t) =>
                /\ p = request[c].from /\ t = request[c].to /\ effect[c] = "none"
                /\ \A q \in Process, k \in Lane, u \in Target : ~Has(out'[q][k], Asks(c, u))
<1>1. Has(out[p][l], f) /\ (Once(out[p][l], f) => ~Has(out'[p][l], f))
  BY DEF Takes
<1>2. \A q \in Process, k \in Lane : \A e : Has(out'[q][k], e) => Has(out[q][k], e)
  BY DEF Takes
<1>3. ASSUME NEW c \in Call, f \in {Listens(c), Stops(c)}
      PROVE  p = request[c].from /\ l = "command" /\ ~Has(out'[p]["command"], f)
  BY <1>1, <1>3 DEF IInv, FramesTrue, FramesOnce
<1>4. ASSUME NEW c \in Call, NEW t \in Target, f = Asks(c, t)
      PROVE  /\ p = request[c].from /\ t = request[c].to /\ effect[c] = "none"
             /\ \A q \in Process, k \in Lane, u \in Target : ~Has(out'[q][k], Asks(c, u))
  <2>1. p = request[c].from /\ t = request[c].to /\ effect[c] = "none" /\ l = AskLane
    BY <1>1, <1>4 DEF IInv, FramesTrue
  <2>2. ~Has(out'[p][l], Asks(c, t))
    BY <1>1, <1>4 DEF IInv, FramesOnce
  <2>3. ASSUME NEW q \in Process, NEW k \in Lane, NEW u \in Target, Has(out'[q][k], Asks(c, u))
        PROVE  FALSE
    <3>1. Has(out[q][k], Asks(c, u))
      BY <1>2, <2>3
    <3>2. q = p /\ k = l /\ u = t
      BY <2>1, <3>1 DEF IInv, FramesTrue
    <3> QED
      BY <2>2, <2>3, <3>2
  <2> QED
    BY <2>1, <2>3
<1> QED
  BY <1>3, <1>4

\* The bus changes a subscription.
LEMMA ResubscribeKeeps ==
    ASSUME IInv, NEW p \in Process, NEW l \in Lane, NEW f \in Frame, Takes(p, l, f),
           f.event # "publish", Resubscribe(p, f),
           UNCHANGED <<alive, redis, listening, handlers, request, caller, effect, store>>
    PROVE  IInv'
<1>1. PICK c \in Call :
        /\ f.channel = ResponseChannel(c)
        /\ \/ f = Listens(c) /\ f.event = "subscribe"
           \/ f = Stops(c) /\ f.event = "unsubscribe"
  BY FrameCases
<1>2. p = request[c].from /\ l = "command" /\ ~Has(out'[p]["command"], f)
  BY <1>1, TakenGone
<1>3. /\ f = Listens(c) => subscribers' = subscribers \cup {<<ResponseChannel(c), p>>}
      /\ f = Stops(c) => subscribers' = subscribers \ {<<ResponseChannel(c), p>>}
      /\ UNCHANGED <<inbox, up>>
  BY <1>1, FramesDiffer DEF Resubscribe
<1>4. \A q \in Process, k \in Lane : \A e :
        /\ Has(out'[q][k], e) => Has(out[q][k], e)
        /\ e # f /\ Has(out[q][k], e) => Has(out'[q][k], e)
        /\ Once(out[q][k], e) => Once(out'[q][k], e)
        /\ \A g : Before(out[q][k], e, g) /\ Once(out[q][k], g) =>
             /\ Has(out'[q][k], g)
             /\ e # f => Before(out'[q][k], e, g)
             /\ q = p /\ k = l => f # g
  BY DEF Takes
<1>5. ResponseChannel(c) \in Channel /\ \A d \in Call : ResponseChannel(d) = ResponseChannel(c) => d = c
  BY DEF Channel, ResponseChannel
<1>6. \A d \in Call : \A t : Asks(d, t) # f
  BY <1>1, FramesDiffer
<1>7. Typed'
  <2>1. subscribers' \subseteq Channel \X Process
    BY <1>1, <1>3, <1>5 DEF IInv, Typed, TypeOK, BusTypeOK
  <2>2. BusTypeOK(Channel)'
    BY <1>3, <2>1 DEF IInv, Typed, TypeOK, BusTypeOK, Channel, Call, RequestChannel, ResponseChannel
  <2>3. TypeOK'
    BY <2>2 DEF IInv, Typed, TypeOK
  <2> QED
    BY <1>3, <2>3 DEF IInv, Typed, Takes, OutTypedAfter
<1>8. CallsMade' /\ CacheInOrder'
  BY DEF IInv, CallsMade, CacheInOrder
<1>9. FramesTrue' /\ FramesOnce'
  <2>1. FramesTrue'
    BY <1>4, FramesFewer DEF IInv
  <2>2. FramesOnce'
    BY <1>4 DEF IInv, FramesOnce
  <2> QED
    BY <2>1, <2>2
<1>10. MessagesTrue'
  <2>1. ASSUME NEW q \in Process, NEW d \in Call, NEW t \in Process
        PROVE  Has(inbox[q], Asked(d, t)) =>
                 /\ q = t /\ t = request[d].to /\ effect[d] = "none"
                 /\ \A r \in Process, k \in Lane : ~Has(out'[r][k], Asks(d, t))
    <3>1. Has(inbox[q], Asked(d, t)) =>
            /\ q = t /\ t = request[d].to /\ effect[d] = "none"
            /\ \A r \in Process, k \in Lane : ~Has(out[r][k], Asks(d, t))
      BY DEF IInv, MessagesTrue
    <3>2. \A r \in Process, k \in Lane : Has(out'[r][k], Asks(d, t)) => Has(out[r][k], Asks(d, t))
      BY <1>4
    <3> QED
      BY ONLY <3>1, <3>2
  <2>2. /\ \A q \in Process, d \in Call, t \in Process : Once(inbox[q], Asked(d, t))
        /\ \A q \in Process, d \in Call, o \in Outcome :
             Has(inbox[q], Answered(d, o)) => effect[d] = o
    BY DEF IInv, MessagesTrue
  <2> QED
    BY <1>3, <2>1, <2>2 DEF MessagesTrue
<1>11. ChannelsTrue'
  <2>1. \A t \in Target, d \in Call : RequestChannel(t) # ResponseChannel(d)
    BY DEF RequestChannel, ResponseChannel
  <2>2. \A q \in Process, t \in Target : <<RequestChannel(t), q>> \in subscribers' => t = q
    BY <1>1, <1>3, <2>1 DEF IInv, ChannelsTrue
  <2>3. \A q \in Process, d \in Call : <<ResponseChannel(d), q>> \in subscribers' => q = request[d].from
    BY <1>1, <1>2, <1>3, <1>5 DEF IInv, ChannelsTrue
  <2> QED
    BY <2>2, <2>3 DEF IInv, ChannelsTrue
<1>12. SubscriptionsTrue'
  <2> SUFFICES ASSUME NEW d \in Call, request[d].from \in alive
      PROVE  LET q == out'[request[d].from]["command"]
                 s == <<ResponseChannel(d), request[d].from>> \in subscribers'
             IN  /\ caller[d] = "waiting" => s \/ Has(q, Listens(d))
                 /\ caller[d] # "waiting" =>
                      /\ s => Has(q, Stops(d))
                      /\ Has(q, Listens(d)) => Before(q, Listens(d), Stops(d))
    BY DEF SubscriptionsTrue, Subscribed
  <2> DEFINE r == request[d].from
             q == out[r]["command"]
  <2>1. r \in Process /\ "command" \in Lane /\ Once(q, Stops(d))
    BY DEF IInv, Typed, TypeOK, BusTypeOK, FramesOnce, Lane
  <2>2. /\ caller[d] = "waiting" => Subscribed(d) \/ Has(q, Listens(d))
        /\ caller[d] # "waiting" =>
             /\ Subscribed(d) => Has(q, Stops(d))
             /\ Has(q, Listens(d)) => Before(q, Listens(d), Stops(d))
    BY DEF IInv, SubscriptionsTrue
  <2> HIDE DEF q
  <2>3. CASE d # c
    <3>1. Listens(d) # f /\ Stops(d) # f
      BY <1>1, <2>3, FramesDiffer
    <3>2. <<ResponseChannel(d), r>> \in subscribers' <=> Subscribed(d)
      BY <1>1, <1>3, <1>5, <2>3 DEF Subscribed
    <3> QED
      BY <1>4, <2>1, <2>2, <3>1, <3>2 DEF q
  <2>4. CASE d = c /\ f = Listens(c)
    <3>1. <<ResponseChannel(d), r>> \in subscribers' /\ ~Has(out'[r]["command"], Listens(d))
      BY <1>2, <1>3, <2>4
    <3>2. caller[d] # "waiting" => Has(out'[r]["command"], Stops(d))
      <4>1. Has(q, Listens(d))
        BY <1>2, <2>4 DEF Takes, q
      <4> QED
        BY <1>4, <2>1, <2>2, <4>1 DEF q
    <3> QED
      BY <3>1, <3>2
  <2>5. CASE d = c /\ f = Stops(c)
    <3>1. caller[d] # "waiting"
      BY <2>5 DEF Takes, IInv, FramesTrue
    <3>2. <<ResponseChannel(d), r>> \notin subscribers'
      BY <1>2, <1>3, <2>5
    <3>3. ~Has(out'[r]["command"], Listens(d))
      BY <1>2, <1>4, <2>1, <2>2, <2>5, <3>1 DEF q
    <3> QED
      BY <3>1, <3>2, <3>3
  <2> QED
    BY <1>1, <2>3, <2>4, <2>5
<1>13. ListensFirst'
  <2> SUFFICES ASSUME NEW d \in Call, ~redis, caller[d] = "waiting"
      PROVE  \/ <<ResponseChannel(d), request[d].from>> \in subscribers'
             \/ Before(out'[request[d].from]["command"], Listens(d), Asks(d, request[d].to))
    BY DEF ListensFirst, Subscribed
  <2>1. request[d].from \in Process /\ request[d].to \in Target /\ "command" \in Lane
    BY DEF IInv, CallsMade, Lane
  <2>2. Once(out[request[d].from]["command"], Asks(d, request[d].to))
    BY <2>1 DEF IInv, FramesOnce
  <2>3. CASE d = c
    <3>1. f # Stops(c)
      BY <2>3 DEF Takes, IInv, FramesTrue
    <3> QED
      BY <1>1, <1>2, <1>3, <2>3, <3>1
  <2>4. CASE d # c
    <3>1. Subscribed(d) \/ Before(out[request[d].from]["command"], Listens(d), Asks(d, request[d].to))
      BY DEF IInv, ListensFirst
    <3>2. f # Listens(d)
      BY <1>1, <2>4, FramesDiffer
    <3>3. Subscribed(d) => <<ResponseChannel(d), request[d].from>> \in subscribers'
      BY <1>1, <1>3, <1>5, <2>4 DEF Subscribed
    <3> QED
      BY <1>4, <2>1, <2>2, <3>1, <3>2, <3>3
  <2> QED
    BY <2>3, <2>4
<1>14. MasterAsked' /\ AskedInOrder'
  <2>1. \A d \in Call : request[d].to = Master => request[d].from \in Process
    BY MasterDiffers DEF IInv, CallsMade
  <2>2. \A q \in Process, d \in Call :
          /\ Has(out'[q]["command"], Asks(d, Master)) <=> Has(out[q]["command"], Asks(d, Master))
          /\ Once(out[q]["command"], Asks(d, Master))
          /\ \A e \in Call : Before(out[q]["command"], Asks(e, Master), Asks(d, Master)) =>
                      Before(out'[q]["command"], Asks(e, Master), Asks(d, Master))
    BY <1>4, <1>6 DEF IInv, FramesOnce, Lane, Target
  <2>3. MasterAsked'
    BY <2>1, <2>2 DEF IInv, MasterAsked
  <2>4. AskedInOrder'
    BY <2>1, <2>2 DEF IInv, AskedInOrder
  <2> QED
    BY <2>3, <2>4
<1> QED
  BY <1>7, <1>8, <1>9, <1>10, <1>11, <1>12, <1>13, <1>14 DEF IInv


\* The bus takes a publication: what does not depend on where it goes.
Published(p, l, f) ==
    /\ Takes(p, l, f)
    /\ f.event = "publish"
    /\ InTypedAfter
    /\ \A q \in Process \ alive : inbox'[q] = <<>>
    /\ up' \in BOOLEAN
    /\ store' \in Call \cup {None}
    /\ effect' \in [Call -> {"none", "running", "done", "failed"}]
    /\ UNCHANGED <<alive, redis, subscribers, listening, handlers, request, caller>>

LEMMA PublishedKeeps ==
    ASSUME IInv, NEW p \in Process, NEW l \in Lane, NEW f \in Frame, Published(p, l, f)
    PROVE  Typed' /\ FramesOnce' /\ ChannelsTrue' /\ SubscriptionsTrue' /\ ListensFirst'
<1>1. \A c \in Call : Listens(c) # f /\ Stops(c) # f
  BY DEF Published, Listens, Stops, Subscribe, Unsubscribe
<1>2. \A q \in Process, k \in Lane : \A e :
        /\ Has(out'[q][k], e) => Has(out[q][k], e)
        /\ e # f /\ Has(out[q][k], e) => Has(out'[q][k], e)
        /\ Once(out[q][k], e) => Once(out'[q][k], e)
        /\ \A g : Before(out[q][k], e, g) /\ Once(out[q][k], g) /\ e # f => Before(out'[q][k], e, g)
  <2>1. Takes(p, l, f)
    BY DEF Published
  <2> QED
    BY ONLY <2>1 DEF Takes
<1>3. Typed'
  <2>1. BusTypeOK(Channel)'
    BY DEF Published, IInv, Typed, TypeOK, BusTypeOK, Channel, Call, RequestChannel, ResponseChannel
  <2>2. TypeOK'
    BY <2>1 DEF Published, IInv, Typed, TypeOK
  <2> QED
    BY <2>2 DEF Published, Typed, Takes, OutTypedAfter, InTypedAfter
<1>4. FramesOnce'
  BY <1>2 DEF IInv, FramesOnce
<1>5. ChannelsTrue'
  BY DEF Published, IInv, ChannelsTrue
<1>6. SubscriptionsTrue'
  <2> SUFFICES ASSUME NEW d \in Call, request[d].from \in alive
      PROVE  LET q == out'[request[d].from]["command"]
             IN  /\ caller[d] = "waiting" => Subscribed(d) \/ Has(q, Listens(d))
                 /\ caller[d] # "waiting" =>
                      /\ Subscribed(d) => Has(q, Stops(d))
                      /\ Has(q, Listens(d)) => Before(q, Listens(d), Stops(d))
    BY DEF SubscriptionsTrue, Subscribed, Published
  <2>1. request[d].from \in Process /\ "command" \in Lane
    BY DEF IInv, Typed, TypeOK, BusTypeOK, Lane
  <2>2. Once(out[request[d].from]["command"], Stops(d))
    BY <2>1 DEF IInv, FramesOnce
  <2> QED
    BY <1>1, <1>2, <2>1, <2>2 DEF IInv, SubscriptionsTrue
<1>7. ListensFirst'
  <2> SUFFICES ASSUME NEW d \in Call, ~redis, caller[d] = "waiting"
      PROVE  \/ Subscribed(d)
             \/ Before(out'[request[d].from]["command"], Listens(d), Asks(d, request[d].to))
    BY DEF ListensFirst, Subscribed, Published
  <2>1. request[d].from \in Process /\ request[d].to \in Target /\ "command" \in Lane
    BY DEF IInv, CallsMade, Lane
  <2>2. Once(out[request[d].from]["command"], Asks(d, request[d].to))
    BY <2>1 DEF IInv, FramesOnce
  <2> QED
    BY <1>1, <1>2, <2>1, <2>2 DEF IInv, ListensFirst
<1> QED
  BY <1>3, <1>4, <1>5, <1>6, <1>7

LEMMA PassOnKeeps ==
    ASSUME IInv, NEW p \in Process, NEW l \in Lane, PassOn(p, l)
    PROVE  IInv'
<1> DEFINE f == NextOf(out[p][l])
<1>1. OutTyped /\ InTyped
  BY DEF IInv, Typed, OutTyped, InTyped
<1>2. Takes(p, l, f) /\ f \in Frame
  <2>1. out[p][l] # <<>> /\ out' = [out EXCEPT ![p][l] = Tail(@)]
    BY DEF PassOn, BusHandles
  <2>2. Takes(p, l, f)
    BY <1>1, <2>1, TakeEffect DEF NextOf
  <2> QED
    BY <2>2 DEF Takes
<1>3. UNCHANGED <<alive, redis, listening, handlers, request, caller, effect, store>>
  BY DEF PassOn, BusHandles
<1>4. /\ f.event # "publish" => Resubscribe(p, f)
      /\ f.event = "publish" => Deliver(f.channel, f.data) /\ UNCHANGED subscribers
      /\ f.channel # RequestChannel(Master)
  BY DEF PassOn, BusHandles, ForMaster
<1> HIDE DEF f
<1>5. CASE f.event # "publish"
  BY <1>2, <1>3, <1>4, <1>5, ResubscribeKeeps
<1>6. CASE f.event = "publish"
  <2> DEFINE m == [channel |-> f.channel, data |-> f.data]
             S == Reachable(f.channel)
  <2>1. PICK c \in Call :
          \/ \E t \in Process : f = Asks(c, t) /\ m = Asked(c, t)
          \/ \E o \in Outcome : f = Answers(c, o) /\ m = Answered(c, o)
    <3>1. ASSUME NEW c \in Call, NEW t \in Target, f = Asks(c, t),
                 f.channel = RequestChannel(t), f.data = c
          PROVE  t \in Process /\ m = Asked(c, t)
      BY <1>4, <3>1 DEF Asked, Target
    <3>2. ASSUME NEW c \in Call, NEW o \in Outcome, f = Answers(c, o),
                 f.channel = ResponseChannel(c), f.data = o
          PROVE  m = Answered(c, o)
      BY <3>2 DEF Answered
    <3> QED
      BY <1>2, <1>6, <3>1, <3>2, FrameCases
  <2>2. Arrives(m, S)
    <3>1. m \in Message
      BY <2>1 DEF Message
    <3> QED
      BY <1>1, <1>4, <1>6, <3>1, DeliverEffect
  <2>3. \A q \in Process \ alive : inbox'[q] = <<>>
    BY <1>4, <1>6 DEF Deliver, Reachable, IInv, Typed, TypeOK, BusTypeOK
  <2>4. \A t \in Process, d \in Call : m = Asked(d, t) => S \subseteq {t}
    <3>1. \A t \in Process, d \in Call : m = Asked(d, t) => f.channel = RequestChannel(t)
      BY DEF Asked
    <3> QED
      BY <3>1 DEF Reachable, Recipients, IInv, ChannelsTrue, Target
  <2> HIDE DEF m, S
  <2>5. Published(p, l, f)
    <3>1. up' \in BOOLEAN
      BY <1>4, <1>6 DEF Deliver, IInv, Typed, TypeOK, BusTypeOK
    <3> QED
      BY <1>2, <1>3, <1>4, <1>6, <2>2, <2>3, <3>1 DEF Published, Arrives, IInv, Typed, TypeOK
  <2>6. Typed' /\ FramesOnce' /\ ChannelsTrue' /\ SubscriptionsTrue' /\ ListensFirst'
    BY <1>2, <2>5, PublishedKeeps
  <2>7. CallsMade' /\ CacheInOrder'
    BY <1>3 DEF IInv, CallsMade, CacheInOrder
  <2>8. \A q \in Process, k \in Lane : \A e :
          /\ Has(out'[q][k], e) => Has(out[q][k], e)
          /\ e # f /\ Has(out[q][k], e) => Has(out'[q][k], e)
          /\ \A g : Before(out[q][k], e, g) /\ Once(out[q][k], g) /\ e # f => Before(out'[q][k], e, g)
    BY <1>2 DEF Takes
  <2>9. FramesTrue'
    BY <1>3, <2>8, FramesFewer DEF IInv
  <2>10. MessagesTrue'
    <3>1. ASSUME NEW d \in Call, NEW t \in Process, m = Asked(d, t)
          PROVE  /\ t = request[d].to /\ effect[d] = "none"
                 /\ \A r \in Process, k \in Lane : ~Has(out'[r][k], Asks(d, t))
                 /\ \A q \in Process : ~Has(inbox[q], Asked(d, t))
      <4>1. f = Asks(d, t) /\ t \in Target
        BY <2>1, <3>1, MessagesDiffer DEF Target
      <4>2. /\ t = request[d].to /\ effect[d] = "none"
            /\ \A r \in Process, k \in Lane : ~Has(out'[r][k], Asks(d, t))
        BY <1>2, <4>1, TakenGone
      <4>3. Has(out[p][l], Asks(d, t))
        BY <1>2, <4>1 DEF Takes
      <4>4. \A q \in Process : ~Has(inbox[q], Asked(d, t))
        BY <4>3 DEF IInv, MessagesTrue
      <4> QED
        BY <4>2, <4>4
    <3>2. ASSUME NEW d \in Call, NEW o \in Outcome, m = Answered(d, o)
          PROVE  effect[d] = o
      <4>1. f = Answers(d, o)
        BY <2>1, <3>2, MessagesDiffer
      <4> QED
        BY <1>2, <4>1 DEF Takes, IInv, FramesTrue
    <3>3. \A q \in Process : \A e :
            /\ Has(inbox'[q], e) <=> Has(inbox[q], e) \/ (q \in S /\ e = m)
            /\ Once(inbox[q], e) /\ (e = m => ~Has(inbox[q], e)) => Once(inbox'[q], e)
      BY <2>2 DEF Arrives
    <3>4. ASSUME NEW q \in Process, NEW d \in Call, NEW t \in Process
          PROVE  /\ Once(inbox'[q], Asked(d, t))
                 /\ Has(inbox'[q], Asked(d, t)) =>
                      /\ q = t /\ t = request[d].to /\ effect[d] = "none"
                      /\ \A r \in Process, k \in Lane : ~Has(out'[r][k], Asks(d, t))
      <4>1. /\ Once(inbox[q], Asked(d, t))
            /\ Has(inbox[q], Asked(d, t)) =>
                 /\ q = t /\ t = request[d].to /\ effect[d] = "none"
                 /\ \A r \in Process, k \in Lane : ~Has(out[r][k], Asks(d, t))
        BY DEF IInv, MessagesTrue
      <4>2. CASE m = Asked(d, t)
        BY <2>4, <3>1, <3>3, <4>1, <4>2
      <4>3. CASE m # Asked(d, t)
        BY <2>8, <3>3, <4>1, <4>3
      <4> QED
        BY <4>2, <4>3
    <3>5. ASSUME NEW q \in Process, NEW d \in Call, NEW o \in Outcome, Has(inbox'[q], Answered(d, o))
          PROVE  effect[d] = o
      BY <3>2, <3>3, <3>5 DEF IInv, MessagesTrue
    <3> QED
      BY <1>3, <3>4, <3>5 DEF MessagesTrue
  <2>11. MasterAsked' /\ AskedInOrder'
    <3>1. \A d \in Call : Asks(d, Master) # f
      BY <2>1, FramesDiffer, MasterDiffers
    <3>2. \A d \in Call : request[d].to = Master => request[d].from \in Process
      BY MasterDiffers DEF IInv, CallsMade
    <3>3. \A q \in Process, d \in Call :
            /\ Has(out'[q]["command"], Asks(d, Master)) <=> Has(out[q]["command"], Asks(d, Master))
            /\ Once(out[q]["command"], Asks(d, Master))
            /\ \A e \in Call : Before(out[q]["command"], Asks(e, Master), Asks(d, Master)) =>
                        Before(out'[q]["command"], Asks(e, Master), Asks(d, Master))
      BY <2>8, <3>1 DEF IInv, FramesOnce, Lane, Target
    <3>4. MasterAsked'
      BY <1>3, <3>2, <3>3 DEF IInv, MasterAsked
    <3>5. AskedInOrder'
      BY <1>3, <3>2, <3>3 DEF IInv, AskedInOrder
    <3> QED
      BY <3>4, <3>5
  <2> QED
    BY <2>6, <2>7, <2>9, <2>10, <2>11 DEF IInv
<1> QED
  BY <1>5, <1>6


\* A frame to the master is a request to its cache.
LEMMA CacheFrame ==
    ASSUME NEW f \in Frame, f.channel = RequestChannel(Master)
    PROVE  f.data \in Call /\ f = Asks(f.data, Master) /\ f.event = "publish"
<1>1. \A t \in Target, c \in Call : RequestChannel(t) # ResponseChannel(c)
  BY DEF RequestChannel, ResponseChannel
<1>2. \A t \in Target : RequestChannel(t) = RequestChannel(Master) => t = Master
  BY DEF RequestChannel
<1>3. Master \in Target
  BY DEF Target
<1> QED
  BY <1>1, <1>2, <1>3, FrameCases

\* The cache of the master takes the request up that it finds in the frame.
LEMMA CacheKeeps ==
    ASSUME IInv, NEW p \in Process, NEW l \in Lane, CacheHandles(p, l)
    PROVE  IInv'
<1> DEFINE f == NextOf(out[p][l])
           c == f.data
<1>1. OutTyped /\ InTyped
  BY DEF IInv, Typed, OutTyped, InTyped
<1>2. Takes(p, l, f) /\ f \in Frame
  <2>1. out[p][l] # <<>> /\ out' = [out EXCEPT ![p][l] = Tail(@)]
    BY DEF CacheHandles
  <2>2. Takes(p, l, f)
    BY <1>1, <2>1, TakeEffect DEF NextOf
  <2> QED
    BY <2>2 DEF Takes
<1>3. UNCHANGED <<alive, redis, subscribers, listening, handlers, request, caller>>
  BY DEF CacheHandles
<1>4. /\ f.channel = RequestChannel(Master)
      /\ \/ effect' = [effect EXCEPT ![c] = "running"] /\ UNCHANGED <<inbox, up>>
         \/ effect' = [effect EXCEPT ![c] = "done"] /\ Deliver(ResponseChannel(c), "done")
  BY DEF CacheHandles, ForMaster
<1>5. store' \in {c, None, store}
  BY DEF CacheHandles
<1> HIDE DEF f
<1>6. c \in Call /\ f = Asks(c, Master) /\ f.event = "publish"
  BY <1>2, <1>4, CacheFrame
<1> HIDE DEF c
<1>7. /\ p = request[c].from /\ request[c].to = Master /\ effect[c] = "none"
      /\ \A q \in Process, k \in Lane, t \in Target : ~Has(out'[q][k], Asks(c, t))
  BY <1>2, <1>6, TakenGone DEF Target
<1>8. /\ effect'[c] \in {"running", "done"}
      /\ effect' \in [Call -> {"none", "running", "done", "failed"}]
      /\ \A d \in Call : d # c => effect'[d] = effect[d]
  BY <1>4, <1>6 DEF IInv, Typed, TypeOK
<1>9. /\ InTypedAfter
      /\ \A q \in Process, t \in Process, d \in Call :
           /\ Has(inbox'[q], Asked(d, t)) => Has(inbox[q], Asked(d, t))
           /\ Once(inbox[q], Asked(d, t)) => Once(inbox'[q], Asked(d, t))
      /\ \A q \in Process, d \in Call, o \in Outcome : Has(inbox'[q], Answered(d, o)) =>
           Has(inbox[q], Answered(d, o)) \/ (d = c /\ effect'[d] = o)
      /\ \A q \in Process \ alive : inbox'[q] = <<>>
      /\ up' \in BOOLEAN
  <2>1. \A q \in Process \ alive : inbox[q] = <<>>
    BY DEF IInv, Typed, TypeOK, BusTypeOK
  <2>2. up \in BOOLEAN
    BY DEF IInv, Typed, TypeOK, BusTypeOK
  <2>3. CASE effect' = [effect EXCEPT ![c] = "running"] /\ UNCHANGED <<inbox, up>>
    BY <1>1, <2>1, <2>2, <2>3 DEF InTyped, InTypedAfter
  <2>4. CASE effect' = [effect EXCEPT ![c] = "done"] /\ Deliver(ResponseChannel(c), "done")
    <3>1. Answered(c, "done") \in Message
      BY <1>6 DEF Message, Outcome
    <3>2. Arrives(Answered(c, "done"), Reachable(ResponseChannel(c)))
      BY <1>1, <2>4, <3>1, DeliverEffect DEF Answered
    <3>3. effect'[c] = "done"
      BY <1>6, <2>4 DEF IInv, Typed, TypeOK
    <3>4. \A q \in Process : \A e :
            /\ Has(inbox'[q], e) => Has(inbox[q], e) \/ e = Answered(c, "done")
            /\ Once(inbox[q], e) /\ e # Answered(c, "done") => Once(inbox'[q], e)
      BY <3>2 DEF Arrives
    <3>5. up' \in BOOLEAN /\ \A q \in Process \ alive : inbox'[q] = <<>>
      BY <2>1, <2>4 DEF Deliver, Reachable, IInv, Typed, TypeOK, BusTypeOK
    <3>6. ASSUME NEW q \in Process, NEW t \in Process, NEW d \in Call
          PROVE  /\ Has(inbox'[q], Asked(d, t)) => Has(inbox[q], Asked(d, t))
                 /\ Once(inbox[q], Asked(d, t)) => Once(inbox'[q], Asked(d, t))
      BY <3>4, MessagesDiffer
    <3>7. ASSUME NEW q \in Process, NEW d \in Call, NEW o \in Outcome, Has(inbox'[q], Answered(d, o))
          PROVE  Has(inbox[q], Answered(d, o)) \/ (d = c /\ effect'[d] = o)
      BY <3>3, <3>4, <3>7, MessagesDiffer
    <3> QED
      BY <3>2, <3>5, <3>6, <3>7 DEF Arrives
  <2> QED
    BY <1>4, <2>3, <2>4
<1>10. Published(p, l, f)
  BY <1>2, <1>3, <1>5, <1>6, <1>8, <1>9 DEF Published, IInv, Typed, TypeOK
<1>11. Typed' /\ FramesOnce' /\ ChannelsTrue' /\ SubscriptionsTrue' /\ ListensFirst'
  BY <1>2, <1>10, PublishedKeeps
<1>12. CallsMade'
  <2>1. caller[c] # "idle"
    BY <1>6, <1>7, MasterDiffers DEF IInv, CallsMade
  <2> QED
    BY <1>3, <1>8, <2>1 DEF IInv, CallsMade
<1>13. \A q \in Process, k \in Lane : \A e :
         /\ Has(out'[q][k], e) => Has(out[q][k], e)
         /\ e # f /\ Has(out[q][k], e) => Has(out'[q][k], e)
         /\ \A g : Before(out[q][k], e, g) /\ Once(out[q][k], g) =>
              (e # f => Before(out'[q][k], e, g)) /\ (q = p /\ k = l => f # g)
  BY <1>2 DEF Takes
<1>14. FramesTrue'
  <2> SUFFICES ASSUME NEW q \in Process, NEW k \in Lane, NEW d \in Call
      PROVE  /\ Has(out'[q][k], Listens(d)) => k = "command" /\ q = request[d].from
             /\ Has(out'[q][k], Stops(d)) =>
                  k = "command" /\ q = request[d].from /\ caller[d] # "waiting"
             /\ \A t \in Target : Has(out'[q][k], Asks(d, t)) =>
                  k = AskLane /\ q = request[d].from /\ t = request[d].to /\ effect'[d] = "none"
             /\ \A o \in Outcome : Has(out'[q][k], Answers(d, o)) => effect'[d] = o
    BY <1>3 DEF FramesTrue, AskLane
  <2>1. /\ Has(out[q][k], Listens(d)) => k = "command" /\ q = request[d].from
        /\ Has(out[q][k], Stops(d)) =>
             k = "command" /\ q = request[d].from /\ caller[d] # "waiting"
        /\ \A t \in Target : Has(out[q][k], Asks(d, t)) =>
             k = AskLane /\ q = request[d].from /\ t = request[d].to /\ effect[d] = "none"
        /\ \A o \in Outcome : Has(out[q][k], Answers(d, o)) => effect[d] = o
    BY DEF IInv, FramesTrue
  <2>2. CASE d = c
    BY <1>7, <1>13, <2>1, <2>2 DEF Outcome
  <2>3. CASE d # c
    BY <1>8, <1>13, <2>1, <2>3
  <2> QED
    BY <2>2, <2>3
<1>15. MessagesTrue'
  <2>1. ASSUME NEW q \in Process, NEW d \in Call, NEW t \in Process
        PROVE  /\ Once(inbox'[q], Asked(d, t))
               /\ Has(inbox'[q], Asked(d, t)) =>
                    /\ q = t /\ t = request[d].to /\ effect'[d] = "none"
                    /\ \A r \in Process, k \in Lane : ~Has(out'[r][k], Asks(d, t))
    <3>1. /\ Once(inbox[q], Asked(d, t))
          /\ Has(inbox[q], Asked(d, t)) =>
               /\ q = t /\ t = request[d].to /\ effect[d] = "none"
               /\ \A r \in Process, k \in Lane : ~Has(out[r][k], Asks(d, t))
      BY DEF IInv, MessagesTrue
    <3>2. Has(inbox[q], Asked(d, t)) => d # c
      BY <1>7, <3>1, MasterDiffers
    <3> QED
      BY <1>8, <1>9, <1>13, <3>1, <3>2
  <2>2. ASSUME NEW q \in Process, NEW d \in Call, NEW o \in Outcome, Has(inbox'[q], Answered(d, o))
        PROVE  effect'[d] = o
    <3>1. CASE Has(inbox[q], Answered(d, o))
      <4>1. effect[d] = o /\ d # c
        BY <1>7, <3>1 DEF IInv, MessagesTrue, Outcome
      <4> QED
        BY <1>8, <4>1
    <3> QED
      BY <1>9, <2>2, <3>1
  <2> QED
    BY <1>3, <2>1, <2>2 DEF MessagesTrue
<1>16. \A d \in Call : request[d].to = Master => request[d].from \in Process
  BY MasterDiffers DEF IInv, CallsMade
<1>17. \A d \in Call : Asks(d, Master) = f <=> d = c
  BY <1>6, FramesDiffer
<1>18. MasterAsked'
  <2>1. ASSUME NEW d \in Call, request[d].to = Master, request[d].from \in alive, effect'[d] = "none"
        PROVE  Has(out'[request[d].from]["command"], Asks(d, Master))
    <3>1. d # c /\ effect[d] = "none"
      BY <1>8, <2>1
    <3>2. Has(out[request[d].from]["command"], Asks(d, Master))
      BY <2>1, <3>1 DEF IInv, MasterAsked
    <3> QED
      BY <1>13, <1>16, <1>17, <2>1, <3>1, <3>2 DEF Lane
  <2> QED
    BY <1>3, <2>1 DEF MasterAsked
<1>19. \A d \in Call : request[d].to = Master => Once(out[request[d].from]["command"], Asks(d, Master))
  BY <1>16 DEF IInv, FramesOnce, Lane, Target
<1>20. AskedInOrder'
  <2>1. ASSUME NEW d \in Call, NEW e \in Call, d < e, request[d].from = request[e].from,
               request[d].to = Master, request[e].to = Master,
               Has(out'[request[e].from]["command"], Asks(e, Master)), effect'[d] = "none"
        PROVE  Before(out'[request[e].from]["command"], Asks(d, Master), Asks(e, Master))
    <3>1. d # c /\ effect[d] = "none"
      BY <1>8, <2>1
    <3>2. Has(out[request[e].from]["command"], Asks(e, Master))
      BY <1>13, <1>16, <2>1 DEF Lane
    <3>3. Before(out[request[e].from]["command"], Asks(d, Master), Asks(e, Master))
      BY <2>1, <3>1, <3>2 DEF IInv, AskedInOrder
    <3> QED
      BY <1>13, <1>16, <1>17, <1>19, <2>1, <3>1, <3>3 DEF Lane
  <2> QED
    BY <1>3, <2>1 DEF AskedInOrder
<1>21. CacheInOrder'
  <2>1. ASSUME NEW d \in Call, NEW e \in Call, d < e, request[d].from = request[e].from,
               request[d].to = Master, request[e].to = Master, effect'[e] # "none"
        PROVE  effect'[d] # "none"
    <3>1. CASE e # c
      <4>1. effect[d] # "none"
        BY <1>8, <2>1, <3>1 DEF IInv, CacheInOrder
      <4> QED
        BY <1>7, <1>8, <4>1
    <3>2. CASE e = c
      <4>1. ~redis
        BY <1>6, <1>7 DEF IInv, CallsMade
      <4>2. l = "command" /\ Has(out[p]["command"], Asks(c, Master))
        BY <1>2, <1>6, <4>1 DEF Takes, IInv, FramesTrue, AskLane, Target
      <4>3. effect[d] # "none" \/ Before(out[p]["command"], Asks(d, Master), Asks(c, Master))
        BY <1>6, <1>7, <2>1, <3>2, <4>2 DEF IInv, AskedInOrder
      <4>4. ~Before(out[p]["command"], Asks(d, Master), Asks(c, Master))
        BY <1>6, <1>7, <1>13, <1>19, <4>2
      <4>5. d # c
        BY <2>1, <3>2 DEF Call
      <4> QED
        BY <1>8, <4>3, <4>4, <4>5
    <3> QED
      BY <3>1, <3>2
  <2> QED
    BY <1>3, <2>1 DEF CacheInOrder
<1> QED
  BY <1>11, <1>12, <1>14, <1>15, <1>18, <1>20, <1>21 DEF IInv

-----------------------------------------------------------------------------
(* A process dies. *)

LEMMA ExitKeeps ==
    ASSUME IInv, NEW p \in Process, Exit(p)
    PROVE  IInv'
<1>1. ProcessExit(p) /\ OutTyped /\ InTyped
  BY DEF Exit, IInv, Typed, OutTyped, InTyped
<1>2. Truncates(p) /\ Leaves
  BY <1>1, ExitEffect, GoneEffect
<1>3. /\ alive' = alive \ {p}
      /\ listening' = [listening EXCEPT ![p] = {}]
      /\ inbox' = [inbox EXCEPT ![p] = <<>>]
      /\ subscribers' \subseteq subscribers
      /\ \A ch, q : q # p /\ <<ch, q>> \in subscribers => <<ch, q>> \in subscribers'
      /\ ~redis => subscribers' = subscribers
      /\ UNCHANGED <<redis, up, handlers, request, effect, store>>
  BY <1>1 DEF ProcessExit, Exit
<1>4. /\ caller' \in [Call -> {"idle", "waiting", "resolved", "rejected", "gaveUp", "lost"}]
      /\ \A c \in Call : IF request[c].from = p /\ caller[c] = "waiting"
                         THEN caller'[c] = "lost" ELSE caller'[c] = caller[c]
  <2>1. caller' = [c \in Call |-> IF request[c].from = p /\ caller[c] = "waiting"
                                  THEN "lost" ELSE caller[c]]
    BY DEF Exit
  <2> QED
    BY <2>1 DEF IInv, Typed, TypeOK
<1>5. \A q \in Process, l \in Lane :
        /\ q # p => out'[q] = out[q]
        /\ \A e : /\ Has(out'[q][l], e) => Has(out[q][l], e)
                  /\ Once(out[q][l], e) => Once(out'[q][l], e)
                  /\ \A g : Before(out[q][l], e, g) /\ Once(out[q][l], g) /\ Has(out'[q][l], g)
                              => Before(out'[q][l], e, g)
  BY <1>2 DEF Truncates
<1>6. Typed'
  <2>1. \A q \in Process \ alive' : listening'[q] = {} /\ inbox'[q] = <<>>
    BY <1>3 DEF IInv, Typed, TypeOK, BusTypeOK
  <2>2. listening' \in [Process -> SUBSET Channel]
    BY <1>3 DEF IInv, Typed, TypeOK, BusTypeOK
  <2>3. BusTypeOK(Channel)'
    BY <1>3, <2>1, <2>2
    DEF IInv, Typed, TypeOK, BusTypeOK, Channel, Call, RequestChannel, ResponseChannel
  <2>4. TypeOK'
    BY <1>3, <1>4, <2>3 DEF IInv, Typed, TypeOK
  <2> QED
    BY <1>2, <2>4 DEF Typed, Truncates, Leaves, OutTypedAfter, InTypedAfter
<1>7. CallsMade'
  BY <1>3, <1>4 DEF IInv, CallsMade
<1>8. FramesTrue'
  <2> SUFFICES ASSUME NEW q \in Process, NEW l \in Lane, NEW c \in Call
      PROVE  /\ Has(out'[q][l], Listens(c)) => l = "command" /\ q = request[c].from
             /\ Has(out'[q][l], Stops(c)) =>
                  l = "command" /\ q = request[c].from /\ caller'[c] # "waiting"
             /\ \A t \in Target : Has(out'[q][l], Asks(c, t)) =>
                  l = AskLane /\ q = request[c].from /\ t = request[c].to /\ effect[c] = "none"
             /\ \A o \in Outcome : Has(out'[q][l], Answers(c, o)) => effect[c] = o
    BY <1>3 DEF FramesTrue, AskLane
  <2>1. caller'[c] = "waiting" => caller[c] = "waiting"
    BY <1>4
  <2>2. \A e : Has(out'[q][l], e) => Has(out[q][l], e)
    BY <1>5
  <2> QED
    BY <2>1, <2>2 DEF IInv, FramesTrue
<1>9. FramesOnce'
  BY <1>5 DEF IInv, FramesOnce
<1>10. MessagesTrue'
  <2>1. \A q \in Process, l \in Lane : \A e : Has(out'[q][l], e) => Has(out[q][l], e)
    BY <1>5
  <2>2. \A q \in Process : \A e :
          /\ Has(inbox'[q], e) => Has(inbox[q], e)
          /\ Once(inbox[q], e) => Once(inbox'[q], e)
    BY <1>2 DEF Leaves
  <2>3. ASSUME NEW q \in Process, NEW c \in Call
        PROVE  /\ \A t \in Process : Has(inbox'[q], Asked(c, t)) =>
                    /\ q = t /\ t = request[c].to /\ effect[c] = "none"
                    /\ \A r \in Process, l \in Lane : ~Has(out'[r][l], Asks(c, t))
               /\ \A t \in Process : Once(inbox'[q], Asked(c, t))
               /\ \A o \in Outcome : Has(inbox'[q], Answered(c, o)) => effect[c] = o
    <3>1. /\ \A t \in Process : Has(inbox[q], Asked(c, t)) =>
               /\ q = t /\ t = request[c].to /\ effect[c] = "none"
               /\ \A r \in Process, l \in Lane : ~Has(out[r][l], Asks(c, t))
          /\ \A t \in Process : Once(inbox[q], Asked(c, t))
          /\ \A o \in Outcome : Has(inbox[q], Answered(c, o)) => effect[c] = o
      BY DEF IInv, MessagesTrue
    <3>2. ASSUME NEW t \in Process, Has(inbox'[q], Asked(c, t))
          PROVE  /\ q = t /\ t = request[c].to /\ effect[c] = "none"
                 /\ \A r \in Process, l \in Lane : ~Has(out'[r][l], Asks(c, t))
      <4>1. Has(inbox[q], Asked(c, t))
        BY ONLY <2>2, <3>2, q \in Process
      <4> QED
        BY ONLY <2>1, <3>1, <4>1, t \in Process
    <3>3. \A t \in Process : Once(inbox'[q], Asked(c, t))
      BY ONLY <2>2, <3>1, q \in Process
    <3>4. \A o \in Outcome : Has(inbox'[q], Answered(c, o)) => effect[c] = o
      BY ONLY <2>2, <3>1, q \in Process
    <3> QED
      BY ONLY <3>2, <3>3, <3>4
  <2> QED
    BY <1>3, <2>3 DEF MessagesTrue
<1>11. ChannelsTrue'
  <2>1. ASSUME NEW q \in Process, NEW c \in Call
        PROVE  ResponseChannel(c) \in listening'[q] <=> caller'[c] = "waiting" /\ q = request[c].from
    <3>1. ResponseChannel(c) \in listening[q] <=> caller[c] = "waiting" /\ q = request[c].from
      BY DEF IInv, ChannelsTrue
    <3>2. listening'[q] = IF q = p THEN {} ELSE listening[q]
      BY <1>3 DEF IInv, Typed, TypeOK, BusTypeOK
    <3> QED
      BY <1>4, <3>1, <3>2
  <2> QED
    BY <1>3, <2>1 DEF IInv, ChannelsTrue
<1>12. SubscriptionsTrue'
  <2> SUFFICES ASSUME NEW c \in Call, request[c].from \in alive'
      PROVE  LET q == out'[request[c].from]["command"]
                 s == <<ResponseChannel(c), request[c].from>> \in subscribers'
             IN  /\ caller'[c] = "waiting" => s \/ Has(q, Listens(c))
                 /\ caller'[c] # "waiting" =>
                      /\ s => Has(q, Stops(c))
                      /\ Has(q, Listens(c)) => Before(q, Listens(c), Stops(c))
    BY <1>3 DEF SubscriptionsTrue, Subscribed
  <2>1. request[c].from \in alive /\ request[c].from # p /\ request[c].from \in Process
    BY <1>3 DEF IInv, Typed, TypeOK, BusTypeOK
  <2>2. /\ out'[request[c].from] = out[request[c].from] /\ caller'[c] = caller[c]
        /\ <<ResponseChannel(c), request[c].from>> \in subscribers' <=> Subscribed(c)
    BY <1>3, <1>4, <1>5, <2>1 DEF Subscribed, Lane
  <2> QED
    BY <2>1, <2>2 DEF IInv, SubscriptionsTrue
<1>13. ListensFirst'
  <2> SUFFICES ASSUME NEW c \in Call, ~redis, caller'[c] = "waiting"
      PROVE  \/ <<ResponseChannel(c), request[c].from>> \in subscribers'
             \/ Before(out'[request[c].from]["command"], Listens(c), Asks(c, request[c].to))
    BY <1>3 DEF ListensFirst, Subscribed
  <2>1. caller[c] = "waiting" /\ request[c].from # p /\ request[c].from \in Process
    BY <1>4 DEF IInv, CallsMade
  <2>2. out'[request[c].from] = out[request[c].from]
    BY <1>5, <2>1 DEF Lane
  <2> QED
    BY <1>3, <2>1, <2>2 DEF IInv, ListensFirst, Subscribed
<1>14. MasterAsked'
  <2>1. \A c \in Call : request[c].from \in alive' =>
          request[c].from \in alive /\ out'[request[c].from] = out[request[c].from]
    BY <1>3, <1>5 DEF IInv, Typed, TypeOK, BusTypeOK, Lane
  <2> QED
    BY <1>3, <2>1 DEF IInv, MasterAsked
<1>15. AskedInOrder'
  <2>1. ASSUME NEW d \in Call, NEW e \in Call, d < e, request[d].from = request[e].from,
               request[d].to = Master, request[e].to = Master,
               Has(out'[request[e].from]["command"], Asks(e, Master)), effect[d] = "none"
        PROVE  Before(out'[request[e].from]["command"], Asks(d, Master), Asks(e, Master))
    <3>1. request[e].from \in Process /\ "command" \in Lane /\ Master \in Target
      BY <2>1, MasterDiffers DEF IInv, CallsMade, Lane, Target
    <3>2. Once(out[request[e].from]["command"], Asks(e, Master))
      BY <3>1 DEF IInv, FramesOnce
    <3>3. Has(out[request[e].from]["command"], Asks(e, Master))
      BY <1>5, <2>1, <3>1
    <3>4. Before(out[request[e].from]["command"], Asks(d, Master), Asks(e, Master))
      BY <2>1, <3>3 DEF IInv, AskedInOrder
    <3> QED
      BY <1>5, <2>1, <3>1, <3>2, <3>4
  <2> QED
    BY <1>3, <2>1 DEF AskedInOrder
<1>16. CacheInOrder'
  BY <1>3 DEF IInv, CacheInOrder
<1> QED
  BY <1>6, <1>7, <1>8, <1>9, <1>10, <1>11, <1>12, <1>13, <1>14, <1>15, <1>16 DEF IInv


-----------------------------------------------------------------------------
(* The invariant. *)

LEMMA InvInit ==
    ASSUME Init
    PROVE  IInv
<1>1. /\ out = [p \in Process |-> [l \in Lane |-> <<>>]] /\ inbox = [p \in Process |-> <<>>]
      /\ alive = Process /\ redis \in BOOLEAN /\ up = TRUE
      /\ subscribers = {<<RequestChannel(p), p>> : p \in Process}
      /\ listening = [p \in Process |-> {RequestChannel(p)}]
      /\ handlers = {} /\ store = None
      /\ request = [c \in Call |-> [from |-> None, to |-> None, method |-> "room"]]
      /\ caller = [c \in Call |-> "idle"] /\ effect = [c \in Call |-> "none"]
  BY DEF Init, BusInit
<1>2. /\ \A p \in Process, l \in Lane : \A e : ~Has(out[p][l], e) /\ Once(out[p][l], e)
      /\ \A p \in Process : \A e : ~Has(inbox[p], e) /\ Once(inbox[p], e)
  <2>1. Len(<<>>) = 0
    BY EmptySeq
  <2> QED
    BY <1>1, <2>1 DEF Has, Once
<1>3. Typed
  <2>1. \A S : <<>> \in Seq(S)
    BY EmptySeq
  <2>2. BusTypeOK(Channel)
    BY <1>1 DEF BusTypeOK, Channel
  <2>3. TypeOK
    BY <1>1, <2>2 DEF TypeOK
  <2> QED
    BY <1>1, <2>1, <2>3 DEF Typed
<1>4. CallsMade
  BY <1>1, MasterDiffers DEF CallsMade
<1>5. FramesTrue /\ FramesOnce /\ MessagesTrue
  <2>1. FramesTrue
    BY ONLY <1>2 DEF FramesTrue
  <2>2. FramesOnce
    BY ONLY <1>2 DEF FramesOnce
  <2>3. MessagesTrue
    BY ONLY <1>2 DEF MessagesTrue
  <2> QED
    BY <2>1, <2>2, <2>3
<1>6. ChannelsTrue
  <2>1. \A t, c : RequestChannel(t) # ResponseChannel(c)
    BY DEF RequestChannel, ResponseChannel
  <2>2. \A t, p : RequestChannel(t) = RequestChannel(p) => t = p
    BY DEF RequestChannel
  <2> QED
    BY <1>1, <2>1, <2>2 DEF ChannelsTrue
<1>7. SubscriptionsTrue /\ ListensFirst /\ MasterAsked /\ AskedInOrder /\ CacheInOrder
  BY <1>1, MasterDiffers DEF SubscriptionsTrue, ListensFirst, MasterAsked, AskedInOrder, CacheInOrder
<1> QED
  BY <1>3, <1>4, <1>5, <1>6, <1>7 DEF IInv

LEMMA InvStutter ==
    ASSUME IInv, UNCHANGED vars
    PROVE  IInv'
<1>1. Leaves /\ \A p \in Process \ alive : inbox'[p] = <<>>
  BY DEF vars, busVars, Leaves, InTypedAfter, IInv, Typed, TypeOK, BusTypeOK
<1>2. handlers' \subseteq Process
  BY DEF vars, IInv, Typed, TypeOK
<1> QED
  BY <1>1, <1>2, IdleKeeps DEF Idles, vars, busVars

LEMMA InvStep ==
    ASSUME IInv, [Next]_vars
    PROVE  IInv'
<1>1. CASE \E c \in Call, p \in Process, t \in Target, m \in {"room", "set", "get", "remove"} :
             RequestProcess(c, p, t, m)
  BY <1>1, RequestKeeps
<1>2. CASE \E c \in Call : GiveUp(c)
  BY <1>2, GiveUpKeeps
<1>3. CASE \E c \in Call, o \in Outcome : HandlerDone(c, o)
  BY <1>3, HandlerKeeps
<1>4. CASE \E p \in Process : RegisterHandlers(p)
  BY <1>4, RegisterKeeps
<1>5. CASE \E p \in Process : TakeAnswer(p)
  BY <1>5, TakeAnswerKeeps
<1>6. CASE \E p \in Process : TakeRequest(p)
  BY <1>6, TakeRequestKeeps
<1>7. CASE \E p \in Process : DropMessage(p)
  BY <1>7, DropKeeps
<1>8. CASE \E p \in Process : Exit(p)
  BY <1>8, ExitKeeps
<1>9. CASE \E p \in Process, l \in Lane : PassOn(p, l)
  BY <1>9, PassOnKeeps
<1>10. CASE \E p \in Process, l \in Lane : CacheHandles(p, l)
  BY <1>10, CacheKeeps
<1>11. CASE UNCHANGED vars
  BY <1>11, InvStutter
<1> QED
  BY <1>1, <1>2, <1>3, <1>4, <1>5, <1>6, <1>7, <1>8, <1>9, <1>10, <1>11 DEF Next, Outcome, Target

\* The channels and the calls are as IInv says in every state.
THEOREM Invariance == Spec => []IInv
<1>1. Init => IInv
  BY InvInit
<1>2. IInv /\ [Next]_vars => IInv'
  BY InvStep
<1> QED
  BY <1>1, <1>2, PTL DEF Spec

\* Every variable of the calls and of the bus keeps its type.
THEOREM TypeCorrect == Spec => []TypeOK
<1>1. IInv => TypeOK
  BY DEF IInv, Typed
<1> QED
  BY <1>1, Invariance, PTL

\* Under IPCWorker an answer is never published before the one who asked has
\* subscribed to it, however processes die and frames are delayed: requestProcess
\* subscribes first, and one pipe keeps the order.
THEOREM AnswersFindCallers == Spec => []AnswerFindsCaller
<1>1. ASSUME IInv
      PROVE  AnswerFindsCaller
  <2> SUFFICES ASSUME NEW c \in Call, ~redis, caller[c] = "waiting", effect[c] # "none"
      PROVE  <<ResponseChannel(c), request[c].from>> \in subscribers
    BY DEF AnswerFindsCaller
  <2>1. request[c].from \in Process /\ request[c].to \in Target /\ "command" \in Lane
    BY <1>1 DEF IInv, CallsMade, Lane
  <2>2. ~Has(out[request[c].from]["command"], Asks(c, request[c].to))
    BY <1>1, <2>1 DEF IInv, FramesTrue
  <2>3. ~Before(out[request[c].from]["command"], Listens(c), Asks(c, request[c].to))
    BY <2>2 DEF Before, Has
  <2> QED
    BY <1>1, <2>3 DEF IInv, ListensFirst, Subscribed
<1> QED
  BY <1>1, Invariance, PTL

\* Once all is delivered, the response channels the bus and a running process
\* hold are those of the calls the process still waits for: settling a call,
\* by whatever way, takes its listener and its subscription away.
THEOREM NoChannelLeaks == Spec => []NoLeakedChannels
<1>1. ASSUME IInv
      PROVE  NoLeakedChannels
  <2> SUFFICES ASSUME Quiet, NEW c \in Call, NEW p \in alive
      PROVE  LET waits == caller[c] = "waiting" /\ request[c].from = p
             IN  /\ waits <=> <<ResponseChannel(c), p>> \in subscribers
                 /\ waits <=> ResponseChannel(c) \in listening[p]
    BY DEF NoLeakedChannels
  <2>1. p \in Process /\ "command" \in Lane
    BY <1>1 DEF IInv, Typed, TypeOK, BusTypeOK, Lane
  <2>2. ResponseChannel(c) \in listening[p] <=> caller[c] = "waiting" /\ p = request[c].from
    BY <1>1, <2>1 DEF IInv, ChannelsTrue
  <2>3. <<ResponseChannel(c), p>> \in subscribers => p = request[c].from
    BY <1>1, <2>1 DEF IInv, ChannelsTrue
  <2>4. \A e : ~Has(out[p]["command"], e)
    BY <2>1, EmptyHasNone DEF Quiet
  <2>5. p = request[c].from => (caller[c] = "waiting" <=> Subscribed(c))
    BY <1>1, <2>4 DEF IInv, SubscriptionsTrue
  <2> QED
    BY <2>2, <2>3, <2>5 DEF Subscribed
<1> QED
  BY <1>1, Invariance, PTL

\* The master's cache executes the calls of one process in the order they were
\* made, also when the process dies between them.
THEOREM CacheOrdered == Spec => []CacheInOrder
<1>1. IInv => CacheInOrder
  BY DEF IInv
<1> QED
  BY <1>1, Invariance, PTL


-----------------------------------------------------------------------------
(* The refinement of RemoteCall. *)

LEMMA PromiseInit ==
    ASSUME Init
    PROVE  Promise!Init
BY DEF Init, Promise!Init

\* What each step of the processes is for the caller of a request.
LEMMA PromiseStep ==
    ASSUME IInv, [Next]_vars
    PROVE  [Promise!Next]_<<caller, effect>>
<1>1. ASSUME NEW c \in Call, NEW p \in Process, NEW t \in Target,
             NEW m \in {"room", "set", "get", "remove"}, RequestProcess(c, p, t, m)
      PROVE  Promise!Start(c)
  BY <1>1 DEF RequestProcess, Promise!Start
<1>2. ASSUME NEW c \in Call, GiveUp(c)
      PROVE  Promise!Settle(c)
  BY <1>2 DEF GiveUp, Promise!Settle, Promise!GiveUp
<1>3. ASSUME NEW c \in Call, NEW o \in Outcome, HandlerDone(c, o)
      PROVE  Promise!Complete(c)
  <2>1. caller[c] # "idle"
    BY <1>3 DEF HandlerDone, IInv, CallsMade
  <2> QED
    BY <1>3, <2>1 DEF HandlerDone, Promise!Complete, Outcome
<1>4. ASSUME NEW p \in Process, TakeAnswer(p)
      PROVE  \E c \in Call : Promise!Settle(c)
  <2>1. PICK c \in Call, o \in Outcome :
          /\ Received(p).channel[2] = c /\ Received(p).data = o
          /\ caller[c] = "waiting" /\ effect[c] = o
    BY <1>4, AnswerTold
  <2>2. CASE o = "done"
    BY <1>4, <2>1, <2>2 DEF TakeAnswer, Promise!Settle, Promise!Resolve
  <2>3. CASE o = "failed"
    BY <1>4, <2>1, <2>3 DEF TakeAnswer, Promise!Settle, Promise!Reject
  <2> QED
    BY <2>2, <2>3 DEF Outcome
<1>5. ASSUME NEW p \in Process, TakeRequest(p)
      PROVE  (\E c \in Call : Promise!Begin(c)) \/ UNCHANGED <<caller, effect>>
  <2>1. PICK c \in Call : Received(p).data = c /\ effect[c] = "none" /\ caller[c] # "idle"
    BY <1>5, RequestTold
  <2>2. CASE p \in handlers
    BY <1>5, <2>1, <2>2 DEF TakeRequest, Promise!Begin
  <2>3. CASE p \notin handlers
    BY <1>5, <2>3 DEF TakeRequest
  <2> QED
    BY <2>2, <2>3
<1>6. ASSUME NEW p \in Process, NEW l \in Lane, CacheHandles(p, l)
      PROVE  \E c \in Call : Promise!Begin(c) \/ Promise!Complete(c)
  <2> DEFINE f == NextOf(out[p][l])
             c == f.data
  <2>1. out[p][l] # <<>> /\ out' = [out EXCEPT ![p][l] = Tail(@)] /\ f.channel = RequestChannel(Master)
    BY <1>6 DEF CacheHandles, ForMaster
  <2>2. Takes(p, l, f)
    BY <2>1, TakeEffect DEF NextOf, IInv, Typed, OutTyped
  <2>3. /\ \/ effect' = [effect EXCEPT ![c] = "running"]
           \/ effect' = [effect EXCEPT ![c] = "done"]
        /\ UNCHANGED caller
    BY <1>6 DEF CacheHandles
  <2> HIDE DEF f
  <2>4. f \in Frame
    BY <2>2 DEF Takes
  <2>5. c \in Call /\ f = Asks(c, Master)
    BY <2>1, <2>4, CacheFrame
  <2>6. effect[c] = "none" /\ request[c].to = Master
    BY <2>2, <2>4, <2>5, TakenGone DEF Target
  <2>7. caller[c] # "idle"
    BY <2>5, <2>6, MasterDiffers DEF IInv, CallsMade
  <2> HIDE DEF c
  <2> QED
    BY <2>3, <2>5, <2>6, <2>7 DEF Promise!Begin, Promise!Complete
<1>7. ASSUME NEW p \in Process, Exit(p)
      PROVE  \E S \in SUBSET Call : Promise!CallersLost(S)
  <2> DEFINE S == {c \in Call : request[c].from = p /\ caller[c] = "waiting"}
  <2>1. caller' = [c \in Call |-> IF c \in S THEN "lost" ELSE caller[c]]
    BY <1>7 DEF Exit
  <2>2. Promise!CallersLost(S)
    BY <1>7, <2>1 DEF Exit, Promise!CallersLost
  <2> QED
    BY <2>2
<1>8. ASSUME NEW p \in Process, RegisterHandlers(p) \/ DropMessage(p) \/ \E l \in Lane : PassOn(p, l)
      PROVE  UNCHANGED <<caller, effect>>
  BY <1>8 DEF RegisterHandlers, DropMessage, PassOn
<1>9. ASSUME UNCHANGED vars
      PROVE  UNCHANGED <<caller, effect>>
  BY <1>9 DEF vars
<1> QED
  BY <1>1, <1>2, <1>3, <1>4, <1>5, <1>6, <1>7, <1>8, <1>9 DEF Next, Promise!Next, Outcome, Target

\* The safety half of KeepsPromise: a request is executed at most once, its
\* caller is told an outcome only after it happened and only the one that
\* happened, and nothing is told about a request that was never made.
THEOREM KeepsPromiseSafely == Spec => Promise!Init /\ [][Promise!Next]_<<caller, effect>>
<1>1. Init => Promise!Init
  BY PromiseInit
<1>2. IInv /\ [Next]_vars => [Promise!Next]_<<caller, effect>>
  BY PromiseStep
<1> QED
  BY <1>1, <1>2, Invariance, PTL DEF Spec


=============================================================================
