-------------------------- MODULE DiscoveryProofs --------------------------
(***************************************************************************)
(* Proofs about Discovery: its types, that a process that knows others     *)
(* keeps checking on them, that one that is gone is forgotten and, when    *)
(* messages are late by less than an interval, that processes that know    *)
(* each other do so until one goes, and that under the cluster master the  *)
(* rooms of those that run are spared.                                     *)
(***************************************************************************)
EXTENDS Discovery, SequenceTheorems, FiniteSetTheorems, TLAPS

Frame == [channel : Channel, data : Process]

\* Messages carry the id of their sender.  One that announces a deletion comes from
\* a process that terminates; one that reports an instance has not been on its way
\* for longer than the late ticks when the sender is gone.
Tells(m) ==
    /\ m.data \in started
    /\ m.channel = DeleteChannel => m.data \in leaving
    /\ m.channel \notin {AddChannel, DeleteChannel} => m.data \in alive \/ age[m.data] <= late

MessagesTell == \A p \in Process : \A i \in DOMAIN inbox[p] : Tells(inbox[p][i])

Typed ==
    /\ TypeOK
    /\ inbox \in [Process -> Seq(Frame)]
    /\ MessagesTell
    /\ \A p \in Process \ alive : timer[p] = None

\* A process knows itself until it terminates.
KnowsSelf == \A p \in alive \ leaving : p \in instances[p]

\* What p, which is there, knows of q, which is not, runs out: first its ttl, then
\* the health check of p that finds it has.
RunsOut(p, q) ==
    IF left[p][q] >= 0 THEN age[q] + left[p][q] <= late + Ttl
    ELSE age[q] + timer[p] <= late + Ttl + Interval

Forgetting ==
    \A p \in alive \ leaving : \A q \in instances[p] \ alive : RunsOut(p, q)

IInv == Typed /\ KnowsSelf /\ KnowersCheck /\ Forgetting

-----------------------------------------------------------------------------
LEMMA ChannelsTyped ==
    /\ AddChannel \in Channel /\ DeleteChannel \in Channel /\ AddChannel # DeleteChannel
    /\ \A p \in Process :
         /\ DiscoveryChannel(p) \in Channel /\ InfoChannel(p) \in Channel
         /\ {DiscoveryChannel(p), InfoChannel(p)} \cap {AddChannel, DeleteChannel} = {}
BY DEF Channel, AddChannel, DeleteChannel, DiscoveryChannel, InfoChannel

\* What a box holds was in the inboxes, but for the message that has just been sent.
Carries(box, m) ==
    \A q \in Process : \A i \in DOMAIN box[q] :
        box[q][i] = m \/ \E j \in DOMAIN inbox[q] : box[q][i] = inbox[q][j]

LEMMA AppendElements ==
    ASSUME NEW S, NEW w \in Seq(S), NEW e \in S
    PROVE  /\ Append(w, e) \in Seq(S)
           /\ \A i \in DOMAIN Append(w, e) : Append(w, e)[i] = e \/ (i \in DOMAIN w /\ Append(w, e)[i] = w[i])
<1> PICK v : v = Append(w, e)
  OBVIOUS
<1>1. /\ v \in Seq(S) /\ Len(w) \in Nat /\ DOMAIN w = 1..Len(w) /\ DOMAIN v = 1..Len(w) + 1
      /\ \A i \in 1..Len(w) : v[i] = w[i]
      /\ v[Len(w) + 1] = e
  BY AppendProperties, LenProperties
<1>2. \A i \in 1..Len(w) + 1 : i \in 1..Len(w) \/ i = Len(w) + 1
  BY ONLY <1>1
<1> QED
  BY <1>1, <1>2

LEMMA TailElements ==
    ASSUME NEW S, NEW w \in Seq(S), w # <<>>
    PROVE  /\ Tail(w) \in Seq(S)
           /\ \A i \in DOMAIN Tail(w) : \E j \in DOMAIN w : Tail(w)[i] = w[j]
           /\ 1 \in DOMAIN w /\ Head(w) = w[1] /\ w[1] \in S
<1> PICK v, m : v = Tail(w) /\ m = Len(w)
  OBVIOUS
<1>1. /\ m \in Nat /\ m > 0 /\ Head(w) = w[1] /\ Head(w) \in S /\ v \in Seq(S) /\ Len(v) = m - 1
      /\ \A i \in 1..Len(v) : v[i] = w[i + 1]
  BY ONLY w \in Seq(S), w # <<>>, v = Tail(w), m = Len(w), EmptySeq, LenProperties, HeadTailProperties
<1>2. DOMAIN w = 1..m /\ DOMAIN v = 1..m - 1
  BY <1>1, LenProperties
<1>3. \A i \in 1..m - 1 : i + 1 \in 1..m /\ v[i] = w[i + 1]
  BY ONLY <1>1
<1>4. 1 \in 1..m
  BY ONLY <1>1
<1> QED
  BY ONLY <1>1, <1>2, <1>3, <1>4, v = Tail(w)

\* The message a process takes, and what is left of its inbox.
LEMMA Taken ==
    ASSUME Typed, NEW p \in Process, inbox[p] # <<>>, NEW m
    PROVE  /\ InboxAfter(p) \in [Process -> Seq(Frame)]
           /\ Carries(InboxAfter(p), m)
           /\ \A q \in Process \ {p} : InboxAfter(p)[q] = inbox[q]
           /\ Head(inbox[p]) \in Frame /\ Tells(Head(inbox[p]))
<1> HIDE DEF Frame
<1>1. inbox \in [Process -> Seq(Frame)] /\ inbox[p] \in Seq(Frame)
  BY DEF Typed
<1>2. /\ Tail(inbox[p]) \in Seq(Frame)
      /\ \A i \in DOMAIN Tail(inbox[p]) : \E j \in DOMAIN inbox[p] : Tail(inbox[p])[i] = inbox[p][j]
      /\ 1 \in DOMAIN inbox[p] /\ Head(inbox[p]) = inbox[p][1] /\ inbox[p][1] \in Frame
  BY <1>1, TailElements
<1>3. /\ InboxAfter(p) \in [Process -> Seq(Frame)]
      /\ InboxAfter(p)[p] = Tail(inbox[p])
      /\ \A q \in Process \ {p} : InboxAfter(p)[q] = inbox[q]
  BY <1>1, <1>2 DEF InboxAfter
<1>4. Carries(InboxAfter(p), m)
  <2> SUFFICES ASSUME NEW q \in Process, NEW i \in DOMAIN InboxAfter(p)[q]
      PROVE  \E j \in DOMAIN inbox[q] : InboxAfter(p)[q][i] = inbox[q][j]
    BY DEF Carries
  <2>1. CASE q = p
    BY <1>2, <1>3, <2>1
  <2>2. CASE q # p
    <3>1. InboxAfter(p)[q] = inbox[q]
      BY <1>3, <2>2
    <3> QED
      BY <3>1
  <2> QED
    BY <2>1, <2>2
<1>5. Tells(Head(inbox[p]))
  BY <1>2 DEF Typed, MessagesTell
<1> QED
  BY <1>2, <1>3, <1>4, <1>5

LEMMA NothingTaken ==
    ASSUME NEW m
    PROVE  Carries(inbox, m)
BY DEF Carries

\* p publishes.
LEMMA PublishEffect ==
    ASSUME NEW p \in Process, NEW ch \in Channel, NEW to, NEW rest \in [Process -> Seq(Frame)],
           Publish(p, ch, to, rest), NEW m, m = [channel |-> ch, data |-> p], Carries(rest, m),
           up \in BOOLEAN, redis \in BOOLEAN
    PROVE  /\ inbox' \in [Process -> Seq(Frame)]
           /\ Carries(inbox', m)
           /\ \A q \in Process \ alive : inbox'[q] = rest[q]
           /\ up' \in BOOLEAN
<1>1. m \in Frame
  BY DEF Frame
<1> HIDE DEF Frame
<1>2. \A q \in Process : rest[q] \in Seq(Frame)
  OBVIOUS
<1>3. inbox' = [q \in Process |-> IF up /\ q \in RunningSubscribersOf(ch) \cap to
                                   THEN Append(rest[q], m) ELSE rest[q]]
  BY DEF Publish
<1>4. ASSUME NEW q \in Process
      PROVE  /\ inbox'[q] \in Seq(Frame)
             /\ inbox'[q] = rest[q] \/ inbox'[q] = Append(rest[q], m)
             /\ q \notin alive => inbox'[q] = rest[q]
  <2>1. Append(rest[q], m) \in Seq(Frame)
    BY <1>1, <1>2, AppendElements
  <2> QED
    BY <1>2, <1>3, <2>1 DEF RunningSubscribersOf
<1>5. Carries(inbox', m)
  <2> SUFFICES ASSUME NEW q \in Process, NEW i \in DOMAIN inbox'[q]
      PROVE  inbox'[q][i] = m \/ \E j \in DOMAIN inbox[q] : inbox'[q][i] = inbox[q][j]
    BY DEF Carries
  <2> PICK w : w = rest[q]
    OBVIOUS
  <2>1. w \in Seq(Frame) /\ \A k \in DOMAIN w : w[k] = m \/ \E j \in DOMAIN inbox[q] : w[k] = inbox[q][j]
    BY <1>2 DEF Carries
  <2>2. CASE inbox'[q] = w
    BY <2>1, <2>2
  <2>3. CASE inbox'[q] = Append(w, m)
    <3>1. inbox'[q][i] = m \/ (i \in DOMAIN w /\ inbox'[q][i] = w[i])
      BY <1>1, <2>1, <2>3, AppendElements
    <3> QED
      BY <2>1, <3>1
  <2> QED
    BY <1>4, <2>2, <2>3
<1>6. inbox' \in [Process -> Seq(Frame)]
  BY <1>3, <1>4
<1>7. up' \in BOOLEAN
  BY DEF Publish
<1> QED
  BY <1>4, <1>5, <1>6, <1>7

LEMMA SubscribeTyped ==
    ASSUME TypeOK, NEW p \in Process, NEW chs \in SUBSET Channel, Subscribe(p, chs)
    PROVE  /\ subscribers' \subseteq Channel \X Process
           /\ pending' \subseteq Channel \X (alive \cup {p})
           /\ pending' # {} => redis
<1> HIDE DEF Channel
<1> QED
  BY DEF Subscribe, TypeOK

LEMMA UnsubscribeTyped ==
    ASSUME TypeOK, NEW p \in Process, NEW chs, Unsubscribe(p, chs)
    PROVE  /\ subscribers' \subseteq Channel \X Process
           /\ pending' \subseteq Channel \X alive
           /\ pending' # {} => redis
<1> HIDE DEF Channel
<1> QED
  BY DEF Unsubscribe, TypeOK

\* What a message says stays true.
LEMMA StillTells ==
    ASSUME NEW m \in Frame, Tells(m), started \subseteq started', leaving \subseteq leaving',
           m.data \in alive \/ age[m.data] <= late => m.data \in alive' \/ age'[m.data] <= late'
    PROVE  Tells(m)'
BY DEF Tells

\* All that is carried still tells, when the clock stands and nobody has died.
LEMMA CarriedTells ==
    ASSUME Typed, NEW m, Carries(inbox', m), Tells(m)', started \subseteq started',
           leaving \subseteq leaving', alive \subseteq alive', UNCHANGED <<age, late>>
    PROVE  MessagesTell'
<1> SUFFICES ASSUME NEW q \in Process, NEW i \in DOMAIN inbox'[q], NEW k, k = inbox'[q][i]
    PROVE  Tells(k)'
  BY DEF MessagesTell, Tells
<1>1. CASE k = m
  BY <1>1
<1>2. CASE \E j \in DOMAIN inbox[q] : k = inbox[q][j]
  <2>1. k \in Frame /\ Tells(k)
    <3> HIDE DEF Frame
    <3> PICK j \in DOMAIN inbox[q] : k = inbox[q][j]
      BY <1>2
    <3>1. inbox[q] \in Seq(Frame) /\ Tells(k)
      BY DEF Typed, MessagesTell
    <3>2. k \in Frame
      BY <3>1, ElementOfSeq, LenProperties
    <3> QED
      BY <3>1, <3>2
  <2>2. Tells(k)'
    BY <2>1, StillTells
  <2> QED
    BY <2>2
<1> QED
  BY <1>1, <1>2 DEF Carries

-----------------------------------------------------------------------------
(* What a process knows. *)

LEMMA InstancesCounted ==
    ASSUME NEW S \in SUBSET Process, NEW T \in SUBSET S
    PROVE  /\ Cardinality(S) \in Nat /\ Cardinality(T) \in Nat
           /\ Cardinality(T) <= Cardinality(S)
<1>1. IsFiniteSet(S)
  BY ProcessesFinite, FS_Subset
<1> QED
  BY <1>1, FS_Subset, FS_CardinalityType

LEMMA TwoKnown ==
    ASSUME NEW S \in SUBSET Process, NEW p \in S, NEW q \in S, p # q
    PROVE  Cardinality(S) > 1
<1>1. IsFiniteSet({q}) /\ Cardinality({q}) = 1
  BY FS_Singleton
<1>2. Cardinality({q} \cup {p}) = 2
  BY <1>1, FS_AddElement
<1>3. Cardinality({q} \cup {p}) <= Cardinality(S) /\ Cardinality(S) \in Nat
  BY InstancesCounted
<1> QED
  BY <1>2, <1>3

\* A member that knows another process has its health check running.
LEMMA MemberChecks ==
    ASSUME IInv, NEW p \in alive \ leaving, NEW q \in instances[p], q # p
    PROVE  timer[p] \in 0..Interval
<1>1. p \in instances[p] /\ instances[p] \in SUBSET Process /\ p \in Process
  BY DEF IInv, KnowsSelf, Typed, TypeOK
<1>2. Cardinality(instances[p]) > 1
  BY <1>1, TwoKnown
<1>3. timer[p] # None
  BY <1>2 DEF IInv, KnowersCheck
<1> QED
  BY <1>1, <1>3 DEF IInv, Typed, TypeOK

LEMMA UpdateEffect ==
    ASSUME TypeOK, NEW p \in Process, NEW id \in started, UpdateInstance(p, id)
    PROVE  /\ instances' \in [Process -> SUBSET started]
           /\ left' \in [Process -> [Process -> -1..Ttl]]
           /\ timer' \in [Process -> 0..Interval \cup {None}]
           /\ \A q \in Process \ {p} : /\ instances'[q] = instances[q] /\ left'[q] = left[q]
                                       /\ timer'[q] = timer[q]
           /\ instances'[p] = instances[p] \cup {id}
           /\ \A q \in Process : left'[p][q] = IF q = id THEN Ttl ELSE left[p][q]
           /\ Cardinality(instances'[p]) > 1 => timer'[p] # None
           /\ timer[p] # None => timer'[p] = timer[p]
<1>1. /\ instances \in [Process -> SUBSET started] /\ started \subseteq Process
      /\ left \in [Process -> [Process -> -1..Ttl]]
      /\ timer \in [Process -> 0..Interval \cup {None}]
  BY DEF TypeOK
<1>2. /\ Interval \in 0..Interval /\ Ttl \in -1..Ttl /\ Interval # None
  BY TimesTyped, NoneDiffers DEF Ttl
<1>3. instances' = [instances EXCEPT ![p] = @ \cup {id}]
  BY DEF UpdateInstance
<1>4. left' = [left EXCEPT ![p][id] = Ttl]
  BY DEF UpdateInstance, FullTtl
<1>5. timer' = [timer EXCEPT ![p] =
                  IF @ = None /\ Cardinality(instances[p] \cup {id}) > 1 THEN Interval ELSE @]
  BY DEF UpdateInstance
<1>6. /\ instances' \in [Process -> SUBSET started]
      /\ instances'[p] = instances[p] \cup {id}
      /\ \A q \in Process \ {p} : instances'[q] = instances[q]
  BY <1>1, <1>3
<1>7. /\ left' \in [Process -> [Process -> -1..Ttl]]
      /\ \A q \in Process \ {p} : left'[q] = left[q]
      /\ \A q \in Process : left'[p][q] = IF q = id THEN Ttl ELSE left[p][q]
  <2> PICK T : T = -1..Ttl
    OBVIOUS
  <2>1. left \in [Process -> [Process -> T]] /\ Ttl \in T /\ id \in Process
    BY <1>1, <1>2
  <2>2. /\ left' \in [Process -> [Process -> T]]
        /\ \A q \in Process \ {p} : left'[q] = left[q]
        /\ \A q \in Process : left'[p][q] = IF q = id THEN Ttl ELSE left[p][q]
    BY ONLY <1>4, <2>1, p \in Process
  <2> QED
    BY <2>2
<1>8. /\ timer' \in [Process -> 0..Interval \cup {None}]
      /\ \A q \in Process \ {p} : timer'[q] = timer[q]
      /\ Cardinality(instances[p] \cup {id}) > 1 => timer'[p] # None
      /\ timer[p] # None => timer'[p] = timer[p]
  <2> PICK T : T = 0..Interval
    OBVIOUS
  <2>1. timer \in [Process -> T \cup {None}] /\ Interval \in T /\ Interval # None
    BY <1>1, <1>2
  <2>2. /\ timer' \in [Process -> T \cup {None}]
        /\ \A q \in Process \ {p} : timer'[q] = timer[q]
        /\ timer'[p] = IF timer[p] = None /\ Cardinality(instances[p] \cup {id}) > 1
                       THEN Interval ELSE timer[p]
    BY ONLY <1>5, <2>1, p \in Process
  <2> QED
    BY <2>1, <2>2
<1> QED
  BY <1>6, <1>7, <1>8

LEMMA DeleteEffect ==
    ASSUME TypeOK, NEW p \in Process, NEW gone, DeleteInstances(p, gone)
    PROVE  /\ instances' \in [Process -> SUBSET started]
           /\ left' \in [Process -> [Process -> -1..Ttl]]
           /\ \A q \in Process \ {p} : instances'[q] = instances[q] /\ left'[q] = left[q]
           /\ instances'[p] = instances[p] \ gone
           /\ \A q \in Process \ gone : left'[p][q] = left[p][q]
<1>1. /\ instances \in [Process -> SUBSET started] /\ left \in [Process -> [Process -> -1..Ttl]]
  BY DEF TypeOK
<1>2. 0 \in -1..Ttl
  BY TimesTyped DEF Ttl
<1>3. /\ instances' = [instances EXCEPT ![p] = instances[p] \ gone]
      /\ left' = [left EXCEPT ![p] = [q \in Process |-> IF q \in gone THEN 0 ELSE @[q]]]
  BY DEF DeleteInstances, Remaining
<1>4. /\ instances' \in [Process -> SUBSET started]
      /\ \A q \in Process \ {p} : instances'[q] = instances[q]
      /\ instances'[p] = instances[p] \ gone
  BY <1>1, <1>3
<1> PICK T : T = -1..Ttl
  OBVIOUS
<1>5. /\ left' \in [Process -> [Process -> T]]
      /\ \A q \in Process \ {p} : left'[q] = left[q]
      /\ \A q \in Process \ gone : left'[p][q] = left[p][q]
  <2>1. left \in [Process -> [Process -> T]] /\ 0 \in T
    BY <1>1, <1>2
  <2> QED
    BY ONLY <1>3, <2>1, p \in Process
<1> QED
  BY <1>4, <1>5

\* The health check of a process that still knows others goes on.
LEMMA StopEffect ==
    ASSUME TypeOK, NEW p \in Process, NEW gone,
           Cardinality(instances[p]) > 1 => timer[p] # None
    PROVE  /\ StopIfAlone(p, gone) \in {None, timer[p]}
           /\ Cardinality(instances[p] \ gone) > 1 => StopIfAlone(p, gone) # None
<1>1. instances[p] \in SUBSET Process
  BY DEF TypeOK
<1>2. /\ Cardinality(instances[p]) \in Nat /\ Cardinality(instances[p] \ gone) \in Nat
      /\ Cardinality(instances[p] \ gone) <= Cardinality(instances[p])
  BY <1>1, InstancesCounted
<1>3. StopIfAlone(p, gone) = IF gone # {} /\ Cardinality(instances[p] \ gone) < 2
                             THEN None ELSE timer[p]
  BY DEF StopIfAlone, Remaining
<1> QED
  BY <1>2, <1>3

Knows == KnowsSelf /\ KnowersCheck /\ Forgetting

\* Nobody learns, forgets, comes or goes, but that processes may start to terminate.
LEMMA KnowsSame ==
    ASSUME IInv, UNCHANGED <<alive, discoveryVars, age, late>>, leaving \subseteq leaving'
    PROVE  Knows'
<1>1. KnowsSelf'
  BY DEF IInv, KnowsSelf, discoveryVars
<1>2. KnowersCheck'
  BY DEF IInv, KnowersCheck, discoveryVars
<1>3. Forgetting'
  BY DEF IInv, Forgetting, RunsOut, discoveryVars
<1> QED
  BY <1>1, <1>2, <1>3 DEF Knows

\* p has heard of id.
LEMMA UpdateKnows ==
    ASSUME IInv, NEW p \in alive, NEW id \in started, id \in alive \/ age[id] <= late,
           UpdateInstance(p, id), UNCHANGED <<alive, leaving, age, late>>
    PROVE  Knows'
<1>1. p \in Process /\ TypeOK
  BY DEF IInv, Typed, TypeOK
<1>2. /\ \A q \in Process \ {p} : /\ instances'[q] = instances[q] /\ left'[q] = left[q]
                                  /\ timer'[q] = timer[q]
      /\ instances'[p] = instances[p] \cup {id}
      /\ \A q \in Process : left'[p][q] = IF q = id THEN Ttl ELSE left[p][q]
      /\ Cardinality(instances'[p]) > 1 => timer'[p] # None
      /\ timer[p] # None => timer'[p] = timer[p]
  BY <1>1, UpdateEffect
<1>3. alive \subseteq Process /\ \A q \in Process : instances[q] \subseteq Process
  BY DEF IInv, Typed, TypeOK
<1>4. KnowsSelf'
  BY <1>2, <1>3 DEF IInv, KnowsSelf
<1>5. KnowersCheck'
  BY <1>2, <1>3 DEF IInv, KnowersCheck
<1>6. ASSUME NEW r \in alive \ leaving, NEW q \in instances'[r], q \notin alive
      PROVE  RunsOut(r, q)'
  <2>1. CASE r # p
    BY <1>2, <1>3, <1>6, <2>1 DEF IInv, Forgetting, RunsOut
  <2>2. CASE r = p /\ q = id
    <3>1. left'[r][q] = Ttl /\ age'[q] <= late'
      BY <1>2, <1>3, <1>6, <2>2 DEF IInv, Typed, TypeOK
    <3>2. Ttl \in Nat /\ age[q] \in Nat /\ late \in Nat
      BY SMTT(30), <1>3, <1>6, <2>2, TimesTyped DEF IInv, Typed, TypeOK, Ttl
    <3> QED
      BY <3>1, <3>2 DEF RunsOut
  <2>3. CASE r = p /\ q # id
    <3>1. q \in instances[p] /\ q # p /\ q \in Process
      BY <1>2, <1>3, <1>6, <2>3
    <3>2. RunsOut(p, q)
      BY <1>6, <2>3, <3>1 DEF IInv, Forgetting
    <3>3. timer[p] # None
      BY <1>6, <2>3, <3>1, MemberChecks, NoneDiffers, TimesTyped
    <3> QED
      BY <1>2, <2>3, <3>1, <3>2, <3>3 DEF RunsOut
  <2> QED
    BY <2>1, <2>2, <2>3
<1>7. Forgetting'
  BY <1>6 DEF Forgetting
<1> QED
  BY <1>4, <1>5, <1>7 DEF Knows

\* p forgets the processes in gone, which it is not one of unless it terminates.
LEMMA DeleteKnows ==
    ASSUME IInv, NEW p \in alive, NEW gone, p \in gone => p \in leaving,
           DeleteInstances(p, gone), NEW T, timer' = [timer EXCEPT ![p] = T],
           Cardinality(instances[p] \ gone) > 1 => T # None,
           \/ T \in {None, timer[p]}
           \/ \A q \in instances[p] \ gone : q # p => left[p][q] >= 0,
           UNCHANGED <<alive, leaving, age, late>>
    PROVE  Knows'
<1>1. p \in Process /\ TypeOK
  BY DEF IInv, Typed, TypeOK
<1>2. /\ \A q \in Process \ {p} : instances'[q] = instances[q] /\ left'[q] = left[q]
      /\ instances'[p] = instances[p] \ gone
      /\ \A q \in Process \ gone : left'[p][q] = left[p][q]
  BY <1>1, DeleteEffect
<1>3. alive \subseteq Process /\ \A q \in Process : instances[q] \subseteq Process
  BY DEF IInv, Typed, TypeOK
<1>4. timer'[p] = T /\ \A q \in Process \ {p} : timer'[q] = timer[q]
  BY <1>1 DEF TypeOK
<1>5. KnowsSelf'
  BY <1>2, <1>3 DEF IInv, KnowsSelf
<1>6. KnowersCheck'
  BY <1>2, <1>3, <1>4 DEF IInv, KnowersCheck
<1>7. ASSUME NEW r \in alive \ leaving, NEW q \in instances'[r], q \notin alive
      PROVE  RunsOut(r, q)'
  <2>1. CASE r # p
    BY <1>2, <1>3, <1>4, <1>7, <2>1 DEF IInv, Forgetting, RunsOut
  <2>2. CASE r = p
    <3>1. q \in instances[p] \ gone /\ q # p /\ q \in Process
      BY <1>2, <1>3, <1>7, <2>2
    <3>2. RunsOut(p, q) /\ left'[p][q] = left[p][q]
      BY <1>2, <1>7, <2>2, <3>1 DEF IInv, Forgetting
    <3>3. T # None
      <4>1. p \in instances[p] \ gone /\ instances[p] \ gone \in SUBSET Process
        BY <1>3, <1>7, <2>2 DEF IInv, KnowsSelf
      <4>2. Cardinality(instances[p] \ gone) > 1
        BY <3>1, <4>1, TwoKnown
      <4> QED
        BY <4>2
    <3> QED
      BY <1>4, <2>2, <3>1, <3>2, <3>3 DEF RunsOut
  <2> QED
    BY <2>1, <2>2
<1>8. Forgetting'
  BY <1>7 DEF Forgetting
<1> QED
  BY <1>5, <1>6, <1>8 DEF Knows

-----------------------------------------------------------------------------
(* The steps of the processes that run. *)

\* Types are kept by a step at which the clock stands and nobody comes or goes.
LEMMA StandingTyped ==
    ASSUME Typed, UNCHANGED <<redis, alive, started, age, late>>,
           leaving \subseteq leaving', leaving' \subseteq started, up' \in BOOLEAN,
           subscribers' \subseteq Channel \X Process,
           pending' \subseteq Channel \X alive, pending' # {} => redis,
           inbox' \in [Process -> Seq(Frame)],
           \A q \in Process \ alive : inbox'[q] = inbox[q],
           NEW m, Carries(inbox', m), Tells(m)',
           instances' \in [Process -> SUBSET started],
           left' \in [Process -> [Process -> -1..Ttl]],
           timer' \in [Process -> 0..Interval \cup {None}],
           \A q \in Process \ alive : timer'[q] = timer[q]
    PROVE  Typed'
<1>1. TypeOK'
  <2> HIDE DEF Channel
  <2>1. /\ {redis, up}' \subseteq BOOLEAN
        /\ \A p \in Process \ alive : inbox'[p] = <<>>
        /\ alive \subseteq started /\ started \subseteq Process
        /\ age \in [Process -> 0..Ttl + Interval + MaxLate + 1]
        /\ late \in 0..MaxLate
    BY DEF Typed, TypeOK
  <2> QED
    BY <2>1 DEF TypeOK, Ttl, Channel
<1>2. MessagesTell'
  BY CarriedTells
<1>3. \A p \in Process \ alive : timer'[p] = None
  BY DEF Typed
<1> QED
  BY <1>1, <1>2, <1>3 DEF Typed

LEMMA ArrivesKeeps ==
    ASSUME IInv, NEW s \in pending, SubscriptionArrives(s)
    PROVE  IInv'
<1>1. Knows'
  BY KnowsSame DEF SubscriptionArrives, clockVars
<1>2. /\ subscribers' \subseteq Channel \X Process
      /\ pending' \subseteq Channel \X alive /\ (pending' # {} => redis)
  <2> HIDE DEF Channel
  <2> QED
    BY DEF SubscriptionArrives, IInv, Typed, TypeOK
<1>3. TypeOK'
  <2> HIDE DEF Channel
  <2> QED
    BY <1>2 DEF SubscriptionArrives, discoveryVars, clockVars, IInv, Typed, TypeOK
<1>4. MessagesTell'
  BY DEF SubscriptionArrives, clockVars, IInv, Typed, MessagesTell, Tells
<1>5. Typed'
  BY <1>3, <1>4 DEF SubscriptionArrives, discoveryVars, IInv, Typed
<1> QED
  BY <1>1, <1>5 DEF IInv, Knows

\* What the message that p receives says.
LEMMA Received ==
    ASSUME IInv, NEW p \in Process, NEW ch \in Channel, NEW id \in Process, Receives(p, ch, id)
    PROVE  /\ inbox[p] # <<>> /\ p \in alive
           /\ Tells([channel |-> ch, data |-> id])
           /\ id \in started
           /\ ch = DeleteChannel => id \in leaving
           /\ ch \notin {AddChannel, DeleteChannel} => id \in alive \/ age[id] <= late
<1>1. inbox[p] # <<>> /\ p \in alive /\ Head(inbox[p]) = [channel |-> ch, data |-> id]
  BY DEF Receives
<1>2. Tells(Head(inbox[p]))
  BY <1>1, Taken DEF IInv
<1> QED
  BY <1>1, <1>2 DEF Tells

\* The rest of the inbox of p, with a message that tells.
LEMMA RestTyped ==
    ASSUME IInv, NEW p \in alive, inbox[p] # <<>>, inbox' = InboxAfter(p), NEW m
    PROVE  /\ inbox' \in [Process -> Seq(Frame)]
           /\ \A q \in Process \ alive : inbox'[q] = inbox[q]
           /\ Carries(inbox', m)
<1>1. p \in Process
  BY DEF IInv, Typed, TypeOK
<1> QED
  BY <1>1, Taken DEF IInv

LEMMA OnAddKeeps ==
    ASSUME IInv, NEW p \in Process, NEW id \in Process, OnAdd(p, id)
    PROVE  IInv'
<1>1. Receives(p, AddChannel, id)
  BY DEF OnAdd
<1>2. inbox[p] # <<>> /\ p \in alive
  BY <1>1, ChannelsTyped, Received
<1>3. TypeOK /\ UNCHANGED <<redis, alive, started, leaving, instances, left, timer, age, late>>
  BY DEF IInv, Typed, OnAdd, discoveryVars, clockVars
<1>4. /\ InboxAfter(p) \in [Process -> Seq(Frame)]
      /\ \A q \in Process \ {p} : InboxAfter(p)[q] = inbox[q]
      /\ \A m : Carries(InboxAfter(p), m)
  BY <1>2, Taken DEF IInv
<1> PICK ch, m : ch = DiscoveryChannel(id) /\ m = [channel |-> ch, data |-> p]
  OBVIOUS
<1>5. ch \in Channel /\ ch \notin {AddChannel, DeleteChannel}
  BY ChannelsTyped
<1>6. Publish(p, ch, Others(p), InboxAfter(p))
  BY DEF OnAdd
<1>7. up \in BOOLEAN /\ redis \in BOOLEAN
  BY <1>3 DEF TypeOK
<1>8. /\ inbox' \in [Process -> Seq(Frame)]
      /\ Carries(inbox', m)
      /\ \A q \in Process \ alive : inbox'[q] = InboxAfter(p)[q]
      /\ up' \in BOOLEAN
  BY <1>4, <1>5, <1>6, <1>7, PublishEffect
<1>9. \A q \in Process \ alive : inbox'[q] = inbox[q]
  BY <1>2, <1>4, <1>8
<1>10. Tells(m)'
  BY <1>2, <1>3, <1>5 DEF Tells, TypeOK
<1>11. /\ subscribers' \subseteq Channel \X Process
       /\ pending' \subseteq Channel \X alive /\ (pending' # {} => redis)
  <2>1. InfoChannel(id) \in Channel
    BY ChannelsTyped
  <2>2. Subscribe(p, {InfoChannel(id)}) /\ {InfoChannel(id)} \in SUBSET Channel
    BY <2>1 DEF OnAdd
  <2>3. alive \cup {p} = alive
    BY <1>2
  <2> QED
    BY <1>3, <2>2, <2>3, SubscribeTyped
<1>12. Typed'
  <2> HIDE DEF Channel
  <2>1. Typed /\ leaving \subseteq started
    BY DEF IInv, Typed, TypeOK
  <2>2. /\ instances' \in [Process -> SUBSET started]
        /\ left' \in [Process -> [Process -> -1..Ttl]]
        /\ timer' \in [Process -> 0..Interval \cup {None}]
    BY <1>3 DEF TypeOK
  <2> QED
    BY <1>3, <1>8, <1>9, <1>10, <1>11, <2>1, <2>2, StandingTyped
<1>13. Knows'
  BY <1>3, KnowsSame DEF discoveryVars
<1> QED
  BY <1>12, <1>13 DEF IInv, Knows

LEMMA OnDiscoveryKeeps ==
    ASSUME IInv, NEW p \in Process, NEW id \in Process, OnDiscovery(p, id)
    PROVE  IInv'
<1> PICK ch, m : ch = DiscoveryChannel(p) /\ m = [channel |-> ch, data |-> id]
  OBVIOUS
<1>1. ch \in Channel /\ ch \notin {AddChannel, DeleteChannel}
  BY ChannelsTyped
<1>2. Receives(p, ch, id)
  BY DEF OnDiscovery
<1>3. /\ inbox[p] # <<>> /\ p \in alive
      /\ Tells(m) /\ id \in started /\ (id \in alive \/ age[id] <= late)
  BY <1>1, <1>2, Received
<1>4. Typed /\ TypeOK /\ UNCHANGED <<redis, up, alive, started, leaving, age, late>>
  BY DEF IInv, Typed, OnDiscovery, clockVars
<1>5. /\ inbox' \in [Process -> Seq(Frame)]
      /\ \A q \in Process \ alive : inbox'[q] = inbox[q]
      /\ Carries(inbox', m)
  BY <1>3, RestTyped DEF OnDiscovery
<1>6. Tells(m)'
  BY <1>3, <1>4 DEF Tells
<1>7. /\ subscribers' \subseteq Channel \X Process
      /\ pending' \subseteq Channel \X alive /\ (pending' # {} => redis)
  <2>1. InfoChannel(id) \in Channel
    BY ChannelsTyped
  <2>2. Subscribe(p, {InfoChannel(id)}) /\ {InfoChannel(id)} \in SUBSET Channel
    BY <2>1 DEF OnDiscovery
  <2>3. alive \cup {p} = alive
    BY <1>3
  <2> QED
    BY <1>4, <2>2, <2>3, SubscribeTyped
<1>8. UpdateInstance(p, id)
  BY DEF OnDiscovery
<1>9. Typed'
  <2> HIDE DEF Channel
  <2>1. leaving \subseteq started /\ up' \in BOOLEAN
    BY <1>4 DEF TypeOK
  <2>2. /\ instances' \in [Process -> SUBSET started]
        /\ left' \in [Process -> [Process -> -1..Ttl]]
        /\ timer' \in [Process -> 0..Interval \cup {None}]
        /\ \A q \in Process \ {p} : timer'[q] = timer[q]
    BY <1>3, <1>4, <1>8, UpdateEffect
  <2>3. \A q \in Process \ alive : timer'[q] = timer[q]
    BY <1>3, <2>2
  <2> QED
    BY <1>4, <1>5, <1>6, <1>7, <2>1, <2>2, <2>3, StandingTyped
<1>10. Knows'
  BY <1>3, <1>4, <1>8, UpdateKnows
<1> QED
  BY <1>9, <1>10 DEF IInv, Knows

LEMMA OnInfoKeeps ==
    ASSUME IInv, NEW p \in Process, NEW id \in Process, OnInfo(p, id)
    PROVE  IInv'
<1> PICK ch, m : ch = InfoChannel(id) /\ m = [channel |-> ch, data |-> id]
  OBVIOUS
<1>1. ch \in Channel /\ ch \notin {AddChannel, DeleteChannel}
  BY ChannelsTyped
<1>2. Receives(p, ch, id)
  BY DEF OnInfo
<1>3. /\ inbox[p] # <<>> /\ p \in alive
      /\ Tells(m) /\ id \in started /\ (id \in alive \/ age[id] <= late)
  BY <1>1, <1>2, Received
<1>4. Typed /\ TypeOK
      /\ UNCHANGED <<redis, up, alive, subscribers, pending, started, leaving, age, late>>
  BY DEF IInv, Typed, OnInfo, clockVars
<1>5. /\ inbox' \in [Process -> Seq(Frame)]
      /\ \A q \in Process \ alive : inbox'[q] = inbox[q]
      /\ Carries(inbox', m)
  BY <1>3, RestTyped DEF OnInfo
<1>6. Tells(m)'
  BY <1>3, <1>4 DEF Tells
<1>7. UpdateInstance(p, id)
  BY DEF OnInfo
<1>8. Typed'
  <2> HIDE DEF Channel
  <2>1. /\ leaving \subseteq started /\ up' \in BOOLEAN
        /\ subscribers' \subseteq Channel \X Process
        /\ pending' \subseteq Channel \X alive /\ (pending' # {} => redis)
    BY <1>4 DEF TypeOK
  <2>2. /\ instances' \in [Process -> SUBSET started]
        /\ left' \in [Process -> [Process -> -1..Ttl]]
        /\ timer' \in [Process -> 0..Interval \cup {None}]
        /\ \A q \in Process \ {p} : timer'[q] = timer[q]
    BY <1>3, <1>4, <1>7, UpdateEffect
  <2>3. \A q \in Process \ alive : timer'[q] = timer[q]
    BY <1>3, <2>2
  <2> QED
    BY <1>4, <1>5, <1>6, <2>1, <2>2, <2>3, StandingTyped
<1>9. Knows'
  BY <1>3, <1>4, <1>7, UpdateKnows
<1> QED
  BY <1>8, <1>9 DEF IInv, Knows

LEMMA OnDeleteKeeps ==
    ASSUME IInv, NEW p \in Process, NEW id \in Process, OnDelete(p, id)
    PROVE  IInv'
<1> PICK ch, m, T : /\ ch = DeleteChannel /\ m = [channel |-> ch, data |-> id]
                    /\ T = StopIfAlone(p, {id})
  OBVIOUS
<1>1. ch \in Channel /\ Receives(p, ch, id)
  BY ChannelsTyped DEF OnDelete
<1>2. inbox[p] # <<>> /\ p \in alive /\ Tells(m) /\ id \in leaving
  BY <1>1, Received
<1>3. Typed /\ TypeOK /\ UNCHANGED <<redis, up, alive, started, leaving, age, late>>
  BY DEF IInv, Typed, OnDelete, clockVars
<1>4. /\ inbox' \in [Process -> Seq(Frame)]
      /\ \A q \in Process \ alive : inbox'[q] = inbox[q]
      /\ Carries(inbox', m)
  BY <1>2, RestTyped DEF OnDelete
<1>5. Tells(m)'
  BY <1>2, <1>3 DEF Tells
<1>6. /\ Unsubscribe(p, {InfoChannel(id)}) /\ DeleteInstances(p, {id})
      /\ timer' = [timer EXCEPT ![p] = T]
  BY DEF OnDelete
<1>7. T \in {None, timer[p]} /\ (Cardinality(instances[p] \ {id}) > 1 => T # None)
  BY <1>2, <1>3, StopEffect DEF IInv, KnowersCheck
<1>8. Typed'
  <2> HIDE DEF Channel
  <2>1. leaving \subseteq started /\ up' \in BOOLEAN
    BY <1>3 DEF TypeOK
  <2>2. /\ subscribers' \subseteq Channel \X Process
        /\ pending' \subseteq Channel \X alive /\ (pending' # {} => redis)
    BY <1>3, <1>6, UnsubscribeTyped
  <2>3. /\ instances' \in [Process -> SUBSET started]
        /\ left' \in [Process -> [Process -> -1..Ttl]]
    BY <1>3, <1>6, DeleteEffect
  <2>4. /\ timer' \in [Process -> 0..Interval \cup {None}]
        /\ \A q \in Process \ alive : timer'[q] = timer[q]
    <3>1. timer \in [Process -> 0..Interval \cup {None}]
      BY <1>3 DEF TypeOK
    <3> QED
      BY <1>2, <1>6, <1>7, <3>1
  <2> QED
    BY <1>3, <1>4, <1>5, <2>1, <2>2, <2>3, <2>4, StandingTyped
<1>9. Knows'
  BY <1>2, <1>3, <1>6, <1>7, DeleteKnows
<1> QED
  BY <1>8, <1>9 DEF IInv, Knows

LEMMA DropKeeps ==
    ASSUME IInv, NEW p \in Process, DropMessage(p)
    PROVE  IInv'
<1> PICK m : m = Head(inbox[p])
  OBVIOUS
<1>1. /\ Typed /\ TypeOK /\ inbox[p] # <<>> /\ p \in alive
      /\ UNCHANGED <<redis, up, alive, subscribers, pending, started, leaving,
                      instances, left, timer, age, late>>
  BY DEF IInv, Typed, DropMessage, discoveryVars, clockVars
<1>2. /\ inbox' \in [Process -> Seq(Frame)]
      /\ \A q \in Process \ alive : inbox'[q] = inbox[q]
      /\ Carries(inbox', m)
  BY <1>1, RestTyped DEF DropMessage
<1>3. Tells(m)
  BY <1>1, Taken
<1>4. Tells(m)'
  BY <1>1, <1>3 DEF Tells
<1>5. Typed'
  <2> HIDE DEF Channel
  <2>1. /\ leaving \subseteq started /\ up' \in BOOLEAN
        /\ subscribers' \subseteq Channel \X Process
        /\ pending' \subseteq Channel \X alive /\ (pending' # {} => redis)
        /\ instances' \in [Process -> SUBSET started]
        /\ left' \in [Process -> [Process -> -1..Ttl]]
        /\ timer' \in [Process -> 0..Interval \cup {None}]
    BY <1>1 DEF TypeOK
  <2> QED
    BY <1>1, <1>2, <1>4, <2>1, StandingTyped
<1>6. Knows'
  BY <1>1, KnowsSame DEF discoveryVars
<1> QED
  BY <1>5, <1>6 DEF IInv, Knows

LEMMA HealthCheckKeeps ==
    ASSUME IInv, NEW p \in Process, HealthCheck(p)
    PROVE  IInv'
<1> PICK ch, m, gone, T :
      /\ ch = InfoChannel(p) /\ m = [channel |-> ch, data |-> p] /\ gone = Expired(p)
      /\ T = IF StopIfAlone(p, gone) = None THEN None ELSE Interval
  OBVIOUS
<1>1. /\ Typed /\ TypeOK /\ p \in alive /\ timer[p] = 0
      /\ UNCHANGED <<redis, alive, started, leaving, age, late>>
  BY DEF IInv, Typed, HealthCheck, clockVars
<1>2. /\ Publish(p, ch, Others(p), inbox) /\ DeleteInstances(p, gone)
      /\ timer' = [timer EXCEPT ![p] = T]
  BY DEF HealthCheck
<1>3. ch \in Channel /\ ch \notin {AddChannel, DeleteChannel}
  BY ChannelsTyped
<1>4. /\ inbox' \in [Process -> Seq(Frame)]
      /\ \A q \in Process \ alive : inbox'[q] = inbox[q]
      /\ Carries(inbox', m) /\ up' \in BOOLEAN
  <2>1. /\ inbox \in [Process -> Seq(Frame)] /\ up \in BOOLEAN /\ redis \in BOOLEAN
        /\ Carries(inbox, m)
    BY <1>1, NothingTaken DEF Typed, TypeOK
  <2> QED
    BY <1>2, <1>3, <2>1, PublishEffect
<1>5. Tells(m)'
  BY <1>1, <1>3 DEF Tells, TypeOK
<1>6. Cardinality(instances[p] \ gone) > 1 => StopIfAlone(p, gone) # None
  BY <1>1, StopEffect DEF IInv, KnowersCheck
<1>7. Interval # None /\ Interval \in 0..Interval
  BY TimesTyped, NoneDiffers
<1>8. Typed'
  <2> HIDE DEF Channel
  <2>1. leaving \subseteq started
    BY <1>1 DEF TypeOK
  <2>2. /\ subscribers' \subseteq Channel \X Process
        /\ pending' \subseteq Channel \X alive /\ (pending' # {} => redis)
    BY <1>1, UnsubscribeTyped DEF HealthCheck
  <2>3. /\ instances' \in [Process -> SUBSET started]
        /\ left' \in [Process -> [Process -> -1..Ttl]]
    BY <1>1, <1>2, DeleteEffect
  <2>4. /\ timer' \in [Process -> 0..Interval \cup {None}]
        /\ \A q \in Process \ alive : timer'[q] = timer[q]
    <3>1. timer \in [Process -> 0..Interval \cup {None}]
      BY <1>1 DEF TypeOK
    <3> QED
      BY <1>1, <1>2, <1>7, <3>1
  <2> QED
    BY <1>1, <1>4, <1>5, <2>1, <2>2, <2>3, <2>4, StandingTyped
<1>9. Knows'
  <2>1. p \notin gone
    BY DEF Expired
  <2>2. \A q \in instances[p] \ gone : q # p => left[p][q] >= 0
    <3> SUFFICES ASSUME NEW q \in instances[p] \ gone, q # p
        PROVE  left[p][q] >= 0
      OBVIOUS
    <3>1. left[p][q] \in -1..Ttl /\ left[p][q] # -1
      BY <1>1 DEF TypeOK, Expired
    <3>2. Ttl \in Nat
      BY TimesTyped DEF Ttl
    <3> QED
      BY ONLY <3>1, <3>2
  <2> QED
    BY <1>1, <1>2, <1>6, <1>7, <2>1, <2>2, DeleteKnows
<1> QED
  BY <1>8, <1>9 DEF IInv, Knows

LEMMA TerminateKeeps ==
    ASSUME IInv, NEW p \in Process, Terminate(p)
    PROVE  IInv'
<1> PICK ch, m : ch = DeleteChannel /\ m = [channel |-> ch, data |-> p]
  OBVIOUS
<1>1. /\ Typed /\ TypeOK /\ p \in alive /\ leaving' = leaving \cup {p}
      /\ UNCHANGED <<redis, alive, subscribers, pending, started, instances, left, timer, age, late>>
  BY DEF IInv, Typed, Terminate, discoveryVars, clockVars
<1>2. Publish(p, ch, Process, inbox)
  BY DEF Terminate
<1>3. ch \in Channel
  BY ChannelsTyped
<1>4. /\ inbox' \in [Process -> Seq(Frame)]
      /\ \A q \in Process \ alive : inbox'[q] = inbox[q]
      /\ Carries(inbox', m) /\ up' \in BOOLEAN
  <2>1. /\ inbox \in [Process -> Seq(Frame)] /\ up \in BOOLEAN /\ redis \in BOOLEAN
        /\ Carries(inbox, m)
    BY <1>1, NothingTaken DEF Typed, TypeOK
  <2> QED
    BY <1>2, <1>3, <2>1, PublishEffect
<1>5. Tells(m)'
  BY <1>1 DEF Tells, TypeOK
<1>6. Typed'
  <2> HIDE DEF Channel
  <2>1. /\ leaving \subseteq leaving' /\ leaving' \subseteq started
        /\ subscribers' \subseteq Channel \X Process
        /\ pending' \subseteq Channel \X alive /\ (pending' # {} => redis)
        /\ instances' \in [Process -> SUBSET started]
        /\ left' \in [Process -> [Process -> -1..Ttl]]
        /\ timer' \in [Process -> 0..Interval \cup {None}]
    BY <1>1 DEF TypeOK
  <2> QED
    BY <1>1, <1>4, <1>5, <2>1, StandingTyped
<1>7. Knows'
  <2>1. leaving \subseteq leaving'
    BY <1>1
  <2> QED
    BY <1>1, <2>1, KnowsSame DEF discoveryVars
<1> QED
  BY <1>6, <1>7 DEF IInv, Knows

-----------------------------------------------------------------------------
(* Processes come and go, and the clock goes on. *)

LEMMA StartKeeps ==
    ASSUME IInv, NEW p \in Process, StartProcess(p)
    PROVE  IInv'
<1> PICK ch, m, chs :
      /\ ch = AddChannel /\ m = [channel |-> ch, data |-> p]
      /\ chs = {AddChannel, DeleteChannel, DiscoveryChannel(p)}
  OBVIOUS
<1>1. /\ Typed /\ TypeOK /\ p \notin started
      /\ started' = started \cup {p} /\ alive' = alive \cup {p}
      /\ instances' = [instances EXCEPT ![p] = {p}] /\ timer' = [timer EXCEPT ![p] = Interval]
      /\ UNCHANGED <<redis, leaving, left, age, late>>
  BY DEF IInv, Typed, StartProcess
<1>2. Publish(p, ch, Others(p), inbox) /\ Subscribe(p, chs)
  BY DEF StartProcess
<1>3. ch \in Channel /\ chs \in SUBSET Channel /\ ch # DeleteChannel
  BY ChannelsTyped
<1>4. /\ inbox' \in [Process -> Seq(Frame)]
      /\ \A q \in Process \ alive : inbox'[q] = inbox[q]
      /\ Carries(inbox', m) /\ up' \in BOOLEAN
  <2>1. /\ inbox \in [Process -> Seq(Frame)] /\ up \in BOOLEAN /\ redis \in BOOLEAN
        /\ Carries(inbox, m)
    BY <1>1, NothingTaken DEF Typed, TypeOK
  <2> QED
    BY <1>2, <1>3, <2>1, PublishEffect
<1>5. Tells(m)'
  BY <1>1, <1>3 DEF Tells
<1>6. MessagesTell'
  <2>1. started \subseteq started' /\ leaving \subseteq leaving' /\ alive \subseteq alive'
    BY <1>1
  <2> QED
    BY <1>1, <1>4, <1>5, <2>1, CarriedTells
<1>7. /\ subscribers' \subseteq Channel \X Process
      /\ pending' \subseteq Channel \X alive' /\ (pending' # {} => redis)
  BY <1>1, <1>2, <1>3, SubscribeTyped
<1>8. Interval # None /\ Interval \in 0..Interval
  BY TimesTyped, NoneDiffers
<1>9. /\ instances \in [Process -> SUBSET started] /\ started \subseteq Process
      /\ timer \in [Process -> 0..Interval \cup {None}] /\ alive \subseteq started
  BY <1>1 DEF TypeOK
<1>10. /\ instances' \in [Process -> SUBSET started']
       /\ instances'[p] = {p} /\ \A q \in Process \ {p} : instances'[q] = instances[q]
  BY <1>1, <1>9
<1>11. /\ timer' \in [Process -> 0..Interval \cup {None}]
       /\ timer'[p] = Interval /\ \A q \in Process \ {p} : timer'[q] = timer[q]
  BY <1>1, <1>8, <1>9
<1>12. TypeOK'
  <2> HIDE DEF Channel
  <2>1. /\ {redis, up}' \subseteq BOOLEAN
        /\ \A q \in Process \ alive' : inbox'[q] = <<>>
        /\ alive' \subseteq started' /\ started' \subseteq Process /\ leaving' \subseteq started'
        /\ left' \in [Process -> [Process -> -1..Ttl]]
        /\ age' \in [Process -> 0..Ttl + Interval + MaxLate + 1]
        /\ late' \in 0..MaxLate
    BY <1>1, <1>4 DEF TypeOK
  <2> QED
    BY <1>1, <1>7, <1>10, <1>11, <2>1 DEF TypeOK, Channel, Ttl
<1>13. \A q \in Process \ alive' : timer'[q] = None
  BY <1>1, <1>11 DEF Typed
<1>14. Typed'
  BY <1>4, <1>6, <1>12, <1>13 DEF Typed
<1>15. KnowsSelf'
  BY <1>1, <1>9, <1>10 DEF IInv, KnowsSelf
<1>16. KnowersCheck'
  BY <1>1, <1>8, <1>9, <1>10, <1>11 DEF IInv, KnowersCheck
<1>17. Forgetting'
  <2> SUFFICES ASSUME NEW r \in alive' \ leaving', NEW q \in instances'[r], q \notin alive'
      PROVE  RunsOut(r, q)'
    BY DEF Forgetting
  <2>1. r \in alive \ leaving /\ r # p /\ r \in Process /\ q \in instances[r] \ alive
    BY <1>1, <1>9, <1>10
  <2>2. RunsOut(r, q)
    BY <2>1 DEF IInv, Forgetting
  <2> QED
    BY <1>1, <1>11, <2>1, <2>2 DEF RunsOut
<1> QED
  BY <1>14, <1>15, <1>16, <1>17 DEF IInv

LEMMA ExitKeeps ==
    ASSUME IInv, NEW p \in Process, Exit(p)
    PROVE  IInv'
<1>1. /\ Typed /\ TypeOK /\ p \in alive
      /\ alive' = alive \ {p} /\ inbox' = [inbox EXCEPT ![p] = <<>>]
      /\ timer' = [timer EXCEPT ![p] = None] /\ age' = [age EXCEPT ![p] = 0]
      /\ UNCHANGED <<redis, up, started, leaving, late>>
  BY DEF IInv, Typed, Exit
<1>2. DeleteInstances(p, Process)
  BY DEF Exit
<1>3. /\ instances' \in [Process -> SUBSET started]
      /\ left' \in [Process -> [Process -> -1..Ttl]]
      /\ \A q \in Process \ {p} : instances'[q] = instances[q] /\ left'[q] = left[q]
  BY <1>1, <1>2, DeleteEffect
<1>4. /\ timer' \in [Process -> 0..Interval \cup {None}]
      /\ timer'[p] = None /\ \A q \in Process \ {p} : timer'[q] = timer[q]
  BY <1>1 DEF TypeOK
<1>5. /\ age' \in [Process -> 0..Ttl + Interval + MaxLate + 1]
      /\ age'[p] = 0 /\ \A q \in Process \ {p} : age'[q] = age[q]
  <2> PICK T : T = 0..Ttl + Interval + MaxLate + 1
    OBVIOUS
  <2>1. age \in [Process -> T] /\ 0 \in T
    BY <1>1, TimesTyped DEF TypeOK, Ttl
  <2>2. /\ age' \in [Process -> T]
        /\ age'[p] = 0 /\ \A q \in Process \ {p} : age'[q] = age[q]
    BY ONLY <1>1, <2>1, p \in Process
  <2> QED
    BY <2>2
<1>6. /\ inbox' \in [Process -> Seq(Frame)]
      /\ inbox'[p] = <<>> /\ \A q \in Process \ {p} : inbox'[q] = inbox[q]
  <2> HIDE DEF Frame
  <2>1. inbox \in [Process -> Seq(Frame)] /\ <<>> \in Seq(Frame)
    BY <1>1, EmptySeq DEF Typed
  <2> QED
    BY ONLY <1>1, <2>1, p \in Process
<1>7. /\ late \in Nat /\ Ttl \in Nat /\ Interval \in Nat
  BY <1>1, TimesTyped DEF TypeOK, Ttl
<1>8. TypeOK'
  <2> HIDE DEF Channel
  <2>1. /\ {redis, up}' \subseteq BOOLEAN
        /\ \A q \in Process \ alive' : inbox'[q] = <<>>
        /\ alive' \subseteq started' /\ started' \subseteq Process /\ leaving' \subseteq started'
        /\ late' \in 0..MaxLate
    BY <1>1, <1>6 DEF TypeOK
  <2>2. subscribers' \subseteq Channel \X Process
    BY <1>1 DEF TypeOK, Exit
  <2>3. pending' \subseteq Channel \X alive' /\ (pending' # {} => redis)
    <3>1. pending' = {s \in pending : s[2] # p} /\ pending \subseteq Channel \X alive
      BY <1>1 DEF TypeOK, Exit
    <3> QED
      BY <1>1, <3>1 DEF TypeOK
  <2> QED
    BY <1>1, <1>3, <1>4, <1>5, <2>1, <2>2, <2>3 DEF TypeOK, Channel, Ttl
<1>9. MessagesTell'
  <2> SUFFICES ASSUME NEW q \in Process, NEW i \in DOMAIN inbox'[q], NEW k, k = inbox'[q][i]
      PROVE  Tells(k)'
    BY DEF MessagesTell, Tells
  <2>1. q # p
    <3>1. DOMAIN <<>> = {}
      OBVIOUS
    <3> QED
      BY <1>6, <3>1
  <2>2. inbox'[q] = inbox[q]
    BY <1>6, <2>1
  <2>3. k \in Frame /\ Tells(k)
    <3> HIDE DEF Frame
    <3>1. inbox[q] \in Seq(Frame) /\ i \in DOMAIN inbox[q] /\ k = inbox[q][i]
      BY <1>1, <2>2 DEF Typed
    <3>2. k \in Frame
      BY <3>1, ElementOfSeq, LenProperties
    <3> QED
      BY <1>1, <3>1, <3>2 DEF Typed, MessagesTell
  <2>4. k.data \in alive \/ age[k.data] <= late => k.data \in alive' \/ age'[k.data] <= late'
    <3>1. k.data \in Process
      BY <2>3 DEF Frame
    <3>2. CASE k.data = p
      BY <1>1, <1>5, <1>7, <3>2
    <3>3. CASE k.data # p
      BY <1>1, <1>5, <3>1, <3>3
    <3> QED
      BY <3>2, <3>3
  <2> QED
    BY <1>1, <2>3, <2>4, StillTells
<1>10. \A q \in Process \ alive' : timer'[q] = None
  BY <1>1, <1>4 DEF Typed
<1>11. Typed'
  BY <1>6, <1>8, <1>9, <1>10 DEF Typed
<1>12. alive \subseteq Process /\ \A q \in Process : instances[q] \subseteq Process
  BY <1>1 DEF TypeOK
<1>13. KnowsSelf'
  BY <1>1, <1>3, <1>12 DEF IInv, KnowsSelf
<1>14. KnowersCheck'
  BY <1>1, <1>3, <1>4, <1>12 DEF IInv, KnowersCheck
<1>15. Forgetting'
  <2> SUFFICES ASSUME NEW r \in alive' \ leaving', NEW q \in instances'[r], q \notin alive'
      PROVE  RunsOut(r, q)'
    BY DEF Forgetting
  <2>1. /\ r \in alive \ leaving /\ r # p /\ r \in Process /\ q \in instances[r] /\ q \in Process
        /\ left'[r] = left[r] /\ timer'[r] = timer[r] /\ late' = late
    BY <1>1, <1>3, <1>4, <1>12
  <2>2. CASE q = p
    <3>1. left[r][q] \in -1..Ttl /\ timer[r] \in 0..Interval
      <4>1. q # r
        BY <2>1, <2>2
      <4>2. left[r][q] \in -1..Ttl
        BY <1>1, <2>1 DEF TypeOK
      <4>3. timer[r] \in 0..Interval
        BY <2>1, <4>1, MemberChecks
      <4> QED
        BY <4>2, <4>3
    <3>2. age'[q] = 0
      BY <1>5, <2>2
    <3> QED
      BY ONLY <1>7, <2>1, <3>1, <3>2 DEF RunsOut
  <2>3. CASE q # p
    <3>1. RunsOut(r, q) /\ age'[q] = age[q]
      BY <1>1, <1>5, <2>1, <2>3 DEF IInv, Forgetting
    <3> QED
      BY <2>1, <3>1 DEF RunsOut
  <2> QED
    BY <2>2, <2>3
<1> QED
  BY <1>11, <1>13, <1>14, <1>15 DEF IInv

LEMMA TickKeeps ==
    ASSUME IInv, Tick
    PROVE  IInv'
<1>1. /\ Typed /\ TypeOK
      /\ \A p \in alive : timer[p] # 0
      /\ UNCHANGED <<redis, up, alive, subscribers, pending, inbox, started, leaving, instances>>
  BY DEF IInv, Typed, Tick, busVars
<1>2. /\ Interval \in Nat /\ Interval > 0 /\ MaxLate \in Nat /\ Ttl = Interval + Interval /\ None \notin Int
  BY TimesTyped, NoneDiffers DEF Ttl
<1>3. /\ late \in 0..MaxLate /\ late' \in 0..MaxLate /\ late' >= late
      /\ InFlight # {} => late' = late + 1
  <2>1. late \in 0..MaxLate
    BY <1>1 DEF TypeOK
  <2>2. /\ late' = IF InFlight = {} THEN late ELSE late + 1
        /\ late' <= IF redis THEN 0 ELSE MaxLate
    BY DEF Tick
  <2> QED
    BY <1>2, <2>1, <2>2
<1>4. /\ timer' \in [Process -> 0..Interval \cup {None}]
      /\ \A q \in Process : timer'[q] = IF timer[q] = None THEN None ELSE timer[q] - 1
  <2>1. timer \in [Process -> 0..Interval \cup {None}]
    BY <1>1 DEF TypeOK
  <2>2. timer' = [q \in Process |-> IF timer[q] = None THEN None ELSE timer[q] - 1]
    BY DEF Tick
  <2>3. \A q \in Process : timer[q] # None => timer[q] # 0
    BY <1>1 DEF Typed
  <2>4. ASSUME NEW q \in Process
        PROVE  (IF timer[q] = None THEN None ELSE timer[q] - 1) \in 0..Interval \cup {None}
    <3>1. timer[q] = None \/ (timer[q] \in 0..Interval /\ timer[q] # 0)
      BY <2>1, <2>3
    <3> QED
      BY ONLY <1>2, <3>1
  <2> QED
    BY <2>2, <2>4
<1>5. /\ left \in [Process -> [Process -> -1..Ttl]]
      /\ left' \in [Process -> [Process -> -1..Ttl]]
      /\ \A q, r \in Process : left'[q][r] = IF r \in instances[q] \ {q} /\ left[q][r] > -1
                                             THEN left[q][r] - 1 ELSE left[q][r]
  <2>1. left \in [Process -> [Process -> -1..Ttl]]
    BY <1>1 DEF TypeOK
  <2>2. left' = [q \in Process |-> [r \in Process |->
                   IF r \in instances[q] \ {q} /\ left[q][r] > -1 THEN left[q][r] - 1 ELSE left[q][r]]]
    BY DEF Tick
  <2>3. ASSUME NEW q \in Process, NEW r \in Process
        PROVE  (IF r \in instances[q] \ {q} /\ left[q][r] > -1
                THEN left[q][r] - 1 ELSE left[q][r]) \in -1..Ttl
    <3>1. left[q][r] \in -1..Ttl
      BY <2>1
    <3> QED
      BY <1>2, <3>1
  <2> QED
    BY ONLY <2>1, <2>2, <2>3
<1>6. /\ age' \in [Process -> 0..Ttl + Interval + MaxLate + 1]
      /\ \A q \in Process : age[q] \in Nat /\ age'[q] \in Nat /\ age'[q] <= age[q] + 1
  <2>1. age \in [Process -> 0..Ttl + Interval + MaxLate + 1]
    BY <1>1 DEF TypeOK
  <2>2. age' = [q \in Process |-> IF q \in started /\ age[q] < MaxAge(q) THEN age[q] + 1 ELSE age[q]]
    BY DEF Tick
  <2>3. ASSUME NEW q \in Process
        PROVE  /\ age[q] \in Nat /\ age[q] <= Ttl + Interval + MaxLate + 1
               /\ age[q] < MaxAge(q) => age[q] + 1 <= Ttl + Interval + MaxLate + 1
    <3>1. age[q] \in 0..Ttl + Interval + MaxLate + 1
      BY <2>1
    <3>2. MaxAge(q) = MaxLate + 1 + Interval \/ MaxAge(q) = MaxLate + 1 + (Ttl + Interval)
      BY DEF MaxAge
    <3> QED
      BY ONLY <1>2, <3>1, <3>2
  <2>4. ASSUME NEW q \in Process
        PROVE  (IF q \in started /\ age[q] < MaxAge(q) THEN age[q] + 1 ELSE age[q])
                 \in 0..Ttl + Interval + MaxLate + 1
    BY <1>2, <2>3
  <2>5. age' \in [Process -> 0..Ttl + Interval + MaxLate + 1]
    BY ONLY <2>2, <2>4
  <2> QED
    BY <2>2, <2>3, <2>5
<1>7. TypeOK'
  <2> HIDE DEF Channel
  <2>1. /\ {redis, up}' \subseteq BOOLEAN
        /\ subscribers' \subseteq Channel \X Process
        /\ pending' \subseteq Channel \X alive' /\ (pending' # {} => redis')
        /\ \A q \in Process \ alive' : inbox'[q] = <<>>
        /\ alive' \subseteq started' /\ started' \subseteq Process /\ leaving' \subseteq started'
        /\ instances' \in [Process -> SUBSET started']
    BY <1>1 DEF TypeOK
  <2> QED
    BY <1>3, <1>4, <1>5, <1>6, <2>1 DEF TypeOK, Channel, Ttl
<1>8. MessagesTell'
  <2> SUFFICES ASSUME NEW q \in Process, NEW i \in DOMAIN inbox'[q], NEW k, k = inbox'[q][i]
      PROVE  Tells(k)'
    BY DEF MessagesTell, Tells
  <2>1. k \in Frame /\ Tells(k) /\ i \in DOMAIN inbox[q]
    <3> HIDE DEF Frame
    <3>1. inbox[q] \in Seq(Frame) /\ i \in DOMAIN inbox[q] /\ k = inbox[q][i]
      BY <1>1 DEF Typed
    <3>2. k \in Frame
      BY <3>1, ElementOfSeq, LenProperties
    <3> QED
      BY <1>1, <3>1, <3>2 DEF Typed, MessagesTell
  <2>2. InFlight # {}
    <3>1. inbox[q] # <<>>
      BY <2>1
    <3> QED
      BY <3>1 DEF InFlight
  <2>3. k.data \in alive \/ age[k.data] <= late => k.data \in alive' \/ age'[k.data] <= late'
    <3>1. k.data \in Process
      BY <2>1 DEF Frame
    <3>2. /\ age[k.data] \in Nat /\ age'[k.data] \in Nat /\ age'[k.data] <= age[k.data] + 1
          /\ late \in Nat /\ late' = late + 1
      BY <1>3, <1>6, <2>2, <3>1
    <3>3. age[k.data] <= late => age'[k.data] <= late'
      BY ONLY <3>2
    <3> QED
      BY <1>1, <3>3
  <2>4. started \subseteq started' /\ leaving \subseteq leaving'
    BY <1>1
  <2> QED
    BY <2>1, <2>3, <2>4, StillTells
<1>9. \A q \in Process \ alive' : timer'[q] = None
  BY <1>1, <1>4 DEF Typed
<1>10. Typed'
  BY <1>1, <1>7, <1>8, <1>9 DEF Typed
<1>11. alive \subseteq Process /\ \A q \in Process : instances[q] \subseteq Process
  BY <1>1 DEF TypeOK
<1>12. KnowsSelf'
  BY <1>1 DEF IInv, KnowsSelf
<1>13. KnowersCheck'
  <2> SUFFICES ASSUME NEW r \in alive, Cardinality(instances[r]) > 1
      PROVE  timer'[r] # None
    BY <1>1 DEF KnowersCheck
  <2>1. timer[r] # None /\ r \in Process
    BY <1>11 DEF IInv, KnowersCheck
  <2>2. timer[r] \in 0..Interval
    BY <1>1, <2>1 DEF TypeOK
  <2>3. timer'[r] = timer[r] - 1
    BY <1>4, <2>1
  <2> QED
    BY ONLY <1>2, <2>2, <2>3
<1>14. Forgetting'
  <2> SUFFICES ASSUME NEW r \in alive \ leaving, NEW q \in instances[r], q \notin alive
      PROVE  RunsOut(r, q)'
    BY <1>1 DEF Forgetting
  <2>1. r \in Process /\ q \in Process /\ q # r
    BY <1>11
  <2>2. RunsOut(r, q)
    BY DEF IInv, Forgetting
  <2>3. timer[r] \in 0..Interval /\ timer[r] # 0 /\ timer'[r] = timer[r] - 1
    <3>1. timer[r] \in 0..Interval
      BY <2>1, MemberChecks
    <3> QED
      BY <1>1, <1>2, <1>4, <2>1, <3>1
  <2>4. /\ left[r][q] \in -1..Ttl
        /\ left'[r][q] = IF left[r][q] > -1 THEN left[r][q] - 1 ELSE left[r][q]
    BY <1>5, <2>1
  <2>5. age[q] \in Nat /\ age'[q] \in Nat /\ age'[q] <= age[q] + 1
    BY <1>6, <2>1
  <2>6. IF left[r][q] >= 0 THEN age[q] + left[r][q] <= late + Ttl
        ELSE age[q] + timer[r] <= late + Ttl + Interval
    BY <2>2 DEF RunsOut
  <2>7. IF left'[r][q] >= 0 THEN age'[q] + left'[r][q] <= late' + Ttl
        ELSE age'[q] + timer'[r] <= late' + Ttl + Interval
    BY ONLY <1>2, <1>3, <2>3, <2>4, <2>5, <2>6
  <2> QED
    BY <2>7 DEF RunsOut, Ttl
<1> QED
  BY <1>10, <1>12, <1>13, <1>14 DEF IInv

-----------------------------------------------------------------------------
LEMMA IInvInit ==
    ASSUME Init
    PROVE  IInv
<1>1. /\ Interval \in Nat \ {0} /\ MaxLate \in Nat /\ Ttl \in Nat
  BY TimesTyped DEF Ttl
<1>2. TypeOK
  BY <1>1 DEF Init, TypeOK
<1>3. inbox \in [Process -> Seq(Frame)] /\ MessagesTell
  <2> HIDE DEF Frame
  <2>1. DOMAIN <<>> = {} /\ <<>> \in Seq(Frame)
    BY EmptySeq
  <2> QED
    BY <2>1 DEF Init, MessagesTell
<1>4. \A p \in Process : timer[p] = None
  BY DEF Init
<1>5. KnowsSelf /\ KnowersCheck /\ Forgetting
  BY DEF Init, KnowsSelf, KnowersCheck, Forgetting
<1> QED
  BY <1>2, <1>3, <1>4, <1>5 DEF IInv, Typed

LEMMA IInvStep ==
    ASSUME IInv, [Next]_vars
    PROVE  IInv'
<1>1. CASE Tick
  BY <1>1, TickKeeps
<1>2. CASE \E s \in pending : SubscriptionArrives(s)
  BY <1>2, ArrivesKeeps
<1>3. ASSUME NEW p \in Process, StartProcess(p) \/ Terminate(p) \/ Exit(p) \/ HealthCheck(p)
      PROVE  IInv'
  BY <1>3, StartKeeps, TerminateKeeps, ExitKeeps, HealthCheckKeeps
<1>4. ASSUME NEW p \in Process, Handle(p)
      PROVE  IInv'
  BY <1>4, DropKeeps, OnAddKeeps, OnDiscoveryKeeps, OnInfoKeeps, OnDeleteKeeps DEF Handle
<1>5. CASE UNCHANGED vars
  BY <1>5 DEF IInv, Typed, TypeOK, MessagesTell, Tells, KnowsSelf, KnowersCheck, Forgetting, RunsOut,
              vars, busVars, discoveryVars, clockVars, Channel
<1> QED
  BY <1>1, <1>2, <1>3, <1>4, <1>5 DEF Next

\* The inductive invariant of discovery: what messages report is not older than the
\* late ticks, and what a member knows of a process that is gone runs out.
THEOREM Invariance == Spec => []IInv
<1>1. Init => IInv
  BY IInvInit
<1>2. IInv /\ [Next]_vars => IInv'
  BY IInvStep
<1> QED
  BY <1>1, <1>2, PTL DEF Spec

\* The instances a process knows have been started, ttls and timers stay within their
\* intervals, and nothing is on its way to a process that is gone.
THEOREM TypeCorrect == Spec => []TypeOK
<1>1. IInv => TypeOK
  BY DEF IInv, Typed
<1> QED
  BY <1>1, Invariance, PTL

\* A process that knows another one reports to it and checks on it, however the
\* others come and go: UpdateInstance starts a health check that had stopped, and it
\* is stopped only when nobody else is left (ipcm/index.ts:141-170).
THEOREM KnowersKeepChecking == Spec => []KnowersCheck
<1>1. IInv => KnowersCheck
  BY DEF IInv
<1> QED
  BY <1>1, Invariance, PTL

\* A member forgets a process that is gone within three intervals, and the ticks lost
\* by late messages: a report that was under way renews the ttl of two intervals at
\* most late ticks after the end, and the check comes within one more
\* (ipcm/index.ts:106-111, 142).
THEOREM GoneAreForgotten == Spec => []GoneForgotten
<1>1. IInv => GoneForgotten
  <2> SUFFICES ASSUME IInv, NEW p \in Process, NEW q \in Process, Member(p), q \in started \ alive,
                      age[q] > Ttl + Interval + late, q \in instances[p]
      PROVE  FALSE
    BY DEF GoneForgotten
  <2>1. p \in alive \ leaving /\ q # p
    BY DEF Member
  <2>2. RunsOut(p, q)
    BY <2>1 DEF IInv, Forgetting
  <2>3. timer[p] \in 0..Interval
    BY <2>1, MemberChecks
  <2>4. left[p][q] \in -1..Ttl /\ age[q] \in Nat /\ late \in Nat /\ Interval \in Nat /\ Ttl \in Nat
    BY TimesTyped DEF IInv, Typed, TypeOK, Ttl
  <2>5. IF left[p][q] >= 0 THEN age[q] + left[p][q] <= late + Ttl
        ELSE age[q] + timer[p] <= late + Ttl + Interval
    BY <2>2 DEF RunsOut
  <2> QED
    BY ONLY <2>3, <2>4, <2>5, age[q] > Ttl + Interval + late
<1> QED
  BY <1>1, Invariance, PTL

-----------------------------------------------------------------------------
(* Two members of the cluster, from the announcement of one to the other until *)
(* each knows the other and renews what the other one knows.                   *)

\* What a box holds from q.
Sent(box, ch, q) == \E i \in DOMAIN box : box[i] = [channel |-> ch, data |-> q]

Silent(box, q) == \A i \in DOMAIN box : box[i].data # q

Only(box, ch, q) ==
    \E i \in DOMAIN box : /\ box[i] = [channel |-> ch, data |-> q]
                          /\ \A j \in DOMAIN box \ {i} : box[j].data # q

Hears(p, q) == Listens(p, InfoChannel(q))

\* The health check of q has not fired since it started.
Early(q) == timer[q] = None \/ timer[q] + late >= Interval

\* Ticks until the next report of q is on its way to p.
Due(p, q) == IF Sent(inbox[p], InfoChannel(q), q) THEN 0 ELSE timer[q]

\* No check of p finds the ttl of q passed before r ticks have gone and the messages
\* that may still be late have come: neither its next check nor the one after it.
InTime(p, q, r) ==
    /\ timer[p] + late <= r + MaxLate => timer[p] <= left[p][q]
    /\ timer[p] + Interval + late <= r + MaxLate => timer[p] + Interval <= left[p][q]

\* q has announced itself to p, which has not answered.
Announced(p, q) ==
    Sent(inbox[p], AddChannel, q) =>
        /\ Only(inbox[p], AddChannel, q) /\ Silent(inbox[q], p)
        /\ ~Hears(p, q) /\ ~Hears(q, p) /\ Early(q)

\* The answer of q is on its way to p, which is new.
Answered(p, q) ==
    Sent(inbox[p], DiscoveryChannel(p), q) =>
        /\ Only(inbox[p], DiscoveryChannel(p), q) /\ Silent(inbox[q], p)
        /\ ~Hears(p, q) /\ Hears(q, p) /\ p \notin instances[q] /\ Early(p)

Heard(p, q) == q \in instances[p] => Hears(p, q)

\* No time passes while the subscription of p to the reports of q is on its way.
Coming(p, q) ==
    <<InfoChannel(q), p>> \in pending =>
        IF q \in instances[p] THEN left[p][q] = Ttl ELSE Early(q)

\* p knows q, which answers the first report of p with one of its own in time.
Met(p, q) ==
    q \in instances[p] /\ p \notin instances[q] /\ Hears(q, p) =>
        InTime(p, q, Due(q, p) + Interval)

Renewed(p, q) == Mutual(p, q) => InTime(p, q, Due(p, q))

Acquainted(p, q) ==
    /\ Announced(p, q) /\ Answered(p, q)
    /\ Heard(p, q) /\ Coming(p, q)
    /\ Met(p, q) /\ Renewed(p, q)

MembersAcquainted ==
    up => \A p, q \in alive \ leaving : p # q => Acquainted(p, q)

\* Only p listens to the answers to p, and nobody to reports of one that is not there yet.
ChannelsUsed ==
    \A s \in subscribers \cup pending :
        /\ s[2] \in started
        /\ \A q \in Process : /\ s[1] = DiscoveryChannel(q) => s[2] = q
                              /\ s[1] = InfoChannel(q) => q \in started

-----------------------------------------------------------------------------
(* How what a box holds from one process changes. *)

LEMMA AppendMail ==
    ASSUME NEW S, NEW w \in Seq(S), NEW c, NEW r, NEW m \in S, m = [channel |-> c, data |-> r],
           NEW ch, NEW q
    PROVE  /\ r # q => /\ Sent(Append(w, m), ch, q) <=> Sent(w, ch, q)
                       /\ Only(w, ch, q) => Only(Append(w, m), ch, q)
                       /\ Silent(w, q) => Silent(Append(w, m), q)
           /\ r = q => /\ Sent(Append(w, m), ch, q) <=> Sent(w, ch, q) \/ ch = c
                       /\ Silent(w, q) => Only(Append(w, m), c, q)
<1> PICK v, n : v = Append(w, m) /\ n = Len(w)
  OBVIOUS
<1>1. /\ n \in Nat /\ DOMAIN w = 1..n /\ DOMAIN v = 1..n + 1
      /\ \A i \in 1..n : v[i] = w[i]
      /\ v[n + 1] = m
  BY AppendProperties, LenProperties
<1>2. /\ \A i \in DOMAIN v : i \in DOMAIN w \/ i = n + 1
      /\ \A i \in DOMAIN w : i \in DOMAIN v /\ i # n + 1 /\ v[i] = w[i]
      /\ n + 1 \in DOMAIN v
  BY ONLY <1>1
<1>3. /\ m.data = r
      /\ m = [channel |-> ch, data |-> q] <=> c = ch /\ r = q
  <2>1. m = [channel |-> ch, data |-> q] => m.channel = ch /\ m.data = q
    OBVIOUS
  <2>2. m.channel = c /\ m.data = r
    OBVIOUS
  <2> QED
    BY <2>1, <2>2
<1>4. ASSUME r # q
      PROVE  /\ Sent(v, ch, q) <=> Sent(w, ch, q)
             /\ Only(w, ch, q) => Only(v, ch, q)
             /\ Silent(w, q) => Silent(v, q)
  BY ONLY <1>1, <1>2, <1>3, <1>4 DEF Sent, Only, Silent
<1>5. ASSUME r = q
      PROVE  /\ Sent(v, ch, q) <=> Sent(w, ch, q) \/ ch = c
             /\ Silent(w, q) => Only(v, c, q)
  <2>1. Sent(v, ch, q) <=> Sent(w, ch, q) \/ ch = c
    BY ONLY <1>1, <1>2, <1>3, <1>5 DEF Sent
  <2>2. Silent(w, q) => Only(v, c, q)
    <3>1. m = [channel |-> c, data |-> q]
      BY <1>5
    <3>2. v[n + 1] = [channel |-> c, data |-> q] /\ n + 1 \in DOMAIN v
      BY <1>1, <1>2, <3>1
    <3>3. ASSUME Silent(w, q), NEW j \in DOMAIN v \ {n + 1}
          PROVE  v[j].data # q
      BY ONLY <1>2, <3>3 DEF Silent
    <3> QED
      BY ONLY <3>2, <3>3 DEF Only
  <2> QED
    BY <2>1, <2>2
<1> QED
  BY <1>4, <1>5

LEMMA TailMail ==
    ASSUME NEW S, NEW w \in Seq(S), w # <<>>, NEW ch, NEW q, NEW m, m = [channel |-> ch, data |-> q]
    PROVE  /\ Sent(Tail(w), ch, q) => Sent(w, ch, q)
           /\ Silent(w, q) => Silent(Tail(w), q)
           /\ Head(w) # m /\ Sent(w, ch, q) => Sent(Tail(w), ch, q)
           /\ Head(w) # m /\ Only(w, ch, q) => Only(Tail(w), ch, q) /\ Head(w).data # q
           /\ Head(w) = m /\ Only(w, ch, q) => Silent(Tail(w), q)
           /\ Head(w) = m => Sent(w, ch, q)
<1> PICK v, n, h : v = Tail(w) /\ n = Len(w) /\ h = Head(w)
  OBVIOUS
<1>1. /\ n \in Nat /\ n > 0 /\ h = w[1] /\ v \in Seq(S) /\ Len(v) = n - 1
      /\ \A i \in 1..Len(v) : v[i] = w[i + 1]
  BY ONLY w \in Seq(S), w # <<>>, v = Tail(w), n = Len(w), h = Head(w), EmptySeq, LenProperties,
          HeadTailProperties
<1>2. DOMAIN w = 1..n /\ DOMAIN v = 1..n - 1
  BY <1>1, LenProperties
<1>3. /\ \A i \in DOMAIN v : i + 1 \in DOMAIN w /\ i + 1 # 1 /\ v[i] = w[i + 1]
      /\ \A i \in DOMAIN w : i = 1 \/ (i - 1 \in DOMAIN v /\ v[i - 1] = w[i])
      /\ \A i, j \in DOMAIN w : i # j => i - 1 # j - 1
      /\ \A i, j \in DOMAIN v : i # j => i + 1 # j + 1
      /\ 1 \in DOMAIN w
  BY ONLY <1>1, <1>2
<1>4. m.data = q
  OBVIOUS
<1>5. Sent(v, ch, q) => Sent(w, ch, q)
  BY ONLY <1>3 DEF Sent
<1>6. Silent(w, q) => Silent(v, q)
  BY ONLY <1>3 DEF Silent
<1>7. h # m /\ Sent(w, ch, q) => Sent(v, ch, q)
  BY ONLY <1>1, <1>3, m = [channel |-> ch, data |-> q] DEF Sent
<1>8. ASSUME h # m, Only(w, ch, q)
      PROVE  Only(v, ch, q) /\ h.data # q
  <2>1. PICK i \in DOMAIN w : w[i] = m /\ \A j \in DOMAIN w \ {i} : w[j].data # q
    BY <1>8 DEF Only
  <2>2. i # 1 /\ i - 1 \in DOMAIN v /\ v[i - 1] = m
    BY ONLY <1>1, <1>3, <1>8, <2>1
  <2>3. ASSUME NEW j \in DOMAIN v \ {i - 1}
        PROVE  v[j].data # q
    <3>1. j + 1 \in DOMAIN w /\ j + 1 # i /\ v[j] = w[j + 1]
      BY ONLY <1>1, <1>2, <1>3, <2>1, <2>2, <2>3
    <3> QED
      BY <2>1, <3>1
  <2>4. h.data # q
    BY <1>1, <1>3, <2>1, <2>2
  <2> QED
    BY <2>2, <2>3, <2>4 DEF Only
<1>9. ASSUME h = m, Only(w, ch, q)
      PROVE  Silent(v, q)
  <2>1. PICK i \in DOMAIN w : w[i] = m /\ \A j \in DOMAIN w \ {i} : w[j].data # q
    BY <1>9 DEF Only
  <2>2. i = 1
    BY <1>1, <1>3, <1>4, <1>9, <2>1
  <2> QED
    BY ONLY <1>3, <2>1, <2>2 DEF Silent
<1>10. h = m => Sent(w, ch, q)
  BY <1>1, <1>3 DEF Sent
<1> QED
  BY <1>5, <1>6, <1>7, <1>8, <1>9, <1>10

-----------------------------------------------------------------------------
(* Steps that leave what two members are to each other alone. *)

\* p has no more and no less from q on its way than before, but for what it would not
\* listen to.
MailKept(p, q) ==
    /\ \A ch \in Channel : Sent(inbox'[p], ch, q) =>
         Sent(inbox[p], ch, q) /\ (Only(inbox[p], ch, q) => Only(inbox'[p], ch, q))
    /\ Silent(inbox[p], q) => Silent(inbox'[p], q)
    /\ Hears(p, q) /\ Sent(inbox[p], InfoChannel(q), q) => Sent(inbox'[p], InfoChannel(q), q)

\* p knows and hears q as before; its health check goes on while it does.
BondKept(p, q) ==
    /\ Hears(p, q)' <=> Hears(p, q)
    /\ <<InfoChannel(q), p>> \in pending' => <<InfoChannel(q), p>> \in pending
    /\ q \in instances'[p] <=> q \in instances[p]
    /\ left'[p][q] = left[p][q]
    /\ timer'[p] = timer[p] \/ (q \notin instances[p] /\ timer'[p] \in {None, Interval})

LEMMA PairKept ==
    ASSUME TypeOK, NEW p \in Process, NEW q \in Process, Acquainted(p, q),
           q \in instances[p] => timer[p] \in 0..Interval,
           p \in instances[q] => timer[q] \in 0..Interval,
           MailKept(p, q), MailKept(q, p), BondKept(p, q), BondKept(q, p), late' = late
    PROVE  Acquainted(p, q)'
<1>1. /\ AddChannel \in Channel /\ DiscoveryChannel(p) \in Channel
      /\ InfoChannel(p) \in Channel /\ InfoChannel(q) \in Channel
  BY ChannelsTyped
<1>2. late \in Nat /\ Interval \in Nat
  BY TimesTyped DEF TypeOK
<1>3. ASSUME NEW r \in {p, q}, Early(r)
      PROVE  Early(r)'
  <2>1. timer'[r] = timer[r] \/ timer'[r] = None \/ timer'[r] = Interval
    BY DEF BondKept
  <2> QED
    BY <1>2, <1>3, <2>1 DEF Early
<1>4. Announced(p, q)'
  <2> SUFFICES ASSUME Sent(inbox'[p], AddChannel, q)
      PROVE  /\ Only(inbox'[p], AddChannel, q) /\ Silent(inbox'[q], p)
             /\ ~Hears(p, q)' /\ ~Hears(q, p)' /\ Early(q)'
    BY DEF Announced
  <2>1. Sent(inbox[p], AddChannel, q) /\ (Only(inbox[p], AddChannel, q) => Only(inbox'[p], AddChannel, q))
    BY <1>1 DEF MailKept
  <2>2. /\ Only(inbox[p], AddChannel, q) /\ Silent(inbox[q], p)
        /\ ~Hears(p, q) /\ ~Hears(q, p) /\ Early(q)
    BY <2>1 DEF Acquainted, Announced
  <2> QED
    BY <1>3, <2>1, <2>2 DEF MailKept, BondKept
<1>5. Answered(p, q)'
  <2> PICK ch : ch = DiscoveryChannel(p)
    OBVIOUS
  <2> SUFFICES ASSUME Sent(inbox'[p], ch, q)
      PROVE  /\ Only(inbox'[p], ch, q) /\ Silent(inbox'[q], p)
             /\ ~Hears(p, q)' /\ Hears(q, p)' /\ p \notin instances'[q] /\ Early(p)'
    BY DEF Answered, DiscoveryChannel
  <2>1. Sent(inbox[p], ch, q) /\ (Only(inbox[p], ch, q) => Only(inbox'[p], ch, q))
    BY <1>1 DEF MailKept
  <2>2. /\ Only(inbox[p], ch, q) /\ Silent(inbox[q], p)
        /\ ~Hears(p, q) /\ Hears(q, p) /\ p \notin instances[q] /\ Early(p)
    BY <2>1 DEF Acquainted, Answered
  <2> QED
    BY <1>3, <2>1, <2>2 DEF MailKept, BondKept
<1>6. Heard(p, q)'
  BY DEF Heard, Acquainted, BondKept
<1>7. Coming(p, q)'
  <2> SUFFICES ASSUME <<InfoChannel(q), p>> \in pending'
      PROVE  IF q \in instances'[p] THEN left'[p][q] = Ttl ELSE Early(q)'
    BY DEF Coming, InfoChannel, Ttl
  <2>1. IF q \in instances[p] THEN left[p][q] = Ttl ELSE Early(q)
    BY DEF BondKept, Acquainted, Coming
  <2> QED
    BY <1>3, <2>1 DEF BondKept
<1>8. left[p][q] \in Int /\ MaxLate \in Nat
  BY TimesTyped DEF TypeOK, Ttl
<1>9. ASSUME NEW r \in Int, NEW s \in Int, s <= r, q \in instances[p], InTime(p, q, r)
      PROVE  timer'[p] = timer[p] /\ left'[p][q] = left[p][q] /\ InTime(p, q, s)
  <2>1. timer[p] \in Int /\ timer'[p] = timer[p] /\ left'[p][q] = left[p][q]
    BY <1>9 DEF BondKept
  <2> QED
    BY <1>2, <1>8, <1>9, <2>1 DEF InTime
<1>10. Met(p, q)'
  <2> SUFFICES ASSUME q \in instances'[p], p \notin instances'[q], Hears(q, p)'
      PROVE  InTime(p, q, Due(q, p) + Interval)'
    BY DEF Met
  <2>1. q \in instances[p] /\ p \notin instances[q] /\ Hears(q, p) /\ timer[p] \in 0..Interval
    BY DEF BondKept
  <2>2. InTime(p, q, Due(q, p) + Interval)
    BY <2>1 DEF Acquainted, Met
  <2>3. timer'[p] = timer[p] /\ left'[p][q] = left[p][q]
    BY <2>1 DEF BondKept
  <2>4. Sent(inbox[q], InfoChannel(p), p) => Sent(inbox'[q], InfoChannel(p), p)
    BY <2>1 DEF MailKept
  <2> PICK d, e : d = Due(q, p) /\ e = IF Sent(inbox'[q], InfoChannel(p), p) THEN 0 ELSE timer[p]
    OBVIOUS
  <2>5. d \in Nat /\ e \in Nat /\ e <= d
    BY <2>1, <2>4 DEF Due
  <2>6. InTime(p, q, e + Interval)
    BY <1>2, <1>9, <2>1, <2>2, <2>5
  <2>7. Due(q, p)' = e
    BY <2>3 DEF Due, InfoChannel
  <2> QED
    BY <2>3, <2>6, <2>7 DEF InTime
<1>11. Renewed(p, q)'
  <2> SUFFICES ASSUME q \in instances'[p], p \in instances'[q]
      PROVE  InTime(p, q, Due(p, q))'
    BY DEF Renewed, Mutual
  <2>1. q \in instances[p] /\ p \in instances[q] /\ timer[q] \in 0..Interval
    BY DEF BondKept
  <2>2. InTime(p, q, Due(p, q)) /\ Hears(p, q)
    BY <2>1 DEF Acquainted, Renewed, Mutual, Heard
  <2>3. timer'[p] = timer[p] /\ timer'[q] = timer[q] /\ left'[p][q] = left[p][q]
    BY <2>1 DEF BondKept
  <2>4. Sent(inbox[p], InfoChannel(q), q) => Sent(inbox'[p], InfoChannel(q), q)
    BY <2>2 DEF MailKept
  <2> PICK d, e : d = Due(p, q) /\ e = IF Sent(inbox'[p], InfoChannel(q), q) THEN 0 ELSE timer[q]
    OBVIOUS
  <2>5. d \in Nat /\ e \in Nat /\ e <= d
    BY <2>1, <2>4 DEF Due
  <2>6. InTime(p, q, e)
    BY <1>9, <2>1, <2>2, <2>5
  <2>7. Due(p, q)' = e
    BY <2>3 DEF Due, InfoChannel
  <2> QED
    BY <2>3, <2>6, <2>7 DEF InTime
<1> QED
  BY <1>4, <1>5, <1>6, <1>7, <1>10, <1>11 DEF Acquainted

LEMMA SameMail ==
    ASSUME NEW p, NEW q, inbox'[p] = inbox[p]
    PROVE  MailKept(p, q)
BY DEF MailKept

LEMMA OtherMail ==
    ASSUME Typed, NEW p \in Process, NEW q, NEW a \in Process \ {q}, NEW ch \in Channel,
           inbox'[p] = Append(inbox[p], [channel |-> ch, data |-> a])
    PROVE  MailKept(p, q)
<1> PICK w, m : w = inbox[p] /\ m = [channel |-> ch, data |-> a]
  OBVIOUS
<1>1. w \in Seq(Frame) /\ m \in Frame
  BY DEF Typed, Frame
<1>2. ASSUME NEW c
      PROVE  /\ Sent(inbox'[p], c, q) <=> Sent(w, c, q)
             /\ Only(w, c, q) => Only(inbox'[p], c, q)
             /\ Silent(w, q) => Silent(inbox'[p], q)
  BY <1>1, AppendMail
<1> QED
  BY <1>2 DEF MailKept

LEMMA TakenMail ==
    ASSUME Typed, NEW p \in Process, NEW q, inbox[p] # <<>>, inbox'[p] = InboxAfter(p)[p],
           Head(inbox[p]).data # q \/ ~Listens(p, Head(inbox[p]).channel)
    PROVE  MailKept(p, q)
<1> PICK w, h : w = inbox[p] /\ h = Head(w)
  OBVIOUS
<1>1. w \in Seq(Frame) /\ inbox'[p] = Tail(w)
  BY DEF Typed, InboxAfter
<1>2. ASSUME NEW ch
      PROVE  /\ Sent(Tail(w), ch, q) => Sent(w, ch, q)
             /\ Silent(w, q) => Silent(Tail(w), q)
             /\ h # [channel |-> ch, data |-> q] /\ Sent(w, ch, q) => Sent(Tail(w), ch, q)
             /\ h # [channel |-> ch, data |-> q] /\ Only(w, ch, q) => Only(Tail(w), ch, q)
             /\ h = [channel |-> ch, data |-> q] /\ Only(w, ch, q) => Silent(Tail(w), q)
  BY <1>1, TailMail
<1>3. ASSUME NEW ch
      PROVE  ~(Silent(Tail(w), q) /\ Sent(Tail(w), ch, q))
  BY DEF Silent, Sent
<1>4. \A ch : h = [channel |-> ch, data |-> q] => h.data = q /\ h.channel = ch
  OBVIOUS
<1>5. Hears(p, q) /\ Sent(w, InfoChannel(q), q) => Sent(Tail(w), InfoChannel(q), q)
  BY <1>2, <1>4 DEF Hears
<1> QED
  BY <1>1, <1>2, <1>3, <1>5 DEF MailKept

\* What a publishes, at the other processes.
LEMMA Published ==
    ASSUME NEW a \in Process, NEW ch, NEW rest, Publish(a, ch, Others(a), rest)
    PROVE  /\ \A r \in Process \ {a} :
                inbox'[r] = IF up /\ r \in alive /\ <<ch, r>> \in subscribers
                            THEN Append(rest[r], [channel |-> ch, data |-> a]) ELSE rest[r]
           /\ inbox'[a] = rest[a]
<1>1. inbox' = [q \in Process |-> IF up /\ q \in RunningSubscribersOf(ch) \cap Others(a)
                                   THEN Append(rest[q], [channel |-> ch, data |-> a]) ELSE rest[q]]
  BY DEF Publish
<1>2. \A r \in Process : r \in RunningSubscribersOf(ch) \cap Others(a)
                           <=> r \in alive /\ <<ch, r>> \in subscribers /\ r # a
  BY DEF RunningSubscribersOf, SubscribersOf, Others
<1> QED
  BY <1>1, <1>2

\* A step of a, for the other processes: a message of a at most.
Elsewhere(a) ==
    \A r \in Process \ {a} :
        /\ inbox'[r] = inbox[r] \/ \E ch \in Channel : inbox'[r] = Append(inbox[r], [channel |-> ch, data |-> a])
        /\ \A ch : /\ <<ch, r>> \in subscribers' <=> <<ch, r>> \in subscribers
                   /\ <<ch, r>> \in pending' <=> <<ch, r>> \in pending
        /\ instances'[r] = instances[r] /\ left'[r] = left[r] /\ timer'[r] = timer[r]

LEMMA OthersKept ==
    ASSUME Typed, NEW a \in Process, Elsewhere(a), late' = late,
           NEW p \in Process \ {a}, NEW q \in Process \ {a}, Acquainted(p, q),
           q \in instances[p] => timer[p] \in 0..Interval,
           p \in instances[q] => timer[q] \in 0..Interval
    PROVE  Acquainted(p, q)'
<1>1. ASSUME NEW r \in {p, q}, NEW s \in {p, q}
      PROVE  MailKept(r, s)
  <2>1. CASE inbox'[r] = inbox[r]
    BY <2>1, SameMail
  <2>2. CASE \E ch \in Channel : inbox'[r] = Append(inbox[r], [channel |-> ch, data |-> a])
    BY <2>2, OtherMail
  <2> QED
    BY <2>1, <2>2 DEF Elsewhere
<1>2. ASSUME NEW r \in {p, q}, NEW s \in {p, q}
      PROVE  BondKept(r, s)
  <2>1. /\ <<InfoChannel(s), r>> \in subscribers' <=> <<InfoChannel(s), r>> \in subscribers
        /\ <<InfoChannel(s), r>> \in pending' <=> <<InfoChannel(s), r>> \in pending
        /\ instances'[r] = instances[r] /\ left'[r] = left[r] /\ timer'[r] = timer[r]
    BY DEF Elsewhere
  <2> QED
    BY <2>1 DEF BondKept, Hears, Listens, InfoChannel
<1> QED
  BY <1>1, <1>2, PairKept DEF Typed

LEMMA SubscribedElsewhere ==
    ASSUME NEW a, NEW chs, Subscribe(a, chs), NEW r, r # a, NEW ch
    PROVE  /\ <<ch, r>> \in subscribers' <=> <<ch, r>> \in subscribers
           /\ <<ch, r>> \in pending' <=> <<ch, r>> \in pending
BY DEF Subscribe

LEMMA UnsubscribedElsewhere ==
    ASSUME NEW a, NEW chs, Unsubscribe(a, chs), NEW r, r # a, NEW ch
    PROVE  /\ <<ch, r>> \in subscribers' <=> <<ch, r>> \in subscribers
           /\ <<ch, r>> \in pending' <=> <<ch, r>> \in pending
BY DEF Unsubscribe

\* What a process does leaves the others as they are.
LEMMA StepElsewhere ==
    ASSUME Typed, NEW a \in Process,
           StartProcess(a) \/ Terminate(a) \/ Exit(a) \/ Handle(a) \/ HealthCheck(a)
    PROVE  Elsewhere(a) /\ late' = late
<1> USE DEF clockVars, discoveryVars
<1>1. TypeOK /\ inbox \in [Process -> Seq(Frame)]
  BY DEF Typed
<1>2. /\ AddChannel \in Channel /\ DeleteChannel \in Channel
      /\ \A p \in Process : DiscoveryChannel(p) \in Channel /\ InfoChannel(p) \in Channel
  BY ChannelsTyped
<1>3. ASSUME NEW rest, \A r \in Process \ {a} : rest[r] = inbox[r],
             NEW ch \in Channel, Publish(a, ch, Others(a), rest), NEW r \in Process \ {a}
      PROVE  inbox'[r] = inbox[r] \/ inbox'[r] = Append(inbox[r], [channel |-> ch, data |-> a])
  <2>1. inbox'[r] = IF up /\ r \in alive /\ <<ch, r>> \in subscribers
                    THEN Append(rest[r], [channel |-> ch, data |-> a]) ELSE rest[r]
    BY <1>3, Published
  <2>2. rest[r] = inbox[r]
    BY <1>3
  <2> QED
    BY <2>1, <2>2
<1>4. \A r \in Process \ {a} : InboxAfter(a)[r] = inbox[r]
  BY <1>1 DEF InboxAfter
<1>5. ASSUME NEW gone, DeleteInstances(a, gone)
      PROVE  \A r \in Process \ {a} : instances'[r] = instances[r] /\ left'[r] = left[r]
  BY <1>1, <1>5, DeleteEffect
<1>6. ASSUME NEW T, timer' = [timer EXCEPT ![a] = T]
      PROVE  \A r \in Process \ {a} : timer'[r] = timer[r]
  BY <1>1, <1>6 DEF TypeOK
<1>7. ASSUME NEW id \in started, UpdateInstance(a, id)
      PROVE  \A r \in Process \ {a} : instances'[r] = instances[r] /\ left'[r] = left[r] /\ timer'[r] = timer[r]
  BY <1>1, <1>7, UpdateEffect
<1>8. CASE StartProcess(a)
  <2>1. \A r \in Process \ {a} : instances'[r] = instances[r] /\ left'[r] = left[r] /\ timer'[r] = timer[r]
    BY <1>1, <1>8 DEF StartProcess, TypeOK
  <2> QED
    BY <1>2, <1>3, <1>8, <2>1, SubscribedElsewhere DEF StartProcess, Elsewhere
<1>9. CASE Terminate(a)
  <2>1. \A r \in Process \ {a} : inbox'[r] = inbox[r]
                                  \/ inbox'[r] = Append(inbox[r], [channel |-> DeleteChannel, data |-> a])
    BY <1>9 DEF Terminate, Publish
  <2> QED
    BY <1>2, <1>9, <2>1 DEF Terminate, Elsewhere
<1>10. CASE Exit(a)
  <2>1. \A r \in Process \ {a} : instances'[r] = instances[r] /\ left'[r] = left[r]
    BY <1>5, <1>10 DEF Exit
  <2>2. \A r \in Process \ {a} : timer'[r] = timer[r]
    BY <1>6, <1>10 DEF Exit
  <2>3. \A r \in Process \ {a} : inbox'[r] = inbox[r]
    BY <1>1, <1>10 DEF Exit
  <2>4. ASSUME NEW r \in Process \ {a}, NEW ch
        PROVE  /\ <<ch, r>> \in subscribers' <=> <<ch, r>> \in subscribers
               /\ <<ch, r>> \in pending' <=> <<ch, r>> \in pending
    BY <1>10 DEF Exit
  <2> QED
    BY <1>10, <2>1, <2>2, <2>3, <2>4 DEF Exit, Elsewhere
<1>11. CASE HealthCheck(a)
  <2>1. \A r \in Process \ {a} : instances'[r] = instances[r] /\ left'[r] = left[r]
    BY <1>5, <1>11 DEF HealthCheck
  <2>2. \A r \in Process \ {a} : timer'[r] = timer[r]
    BY <1>6, <1>11 DEF HealthCheck
  <2>3. ASSUME NEW r \in Process \ {a}
        PROVE  inbox'[r] = inbox[r] \/ \E ch \in Channel : inbox'[r] = Append(inbox[r], [channel |-> ch, data |-> a])
    BY <1>2, <1>3, <1>11 DEF HealthCheck
  <2>4. ASSUME NEW r \in Process \ {a}, NEW ch
        PROVE  /\ <<ch, r>> \in subscribers' <=> <<ch, r>> \in subscribers
               /\ <<ch, r>> \in pending' <=> <<ch, r>> \in pending
    <3> PICK chs : Unsubscribe(a, chs)
      BY <1>11 DEF HealthCheck
    <3> QED
      BY UnsubscribedElsewhere
  <2>5. late' = late
    BY <1>11 DEF HealthCheck
  <2> QED
    BY <2>1, <2>2, <2>3, <2>4, <2>5 DEF Elsewhere
<1>12. CASE DropMessage(a)
  BY <1>4, <1>12 DEF DropMessage, Elsewhere
<1>13. ASSUME NEW id \in Process, OnAdd(a, id)
       PROVE  Elsewhere(a) /\ late' = late
  <2>1. ASSUME NEW r \in Process \ {a}
        PROVE  inbox'[r] = inbox[r] \/ \E ch \in Channel : inbox'[r] = Append(inbox[r], [channel |-> ch, data |-> a])
    BY <1>2, <1>3, <1>4, <1>13 DEF OnAdd
  <2>2. Subscribe(a, {InfoChannel(id)}) /\ UNCHANGED <<instances, left, timer, late>>
    BY <1>13 DEF OnAdd
  <2>3. ASSUME NEW r \in Process \ {a}, NEW ch
        PROVE  /\ <<ch, r>> \in subscribers' <=> <<ch, r>> \in subscribers
               /\ <<ch, r>> \in pending' <=> <<ch, r>> \in pending
    BY <2>2, SubscribedElsewhere
  <2> QED
    BY <2>1, <2>2, <2>3 DEF Elsewhere
<1>14. ASSUME NEW id \in Process, OnDiscovery(a, id) \/ OnInfo(a, id) \/ OnDelete(a, id)
       PROVE  Elsewhere(a) /\ late' = late
  <2>1. id \in started
    <3>1. \E ch \in Channel : Receives(a, ch, id)
      BY <1>2, <1>14 DEF OnDiscovery, OnInfo, OnDelete
    <3> PICK ch \in Channel : Receives(a, ch, id)
      BY <3>1
    <3>2. Head(inbox[a]) = [channel |-> ch, data |-> id] /\ Tells(Head(inbox[a]))
      BY Taken DEF Receives
    <3> QED
      BY <3>2 DEF Tells
  <2>2. \A r \in Process \ {a} : inbox'[r] = inbox[r]
    BY <1>4, <1>14 DEF OnDiscovery, OnInfo, OnDelete
  <2>3. CASE OnDiscovery(a, id)
    <3>1. \A r \in Process \ {a} : instances'[r] = instances[r] /\ left'[r] = left[r] /\ timer'[r] = timer[r]
      BY <1>7, <2>1, <2>3 DEF OnDiscovery
    <3>2. Subscribe(a, {InfoChannel(id)}) /\ late' = late
      BY <2>3 DEF OnDiscovery
    <3>3. ASSUME NEW r \in Process \ {a}, NEW ch
          PROVE  /\ <<ch, r>> \in subscribers' <=> <<ch, r>> \in subscribers
                 /\ <<ch, r>> \in pending' <=> <<ch, r>> \in pending
      BY <3>2, SubscribedElsewhere
    <3> QED
      BY <2>2, <3>1, <3>2, <3>3 DEF Elsewhere
  <2>4. CASE OnInfo(a, id)
    <3>1. \A r \in Process \ {a} : instances'[r] = instances[r] /\ left'[r] = left[r] /\ timer'[r] = timer[r]
      BY <1>7, <2>1, <2>4 DEF OnInfo
    <3> QED
      BY <2>2, <2>4, <3>1 DEF OnInfo, Elsewhere
  <2>5. CASE OnDelete(a, id)
    <3>1. \A r \in Process \ {a} : instances'[r] = instances[r] /\ left'[r] = left[r] /\ timer'[r] = timer[r]
      BY <1>5, <1>6, <2>5 DEF OnDelete
    <3>2. Unsubscribe(a, {InfoChannel(id)}) /\ late' = late
      BY <2>5 DEF OnDelete
    <3>3. ASSUME NEW r \in Process \ {a}, NEW ch
          PROVE  /\ <<ch, r>> \in subscribers' <=> <<ch, r>> \in subscribers
                 /\ <<ch, r>> \in pending' <=> <<ch, r>> \in pending
      BY <3>2, UnsubscribedElsewhere
    <3> QED
      BY <2>2, <3>1, <3>2, <3>3 DEF Elsewhere
  <2> QED
    BY <1>14, <2>3, <2>4, <2>5
<1> QED
  BY <1>8, <1>9, <1>10, <1>11, <1>12, <1>13, <1>14 DEF Handle

-----------------------------------------------------------------------------
(* The steps of one of the two. *)

\* What a silent box, or one with one message of a process, holds.
LEMMA Boxes ==
    ASSUME NEW box, NEW q, NEW ch
    PROVE  /\ Silent(box, q) => ~Sent(box, ch, q)
           /\ Only(box, ch, q) => \A c : Sent(box, c, q) => c = ch
           /\ Only(box, ch, q) => Sent(box, ch, q)
<1>1. \A i \in DOMAIN box : \A c : box[i] = [channel |-> c, data |-> q] => box[i].data = q /\ box[i].channel = c
  OBVIOUS
<1>2. Silent(box, q) => ~Sent(box, ch, q)
  BY <1>1 DEF Silent, Sent
<1>3. ASSUME Only(box, ch, q), NEW c, Sent(box, c, q)
      PROVE  c = ch
  <2>1. PICK i \in DOMAIN box : /\ box[i] = [channel |-> ch, data |-> q]
                                /\ \A j \in DOMAIN box \ {i} : box[j].data # q
    BY <1>3 DEF Only
  <2>2. PICK j \in DOMAIN box : box[j] = [channel |-> c, data |-> q]
    BY <1>3 DEF Sent
  <2>3. box[j].data = q
    BY <1>1, <2>2
  <2>4. i = j
    BY <2>1, <2>3
  <2> QED
    BY <1>1, <2>1, <2>2, <2>4
<1>4. Only(box, ch, q) => Sent(box, ch, q)
  BY DEF Only, Sent
<1> QED
  BY <1>2, <1>3, <1>4

LEMMA InfoDiffers ==
    ASSUME NEW p, NEW q
    PROVE  /\ InfoChannel(p) = InfoChannel(q) <=> p = q
           /\ DiscoveryChannel(p) = DiscoveryChannel(q) <=> p = q
           /\ InfoChannel(p) \notin {AddChannel, DeleteChannel, DiscoveryChannel(q)}
           /\ DiscoveryChannel(p) \notin {AddChannel, DeleteChannel}
BY DEF InfoChannel, DiscoveryChannel, AddChannel, DeleteChannel

\* A ttl that has just been renewed outlives the next two checks but one.
LEMMA FreshInTime ==
    ASSUME NEW p, NEW q, timer'[p] \in 0..Interval, left'[p][q] = Ttl, q \in instances'[p]
    PROVE  Coming(p, q)' /\ Met(p, q)' /\ Renewed(p, q)'
<1>1. timer'[p] <= left'[p][q] /\ timer'[p] + Interval <= left'[p][q]
  BY TimesTyped DEF Ttl
<1> QED
  BY <1>1 DEF Coming, Met, Renewed, InTime, Ttl

LEMMA StartMeets ==
    ASSUME IInv, ChannelsUsed, NEW a \in Process, StartProcess(a),
           NEW q \in alive \ leaving, q # a
    PROVE  Acquainted(a, q)' /\ Acquainted(q, a)'
<1>1. /\ TypeOK /\ Typed /\ q \in Process /\ a \notin started /\ a \notin alive
  BY DEF IInv, Typed, TypeOK, StartProcess
<1>2. /\ instances' = [instances EXCEPT ![a] = {a}] /\ timer' = [timer EXCEPT ![a] = Interval]
      /\ Subscribe(a, {AddChannel, DeleteChannel, DiscoveryChannel(a)})
      /\ Publish(a, AddChannel, Others(a), inbox) /\ late' = late
  BY DEF StartProcess
<1>3. q \notin instances'[a] /\ a \notin instances'[q]
  BY <1>1, <1>2 DEF TypeOK
<1>4. ~Hears(a, q)' /\ ~Hears(q, a)'
  <2>1. InfoChannel(q) \notin {AddChannel, DeleteChannel, DiscoveryChannel(a)}
    BY InfoDiffers
  <2>2. <<InfoChannel(q), a>> \notin subscribers \cup pending
    BY <1>1 DEF ChannelsUsed
  <2>3. <<InfoChannel(q), a>> \notin subscribers' \cup pending'
    BY <1>2, <2>1, <2>2 DEF Subscribe
  <2>4. <<InfoChannel(a), q>> \notin subscribers \cup pending
    BY <1>1 DEF ChannelsUsed
  <2>5. <<InfoChannel(a), q>> \notin subscribers' \cup pending'
    BY <1>1, <1>2, <2>4 DEF Subscribe
  <2> QED
    BY <2>3, <2>5 DEF Hears, Listens, InfoChannel
<1>5. Silent(inbox'[a], q)
  <2>1. inbox'[a] = <<>>
    BY <1>1, <1>2, Published DEF TypeOK
  <2>2. DOMAIN <<>> = {}
    OBVIOUS
  <2> QED
    BY <2>1, <2>2 DEF Silent
<1>6. Silent(inbox[q], a)
  BY <1>1 DEF Typed, MessagesTell, Tells, Silent
<1>7. Silent(inbox'[q], a) \/ Only(inbox'[q], AddChannel, a)
  <2> PICK m, w : m = [channel |-> AddChannel, data |-> a] /\ w = inbox[q]
    OBVIOUS
  <2>1. inbox'[q] = w \/ inbox'[q] = Append(w, m)
    <3>1. inbox'[q] = IF up /\ q \in alive /\ <<AddChannel, q>> \in subscribers
                      THEN Append(inbox[q], [channel |-> AddChannel, data |-> a]) ELSE inbox[q]
      BY <1>1, <1>2, Published
    <3> QED
      BY <3>1
  <2>2. w \in Seq(Frame) /\ m \in Frame
    BY <1>1, ChannelsTyped DEF Typed, Frame
  <2>3. Silent(w, a) => Only(Append(w, m), AddChannel, a)
    BY <2>2, AppendMail
  <2> QED
    BY <1>6, <2>1, <2>3
<1>8. Early(a)'
  <2>1. timer'[a] = Interval /\ late \in Nat
    BY <1>1, <1>2, TimesTyped DEF TypeOK
  <2> QED
    BY <1>2, <2>1, TimesTyped DEF Early
<1>9. ~Sent(inbox'[a], AddChannel, q) /\ ~Sent(inbox'[a], DiscoveryChannel(a), q)
  BY <1>5, Boxes
<1>10. ~Sent(inbox'[q], DiscoveryChannel(q), a)
  BY <1>7, Boxes, InfoDiffers
<1>11. Sent(inbox'[q], AddChannel, a) => Only(inbox'[q], AddChannel, a)
  BY <1>7, Boxes
<1>12. <<InfoChannel(q), a>> \notin pending' /\ <<InfoChannel(a), q>> \notin pending'
  BY <1>4 DEF Hears, Listens, InfoChannel
<1>13. Acquainted(a, q)'
  BY <1>3, <1>9, <1>12 DEF Acquainted, Announced, Answered, Heard, Coming, Met, Renewed, Mutual,
       AddChannel, DiscoveryChannel, InfoChannel
<1>14. Acquainted(q, a)'
  BY <1>3, <1>4, <1>5, <1>8, <1>10, <1>11, <1>12 DEF Acquainted, Announced, Answered, Heard, Coming, Met,
       Renewed, Mutual, AddChannel, DiscoveryChannel, InfoChannel
<1> QED
  BY <1>13, <1>14

LEMMA BondElsewhere ==
    ASSUME NEW a, Elsewhere(a), NEW q \in Process \ {a}
    PROVE  BondKept(q, a)
<1>1. /\ <<InfoChannel(a), q>> \in subscribers' <=> <<InfoChannel(a), q>> \in subscribers
      /\ <<InfoChannel(a), q>> \in pending' <=> <<InfoChannel(a), q>> \in pending
      /\ instances'[q] = instances[q] /\ left'[q] = left[q] /\ timer'[q] = timer[q]
  BY DEF Elsewhere
<1> QED
  BY <1>1 DEF BondKept, Hears, Listens, InfoChannel

\* What one member knows of another one makes its health check run.
LEMMA BondRuns ==
    ASSUME IInv, NEW p \in alive \ leaving, NEW q \in alive \ leaving, p # q
    PROVE  /\ q \in instances[p] => timer[p] \in 0..Interval
           /\ p \in instances[q] => timer[q] \in 0..Interval
BY MemberChecks

\* The message that a takes comes from another process than q, or is dropped.
LEMMA OtherReceived ==
    ASSUME IInv, NEW a \in alive \ leaving, NEW q \in alive \ leaving, q # a,
           Acquainted(a, q), Acquainted(q, a),
           inbox[a] # <<>>, Head(inbox[a]).data # q \/ ~Listens(a, Head(inbox[a]).channel),
           inbox'[a] = InboxAfter(a)[a], MailKept(q, a), BondKept(a, q), BondKept(q, a), late' = late
    PROVE  Acquainted(a, q)' /\ Acquainted(q, a)'
<1>1. Typed /\ TypeOK /\ a \in Process /\ q \in Process
  BY DEF IInv, Typed, TypeOK
<1>2. MailKept(a, q)
  BY <1>1, TakenMail
<1> QED
  BY <1>1, <1>2, BondRuns, PairKept

LEMMA DropMeets ==
    ASSUME IInv, NEW a \in alive \ leaving, DropMessage(a),
           NEW q \in alive \ leaving, q # a, Acquainted(a, q), Acquainted(q, a)
    PROVE  Acquainted(a, q)' /\ Acquainted(q, a)'
<1>1. Typed /\ TypeOK /\ a \in Process /\ q \in Process
  BY DEF IInv, Typed, TypeOK
<1>2. /\ inbox[a] # <<>> /\ ~Listens(a, Head(inbox[a]).channel) /\ inbox' = InboxAfter(a)
      /\ UNCHANGED <<subscribers, pending, instances, left, timer, late>>
  BY DEF DropMessage, discoveryVars, clockVars
<1>3. MailKept(q, a)
  <2>1. inbox'[q] = inbox[q]
    BY <1>1, <1>2 DEF InboxAfter, Typed
  <2> QED
    BY <2>1, SameMail
<1>4. BondKept(a, q) /\ BondKept(q, a)
  BY <1>2 DEF BondKept, Hears, Listens, InfoChannel
<1> QED
  BY <1>2, <1>3, <1>4, OtherReceived

\* The message that a takes, of the channel ch.
LEMMA Receipt ==
    ASSUME IInv, NEW a \in alive \ leaving, NEW ch, NEW id \in Process, Receives(a, ch, id)
    PROVE  /\ inbox[a] # <<>> /\ inbox[a] \in Seq(Frame)
           /\ Head(inbox[a]) = [channel |-> ch, data |-> id] /\ Head(inbox[a]).data = id
           /\ Sent(inbox[a], ch, id)
           /\ InboxAfter(a)[a] = Tail(inbox[a])
           /\ \A r \in Process \ {a} : InboxAfter(a)[r] = inbox[r]
           /\ id \in started
           /\ \A c : Sent(Tail(inbox[a]), c, id) => Sent(inbox[a], c, id)
           /\ \A c : Only(inbox[a], c, id) => Silent(Tail(inbox[a]), id)
<1>1. Typed /\ a \in Process
  BY DEF IInv, Typed, TypeOK
<1>2. /\ inbox[a] # <<>> /\ inbox[a] \in Seq(Frame) /\ Head(inbox[a]) = [channel |-> ch, data |-> id]
  BY <1>1 DEF Receives, Typed
<1>3. /\ InboxAfter(a)[a] = Tail(inbox[a]) /\ \A r \in Process \ {a} : InboxAfter(a)[r] = inbox[r]
  BY <1>1 DEF InboxAfter, Typed
<1>4. id \in started
  <2>1. Tells(Head(inbox[a]))
    BY <1>1, <1>2, Taken
  <2> QED
    BY <1>2, <2>1 DEF Tells
<1>5. /\ Sent(inbox[a], ch, id)
      /\ Only(inbox[a], ch, id) => Silent(Tail(inbox[a]), id)
  BY <1>2, TailMail
<1>6. \A c : Sent(Tail(inbox[a]), c, id) => Sent(inbox[a], c, id)
  BY <1>2, TailMail
<1>7. \A c : Only(inbox[a], c, id) => c = ch
  BY <1>5, Boxes
<1> QED
  BY <1>2, <1>3, <1>4, <1>5, <1>6, <1>7

LEMMA OnAddMeets ==
    ASSUME IInv, ChannelsUsed, NEW a \in alive \ leaving, NEW id \in Process, OnAdd(a, id),
           NEW q \in alive \ leaving, q # a, Acquainted(a, q), Acquainted(q, a)
    PROVE  Acquainted(a, q)' /\ Acquainted(q, a)'
<1>1. Typed /\ TypeOK /\ a \in Process /\ q \in Process
  BY DEF IInv, Typed, TypeOK
<1>2. /\ Receives(a, AddChannel, id) /\ Subscribe(a, {InfoChannel(id)})
      /\ Publish(a, DiscoveryChannel(id), Others(a), InboxAfter(a))
      /\ UNCHANGED <<instances, left, timer, late>>
  BY DEF OnAdd, discoveryVars, clockVars
<1>3. /\ inbox[a] # <<>> /\ Head(inbox[a]).data = id
      /\ Sent(inbox[a], AddChannel, id)
      /\ \A r \in Process \ {a} : InboxAfter(a)[r] = inbox[r]
  BY <1>2, Receipt
<1>4. /\ InboxAfter(a)[a] = Tail(inbox[a])
      /\ \A c : Only(inbox[a], c, id) => Silent(Tail(inbox[a]), id)
  BY <1>2, Receipt
<1>5. Elsewhere(a)
  BY <1>1, StepElsewhere DEF Handle
<1>6. inbox'[q] = IF up /\ q \in alive /\ <<DiscoveryChannel(id), q>> \in subscribers
                  THEN Append(inbox[q], [channel |-> DiscoveryChannel(id), data |-> a]) ELSE inbox[q]
  <2>1. inbox'[q] = IF up /\ q \in alive /\ <<DiscoveryChannel(id), q>> \in subscribers
                    THEN Append(InboxAfter(a)[q], [channel |-> DiscoveryChannel(id), data |-> a])
                    ELSE InboxAfter(a)[q]
    BY <1>1, <1>2, Published
  <2>2. InboxAfter(a)[q] = inbox[q]
    BY <1>1, <1>3
  <2> QED
    BY <2>1, <2>2
<1>7. inbox'[a] = InboxAfter(a)[a]
  BY <1>1, <1>2, Published
<1>8. \A r : <<InfoChannel(r), a>> \in subscribers' \cup pending'
             <=> <<InfoChannel(r), a>> \in subscribers \cup pending \/ r = id
  <2> SUFFICES ASSUME NEW r
      PROVE  <<InfoChannel(r), a>> \in subscribers' \cup pending'
             <=> <<InfoChannel(r), a>> \in subscribers \cup pending \/ r = id
    OBVIOUS
  <2>1. InfoChannel(r) = InfoChannel(id) <=> r = id
    BY InfoDiffers
  <2> QED
    BY <1>2, <2>1 DEF Subscribe
<1>9. \A r : r # id => (<<InfoChannel(r), a>> \in pending' <=> <<InfoChannel(r), a>> \in pending)
  <2> SUFFICES ASSUME NEW r, r # id
      PROVE  <<InfoChannel(r), a>> \in pending' <=> <<InfoChannel(r), a>> \in pending
    OBVIOUS
  <2>1. InfoChannel(r) # InfoChannel(id)
    BY InfoDiffers
  <2> QED
    BY <1>2, <2>1 DEF Subscribe
<1>10. CASE id # q
  <2>1. inbox'[q] = inbox[q]
    <3>1. <<DiscoveryChannel(id), q>> \notin subscribers
      BY <1>10 DEF ChannelsUsed
    <3> QED
      BY <1>6, <3>1
  <2>2. MailKept(q, a)
    BY <2>1, SameMail
  <2>3. BondKept(a, q)
    BY <1>2, <1>8, <1>9, <1>10 DEF BondKept, Hears, Listens, InfoChannel
  <2>4. BondKept(q, a)
    BY <1>1, <1>5, BondElsewhere
  <2> QED
    BY <1>2, <1>3, <1>7, <1>10, <2>2, <2>3, <2>4, OtherReceived
<1>11. CASE id = q
  <2>1. /\ Only(inbox[a], AddChannel, q) /\ Silent(inbox[q], a)
        /\ ~Hears(a, q) /\ ~Hears(q, a) /\ Early(q)
    BY <1>3, <1>11 DEF Acquainted, Announced
  <2>2. q \notin instances'[a] /\ a \notin instances'[q]
    BY <1>2, <2>1 DEF Acquainted, Heard
  <2>3. Silent(inbox'[a], q)
    BY <1>4, <1>7, <1>11, <2>1
  <2>4. Silent(inbox'[q], a) \/ Only(inbox'[q], DiscoveryChannel(q), a)
    <3> PICK m, w, c : m = [channel |-> c, data |-> a] /\ w = inbox[q] /\ c = DiscoveryChannel(q)
      OBVIOUS
    <3>1. inbox'[q] = w \/ inbox'[q] = Append(w, m)
      BY <1>6, <1>11
    <3>2. w \in Seq(Frame) /\ m \in Frame
      BY <1>1, ChannelsTyped DEF Typed, Frame
    <3>3. Silent(w, a) => Only(Append(w, m), c, a)
      BY <3>2, AppendMail
    <3> QED
      BY <2>1, <3>1, <3>3
  <2>5. Hears(a, q)' /\ ~Hears(q, a)'
    <3>1. <<InfoChannel(q), a>> \in subscribers' \cup pending'
      BY <1>8, <1>11
    <3>2. ~Hears(q, a)'
      BY <1>1, <1>5, <2>1, BondElsewhere DEF BondKept
    <3> QED
      BY <3>1, <3>2 DEF Hears, Listens, InfoChannel
  <2>6. Early(q)'
    BY <1>2, <2>1 DEF Early
  <2>7. ~Sent(inbox'[a], AddChannel, q) /\ ~Sent(inbox'[a], DiscoveryChannel(a), q)
    BY <2>3, Boxes
  <2>8. ~Sent(inbox'[q], AddChannel, a)
    BY <2>4, Boxes, InfoDiffers
  <2>9. Sent(inbox'[q], DiscoveryChannel(q), a) => Only(inbox'[q], DiscoveryChannel(q), a)
    BY <2>4, Boxes
  <2>10. <<InfoChannel(a), q>> \notin pending'
    BY <2>5 DEF Hears, Listens, InfoChannel
  <2>11. Acquainted(a, q)'
    BY <2>2, <2>6, <2>7 DEF Acquainted, Announced, Answered, Heard, Coming, Met, Renewed, Mutual,
         AddChannel, DiscoveryChannel, InfoChannel
  <2>12. Acquainted(q, a)'
    BY <2>2, <2>3, <2>5, <2>6, <2>8, <2>9, <2>10 DEF Acquainted, Announced, Answered, Heard, Coming, Met,
         Renewed, Mutual, AddChannel, DiscoveryChannel, InfoChannel
  <2> QED
    BY <2>11, <2>12
<1> QED
  BY <1>10, <1>11

\* What a learns from a message of id.
LEMMA Learnt ==
    ASSUME IInv, NEW a \in alive \ leaving, NEW id \in started, UpdateInstance(a, id)
    PROVE  /\ \A r \in Process \ {id} : /\ r \in instances'[a] <=> r \in instances[a]
                                        /\ left'[a][r] = left[a][r]
           /\ id \in instances'[a] /\ left'[a][id] = Ttl
           /\ timer'[a] = timer[a] \/ (timer[a] = None /\ timer'[a] = Interval)
           /\ id # a => timer'[a] \in 0..Interval
<1>1. TypeOK /\ a \in Process /\ id \in Process
  BY DEF IInv, Typed, TypeOK
<1>2. /\ instances' \in [Process -> SUBSET started]
      /\ instances'[a] = instances[a] \cup {id}
      /\ \A r \in Process : left'[a][r] = IF r = id THEN Ttl ELSE left[a][r]
      /\ Cardinality(instances'[a]) > 1 => timer'[a] # None
      /\ timer' \in [Process -> 0..Interval \cup {None}]
  BY <1>1, UpdateEffect
<1>3. timer'[a] = timer[a] \/ (timer[a] = None /\ timer'[a] = Interval)
  <2>1. timer' = [timer EXCEPT ![a] =
                    IF @ = None /\ Cardinality(instances[a] \cup {id}) > 1 THEN Interval ELSE @]
    BY DEF UpdateInstance
  <2>2. timer \in [Process -> 0..Interval \cup {None}]
    BY <1>1 DEF TypeOK
  <2> QED
    BY <1>1, <2>1, <2>2
<1>4. id # a => timer'[a] \in 0..Interval
  <2> SUFFICES ASSUME id # a
      PROVE  timer'[a] \in 0..Interval
    OBVIOUS
  <2>1. a \in instances'[a] /\ instances'[a] \in SUBSET Process
    BY <1>1, <1>2 DEF IInv, KnowsSelf, TypeOK
  <2>2. Cardinality(instances'[a]) > 1
    BY <1>2, <2>1, TwoKnown
  <2> QED
    BY <1>1, <1>2, <2>2
<1>5. \A r \in Process \ {id} : /\ r \in instances'[a] <=> r \in instances[a]
                                /\ left'[a][r] = left[a][r]
  BY <1>2
<1>6. id \in instances'[a] /\ left'[a][id] = Ttl
  BY <1>1, <1>2
<1> QED
  BY <1>3, <1>4, <1>5, <1>6

LEMMA OnDiscoveryMeets ==
    ASSUME IInv, NEW a \in alive \ leaving, NEW id \in Process, OnDiscovery(a, id),
           NEW q \in alive \ leaving, q # a, Acquainted(a, q), Acquainted(q, a)
    PROVE  Acquainted(a, q)' /\ Acquainted(q, a)'
<1>1. Typed /\ TypeOK /\ a \in Process /\ q \in Process
  BY DEF IInv, Typed, TypeOK
<1>2. /\ Receives(a, DiscoveryChannel(a), id) /\ Subscribe(a, {InfoChannel(id)})
      /\ UpdateInstance(a, id) /\ inbox' = InboxAfter(a) /\ late' = late
  BY DEF OnDiscovery, clockVars
<1>3. /\ inbox[a] # <<>> /\ Head(inbox[a]).data = id /\ id \in started
      /\ Sent(inbox[a], DiscoveryChannel(a), id)
      /\ \A r \in Process \ {a} : inbox'[r] = inbox[r]
      /\ inbox'[a] = Tail(inbox[a])
      /\ \A c : Only(inbox[a], c, id) => Silent(inbox'[a], id)
  BY <1>2, Receipt
<1>4. Elsewhere(a)
  BY <1>1, StepElsewhere DEF Handle
<1>5. BondKept(q, a)
  BY <1>1, <1>4, BondElsewhere
<1>6. /\ \A r \in Process \ {id} : /\ r \in instances'[a] <=> r \in instances[a]
                                   /\ left'[a][r] = left[a][r]
      /\ id \in instances'[a] /\ left'[a][id] = Ttl
      /\ timer'[a] = timer[a] \/ (timer[a] = None /\ timer'[a] = Interval)
      /\ id # a => timer'[a] \in 0..Interval
  <2>1. UpdateInstance(a, id) /\ id \in started
    BY <1>2, <1>3
  <2> QED
    BY <2>1, Learnt
<1>7. inbox'[q] = inbox[q]
  BY <1>1, <1>3
<1>8. CASE id # q
  <2>1. MailKept(q, a)
    BY <1>7, SameMail
  <2>2. BondKept(a, q)
    <3>1. /\ <<InfoChannel(q), a>> \in subscribers' <=> <<InfoChannel(q), a>> \in subscribers
          /\ <<InfoChannel(q), a>> \in pending' <=> <<InfoChannel(q), a>> \in pending
      BY <1>2, <1>8, InfoDiffers DEF Subscribe
    <3>2. q \in instances[a] => timer[a] # None
      BY BondRuns, NoneDiffers, TimesTyped
    <3> QED
      BY <1>1, <1>6, <1>8, <3>1, <3>2 DEF BondKept, Hears, Listens, InfoChannel
  <2> QED
    BY <1>2, <1>3, <1>5, <1>8, <2>1, <2>2, OtherReceived
<1>9. CASE id = q
  <2>1. /\ Only(inbox[a], DiscoveryChannel(a), q) /\ Silent(inbox[q], a)
        /\ ~Hears(a, q) /\ Hears(q, a) /\ a \notin instances[q] /\ Early(a)
    BY <1>3, <1>9 DEF Acquainted, Answered
  <2>2. Silent(inbox'[a], q) /\ Silent(inbox'[q], a)
    BY <1>3, <1>7, <1>9, <2>1
  <2>3. ~Sent(inbox'[a], AddChannel, q) /\ ~Sent(inbox'[a], DiscoveryChannel(a), q)
    BY <2>2, Boxes
  <2>4. ~Sent(inbox'[q], AddChannel, a) /\ ~Sent(inbox'[q], DiscoveryChannel(q), a)
    BY <2>2, Boxes
  <2>5. Hears(a, q)'
    <3>1. <<InfoChannel(q), a>> \in subscribers' \cup pending'
      BY <1>2, <1>9 DEF Subscribe
    <3> QED
      BY <3>1 DEF Hears, Listens, InfoChannel
  <2>6. a \notin instances'[q]
    BY <1>5, <2>1 DEF BondKept
  <2>7. Early(a)'
    <3>1. late \in Nat /\ Interval \in Nat
      BY <1>1, TimesTyped DEF TypeOK
    <3> QED
      BY <1>2, <1>6, <2>1, <3>1 DEF Early
  <2>8. Coming(a, q)' /\ Met(a, q)' /\ Renewed(a, q)'
    BY <1>6, <1>9, FreshInTime
  <2>9. Acquainted(a, q)'
    BY <2>3, <2>5, <2>8 DEF Acquainted, Announced, Answered, Heard, AddChannel, DiscoveryChannel
  <2>10. Acquainted(q, a)'
    BY <2>4, <2>6, <2>7 DEF Acquainted, Announced, Answered, Heard, Coming, Met, Renewed, Mutual,
         AddChannel, DiscoveryChannel
  <2> QED
    BY <2>9, <2>10
<1> QED
  BY <1>8, <1>9

LEMMA OnInfoMeets ==
    ASSUME IInv, NEW a \in alive \ leaving, NEW id \in Process, OnInfo(a, id),
           NEW q \in alive \ leaving, q # a, Acquainted(a, q), Acquainted(q, a)
    PROVE  Acquainted(a, q)' /\ Acquainted(q, a)'
<1>1. Typed /\ TypeOK /\ a \in Process /\ q \in Process
  BY DEF IInv, Typed, TypeOK
<1>2. /\ Receives(a, InfoChannel(id), id) /\ UpdateInstance(a, id) /\ inbox' = InboxAfter(a)
      /\ UNCHANGED <<subscribers, pending, late>>
  BY DEF OnInfo, clockVars
<1>3. /\ inbox[a] # <<>> /\ Head(inbox[a]).data = id /\ id \in started
      /\ Sent(inbox[a], InfoChannel(id), id)
      /\ \A r \in Process \ {a} : inbox'[r] = inbox[r]
      /\ inbox'[a] = Tail(inbox[a])
      /\ \A c : Sent(inbox'[a], c, id) => Sent(inbox[a], c, id)
  BY <1>2, Receipt
<1>4. BondKept(q, a)
  <2>1. Elsewhere(a)
    BY <1>1, StepElsewhere DEF Handle
  <2> QED
    BY <1>1, <2>1, BondElsewhere
<1>5. /\ \A r \in Process \ {id} : /\ r \in instances'[a] <=> r \in instances[a]
                                   /\ left'[a][r] = left[a][r]
      /\ id \in instances'[a] /\ left'[a][id] = Ttl
      /\ timer'[a] = timer[a] \/ (timer[a] = None /\ timer'[a] = Interval)
      /\ id # a => timer'[a] \in 0..Interval
  <2>1. UpdateInstance(a, id) /\ id \in started
    BY <1>2, <1>3
  <2> QED
    BY <2>1, Learnt
<1>6. inbox'[q] = inbox[q]
  BY <1>1, <1>3
<1>7. q \in instances[a] => timer[a] \in 0..Interval /\ timer'[a] = timer[a]
  BY <1>5, BondRuns, NoneDiffers, TimesTyped
<1>8. CASE id # q
  <2>1. MailKept(q, a)
    BY <1>6, SameMail
  <2>2. BondKept(a, q)
    BY <1>1, <1>2, <1>5, <1>7, <1>8 DEF BondKept, Hears, Listens, InfoChannel
  <2> QED
    BY <1>2, <1>3, <1>4, <1>8, <2>1, <2>2, OtherReceived
<1>9. CASE id = q
  <2>1. Hears(a, q) /\ Hears(a, q)'
    <3>1. Listens(a, InfoChannel(q))
      BY <1>2, <1>9 DEF Receives
    <3> QED
      BY <1>2, <3>1 DEF Hears, Listens, InfoChannel
  <2>2. ~Silent(inbox[a], q)
    BY <1>3, <1>9, Boxes
  <2>3. ~Sent(inbox'[a], AddChannel, q) /\ ~Sent(inbox'[a], DiscoveryChannel(a), q)
    BY <1>3, <1>9, <2>1 DEF Acquainted, Announced, Answered
  <2>4. ~Sent(inbox'[q], AddChannel, a) /\ ~Sent(inbox'[q], DiscoveryChannel(q), a)
    BY <1>6, <2>2 DEF Acquainted, Announced, Answered
  <2>5. Coming(a, q)' /\ Met(a, q)' /\ Renewed(a, q)'
    BY <1>5, <1>9, FreshInTime
  <2>6. Acquainted(a, q)'
    BY <2>1, <2>3, <2>5 DEF Acquainted, Announced, Answered, Heard, AddChannel, DiscoveryChannel
  <2>7. Heard(q, a)'
    BY <1>4 DEF Acquainted, Heard, BondKept
  <2>8. Coming(q, a)'
    <3>1. Early(a) => Early(a)'
      <4>1. late \in Nat /\ Interval \in Nat
        BY <1>1, TimesTyped DEF TypeOK
      <4> QED
        BY <1>2, <1>5, <4>1 DEF Early
    <3> QED
      BY <1>4, <3>1 DEF Acquainted, Coming, BondKept, Ttl, InfoChannel
  <2>9. Met(q, a)'
    BY <1>5, <1>9 DEF Met
  <2>10. Renewed(q, a)'
    <3> SUFFICES ASSUME a \in instances'[q]
        PROVE  InTime(q, a, Due(q, a))'
      BY DEF Renewed, Mutual
    <3>1. a \in instances[q] /\ timer'[q] = timer[q] /\ left'[q][a] = left[q][a] /\ timer[q] \in 0..Interval
      BY <1>4, BondRuns DEF BondKept
    <3> PICK d, e : /\ d = IF Sent(inbox[q], InfoChannel(a), a) THEN 0 ELSE timer[a]
                    /\ e = IF Sent(inbox[q], InfoChannel(a), a) THEN 0 ELSE timer'[a]
      OBVIOUS
    <3>2. InTime(q, a, e)
      <4>1. CASE q \in instances[a]
        <5>1. e = Due(q, a)
          BY <1>7, <4>1 DEF Due
        <5> QED
          BY <3>1, <4>1, <5>1 DEF Acquainted, Renewed, Mutual
      <4>2. CASE q \notin instances[a]
        <5>1. InTime(q, a, Due(a, q) + Interval)
          BY <2>1, <3>1, <4>2 DEF Acquainted, Met
        <5>2. Due(a, q) = 0
          BY <1>3, <1>9 DEF Due
        <5>3. e \in 0..Interval /\ Interval \in Nat /\ MaxLate \in Nat /\ late \in Nat
          BY <1>1, <1>5, <1>9, TimesTyped DEF TypeOK
        <5>4. left[q][a] \in Int
          BY <1>1 DEF TypeOK
        <5> QED
          BY <3>1, <5>1, <5>2, <5>3, <5>4 DEF InTime
      <4> QED
        BY <4>1, <4>2
    <3>3. Due(q, a)' = e
      BY <1>6 DEF Due, InfoChannel
    <3> QED
      BY <1>2, <3>1, <3>2, <3>3 DEF InTime
  <2>11. Acquainted(q, a)'
    BY <2>4, <2>7, <2>8, <2>9, <2>10 DEF Acquainted, Announced, Answered, AddChannel, DiscoveryChannel
  <2> QED
    BY <2>6, <2>11
<1> QED
  BY <1>8, <1>9

\* The deletion of id leaves what a knows of another one, and its health check.
LEMMA DeleteBond ==
    ASSUME IInv, NEW a \in alive \ leaving, NEW id \in Process, OnDelete(a, id),
           NEW q \in alive \ leaving, q # a
    PROVE  id # q /\ BondKept(a, q)
<1>1. Typed /\ TypeOK /\ a \in Process /\ q \in Process
  BY DEF IInv, Typed, TypeOK
<1> PICK T : T = StopIfAlone(a, {id})
  OBVIOUS
<1>2. /\ Receives(a, DeleteChannel, id) /\ Unsubscribe(a, {InfoChannel(id)})
      /\ DeleteInstances(a, {id}) /\ timer' = [timer EXCEPT ![a] = T]
  BY DEF OnDelete
<1>3. id \in leaving /\ id # q /\ id # a
  <2>1. id \in leaving
    BY <1>1, <1>2, ChannelsTyped, Received
  <2> QED
    BY <2>1
<1>4. /\ <<InfoChannel(q), a>> \in subscribers' <=> <<InfoChannel(q), a>> \in subscribers
      /\ <<InfoChannel(q), a>> \in pending' <=> <<InfoChannel(q), a>> \in pending
  BY <1>2, <1>3, InfoDiffers DEF Unsubscribe
<1>5. instances'[a] = instances[a] \ {id} /\ left'[a][q] = left[a][q]
  BY <1>1, <1>2, <1>3, DeleteEffect
<1>6. timer'[a] = T
  BY <1>1, <1>2 DEF TypeOK
<1>7. T \in {None, timer[a]} /\ (Cardinality(instances[a] \ {id}) > 1 => T # None)
  BY <1>1, StopEffect DEF IInv, KnowersCheck
<1>8. q \in instances[a] => T # None
  <2> SUFFICES ASSUME q \in instances[a]
      PROVE  T # None
    OBVIOUS
  <2>1. a \in instances[a] \ {id} /\ q \in instances[a] \ {id}
    BY <1>3 DEF IInv, KnowsSelf
  <2>2. instances[a] \ {id} \in SUBSET Process
    BY <1>1 DEF TypeOK
  <2> QED
    BY <1>7, <2>1, <2>2, TwoKnown
<1> QED
  BY <1>3, <1>4, <1>5, <1>6, <1>7, <1>8 DEF BondKept, Hears, Listens, InfoChannel

LEMMA OnDeleteMeets ==
    ASSUME IInv, NEW a \in alive \ leaving, NEW id \in Process, OnDelete(a, id),
           NEW q \in alive \ leaving, q # a, Acquainted(a, q), Acquainted(q, a)
    PROVE  Acquainted(a, q)' /\ Acquainted(q, a)'
<1>1. Typed /\ TypeOK /\ a \in Process /\ q \in Process
  BY DEF IInv, Typed, TypeOK
<1>2. Receives(a, DeleteChannel, id) /\ inbox' = InboxAfter(a) /\ late' = late
  BY DEF OnDelete, clockVars
<1>3. /\ inbox[a] # <<>> /\ Head(inbox[a]).data = id
      /\ \A r \in Process \ {a} : inbox'[r] = inbox[r]
  BY <1>2, Receipt
<1>4. id # q /\ BondKept(a, q)
  BY DeleteBond
<1>5. MailKept(q, a)
  <2>1. inbox'[q] = inbox[q]
    BY <1>1, <1>3
  <2> QED
    BY <2>1, SameMail
<1>6. BondKept(q, a)
  <2>1. Elsewhere(a)
    BY <1>1, StepElsewhere DEF Handle
  <2> QED
    BY <1>1, <2>1, BondElsewhere
<1> QED
  BY <1>2, <1>3, <1>4, <1>5, <1>6, OtherReceived

\* The health check of a, when messages are late by less than an interval.
LEMMA HealthCheckMeets ==
    ASSUME IInv, MaxLate < Interval, up, NEW a \in alive \ leaving, HealthCheck(a),
           NEW q \in alive \ leaving, q # a, Acquainted(a, q), Acquainted(q, a)
    PROVE  /\ Acquainted(a, q)' /\ Acquainted(q, a)'
           /\ Hears(q, a) /\ q \in instances[a] => q \in instances'[a]
<1>1. Typed /\ TypeOK /\ a \in Process /\ q \in Process
  BY DEF IInv, Typed, TypeOK
<1> PICK gone : gone = Expired(a)
  OBVIOUS
<1>2. /\ timer[a] = 0 /\ Publish(a, InfoChannel(a), Others(a), inbox)
      /\ Unsubscribe(a, {InfoChannel(r) : r \in gone}) /\ DeleteInstances(a, gone)
      /\ timer' = [timer EXCEPT ![a] = IF StopIfAlone(a, gone) = None THEN None ELSE Interval]
      /\ late' = late
  BY DEF HealthCheck, clockVars
<1>3. /\ late \in Nat /\ Interval \in Nat /\ MaxLate \in Nat /\ late <= MaxLate /\ Ttl = Interval + Interval
      /\ left[a][q] \in -1..Ttl /\ left[q][a] \in -1..Ttl
  BY <1>1, TimesTyped DEF TypeOK, Ttl
<1>4. ~Early(a)
  BY <1>2, <1>3, NoneDiffers DEF Early
<1>5. /\ inbox'[q] = IF <<InfoChannel(a), q>> \in subscribers
                     THEN Append(inbox[q], [channel |-> InfoChannel(a), data |-> a]) ELSE inbox[q]
      /\ inbox'[a] = inbox[a]
  BY <1>1, <1>2, Published
<1>6. /\ instances'[a] = instances[a] \ gone
      /\ q \notin gone => left'[a][q] = left[a][q]
  BY <1>1, <1>2, DeleteEffect
<1>7. timer'[a] \in {None, Interval} /\ (q \in instances[a] \ gone => timer'[a] = Interval)
  <2>1. timer'[a] = IF StopIfAlone(a, gone) = None THEN None ELSE Interval
    BY <1>1, <1>2 DEF TypeOK
  <2>2. ASSUME q \in instances[a] \ gone
        PROVE  StopIfAlone(a, gone) # None
    <3>1. a \in instances[a] \ gone /\ instances[a] \ gone \in SUBSET Process
      BY <1>1 DEF IInv, KnowsSelf, TypeOK, Expired
    <3>2. Cardinality(instances[a] \ gone) > 1
      BY <2>2, <3>1, TwoKnown
    <3> QED
      BY <1>1, <3>2, StopEffect DEF IInv, KnowersCheck
  <2> QED
    BY <2>1, <2>2
<1>8. BondKept(q, a)
  <2>1. Elsewhere(a)
    BY <1>1, StepElsewhere
  <2> QED
    BY <1>1, <2>1, BondElsewhere
<1>9. timer'[q] = timer[q]
  <2>1. Elsewhere(a)
    BY <1>1, StepElsewhere
  <2> QED
    BY <1>1, <2>1 DEF Elsewhere
<1>10. /\ ~Sent(inbox[a], DiscoveryChannel(a), q) /\ ~Sent(inbox[q], AddChannel, a)
       /\ <<InfoChannel(a), q>> \in pending => a \in instances[q] /\ left[q][a] = Ttl
  BY <1>4 DEF Acquainted, Announced, Answered, Coming
\* The ttl of q has passed only when q does not listen to a.
<1>11. q \in instances[a] /\ Hears(q, a) => 0 <= left[a][q]
  <2> SUFFICES ASSUME q \in instances[a], Hears(q, a)
      PROVE  0 <= left[a][q]
    OBVIOUS
  <2>1. CASE a \in instances[q]
    <3>1. timer[q] \in 0..Interval
      BY <2>1, BondRuns
    <3>2. Due(a, q) \in 0..Interval
      BY <1>3, <3>1 DEF Due
    <3>3. InTime(a, q, Due(a, q))
      BY <2>1 DEF Acquainted, Renewed, Mutual
    <3> QED
      BY <1>2, <1>3, <3>2, <3>3 DEF InTime
  <2>2. CASE a \notin instances[q]
    <3>1. Due(q, a) = 0
      BY <1>2 DEF Due
    <3>2. InTime(a, q, Due(q, a) + Interval)
      BY <2>2 DEF Acquainted, Met
    <3> QED
      BY <1>2, <1>3, <3>1, <3>2 DEF InTime
  <2> QED
    BY <2>1, <2>2
<1>12. q \in gone <=> q \in instances[a] /\ left[a][q] = -1
  BY DEF Expired
<1>13. Hears(a, q)' <=> Hears(a, q) /\ q \notin gone
  <2>1. InfoChannel(q) \in {InfoChannel(r) : r \in gone} <=> q \in gone
    BY InfoDiffers
  <2>2. <<InfoChannel(q), a>> \in subscribers' \cup pending'
        <=> <<InfoChannel(q), a>> \in subscribers \cup pending /\ q \notin gone
    BY <1>2, <2>1 DEF Unsubscribe
  <2> QED
    BY <2>2 DEF Hears, Listens, InfoChannel
<1>14. <<InfoChannel(q), a>> \in pending' => <<InfoChannel(q), a>> \in pending
  BY <1>2 DEF Unsubscribe
<1>15. CASE q \in gone
  <2>1. /\ q \in instances[a] /\ q \notin instances'[a] /\ ~Hears(q, a) /\ Hears(a, q)
        /\ a \notin instances[q] /\ a \notin instances'[q] /\ ~Hears(q, a)' /\ ~Hears(a, q)'
    <3>1. q \in instances[a] /\ q \notin instances'[a] /\ ~Hears(q, a)
      BY <1>3, <1>6, <1>11, <1>12, <1>15
    <3>2. Hears(a, q) /\ a \notin instances[q]
      BY <3>1 DEF Acquainted, Heard
    <3> QED
      BY <1>8, <1>13, <1>15, <3>1, <3>2 DEF BondKept
  <2>2. inbox'[q] = inbox[q]
    BY <1>5, <2>1 DEF Hears, Listens
  <2>3. /\ ~Sent(inbox'[a], AddChannel, q) /\ ~Sent(inbox'[a], DiscoveryChannel(a), q)
    BY <1>5, <1>10, <2>1 DEF Acquainted, Announced
  <2>4. /\ ~Sent(inbox'[q], AddChannel, a) /\ ~Sent(inbox'[q], DiscoveryChannel(q), a)
    BY <1>10, <2>1, <2>2 DEF Acquainted, Answered
  <2>5. <<InfoChannel(q), a>> \notin pending' /\ <<InfoChannel(a), q>> \notin pending'
    BY <2>1 DEF Hears, Listens, InfoChannel
  <2>6. Acquainted(a, q)'
    BY <2>1, <2>3, <2>5 DEF Acquainted, Announced, Answered, Heard, Coming, Met, Renewed, Mutual,
         AddChannel, DiscoveryChannel, InfoChannel
  <2>7. Acquainted(q, a)'
    BY <2>1, <2>4, <2>5 DEF Acquainted, Announced, Answered, Heard, Coming, Met, Renewed, Mutual,
         AddChannel, DiscoveryChannel, InfoChannel
  <2> QED
    BY <2>1, <2>6, <2>7
<1>16. CASE q \notin gone
  <2>1. /\ q \in instances'[a] <=> q \in instances[a]
        /\ a \in instances'[q] <=> a \in instances[q]
        /\ Hears(a, q)' <=> Hears(a, q)
        /\ Hears(q, a)' <=> Hears(q, a)
        /\ left'[a][q] = left[a][q] /\ left'[q][a] = left[q][a]
    BY <1>6, <1>8, <1>13, <1>16 DEF BondKept
  <2> PICK m, w : m = [channel |-> InfoChannel(a), data |-> a] /\ w = inbox[q]
    OBVIOUS
  <2>2. w \in Seq(Frame) /\ m \in Frame
    BY <1>1, ChannelsTyped DEF Typed, Frame
  <2>3. \A c : /\ Sent(inbox'[q], c, a) => Sent(inbox[q], c, a) \/ c = InfoChannel(a)
               /\ Sent(inbox[q], c, a) => Sent(inbox'[q], c, a)
    <3>1. inbox'[q] = w \/ inbox'[q] = Append(w, m)
      BY <1>5
    <3>2. \A c : Sent(Append(w, m), c, a) <=> Sent(w, c, a) \/ c = InfoChannel(a)
      BY <2>2, AppendMail
    <3> QED
      BY <3>1, <3>2
  <2>4. <<InfoChannel(a), q>> \in subscribers => Sent(inbox'[q], InfoChannel(a), a)
    BY <1>5, <2>2, AppendMail
  <2>5. ~Hears(q, a) => inbox'[q] = inbox[q]
    BY <1>5 DEF Hears, Listens
  <2>6. Early(q)' <=> Early(q)
    BY <1>2, <1>9 DEF Early
  <2>7. Announced(a, q)'
    BY <1>5, <2>1, <2>5, <2>6 DEF Acquainted, Announced, AddChannel
  <2>8. Answered(a, q)'
    BY <1>5, <1>10 DEF Answered, DiscoveryChannel
  <2>9. Heard(a, q)' /\ Heard(q, a)'
    BY <2>1 DEF Acquainted, Heard
  <2>10. Coming(a, q)'
    BY <1>14, <2>1, <2>6 DEF Acquainted, Coming, Ttl, InfoChannel
  <2>11. Met(a, q)'
    <3> SUFFICES ASSUME q \in instances[a], a \notin instances[q], Hears(q, a)
        PROVE  InTime(a, q, Due(q, a) + Interval)'
      BY <2>1 DEF Met
    <3>1. <<InfoChannel(a), q>> \in subscribers
      BY <1>10 DEF Hears, Listens
    <3>2. Due(q, a)' = 0
      BY <2>4, <3>1 DEF Due, InfoChannel
    <3>3. Due(q, a) = 0 /\ InTime(a, q, Due(q, a) + Interval)
      BY <1>2 DEF Due, Acquainted, Met
    <3>4. timer'[a] = Interval
      BY <1>7, <1>16
    <3> QED
      BY <1>2, <1>3, <2>1, <3>2, <3>3, <3>4 DEF InTime
  <2>12. Renewed(a, q)'
    <3> SUFFICES ASSUME q \in instances[a], a \in instances[q]
        PROVE  InTime(a, q, Due(a, q))'
      BY <2>1 DEF Renewed, Mutual
    <3>1. Due(a, q)' = Due(a, q)
      BY <1>5, <1>9 DEF Due, InfoChannel
    <3>2. Due(a, q) \in 0..Interval
      BY <1>3, BondRuns DEF Due
    <3>3. InTime(a, q, Due(a, q))
      BY DEF Acquainted, Renewed, Mutual
    <3>4. timer'[a] = Interval
      BY <1>7, <1>16
    <3> QED
      BY <1>2, <1>3, <2>1, <3>1, <3>2, <3>3, <3>4 DEF InTime
  <2>13. Announced(q, a)'
    BY <1>10, <2>3, InfoDiffers DEF Announced, AddChannel
  <2>14. Answered(q, a)'
    <3> PICK c : c = DiscoveryChannel(q)
      OBVIOUS
    <3> SUFFICES ASSUME Sent(inbox'[q], c, a)
        PROVE  /\ Only(inbox'[q], c, a) /\ Silent(inbox'[a], q)
               /\ ~Hears(q, a)' /\ Hears(a, q)' /\ q \notin instances'[a] /\ Early(q)'
      BY DEF Answered, DiscoveryChannel
    <3>1. Sent(inbox[q], c, a)
      BY <2>3, InfoDiffers
    <3>2. /\ Only(inbox[q], c, a) /\ Silent(inbox[a], q)
          /\ ~Hears(q, a) /\ Hears(a, q) /\ q \notin instances[a] /\ Early(q)
      BY <3>1 DEF Acquainted, Answered
    <3> QED
      BY <1>5, <2>1, <2>5, <2>6, <3>2
  <2>15. Coming(q, a)'
    BY <1>8, <1>10, <2>1 DEF BondKept, Coming, Ttl, InfoChannel
  <2>16. Met(q, a)'
    <3> SUFFICES ASSUME a \in instances[q], q \notin instances[a], Hears(a, q)
        PROVE  InTime(q, a, Due(a, q) + Interval)'
      BY <2>1 DEF Met
    <3>1. Due(a, q)' = Due(a, q)
      BY <1>5, <1>9 DEF Due, InfoChannel
    <3> QED
      BY <1>2, <1>9, <2>1, <3>1 DEF Acquainted, Met, InTime
  <2>17. Renewed(q, a)'
    <3> SUFFICES ASSUME q \in instances[a], a \in instances[q]
        PROVE  InTime(q, a, Due(q, a))'
      BY <2>1 DEF Renewed, Mutual
    <3>1. Hears(q, a)
      BY DEF Acquainted, Heard
    <3>2. timer[q] \in 0..Interval
      BY BondRuns
    <3>3. CASE <<InfoChannel(a), q>> \in subscribers
      <4>1. Due(q, a)' = 0
        BY <2>4, <3>3 DEF Due, InfoChannel
      <4>2. Due(q, a) = 0
        BY <1>2 DEF Due
      <4>3. InTime(q, a, Due(q, a))
        BY DEF Acquainted, Renewed, Mutual
      <4> QED
        BY <1>2, <1>9, <2>1, <4>1, <4>2, <4>3 DEF InTime
    <3>4. CASE <<InfoChannel(a), q>> \in pending
      <4>1. left'[q][a] = Ttl /\ timer'[q] \in 0..Interval
        BY <1>9, <1>10, <2>1, <3>2, <3>4
      <4> QED
        BY <2>1, <4>1, FreshInTime DEF Renewed, Mutual
    <3> QED
      BY <3>1, <3>3, <3>4 DEF Hears, Listens
  <2> QED
    BY <2>1, <2>7, <2>8, <2>9, <2>10, <2>11, <2>12, <2>13, <2>14, <2>15, <2>16, <2>17 DEF Acquainted
<1> QED
  BY <1>15, <1>16

LEMMA ArrivesMeets ==
    ASSUME IInv, NEW s \in pending, SubscriptionArrives(s),
           NEW p \in alive \ leaving, NEW q \in alive \ leaving, p # q,
           Acquainted(p, q)
    PROVE  Acquainted(p, q)'
<1>1. TypeOK /\ p \in Process /\ q \in Process
  BY DEF IInv, Typed, TypeOK
<1>2. /\ pending' = pending \ {s} /\ subscribers' = subscribers \cup {s}
      /\ UNCHANGED <<inbox, instances, left, timer, late>>
  BY DEF SubscriptionArrives, discoveryVars, clockVars
<1>3. MailKept(p, q) /\ MailKept(q, p)
  BY <1>2, SameMail
<1>4. BondKept(p, q) /\ BondKept(q, p)
  BY <1>2 DEF BondKept, Hears, Listens, InfoChannel
<1> QED
  BY <1>1, <1>2, <1>3, <1>4, BondRuns, PairKept

\* A tick before the next report of s to r, or with it on its way.
LEMMA DueComes ==
    ASSUME IInv, Tick, NEW r \in alive \ leaving, NEW s \in alive \ leaving, r # s, r \in instances[s]
    PROVE  /\ Due(r, s) \in Nat /\ Due(r, s)' \in Nat
           /\ Due(r, s)' = Due(r, s) - 1 \/ (Due(r, s)' = Due(r, s) /\ InFlight # {})
<1>1. TypeOK /\ r \in Process /\ s \in Process
  BY DEF IInv, Typed, TypeOK
<1>2. inbox' = inbox
  BY DEF Tick, busVars
<1>3. timer[s] \in 0..Interval /\ timer[s] # 0 /\ Interval \in Nat
  BY BondRuns, TimesTyped DEF Tick
<1>4. timer'[s] = timer[s] - 1
  <2>1. timer' = [q \in Process |-> IF timer[q] = None THEN None ELSE timer[q] - 1]
    BY DEF Tick
  <2> QED
    BY <1>1, <1>3, <2>1, NoneDiffers
<1>5. CASE Sent(inbox[r], InfoChannel(s), s)
  <2>1. Due(r, s) = 0 /\ Due(r, s)' = 0
    BY <1>2, <1>5 DEF Due, InfoChannel
  <2>2. inbox[r] # <<>>
    <3>1. DOMAIN <<>> = {}
      OBVIOUS
    <3> QED
      BY <1>5, <3>1 DEF Sent
  <2> QED
    BY <1>1, <2>1, <2>2 DEF InFlight
<1>6. CASE ~Sent(inbox[r], InfoChannel(s), s)
  <2>1. Due(r, s) = timer[s] /\ Due(r, s)' = timer'[s]
    BY <1>2, <1>6 DEF Due, InfoChannel
  <2> QED
    BY <1>3, <1>4, <2>1
<1> QED
  BY <1>5, <1>6

LEMMA TickMeets ==
    ASSUME IInv, Tick, NEW p \in alive \ leaving, NEW q \in alive \ leaving, p # q, Acquainted(p, q)
    PROVE  Acquainted(p, q)'
<1>1. TypeOK /\ p \in Process /\ q \in Process
  BY DEF IInv, Typed, TypeOK
<1>2. UNCHANGED <<alive, leaving, subscribers, pending, inbox, instances>>
  BY DEF Tick, busVars
<1>3. /\ Interval \in Nat /\ Interval > 0 /\ MaxLate \in Nat /\ late \in Nat /\ None \notin Int
      /\ Ttl = Interval + Interval /\ left[p][q] \in -1..Ttl
  BY <1>1, TimesTyped, NoneDiffers DEF TypeOK, Ttl
<1>4. /\ late' = IF InFlight = {} THEN late ELSE late + 1
      /\ redis => late' <= 0
  BY DEF Tick
<1>5. pending = {}
  <2> SUFFICES ASSUME pending # {}
      PROVE  FALSE
    OBVIOUS
  <2>1. redis /\ InFlight # {}
    BY <1>1 DEF TypeOK, InFlight
  <2> QED
    BY <1>3, <1>4, <2>1
<1>6. ASSUME NEW r \in Process, NEW s, NEW ch, Sent(inbox[r], ch, s)
      PROVE  InFlight # {}
  <2>1. inbox[r] # <<>>
    <3>1. DOMAIN <<>> = {}
      OBVIOUS
    <3> QED
      BY <1>6, <3>1 DEF Sent
  <2> QED
    BY <2>1 DEF InFlight
<1>7. ASSUME NEW r \in {p, q}
      PROVE  timer'[r] = IF timer[r] = None THEN None ELSE timer[r] - 1
  <2>1. timer' = [s \in Process |-> IF timer[s] = None THEN None ELSE timer[s] - 1]
    BY DEF Tick
  <2> QED
    BY <1>1, <2>1
<1>8. ASSUME NEW r \in {p, q}, Early(r), InFlight # {}
      PROVE  Early(r)'
  <2>1. timer[r] \in 0..Interval \cup {None}
    BY <1>1 DEF TypeOK
  <2>2. CASE timer[r] = None
    BY <1>7, <2>2 DEF Early
  <2>3. CASE timer[r] # None
    <3>1. timer'[r] = timer[r] - 1 /\ late' = late + 1 /\ timer[r] + late >= Interval /\ timer[r] \in Nat
      BY <1>4, <1>7, <1>8, <2>1, <2>3 DEF Early
    <3>2. timer'[r] + late' >= Interval
      BY ONLY <1>3, <3>1
    <3> QED
      BY <3>2 DEF Early
  <2> QED
    BY <2>2, <2>3
<1>9. left'[p][q] = IF q \in instances[p] /\ left[p][q] > -1 THEN left[p][q] - 1 ELSE left[p][q]
  <2>1. left' = [r \in Process |-> [s \in Process |->
                  IF s \in instances[r] \ {r} /\ left[r][s] > -1 THEN left[r][s] - 1 ELSE left[r][s]]]
    BY DEF Tick
  <2> QED
    BY <1>1, <2>1
\* The next report comes nearer, or is on its way and one late tick has been used.
<1>10. ASSUME NEW d \in Nat, NEW e \in Nat, NEW c \in Nat, InTime(p, q, d + c), q \in instances[p],
              e = d - 1 \/ (e = d /\ InFlight # {})
       PROVE  InTime(p, q, e + c)'
  <2>1. timer[p] \in 0..Interval
    BY <1>10, BondRuns
  <2>2. timer'[p] = timer[p] - 1
    BY <1>3, <1>7, <2>1
  <2>3. late' >= late /\ (e = d - 1 \/ late' = late + 1)
    BY <1>3, <1>4, <1>10
  <2>4. left'[p][q] = IF left[p][q] > -1 THEN left[p][q] - 1 ELSE left[p][q]
    BY <1>9, <1>10
  <2>5. late' \in Nat
    BY <1>3, <1>4
  <2>6. /\ timer[p] + late <= d + c + MaxLate => timer[p] <= left[p][q]
        /\ timer[p] + Interval + late <= d + c + MaxLate => timer[p] + Interval <= left[p][q]
    BY <1>10 DEF InTime
  <2>7. /\ timer'[p] + late' <= e + c + MaxLate => timer'[p] <= left'[p][q]
        /\ timer'[p] + Interval + late' <= e + c + MaxLate => timer'[p] + Interval <= left'[p][q]
    <3>1. left[p][q] \in Int /\ timer[p] \in Nat
      BY <1>3, <2>1
    <3> PICK t, u, m, n : t = timer[p] /\ u = left[p][q] /\ m = late /\ n = late'
      OBVIOUS
    <3>2. /\ t \in Nat /\ u \in Int /\ m \in Nat /\ n \in Nat /\ Interval \in Nat /\ MaxLate \in Nat
          /\ n >= m /\ (e = d - 1 \/ (e = d /\ n = m + 1))
          /\ t + m <= d + c + MaxLate => t <= u
          /\ t + Interval + m <= d + c + MaxLate => t + Interval <= u
      BY <1>3, <1>4, <1>10, <2>3, <2>5, <2>6, <3>1
    <3>3. /\ t - 1 + n <= e + c + MaxLate => t <= u
          /\ t - 1 + Interval + n <= e + c + MaxLate => t + Interval <= u
      BY ONLY <3>2, d \in Nat, e \in Nat, c \in Nat
    <3>4. /\ t <= u => t - 1 <= left'[p][q]
          /\ t + Interval <= u => t - 1 + Interval <= left'[p][q]
      <4>1. t <= u \/ t + Interval <= u => left'[p][q] = u - 1
        BY <2>4, <3>2
      <4> QED
        BY <3>2, <4>1
    <3> QED
      BY <2>2, <3>3, <3>4
  <2> QED
    BY <2>7 DEF InTime
<1>11. ASSUME NEW r \in {p, q}, NEW s \in {p, q}, r # s, r \in instances[s]
       PROVE  /\ Due(r, s) \in Nat /\ Due(r, s)' \in Nat
              /\ Due(r, s)' = Due(r, s) - 1 \/ (Due(r, s)' = Due(r, s) /\ InFlight # {})
  BY <1>11, DueComes
<1>12. Announced(p, q)'
  <2> SUFFICES ASSUME Sent(inbox[p], AddChannel, q)
      PROVE  /\ Only(inbox[p], AddChannel, q) /\ Silent(inbox[q], p)
             /\ ~Hears(p, q)' /\ ~Hears(q, p)' /\ Early(q)'
    BY <1>2 DEF Announced, AddChannel
  <2>1. /\ Only(inbox[p], AddChannel, q) /\ Silent(inbox[q], p)
        /\ ~Hears(p, q) /\ ~Hears(q, p) /\ Early(q)
    BY DEF Acquainted, Announced
  <2>2. Early(q)'
    BY <1>1, <1>6, <1>8, <2>1
  <2> QED
    BY <1>2, <2>1, <2>2 DEF Hears, Listens, InfoChannel
<1>13. Answered(p, q)'
  <2> PICK ch : ch = DiscoveryChannel(p)
    OBVIOUS
  <2> SUFFICES ASSUME Sent(inbox[p], ch, q)
      PROVE  /\ Only(inbox[p], ch, q) /\ Silent(inbox[q], p)
             /\ ~Hears(p, q)' /\ Hears(q, p)' /\ p \notin instances[q] /\ Early(p)'
    BY <1>2 DEF Answered, DiscoveryChannel
  <2>1. /\ Only(inbox[p], ch, q) /\ Silent(inbox[q], p)
        /\ ~Hears(p, q) /\ Hears(q, p) /\ p \notin instances[q] /\ Early(p)
    BY DEF Acquainted, Answered
  <2>2. Early(p)'
    BY <1>1, <1>6, <1>8, <2>1
  <2> QED
    BY <1>2, <2>1, <2>2 DEF Hears, Listens, InfoChannel
<1>14. Heard(p, q)' /\ Coming(p, q)'
  BY <1>2, <1>5 DEF Acquainted, Heard, Coming, Hears, Listens, InfoChannel
<1>15. Met(p, q)'
  <2> SUFFICES ASSUME q \in instances[p], p \notin instances[q], Hears(q, p)
      PROVE  InTime(p, q, Due(q, p) + Interval)'
    BY <1>2 DEF Met, Hears, Listens, InfoChannel
  <2> PICK d, e : d = Due(q, p) /\ e = Due(q, p)'
    OBVIOUS
  <2>1. InTime(p, q, d + Interval)
    BY DEF Acquainted, Met
  <2>2. d \in Nat /\ e \in Nat /\ (e = d - 1 \/ (e = d /\ InFlight # {}))
    BY <1>11
  <2>3. InTime(p, q, e + Interval)'
    BY <1>3, <1>10, <2>1, <2>2
  <2> QED
    BY <2>3 DEF InTime
<1>16. Renewed(p, q)'
  <2> SUFFICES ASSUME q \in instances[p], p \in instances[q]
      PROVE  InTime(p, q, Due(p, q))'
    BY <1>2 DEF Renewed, Mutual
  <2> PICK d, e : d = Due(p, q) /\ e = Due(p, q)'
    OBVIOUS
  <2>1. d \in Nat /\ e \in Nat /\ (e = d - 1 \/ (e = d /\ InFlight # {}))
    BY <1>11
  <2>2. InTime(p, q, d + 0) /\ d + 0 = d /\ e + 0 = e
    BY <2>1 DEF Acquainted, Renewed, Mutual
  <2>3. InTime(p, q, e + 0)'
    BY <1>10, <2>1, <2>2
  <2> QED
    BY <2>2, <2>3 DEF InTime
<1> QED
  BY <1>12, <1>13, <1>14, <1>15, <1>16 DEF Acquainted

-----------------------------------------------------------------------------
(* Every step. *)

LEMMA ChannelsKept ==
    ASSUME IInv, ChannelsUsed, [Next]_vars
    PROVE  ChannelsUsed'
<1>1. TypeOK
  BY DEF IInv, Typed
<1>2. ASSUME started \subseteq started', subscribers' \cup pending' \subseteq subscribers \cup pending
      PROVE  ChannelsUsed'
  BY <1>2 DEF ChannelsUsed, DiscoveryChannel, InfoChannel
<1>3. ASSUME NEW a \in started, NEW id \in started, Subscribe(a, {InfoChannel(id)}), started' = started
      PROVE  ChannelsUsed'
  <2>1. subscribers' \cup pending' \subseteq subscribers \cup pending \cup {<<InfoChannel(id), a>>}
    BY <1>3 DEF Subscribe
  <2>2. ASSUME NEW q \in Process
        PROVE  InfoChannel(id) # DiscoveryChannel(q) /\ (InfoChannel(id) = InfoChannel(q) => q = id)
    BY InfoDiffers
  <2> QED
    BY <1>3, <2>1, <2>2 DEF ChannelsUsed, DiscoveryChannel, InfoChannel
<1>4. ASSUME NEW a, NEW chs, Unsubscribe(a, chs), started' = started
      PROVE  ChannelsUsed'
  BY <1>2, <1>4 DEF Unsubscribe
<1>5. ASSUME NEW a \in Process, StartProcess(a)
      PROVE  ChannelsUsed'
  <2> PICK chs : chs = {AddChannel, DeleteChannel, DiscoveryChannel(a)}
    OBVIOUS
  <2>1. Subscribe(a, chs) /\ started' = started \cup {a}
    BY <1>5 DEF StartProcess
  <2>2. subscribers' \cup pending' \subseteq subscribers \cup pending \cup (chs \X {a})
    BY <2>1 DEF Subscribe
  <2>3. ASSUME NEW ch \in chs, NEW q \in Process
        PROVE  ch # InfoChannel(q) /\ (ch = DiscoveryChannel(q) => q = a)
    BY InfoDiffers
  <2>4. ASSUME NEW s \in subscribers \cup pending
        PROVE  /\ s[2] \in started'
               /\ \A q \in Process : /\ s[1] = DiscoveryChannel(q) => s[2] = q
                                     /\ s[1] = InfoChannel(q) => q \in started'
    BY <2>1 DEF ChannelsUsed
  <2>5. ASSUME NEW s \in chs \X {a}
        PROVE  /\ s[2] \in started'
               /\ \A q \in Process : /\ s[1] = DiscoveryChannel(q) => s[2] = q
                                     /\ s[1] = InfoChannel(q) => q \in started'
    BY <2>1, <2>3
  <2> QED
    BY <2>2, <2>4, <2>5 DEF ChannelsUsed, DiscoveryChannel, InfoChannel
<1>6. ASSUME NEW a \in Process, Terminate(a) \/ Exit(a) \/ HealthCheck(a) \/ DropMessage(a)
      PROVE  ChannelsUsed'
  <2>1. CASE Terminate(a) \/ DropMessage(a)
    BY <1>2, <2>1 DEF Terminate, DropMessage
  <2>2. CASE Exit(a)
    BY <1>2, <2>2 DEF Exit
  <2>3. CASE HealthCheck(a)
    BY <1>4, <2>3 DEF HealthCheck
  <2> QED
    BY <1>6, <2>1, <2>2, <2>3
<1>7. ASSUME NEW a \in Process, NEW id \in Process,
             OnAdd(a, id) \/ OnDiscovery(a, id) \/ OnInfo(a, id) \/ OnDelete(a, id)
      PROVE  ChannelsUsed'
  <2>1. CASE OnAdd(a, id)
    <3>1. a \in started /\ id \in started
      BY <1>1, <2>1, ChannelsTyped, Received DEF OnAdd, TypeOK
    <3> QED
      BY <1>3, <2>1, <3>1 DEF OnAdd
  <2>2. CASE OnDiscovery(a, id)
    <3>1. a \in started /\ id \in started
      BY <1>1, <2>2, ChannelsTyped, Received DEF OnDiscovery, TypeOK
    <3> QED
      BY <1>3, <2>2, <3>1 DEF OnDiscovery
  <2>3. CASE OnInfo(a, id)
    BY <1>2, <2>3 DEF OnInfo
  <2>4. CASE OnDelete(a, id)
    BY <1>4, <2>4 DEF OnDelete
  <2> QED
    BY <1>7, <2>1, <2>2, <2>3, <2>4
<1>8. CASE Tick \/ UNCHANGED vars \/ \E s \in pending : SubscriptionArrives(s)
  <2>1. started' = started /\ subscribers' \cup pending' \subseteq subscribers \cup pending
    BY <1>8 DEF Tick, SubscriptionArrives, vars, busVars
  <2> QED
    BY <1>2, <2>1
<1> QED
  BY <1>5, <1>6, <1>7, <1>8 DEF Next, Handle

\* The bus does not start again.
LEMMA BusEnds ==
    ASSUME [Next]_vars, up'
    PROVE  up
<1>1. ASSUME NEW a, NEW ch, NEW to, NEW rest, Publish(a, ch, to, rest)
      PROVE  up
  BY <1>1 DEF Publish
<1> QED
  BY <1>1 DEF Next, Handle, Tick, SubscriptionArrives, StartProcess, Terminate, Exit, HealthCheck,
       DropMessage, OnAdd, OnDiscovery, OnInfo, OnDelete, vars, busVars

MInv == IInv /\ ChannelsUsed /\ MembersAcquainted

\* A step of one of two members.
LEMMA OwnStepMeets ==
    ASSUME IInv, ChannelsUsed, MaxLate < Interval, up,
           NEW a \in alive \ leaving, Handle(a) \/ HealthCheck(a),
           NEW q \in alive \ leaving, q # a, Acquainted(a, q), Acquainted(q, a)
    PROVE  Acquainted(a, q)' /\ Acquainted(q, a)'
<1>1. a \in Process
  BY DEF IInv, Typed, TypeOK
<1> QED
  BY <1>1, HealthCheckMeets, DropMeets, OnAddMeets, OnDiscoveryMeets, OnInfoMeets, OnDeleteMeets DEF Handle

LEMMA MembersKept ==
    ASSUME MInv, MaxLate < Interval, [Next]_vars
    PROVE  MembersAcquainted'
<1> SUFFICES ASSUME up', NEW p \in alive' \ leaving', NEW q \in alive' \ leaving', p # q
    PROVE  Acquainted(p, q)'
  BY DEF MembersAcquainted
<1>1. /\ IInv /\ ChannelsUsed /\ Typed /\ TypeOK /\ up
      /\ \A r, s \in alive \ leaving : r # s => Acquainted(r, s)
  BY BusEnds DEF MInv, IInv, Typed, MembersAcquainted
<1>2. CASE UNCHANGED vars
  <2>1. UNCHANGED <<alive, leaving, pending, subscribers, inbox, instances, left, timer, late>>
    BY <1>2 DEF vars, busVars, discoveryVars, clockVars
  <2>2. Acquainted(p, q)
    BY <1>1, <2>1
  <2> QED
    BY <2>1, <2>2 DEF Acquainted, Announced, Answered, Heard, Coming, Met, Renewed, Mutual, InTime, Due,
         Early, Hears, Listens, AddChannel, DiscoveryChannel, InfoChannel, Ttl
<1>3. CASE Tick
  <2>1. UNCHANGED <<alive, leaving>>
    BY <1>3 DEF Tick, busVars
  <2> QED
    BY <1>1, <1>3, <2>1, TickMeets
<1>4. CASE \E s \in pending : SubscriptionArrives(s)
  <2>1. UNCHANGED <<alive, leaving>>
    BY <1>4 DEF SubscriptionArrives
  <2> QED
    BY <1>1, <1>4, <2>1, ArrivesMeets
<1>5. ASSUME NEW a \in Process,
             StartProcess(a) \/ Terminate(a) \/ Exit(a) \/ Handle(a) \/ HealthCheck(a)
      PROVE  Acquainted(p, q)'
  <2>1. /\ alive' \ leaving' \subseteq (alive \ leaving) \cup {a}
        /\ ~StartProcess(a) => alive' \ leaving' \subseteq alive \ leaving
        /\ Terminate(a) \/ Exit(a) => a \notin alive' \ leaving'
    BY <1>5 DEF StartProcess, Terminate, Exit, Handle, HealthCheck, DropMessage, OnAdd, OnDiscovery,
         OnInfo, OnDelete
  <2>2. Elsewhere(a) /\ late' = late
    BY <1>1, <1>5, StepElsewhere
  <2>3. CASE p # a /\ q # a
    <3>1. /\ p \in alive \ leaving /\ q \in alive \ leaving /\ Acquainted(p, q)
          /\ p \in Process \ {a} /\ q \in Process \ {a}
      BY <1>1, <2>1, <2>3 DEF TypeOK
    <3>2. /\ q \in instances[p] => timer[p] \in 0..Interval
          /\ p \in instances[q] => timer[q] \in 0..Interval
      BY <1>1, <3>1, BondRuns
    <3> QED
      BY <1>1, <2>2, <3>1, <3>2, OthersKept
  <2>4. ASSUME NEW r \in alive \ leaving, r # a, {p, q} = {a, r}
        PROVE  Acquainted(p, q)'
    <3>1. CASE StartProcess(a)
      <4>1. Acquainted(a, r)' /\ Acquainted(r, a)'
        BY <1>1, <2>4, <3>1, StartMeets
      <4> QED
        BY <2>4, <4>1
    <3>2. CASE ~StartProcess(a)
      <4>1. a \in alive \ leaving /\ (Handle(a) \/ HealthCheck(a))
        BY <1>5, <2>1, <2>4, <3>2
      <4>2. Acquainted(a, r)' /\ Acquainted(r, a)'
        BY <1>1, <2>4, <4>1, OwnStepMeets
      <4> QED
        BY <2>4, <4>2
    <3> QED
      BY <3>1, <3>2
  <2>5. CASE p = a
    <3>1. q \in alive \ leaving
      BY <2>1, <2>5
    <3> QED
      BY <2>4, <2>5, <3>1
  <2>6. CASE q = a
    <3>1. p \in alive \ leaving
      BY <2>1, <2>6
    <3> QED
      BY <2>4, <2>6, <3>1
  <2> QED
    BY <2>3, <2>5, <2>6
<1> QED
  BY <1>2, <1>3, <1>4, <1>5 DEF Next

LEMMA MInvInit ==
    ASSUME Init
    PROVE  MInv
<1>1. IInv
  BY IInvInit
<1>2. ChannelsUsed /\ MembersAcquainted
  BY DEF Init, ChannelsUsed, MembersAcquainted
<1> QED
  BY <1>1, <1>2 DEF MInv

LEMMA MInvStep ==
    ASSUME MInv, MaxLate < Interval, [Next]_vars
    PROVE  MInv'
<1>1. IInv /\ ChannelsUsed
  BY DEF MInv
<1> QED
  BY <1>1, IInvStep, ChannelsKept, MembersKept DEF MInv

\* A step of a: what it knows of another member, and is not about to check on, it keeps.
LEMMA KnownKept ==
    ASSUME MInv, MaxLate < Interval, up, NEW a \in alive \ leaving, Handle(a) \/ HealthCheck(a),
           NEW q \in alive \ leaving, q # a, q \in instances[a], Hears(q, a)
    PROVE  q \in instances'[a]
<1>1. /\ IInv /\ Typed /\ TypeOK /\ a \in Process /\ q \in Process
      /\ Acquainted(a, q) /\ Acquainted(q, a)
  BY DEF MInv, IInv, Typed, TypeOK, MembersAcquainted
<1>2. CASE HealthCheck(a)
  BY <1>1, <1>2, HealthCheckMeets
<1>3. CASE DropMessage(a)
  BY <1>3 DEF DropMessage, discoveryVars
<1>4. ASSUME NEW id \in Process, OnAdd(a, id)
      PROVE  q \in instances'[a]
  BY <1>4 DEF OnAdd, discoveryVars
<1>5. ASSUME NEW id \in Process, OnDiscovery(a, id) \/ OnInfo(a, id)
      PROVE  q \in instances'[a]
  <2>1. instances' = [instances EXCEPT ![a] = @ \cup {id}]
    BY <1>5 DEF OnDiscovery, OnInfo, UpdateInstance
  <2> QED
    BY <1>1, <2>1 DEF TypeOK
<1>6. ASSUME NEW id \in Process, OnDelete(a, id)
      PROVE  q \in instances'[a]
  <2>1. id \in leaving
    BY <1>1, <1>6, ChannelsTyped, Received DEF OnDelete
  <2>2. instances' = [instances EXCEPT ![a] = @ \ {id}]
    BY <1>6 DEF OnDelete, DeleteInstances, Remaining
  <2> QED
    BY <1>1, <2>1, <2>2 DEF TypeOK
<1> QED
  BY <1>2, <1>3, <1>4, <1>5, <1>6 DEF Handle

LEMMA MutualKept ==
    ASSUME MInv, MaxLate < Interval, [Next]_vars, up', NEW p \in Process, NEW q \in Process, p # q,
           Mutual(p, q), Member(p)', Member(q)'
    PROVE  Mutual(p, q)'
<1>1. /\ Typed /\ TypeOK /\ up /\ q \in instances[p] /\ p \in instances[q]
      /\ p \in alive' \ leaving' /\ q \in alive' \ leaving'
      /\ p \in started /\ q \in started
  BY BusEnds DEF MInv, IInv, Typed, TypeOK, Mutual, Member
<1>2. CASE Tick \/ UNCHANGED vars \/ \E s \in pending : SubscriptionArrives(s)
  BY <1>1, <1>2 DEF Mutual, Tick, SubscriptionArrives, vars, busVars, discoveryVars
<1>3. ASSUME NEW a \in Process,
             StartProcess(a) \/ Terminate(a) \/ Exit(a) \/ Handle(a) \/ HealthCheck(a),
             NEW r \in {p, q}, NEW s \in {p, q}, r # s
      PROVE  s \in instances'[r]
  <2>1. s \in instances[r]
    BY <1>1, <1>3
  <2>2. CASE r # a
    <3>1. Elsewhere(a)
      BY <1>1, <1>3, StepElsewhere
    <3> QED
      BY <2>1, <2>2, <3>1 DEF Elsewhere
  <2>3. CASE r = a
    <3>1. Handle(a) \/ HealthCheck(a)
      BY <1>1, <1>3, <2>3 DEF StartProcess, Exit, Terminate
    <3>2. r \in alive \ leaving /\ s \in alive \ leaving
      BY <1>1, <3>1 DEF Handle, HealthCheck, DropMessage, OnAdd, OnDiscovery, OnInfo, OnDelete
    <3>3. Hears(s, r)
      <4>1. r \in instances[s]
        BY <1>1, <1>3
      <4> QED
        BY <1>1, <1>3, <3>2, <4>1 DEF MInv, MembersAcquainted, Acquainted, Heard
    <3> QED
      BY <1>1, <1>3, <2>1, <2>3, <3>1, <3>2, <3>3, KnownKept
  <2> QED
    BY <2>2, <2>3
<1>4. ASSUME NEW a \in Process,
             StartProcess(a) \/ Terminate(a) \/ Exit(a) \/ Handle(a) \/ HealthCheck(a)
      PROVE  Mutual(p, q)'
  BY <1>3, <1>4 DEF Mutual
<1> QED
  BY <1>2, <1>4 DEF Next

\* What any two members are to each other: the inductive invariant behind the two
\* theorems below, when messages are late by less than an interval.
THEOREM Acquaintance ==
    ASSUME MaxLate < Interval
    PROVE  Spec => []MInv
<1>1. Init => MInv
  BY MInvInit
<1>2. MInv /\ [Next]_vars => MInv'
  BY MInvStep
<1> QED
  BY <1>1, <1>2, PTL DEF Spec

\* Two processes that know each other do so until one of them goes, when messages are
\* late by less than an interval: each check of one is preceded by a report of the other
\* that has arrived since its ttl of two intervals was set (ipcm/index.ts:104-111, 141-143).
THEOREM KnowledgeStays ==
    ASSUME MaxLate < Interval
    PROVE  Spec => MutualStays
<1>1. MInv /\ [Next]_vars
        => [\A p, q \in Process : p # q /\ Mutual(p, q) /\ up' =>
              \/ ~Member(p)' \/ ~Member(q)'
              \/ Mutual(p, q)']_vars
  BY MutualKept
<1> QED
  BY <1>1, Acquaintance, PTL DEF Spec, MutualStays

-----------------------------------------------------------------------------
(* Under the cluster master no message is lost: of two members one has come to the *)
(* other, and they know each other in time.                                        *)

\* y has come to o: its announcement, the answer, or its first report is on the way.
Approaches(y, o) ==
    \/ Sent(inbox[o], AddChannel, y) /\ age[y] <= late
    \/ Sent(inbox[y], DiscoveryChannel(y), o) /\ age[y] <= late
    \/ o \in instances[y] /\ y \in instances[o]
    \/ o \in instances[y] /\ Hears(o, y) /\ age[y] + Due(o, y) <= late + Interval

AllMeet ==
    up /\ ~redis =>
        \A p, q \in alive \ leaving : p # q => Approaches(p, q) \/ Approaches(q, p)

OwnChannels == ~redis => \A p \in alive : {<<AddChannel, p>>, <<DiscoveryChannel(p), p>>} \subseteq subscribers

NotAged == \A p \in Process \ started : age[p] = 0

SInv == MInv /\ OwnChannels /\ NotAged /\ AllMeet

\* What p would take from q is on its way as before.
SentKept(p, q) ==
    /\ Sent(inbox[p], AddChannel, q) => Sent(inbox'[p], AddChannel, q)
    /\ Sent(inbox[p], DiscoveryChannel(p), q) => Sent(inbox'[p], DiscoveryChannel(p), q)
    /\ Hears(p, q) /\ Sent(inbox[p], InfoChannel(q), q) => Sent(inbox'[p], InfoChannel(q), q)

LEMMA SentStays ==
    ASSUME Typed, NEW p \in Process, NEW q, NEW a \in Process,
           inbox'[p] = inbox[p] \/ \E ch \in Channel : inbox'[p] = Append(inbox[p], [channel |-> ch, data |-> a])
    PROVE  SentKept(p, q)
<1>1. CASE inbox'[p] = inbox[p]
  BY <1>1 DEF SentKept
<1>2. ASSUME NEW ch \in Channel, inbox'[p] = Append(inbox[p], [channel |-> ch, data |-> a])
      PROVE  SentKept(p, q)
  <2> PICK w, m : w = inbox[p] /\ m = [channel |-> ch, data |-> a]
    OBVIOUS
  <2>1. w \in Seq(Frame) /\ m \in Frame
    BY DEF Typed, Frame
  <2>2. \A c : Sent(w, c, q) => Sent(Append(w, m), c, q)
    BY <2>1, AppendMail
  <2> QED
    BY <1>2, <2>2 DEF SentKept
<1> QED
  BY <1>1, <1>2

\* The message p takes is not one of those.
LEMMA OtherTaken ==
    ASSUME Typed, NEW p \in Process, NEW q, inbox[p] # <<>>, inbox'[p] = InboxAfter(p)[p],
           \/ Head(inbox[p]).data # q
           \/ Head(inbox[p]).channel \notin {AddChannel, DiscoveryChannel(p), InfoChannel(q)}
           \/ Head(inbox[p]).channel = InfoChannel(q) /\ ~Hears(p, q)
    PROVE  SentKept(p, q)
<1> PICK w, h : w = inbox[p] /\ h = Head(w)
  OBVIOUS
<1>1. w \in Seq(Frame) /\ inbox'[p] = Tail(w)
  BY DEF Typed, InboxAfter
<1>2. ASSUME NEW ch
      PROVE  h # [channel |-> ch, data |-> q] /\ Sent(w, ch, q) => Sent(Tail(w), ch, q)
  BY <1>1, TailMail
<1>3. \A ch : h = [channel |-> ch, data |-> q] => h.data = q /\ h.channel = ch
  OBVIOUS
<1>4. CASE h.data # q \/ h.channel \notin {AddChannel, DiscoveryChannel(p), InfoChannel(q)}
  BY <1>1, <1>2, <1>3, <1>4 DEF SentKept
<1>5. CASE h.channel = InfoChannel(q) /\ ~Hears(p, q)
  <2>1. InfoChannel(q) # AddChannel /\ InfoChannel(q) # DiscoveryChannel(p)
    BY InfoDiffers
  <2>2. h # [channel |-> AddChannel, data |-> q] /\ h # [channel |-> DiscoveryChannel(p), data |-> q]
    BY <1>3, <1>5, <2>1
  <2> QED
    BY <1>1, <1>2, <1>5, <2>2 DEF SentKept
<1> QED
  BY <1>4, <1>5

LEMMA ApproachKept ==
    ASSUME IInv, NEW y \in alive \ leaving, NEW o \in alive \ leaving, y # o, Approaches(y, o),
           SentKept(y, o), SentKept(o, y), BondKept(y, o), BondKept(o, y),
           late' = late, age'[y] = age[y]
    PROVE  Approaches(y, o)'
<1>1. TypeOK /\ y \in Process /\ o \in Process
  BY DEF IInv, Typed, TypeOK
<1>2. late \in Nat /\ age[y] \in Nat /\ Interval \in Nat
  BY <1>1, TimesTyped DEF TypeOK
<1>3. CASE Sent(inbox[o], AddChannel, y) /\ age[y] <= late
  BY <1>3 DEF SentKept, Approaches, AddChannel
<1>4. CASE Sent(inbox[y], DiscoveryChannel(y), o) /\ age[y] <= late
  BY <1>4 DEF SentKept, Approaches, DiscoveryChannel
<1>5. CASE o \in instances[y] /\ y \in instances[o]
  BY <1>5 DEF BondKept, Approaches
<1>6. CASE o \in instances[y] /\ Hears(o, y) /\ age[y] + Due(o, y) <= late + Interval
  <2>1. timer[y] \in 0..Interval /\ timer'[y] = timer[y]
    BY <1>6, BondRuns DEF BondKept
  <2> PICK d, e : d = Due(o, y) /\ e = IF Sent(inbox'[o], InfoChannel(y), y) THEN 0 ELSE timer[y]
    OBVIOUS
  <2>2. d \in Nat /\ e \in Nat /\ e <= d
    BY <1>6, <2>1 DEF Due, SentKept
  <2>3. age'[y] + e <= late' + Interval
    BY <1>2, <1>6, <2>2
  <2>4. Due(o, y)' = e
    BY <2>1 DEF Due, InfoChannel
  <2>5. o \in instances'[y] /\ Hears(o, y)'
    BY <1>6 DEF BondKept
  <2> QED
    BY <2>3, <2>4, <2>5 DEF Approaches
<1> QED
  BY <1>3, <1>4, <1>5, <1>6 DEF Approaches

\* What a does leaves what is between it and q.
LEMMA OtherApproach ==
    ASSUME IInv, NEW a \in alive \ leaving, NEW q \in alive \ leaving, q # a,
           Approaches(a, q) \/ Approaches(q, a),
           SentKept(a, q), SentKept(q, a), BondKept(a, q), BondKept(q, a), UNCHANGED <<late, age>>
    PROVE  Approaches(a, q)' \/ Approaches(q, a)'
<1>1. Approaches(a, q) => Approaches(a, q)'
  BY ApproachKept
<1>2. Approaches(q, a) => Approaches(q, a)'
  BY ApproachKept
<1> QED
  BY <1>1, <1>2

LEMMA DropApproach ==
    ASSUME SInv, ~redis, NEW a \in alive \ leaving, DropMessage(a),
           NEW q \in alive \ leaving, q # a, Approaches(a, q) \/ Approaches(q, a)
    PROVE  Approaches(a, q)' \/ Approaches(q, a)'
<1>1. IInv /\ Typed /\ TypeOK /\ a \in Process /\ q \in Process
  BY DEF SInv, MInv, IInv, Typed, TypeOK
<1>2. /\ inbox[a] # <<>> /\ ~Listens(a, Head(inbox[a]).channel) /\ inbox' = InboxAfter(a)
      /\ UNCHANGED <<subscribers, pending, instances, left, timer, late, age>>
  BY DEF DropMessage, discoveryVars, clockVars
<1>3. Listens(a, AddChannel) /\ Listens(a, DiscoveryChannel(a))
  BY DEF SInv, OwnChannels, Listens
<1>4. SentKept(a, q)
  <2> PICK c : c = Head(inbox[a]).channel
    OBVIOUS
  <2>1. c # AddChannel /\ c # DiscoveryChannel(a)
    BY <1>2, <1>3
  <2>2. c = InfoChannel(q) => ~Hears(a, q)
    BY <1>2 DEF Hears
  <2> QED
    BY <1>1, <1>2, <2>1, <2>2, OtherTaken
<1>5. SentKept(q, a)
  <2>1. inbox'[q] = inbox[q]
    BY <1>1, <1>2 DEF InboxAfter, Typed
  <2> QED
    BY <2>1 DEF SentKept
<1>6. BondKept(a, q) /\ BondKept(q, a)
  BY <1>2 DEF BondKept, Hears, Listens, InfoChannel
<1> QED
  BY <1>1, <1>2, <1>4, <1>5, <1>6, OtherApproach

LEMMA OnAddApproach ==
    ASSUME SInv, up, ~redis, NEW a \in alive \ leaving, NEW id \in Process, OnAdd(a, id),
           NEW q \in alive \ leaving, q # a, Approaches(a, q) \/ Approaches(q, a)
    PROVE  Approaches(a, q)' \/ Approaches(q, a)'
<1>1. /\ IInv /\ Typed /\ TypeOK /\ a \in Process /\ q \in Process
      /\ Acquainted(a, q) /\ Acquainted(q, a)
  BY DEF SInv, MInv, MembersAcquainted, IInv, Typed, TypeOK
<1>2. /\ Receives(a, AddChannel, id) /\ Subscribe(a, {InfoChannel(id)})
      /\ Publish(a, DiscoveryChannel(id), Others(a), InboxAfter(a))
      /\ UNCHANGED <<instances, left, timer, late, age>>
  BY DEF OnAdd, discoveryVars, clockVars
<1>3. /\ inbox[a] # <<>> /\ Head(inbox[a]).data = id
      /\ Sent(inbox[a], AddChannel, id)
      /\ \A r \in Process \ {a} : InboxAfter(a)[r] = inbox[r]
  BY <1>1, <1>2, Receipt
<1>4. Elsewhere(a)
  BY <1>1, StepElsewhere DEF Handle
<1>5. inbox'[a] = InboxAfter(a)[a]
  BY <1>1, <1>2, Published
<1>6. CASE id # q
  <2>1. SentKept(a, q)
    BY <1>1, <1>3, <1>5, <1>6, OtherTaken
  <2>2. SentKept(q, a)
    BY <1>1, <1>4, SentStays DEF Elsewhere
  <2>3. BondKept(a, q)
    <3>1. InfoChannel(q) # InfoChannel(id)
      BY <1>6, InfoDiffers
    <3> QED
      BY <1>2, <3>1 DEF BondKept, Hears, Listens, InfoChannel, Subscribe
  <2>4. BondKept(q, a)
    BY <1>1, <1>4, BondElsewhere
  <2> QED
    BY <1>1, <1>2, <2>1, <2>2, <2>3, <2>4, OtherApproach
<1>7. CASE id = q
  <2>1. /\ Only(inbox[a], AddChannel, q) /\ Silent(inbox[q], a)
        /\ ~Hears(a, q) /\ ~Hears(q, a)
    BY <1>1, <1>3, <1>7 DEF Acquainted, Announced
  <2>2. q \notin instances[a] /\ a \notin instances[q]
    BY <1>1, <2>1 DEF Acquainted, Heard
  <2>3. ~Sent(inbox[q], AddChannel, a) /\ ~Sent(inbox[q], DiscoveryChannel(q), a)
    BY <2>1, Boxes
  <2>4. ~Sent(inbox[a], DiscoveryChannel(a), q)
    BY <2>1, Boxes, InfoDiffers
  <2>5. age[q] <= late
    BY <2>2, <2>3, <2>4 DEF Approaches
  <2>6. Sent(inbox'[q], DiscoveryChannel(q), a)
    <3> PICK c, m, w : c = DiscoveryChannel(q) /\ m = [channel |-> c, data |-> a] /\ w = inbox[q]
      OBVIOUS
    <3>1. <<c, q>> \in subscribers
      BY DEF SInv, OwnChannels
    <3>2. inbox'[q] = IF up /\ q \in alive /\ <<c, q>> \in subscribers
                      THEN Append(InboxAfter(a)[q], m) ELSE InboxAfter(a)[q]
      BY <1>1, <1>2, <1>7, Published
    <3>3. inbox'[q] = Append(w, m)
      BY <1>1, <1>3, <3>1, <3>2
    <3>4. w \in Seq(Frame) /\ m \in Frame
      BY <1>1, ChannelsTyped DEF Typed, Frame
    <3> QED
      BY <3>3, <3>4, AppendMail
  <2> QED
    BY <1>2, <2>5, <2>6 DEF Approaches, DiscoveryChannel
<1> QED
  BY <1>6, <1>7

LEMMA OnDiscoveryApproach ==
    ASSUME SInv, up, ~redis, NEW a \in alive \ leaving, NEW id \in Process, OnDiscovery(a, id),
           NEW q \in alive \ leaving, q # a, Approaches(a, q) \/ Approaches(q, a)
    PROVE  Approaches(a, q)' \/ Approaches(q, a)'
<1>1. /\ IInv /\ Typed /\ TypeOK /\ a \in Process /\ q \in Process
      /\ Acquainted(a, q) /\ Acquainted(q, a)
  BY DEF SInv, MInv, MembersAcquainted, IInv, Typed, TypeOK
<1>2. /\ Receives(a, DiscoveryChannel(a), id) /\ Subscribe(a, {InfoChannel(id)})
      /\ UpdateInstance(a, id) /\ inbox' = InboxAfter(a) /\ UNCHANGED <<late, age>>
  BY DEF OnDiscovery, clockVars
<1>3. /\ inbox[a] # <<>> /\ Head(inbox[a]).data = id /\ id \in started
      /\ Sent(inbox[a], DiscoveryChannel(a), id)
  BY <1>1, <1>2, Receipt
<1>4. Elsewhere(a)
  BY <1>1, StepElsewhere DEF Handle
<1>5. BondKept(q, a)
  BY <1>1, <1>4, BondElsewhere
<1>6. /\ \A r \in Process \ {id} : /\ r \in instances'[a] <=> r \in instances[a]
                                   /\ left'[a][r] = left[a][r]
      /\ id \in instances'[a]
      /\ timer'[a] = timer[a] \/ (timer[a] = None /\ timer'[a] = Interval)
      /\ id # a => timer'[a] \in 0..Interval
  <2>1. UpdateInstance(a, id) /\ id \in started
    BY <1>2, <1>3
  <2> QED
    BY <1>1, <2>1, Learnt
<1>7. CASE id # q
  <2>1. SentKept(a, q)
    BY <1>1, <1>2, <1>3, <1>7, OtherTaken
  <2>2. SentKept(q, a)
    BY <1>1, <1>4, SentStays DEF Elsewhere
  <2>3. BondKept(a, q)
    <3>1. /\ <<InfoChannel(q), a>> \in subscribers' <=> <<InfoChannel(q), a>> \in subscribers
          /\ <<InfoChannel(q), a>> \in pending' <=> <<InfoChannel(q), a>> \in pending
      BY <1>2, <1>7, InfoDiffers DEF Subscribe
    <3>2. q \in instances[a] => timer[a] # None
      BY <1>1, BondRuns, NoneDiffers, TimesTyped
    <3> QED
      BY <1>1, <1>6, <1>7, <3>1, <3>2 DEF BondKept, Hears, Listens, InfoChannel
  <2> QED
    BY <1>1, <1>2, <1>5, <2>1, <2>2, <2>3, OtherApproach
<1>8. CASE id = q
  <2>1. /\ Only(inbox[a], DiscoveryChannel(a), q) /\ Silent(inbox[q], a)
        /\ ~Hears(a, q) /\ Hears(q, a) /\ a \notin instances[q]
    BY <1>1, <1>3, <1>8 DEF Acquainted, Answered
  <2>2. q \notin instances[a]
    BY <1>1, <2>1 DEF Acquainted, Heard
  <2>3. ~Sent(inbox[q], AddChannel, a) /\ ~Sent(inbox[q], DiscoveryChannel(q), a)
    BY <2>1, Boxes
  <2>4. ~Sent(inbox[a], AddChannel, q)
    BY <2>1, Boxes, InfoDiffers
  <2>5. age[a] <= late
    BY <2>1, <2>2, <2>3, <2>4 DEF Approaches
  <2>6. q \in instances'[a] /\ Hears(q, a)'
    BY <1>5, <1>6, <1>8, <2>1 DEF BondKept
  <2>7. Due(q, a)' \in 0..Interval
    BY <1>6, <1>8, TimesTyped DEF Due
  <2>8. age'[a] + Due(q, a)' <= late' + Interval
    <3>1. age[a] \in Nat /\ late \in Nat /\ Interval \in Nat
      BY <1>1, TimesTyped DEF TypeOK
    <3> QED
      BY <1>2, <2>5, <2>7, <3>1
  <2> QED
    BY <2>6, <2>8 DEF Approaches
<1> QED
  BY <1>7, <1>8

LEMMA OnInfoApproach ==
    ASSUME SInv, up, ~redis, NEW a \in alive \ leaving, NEW id \in Process, OnInfo(a, id),
           NEW q \in alive \ leaving, q # a, Approaches(a, q) \/ Approaches(q, a)
    PROVE  Approaches(a, q)' \/ Approaches(q, a)'
<1>1. /\ IInv /\ Typed /\ TypeOK /\ a \in Process /\ q \in Process
      /\ Acquainted(a, q) /\ Acquainted(q, a)
  BY DEF SInv, MInv, MembersAcquainted, IInv, Typed, TypeOK
<1>2. /\ Receives(a, InfoChannel(id), id) /\ UpdateInstance(a, id) /\ inbox' = InboxAfter(a)
      /\ UNCHANGED <<subscribers, pending, late, age>>
  BY DEF OnInfo, clockVars
<1>3. /\ inbox[a] # <<>> /\ Head(inbox[a]).data = id /\ id \in started
      /\ Sent(inbox[a], InfoChannel(id), id)
      /\ \A r \in Process \ {a} : inbox'[r] = inbox[r]
  BY <1>1, <1>2, Receipt
<1>4. Elsewhere(a)
  BY <1>1, StepElsewhere DEF Handle
<1>5. BondKept(q, a)
  BY <1>1, <1>4, BondElsewhere
<1>6. /\ \A r \in Process \ {id} : /\ r \in instances'[a] <=> r \in instances[a]
                                   /\ left'[a][r] = left[a][r]
      /\ id \in instances'[a]
      /\ timer'[a] = timer[a] \/ (timer[a] = None /\ timer'[a] = Interval)
  <2>1. UpdateInstance(a, id) /\ id \in started
    BY <1>2, <1>3
  <2> QED
    BY <1>1, <2>1, Learnt
<1>7. q \in instances[a] => timer[a] \in 0..Interval /\ timer'[a] = timer[a]
  BY <1>1, <1>6, BondRuns, NoneDiffers, TimesTyped
<1>8. CASE id # q
  <2>1. SentKept(a, q)
    BY <1>1, <1>2, <1>3, <1>8, OtherTaken
  <2>2. SentKept(q, a)
    BY <1>1, <1>4, SentStays DEF Elsewhere
  <2>3. BondKept(a, q)
    BY <1>1, <1>2, <1>6, <1>7, <1>8 DEF BondKept, Hears, Listens, InfoChannel
  <2> QED
    BY <1>1, <1>2, <1>5, <2>1, <2>2, <2>3, OtherApproach
<1>9. CASE id = q
  <2>1. Hears(a, q) /\ ~Silent(inbox[a], q)
    BY <1>2, <1>3, <1>9, Boxes DEF Receives, Hears
  <2>2. /\ ~Sent(inbox[a], AddChannel, q) /\ ~Sent(inbox[a], DiscoveryChannel(a), q)
        /\ ~Sent(inbox[q], AddChannel, a) /\ ~Sent(inbox[q], DiscoveryChannel(q), a)
    BY <1>1, <2>1 DEF Acquainted, Announced, Answered
  <2>3. CASE a \in instances[q]
    BY <1>5, <1>6, <1>9, <2>3 DEF Approaches, BondKept
  <2>4. CASE a \notin instances[q]
    <3>1. q \in instances[a] /\ Hears(q, a) /\ age[a] + Due(q, a) <= late + Interval
      BY <2>2, <2>4 DEF Approaches
    <3>2. Due(q, a)' = Due(q, a)
      <4>1. inbox'[q] = inbox[q]
        BY <1>1, <1>3
      <4> QED
        BY <1>7, <3>1, <4>1 DEF Due, InfoChannel
    <3>3. Hears(q, a)'
      BY <1>5, <3>1 DEF BondKept
    <3> QED
      BY <1>2, <1>6, <1>9, <3>1, <3>2, <3>3 DEF Approaches
  <2> QED
    BY <2>3, <2>4
<1> QED
  BY <1>8, <1>9
LEMMA OnDeleteApproach ==
    ASSUME SInv, NEW a \in alive \ leaving, NEW id \in Process, OnDelete(a, id),
           NEW q \in alive \ leaving, q # a, Approaches(a, q) \/ Approaches(q, a)
    PROVE  Approaches(a, q)' \/ Approaches(q, a)'
<1>1. IInv /\ Typed /\ TypeOK /\ a \in Process /\ q \in Process
  BY DEF SInv, MInv, IInv, Typed, TypeOK
<1>2. Receives(a, DeleteChannel, id) /\ inbox' = InboxAfter(a) /\ UNCHANGED <<late, age>>
  BY DEF OnDelete, clockVars
<1>3. /\ inbox[a] # <<>> /\ Head(inbox[a]).data = id
      /\ \A r \in Process \ {a} : inbox'[r] = inbox[r]
  BY <1>1, <1>2, Receipt
<1>4. id # q /\ BondKept(a, q)
  BY <1>1, DeleteBond
<1>5. SentKept(a, q)
  BY <1>1, <1>2, <1>3, <1>4, OtherTaken
<1>6. SentKept(q, a)
  BY <1>1, <1>3, SentStays
<1>7. BondKept(q, a)
  <2>1. Elsewhere(a)
    BY <1>1, StepElsewhere DEF Handle
  <2> QED
    BY <1>1, <2>1, BondElsewhere
<1> QED
  BY <1>1, <1>2, <1>4, <1>5, <1>6, <1>7, OtherApproach

LEMMA HealthCheckApproach ==
    ASSUME SInv, MaxLate < Interval, up, ~redis, NEW a \in alive \ leaving, HealthCheck(a),
           NEW q \in alive \ leaving, q # a, Approaches(a, q) \/ Approaches(q, a)
    PROVE  Approaches(a, q)' \/ Approaches(q, a)'
<1>1. /\ IInv /\ Typed /\ TypeOK /\ a \in Process /\ q \in Process
      /\ Acquainted(a, q) /\ Acquainted(q, a)
  BY DEF SInv, MInv, MembersAcquainted, IInv, Typed, TypeOK
<1>2. /\ timer[a] = 0 /\ Publish(a, InfoChannel(a), Others(a), inbox)
      /\ Unsubscribe(a, {InfoChannel(r) : r \in Expired(a)})
      /\ UNCHANGED <<late, age>>
  BY DEF HealthCheck, clockVars
<1>3. /\ inbox'[q] = IF <<InfoChannel(a), q>> \in subscribers
                     THEN Append(inbox[q], [channel |-> InfoChannel(a), data |-> a]) ELSE inbox[q]
      /\ inbox'[a] = inbox[a]
  BY <1>1, <1>2, Published
<1>4. Elsewhere(a)
  BY <1>1, StepElsewhere
<1>5. BondKept(q, a) /\ timer'[q] = timer[q]
  BY <1>1, <1>4, BondElsewhere DEF Elsewhere
<1>6. SentKept(q, a)
  BY <1>1, <1>4, SentStays DEF Elsewhere
<1>7. Hears(q, a) /\ q \in instances[a] => q \in instances'[a]
  BY <1>1, HealthCheckMeets
<1>8. ~Sent(inbox[q], AddChannel, a) /\ ~Sent(inbox[a], DiscoveryChannel(a), q)
  <2>1. late \in Nat /\ late <= MaxLate /\ Interval \in Nat /\ MaxLate \in Nat
    BY <1>1, TimesTyped DEF TypeOK
  <2>2. ~Early(a)
    BY <1>2, <2>1, NoneDiffers DEF Early
  <2> QED
    BY <1>1, <2>2 DEF Acquainted, Announced, Answered
<1>9. pending = {}
  BY <1>1 DEF TypeOK
<1>10. CASE q \in instances[a] /\ a \in instances[q]
  <2>1. Hears(q, a)
    BY <1>1, <1>10 DEF Acquainted, Heard
  <2> QED
    BY <1>5, <1>7, <1>10, <2>1 DEF Approaches, BondKept
<1>11. CASE q \in instances[a] /\ Hears(q, a) /\ age[a] + Due(q, a) <= late + Interval
  <2>1. <<InfoChannel(a), q>> \in subscribers
    BY <1>9, <1>11 DEF Hears, Listens
  <2>2. Sent(inbox'[q], InfoChannel(a), a)
    <3> PICK m, w : m = [channel |-> InfoChannel(a), data |-> a] /\ w = inbox[q]
      OBVIOUS
    <3>1. w \in Seq(Frame) /\ m \in Frame
      BY <1>1, ChannelsTyped DEF Typed, Frame
    <3>2. inbox'[q] = Append(w, m)
      BY <1>3, <2>1
    <3> QED
      BY <3>1, <3>2, AppendMail
  <2>3. Due(q, a)' = 0 /\ Due(q, a) = 0
    BY <1>2, <2>2 DEF Due, InfoChannel
  <2>4. Hears(q, a)' /\ q \in instances'[a]
    BY <1>5, <1>7, <1>11 DEF BondKept
  <2> QED
    BY <1>2, <1>11, <2>3, <2>4 DEF Approaches
<1>12. CASE Sent(inbox[a], AddChannel, q) /\ age[q] <= late
  BY <1>2, <1>3, <1>12 DEF Approaches, AddChannel
<1>13. CASE Sent(inbox[q], DiscoveryChannel(q), a) /\ age[q] <= late
  BY <1>2, <1>6, <1>13 DEF Approaches, SentKept, DiscoveryChannel
<1>14. CASE q \notin instances[a] /\ a \in instances[q] /\ Hears(a, q) /\ age[q] + Due(a, q) <= late + Interval
  <2>1. InfoChannel(q) \notin {InfoChannel(r) : r \in Expired(a)}
    BY <1>14, InfoDiffers DEF Expired
  <2>2. Hears(a, q)'
    <3>1. <<InfoChannel(q), a>> \in subscribers' \cup pending'
      BY <1>2, <1>14, <2>1 DEF Unsubscribe, Hears, Listens
    <3> QED
      BY <3>1 DEF Hears, Listens, InfoChannel
  <2>3. Due(a, q)' = Due(a, q)
    BY <1>3, <1>5 DEF Due, InfoChannel
  <2>4. a \in instances'[q]
    BY <1>5, <1>14 DEF BondKept
  <2> QED
    BY <1>2, <1>14, <2>2, <2>3, <2>4 DEF Approaches
<1> QED
  BY <1>8, <1>10, <1>11, <1>12, <1>13, <1>14 DEF Approaches
\* A new process is heard by the members: they subscribe at once under the master.
LEMMA StartApproach ==
    ASSUME SInv, up, ~redis, NEW a \in Process, StartProcess(a), NEW q \in alive \ leaving
    PROVE  Approaches(a, q)'
<1>1. Typed /\ TypeOK /\ q \in Process /\ a \notin started /\ a # q
  BY DEF SInv, MInv, IInv, Typed, TypeOK, StartProcess
<1>2. Publish(a, AddChannel, Others(a), inbox) /\ UNCHANGED <<age, late>>
  BY DEF StartProcess
<1> PICK m, w : m = [channel |-> AddChannel, data |-> a] /\ w = inbox[q]
  OBVIOUS
<1>3. inbox'[q] = Append(w, m)
  <2>1. <<AddChannel, q>> \in subscribers
    BY DEF SInv, OwnChannels
  <2>2. inbox'[q] = IF up /\ q \in alive /\ <<AddChannel, q>> \in subscribers
                    THEN Append(inbox[q], [channel |-> AddChannel, data |-> a]) ELSE inbox[q]
    BY <1>1, <1>2, Published
  <2> QED
    BY <2>1, <2>2
<1>4. Sent(inbox'[q], AddChannel, a)
  <2>1. w \in Seq(Frame) /\ m \in Frame
    BY <1>1, ChannelsTyped DEF Typed, Frame
  <2> QED
    BY <1>3, <2>1, AppendMail
<1>5. age'[a] <= late'
  <2>1. age[a] = 0 /\ late \in Nat
    BY <1>1 DEF SInv, NotAged, TypeOK
  <2> QED
    BY <1>2, <2>1
<1> QED
  BY <1>4, <1>5 DEF Approaches, AddChannel

\* What another process does leaves what is between y and o.
LEMMA BystandersApproach ==
    ASSUME IInv, NEW a \in Process, Elsewhere(a), late' = late,
           NEW y \in alive \ leaving, NEW o \in alive \ leaving, y # o, a \notin {y, o},
           age'[y] = age[y], Approaches(y, o)
    PROVE  Approaches(y, o)'
<1>1. Typed /\ y \in Process \ {a} /\ o \in Process \ {a}
  BY DEF IInv, Typed, TypeOK
<1>2. SentKept(y, o) /\ SentKept(o, y)
  BY <1>1, SentStays DEF Elsewhere
<1>3. ASSUME NEW r \in {y, o}, NEW s \in {y, o}
      PROVE  BondKept(r, s)
  <2>1. /\ <<InfoChannel(s), r>> \in subscribers' <=> <<InfoChannel(s), r>> \in subscribers
        /\ <<InfoChannel(s), r>> \in pending' <=> <<InfoChannel(s), r>> \in pending
        /\ instances'[r] = instances[r] /\ left'[r] = left[r] /\ timer'[r] = timer[r]
    BY <1>1 DEF Elsewhere
  <2> QED
    BY <2>1 DEF BondKept, Hears, Listens, InfoChannel
<1> QED
  BY <1>2, <1>3, ApproachKept

LEMMA TickApproach ==
    ASSUME IInv, Tick, NEW y \in alive \ leaving, NEW o \in alive \ leaving, y # o, Approaches(y, o)
    PROVE  Approaches(y, o)'
<1>1. TypeOK /\ y \in Process /\ o \in Process
  BY DEF IInv, Typed, TypeOK
<1>2. UNCHANGED <<subscribers, pending, inbox, instances>>
  BY DEF Tick, busVars
<1>3. age[y] \in Nat /\ late \in Nat /\ Interval \in Nat
  BY <1>1, TimesTyped DEF TypeOK
<1>4. late' = IF InFlight = {} THEN late ELSE late + 1
  BY DEF Tick
<1>5. age'[y] \in {age[y], age[y] + 1}
  <2>1. age' = [p \in Process |-> IF p \in started /\ age[p] < MaxAge(p) THEN age[p] + 1 ELSE age[p]]
    BY DEF Tick
  <2> QED
    BY <1>1, <2>1
<1>6. ASSUME NEW r \in Process, NEW s, NEW ch, Sent(inbox[r], ch, s)
      PROVE  late' = late + 1
  <2>1. inbox[r] # <<>>
    <3>1. DOMAIN <<>> = {}
      OBVIOUS
    <3> QED
      BY <1>6, <3>1 DEF Sent
  <2> QED
    BY <1>4, <2>1 DEF InFlight
<1>7. CASE Sent(inbox[o], AddChannel, y) /\ age[y] <= late
  <2>1. age'[y] <= late'
    BY <1>1, <1>3, <1>5, <1>6, <1>7
  <2> QED
    BY <1>2, <1>7, <2>1 DEF Approaches, AddChannel
<1>8. CASE Sent(inbox[y], DiscoveryChannel(y), o) /\ age[y] <= late
  <2>1. age'[y] <= late'
    BY <1>1, <1>3, <1>5, <1>6, <1>8
  <2> QED
    BY <1>2, <1>8, <2>1 DEF Approaches, DiscoveryChannel
<1>9. CASE o \in instances[y] /\ y \in instances[o]
  BY <1>2, <1>9 DEF Approaches
<1>10. CASE o \in instances[y] /\ Hears(o, y) /\ age[y] + Due(o, y) <= late + Interval
  <2> PICK d, e : d = Due(o, y) /\ e = Due(o, y)'
    OBVIOUS
  <2>1. d \in Nat /\ e \in Nat /\ (e = d - 1 \/ (e = d /\ InFlight # {}))
    BY <1>10, DueComes
  <2>2. age'[y] + e <= late' + Interval
    BY <1>3, <1>4, <1>5, <1>10, <2>1
  <2> QED
    BY <1>2, <1>10, <2>2 DEF Approaches, Hears, Listens, InfoChannel
<1> QED
  BY <1>7, <1>8, <1>9, <1>10 DEF Approaches

-----------------------------------------------------------------------------
(* Every step. *)

LEMMA OwnChannelsKept ==
    ASSUME IInv, OwnChannels, [Next]_vars
    PROVE  OwnChannels'
<1> DEFINE Own(r) == {<<AddChannel, r>>, <<DiscoveryChannel(r), r>>}
<1> SUFFICES ASSUME ~redis', NEW p \in alive'
    PROVE  Own(p) \subseteq subscribers'
  BY DEF OwnChannels, AddChannel, DiscoveryChannel
<1>1. redis' = redis
  BY DEF Next, Handle, Tick, SubscriptionArrives, StartProcess, Terminate, Exit, HealthCheck,
       DropMessage, OnAdd, OnDiscovery, OnInfo, OnDelete, vars, busVars
<1>2. \A r \in alive : Own(r) \subseteq subscribers
  BY <1>1 DEF OwnChannels
<1>3. ASSUME alive' \subseteq alive, subscribers \subseteq subscribers'
      PROVE  Own(p) \subseteq subscribers'
  BY <1>2, <1>3
<1>4. ASSUME NEW a, NEW chs, Unsubscribe(a, chs), chs \cap {AddChannel, DiscoveryChannel(p)} = {},
             alive' = alive
      PROVE  Own(p) \subseteq subscribers'
  BY <1>2, <1>4 DEF Unsubscribe
<1>5. ASSUME NEW a, StartProcess(a)
      PROVE  Own(p) \subseteq subscribers'
  <2>1. /\ subscribers' = subscribers \cup ({AddChannel, DeleteChannel, DiscoveryChannel(a)} \X {a})
        /\ alive' = alive \cup {a}
    BY <1>1, <1>5 DEF StartProcess, Subscribe
  <2> QED
    BY <1>2, <2>1
<1>6. ASSUME NEW a, Exit(a)
      PROVE  Own(p) \subseteq subscribers'
  BY <1>1, <1>3, <1>6 DEF Exit
<1>7. ASSUME NEW a, Terminate(a) \/ DropMessage(a)
      PROVE  Own(p) \subseteq subscribers'
  BY <1>3, <1>7 DEF Terminate, DropMessage
<1>8. ASSUME NEW a, HealthCheck(a)
      PROVE  Own(p) \subseteq subscribers'
  <2>1. {InfoChannel(q) : q \in Expired(a)} \cap {AddChannel, DiscoveryChannel(p)} = {}
    BY InfoDiffers
  <2> QED
    BY <1>4, <1>8, <2>1 DEF HealthCheck
<1>9. ASSUME NEW a, NEW id, OnAdd(a, id) \/ OnDiscovery(a, id) \/ OnInfo(a, id)
      PROVE  Own(p) \subseteq subscribers'
  BY <1>3, <1>9 DEF OnAdd, OnDiscovery, OnInfo, Subscribe
<1>10. ASSUME NEW a, NEW id, OnDelete(a, id)
       PROVE  Own(p) \subseteq subscribers'
  <2>1. {InfoChannel(id)} \cap {AddChannel, DiscoveryChannel(p)} = {}
    BY InfoDiffers
  <2>2. Unsubscribe(a, {InfoChannel(id)}) /\ alive' = alive
    BY <1>10 DEF OnDelete
  <2> QED
    BY <1>4, <2>1, <2>2
<1>11. CASE Tick \/ UNCHANGED vars \/ \E s \in pending : SubscriptionArrives(s)
  BY <1>3, <1>11 DEF Tick, SubscriptionArrives, vars, busVars
<1> QED
  BY <1>5, <1>6, <1>7, <1>8, <1>9, <1>10, <1>11 DEF Next, Handle

LEMMA NotAgedKept ==
    ASSUME IInv, NotAged, [Next]_vars
    PROVE  NotAged'
<1>1. TypeOK
  BY DEF IInv, Typed
<1> SUFFICES ASSUME NEW p \in Process \ started'
    PROVE  age'[p] = 0
  BY DEF NotAged
<1>2. started \subseteq started'
  BY DEF Next, Handle, Tick, SubscriptionArrives, StartProcess, Terminate, Exit, HealthCheck,
       DropMessage, OnAdd, OnDiscovery, OnInfo, OnDelete, vars
<1>3. p \notin started /\ age[p] = 0
  BY <1>2 DEF NotAged
<1>4. CASE age' = age
  BY <1>3, <1>4
<1>5. CASE Tick
  <2>1. age' = [q \in Process |-> IF q \in started /\ age[q] < MaxAge(q) THEN age[q] + 1 ELSE age[q]]
    BY <1>5 DEF Tick
  <2> QED
    BY <1>3, <2>1
<1>6. ASSUME NEW a \in Process, Exit(a)
      PROVE  age'[p] = 0
  <2>1. age' = [age EXCEPT ![a] = 0]
    BY <1>6 DEF Exit
  <2> QED
    BY <1>1, <1>3, <2>1 DEF TypeOK
<1> QED
  BY <1>4, <1>5, <1>6 DEF Next, Handle, SubscriptionArrives, StartProcess, Terminate, HealthCheck,
       DropMessage, OnAdd, OnDiscovery, OnInfo, OnDelete, vars, clockVars

\* A step of one of two members.
LEMMA OwnStepApproach ==
    ASSUME SInv, MaxLate < Interval, up, ~redis, NEW a \in alive \ leaving, Handle(a) \/ HealthCheck(a),
           NEW q \in alive \ leaving, q # a, Approaches(a, q) \/ Approaches(q, a)
    PROVE  Approaches(a, q)' \/ Approaches(q, a)'
BY HealthCheckApproach, DropApproach, OnAddApproach, OnDiscoveryApproach, OnInfoApproach, OnDeleteApproach
   DEF Handle

LEMMA AllMeetKept ==
    ASSUME SInv, MaxLate < Interval, [Next]_vars
    PROVE  AllMeet'
<1> SUFFICES ASSUME up', ~redis', NEW p \in alive' \ leaving', NEW q \in alive' \ leaving', p # q
    PROVE  Approaches(p, q)' \/ Approaches(q, p)'
  BY DEF AllMeet
<1>1. redis' = redis
  BY DEF Next, Handle, Tick, SubscriptionArrives, StartProcess, Terminate, Exit, HealthCheck,
       DropMessage, OnAdd, OnDiscovery, OnInfo, OnDelete, vars, busVars
<1>2. /\ IInv /\ Typed /\ TypeOK /\ up /\ ~redis
      /\ \A r, s \in alive \ leaving : r # s => Approaches(r, s) \/ Approaches(s, r)
  BY <1>1, BusEnds DEF SInv, MInv, IInv, Typed, AllMeet
<1>3. CASE UNCHANGED vars
  <2>1. UNCHANGED <<alive, leaving, pending, subscribers, inbox, instances, timer, age, late>>
    BY <1>3 DEF vars, busVars, discoveryVars, clockVars
  <2>2. Approaches(p, q) \/ Approaches(q, p)
    BY <1>2, <2>1
  <2> QED
    BY <2>1, <2>2 DEF Approaches, Due, Hears, Listens, AddChannel, DiscoveryChannel, InfoChannel
<1>4. CASE Tick
  <2>1. UNCHANGED <<alive, leaving>>
    BY <1>4 DEF Tick, busVars
  <2> QED
    BY <1>2, <1>4, <2>1, TickApproach
<1>5. CASE \E s \in pending : SubscriptionArrives(s)
  BY <1>2, <1>5 DEF TypeOK
<1>6. ASSUME NEW a \in Process,
             StartProcess(a) \/ Terminate(a) \/ Exit(a) \/ Handle(a) \/ HealthCheck(a)
      PROVE  Approaches(p, q)' \/ Approaches(q, p)'
  <2>1. /\ alive' \ leaving' \subseteq (alive \ leaving) \cup {a}
        /\ ~StartProcess(a) => alive' \ leaving' \subseteq alive \ leaving
        /\ Terminate(a) \/ Exit(a) => a \notin alive' \ leaving'
    BY <1>6 DEF StartProcess, Terminate, Exit, Handle, HealthCheck, DropMessage, OnAdd, OnDiscovery,
         OnInfo, OnDelete
  <2>2. Elsewhere(a) /\ late' = late
    BY <1>2, <1>6, StepElsewhere
  <2>3. age' = age \/ age' = [age EXCEPT ![a] = 0]
    BY <1>6 DEF StartProcess, Terminate, Exit, Handle, HealthCheck, DropMessage, OnAdd, OnDiscovery,
         OnInfo, OnDelete, clockVars
  <2>4. CASE p # a /\ q # a
    <3>1. p \in alive \ leaving /\ q \in alive \ leaving /\ (Approaches(p, q) \/ Approaches(q, p))
      BY <1>2, <2>1, <2>4
    <3>2. age'[p] = age[p] /\ age'[q] = age[q]
      <4>1. age \in [Process -> 0..Ttl + Interval + MaxLate + 1] /\ p \in Process /\ q \in Process
        BY <1>2, <3>1 DEF TypeOK
      <4> QED
        BY <2>3, <2>4, <4>1
    <3>3. Approaches(p, q) => Approaches(p, q)'
      BY <1>2, <2>2, <2>4, <3>1, <3>2, BystandersApproach
    <3>4. Approaches(q, p) => Approaches(q, p)'
      BY <1>2, <2>2, <2>4, <3>1, <3>2, BystandersApproach
    <3> QED
      BY <3>1, <3>3, <3>4
  <2>5. ASSUME NEW r \in alive \ leaving, r # a, {p, q} = {a, r}
        PROVE  Approaches(p, q)' \/ Approaches(q, p)'
    <3>1. CASE StartProcess(a)
      <4>1. Approaches(a, r)'
        BY <1>2, <2>5, <3>1, StartApproach
      <4> QED
        BY <2>5, <4>1
    <3>2. CASE ~StartProcess(a)
      <4>1. a \in alive \ leaving /\ (Handle(a) \/ HealthCheck(a))
        BY <1>6, <2>1, <2>5, <3>2
      <4>2. Approaches(a, r) \/ Approaches(r, a)
        BY <1>2, <2>5, <4>1
      <4>3. Approaches(a, r)' \/ Approaches(r, a)'
        BY <1>2, <2>5, <4>1, <4>2, OwnStepApproach
      <4> QED
        BY <2>5, <4>3
    <3> QED
      BY <3>1, <3>2
  <2>6. CASE p = a
    <3>1. q \in alive \ leaving
      BY <2>1, <2>6
    <3> QED
      BY <2>5, <2>6, <3>1
  <2>7. CASE q = a
    <3>1. p \in alive \ leaving
      BY <2>1, <2>7
    <3> QED
      BY <2>5, <2>7, <3>1
  <2> QED
    BY <2>4, <2>6, <2>7
<1> QED
  BY <1>3, <1>4, <1>5, <1>6 DEF Next

LEMMA SInvInit ==
    ASSUME Init
    PROVE  SInv
<1>1. MInv
  BY MInvInit
<1>2. OwnChannels /\ NotAged /\ AllMeet
  BY DEF Init, OwnChannels, NotAged, AllMeet
<1> QED
  BY <1>1, <1>2 DEF SInv

LEMMA SInvStep ==
    ASSUME SInv, MaxLate < Interval, [Next]_vars
    PROVE  SInv'
<1>1. MInv /\ IInv /\ OwnChannels /\ NotAged
  BY DEF SInv, MInv
<1> QED
  BY <1>1, MInvStep, OwnChannelsKept, NotAgedKept, AllMeetKept DEF SInv

\* Of two members one is known to the other, or is about to be, by the time it has to be.
LEMMA SparedNow ==
    ASSUME SInv
    PROVE  RoomsSpared
<1> SUFFICES ASSUME NEW p \in Process, NEW q \in Process, up, ~redis, Member(p), Member(q),
                    age[p] > Interval + late, age[q] > late
    PROVE  p \in KnownProcesses(q)
  BY DEF RoomsSpared
<1>1. IInv /\ TypeOK /\ p \in alive \ leaving /\ q \in alive \ leaving
  BY DEF SInv, MInv, IInv, Typed, Member
<1>2. age[p] \in Nat /\ age[q] \in Nat /\ late \in Nat /\ Interval \in Nat
  BY <1>1, TimesTyped DEF TypeOK
<1>3. CASE p = q
  BY <1>3 DEF KnownProcesses
<1>4. CASE p # q
  <2>1. Approaches(p, q) => p \in instances[q]
    <3> SUFFICES ASSUME q \in instances[p], age[p] + Due(q, p) <= late + Interval
        PROVE  FALSE
      BY <1>2 DEF Approaches
    <3>1. timer[p] \in 0..Interval
      BY <1>1, <1>4, BondRuns
    <3>2. Due(q, p) \in Nat
      BY <1>2, <3>1 DEF Due
    <3> QED
      BY <1>2, <3>2
  <2>2. Approaches(q, p) => p \in instances[q]
    BY <1>2 DEF Approaches
  <2> QED
    BY <1>1, <1>4, <2>1, <2>2 DEF SInv, AllMeet, KnownProcesses
<1> QED
  BY <1>3, <1>4

\* Under the cluster master two members are acquainted, or the announcement, the answer or
\* the first report of one is on its way to the other and not late (ipcm/index.ts:61-111).
THEOREM Gathering ==
    ASSUME MaxLate < Interval
    PROVE  Spec => []SInv
<1>1. Init => SInv
  BY SInvInit
<1>2. SInv /\ [Next]_vars => SInv'
  BY SInvStep
<1> QED
  BY <1>1, <1>2, PTL DEF Spec

\* getAvaliableRooms spares the rooms of every running process under the cluster master once
\* neither process is new, when messages are late by less than an interval (rooms.ts:250-252).
THEOREM RoomsAreSpared ==
    ASSUME MaxLate < Interval
    PROVE  Spec => []RoomsSpared
<1>1. SInv => RoomsSpared
  BY SparedNow
<1> QED
  BY <1>1, Gathering, PTL
=============================================================================
