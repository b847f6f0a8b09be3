-------------------------- MODULE TransportProofs --------------------------
(***************************************************************************)
(* Proofs about Transport: messages arrive once and in order, and clients  *)
(* that answer their pings are not given up.                               *)
(***************************************************************************)
EXTENDS Transport, SequenceTheorems, TLAPS

Frames == Seq(Down)
Numbers == Seq(1..MaxMessages)

-----------------------------------------------------------------------------
(* What InOrder says after a message or a frame has moved. *)

\* One more message waits.
LEMMA OneWaits ==
    ASSUME NEW r \in Numbers, NEW f \in Frames, NEW w \in Numbers, NEW n \in Nat,
           n + 1 \in 1..MaxMessages, InOrder(r, f, w, n)
    PROVE  InOrder(r, f, Append(w, n + 1), n + 1)
<1> PICK v : v = Append(w, n + 1)
  OBVIOUS
<1>1. /\ Len(w) \in Nat /\ Len(r) \in Nat /\ DOMAIN w = 1..Len(w)
      /\ Len(v) = Len(w) + 1 /\ DOMAIN v = 1..Len(w) + 1
      /\ \A i \in 1..Len(w) : v[i] = w[i]
      /\ v[Len(w) + 1] = n + 1
  BY AppendProperties, LenProperties DEF Numbers
<1>2. (n + 1) - Len(v) = n - Len(w)
  BY <1>1
<1>3. \A i \in DOMAIN v : v[i] = (n - Len(w)) + i
  <2> SUFFICES ASSUME NEW i \in DOMAIN v
      PROVE  v[i] = (n - Len(w)) + i
    OBVIOUS
  <2>1. CASE i \in 1..Len(w)
    BY <1>1, <2>1 DEF InOrder
  <2>2. CASE i = Len(w) + 1
    BY <1>1, <2>2
  <2> QED
    BY <1>1, <2>1, <2>2
<1> QED
  BY <1>2, <1>3 DEF InOrder

\* The waiting messages are sent.
LEMMA AllSent ==
    ASSUME NEW r \in Numbers, NEW f \in Frames, NEW w \in Numbers, NEW n \in Nat,
           InOrder(r, f, w, n), NEW es, es = [i \in DOMAIN w |-> Message(w[i])]
    PROVE  InOrder(r, f \o es, <<>>, n)
<1> PICK first, last, m, k : /\ first = Len(r) + 1 /\ last = n - Len(w) /\ m = Len(f) /\ k = Len(w)
  OBVIOUS
<1>1. /\ m \in Nat /\ k \in Nat /\ first \in Nat /\ last \in Int
      /\ DOMAIN f = 1..m /\ DOMAIN w = 1..k /\ n = last + k
  BY LenProperties DEF Frames, Numbers
<1>2. /\ first <= last + 1
      /\ \A i \in 1..k : w[i] = last + i
      /\ {f[i].n : i \in MessagesIn(f)} = first..last
      /\ \A i, j \in MessagesIn(f) : i < j => f[i].n < f[j].n
      /\ \A i \in DOMAIN r : r[i] = i
  BY <1>1 DEF InOrder
<1>3. es \in Frames /\ Len(es) = k /\ \A i \in 1..k : es[i] = Message(last + i)
  <2>1. \A i \in 1..k : w[i] \in 1..MaxMessages /\ Message(w[i]) \in Down
    BY <1>1, ElementOfSeq DEF Numbers, Message, Down
  <2>2. es \in [1..k -> Down]
    BY <1>1, <2>1
  <2>3. es \in Frames /\ Len(es) = k
    BY <1>1, <2>2, IsASeq, LenProperties DEF Frames
  <2> QED
    BY <1>1, <1>2, <2>3
<1> PICK g : g = f \o es
  OBVIOUS
<1>4. /\ DOMAIN g = 1..m + k
      /\ \A i \in 1..m : g[i] = f[i]
      /\ \A i \in m + 1..m + k : g[i] = Message(last + (i - m))
  <2>1. /\ Len(g) = m + k /\ g \in Seq(Down)
        /\ \A i \in 1..m + k : g[i] = IF i <= m THEN f[i] ELSE es[i - m]
    BY <1>1, <1>3, ConcatProperties DEF Frames
  <2>2. DOMAIN g = 1..m + k
    BY <2>1, LenProperties
  <2>3. \A i \in m + 1..m + k : i - m \in 1..k /\ ~(i <= m) /\ i \in 1..m + k
    BY <1>1
  <2>4. \A i \in 1..m : i <= m /\ i \in 1..m + k
    BY <1>1
  <2> QED
    BY <1>3, <2>1, <2>2, <2>3, <2>4
<1>5. MessagesIn(g) = MessagesIn(f) \cup (m + 1..m + k)
  BY <1>1, <1>4 DEF MessagesIn, Message
<1>6. /\ \A i \in MessagesIn(f) : i \in 1..m /\ g[i].n = f[i].n /\ f[i].n \in first..last
      /\ \A i \in m + 1..m + k : g[i].n = last + (i - m)
  <2>1. \A i \in MessagesIn(f) : i \in 1..m /\ f[i].n \in {f[j].n : j \in MessagesIn(f)}
    BY <1>1 DEF MessagesIn
  <2>2. \A i \in MessagesIn(f) : f[i].n \in first..last
    BY <1>2, <2>1
  <2>3. \A i \in m + 1..m + k : g[i].n = last + (i - m)
    <3>1. \A x : Message(x).n = x
      BY DEF Message
    <3> QED
      BY <1>4, <3>1
  <2> QED
    BY <1>4, <2>1, <2>2, <2>3
<1> PICK new : new = m + 1..m + k
  OBVIOUS
<1>a. \A i \in new : i \in Int /\ i >= m + 1 /\ i <= m + k
  BY <1>1
<1>b. \A i \in Int : i >= m + 1 /\ i <= m + k => i \in new
  BY <1>1
<1>c. MessagesIn(g) = MessagesIn(f) \cup new /\ \A i \in new : g[i].n = last + (i - m)
  BY <1>5, <1>6
<1>d. \A x \in first..last : x \in first..n /\ x \in Int /\ x <= last
  BY ONLY <1>1
<1>e. \A i \in MessagesIn(f) : i \in Int /\ i <= m /\ g[i].n \in first..last
  BY ONLY <1>1, <1>6
<1>7. {g[i].n : i \in MessagesIn(g)} = first..n
  <2>1. ASSUME NEW x \in first..n
        PROVE  \E i \in MessagesIn(g) : g[i].n = x
    <3>1. CASE x <= last
      <4>1. x \in first..last
        BY <1>1, <2>1, <3>1
      <4>2. PICK i \in MessagesIn(f) : f[i].n = x
        BY <1>2, <4>1
      <4> QED
        BY <1>6, <1>c, <4>2
    <3>2. CASE x > last
      <4> PICK i : i = (x - last) + m
        OBVIOUS
      <4>1. i \in new /\ last + (i - m) = x
        BY <1>1, <1>b, <2>1, <3>2
      <4>2. g[i].n = x
        BY <1>c, <4>1
      <4> QED
        BY <1>c, <4>1, <4>2
    <3>3. x <= last \/ x > last
      BY ONLY <1>1, <2>1, n \in Nat
    <3> QED
      BY <3>1, <3>2, <3>3
  <2>2. ASSUME NEW i \in MessagesIn(g)
        PROVE  g[i].n \in first..n
    <3>1. CASE i \in MessagesIn(f)
      <4>1. g[i].n \in first..last
        BY <1>6, <3>1
      <4> QED
        BY ONLY <1>d, <4>1
    <3>2. CASE i \in new
      <4>1. g[i].n = last + (i - m)
        BY <1>c, <3>2
      <4>2. last + (i - m) \in first..n
        BY <1>1, <1>2, <1>a, <3>2
      <4> QED
        BY <4>1, <4>2
    <3> QED
      BY <1>c, <2>2, <3>1, <3>2
  <2> QED
    BY ONLY <2>1, <2>2
<1>8. ASSUME NEW i \in MessagesIn(g), NEW j \in MessagesIn(g), i < j
      PROVE  g[i].n < g[j].n
  <2>1. CASE i \in MessagesIn(f) /\ j \in MessagesIn(f)
    BY <1>2, <1>6, <1>8, <2>1
  <2>2. CASE i \in MessagesIn(f) /\ j \in new
    <3>1. g[i].n \in first..last /\ g[j].n = last + (j - m)
      BY <1>6, <1>c, <2>2
    <3>2. last + (j - m) > last
      BY <1>1, <1>a, <2>2
    <3>3. \A x \in first..last : x < last + (j - m)
      BY ONLY <1>1, <1>a, <1>d, <2>2, <3>2
    <3> QED
      BY ONLY <3>1, <3>3
  <2>3. CASE i \in new /\ j \in new
    <3>1. g[i].n = last + (i - m) /\ g[j].n = last + (j - m)
      BY <1>c, <2>3
    <3>2. last + (i - m) < last + (j - m)
      BY <1>1, <1>8, <1>a, <2>3
    <3> QED
      BY <3>1, <3>2
  <2>4. ~(i \in new /\ j \in MessagesIn(f))
    BY ONLY <1>1, <1>8, <1>a, <1>e
  <2> QED
    BY <1>c, <2>1, <2>2, <2>3, <2>4
<1>9. first <= n + 1 /\ Len(<<>>) = 0 /\ DOMAIN <<>> = {}
  BY <1>1, <1>2
<1>10. n - Len(<<>>) = n /\ first = Len(r) + 1
  BY ONLY <1>9, n \in Nat, first = Len(r) + 1
<1> QED
  <2> PICK e : e = <<>>
    OBVIOUS
  <2>1. /\ Len(r) + 1 <= (n - Len(e)) + 1
        /\ {g[i].n : i \in MessagesIn(g)} = Len(r) + 1..n - Len(e)
        /\ \A i \in DOMAIN e : e[i] = (n - Len(e)) + i
    BY ONLY <1>7, <1>9, <1>10, e = <<>>
  <2>2. \A i \in DOMAIN r : r[i] = i
    BY ONLY <1>2
  <2>3. InOrder(r, g, e, n)
    BY ONLY <1>8, <2>1, <2>2 DEF InOrder
  <2> QED
    BY ONLY <2>3, g = f \o es, e = <<>>

\* A frame that is no message is sent.
LEMMA OtherSent ==
    ASSUME NEW r, NEW f \in Frames, NEW w, NEW n, NEW e \in Down, e.type # "message"
    PROVE  /\ f \o <<e>> \in Frames
           /\ MessagesIn(f \o <<e>>) = MessagesIn(f)
           /\ InOrder(r, f, w, n) => InOrder(r, f \o <<e>>, w, n)
<1> PICK g, m : g = f \o <<e>> /\ m = Len(f)
  OBVIOUS
<1>0. f \in Seq(Down)
  BY DEF Frames
<1>1. <<e>> \in Seq(Down) /\ Len(<<e>>) = 1 /\ <<e>>[1] = e
  OBVIOUS
<1>2. /\ m \in Nat /\ DOMAIN f = 1..m /\ g \in Seq(Down) /\ Len(g) = m + 1
      /\ \A i \in 1..m + 1 : g[i] = IF i <= m THEN f[i] ELSE <<e>>[i - m]
  <2> HIDE DEF Down
  <2> QED
    BY ONLY <1>0, <1>1, g = f \o <<e>>, m = Len(f), ConcatProperties, LenProperties
<1>3. /\ DOMAIN g = 1..m + 1 /\ g[m + 1] = e
      /\ \A i \in 1..m : g[i] = f[i]
  <2>1. (m + 1) - m = 1 /\ ~(m + 1 <= m) /\ m + 1 \in 1..m + 1
    BY <1>2
  <2> QED
    BY <1>1, <1>2, <2>1, LenProperties
<1>4. MessagesIn(g) = MessagesIn(f) /\ \A i \in MessagesIn(f) : g[i] = f[i]
  BY <1>2, <1>3 DEF MessagesIn
<1>5. {g[i].n : i \in MessagesIn(g)} = {f[i].n : i \in MessagesIn(f)}
  BY <1>4
<1>6. g \in Frames
  BY ONLY <1>2 DEF Frames
<1>7. InOrder(r, f, w, n) => InOrder(r, g, w, n)
  BY ONLY <1>4, <1>5 DEF InOrder
<1> QED
  BY ONLY <1>4, <1>6, <1>7, g = f \o <<e>>

\* What the first frame and the others are.
LEMMA FirstFrame ==
    ASSUME NEW f \in Frames, f # <<>>
    PROVE  /\ Tail(f) \in Frames /\ Head(f) \in Down
           /\ \A i \in MessagesIn(f) : i = 1 \/ i - 1 \in MessagesIn(Tail(f))
           /\ \A i \in MessagesIn(Tail(f)) :
                i + 1 \in MessagesIn(f) /\ Tail(f)[i] = f[i + 1] /\ i \in Nat \ {0}
           /\ 1 \in MessagesIn(f) <=> Head(f).type = "message"
           /\ Head(f) = f[1]
<1> PICK t, m : t = Tail(f) /\ m = Len(f)
  OBVIOUS
<1>1. /\ m \in Nat /\ m > 0 /\ Head(f) = f[1] /\ Head(f) \in Down
      /\ t \in Seq(Down) /\ Len(t) = m - 1
      /\ \A i \in 1..Len(t) : t[i] = f[i + 1]
  <2>1. f \in Seq(Down)
    BY DEF Frames
  <2> HIDE DEF Down
  <2> QED
    BY ONLY <2>1, f # <<>>, t = Tail(f), m = Len(f), EmptySeq, LenProperties, HeadTailProperties
<1>2. DOMAIN f = 1..m /\ DOMAIN t = 1..m - 1
  BY <1>1, LenProperties DEF Frames
<1>3. \A i \in 1..m : i = 1 \/ (i - 1 \in 1..m - 1 /\ t[i - 1] = f[i])
  BY ONLY <1>1
<1>4. \A i \in 1..m - 1 : i + 1 \in 1..m /\ t[i] = f[i + 1] /\ i \in Nat \ {0}
  BY ONLY <1>1
<1>5. 1 \in 1..m
  BY ONLY <1>1
<1> QED
  BY ONLY <1>1, <1>2, <1>3, <1>4, <1>5, t = Tail(f) DEF MessagesIn, Frames

\* The client receives a frame that is no message.
LEMMA OtherReceived ==
    ASSUME NEW r, NEW f \in Frames, NEW w, NEW n, f # <<>>, Head(f).type # "message",
           InOrder(r, f, w, n)
    PROVE  InOrder(r, Tail(f), w, n)
<1> PICK t, first, last : t = Tail(f) /\ first = Len(r) + 1 /\ last = n - Len(w)
  OBVIOUS
<1>1. /\ \A i \in MessagesIn(f) : i - 1 \in MessagesIn(t) /\ t[i - 1] = f[i]
      /\ \A i \in MessagesIn(t) : i + 1 \in MessagesIn(f) /\ t[i] = f[i + 1] /\ i \in Nat
  <2>1. \A i \in MessagesIn(f) : i # 1 /\ i \in Nat
    <3>1. DOMAIN f = 1..Len(f) /\ Len(f) \in Nat
      BY LenProperties DEF Frames
    <3> QED
      BY <3>1, FirstFrame DEF MessagesIn
  <2>2. \A i \in MessagesIn(f) : i - 1 \in MessagesIn(t) /\ (i - 1) + 1 = i
    BY <2>1, FirstFrame
  <2>3. \A i \in MessagesIn(t) : i + 1 \in MessagesIn(f) /\ t[i] = f[i + 1] /\ i \in Nat
    BY FirstFrame
  <2> QED
    BY <2>2, <2>3
<1>2. /\ {f[i].n : i \in MessagesIn(f)} = first..last
      /\ \A i, j \in MessagesIn(f) : i < j => f[i].n < f[j].n
  BY DEF InOrder
<1>3. {t[i].n : i \in MessagesIn(t)} = first..last
  BY ONLY <1>1, <1>2
<1>4. \A i, j \in MessagesIn(t) : i < j => t[i].n < t[j].n
  <2> SUFFICES ASSUME NEW i \in MessagesIn(t), NEW j \in MessagesIn(t), i < j
      PROVE  t[i].n < t[j].n
    OBVIOUS
  <2>1. i + 1 < j + 1
    BY <1>1
  <2> QED
    BY ONLY <1>1, <1>2, <2>1
<1> QED
  BY <1>3, <1>4 DEF InOrder

\* The client receives a message: it is the next one.
LEMMA MessageReceived ==
    ASSUME NEW r \in Numbers, NEW f \in Frames, NEW w \in Numbers, NEW n \in Nat,
           f # <<>>, Head(f).type = "message", InOrder(r, f, w, n)
    PROVE  InOrder(Append(r, Head(f).n), Tail(f), w, n)
<1> PICK t, first, last, s : /\ t = Tail(f) /\ first = Len(r) + 1 /\ last = n - Len(w)
                             /\ s = Append(r, Head(f).n)
  OBVIOUS
<1>1. /\ 1 \in MessagesIn(f) /\ Head(f) = f[1]
      /\ \A i \in MessagesIn(f) : i = 1 \/ i - 1 \in MessagesIn(t)
      /\ \A i \in MessagesIn(t) : i + 1 \in MessagesIn(f) /\ t[i] = f[i + 1] /\ i \in Nat \ {0}
  BY FirstFrame
<1>2. /\ {f[i].n : i \in MessagesIn(f)} = first..last
      /\ \A i, j \in MessagesIn(f) : i < j => f[i].n < f[j].n
      /\ \A i \in DOMAIN r : r[i] = i
  BY DEF InOrder
<1>3. /\ Len(r) \in Nat /\ DOMAIN r = 1..Len(r) /\ first \in Nat /\ last \in Int
      /\ \A i \in MessagesIn(f) : i \in Nat /\ i > 0
  <2>1. Len(r) \in Nat /\ DOMAIN r = 1..Len(r) /\ Len(w) \in Nat
        /\ DOMAIN f = 1..Len(f) /\ Len(f) \in Nat
    BY LenProperties DEF Frames, Numbers
  <2> QED
    BY <2>1 DEF MessagesIn
<1>4. \A i \in MessagesIn(f) : f[i].n \in first..last
  BY ONLY <1>2
<1>5. f[1].n = first
  <2>1. f[1].n \in first..last
    BY ONLY <1>1, <1>4
  <2>2. first \in first..last
    BY ONLY <1>3, <2>1
  <2>3. PICK i \in MessagesIn(f) : f[i].n = first
    BY ONLY <1>2, <2>2
  <2>4. i # 1 => i > 1
    BY ONLY <1>3, <2>3
  <2>5. i # 1 => f[1].n < first
    BY ONLY <1>1, <1>2, <2>3, <2>4
  <2> QED
    BY ONLY <1>3, <2>1, <2>3, <2>5
<1>6. /\ Len(s) = first /\ DOMAIN s = 1..first
      /\ \A i \in DOMAIN s : s[i] = i
  <2>1. Head(f).n \in 1..MaxMessages
    <3>1. Head(f) \in Down
      BY FirstFrame
    <3> QED
      BY <3>1 DEF Down
  <2>2. /\ s \in Seq(1..MaxMessages) /\ Len(s) = first
        /\ \A i \in 1..Len(r) : s[i] = r[i]
        /\ s[first] = Head(f).n
    BY <2>1, AppendProperties DEF Numbers
  <2>3. DOMAIN s = 1..first
    BY <2>2, LenProperties
  <2>4. \A i \in 1..first : i = first \/ i \in 1..Len(r)
    BY ONLY <1>3, first = Len(r) + 1
  <2> QED
    BY ONLY <1>1, <1>2, <1>3, <1>5, <2>2, <2>3, <2>4
<1>7. \A i, j \in MessagesIn(t) : i < j => t[i].n < t[j].n
  <2> SUFFICES ASSUME NEW i \in MessagesIn(t), NEW j \in MessagesIn(t), i < j
      PROVE  t[i].n < t[j].n
    OBVIOUS
  <2>1. i + 1 < j + 1
    BY <1>1
  <2> QED
    BY ONLY <1>1, <1>2, <2>1
<1>8. \A i \in MessagesIn(t) : t[i].n \in first + 1..last
  <2> SUFFICES ASSUME NEW i \in MessagesIn(t)
      PROVE  t[i].n \in first + 1..last
    OBVIOUS
  <2>1. 1 < i + 1 /\ i + 1 \in MessagesIn(f) /\ t[i].n = f[i + 1].n
    <3>1. i \in Nat \ {0} /\ i + 1 \in MessagesIn(f) /\ t[i] = f[i + 1]
      BY <1>1
    <3> QED
      BY ONLY <3>1
  <2>2. first < t[i].n /\ t[i].n \in first..last
    BY ONLY <1>1, <1>2, <1>4, <1>5, <2>1
  <2> QED
    BY ONLY <1>3, <2>2
<1>9. \A x \in first + 1..last : \E i \in MessagesIn(t) : t[i].n = x
  <2> SUFFICES ASSUME NEW x \in first + 1..last
      PROVE  \E i \in MessagesIn(t) : t[i].n = x
    OBVIOUS
  <2>1. x \in first..last /\ x # first
    BY ONLY <1>3, x \in first + 1..last
  <2>2. PICK i \in MessagesIn(f) : f[i].n = x
    BY ONLY <1>2, <2>1
  <2>3. i - 1 \in MessagesIn(t) /\ (i - 1) + 1 = i
    BY ONLY <1>1, <1>3, <1>5, <2>1, <2>2
  <2> QED
    BY ONLY <1>1, <2>2, <2>3
<1>10. {t[i].n : i \in MessagesIn(t)} = first + 1..last
  BY ONLY <1>8, <1>9
<1>11. first + 1 <= last + 1
  <2>1. first \in first..last
    BY ONLY <1>1, <1>4, <1>5
  <2> QED
    BY ONLY <1>3, <2>1
<1>12. \A i \in DOMAIN w : w[i] = last + i
  BY DEF InOrder
<1>13. InOrder(s, t, w, n)
  BY ONLY <1>6, <1>7, <1>10, <1>11, <1>12, last = n - Len(w) DEF InOrder
<1> QED
  BY ONLY <1>13, t = Tail(f), s = Append(r, Head(f).n)


-----------------------------------------------------------------------------
(* The types. *)

\* Frames are sent to an open socket or not at all.
LEMMA EmitTyped ==
    ASSUME TypeOK, NEW c \in Client, NEW es \in Frames, Emit(c, es)
    PROVE  /\ down' \in [Client -> Seq(Down)]
           /\ \A d \in Client : d # c => down'[d] = down[d]
           /\ c \in Open => down'[c] = down[c] \o es
<1>1. down \in [Client -> Frames]
  BY DEF TypeOK, Frames
<1>2. down[c] \o es \in Frames
  <2>1. down[c] \in Seq(Down) /\ es \in Seq(Down)
    BY <1>1 DEF Frames
  <2> HIDE DEF Down
  <2> QED
    BY <2>1, ConcatProperties DEF Frames
<1>3. down' \in [Client -> Frames]
  BY <1>1, <1>2 DEF Emit
<1> QED
  BY <1>1, <1>2, <1>3 DEF Emit, Frames

LEMMA EventsTyped ==
    /\ Event("connected") \in Down /\ Event("error") \in Down /\ Event("joined") \in Up
    /\ \A n \in 1..MaxMessages : Message(n) \in Down
    /\ \A id \in 1..MaxRequests : RequestFrame(id) \in Down
BY DEF Event, Message, RequestFrame, Down, Up

\* The frames of the queued messages.
LEMMA QueueTyped ==
    ASSUME NEW w \in Numbers
    PROVE  [i \in DOMAIN w |-> Message(w[i])] \in Frames
<1>1. DOMAIN w = 1..Len(w) /\ Len(w) \in Nat /\ \A i \in 1..Len(w) : w[i] \in 1..MaxMessages
  BY LenProperties, ElementOfSeq DEF Numbers
<1>2. [i \in DOMAIN w |-> Message(w[i])] \in [1..Len(w) -> Down]
  BY <1>1, EventsTyped
<1> QED
  BY <1>1, <1>2, IsASeq DEF Frames

\* Closed sockets carry nothing.
LEMMA ClosedTyped ==
    ASSUME TypeOK, NEW cs \in SUBSET Client, NEW how \in {"closed", "terminated"}, Closed(cs, how)
    PROVE  /\ socket' \in [Client -> {"none", "open", "closed", "terminated"}]
           /\ status' \in [Client -> {"verifying", "connecting", "joining", "connected",
                                      "disconnected"}]
           /\ down' \in [Client -> Seq(Down)]
           /\ up' \in [Client -> Seq(Up)]
<1>1. <<>> \in Seq(Down) /\ <<>> \in Seq(Up)
  OBVIOUS
<1> QED
  BY <1>1 DEF TypeOK, Closed

LEMMA SettleTyped ==
    ASSUME TypeOK, NEW c \in Client, NEW id \in 1..MaxRequests,
           NEW outcome \in {"pending", "resolved", "rejected"}
    PROVE  /\ [requests EXCEPT ![c][id] = outcome]
                \in [Client -> [1..MaxRequests -> {"none", "pending", "resolved", "rejected"}]]
           /\ Settle(c, id, outcome) => requests'
                \in [Client -> [1..MaxRequests -> {"none", "pending", "resolved", "rejected"}]]
<1> PICK S, R : S = {"none", "pending", "resolved", "rejected"} /\ R = 1..MaxRequests
  OBVIOUS
<1>1. requests \in [Client -> [R -> S]] /\ c \in Client /\ id \in R /\ outcome \in S
  BY DEF TypeOK
<1>2. [requests EXCEPT ![c][id] = outcome] \in [Client -> [R -> S]]
  BY ONLY <1>1
<1>3. Settle(c, id, outcome) => requests' \in [Client -> [R -> S]]
  BY ONLY <1>1 DEF Settle
<1> QED
  BY ONLY <1>2, <1>3, S = {"none", "pending", "resolved", "rejected"}, R = 1..MaxRequests

\* The client takes a frame and may answer it.
LEMMA DispatchTyped ==
    ASSUME TypeOK, NEW c \in Client, Dispatch(c)
    PROVE  TypeOK'
<1> PICK f : f = down[c]
  OBVIOUS
<1>1. f \in Frames /\ f # <<>> /\ Tail(f) \in Frames /\ Head(f) \in Down
  BY FirstFrame DEF Dispatch, TypeOK, Frames
<1>2. down' \in [Client -> Seq(Down)]
  <2>1. down' = [down EXCEPT ![c] = Tail(f)]
    BY DEF Dispatch
  <2> QED
    BY <1>1, <2>1 DEF TypeOK, Frames
<1>3. ASSUME NEW es \in Seq(Up)
      PROVE  (IF c \in Open THEN [up EXCEPT ![c] = @ \o es] ELSE up) \in [Client -> Seq(Up)]
  <2>1. up[c] \o es \in Seq(Up)
    <3>1. up[c] \in Seq(Up)
      BY DEF TypeOK
    <3> HIDE DEF Up
    <3> QED
      BY <3>1, ConcatProperties
  <2> QED
    BY <2>1 DEF TypeOK
<1>4. up' \in [Client -> Seq(Up)]
  <2>1. Event("joined") \in Up /\ <<Event("joined")>> \in Seq(Up)
    BY EventsTyped
  <2>2. Head(f).type = "request" =>
          /\ <<[type |-> "result", n |-> Head(f).n]>> \in Seq(Up)
          /\ <<[type |-> "empty", n |-> Head(f).n]>> \in Seq(Up)
    <3>1. Head(f).type = "request" =>
            /\ [type |-> "result", n |-> Head(f).n] \in Up
            /\ [type |-> "empty", n |-> Head(f).n] \in Up
      BY <1>1 DEF Down, Up
    <3> QED
      BY <3>1
  <2>3. up \in [Client -> Seq(Up)]
    BY DEF TypeOK
  <2> QED
    BY <1>3, <2>1, <2>2, <2>3 DEF Dispatch
<1>5. got' \in [Client -> Seq(1..MaxMessages)]
  <2>1. Head(f).type = "message" => Append(got[c], Head(f).n) \in Seq(1..MaxMessages)
    <3>1. Head(f).type = "message" => Head(f).n \in 1..MaxMessages
      BY <1>1 DEF Down
    <3> QED
      BY <3>1, AppendProperties DEF TypeOK
  <2> QED
    BY <2>1 DEF Dispatch, TypeOK
<1>6. promise' \in [Client -> {"none", "pending", "resolved", "rejected"}]
  BY DEF Dispatch, TypeOK
<1> QED
  BY <1>2, <1>4, <1>5, <1>6 DEF TypeOK, Dispatch, pingVars, serverVars

LEMMA TypeStep ==
    ASSUME TypeOK, [Next]_vars
    PROVE  TypeOK'
<1>1. ASSUME NEW c \in Client, Connect(c)
      PROVE  TypeOK'
  BY <1>1 DEF Connect, TypeOK, pingVars, serverVars
<1>2. ASSUME NEW c \in Client, Admit(c)
      PROVE  TypeOK'
  <2>1. <<Event("connected")>> \in Frames
    BY EventsTyped DEF Frames
  <2>2. down' \in [Client -> Seq(Down)]
    BY <1>2, <2>1, EmitTyped DEF Admit
  <2> QED
    BY <1>2, <2>2 DEF Admit, TypeOK, pingVars, libraryVars
<1>3. ASSUME NEW c \in Client, Refuse(c)
      PROVE  TypeOK'
  <2>1. Append(down[c], Event("error")) \in Seq(Down)
    BY EventsTyped, AppendProperties DEF TypeOK
  <2> QED
    BY <1>3, <2>1 DEF Refuse, TypeOK, pingVars, libraryVars
<1>4. ASSUME NEW c \in Client, Close(c)
      PROVE  TypeOK'
  <2>1. Closed({c}, "closed")
    BY <1>4 DEF Close
  <2>2. /\ socket' \in [Client -> {"none", "open", "closed", "terminated"}]
        /\ status' \in [Client -> {"verifying", "connecting", "joining", "connected",
                                   "disconnected"}]
        /\ down' \in [Client -> Seq(Down)]
        /\ up' \in [Client -> Seq(Up)]
    BY <2>1, ClosedTyped
  <2> QED
    BY <1>4, <2>2 DEF Close, TypeOK, pingVars, libraryVars
<1>5. ASSUME NEW c \in Client, Send(c)
      PROVE  TypeOK'
  <2>1. sent[c] + 1 \in 1..MaxMessages /\ sent' = [sent EXCEPT ![c] = @ + 1]
    BY <1>5, Bounds DEF Send, TypeOK
  <2>2. sent' \in [Client -> 0..MaxMessages]
    BY <2>1 DEF TypeOK
  <2>3. Append(queue[c], sent[c] + 1) \in Seq(1..MaxMessages)
    BY <2>1, AppendProperties DEF TypeOK
  <2>4. <<Message(sent[c] + 1)>> \in Frames
    BY <2>1, EventsTyped DEF Frames
  <2>5. down' \in [Client -> Seq(Down)]
    BY <1>5, <2>4, EmitTyped DEF Send, TypeOK
  <2>6. queue' \in [Client -> Seq(1..MaxMessages)]
    BY <1>5, <2>3 DEF Send, TypeOK
  <2> QED
    BY <1>5, <2>2, <2>5, <2>6 DEF Send, TypeOK, pingVars, libraryVars
<1>6. ASSUME NEW c \in Client, Answered(c)
      PROVE  TypeOK'
  <2>1. Tail(up[c]) \in Seq(Up)
    BY <1>6, HeadTailProperties DEF Answered, TypeOK
  <2> QED
    BY <1>6, <2>1 DEF Answered, TypeOK, pingVars, libraryVars
<1>7. ASSUME NEW c \in Client, Seated(c)
      PROVE  TypeOK'
  <2>1. [i \in DOMAIN queue[c] |-> Message(queue[c][i])] \in Frames
    BY QueueTyped DEF TypeOK, Numbers
  <2>2. down' \in [Client -> Seq(Down)]
    BY <1>7, <2>1, EmitTyped DEF Seated
  <2>3. queue' \in [Client -> Seq(1..MaxMessages)]
    <3>1. queue' = [queue EXCEPT ![c] = <<>>] /\ <<>> \in Seq(1..MaxMessages)
      BY <1>7 DEF Seated, Sent
    <3> QED
      BY <3>1 DEF TypeOK
  <2>4. UNCHANGED <<socket, pingVars, sent, requests, up, libraryVars>>
        /\ status' = [status EXCEPT ![c] = "connected"]
    BY <1>7 DEF Seated
  <2> QED
    BY <2>2, <2>3, <2>4 DEF TypeOK, pingVars, libraryVars
<1>8. ASSUME NEW c \in Client, NEW id \in 1..MaxRequests, Request(c, id)
      PROVE  TypeOK'
  <2>1. <<RequestFrame(id)>> \in Frames
    BY EventsTyped DEF Frames
  <2>2. down' \in [Client -> Seq(Down)]
    BY <1>8, <2>1, EmitTyped DEF Request
  <2>3. requests' \in [Client -> [1..MaxRequests -> {"none", "pending", "resolved", "rejected"}]]
    BY <1>8, SettleTyped DEF Request
  <2> QED
    BY <1>8, <2>2, <2>3 DEF Request, TypeOK, pingVars, libraryVars
<1>9. ASSUME NEW c \in Client, NEW id \in 1..MaxRequests, RequestTimeout(c, id)
      PROVE  TypeOK'
  <2>1. requests' \in [Client -> [1..MaxRequests -> {"none", "pending", "resolved", "rejected"}]]
    BY <1>9, SettleTyped DEF RequestTimeout
  <2> QED
    BY <1>9, <2>1 DEF RequestTimeout, TypeOK, pingVars, libraryVars
<1>10. ASSUME NEW c \in Client, Response(c)
       PROVE  TypeOK'
  <2>1. Tail(up[c]) \in Seq(Up) /\ Head(up[c]) \in Up
    BY <1>10, HeadTailProperties DEF Response, TypeOK
  <2>2. Head(up[c]).n \in 1..MaxRequests
    BY <1>10, <2>1 DEF Response, Up
  <2>3. requests' \in [Client -> [1..MaxRequests -> {"none", "pending", "resolved", "rejected"}]]
    BY <1>10, <2>2, SettleTyped DEF Response
  <2> QED
    BY <1>10, <2>1, <2>3 DEF Response, TypeOK, pingVars, libraryVars
<1>11. ASSUME NEW c \in Client, Vanish(c)
       PROVE  TypeOK'
  BY <1>11 DEF Vanish, TypeOK, serverVars, libraryVars
<1>12. ASSUME NEW c \in Client, Pong(c)
       PROVE  TypeOK'
  <2>1. unanswered[c] - 1 \in Nat /\ 0 \in 0..MaxPings
    BY <1>12, Bounds DEF Pong, TypeOK
  <2> QED
    BY <1>12, <2>1 DEF Pong, TypeOK, serverVars, libraryVars
<1>13. CASE PingClients
  <2> PICK lost : lost = {c \in Open : GivenUp(c)}
    OBVIOUS
  <2>1. Closed(lost, "terminated") /\ lost \subseteq Client
    BY <1>13 DEF PingClients, Open
  <2>2. /\ socket' \in [Client -> {"none", "open", "closed", "terminated"}]
        /\ status' \in [Client -> {"verifying", "connecting", "joining", "connected",
                                   "disconnected"}]
        /\ down' \in [Client -> Seq(Down)]
        /\ up' \in [Client -> Seq(Up)]
    BY <2>1, ClosedTyped
  <2>3. \A c \in Client :
          /\ pingCount[c] + (IF c \in Open \ lost THEN 1 ELSE 0) \in 0..MaxPings
          /\ unanswered[c] + (IF c \in Open \ lost /\ ~silent[c] THEN 1 ELSE 0) \in Nat
    BY Bounds DEF GivenUp, TypeOK
  <2>4. pingCount' \in [Client -> 0..MaxPings] /\ unanswered' \in [Client -> Nat]
    BY <1>13, <2>3 DEF PingClients
  <2> QED
    BY <1>13, <2>2, <2>4 DEF PingClients, TypeOK, libraryVars
<1>14. CASE UNCHANGED vars
  BY <1>14 DEF vars, pingVars, serverVars, libraryVars, TypeOK
<1> QED
  BY <1>1, <1>2, <1>3, <1>4, <1>5, <1>6, <1>7, <1>8, <1>9, <1>10, <1>11, <1>12, <1>13, <1>14,
     DispatchTyped DEF Next

\* Every handler of the server and of the library keeps its maps and queues typed.
THEOREM TypeCorrect == Spec => []TypeOK
<1>1. Init => TypeOK
  BY Bounds DEF Init, TypeOK
<1> QED
  BY <1>1, TypeStep, PTL DEF Spec


-----------------------------------------------------------------------------
(* Pings. *)

\* Every ping since the last pong is unanswered, and who is given up was gone.
Pinged ==
    \A c \in Client :
        /\ ~silent[c] => pingCount[c] <= unanswered[c]
        /\ socket[c] = "terminated" => silent[c]

\* No step but the pong lowers a count, and no step gives up a client that is there,
\* if a client that is there leaves fewer than maxPingRetries pings open.
LEMMA PingedStep ==
    ASSUME TypeOK, Pinged, Lag <= MaxPings, [Next]_vars
    PROVE  Pinged'
<1>1. CASE UNCHANGED pingVars /\ \A c \in Client : socket'[c] = "terminated" => socket[c] = "terminated"
  BY <1>1 DEF Pinged, pingVars
<1>2. ASSUME NEW c \in Client, Vanish(c)
      PROVE  Pinged'
  BY <1>2 DEF Vanish, Pinged, TypeOK
<1>3. ASSUME NEW c \in Client, Pong(c)
      PROVE  Pinged'
  BY <1>3 DEF Pong, Pinged, TypeOK
<1>4. CASE PingClients
  <2> SUFFICES ASSUME NEW c \in Client
      PROVE  /\ ~silent[c] => pingCount'[c] <= unanswered'[c]
             /\ socket'[c] = "terminated" => silent[c]
    BY <1>4 DEF PingClients, Pinged
  <2> PICK lost : lost = {d \in Open : GivenUp(d)}
    OBVIOUS
  <2>1. /\ pingCount'[c] = pingCount[c] + IF c \in Open \ lost THEN 1 ELSE 0
        /\ unanswered'[c] = unanswered[c] + IF c \in Open \ lost /\ ~silent[c] THEN 1 ELSE 0
        /\ c \in Open => silent[c] \/ unanswered[c] < Lag
        /\ socket'[c] = IF c \in lost THEN "terminated" ELSE socket[c]
    BY <1>4 DEF PingClients, Closed
  <2>2. /\ pingCount[c] \in Nat /\ unanswered[c] \in Nat /\ Lag \in Nat /\ MaxPings \in Nat
        /\ ~silent[c] => pingCount[c] <= unanswered[c]
        /\ socket[c] = "terminated" => silent[c]
    BY Bounds DEF TypeOK, Pinged
  <2>3. c \in lost => c \in Open /\ pingCount[c] >= MaxPings
    BY DEF GivenUp
  <2>4. c \in lost => silent[c]
    BY ONLY <2>1, <2>2, <2>3, Lag <= MaxPings
  <2> QED
    BY ONLY <2>1, <2>2, <2>4
<1>5. ASSUME NEW c \in Client, Connect(c) \/ Refuse(c) \/ Close(c)
      PROVE  UNCHANGED pingVars /\ \A d \in Client : socket'[d] = "terminated" => socket[d] = "terminated"
  BY <1>5 DEF Connect, Refuse, Close, Closed, pingVars, TypeOK
<1>6. ASSUME NEW c \in Client,
             \/ Admit(c) \/ Send(c) \/ Answered(c) \/ Seated(c) \/ Response(c) \/ Dispatch(c)
             \/ \E id \in 1..MaxRequests : Request(c, id) \/ RequestTimeout(c, id)
      PROVE  UNCHANGED <<pingVars, socket>>
  BY <1>6 DEF Admit, Send, Answered, Seated, Response, Dispatch, Request, RequestTimeout
<1>7. CASE UNCHANGED vars
  BY <1>1, <1>7 DEF vars
<1> QED
  BY <1>1, <1>2, <1>3, <1>4, <1>5, <1>6, <1>7 DEF Next

\* The pings never close the connection of a client that answers each of them before
\* maxPingRetries more are sent, for any number of clients (websocket/transport.ts).
THEOREM ResponsiveClientsStay ==
    ASSUME Lag <= MaxPings
    PROVE  Spec => []ResponsiveStay
<1>1. Init => Pinged
  <2> SUFFICES ASSUME Init, NEW c \in Client
      PROVE  pingCount[c] <= unanswered[c] /\ socket[c] # "terminated"
    BY DEF Pinged
  <2>1. pingCount[c] = 0 /\ unanswered[c] = 0 /\ socket[c] = "none"
    BY DEF Init
  <2> QED
    BY <2>1
<1>2. TypeOK /\ Pinged /\ [Next]_vars => Pinged'
  BY PingedStep
<1>3. Pinged => ResponsiveStay
  BY DEF Pinged, ResponsiveStay
<1> QED
  BY <1>1, <1>2, <1>3, TypeCorrect, PTL DEF Spec


-----------------------------------------------------------------------------
(* Messages. *)

\* Messages are on their way to a member only, whose queue is empty, and who can
\* be one only after connectRoom has handed over the room and has answered.
Flows(c) ==
    /\ socket[c] = "none" =>
         /\ status[c] = "verifying" /\ sent[c] = 0
         /\ got[c] = <<>> /\ queue[c] = <<>> /\ down[c] = <<>> /\ up[c] = <<>>
    /\ status[c] \in {"connecting", "joining", "connected"} => c \in Open
    /\ status[c] = "connected" => queue[c] = <<>>
    /\ MessagesIn(down[c]) # {} => status[c] = "connected"
    /\ c \in Open => InOrder(got[c], down[c], queue[c], sent[c])
    /\ \/ status[c] \in {"joining", "connected"}
       \/ got[c] # <<>>
       \/ \E i \in DOMAIN up[c] : up[c][i].type = "joined"
       => promise[c] = "resolved"

AllFlow == \A c \in Client : Flows(c)

\* The step does not concern the client.
Apart(c) ==
    /\ socket'[c] = socket[c] /\ status'[c] = status[c] /\ sent'[c] = sent[c]
    /\ got'[c] = got[c] /\ queue'[c] = queue[c] /\ down'[c] = down[c] /\ up'[c] = up[c]
    /\ promise'[c] = promise[c]

LEMMA ApartFlows ==
    ASSUME NEW c \in Client, Flows(c), Apart(c)
    PROVE  Flows(c)'
<1>1. c \in Open' <=> c \in Open
  BY DEF Apart, Open
<1> QED
  BY <1>1 DEF Apart, Flows

LEMMA ClosedFlows ==
    ASSUME NEW c \in Client, Flows(c), socket'[c] \notin {"none", "open"},
           status'[c] = "disconnected", MessagesIn(down'[c]) = {},
           up'[c] = up[c] \/ up'[c] = <<>>, got'[c] = got[c], promise'[c] = promise[c]
    PROVE  Flows(c)'
<1>1. ~(c \in Open')
  BY DEF Open
<1>2. DOMAIN <<>> = {}
  OBVIOUS
<1> QED
  BY <1>1, <1>2 DEF Flows

\* Nothing is ordered before anything has been sent.
LEMMA NothingSent == InOrder(<<>>, <<>>, <<>>, 0) /\ MessagesIn(<<>>) = {}
<1>1. MessagesIn(<<>>) = {} /\ Len(<<>>) = 0 /\ DOMAIN <<>> = {}
  BY DEF MessagesIn
<1> PICK z : z = Len(<<>>)
  OBVIOUS
<1>2. z = 0
  BY <1>1
<1>3. z + 1 = 1 /\ 0 - z = 0 /\ 1 <= 0 + 1
  BY ONLY <1>2
<1>4. \A x : x \notin 1..0
  OBVIOUS
<1> QED
  BY <1>1, <1>3, <1>4 DEF InOrder

\* A queue of frames of the client: the first is taken.
LEMMA TailTypes ==
    ASSUME NEW u \in Seq(Up), u # <<>>
    PROVE  /\ (\E i \in DOMAIN Tail(u) : Tail(u)[i].type = "joined")
                => \E i \in DOMAIN u : u[i].type = "joined"
           /\ Head(u).type = "joined" => \E i \in DOMAIN u : u[i].type = "joined"
<1> PICK t, m : t = Tail(u) /\ m = Len(u)
  OBVIOUS
<1>1. /\ m \in Nat /\ m > 0 /\ Head(u) = u[1] /\ DOMAIN u = 1..m
      /\ t \in Seq(Up) /\ Len(t) = m - 1 /\ DOMAIN t = 1..m - 1
      /\ \A i \in 1..Len(t) : t[i] = u[i + 1]
  <2> HIDE DEF Up
  <2>1. /\ m \in Nat /\ m > 0 /\ Head(u) = u[1] /\ t \in Seq(Up) /\ Len(t) = m - 1
        /\ \A i \in 1..Len(t) : t[i] = u[i + 1]
    BY ONLY u \in Seq(Up), u # <<>>, t = Tail(u), m = Len(u), EmptySeq, LenProperties,
            HeadTailProperties
  <2> QED
    BY <2>1, LenProperties
<1>2. \A i \in 1..m - 1 : i + 1 \in 1..m /\ t[i] = u[i + 1]
  BY ONLY <1>1
<1>3. 1 \in 1..m
  BY ONLY <1>1
<1> QED
  BY ONLY <1>1, <1>2, <1>3, t = Tail(u)

LEMMA ConnectFlows ==
    ASSUME TypeOK, AllFlow, NEW c \in Client, Connect(c)
    PROVE  AllFlow'
<1>1. \A d \in Client : d # c => Apart(d)
  BY DEF Connect, Apart, serverVars, TypeOK
<1>2. /\ socket'[c] = "open" /\ c \in Open' /\ socket[c] = "none"
      /\ status'[c] = status[c] /\ sent'[c] = sent[c]
      /\ got'[c] = got[c] /\ queue'[c] = queue[c] /\ down'[c] = down[c] /\ up'[c] = up[c]
  BY DEF Connect, serverVars, TypeOK, Open
<1>3. /\ status'[c] = "verifying" /\ sent'[c] = 0
      /\ got'[c] = <<>> /\ queue'[c] = <<>> /\ down'[c] = <<>> /\ up'[c] = <<>>
  BY <1>2 DEF AllFlow, Flows
<1>4. DOMAIN <<>> = {}
  OBVIOUS
<1>5. Flows(c)'
  BY <1>2, <1>3, <1>4, NothingSent DEF Flows
<1> QED
  BY <1>1, <1>5, ApartFlows DEF AllFlow

LEMMA AdmitFlows ==
    ASSUME TypeOK, AllFlow, NEW c \in Client, Admit(c)
    PROVE  AllFlow'
<1>1. Event("connected") \in Down /\ Event("connected").type = "connected"
  BY EventsTyped DEF Event
<1>2. <<Event("connected")>> \in Frames
  BY <1>1 DEF Frames
<1>3. /\ \A d \in Client : d # c => down'[d] = down[d]
      /\ down'[c] = down[c] \o <<Event("connected")>>
  BY <1>2, EmitTyped DEF Admit
<1>4. /\ socket' = socket /\ status' = [status EXCEPT ![c] = "connecting"]
      /\ UNCHANGED <<queue, sent, up, got, promise>> /\ c \in Open /\ status[c] = "verifying"
  BY DEF Admit, libraryVars
<1>5. \A d \in Client : d # c => Apart(d)
  BY <1>3, <1>4 DEF Apart, TypeOK
<1>6. status'[c] = "connecting" /\ c \in Open' /\ socket'[c] = "open"
  BY <1>4 DEF TypeOK, Open
<1>7. /\ MessagesIn(down'[c]) = MessagesIn(down[c])
      /\ InOrder(got[c], down[c], queue[c], sent[c])
            => InOrder(got[c], down'[c], queue[c], sent[c])
  <2>1. down[c] \in Frames /\ Event("connected").type # "message"
    BY <1>1 DEF TypeOK, Frames
  <2> QED
    BY <1>1, <1>3, <2>1, OtherSent
<1>8. Flows(c)'
  BY <1>4, <1>6, <1>7 DEF AllFlow, Flows
<1> QED
  BY <1>5, <1>8, ApartFlows DEF AllFlow

LEMMA CloseFlows ==
    ASSUME TypeOK, AllFlow, NEW cs \in SUBSET Open, NEW how \in {"closed", "terminated"},
           Closed(cs, how), UNCHANGED <<queue, sent, got, promise>>
    PROVE  AllFlow'
<1>1. \A d \in Client \ cs : Apart(d)
  BY DEF Closed, Apart
<1>2. \A d \in cs : /\ socket'[d] = how /\ status'[d] = "disconnected"
                    /\ down'[d] = <<>> /\ up'[d] = <<>> /\ d \in Client
  BY DEF Closed, Open
<1>3. ASSUME NEW d \in cs
      PROVE  Flows(d)'
  BY <1>2, NothingSent, ClosedFlows DEF AllFlow
<1> QED
  BY <1>1, <1>3, ApartFlows DEF AllFlow

LEMMA RefuseFlows ==
    ASSUME TypeOK, AllFlow, NEW c \in Client, Refuse(c)
    PROVE  AllFlow'
<1>1. \A d \in Client : d # c => Apart(d)
  BY DEF Refuse, Apart, libraryVars, TypeOK
<1>2. /\ socket'[c] = "closed" /\ status'[c] = "disconnected" /\ up'[c] = up[c]
      /\ got'[c] = got[c] /\ promise'[c] = promise[c]
      /\ down'[c] = Append(down[c], Event("error"))
  BY DEF Refuse, libraryVars, TypeOK
<1>3. MessagesIn(down'[c]) = {}
  <2>1. MessagesIn(down[c]) = {}
    BY DEF Refuse, AllFlow, Flows
  <2>2. Event("error") \in Down /\ Event("error").type # "message"
    BY EventsTyped DEF Event
  <2>3. down[c] \in Frames /\ down[c] \in Seq(Down)
    BY DEF TypeOK, Frames
  <2>4. Append(down[c], Event("error")) = down[c] \o <<Event("error")>>
    BY <2>2, <2>3, AppendIsConcat
  <2> QED
    BY <1>2, <2>1, <2>2, <2>3, <2>4, OtherSent
<1>4. Flows(c)'
  BY <1>2, <1>3, ClosedFlows DEF AllFlow
<1> QED
  BY <1>1, <1>4, ApartFlows DEF AllFlow


LEMMA SendFlows ==
    ASSUME TypeOK, AllFlow, NEW c \in Client, Send(c)
    PROVE  AllFlow'
<1> PICK n : n = sent[c] + 1
  OBVIOUS
<1>1. n \in 1..MaxMessages /\ sent[c] \in Nat /\ sent[c] + 1 = n
  BY Bounds DEF Send, TypeOK
<1>2. got[c] \in Numbers /\ down[c] \in Frames /\ queue[c] \in Numbers
  BY DEF TypeOK, Numbers, Frames
<1>3. /\ UNCHANGED <<socket, status, up, got, promise>> /\ sent' = [sent EXCEPT ![c] = n]
      /\ status[c] \in {"joining", "connected"}
  BY DEF Send, libraryVars
<1>4. /\ c \in Open /\ socket[c] = "open" /\ promise[c] = "resolved"
      /\ InOrder(got[c], down[c], queue[c], sent[c])
      /\ status[c] = "connected" => queue[c] = <<>>
      /\ MessagesIn(down[c]) # {} => status[c] = "connected"
  BY <1>3 DEF AllFlow, Flows, Open
<1>5. sent'[c] = n /\ c \in Open' /\ \A d \in Client : d # c => sent'[d] = sent[d]
  BY <1>3, <1>4 DEF TypeOK, Open
<1>6. InOrder(got[c], down[c], Append(queue[c], n), n)
  BY <1>1, <1>2, <1>4, OneWaits
<1>7. CASE status[c] = "joining"
  <2>1. queue' = [queue EXCEPT ![c] = Append(queue[c], n)] /\ down' = down
    BY <1>7 DEF Send
  <2>2. queue'[c] = Append(queue[c], n) /\ \A d \in Client : d # c => queue'[d] = queue[d]
    BY <2>1 DEF TypeOK
  <2>3. Flows(c)'
    BY <1>3, <1>4, <1>5, <1>6, <1>7, <2>1, <2>2 DEF Flows
  <2>4. \A d \in Client : d # c => Apart(d)
    BY <1>3, <1>5, <2>1, <2>2 DEF Apart
  <2> QED
    BY <2>3, <2>4, ApartFlows DEF AllFlow
<1>8. CASE status[c] = "connected"
  <2>1. queue' = queue /\ Emit(c, <<Message(n)>>)
    BY <1>8 DEF Send
  <2>2. <<Message(n)>> \in Frames
    BY <1>1, EventsTyped DEF Frames
  <2>3. /\ \A d \in Client : d # c => down'[d] = down[d]
        /\ down'[c] = down[c] \o <<Message(n)>>
    BY <1>4, <2>1, <2>2, EmitTyped
  <2> PICK w : w = Append(queue[c], n)
    OBVIOUS
  <2>4. w = <<n>> /\ w \in Numbers
    <3>1. Append(<<>>, n) = <<n>> /\ <<n>> \in Seq(1..MaxMessages)
      BY ONLY <1>1
    <3>2. w = Append(<<>>, n)
      BY <1>4, <1>8
    <3> QED
      BY ONLY <3>1, <3>2 DEF Numbers
  <2>5. <<Message(n)>> = [i \in DOMAIN w |-> Message(w[i])]
    BY <2>4
  <2>6. InOrder(got[c], down'[c], <<>>, n)
    <3>1. InOrder(got[c], down[c], w, n) /\ n \in Nat
      BY <1>1, <1>6
    <3>2. InOrder(got[c], down[c] \o <<Message(n)>>, <<>>, n)
      BY ONLY <1>2, <2>4, <2>5, <3>1, AllSent
    <3> QED
      BY <2>3, <3>2
  <2>7. Flows(c)'
    BY <1>3, <1>4, <1>5, <1>8, <2>1, <2>6 DEF Flows
  <2>8. \A d \in Client : d # c => Apart(d)
    BY <1>3, <1>5, <2>1, <2>3 DEF Apart
  <2> QED
    BY <2>7, <2>8, ApartFlows DEF AllFlow
<1> QED
  BY <1>3, <1>7, <1>8

LEMMA AnsweredFlows ==
    ASSUME TypeOK, AllFlow, NEW c \in Client, Answered(c)
    PROVE  AllFlow'
<1>1. /\ UNCHANGED <<socket, queue, sent, down, got, promise>>
      /\ up[c] # <<>> /\ up[c] \in Seq(Up) /\ Head(up[c]).type = "joined"
      /\ up' = [up EXCEPT ![c] = Tail(@)]
      /\ status' = [status EXCEPT ![c] = IF @ = "connecting" THEN "joining" ELSE @]
  BY DEF Answered, libraryVars, TypeOK
<1>2. promise[c] = "resolved"
  <2>1. \E i \in DOMAIN up[c] : up[c][i].type = "joined"
    BY <1>1, TailTypes
  <2> QED
    BY <2>1 DEF AllFlow, Flows
<1>3. status'[c] = IF status[c] = "connecting" THEN "joining" ELSE status[c]
  BY <1>1 DEF TypeOK
<1>4. socket[c] # "none"
  BY <1>1 DEF AllFlow, Flows
<1>5. c \in Open' <=> c \in Open
  BY <1>1 DEF Open
<1>6. Flows(c)'
  BY <1>1, <1>2, <1>3, <1>4, <1>5 DEF AllFlow, Flows
<1>7. \A d \in Client : d # c => Apart(d)
  BY <1>1 DEF Apart, TypeOK
<1> QED
  BY <1>6, <1>7, ApartFlows DEF AllFlow

LEMMA SeatedFlows ==
    ASSUME TypeOK, AllFlow, NEW c \in Client, Seated(c)
    PROVE  AllFlow'
<1> PICK w, es : w = queue[c] /\ es = [i \in DOMAIN w |-> Message(w[i])]
  OBVIOUS
<1>1. /\ w \in Numbers /\ es \in Frames /\ got[c] \in Numbers /\ down[c] \in Frames
      /\ sent[c] \in Nat
  <2>1. /\ w \in Numbers /\ got[c] \in Numbers /\ down[c] \in Frames /\ sent[c] \in Nat
    BY Bounds DEF TypeOK, Numbers, Frames
  <2> QED
    BY <2>1, QueueTyped
<1>2. /\ UNCHANGED <<socket, sent, up, got, promise>>
      /\ status[c] = "joining" /\ status' = [status EXCEPT ![c] = "connected"]
      /\ Emit(c, es) /\ queue' = [queue EXCEPT ![c] = <<>>]
  BY DEF Seated, Sent, libraryVars
<1>3. /\ c \in Open /\ socket[c] = "open" /\ promise[c] = "resolved"
      /\ InOrder(got[c], down[c], w, sent[c])
  BY <1>2 DEF AllFlow, Flows, Open
<1>4. /\ \A d \in Client : d # c => down'[d] = down[d]
      /\ down'[c] = down[c] \o es
  BY <1>1, <1>2, <1>3, EmitTyped
<1>5. InOrder(got[c], down'[c], <<>>, sent[c])
  BY <1>1, <1>3, <1>4, AllSent
<1>6. status'[c] = "connected" /\ queue'[c] = <<>> /\ c \in Open'
  BY <1>2, <1>3 DEF TypeOK, Open
<1>7. Flows(c)'
  BY <1>2, <1>3, <1>5, <1>6 DEF Flows
<1>8. \A d \in Client : d # c => Apart(d)
  BY <1>2, <1>4 DEF Apart, TypeOK
<1> QED
  BY <1>7, <1>8, ApartFlows DEF AllFlow

LEMMA RequestFlows ==
    ASSUME TypeOK, AllFlow, NEW c \in Client, NEW id \in 1..MaxRequests, Request(c, id)
    PROVE  AllFlow'
<1>1. RequestFrame(id) \in Down /\ RequestFrame(id).type # "message" /\ down[c] \in Frames
  BY EventsTyped DEF RequestFrame, TypeOK, Frames
<1>2. <<RequestFrame(id)>> \in Frames
  BY <1>1 DEF Frames
<1>3. UNCHANGED <<socket, status, queue, sent, up, got, promise>> /\ Emit(c, <<RequestFrame(id)>>)
  BY DEF Request, libraryVars
<1>4. /\ \A d \in Client : d # c => down'[d] = down[d]
      /\ c \in Open => down'[c] = down[c] \o <<RequestFrame(id)>>
      /\ c \notin Open => down' = down
  BY <1>2, <1>3, EmitTyped DEF Emit
<1>5. \A d \in Client : d # c => Apart(d)
  BY <1>3, <1>4 DEF Apart
<1>6. CASE c \in Open
  <2>1. /\ MessagesIn(down'[c]) = MessagesIn(down[c])
        /\ InOrder(got[c], down[c], queue[c], sent[c])
              => InOrder(got[c], down'[c], queue[c], sent[c])
    BY <1>1, <1>4, <1>6, OtherSent
  <2>2. c \in Open' /\ socket[c] = "open"
    BY <1>3, <1>6 DEF Open
  <2>3. Flows(c)'
    BY <1>3, <1>6, <2>1, <2>2 DEF AllFlow, Flows
  <2> QED
    BY <1>5, <2>3, ApartFlows DEF AllFlow
<1>7. CASE c \notin Open
  BY <1>3, <1>4, <1>7, ApartFlows DEF Apart, AllFlow
<1> QED
  BY <1>6, <1>7

LEMMA ResponseFlows ==
    ASSUME TypeOK, AllFlow, NEW c \in Client, Response(c)
    PROVE  AllFlow'
<1>1. /\ UNCHANGED <<socket, status, queue, sent, down, got, promise>>
      /\ up[c] # <<>> /\ up[c] \in Seq(Up)
      /\ up' = [up EXCEPT ![c] = Tail(@)]
  BY DEF Response, libraryVars, TypeOK
<1>2. (\E i \in DOMAIN up'[c] : up'[c][i].type = "joined")
        => \E i \in DOMAIN up[c] : up[c][i].type = "joined"
  <2>1. up'[c] = Tail(up[c])
    BY <1>1 DEF TypeOK
  <2> QED
    BY <1>1, <2>1, TailTypes
<1>3. socket[c] # "none" /\ (c \in Open' <=> c \in Open)
  BY <1>1 DEF AllFlow, Flows, Open
<1>4. Flows(c)'
  BY <1>1, <1>2, <1>3 DEF AllFlow, Flows
<1>5. \A d \in Client : d # c => Apart(d)
  BY <1>1 DEF Apart, TypeOK
<1> QED
  BY <1>4, <1>5, ApartFlows DEF AllFlow


\* A frame is sent to the server, or nothing is.
LEMMA AnswerEffect ==
    ASSUME NEW u \in Seq(Up), NEW e \in Up
    PROVE  (\E i \in DOMAIN (u \o <<e>>) : (u \o <<e>>)[i].type = "joined")
             => e.type = "joined" \/ \E i \in DOMAIN u : u[i].type = "joined"
<1> PICK v, m : v = u \o <<e>> /\ m = Len(u)
  OBVIOUS
<1>1. <<e>> \in Seq(Up) /\ Len(<<e>>) = 1 /\ <<e>>[1] = e
  OBVIOUS
<1>2. /\ m \in Nat /\ DOMAIN u = 1..m /\ v \in Seq(Up) /\ Len(v) = m + 1
      /\ \A i \in 1..m + 1 : v[i] = IF i <= m THEN u[i] ELSE <<e>>[i - m]
  <2> HIDE DEF Up
  <2> QED
    BY ONLY u \in Seq(Up), <1>1, v = u \o <<e>>, m = Len(u), ConcatProperties, LenProperties
<1>3. DOMAIN v = 1..m + 1
  BY <1>2, LenProperties
<1>4. \A i \in 1..m + 1 : (i <= m => i \in 1..m) /\ (~(i <= m) => i - m = 1)
  BY ONLY <1>2
<1>5. \A i \in 1..m + 1 : v[i] = e \/ (i \in 1..m /\ v[i] = u[i])
  BY ONLY <1>1, <1>2, <1>4
<1> QED
  BY ONLY <1>2, <1>3, <1>5, v = u \o <<e>>

LEMMA DispatchFlows ==
    ASSUME TypeOK, AllFlow, NEW c \in Client, Dispatch(c)
    PROVE  AllFlow'
<1> PICK f : f = down[c]
  OBVIOUS
<1>1. f \in Frames /\ f # <<>> /\ got[c] \in Numbers /\ queue[c] \in Numbers /\ sent[c] \in Nat
      /\ up[c] \in Seq(Up)
  BY Bounds DEF Dispatch, TypeOK, Frames, Numbers
<1>2. /\ Head(f) \in Down
      /\ Head(f).type = "message" <=> 1 \in MessagesIn(f)
      /\ \A i \in MessagesIn(Tail(f)) : i + 1 \in MessagesIn(f)
  BY <1>1, FirstFrame
<1>3. /\ UNCHANGED <<socket, status, queue, sent>>
      /\ down' = [down EXCEPT ![c] = Tail(@)]
  BY DEF Dispatch, serverVars
<1>4. /\ down'[c] = Tail(f)
      /\ MessagesIn(down'[c]) # {} => MessagesIn(f) # {}
      /\ c \in Open' <=> c \in Open
      /\ socket[c] # "none"
  <2>1. down'[c] = Tail(f)
    BY <1>3 DEF TypeOK
  <2>2. socket[c] # "none"
    BY <1>1 DEF AllFlow, Flows
  <2> QED
    BY <1>2, <1>3, <2>1, <2>2 DEF Open
<1>5. Flows(c)
  BY DEF AllFlow
<1>6. ASSUME got' = got, InOrder(got[c], f, queue[c], sent[c]) => InOrder(got[c], Tail(f), queue[c], sent[c]),
             promise[c] = "resolved" => promise'[c] = "resolved",
             \/ promise'[c] = "resolved"
             \/ (\E i \in DOMAIN up'[c] : up'[c][i].type = "joined")
                   => \E i \in DOMAIN up[c] : up[c][i].type = "joined"
      PROVE  Flows(c)'
  BY <1>3, <1>4, <1>5, <1>6 DEF Flows
<1>7. ASSUME \A d \in Client : d # c => up'[d] = up[d] /\ got'[d] = got[d] /\ promise'[d] = promise[d],
             Flows(c)'
      PROVE  AllFlow'
  <2>1. \A d \in Client : d # c => Apart(d)
    BY <1>3, <1>7 DEF Apart, TypeOK
  <2> QED
    BY <1>7, <2>1, ApartFlows DEF AllFlow
<1>8. CASE Head(f).type = "connected"
  <2>1. /\ promise' = [promise EXCEPT ![c] = "resolved"] /\ got' = got
        /\ up' = IF c \in Open THEN [up EXCEPT ![c] = @ \o <<Event("joined")>>] ELSE up
    BY <1>8 DEF Dispatch
  <2>2. InOrder(got[c], f, queue[c], sent[c]) => InOrder(got[c], Tail(f), queue[c], sent[c])
    BY <1>1, <1>8, OtherReceived
  <2>3. promise'[c] = "resolved"
    BY <2>1 DEF TypeOK
  <2>4. Flows(c)'
    BY <1>6, <2>1, <2>2, <2>3
  <2> QED
    BY <1>7, <2>1, <2>4 DEF TypeOK
<1>9. CASE Head(f).type = "error"
  <2>1. /\ promise' = [promise EXCEPT ![c] = IF @ = "pending" THEN "rejected" ELSE @]
        /\ got' = got /\ up' = up
    BY <1>9 DEF Dispatch
  <2>2. InOrder(got[c], f, queue[c], sent[c]) => InOrder(got[c], Tail(f), queue[c], sent[c])
    BY <1>1, <1>9, OtherReceived
  <2>3. promise[c] = "resolved" => promise'[c] = "resolved"
    BY <2>1 DEF TypeOK
  <2>4. Flows(c)'
    BY <1>6, <2>1, <2>2, <2>3
  <2> QED
    BY <1>7, <2>1, <2>4 DEF TypeOK
<1>10. CASE Head(f).type = "message"
  <2>1. /\ got' = [got EXCEPT ![c] = Append(@, Head(f).n)]
        /\ promise' = promise /\ up' = up
    BY <1>10 DEF Dispatch
  <2>2. got'[c] = Append(got[c], Head(f).n)
    BY <2>1 DEF TypeOK
  <2>3. InOrder(got[c], f, queue[c], sent[c]) => InOrder(got'[c], Tail(f), queue[c], sent[c])
    BY <1>1, <1>10, <2>2, MessageReceived
  <2>4. promise[c] = "resolved"
    BY <1>2, <1>5, <1>10 DEF Flows
  <2>5. Flows(c)'
    BY <1>3, <1>4, <1>5, <2>1, <2>3, <2>4 DEF Flows
  <2> QED
    BY <1>7, <2>1, <2>5 DEF TypeOK
<1>11. CASE Head(f).type = "request"
  <2> PICK id : id = Head(f).n
    OBVIOUS
  <2>1. /\ got' = got /\ promise' = promise
        /\ \/ up' = up
           \/ \E type \in {"result", "empty"} :
                up' = [up EXCEPT ![c] = @ \o <<[type |-> type, n |-> id]>>]
    BY <1>11 DEF Dispatch
  <2>2. InOrder(got[c], f, queue[c], sent[c]) => InOrder(got[c], Tail(f), queue[c], sent[c])
    BY <1>1, <1>11, OtherReceived
  <2>3. (\E i \in DOMAIN up'[c] : up'[c][i].type = "joined")
           => \E i \in DOMAIN up[c] : up[c][i].type = "joined"
    <3>1. CASE up' = up
      BY <3>1
    <3>2. ASSUME NEW type \in {"result", "empty"},
                 up' = [up EXCEPT ![c] = @ \o <<[type |-> type, n |-> id]>>]
          PROVE  (\E i \in DOMAIN up'[c] : up'[c][i].type = "joined")
                   => \E i \in DOMAIN up[c] : up[c][i].type = "joined"
      <4> PICK e : e = [type |-> type, n |-> id]
        OBVIOUS
      <4>1. e \in Up /\ e.type # "joined"
        BY <1>2, <1>11 DEF Down, Up
      <4>2. up'[c] = up[c] \o <<e>>
        BY <3>2 DEF TypeOK
      <4> QED
        BY <1>1, <4>1, <4>2, AnswerEffect
    <3> QED
      BY <2>1, <3>1, <3>2
  <2>4. Flows(c)'
    BY <1>6, <2>1, <2>2, <2>3
  <2> QED
    BY <1>7, <2>1, <2>4 DEF TypeOK
<1> QED
  BY <1>2, <1>8, <1>9, <1>10, <1>11 DEF Down

LEMMA FlowStep ==
    ASSUME TypeOK, AllFlow, [Next]_vars
    PROVE  AllFlow'
<1>1. ASSUME NEW c \in Client, Close(c)
      PROVE  AllFlow'
  BY <1>1, CloseFlows DEF Close, libraryVars
<1>2. CASE PingClients
  <2>1. Closed({c \in Open : GivenUp(c)}, "terminated") /\ UNCHANGED <<queue, sent, got, promise>>
    BY <1>2 DEF PingClients, libraryVars
  <2> QED
    BY <2>1, CloseFlows
<1>3. CASE UNCHANGED <<socket, status, queue, sent, down, up, got, promise>>
  BY <1>3, ApartFlows DEF Apart, AllFlow
<1>4. ASSUME NEW c \in Client, NEW id \in 1..MaxRequests, RequestTimeout(c, id)
      PROVE  UNCHANGED <<socket, status, queue, sent, down, up, got, promise>>
  BY <1>4 DEF RequestTimeout, libraryVars
<1>5. ASSUME NEW c \in Client, Vanish(c) \/ Pong(c)
      PROVE  UNCHANGED <<socket, status, queue, sent, down, up, got, promise>>
  BY <1>5 DEF Vanish, Pong, serverVars, libraryVars
<1>6. UNCHANGED vars => UNCHANGED <<socket, status, queue, sent, down, up, got, promise>>
  BY DEF vars, serverVars, libraryVars
<1> QED
  BY <1>1, <1>2, <1>3, <1>4, <1>5, <1>6, ConnectFlows, AdmitFlows, RefuseFlows, SendFlows,
     AnsweredFlows, SeatedFlows, RequestFlows, ResponseFlows, DispatchFlows DEF Next

\* As long as its socket is open a client receives every message of its room, once and
\* in the order they were sent, for any number of clients and messages, those of the
\* onJoin hook included, and none before connectRoom has answered (transport/index.ts).
THEOREM MessagesArriveInOrder == Spec => []MessagesInOrder
<1>1. Init => AllFlow
  <2> SUFFICES ASSUME Init, NEW c \in Client
      PROVE  Flows(c)
    BY DEF AllFlow
  <2>1. /\ socket[c] = "none" /\ status[c] = "verifying" /\ sent[c] = 0 /\ c \notin Open
        /\ got[c] = <<>> /\ queue[c] = <<>> /\ down[c] = <<>> /\ up[c] = <<>>
    BY DEF Init, Open
  <2>2. DOMAIN <<>> = {}
    OBVIOUS
  <2> QED
    BY <2>1, <2>2, NothingSent DEF Flows
<1>2. TypeOK /\ AllFlow /\ [Next]_vars => AllFlow'
  BY FlowStep
<1>3. AllFlow => MessagesInOrder
  BY DEF AllFlow, Flows, MessagesInOrder
<1> QED
  BY <1>1, <1>2, <1>3, TypeCorrect, PTL DEF Spec

=============================================================================
