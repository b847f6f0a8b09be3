------------------------------- MODULE Queues -------------------------------
(***************************************************************************)
(* Where an element is in a FIFO queue, and what appending, taking the     *)
(* first element and keeping a prefix do to it: facts the proofs about the *)
(* channels between processes and about sockets rest on.                   *)
(***************************************************************************)
EXTENDS Naturals, Sequences, SequenceTheorems, TLAPS

\* The queue holds the element; at most once; the one in front of the other.
Has(q, e) == \E i \in 1..Len(q) : q[i] = e
Once(q, e) == \A i, j \in 1..Len(q) : q[i] = e /\ q[j] = e => i = j
Before(q, e, f) == \E i, j \in 1..Len(q) : i < j /\ q[i] = e /\ q[j] = f

-----------------------------------------------------------------------------
LEMMA EmptyHasNone == \A e : ~Has(<<>>, e)
BY DEF Has

LEMMA HasSome ==
    ASSUME NEW S, NEW q \in Seq(S), q # <<>>
    PROVE  Has(q, Head(q)) /\ Head(q) = q[1] /\ Head(q) \in S
<1>1. Len(q) \in Nat \ {0}
  BY EmptySeq
<1>2. Head(q) = q[1] /\ Head(q) \in S
  BY HeadTailProperties
<1> QED
  BY <1>1, <1>2 DEF Has

\* Appending adds the element behind all others.
LEMMA HasAppend ==
    ASSUME NEW S, NEW q \in Seq(S), NEW e \in S, NEW f
    PROVE  Has(Append(q, e), f) <=> Has(q, f) \/ e = f
<1>1. /\ Len(q) \in Nat
      /\ Len(Append(q, e)) = Len(q) + 1
      /\ \A i \in 1..Len(q) : Append(q, e)[i] = q[i]
      /\ Append(q, e)[Len(q) + 1] = e
  BY AppendProperties, LenProperties
<1> QED
  BY <1>1 DEF Has

LEMMA OnceAppend ==
    ASSUME NEW S, NEW q \in Seq(S), NEW e \in S, NEW f, Once(q, f), e # f \/ ~Has(q, f)
    PROVE  Once(Append(q, e), f)
<1>1. /\ Len(q) \in Nat
      /\ Len(Append(q, e)) = Len(q) + 1
      /\ \A i \in 1..Len(q) : Append(q, e)[i] = q[i]
      /\ Append(q, e)[Len(q) + 1] = e
  BY AppendProperties, LenProperties
<1> QED
  BY <1>1 DEF Has, Once

LEMMA BeforeAppend ==
    ASSUME NEW S, NEW q \in Seq(S), NEW e \in S, NEW f, NEW g
    PROVE  Before(Append(q, e), f, g) <=> Before(q, f, g) \/ (Has(q, f) /\ e = g)
<1>1. /\ Len(q) \in Nat
      /\ Len(Append(q, e)) = Len(q) + 1
      /\ \A i \in 1..Len(q) : Append(q, e)[i] = q[i]
      /\ Append(q, e)[Len(q) + 1] = e
  BY AppendProperties, LenProperties
<1>2. Before(Append(q, e), f, g) => Before(q, f, g) \/ (Has(q, f) /\ e = g)
  BY <1>1 DEF Before, Has
<1>3. Before(q, f, g) => Before(Append(q, e), f, g)
  BY <1>1 DEF Before, Has
<1>4. Has(q, f) /\ e = g => Before(Append(q, e), f, g)
  <2> SUFFICES ASSUME NEW i \in 1..Len(q), q[i] = f, e = g
               PROVE  Before(Append(q, e), f, g)
    BY DEF Has
  <2>1. /\ i \in 1..Len(Append(q, e)) /\ Len(q) + 1 \in 1..Len(Append(q, e))
        /\ i < Len(q) + 1
        /\ Append(q, e)[i] = f /\ Append(q, e)[Len(q) + 1] = g
    BY <1>1
  <2> QED
    BY <2>1 DEF Before
<1> QED
  BY <1>2, <1>3, <1>4

\* Taking the first element leaves the others in their order.
LEMMA HasTail ==
    ASSUME NEW S, NEW q \in Seq(S), q # <<>>, NEW e
    PROVE  /\ Has(Tail(q), e) => Has(q, e)
           /\ Has(q, e) => Has(Tail(q), e) \/ e = Head(q)
           /\ Once(q, e) => Once(Tail(q), e)
           /\ Once(q, e) /\ e = Head(q) => ~Has(Tail(q), e)
<1>1. /\ Len(q) \in Nat \ {0}
      /\ Len(Tail(q)) = Len(q) - 1
      /\ \A i \in 1..Len(Tail(q)) : Tail(q)[i] = q[i + 1]
      /\ Head(q) = q[1]
  BY EmptySeq, HeadTailProperties
<1>2. \A i \in 1..Len(Tail(q)) : i + 1 \in 1..Len(q) /\ q[i + 1] = Tail(q)[i]
  BY <1>1
<1>3. Has(Tail(q), e) => Has(q, e)
  BY <1>2 DEF Has
<1>4. Has(q, e) => Has(Tail(q), e) \/ e = Head(q)
  <2> SUFFICES ASSUME NEW i \in 1..Len(q), q[i] = e, i # 1
               PROVE  Has(Tail(q), e)
    BY <1>1 DEF Has
  <2>1. i - 1 \in 1..Len(Tail(q)) /\ Tail(q)[i - 1] = e
    BY <1>1
  <2> QED
    BY <2>1 DEF Has
<1>5. Once(q, e) => Once(Tail(q), e)
  <2> SUFFICES ASSUME Once(q, e), NEW i \in 1..Len(Tail(q)), NEW j \in 1..Len(Tail(q)),
                      Tail(q)[i] = e, Tail(q)[j] = e
               PROVE  i = j
    BY DEF Once
  <2>1. i + 1 = j + 1
    BY <1>2 DEF Once
  <2> QED
    BY <2>1
<1>6. Once(q, e) /\ e = Head(q) => ~Has(Tail(q), e)
  <2> SUFFICES ASSUME Once(q, e), e = Head(q), NEW i \in 1..Len(Tail(q)), Tail(q)[i] = e
               PROVE  FALSE
    BY DEF Has
  <2>1. i + 1 = 1
    BY <1>1, <1>2 DEF Once
  <2> QED
    BY <2>1
<1> QED
  BY <1>3, <1>4, <1>5, <1>6

LEMMA BeforeTail ==
    ASSUME NEW S, NEW q \in Seq(S), q # <<>>, NEW e, NEW f, Before(q, e, f)
    PROVE  /\ Once(q, f) => Head(q) # f
           /\ Has(Tail(q), f)
           /\ e = Head(q) \/ Before(Tail(q), e, f)
<1>1. /\ Len(q) \in Nat \ {0}
      /\ Len(Tail(q)) = Len(q) - 1
      /\ \A i \in 1..Len(Tail(q)) : Tail(q)[i] = q[i + 1]
      /\ Head(q) = q[1]
  BY EmptySeq, HeadTailProperties
<1>2. PICK i \in 1..Len(q), j \in 1..Len(q) : i < j /\ q[i] = e /\ q[j] = f
  BY DEF Before
<1>3. Once(q, f) => Head(q) # f
  BY <1>1, <1>2 DEF Once
<1>4. j - 1 \in 1..Len(Tail(q)) /\ Tail(q)[j - 1] = f
  BY <1>1, <1>2
<1>5. CASE i = 1
  BY <1>1, <1>2, <1>3, <1>4, <1>5 DEF Has
<1>6. CASE i # 1
  <2>1. i - 1 \in 1..Len(Tail(q)) /\ Tail(q)[i - 1] = e /\ i - 1 < j - 1
    BY <1>1, <1>2, <1>6
  <2> QED
    BY <1>3, <1>4, <2>1 DEF Has, Before
<1> QED
  BY <1>5, <1>6

\* So does keeping a prefix; what is kept keeps what was in front of it.
LEMMA HasPrefix ==
    ASSUME NEW S, NEW q \in Seq(S), NEW n \in 0..Len(q), NEW e
    PROVE  /\ SubSeq(q, 1, n) \in Seq(S)
           /\ Has(SubSeq(q, 1, n), e) => Has(q, e)
           /\ Once(q, e) => Once(SubSeq(q, 1, n), e)
<1>1. Len(q) \in Nat /\ q \in [1..Len(q) -> S]
  BY LenProperties
<1>2. /\ SubSeq(q, 1, n) \in Seq(S)
      /\ Len(SubSeq(q, 1, n)) = n
      /\ \A i \in 1..n : SubSeq(q, 1, n)[i] = q[i]
  <2>1. \A i \in 1..n : q[i] \in S
    BY <1>1
  <2> QED
    BY <1>1, <2>1, SubSeqProperties, Z3
<1> QED
  BY <1>1, <1>2 DEF Has, Once

LEMMA BeforePrefix ==
    ASSUME NEW S, NEW q \in Seq(S), NEW n \in 0..Len(q), NEW e, NEW f,
           Before(q, e, f), Once(q, f), Has(SubSeq(q, 1, n), f)
    PROVE  Before(SubSeq(q, 1, n), e, f)
<1>1. Len(q) \in Nat /\ q \in [1..Len(q) -> S]
  BY LenProperties
<1>2. /\ Len(SubSeq(q, 1, n)) = n
      /\ \A i \in 1..n : SubSeq(q, 1, n)[i] = q[i]
  <2>1. \A i \in 1..n : q[i] \in S
    BY <1>1
  <2> QED
    BY <1>1, <2>1, SubSeqProperties, Z3
<1>3. PICK i \in 1..Len(q), j \in 1..Len(q) : i < j /\ q[i] = e /\ q[j] = f
  BY DEF Before
<1>4. PICK k \in 1..n : q[k] = f
  BY <1>2 DEF Has
<1>5. k = j
  BY <1>1, <1>3, <1>4 DEF Once
<1>6. i \in 1..n /\ j \in 1..n
  BY <1>3, <1>4, <1>5
<1> QED
  BY <1>2, <1>3, <1>6 DEF Before
=============================================================================
