----------------------------- MODULE QueueFacts -----------------------------
(***************************************************************************)
(* What taking from a queue and adding to it does to its type, its entries *)
(* and the set of what it holds.                                           *)
(***************************************************************************)
EXTENDS Integers, SequencesExt, SequenceTheorems, TLAPS

\* Taking from, adding to and forming a queue.
LEMMA QueueTypes ==
    ASSUME NEW S
    PROVE  /\ \A q \in Seq(S) : Len(q) \in Nat /\ DOMAIN q = 1..Len(q)
           /\ \A q \in Seq(S) : \A i \in DOMAIN q : q[i] \in S
           /\ \A q \in Seq(S) : q # <<>> =>
                 /\ Head(q) \in S /\ Head(q) = q[1] /\ Len(q) > 0
                 /\ Tail(q) \in Seq(S) /\ Len(Tail(q)) = Len(q) - 1
                 /\ DOMAIN Tail(q) = 1..(Len(q) - 1)
                 /\ \A i \in 1..(Len(q) - 1) : Tail(q)[i] = q[i + 1]
           /\ \A q \in Seq(S), x \in S :
                 /\ Append(q, x) \in Seq(S) /\ Len(Append(q, x)) = Len(q) + 1
                 /\ DOMAIN Append(q, x) = 1..(Len(q) + 1)
                 /\ \A i \in 1..Len(q) : Append(q, x)[i] = q[i]
                 /\ Append(q, x)[Len(q) + 1] = x
           /\ <<>> \in Seq(S) /\ Len(<<>>) = 0
<1>1. \A q \in Seq(S) : Len(q) \in Nat /\ DOMAIN q = 1..Len(q)
  BY LenProperties
<1>2. \A q \in Seq(S) : \A i \in DOMAIN q : q[i] \in S
  BY <1>1, ElementOfSeq
<1>3. ASSUME NEW q \in Seq(S), q # <<>>
      PROVE  /\ Head(q) \in S /\ Head(q) = q[1] /\ Len(q) > 0
             /\ Tail(q) \in Seq(S) /\ Len(Tail(q)) = Len(q) - 1
             /\ DOMAIN Tail(q) = 1..(Len(q) - 1)
             /\ \A i \in 1..(Len(q) - 1) : Tail(q)[i] = q[i + 1]
  <2>1. /\ Head(q) \in S /\ Tail(q) \in Seq(S) /\ Len(Tail(q)) = Len(q) - 1
        /\ \A i \in 1..Len(Tail(q)) : Tail(q)[i] = q[i + 1]
    BY <1>3, HeadTailProperties
  <2>2. Head(q) = q[1] /\ Len(q) > 0
    BY <1>3, EmptySeq
  <2> QED
    BY <1>1, <2>1, <2>2
<1>4. ASSUME NEW q \in Seq(S), NEW x \in S
      PROVE  /\ Append(q, x) \in Seq(S) /\ Len(Append(q, x)) = Len(q) + 1
             /\ DOMAIN Append(q, x) = 1..(Len(q) + 1)
             /\ \A i \in 1..Len(q) : Append(q, x)[i] = q[i]
             /\ Append(q, x)[Len(q) + 1] = x
  <2>1. /\ Append(q, x) \in Seq(S) /\ Len(Append(q, x)) = Len(q) + 1
        /\ \A i \in 1..Len(q) : Append(q, x)[i] = q[i]
        /\ Append(q, x)[Len(q) + 1] = x
    BY AppendProperties
  <2> QED
    BY <1>1, <2>1
<1>5. <<>> \in Seq(S) /\ Len(<<>>) = 0
  BY EmptySeq
<1> QED
  BY <1>1, <1>2, <1>3, <1>4, <1>5

\* What a queue holds when it grows or shrinks.
LEMMA ToSetFacts ==
    ASSUME NEW S
    PROVE  /\ \A q \in Seq(S), x \in S : ToSet(Append(q, x)) = ToSet(q) \cup {x}
           /\ \A q \in Seq(S) : q # <<>> => ToSet(q) = {Head(q)} \cup ToSet(Tail(q))
           /\ \A q \in Seq(S) : ToSet(q) \subseteq S
           /\ ToSet(<<>>) = {}
<1>1. ASSUME NEW q \in Seq(S), NEW x \in S
      PROVE  ToSet(Append(q, x)) = ToSet(q) \cup {x}
  <2> DEFINE r == Append(q, x)
  <2>1. /\ DOMAIN r = 1..(Len(q) + 1) /\ DOMAIN q = 1..Len(q) /\ Len(q) \in Nat
        /\ \A i \in 1..Len(q) : r[i] = q[i]
        /\ r[Len(q) + 1] = x
    BY QueueTypes
  <2> HIDE DEF r
  <2>2. ToSet(r) = ToSet(q) \cup {x}
    BY <2>1 DEF ToSet
  <2> QED
    BY <2>2 DEF r
<1>2. ASSUME NEW q \in Seq(S), q # <<>>
      PROVE  ToSet(q) = {Head(q)} \cup ToSet(Tail(q))
  <2> DEFINE t == Tail(q)
  <2>1. /\ DOMAIN q = 1..Len(q) /\ Len(q) \in Nat /\ Len(q) > 0
        /\ Head(q) = q[1] /\ DOMAIN t = 1..(Len(q) - 1)
        /\ \A i \in 1..(Len(q) - 1) : t[i] = q[i + 1]
    BY <1>2, QueueTypes
  <2> HIDE DEF t
  <2>2. \A i \in DOMAIN q : i = 1 \/ (i - 1 \in DOMAIN t /\ t[i - 1] = q[i])
    BY <2>1
  <2>3. ToSet(q) \subseteq {q[1]} \cup ToSet(t)
    BY <2>2 DEF ToSet
  <2>4. \A i \in DOMAIN t : i + 1 \in DOMAIN q /\ t[i] = q[i + 1]
    BY <2>1
  <2>5. {q[1]} \cup ToSet(t) \subseteq ToSet(q)
    BY <2>1, <2>4 DEF ToSet
  <2> QED
    BY <2>1, <2>3, <2>5 DEF t
<1>3. \A q \in Seq(S) : ToSet(q) \subseteq S
  BY QueueTypes DEF ToSet
<1>4. ToSet(<<>>) = {}
  BY DEF ToSet
<1> QED
  BY <1>1, <1>2, <1>3, <1>4

\* What is put in front of a queue.
LEMMA ConsFacts ==
    ASSUME NEW S, NEW q \in Seq(S), NEW x \in S
    PROVE  LET r == <<x>> \o q IN
           /\ r \in Seq(S) /\ Len(r) = Len(q) + 1 /\ DOMAIN r = 1..(Len(q) + 1)
           /\ r # <<>> /\ Head(r) = x /\ r[1] = x
           /\ \A i \in DOMAIN q : i + 1 \in DOMAIN r /\ r[i + 1] = q[i]
           /\ \A i \in DOMAIN r : i = 1 \/ (i - 1 \in DOMAIN q /\ r[i] = q[i - 1])
           /\ ToSet(r) = ToSet(q) \cup {x}
<1> DEFINE a == <<x>>
           r == a \o q
<1>1. a \in Seq(S) /\ Len(a) = 1 /\ a[1] = x
  OBVIOUS
<1> HIDE DEF a
<1>2. /\ r \in Seq(S) /\ Len(r) = Len(a) + Len(q)
      /\ \A i \in 1..(Len(a) + Len(q)) :
            r[i] = IF i <= Len(a) THEN a[i] ELSE q[i - Len(a)]
  BY <1>1, ConcatProperties
<1> HIDE DEF r
<1>3. Len(q) \in Nat /\ DOMAIN q = 1..Len(q) /\ DOMAIN r = 1..(Len(q) + 1)
      /\ Len(r) = Len(q) + 1
  BY <1>1, <1>2, QueueTypes
<1>4. r[1] = x /\ 1 \in DOMAIN r
  BY <1>1, <1>2, <1>3
<1>5. r # <<>> /\ Head(r) = x
  BY <1>2, <1>3, <1>4, QueueTypes
<1>6. \A i \in DOMAIN q : i + 1 \in DOMAIN r /\ r[i + 1] = q[i]
  BY <1>1, <1>2, <1>3
<1>7. \A i \in DOMAIN r : i = 1 \/ (i - 1 \in DOMAIN q /\ r[i] = q[i - 1])
  BY <1>1, <1>2, <1>3
<1>8. ToSet(r) = ToSet(q) \cup {x}
  <2>1. ToSet(r) \subseteq ToSet(q) \cup {x}
    BY <1>4, <1>7 DEF ToSet
  <2>2. ToSet(q) \cup {x} \subseteq ToSet(r)
    BY <1>4, <1>6 DEF ToSet
  <2> QED
    BY <2>1, <2>2
<1> QED
  BY <1>2, <1>3, <1>4, <1>5, <1>6, <1>7, <1>8 DEF r, a
=============================================================================
