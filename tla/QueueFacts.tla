----------------------------- MODULE QueueFacts -----------------------------
(***************************************************************************)
(* What appending to a queue, popping its head and removing one of its     *)
(* positions do, position by position.                                     *)
(***************************************************************************)
EXTENDS Integers, Sequences, SequencesExt, GoSlices, SequenceTheorems, TLAPS

\* Removing one position of a sequence shifts the positions behind it.
LEMMA RemoveAtLemma ==
  ASSUME NEW S, NEW q \in Seq(S), NEW i \in DOMAIN q
  PROVE  /\ RemoveAt(q, i) \in Seq(S)
         /\ Len(RemoveAt(q, i)) = Len(q) - 1
         /\ DOMAIN RemoveAt(q, i) = 1 .. (Len(q) - 1)
         /\ \A j \in 1 .. (Len(q) - 1) :
              RemoveAt(q, i)[j] = IF j < i THEN q[j] ELSE q[j + 1]
<1> DEFINE front == SubSeq(q, 1, i - 1)
           back == SubSeq(q, i + 1, Len(q))
<1> HIDE DEF front, back
<1>1. /\ Len(q) \in Nat /\ DOMAIN q = 1 .. Len(q) /\ i \in 1 .. Len(q)
      /\ \A j \in 1 .. Len(q) : q[j] \in S
  BY LenProperties, ElementOfSeq
<1>2. /\ front \in Seq(S) /\ Len(front) = i - 1
      /\ \A j \in 1 .. i - 1 : front[j] = q[j]
  <2>1. \A j \in 1 .. i - 1 : q[j] \in S  BY <1>1
  <2> QED  BY <1>1, <2>1, SubSeqProperties DEF front
<1>3. /\ back \in Seq(S) /\ Len(back) = Len(q) - i
      /\ \A j \in 1 .. Len(q) - i : back[j] = q[i + j]
  <2>1. \A j \in i + 1 .. Len(q) : q[j] \in S  BY <1>1
  <2>2. /\ back \in Seq(S)
        /\ Len(back) = IF i + 1 <= Len(q) THEN Len(q) - (i + 1) + 1 ELSE 0
        /\ \A j \in 1 .. Len(q) - (i + 1) + 1 : back[j] = q[(i + 1) + j - 1]
    BY <1>1, <2>1, SubSeqProperties DEF back
  <2>3. Len(back) = Len(q) - i  BY <1>1, <2>2
  <2>4. ASSUME NEW j \in 1 .. Len(q) - i  PROVE back[j] = q[i + j]
    <3>1. j \in 1 .. Len(q) - (i + 1) + 1 /\ (i + 1) + j - 1 = i + j  BY <1>1
    <3> QED  BY <3>1, <2>2
  <2> QED  BY <2>2, <2>3, <2>4
<1>4. /\ front \o back \in Seq(S)
      /\ Len(front \o back) = Len(front) + Len(back)
      /\ \A j \in 1 .. Len(front) + Len(back) : (front \o back)[j] =
           IF j <= Len(front) THEN front[j] ELSE back[j - Len(front)]
  BY <1>2, <1>3, ConcatProperties
<1>5. RemoveAt(q, i) = front \o back
  BY DEF RemoveAt, front, back
<1>6. Len(front \o back) = Len(q) - 1
  BY <1>1, <1>2, <1>3, <1>4
<1>7. DOMAIN (front \o back) = 1 .. (Len(q) - 1)
  BY <1>4, <1>6, LenProperties
<1>8. ASSUME NEW j \in 1 .. (Len(q) - 1)
      PROVE  (front \o back)[j] = IF j < i THEN q[j] ELSE q[j + 1]
  <2>1. CASE j < i
    <3>1. j \in 1 .. i - 1 /\ j <= Len(front) /\ j \in 1 .. Len(front) + Len(back)
      BY <2>1, <1>1, <1>2, <1>3
    <3> QED  BY <2>1, <3>1, <1>2, <1>4
  <2>2. CASE ~(j < i)
    <3>1. /\ j - Len(front) = j - i + 1 /\ j - i + 1 \in 1 .. Len(q) - i
          /\ ~(j <= Len(front)) /\ j \in 1 .. Len(front) + Len(back)
      BY <2>2, <1>1, <1>2, <1>3
    <3>2. (front \o back)[j] = back[j - i + 1]  BY <3>1, <1>4
    <3>3. back[j - i + 1] = q[i + (j - i + 1)]  BY <3>1, <1>3
    <3>4. i + (j - i + 1) = j + 1  BY <1>1
    <3> QED  BY <2>2, <3>2, <3>3, <3>4
  <2> QED  BY <2>1, <2>2
<1> QED  BY <1>4, <1>5, <1>6, <1>7, <1>8

\* What appending to the queue and popping its head do, position by position.
LEMMA AppendLemma ==
  ASSUME NEW S, NEW q \in Seq(S), NEW e \in S
  PROVE  /\ Append(q, e) \in Seq(S)
         /\ DOMAIN q = 1 .. Len(q) /\ Len(q) \in Nat
         /\ DOMAIN Append(q, e) = 1 .. (Len(q) + 1)
         /\ \A i \in 1 .. Len(q) : Append(q, e)[i] = q[i]
         /\ Append(q, e)[Len(q) + 1] = e
BY AppendProperties, LenProperties

LEMMA PopLemma ==
  ASSUME NEW S, NEW q \in Seq(S), q # <<>>
  PROVE  /\ Head(q) = q[1] /\ Head(q) \in S
         /\ Tail(q) \in Seq(S)
         /\ DOMAIN q = 1 .. Len(q) /\ Len(q) \in Nat /\ 1 \in DOMAIN q
         /\ DOMAIN Tail(q) = 1 .. (Len(q) - 1)
         /\ \A i \in 1 .. (Len(q) - 1) : Tail(q)[i] = q[i + 1]
<1>1. /\ Head(q) \in S /\ Tail(q) \in Seq(S) /\ Len(Tail(q)) = Len(q) - 1
      /\ \A i \in 1 .. Len(Tail(q)) : Tail(q)[i] = q[i + 1]
  BY HeadTailProperties
<1>2. Len(q) \in Nat /\ DOMAIN q = 1 .. Len(q) /\ DOMAIN Tail(q) = 1 .. Len(Tail(q))
  BY <1>1, LenProperties
<1>3. Len(q) # 0  BY EmptySeq
<1> QED  BY <1>1, <1>2, <1>3

\* The domain of a sequence, and what it contains.
LEMMA SeqDomain ==
  ASSUME NEW S, NEW q \in Seq(S)
  PROVE  Len(q) \in Nat /\ DOMAIN q = 1 .. Len(q) /\ \A i \in DOMAIN q : q[i] \in S
BY LenProperties, ElementOfSeq

-----------------------------------------------------------------------------
(* Without: the others stay, each once, in their order and no further back. *)

Once(list) == \A i, k \in 1 .. Len(list) : list[i] = list[k] => i = k

LeftOf(rest, list, e) ==
  /\ \A i \in 1 .. Len(rest) : rest[i] # e /\ \E k \in 1 .. Len(list) : list[k] = rest[i]
  /\ Once(rest)
  /\ \A i, j \in 1 .. Len(rest) : i < j =>
       \E k, l \in 1 .. Len(list) : k < l /\ list[k] = rest[i] /\ list[l] = rest[j]
  /\ \A i \in 1 .. Len(list) :
       list[i] # e => \E k \in 1 .. i : k <= Len(rest) /\ rest[k] = list[i]

LEMMA WithoutLemma ==
  ASSUME NEW S, NEW list \in Seq(S), Once(list), NEW e, NEW rest, rest = Without(list, e)
  PROVE  rest \in Seq(S) /\ LeftOf(rest, list, e)
<1> USE DEF Once, LeftOf
<1>1. Len(list) \in Nat /\ DOMAIN list = 1 .. Len(list)
  BY SeqDomain
<1>2. CASE ~\E i \in 1 .. Len(list) : list[i] = e
  <2>1. rest = list
    BY <1>2 DEF Without
  <2>2. \A i \in 1 .. Len(list) : i \in 1 .. i /\ i <= Len(list)
    BY <1>1
  <2> QED  BY <1>1, <1>2, <2>1, <2>2
<1>3. CASE \E i \in 1 .. Len(list) : list[i] = e
  <2>1. PICK i \in 1 .. Len(list) : list[i] = e /\ rest = RemoveAt(list, i)
    BY <1>3 DEF Without
  <2>2. /\ rest \in Seq(S) /\ Len(rest) = Len(list) - 1
        /\ \A k \in 1 .. Len(list) - 1 : rest[k] = IF k < i THEN list[k] ELSE list[k + 1]
    <3>1. i \in DOMAIN list
      BY <1>1, SeqDomain
    <3>2. /\ RemoveAt(list, i) \in Seq(S) /\ Len(RemoveAt(list, i)) = Len(list) - 1
          /\ \A k \in 1 .. Len(list) - 1 :
               RemoveAt(list, i)[k] = IF k < i THEN list[k] ELSE list[k + 1]
      BY <1>1, <3>1, RemoveAtLemma
    <3> QED  BY <2>1, <3>2
  <2>3. ASSUME NEW k \in 1 .. Len(list), list[k] # e
        PROVE  \E l \in 1 .. k : l <= Len(rest) /\ rest[l] = list[k]
    <3>1. CASE k < i
      BY <1>1, <2>2, <3>1
    <3>2. CASE ~(k < i)
      <4>1. k # i
        BY <2>1, <2>3
      <4>2. k - 1 \in 1 .. Len(list) - 1 /\ ~(k - 1 < i) /\ k - 1 \in 1 .. k /\ k - 1 + 1 = k
        BY <1>1, <3>2, <4>1
      <4>3. rest[k - 1] = list[k]
        BY <2>2, <4>2
      <4>4. k - 1 <= Len(rest)
        BY <1>1, <2>2
      <4> QED  BY <4>2, <4>3, <4>4
    <3> QED  BY <3>1, <3>2
  <2>4. \A k \in 1 .. Len(rest) : rest[k] # e /\ \E l \in 1 .. Len(list) : list[l] = rest[k]
    <3> TAKE k \in 1 .. Len(rest)
    <3>1. k \in 1 .. Len(list) /\ k + 1 \in 1 .. Len(list)
      BY <1>1, <2>2
    <3>2. CASE k < i
      BY <1>1, <2>1, <2>2, <3>1, <3>2
    <3>3. CASE ~(k < i)
      BY <1>1, <2>1, <2>2, <3>1, <3>3
    <3> QED  BY <3>2, <3>3
  <2>5. \A k, l \in 1 .. Len(rest) : rest[k] = rest[l] => k = l
    BY <1>1, <2>1, <2>2
  <2>6. ASSUME NEW k \in 1 .. Len(rest), NEW l \in 1 .. Len(rest), k < l
        PROVE  \E m, n \in 1 .. Len(list) : m < n /\ list[m] = rest[k] /\ list[n] = rest[l]
    <3> DEFINE m == IF k < i THEN k ELSE k + 1
               n == IF l < i THEN l ELSE l + 1
    <3>1. m \in 1 .. Len(list) /\ n \in 1 .. Len(list) /\ m < n
      BY <1>1, <2>2, <2>6
    <3>2. list[m] = rest[k] /\ list[n] = rest[l]
      BY <1>1, <2>2
    <3> QED  BY <3>1, <3>2
  <2> QED  BY <2>2, <2>3, <2>4, <2>5, <2>6
<1> QED  BY <1>2, <1>3

\* Who stays in the queue stays before those he was before.
Precedes(list, p, q) == \E i, j \in 1 .. Len(list) : i < j /\ list[i] = p /\ list[j] = q

LEMMA WithoutKeepsOrder ==
  ASSUME NEW S, NEW list \in Seq(S), Once(list), NEW e, NEW p, NEW q, p # e, q # e
  PROVE  Precedes(Without(list, e), p, q) <=> Precedes(list, p, q)
<1> DEFINE rest == Without(list, e)
<1>1. rest \in Seq(S) /\ LeftOf(rest, list, e) /\ Len(rest) \in Nat /\ Len(list) \in Nat
  BY WithoutLemma, SeqDomain
<1> HIDE DEF rest
<1>2. ASSUME Precedes(rest, p, q)
      PROVE  Precedes(list, p, q)
  <2>1. PICK m \in 1 .. Len(rest), n \in 1 .. Len(rest) : m < n /\ rest[m] = p /\ rest[n] = q
    BY <1>2 DEF Precedes
  <2> QED  BY <1>1, <2>1 DEF LeftOf, Precedes
<1>3. ASSUME NEW i \in 1 .. Len(list), NEW j \in 1 .. Len(list), i < j, list[i] = p, list[j] = q
      PROVE  Precedes(rest, p, q)
  <2>1. ASSUME NEW k \in 1 .. Len(list), list[k] # e
        PROVE  \E m \in 1 .. Len(rest) : rest[m] = list[k]
    <3>1. PICK m \in 1 .. k : m <= Len(rest) /\ rest[m] = list[k]
      BY <1>1, <2>1 DEF LeftOf
    <3> QED  BY <3>1
  <2>2. PICK m \in 1 .. Len(rest), n \in 1 .. Len(rest) : rest[m] = p /\ rest[n] = q
    BY <1>3, <2>1
  <2>3. m # n
    BY <1>3, <2>2 DEF Once
  <2>4. ASSUME n < m  PROVE FALSE
    <3>1. PICK a \in 1 .. Len(list), b \in 1 .. Len(list) : a < b /\ list[a] = q /\ list[b] = p
      <4>1. \E a, b \in 1 .. Len(list) : a < b /\ list[a] = rest[n] /\ list[b] = rest[m]
        BY <1>1, <2>4 DEF LeftOf
      <4> QED  BY <2>2, <4>1
    <3>2. a = j /\ b = i
      BY <1>3, <3>1 DEF Once
    <3> QED  BY <1>3, <3>1, <3>2
  <2> QED  BY <1>1, <2>2, <2>3, <2>4 DEF Precedes
<1> QED  BY <1>2, <1>3 DEF Precedes, rest

=============================================================================
