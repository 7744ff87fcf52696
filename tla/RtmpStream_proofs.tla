------------------------- MODULE RtmpStream_proofs -------------------------
(***************************************************************************)
(* Theorems about the packet queue of the RTMP stream, for every threshold,*)
(* every sequence of packets the encoders produce and every number of      *)
(* connections, provided that the metadata can be sent once a connection   *)
(* stands (it is after that that a send thread may be left behind).        *)
(***************************************************************************)
EXTENDS RtmpStream, FiniteSetTheorems, NaturalsInduction, WellFoundedInduction, TLAPS

-----------------------------------------------------------------------------
(* Sequences of packets.                                                   *)

LEMMA LeastNumber ==
  ASSUME NEW S \in SUBSET Nat, S # {}
  PROVE  \E m \in S : \A x \in S : m <= x
<1> DEFINE less == {p \in Nat \X Nat : p[1] < p[2]}
<1>1. OpToRel(<, Nat) = less
  BY Zenon DEF OpToRel
<1>2. IsWellFoundedOn(less, Nat)
  BY <1>1, NatLessThanWellFounded, Zenon
<1>3. PICK m \in S : \A y \in S : ~ (<<y, m>> \in less)
  <2> HIDE DEF less
  <2> QED
    BY <1>2, WFMin
<1>4. \A y \in S : m <= y
  <2>1. TAKE y \in S
  <2>2. y \in Nat /\ m \in Nat
    OBVIOUS
  <2>3. <<y, m>> \in Nat \X Nat /\ ~ (<<y, m>> \in less)
    BY <1>3, <2>2
  <2>4. ~ (y < m)
    BY <2>2, <2>3
  <2> QED
    BY <2>2, <2>4
<1> QED
  BY <1>4

(* The loop of drop_frames, one packet at a time.                          *)
LEMMA NewBuf ==
  ASSUME NEW q \in Seq(PacketSet), NEW priority
  PROVE  /\ new_buf(q, priority)[0] = <<>>
         /\ \A i \in 1 .. Len(q) :
              new_buf(q, priority)[i] =
                IF Stays(q[i], priority) THEN Append(new_buf(q, priority)[i - 1], q[i])
                ELSE new_buf(q, priority)[i - 1]
<1> DEFINE Loop(b, n) ==
             b = [i \in 0 .. n |->
                    IF i = 0 THEN <<>>
                    ELSE IF Stays(q[i], priority) THEN Append(b[i - 1], q[i]) ELSE b[i - 1]]
           Bad == {n \in Nat : ~ \E b : Loop(b, n)}
<1>1. Bad = {}
  <2> SUFFICES ASSUME Bad # {} PROVE FALSE
    OBVIOUS
  <2>1. PICK n \in Bad : \A m \in Bad : n <= m
    <3>1. Bad \in SUBSET Nat
      OBVIOUS
    <3> HIDE DEF Bad
    <3> QED
      BY <3>1, LeastNumber
  <2>2. n # 0
    <3>1. Loop([i \in 0 .. 0 |-> <<>>], 0)
      OBVIOUS
    <3> QED
      BY <3>1
  <2>3. PICK b : Loop(b, n - 1)
    <3>1. n \in Nat /\ n - 1 \in Nat /\ ~ (n <= n - 1)
      BY <2>2
    <3>2. ~ (n - 1 \in Bad)
      <4> HIDE DEF Bad
      <4> QED BY <2>1, <3>1
    <3> QED
      BY <3>1, <3>2
  <2> DEFINE e == IF Stays(q[n], priority) THEN Append(b[n - 1], q[n]) ELSE b[n - 1]
             c == [i \in 0 .. n |-> IF i = n THEN e ELSE b[i]]
  <2>4. \A i \in 0 .. n : c[i] = IF i = 0 THEN <<>>
                    ELSE IF Stays(q[i], priority) THEN Append(c[i - 1], q[i]) ELSE c[i - 1]
    <3> TAKE i \in 0 .. n
    <3>1. CASE i = n
      <4>1. c[n] = e /\ c[n - 1] = b[n - 1]
        BY <2>2
      <4> QED
        BY <3>1, <4>1, <2>2
    <3>2. CASE i # n
      <4>1. i \in 0 .. n - 1 /\ c[i] = b[i] /\ (i # 0 => c[i - 1] = b[i - 1])
        BY <3>2
      <4>2. b[i] = IF i = 0 THEN <<>>
                   ELSE IF Stays(q[i], priority) THEN Append(b[i - 1], q[i]) ELSE b[i - 1]
        BY <2>3, <4>1
      <4> QED
        BY <4>1, <4>2
    <3> QED
      BY <3>1, <3>2
  <2>5. Loop(c, n)
    <3>1. c = [i \in 0 .. n |-> c[i]]
      OBVIOUS
    <3> HIDE DEF c
    <3> QED
      BY <3>1, <2>4
  <2> QED
    BY <2>1, <2>5
<1>2. PICK b : Loop(b, Len(q))
  BY <1>1, SMTT(20)
<1> DEFINE buf == new_buf(q, priority)
<1>3. Loop(buf, Len(q))
  BY <1>2 DEF new_buf
<1> HIDE DEF buf
<1>4. Len(q) \in Nat
  OBVIOUS
<1>5. \A i \in 0 .. Len(q) : buf[i] = IF i = 0 THEN <<>>
        ELSE IF Stays(q[i], priority) THEN Append(buf[i - 1], q[i]) ELSE buf[i - 1]
  BY <1>3
<1> QED
  BY <1>4, <1>5 DEF buf

(* The number of audio packets and of video frames among the first n.      *)
Count(s, n, audio) == Cardinality({i \in 1 .. n : s[i].audio = audio})

LEMMA CountFinite ==
  ASSUME NEW s, NEW n \in Nat, NEW a
  PROVE  IsFiniteSet({i \in 1 .. n : s[i].audio = a}) /\ Count(s, n, a) \in Nat
<1>1. IsFiniteSet(1 .. n)
  BY FS_Interval
<1>2. {i \in 1 .. n : s[i].audio = a} \in SUBSET (1 .. n)
  OBVIOUS
<1>3. IsFiniteSet({i \in 1 .. n : s[i].audio = a})
  BY <1>1, <1>2, FS_Subset
<1> QED
  BY <1>3, FS_CardinalityType DEF Count

LEMMA CountZero == ASSUME NEW s, NEW a PROVE Count(s, 0, a) = 0
<1>1. {i \in 1 .. 0 : s[i].audio = a} = {}
  OBVIOUS
<1> QED
  BY <1>1, FS_EmptySet DEF Count

LEMMA CountStep ==
  ASSUME NEW s, NEW n \in Nat, NEW a
  PROVE  Count(s, n + 1, a) = Count(s, n, a) + (IF s[n + 1].audio = a THEN 1 ELSE 0)
<1> DEFINE S == {i \in 1 .. n : s[i].audio = a}
           T == {i \in 1 .. n + 1 : s[i].audio = a}
<1>1. IsFiniteSet(S) /\ Cardinality(S) \in Nat
  <2>1. S \in SUBSET (1 .. n) /\ IsFiniteSet(1 .. n)
    BY FS_Interval
  <2> HIDE DEF S
  <2>2. IsFiniteSet(S)
    BY <2>1, FS_Subset
  <2> QED
    BY <2>2, FS_CardinalityType
<1>4. n + 1 \notin S
  OBVIOUS
<1>2. CASE s[n + 1].audio = a
  <2>1. T = S \union {n + 1}
    BY <1>2
  <2> HIDE DEF S, T
  <2>2. Cardinality(T) = Cardinality(S) + 1
    BY <1>1, <1>4, <2>1, FS_AddElement
  <2> QED
    BY <1>2, <2>2 DEF Count, S, T
<1>3. CASE s[n + 1].audio # a
  <2>1. T = S
    BY <1>3
  <2> HIDE DEF S, T
  <2>2. Cardinality(T) = Cardinality(S) + 0
    BY <1>1, <2>1
  <2> QED
    BY <1>3, <2>2 DEF Count, S, T
<1> QED
  BY <1>2, <1>3

LEMMA CountSame ==
  ASSUME NEW s, NEW t, NEW n \in Nat, NEW a, \A i \in 1 .. n : s[i] = t[i]
  PROVE  Count(s, n, a) = Count(t, n, a)
<1>1. {i \in 1 .. n : s[i].audio = a} = {i \in 1 .. n : t[i].audio = a}
  OBVIOUS
<1> QED
  BY <1>1 DEF Count

(* Every packet is audio or video.                                         *)
LEMMA CountParts ==
  ASSUME NEW s \in Seq(PacketSet), NEW a, NEW b, a # b,
         \A i \in 1 .. Len(s) : s[i].audio = a \/ s[i].audio = b
  PROVE  Count(s, Len(s), a) + Count(s, Len(s), b) = Len(s)
<1> DEFINE Bad == {n \in Nat : n <= Len(s) /\ Count(s, n, a) + Count(s, n, b) # n}
<1>1. Bad = {}
  <2> SUFFICES ASSUME Bad # {} PROVE FALSE
    OBVIOUS
  <2>1. PICK n \in Bad : \A m \in Bad : n <= m
    <3>1. Bad \in SUBSET Nat
      OBVIOUS
    <3> HIDE DEF Bad
    <3> QED
      BY <3>1, LeastNumber
  <2>2. n \in Nat /\ n <= Len(s) /\ n # 0
    BY CountZero
  <2> DEFINE m == n - 1
  <2>3. m \in Nat /\ ~ (n <= m) /\ m <= Len(s) /\ n = m + 1
    BY <2>2
  <2> HIDE DEF m
  <2>4. Count(s, m, a) + Count(s, m, b) = m
    BY <2>1, <2>3
  <2>5. s[n].audio = a \/ s[n].audio = b
    BY <2>2
  <2>6. /\ Count(s, n, a) = Count(s, m, a) + (IF s[n].audio = a THEN 1 ELSE 0)
        /\ Count(s, n, b) = Count(s, m, b) + (IF s[n].audio = b THEN 1 ELSE 0)
        /\ Count(s, m, a) \in Nat /\ Count(s, m, b) \in Nat
    <3>1. /\ Count(s, m + 1, a) = Count(s, m, a) + (IF s[m + 1].audio = a THEN 1 ELSE 0)
          /\ Count(s, m + 1, b) = Count(s, m, b) + (IF s[m + 1].audio = b THEN 1 ELSE 0)
      BY <2>3, CountStep
    <3>2. Count(s, m, a) \in Nat /\ Count(s, m, b) \in Nat
      BY <2>3, CountFinite
    <3> QED
      BY <2>3, <3>1, <3>2
  <2>7. Count(s, n, a) + Count(s, n, b) = n
    BY <2>3, <2>4, <2>5, <2>6
  <2> QED
    BY <2>1, <2>7
<1>2. Len(s) \in Nat
  OBVIOUS
<1> QED
  BY <1>1, <1>2

LEMMA CountBoth ==
  ASSUME NEW s \in Seq(PacketSet)
  PROVE  Count(s, Len(s), TRUE) + Count(s, Len(s), FALSE) = Len(s)
<1>1. ASSUME NEW i \in 1 .. Len(s) PROVE s[i].audio = TRUE \/ s[i].audio = FALSE
  <2>1. s[i] \in PacketSet
    OBVIOUS
  <2>2. s[i].audio \in BOOLEAN
    BY <2>1 DEF PacketSet
  <2> QED
    BY <2>2
<1> QED
  BY <1>1, CountParts, Zenon

(* A packet is taken from the front.                                       *)
LEMMA CountTail ==
  ASSUME NEW s \in Seq(PacketSet), s # <<>>, NEW a
  PROVE  Count(s, Len(s), a) = Count(Tail(s), Len(Tail(s)), a) + IF s[1].audio = a THEN 1 ELSE 0
<1> DEFINE t == Tail(s)
           one == IF s[1].audio = a THEN 1 ELSE 0
           Bad == {n \in Nat : n <= Len(t) /\ Count(s, n + 1, a) # Count(t, n, a) + one}
<1>1. t \in Seq(PacketSet) /\ Len(t) + 1 = Len(s) /\ Len(t) \in Nat
      /\ \A i \in 1 .. Len(t) : t[i] = s[i + 1]
  OBVIOUS
<1>2. one \in Nat
  OBVIOUS
<1> HIDE DEF t
<1>3. Bad = {}
  <2> SUFFICES ASSUME Bad # {} PROVE FALSE
    OBVIOUS
  <2>1. PICK n \in Bad : \A m \in Bad : n <= m
    <3>1. Bad \in SUBSET Nat
      OBVIOUS
    <3> HIDE DEF Bad
    <3> QED
      BY <3>1, LeastNumber
  <2>2. n \in Nat /\ n <= Len(t) /\ n # 0
    <3>1. Count(s, 0 + 1, a) = Count(s, 0, a) + one
      BY CountStep
    <3>2. Count(s, 0, a) = 0 /\ Count(t, 0, a) = 0
      BY CountZero
    <3> QED
      BY <3>1, <3>2
  <2>3. n - 1 \in Nat /\ ~ (n <= n - 1) /\ n - 1 <= Len(t) /\ n = (n - 1) + 1
    BY <1>1, <2>2
  <2>4. Count(s, n, a) = Count(t, n - 1, a) + one
    BY <2>1, <2>3
  <2>5. t[n] = s[n + 1]
    BY <1>1, <2>2
  <2>6. Count(s, n + 1, a) = Count(s, n, a) + IF s[n + 1].audio = a THEN 1 ELSE 0
    BY <2>2, CountStep
  <2>7. Count(t, n, a) = Count(t, n - 1, a) + IF t[n].audio = a THEN 1 ELSE 0
    BY <2>3, CountStep, SMTT(20)
  <2>8. Count(t, n - 1, a) \in Nat
    BY <2>3, CountFinite
  <2>9. Count(s, n + 1, a) = Count(t, n, a) + one
    <3> HIDE DEF one
    <3>1. CASE t[n].audio = a
      BY <1>2, <2>4, <2>5, <2>6, <2>7, <2>8, <3>1
    <3>2. CASE t[n].audio # a
      BY <1>2, <2>4, <2>5, <2>6, <2>7, <2>8, <3>2
    <3> QED
      BY <3>1, <3>2
  <2> QED
    BY <2>1, <2>9
<1>4. Count(s, Len(t) + 1, a) = Count(t, Len(t), a) + one
  BY <1>1, <1>3
<1> QED
  BY <1>1, <1>4 DEF t

LEMMA CountAppend ==
  ASSUME NEW s \in Seq(PacketSet), NEW p \in PacketSet, NEW a
  PROVE  Count(Append(s, p), Len(Append(s, p)), a)
           = Count(s, Len(s), a) + IF p.audio = a THEN 1 ELSE 0
<1> DEFINE t == Append(s, p)
<1>1. Len(t) = Len(s) + 1 /\ Len(s) \in Nat /\ t[Len(s) + 1] = p
      /\ \A i \in 1 .. Len(s) : t[i] = s[i]
  OBVIOUS
<1> HIDE DEF t
<1>2. Count(t, Len(s), a) = Count(s, Len(s), a)
  BY <1>1, CountSame
<1>3. Count(t, Len(s) + 1, a) = Count(t, Len(s), a) + IF t[Len(s) + 1].audio = a THEN 1 ELSE 0
  BY <1>1, CountStep
<1> QED
  BY <1>1, <1>2, <1>3 DEF t

(* r is what stays of the first n packets of q, and f says where it was.   *)
Stayed(q, n, r, priority, f) ==
  /\ f \in [1 .. Len(r) -> 1 .. n]
  /\ \A k, l \in 1 .. Len(r) : k < l => f[k] < f[l]
  /\ \A k \in 1 .. Len(r) : r[k] = q[f[k]] /\ Stays(r[k], priority)
  /\ \A j \in 1 .. n : Stays(q[j], priority) => \E k \in 1 .. Len(r) : f[k] = j

(* One more packet is looked at: it stays, or it does not.                 *)
LEMMA OneStays ==
  ASSUME NEW q \in Seq(PacketSet), NEW n \in 1 .. Len(q), NEW r \in Seq(PacketSet), NEW priority,
         NEW f, Stayed(q, n - 1, r, priority, f), Stays(q[n], priority)
  PROVE  \E g : Stayed(q, n, Append(r, q[n]), priority, g)
<1> DEFINE t == Append(r, q[n])
           m == Len(r)
           g == [k \in 1 .. m + 1 |-> IF k = m + 1 THEN n ELSE f[k]]
<1>1. q[n] \in PacketSet /\ n \in Nat /\ n >= 1 /\ m \in Nat
  OBVIOUS
<1>2. Len(t) = m + 1 /\ t[m + 1] = q[n] /\ \A k \in 1 .. m : t[k] = r[k]
  BY <1>1
<1>3. f \in [1 .. m -> 1 .. n - 1]
  BY DEF Stayed
<1> HIDE DEF t, m
<1>4. g[m + 1] = n /\ \A k \in 1 .. m : g[k] = f[k] /\ f[k] \in 1 .. n - 1
  BY <1>1, <1>3
<1>5. \A k \in 1 .. m + 1 : g[k] \in 1 .. n
  <2> TAKE k \in 1 .. m + 1
  <2>1. CASE k = m + 1
    <3>1. n \in 1 .. n
      BY <1>1
    <3> QED
      BY <1>4, <2>1, <3>1
  <2>2. CASE k # m + 1
    <3>1. k \in 1 .. m
      BY <1>1, <2>2
    <3>2. g[k] \in 1 .. n - 1
      BY <1>4, <3>1
    <3> QED
      BY <1>1, <3>2
  <2> QED
    BY <2>1, <2>2
<1>6. g \in [1 .. m + 1 -> 1 .. n]
  BY <1>5
<1> HIDE DEF g
<1>7. \A k, l \in 1 .. m + 1 : k < l => g[k] < g[l]
  <2> TAKE k, l \in 1 .. m + 1
  <2> HAVE k < l
  <2>1. k \in 1 .. m /\ g[k] = f[k] /\ f[k] \in 1 .. n - 1
    BY <1>1, <1>4
  <2>2. CASE l = m + 1
    BY <1>1, <1>4, <2>1, <2>2
  <2>3. CASE l # m + 1
    <3>1. l \in 1 .. m /\ g[l] = f[l]
      BY <1>1, <1>4, <2>3
    <3> QED
      BY <2>1, <3>1 DEF Stayed, m
  <2> QED
    BY <2>2, <2>3
<1>8. \A k \in 1 .. m + 1 : t[k] = q[g[k]] /\ Stays(t[k], priority)
  <2> TAKE k \in 1 .. m + 1
  <2>1. CASE k = m + 1
    BY <1>2, <1>4, <2>1
  <2>2. CASE k # m + 1
    <3>1. k \in 1 .. m /\ g[k] = f[k] /\ t[k] = r[k]
      BY <1>1, <1>2, <1>4, <2>2
    <3>2. r[k] = q[f[k]] /\ Stays(r[k], priority)
      BY <3>1 DEF Stayed, m
    <3> QED
      BY <3>1, <3>2
  <2> QED
    BY <2>1, <2>2
<1>9. \A j \in 1 .. n : Stays(q[j], priority) => \E k \in 1 .. m + 1 : g[k] = j
  <2> TAKE j \in 1 .. n
  <2> HAVE Stays(q[j], priority)
  <2>1. CASE j = n
    BY <1>1, <1>4, <2>1
  <2>2. CASE j # n
    <3>1. j \in 1 .. n - 1
      BY <1>1, <2>2
    <3>2. PICK k \in 1 .. m : f[k] = j
      BY <3>1 DEF Stayed, m
    <3> QED
      BY <1>1, <1>4, <3>2, SMTT(20)
  <2> QED
    BY <2>1, <2>2
<1>10. Stayed(q, n, t, priority, g)
  BY <1>2, <1>6, <1>7, <1>8, <1>9 DEF Stayed
<1> QED
  BY <1>10 DEF t

LEMMA OneGoes ==
  ASSUME NEW q \in Seq(PacketSet), NEW n \in 1 .. Len(q), NEW r \in Seq(PacketSet), NEW priority,
         NEW f, Stayed(q, n - 1, r, priority, f), ~ Stays(q[n], priority)
  PROVE  Stayed(q, n, r, priority, f)
<1>1. f \in [1 .. Len(r) -> 1 .. n - 1] /\ n \in Nat /\ n >= 1
  BY DEF Stayed
<1>2. f \in [1 .. Len(r) -> 1 .. n]
  <2>1. \A k \in 1 .. Len(r) : f[k] \in 1 .. n
    BY <1>1
  <2> QED
    BY <1>1, <2>1
<1>3. \A j \in 1 .. n : Stays(q[j], priority) => \E k \in 1 .. Len(r) : f[k] = j
  <2> TAKE j \in 1 .. n
  <2> HAVE Stays(q[j], priority)
  <2>1. j \in 1 .. n - 1
    BY <1>1
  <2> QED
    BY <2>1 DEF Stayed
<1> QED
  BY <1>2, <1>3 DEF Stayed

(* drop_frames keeps what stays, in its order, and every audio packet.     *)
LEMMA DropFrames ==
  ASSUME NEW q \in Seq(PacketSet), NEW priority
  PROVE  LET r == drop_frames(q, priority)
         IN  /\ r \in Seq(PacketSet) /\ Len(r) <= Len(q)
             /\ \E f : Stayed(q, Len(q), r, priority, f)
             /\ Count(r, Len(r), TRUE) = Count(q, Len(q), TRUE)
<1> DEFINE b(n) == new_buf(q, priority)[n]
           Kept(n) == /\ b(n) \in Seq(PacketSet) /\ Len(b(n)) <= n
                      /\ \E f : Stayed(q, n, b(n), priority, f)
                      /\ Count(b(n), Len(b(n)), TRUE) = Count(q, n, TRUE)
           Bad == {n \in Nat : n <= Len(q) /\ ~ Kept(n)}
<1>1. b(0) = <<>> /\ \A n \in 1 .. Len(q) : b(n) = IF Stays(q[n], priority)
                                                 THEN Append(b(n - 1), q[n]) ELSE b(n - 1)
  BY NewBuf
<1> HIDE DEF b
<1>2. Kept(0)
  <2>1. Stayed(q, 0, <<>>, priority, [k \in 1 .. 0 |-> 0])
    BY DEF Stayed
  <2>2. Count(<<>>, 0, TRUE) = 0 /\ Count(q, 0, TRUE) = 0
    BY CountZero, Zenon
  <2>3. <<>> \in Seq(PacketSet) /\ Len(<<>>) = 0
    OBVIOUS
  <2>4. \E f : Stayed(q, 0, b(0), priority, f)
    BY <1>1, <2>1
  <2>5. Len(b(0)) = 0
    BY <1>1
  <2>6. Count(b(0), Len(b(0)), TRUE) = Count(q, 0, TRUE)
    BY <1>1, <2>2, <2>5
  <2>7. b(0) \in Seq(PacketSet) /\ Len(b(0)) <= 0
    <3>1. b(0) \in Seq(PacketSet)
      BY <1>1, <2>3, Zenon
    <3> QED
      BY <2>5, <3>1
  <2> QED
    BY <2>4, <2>6, <2>7, Zenon
<1>3. ASSUME NEW n \in 1 .. Len(q), Kept(n - 1) PROVE Kept(n)
  <2> DEFINE r == b(n - 1)
             m == n - 1
  <2>1. /\ r \in Seq(PacketSet) /\ Len(r) <= m /\ m \in Nat /\ n = m + 1
        /\ Count(r, Len(r), TRUE) = Count(q, m, TRUE)
    <3>1. m \in Nat /\ n = m + 1
      OBVIOUS
    <3>2. r \in Seq(PacketSet) /\ Len(r) <= m
      BY <1>3
    <3>3. Count(r, Len(r), TRUE) = Count(q, m, TRUE)
      BY <1>3, Zenon
    <3> QED
      BY <3>1, <3>2, <3>3
  <2>2. PICK f : Stayed(q, n - 1, r, priority, f)
    BY <1>3
  <2>3. q[n] \in PacketSet
    OBVIOUS
  <2> HIDE DEF r, m
  <2>4. Count(q, n, TRUE) = Count(q, m, TRUE) + IF q[n].audio = TRUE THEN 1 ELSE 0
    BY <2>1, CountStep
  <2>5. CASE Stays(q[n], priority)
    <3>1. b(n) = Append(r, q[n])
      BY <1>1, <2>5 DEF r
    <3>2. Append(r, q[n]) \in Seq(PacketSet) /\ Len(Append(r, q[n])) <= n
      BY <2>1, <2>3
    <3>3. \E g : Stayed(q, n, Append(r, q[n]), priority, g)
      BY <2>1, <2>2, <2>5, OneStays
    <3>4. Count(Append(r, q[n]), Len(Append(r, q[n])), TRUE) = Count(q, n, TRUE)
      <4>1. Count(Append(r, q[n]), Len(Append(r, q[n])), TRUE)
              = Count(r, Len(r), TRUE) + IF q[n].audio = TRUE THEN 1 ELSE 0
        BY <2>1, <2>3, CountAppend, Zenon
      <4> QED
        BY <4>1, <2>1, <2>4
    <3> QED
      BY <3>1, <3>2, <3>3, <3>4
  <2>6. CASE ~ Stays(q[n], priority)
    <3>1. b(n) = r
      BY <1>1, <2>6 DEF r
    <3>2. Len(r) <= n
      BY <2>1
    <3>3. Stayed(q, n, r, priority, f)
      BY <2>1, <2>2, <2>6, OneGoes
    <3>4. q[n].audio # TRUE /\ Count(q, m, TRUE) \in Nat
      <4>1. q[n].audio # TRUE
        BY <2>6 DEF Stays
      <4>2. Count(q, m, TRUE) \in Nat
        BY <2>1, CountFinite, Zenon
      <4> QED
        BY <4>1, <4>2
    <3>5. Count(q, n, TRUE) = Count(q, m, TRUE)
      <4> DEFINE x == Count(q, m, TRUE)
      <4>1. Count(q, n, TRUE) = x + 0
        BY <2>4, <3>4, Zenon
      <4>2. x \in Nat
        BY <3>4
      <4> HIDE DEF x
      <4>3. x + 0 = x
        BY <4>2
      <4> QED
        BY <4>1, <4>3 DEF x
    <3> QED
      BY <2>1, <3>1, <3>2, <3>3, <3>5
  <2> QED
    BY <2>5, <2>6
<1> HIDE DEF Kept
<1>4. Bad = {}
  <2> SUFFICES ASSUME Bad # {} PROVE FALSE
    OBVIOUS
  <2>1. PICK n \in Bad : \A m \in Bad : n <= m
    <3>1. Bad \in SUBSET Nat
      OBVIOUS
    <3> HIDE DEF Bad
    <3> QED
      BY <3>1, LeastNumber
  <2>2. n \in 1 .. Len(q) /\ n - 1 \in Nat /\ n - 1 <= Len(q) /\ ~ (n <= n - 1)
    BY <1>2
  <2>3. Kept(n - 1)
    BY <2>1, <2>2
  <2> QED
    BY <1>3, <2>2, <2>3
<1>5. Len(q) \in Nat
  OBVIOUS
<1>6. Kept(Len(q))
  BY <1>4, <1>5
<1> QED
  BY <1>6 DEF Kept, drop_frames, b

(* Each two packets of r come from q, in the same order.                   *)
From(q, r) ==
  \A k, l \in 1 .. Len(r) : k <= l =>
    \E i, j \in 1 .. Len(q) : i <= j /\ r[k] = q[i] /\ r[l] = q[j]

LEMMA FromItself == ASSUME NEW q \in Seq(PacketSet) PROVE From(q, q)
  BY DEF From

LEMMA FromFrom ==
  ASSUME NEW q \in Seq(PacketSet), NEW r \in Seq(PacketSet), NEW t \in Seq(PacketSet),
         From(q, r), From(r, t)
  PROVE  From(q, t)
<1> SUFFICES ASSUME NEW k \in 1 .. Len(t), NEW l \in 1 .. Len(t), k <= l
             PROVE  \E i, j \in 1 .. Len(q) : i <= j /\ t[k] = q[i] /\ t[l] = q[j]
  BY DEF From
<1>1. PICK i \in 1 .. Len(r), j \in 1 .. Len(r) : i <= j /\ t[k] = r[i] /\ t[l] = r[j]
  BY DEF From
<1> QED
  BY <1>1, SMTT(20) DEF From

LEMMA StayedFrom ==
  ASSUME NEW q \in Seq(PacketSet), NEW r \in Seq(PacketSet), NEW priority,
         NEW f, Stayed(q, Len(q), r, priority, f)
  PROVE  From(q, r)
<1> SUFFICES ASSUME NEW k \in 1 .. Len(r), NEW l \in 1 .. Len(r), k <= l
             PROVE  \E i, j \in 1 .. Len(q) : i <= j /\ r[k] = q[i] /\ r[l] = q[j]
  BY DEF From
<1>1. f[k] \in 1 .. Len(q) /\ f[l] \in 1 .. Len(q) /\ r[k] = q[f[k]] /\ r[l] = q[f[l]]
  BY DEF Stayed
<1>2. f[k] <= f[l]
  <2>1. CASE k = l
    BY <1>1, <2>1
  <2>2. CASE k < l
    <3>1. f[k] < f[l]
      BY <2>2 DEF Stayed
    <3> QED
      BY <1>1, <3>1
  <2> QED
    BY <2>1, <2>2
<1> QED
  BY <1>1, <1>2

(* What check_to_drop_frames works on.                                     *)
Priorities == {0, High, Highest}
QueueRecord == [queue : Seq(PacketSet), min : Priorities, dropped : Nat]

(* What dropping leaves, and counts.                                       *)
Thinned(s, t) ==
  /\ t \in QueueRecord
  /\ From(s.queue, t.queue) /\ Len(t.queue) <= Len(s.queue)
  /\ t.dropped + Len(t.queue) = s.dropped + Len(s.queue)
  /\ Count(t.queue, Len(t.queue), TRUE) = Count(s.queue, Len(s.queue), TRUE)

LEMMA CheckToDrop ==
  ASSUME NEW s \in QueueRecord, NEW threshold, NEW priority \in {High, Highest}
  PROVE  LET t == check_to_drop_frames(s, threshold, priority)
         IN  /\ Thinned(s, t)
             /\ \/ t = s
                \/ /\ t.min = IF s.min < priority THEN priority ELSE s.min
                   /\ \E f : Stayed(s.queue, Len(s.queue), t.queue, priority, f)
<1> DEFINE t == check_to_drop_frames(s, threshold, priority)
           q == s.queue
           r == drop_frames(q, priority)
<1>1. q \in Seq(PacketSet) /\ s.min \in Priorities /\ s.dropped \in Nat
  BY DEF QueueRecord
<1>2. CASE ~ TooLong(q, threshold)
  <2>1. t = s
    BY <1>2 DEF check_to_drop_frames
  <2>2. Thinned(s, s)
    BY <1>1, FromItself DEF Thinned
  <2> QED
    BY <2>1, <2>2
<1>3. CASE TooLong(q, threshold)
  <2>1. /\ r \in Seq(PacketSet) /\ Len(r) <= Len(q) /\ \E f : Stayed(q, Len(q), r, priority, f)
        /\ Count(r, Len(r), TRUE) = Count(q, Len(q), TRUE)
    BY <1>1, DropFrames, Zenon
  <2>2. t = [queue |-> r, min |-> IF s.min < priority THEN priority ELSE s.min,
             dropped |-> s.dropped + Len(q) - Len(r)]
    BY <1>3 DEF check_to_drop_frames
  <2>3. From(q, r)
    BY <1>1, <2>1, StayedFrom
  <2> HIDE DEF r, q
  <2>4. Len(q) \in Nat /\ Len(r) \in Nat
    BY <1>1, <2>1
  <2>5. s.dropped + Len(q) - Len(r) \in Nat
        /\ (s.dropped + Len(q) - Len(r)) + Len(r) = s.dropped + Len(q)
    BY <1>1, <2>1, <2>4
  <2>6. (IF s.min < priority THEN priority ELSE s.min) \in Priorities
    BY <1>1 DEF Priorities
  <2> HIDE DEF t
  <2>7. /\ t.queue = r /\ t.min = (IF s.min < priority THEN priority ELSE s.min)
        /\ t.dropped = s.dropped + Len(q) - Len(r) /\ t \in QueueRecord
    BY <2>1, <2>2, <2>5, <2>6 DEF QueueRecord
  <2>8. Thinned(s, t)
    <3>1. Count(t.queue, Len(t.queue), TRUE) = Count(s.queue, Len(s.queue), TRUE)
      BY <2>1, <2>7, Zenon DEF q
    <3>2. From(s.queue, t.queue) /\ Len(t.queue) <= Len(s.queue)
          /\ t.dropped + Len(t.queue) = s.dropped + Len(s.queue)
      BY <2>1, <2>3, <2>5, <2>7 DEF q
    <3> QED
      BY <2>7, <3>1, <3>2 DEF Thinned
  <2> QED
    BY <2>1, <2>7, <2>8 DEF t, q
<1> QED
  BY <1>2, <1>3

(* What is left of the queue when a frame is about to be added to it: all  *)
(* of it, or all but the disposable frames, or no frame but keyframes; and *)
(* what may then be added.                                                 *)
Queue == [queue |-> packets, min |-> min_priority, dropped |-> dropped_frames]

Dropped(s) ==
  \/ s = Queue
  \/ /\ s.min = IF min_priority < High THEN High ELSE min_priority
     /\ \E f : Stayed(packets, Len(packets), s.queue, High, f)
  \/ /\ s.min = Highest
     /\ \A k \in 1 .. Len(s.queue) : ~ Frame(s.queue[k])

LEMMA AddVideo ==
  ASSUME packets \in Seq(PacketSet), min_priority \in Priorities, dropped_frames \in Nat, NEW p
  PROVE  \E s \in QueueRecord :
            /\ Thinned(Queue, s) /\ Dropped(s)
            /\ add_video_packet(p) =
                 IF p.priority < s.min THEN [s EXCEPT !.dropped = @ + 1]
                 ELSE [s EXCEPT !.queue = Append(@, p), !.min = 0]
<1> DEFINE b == check_to_drop_frames(Queue, DropThreshold, High)
           s == check_to_drop_frames(b, PDropThreshold, Highest)
<1>1. Queue \in QueueRecord
  BY DEF Queue, QueueRecord
<1>2. /\ Thinned(Queue, b)
      /\ \/ b = Queue
         \/ /\ b.min = IF Queue.min < High THEN High ELSE Queue.min
            /\ \E f : Stayed(Queue.queue, Len(Queue.queue), b.queue, High, f)
  BY <1>1, CheckToDrop
<1>3. b \in QueueRecord
  BY <1>2 DEF Thinned
<1> HIDE DEF b
<1>4. /\ Thinned(b, s)
      /\ \/ s = b
         \/ /\ s.min = IF b.min < Highest THEN Highest ELSE b.min
            /\ \E f : Stayed(b.queue, Len(b.queue), s.queue, Highest, f)
  BY <1>3, CheckToDrop
<1>5. add_video_packet(p) = IF p.priority < s.min THEN [s EXCEPT !.dropped = @ + 1]
                            ELSE [s EXCEPT !.queue = Append(@, p), !.min = 0]
  BY DEF add_video_packet, b, Queue
<1> HIDE DEF s
<1>6. s \in QueueRecord
  BY <1>4 DEF Thinned
<1>7. Thinned(Queue, s)
  <2>1. /\ Queue.queue \in Seq(PacketSet) /\ b.queue \in Seq(PacketSet)
        /\ s.queue \in Seq(PacketSet)
        /\ b.dropped \in Nat /\ s.dropped \in Nat /\ Queue.dropped \in Nat
    BY <1>1, <1>3, <1>6 DEF QueueRecord
  <2>2. From(Queue.queue, s.queue)
    BY <1>2, <1>4, <2>1, FromFrom DEF Thinned
  <2>3. Len(s.queue) <= Len(Queue.queue) /\ s.dropped + Len(s.queue) = Queue.dropped + Len(Queue.queue)
    BY <1>2, <1>4, <2>1 DEF Thinned
  <2>4. Count(s.queue, Len(s.queue), TRUE) = Count(Queue.queue, Len(Queue.queue), TRUE)
    BY <1>2, <1>4, Zenon DEF Thinned
  <2> QED
    BY <1>6, <2>2, <2>3, <2>4 DEF Thinned
<1>8. Dropped(s)
  <2>1. CASE s = b
    BY <1>2, <2>1 DEF Dropped, Queue
  <2>2. CASE /\ s.min = IF b.min < Highest THEN Highest ELSE b.min
             /\ \E f : Stayed(b.queue, Len(b.queue), s.queue, Highest, f)
    <3>1. s.min = Highest
      BY <1>3, <2>2 DEF QueueRecord, Priorities, High, Highest
    <3>2. PICK f : Stayed(b.queue, Len(b.queue), s.queue, Highest, f)
      BY <2>2
    <3>3. ASSUME NEW k \in 1 .. Len(s.queue) PROVE ~ Frame(s.queue[k])
      <4>1. Stays(s.queue[k], Highest)
        BY <3>2 DEF Stayed
      <4>2. s.queue[k] \in PacketSet
        BY <1>6 DEF QueueRecord
      <4>3. s.queue[k].priority \in Int
        BY <4>2 DEF PacketSet, Disposable, High, Highest
      <4> QED
        BY <4>1, <4>3 DEF Stays, Frame, Highest
    <3> QED
      BY <3>1, <3>3 DEF Dropped
  <2> QED
    BY <1>4, <2>1, <2>2
<1> QED
  BY <1>5, <1>6, <1>7, <1>8

-----------------------------------------------------------------------------
(* The frame that the next one refers to.                                  *)

(* It is found among the first n packets, whatever comes after them.       *)
LEMMA ReferenceBefore ==
  ASSUME NEW last, NEW q, NEW t, NEW n \in Nat, NEW r, \A i \in 1 .. n : q[i] = t[i]
  PROVE  LastReference(last, q, n, r) => LastReference(last, t, n, r)
<1> SUFFICES ASSUME LastReference(last, q, n, r) PROVE LastReference(last, t, n, r)
  OBVIOUS
<1>1. CASE r = last /\ \A i \in 1 .. n : ~ Reference(q[i])
  BY <1>1 DEF LastReference
<1>2. CASE \E i \in 1 .. n : /\ Reference(q[i]) /\ q[i].dts = r
                             /\ \A j \in i + 1 .. n : ~ Reference(q[j])
  <2>1. PICK i \in 1 .. n : /\ Reference(q[i]) /\ q[i].dts = r
                            /\ \A j \in i + 1 .. n : ~ Reference(q[j])
    BY <1>2
  <2>2. \A j \in i + 1 .. n : ~ Reference(t[j])
    <3> TAKE j \in i + 1 .. n
    <3>1. j \in 1 .. n /\ ~ Reference(q[j])
      BY <2>1
    <3> QED
      BY <3>1
  <2> QED
    BY <2>1, <2>2 DEF LastReference
<1> QED
  BY <1>1, <1>2 DEF LastReference

(* One more packet in line.                                                *)
LEMMA ReferenceAppend ==
  ASSUME NEW last, NEW q \in Seq(PacketSet), NEW p \in PacketSet, NEW r,
         IF Reference(p) THEN r = p.dts ELSE LastReference(last, q, Len(q), r)
  PROVE  LastReference(last, Append(q, p), Len(Append(q, p)), r)
<1> DEFINE t == Append(q, p)
           n == Len(q)
<1>1. Len(t) = n + 1 /\ n \in Nat /\ t[n + 1] = p /\ \A i \in 1 .. n : t[i] = q[i]
  OBVIOUS
<1> HIDE DEF t, n
<1>2. CASE Reference(p)
  <2>1. n + 1 \in 1 .. n + 1 /\ \A j \in (n + 1) + 1 .. n + 1 : FALSE
    BY <1>1
  <2>2. Reference(t[n + 1]) /\ t[n + 1].dts = r
    BY <1>1, <1>2
  <2>3. LastReference(last, t, n + 1, r)
    BY <2>1, <2>2 DEF LastReference
  <2> QED
    BY <1>1, <2>3 DEF t
<1>3. CASE ~ Reference(p)
  <2>1. LastReference(last, q, n, r)
    BY <1>3 DEF n
  <2>2. LastReference(last, t, n, r)
    BY <1>1, <2>1, ReferenceBefore
  <2>3. CASE r = last /\ \A i \in 1 .. n : ~ Reference(t[i])
    <3>1. \A i \in 1 .. n + 1 : i \in 1 .. n \/ i = n + 1
      BY <1>1
    <3>2. \A i \in 1 .. n + 1 : ~ Reference(t[i])
      BY <1>1, <1>3, <2>3, <3>1
    <3>3. LastReference(last, t, n + 1, r)
      BY <2>3, <3>2 DEF LastReference
    <3> QED
      BY <1>1, <3>3 DEF t
  <2>4. CASE \E i \in 1 .. n : /\ Reference(t[i]) /\ t[i].dts = r
                               /\ \A j \in i + 1 .. n : ~ Reference(t[j])
    <3>1. PICK i \in 1 .. n : /\ Reference(t[i]) /\ t[i].dts = r
                              /\ \A j \in i + 1 .. n : ~ Reference(t[j])
      BY <2>4
    <3>2. \A j \in i + 1 .. n + 1 : j \in i + 1 .. n \/ j = n + 1
      BY <1>1
    <3>3. \A j \in i + 1 .. n + 1 : ~ Reference(t[j])
      BY <1>1, <1>3, <3>1, <3>2
    <3>4. i \in 1 .. n + 1
      BY <1>1
    <3>5. LastReference(last, t, n + 1, r)
      BY <3>1, <3>3, <3>4 DEF LastReference
    <3> QED
      BY <1>1, <3>5 DEF t
  <2> QED
    BY <2>2, <2>3, <2>4 DEF LastReference
<1> QED
  BY <1>2, <1>3

LEMMA Line ==
  ASSUME NEW h \in Seq(PacketSet), NEW q \in Seq(PacketSet)
  PROVE  /\ h \o q \in Seq(PacketSet) /\ Len(h \o q) = Len(h) + Len(q)
         /\ Len(h) \in Nat /\ Len(q) \in Nat
         /\ \A i \in 1 .. Len(h) : (h \o q)[i] = h[i]
         /\ \A i \in 1 .. Len(q) : (h \o q)[Len(h) + i] = q[i]
  OBVIOUS

(* Frames that others refer to stay when the disposable ones are dropped,  *)
(* Counting on from c keeps the order of two places.                       *)
LEMMA ShiftedInterval ==
  ASSUME NEW a \in Nat, NEW b \in Nat, NEW c \in Nat, NEW n \in Nat, a < b, b <= n
  PROVE  c + b \in (c + a) + 1 .. c + n
OBVIOUS

(* so each of the first k that stay of the first n finds the same one.     *)
LEMMA ReferenceStays ==
  ASSUME NEW last, NEW h \in Seq(PacketSet), NEW q \in Seq(PacketSet), NEW r \in Seq(PacketSet),
         NEW f, Stayed(q, Len(q), r, High, f),
         NEW n \in 0 .. Len(q), NEW k \in 0 .. Len(r),
         \A l \in 1 .. Len(r) : l <= k <=> f[l] <= n,
         NEW x, LastReference(last, h \o q, Len(h) + n, x)
  PROVE  LastReference(last, h \o r, Len(h) + k, x)
<1> DEFINE L == h \o q
           M == h \o r
           c == Len(h)
<1>1. /\ c \in Nat /\ Len(q) \in Nat /\ Len(r) \in Nat
      /\ \A i \in 1 .. c : L[i] = h[i] /\ M[i] = h[i]
      /\ \A i \in 1 .. Len(q) : L[c + i] = q[i]
      /\ \A i \in 1 .. Len(r) : M[c + i] = r[i]
  BY Line
<1> HIDE DEF L, M, c
<1>2. /\ n \in Nat /\ n <= Len(q) /\ k \in Nat /\ k <= Len(r)
      /\ \A i \in 1 .. c : L[i] = M[i]
  BY <1>1
<1>3. /\ \A l \in 1 .. Len(r) : f[l] \in 1 .. Len(q) /\ r[l] = q[f[l]]
      /\ \A l, m \in 1 .. Len(r) : l < m => f[l] < f[m]
  BY DEF Stayed
<1>4. \A l \in 1 .. k : /\ l \in 1 .. Len(r) /\ f[l] \in 1 .. n /\ c + f[l] \in 1 .. c + n
                        /\ M[c + l] = L[c + f[l]]
  <2> TAKE l \in 1 .. k
  <2>1. l \in 1 .. Len(r)
    BY <1>1, <1>2
  <2>2. f[l] \in 1 .. Len(q) /\ f[l] <= n /\ r[l] = q[f[l]]
    BY <1>3, <2>1
  <2>3. M[c + l] = r[l] /\ L[c + f[l]] = q[f[l]]
    BY <1>1, <2>1, <2>2
  <2>4. f[l] \in 1 .. n /\ c + f[l] \in 1 .. c + n
    BY <1>1, <1>2, <2>2, SMTT(20)
  <2>5. M[c + l] = L[c + f[l]]
    BY <2>2, <2>3
  <2> QED
    BY <2>1, <2>4, <2>5
<1>5. \A i \in 1 .. c + k : i \in 1 .. c \/ \E l \in 1 .. k : i = c + l
  <2> TAKE i \in 1 .. c + k
  <2>1. i \in 1 .. c \/ (i - c \in 1 .. k /\ i = c + (i - c))
    BY <1>1, <1>2
  <2> QED
    BY <2>1
<1>6. LastReference(last, L, c + n, x)
  BY DEF L, c
<1>7. CASE x = last /\ \A i \in 1 .. c + n : ~ Reference(L[i])
  <2>1. ASSUME NEW i \in 1 .. c + k PROVE ~ Reference(M[i])
    <3>1. CASE i \in 1 .. c
      <4>1. i \in 1 .. c + n
        BY <1>1, <1>2, <3>1
      <4> QED
        BY <1>2, <1>7, <3>1, <4>1
    <3>2. CASE \E l \in 1 .. k : i = c + l
      BY <1>4, <1>7, <3>2
    <3> QED
      BY <1>5, <3>1, <3>2
  <2>2. LastReference(last, M, c + k, x)
    BY <1>7, <2>1 DEF LastReference
  <2> QED
    BY <2>2 DEF M, c
<1>8. CASE \E i \in 1 .. c + n : /\ Reference(L[i]) /\ L[i].dts = x
                                 /\ \A j \in i + 1 .. c + n : ~ Reference(L[j])
  <2>1. PICK i \in 1 .. c + n : /\ Reference(L[i]) /\ L[i].dts = x
                                /\ \A j \in i + 1 .. c + n : ~ Reference(L[j])
    BY <1>8
  <2>2. CASE i \in 1 .. c
    <3>1. i \in 1 .. c + k /\ Reference(M[i]) /\ M[i].dts = x
      BY <1>1, <1>2, <2>1, <2>2
    <3>2. ASSUME NEW j \in i + 1 .. c + k PROVE ~ Reference(M[j])
      <4>1. j \in 1 .. c + k
        BY <2>2
      <4>2. CASE j \in 1 .. c
        <5>1. j \in i + 1 .. c + n
          BY <1>1, <1>2, <2>2, <4>2
        <5> QED
          BY <1>2, <2>1, <4>2, <5>1
      <4>3. CASE \E l \in 1 .. k : j = c + l
        <5>1. PICK l \in 1 .. k : j = c + l
          BY <4>3
        <5>2. c + f[l] \in i + 1 .. c + n /\ M[j] = L[c + f[l]]
          BY <1>1, <1>4, <2>2, <5>1, SMTT(20)
        <5> QED
          BY <2>1, <5>2
      <4> QED
        BY <1>5, <4>1, <4>2, <4>3
    <3>3. LastReference(last, M, c + k, x)
      BY <3>1, <3>2 DEF LastReference
    <3> QED
      BY <3>3 DEF M, c
  <2>3. CASE i \notin 1 .. c
    <3> DEFINE j == i - c
    <3>1. j \in 1 .. n /\ j \in 1 .. Len(q) /\ i = c + j
      BY <1>1, <1>2, <2>3
    <3> HIDE DEF j
    <3>2. Reference(q[j]) /\ q[j].dts = x
      BY <1>1, <2>1, <3>1
    <3>3. q[j] \in PacketSet
      BY <3>1
    <3>4. Stays(q[j], High)
      BY <3>2 DEF Reference, Stays
    <3>5. PICK l \in 1 .. Len(r) : f[l] = j
      BY <3>1, <3>4 DEF Stayed
    <3>6. l \in 1 .. k /\ l <= k
      BY <1>1, <1>2, <3>1, <3>5
    <3>7. M[c + l] = L[i] /\ c + l \in 1 .. c + k
      BY <1>1, <1>2, <1>4, <3>1, <3>5, <3>6, SMTT(20)
    <3>8. ASSUME NEW m \in c + l + 1 .. c + k PROVE ~ Reference(M[m])
      <4> DEFINE o == m - c
      <4>1. o \in 1 .. k /\ l < o /\ m = c + o /\ o \in 1 .. Len(r)
        BY <1>1, <1>2, <3>6
      <4> HIDE DEF o
      <4>2. f[l] < f[o]
        BY <1>3, <4>1
      <4>3. c + f[o] \in i + 1 .. c + n /\ M[m] = L[c + f[o]]
        <5>1. f[o] \in 1 .. n /\ M[c + o] = L[c + f[o]]
          BY <1>4, <4>1
        <5>2. M[m] = L[c + f[o]]
          BY <4>1, <5>1
        <5>3. f[l] \in Nat /\ i = c + f[l] /\ f[o] \in Nat /\ f[o] <= n
          BY <1>2, <3>1, <3>5, <5>1
        <5>4. n \in Nat /\ c \in Nat
          BY <1>1, <1>2
        <5>5. c + f[o] \in (c + f[l]) + 1 .. c + n
          BY <4>2, <5>3, <5>4, ShiftedInterval
        <5>6. c + f[o] \in i + 1 .. c + n
          BY <5>3, <5>5, Zenon
        <5> QED
          BY <5>2, <5>6
      <4> QED
        BY <2>1, <4>3
    <3>9. LastReference(last, M, c + k, x)
      BY <2>1, <3>7, <3>8 DEF LastReference
    <3> QED
      BY <3>9 DEF M, c
  <2> QED
    BY <2>2, <2>3
<1> QED
  BY <1>6, <1>7, <1>8 DEF LastReference

(* Each frame in line finds the one it refers to.                          *)
Decodes(last, q) ==
  \A i \in 1 .. Len(q) : Frame(q[i]) => LastReference(last, q, i - 1, q[i].ref)

LEMMA DecodesAppend ==
  ASSUME NEW last, NEW q \in Seq(PacketSet), NEW p \in PacketSet, Decodes(last, q),
         Frame(p) => LastReference(last, q, Len(q), p.ref)
  PROVE  Decodes(last, Append(q, p))
<1> DEFINE t == Append(q, p)
           n == Len(q)
<1>1. Len(t) = n + 1 /\ n \in Nat /\ t[n + 1] = p /\ \A i \in 1 .. n : t[i] = q[i]
  OBVIOUS
<1> HIDE DEF t
<1>2. ASSUME NEW i \in 1 .. n + 1, Frame(t[i]) PROVE LastReference(last, t, i - 1, t[i].ref)
  <2>1. i - 1 \in Nat /\ \A j \in 1 .. i - 1 : q[j] = t[j]
    BY <1>1
  <2>2. LastReference(last, q, i - 1, t[i].ref)
    <3>1. CASE i = n + 1
      BY <1>1, <1>2, <3>1
    <3>2. CASE i # n + 1
      <4>1. i \in 1 .. Len(q) /\ t[i] = q[i]
        BY <1>1, <3>2
      <4> QED
        BY <1>2, <4>1 DEF Decodes
    <3> QED
      BY <3>1, <3>2
  <2> QED
    BY <2>1, <2>2, ReferenceBefore
<1> QED
  BY <1>1, <1>2 DEF Decodes, t

(* ... also when the disposable frames are dropped,                        *)
LEMMA DecodesStays ==
  ASSUME NEW last, NEW h \in Seq(PacketSet), NEW q \in Seq(PacketSet), NEW r \in Seq(PacketSet),
         NEW f, Stayed(q, Len(q), r, High, f)
  PROVE  /\ Decodes(last, h \o q) => Decodes(last, h \o r)
         /\ \A x : LastReference(last, h \o q, Len(h \o q), x)
                     => LastReference(last, h \o r, Len(h \o r), x)
<1> DEFINE L == h \o q
           M == h \o r
           c == Len(h)
<1>1. /\ c \in Nat /\ Len(q) \in Nat /\ Len(r) \in Nat
      /\ Len(L) = c + Len(q) /\ Len(M) = c + Len(r)
      /\ \A i \in 1 .. c : L[i] = h[i] /\ M[i] = h[i]
      /\ \A i \in 1 .. Len(q) : L[c + i] = q[i]
      /\ \A i \in 1 .. Len(r) : M[c + i] = r[i]
  BY Line
<1>2. /\ \A l \in 1 .. Len(r) : f[l] \in 1 .. Len(q) /\ r[l] = q[f[l]]
      /\ \A l, m \in 1 .. Len(r) : l < m => f[l] < f[m]
  BY DEF Stayed
<1>3. ASSUME NEW x, LastReference(last, L, Len(L), x) PROVE LastReference(last, M, Len(M), x)
  <2> DEFINE n == Len(q)
             k == Len(r)
  <2>1. n \in 0 .. Len(q) /\ k \in 0 .. Len(r) /\ Len(L) = Len(h) + n /\ Len(M) = Len(h) + k
    BY <1>1
  <2>2. \A l \in 1 .. Len(r) : l <= k <=> f[l] <= n
    BY <1>1, <1>2
  <2>3. LastReference(last, h \o q, Len(h) + n, x)
    BY <1>3, <2>1
  <2> HIDE DEF n, k, L, M
  <2>4. LastReference(last, h \o r, Len(h) + k, x)
    BY <2>1, <2>2, <2>3, ReferenceStays
  <2> QED
    BY <2>1, <2>4 DEF M
<1>4. ASSUME Decodes(last, L), NEW i \in 1 .. Len(M), Frame(M[i])
      PROVE  LastReference(last, M, i - 1, M[i].ref)
  <2> HIDE DEF L, M, c
  <2>1. CASE i \in 1 .. c
    <3>1. i \in 1 .. Len(L) /\ L[i] = M[i]
      BY <1>1, <2>1
    <3>2. LastReference(last, L, i - 1, M[i].ref)
      BY <1>4, <3>1 DEF Decodes
    <3>3. i - 1 \in Nat /\ \A j \in 1 .. i - 1 : L[j] = M[j]
      BY <1>1, <2>1
    <3> QED
      BY <3>2, <3>3, ReferenceBefore
  <2>2. CASE i \notin 1 .. c
    <3> DEFINE k == i - c
    <3>1. k \in 1 .. Len(r) /\ i = c + k
      BY <1>1, <2>2
    <3> HIDE DEF k
    <3>2. f[k] \in 1 .. Len(q) /\ M[i] = L[c + f[k]] /\ c + f[k] \in 1 .. Len(L)
      BY <1>1, <1>2, <3>1
    <3>3. LastReference(last, L, (c + f[k]) - 1, M[i].ref)
      BY <1>4, <3>2 DEF Decodes
    <3> DEFINE n == f[k] - 1
               m == k - 1
    <3>4. /\ n \in 0 .. Len(q) /\ m \in 0 .. Len(r)
          /\ (c + f[k]) - 1 = c + n /\ i - 1 = c + m
      BY <1>1, <3>1, <3>2, SMTT(20)
    <3>5. \A l \in 1 .. Len(r) : l <= m <=> f[l] <= n
      <4> TAKE l \in 1 .. Len(r)
      <4>1. f[l] \in 1 .. Len(q)
        BY <1>2
      <4>2. CASE l < k
        <5>1. f[l] < f[k]
          BY <1>2, <3>1, <4>2
        <5> QED
          BY <3>1, <3>2, <4>1, <4>2, <5>1
      <4>3. CASE k <= l
        <5>1. f[k] <= f[l]
          <6>1. CASE k = l
            BY <3>2, <6>1
          <6>2. CASE k < l
            <7>1. f[k] < f[l]
              BY <1>2, <3>1, <6>2
            <7> QED
              BY <3>2, <4>1, <7>1
          <6> QED
            BY <4>3, <3>1, <6>1, <6>2
        <5> QED
          BY <3>1, <3>2, <4>1, <4>3, <5>1
      <4> QED
        BY <3>1, <4>2, <4>3
    <3> HIDE DEF n, m
    <3>6. LastReference(last, h \o q, Len(h) + n, M[i].ref)
      BY <3>3, <3>4 DEF L, c
    <3>7. LastReference(last, h \o r, Len(h) + m, M[i].ref)
      BY <3>4, <3>5, <3>6, ReferenceStays, ZenonT(30)
    <3> QED
      BY <3>4, <3>7 DEF M, c
  <2> QED
    BY <2>1, <2>2
<1>5. Decodes(last, L) => Decodes(last, M)
  BY <1>4 DEF Decodes
<1> QED
  BY <1>3, <1>5

(* or all but keyframes.                                                   *)
LEMMA DecodesKeyframes ==
  ASSUME NEW last, NEW h \in Seq(PacketSet), NEW q \in Seq(PacketSet), NEW r \in Seq(PacketSet),
         \A k \in 1 .. Len(r) : ~ Frame(r[k]), Decodes(last, h \o q)
  PROVE  Decodes(last, h \o r)
<1> DEFINE L == h \o q
           M == h \o r
           c == Len(h)
<1>1. /\ c \in Nat /\ Len(q) \in Nat /\ Len(r) \in Nat
      /\ Len(L) = c + Len(q) /\ Len(M) = c + Len(r)
      /\ \A i \in 1 .. c : L[i] = h[i] /\ M[i] = h[i]
      /\ \A i \in 1 .. Len(r) : M[c + i] = r[i]
  BY Line
<1>2. Decodes(last, L)
  OBVIOUS
<1> HIDE DEF L, M, c
<1>3. ASSUME NEW i \in 1 .. Len(M), Frame(M[i])
      PROVE  LastReference(last, M, i - 1, M[i].ref)
  <2>1. i \in 1 .. c
    <3> SUFFICES ASSUME i \notin 1 .. c PROVE FALSE
      OBVIOUS
    <3>1. i - c \in 1 .. Len(r) /\ i = c + (i - c)
      BY <1>1
    <3> QED
      BY <1>1, <1>3, <3>1
  <2>2. i \in 1 .. Len(L) /\ L[i] = M[i]
    BY <1>1, <2>1
  <2>3. LastReference(last, L, i - 1, M[i].ref)
    BY <1>2, <1>3, <2>2 DEF Decodes
  <2>4. i - 1 \in Nat /\ \A j \in 1 .. i - 1 : L[j] = M[j]
    BY <1>1, <2>1
  <2> QED
    BY <2>3, <2>4, ReferenceBefore
<1> QED
  BY <1>3 DEF Decodes, M

(* The first in line is sent.                                              *)
LEMMA ReferenceSent ==
  ASSUME NEW last, NEW q \in Seq(PacketSet), NEW p \in PacketSet, NEW n \in 0 .. Len(q), NEW x,
         LastReference(last, <<p>> \o q, n + 1, x)
  PROVE  LastReference(IF Reference(p) THEN p.dts ELSE last, q, n, x)
<1> DEFINE L == <<p>> \o q
           new == IF Reference(p) THEN p.dts ELSE last
<1>1. n \in Nat /\ n <= Len(q) /\ Len(q) \in Nat
  OBVIOUS
<1>2. L[1] = p /\ \A i \in 1 .. n : L[i + 1] = q[i]
  BY <1>1
<1> HIDE DEF L
<1>3. CASE x = last /\ \A i \in 1 .. n + 1 : ~ Reference(L[i])
  <2>1. 1 \in 1 .. n + 1 /\ \A i \in 1 .. n : i + 1 \in 1 .. n + 1
    BY <1>1
  <2>2. ~ Reference(p) /\ \A i \in 1 .. n : ~ Reference(q[i])
    BY <1>2, <1>3, <2>1
  <2> QED
    BY <1>3, <2>2 DEF LastReference
<1>4. CASE \E i \in 1 .. n + 1 : /\ Reference(L[i]) /\ L[i].dts = x
                                 /\ \A j \in i + 1 .. n + 1 : ~ Reference(L[j])
  <2>1. PICK i \in 1 .. n + 1 : /\ Reference(L[i]) /\ L[i].dts = x
                                /\ \A j \in i + 1 .. n + 1 : ~ Reference(L[j])
    BY <1>4
  <2>2. \A j \in 1 .. n : j >= i => ~ Reference(q[j])
    <3> TAKE j \in 1 .. n
    <3> HAVE j >= i
    <3>1. j + 1 \in i + 1 .. n + 1
      BY <1>1
    <3> QED
      BY <1>2, <2>1, <3>1
  <2>3. CASE i = 1
    <3>1. x = new /\ \A j \in 1 .. n : ~ Reference(q[j])
      BY <1>1, <1>2, <2>1, <2>2, <2>3
    <3> QED
      BY <3>1 DEF LastReference
  <2>4. CASE i # 1
    <3> DEFINE k == i - 1
    <3>1. k \in 1 .. n /\ i = k + 1
      BY <1>1, <2>4
    <3> HIDE DEF k
    <3>2. Reference(q[k]) /\ q[k].dts = x
      BY <1>2, <2>1, <3>1
    <3>3. \A j \in k + 1 .. n : ~ Reference(q[j])
      <4> TAKE j \in k + 1 .. n
      <4>1. j \in 1 .. n /\ j >= i
        BY <1>1, <3>1
      <4> QED
        BY <2>2, <4>1
    <3> QED
      BY <3>1, <3>2, <3>3 DEF LastReference
  <2> QED
    BY <2>3, <2>4
<1>5. LastReference(last, L, n + 1, x)
  BY DEF L
<1> QED
  BY <1>3, <1>4, <1>5 DEF LastReference

LEMMA DecodesSent ==
  ASSUME NEW last, NEW q \in Seq(PacketSet), NEW p \in PacketSet, Decodes(last, <<p>> \o q)
  PROVE  Decodes(IF Reference(p) THEN p.dts ELSE last, q)
<1> DEFINE L == <<p>> \o q
           new == IF Reference(p) THEN p.dts ELSE last
<1>1. Len(L) = Len(q) + 1 /\ Len(q) \in Nat /\ \A i \in 1 .. Len(q) : L[i + 1] = q[i]
  OBVIOUS
<1>2. ASSUME NEW i \in 1 .. Len(q), Frame(q[i]) PROVE LastReference(new, q, i - 1, q[i].ref)
  <2> DEFINE n == i - 1
  <2>1. n \in 0 .. Len(q) /\ i = n + 1 /\ i + 1 \in 1 .. Len(L) /\ L[i + 1] = q[i]
        /\ (i + 1) - 1 = n + 1
    BY <1>1
  <2> HIDE DEF n, L
  <2>2. LastReference(last, L, (i + 1) - 1, q[i].ref)
    BY <1>2, <2>1 DEF Decodes, L
  <2>3. LastReference(last, <<p>> \o q, n + 1, q[i].ref)
    BY <2>1, <2>2 DEF L
  <2>4. LastReference(new, q, n, q[i].ref)
    BY <2>1, <2>3, ReferenceSent
  <2> QED
    BY <2>4 DEF n
<1> QED
  BY <1>2 DEF Decodes

-----------------------------------------------------------------------------
(* The inductive invariant.                                                *)

NoMetadataFault == "metadata" \notin Faults

(* Who is where: a send thread that lives is the only one, and one that    *)
(* takes packets takes them of a capture that is on, or about to begin.    *)
Places ==
  /\ active <=> ~ At("send", "idle")
  /\ At("connect", "send")
       => /\ At("send", "idle") /\ capture = "off" /\ packets = <<>> /\ ~ disconnected
          /\ ~ At("encoder", "post")
  /\ At("send", "wait") \/ At("send", "next") \/ At("send", "send") \/ At("send", "close")
       => \/ At("connect", "metadata") /\ capture = "off"
          \/ At("connect", "idle") /\ capture = "on"
  /\ Sending => ~ disconnected
  /\ capture = "off" => At("encoder", "idle")
  /\ Len(hand.send) = IF At("send", "send") THEN 1 ELSE 0
  /\ Len(hand.encoder) = IF At("encoder", "add") THEN 1 ELSE 0
  /\ orphans = 0

Tokens ==
  Sending => Len(packets) <= send_sem + (IF At("encoder", "post") THEN 1 ELSE 0)
                                      + (IF At("send", "next") THEN 1 ELSE 0)

(* Times go up from the queue by the encoder's hand to the next frame.     *)
InOrder ==
  /\ \A i, j \in DOMAIN packets : i <= j => packets[i].dts <= packets[j].dts
  /\ \A i \in DOMAIN packets :
       /\ packets[i].dts <= dts
       /\ \A k \in DOMAIN hand.encoder : packets[i].dts <= hand.encoder[k].dts
  /\ \A k \in DOMAIN hand.encoder : hand.encoder[k].dts <= dts

Stopped ==
  At("send", "close") /\ ~ disconnected
    => /\ stop_event
       /\ \/ timeout
          \/ /\ \A i \in DOMAIN packets : packets[i].dts >= stop_ts
             /\ \A k \in DOMAIN hand.encoder : hand.encoder[k].dts >= stop_ts
             /\ dts >= stop_ts

(* A connection that stands, or is about to: the packets produced since    *)
(* are accounted for.                                                      *)
Counting ==
  /\ ~ disconnected
  /\ \/ At("connect", "send")
     \/ active /\ (capture # "off" \/ At("connect", "metadata"))

Counted ==
  Counting => /\ dts - 1 = Amount(FALSE) + dropped_frames
              /\ count - (dts - 1) = Amount(TRUE)

(* The frames in line can be decoded, and so can the one that the encoder  *)
(* has in its hand or will have next, unless frames before it are missing. *)
References ==
  Sending =>
  /\ Decodes(shown, InLine)
  /\ min_priority < Highest /\ hand.encoder = <<>> => LastReference(shown, InLine, Len(InLine), ref)
  /\ \A k \in DOMAIN hand.encoder :
       LET p == hand.encoder[k]
       IN  /\ ref = IF Reference(p) THEN p.dts ELSE p.ref
           /\ min_priority < Highest => LastReference(shown, InLine, Len(InLine), p.ref)

Fresh == At("connect", "send") => ref = NoFrame /\ shown = NoFrame /\ min_priority = 0

StreamInv ==
  TypeOK /\ Places /\ Tokens /\ InOrder /\ Stopped /\ Counted /\ References /\ Fresh

LEMMA FieldTypes ==
  ASSUME NEW p \in PacketSet
  PROVE  p.audio \in BOOLEAN /\ p.priority \in {Disposable, High, Highest}
         /\ p.dts \in Nat /\ p.ref \in Nat
  BY DEF PacketSet

LEMMA InitStream == Init => StreamInv
<1> SUFFICES ASSUME Init PROVE StreamInv
  OBVIOUS
<1> USE RtmpStreamAssumption DEF Init, At, Sending, Threads
<1>1. TypeOK
  <2>1. packets \in Seq(PacketSet) /\ hand \in [send : Seq(PacketSet), encoder : Seq(PacketSet)]
    OBVIOUS
  <2>2. sent \in [BOOLEAN -> Nat]
    OBVIOUS
  <2>3. /\ pc["connect"] = "idle" /\ pc["send"] = "idle" /\ pc["encoder"] = "idle"
        /\ pc["user"] = "idle"
    OBVIOUS
  <2>4. pc \in [Threads -> Labels]
    BY DEF Labels
  <2>5. stream \in Streams \union {<<>>} /\ connections \in 0 .. MaxConnections
    OBVIOUS
  <2>6. /\ min_priority \in {0, High, Highest} /\ last_dts \in Nat /\ dropped_frames \in Nat
        /\ active \in BOOLEAN /\ disconnected \in BOOLEAN /\ stop_event \in BOOLEAN
        /\ stop_ts \in Nat /\ send_sem \in Nat /\ timeout \in BOOLEAN
        /\ capture \in {"off", "on", "ending"} /\ stalled \in BOOLEAN
        /\ dts \in Nat /\ ref \in Nat /\ count \in Nat /\ shown \in Nat /\ orphans \in Nat
    BY DEF NoFrame
  <2> HIDE DEF Init
  <2> QED
    BY <2>1, <2>2, <2>3, <2>4, <2>5, <2>6 DEF TypeOK
<1>2. Places /\ Tokens /\ InOrder /\ Stopped /\ Fresh
  BY DEF Places, Tokens, InOrder, Stopped, Fresh
<1>3. Counted /\ References
  BY DEF Counted, Counting, References
<1> QED
  BY <1>1, <1>2, <1>3 DEF StreamInv

(* The packets in the hands of the threads.                                *)
LEMMA Hands ==
  ASSUME TypeOK, Places
  PROVE  /\ hand.send \in Seq(PacketSet) /\ hand.encoder \in Seq(PacketSet)
         /\ IF At("send", "send")
            THEN hand.send[1] \in PacketSet /\ hand.send = <<hand.send[1]>>
            ELSE hand.send = <<>>
         /\ IF At("encoder", "add")
            THEN hand.encoder[1] \in PacketSet /\ hand.encoder = <<hand.encoder[1]>>
            ELSE hand.encoder = <<>>
<1>1. hand.send \in Seq(PacketSet) /\ hand.encoder \in Seq(PacketSet)
  BY DEF TypeOK
<1>2. ASSUME NEW h \in Seq(PacketSet), Len(h) = 1 PROVE h[1] \in PacketSet /\ h = <<h[1]>>
  BY <1>2
<1>3. ASSUME NEW h \in Seq(PacketSet), Len(h) = 0 PROVE h = <<>>
  BY <1>3
<1> QED
  BY <1>1, <1>2, <1>3 DEF Places

(* What becomes of the packet p in the encoder's hand: it is refused, or   *)
(* comes after what is left of the queue.                                  *)
Refused(s, p) ==
  /\ ~ p.audio /\ p.priority < s.min
  /\ packets' = s.queue /\ min_priority' = s.min /\ dropped_frames' = s.dropped + 1
  /\ pc'["encoder"] \in {"idle", "post"}

Accepted(s, p) ==
  /\ packets' = Append(s.queue, p) /\ dropped_frames' = s.dropped
  /\ IF p.audio THEN min_priority' = min_priority
     ELSE p.priority >= s.min /\ min_priority' = 0
  /\ pc'["encoder"] = "post"

LEMMA AddCases ==
  ASSUME TypeOK, Places, Add, ~ disconnected, NEW p, p = hand.encoder[1]
  PROVE  \E s \in QueueRecord : /\ Thinned(Queue, s)
                                /\ IF p.audio THEN s = Queue ELSE Dropped(s)
                                /\ Refused(s, p) \/ Accepted(s, p)
<1>1. /\ p \in PacketSet /\ packets \in Seq(PacketSet) /\ min_priority \in Priorities
      /\ dropped_frames \in Nat
  BY Hands DEF Add, TypeOK, Priorities
<1>2. p.audio \in BOOLEAN /\ p.priority \in Int
  BY <1>1, FieldTypes DEF Disposable, High, Highest
<1>3. pc \in [Threads -> Labels] /\ "encoder" \in Threads
  BY DEF TypeOK, Threads
<1> DEFINE q == IF p.audio THEN [queue |-> Append(packets, p), min |-> min_priority,
                                 dropped |-> dropped_frames]
                ELSE add_video_packet(p)
           accepted == q.queue # <<>> /\ Last(q.queue) = p
<1>4. /\ packets' = q.queue /\ min_priority' = q.min /\ dropped_frames' = q.dropped
      /\ pc' = [pc EXCEPT !["encoder"] = IF accepted THEN "post" ELSE "idle"]
  BY DEF Add, Go
<1>5. ASSUME NEW s \in QueueRecord, q.queue = Append(s.queue, p)
      PROVE  accepted
  <2>1. s.queue \in Seq(PacketSet)
    BY DEF QueueRecord
  <2>2. Append(s.queue, p) # <<>> /\ Append(s.queue, p)[Len(Append(s.queue, p))] = p
    BY <1>1, <2>1
  <2> HIDE DEF q
  <2> QED
    BY <1>5, <2>2 DEF Last
<1>6. CASE p.audio
  <2>1. Queue \in QueueRecord /\ Queue.queue = packets /\ Queue.dropped = dropped_frames
    BY <1>1 DEF Queue, QueueRecord
  <2>2. Thinned(Queue, Queue)
    BY <1>1, <2>1, FromItself DEF Thinned
  <2>3. q.queue = Append(Queue.queue, p) /\ q.min = min_priority /\ q.dropped = dropped_frames
    BY <1>6, <2>1
  <2>4. accepted
    BY <1>5, <2>1, <2>3
  <2> HIDE DEF q, accepted
  <2>5. pc'["encoder"] = "post"
    BY <1>3, <1>4, <2>4
  <2>6. Accepted(Queue, p)
    BY <1>4, <1>6, <2>1, <2>3, <2>5 DEF Accepted
  <2> QED
    BY <1>6, <2>1, <2>2, <2>6
<1>7. CASE ~ p.audio
  <2>1. PICK s \in QueueRecord :
           /\ Thinned(Queue, s) /\ Dropped(s)
           /\ add_video_packet(p) =
                IF p.priority < s.min THEN [s EXCEPT !.dropped = @ + 1]
                ELSE [s EXCEPT !.queue = Append(@, p), !.min = 0]
    BY <1>1, AddVideo
  <2>2. s.min \in Int
    BY DEF QueueRecord, Priorities, High, Highest
  <2>3. CASE p.priority < s.min
    <3>1. q.queue = s.queue /\ q.min = s.min /\ q.dropped = s.dropped + 1
      BY <1>7, <2>1, <2>3 DEF QueueRecord
    <3> HIDE DEF q, accepted
    <3>2. pc'["encoder"] \in {"idle", "post"}
      BY <1>3, <1>4
    <3>3. Refused(s, p)
      BY <1>4, <1>7, <2>3, <3>1, <3>2 DEF Refused
    <3> QED
      BY <1>7, <2>1, <3>3
  <2>4. CASE ~ (p.priority < s.min)
    <3>1. q.queue = Append(s.queue, p) /\ q.min = 0 /\ q.dropped = s.dropped
      BY <1>7, <2>1, <2>4 DEF QueueRecord
    <3>2. accepted
      BY <1>5, <3>1
    <3>3. p.priority >= s.min
      BY <1>2, <2>2, <2>4
    <3> HIDE DEF q, accepted
    <3>4. pc'["encoder"] = "post"
      BY <1>3, <1>4, <3>2
    <3>5. Accepted(s, p)
      BY <1>4, <1>7, <3>1, <3>3, <3>4 DEF Accepted
    <3> QED
      BY <1>7, <2>1, <3>5
  <2> QED
    BY <2>3, <2>4
<1> QED
  BY <1>2, <1>6, <1>7

-----------------------------------------------------------------------------
(* The invariant is kept.                                                  *)

LEMMA Gone ==
  ASSUME pc \in [Threads -> Labels], NEW t \in Threads, NEW l \in Labels, Go(t, l)
  PROVE  /\ pc' \in [Threads -> Labels] /\ pc'[t] = l
         /\ \A u \in Threads : u # t => pc'[u] = pc[u]
  BY DEF Go

LEMMA Names ==
  /\ "connect" \in Threads /\ "send" \in Threads /\ "encoder" \in Threads /\ "user" \in Threads
  /\ "idle" \in Labels /\ "send" \in Labels /\ "metadata" \in Labels /\ "wait" \in Labels
  /\ "next" \in Labels /\ "close" \in Labels /\ "free" \in Labels /\ "add" \in Labels
  /\ "post" \in Labels /\ "signal" \in Labels
  BY DEF Threads, Labels

(* The variables' types, in groups that the actions change together.       *)
QueueOK ==
  /\ packets \in Seq(PacketSet) /\ min_priority \in {0, High, Highest}
  /\ last_dts \in Nat /\ dropped_frames \in Nat

FlagOK ==
  /\ active \in BOOLEAN /\ disconnected \in BOOLEAN /\ stop_event \in BOOLEAN
  /\ stop_ts \in Nat /\ send_sem \in Nat /\ timeout \in BOOLEAN
  /\ capture \in {"off", "on", "ending"}

PlaceOK ==
  /\ pc \in [Threads -> Labels] /\ pc["connect"] \in {"idle", "send", "metadata"}
  /\ pc["send"] \in {"idle", "wait", "next", "send", "close", "free"}
  /\ pc["encoder"] \in {"idle", "add", "post"} /\ pc["user"] \in {"idle", "signal"}

HandOK == hand \in [send : Seq(PacketSet), encoder : Seq(PacketSet)]

EncoderOK ==
  /\ stream \in Streams \union {<<>>} /\ stalled \in BOOLEAN
  /\ dts \in Nat /\ ref \in Nat /\ count \in Nat

HistoryOK ==
  /\ shown \in Nat
  /\ sent \in [BOOLEAN -> Nat] /\ orphans \in Nat /\ connections \in 0 .. MaxConnections

LEMMA TypeGroups ==
  TypeOK <=> QueueOK /\ FlagOK /\ PlaceOK /\ HandOK /\ EncoderOK /\ HistoryOK
  BY DEF TypeOK, QueueOK, FlagOK, PlaceOK, HandOK, EncoderOK, HistoryOK

LEMMA PlaceStep ==
  ASSUME TypeOK, Next PROVE PlaceOK'
<1>1. PlaceOK
  BY TypeGroups
<1>2. ASSUME NEW l \in {"idle", "send", "metadata"}, Go("connect", l) PROVE PlaceOK'
  BY <1>1, <1>2, Gone, Names DEF PlaceOK
<1>3. ASSUME NEW l \in {"idle", "wait", "next", "send", "close", "free"}, Go("send", l)
      PROVE  PlaceOK'
  BY <1>1, <1>3, Gone, Names DEF PlaceOK
<1>4. ASSUME NEW l \in {"idle", "add", "post"}, Go("encoder", l) PROVE PlaceOK'
  BY <1>1, <1>4, Gone, Names DEF PlaceOK
<1>5. ASSUME NEW l \in {"idle", "signal"}, Go("user", l) PROVE PlaceOK'
  BY <1>1, <1>5, Gone, Names DEF PlaceOK
<1>6. ASSUME UNCHANGED pc PROVE PlaceOK'
  BY <1>1, <1>6 DEF PlaceOK
<1>7. CASE Connect
  <2>1. CASE InitSend
    BY <1>1, <2>1 DEF InitSend, PlaceOK, Threads, Labels
  <2>2. CASE InitConnect \/ ConnectFails \/ Metadata
    BY <1>2, <2>2 DEF InitConnect, ConnectFails, Metadata
  <2> QED
    BY <1>7, <2>1, <2>2 DEF Connect
<1>8. CASE EncoderStep
  <2>1. ASSUME NEW k \in Kinds, Produce(k) PROVE PlaceOK'
    BY <1>4, <1>6, <2>1 DEF Produce
  <2>2. ASSUME Add PROVE PlaceOK'
    <3>1. ASSUME NEW b, Go("encoder", IF b THEN "post" ELSE "idle") PROVE PlaceOK'
      BY <1>4, <3>1
    <3> QED
      BY <1>4, <2>2, <3>1 DEF Add
  <2>3. ASSUME Post PROVE PlaceOK'
    BY <1>4, <2>3 DEF Post
  <2> QED
    BY <1>8, <2>1, <2>2, <2>3 DEF EncoderStep
<1>9. CASE SendThread
  <2>1. ASSUME Wait PROVE PlaceOK'
    <3>1. ASSUME NEW b, Go("send", IF b THEN "close" ELSE "next") PROVE PlaceOK'
      BY <1>3, <3>1
    <3> QED
      BY <2>1, <3>1 DEF Wait
  <2>2. ASSUME GetNextPacket PROVE PlaceOK'
    BY <1>3, <2>2 DEF GetNextPacket
  <2>3. ASSUME Send \/ Close \/ Finish PROVE PlaceOK'
    BY <1>3, <2>3 DEF Send, Close, Finish
  <2> QED
    BY <1>9, <2>1, <2>2, <2>3 DEF SendThread
<1>10. CASE Stall \/ EndCapture \/ Timeout
  BY <1>6, <1>10 DEF Stall, EndCapture, Timeout
<1>11. CASE (\E ts \in {0, dts, dts + 1} : StopTime(ts)) \/ StopSignal
  BY <1>5, <1>11 DEF StopTime, StopSignal
<1> QED
  BY <1>7, <1>8, <1>9, <1>10, <1>11 DEF Next

LEMMA PacketType ==
  ASSUME TypeOK, NEW k \in Kinds
  PROVE  /\ Packet(k) \in PacketSet
         /\ Packet(k).audio = (k = Audio) /\ Packet(k).dts = dts /\ Packet(k).ref = ref
<1>1. dts \in Nat /\ ref \in Nat
  BY DEF TypeOK
<1>2. (IF k = Audio THEN Highest ELSE k) \in {Disposable, High, Highest}
  BY DEF Kinds
<1> QED
  BY <1>1, <1>2 DEF Packet, PacketSet

LEMMA QueueStep ==
  ASSUME TypeOK, Places, Next PROVE QueueOK'
<1>1. QueueOK /\ HandOK
  BY TypeGroups
<1>2. ASSUME UNCHANGED queueVars PROVE QueueOK'
  BY <1>1, <1>2 DEF QueueOK, queueVars
<1>3. CASE Connect
  <2>1. ASSUME InitConnect PROVE QueueOK'
    BY <1>1, <2>1 DEF InitConnect, QueueOK
  <2> QED
    BY <1>2, <1>3, <2>1 DEF Connect, ConnectFails, InitSend, Metadata
<1>4. CASE Add
  <2>1. last_dts' \in Nat
    <3>1. hand.encoder[1].dts \in Nat \/ last_dts' = last_dts
      <4>1. hand.encoder[1] \in PacketSet
        BY <1>4, Hands DEF Add
      <4> QED
        BY <4>1, FieldTypes
    <3>2. last_dts' = last_dts \/ last_dts' = hand.encoder[1].dts
      BY <1>4 DEF Add, queueVars
    <3> QED
      BY <1>1, <3>1, <3>2 DEF QueueOK
  <2>2. CASE disconnected
    BY <1>2, <1>4, <2>2 DEF Add
  <2>3. CASE ~ disconnected
    <3> DEFINE p == hand.encoder[1]
    <3>1. p \in PacketSet
      BY <1>4, Hands DEF Add
    <3>2. PICK s \in QueueRecord : Refused(s, p) \/ Accepted(s, p)
      BY <1>4, <2>3, AddCases
    <3>3. s.queue \in Seq(PacketSet) /\ s.min \in Priorities /\ s.dropped \in Nat
      BY DEF QueueRecord
    <3> HIDE DEF p
    <3>4. packets' \in Seq(PacketSet)
      <4>1. Append(s.queue, p) \in Seq(PacketSet)
        BY <3>1, <3>3
      <4> QED
        BY <3>2, <3>3, <4>1 DEF Refused, Accepted
    <3>5. min_priority' \in {0, High, Highest}
      BY <1>1, <3>2, <3>3 DEF Refused, Accepted, QueueOK, Priorities
    <3>6. dropped_frames' \in Nat
      BY <3>2, <3>3 DEF Refused, Accepted
    <3> QED
      BY <2>1, <3>4, <3>5, <3>6 DEF QueueOK
  <2> QED
    BY <2>2, <2>3
<1>5. CASE (\E k \in Kinds : Produce(k)) \/ Post
  BY <1>2, <1>5 DEF Produce, Post
<1>6. CASE GetNextPacket
  BY <1>1, <1>6, SMTT(20) DEF GetNextPacket, QueueOK
<1>7. CASE Finish
  BY <1>1, <1>7 DEF Finish, QueueOK
<1>8. CASE Wait \/ Send \/ Close
  BY <1>2, <1>8 DEF Wait, Send, Close
<1>9. CASE Stall \/ EndCapture \/ (\E ts \in {0, dts, dts + 1} : StopTime(ts)) \/ StopSignal
           \/ Timeout
  BY <1>2, <1>9 DEF Stall, EndCapture, StopTime, StopSignal, Timeout
<1> QED
  BY <1>3, <1>4, <1>5, <1>6, <1>7, <1>8, <1>9 DEF Next, EncoderStep, SendThread

LEMMA FlagStep ==
  ASSUME TypeOK, Next PROVE FlagOK'
<1>1. FlagOK /\ EncoderOK
  BY TypeGroups
<1>2. ASSUME UNCHANGED <<flagVars, send_sem, timeout, capture>> PROVE FlagOK'
  BY <1>1, <1>2 DEF FlagOK, flagVars
<1>3. CASE Connect
  <2>1. ASSUME InitConnect \/ InitSend \/ Metadata PROVE FlagOK'
    <3>1. CASE InitConnect
      BY <1>1, <3>1 DEF InitConnect, FlagOK
    <3>2. CASE InitSend
      BY <1>1, <3>2 DEF InitSend, FlagOK
    <3>3. CASE Metadata
      BY <1>1, <3>3 DEF Metadata, FlagOK, flagVars
    <3> QED
      BY <2>1, <3>1, <3>2, <3>3
  <2> QED
    BY <1>2, <1>3, <2>1 DEF Connect, ConnectFails
<1>4. CASE EncoderStep
  <2>1. ASSUME Post PROVE FlagOK'
    BY <1>1, <2>1 DEF Post, FlagOK, flagVars
  <2> QED
    BY <1>2, <1>4, <2>1 DEF EncoderStep, Produce, Add
<1>5. CASE SendThread
  <2>1. ASSUME Wait PROVE FlagOK'
    BY <1>1, <2>1 DEF Wait, FlagOK, flagVars
  <2>2. ASSUME Send \/ Close \/ Finish PROVE FlagOK'
    BY <1>1, <2>2 DEF Send, Close, Finish, FlagOK, flagVars
  <2> QED
    BY <1>2, <1>5, <2>1, <2>2 DEF SendThread, GetNextPacket
<1>6. ASSUME NEW ts \in {0, dts, dts + 1}, StopTime(ts) PROVE FlagOK'
  <2>1. ts \in Nat
    BY <1>1 DEF EncoderOK
  <2> QED
    BY <1>1, <1>6, <2>1 DEF StopTime, FlagOK
<1>7. CASE EndCapture
  BY <1>1, <1>7 DEF EndCapture, FlagOK, flagVars
<1>8. CASE StopSignal
  <2>1. stop_event' \in BOOLEAN /\ send_sem' \in Nat
    <3>1. CASE active
      BY <1>1, <1>8, <3>1 DEF StopSignal, FlagOK
    <3>2. CASE ~ active
      BY <1>1, <1>8, <3>2 DEF StopSignal, FlagOK
    <3> QED
      BY <3>1, <3>2
  <2> QED
    BY <1>1, <1>8, <2>1 DEF StopSignal, FlagOK
<1>9. CASE Timeout
  BY <1>1, <1>9 DEF Timeout, FlagOK, flagVars
<1>10. CASE Stall
  BY <1>2, <1>10 DEF Stall
<1> QED
  BY <1>3, <1>4, <1>5, <1>6, <1>7, <1>8, <1>9, <1>10 DEF Next

LEMMA HandStep ==
  ASSUME TypeOK, Next PROVE HandOK'
<1>1. HandOK /\ QueueOK
  BY TypeGroups
<1>2. ASSUME UNCHANGED hand PROVE HandOK'
  BY <1>1, <1>2 DEF HandOK
<1>3. ASSUME NEW h \in Seq(PacketSet), hand' = [hand EXCEPT !.encoder = h] PROVE HandOK'
  BY <1>1, <1>3 DEF HandOK
<1>4. ASSUME NEW h \in Seq(PacketSet), hand' = [hand EXCEPT !.send = h] PROVE HandOK'
  BY <1>1, <1>4 DEF HandOK
<1>5. <<>> \in Seq(PacketSet) /\ \A p \in PacketSet : <<p>> \in Seq(PacketSet)
  OBVIOUS
<1>6. CASE Connect
  BY <1>2, <1>6 DEF Connect, InitConnect, ConnectFails, InitSend, Metadata
<1>7. ASSUME NEW k \in Kinds, Produce(k) PROVE HandOK'
  <2>1. <<Packet(k)>> \in Seq(PacketSet)
    BY <1>5, PacketType
  <2>2. UNCHANGED hand \/ hand' = [hand EXCEPT !.encoder = <<Packet(k)>>]
    BY <1>7 DEF Produce
  <2> QED
    BY <1>2, <1>3, <2>1, <2>2
<1>8. CASE Add
  <2>1. hand' = [hand EXCEPT !.encoder = <<>>]
    BY <1>8 DEF Add
  <2> QED
    BY <1>3, <1>5, <2>1
<1>9. CASE GetNextPacket
  <2>1. UNCHANGED hand \/ (packets # <<>> /\ hand' = [hand EXCEPT !.send = <<packets[1]>>])
    BY <1>9 DEF GetNextPacket
  <2>2. packets # <<>> => packets[1] \in PacketSet
    BY <1>1 DEF QueueOK
  <2> QED
    BY <1>2, <1>4, <1>5, <2>1, <2>2
<1>10. CASE Send
  <2>1. hand' = [hand EXCEPT !.send = <<>>]
    BY <1>10 DEF Send
  <2> QED
    BY <1>4, <1>5, <2>1
<1>11. CASE Post \/ Wait \/ Close \/ Finish \/ Stall \/ EndCapture \/ StopSignal \/ Timeout
            \/ \E ts \in {0, dts, dts + 1} : StopTime(ts)
  BY <1>2, <1>11 DEF Post, Wait, Close, Finish, Stall, EndCapture, StopSignal, Timeout, StopTime
<1> QED
  BY <1>6, <1>7, <1>8, <1>9, <1>10, <1>11 DEF Next, EncoderStep, SendThread

LEMMA EncoderType ==
  ASSUME TypeOK, Next PROVE EncoderOK'
<1>1. EncoderOK
  BY TypeGroups
<1>2. ASSUME UNCHANGED encoderVars PROVE EncoderOK'
  BY <1>1, <1>2 DEF EncoderOK, encoderVars
<1>3. CASE InitConnect
  BY <1>1, <1>3 DEF InitConnect, EncoderOK, NoFrame
<1>4. CASE ConnectFails \/ InitSend \/ Metadata
  BY <1>2, <1>4 DEF ConnectFails, InitSend, Metadata
<1>5. ASSUME NEW k \in Kinds, Produce(k) PROVE EncoderOK'
  BY <1>1, <1>5 DEF Produce, EncoderOK
<1>6. CASE Stall
  BY <1>1, <1>6 DEF Stall, EncoderOK
<1>7. CASE Add \/ Post \/ SendThread
  BY <1>2, <1>7 DEF Add, Post, SendThread, Wait, GetNextPacket, Send, Close, Finish
<1>8. CASE EndCapture \/ StopSignal \/ Timeout \/ \E ts \in {0, dts, dts + 1} : StopTime(ts)
  BY <1>2, <1>8 DEF EndCapture, StopSignal, Timeout, StopTime
<1> QED
  BY <1>3, <1>4, <1>5, <1>6, <1>7, <1>8 DEF Next, Connect, EncoderStep

LEMMA HistoryType ==
  ASSUME TypeOK, Places, Next PROVE HistoryOK'
<1>1. HistoryOK /\ QueueOK
  BY TypeGroups
<1>2. ASSUME UNCHANGED <<historyVars, connections>> PROVE HistoryOK'
  BY <1>1, <1>2 DEF HistoryOK, historyVars
<1>3. CASE InitConnect
  <2>1. sent' \in [BOOLEAN -> Nat]
    BY <1>3 DEF InitConnect
  <2>2. connections' \in 0 .. MaxConnections
    BY <1>1, <1>3, RtmpStreamAssumption DEF InitConnect, HistoryOK
  <2> QED
    BY <1>1, <1>3, <2>1, <2>2 DEF InitConnect, HistoryOK, NoFrame
<1>4. CASE InitSend
  BY <1>1, <1>4 DEF InitSend, HistoryOK
<1>5. CASE GetNextPacket
  <2>1. sent' \in [BOOLEAN -> Nat]
    <3>1. CASE packets = <<>>
      BY <1>1, <1>5, <3>1 DEF GetNextPacket, HistoryOK
    <3>2. CASE packets # <<>>
      <4> DEFINE a == packets[1].audio
      <4>1. packets[1] \in PacketSet
        BY <1>1, <3>2 DEF QueueOK
      <4>2. a \in BOOLEAN
        BY <4>1, FieldTypes
      <4>3. sent' = [sent EXCEPT ![a] = @ + 1]
        BY <1>5, <3>2 DEF GetNextPacket
      <4> HIDE DEF a
      <4> QED
        BY <1>1, <4>2, <4>3 DEF HistoryOK
    <3> QED
      BY <3>1, <3>2
  <2> QED
    BY <1>1, <1>5, <2>1 DEF GetNextPacket, HistoryOK
<1>6. CASE Send
  <2>1. hand.send[1].dts \in Nat
    <3>1. hand.send[1] \in PacketSet
      BY <1>6, Hands DEF Send
    <3> QED
      BY <3>1, FieldTypes
  <2>2. shown' = shown \/ shown' = hand.send[1].dts
    BY <1>6 DEF Send
  <2> QED
    BY <1>1, <1>6, <2>1, <2>2 DEF Send, HistoryOK
<1>7. CASE ConnectFails \/ Metadata \/ EncoderStep \/ Wait \/ Close \/ Finish
  BY <1>2, <1>7 DEF ConnectFails, Metadata, EncoderStep, Produce, Add, Post, Wait, Close, Finish
<1>8. CASE Stall \/ EndCapture \/ StopSignal \/ Timeout
           \/ \E ts \in {0, dts, dts + 1} : StopTime(ts)
  BY <1>2, <1>8 DEF Stall, EndCapture, StopSignal, Timeout, StopTime
<1> QED
  BY <1>3, <1>4, <1>5, <1>6, <1>7, <1>8 DEF Next, Connect, SendThread

LEMMA TypeStep ==
  ASSUME TypeOK, Places, Next PROVE TypeOK'
<1>1. QueueOK' /\ FlagOK' /\ PlaceOK' /\ HandOK' /\ EncoderOK' /\ HistoryOK'
  BY QueueStep, FlagStep, PlaceStep, HandStep, EncoderType, HistoryType
<1> QED
  BY <1>1 DEF TypeOK, QueueOK, FlagOK, PlaceOK, HandOK, EncoderOK, HistoryOK

(* One thread goes on.                                                     *)
LEMMA Moves ==
  ASSUME TypeOK, NEW t \in Threads, NEW l \in Labels, Go(t, l)
  PROVE  pc'[t] = l /\ \A u \in Threads : u # t => pc'[u] = pc[u]
  BY Gone DEF TypeOK

(* What the steps that branch leave of the threads and of the packets in   *)
(* their hands.                                                            *)
LEMMA ProduceMoves ==
  ASSUME TypeOK, NEW k \in Kinds, Produce(k), ~ disconnected, active
  PROVE  /\ hand'.send = hand.send /\ hand'.encoder = <<Packet(k)>> /\ pc'["encoder"] = "add"
         /\ pc'["send"] = pc["send"] /\ pc'["connect"] = pc["connect"]
<1>1. Go("encoder", "add") /\ hand' = [hand EXCEPT !.encoder = <<Packet(k)>>]
  BY DEF Produce
<1>2. hand'.send = hand.send /\ hand'.encoder = <<Packet(k)>>
  BY <1>1 DEF TypeOK
<1> QED
  BY <1>1, <1>2, Moves, Names

LEMMA AddMoves ==
  ASSUME TypeOK, Add
  PROVE  /\ hand'.send = hand.send /\ hand'.encoder = <<>>
         /\ pc["encoder"] = "add" /\ pc'["encoder"] \in {"idle", "post"}
         /\ pc'["send"] = pc["send"] /\ pc'["connect"] = pc["connect"]
<1>1. hand'.send = hand.send /\ hand'.encoder = <<>> /\ pc["encoder"] = "add"
  BY DEF Add, At, TypeOK
<1>2. ASSUME NEW l \in {"idle", "post"}, Go("encoder", l)
      PROVE  /\ pc'["encoder"] \in {"idle", "post"} /\ pc'["send"] = pc["send"]
             /\ pc'["connect"] = pc["connect"]
  BY <1>2, Moves, Names
<1>3. ASSUME NEW b, Go("encoder", IF b THEN "post" ELSE "idle")
      PROVE  \E l \in {"idle", "post"} : Go("encoder", l)
  BY <1>3
<1>4. \E l \in {"idle", "post"} : Go("encoder", l)
  BY <1>3 DEF Add
<1> QED
  BY <1>1, <1>2, <1>4

LEMMA WaitMoves ==
  ASSUME TypeOK, Wait
  PROVE  /\ pc["send"] = "wait"
         /\ pc'["send"] = IF stop_event /\ stop_ts = 0 THEN "close" ELSE "next"
         /\ pc'["encoder"] = pc["encoder"] /\ pc'["connect"] = pc["connect"]
<1>1. ASSUME NEW l \in Labels, Go("send", l)
      PROVE  /\ pc'["send"] = l /\ pc'["encoder"] = pc["encoder"]
             /\ pc'["connect"] = pc["connect"]
  BY <1>1, Moves, Names
<1> QED
  BY <1>1, Names DEF Wait, At

LEMMA GetMoves ==
  ASSUME TypeOK, Places, GetNextPacket
  PROVE  /\ hand'.encoder = hand.encoder /\ hand.send = <<>> /\ pc["send"] = "next"
         /\ pc'["encoder"] = pc["encoder"] /\ pc'["connect"] = pc["connect"]
         /\ \/ /\ packets = <<>> /\ pc'["send"] = "wait" /\ hand'.send = <<>>
               /\ UNCHANGED <<packets, sent>>
            \/ /\ packets # <<>> /\ packets' = Tail(packets)
               /\ sent' = [sent EXCEPT ![packets[1].audio] = @ + 1]
               /\ \/ /\ stop_event /\ can_shutdown_stream(packets[1])
                     /\ pc'["send"] = "close" /\ hand'.send = <<>>
                  \/ pc'["send"] = "send" /\ hand'.send = <<packets[1]>>
<1>1. ASSUME NEW l \in Labels, Go("send", l)
      PROVE  /\ pc'["send"] = l /\ pc'["encoder"] = pc["encoder"]
             /\ pc'["connect"] = pc["connect"]
  BY <1>1, Moves, Names
<1>2. pc["send"] = "next" /\ hand.send = <<>>
  BY Hands DEF GetNextPacket, At
<1>3. hand' = [hand EXCEPT !.send = <<packets[1]>>]
        => hand'.encoder = hand.encoder /\ hand'.send = <<packets[1]>>
  BY DEF TypeOK
<1>4. CASE packets = <<>>
  <2>1. Go("send", "wait") /\ UNCHANGED <<packets, hand, sent>>
    BY <1>4 DEF GetNextPacket
  <2> QED
    BY <1>1, <1>2, <1>4, <2>1, Names
<1>5. CASE packets # <<>>
  <2>1. /\ packets' = Tail(packets) /\ sent' = [sent EXCEPT ![packets[1].audio] = @ + 1]
        /\ \/ /\ stop_event /\ can_shutdown_stream(packets[1])
              /\ Go("send", "close") /\ UNCHANGED hand
           \/ Go("send", "send") /\ hand' = [hand EXCEPT !.send = <<packets[1]>>]
    BY <1>5 DEF GetNextPacket
  <2>2. /\ hand'.encoder = hand.encoder
        /\ pc'["encoder"] = pc["encoder"] /\ pc'["connect"] = pc["connect"]
        /\ \/ /\ stop_event /\ can_shutdown_stream(packets[1])
              /\ pc'["send"] = "close" /\ hand'.send = <<>>
           \/ pc'["send"] = "send" /\ hand'.send = <<packets[1]>>
    BY <1>1, <1>2, <1>3, <2>1, Names
  <2> QED
    BY <1>2, <1>5, <2>1, <2>2
<1> QED
  BY <1>4, <1>5

LEMMA SendMoves ==
  ASSUME TypeOK, Send
  PROVE  /\ hand'.send = <<>> /\ hand'.encoder = hand.encoder /\ pc["send"] = "send"
         /\ \/ /\ pc'["send"] = "wait" /\ UNCHANGED disconnected
               /\ shown' = IF Reference(hand.send[1]) THEN hand.send[1].dts ELSE shown
            \/ pc'["send"] = "close" /\ disconnected'
         /\ pc'["encoder"] = pc["encoder"] /\ pc'["connect"] = pc["connect"]
<1>1. ASSUME NEW l \in Labels, Go("send", l)
      PROVE  /\ pc'["send"] = l /\ pc'["encoder"] = pc["encoder"]
             /\ pc'["connect"] = pc["connect"]
  BY <1>1, Moves, Names
<1>2. hand'.send = <<>> /\ hand'.encoder = hand.encoder /\ pc["send"] = "send"
  BY DEF Send, At, TypeOK
<1>3. \/ /\ Go("send", "wait") /\ UNCHANGED disconnected
         /\ shown' = IF Reference(hand.send[1]) THEN hand.send[1].dts ELSE shown
      \/ Go("send", "close") /\ disconnected'
  BY DEF Send, Reference
<1> QED
  BY <1>1, <1>2, <1>3, Names

LEMMA PlacesStep ==
  ASSUME TypeOK, Places, Next, NoMetadataFault PROVE Places'
<1> USE DEF Places, At, Sending
<1>1. CASE InitConnect
  <2>1. At("send", "idle") /\ At("connect", "idle") /\ capture = "off" /\ At("encoder", "idle")
    BY <1>1 DEF InitConnect
  <2>2. /\ pc'["connect"] = "send" /\ pc'["send"] = "idle" /\ pc'["encoder"] = "idle"
    BY <1>1, <2>1, Moves, Names DEF InitConnect
  <2> QED
    BY <1>1, <2>1, <2>2 DEF InitConnect
<1>2. CASE ConnectFails
  <2>1. /\ pc'["connect"] = "idle" /\ pc'["send"] = pc["send"] /\ pc'["encoder"] = pc["encoder"]
    BY <1>2, Moves, Names DEF ConnectFails
  <2> QED
    BY <1>2, <2>1 DEF ConnectFails, flagVars, historyVars, queueVars
<1>3. CASE InitSend
  <2>1. /\ pc'["connect"] = "metadata" /\ pc'["send"] = "wait" /\ pc'["encoder"] = pc["encoder"]
    BY <1>3 DEF InitSend, TypeOK, Threads
  <2> QED
    BY <1>3, <2>1 DEF InitSend
<1>4. CASE Metadata
  <2>1. /\ pc'["connect"] = "idle" /\ pc'["send"] = pc["send"] /\ pc'["encoder"] = pc["encoder"]
    BY <1>4, Moves, Names DEF Metadata
  <2>2. capture' = "on"
    BY <1>4 DEF Metadata, NoMetadataFault
  <2> QED
    BY <1>4, <2>1, <2>2 DEF Metadata, flagVars, historyVars, queueVars
<1>5. ASSUME NEW k \in Kinds, Produce(k) PROVE Places'
  <2>1. CASE disconnected \/ ~ active
    BY <1>5, <2>1 DEF Produce, flagVars, historyVars, queueVars
  <2>2. CASE ~ (disconnected \/ ~ active)
    <3>1. pc'["encoder"] = "add" /\ pc'["send"] = pc["send"] /\ pc'["connect"] = pc["connect"]
          /\ hand'.send = hand.send /\ hand'.encoder = <<Packet(k)>>
      BY <1>5, <2>2, ProduceMoves
    <3>3. Len(hand'.encoder) = 1
      BY <3>1
    <3> QED
      BY <1>5, <3>1, <3>3 DEF Produce, flagVars, historyVars, queueVars
  <2> QED
    BY <2>1, <2>2
<1>6. CASE Add
  <2>1. /\ hand'.send = hand.send /\ hand'.encoder = <<>>
        /\ pc'["encoder"] \in {"idle", "post"} /\ pc'["send"] = pc["send"]
        /\ pc'["connect"] = pc["connect"]
    BY <1>6, AddMoves
  <2>2. capture # "off" /\ At("encoder", "add")
    BY <1>6 DEF Add
  <2> QED
    BY <1>6, <2>1, <2>2 DEF Add, flagVars, historyVars
<1>7. CASE Post
  <2>1. pc'["encoder"] = "idle" /\ pc'["send"] = pc["send"] /\ pc'["connect"] = pc["connect"]
    BY <1>7, Moves, Names DEF Post
  <2> QED
    BY <1>7, <2>1 DEF Post, flagVars, historyVars, queueVars
<1>8. CASE Wait
  <2>1. /\ pc["send"] = "wait" /\ pc'["send"] \in {"close", "next"}
        /\ pc'["encoder"] = pc["encoder"] /\ pc'["connect"] = pc["connect"]
    BY <1>8, WaitMoves
  <2> QED
    BY <1>8, <2>1 DEF Wait, flagVars, historyVars, queueVars
<1>9. CASE GetNextPacket
  <2>1. /\ hand'.encoder = hand.encoder /\ pc["send"] = "next"
        /\ \/ pc'["send"] \in {"wait", "close"} /\ hand'.send = <<>>
           \/ pc'["send"] = "send" /\ hand'.send = <<packets[1]>>
        /\ pc'["encoder"] = pc["encoder"] /\ pc'["connect"] = pc["connect"]
    BY <1>9, GetMoves
  <2>2. UNCHANGED <<active, disconnected, capture, orphans>>
    BY <1>9 DEF GetNextPacket, flagVars
  <2>3. Len(<<packets[1]>>) = 1 /\ Len(<<>>) = 0
    OBVIOUS
  <2>4. Len(hand'.send) = IF pc'["send"] = "send" THEN 1 ELSE 0
    BY <2>1, <2>3
  <2>5. Len(hand'.encoder) = Len(hand.encoder)
    BY <2>1
  <2> QED
    BY <2>1, <2>2, <2>4, <2>5
<1>10. CASE Send
  <2>1. /\ hand'.send = <<>> /\ hand'.encoder = hand.encoder /\ pc["send"] = "send"
        /\ \/ pc'["send"] = "wait" /\ UNCHANGED disconnected
           \/ pc'["send"] = "close"
        /\ pc'["encoder"] = pc["encoder"] /\ pc'["connect"] = pc["connect"]
    BY <1>10, SendMoves
  <2> QED
    BY <1>10, <2>1 DEF Send, queueVars
<1>11. CASE Close
  <2>1. /\ pc'["send"] = "free" /\ pc'["encoder"] = pc["encoder"]
        /\ pc'["connect"] = pc["connect"]
    BY <1>11, Moves, Names DEF Close
  <2> QED
    BY <1>11, <2>1 DEF Close, flagVars, historyVars, queueVars
<1>12. CASE Finish
  <2>1. /\ pc'["send"] = "idle" /\ pc'["encoder"] = pc["encoder"]
        /\ pc'["connect"] = pc["connect"]
    BY <1>12, Moves, Names DEF Finish
  <2> QED
    BY <1>12, <2>1 DEF Finish, historyVars
<1>13. CASE (\E ts \in {0, dts, dts + 1} : StopTime(ts)) \/ StopSignal
  <2>1. pc'["send"] = pc["send"] /\ pc'["encoder"] = pc["encoder"] /\ pc'["connect"] = pc["connect"]
    BY <1>13, Moves, Names DEF StopTime, StopSignal
  <2> QED
    BY <1>13, <2>1 DEF StopTime, StopSignal, historyVars, queueVars
<1>14. CASE Stall \/ EndCapture \/ Timeout
  BY <1>14 DEF Stall, EndCapture, Timeout, flagVars, historyVars, queueVars
<1> QED
  BY <1>1, <1>2, <1>3, <1>4, <1>5, <1>6, <1>7, <1>8, <1>9, <1>10, <1>11, <1>12, <1>13, <1>14
  DEF Next, Connect, EncoderStep, SendThread

LEMMA TokensStep ==
  ASSUME TypeOK, Places, Tokens, Next PROVE Tokens'
<1> USE DEF Tokens, At, Sending
<1>1. packets \in Seq(PacketSet) /\ Len(packets) \in Nat /\ send_sem \in Nat
  BY DEF TypeOK
<1>2. ASSUME UNCHANGED <<packets, send_sem, pc>> PROVE Tokens'
  BY <1>2
<1>3. CASE InitConnect \/ ConnectFails
  <2>1. pc'["send"] = pc["send"] /\ pc["send"] # "next" /\ ~ Sending
    BY <1>3, Moves, Names DEF InitConnect, ConnectFails, Places
  <2> QED
    BY <2>1
<1>4. CASE InitSend
  <2>1. pc'["send"] = "wait" /\ packets' = <<>> /\ send_sem' = 0
    BY <1>4 DEF InitSend, TypeOK, Places, Threads, queueVars
  <2>2. Len(<<>>) = 0
    OBVIOUS
  <2> QED
    BY <2>1, <2>2
<1>5. CASE Metadata
  <2>1. pc'["send"] = pc["send"] /\ pc'["encoder"] = pc["encoder"]
    BY <1>5, Moves, Names DEF Metadata
  <2> QED
    BY <1>5, <2>1 DEF Metadata, queueVars
<1>6. ASSUME NEW k \in Kinds, Produce(k) PROVE Tokens'
  <2>1. pc'["send"] = pc["send"] /\ pc["encoder"] = "idle" /\ pc'["encoder"] \in {"idle", "add"}
    BY <1>6, Moves, Names DEF Produce
  <2> QED
    BY <1>6, <2>1 DEF Produce, queueVars
<1>7. CASE Add
  <2>1. /\ pc["encoder"] = "add" /\ pc'["encoder"] \in {"idle", "post"}
        /\ pc'["send"] = pc["send"]
    BY <1>7, AddMoves
  <2>2. send_sem' = send_sem
    BY <1>7 DEF Add
  <2>3. CASE disconnected
    BY <2>1, <2>3 DEF Places
  <2>4. CASE ~ disconnected
    <3> DEFINE p == hand.encoder[1]
    <3>1. PICK s \in QueueRecord : Thinned(Queue, s) /\ (Refused(s, p) \/ Accepted(s, p))
      BY <1>7, <2>4, AddCases
    <3>2. s.queue \in Seq(PacketSet) /\ Len(s.queue) \in Nat /\ Len(s.queue) <= Len(packets)
      BY <3>1 DEF Thinned, QueueRecord, Queue
    <3>3. p \in PacketSet
      BY <1>7, Hands DEF Add
    <3> HIDE DEF p
    <3>4. Len(Append(s.queue, p)) = Len(s.queue) + 1
      BY <3>2, <3>3
    <3>5. \/ packets' = s.queue
          \/ packets' = Append(s.queue, p) /\ pc'["encoder"] = "post"
      BY <3>1 DEF Refused, Accepted
    <3> QED
      BY <1>1, <2>1, <2>2, <3>2, <3>4, <3>5
  <2> QED
    BY <2>3, <2>4
<1>8. CASE Post
  <2>1. pc["encoder"] = "post" /\ pc'["encoder"] = "idle" /\ pc'["send"] = pc["send"]
    BY <1>8, Moves, Names DEF Post
  <2>2. packets' = packets /\ send_sem' = send_sem + 1
    BY <1>8 DEF Post, queueVars
  <2> QED
    BY <1>1, <2>1, <2>2
<1>9. CASE Wait
  <2>1. /\ pc["send"] = "wait" /\ pc'["send"] \in {"close", "next"}
        /\ pc'["encoder"] = pc["encoder"]
    BY <1>9, WaitMoves
  <2>2. packets' = packets /\ send_sem > 0 /\ send_sem' = send_sem - 1
    BY <1>9 DEF Wait, queueVars
  <2> QED
    BY <1>1, <2>1, <2>2
<1>10. CASE GetNextPacket
  <2>1. send_sem' = send_sem
    BY <1>10 DEF GetNextPacket
  <2>2. /\ pc["send"] = "next" /\ pc'["encoder"] = pc["encoder"]
        /\ pc'["send"] \in {"wait", "send", "close"}
        /\ \/ packets = <<>> /\ packets' = packets
           \/ packets # <<>> /\ packets' = Tail(packets)
    BY <1>10, GetMoves
  <2>3. packets # <<>> => Len(Tail(packets)) = Len(packets) - 1
    BY <1>1
  <2>4. Len(<<>>) = 0
    OBVIOUS
  <2> QED
    BY <1>1, <2>1, <2>2, <2>3, <2>4
<1>11. CASE Send
  <2>1. /\ pc["send"] = "send" /\ pc'["send"] \in {"wait", "close"}
        /\ pc'["encoder"] = pc["encoder"]
    BY <1>11, SendMoves
  <2> QED
    BY <1>11, <2>1 DEF Send, queueVars
<1>12. CASE Close \/ Finish
  <2>1. pc'["send"] \in {"free", "idle"}
    BY <1>12, Moves, Names DEF Close, Finish
  <2> QED
    BY <2>1
<1>13. CASE \E ts \in {0, dts, dts + 1} : StopTime(ts)
  <2>1. pc'["send"] = pc["send"] /\ pc'["encoder"] = pc["encoder"]
    BY <1>13, Moves, Names DEF StopTime
  <2> QED
    BY <1>13, <2>1 DEF StopTime, queueVars
<1>14. CASE StopSignal
  <2>1. pc'["send"] = pc["send"] /\ pc'["encoder"] = pc["encoder"]
    BY <1>14, Moves, Names DEF StopSignal
  <2>2. packets' = packets /\ (send_sem' = send_sem \/ send_sem' = send_sem + 1)
    BY <1>14 DEF StopSignal, queueVars
  <2> QED
    BY <1>1, <2>1, <2>2
<1>15. CASE Stall \/ EndCapture \/ Timeout
  BY <1>2, <1>15 DEF Stall, EndCapture, Timeout, queueVars
<1> QED
  BY <1>3, <1>4, <1>5, <1>6, <1>7, <1>8, <1>9, <1>10, <1>11, <1>12, <1>13, <1>14, <1>15
  DEF Next, Connect, EncoderStep, SendThread

LEMMA FreshStep ==
  ASSUME TypeOK, Places, Fresh, Next PROVE Fresh'
<1> USE DEF Fresh, At
<1>1. CASE InitConnect
  BY <1>1 DEF InitConnect
<1>2. CASE ConnectFails \/ InitSend \/ Metadata
  <2>1. pc'["connect"] # "send"
    BY <1>2, Moves, Names DEF ConnectFails, InitSend, Metadata, TypeOK, Threads
  <2> QED
    BY <2>1
<1>3. ASSUME NEW k \in Kinds, Produce(k) PROVE Fresh'
  <2>1. pc["connect"] # "send"
    BY <1>3 DEF Produce, Places
  <2>2. pc'["connect"] = pc["connect"]
    BY <1>3, Moves, Names DEF Produce
  <2> QED
    BY <2>1, <2>2
<1>4. CASE Add
  <2>1. pc'["connect"] = pc["connect"]
    BY <1>4, AddMoves
  <2>2. pc["connect"] # "send"
    BY <1>4 DEF Add, Places
  <2> QED
    BY <2>1, <2>2
<1>5. CASE Wait \/ GetNextPacket \/ Send
  <2>1. pc'["connect"] = pc["connect"] /\ pc["send"] # "idle"
    BY <1>5, WaitMoves, GetMoves, SendMoves
  <2> QED
    BY <2>1 DEF Places
<1>6. CASE Post \/ Close \/ Finish \/ StopSignal \/ \E ts \in {0, dts, dts + 1} : StopTime(ts)
  <2>1. pc'["connect"] = pc["connect"]
    BY <1>6, Moves, Names DEF Post, Close, Finish, StopTime, StopSignal
  <2> QED
    BY <1>6, <2>1
    DEF Post, Close, Finish, StopTime, StopSignal, encoderVars, historyVars, queueVars
<1>7. CASE Stall \/ EndCapture \/ Timeout
  BY <1>7 DEF Stall, EndCapture, Timeout, encoderVars, historyVars, queueVars
<1> QED
  BY <1>1, <1>2, <1>3, <1>4, <1>5, <1>6, <1>7 DEF Next, Connect, EncoderStep, SendThread

(* After the encoder's step the queue holds packets that it held before,   *)
(* in their order, and perhaps the one from the encoder's hand behind them.*)
LEMMA AfterAdd ==
  ASSUME TypeOK, Places, Add, NEW p, p = hand.encoder[1],
         NEW k \in DOMAIN packets', NEW l \in DOMAIN packets', k <= l
  PROVE  \/ \E i, j \in DOMAIN packets : i <= j /\ packets'[k] = packets[i] /\ packets'[l] = packets[j]
         \/ /\ packets'[l] = p
            /\ packets'[k] = p \/ \E i \in DOMAIN packets : packets'[k] = packets[i]
<1>1. packets \in Seq(PacketSet) /\ DOMAIN packets = 1 .. Len(packets)
  BY DEF TypeOK
<1>2. CASE disconnected
  <2>1. packets' = packets
    BY <1>2 DEF Add, queueVars
  <2> QED
    BY <2>1
<1>3. CASE ~ disconnected
  <2>1. PICK s \in QueueRecord : Thinned(Queue, s) /\ (Refused(s, p) \/ Accepted(s, p))
    BY <1>3, AddCases
  <2> DEFINE r == s.queue
  <2>2. r \in Seq(PacketSet) /\ From(packets, r)
    BY <2>1 DEF Thinned, Queue, QueueRecord
  <2>3. p \in PacketSet
    BY Hands DEF Add
  <2>4. packets' = r \/ packets' = Append(r, p)
    BY <2>1 DEF Refused, Accepted
  <2> HIDE DEF r
  <2>5. ASSUME NEW a \in 1 .. Len(r), NEW b \in 1 .. Len(r), a <= b
        PROVE  \E i, j \in DOMAIN packets : i <= j /\ r[a] = packets[i] /\ r[b] = packets[j]
    <3>1. \E i, j \in 1 .. Len(packets) : i <= j /\ r[a] = packets[i] /\ r[b] = packets[j]
      BY <2>2, <2>5 DEF From
    <3> QED
      BY <1>1, <3>1, Zenon
  <2>6. CASE packets' = r
    <3>1. k \in 1 .. Len(r) /\ l \in 1 .. Len(r)
      BY <2>2, <2>6
    <3> QED
      BY <2>5, <2>6, <3>1
  <2>7. CASE packets' = Append(r, p)
    <3> DEFINE t == Append(r, p)
    <3>1. /\ k \in 1 .. Len(r) + 1 /\ l \in 1 .. Len(r) + 1 /\ Len(r) \in Nat
          /\ t[Len(r) + 1] = p /\ \A i \in 1 .. Len(r) : t[i] = r[i]
      <4>1. DOMAIN t = 1 .. Len(r) + 1 /\ Len(r) \in Nat /\ t[Len(r) + 1] = p
            /\ \A i \in 1 .. Len(r) : t[i] = r[i]
        BY <2>2, <2>3
      <4>2. k \in DOMAIN t /\ l \in DOMAIN t
        BY <2>7
      <4> QED
        BY <4>1, <4>2
    <3>2. packets' = t
      BY <2>7
    <3> HIDE DEF t
    <3>3. CASE l \in 1 .. Len(r)
      <4>1. k \in 1 .. Len(r)
        BY <3>1, <3>3
      <4> QED
        BY <2>5, <3>1, <3>2, <3>3, <4>1
    <3>4. CASE l = Len(r) + 1
      <4>1. packets'[k] = p \/ \E i \in DOMAIN packets : packets'[k] = packets[i]
        <5>1. CASE k \in 1 .. Len(r)
          BY <2>5, <3>1, <3>2, <5>1
        <5>2. CASE k \notin 1 .. Len(r)
          <6>1. k = Len(r) + 1
            BY <3>1, <5>2
          <6> QED
            BY <3>1, <3>2, <6>1
        <5> QED
          BY <5>1, <5>2
      <4> QED
        BY <3>1, <3>2, <3>4, <4>1
    <3> QED
      BY <3>1, <3>3, <3>4
  <2> QED
    BY <2>4, <2>6, <2>7
<1> QED
  BY <1>2, <1>3

LEMMA InOrderStep ==
  ASSUME TypeOK, Places, InOrder, Next PROVE InOrder'
<1>1. /\ packets \in Seq(PacketSet) /\ dts \in Nat
      /\ \A i \in DOMAIN packets : packets[i].dts \in Nat
      /\ hand.encoder \in Seq(PacketSet)
      /\ \A i \in DOMAIN hand.encoder : hand.encoder[i].dts \in Nat
  <2>1. ASSUME NEW q \in Seq(PacketSet), NEW i \in DOMAIN q PROVE q[i].dts \in Nat
    <3>1. q[i] \in PacketSet
      OBVIOUS
    <3> QED
      BY <3>1, FieldTypes
  <2>2. packets \in Seq(PacketSet) /\ dts \in Nat /\ hand.encoder \in Seq(PacketSet)
    BY DEF TypeOK
  <2> QED
    BY <2>1, <2>2
<1>2. ASSUME UNCHANGED <<packets, dts>>, hand'.encoder = hand.encoder PROVE InOrder'
  BY <1>2 DEF InOrder
<1>3. CASE InitConnect
  <2>1. hand.encoder = <<>>
    BY <1>3, Hands DEF InitConnect, Places, At
  <2>2. packets' = <<>> /\ hand' = hand
    BY <1>3 DEF InitConnect
  <2>3. DOMAIN <<>> = {}
    OBVIOUS
  <2> QED
    BY <2>1, <2>2, <2>3 DEF InOrder
<1>4. ASSUME NEW k \in Kinds, Produce(k) PROVE InOrder'
  <2>1. packets' = packets /\ dts' \in Nat /\ dts <= dts'
    BY <1>1, <1>4 DEF Produce, queueVars
  <2>2. hand' = hand \/ hand' = [hand EXCEPT !.encoder = <<Packet(k)>>]
    BY <1>4 DEF Produce
  <2>3. hand.encoder = <<>>
    BY <1>4, Hands DEF Produce, At
  <2>4. \A i \in DOMAIN hand'.encoder : hand'.encoder[i].dts = dts
    <3>1. CASE hand' = hand
      BY <2>3, <3>1
    <3>2. CASE hand' = [hand EXCEPT !.encoder = <<Packet(k)>>]
      <4>1. hand'.encoder = <<Packet(k)>>
        BY <3>2 DEF TypeOK
      <4> DEFINE p == Packet(k)
      <4>2. p.dts = dts
        BY PacketType
      <4> HIDE DEF p
      <4>3. \A i \in DOMAIN <<p>> : <<p>>[i] = p
        OBVIOUS
      <4> QED
        BY <4>1, <4>2, <4>3 DEF p
    <3> QED
      BY <2>2, <3>1, <3>2
  <2>5. \A i \in DOMAIN packets : packets[i].dts <= dts'
    BY <1>1, <2>1 DEF InOrder
  <2> QED
    BY <2>1, <2>4, <2>5 DEF InOrder
<1>5. CASE Add
  <2> DEFINE p == hand.encoder[1]
  <2>1. hand'.encoder = <<>> /\ dts' = dts
    BY <1>5, AddMoves DEF Add, encoderVars
  <2>2. 1 \in DOMAIN hand.encoder
    <3>1. Len(hand.encoder) = 1
      BY <1>5 DEF Add, Places
    <3> QED
      BY <1>1, <3>1
  <2>3. p.dts \in Nat /\ p.dts <= dts /\ \A i \in DOMAIN packets : packets[i].dts <= p.dts
    BY <1>1, <2>2 DEF InOrder
  <2> HIDE DEF p
  <2>4. ASSUME NEW k \in DOMAIN packets', NEW l \in DOMAIN packets', k <= l
        PROVE  packets'[k].dts <= packets'[l].dts /\ packets'[l].dts <= dts
    <3>1. \/ \E i, j \in DOMAIN packets : i <= j /\ packets'[k] = packets[i] /\ packets'[l] = packets[j]
          \/ /\ packets'[l] = p
             /\ packets'[k] = p \/ \E i \in DOMAIN packets : packets'[k] = packets[i]
      BY <1>5, <2>4, AfterAdd DEF p
    <3>2. \A i, j \in DOMAIN packets : i <= j => packets[i].dts <= packets[j].dts
      BY DEF InOrder
    <3> QED
      BY <1>1, <2>3, <3>1, <3>2 DEF InOrder
  <2>5. \A l \in DOMAIN packets' : packets'[l].dts <= dts
    <3> TAKE l \in DOMAIN packets'
    <3>1. l <= l
      <4>1. packets' \in Seq(PacketSet)
        BY TypeStep, <1>5 DEF Next, EncoderStep, TypeOK
      <4> QED
        BY <4>1
    <3> QED
      BY <2>4, <3>1
  <2>6. DOMAIN <<>> = {}
    OBVIOUS
  <2> QED
    BY <2>1, <2>4, <2>5, <2>6 DEF InOrder
<1>6. CASE GetNextPacket
  <2>1. hand'.encoder = hand.encoder /\ dts' = dts /\ (packets' = packets \/ packets' = Tail(packets))
        /\ (packets = <<>> => packets' = packets)
    BY <1>6, GetMoves DEF GetNextPacket, encoderVars
  <2>2. CASE packets' = packets
    BY <1>2, <2>1, <2>2
  <2>3. CASE packets # <<>> /\ packets' = Tail(packets)
    <3>1. \A i \in DOMAIN Tail(packets) : /\ i + 1 \in DOMAIN packets
                                          /\ Tail(packets)[i] = packets[i + 1]
      BY <1>1, <2>3
    <3>2. \A i, j \in DOMAIN Tail(packets) : i <= j => i + 1 <= j + 1
      BY <1>1, <2>3
    <3> QED
      BY <2>1, <2>3, <3>1, <3>2 DEF InOrder
  <2> QED
    BY <2>1, <2>2, <2>3
<1>7. CASE Finish
  <2>1. packets' = <<>> /\ dts' = dts /\ hand' = hand
    BY <1>7 DEF Finish, encoderVars
  <2>2. DOMAIN <<>> = {}
    OBVIOUS
  <2> QED
    BY <2>1, <2>2 DEF InOrder
<1>8. CASE Send
  BY <1>2, <1>8, SendMoves DEF Send, queueVars, encoderVars
<1>9. CASE ConnectFails \/ InitSend \/ Metadata \/ Post \/ Wait \/ Close
  BY <1>2, <1>9 DEF ConnectFails, InitSend, Metadata, Post, Wait, Close, queueVars, encoderVars
<1>10. CASE Stall \/ EndCapture \/ StopSignal \/ Timeout
            \/ \E ts \in {0, dts, dts + 1} : StopTime(ts)
  BY <1>2, <1>10 DEF Stall, EndCapture, StopSignal, Timeout, StopTime, queueVars, encoderVars
<1> QED
  BY <1>3, <1>4, <1>5, <1>6, <1>7, <1>8, <1>9, <1>10 DEF Next, Connect, EncoderStep, SendThread

LEMMA StoppedStep ==
  ASSUME TypeOK, Places, InOrder, Stopped, Next PROVE Stopped'
<1> DEFINE Late == /\ \A i \in DOMAIN packets : packets[i].dts >= stop_ts
                   /\ \A k \in DOMAIN hand.encoder : hand.encoder[k].dts >= stop_ts
                   /\ dts >= stop_ts
<1>1. /\ packets \in Seq(PacketSet) /\ dts \in Nat /\ stop_ts \in Nat
      /\ \A i \in DOMAIN packets : packets[i].dts \in Nat
      /\ hand.encoder \in Seq(PacketSet)
      /\ \A i \in DOMAIN hand.encoder : hand.encoder[i].dts \in Nat
  <2>1. ASSUME NEW q \in Seq(PacketSet), NEW i \in DOMAIN q PROVE q[i].dts \in Nat
    <3>1. q[i] \in PacketSet
      OBVIOUS
    <3> QED
      BY <3>1, FieldTypes
  <2>2. packets \in Seq(PacketSet) /\ dts \in Nat /\ hand.encoder \in Seq(PacketSet)
        /\ stop_ts \in Nat
    BY DEF TypeOK
  <2> QED
    BY <2>1, <2>2
<1>2. ASSUME UNCHANGED <<packets, dts, stop_ts>>, hand'.encoder = hand.encoder, Late PROVE Late'
  BY <1>2
<1>3. ASSUME NEW k \in Kinds, Produce(k), Late PROVE Late'
  <2>1. packets' = packets /\ dts' \in Nat /\ dts <= dts' /\ stop_ts' = stop_ts
    BY <1>1, <1>3 DEF Produce, queueVars, flagVars
  <2>2. hand' = hand \/ hand' = [hand EXCEPT !.encoder = <<Packet(k)>>]
    BY <1>3 DEF Produce
  <2>3. \A i \in DOMAIN hand'.encoder : hand'.encoder[i].dts >= stop_ts
    <3>1. CASE hand' = hand
      BY <1>3, <3>1
    <3>2. CASE hand' = [hand EXCEPT !.encoder = <<Packet(k)>>]
      <4>1. hand'.encoder = <<Packet(k)>>
        BY <3>2 DEF TypeOK
      <4> DEFINE p == Packet(k)
      <4>2. p.dts = dts
        BY PacketType
      <4> HIDE DEF p
      <4>3. \A i \in DOMAIN <<p>> : <<p>>[i] = p
        OBVIOUS
      <4> QED
        BY <1>3, <4>1, <4>2, <4>3 DEF p
    <3> QED
      BY <2>2, <3>1, <3>2
  <2>4. dts' >= stop_ts
    BY <1>1, <1>3, <2>1
  <2> QED
    BY <1>3, <2>1, <2>3, <2>4
<1>4. ASSUME Add, Late PROVE Late'
  <2> DEFINE p == hand.encoder[1]
  <2>1. hand'.encoder = <<>> /\ dts' = dts /\ stop_ts' = stop_ts
    BY <1>4, AddMoves DEF Add, encoderVars, flagVars
  <2>2. 1 \in DOMAIN hand.encoder
    <3>1. Len(hand.encoder) = 1
      BY <1>4 DEF Add, Places
    <3> QED
      BY <1>1, <3>1
  <2>3. p.dts >= stop_ts
    BY <1>4, <2>2
  <2> HIDE DEF p
  <2>4. \A l \in DOMAIN packets' : packets'[l].dts >= stop_ts
    <3> TAKE l \in DOMAIN packets'
    <3>1. l <= l
      <4>1. packets' \in Seq(PacketSet)
        BY TypeStep, <1>4 DEF Next, EncoderStep, TypeOK
      <4> QED
        BY <4>1
    <3>2. packets'[l] = p \/ \E j \in DOMAIN packets : packets'[l] = packets[j]
      BY <1>4, <3>1, AfterAdd DEF p
    <3> QED
      BY <1>4, <2>3, <3>2
  <2>5. DOMAIN <<>> = {}
    OBVIOUS
  <2> QED
    BY <1>4, <2>1, <2>4, <2>5
<1>5. ASSUME GetNextPacket, stop_event, can_shutdown_stream(packets[1]), packets' = Tail(packets),
             packets # <<>>
      PROVE  timeout \/ Late'
  <2>1. hand'.encoder = hand.encoder /\ dts' = dts /\ stop_ts' = stop_ts
    BY <1>5, GetMoves DEF GetNextPacket, encoderVars, flagVars
  <2>2. timeout \/ packets[1].dts >= stop_ts
    BY <1>5 DEF can_shutdown_stream
  <2>3. 1 \in DOMAIN packets
    BY <1>1, <1>5
  <2>4. CASE packets[1].dts >= stop_ts
    <3>1. \A i \in DOMAIN Tail(packets) : /\ i + 1 \in DOMAIN packets /\ 1 <= i + 1
                                          /\ Tail(packets)[i] = packets[i + 1]
      BY <1>1, <1>5
    <3>2. \A i \in DOMAIN Tail(packets) : Tail(packets)[i].dts >= stop_ts
      BY <1>1, <2>3, <2>4, <3>1 DEF InOrder
    <3>3. \A k \in DOMAIN hand.encoder : hand.encoder[k].dts >= stop_ts
      BY <1>1, <2>3, <2>4 DEF InOrder
    <3>4. dts >= stop_ts
      BY <1>1, <2>3, <2>4 DEF InOrder
    <3> QED
      BY <1>5, <2>1, <3>2, <3>3, <3>4
  <2> QED
    BY <2>2, <2>4
<1>6. ASSUME stop_ts = 0 PROVE Late
  BY <1>1, <1>6
<1>7. Stopped <=> (At("send", "close") /\ ~ disconnected => stop_event /\ (timeout \/ Late))
  BY DEF Stopped
<1>8. (At("send", "close") /\ ~ disconnected => stop_event /\ (timeout \/ Late))' => Stopped'
  BY DEF Stopped
<1> HIDE DEF Late
<1> USE DEF At
<1>9. ASSUME pc'["send"] = pc["send"], UNCHANGED <<disconnected, stop_event, timeout>>,
             Late => Late'
      PROVE  Stopped'
  BY <1>7, <1>8, <1>9
<1>10. ASSUME pc'["send"] # "close" PROVE Stopped'
  BY <1>8, <1>10
<1>11. CASE Connect
  <2>1. CASE InitConnect
    BY <2>1, <1>10, Moves, Names DEF InitConnect
  <2>2. CASE InitSend
    BY <2>2, <1>10 DEF InitSend, TypeOK, Threads
  <2>3. CASE ConnectFails \/ Metadata
    <3>1. pc'["send"] = pc["send"]
      BY <2>3, Moves, Names DEF ConnectFails, Metadata
    <3> QED
      BY <1>2, <1>9, <2>3, <3>1 DEF ConnectFails, Metadata, queueVars, flagVars, encoderVars
  <2> QED
    BY <1>11, <2>1, <2>2, <2>3 DEF Connect
<1>12. ASSUME NEW k \in Kinds, Produce(k) PROVE Stopped'
  <2>1. pc'["send"] = pc["send"]
    BY <1>12, Moves, Names DEF Produce
  <2> QED
    BY <1>3, <1>9, <1>12, <2>1 DEF Produce, flagVars
<1>13. CASE Add
  BY <1>4, <1>9, <1>13, AddMoves DEF Add, flagVars
<1>14. CASE Post
  <2>1. pc'["send"] = pc["send"]
    BY <1>14, Moves, Names DEF Post
  <2> QED
    BY <1>2, <1>9, <1>14, <2>1 DEF Post, queueVars, flagVars, encoderVars
<1>15. CASE Wait
  <2>1. pc'["send"] = "close" => stop_event /\ stop_ts = 0
    BY <1>15, WaitMoves
  <2>2. stop_event' = stop_event /\ (Late => Late')
    BY <1>2, <1>15 DEF Wait, queueVars, flagVars, encoderVars
  <2> QED
    BY <1>6, <1>8, <2>1, <2>2
<1>16. CASE GetNextPacket
  <2>1. stop_event' = stop_event /\ timeout' = timeout
    BY <1>16 DEF GetNextPacket, flagVars
  <2>2. pc'["send"] = "close"
          => /\ stop_event /\ can_shutdown_stream(packets[1]) /\ packets' = Tail(packets)
             /\ packets # <<>>
    BY <1>16, GetMoves
  <2> QED
    BY <1>5, <1>8, <1>16, <2>1, <2>2
<1>17. CASE Send
  BY <1>8, <1>17, SendMoves
<1>18. CASE Close \/ Finish
  BY <1>10, <1>18, Moves, Names DEF Close, Finish
<1>19. ASSUME NEW ts \in {0, dts, dts + 1}, StopTime(ts) PROVE Stopped'
  <2>1. pc'["send"] = pc["send"] /\ UNCHANGED <<disconnected, stop_event, timeout>>
    BY <1>19, Moves, Names DEF StopTime
  <2>2. stop_event => stop_ts' = 0
    BY <1>19 DEF StopTime
  <2>3. stop_ts' = 0 => Late'
    <3>1. /\ packets' = packets /\ dts' = dts /\ hand' = hand
      BY <1>19 DEF StopTime, queueVars, encoderVars
    <3> QED
      BY <1>1, <3>1 DEF Late
  <2> QED
    BY <1>7, <1>8, <2>1, <2>2, <2>3
<1>20. CASE StopSignal
  <2>1. pc'["send"] = pc["send"] /\ UNCHANGED <<disconnected, timeout>>
        /\ (stop_event => stop_event')
    BY <1>20, Moves, Names DEF StopSignal
  <2>2. Late => Late'
    BY <1>2, <1>20 DEF StopSignal, queueVars, encoderVars
  <2> QED
    BY <1>7, <1>8, <2>1, <2>2
<1>21. CASE Timeout
  <2>1. Late => Late'
    BY <1>2, <1>21 DEF Timeout, queueVars, flagVars, encoderVars
  <2> QED
    BY <1>7, <1>8, <1>21, <2>1 DEF Timeout, flagVars
<1>22. CASE Stall \/ EndCapture
  <2>1. Late => Late'
    BY <1>2, <1>22 DEF Stall, EndCapture, queueVars, flagVars, encoderVars
  <2> QED
    BY <1>9, <1>22, <2>1 DEF Stall, EndCapture, flagVars
<1> QED
  BY <1>11, <1>12, <1>13, <1>14, <1>15, <1>16, <1>17, <1>18, <1>19, <1>20, <1>21, <1>22
  DEF Next, EncoderStep, SendThread

(* The packets of one kind that were taken, are in the queue q and in the  *)
(* encoder's hand h; and the account of both kinds, v and a being FALSE    *)
(* (video) and TRUE (audio).                                               *)
Total(q, h, st, a) == st[a] + Count(q, Len(q), a) + Count(h, Len(h), a)

Balanced(d, c, dr, q, h, st, v, a) ==
  d - 1 = Total(q, h, st, v) + dr /\ c - (d - 1) = Total(q, h, st, a)

LEMMA HandCount ==
  ASSUME NEW p \in PacketSet, NEW a
  PROVE  /\ Count(<<>>, Len(<<>>), a) = 0
         /\ Count(<<p>>, Len(<<p>>), a) = IF p.audio = a THEN 1 ELSE 0
<1>1. Len(<<>>) = 0 /\ Len(<<p>>) = 0 + 1 /\ <<p>>[0 + 1] = p
  OBVIOUS
<1>2. Count(<<>>, 0, a) = 0 /\ Count(<<p>>, 0, a) = 0
  BY CountZero
<1>3. Count(<<p>>, 0 + 1, a) = Count(<<p>>, 0, a) + IF <<p>>[0 + 1].audio = a THEN 1 ELSE 0
  BY CountStep
<1>4. Count(<<>>, Len(<<>>), a) = 0
  BY <1>1, <1>2
<1>5. Count(<<p>>, Len(<<p>>), a) = 0 + IF p.audio = a THEN 1 ELSE 0
  BY <1>1, <1>2, <1>3
<1>6. 0 + (IF p.audio = a THEN 1 ELSE 0) = IF p.audio = a THEN 1 ELSE 0
  OBVIOUS
<1> QED
  BY <1>4, <1>5, <1>6

LEMMA Countable ==
  ASSUME NEW q \in Seq(PacketSet), NEW a PROVE Count(q, Len(q), a) \in Nat /\ Len(q) \in Nat
<1>1. Len(q) \in Nat
  OBVIOUS
<1> QED
  BY <1>1, CountFinite

(* D is the set of the two kinds.                                          *)
TwoKinds(v, a, D) ==
  /\ v \in D /\ a \in D /\ v # a
  /\ \A p \in PacketSet : p.audio \in D /\ (p.audio = v \/ p.audio = a)

(* r is what is left of q, with e dropped instead of dr.                   *)
Left(e, r, dr, q, a) ==
  e + Len(r) = dr + Len(q) /\ Count(r, Len(r), a) = Count(q, Len(q), a)

LEMMA BalancedProduce ==
  ASSUME NEW d \in Nat, NEW c \in Nat, NEW dr \in Nat, NEW q \in Seq(PacketSet),
         NEW D, NEW v, NEW a, TwoKinds(v, a, D), NEW st \in [D -> Nat],
         NEW p \in PacketSet, Balanced(d, c, dr, q, <<>>, st, v, a)
  PROVE  Balanced(IF p.audio = a THEN d ELSE d + 1, c + 1, dr, q, <<p>>, st, v, a)
<1> DEFINE ov == Count(<<>>, Len(<<>>), v)
           oa == Count(<<>>, Len(<<>>), a)
           hv == Count(<<p>>, Len(<<p>>), v)
           ha == Count(<<p>>, Len(<<p>>), a)
           qv == Count(q, Len(q), v)
           qa == Count(q, Len(q), a)
<1>1. (p.audio = v \/ p.audio = a) /\ v # a
  BY DEF TwoKinds
<1>2. st[v] \in Nat /\ st[a] \in Nat /\ qv \in Nat /\ qa \in Nat
  BY Countable DEF TwoKinds
<1>3. /\ ov = 0 /\ oa = 0
      /\ hv = (IF p.audio = v THEN 1 ELSE 0) /\ ha = IF p.audio = a THEN 1 ELSE 0
  BY HandCount
<1>4. d - 1 = st[v] + qv + ov + dr /\ c - (d - 1) = st[a] + qa + oa
  BY DEF Balanced, Total
<1>5. /\ (IF p.audio = a THEN d ELSE d + 1) - 1 = st[v] + qv + hv + dr
      /\ (c + 1) - ((IF p.audio = a THEN d ELSE d + 1) - 1) = st[a] + qa + ha
  <2> DEFINE sv == st[v]
             sa == st[a]
  <2> HIDE DEF ov, oa, hv, ha, qv, qa, sv, sa
  <2>1. /\ d - 1 = sv + qv + 0 + dr /\ c - (d - 1) = sa + qa + 0
        /\ sv \in Nat /\ sa \in Nat /\ qv \in Nat /\ qa \in Nat
    BY <1>2, <1>3, <1>4 DEF sv, sa
  <2>2. CASE p.audio = a
    <3>1. hv = 0 /\ ha = 1
      BY <1>1, <1>3, <2>2
    <3>2. d - 1 = sv + qv + hv + dr /\ (c + 1) - (d - 1) = sa + qa + ha
      BY <2>1, <3>1
    <3> QED
      BY <2>2, <3>2 DEF sv, sa
  <2>3. CASE p.audio # a
    <3>1. hv = 1 /\ ha = 0
      BY <1>1, <1>3, <2>3
    <3>2. (d + 1) - 1 = sv + qv + hv + dr /\ (c + 1) - ((d + 1) - 1) = sa + qa + ha
      BY <2>1, <3>1
    <3> QED
      BY <2>3, <3>2 DEF sv, sa
  <2> QED
    BY <2>2, <2>3
<1> QED
  BY <1>5 DEF Balanced, Total

LEMMA BalancedAdd ==
  ASSUME NEW d \in Nat, NEW c \in Nat, NEW dr \in Nat, NEW q \in Seq(PacketSet),
         NEW D, NEW v, NEW a, TwoKinds(v, a, D), NEW st \in [D -> Nat],
         NEW p \in PacketSet, Balanced(d, c, dr, q, <<p>>, st, v, a),
         NEW e \in Nat, NEW r \in Seq(PacketSet), Left(e, r, dr, q, a)
  PROVE  /\ p.audio = v => Balanced(d, c, e + 1, r, <<>>, st, v, a)
         /\ Balanced(d, c, e, Append(r, p), <<>>, st, v, a)
<1> DEFINE t == Append(r, p)
           ov == Count(<<>>, Len(<<>>), v)
           oa == Count(<<>>, Len(<<>>), a)
           hv == Count(<<p>>, Len(<<p>>), v)
           ha == Count(<<p>>, Len(<<p>>), a)
           qv == Count(q, Len(q), v)
           qa == Count(q, Len(q), a)
           rv == Count(r, Len(r), v)
           ra == Count(r, Len(r), a)
           tv == Count(t, Len(t), v)
           ta == Count(t, Len(t), a)
<1>1. ASSUME NEW s \in Seq(PacketSet), NEW i \in 1 .. Len(s)
      PROVE  s[i].audio = v \/ s[i].audio = a
  <2>1. s[i] \in PacketSet
    OBVIOUS
  <2> QED
    BY <2>1 DEF TwoKinds
<1>2. (p.audio = v \/ p.audio = a) /\ v # a
  BY DEF TwoKinds
<1>3. qv + qa = Len(q) /\ rv + ra = Len(r)
  <2>1. ASSUME NEW s \in Seq(PacketSet)
        PROVE  Count(s, Len(s), v) + Count(s, Len(s), a) = Len(s)
    <3>1. \A i \in 1 .. Len(s) : s[i].audio = v \/ s[i].audio = a
      BY <1>1
    <3> QED
      BY <1>2, <3>1, CountParts
  <2> QED
    BY <2>1
<1>4. /\ st[v] \in Nat /\ st[a] \in Nat /\ qv \in Nat /\ qa \in Nat
      /\ rv \in Nat /\ ra \in Nat /\ Len(q) \in Nat /\ Len(r) \in Nat
  BY Countable DEF TwoKinds
<1>5. /\ ov = 0 /\ oa = 0
      /\ hv = (IF p.audio = v THEN 1 ELSE 0) /\ ha = IF p.audio = a THEN 1 ELSE 0
  BY HandCount
<1>6. /\ tv = rv + (IF p.audio = v THEN 1 ELSE 0)
      /\ ta = ra + (IF p.audio = a THEN 1 ELSE 0)
  BY CountAppend
<1>7. d - 1 = st[v] + qv + hv + dr /\ c - (d - 1) = st[a] + qa + ha
  BY DEF Balanced, Total
<1>8. ra = qa /\ e + Len(r) = dr + Len(q)
  BY DEF Left
<1> HIDE DEF ov, oa, hv, ha, qv, qa, rv, ra, tv, ta
<1>9. e + rv = dr + qv
  BY <1>3, <1>4, <1>8
<1> DEFINE sv == st[v]
           sa == st[a]
<1> HIDE DEF sv, sa
<1>10. sv \in Nat /\ sa \in Nat /\ d - 1 = sv + qv + hv + dr /\ c - (d - 1) = sa + qa + ha
  BY <1>4, <1>7 DEF sv, sa
<1>11. /\ p.audio = v => hv = 1 /\ ha = 0 /\ tv = rv + 1 /\ ta = ra + 0
       /\ p.audio = a => hv = 0 /\ ha = 1 /\ tv = rv + 0 /\ ta = ra + 1
  BY <1>2, <1>5, <1>6
<1>12. p.audio = v => d - 1 = sv + rv + ov + (e + 1) /\ c - (d - 1) = sa + ra + oa
  BY <1>4, <1>5, <1>8, <1>9, <1>10, <1>11
<1>13. d - 1 = sv + tv + ov + e /\ c - (d - 1) = sa + ta + oa
  <2>1. CASE p.audio = v
    BY <1>4, <1>5, <1>8, <1>9, <1>10, <1>11, <2>1
  <2>2. CASE p.audio = a
    BY <1>4, <1>5, <1>8, <1>9, <1>10, <1>11, <2>2
  <2> QED
    BY <1>2, <2>1, <2>2
<1> QED
  BY <1>12, <1>13 DEF Balanced, Total, sv, sa, ov, oa, hv, ha, qv, qa, rv, ra, tv, ta

LEMMA BalancedGet ==
  ASSUME NEW d \in Nat, NEW c \in Nat, NEW dr \in Nat, NEW q \in Seq(PacketSet),
         NEW h \in Seq(PacketSet), NEW D, NEW v, NEW a, TwoKinds(v, a, D),
         NEW st \in [D -> Nat], Balanced(d, c, dr, q, h, st, v, a), q # <<>>
  PROVE  Balanced(d, c, dr, Tail(q), h, [st EXCEPT ![q[1].audio] = @ + 1], v, a)
<1> DEFINE t == Tail(q)
           hv == Count(h, Len(h), v)
           ha == Count(h, Len(h), a)
           qv == Count(q, Len(q), v)
           qa == Count(q, Len(q), a)
           tv == Count(t, Len(t), v)
           ta == Count(t, Len(t), a)
           new == [st EXCEPT ![q[1].audio] = @ + 1]
<1>1. q[1] \in PacketSet /\ t \in Seq(PacketSet)
  OBVIOUS
<1>2. q[1].audio \in D /\ v \in D /\ a \in D
  BY <1>1 DEF TwoKinds
<1>3. /\ qv = tv + (IF q[1].audio = v THEN 1 ELSE 0)
      /\ qa = ta + (IF q[1].audio = a THEN 1 ELSE 0)
  BY CountTail
<1>4. /\ st[v] \in Nat /\ st[a] \in Nat /\ tv \in Nat /\ ta \in Nat
      /\ hv \in Nat /\ ha \in Nat
  BY <1>1, <1>2, Countable
<1>5. /\ new[v] = st[v] + (IF q[1].audio = v THEN 1 ELSE 0)
      /\ new[a] = st[a] + (IF q[1].audio = a THEN 1 ELSE 0)
  <2> DEFINE b == q[1].audio
  <2>1. b \in D /\ v \in D /\ a \in D
    BY <1>2
  <2> HIDE DEF b
  <2>2. [st EXCEPT ![b] = @ + 1][v] = st[v] + (IF b = v THEN 1 ELSE 0)
    BY <1>4, <2>1
  <2>3. [st EXCEPT ![b] = @ + 1][a] = st[a] + (IF b = a THEN 1 ELSE 0)
    BY <1>4, <2>1
  <2> QED
    BY <2>2, <2>3 DEF b
<1>6. d - 1 = st[v] + qv + hv + dr /\ c - (d - 1) = st[a] + qa + ha
  BY DEF Balanced, Total
<1> DEFINE sv == st[v]
           sa == st[a]
           nv == new[v]
           na == new[a]
           x == q[1].audio
<1>7. /\ sv \in Nat /\ sa \in Nat /\ tv \in Nat /\ ta \in Nat /\ hv \in Nat /\ ha \in Nat
      /\ nv = sv + (IF x = v THEN 1 ELSE 0) /\ na = sa + (IF x = a THEN 1 ELSE 0)
      /\ qv = tv + (IF x = v THEN 1 ELSE 0) /\ qa = ta + (IF x = a THEN 1 ELSE 0)
      /\ d - 1 = sv + qv + hv + dr /\ c - (d - 1) = sa + qa + ha
  BY <1>3, <1>4, <1>5, <1>6
<1> HIDE DEF hv, ha, qv, qa, tv, ta, sv, sa, nv, na, x
<1>8. d - 1 = nv + tv + hv + dr
  <2>1. CASE x = v
    BY <1>7, <2>1
  <2>2. CASE x # v
    BY <1>7, <2>2
  <2> QED
    BY <2>1, <2>2
<1>9. c - (d - 1) = na + ta + ha
  <2>1. CASE x = a
    BY <1>7, <2>1
  <2>2. CASE x # a
    BY <1>7, <2>2
  <2> QED
    BY <2>1, <2>2
<1> QED
  BY <1>8, <1>9 DEF Balanced, Total, hv, ha, qv, qa, tv, ta, nv, na

(* v is FALSE and a is TRUE.                                               *)
Apart(v, a) ==
  /\ \A p \in PacketSet : (p.audio = a <=> p.audio) /\ (p.audio = v <=> ~ p.audio)
  /\ \A s \in QueueRecord : Thinned(Queue, s) =>
       Count(s.queue, Len(s.queue), a) = Count(packets, Len(packets), a)

LEMMA BalanceStep ==
  ASSUME TypeOK, Places, Next, Counting', NEW v, NEW a, NEW D, sent \in [D -> Nat],
         TwoKinds(v, a, D), Apart(v, a),
         Counting => Balanced(dts, count, dropped_frames, packets, hand.encoder, sent, v, a)
  PROVE  Balanced(dts', count', dropped_frames', packets', hand'.encoder, sent', v, a)
<1> USE DEF At
<1>1. /\ packets \in Seq(PacketSet) /\ dts \in Nat /\ count \in Nat /\ dropped_frames \in Nat
      /\ hand.encoder \in Seq(PacketSet)
  BY Hands DEF TypeOK
<1>2. ASSUME Counting, UNCHANGED <<dts, count, dropped_frames, packets, sent>>,
             hand'.encoder = hand.encoder
      PROVE  Balanced(dts', count', dropped_frames', packets', hand'.encoder, sent', v, a)
  BY <1>2
<1>3. CASE InitConnect
  <2>1. /\ dts' = 1 /\ count' = 0 /\ dropped_frames' = 0 /\ packets' = <<>>
        /\ sent' = [x \in BOOLEAN |-> 0] /\ hand' = hand /\ hand.encoder = <<>>
    BY <1>3, Hands DEF InitConnect, Places
  <2> DEFINE o == Count(<<>>, Len(<<>>), v)
             m == Count(<<>>, Len(<<>>), a)
  <2>2. o = 0 /\ m = 0
    <3>1. Len(<<>>) = 0
      OBVIOUS
    <3> QED
      BY <3>1, CountZero
  <2>3. sent'[v] = 0 /\ sent'[a] = 0
    <3>1. D = DOMAIN sent /\ DOMAIN sent = BOOLEAN
      BY DEF TypeOK
    <3>2. v \in BOOLEAN /\ a \in BOOLEAN
      BY <3>1 DEF TwoKinds
    <3> QED
      BY <2>1, <3>2
  <2> HIDE DEF o, m
  <2>4. 1 - 1 = sent'[v] + o + o + 0 /\ 0 - (1 - 1) = sent'[a] + m + m
    BY <2>2, <2>3
  <2> QED
    BY <2>1, <2>4 DEF Balanced, Total, o, m
<1>4. CASE ConnectFails
  <2>1. pc'["connect"] = "idle" /\ UNCHANGED <<active, capture>>
    BY <1>4, Moves, Names DEF ConnectFails, flagVars
  <2>2. ~ active
    BY <1>4 DEF ConnectFails, Places
  <2> QED
    BY <2>1, <2>2 DEF Counting
<1>5. CASE InitSend
  <2>1. Counting
    BY <1>5 DEF InitSend, Counting, Places
  <2> QED
    BY <1>2, <1>5, <2>1 DEF InitSend, queueVars, encoderVars
<1>6. CASE Metadata
  <2>1. pc'["connect"] = "idle" /\ UNCHANGED <<active, disconnected>>
    BY <1>6, Moves, Names DEF Metadata, flagVars
  <2>2. Counting
    BY <1>6, <2>1 DEF Metadata, Counting
  <2> QED
    BY <1>2, <1>6, <2>2 DEF Metadata, queueVars, encoderVars, historyVars
<1>7. ASSUME NEW k \in Kinds, Produce(k)
      PROVE  Balanced(dts', count', dropped_frames', packets', hand'.encoder, sent', v, a)
  <2> DEFINE p == Packet(k)
  <2>1. capture # "off" /\ pc["encoder"] = "idle" /\ pc["connect"] # "send"
    BY <1>7 DEF Produce, Places
  <2>2. UNCHANGED <<active, disconnected, capture>> /\ pc'["connect"] = pc["connect"]
    BY <1>7, Moves, Names DEF Produce, flagVars
  <2>3. active /\ ~ disconnected /\ Counting
    BY <2>1, <2>2 DEF Counting
  <2>4. hand'.encoder = <<p>> /\ hand.encoder = <<>>
    BY <1>7, <2>1, <2>3, ProduceMoves, Hands
  <2>5. p \in PacketSet /\ (p.audio <=> k = Audio)
    BY PacketType
  <2>6. UNCHANGED <<packets, dropped_frames, sent>> /\ count' = count + 1
        /\ dts' = IF k = Audio THEN dts ELSE dts + 1
    BY <1>7 DEF Produce, queueVars, historyVars
  <2> HIDE DEF p
  <2>7. p.audio = a <=> k = Audio
    BY <2>5 DEF Apart
  <2>8. dts' = IF p.audio = a THEN dts ELSE dts + 1
    BY <2>6, <2>7
  <2>9. Balanced(dts, count, dropped_frames, packets, <<>>, sent, v, a)
    BY <2>3, <2>4
  <2>10. Balanced(IF p.audio = a THEN dts ELSE dts + 1, count + 1, dropped_frames, packets, <<p>>,
                  sent, v, a)
    BY <1>1, <2>5, <2>9, BalancedProduce, Zenon
  <2> QED
    BY <2>4, <2>6, <2>8, <2>10
<1>8. CASE Add
  <2> DEFINE p == hand.encoder[1]
  <2>1. hand'.encoder = <<>> /\ pc'["connect"] = pc["connect"]
    BY <1>8, AddMoves
  <2>2. UNCHANGED <<active, disconnected, capture, dts, count, sent>>
    BY <1>8 DEF Add, flagVars, encoderVars, historyVars
  <2>3. Counting /\ ~ disconnected
    BY <2>1, <2>2 DEF Counting
  <2>4. p \in PacketSet /\ hand.encoder = <<p>>
    BY <1>8, Hands DEF Add
  <2>5. PICK s \in QueueRecord : Thinned(Queue, s) /\ (Refused(s, p) \/ Accepted(s, p))
    BY <1>8, <2>3, AddCases
  <2> DEFINE r == s.queue
             e == s.dropped
  <2>6. r \in Seq(PacketSet) /\ e \in Nat /\ e + Len(r) = dropped_frames + Len(packets)
    BY <2>5 DEF Thinned, Queue, QueueRecord
  <2>7. Left(e, r, dropped_frames, packets, a)
    <3>1. Count(r, Len(r), a) = Count(packets, Len(packets), a)
      BY <2>5 DEF Apart
    <3> QED
      BY <2>6, <3>1 DEF Left
  <2>8. \/ packets' = r /\ dropped_frames' = e + 1 /\ ~ p.audio
        \/ packets' = Append(r, p) /\ dropped_frames' = e
    BY <2>5 DEF Refused, Accepted
  <2> HIDE DEF r, e, p
  <2>9. Balanced(dts, count, dropped_frames, packets, <<p>>, sent, v, a)
    BY <2>3, <2>4
  <2>10. /\ p.audio = v => Balanced(dts, count, e + 1, r, <<>>, sent, v, a)
         /\ Balanced(dts, count, e, Append(r, p), <<>>, sent, v, a)
    BY <1>1, <2>4, <2>6, <2>7, <2>9, BalancedAdd, Zenon
  <2>11. ~ p.audio => p.audio = v
    BY <2>4 DEF Apart
  <2> QED
    BY <2>1, <2>2, <2>8, <2>10, <2>11
<1>9. CASE GetNextPacket
  <2>1. /\ hand'.encoder = hand.encoder /\ pc'["connect"] = pc["connect"]
        /\ \/ packets' = packets /\ sent' = sent
           \/ /\ packets # <<>> /\ packets' = Tail(packets)
              /\ sent' = [sent EXCEPT ![packets[1].audio] = @ + 1]
    BY <1>9, GetMoves
  <2>2. UNCHANGED <<active, disconnected, capture, dts, count, dropped_frames>>
    BY <1>9 DEF GetNextPacket, flagVars, encoderVars
  <2>3. Counting
    BY <2>1, <2>2 DEF Counting
  <2>4. CASE packets' = packets /\ sent' = sent
    BY <1>2, <2>1, <2>2, <2>3, <2>4
  <2>5. CASE /\ packets # <<>> /\ packets' = Tail(packets)
             /\ sent' = [sent EXCEPT ![packets[1].audio] = @ + 1]
    <3> DEFINE h == hand.encoder
    <3>1. Balanced(dts, count, dropped_frames, packets, h, sent, v, a) /\ h \in Seq(PacketSet)
      BY <1>1, <2>3
    <3> HIDE DEF h
    <3>2. Balanced(dts, count, dropped_frames, Tail(packets), h,
                   [sent EXCEPT ![packets[1].audio] = @ + 1], v, a)
      BY <1>1, <2>5, <3>1, BalancedGet, Zenon
    <3> QED
      BY <2>1, <2>2, <2>5, <3>2 DEF h
  <2> QED
    BY <2>1, <2>4, <2>5
<1>10. CASE Send
  <2>1. hand'.encoder = hand.encoder /\ pc'["connect"] = pc["connect"]
        /\ (UNCHANGED disconnected \/ disconnected')
    BY <1>10, SendMoves
  <2>2. UNCHANGED <<active, capture, dts, count, dropped_frames, packets, sent>>
    BY <1>10 DEF Send, queueVars, encoderVars
  <2>3. Counting
    BY <2>1, <2>2 DEF Counting
  <2> QED
    BY <1>2, <2>1, <2>2, <2>3
<1>11. CASE Close
  <2>1. Counting
    <3>1. UNCHANGED disconnected /\ active
      BY <1>11 DEF Close, flagVars, Places
    <3>2. pc["connect"] = "metadata" \/ capture = "on"
      BY <1>11 DEF Close, Places
    <3> QED
      BY <3>1, <3>2 DEF Counting
  <2> QED
    BY <1>2, <1>11, <2>1 DEF Close, queueVars, encoderVars, historyVars
<1>12. CASE Finish
  <2>1. pc'["connect"] = pc["connect"] /\ ~ active'
    BY <1>12, Moves, Names DEF Finish
  <2>2. pc["connect"] # "send"
    BY <1>12 DEF Finish, Places
  <2> QED
    BY <2>1, <2>2 DEF Counting
<1>13. CASE Post \/ Wait \/ StopSignal \/ \E ts \in {0, dts, dts + 1} : StopTime(ts)
  <2>1. pc'["connect"] = pc["connect"]
    BY <1>13, WaitMoves, Moves, Names DEF Post, StopSignal, StopTime
  <2>2. UNCHANGED <<active, disconnected, capture>>
    BY <1>13 DEF Post, Wait, StopSignal, StopTime, flagVars
  <2>3. Counting
    BY <2>1, <2>2 DEF Counting
  <2> QED
    BY <1>2, <1>13, <2>3
    DEF Post, Wait, StopSignal, StopTime, queueVars, encoderVars, historyVars
<1>14. CASE Stall \/ Timeout \/ EndCapture
  <2>1. Counting
    BY <1>14 DEF Stall, Timeout, EndCapture, Counting, flagVars
  <2> QED
    BY <1>2, <1>14, <2>1 DEF Stall, Timeout, EndCapture, queueVars, encoderVars, historyVars
<1> QED
  BY <1>3, <1>4, <1>5, <1>6, <1>7, <1>8, <1>9, <1>10, <1>11, <1>12, <1>13, <1>14
  DEF Next, Connect, EncoderStep, SendThread

LEMMA CountedStep ==
  ASSUME TypeOK, Places, Counted, Next PROVE Counted'
<1> SUFFICES ASSUME Counting'
             PROVE  (dts - 1 = Amount(FALSE) + dropped_frames /\ count - (dts - 1) = Amount(TRUE))'
  BY DEF Counted
<1>1. /\ packets \in Seq(PacketSet) /\ hand.encoder \in Seq(PacketSet)
      /\ packets' \in Seq(PacketSet) /\ hand'.encoder \in Seq(PacketSet)
  <2>1. TypeOK'
    BY TypeStep
  <2>2. /\ packets \in Seq(PacketSet) /\ hand \in [send : Seq(PacketSet), encoder : Seq(PacketSet)]
    BY DEF TypeOK
  <2>3. packets' \in Seq(PacketSet) /\ hand' \in [send : Seq(PacketSet), encoder : Seq(PacketSet)]
    BY <2>1 DEF TypeOK
  <2> QED
    BY <2>2, <2>3
<1>2. \A a : /\ Total(packets, hand.encoder, sent, a) = Amount(a)
             /\ Total(packets', hand'.encoder, sent', a) = Amount(a)'
  <2>1. ASSUME NEW a PROVE Total(packets, hand.encoder, sent, a) = Amount(a)
    <3>1. DOMAIN packets = 1 .. Len(packets) /\ DOMAIN hand.encoder = 1 .. Len(hand.encoder)
      BY <1>1
    <3> QED
      BY <3>1, Zenon DEF Amount, Total, Count
  <2>2. ASSUME NEW a PROVE Total(packets', hand'.encoder, sent', a) = Amount(a)'
    <3>1. DOMAIN packets' = 1 .. Len(packets') /\ DOMAIN hand'.encoder = 1 .. Len(hand'.encoder)
      BY <1>1
    <3> QED
      BY <3>1, Zenon DEF Amount, Total, Count
  <2> QED
    BY <2>1, <2>2
<1>3. Counting => Balanced(dts, count, dropped_frames, packets, hand.encoder, sent, FALSE, TRUE)
  BY <1>2, Zenon DEF Counted, Balanced
<1>4. Balanced(dts', count', dropped_frames', packets', hand'.encoder, sent', FALSE, TRUE)
  <2>1. FALSE # TRUE /\ FALSE \in BOOLEAN /\ TRUE \in BOOLEAN
    OBVIOUS
  <2>2. \A p \in PacketSet : (p.audio = TRUE <=> p.audio) /\ (p.audio = FALSE <=> ~ p.audio)
    BY FieldTypes
  <2>3. \A s \in QueueRecord : Thinned(Queue, s) =>
          Count(s.queue, Len(s.queue), TRUE) = Count(packets, Len(packets), TRUE)
    <3>1. Queue.queue = packets
      BY DEF Queue
    <3> QED
      BY <3>1, Zenon DEF Thinned
  <2>4. TwoKinds(FALSE, TRUE, BOOLEAN)
    BY <2>1, FieldTypes, Zenon DEF TwoKinds
  <2>5. sent \in [BOOLEAN -> Nat]
    BY DEF TypeOK
  <2>6. Apart(FALSE, TRUE)
    BY <2>2, <2>3, Zenon DEF Apart
  <2> QED
    BY <1>3, <2>4, <2>5, <2>6, BalanceStep, Zenon
<1> QED
  BY <1>2, <1>4, Zenon DEF Balanced

(* References, of the queue q and the packets h and e in the hands.        *)
Linked(q, h, e, min, last, x) ==
  /\ Decodes(last, h \o q)
  /\ min < Highest /\ e = <<>> => LastReference(last, h \o q, Len(h \o q), x)
  /\ \A k \in DOMAIN e :
       /\ x = IF Reference(e[k]) THEN e[k].dts ELSE e[k].ref
       /\ min < Highest => LastReference(last, h \o q, Len(h \o q), e[k].ref)

LEMMA LinkedAdd ==
  ASSUME NEW r \in Seq(PacketSet), NEW h \in Seq(PacketSet), NEW m \in Priorities, NEW last,
         NEW p \in PacketSet, Decodes(last, h \o r),
         m < Highest => LastReference(last, h \o r, Len(h \o r), p.ref),
         NEW x, x = IF Reference(p) THEN p.dts ELSE p.ref
  PROVE  /\ ~ p.audio /\ p.priority < m => Linked(r, h, <<>>, m, last, x)
         /\ p.audio => Linked(Append(r, p), h, <<>>, m, last, x)
         /\ ~ p.audio /\ p.priority >= m => Linked(Append(r, p), h, <<>>, 0, last, x)
<1> DEFINE L == h \o r
<1>1. L \in Seq(PacketSet) /\ h \o Append(r, p) = Append(L, p)
  OBVIOUS
<1>2. /\ p.audio \in BOOLEAN /\ p.priority \in {Disposable, High, Highest}
      /\ m \in {Disposable, High, Highest}
  BY FieldTypes DEF Priorities, Disposable
<1>3. \A e : e \notin DOMAIN <<>>
  OBVIOUS
<1>4. Decodes(last, L) /\ (m < Highest => LastReference(last, L, Len(L), p.ref))
  OBVIOUS
<1> HIDE DEF L
<1>5. ASSUME Reference(p) \/ m < Highest
      PROVE  LastReference(last, Append(L, p), Len(Append(L, p)), x)
  <2>1. IF Reference(p) THEN x = p.dts ELSE LastReference(last, L, Len(L), x)
    BY <1>4, <1>5
  <2> QED
    BY <1>1, <2>1, ReferenceAppend
<1>6. ASSUME Frame(p) => m < Highest PROVE Decodes(last, Append(L, p))
  BY <1>1, <1>4, <1>6, DecodesAppend
<1>7. ASSUME ~ p.audio, p.priority < m PROVE Linked(r, h, <<>>, m, last, x)
  <2>1. m < Highest => ~ Reference(p)
    BY <1>2, <1>7 DEF Reference, Disposable, High, Highest
  <2>2. m < Highest => LastReference(last, L, Len(L), x)
    BY <1>4, <2>1
  <2> QED
    BY <1>3, <1>4, <2>2 DEF Linked, L
<1>8. ASSUME p.audio PROVE Linked(Append(r, p), h, <<>>, m, last, x)
  <2>1. ~ Frame(p) /\ ~ Reference(p)
    BY <1>8 DEF Frame, Reference
  <2>2. Decodes(last, Append(L, p))
    BY <1>6, <2>1
  <2>3. m < Highest => LastReference(last, Append(L, p), Len(Append(L, p)), x)
    BY <1>5
  <2> QED
    BY <1>1, <1>3, <2>2, <2>3 DEF Linked
<1>9. ASSUME ~ p.audio, p.priority >= m PROVE Linked(Append(r, p), h, <<>>, 0, last, x)
  <2>1. (Frame(p) => m < Highest) /\ (Reference(p) \/ m < Highest)
    BY <1>2, <1>9 DEF Frame, Reference, Disposable, High, Highest
  <2>2. Decodes(last, Append(L, p))
    BY <1>6, <2>1
  <2>3. LastReference(last, Append(L, p), Len(Append(L, p)), x)
    BY <1>5, <2>1
  <2> QED
    BY <1>1, <1>3, <2>2, <2>3 DEF Linked
<1> QED
  BY <1>7, <1>8, <1>9

LEMMA LinkedProduce ==
  ASSUME TypeOK, NEW k \in Kinds, NEW q, NEW h, NEW last,
         Linked(q, h, <<>>, min_priority, last, ref),
         NEW x, x = IF k \in {High, Highest} THEN dts ELSE ref
  PROVE  Linked(q, h, <<Packet(k)>>, min_priority, last, x)
<1> DEFINE p == Packet(k)
<1>1. /\ p \in PacketSet /\ p.ref = ref /\ p.dts = dts /\ (p.audio <=> k = Audio)
      /\ p.priority = IF k = Audio THEN Highest ELSE k
  BY PacketType DEF Packet
<1> HIDE DEF p
<1>2. x = IF Reference(p) THEN p.dts ELSE p.ref
  <2>1. Reference(p) <=> k \in {High, Highest}
    BY <1>1 DEF Reference, Kinds, Disposable, High, Highest, Audio
  <2> QED
    BY <1>1, <2>1
<1>3. min_priority < Highest => LastReference(last, h \o q, Len(h \o q), p.ref)
  BY <1>1 DEF Linked
<1>4. <<p>> # <<>> /\ \A i \in DOMAIN <<p>> : <<p>>[i] = p
  OBVIOUS
<1>5. Decodes(last, h \o q)
  BY DEF Linked
<1> QED
  BY <1>2, <1>3, <1>4, <1>5 DEF Linked, p

LEMMA LinkedSend ==
  ASSUME NEW q \in Seq(PacketSet), NEW p \in PacketSet, NEW e, NEW min, NEW last, NEW x,
         Linked(q, <<p>>, e, min, last, x)
  PROVE  Linked(q, <<>>, e, min, IF Reference(p) THEN p.dts ELSE last, x)
<1> DEFINE L == <<p>> \o q
           new == IF Reference(p) THEN p.dts ELSE last
<1>1. Len(L) = Len(q) + 1 /\ <<>> \o q = q /\ Len(q) \in 0 .. Len(q)
  OBVIOUS
<1>2. Decodes(new, q)
  BY DecodesSent DEF Linked
<1>3. ASSUME NEW y, LastReference(last, L, Len(L), y) PROVE LastReference(new, q, Len(q), y)
  <2>1. LastReference(last, <<p>> \o q, Len(q) + 1, y)
    BY <1>1, <1>3
  <2> HIDE DEF L
  <2> QED
    BY <1>1, <2>1, ReferenceSent
<1>4. /\ min < Highest /\ e = <<>> => LastReference(last, L, Len(L), x)
      /\ \A k \in DOMAIN e : /\ x = IF Reference(e[k]) THEN e[k].dts ELSE e[k].ref
                             /\ min < Highest => LastReference(last, L, Len(L), e[k].ref)
  BY DEF Linked
<1> HIDE DEF L, new
<1>5. /\ min < Highest /\ e = <<>> => LastReference(new, q, Len(q), x)
      /\ \A k \in DOMAIN e : /\ x = IF Reference(e[k]) THEN e[k].dts ELSE e[k].ref
                             /\ min < Highest => LastReference(new, q, Len(q), e[k].ref)
  BY <1>3, <1>4
<1>6. Linked(q, <<>>, e, min, new, x)
  BY <1>1, <1>2, <1>5 DEF Linked
<1> QED
  BY <1>6 DEF new

LEMMA ReferencesStep ==
  ASSUME TypeOK, Places, Fresh, References, Next PROVE References'
<1> DEFINE OK == Linked(packets, hand.send, hand.encoder, min_priority, shown, ref)
<1>1. References <=> (Sending => OK)
  BY DEF References, Linked, InLine
<1>2. (Sending => OK)' => References'
  <2>1. References' <=> (Sending => OK)'
    BY DEF References, Linked, InLine
  <2> QED
    BY <2>1
<1>3. packets \in Seq(PacketSet) /\ hand.send \in Seq(PacketSet) /\ hand.encoder \in Seq(PacketSet)
      /\ min_priority \in Priorities
  BY Hands DEF TypeOK, Priorities
<1>4. ASSUME UNCHANGED <<packets, hand, min_priority, shown, ref>>, Sending' => Sending
      PROVE  References'
  BY <1>1, <1>2, <1>4
<1> HIDE DEF OK
<1> USE DEF At
<1>5. ASSUME pc'["send"] \notin {"wait", "next", "send"} PROVE References'
  BY <1>2, <1>5 DEF Sending
<1>6. CASE InitConnect \/ ConnectFails
  <2>1. pc'["send"] = pc["send"] /\ pc["send"] = "idle"
    BY <1>6, Moves, Names DEF InitConnect, ConnectFails, Places, Sending
  <2> QED
    BY <1>5, <2>1
<1>7. CASE InitSend
  <2>1. /\ packets' = <<>> /\ min_priority' = 0 /\ ref' = NoFrame /\ shown' = NoFrame
        /\ hand' = hand /\ hand.send = <<>> /\ hand.encoder = <<>>
    BY <1>7, Hands DEF InitSend, Places, Fresh, queueVars, encoderVars
  <2>2. Decodes(NoFrame, <<>>) /\ LastReference(NoFrame, <<>>, 0, NoFrame)
    BY DEF Decodes, LastReference
  <2>3. <<>> \o <<>> = <<>> /\ Len(<<>>) = 0 /\ \A k : k \notin DOMAIN <<>>
    OBVIOUS
  <2>4. Linked(<<>>, <<>>, <<>>, 0, NoFrame, NoFrame)
    BY <2>2, <2>3 DEF Linked
  <2> QED
    BY <1>2, <2>1, <2>4 DEF OK
<1>8. CASE Metadata
  <2>1. pc'["send"] = pc["send"]
    BY <1>8, Moves, Names DEF Metadata
  <2> QED
    BY <1>4, <1>8, <2>1 DEF Metadata, Sending, queueVars, historyVars, encoderVars
<1>9. ASSUME NEW k \in Kinds, Produce(k) PROVE References'
  <2> DEFINE x == IF k \in {High, Highest} THEN dts ELSE ref
  <2>1. pc'["send"] = pc["send"]
    BY <1>9, Moves, Names DEF Produce
  <2>2. CASE ~ Sending
    BY <1>5, <2>1, <2>2 DEF Sending
  <2>3. CASE Sending
    <3>1. active /\ ~ disconnected /\ pc["encoder"] = "idle"
      BY <1>9, <2>3 DEF Places, Sending, Produce
    <3>2. /\ hand'.encoder = <<Packet(k)>> /\ hand'.send = hand.send
          /\ hand.encoder = <<>>
      BY <1>9, <3>1, ProduceMoves, Hands
    <3>3. packets' = packets /\ min_priority' = min_priority /\ shown' = shown /\ ref' = x
      BY <1>9 DEF Produce, queueVars, historyVars
    <3> HIDE DEF x
    <3>4. Linked(packets, hand.send, <<>>, min_priority, shown, ref)
      BY <1>1, <2>3, <3>2 DEF OK
    <3>5. Linked(packets, hand.send, <<Packet(k)>>, min_priority, shown, x)
      BY <3>4, LinkedProduce, Zenon DEF x
    <3>6. OK'
      BY <3>2, <3>3, <3>5, Zenon DEF OK
    <3> QED
      BY <1>2, <3>6
  <2> QED
    BY <2>2, <2>3
<1>10. CASE Add
  <2> DEFINE p == hand.encoder[1]
             h == hand.send
  <2>1. /\ hand'.send = h /\ hand'.encoder = <<>> /\ pc'["send"] = pc["send"]
        /\ shown' = shown /\ ref' = ref
    BY <1>10, AddMoves DEF Add, encoderVars, historyVars
  <2>2. CASE ~ Sending
    BY <1>5, <2>1, <2>2 DEF Sending
  <2>3. CASE Sending
    <3>1. ~ disconnected
      BY <2>3 DEF Places, Sending
    <3>2. p \in PacketSet /\ hand.encoder = <<p>> /\ 1 \in DOMAIN hand.encoder
      BY <1>10, Hands DEF Add
    <3>3. /\ Decodes(shown, h \o packets)
          /\ ref = IF Reference(p) THEN p.dts ELSE p.ref
          /\ min_priority < Highest
               => LastReference(shown, h \o packets, Len(h \o packets), p.ref)
      BY <1>1, <2>3, <3>2 DEF OK, Linked
    <3>4. PICK s \in QueueRecord : /\ Thinned(Queue, s)
                                   /\ IF p.audio THEN s = Queue ELSE Dropped(s)
                                   /\ Refused(s, p) \/ Accepted(s, p)
      BY <1>10, <3>1, AddCases
    <3> DEFINE r == s.queue
               m == s.min
    <3>5. r \in Seq(PacketSet) /\ m \in Priorities
      BY DEF QueueRecord
    <3> HIDE DEF p, h
    <3>6. h \in Seq(PacketSet)
      BY <1>3 DEF h
    <3>7. Decodes(shown, h \o r) /\ (m < Highest => LastReference(shown, h \o r, Len(h \o r), p.ref))
      <4>1. CASE s = Queue
        BY <3>3, <4>1 DEF Queue
      <4>2. CASE /\ m = IF min_priority < High THEN High ELSE min_priority
                 /\ \E f : Stayed(packets, Len(packets), r, High, f)
        <5>1. PICK f : Stayed(packets, Len(packets), r, High, f)
          BY <4>2
        <5>2. m < Highest => min_priority < Highest
          BY <1>3, <4>2 DEF Priorities, High, Highest
        <5> HIDE DEF r, m
        <5>3. /\ Decodes(shown, h \o packets) => Decodes(shown, h \o r)
              /\ \A x : LastReference(shown, h \o packets, Len(h \o packets), x)
                          => LastReference(shown, h \o r, Len(h \o r), x)
          BY <1>3, <3>5, <3>6, <5>1, DecodesStays
        <5> QED
          BY <3>3, <5>2, <5>3
      <4>3. CASE m = Highest /\ \A k \in 1 .. Len(r) : ~ Frame(r[k])
        <5> HIDE DEF r, m
        <5>1. Decodes(shown, h \o r)
          BY <1>3, <3>3, <3>5, <3>6, <4>3, DecodesKeyframes
        <5>2. ~ (m < Highest)
          BY <4>3 DEF Highest
        <5> QED
          BY <5>1, <5>2
      <4> QED
        BY <3>4, <4>1, <4>2, <4>3 DEF Dropped
    <3>8. /\ ~ p.audio /\ p.priority < m => Linked(r, h, <<>>, m, shown, ref)
          /\ p.audio => Linked(Append(r, p), h, <<>>, m, shown, ref)
          /\ ~ p.audio /\ p.priority >= m => Linked(Append(r, p), h, <<>>, 0, shown, ref)
      <4> HIDE DEF r, m
      <4> QED
        BY <3>2, <3>3, <3>5, <3>6, <3>7, LinkedAdd
    <3>9. \/ ~ p.audio /\ p.priority < m /\ packets' = r /\ min_priority' = m
          \/ p.audio /\ packets' = Append(r, p) /\ min_priority' = m
          \/ ~ p.audio /\ p.priority >= m /\ packets' = Append(r, p) /\ min_priority' = 0
      <4>1. p.audio => m = min_priority
        BY <3>4 DEF Queue
      <4> QED
        BY <3>4, <4>1 DEF Refused, Accepted
    <3> HIDE DEF r, m
    <3>10. Linked(packets', h, <<>>, min_priority', shown, ref)
      BY <3>8, <3>9
    <3>11. OK'
      BY <2>1, <3>10, Zenon DEF OK
    <3> QED
      BY <1>2, <3>11
  <2> QED
    BY <2>2, <2>3
<1>11. CASE GetNextPacket
  <2>1. UNCHANGED <<min_priority, shown, ref>>
    BY <1>11 DEF GetNextPacket, encoderVars
  <2>2. /\ hand'.encoder = hand.encoder /\ hand.send = <<>> /\ pc["send"] = "next"
        /\ \/ pc'["send"] = "wait" /\ hand'.send = <<>> /\ packets' = packets
           \/ pc'["send"] = "close"
           \/ /\ packets # <<>> /\ packets' = Tail(packets) /\ hand'.send = <<packets[1]>>
    BY <1>11, GetMoves
  <2>3. OK
    BY <1>1, <2>2 DEF Sending
  <2>4. CASE pc'["send"] = "close"
    BY <1>5, <2>4
  <2>5. CASE hand'.send = <<>> /\ packets' = packets
    <3>1. OK'
      BY <2>1, <2>2, <2>3, <2>5 DEF OK
    <3> QED
      BY <1>2, <3>1
  <2>6. CASE packets # <<>> /\ packets' = Tail(packets) /\ hand'.send = <<packets[1]>>
    <3>1. hand'.send \o packets' = hand.send \o packets
      <4>1. <<packets[1]>> \o Tail(packets) = packets /\ <<>> \o packets = packets
        BY <1>3, <2>6
      <4> QED
        BY <2>2, <2>6, <4>1
    <3>2. OK'
      BY <2>1, <2>2, <2>3, <3>1, Zenon DEF OK, Linked
    <3> QED
      BY <1>2, <3>2
  <2> QED
    BY <2>2, <2>4, <2>5, <2>6
<1>12. CASE Send
  <2> DEFINE p == hand.send[1]
  <2>1. UNCHANGED <<packets, min_priority, ref>>
    BY <1>12 DEF Send, queueVars, encoderVars
  <2>2. /\ hand'.send = <<>> /\ hand'.encoder = hand.encoder /\ pc["send"] = "send"
        /\ \/ pc'["send"] = "close"
           \/ shown' = IF Reference(p) THEN p.dts ELSE shown
    BY <1>12, SendMoves
  <2>3. p \in PacketSet /\ hand.send = <<p>>
    BY <2>2, Hands
  <2> HIDE DEF p
  <2>4. Linked(packets, <<p>>, hand.encoder, min_priority, shown, ref)
    BY <1>1, <2>2, <2>3 DEF OK, Sending
  <2>5. CASE pc'["send"] = "close"
    BY <1>5, <2>5
  <2>6. CASE shown' = IF Reference(p) THEN p.dts ELSE shown
    <3>1. Linked(packets, <<>>, hand.encoder, min_priority,
                 IF Reference(p) THEN p.dts ELSE shown, ref)
      BY <1>3, <2>3, <2>4, LinkedSend
    <3>2. OK'
      BY <2>1, <2>2, <2>6, <3>1, Zenon DEF OK
    <3> QED
      BY <1>2, <3>2
  <2> QED
    BY <2>2, <2>5, <2>6
<1>13. CASE Post \/ StopSignal \/ \E ts \in {0, dts, dts + 1} : StopTime(ts)
  <2>1. pc'["send"] = pc["send"]
    BY <1>13, Moves, Names DEF Post, StopSignal, StopTime
  <2> QED
    BY <1>4, <1>13, <2>1
    DEF Post, StopSignal, StopTime, Sending, queueVars, historyVars, encoderVars
<1>14. CASE Wait
  <2>1. pc["send"] = "wait"
    BY <1>14 DEF Wait
  <2> QED
    BY <1>4, <1>14, <2>1 DEF Wait, Sending, queueVars, historyVars, encoderVars
<1>15. CASE Close \/ Finish
  BY <1>5, <1>15, Moves, Names DEF Close, Finish
<1>16. CASE Stall \/ EndCapture \/ Timeout
  BY <1>4, <1>16 DEF Stall, EndCapture, Timeout, Sending, queueVars, historyVars, encoderVars
<1> QED
  BY <1>6, <1>7, <1>8, <1>9, <1>10, <1>11, <1>12, <1>13, <1>14, <1>15, <1>16
  DEF Next, Connect, EncoderStep, SendThread

LEMMA StreamStep ==
  ASSUME NoMetadataFault, StreamInv, [Next]_vars PROVE StreamInv'
<1>1. CASE Next
  <2>1. TypeOK' /\ Places' /\ Tokens' /\ InOrder' /\ Stopped' /\ Counted' /\ References' /\ Fresh'
    BY <1>1, TypeStep, PlacesStep, TokensStep, InOrderStep, StoppedStep, CountedStep,
       ReferencesStep, FreshStep DEF StreamInv
  <2> QED
    BY <2>1 DEF StreamInv
<1>2. CASE UNCHANGED vars
  <2> USE <1>2 DEF vars, queueVars, flagVars, encoderVars, historyVars
  <2>1. TypeOK' /\ Fresh'
    BY DEF StreamInv, TypeOK, Fresh, At
  <2>2. Places' /\ Tokens' /\ Stopped' /\ InOrder'
    BY DEF StreamInv, Places, Tokens, Stopped, InOrder, Sending, At
  <2>3. Counted'
    BY DEF StreamInv, Counted, Counting, Amount, At
  <2>4. References'
    BY DEF StreamInv, References, Sending, InLine, At
  <2> QED
    BY <2>1, <2>2, <2>3, <2>4 DEF StreamInv
<1> QED
  BY <1>1, <1>2

(* The inductive invariant: on every path of the send thread, the encoder  *)
(* thread and the threads that stop the stream, tokens match packets, the  *)
(* queue is in the order of decoding, nothing is lost but what is counted, *)
(* and every reference has its frame (rtmp-stream.c:976-1169).             *)
THEOREM StreamInvariant == ASSUME NoMetadataFault PROVE Spec => []StreamInv
<1>1. Init => StreamInv
  BY InitStream
<1>2. StreamInv /\ [Next]_vars => StreamInv'
  BY StreamStep
<1> QED
  BY <1>1, <1>2, PTL DEF Spec

(* Every packet in the queue has its token or is about to get it, the      *)
(* frames dropped are counted exactly and no audio is lost, and no send    *)
(* thread is left behind (rtmp-stream.c:186, 597, 976, 1127).              *)
THEOREM PacketsAreAccounted == ASSUME NoMetadataFault PROVE Spec => []QueueInv
<1>1. StreamInv => QueueInv
  <2> SUFFICES ASSUME StreamInv PROVE QueueInv
    OBVIOUS
  <2>1. Sending => Len(packets) <= send_sem + (IF At("encoder", "post") THEN 1 ELSE 0)
                                            + (IF At("send", "next") THEN 1 ELSE 0)
    BY DEF StreamInv, Tokens
  <2>2. capture # "off" /\ active /\ ~ disconnected
          => /\ dts - 1 = Amount(FALSE) + dropped_frames
             /\ count - (dts - 1) = Amount(TRUE)
    BY Zenon DEF StreamInv, Counted, Counting
  <2>3. TypeOK /\ orphans = 0
    BY DEF StreamInv, Places
  <2> QED
    BY <2>1, <2>2, <2>3, Zenon DEF QueueInv, Accounted
<1> QED
  BY <1>1, StreamInvariant, PTL

(* A stream that ends because it was told to stop gently, and in time, has *)
(* taken everything captured before the stop (rtmp-stream.c:373, 469).     *)
THEOREM StopSendsWhatWasCaptured == ASSUME NoMetadataFault PROVE Spec => []SentUntilStop
<1>1. StreamInv => SentUntilStop
  BY DEF StreamInv, Stopped, SentUntilStop
<1> QED
  BY <1>1, StreamInvariant, PTL

(* However frames are dropped, each frame that is sent or in line, and the *)
(* next one that is accepted, finds the frame it refers to before it, with *)
(* nothing missing in between (rtmp-stream.c:976-1092).                    *)
THEOREM SentFramesDecode == ASSUME NoMetadataFault PROVE Spec => []Decodable
<1>1. StreamInv => Decodable
  <2> SUFFICES ASSUME StreamInv, Sending PROVE Decodable
    BY DEF Decodable
  <2>1. TypeOK /\ Places /\ References
    BY DEF StreamInv
  <2>2. /\ hand.send \in Seq(PacketSet) /\ packets \in Seq(PacketSet)
        /\ IF At("encoder", "add")
           THEN hand.encoder[1] \in PacketSet /\ hand.encoder = <<hand.encoder[1]>>
           ELSE hand.encoder = <<>>
    BY <2>1, Hands DEF TypeOK
  <2>3. InLine \in Seq(PacketSet) /\ DOMAIN InLine = 1 .. Len(InLine)
    BY <2>2 DEF InLine
  <2>4. /\ Decodes(shown, InLine)
        /\ min_priority < Highest /\ hand.encoder = <<>>
             => LastReference(shown, InLine, Len(InLine), ref)
        /\ \A k \in DOMAIN hand.encoder :
             /\ ref = IF Reference(hand.encoder[k]) THEN hand.encoder[k].dts
                      ELSE hand.encoder[k].ref
             /\ min_priority < Highest
                  => LastReference(shown, InLine, Len(InLine), hand.encoder[k].ref)
    BY <2>1 DEF References
  <2> DEFINE L == InLine
             e == hand.encoder
  <2> HIDE DEF L
  <2>5. \A i \in DOMAIN L : Frame(L[i]) => LastReference(shown, L, i - 1, L[i].ref)
    BY <2>3, <2>4 DEF Decodes, L
  <2>6. ASSUME min_priority < Highest PROVE LastReference(shown, L \o e, Len(L \o e), ref)
    <3>1. CASE e = <<>>
      <4>1. L \o e = L
        BY <2>3, <3>1 DEF L
      <4> QED
        BY <2>4, <2>6, <3>1, <4>1 DEF L
    <3>2. CASE e # <<>>
      <4> DEFINE p == e[1]
      <4>1. p \in PacketSet /\ e = <<p>>
        BY <2>2, <3>2
      <4>2. 1 \in DOMAIN e
        <5>1. 1 \in DOMAIN <<p>>
          OBVIOUS
        <5> QED
          BY <4>1, <5>1, Zenon
      <4>3. IF Reference(p) THEN ref = p.dts ELSE LastReference(shown, L, Len(L), ref)
        BY <2>4, <2>6, <4>2 DEF L
      <4> HIDE DEF p
      <4>4. L \o <<p>> = Append(L, p) /\ L \in Seq(PacketSet)
        BY <2>3, <4>1 DEF L
      <4> HIDE DEF e
      <4>5. LastReference(shown, Append(L, p), Len(Append(L, p)), ref)
        BY <4>1, <4>3, <4>4, ReferenceAppend
      <4> QED
        BY <4>1, <4>4, <4>5
    <3> QED
      BY <3>1, <3>2
  <2> QED
    BY <2>5, <2>6, Zenon DEF Decodable, L
<1> QED
  BY <1>1, StreamInvariant, PTL

=============================================================================
