----------------------- MODULE Interleaver_proofs -------------------------
(***************************************************************************)
(* Theorems about the packets that an output holds and sends, for every    *)
(* length of a frame, every reordering and every first timestamp: none is  *)
(* lost, and the start is not put off without need. With one audio track   *)
(* the streams begin together and, without B-frames, timestamps ascend.    *)
(***************************************************************************)
EXTENDS Interleaver, SequenceTheorems, FiniteSetTheorems, NaturalsInduction,
        WellFoundedInduction, TLAPS

-----------------------------------------------------------------------------
(* The inductive invariant.                                                 *)

Underway == received_video /\ received_audio

(* Timestamps count from the start of the output once it has started.       *)
Zero == [s \in Streams |-> 0]
Shift == IF Underway THEN offset ELSE Zero

(* When packet n of stream s is due, seen from o.                           *)
Due(s, n, o) == origin[s] + n * Step(s) - o[s]

History == sent \o packets

Timed(q, o) == \A i \in DOMAIN q : q[i].dts = Due(q[i].stream, q[i].n, o)

(* Packets in the order of insert_interleaved_packet.                       *)
InOrder(a, b) == a.dts < b.dts \/ (a.dts = b.dts /\ (a.stream = Video \/ b.stream # Video))
Ordered(q) == \A i, j \in DOMAIN q : i < j => InOrder(q[i], q[j])

Rising(q) == \A i, j \in DOMAIN q : i < j /\ q[i].stream = q[j].stream => q[i].n < q[j].n

(* No packet is missing between one of q and the end m of its stream.       *)
Whole(q, m) ==
  \A i \in DOMAIN q :
    /\ q[i].n < m[q[i].stream]
    /\ \A k \in q[i].n .. m[q[i].stream] - 1 :
         \E j \in DOMAIN q : q[j].stream = q[i].stream /\ q[j].n = k

InLine(q, o, m) == Timed(q, o) /\ Rising(q) /\ Whole(q, m)

Has(q, s) == \E i \in DOMAIN q : q[i].stream = s

(* A track has no audio, or none at or after the first video.               *)
Short(q, s) ==
  \/ ~ Has(q, s)
  \/ /\ Has(q, Video)
     /\ \A i, v \in DOMAIN q : q[i].stream = s /\ q[v].stream = Video => q[i].dts < q[v].dts

(* What the flags say of the buffer.                                        *)
Received ==
  /\ Underway => \A s \in Streams : Has(History, s)
  /\ ~ Underway => /\ sent = <<>> /\ (received_video <=> Has(packets, Video))
                   /\ received_audio \/ \E s \in Audio : Short(packets, s)

(* No packet that waits for the start is above the highest timestamps.      *)
Highest ==
  ~ Underway => \A i \in DOMAIN packets :
    packets[i].dts <= IF packets[i].stream = Video THEN highest_video_ts ELSE highest_audio_ts

(* From the start on the video's highest timestamp counts from its first    *)
(* dts, that of the packets from its first pts.                             *)
Extra == IF Underway THEN Reorder ELSE 0

(* With one track what was sent may go before all that is buffered and all  *)
(* that is still due.                                                       *)
Ahead ==
  /\ highest_video_ts <= Due(Video, made[Video], Shift) + Extra
  /\ highest_audio_ts <= Due(1, made[1], Shift)
  /\ \A i \in DOMAIN sent :
       /\ \A j \in DOMAIN packets : Goes(sent[i], packets[j].stream, packets[j].dts)
       /\ \A s \in Streams : Goes(sent[i], s, Due(s, made[s], Shift))
  /\ AlmostMonotonic

PacketInv ==
  /\ PacketTypes /\ packets \in Seq(PacketsOf(Streams)) /\ sent \in Seq(PacketsOf(Streams))
  /\ InLine(History, Shift, made) /\ Ordered(packets)
  /\ Received /\ Highest
  /\ Tracks = 1 => InSync
  /\ Tracks = 1 => Ahead

(* The constants and the sets of streams.                                   *)
LEMMA StepTypes ==
  /\ Tracks \in Nat \ {0} /\ MaxPackets \in Nat \ {0} /\ MaxRestarts \in Nat /\ Reorder \in Nat
  /\ VideoStep \in Nat \ {0} /\ AudioStep \in Nat \ {0}
  /\ \A s \in Streams : Step(s) \in Nat \ {0}
  /\ Video \in Streams /\ 1 \in Audio /\ Audio \subseteq Streams /\ Video \notin Audio
  /\ Streams \subseteq Nat /\ \A s \in Streams : s # Video => s \in Audio
BY StepsAssumption DEF Step, Streams, Audio, Video

(* What a packet is.                                                        *)
LEMMA PacketFields ==
  ASSUME NEW p \in PacketsOf(Streams)
  PROVE  /\ p.stream \in Streams /\ p.n \in Nat /\ p.dts \in Int /\ p.key \in BOOLEAN
         /\ p.n < MaxPackets
BY StepTypes DEF PacketsOf

(* A set of numbers that is not empty has a least member, and a bounded one *)
(* a greatest.                                                              *)
LEMMA LeastOf ==
  ASSUME NEW S \in SUBSET Nat, S # {}
  PROVE  \E m \in S : \A x \in S : m <= x
<1> DEFINE less == {p \in Nat \X Nat : p[1] < p[2]}
<1>1. OpToRel(<, Nat) = less
  BY Zenon DEF OpToRel
<1>2. IsWellFoundedOn(less, Nat)
  BY <1>1, NatLessThanWellFounded, Zenon
<1>3. PICK m \in S : \A y \in S : ~ (<<y, m>> \in less)
  <2> HIDE DEF less
  <2> QED BY <1>2, WFMin
<1>4. \A y \in S : m <= y
  <2>1. TAKE y \in S
  <2>2. y \in Nat /\ m \in Nat /\ ~ (<<y, m>> \in less)
    BY <1>3
  <2> QED BY <2>2
<1> QED BY <1>4

LEMMA GreatestOf ==
  ASSUME NEW n \in Nat, NEW S \in SUBSET (1 .. n), S # {}
  PROVE  \E m \in S : \A x \in S : x <= m
<1> DEFINE T == {n - x : x \in S}
<1>1. T \in SUBSET Nat /\ T # {}
  <2>1. \A x \in S : x \in 1 .. n /\ n - x \in Nat
    OBVIOUS
  <2> QED BY <2>1
<1>2. PICK y \in T : \A x \in T : y <= x
  <2> HIDE DEF T
  <2> QED BY <1>1, LeastOf
<1>3. PICK m \in S : y = n - m
  OBVIOUS
<1>4. ASSUME NEW x \in S PROVE x <= m
  <2>1. n - x \in T /\ x \in Int /\ m \in Int
    OBVIOUS
  <2>2. n - m <= n - x
    BY <1>2, <1>3, <2>1
  <2> QED BY <2>1, <2>2
<1> QED BY <1>4

(* The first packet of a stream in a buffer, ...                            *)
LEMMA FirstOfIs ==
  ASSUME NEW q \in Seq(PacketsOf(Streams)), NEW s
  PROVE  /\ FirstOf(q, s) \in 0 .. Len(q)
         /\ FirstOf(q, s) = 0 => ~ Has(q, s)
         /\ FirstOf(q, s) # 0 => /\ q[FirstOf(q, s)].stream = s
                                 /\ \A j \in 1 .. FirstOf(q, s) - 1 : q[j].stream # s
<1> DEFINE I == {i \in 1 .. Len(q) : q[i].stream = s}
<1>1. FirstOf(q, s) = IF I # {} THEN Min(I) ELSE 0
  BY DEF FirstOf, SelectInSeq
<1>2. CASE I = {}
  BY <1>1, <1>2 DEF Has
<1>3. CASE I # {}
  <2>1. I \in SUBSET Nat
    OBVIOUS
  <2>2. \E m \in I : \A x \in I : m <= x
    <3> HIDE DEF I
    <3> QED BY <1>3, <2>1, LeastOf
  <2>3. Min(I) \in I /\ \A x \in I : Min(I) <= x
    <3> HIDE DEF I
    <3> QED BY <2>2 DEF Min
  <2>4. FirstOf(q, s) \in I /\ \A x \in I : FirstOf(q, s) <= x
    <3> HIDE DEF I
    <3> QED BY <1>1, <1>3, <2>3
  <2> DEFINE m == FirstOf(q, s)
  <2>5. m \in 1 .. Len(q) /\ q[m].stream = s
    BY <2>4
  <2>6. ASSUME NEW j \in 1 .. m - 1 PROVE q[j].stream # s
    <3>1. j \in 1 .. Len(q) /\ ~ (m <= j)
      BY <2>5
    <3> QED BY <2>4, <3>1
  <2> QED BY <2>5, <2>6
<1> QED BY <1>2, <1>3

(* ... and the last one.                                                    *)
LEMMA LastOfIs ==
  ASSUME NEW q \in Seq(PacketsOf(Streams)), NEW s
  PROVE  /\ LastOf(q, s) \in 0 .. Len(q)
         /\ LastOf(q, s) = 0 => ~ Has(q, s)
         /\ LastOf(q, s) # 0 => /\ q[LastOf(q, s)].stream = s
                                /\ \A j \in LastOf(q, s) + 1 .. Len(q) : q[j].stream # s
<1> DEFINE I == {i \in 1 .. Len(q) : q[i].stream = s}
<1>1. LastOf(q, s) = IF I # {} THEN Max(I) ELSE 0
  BY DEF LastOf, SelectLastInSeq
<1>2. CASE I = {}
  BY <1>1, <1>2 DEF Has
<1>3. CASE I # {}
  <2>1. I \in SUBSET (1 .. Len(q)) /\ Len(q) \in Nat
    OBVIOUS
  <2>2. \E m \in I : \A x \in I : x <= m
    <3> HIDE DEF I
    <3> QED BY <1>3, <2>1, GreatestOf
  <2>3. Max(I) \in I /\ \A x \in I : x <= Max(I)
    <3> HIDE DEF I
    <3> QED BY <2>2 DEF Max
  <2>4. LastOf(q, s) \in I /\ \A x \in I : x <= LastOf(q, s)
    <3> HIDE DEF I
    <3> QED BY <1>1, <1>3, <2>3
  <2> DEFINE m == LastOf(q, s)
  <2>5. m \in 1 .. Len(q) /\ q[m].stream = s
    BY <2>4
  <2>6. ASSUME NEW j \in m + 1 .. Len(q) PROVE q[j].stream # s
    <3>1. j \in 1 .. Len(q) /\ ~ (j <= m)
      BY <2>5
    <3> QED BY <2>4, <3>1
  <2> QED BY <2>5, <2>6
<1> QED BY <1>2, <1>3

(* Packets of one stream are a frame apart.                                 *)
LEMMA DueSteps ==
  ASSUME origin \in [Streams -> Nat \ {0}], NEW o \in [Streams -> Int], NEW s \in Streams,
         NEW m \in Nat, NEW n \in Nat
  PROVE  /\ Due(s, n, o) \in Int /\ Due(s, n + 1, o) = Due(s, n, o) + Step(s)
         /\ m < n => Due(s, m, o) + Step(s) <= Due(s, n, o)
         /\ Due(s, m, o) < Due(s, n, o) => m < n
         /\ Due(s, m, o) <= Due(s, n, o) => m <= n
<1> DEFINE a == origin[s]
           b == o[s]
           d == Step(s)
<1>1. a \in Nat /\ b \in Int /\ d \in Nat \ {0}
  BY StepTypes
<1> HIDE DEF a, b, d
<1>2. \A x, y \in Nat : x < y => x * d + d <= y * d
  <2> TAKE x, y \in Nat
  <2>1. HAVE x < y
  <2>2. PICK k \in Nat : y = x + 1 + k
    <3>1. y - x - 1 \in Nat /\ y = x + 1 + (y - x - 1)
      BY <2>1
    <3> QED BY <3>1
  <2>3. y * d = x * d + d + k * d /\ k * d \in Nat /\ x * d \in Nat
    BY <1>1, <2>2
  <2> QED BY <1>1, <2>3
<1>3. n * d \in Nat /\ m * d \in Nat /\ (n + 1) * d = n * d + d
  BY <1>1
<1>4. Due(s, n, o) = a + n * d - b /\ Due(s, m, o) = a + m * d - b
      /\ Due(s, n + 1, o) = a + (n + 1) * d - b
  BY DEF Due, a, b, d
<1>5. m < n => m * d + d <= n * d
  BY <1>2
<1>6. n < m => n * d + d <= m * d
  BY <1>2
<1> HIDE DEF Due
<1> DEFINE x == m * d
           y == n * d
<1>7. x \in Nat /\ y \in Nat /\ (m < n => x + d <= y) /\ (n < m => y + d <= x) /\ (m = n => x = y)
  BY <1>3, <1>5, <1>6
<1>8. Due(s, n, o) = a + y - b /\ Due(s, m, o) = a + x - b /\ Due(s, n + 1, o) = a + (y + d) - b
  BY <1>3, <1>4
<1> HIDE DEF x, y
<1> QED BY <1>1, <1>7, <1>8 DEF d

(* r is q with p at place i.                                                *)
Inserted(q, r, i, p) ==
  /\ i \in 1 .. Len(q) + 1 /\ Len(r) = Len(q) + 1 /\ r[i] = p
  /\ \A j \in 1 .. i - 1 : r[j] = q[j]
  /\ \A j \in i .. Len(q) : r[j + 1] = q[j]

(* insert_interleaved_packet *)
LEMMA InsertIs ==
  ASSUME NEW q \in Seq(PacketsOf(Streams)), NEW p \in PacketsOf(Streams)
  PROVE  /\ Insert(q, p) \in Seq(PacketsOf(Streams))
         /\ \E i : /\ Inserted(q, Insert(q, p), i, p)
                   /\ \A j \in 1 .. i - 1 : ~ Precedes(p, q[j])
                   /\ i <= Len(q) => Precedes(p, q[i])
<1> DEFINE I == {i \in 1 .. Len(q) : Precedes(p, q[i])}
           k == SelectInSeq(q, LAMBDA c : Precedes(p, c))
<1>1. k = IF I # {} THEN Min(I) ELSE 0
  BY DEF SelectInSeq
<1>2. Insert(q, p) = IF k = 0 THEN Append(q, p) ELSE InsertAt(q, k, p)
  BY DEF Insert
<1>3. CASE I = {}
  <2>1. Insert(q, p) = Append(q, p)
    BY <1>1, <1>2, <1>3
  <2>2. Inserted(q, Append(q, p), Len(q) + 1, p)
    BY DEF Inserted
  <2>3. \A j \in 1 .. Len(q) : ~ Precedes(p, q[j])
    BY <1>3
  <2> QED BY <2>1, <2>2, <2>3
<1>4. CASE I # {}
  <2>1. \E m \in I : \A x \in I : m <= x
    <3>1. I \in SUBSET Nat
      OBVIOUS
    <3> HIDE DEF I
    <3> QED BY <1>4, <3>1, LeastOf
  <2>2. k \in I /\ \A x \in I : k <= x
    <3> HIDE DEF I, k
    <3> QED BY <1>1, <1>4, <2>1 DEF Min
  <2>3. k \in 1 .. Len(q) /\ Precedes(p, q[k])
    BY <2>2
  <2>4. ASSUME NEW j \in 1 .. k - 1 PROVE ~ Precedes(p, q[j])
    <3>1. j \in 1 .. Len(q) /\ ~ (k <= j)
      BY <2>3
    <3> QED BY <2>2, <3>1
  <2> HIDE DEF k, I
  <2>5. Insert(q, p) = SubSeq(q, 1, k - 1) \o <<p>> \o SubSeq(q, k, Len(q))
    BY <1>2, <2>3 DEF InsertAt
  <2>6. Inserted(q, Insert(q, p), k, p) /\ Insert(q, p) \in Seq(PacketsOf(Streams))
    <3> DEFINE a == SubSeq(q, 1, k - 1)
               b == SubSeq(q, k, Len(q))
    <3>1. /\ a \in Seq(PacketsOf(Streams)) /\ Len(a) = k - 1 /\ \A j \in 1 .. k - 1 : a[j] = q[j]
          /\ b \in Seq(PacketsOf(Streams)) /\ Len(b) = Len(q) - k + 1
          /\ \A j \in k .. Len(q) : b[j - k + 1] = q[j]
      BY <2>3
    <3> HIDE DEF a, b
    <3> DEFINE r == a \o <<p>> \o b
    <3>2. r \in Seq(PacketsOf(Streams)) /\ Len(r) = Len(q) + 1
      <4>1. <<p>> \in Seq(PacketsOf(Streams)) /\ Len(<<p>>) = 1
        OBVIOUS
      <4> DEFINE e == a \o <<p>>
      <4>2. e \in Seq(PacketsOf(Streams)) /\ Len(e) = k
        <5>1. e \in Seq(PacketsOf(Streams))
          BY <3>1, <4>1
        <5>2. Len(e) = Len(a) + Len(<<p>>)
          BY <3>1, <4>1
        <5> QED BY <2>3, <3>1, <4>1, <5>1, <5>2
      <4> HIDE DEF e
      <4>3. e \o b \in Seq(PacketsOf(Streams)) /\ Len(e \o b) = Len(e) + Len(b)
        BY <3>1, <4>2
      <4>4. r = e \o b
        BY DEF e
      <4>5. k + (Len(q) - k + 1) = Len(q) + 1
        BY <2>3
      <4> HIDE DEF r
      <4> QED BY <3>1, <4>2, <4>3, <4>4, <4>5
    <3>3. r[k] = p /\ \A j \in 1 .. k - 1 : r[j] = a[j]
      BY <2>3, <3>1
    <3>4. \A j \in k .. Len(q) : r[j + 1] = b[j - k + 1]
      BY <2>3, <3>1
    <3> HIDE DEF r
    <3>5. Inserted(q, r, k, p)
      BY <2>3, <3>1, <3>2, <3>3, <3>4 DEF Inserted
    <3> QED BY <2>5, <3>2, <3>5 DEF r, a, b
  <2> QED BY <2>3, <2>4, <2>6
<1> QED BY <1>3, <1>4

LEMMA InsertOrdered ==
  ASSUME NEW q \in Seq(PacketsOf(Streams)), NEW p \in PacketsOf(Streams), Ordered(q)
  PROVE  Ordered(Insert(q, p))
<1> DEFINE r == Insert(q, p)
<1>1. PICK k : /\ Inserted(q, r, k, p)
               /\ \A j \in 1 .. k - 1 : ~ Precedes(p, q[j])
               /\ k <= Len(q) => Precedes(p, q[k])
  BY InsertIs
<1>2. r \in Seq(PacketsOf(Streams)) /\ DOMAIN r = 1 .. Len(q) + 1 /\ k \in 1 .. Len(q) + 1
  BY <1>1, InsertIs DEF Inserted
<1> HIDE DEF r
<1>3. p.dts \in Int /\ \A j \in 1 .. Len(q) : q[j].dts \in Int
  BY PacketFields
<1>4. \A j \in 1 .. k - 1 : InOrder(r[j], p) /\ r[j] = q[j]
  BY <1>1, <1>2, <1>3 DEF Inserted, InOrder, Precedes
<1>5. \A j \in k .. Len(q) : InOrder(p, q[j])
  <2> TAKE j \in k .. Len(q)
  <2>1. Precedes(p, q[k]) /\ k \in 1 .. Len(q) /\ j \in 1 .. Len(q)
    BY <1>1, <1>2
  <2>2. j = k \/ InOrder(q[k], q[j])
    BY <2>1 DEF Ordered
  <2> QED BY <1>3, <2>1, <2>2 DEF InOrder, Precedes
<1>6. \A j \in k + 1 .. Len(q) + 1 : r[j] = q[j - 1] /\ j - 1 \in k .. Len(q)
  <2> TAKE j \in k + 1 .. Len(q) + 1
  <2>1. j - 1 \in k .. Len(q) /\ (j - 1) + 1 = j
    BY <1>2
  <2> QED BY <1>1, <2>1 DEF Inserted
<1>7. ASSUME NEW i \in 1 .. Len(q) + 1, NEW j \in 1 .. Len(q) + 1, i < j
      PROVE  InOrder(r[i], r[j])
  <2>1. CASE j < k
    <3>1. r[i] = q[i] /\ r[j] = q[j] /\ i \in 1 .. Len(q) /\ j \in 1 .. Len(q)
      BY <1>2, <1>4, <1>7, <2>1
    <3> QED BY <1>7, <3>1 DEF Ordered
  <2>2. CASE j = k
    BY <1>1, <1>2, <1>4, <1>7, <2>2 DEF Inserted
  <2>3. CASE j > k /\ i = k
    BY <1>1, <1>2, <1>5, <1>6, <2>3 DEF Inserted
  <2>4. CASE j > k /\ i > k
    <3>1. r[i] = q[i - 1] /\ r[j] = q[j - 1] /\ i - 1 \in 1 .. Len(q) /\ j - 1 \in 1 .. Len(q)
      BY <1>2, <1>6, <1>7, <2>4
    <3> QED BY <1>7, <3>1 DEF Ordered
  <2>5. CASE j > k /\ i < k
    <3>1. r[i] = q[i] /\ r[j] = q[j - 1] /\ i \in 1 .. Len(q) /\ j - 1 \in 1 .. Len(q) /\ i < j - 1
      BY <1>2, <1>4, <1>6, <1>7, <2>5
    <3> QED BY <3>1 DEF Ordered
  <2> QED BY <1>2, <2>1, <2>2, <2>3, <2>4, <2>5
<1> QED BY <1>2, <1>7 DEF Ordered, r

(* The place of each entry before and after.                                *)
LEMMA InsertedPlaces ==
  ASSUME NEW q \in Seq(PacketsOf(Streams)), NEW r \in Seq(PacketsOf(Streams)), NEW p, NEW k,
         Inserted(q, r, k, p)
  PROVE  /\ DOMAIN r = 1 .. Len(q) + 1 /\ k \in DOMAIN r /\ r[k] = p
         /\ \A i \in DOMAIN r \ {k} : \E j \in DOMAIN q :
              /\ r[i] = q[j] /\ j = (IF i < k THEN i ELSE i - 1) /\ (i < k <=> j < k)
         /\ \A j \in DOMAIN q : \E i \in DOMAIN r \ {k} :
              r[i] = q[j] /\ i = (IF j < k THEN j ELSE j + 1)
<1>1. DOMAIN r = 1 .. Len(q) + 1 /\ DOMAIN q = 1 .. Len(q) /\ k \in 1 .. Len(q) + 1 /\ r[k] = p
  BY DEF Inserted
<1>2. ASSUME NEW i \in DOMAIN r \ {k}
      PROVE \E j \in DOMAIN q :
              /\ r[i] = q[j] /\ j = (IF i < k THEN i ELSE i - 1) /\ (i < k <=> j < k)
  <2>1. CASE i < k
    BY <1>1, <2>1 DEF Inserted
  <2>2. CASE ~ (i < k)
    <3>1. i - 1 \in k .. Len(q) /\ (i - 1) + 1 = i
      BY <1>1, <2>2
    <3>2. r[i] = q[i - 1]
      BY <3>1 DEF Inserted
    <3> QED BY <1>1, <2>2, <3>1, <3>2
  <2> QED BY <2>1, <2>2
<1>3. ASSUME NEW j \in DOMAIN q
      PROVE \E i \in DOMAIN r \ {k} : r[i] = q[j] /\ i = (IF j < k THEN j ELSE j + 1)
  <2>1. CASE j < k
    <3>1. j \in 1 .. k - 1 /\ j \in DOMAIN r \ {k}
      BY <1>1, <2>1
    <3> QED BY <2>1, <3>1 DEF Inserted
  <2>2. CASE ~ (j < k)
    <3>1. j \in k .. Len(q) /\ j + 1 \in DOMAIN r \ {k}
      BY <1>1, <2>2
    <3> QED BY <2>2, <3>1 DEF Inserted
  <2> QED BY <2>1, <2>2
<1> QED BY <1>1, <1>2, <1>3

(* A packet that is later than all of its stream goes behind them.          *)
LEMMA InsertedRising ==
  ASSUME NEW q \in Seq(PacketsOf(Streams)), NEW r \in Seq(PacketsOf(Streams)),
         NEW p \in PacketsOf(Streams), NEW k, Inserted(q, r, k, p), Rising(q),
         \A j \in DOMAIN q : q[j].stream = p.stream => q[j].n < p.n /\ j < k
  PROVE  Rising(r)
<1> SUFFICES ASSUME NEW i \in DOMAIN r, NEW j \in DOMAIN r, i < j, r[i].stream = r[j].stream
             PROVE  r[i].n < r[j].n
  BY DEF Rising
<1>1. /\ DOMAIN r = 1 .. Len(q) + 1 /\ k \in DOMAIN r /\ r[k] = p
      /\ \A h \in DOMAIN r \ {k} : \E g \in DOMAIN q :
           /\ r[h] = q[g] /\ g = (IF h < k THEN h ELSE h - 1) /\ (h < k <=> g < k)
  BY InsertedPlaces
<1>2. CASE j = k
  <2>1. PICK h \in DOMAIN q : r[i] = q[h]
    BY <1>1, <1>2
  <2>2. q[h].stream = p.stream
    BY <1>1, <1>2, <2>1
  <2> QED BY <1>1, <1>2, <2>1, <2>2
<1>3. CASE i = k
  <2>1. PICK h \in DOMAIN q : r[j] = q[h] /\ (j < k <=> h < k)
    BY <1>1, <1>3
  <2>2. q[h].stream = p.stream /\ ~ (j < k)
    BY <1>1, <1>3, <2>1
  <2> QED BY <2>1, <2>2
<1>4. CASE i # k /\ j # k
  <2>1. PICK g \in DOMAIN q : r[i] = q[g] /\ g = IF i < k THEN i ELSE i - 1
    BY <1>1, <1>4
  <2>2. PICK h \in DOMAIN q : r[j] = q[h] /\ h = IF j < k THEN j ELSE j - 1
    BY <1>1, <1>4
  <2>3. g < h
    BY <1>1, <1>4, <2>1, <2>2
  <2> QED BY <2>1, <2>2, <2>3 DEF Rising
<1> QED BY <1>2, <1>3, <1>4

LEMMA InsertedTimed ==
  ASSUME NEW q \in Seq(PacketsOf(Streams)), NEW r \in Seq(PacketsOf(Streams)), NEW p, NEW k, NEW o,
         Inserted(q, r, k, p), Timed(q, o), p.dts = Due(p.stream, p.n, o)
  PROVE  Timed(r, o)
BY InsertedPlaces DEF Timed

LEMMA InsertedWhole ==
  ASSUME NEW q \in Seq(PacketsOf(Streams)), NEW r \in Seq(PacketsOf(Streams)),
         NEW p \in PacketsOf(Streams), NEW k, Inserted(q, r, k, p), NEW m, NEW n,
         m \in [Streams -> Nat], Whole(q, m),
         p.n = m[p.stream], n = [m EXCEPT ![p.stream] = @ + 1]
  PROVE  Whole(r, n)
<1>1. /\ k \in DOMAIN r /\ r[k] = p
      /\ \A i \in DOMAIN r \ {k} : \E j \in DOMAIN q : r[i] = q[j]
      /\ \A j \in DOMAIN q : \E i \in DOMAIN r : r[i] = q[j]
  BY InsertedPlaces
<1>2. p.stream \in Streams /\ n[p.stream] = p.n + 1 /\ p.n \in Nat
      /\ \A s \in Streams : s # p.stream => n[s] = m[s]
  BY PacketFields
<1>5. ASSUME NEW i \in DOMAIN r PROVE r[i].n < n[r[i].stream]
  <2>1. CASE i = k
    BY <1>1, <1>2, <2>1
  <2>2. CASE i # k
    <3>1. PICK j \in DOMAIN q : r[i] = q[j]
      BY <1>1, <2>2
    <3>2. q[j].n < m[q[j].stream] /\ q[j].n \in Nat /\ q[j].stream \in Streams
      BY PacketFields DEF Whole
    <3> QED BY <1>2, <3>1, <3>2
  <2> QED BY <2>1, <2>2
<1> SUFFICES ASSUME NEW i \in DOMAIN r, NEW x \in r[i].n .. n[r[i].stream] - 1
             PROVE  \E j \in DOMAIN r : r[j].stream = r[i].stream /\ r[j].n = x
  BY <1>5 DEF Whole
<1>3. CASE r[i].stream = p.stream /\ x = p.n
  BY <1>1, <1>3
<1>4. CASE ~ (r[i].stream = p.stream /\ x = p.n)
  <2>1. r[i] \in PacketsOf(Streams) /\ r[i].n \in Nat /\ r[i].stream \in Streams
    BY PacketFields
  <2>2. i # k /\ x \in r[i].n .. m[r[i].stream] - 1
    BY <1>1, <1>2, <1>4, <2>1
  <2>3. PICK g \in DOMAIN q : r[i] = q[g]
    BY <1>1, <2>2
  <2>4. PICK h \in DOMAIN q : q[h].stream = r[i].stream /\ q[h].n = x
    BY <2>2, <2>3 DEF Whole
  <2>5. PICK j \in DOMAIN r : r[j] = q[h]
    BY <1>1
  <2> QED BY <2>4, <2>5
<1> QED BY <1>3, <1>4

(* r is q without its first d packets.                                      *)
Suffix(q, r, d) ==
  /\ d \in 0 .. Len(q) /\ Len(r) = Len(q) - d
  /\ \A j \in 1 .. Len(q) - d : r[j] = q[j + d]

(* discard_to_idx *)
LEMMA DiscardIs ==
  ASSUME NEW q \in Seq(PacketsOf(Streams)), NEW i \in 1 .. Len(q) + 1
  PROVE  DiscardTo(q, i) \in Seq(PacketsOf(Streams)) /\ Suffix(q, DiscardTo(q, i), i - 1)
<1> DEFINE r == SubSeq(q, i, Len(q))
<1>1. r \in Seq(PacketsOf(Streams)) /\ Len(r) = Len(q) - (i - 1)
  OBVIOUS
<1>2. ASSUME NEW j \in 1 .. Len(q) - (i - 1) PROVE r[j] = q[j + (i - 1)]
  OBVIOUS
<1> QED BY <1>1, <1>2 DEF DiscardTo, Suffix

LEMMA SuffixPlaces ==
  ASSUME NEW q \in Seq(PacketsOf(Streams)), NEW r \in Seq(PacketsOf(Streams)), NEW d,
         Suffix(q, r, d)
  PROVE  /\ d \in Nat /\ \A j \in DOMAIN r : j + d \in DOMAIN q /\ r[j] = q[j + d]
         /\ \A i \in DOMAIN q : i > d => i - d \in DOMAIN r /\ r[i - d] = q[i]
<1>1. DOMAIN r = 1 .. Len(q) - d /\ DOMAIN q = 1 .. Len(q) /\ d \in 0 .. Len(q)
  BY DEF Suffix
<1>2. ASSUME NEW j \in DOMAIN r PROVE j + d \in DOMAIN q /\ r[j] = q[j + d]
  BY <1>1 DEF Suffix
<1>3. ASSUME NEW i \in DOMAIN q, i > d PROVE i - d \in DOMAIN r /\ r[i - d] = q[i]
  <2>1. i - d \in 1 .. Len(q) - d /\ (i - d) + d = i
    BY <1>1, <1>3
  <2>2. r[i - d] = q[(i - d) + d]
    BY <2>1 DEF Suffix
  <2> QED BY <1>1, <2>1, <2>2
<1> QED BY <1>1, <1>2, <1>3

(* What is left of a buffer when its beginning is discarded.                *)
LEMMA SuffixKeeps ==
  ASSUME NEW q \in Seq(PacketsOf(Streams)), NEW r \in Seq(PacketsOf(Streams)), NEW d,
         Suffix(q, r, d), Ordered(q), Rising(q)
  PROVE  /\ Ordered(r) /\ Rising(r)
         /\ \A o : Timed(q, o) => Timed(r, o)
         /\ \A m \in [Streams -> Nat] : Whole(q, m) => Whole(r, m)
<1>1. /\ d \in Nat /\ \A j \in DOMAIN r : j \in Nat /\ j + d \in DOMAIN q /\ r[j] = q[j + d]
      /\ \A i \in DOMAIN q : i \in Nat /\ (i > d => i - d \in DOMAIN r /\ r[i - d] = q[i])
  BY SuffixPlaces
<1>2. \A i, j \in DOMAIN r : i < j => i + d < j + d
  BY <1>1
<1>3. Ordered(r)
  BY <1>1, <1>2 DEF Ordered
<1>4. Rising(r)
  BY <1>1, <1>2 DEF Rising
<1>5. ASSUME NEW o, Timed(q, o) PROVE Timed(r, o)
  BY <1>1, <1>5 DEF Timed
<1>6. ASSUME NEW m \in [Streams -> Nat], Whole(q, m) PROVE Whole(r, m)
  <2>5. \A i \in DOMAIN r : r[i].n < m[r[i].stream]
    BY <1>1, <1>6 DEF Whole
  <2> SUFFICES ASSUME NEW i \in DOMAIN r, NEW x \in r[i].n .. m[r[i].stream] - 1
               PROVE  \E j \in DOMAIN r : r[j].stream = r[i].stream /\ r[j].n = x
    BY <2>5 DEF Whole
  <2>1. i + d \in DOMAIN q /\ r[i] = q[i + d] /\ r[i].n \in Nat /\ x \in Nat /\ i \in Nat
    <3>1. r[i].n \in Nat /\ r[i].stream \in Streams
      BY PacketFields
    <3> QED BY <1>1, <3>1
  <2>2. PICK h \in DOMAIN q : q[h].stream = r[i].stream /\ q[h].n = x
    BY <1>6, <2>1 DEF Whole
  <2>3. ~ (h < i + d)
    BY <2>1, <2>2 DEF Rising
  <2>4. h > d /\ h - d \in DOMAIN r /\ r[h - d] = q[h]
    <3>1. h \in Nat /\ i > 0
      BY <1>1
    <3>2. h > d
      BY <1>1, <2>1, <2>3, <3>1
    <3> QED BY <1>1, <3>2
  <2> QED BY <2>2, <2>4
<1> QED BY <1>3, <1>4, <1>5, <1>6

(* get_interleaved_start_idx *)
Closest(q, c) ==
  /\ c \in DOMAIN q /\ q[c].stream # Video
  /\ \A j \in DOMAIN q : q[j].stream # Video =>
       LET v == FirstOf(q, Video)
       IN  \/ Distance(q[c], q[v]) < Distance(q[j], q[v])
           \/ Distance(q[c], q[v]) = Distance(q[j], q[v]) /\ c <= j

(* get_interleaved_start_idx: the first video, or the packet closest to it  *)
(* if that comes earlier.                                                   *)
LEMMA StartIdxIs ==
  ASSUME NEW q \in Seq(PacketsOf(Streams)), Has(q, Video), \E i \in DOMAIN q : q[i].stream # Video
  PROVE  /\ FirstOf(q, Video) \in DOMAIN q
         /\ \E c : /\ Closest(q, c)
                   /\ StartIdx(q) = IF FirstOf(q, Video) < c THEN FirstOf(q, Video) ELSE c
<1> DEFINE v == FirstOf(q, Video)
           A == {i \in 1 .. Len(q) : q[i].stream # Video}
           E(i) == Distance(q[i], q[v])
           Best(c) == c \in A /\ \A j \in A : E(c) < E(j) \/ (E(c) = E(j) /\ c <= j)
<1>1. v \in DOMAIN q
  <2>1. v \in 0 .. Len(q) /\ v # 0
    BY FirstOfIs
  <2> QED BY <2>1
<1> HIDE DEF v
<1>2. \A i \in A : E(i) \in Nat
  <2> TAKE i \in A
  <2>1. q[i].dts \in Int /\ q[v].dts \in Int
    BY <1>1, PacketFields
  <2> QED BY <2>1 DEF Distance
<1>3. PICK x \in A : \A j \in A : E(x) <= E(j)
  <2> DEFINE D == {E(i) : i \in A}
  <2>1. D \in SUBSET Nat /\ D # {}
    <3>1. A # {}
      OBVIOUS
    <3> HIDE DEF A, E
    <3> QED BY <1>2, <3>1
  <2>2. PICK y \in D : \A z \in D : y <= z
    <3> HIDE DEF D
    <3> QED BY <2>1, LeastOf
  <2> HIDE DEF A, E
  <2> QED BY <2>2
<1>4. \E c : Best(c)
  <2> DEFINE B == {i \in A : E(i) = E(x)}
  <2>1. B \in SUBSET Nat /\ x \in B
    OBVIOUS
  <2>2. PICK c \in B : \A i \in B : c <= i
    <3> HIDE DEF B
    <3> QED BY <2>1, LeastOf
  <2>3. ASSUME NEW j \in A PROVE E(c) < E(j) \/ (E(c) = E(j) /\ c <= j)
    <3>1. E(c) = E(x) /\ E(x) <= E(j) /\ E(x) \in Nat /\ E(j) \in Nat
      <4> HIDE DEF A, E
      <4> QED BY <1>2, <1>3, <2>2, <2>3
    <3>2. E(j) = E(x) => j \in B
      BY <2>3
    <3> HIDE DEF A, B, E
    <3> QED BY <2>2, <3>1, <3>2
  <2> HIDE DEF E
  <2> QED BY <2>2, <2>3
<1> DEFINE c == CHOOSE i \in A : \A j \in A :
                  \/ Distance(q[i], q[v]) < Distance(q[j], q[v])
                  \/ Distance(q[i], q[v]) = Distance(q[j], q[v]) /\ i <= j
<1>5. Best(c)
  <2> HIDE DEF A
  <2> QED BY <1>4
<1>6. StartIdx(q) = IF v < c THEN v ELSE c
  BY DEF StartIdx, v
<1> HIDE DEF c
<1>7. Closest(q, c)
  BY <1>5 DEF Closest, v
<1> QED BY <1>1, <1>6, <1>7 DEF v

(* The loop of resort_interleaved_packets.                                  *)
LEMMA ResortLoop ==
  ASSUME NEW q \in Seq(PacketsOf(Streams))
  PROVE  \E sorted :
           /\ sorted[0] = <<>> /\ Resort(q) = sorted[Len(q)]
           /\ \A n \in 1 .. Len(q) : sorted[n] = Insert(sorted[n - 1], q[n])
<1> DEFINE Steps(b, n) ==
             b = [i \in 0 .. n |-> IF i = 0 THEN <<>> ELSE Insert(b[i - 1], q[i])]
           Bad == {n \in Nat : ~ \E b : Steps(b, n)}
<1>1. Bad = {}
  <2> SUFFICES ASSUME Bad # {} PROVE FALSE
    OBVIOUS
  <2>1. PICK n \in Bad : \A m \in Bad : n <= m
    <3>1. Bad \in SUBSET Nat
      OBVIOUS
    <3> HIDE DEF Bad
    <3> QED BY <3>1, LeastOf
  <2>2. n # 0
    <3>1. Steps([i \in 0 .. 0 |-> <<>>], 0)
      OBVIOUS
    <3> QED BY <3>1
  <2>3. PICK b : Steps(b, n - 1)
    <3>1. n \in Nat /\ n - 1 \in Nat /\ ~ (n <= n - 1)
      BY <2>2
    <3>2. ~ (n - 1 \in Bad)
      <4> HIDE DEF Bad
      <4> QED BY <2>1, <3>1
    <3> QED BY <3>1, <3>2
  <2> DEFINE c == [i \in 0 .. n |-> IF i = n THEN Insert(b[n - 1], q[n]) ELSE b[i]]
  <2>4. \A i \in 0 .. n : c[i] = IF i = 0 THEN <<>> ELSE Insert(c[i - 1], q[i])
    <3> TAKE i \in 0 .. n
    <3>1. CASE i = n
      <4>1. c[n] = Insert(b[n - 1], q[n]) /\ c[n - 1] = b[n - 1]
        BY <2>2
      <4> QED BY <3>1, <4>1, <2>2
    <3>2. CASE i # n
      <4>1. i \in 0 .. n - 1 /\ c[i] = b[i] /\ (i # 0 => c[i - 1] = b[i - 1])
        BY <3>2
      <4>2. b[i] = IF i = 0 THEN <<>> ELSE Insert(b[i - 1], q[i])
        BY <2>3, <4>1
      <4> QED BY <4>1, <4>2
    <3> QED BY <3>1, <3>2
  <2>5. Steps(c, n)
    <3>1. c = [i \in 0 .. n |-> c[i]]
      OBVIOUS
    <3> HIDE DEF c
    <3> QED BY <3>1, <2>4
  <2> QED BY <2>1, <2>5
<1>2. PICK b : Steps(b, Len(q))
  BY <1>1
<1> DEFINE sorted == CHOOSE d : Steps(d, Len(q))
<1>3. Steps(sorted, Len(q))
  BY <1>2
<1>4. Resort(q) = sorted[Len(q)]
  BY DEF Resort
<1> HIDE DEF sorted
<1>5. Len(q) \in Nat
  OBVIOUS
<1>6. \A i \in 0 .. Len(q) : sorted[i] = IF i = 0 THEN <<>> ELSE Insert(sorted[i - 1], q[i])
  BY <1>3
<1>7. sorted[0] = <<>>
  BY <1>5, <1>6
<1>8. \A i \in 1 .. Len(q) : sorted[i] = Insert(sorted[i - 1], q[i])
  BY <1>5, <1>6
<1> QED BY <1>4, <1>7, <1>8

(* A packet is inserted behind the earlier ones of its stream.              *)
LEMMA InsertBehind ==
  ASSUME origin \in [Streams -> Nat \ {0}], NEW o \in [Streams -> Int],
         NEW q \in Seq(PacketsOf(Streams)), NEW p \in PacketsOf(Streams),
         Ordered(q), Timed(q, o), p.dts = Due(p.stream, p.n, o)
  PROVE  \E k : /\ Inserted(q, Insert(q, p), k, p)
                /\ \A j \in DOMAIN q : q[j].stream = p.stream /\ q[j].n < p.n => j < k
<1>1. PICK k : /\ Inserted(q, Insert(q, p), k, p)
               /\ k <= Len(q) => Precedes(p, q[k])
  BY InsertIs
<1>2. ASSUME NEW j \in DOMAIN q, q[j].stream = p.stream, q[j].n < p.n PROVE j < k
  <2> SUFFICES ASSUME ~ (j < k) PROVE FALSE
    BY <1>1 DEF Inserted
  <2>1. k \in DOMAIN q /\ Precedes(p, q[k]) /\ (k = j \/ k < j) /\ k \in Nat /\ j \in Nat
    BY <1>1 DEF Inserted
  <2>2. k = j \/ InOrder(q[k], q[j])
    BY <2>1 DEF Ordered
  <2>3. p.dts \in Int /\ q[k].dts \in Int /\ q[j].dts \in Int /\ q[j].n \in Nat /\ p.n \in Nat
        /\ p.stream \in Streams
    BY <2>1, PacketFields
  <2>4. p.dts <= q[j].dts
    BY <2>1, <2>2, <2>3 DEF InOrder, Precedes
  <2>5. q[j].dts = Due(p.stream, q[j].n, o)
    BY <1>2 DEF Timed
  <2>6. Due(p.stream, q[j].n, o) + Step(p.stream) <= Due(p.stream, p.n, o)
        /\ Due(p.stream, q[j].n, o) \in Int /\ Step(p.stream) \in Nat \ {0}
    BY <1>2, <2>3, DueSteps, StepTypes
  <2> HIDE DEF Due
  <2> QED BY <2>3, <2>4, <2>5, <2>6
<1> QED BY <1>1, <1>2

(* resort_interleaved_packets sorts, keeps the order within streams, and    *)
(* neither loses nor repeats a packet.                                      *)
LEMMA ResortIs ==
  ASSUME origin \in [Streams -> Nat \ {0}], NEW o \in [Streams -> Int],
         NEW q \in Seq(PacketsOf(Streams)), Timed(q, o), Rising(q)
  PROVE  /\ Resort(q) \in Seq(PacketsOf(Streams)) /\ Len(Resort(q)) = Len(q)
         /\ Ordered(Resort(q)) /\ Timed(Resort(q), o) /\ Rising(Resort(q))
         /\ \A i \in DOMAIN q : \E j \in DOMAIN Resort(q) : Resort(q)[j] = q[i]
         /\ \A j \in DOMAIN Resort(q) : \E i \in DOMAIN q : Resort(q)[j] = q[i]
<1>1. PICK sorted : /\ sorted[0] = <<>> /\ Resort(q) = sorted[Len(q)]
                    /\ \A n \in 1 .. Len(q) : sorted[n] = Insert(sorted[n - 1], q[n])
  BY ResortLoop
<1> DEFINE Good(n) ==
             /\ sorted[n] \in Seq(PacketsOf(Streams)) /\ Len(sorted[n]) = n
             /\ Ordered(sorted[n]) /\ Timed(sorted[n], o) /\ Rising(sorted[n])
             /\ \A i \in 1 .. n : \E j \in DOMAIN sorted[n] : sorted[n][j] = q[i]
             /\ \A j \in DOMAIN sorted[n] : \E i \in 1 .. n : sorted[n][j] = q[i]
<1>2. Good(0)
  BY <1>1 DEF Ordered, Timed, Rising
<1>3. ASSUME NEW n \in 1 .. Len(q), Good(n - 1) PROVE Good(n)
  <2> DEFINE s == sorted[n - 1]
             r == sorted[n]
             p == q[n]
  <2>1. /\ s \in Seq(PacketsOf(Streams)) /\ Len(s) = n - 1 /\ Ordered(s) /\ Timed(s, o) /\ Rising(s)
        /\ \A i \in 1 .. n - 1 : \E j \in DOMAIN s : s[j] = q[i]
        /\ \A j \in DOMAIN s : \E i \in 1 .. n - 1 : s[j] = q[i]
    BY <1>3
  <2>2. r = Insert(s, p)
    BY <1>1
  <2>3. p \in PacketsOf(Streams) /\ p.dts = Due(p.stream, p.n, o) /\ n \in DOMAIN q
    BY DEF Timed
  <2> HIDE DEF s, r, p
  <2>4. r \in Seq(PacketsOf(Streams)) /\ Ordered(r)
    BY <2>1, <2>2, <2>3, InsertIs, InsertOrdered
  <2>5. PICK k : /\ Inserted(s, r, k, p)
                 /\ \A j \in DOMAIN s : s[j].stream = p.stream /\ s[j].n < p.n => j < k
    BY <2>1, <2>2, <2>3, InsertBehind
  <2>6. Len(r) = n
    BY <2>1, <2>5 DEF Inserted
  <2>7. \A j \in DOMAIN s : s[j].stream = p.stream => s[j].n < p.n /\ j < k
    <3> TAKE j \in DOMAIN s
    <3>1. PICK i \in 1 .. n - 1 : s[j] = q[i]
      BY <2>1
    <3>2. i \in DOMAIN q /\ i < n
      BY <3>1
    <3>3. s[j].stream = p.stream => s[j].n < p.n
      BY <2>3, <3>1, <3>2 DEF Rising, p
    <3> QED BY <2>5, <3>3
  <2>8. Rising(r)
    BY <2>1, <2>3, <2>4, <2>5, <2>7, InsertedRising
  <2>9. Timed(r, o)
    BY <2>1, <2>3, <2>4, <2>5, InsertedTimed
  <2>10. /\ DOMAIN r = 1 .. Len(s) + 1 /\ k \in DOMAIN r /\ r[k] = p
         /\ \A i \in DOMAIN r \ {k} : \E j \in DOMAIN s : r[i] = s[j]
         /\ \A j \in DOMAIN s : \E i \in DOMAIN r : r[i] = s[j]
    BY <2>1, <2>4, <2>5, InsertedPlaces
  <2>11. ASSUME NEW i \in 1 .. n PROVE \E j \in DOMAIN r : r[j] = q[i]
    <3>1. CASE i = n
      BY <2>10, <3>1 DEF p
    <3>2. CASE i # n
      <4>1. i \in 1 .. n - 1
        BY <3>2
      <4> QED BY <2>1, <2>10, <4>1
    <3> QED BY <3>1, <3>2
  <2>12. ASSUME NEW j \in DOMAIN r PROVE \E i \in 1 .. n : r[j] = q[i]
    <3>1. CASE j = k
      BY <2>10, <3>1 DEF p
    <3>2. CASE j # k
      <4>1. PICK h \in DOMAIN s : r[j] = s[h]
        BY <2>10, <3>2
      <4>2. PICK i \in 1 .. n - 1 : s[h] = q[i]
        BY <2>1
      <4>3. i \in 1 .. n
        OBVIOUS
      <4> QED BY <4>1, <4>2, <4>3
    <3> QED BY <3>1, <3>2
  <2> QED BY <2>4, <2>6, <2>8, <2>9, <2>11, <2>12 DEF r
<1> HIDE DEF Good
<1>4. Good(Len(q))
  <2> DEFINE Bad == {n \in 0 .. Len(q) : ~ Good(n)}
  <2>1. Bad = {}
    <3> SUFFICES ASSUME Bad # {} PROVE FALSE
      OBVIOUS
    <3>1. PICK n \in Bad : \A m \in Bad : n <= m
      <4>1. Bad \in SUBSET Nat
        OBVIOUS
      <4> HIDE DEF Bad
      <4> QED BY <4>1, LeastOf
    <3>2. n \in 1 .. Len(q) /\ n - 1 \in 0 .. Len(q) /\ ~ (n <= n - 1)
      BY <1>2
    <3>3. Good(n - 1)
      BY <3>1, <3>2
    <3> QED BY <1>3, <3>2, <3>3
  <2> QED BY <2>1
<1> DEFINE r == sorted[Len(q)]
<1>5. /\ r \in Seq(PacketsOf(Streams)) /\ Len(r) = Len(q)
      /\ Ordered(r) /\ Timed(r, o) /\ Rising(r)
      /\ \A i \in 1 .. Len(q) : \E j \in DOMAIN r : r[j] = q[i]
      /\ \A j \in DOMAIN r : \E i \in 1 .. Len(q) : r[j] = q[i]
  BY <1>4 DEF Good
<1>6. Resort(q) = r /\ DOMAIN q = 1 .. Len(q)
  BY <1>1
<1> HIDE DEF r
<1> QED BY <1>5, <1>6

LEMMA ConcatPlaces ==
  ASSUME NEW a \in Seq(PacketsOf(Streams)), NEW q \in Seq(PacketsOf(Streams))
  PROVE  /\ a \o q \in Seq(PacketsOf(Streams)) /\ Len(a \o q) = Len(a) + Len(q)
         /\ DOMAIN (a \o q) = 1 .. Len(a) + Len(q)
         /\ \A i \in DOMAIN a : i \in DOMAIN (a \o q) /\ (a \o q)[i] = a[i]
         /\ \A i \in DOMAIN q : Len(a) + i \in DOMAIN (a \o q) /\ (a \o q)[Len(a) + i] = q[i]
         /\ \A j \in DOMAIN (a \o q) : j \in DOMAIN a \/ (j - Len(a) \in DOMAIN q /\ j > Len(a))
<1>1. a \o q \in Seq(PacketsOf(Streams)) /\ Len(a \o q) = Len(a) + Len(q)
  OBVIOUS
<1>2. Len(a) \in Nat /\ Len(q) \in Nat /\ DOMAIN a = 1 .. Len(a) /\ DOMAIN q = 1 .. Len(q)
      /\ DOMAIN (a \o q) = 1 .. Len(a) + Len(q)
  BY <1>1
<1>3. \A i \in DOMAIN a : i \in DOMAIN (a \o q) /\ (a \o q)[i] = a[i]
  BY <1>2
<1>4. \A i \in DOMAIN q : Len(a) + i \in DOMAIN (a \o q) /\ (a \o q)[Len(a) + i] = q[i]
  BY <1>2
<1>5. \A j \in DOMAIN (a \o q) : j \in DOMAIN a \/ (j - Len(a) \in DOMAIN q /\ j > Len(a))
  BY <1>2
<1> QED BY <1>1, <1>2, <1>3, <1>4, <1>5

LEMMA ConcatInserted ==
  ASSUME NEW a \in Seq(PacketsOf(Streams)), NEW q \in Seq(PacketsOf(Streams)),
         NEW r \in Seq(PacketsOf(Streams)), NEW p, NEW k, Inserted(q, r, k, p)
  PROVE  Inserted(a \o q, a \o r, Len(a) + k, p)
<1> DEFINE h == a \o q
           g == a \o r
           l == Len(a)
<1>1. /\ Len(h) = l + Len(q) /\ Len(g) = l + Len(r) /\ l \in Nat /\ Len(q) \in Nat
      /\ k \in 1 .. Len(q) + 1 /\ Len(r) = Len(q) + 1 /\ r[k] = p
      /\ DOMAIN q = 1 .. Len(q) /\ DOMAIN r = 1 .. Len(r) /\ DOMAIN a = 1 .. l
  <2>1. Len(h) = l + Len(q) /\ Len(g) = l + Len(r)
    BY ConcatPlaces
  <2> QED BY <2>1 DEF Inserted
<1>2. /\ \A i \in 1 .. l : h[i] = a[i] /\ g[i] = a[i]
      /\ \A i \in 1 .. Len(q) : h[l + i] = q[i]
      /\ \A i \in 1 .. Len(r) : g[l + i] = r[i]
  BY <1>1, ConcatPlaces
<1> HIDE DEF h, g, l
<1>3. g[l + k] = p
  BY <1>1, <1>2
<1>4. ASSUME NEW j \in 1 .. l + k - 1 PROVE g[j] = h[j]
  <2>1. CASE j \in 1 .. l
    BY <1>2, <2>1
  <2>2. CASE j \notin 1 .. l
    <3>1. j - l \in 1 .. k - 1 /\ j - l \in 1 .. Len(q) /\ j - l \in 1 .. Len(r) /\ l + (j - l) = j
      BY <1>1, <2>2
    <3>2. g[j] = r[j - l] /\ h[j] = q[j - l]
      BY <1>2, <3>1
    <3> QED BY <3>1, <3>2 DEF Inserted
  <2> QED BY <2>1, <2>2
<1>5. ASSUME NEW j \in l + k .. l + Len(q) PROVE g[j + 1] = h[j]
  <2>1. j - l \in k .. Len(q) /\ j - l \in 1 .. Len(q) /\ (j - l) + 1 \in 1 .. Len(r)
        /\ l + (j - l) = j /\ l + ((j - l) + 1) = j + 1
    BY <1>1
  <2>2. g[j + 1] = r[(j - l) + 1] /\ h[j] = q[j - l]
    BY <1>2, <2>1
  <2> QED BY <2>1, <2>2 DEF Inserted
<1>6. l + k \in 1 .. (l + Len(q)) + 1 /\ Len(g) = Len(h) + 1
  BY <1>1
<1> QED BY <1>1, <1>3, <1>4, <1>5, <1>6, SMTT(30) DEF Inserted, h, g, l

(* Inserting adds the packet, and no other.                                 *)
LEMMA InsertHolds ==
  ASSUME NEW q \in Seq(PacketsOf(Streams)), NEW p \in PacketsOf(Streams)
  PROVE  /\ \A i \in DOMAIN Insert(q, p) :
              Insert(q, p)[i] = p \/ \E j \in DOMAIN q : Insert(q, p)[i] = q[j]
         /\ \A j \in DOMAIN q : \E i \in DOMAIN Insert(q, p) : Insert(q, p)[i] = q[j]
         /\ \E i \in DOMAIN Insert(q, p) : Insert(q, p)[i] = p
<1> DEFINE r == Insert(q, p)
<1>1. r \in Seq(PacketsOf(Streams))
  BY InsertIs
<1>2. PICK k : Inserted(q, r, k, p)
  BY InsertIs
<1> HIDE DEF r
<1>3. /\ k \in DOMAIN r /\ r[k] = p
      /\ \A i \in DOMAIN r \ {k} : \E j \in DOMAIN q : r[i] = q[j]
      /\ \A j \in DOMAIN q : \E i \in DOMAIN r : r[i] = q[j]
  BY <1>1, <1>2, InsertedPlaces
<1> QED BY <1>3 DEF r

(* The next packet of a stream joins the buffer q behind what was sent, a.  *)
LEMMA Arrives ==
  ASSUME origin \in [Streams -> Nat \ {0}], NEW o \in [Streams -> Int],
         NEW a \in Seq(PacketsOf(Streams)), NEW q \in Seq(PacketsOf(Streams)),
         NEW m \in [Streams -> Nat], NEW p \in PacketsOf(Streams), p.n = m[p.stream],
         p.dts = Due(p.stream, p.n, o),
         Ordered(q), InLine(a \o q, o, m)
  PROVE  /\ Insert(q, p) \in Seq(PacketsOf(Streams)) /\ Ordered(Insert(q, p))
         /\ InLine(a \o Insert(q, p), o, [m EXCEPT ![p.stream] = @ + 1])
<1> DEFINE r == Insert(q, p)
           h == a \o q
           g == a \o r
           n == [m EXCEPT ![p.stream] = @ + 1]
<1>1. r \in Seq(PacketsOf(Streams)) /\ Ordered(r)
  BY InsertIs, InsertOrdered
<1>2. /\ h \in Seq(PacketsOf(Streams)) /\ DOMAIN a = 1 .. Len(a) /\ DOMAIN q = 1 .. Len(q)
      /\ \A i \in DOMAIN q : Len(a) + i \in DOMAIN h /\ h[Len(a) + i] = q[i]
      /\ \A j \in DOMAIN h :
            j \in Nat /\ (j \in DOMAIN a \/ (j - Len(a) \in DOMAIN q /\ j > Len(a)))
  BY ConcatPlaces
<1>3. g \in Seq(PacketsOf(Streams))
  BY <1>1, ConcatPlaces
<1> HIDE DEF h, g, r
<1>4. Timed(h, o) /\ Rising(h) /\ Whole(h, m)
  BY DEF InLine, h
<1>5. Timed(q, o)
  BY <1>2, <1>4 DEF Timed
<1>6. PICK k : /\ Inserted(q, r, k, p)
               /\ \A j \in DOMAIN q : q[j].stream = p.stream /\ q[j].n < p.n => j < k
  BY <1>5, InsertBehind DEF r
<1>7. Inserted(h, g, Len(a) + k, p)
  BY <1>1, <1>6, ConcatInserted DEF h, g
<1>8. \A j \in DOMAIN h : h[j].stream = p.stream => h[j].n < p.n /\ j < Len(a) + k
  <2> TAKE j \in DOMAIN h
  <2>1. HAVE h[j].stream = p.stream
  <2>2. h[j].n < p.n
    BY <1>4, <2>1 DEF Whole
  <2>3. Len(a) \in Nat /\ k \in Nat \ {0} /\ j \in Nat
    BY <1>2, <1>6 DEF Inserted
  <2>4. CASE j \in DOMAIN a
    BY <1>2, <2>2, <2>3, <2>4
  <2>5. CASE j \notin DOMAIN a
    <3>1. j - Len(a) \in DOMAIN q /\ h[Len(a) + (j - Len(a))] = q[j - Len(a)]
      BY <1>2, <2>5
    <3>2. Len(a) + (j - Len(a)) = j
      BY <2>3
    <3>3. j - Len(a) < k
      BY <1>6, <2>1, <2>2, <3>1, <3>2
    <3> QED BY <2>2, <2>3, <3>3
  <2> QED BY <2>4, <2>5
<1>9. Rising(g)
  BY <1>2, <1>3, <1>4, <1>7, <1>8, InsertedRising
<1>10. Timed(g, o)
  BY <1>2, <1>3, <1>4, <1>7, InsertedTimed
<1>11. Whole(g, n)
  BY <1>2, <1>3, <1>4, <1>7, InsertedWhole
<1> QED BY <1>1, <1>9, <1>10, <1>11 DEF InLine, g, r

-----------------------------------------------------------------------------
(* Until the output starts. *)

LEMMA StateTypes ==
  ASSUME PacketInv
  PROVE  /\ origin \in [Streams -> Nat \ {0}] /\ made \in [Streams -> Nat]
         /\ made \in [Streams -> 0 .. MaxPackets]
         /\ received_video \in BOOLEAN /\ received_audio \in BOOLEAN
         /\ sent_first_packet \in BOOLEAN
         /\ highest_video_ts \in Nat /\ highest_audio_ts \in Nat
         /\ offset \in [Streams -> Int] /\ Shift \in [Streams -> Int] /\ Zero \in [Streams -> Int]
         /\ packets \in Seq(PacketsOf(Streams)) /\ sent \in Seq(PacketsOf(Streams))
<1>1. Zero \in [Streams -> Int]
  BY DEF Zero
<1>2. made \in [Streams -> 0 .. MaxPackets]
  BY DEF PacketInv, PacketTypes
<1>3. made \in [Streams -> Nat]
  BY <1>2
<1> QED BY <1>1, <1>2, <1>3, OriginsAssumption DEF PacketInv, PacketTypes, Shift

(* An encoder makes the packet that is due.                                 *)
LEMMA NextPacket ==
  ASSUME PacketInv, NEW s \in Streams, NEW key \in BOOLEAN, Encode(s)
  PROVE  /\ Packet(s, key) \in PacketsOf(Streams) /\ Packet(s, key).n = made[s]
         /\ Packet(s, key).stream = s /\ Packet(s, key).key = key
         /\ Packet(s, key).dts = Due(s, made[s], Zero)
         /\ made' = [made EXCEPT ![s] = @ + 1] /\ made' \in [Streams -> 0 .. MaxPackets]
         /\ made' \in [Streams -> Nat] /\ origin' = origin
<1>1. made[s] \in 0 .. MaxPackets - 1 /\ MaxPackets \in Nat
  <2>1. made[s] < MaxPackets
    BY DEF Encode
  <2>2. made[s] \in 0 .. MaxPackets /\ MaxPackets \in Nat
    BY StateTypes, StepTypes
  <2> QED BY <2>1, <2>2
<1>2. made' = [made EXCEPT ![s] = @ + 1] /\ made' \in [Streams -> 0 .. MaxPackets]
  BY <1>1, StateTypes DEF Encode
<1>3. Due(s, made[s], Zero) \in Int
  BY <1>1, StateTypes, DueSteps
<1>4. Packet(s, key).dts = Due(s, made[s], Zero)
  <2>1. origin[s] + made[s] * Step(s) \in Int /\ Zero[s] = 0
    <3>1. made[s] \in Int /\ Step(s) \in Int /\ origin[s] \in Int
      BY <1>1, StepTypes, StateTypes
    <3>2. made[s] * Step(s) \in Int
      BY <3>1
    <3> QED BY <3>1, <3>2 DEF Zero
  <2>2. Due(s, made[s], Zero) = origin[s] + made[s] * Step(s)
    <3> DEFINE y == made[s] * Step(s)
    <3>1. y \in Int
      <4>1. made[s] \in Int /\ Step(s) \in Int
        BY <1>1, StepTypes
      <4> QED BY <4>1
    <3>2. Due(s, made[s], Zero) = origin[s] + (y - Zero[s])
      BY Zenon DEF Due
    <3> HIDE DEF y
    <3>3. y - Zero[s] = y
      BY <2>1, <3>1
    <3> QED BY <3>2, <3>3 DEF y
  <2> QED BY <2>2 DEF Packet
<1>5. Packet(s, key) = [stream |-> s, n |-> made[s], dts |-> Due(s, made[s], Zero), key |-> key]
  BY <1>4 DEF Packet
<1> QED BY <1>1, <1>2, <1>3, <1>5 DEF PacketsOf, Encode

(* set_higher_ts *)
LEMMA Heights ==
  ASSUME PacketInv, NEW s \in Streams, Encode(s), NEW p \in PacketsOf(Streams),
         p.stream = s, p.n = made[s], p.dts = Due(s, made[s], Shift)
  PROVE  /\ HigherVideo(p) \in Nat /\ HigherAudio(p) \in Nat
         /\ HigherVideo(p) >= highest_video_ts /\ HigherAudio(p) >= highest_audio_ts
         /\ s = Video => HigherVideo(p) >= p.dts
         /\ s # Video => HigherAudio(p) >= p.dts
         /\ Tracks = 1 => /\ HigherVideo(p) <= Due(Video, made'[Video], Shift) + Extra
                          /\ HigherAudio(p) <= Due(1, made'[1], Shift)
<1>1. p.dts \in Int /\ highest_video_ts \in Nat /\ highest_audio_ts \in Nat
  BY StateTypes, PacketFields
<1>2. /\ HigherVideo(p) = IF s = Video /\ highest_video_ts < p.dts THEN p.dts ELSE highest_video_ts
      /\ HigherAudio(p) = IF s # Video /\ highest_audio_ts < p.dts THEN p.dts ELSE highest_audio_ts
  BY DEF HigherVideo, HigherAudio, Larger
<1>3. ASSUME Tracks = 1
      PROVE /\ HigherVideo(p) <= Due(Video, made'[Video], Shift) + Extra
            /\ HigherAudio(p) <= Due(1, made'[1], Shift)
  <2>1. Streams = {Video, 1} /\ Video # 1 /\ Extra \in Nat
    BY <1>3, StepTypes DEF Streams, Audio, Video, Extra
  <2>2. /\ highest_video_ts <= Due(Video, made[Video], Shift) + Extra
        /\ highest_audio_ts <= Due(1, made[1], Shift)
    BY <1>3 DEF PacketInv, Ahead
  <2>3. \A t \in Streams : made[t] \in Nat /\ made'[t] = (IF t = s THEN made[t] + 1 ELSE made[t])
    BY StateTypes DEF Encode
  <2>4. ASSUME NEW t \in Streams
        PROVE  /\ Due(t, made[t], Shift) \in Int
               /\ Due(t, made[t] + 1, Shift) = Due(t, made[t], Shift) + Step(t)
               /\ Step(t) \in Nat \ {0}
    <3>1. made[t] \in Nat /\ origin \in [Streams -> Nat \ {0}] /\ Shift \in [Streams -> Int]
      BY StateTypes
    <3> QED BY <3>1, DueSteps, StepTypes
  <2> HIDE DEF Due
  <2> QED BY <1>1, <1>2, <2>1, <2>2, <2>3, <2>4
<1> QED BY <1>1, <1>2, <1>3

LEMMA Waiting0 ==
  ASSUME PacketInv, ~ Underway
  PROVE  /\ sent = <<>> /\ History = packets /\ Shift = Zero
         /\ InLine(packets, Zero, made) /\ Ordered(packets)
<1>1. sent = <<>> /\ Shift = Zero
  BY DEF PacketInv, Received, Shift
<1>2. History = packets
  BY <1>1, StateTypes DEF History
<1> QED BY <1>1, <1>2 DEF PacketInv

(* The invariant while the output waits for its start.                      *)
LEMMA StillWaiting ==
  ASSUME PacketInv, NEW s \in Streams, Encode(s), sent_first_packet' \in BOOLEAN,
         ~ Underway', offset' = offset, sent' = <<>>,
         received_video' \in BOOLEAN, received_audio' \in BOOLEAN,
         packets' \in Seq(PacketsOf(Streams)), Ordered(packets'), InLine(packets', Zero, made'),
         received_video' <=> Has(packets', Video),
         received_audio' \/ \E t \in Audio : Short(packets', t),
         highest_video_ts' \in Nat, highest_audio_ts' \in Nat,
         \A i \in DOMAIN packets' : packets'[i].dts <=
           IF packets'[i].stream = Video THEN highest_video_ts' ELSE highest_audio_ts',
         Tracks = 1 => /\ highest_video_ts' <= Due(Video, made'[Video], Zero)
                       /\ highest_audio_ts' <= Due(1, made'[1], Zero)
  PROVE  PacketInv'
<1>1. origin' = origin /\ made' \in [Streams -> 0 .. MaxPackets] /\ Zero' = Zero
  BY NextPacket DEF Zero
<1>2. Shift' = Zero /\ History' = packets' /\ Extra' = 0
  BY <1>1 DEF Shift, History, Extra
<1>3. sent' \in Seq(PacketsOf(Streams))
  OBVIOUS
<1>4. PacketTypes'
  BY <1>1, <1>3, StateTypes DEF PacketTypes, ToSet, PacketInv
<1>5. InLine(History, Shift, made)'
  BY <1>1, <1>2 DEF InLine, Timed, Due, Rising, Whole
<1>6. Ordered(packets)' /\ Received' /\ Highest'
  BY DEF Ordered, Received, Highest, Underway, Has, Short
<1>7. (Tracks = 1 => InSync)'
  BY DEF InSync, Underway
<1>8. (Tracks = 1 => Ahead)'
  <2> SUFFICES ASSUME Tracks = 1 PROVE Ahead'
    OBVIOUS
  <2>1. AlmostMonotonic'
    BY DEF AlmostMonotonic
  <2>2. \A u \in Streams : /\ Due(u, made'[u], Zero) \in Int
                           /\ Due(u, made'[u], Zero) = Due(u, made[u], Shift)'
    <3>1. origin \in [Streams -> Nat \ {0}] /\ Zero \in [Streams -> Int]
      BY StateTypes
    <3>2. \A u \in Streams : made'[u] \in Nat
      BY <1>1
    <3>3. \A u \in Streams : Due(u, made'[u], Zero) \in Int
      BY <3>1, <3>2, DueSteps
    <3>4. \A u \in Streams : Due(u, made'[u], Zero) = Due(u, made[u], Shift)'
      BY <1>1, <1>2 DEF Due
    <3> QED BY <3>3, <3>4
  <2>3. Video \in Streams /\ 1 \in Streams
    BY StepTypes
  <2> HIDE DEF Due
  <2> QED BY <1>2, <2>1, <2>2, <2>3 DEF Ahead
<1> QED BY <1>3, <1>4, <1>5, <1>6, <1>7, <1>8 DEF PacketInv

(* discard_unused_audio_packets *)
LEMMA DiscardAudio ==
  ASSUME NEW q \in Seq(PacketsOf(Streams)), NEW I \in SUBSET (1 .. Len(q)), NEW k,
         k = IF I # {} THEN Min(I) ELSE 0,
         NEW r, r = IF k = 0 THEN <<>> ELSE DiscardTo(q, k)
  PROVE  r \in Seq(PacketsOf(Streams)) /\ \E d : Suffix(q, r, d)
<1>1. k = 0 \/ k \in 1 .. Len(q)
  <2>1. CASE I # {}
    <3>1. \E m \in I : \A x \in I : m <= x
      BY <2>1, LeastOf
    <3>2. k \in I
      BY <2>1, <3>1 DEF Min
    <3> QED BY <3>2
  <2> QED BY <2>1
<1>2. CASE k = 0
  <2>1. r = <<>> /\ r \in Seq(PacketsOf(Streams))
    BY <1>2
  <2>2. Suffix(q, <<>>, Len(q))
    BY DEF Suffix
  <2>3. Suffix(q, r, Len(q))
    BY <2>1, <2>2
  <2> QED BY <2>1, <2>3
<1>3. CASE k # 0
  <2>1. k \in 1 .. Len(q) + 1 /\ r = DiscardTo(q, k)
    BY <1>1, <1>3
  <2>2. r \in Seq(PacketsOf(Streams)) /\ Suffix(q, r, k - 1)
    BY <2>1, DiscardIs
  <2> QED BY <2>2
<1> QED BY <1>2, <1>3

LEMMA MadeGrows ==
  ASSUME PacketInv, NEW s \in Streams, Encode(s), NEW o \in [Streams -> Int]
  PROVE  /\ \A t \in Streams :
              /\ made'[t] = (IF t = s THEN made[t] + 1 ELSE made[t])
              /\ made[t] \in Nat /\ made'[t] \in Nat
              /\ Due(t, made[t], o) \in Int /\ Due(t, made'[t], o) \in Int
              /\ Due(t, made[t], o) <= Due(t, made'[t], o)
         /\ Due(s, made'[s], o) = Due(s, made[s], o) + Step(s)
<1>1. \A t \in Streams : /\ made'[t] = (IF t = s THEN made[t] + 1 ELSE made[t])
                         /\ made[t] \in Nat /\ made'[t] \in Nat
  BY StateTypes, SMTT(30) DEF Encode
<1>2. origin \in [Streams -> Nat \ {0}]
  BY StateTypes
<1>3. ASSUME NEW t \in Streams
      PROVE  /\ Due(t, made[t], o) \in Int /\ Due(t, made'[t], o) \in Int
             /\ Due(t, made[t], o) <= Due(t, made'[t], o)
             /\ t = s => Due(t, made'[t], o) = Due(t, made[t], o) + Step(t)
  <2>1. /\ Due(t, made[t], o) \in Int /\ Step(t) \in Nat \ {0}
        /\ Due(t, made[t] + 1, o) = Due(t, made[t], o) + Step(t)
    BY <1>1, <1>2, DueSteps, StepTypes
  <2> HIDE DEF Due
  <2> QED BY <1>1, <2>1
<1> QED BY <1>1, <1>3

(* No video yet, and the first frame is of no use.                          *)
LEMMA DiscardsAudio ==
  ASSUME PacketInv, NEW key \in BOOLEAN, Encode(Video), sent_first_packet' \in BOOLEAN,
         DiscardUnused(Packet(Video, key))
  PROVE  PacketInv'
<1> DEFINE p == Packet(Video, key)
<1>1. /\ ~ received_video /\ received_video' = received_video /\ received_audio' = received_audio
      /\ highest_video_ts' = highest_video_ts /\ highest_audio_ts' = highest_audio_ts
      /\ offset' = offset /\ sent' = sent
  BY DEF DiscardUnused, receivedVars
<1>2. ~ Underway /\ ~ Underway'
  BY <1>1 DEF Underway
<1>3. /\ sent = <<>> /\ InLine(packets, Zero, made) /\ Ordered(packets)
  BY <1>2, Waiting0
<1>4. packets \in Seq(PacketsOf(Streams))
  BY StateTypes
<1>5. packets' \in Seq(PacketsOf(Streams)) /\ \E d : Suffix(packets, packets', d)
  <2> DEFINE I == {i \in 1 .. Len(packets) : packets[i].dts >= p.dts}
             k == SelectInSeq(packets, LAMBDA c : c.dts >= p.dts)
  <2>1. packets' = IF k = 0 THEN <<>> ELSE DiscardTo(packets, k)
    BY DEF DiscardUnused
  <2>2. k = IF I # {} THEN Min(I) ELSE 0
    BY DEF SelectInSeq
  <2>3. I \in SUBSET (1 .. Len(packets))
    OBVIOUS
  <2> HIDE DEF p, k, I
  <2> QED BY <1>4, <2>1, <2>2, <2>3, DiscardAudio
<1>6. PICK d : Suffix(packets, packets', d)
  BY <1>5
<1>7. \A i \in DOMAIN packets' : \E j \in DOMAIN packets : packets'[i] = packets[j]
  BY <1>4, <1>5, <1>6, SuffixPlaces
<1>8. ~ Has(packets, Video) /\ ~ Has(packets', Video)
  BY <1>1, <1>2, <1>7 DEF Has, PacketInv, Received
<1>9. /\ Ordered(packets') /\ Timed(packets', Zero) /\ Rising(packets') /\ Whole(packets', made)
  BY <1>3, <1>4, <1>5, <1>6, SuffixKeeps, StateTypes DEF InLine
<1>10. Whole(packets', made')
  <2>1. ASSUME NEW i \in DOMAIN packets' PROVE made'[packets'[i].stream] = made[packets'[i].stream]
    <3>1. packets'[i].stream \in Streams \ {Video}
      BY <1>5, <1>8, PacketFields DEF Has
    <3> QED BY <3>1, MadeGrows, StateTypes, StepTypes
  <2> QED BY <1>9, <2>1 DEF Whole
<1>11. received_audio' \/ \E t \in Audio : Short(packets', t)
  <2>1. CASE ~ received_audio
    <3>1. PICK t \in Audio : Short(packets, t)
      BY <1>2, <2>1 DEF PacketInv, Received
    <3>2. ~ Has(packets, t)
      BY <1>8, <3>1 DEF Short
    <3>3. ~ Has(packets', t)
      BY <1>7, <3>2 DEF Has
    <3> QED BY <3>3 DEF Short
  <2> QED BY <1>1, <2>1
<1>12. ASSUME NEW i \in DOMAIN packets'
       PROVE packets'[i].dts <=
               IF packets'[i].stream = Video THEN highest_video_ts' ELSE highest_audio_ts'
  BY <1>1, <1>2, <1>7 DEF PacketInv, Highest
<1>13. ASSUME Tracks = 1
       PROVE /\ highest_video_ts' <= Due(Video, made'[Video], Zero)
             /\ highest_audio_ts' <= Due(1, made'[1], Zero)
  <2>1. /\ highest_video_ts <= Due(Video, made[Video], Zero) + 0
        /\ highest_audio_ts <= Due(1, made[1], Zero)
    BY <1>2, <1>13 DEF PacketInv, Ahead, Shift, Extra
  <2>2. /\ highest_video_ts \in Int /\ highest_audio_ts \in Int /\ Zero \in [Streams -> Int]
        /\ Video \in Streams /\ 1 \in Streams
    BY StateTypes, StepTypes
  <2>3. \A t \in Streams :
              /\ Due(t, made[t], Zero) \in Int /\ Due(t, made'[t], Zero) \in Int
              /\ Due(t, made[t], Zero) <= Due(t, made'[t], Zero)
    BY <2>2, MadeGrows
  <2> HIDE DEF Due
  <2> QED BY <1>1, <2>1, <2>2, <2>3
<1>14. highest_video_ts \in Nat /\ highest_audio_ts \in Nat /\ Video \in Streams
       /\ received_video \in BOOLEAN /\ received_audio \in BOOLEAN
  BY StateTypes, StepTypes
<1> HIDE DEF p
<1> QED
  BY <1>1, <1>2, <1>3, <1>5, <1>8, <1>9, <1>10, <1>11, <1>12, <1>13, <1>14, StillWaiting DEF InLine

(* A packet joins those that wait for the start.                            *)
LEMMA Joins ==
  ASSUME PacketInv, ~ Underway, NEW s \in Streams, NEW key \in BOOLEAN, Encode(s),
         NEW p, p = Packet(s, key)
  PROVE  /\ p \in PacketsOf(Streams) /\ p.stream = s /\ p.n = made[s]
         /\ Insert(packets, p) \in Seq(PacketsOf(Streams)) /\ Ordered(Insert(packets, p))
         /\ InLine(Insert(packets, p), Zero, made')
         /\ \A i \in DOMAIN Insert(packets, p) :
              \/ Insert(packets, p)[i] = p
              \/ \E j \in DOMAIN packets : Insert(packets, p)[i] = packets[j]
         /\ \A j \in DOMAIN packets : \E i \in DOMAIN Insert(packets, p) :
              Insert(packets, p)[i] = packets[j]
         /\ \E i \in DOMAIN Insert(packets, p) : Insert(packets, p)[i] = p
         /\ HigherVideo(p) \in Nat /\ HigherAudio(p) \in Nat
         /\ \A i \in DOMAIN Insert(packets, p) : Insert(packets, p)[i].dts <=
              IF Insert(packets, p)[i].stream = Video THEN HigherVideo(p) ELSE HigherAudio(p)
         /\ Tracks = 1 => /\ HigherVideo(p) <= Due(Video, made'[Video], Zero)
                          /\ HigherAudio(p) <= Due(1, made'[1], Zero)
<1> DEFINE q == Insert(packets, p)
<1>1. /\ p \in PacketsOf(Streams) /\ p.n = made[s] /\ p.stream = s /\ p.dts = Due(s, made[s], Zero)
      /\ made' = [made EXCEPT ![s] = @ + 1]
  BY NextPacket
<1>2. InLine(packets, Zero, made) /\ Ordered(packets) /\ Shift = Zero
  BY Waiting0
<1>3. /\ packets \in Seq(PacketsOf(Streams)) /\ origin \in [Streams -> Nat \ {0}]
      /\ Zero \in [Streams -> Int] /\ made \in [Streams -> Nat]
  BY StateTypes
<1>4. PICK a \in Seq(PacketsOf(Streams)) : a = <<>> /\ a \o packets = packets
  <2>1. <<>> \o packets = packets /\ <<>> \in Seq(PacketsOf(Streams))
    BY <1>3
  <2> QED BY <2>1
<1>5. /\ q \in Seq(PacketsOf(Streams)) /\ Ordered(q)
      /\ InLine(a \o q, Zero, made')
      /\ \A i \in DOMAIN q : q[i] = p \/ \E j \in DOMAIN packets : q[i] = packets[j]
      /\ \A j \in DOMAIN packets : \E i \in DOMAIN q : q[i] = packets[j]
      /\ \E i \in DOMAIN q : q[i] = p
  <2>1. /\ p.n = made[p.stream] /\ made' = [made EXCEPT ![p.stream] = @ + 1]
        /\ p.dts = Due(p.stream, p.n, Zero) /\ p \in PacketsOf(Streams)
    BY <1>1
  <2>2. InLine(a \o packets, Zero, made) /\ Ordered(packets)
    BY <1>2, <1>4
  <2>3. /\ Insert(packets, p) \in Seq(PacketsOf(Streams)) /\ Ordered(Insert(packets, p))
        /\ InLine(a \o Insert(packets, p), Zero, made')
    BY <1>3, <1>4, <2>1, <2>2, Arrives
  <2> QED BY <1>1, <1>3, <2>3, InsertHolds
<1>6. a \o q = q
  BY <1>4, <1>5
<1>7. /\ HigherVideo(p) \in Nat /\ HigherAudio(p) \in Nat
      /\ HigherVideo(p) >= highest_video_ts /\ HigherAudio(p) >= highest_audio_ts
      /\ s = Video => HigherVideo(p) >= p.dts
      /\ s # Video => HigherAudio(p) >= p.dts
      /\ Tracks = 1 => /\ HigherVideo(p) <= Due(Video, made'[Video], Zero)
                       /\ HigherAudio(p) <= Due(1, made'[1], Zero)
  <2>1. p.dts = Due(s, made[s], Shift) /\ Extra = 0
    BY <1>1, <1>2 DEF Extra
  <2>2. /\ HigherVideo(p) \in Nat /\ HigherAudio(p) \in Nat
        /\ HigherVideo(p) >= highest_video_ts /\ HigherAudio(p) >= highest_audio_ts
        /\ s = Video => HigherVideo(p) >= p.dts
        /\ s # Video => HigherAudio(p) >= p.dts
        /\ Tracks = 1 => /\ HigherVideo(p) <= Due(Video, made'[Video], Shift) + Extra
                         /\ HigherAudio(p) <= Due(1, made'[1], Shift)
    BY <1>1, <2>1, Heights
  <2>3. Due(Video, made'[Video], Zero) \in Int
    <3>1. made'[Video] \in Nat /\ Video \in Streams
      BY <1>1, <1>3, StepTypes
    <3> QED BY <1>3, <3>1, DueSteps
  <2> HIDE DEF Due
  <2> QED BY <1>2, <2>1, <2>2, <2>3
<1>8. ASSUME NEW i \in DOMAIN q
      PROVE q[i].dts <= IF q[i].stream = Video THEN HigherVideo(p) ELSE HigherAudio(p)
  <2>1. highest_video_ts \in Nat /\ highest_audio_ts \in Nat
    BY StateTypes
  <2>2. CASE q[i] = p
    <3>1. p.dts \in Int
      BY <1>1, PacketFields
    <3> QED BY <1>1, <1>7, <2>2, <3>1
  <2>3. ASSUME NEW j \in DOMAIN packets, q[i] = packets[j]
        PROVE  q[i].dts <= IF q[i].stream = Video THEN HigherVideo(p) ELSE HigherAudio(p)
    <3>1. packets[j].dts <= IF packets[j].stream = Video THEN highest_video_ts ELSE highest_audio_ts
      BY DEF PacketInv, Highest
    <3>2. packets[j].dts \in Int
      BY <1>3, PacketFields
    <3> QED BY <1>7, <2>1, <2>3, <3>1, <3>2
  <2> QED BY <1>5, <2>2, <2>3
<1> HIDE DEF q
<1>9. InLine(q, Zero, made')
  BY <1>5, <1>6
<1> QED BY <1>1, <1>2, <1>5, <1>7, <1>8, <1>9 DEF q

(* Audio or video is still missing.                                         *)
LEMMA Collects ==
  ASSUME PacketInv, NEW s \in Streams, NEW key \in BOOLEAN, Encode(s),
         sent_first_packet' \in BOOLEAN,
         Collect(Packet(s, key))
  PROVE  PacketInv'
<1> DEFINE p == Packet(s, key)
           q == Insert(packets, p)
<1>1. /\ ~ (NowVideo(p) /\ NowAudio(p)) /\ packets' = q
      /\ received_video' = NowVideo(p) /\ received_audio' = NowAudio(p)
      /\ highest_video_ts' = HigherVideo(p) /\ highest_audio_ts' = HigherAudio(p)
      /\ offset' = offset /\ sent' = sent
  BY DEF Collect
<1> HIDE DEF p, q
<1>2. /\ received_video \in BOOLEAN /\ received_audio \in BOOLEAN
      /\ packets \in Seq(PacketsOf(Streams)) /\ made \in [Streams -> Nat]
      /\ Zero \in [Streams -> Int] /\ origin \in [Streams -> Nat \ {0}]
  BY StateTypes
<1>3. ~ Underway /\ ~ Underway'
  BY <1>1, <1>2 DEF Underway, NowVideo, NowAudio
<1>4. /\ p \in PacketsOf(Streams) /\ p.stream = s /\ p.n = made[s]
      /\ q \in Seq(PacketsOf(Streams)) /\ Ordered(q) /\ InLine(q, Zero, made')
      /\ \A i \in DOMAIN q : q[i] = p \/ \E j \in DOMAIN packets : q[i] = packets[j]
      /\ \A j \in DOMAIN packets : \E i \in DOMAIN q : q[i] = packets[j]
      /\ \E i \in DOMAIN q : q[i] = p
      /\ HigherVideo(p) \in Nat /\ HigherAudio(p) \in Nat
      /\ \A i \in DOMAIN q :
            q[i].dts <= IF q[i].stream = Video THEN HigherVideo(p) ELSE HigherAudio(p)
      /\ Tracks = 1 => /\ HigherVideo(p) <= Due(Video, made'[Video], Zero)
                       /\ HigherAudio(p) <= Due(1, made'[1], Zero)
  BY <1>3, Joins DEF p, q
<1>5. /\ sent = <<>> /\ (received_video <=> Has(packets, Video))
      /\ received_audio \/ \E t \in Audio : Short(packets, t)
      /\ InLine(packets, Zero, made)
  BY <1>3, Waiting0 DEF PacketInv, Received
<1>6. received_video' <=> Has(packets', Video)
  BY <1>1, <1>4, <1>5, ZenonT(30) DEF NowVideo, Has
<1>7. received_audio' \/ \E t \in Audio : Short(packets', t)
  <2>1. CASE s # Video \/ received_audio
    BY <1>1, <1>4, <2>1 DEF NowAudio
  <2>2. CASE s = Video /\ ~ received_audio
    <3>1. PICK t \in Audio : Short(packets, t)
      BY <1>5, <2>2
    <3>2. t # Video
      BY StepTypes
    <3>3. CASE ~ Has(packets, t)
      <4>1. ~ Has(q, t)
        BY <1>4, <2>2, <3>2, <3>3 DEF Has
      <4> QED BY <1>1, <4>1 DEF Short
    <3>4. CASE Has(packets, t)
      <4>1. /\ Has(packets, Video)
            /\ \A i, v \in DOMAIN packets :
                 packets[i].stream = t /\ packets[v].stream = Video
                   => packets[i].dts < packets[v].dts
        BY <3>1, <3>4 DEF Short
      <4>2. Has(q, Video)
        BY <1>4, <4>1 DEF Has
      <4>3. PICK w \in DOMAIN packets : packets[w].stream = Video
        BY <4>1 DEF Has
      <4>4. packets[w].dts <= p.dts /\ packets[w].dts \in Int /\ p.dts \in Int
        <5>1. packets[w].n < made[Video] /\ packets[w].dts = Due(Video, packets[w].n, Zero)
          BY <1>5, <4>3 DEF InLine, Timed, Whole
        <5>2. p.dts = Due(Video, made[Video], Zero)
          BY <2>2, NextPacket DEF p
        <5>3. packets[w].n \in Nat /\ made[Video] \in Nat /\ Video \in Streams
          <6>1. packets[w] \in PacketsOf(Streams)
            BY <1>2, <4>3
          <6>2. Video \in Streams
            BY StepTypes
          <6> QED BY <1>2, <6>1, <6>2, PacketFields
        <5>4. Step(Video) \in Nat /\ Due(Video, made[Video], Zero) \in Int
              /\ Due(Video, packets[w].n, Zero) \in Int
          BY <1>2, <5>3, StepTypes, DueSteps
        <5>5. Due(Video, packets[w].n, Zero) + Step(Video) <= Due(Video, made[Video], Zero)
          BY <1>2, <5>1, <5>3, DueSteps
        <5> HIDE DEF Due
        <5> QED BY <5>1, <5>2, <5>4, <5>5
      <4>5. ASSUME NEW i \in DOMAIN q, NEW v \in DOMAIN q, q[i].stream = t, q[v].stream = Video
            PROVE  q[i].dts < q[v].dts
        <5>1. PICK j \in DOMAIN packets : q[i] = packets[j]
          BY <1>4, <2>2, <3>2, <4>5
        <5>2. packets[j].dts < packets[w].dts /\ packets[j].dts \in Int
          BY <1>2, <4>1, <4>3, <4>5, <5>1, PacketFields
        <5>3. CASE q[v] = p
          BY <4>4, <5>1, <5>2, <5>3
        <5>4. CASE q[v] # p
          BY <1>4, <4>1, <4>5, <5>1, <5>4
        <5> QED BY <5>3, <5>4
      <4>6. Short(q, t)
        BY <4>2, <4>5 DEF Short
      <4> QED BY <1>1, <4>6
    <3> QED BY <3>3, <3>4
  <2> QED BY <2>1, <2>2
<1>8. received_video' \in BOOLEAN /\ received_audio' \in BOOLEAN
  BY <1>1 DEF NowVideo, NowAudio
<1> QED BY <1>1, <1>3, <1>4, <1>5, <1>6, <1>7, <1>8, StillWaiting

-----------------------------------------------------------------------------
(* The start. *)

LEMMA HasFirst ==
  ASSUME NEW q \in Seq(PacketsOf(Streams)), NEW s
  PROVE  /\ Has(q, s) <=> FirstOf(q, s) # 0
         /\ Has(q, s) <=> LastOf(q, s) # 0
         /\ Has(q, s) => /\ FirstOf(q, s) \in DOMAIN q /\ q[FirstOf(q, s)].stream = s
                         /\ LastOf(q, s) \in DOMAIN q /\ q[LastOf(q, s)].stream = s
                         /\ \A j \in DOMAIN q : q[j].stream = s =>
                              FirstOf(q, s) <= j /\ j <= LastOf(q, s)
<1> DEFINE f == FirstOf(q, s)
           l == LastOf(q, s)
<1>1. /\ f \in 0 .. Len(q) /\ (f = 0 => ~ Has(q, s))
      /\ f # 0 => q[f].stream = s /\ \A j \in 1 .. f - 1 : q[j].stream # s
  BY FirstOfIs
<1>2. /\ l \in 0 .. Len(q) /\ (l = 0 => ~ Has(q, s))
      /\ l # 0 => q[l].stream = s /\ \A j \in l + 1 .. Len(q) : q[j].stream # s
  BY LastOfIs
<1> HIDE DEF f, l
<1>3. DOMAIN q = 1 .. Len(q)
  OBVIOUS
<1>4. f # 0 => Has(q, s)
  BY <1>1, <1>3 DEF Has
<1>5. l # 0 => Has(q, s)
  BY <1>2, <1>3 DEF Has
<1>6. ASSUME Has(q, s), NEW j \in DOMAIN q, q[j].stream = s PROVE f <= j /\ j <= l
  BY <1>1, <1>2, <1>3, <1>6
<1> QED BY <1>1, <1>2, <1>3, <1>4, <1>5, <1>6 DEF f, l

(* In a whole buffer a stream's packets are a frame apart.                  *)
FrameAt(q, s, t) == \E k \in DOMAIN q : q[k].stream = s /\ q[k].dts = t

(* Of two packets of a stream the earlier has one a frame behind it, and    *)
(* the later one a frame ahead.                                             *)
LEMMA FrameApart ==
  ASSUME origin \in [Streams -> Nat \ {0}], NEW o \in [Streams -> Int],
         NEW m \in [Streams -> Nat], NEW q \in Seq(PacketsOf(Streams)), InLine(q, o, m),
         NEW i \in DOMAIN q, NEW j \in DOMAIN q, NEW s \in Streams,
         q[i].stream = s, q[j].stream = s, q[i].dts < q[j].dts
  PROVE  FrameAt(q, s, q[i].dts + Step(s)) /\ FrameAt(q, s, q[j].dts - Step(s))
<1>1. PICK x, y \in Nat : x = q[i].n /\ y = q[j].n
  <2>1. q[i] \in PacketsOf(Streams) /\ q[j] \in PacketsOf(Streams)
    OBVIOUS
  <2>2. q[i].n \in Nat /\ q[j].n \in Nat
    BY <2>1, PacketFields
  <2> QED BY <2>2
<1>2. q[i].dts = Due(s, x, o) /\ q[j].dts = Due(s, y, o)
  BY <1>1 DEF InLine, Timed
<1>3. x < y
  <2>1. x \in Nat /\ y \in Nat
    BY <1>1
  <2>2. Due(s, x, o) < Due(s, y, o) => x < y
    BY <2>1, DueSteps
  <2> QED BY <1>2, <2>2
<1>4. PICK e \in Nat : e = m[s]
  OBVIOUS
<1>5. y < e /\ \A z \in x .. e - 1 : \E k \in DOMAIN q : q[k].stream = s /\ q[k].n = z
  <2>1. Whole(q, m)
    BY DEF InLine
  <2>2. /\ q[j].n < m[q[j].stream]
        /\ \A z \in q[i].n .. m[q[i].stream] - 1 :
             \E k \in DOMAIN q : q[k].stream = q[i].stream /\ q[k].n = z
    BY <2>1 DEF Whole
  <2> QED BY <1>1, <1>4, <2>2, Zenon
<1>6. ASSUME NEW z \in Nat, x <= z, z <= y
      PROVE  \E k \in DOMAIN q : q[k].stream = s /\ q[k].dts = Due(s, z, o)
  <2>1. z \in x .. e - 1
    BY <1>1, <1>4, <1>5, <1>6
  <2>2. PICK k \in DOMAIN q : q[k].stream = s /\ q[k].n = z
    BY <1>5, <2>1
  <2> QED BY <2>2 DEF InLine, Timed
<1>7. /\ \E k \in DOMAIN q : q[k].stream = s /\ q[k].dts = q[i].dts + Step(s)
      /\ \E k \in DOMAIN q : q[k].stream = s /\ q[k].dts = q[j].dts - Step(s)
  <2>1. x + 1 \in Nat /\ x <= x + 1 /\ x + 1 <= y
    BY <1>1, <1>3
  <2>2. PICK w \in Nat : y = w + 1 /\ x <= w /\ w <= y
    <3>1. y - 1 \in Nat /\ y = (y - 1) + 1 /\ x <= y - 1 /\ y - 1 <= y
      BY <1>1, <1>3, SMTT(30)
    <3> QED BY <3>1
  <2>3. Due(s, x + 1, o) = q[i].dts + Step(s)
    <3>1. x \in Nat /\ y \in Nat
      BY <1>1
    <3>2. Due(s, x + 1, o) = Due(s, x, o) + Step(s)
      BY <3>1, DueSteps
    <3> QED BY <1>2, <3>2, Zenon
  <2>4. Due(s, w, o) \in Int /\ q[j].dts = Due(s, w, o) + Step(s)
    BY <1>2, <2>2, DueSteps
  <2>5. Due(s, w, o) = q[j].dts - Step(s)
    <3>1. Step(s) \in Int
      BY StepTypes
    <3> HIDE DEF Due
    <3> QED BY <2>4, <3>1
  <2> QED BY <1>6, <2>1, <2>2, <2>3, <2>5
<1> QED BY <1>7 DEF FrameAt

(* The audio closest to the video is near it when any audio is.             *)
LEMMA Near ==
  ASSUME Tracks = 1, origin \in [Streams -> Nat \ {0}], NEW o \in [Streams -> Int],
         NEW m \in [Streams -> Nat], NEW q \in Seq(PacketsOf(Streams)), InLine(q, o, m),
         NEW c, Closest(q, c), FirstOf(q, Video) \in DOMAIN q,
         NEW a \in DOMAIN q, q[a].stream # Video
  PROVE  LET v == q[FirstOf(q, Video)].dts
             L == Larger(VideoStep, AudioStep)
         IN  /\ q[a].dts <= v + L => q[c].dts <= v + L
             /\ q[a].dts >= v => q[c].dts >= v - AudioStep
<1> DEFINE v == q[FirstOf(q, Video)].dts
           L == Larger(VideoStep, AudioStep)
<1>1. v \in Int /\ q[a].dts \in Int /\ c \in DOMAIN q /\ q[c].stream # Video /\ q[c].dts \in Int
  BY PacketFields DEF Closest
<1>2. \A s \in Streams : s # Video => s = 1
  BY DEF Streams, Audio
<1>3. q[c].stream = 1 /\ q[a].stream = 1
  BY <1>1, <1>2, PacketFields
<1>4. AudioStep \in Nat \ {0} /\ L \in Nat /\ L >= AudioStep /\ Step(1) = AudioStep /\ 1 # Video
  <2>1. VideoStep \in Nat /\ AudioStep \in Nat \ {0}
    BY StepTypes
  <2> QED BY <2>1 DEF Step, Video, Larger
<1> DEFINE E(x) == IF q[x].dts < v THEN v - q[x].dts ELSE q[x].dts - v
<1>5. ASSUME NEW j \in DOMAIN q, q[j].stream = 1 PROVE E(c) <= E(j)
  <2>1. \A x : Distance(q[x], q[FirstOf(q, Video)]) = E(x)
    BY DEF Distance
  <2>2. E(c) < E(j) \/ E(c) = E(j)
    BY <1>4, <1>5, <2>1 DEF Closest
  <2>3. q[j].dts \in Int
    BY PacketFields
  <2>4. E(c) \in Int /\ E(j) \in Int
    <3> HIDE DEF v
    <3> QED BY <1>1, <2>3, SMTT(30)
  <2> HIDE DEF E
  <2> QED BY <2>2, <2>4
<1> HIDE DEF v, L
<1>8. PICK s \in Streams : s = 1 /\ Step(s) = AudioStep
  <2>1. 1 \in Streams
    BY StepTypes
  <2> QED BY <1>4, <2>1
<1>9. q[a].stream = s /\ q[c].stream = s
  BY <1>3, <1>8
<1>6. ASSUME q[a].dts <= v + L PROVE q[c].dts <= v + L
  <2> SUFFICES ASSUME q[c].dts > v + L PROVE FALSE
    BY <1>1, <1>4
  <2>1. q[a].dts < q[c].dts
    BY <1>1, <1>4, <1>6
  <2>2. PICK k \in DOMAIN q : q[k].stream = 1 /\ q[k].dts = q[c].dts - AudioStep
    <3>1. FrameAt(q, s, q[c].dts - Step(s))
      BY <1>1, <1>9, <2>1, FrameApart
    <3> QED BY <1>8, <3>1, Zenon DEF FrameAt
  <2>3. E(c) <= E(k)
    BY <1>5, <2>2
  <2> QED BY <1>1, <1>4, <2>2, <2>3, SMTT(30)
<1>7. ASSUME q[a].dts >= v PROVE q[c].dts >= v - AudioStep
  <2> SUFFICES ASSUME q[c].dts < v - AudioStep PROVE FALSE
    BY <1>1, <1>4
  <2>1. q[c].dts < q[a].dts
    BY <1>1, <1>4, <1>7
  <2>2. PICK k \in DOMAIN q : q[k].stream = 1 /\ q[k].dts = q[c].dts + AudioStep
    <3>1. FrameAt(q, s, q[c].dts + Step(s))
      BY <1>1, <1>9, <2>1, FrameApart
    <3> QED BY <1>8, <3>1, Zenon DEF FrameAt
  <2>3. E(c) <= E(k)
    BY <1>5, <2>2
  <2> QED BY <1>1, <1>4, <2>2, <2>3, SMTT(30)
<1> QED BY <1>6, <1>7 DEF v, L

(* r is what is left of the buffer q.                                       *)
Left(q, r, o, m) ==
  /\ r \in Seq(PacketsOf(Streams)) /\ Ordered(r) /\ InLine(r, o, m)
  /\ \A i \in DOMAIN r : \E j \in DOMAIN q : r[i] = q[j]

LEMMA DiscardLeaves ==
  ASSUME NEW q \in Seq(PacketsOf(Streams)), NEW o, NEW m \in [Streams -> Nat],
         Ordered(q), InLine(q, o, m), NEW i \in 1 .. Len(q) + 1
  PROVE  Left(q, DiscardTo(q, i), o, m)
<1> DEFINE r == DiscardTo(q, i)
<1>1. r \in Seq(PacketsOf(Streams)) /\ Suffix(q, r, i - 1)
  BY DiscardIs
<1> HIDE DEF r
<1>2. Timed(q, o) /\ Rising(q) /\ Whole(q, m)
  BY DEF InLine
<1>3. Ordered(r) /\ Timed(r, o) /\ Rising(r) /\ Whole(r, m)
  BY <1>1, <1>2, SuffixKeeps
<1>4. \A k \in DOMAIN r : \E j \in DOMAIN q : r[k] = q[j]
  BY <1>1, SuffixPlaces
<1> QED BY <1>1, <1>3, <1>4 DEF Left, InLine, r

LEMMA LeftAgain ==
  ASSUME NEW q, NEW r, NEW u, NEW o, NEW m, Left(q, r, o, m), Left(r, u, o, m)
  PROVE  Left(q, u, o, m)
BY DEF Left

LEMMA LeftSame ==
  ASSUME NEW q \in Seq(PacketsOf(Streams)), NEW o, NEW m, Ordered(q), InLine(q, o, m)
  PROVE  Left(q, q, o, m)
BY DEF Left

(* The first packet of a stream in what is left.                            *)
LEMMA FirstLeft ==
  ASSUME NEW q \in Seq(PacketsOf(Streams)), NEW r \in Seq(PacketsOf(Streams)), NEW d,
         Suffix(q, r, d), NEW s, Has(r, s)
  PROVE  /\ FirstOf(r, s) + d \in DOMAIN q /\ FirstOf(r, s) + d > d /\ d \in Nat
         /\ q[FirstOf(r, s) + d] = r[FirstOf(r, s)]
         /\ q[FirstOf(r, s) + d].stream = s
         /\ \A j \in DOMAIN q : j > d /\ q[j].stream = s => FirstOf(r, s) + d <= j
<1> DEFINE f == FirstOf(r, s)
<1>1. f \in DOMAIN r /\ r[f].stream = s /\ \A j \in DOMAIN r : r[j].stream = s => f <= j
  BY HasFirst
<1> HIDE DEF f
<1>2. /\ d \in Nat /\ \A j \in DOMAIN r : j \in Nat \ {0} /\ j + d \in DOMAIN q /\ r[j] = q[j + d]
      /\ \A i \in DOMAIN q : i \in Nat /\ (i > d => i - d \in DOMAIN r /\ r[i - d] = q[i])
  BY SuffixPlaces
<1>3. ASSUME NEW j \in DOMAIN q, j > d, q[j].stream = s PROVE f + d <= j
  <2>1. f <= j - d
    BY <1>1, <1>2, <1>3
  <2>2. f \in Nat /\ j \in Nat /\ d \in Nat
    BY <1>1, <1>2
  <2> QED BY <2>1, <2>2
<1>4. f + d \in DOMAIN q /\ q[f + d] = r[f] /\ f + d > d
  BY <1>1, <1>2
<1> QED BY <1>1, <1>2, <1>3, <1>4 DEF f

(* prune_interleaved_packets                                                *)
LEMMA PruneIs ==
  ASSUME NEW q \in Seq(PacketsOf(Streams)), \A s \in Streams : Has(q, s)
  PROVE  LET late == q[FirstOf(q, Tracks)].dts - q[FirstOf(q, Video)].dts
         IN  /\ StartIdx(q) \in DOMAIN q
             /\ ~ (late > VideoStep) => Prune(q) = DiscardTo(q, StartIdx(q))
             /\ late > VideoStep => \E l \in DOMAIN q :
                  /\ Prune(q) = DiscardTo(q, l + 1)
                  /\ \A s \in Streams : FirstOf(q, s) <= l
                  /\ \E s \in Streams : FirstOf(q, s) = l
<1> DEFINE late == q[FirstOf(q, Tracks)].dts - q[FirstOf(q, Video)].dts
           F == {FirstOf(q, s) : s \in Streams}
           l == CHOOSE i \in F : \A s \in Streams : FirstOf(q, s) <= i
<1>1. Prune(q) = DiscardTo(q, IF late > VideoStep THEN l + 1 ELSE StartIdx(q))
  BY DEF Prune
<1>2. F \in SUBSET (1 .. Len(q)) /\ F # {}
  <2>1. \A s \in Streams : FirstOf(q, s) \in 1 .. Len(q)
    BY HasFirst
  <2>2. Video \in Streams
    BY StepTypes
  <2> QED BY <2>1, <2>2
<1>3. \E x \in F : \A y \in F : y <= x
  <2>1. Len(q) \in Nat
    OBVIOUS
  <2> HIDE DEF F
  <2> QED BY <1>2, <2>1, GreatestOf
<1>4. l \in F /\ \A s \in Streams : FirstOf(q, s) <= l
  BY <1>3
<1> HIDE DEF l, late
<1>5. StartIdx(q) \in DOMAIN q
  <2>1. Has(q, Video) /\ \E i \in DOMAIN q : q[i].stream # Video
    <3>1. Has(q, Video) /\ Has(q, 1) /\ 1 # Video
      BY StepTypes
    <3> QED BY <3>1 DEF Has
  <2>2. FirstOf(q, Video) \in DOMAIN q
    BY <2>1, StartIdxIs
  <2>3. PICK c : /\ Closest(q, c)
                 /\ StartIdx(q) = IF FirstOf(q, Video) < c THEN FirstOf(q, Video) ELSE c
    BY <2>1, StartIdxIs
  <2>4. c \in DOMAIN q
    BY <2>3 DEF Closest
  <2> QED BY <2>2, <2>3, <2>4
<1>6. l \in DOMAIN q
  BY <1>2, <1>4
<1>7. late > VideoStep => \E x \in DOMAIN q :
        /\ Prune(q) = DiscardTo(q, x + 1)
        /\ \A s \in Streams : FirstOf(q, s) <= x
        /\ \E s \in Streams : FirstOf(q, s) = x
  BY <1>1, <1>4, <1>6
<1> QED BY <1>1, <1>5, <1>7 DEF late

(* prune_interleaved_packets takes packets from the front, ...              *)
LEMMA PruneLeaves ==
  ASSUME NEW q \in Seq(PacketsOf(Streams)), NEW o, NEW m \in [Streams -> Nat],
         Ordered(q), InLine(q, o, m), \A s \in Streams : Has(q, s)
  PROVE  Left(q, Prune(q), o, m)
<1> DEFINE late == q[FirstOf(q, Tracks)].dts - q[FirstOf(q, Video)].dts
<1>1. \E i \in 1 .. Len(q) + 1 : Prune(q) = DiscardTo(q, i)
  <2>1. /\ StartIdx(q) \in DOMAIN q
        /\ ~ (late > VideoStep) => Prune(q) = DiscardTo(q, StartIdx(q))
        /\ late > VideoStep => \E l \in DOMAIN q : Prune(q) = DiscardTo(q, l + 1)
    BY PruneIs
  <2> HIDE DEF late
  <2>2. DOMAIN q = 1 .. Len(q) /\ Len(q) \in Nat
    OBVIOUS
  <2>3. CASE late > VideoStep
    <3>1. PICK l \in DOMAIN q : Prune(q) = DiscardTo(q, l + 1)
      BY <2>1, <2>3
    <3>2. l + 1 \in 1 .. Len(q) + 1
      BY <2>2
    <3> QED BY <3>1, <3>2
  <2>4. CASE ~ (late > VideoStep)
    <3>1. StartIdx(q) \in 1 .. Len(q) + 1
      BY <2>1, <2>2
    <3> QED BY <2>1, <2>4, <3>1
  <2> QED BY <2>3, <2>4
<1> QED BY <1>1, DiscardLeaves

(* What an attempt to start the streams of q may come to.                   *)
Outcome(q, x, o, m) ==
  /\ x.video \in BOOLEAN /\ x.audio \in BOOLEAN /\ x.start \in [Streams -> Int]
  /\ Left(q, x.packets, o, m)
  /\ ~ (x.video /\ x.audio) => /\ x.video <=> Has(x.packets, Video)
                               /\ x.audio \/ \E s \in Audio : Short(x.packets, s)
  /\ x.video /\ x.audio => \A s \in Streams :
       Has(x.packets, s) /\ x.start[s] = x.packets[FirstOf(x.packets, s)].dts

LEMMA HasStreams ==
  ASSUME NEW q \in Seq(PacketsOf(Streams))
  PROVE  /\ HasVideo(q) <=> Has(q, Video)
         /\ HasAudio(q) <=> \A s \in Audio : Has(q, s)
         /\ HasVideo(q) /\ HasAudio(q) <=> \A s \in Streams : Has(q, s)
<1>1. \A s : Has(q, s) <=> FirstOf(q, s) # 0
  BY HasFirst
<1>2. Streams = {Video} \union Audio
  BY DEF Streams
<1> QED BY <1>1, <1>2 DEF HasVideo, HasAudio

LEMMA NotYetOutcome ==
  ASSUME NEW q, NEW r, NEW o, NEW m, Left(q, r, o, m), NEW video \in BOOLEAN, NEW audio \in BOOLEAN,
         ~ (video /\ audio), video <=> Has(r, Video), audio \/ \E s \in Audio : Short(r, s)
  PROVE  Outcome(q, NotYet(r, video, audio), o, m)
<1> DEFINE x == NotYet(r, video, audio)
<1>1. x.packets = r /\ x.video = video /\ x.audio = audio /\ x.start = [s \in Streams |-> 0]
  BY DEF NotYet
<1> HIDE DEF x
<1> QED BY <1>1 DEF Outcome, x

(* get_audio_and_video_packets when a stream is missing.                    *)
LEMMA WithPacketsOutcome ==
  ASSUME NEW q, NEW r, NEW o, NEW m, Left(q, r, o, m), ~ (HasVideo(r) /\ HasAudio(r))
  PROVE  Outcome(q, WithPackets(r), o, m)
<1>1. r \in Seq(PacketsOf(Streams))
  BY DEF Left
<1>2. HasVideo(r) <=> Has(r, Video)
  BY <1>1, HasStreams
<1>3. HasAudio(r) \/ \E s \in Audio : Short(r, s)
  BY <1>1, HasStreams DEF Short
<1>4. HasVideo(r) \in BOOLEAN /\ HasAudio(r) \in BOOLEAN
  BY DEF HasVideo, HasAudio
<1> QED BY <1>2, <1>3, <1>4, NotYetOutcome DEF WithPackets

LEMMA StartedOutcome ==
  ASSUME NEW q, NEW r, NEW o, NEW m, Left(q, r, o, m), HasVideo(r) /\ HasAudio(r)
  PROVE  /\ Outcome(q, Started(r), o, m)
         /\ Started(r).video /\ Started(r).audio /\ Started(r).packets = r
         /\ \A s \in Streams : Started(r).start[s] = r[FirstOf(r, s)].dts
<1> DEFINE x == Started(r)
<1>1. r \in Seq(PacketsOf(Streams))
  BY DEF Left
<1>2. \A s \in Streams : Has(r, s)
  BY <1>1, HasStreams
<1>3. /\ x.packets = r /\ x.video = HasVideo(r) /\ x.audio = HasAudio(r)
      /\ x.start = [s \in Streams |-> r[FirstOf(r, s)].dts]
  BY DEF Started, WithPackets, NotYet
<1>4. \A s \in Streams : r[FirstOf(r, s)].dts \in Int
  BY <1>1, <1>2, HasFirst, PacketFields
<1> HIDE DEF x
<1> QED BY <1>2, <1>3, <1>4 DEF Outcome, x

(* initialize_interleaved_packets                                           *)
LEMMA InitializeOutcome ==
  ASSUME NEW q \in Seq(PacketsOf(Streams)), NEW r, NEW o, NEW m \in [Streams -> Nat],
         Left(q, r, o, m)
  PROVE  Outcome(q, Initialize(r), o, m)
<1>1. r \in Seq(PacketsOf(Streams)) /\ Ordered(r) /\ InLine(r, o, m)
  BY DEF Left
<1>2. CASE ~ (HasVideo(r) /\ HasAudio(r))
  BY <1>2, WithPacketsOutcome DEF Initialize
<1>3. CASE HasVideo(r) /\ HasAudio(r)
  <2>1. \A s \in Streams : Has(r, s)
    BY <1>1, <1>3, HasStreams
  <2>2. CASE \E s \in Audio : r[LastOf(r, s)].dts < r[FirstOf(r, Video)].dts
    <3>1. PICK s \in Audio : r[LastOf(r, s)].dts < r[FirstOf(r, Video)].dts
      BY <2>2
    <3>2. Initialize(r) = NotYet(r, TRUE, FALSE)
      BY <1>3, <2>2 DEF Initialize
    <3>3. Has(r, s) /\ Has(r, Video) /\ s # Video
      BY <2>1, StepTypes
    <3>4. ASSUME NEW i \in DOMAIN r, NEW v \in DOMAIN r, r[i].stream = s, r[v].stream = Video
          PROVE  r[i].dts < r[v].dts
      <4> DEFINE l == LastOf(r, s)
                 f == FirstOf(r, Video)
      <4>1. /\ l \in DOMAIN r /\ r[l].stream = s /\ i <= l
            /\ f \in DOMAIN r /\ f <= v /\ r[f].stream = Video
        BY <1>1, <3>3, <3>4, HasFirst
      <4> HIDE DEF l, f
      <4>2. r[i].dts \in Int /\ r[l].dts \in Int /\ r[f].dts \in Int /\ r[v].dts \in Int
        BY <1>1, <4>1, PacketFields
      <4>3. r[i].dts <= r[l].dts
        BY <1>1, <4>1, <4>2, SMTT(30) DEF Ordered, InOrder
      <4>4. r[f].dts <= r[v].dts
        BY <1>1, <4>1, <4>2 DEF Ordered, InOrder
      <4>5. r[l].dts < r[f].dts
        BY <3>1 DEF l, f
      <4> QED BY <4>2, <4>3, <4>4, <4>5
    <3>5. Short(r, s)
      BY <3>3, <3>4 DEF Short
    <3> QED BY <3>2, <3>3, <3>5, NotYetOutcome
  <2>3. CASE ~ \E s \in Audio : r[LastOf(r, s)].dts < r[FirstOf(r, Video)].dts
    <3> DEFINE u == DiscardTo(r, StartIdx(r))
    <3>1. Initialize(r) = IF HasVideo(u) /\ HasAudio(u) THEN Started(u) ELSE WithPackets(u)
      BY <1>3, <2>3 DEF Initialize
    <3>2. StartIdx(r) \in 1 .. Len(r) + 1
      <4>1. StartIdx(r) \in DOMAIN r
        BY <1>1, <2>1, PruneIs
      <4> QED BY <1>1, <4>1
    <3>3. Left(r, u, o, m)
      BY <1>1, <3>2, DiscardLeaves
    <3> HIDE DEF u
    <3>4. Left(q, u, o, m)
      BY <3>3, LeftAgain
    <3> QED BY <3>1, <3>4, WithPacketsOutcome, StartedOutcome
  <2> QED BY <2>2, <2>3
<1> QED BY <1>2, <1>3

LEMMA AttemptOutcome ==
  ASSUME NEW q \in Seq(PacketsOf(Streams)), NEW o, NEW m \in [Streams -> Nat],
         Ordered(q), InLine(q, o, m)
  PROVE  Outcome(q, Attempt(q), o, m)
<1>1. Left(q, q, o, m)
  BY LeftSame
<1>2. /\ HasVideo(q) <=> Has(q, Video)
      /\ HasAudio(q) <=> \A s \in Audio : Has(q, s)
      /\ HasVideo(q) /\ HasAudio(q) <=> \A s \in Streams : Has(q, s)
  BY HasStreams
<1>3. CASE ~ HasVideo(q)
  BY <1>1, <1>2, <1>3, NotYetOutcome DEF Attempt
<1>4. CASE HasVideo(q) /\ ~ HasAudio(q)
  <2>1. Attempt(q) = NotYet(q, TRUE, FALSE)
    BY <1>4 DEF Attempt
  <2>2. \E s \in Audio : Short(q, s)
    BY <1>2, <1>4 DEF Short
  <2> QED BY <1>1, <1>2, <1>4, <2>1, <2>2, NotYetOutcome
<1>5. CASE HasVideo(q) /\ HasAudio(q)
  <2>1. Left(q, Prune(q), o, m)
    BY <1>2, <1>5, PruneLeaves
  <2> QED BY <1>5, <2>1, InitializeOutcome DEF Attempt
<1> QED BY <1>3, <1>4, <1>5

(* Some audio begins at most a frame after the video.                       *)
AudioNear(q) ==
  \E a \in DOMAIN q :
    /\ q[a].stream # Video
    /\ q[a].dts <= q[FirstOf(q, Video)].dts + Larger(VideoStep, AudioStep)

LEMMA OneTrack ==
  ASSUME Tracks = 1
  PROVE  /\ Streams = {Video, 1} /\ Audio = {1} /\ 1 # Video /\ Step(1) = AudioStep
         /\ Larger(VideoStep, AudioStep) \in Nat
         /\ VideoStep <= Larger(VideoStep, AudioStep) /\ AudioStep <= Larger(VideoStep, AudioStep)
<1>1. VideoStep \in Nat /\ AudioStep \in Nat
  BY StepTypes
<1> QED BY <1>1 DEF Streams, Audio, Video, Step, Larger

(* After prune_interleaved_packets some audio begins near the video.        *)
LEMMA PruneNear ==
  ASSUME Tracks = 1, origin \in [Streams -> Nat \ {0}], NEW o \in [Streams -> Int],
         NEW m \in [Streams -> Nat], NEW q \in Seq(PacketsOf(Streams)), Ordered(q),
         InLine(q, o, m), \A s \in Streams : Has(q, s), \A s \in Streams : Has(Prune(q), s)
  PROVE  AudioNear(Prune(q))
<1> DEFINE r == Prune(q)
           L == Larger(VideoStep, AudioStep)
           v == FirstOf(q, Video)
           a == FirstOf(q, 1)
           late == q[a].dts - q[v].dts
           w == FirstOf(r, Video)
<1>1. L \in Nat /\ VideoStep <= L /\ AudioStep <= L /\ VideoStep \in Nat /\ AudioStep \in Nat
      /\ 1 # Video /\ Video \in Streams /\ 1 \in Streams /\ Step(1) = AudioStep
  BY OneTrack, StepTypes
<1>2. r \in Seq(PacketsOf(Streams))
  BY PruneLeaves DEF Left
<1>3. /\ v \in DOMAIN q /\ q[v].stream = Video /\ a \in DOMAIN q /\ q[a].stream = 1
      /\ \A j \in DOMAIN q : q[j].stream = Video => v <= j
      /\ \A j \in DOMAIN q : q[j].stream = 1 => a <= j
  BY <1>1, HasFirst
<1>4. q[v].dts \in Int /\ q[a].dts \in Int
  BY <1>3, PacketFields
<1>5. /\ StartIdx(q) \in DOMAIN q
      /\ ~ (late > VideoStep) => r = DiscardTo(q, StartIdx(q))
      /\ late > VideoStep => \E l \in DOMAIN q :
           /\ r = DiscardTo(q, l + 1) /\ \A s \in Streams : FirstOf(q, s) <= l
           /\ \E s \in Streams : FirstOf(q, s) = l
  BY PruneIs
<1>6. Has(r, Video) /\ Has(r, 1)
  BY <1>1
<1> HIDE DEF r, L, v, a, late, w
<1>7. CASE late > VideoStep
  <2>1. PICK l \in DOMAIN q : /\ r = DiscardTo(q, l + 1) /\ \A s \in Streams : FirstOf(q, s) <= l
                              /\ \E s \in Streams : FirstOf(q, s) = l
    BY <1>5, <1>7
  <2>2. a <= l
    BY <1>1, <2>1 DEF a
  <2>3. v < a
    <3>1. q[v].dts < q[a].dts
      BY <1>1, <1>4, <1>7 DEF late
    <3>2. ~ (a < v) /\ a # v
      BY <1>3, <1>4, <3>1 DEF Ordered, InOrder
    <3> QED BY <1>3, <3>2
  <2>4. l = a
    <3>1. PICK s \in Streams : FirstOf(q, s) = l
      BY <2>1
    <3>2. s = Video \/ s = 1
      BY OneTrack
    <3>3. l = v \/ l = a
      BY <3>1, <3>2 DEF v, a
    <3> QED BY <1>3, <2>2, <2>3, <3>3
  <2>5. Suffix(q, r, a)
    <3>1. a + 1 \in 1 .. Len(q) + 1 /\ (a + 1) - 1 = a
      BY <1>3
    <3> QED BY <2>1, <2>4, <3>1, DiscardIs
  <2>6. /\ w + a \in DOMAIN q /\ w + a > a /\ q[w + a] = r[w]
    BY <1>2, <1>6, <2>5, FirstLeft DEF w
  <2>7. r[w].dts >= q[a].dts /\ r[w].dts \in Int
    <3>1. q[w + a].dts \in Int
      BY <2>6, PacketFields
    <3> QED BY <1>3, <1>4, <2>6, <3>1 DEF Ordered, InOrder
  <2>8. PICK b \in DOMAIN q : b > a /\ q[b].stream = 1
    <3>1. FirstOf(r, 1) + a \in DOMAIN q /\ FirstOf(r, 1) + a > a /\ q[FirstOf(r, 1) + a].stream = 1
      BY <1>2, <1>6, <2>5, FirstLeft
    <3> QED BY <3>1
  <2>9. q[a].dts < q[b].dts
    <3>1. q[a].n < q[b].n
      BY <1>3, <2>8 DEF InLine, Rising
    <3>2. PICK s \in Streams : s = 1
      BY <1>1
    <3>3. q[a].n \in Nat /\ q[b].n \in Nat /\ q[b].dts \in Int /\ Step(s) \in Nat \ {0}
      <4>1. q[a] \in PacketsOf(Streams) /\ q[b] \in PacketsOf(Streams)
        BY <1>3, <2>8
      <4> QED BY <4>1, PacketFields, StepTypes
    <3>4. q[a].dts = Due(s, q[a].n, o) /\ q[b].dts = Due(s, q[b].n, o)
      BY <1>3, <2>8, <3>2 DEF InLine, Timed
    <3>5. Due(s, q[a].n, o) + Step(s) <= Due(s, q[b].n, o)
      BY <3>1, <3>3, DueSteps
    <3> HIDE DEF Due
    <3> QED BY <1>4, <3>3, <3>4, <3>5
  <2>10. PICK k \in DOMAIN q : q[k].stream = 1 /\ q[k].dts = q[a].dts + AudioStep
    <3>1. PICK s \in Streams : s = 1
      BY <1>1
    <3>2. q[a].stream = s /\ q[b].stream = s
      BY <1>3, <2>8, <3>1
    <3>3. FrameAt(q, s, q[a].dts + Step(s))
      BY <1>3, <2>8, <2>9, <3>2, FrameApart
    <3>4. FrameAt(q, 1, q[a].dts + AudioStep)
      BY <1>1, <3>1, <3>3, Zenon
    <3> QED BY <3>4 DEF FrameAt
  <2>11. k > a
    <3>1. a <= k /\ AudioStep # 0
      BY <1>3, <2>10, StepTypes
    <3>2. k # a
      BY <1>1, <1>4, <2>10, <3>1
    <3> QED BY <1>3, <3>1, <3>2
  <2>12. k - a \in DOMAIN r /\ r[k - a] = q[k]
    BY <1>2, <2>5, <2>11, SuffixPlaces
  <2>13. r[k - a].dts <= r[w].dts + L
    <3> DEFINE x == r[k - a].dts
               y == r[w].dts
               z == q[a].dts
    <3>1. x = z + AudioStep
      BY <2>10, <2>12, Zenon
    <3>2. y >= z /\ y \in Int /\ z \in Int
      BY <1>4, <2>7
    <3> HIDE DEF x, y, z
    <3>3. x <= y + L
      BY <1>1, <3>1, <3>2
    <3> QED BY <3>3 DEF x, y
  <2> QED BY <1>1, <2>10, <2>12, <2>13 DEF AudioNear, L, w, r
<1>8. CASE ~ (late > VideoStep)
  <2>1. PICK c : /\ Closest(q, c)
                 /\ StartIdx(q) = IF v < c THEN v ELSE c
    <3>1. Has(q, Video) /\ \E i \in DOMAIN q : q[i].stream # Video
      BY <1>1, <1>3
    <3> QED BY <3>1, StartIdxIs DEF v
  <2>2. c \in DOMAIN q /\ q[c].stream # Video /\ q[c].dts \in Int
    <3>1. c \in DOMAIN q /\ q[c].stream # Video
      BY <2>1 DEF Closest
    <3> QED BY <3>1, PacketFields
  <2>3. q[c].dts <= q[v].dts + L
    <3>1. q[a].dts <= q[v].dts + L
      <4> DEFINE x == q[a].dts
                 y == q[v].dts
      <4>1. x \in Int /\ y \in Int
        BY <1>4
      <4>2. ~ (x - y > VideoStep)
        BY <1>8 DEF late
      <4> HIDE DEF x, y
      <4>3. x <= y + L
        BY <1>1, <4>1, <4>2
      <4> QED BY <4>3 DEF x, y
    <3>2. q[a].stream # Video
      BY <1>1, <1>3
    <3> QED BY <1>3, <2>1, <3>1, <3>2, Near DEF v, L
  <2> DEFINE i == StartIdx(q)
  <2>4. i <= v /\ i <= c /\ i \in Nat \ {0}
    BY <1>3, <2>1, <2>2
  <2>5. Suffix(q, r, i - 1)
    <3>1. i \in 1 .. Len(q) + 1
      BY <1>5
    <3> QED BY <1>5, <1>8, <3>1, DiscardIs
  <2> HIDE DEF i
  <2>6. c - (i - 1) \in DOMAIN r /\ r[c - (i - 1)] = q[c]
    <3>1. c > i - 1
      BY <2>2, <2>4
    <3> QED BY <1>2, <2>2, <2>5, <3>1, SuffixPlaces
  <2>7. r[w] = q[v]
    <3>1. /\ w + (i - 1) \in DOMAIN q /\ q[w + (i - 1)] = r[w] /\ q[w + (i - 1)].stream = Video
          /\ \A j \in DOMAIN q : j > i - 1 /\ q[j].stream = Video => w + (i - 1) <= j
      BY <1>2, <1>6, <2>5, FirstLeft DEF w
    <3>2. w + (i - 1) <= v /\ v <= w + (i - 1)
      BY <1>3, <2>4, <3>1
    <3>3. w + (i - 1) = v
      BY <1>3, <3>1, <3>2
    <3> QED BY <3>1, <3>3
  <2>8. r[c - (i - 1)].stream # Video /\ r[c - (i - 1)].dts <= r[w].dts + L
    BY <2>2, <2>3, <2>6, <2>7
  <2> QED BY <2>6, <2>8 DEF AudioNear, L, w, r
<1> QED BY <1>7, <1>8

(* get_interleaved_start_idx and what it leaves: the first audio begins     *)
(* where the closest does, or between it and the video.                     *)
LEMMA StartNear ==
  ASSUME Tracks = 1, origin \in [Streams -> Nat \ {0}], NEW o \in [Streams -> Int],
         NEW m \in [Streams -> Nat], NEW q \in Seq(PacketsOf(Streams)), Ordered(q),
         InLine(q, o, m), \A s \in Streams : Has(q, s), AudioNear(q),
         ~ (q[LastOf(q, 1)].dts < q[FirstOf(q, Video)].dts),
         NEW r, r = DiscardTo(q, StartIdx(q)), \A s \in Streams : Has(r, s)
  PROVE  Distance(r[FirstOf(r, 1)], r[FirstOf(r, Video)]) <= Larger(VideoStep, AudioStep)
<1> DEFINE L == Larger(VideoStep, AudioStep)
           v == FirstOf(q, Video)
           b == LastOf(q, 1)
           w == FirstOf(r, Video)
           f == FirstOf(r, 1)
           i == StartIdx(q)
<1>1. L \in Nat /\ AudioStep <= L /\ AudioStep \in Nat
      /\ 1 # Video /\ Video \in Streams /\ 1 \in Streams
  BY OneTrack, StepTypes
<1>2. /\ v \in DOMAIN q /\ q[v].stream = Video
      /\ \A j \in DOMAIN q : q[j].stream = Video => v <= j
      /\ b \in DOMAIN q /\ q[b].stream = 1
  BY <1>1, HasFirst
<1>3. q[v].dts \in Int /\ q[b].dts \in Int /\ q[b].dts >= q[v].dts
  <2>1. q[v].dts \in Int /\ q[b].dts \in Int
    BY <1>2, PacketFields
  <2>2. ~ (q[b].dts < q[v].dts)
    OBVIOUS
  <2> HIDE DEF b, v
  <2> QED BY <2>1, <2>2
<1>4. PICK a \in DOMAIN q : q[a].stream # Video /\ q[a].dts <= q[v].dts + L
  BY DEF AudioNear
<1>5. PICK c : Closest(q, c) /\ i = IF v < c THEN v ELSE c
  <2>1. Has(q, Video) /\ \E x \in DOMAIN q : q[x].stream # Video
    BY <1>1, <1>2
  <2> QED BY <2>1, StartIdxIs
<1>6. c \in DOMAIN q /\ q[c].stream # Video /\ q[c].dts \in Int
  <2>1. c \in DOMAIN q /\ q[c].stream # Video
    BY <1>5 DEF Closest
  <2> QED BY <2>1, PacketFields
<1>7. q[c].dts <= q[v].dts + L
  BY <1>2, <1>4, <1>5, Near
<1>8. q[c].dts >= q[v].dts - AudioStep
  BY <1>1, <1>2, <1>3, <1>5, Near
<1> HIDE DEF L, v, b, w, f, i
<1>9. i <= v /\ i <= c /\ i \in Nat \ {0} /\ v \in Nat /\ c \in Nat
  BY <1>2, <1>5, <1>6
<1>10. r \in Seq(PacketsOf(Streams)) /\ Suffix(q, r, i - 1)
  <2>1. i \in 1 .. Len(q) + 1
    BY <1>2, <1>5, <1>6
  <2>2. r = DiscardTo(q, i)
    BY DEF i
  <2> QED BY <2>1, <2>2, DiscardIs
<1>11. r[w] = q[v]
  <2>1. /\ w + (i - 1) \in DOMAIN q /\ q[w + (i - 1)] = r[w] /\ q[w + (i - 1)].stream = Video
        /\ \A j \in DOMAIN q : j > i - 1 /\ q[j].stream = Video => w + (i - 1) <= j
    BY <1>1, <1>10, FirstLeft DEF w
  <2>2. w + (i - 1) <= v /\ v <= w + (i - 1)
    BY <1>2, <1>9, <2>1
  <2>3. w + (i - 1) = v
    BY <1>9, <2>1, <2>2
  <2> QED BY <2>1, <2>3
<1>12. PICK g \in DOMAIN q : q[g] = r[f] /\ q[g].stream = 1 /\ i <= g /\ g <= c
  <2>1. q[c].stream = 1
    <3>1. q[c].stream \in Streams
      BY <1>6, PacketFields
    <3> QED BY <1>6, <3>1, OneTrack
  <2>2. /\ f + (i - 1) \in DOMAIN q /\ f + (i - 1) > i - 1 /\ q[f + (i - 1)] = r[f]
        /\ q[f + (i - 1)].stream = 1
        /\ \A j \in DOMAIN q : j > i - 1 /\ q[j].stream = 1 => f + (i - 1) <= j
    BY <1>1, <1>10, FirstLeft DEF f
  <2>3. f + (i - 1) <= c /\ i <= f + (i - 1)
    BY <1>6, <1>9, <2>1, <2>2
  <2> QED BY <2>2, <2>3
<1>13. q[g].dts \in Int /\ g \in Nat
  BY PacketFields
<1> DEFINE x == q[g].dts
           y == q[v].dts
           z == q[c].dts
<1>14. x \in Int /\ y \in Int /\ z \in Int /\ z <= y + L /\ z >= y - AudioStep
  BY <1>3, <1>6, <1>7, <1>8, <1>13
<1>16. g = c \/ (y <= x /\ x <= z)
  <2> SUFFICES ASSUME g # c PROVE y <= x /\ x <= z
    OBVIOUS
  <2>1. i = v /\ g < c
    BY <1>5, <1>9, <1>12, <1>13
  <2>2. v < g
    <3>1. v # g
      BY <1>1, <1>2, <1>12
    <3> QED BY <1>9, <1>12, <1>13, <2>1, <3>1
  <2>3. InOrder(q[v], q[g]) /\ InOrder(q[g], q[c])
    BY <1>2, <1>6, <1>12, <2>1, <2>2 DEF Ordered
  <2>4. (y < x \/ y = x) /\ (x < z \/ x = z)
    BY <2>3 DEF InOrder
  <2> HIDE DEF x, y, z
  <2> QED BY <1>14, <2>4
<1>17. x <= y + L /\ x >= y - L
  <2>1. g = c => x = z
    OBVIOUS
  <2> HIDE DEF x, y, z
  <2> QED BY <1>1, <1>14, <1>16, <2>1
<1>15. Distance(r[f], r[w]) <= L
  <2>1. Distance(q[g], q[v]) <= L
    <3>2. Distance(q[g], q[v]) = IF x < y THEN y - x ELSE x - y
      BY DEF Distance
    <3> HIDE DEF x, y
    <3> QED BY <1>1, <1>14, <1>17, <3>2
  <2> QED BY <1>11, <1>12, <2>1
<1> QED BY <1>15 DEF f, w, L

(* With one track, what starts after pruning starts at most a frame apart.  *)
LEMMA AttemptInSync ==
  ASSUME Tracks = 1, origin \in [Streams -> Nat \ {0}], NEW o \in [Streams -> Int],
         NEW m \in [Streams -> Nat], NEW q \in Seq(PacketsOf(Streams)), Ordered(q),
         InLine(q, o, m), NEW x, x = Attempt(q), x.video, x.audio
  PROVE  Distance([dts |-> x.start[1]], [dts |-> x.start[Video]]) <= Larger(VideoStep, AudioStep)
<1> DEFINE u == Prune(q)
           r == DiscardTo(u, StartIdx(u))
<1>1. 1 \in Streams /\ Video \in Streams /\ Audio = {1}
  BY OneTrack
<1>2. \A y : ~ (NotYet(y, TRUE, FALSE).video /\ NotYet(y, TRUE, FALSE).audio)
             /\ ~ (NotYet(y, FALSE, TRUE).video /\ NotYet(y, FALSE, TRUE).audio)
  BY DEF NotYet
<1>3. \A y : WithPackets(y).video = HasVideo(y) /\ WithPackets(y).audio = HasAudio(y)
  BY DEF WithPackets, NotYet
<1>4. HasVideo(q) /\ HasAudio(q) /\ x = Initialize(u)
  BY <1>2 DEF Attempt
<1>5. HasVideo(u) /\ HasAudio(u)
  <2> SUFFICES ASSUME ~ (HasVideo(u) /\ HasAudio(u)) PROVE FALSE
    OBVIOUS
  <2>1. x = WithPackets(u)
    BY <1>4 DEF Initialize
  <2> QED BY <1>3, <2>1
<1>6. ~ \E s \in Audio : u[LastOf(u, s)].dts < u[FirstOf(u, Video)].dts
  <2> SUFFICES ASSUME \E s \in Audio : u[LastOf(u, s)].dts < u[FirstOf(u, Video)].dts PROVE FALSE
    OBVIOUS
  <2>1. x = NotYet(u, TRUE, FALSE)
    BY <1>4, <1>5 DEF Initialize
  <2> QED BY <1>2, <2>1
<1>7. x = IF HasVideo(r) /\ HasAudio(r) THEN Started(r) ELSE WithPackets(r)
  BY <1>4, <1>5, <1>6 DEF Initialize
<1>8. HasVideo(r) /\ HasAudio(r) /\ x = Started(r)
  <2> HIDE DEF r
  <2> QED BY <1>3, <1>7
<1>9. \A s \in Streams : Has(q, s)
  BY <1>4, HasStreams
<1>10. Left(q, u, o, m)
  BY <1>9, PruneLeaves
<1> HIDE DEF u
<1>11. u \in Seq(PacketsOf(Streams)) /\ Ordered(u) /\ InLine(u, o, m)
  BY <1>10 DEF Left
<1>12. \A s \in Streams : Has(u, s)
  BY <1>5, <1>11, HasStreams
<1>13. AudioNear(u)
  BY <1>9, <1>12, PruneNear DEF u
<1>14. Left(u, r, o, m)
  <2>1. StartIdx(u) \in 1 .. Len(u) + 1
    <3>1. StartIdx(u) \in DOMAIN u
      BY <1>11, <1>12, PruneIs
    <3> QED BY <1>11, <3>1
  <2> QED BY <1>11, <2>1, DiscardLeaves
<1>15. r \in Seq(PacketsOf(Streams)) /\ \A s \in Streams : Has(r, s)
  <2> HIDE DEF r
  <2>1. r \in Seq(PacketsOf(Streams))
    BY <1>14 DEF Left
  <2> QED BY <1>8, <2>1, HasStreams
<1>16. Distance(r[FirstOf(r, 1)], r[FirstOf(r, Video)]) <= Larger(VideoStep, AudioStep)
  <2>1. ~ (u[LastOf(u, 1)].dts < u[FirstOf(u, Video)].dts)
    BY <1>1, <1>6
  <2> QED BY <1>11, <1>12, <1>13, <1>15, <2>1, StartNear
<1>17. x.start[1] = r[FirstOf(r, 1)].dts /\ x.start[Video] = r[FirstOf(r, Video)].dts
  <2> HIDE DEF r
  <2> QED BY <1>1, <1>8, <1>14, StartedOutcome
<1> HIDE DEF r
<1>18. Distance([dts |-> x.start[1]], [dts |-> x.start[Video]])
         = Distance(r[FirstOf(r, 1)], r[FirstOf(r, Video)])
  BY <1>17 DEF Distance
<1> QED BY <1>16, <1>18

LEMMA DueShift ==
  ASSUME origin \in [Streams -> Nat \ {0}], NEW o \in [Streams -> Int], NEW s \in Streams,
         NEW n \in Nat
  PROVE  /\ Due(s, n, Zero) \in Int /\ Due(s, n, o) = Due(s, n, Zero) - o[s]
<1> DEFINE y == n * Step(s)
<1>1. Step(s) \in Nat /\ origin[s] \in Nat /\ o[s] \in Int /\ Zero[s] = 0
  BY StepTypes DEF Zero
<1>2. y \in Nat
  BY <1>1
<1>3. Due(s, n, o) = origin[s] + (y - o[s]) /\ Due(s, n, Zero) = origin[s] + (y - Zero[s])
  BY Zenon DEF Due
<1> HIDE DEF y
<1> QED BY <1>1, <1>2, <1>3

(* apply_interleaved_packet_offset                                          *)
LEMMA RelativeIs ==
  ASSUME origin \in [Streams -> Nat \ {0}], NEW o \in [Streams -> Int],
         NEW p \in PacketsOf(Streams), p.dts = Due(p.stream, p.n, Zero)
  PROVE  /\ Relative(p, o) \in PacketsOf(Streams)
         /\ Relative(p, o).stream = p.stream /\ Relative(p, o).n = p.n
         /\ Relative(p, o).dts = Due(p.stream, p.n, o)
<1>1. p.stream \in Streams /\ p.n \in Nat /\ p.dts \in Int
  BY PacketFields
<1>2. Relative(p, o) = [p EXCEPT !.dts = p.dts - o[p.stream]]
  BY DEF Relative
<1>3. Due(p.stream, p.n, o) = p.dts - o[p.stream]
  BY <1>1, DueShift
<1>4. p.dts - o[p.stream] \in Int
  BY <1>1
<1> DEFINE d == p.dts - o[p.stream]
<1> HIDE DEF d
<1>5. Relative(p, o) = [p EXCEPT !.dts = d] /\ d \in Int /\ d = Due(p.stream, p.n, o)
  BY <1>2, <1>3, <1>4 DEF d
<1> QED BY <1>5 DEF PacketsOf

LEMMA SameLine ==
  ASSUME NEW q, NEW u, DOMAIN u = DOMAIN q, NEW o, NEW m, InLine(q, Zero, m),
         \A i \in DOMAIN q : /\ u[i].stream = q[i].stream /\ u[i].n = q[i].n
                             /\ u[i].dts = Due(q[i].stream, q[i].n, o)
  PROVE  InLine(u, o, m)
<1>1. Timed(u, o)
  BY DEF Timed
<1>2. Rising(u)
  BY DEF InLine, Rising
<1>3. Whole(u, m)
  BY DEF InLine, Whole
<1> QED BY <1>1, <1>2, <1>3 DEF InLine

Shifted(q, o) == [i \in 1 .. Len(q) |-> Relative(q[i], o)]

LEMMA ShiftedIs ==
  ASSUME origin \in [Streams -> Nat \ {0}], NEW o \in [Streams -> Int],
         NEW m \in [Streams -> Nat], NEW q \in Seq(PacketsOf(Streams)), InLine(q, Zero, m)
  PROVE  /\ Shifted(q, o) \in Seq(PacketsOf(Streams)) /\ InLine(Shifted(q, o), o, m)
         /\ \A s : Has(q, s) => Has(Shifted(q, o), s)
<1> DEFINE u == Shifted(q, o)
<1>1. \A i \in 1 .. Len(q) : /\ q[i] \in PacketsOf(Streams)
                             /\ q[i].dts = Due(q[i].stream, q[i].n, Zero)
  BY DEF InLine, Timed
<1>2. \A i \in 1 .. Len(q) :
        /\ Relative(q[i], o) \in PacketsOf(Streams)
        /\ Relative(q[i], o).stream = q[i].stream /\ Relative(q[i], o).n = q[i].n
        /\ Relative(q[i], o).dts = Due(q[i].stream, q[i].n, o)
  BY <1>1, RelativeIs
<1>3. u \in Seq(PacketsOf(Streams)) /\ Len(u) = Len(q)
  BY <1>2 DEF Shifted
<1>4. /\ DOMAIN u = DOMAIN q
      /\ \A i \in DOMAIN q : /\ u[i].stream = q[i].stream /\ u[i].n = q[i].n
                             /\ u[i].dts = Due(q[i].stream, q[i].n, o)
  BY <1>2, <1>3 DEF Shifted
<1> HIDE DEF u
<1>5. InLine(u, o, m)
  BY <1>4, SameLine
<1>6. \A s : Has(q, s) => Has(u, s)
  BY <1>4 DEF Has
<1> QED BY <1>3, <1>5, <1>6 DEF u

(* What resort_interleaved_packets leaves is in order and complete.         *)
LEMMA ResortedInLine ==
  ASSUME origin \in [Streams -> Nat \ {0}], NEW o \in [Streams -> Int],
         NEW m \in [Streams -> Nat], NEW q \in Seq(PacketsOf(Streams)), InLine(q, o, m)
  PROVE  /\ Resort(q) \in Seq(PacketsOf(Streams)) /\ Ordered(Resort(q)) /\ InLine(Resort(q), o, m)
         /\ \A s : Has(q, s) => Has(Resort(q), s)
<1> DEFINE r == Resort(q)
<1>1. /\ r \in Seq(PacketsOf(Streams)) /\ Ordered(r) /\ Timed(r, o) /\ Rising(r)
      /\ \A i \in DOMAIN q : \E j \in DOMAIN r : r[j] = q[i]
      /\ \A j \in DOMAIN r : \E i \in DOMAIN q : r[j] = q[i]
  BY ResortIs DEF InLine
<1> HIDE DEF r
<1>2. Whole(r, m)
  <2>1. Whole(q, m)
    BY DEF InLine
  <2>2. ASSUME NEW j \in DOMAIN r
        PROVE  /\ r[j].n < m[r[j].stream]
               /\ \A k \in r[j].n .. m[r[j].stream] - 1 :
                    \E h \in DOMAIN r : r[h].stream = r[j].stream /\ r[h].n = k
    <3>1. PICK i \in DOMAIN q : r[j] = q[i]
      BY <1>1
    <3>2. /\ q[i].n < m[q[i].stream]
          /\ \A k \in q[i].n .. m[q[i].stream] - 1 :
               \E h \in DOMAIN q : q[h].stream = q[i].stream /\ q[h].n = k
      BY <2>1 DEF Whole
    <3>3. ASSUME NEW k \in r[j].n .. m[r[j].stream] - 1
          PROVE  \E h \in DOMAIN r : r[h].stream = r[j].stream /\ r[h].n = k
      <4>1. PICK h \in DOMAIN q : q[h].stream = r[j].stream /\ q[h].n = k
        BY <3>1, <3>2
      <4>2. PICK g \in DOMAIN r : r[g] = q[h]
        BY <1>1
      <4> QED BY <4>1, <4>2
    <3> QED BY <3>1, <3>2, <3>3
  <2> QED BY <2>2 DEF Whole
<1>3. \A s : Has(q, s) => Has(r, s)
  BY <1>1 DEF Has
<1> QED BY <1>1, <1>2, <1>3 DEF r, InLine

(* send_interleaved                                                         *)
LEMMA FirstMoves ==
  ASSUME NEW S, NEW a \in Seq(S), NEW w \in Seq(S), w # <<>>
  PROVE  /\ Head(w) = w[1] /\ w[1] \in S /\ 1 \in DOMAIN w
         /\ Tail(w) \in Seq(S) /\ Len(Tail(w)) = Len(w) - 1
         /\ \A j \in DOMAIN Tail(w) : j + 1 \in DOMAIN w /\ Tail(w)[j] = w[j + 1]
         /\ Append(a, w[1]) \in Seq(S) /\ Len(Append(a, w[1])) = Len(a) + 1
         /\ \A i \in 1 .. Len(a) : Append(a, w[1])[i] = a[i]
         /\ Append(a, w[1])[Len(a) + 1] = w[1]
         /\ Append(a, w[1]) \o Tail(w) = a \o w
<1> DEFINE t == Tail(w)
           b == Append(a, w[1])
<1>1. Head(w) = w[1] /\ w[1] \in S /\ Len(w) \in Nat \ {0} /\ Len(a) \in Nat
  OBVIOUS
<1>2. t \in Seq(S) /\ Len(t) = Len(w) - 1 /\ \A j \in 1 .. Len(w) - 1 : t[j] = w[j + 1]
  BY <1>1
<1>3. b \in Seq(S) /\ Len(b) = Len(a) + 1 /\ b[Len(a) + 1] = w[1]
      /\ \A i \in 1 .. Len(a) : b[i] = a[i]
  BY <1>1
<1> HIDE DEF t, b
<1>4. b \o t = a \o w
  <2>1. /\ b \o t \in Seq(S) /\ Len(b \o t) = Len(b) + Len(t)
        /\ \A i \in 1 .. Len(b) + Len(t) :
             (b \o t)[i] = IF i <= Len(b) THEN b[i] ELSE t[i - Len(b)]
    BY <1>2, <1>3, ConcatProperties
  <2>2. /\ a \o w \in Seq(S) /\ Len(a \o w) = Len(a) + Len(w)
        /\ \A i \in 1 .. Len(a) + Len(w) :
             (a \o w)[i] = IF i <= Len(a) THEN a[i] ELSE w[i - Len(a)]
    BY ConcatProperties
  <2>3. Len(b) + Len(t) = Len(a) + Len(w)
    BY <1>1, <1>2, <1>3
  <2>4. ASSUME NEW i \in 1 .. Len(a) + Len(w) PROVE (b \o t)[i] = (a \o w)[i]
    <3>1. (b \o t)[i] = IF i <= Len(b) THEN b[i] ELSE t[i - Len(b)]
      BY <2>1, <2>3
    <3>2. (a \o w)[i] = IF i <= Len(a) THEN a[i] ELSE w[i - Len(a)]
      BY <2>2
    <3>3. CASE i <= Len(a)
      BY <1>1, <1>3, <3>1, <3>2, <3>3
    <3>4. CASE i = Len(a) + 1
      <4>1. i - Len(a) = 1 /\ ~ (i <= Len(a)) /\ i <= Len(b)
        BY <1>1, <1>3, <3>4
      <4> QED BY <1>3, <3>1, <3>2, <3>4, <4>1
    <3>5. CASE i > Len(a) + 1
      <4> DEFINE k == i - Len(a) - 1
      <4>1. k \in 1 .. Len(w) - 1 /\ i - Len(b) = k /\ i - Len(a) = k + 1
            /\ ~ (i <= Len(a)) /\ ~ (i <= Len(b))
        BY <1>1, <1>3, <3>5
      <4>2. t[k] = w[k + 1]
        BY <1>2, <4>1
      <4> HIDE DEF k
      <4> QED BY <3>1, <3>2, <4>1, <4>2
    <3>6. i <= Len(a) \/ i = Len(a) + 1 \/ i > Len(a) + 1
      BY <1>1
    <3> QED BY <3>3, <3>4, <3>5, <3>6, Zenon
  <2> QED BY <2>1, <2>2, <2>3, <2>4, SeqEqual
<1>5. \A j \in DOMAIN t : j + 1 \in DOMAIN w /\ t[j] = w[j + 1]
  <2> TAKE j \in DOMAIN t
  <2>1. j \in 1 .. Len(w) - 1
    BY <1>2
  <2> QED BY <1>1, <1>2, <2>1
<1>6. 1 \in DOMAIN w
  BY <1>1
<1> QED BY <1>1, <1>2, <1>3, <1>4, <1>5, <1>6 DEF t, b

(* The invariant once the output has started: w is the buffer before        *)
(* send_interleaved takes its first packet, if the other stream is ahead.   *)
LEMMA StillUnderway ==
  ASSUME origin \in Origins, origin' = origin, made' \in [Streams -> 0 .. MaxPackets],
         sent \in Seq(PacketsOf(Streams)),
         sent_first_packet' \in BOOLEAN, received_video' = TRUE, received_audio' = TRUE,
         offset' \in [Streams -> Int], highest_video_ts' \in Nat, highest_audio_ts' \in Nat,
         NEW w \in Seq(PacketsOf(Streams)), w # <<>>, Ordered(w), InLine(sent \o w, offset', made'),
         \A s \in Streams : Has(sent \o w, s),
         Send(w, highest_video_ts', highest_audio_ts'),
         Tracks = 1 => InSync',
         Tracks = 1 => /\ highest_video_ts' <= Due(Video, made'[Video], offset') + Reorder
                       /\ highest_audio_ts' <= Due(1, made'[1], offset')
                       /\ \A i \in DOMAIN sent :
                            /\ \A j \in DOMAIN w : Goes(sent[i], w[j].stream, w[j].dts)
                            /\ \A s \in Streams : Goes(sent[i], s, Due(s, made'[s], offset'))
                       /\ AlmostMonotonic
  PROVE  PacketInv'
<1> DEFINE h == w[1]
           other == IF h.stream = Video THEN highest_audio_ts' ELSE highest_video_ts'
<1>1. /\ Head(w) = h /\ h \in PacketsOf(Streams) /\ 1 \in DOMAIN w
      /\ Tail(w) \in Seq(PacketsOf(Streams))
      /\ \A j \in DOMAIN Tail(w) : j + 1 \in DOMAIN w /\ Tail(w)[j] = w[j + 1]
      /\ Append(sent, h) \in Seq(PacketsOf(Streams)) /\ Len(Append(sent, h)) = Len(sent) + 1
      /\ \A i \in 1 .. Len(sent) : Append(sent, h)[i] = sent[i]
      /\ Append(sent, h)[Len(sent) + 1] = h
      /\ Append(sent, h) \o Tail(w) = sent \o w
  BY FirstMoves
<1> HIDE DEF h
<1>2. \/ packets' = w /\ sent' = sent
      \/ other > h.dts /\ packets' = Tail(w) /\ sent' = Append(sent, h)
  BY <1>1 DEF Send
<1>3. /\ packets' \in Seq(PacketsOf(Streams)) /\ sent' \in Seq(PacketsOf(Streams))
      /\ History' = sent \o w
  BY <1>1, <1>2 DEF History
<1>4. Underway' /\ Shift' = offset' /\ Extra' = Reorder
  BY DEF Underway, Shift, Extra
<1>5. Ordered(packets)'
  <2>1. CASE packets' = w
    BY <2>1 DEF Ordered
  <2>2. CASE packets' = Tail(w)
    <3>1. \A i, j \in DOMAIN Tail(w) : i < j => i + 1 < j + 1
      BY <1>1
    <3>2. Ordered(Tail(w))
      BY <1>1, <3>1 DEF Ordered
    <3> QED BY <2>2, <3>2 DEF Ordered
  <2> QED BY <1>2, <2>1, <2>2
<1>6. InLine(History, Shift, made)'
  <2> DEFINE g == sent \o w
  <2>1. Timed(g, offset') /\ Rising(g) /\ Whole(g, made')
    BY DEF InLine
  <2>2. History' = g
    BY <1>3
  <2> HIDE DEF g
  <2>3. Timed(History, Shift)'
    BY <1>4, <2>1, <2>2 DEF Timed, Due
  <2>4. Rising(History)'
    BY <2>1, <2>2 DEF Rising
  <2>5. Whole(History, made)'
    BY <2>1, <2>2 DEF Whole
  <2> QED BY <2>3, <2>4, <2>5 DEF InLine
<1>7. PacketTypes'
  BY <1>3 DEF PacketTypes, ToSet
<1>8. Received' /\ Highest'
  BY <1>3, <1>4 DEF Received, Highest, Has
<1>9. ASSUME Tracks = 1 PROVE Ahead'
  <2>1. Streams = {Video, 1} /\ 1 # Video /\ Reorder \in Nat
    BY <1>9, OneTrack, StepTypes
  <2>2. /\ highest_video_ts' <= Due(Video, made'[Video], offset') + Reorder
        /\ highest_audio_ts' <= Due(1, made'[1], offset')
        /\ \A i \in DOMAIN sent :
              /\ \A j \in DOMAIN w : Goes(sent[i], w[j].stream, w[j].dts)
              /\ \A s \in Streams : Goes(sent[i], s, Due(s, made'[s], offset'))
        /\ AlmostMonotonic
    BY <1>9
  <2>3. \A s \in Streams : Due(s, made'[s], offset') = Due(s, made[s], Shift)'
    BY <1>4 DEF Due
  <2>4. CASE packets' = w /\ sent' = sent
    <3>1. AlmostMonotonic'
      BY <2>2, <2>4 DEF AlmostMonotonic
    <3> HIDE DEF Due, Goes
    <3> QED BY <1>4, <2>1, <2>2, <2>3, <2>4, <3>1 DEF Ahead
  <2>5. CASE other > h.dts /\ packets' = Tail(w) /\ sent' = Append(sent, h)
    <3>1. \A s \in Streams : Due(s, made'[s], offset') \in Int
      <4>1. \A s \in Streams : made'[s] \in Nat
        OBVIOUS
      <4>2. origin \in [Streams -> Nat \ {0}]
        BY OriginsAssumption
      <4> QED BY <4>1, <4>2, DueSteps
    <3>2. h.dts \in Int /\ h.stream \in Streams /\ h.n \in Nat
      BY <1>1, PacketFields
    <3>3. \A j \in DOMAIN w : h.dts <= w[j].dts
      <4> TAKE j \in DOMAIN w
      <4>1. w[j].dts \in Int /\ j \in Nat \ {0}
        BY PacketFields
      <4>2. CASE j = 1
        BY <3>2, <4>2 DEF h
      <4>3. CASE j # 1
        <5>1. InOrder(w[1], w[j])
          BY <1>1, <4>1, <4>3 DEF Ordered
        <5> QED BY <3>2, <4>1, <5>1 DEF InOrder, h
      <4> QED BY <4>2, <4>3
    <3>4. \A s \in Streams : Goes(h, s, Due(s, made'[s], offset'))
      <4>1. h.n < made'[h.stream] /\ h.dts = Due(h.stream, h.n, offset')
        <5>1. PICK i \in DOMAIN (sent \o w) : (sent \o w)[i] = h
          BY <1>1, ConcatPlaces, ZenonT(30) DEF h
        <5> QED BY <5>1 DEF InLine, Timed, Whole
      <4>2. h.dts <= Due(h.stream, made'[h.stream], offset')
        <5>1. origin \in [Streams -> Nat \ {0}] /\ made'[h.stream] \in Nat
          BY <3>2, OriginsAssumption
        <5>2. Due(h.stream, h.n, offset') + Step(h.stream)
                <= Due(h.stream, made'[h.stream], offset')
          BY <3>2, <4>1, <5>1, DueSteps
        <5>3. Step(h.stream) \in Nat /\ Due(h.stream, made'[h.stream], offset') \in Int
          BY <3>1, <3>2, StepTypes
        <5> HIDE DEF Due
        <5> QED BY <3>2, <4>1, <5>2, <5>3
      <4>3. h.stream = Video => h.dts < highest_audio_ts'
        BY <2>5
      <4>4. h.stream = 1 => h.dts < highest_video_ts'
        BY <2>1, <2>5
      <4>5. Due(Video, made'[Video], offset') \in Int /\ Due(1, made'[1], offset') \in Int
        BY <2>1, <3>1
      <4> HIDE DEF Due
      <4>6. CASE h.stream = Video
        <5>1. h.dts <= Due(Video, made'[Video], offset') /\ h.dts <= Due(1, made'[1], offset')
          BY <2>2, <3>2, <4>2, <4>3, <4>5, <4>6
        <5> QED BY <2>1, <5>1 DEF Goes
      <4>7. CASE h.stream = 1
        <5>1. h.dts < Due(Video, made'[Video], offset') + Reorder
          BY <2>1, <2>2, <3>2, <4>4, <4>5, <4>7
        <5>2. h.dts <= Due(1, made'[1], offset')
          BY <4>2, <4>7
        <5> QED BY <2>1, <4>7, <5>1, <5>2 DEF Goes
      <4> QED BY <2>1, <3>2, <4>6, <4>7
    <3>5. \A i \in DOMAIN sent' :
        \/ i \in DOMAIN sent /\ sent'[i] = sent[i]
        \/ i = Len(sent) + 1 /\ sent'[i] = h
      BY <1>1, <2>5
    <3>6. \A i \in DOMAIN sent' :
            /\ \A j \in DOMAIN packets' : Goes(sent'[i], packets'[j].stream, packets'[j].dts)
            /\ \A s \in Streams : Goes(sent'[i], s, Due(s, made'[s], offset'))
      <4> TAKE i \in DOMAIN sent'
      <4>1. \A j \in DOMAIN packets' : \E k \in DOMAIN w : packets'[j] = w[k]
        BY <1>1, <2>5
      <4>2. CASE i \in DOMAIN sent /\ sent'[i] = sent[i]
        BY <2>2, <4>1, <4>2
      <4>3. CASE i = Len(sent) + 1 /\ sent'[i] = h
        BY <3>3, <3>4, <4>1, <4>3 DEF Goes
      <4> QED BY <3>5, <4>2, <4>3
    <3>7. AlmostMonotonic'
      <4> SUFFICES ASSUME NEW i \in 1 .. Len(sent'), NEW j \in 1 .. Len(sent'), i < j
                   PROVE  Goes(sent'[i], sent'[j].stream, sent'[j].dts)
        BY DEF AlmostMonotonic
      <4>1. Len(sent') = Len(sent) + 1 /\ Len(sent) \in Nat
        BY <2>5, <1>1
      <4>2. i \in 1 .. Len(sent) /\ sent'[i] = sent[i]
        BY <1>1, <2>5, <4>1
      <4>3. CASE j = Len(sent) + 1
        BY <1>1, <2>2, <2>5, <4>2, <4>3 DEF h
      <4>4. CASE j # Len(sent) + 1
        <5>1. j \in 1 .. Len(sent)
          <6>1. PICK n \in Nat : n = Len(sent)
            BY <4>1
          <6>2. j \in 1 .. n + 1 /\ j # n + 1
            BY <4>1, <4>4, <6>1
          <6>3. j \in 1 .. n
            BY <6>2
          <6> QED BY <6>1, <6>3
        <5>2. sent'[j] = sent[j]
          BY <1>1, <2>5, <5>1
        <5> QED BY <2>2, <4>2, <5>1, <5>2 DEF AlmostMonotonic
      <4> QED BY <4>3, <4>4
    <3> HIDE DEF Due, Goes
    <3> QED BY <1>4, <2>1, <2>2, <2>3, <3>6, <3>7 DEF Ahead
  <2> QED BY <1>2, <2>4, <2>5
<1> QED BY <1>3, <1>5, <1>6, <1>7, <1>8, <1>9 DEF PacketInv

(* Started: the packet joins the buffer, and one may leave it.              *)
LEMMA Forwards ==
  ASSUME PacketInv, NEW s \in Streams, NEW key \in BOOLEAN, Encode(s),
         sent_first_packet' \in BOOLEAN,
         Forward(Packet(s, key))
  PROVE  PacketInv'
<1> DEFINE p == Packet(s, key)
           r == Relative(p, offset)
           w == Insert(packets, r)
<1>1. /\ received_video /\ received_audio
      /\ received_video' = received_video /\ received_audio' = received_audio /\ offset' = offset
      /\ highest_video_ts' = HigherVideo(r) /\ highest_audio_ts' = HigherAudio(r)
      /\ Send(w, highest_video_ts', highest_audio_ts')
  BY DEF Forward, receivedVars
<1>2. Underway /\ Shift = offset
  BY <1>1 DEF Underway, Shift
<1>3. /\ received_video \in BOOLEAN /\ received_audio \in BOOLEAN
      /\ packets \in Seq(PacketsOf(Streams)) /\ sent \in Seq(PacketsOf(Streams))
      /\ offset \in [Streams -> Int] /\ origin \in [Streams -> Nat \ {0}]
      /\ made \in [Streams -> Nat]
  BY StateTypes
<1>4. /\ p \in PacketsOf(Streams) /\ p.n = made[s] /\ p.stream = s /\ p.dts = Due(s, made[s], Zero)
      /\ made' = [made EXCEPT ![s] = @ + 1] /\ made' \in [Streams -> 0 .. MaxPackets]
      /\ origin' = origin
  BY NextPacket
<1> HIDE DEF p
<1>5. /\ r \in PacketsOf(Streams) /\ r.stream = s
      /\ r.n = made[s] /\ r.dts = Due(s, made[s], offset)
  BY <1>3, <1>4, RelativeIs
<1> HIDE DEF r
<1>6. InLine(sent \o packets, offset, made) /\ Ordered(packets)
  BY <1>2 DEF PacketInv, History
<1>7. w \in Seq(PacketsOf(Streams)) /\ Ordered(w) /\ InLine(sent \o w, offset, made')
  <2>1. /\ r.n = made[r.stream] /\ made' = [made EXCEPT ![r.stream] = @ + 1]
        /\ r.dts = Due(r.stream, r.n, offset)
    BY <1>4, <1>5
  <2> QED BY <1>3, <1>5, <1>6, <2>1, Arrives
<1>8. /\ \A i \in DOMAIN w : w[i] = r \/ \E j \in DOMAIN packets : w[i] = packets[j]
      /\ \A j \in DOMAIN packets : \E i \in DOMAIN w : w[i] = packets[j]
      /\ \E i \in DOMAIN w : w[i] = r
  BY <1>3, <1>5, InsertHolds
<1> HIDE DEF w
<1>9. w # <<>>
  BY <1>7, <1>8
<1>10. ASSUME NEW t \in Streams PROVE Has(sent \o w, t)
  <2>1. PICK i \in DOMAIN (sent \o packets) : (sent \o packets)[i].stream = t
    BY <1>2 DEF PacketInv, Received, History, Has
  <2>2. CASE i \in DOMAIN sent
    <3>1. (sent \o packets)[i] = sent[i] /\ i \in DOMAIN (sent \o w) /\ (sent \o w)[i] = sent[i]
      BY <1>3, <1>7, <2>2, ConcatPlaces
    <3> QED BY <2>1, <3>1 DEF Has
  <2>3. CASE i \notin DOMAIN sent
    <3> DEFINE j == i - Len(sent)
    <3>1. j \in DOMAIN packets /\ i \in Nat /\ Len(sent) \in Nat
      BY <1>3, <2>1, <2>3, ConcatPlaces
    <3>2. Len(sent) + j = i
      BY <3>1
    <3> HIDE DEF j
    <3>3. (sent \o packets)[i] = packets[j]
      BY <1>3, <3>1, <3>2, ConcatPlaces
    <3>4. PICK k \in DOMAIN w : w[k] = packets[j]
      BY <1>8, <3>1
    <3>5. Len(sent) + k \in DOMAIN (sent \o w) /\ (sent \o w)[Len(sent) + k] = w[k]
      BY <1>3, <1>7, <3>4, ConcatPlaces
    <3> QED BY <2>1, <3>3, <3>4, <3>5 DEF Has
  <2> QED BY <2>2, <2>3
<1>11. /\ highest_video_ts' \in Nat /\ highest_audio_ts' \in Nat
       /\ Tracks = 1 => /\ highest_video_ts' <= Due(Video, made'[Video], offset) + Reorder
                        /\ highest_audio_ts' <= Due(1, made'[1], offset)
  <2>1. r.dts = Due(s, made[s], Shift) /\ Extra = Reorder
    BY <1>2, <1>5 DEF Extra
  <2> QED BY <1>1, <1>2, <1>5, <2>1, Heights
<1>12. ASSUME Tracks = 1
       PROVE  /\ \A i \in DOMAIN sent :
                   /\ \A j \in DOMAIN w : Goes(sent[i], w[j].stream, w[j].dts)
                   /\ \A t \in Streams : Goes(sent[i], t, Due(t, made'[t], offset))
              /\ AlmostMonotonic
  <2>1. /\ AlmostMonotonic
        /\ \A i \in DOMAIN sent :
             /\ \A j \in DOMAIN packets : Goes(sent[i], packets[j].stream, packets[j].dts)
             /\ \A t \in Streams : Goes(sent[i], t, Due(t, made[t], offset))
    BY <1>2, <1>12 DEF PacketInv, Ahead
  <2>2. ASSUME NEW i \in DOMAIN sent, NEW t \in Streams
        PROVE  Goes(sent[i], t, Due(t, made'[t], offset))
    <3>1. Goes(sent[i], t, Due(t, made[t], offset))
      BY <2>1
    <3>2. /\ Due(t, made[t], offset) \in Int /\ Due(t, made'[t], offset) \in Int
          /\ Due(t, made[t], offset) <= Due(t, made'[t], offset)
      BY <1>3, MadeGrows
    <3>3. sent[i].dts \in Int /\ Reorder \in Nat
      BY <1>3, PacketFields, StepTypes
    <3> HIDE DEF Due
    <3> QED BY <3>1, <3>2, <3>3 DEF Goes
  <2>3. ASSUME NEW i \in DOMAIN sent, NEW j \in DOMAIN w
        PROVE  Goes(sent[i], w[j].stream, w[j].dts)
    BY <1>5, <1>8, <2>1
  <2> QED BY <2>1, <2>2, <2>3
<1>13. Tracks = 1 => InSync'
  BY <1>1 DEF PacketInv, InSync
<1>14. origin \in Origins
  BY DEF PacketInv, PacketTypes
<1>15. received_video' = TRUE /\ received_audio' = TRUE
  BY <1>1, <1>3
<1> QED
  BY <1>1, <1>3, <1>4, <1>7, <1>9, <1>10, <1>11, <1>12, <1>13, <1>14, <1>15, StillUnderway

(* The attempt to start: in vain, ...                                       *)
LEMMA TriesInVain ==
  ASSUME PacketInv, ~ Underway, NEW s \in Streams, NEW key \in BOOLEAN, Encode(s),
         sent_first_packet' \in BOOLEAN, NEW p, p = Packet(s, key),
         NEW x, Outcome(Insert(packets, p), x, Zero, made'), ~ (x.video /\ x.audio),
         received_video' = x.video, received_audio' = x.audio, packets' = x.packets,
         highest_video_ts' = HigherVideo(p), highest_audio_ts' = HigherAudio(p),
         offset' = offset, sent' = sent
  PROVE  PacketInv'
<1> DEFINE q == Insert(packets, p)
<1>1. /\ q \in Seq(PacketsOf(Streams))
      /\ HigherVideo(p) \in Nat /\ HigherAudio(p) \in Nat
      /\ \A i \in DOMAIN q :
            q[i].dts <= IF q[i].stream = Video THEN HigherVideo(p) ELSE HigherAudio(p)
      /\ Tracks = 1 => /\ HigherVideo(p) <= Due(Video, made'[Video], Zero)
                       /\ HigherAudio(p) <= Due(1, made'[1], Zero)
  BY Joins
<1> HIDE DEF q
<1>2. /\ x.video \in BOOLEAN /\ x.audio \in BOOLEAN /\ Left(q, x.packets, Zero, made')
      /\ x.video <=> Has(x.packets, Video)
      /\ x.audio \/ \E t \in Audio : Short(x.packets, t)
  BY DEF Outcome, q
<1>3. /\ packets' \in Seq(PacketsOf(Streams)) /\ Ordered(packets') /\ InLine(packets', Zero, made')
      /\ \A i \in DOMAIN packets' : \E j \in DOMAIN q : packets'[i] = q[j]
  BY <1>2 DEF Left
<1>4. \A i \in DOMAIN packets' : packets'[i].dts <=
        IF packets'[i].stream = Video THEN highest_video_ts' ELSE highest_audio_ts'
  BY <1>1, <1>3
<1>5. ~ Underway' /\ sent' = <<>>
  BY Waiting0 DEF Underway
<1> QED BY <1>1, <1>2, <1>3, <1>4, <1>5, StillWaiting

(* ... or with success.                                                     *)
LEMMA Starts ==
  ASSUME PacketInv, ~ Underway, NEW s \in Streams, NEW key \in BOOLEAN, Encode(s),
         sent_first_packet' \in BOOLEAN, NEW p, p = Packet(s, key),
         NEW x, x = Attempt(Insert(packets, p)), x.video, x.audio,
         received_video' = x.video, received_audio' = x.audio, Begin(x, p)
  PROVE  PacketInv'
<1> DEFINE q == Insert(packets, p)
           o == [x.start EXCEPT ![Video] = @ + Reorder]
           u == [i \in 1 .. Len(x.packets) |-> Relative(x.packets[i], o)]
           w == Resort(u)
<1>1. /\ q \in Seq(PacketsOf(Streams)) /\ Ordered(q) /\ InLine(q, Zero, made')
      /\ HigherVideo(p) \in Nat /\ HigherAudio(p) \in Nat
      /\ \A i \in DOMAIN q :
            q[i].dts <= IF q[i].stream = Video THEN HigherVideo(p) ELSE HigherAudio(p)
      /\ Tracks = 1 => /\ HigherVideo(p) <= Due(Video, made'[Video], Zero)
                       /\ HigherAudio(p) <= Due(1, made'[1], Zero)
  BY Joins
<1>2. /\ made' \in [Streams -> Nat] /\ made' \in [Streams -> 0 .. MaxPackets] /\ origin' = origin
      /\ origin \in [Streams -> Nat \ {0}] /\ Zero \in [Streams -> Int]
  BY NextPacket, StateTypes
<1>3. /\ offset' = o /\ highest_video_ts' = HigherVideo(p) - x.start[Video]
      /\ highest_audio_ts' = HigherAudio(p) - x.start[1]
      /\ Send(w, highest_video_ts', highest_audio_ts')
  BY DEF Begin
<1> HIDE DEF q, u, w
<1>4. Outcome(q, x, Zero, made')
  BY <1>1, <1>2, AttemptOutcome DEF q
<1>5. /\ x.video \in BOOLEAN /\ x.audio \in BOOLEAN /\ x.start \in [Streams -> Int]
      /\ Left(q, x.packets, Zero, made')
      /\ \A t \in Streams :
           Has(x.packets, t) /\ x.start[t] = x.packets[FirstOf(x.packets, t)].dts
  BY <1>4 DEF Outcome
<1>6. /\ x.packets \in Seq(PacketsOf(Streams)) /\ InLine(x.packets, Zero, made')
      /\ \A i \in DOMAIN x.packets : \E j \in DOMAIN q : x.packets[i] = q[j]
  BY <1>5 DEF Left
<1>7. /\ Video \in Streams /\ 1 \in Streams /\ 1 # Video /\ Reorder \in Nat
  BY StepTypes
<1>8. /\ o \in [Streams -> Int] /\ o[Video] = x.start[Video] + Reorder
      /\ \A t \in Streams : t # Video => o[t] = x.start[t]
  BY <1>5, <1>7
<1> HIDE DEF o
<1>9. /\ u \in Seq(PacketsOf(Streams)) /\ InLine(u, o, made')
      /\ \A t : Has(x.packets, t) => Has(u, t)
  <2>1. u = Shifted(x.packets, o)
    BY DEF u, Shifted
  <2>2. /\ Shifted(x.packets, o) \in Seq(PacketsOf(Streams))
        /\ InLine(Shifted(x.packets, o), o, made')
        /\ \A t : Has(x.packets, t) => Has(Shifted(x.packets, o), t)
    BY <1>2, <1>6, <1>8, ShiftedIs
  <2> QED BY <2>1, <2>2, Zenon
<1>10. /\ w \in Seq(PacketsOf(Streams)) /\ Ordered(w) /\ InLine(w, o, made')
       /\ \A t : Has(u, t) => Has(w, t)
  BY <1>2, <1>8, <1>9, ResortedInLine DEF w
<1>11. \A t \in Streams : Has(w, t)
  <2> TAKE t \in Streams
  <2>1. Has(x.packets, t)
    BY <1>5
  <2>2. Has(u, t)
    BY <1>9, <2>1 DEF Has
  <2> QED BY <1>10, <2>2
<1>12. w # <<>>
  <2>1. Has(w, Video)
    BY <1>7, <1>11
  <2> QED BY <2>1 DEF Has
<1>13. sent = <<>> /\ sent \o w = w /\ sent \in Seq(PacketsOf(Streams))
  <2>1. sent = <<>>
    BY Waiting0
  <2> QED BY <1>10, <2>1
<1>14. /\ x.start[Video] \in Int /\ x.start[Video] <= HigherVideo(p)
       /\ x.start[1] \in Int /\ x.start[1] <= HigherAudio(p)
  <2>1. ASSUME NEW t \in Streams
        PROVE  \E j \in DOMAIN q : q[j].stream = t /\ q[j].dts = x.start[t]
    <3>1. Has(x.packets, t) /\ x.start[t] = x.packets[FirstOf(x.packets, t)].dts
      BY <1>5
    <3>2. /\ FirstOf(x.packets, t) \in DOMAIN x.packets
          /\ x.packets[FirstOf(x.packets, t)].stream = t
      BY <1>6, <3>1, HasFirst
    <3> QED BY <1>6, <3>1, <3>2
  <2>2. PICK j \in DOMAIN q : q[j].stream = Video /\ q[j].dts = x.start[Video]
    BY <1>7, <2>1
  <2>3. PICK k \in DOMAIN q : q[k].stream = 1 /\ q[k].dts = x.start[1]
    BY <1>7, <2>1
  <2>4. x.start[Video] <= HigherVideo(p)
    BY <1>1, <2>2
  <2>5. x.start[1] <= HigherAudio(p)
    BY <1>1, <1>7, <2>3
  <2> QED BY <1>5, <1>7, <2>4, <2>5
<1>15. highest_video_ts' \in Nat /\ highest_audio_ts' \in Nat
  BY <1>1, <1>3, <1>14
<1>16. Tracks = 1 => InSync'
  <2> SUFFICES ASSUME Tracks = 1 PROVE InSync'
    OBVIOUS
  <2>1. Distance([dts |-> x.start[1]], [dts |-> x.start[Video]]) <= Larger(VideoStep, AudioStep)
    BY <1>1, <1>2, AttemptInSync DEF q
  <2>2. offset'[1] = x.start[1] /\ offset'[Video] - Reorder = x.start[Video] /\ Audio = {1}
    BY <1>3, <1>7, <1>8, <1>14, OneTrack
  <2> QED BY <2>1, <2>2 DEF InSync
<1>17. ASSUME Tracks = 1
       PROVE  /\ highest_video_ts' <= Due(Video, made'[Video], o) + Reorder
              /\ highest_audio_ts' <= Due(1, made'[1], o)
              /\ AlmostMonotonic
  <2>1. /\ Due(Video, made'[Video], Zero) \in Int /\ Due(1, made'[1], Zero) \in Int
        /\ Due(Video, made'[Video], o) = Due(Video, made'[Video], Zero) - o[Video]
        /\ Due(1, made'[1], o) = Due(1, made'[1], Zero) - o[1]
    <3>1. made'[Video] \in Nat /\ made'[1] \in Nat
      BY <1>2, <1>7
    <3> QED BY <1>2, <1>7, <1>8, <3>1, DueShift
  <2>2. o[Video] = x.start[Video] + Reorder /\ o[1] = x.start[1]
    BY <1>7, <1>8
  <2>3. /\ HigherVideo(p) <= Due(Video, made'[Video], Zero)
        /\ HigherAudio(p) <= Due(1, made'[1], Zero)
    BY <1>1, <1>17
  <2>4. AlmostMonotonic
    BY <1>13 DEF AlmostMonotonic
  <2> HIDE DEF Due
  <2>5. highest_audio_ts' <= Due(1, made'[1], o)
    <3>1. HigherAudio(p) \in Int /\ highest_audio_ts' = HigherAudio(p) - x.start[1]
      BY <1>1, <1>3
    <3> QED BY <1>14, <2>1, <2>2, <2>3, <3>1
  <2>6. highest_video_ts' <= Due(Video, made'[Video], o) + Reorder
    <3>1. HigherVideo(p) \in Int /\ highest_video_ts' = HigherVideo(p) - x.start[Video]
      BY <1>1, <1>3
    <3> QED BY <1>7, <1>14, <2>1, <2>2, <2>3, <3>1
  <2> QED BY <2>4, <2>5, <2>6
<1>18. origin \in Origins
  BY DEF PacketInv, PacketTypes
<1>19. received_video' = TRUE /\ received_audio' = TRUE
  BY <1>5
<1>20. DOMAIN sent = {}
  BY <1>13
<1> QED
  BY <1>2, <1>3, <1>8, <1>10, <1>11, <1>12, <1>13, <1>15, <1>16, <1>17, <1>18, <1>19, <1>20,
     StillUnderway

LEMMA Tries ==
  ASSUME PacketInv, NEW s \in Streams, NEW key \in BOOLEAN, Encode(s),
         sent_first_packet' \in BOOLEAN,
         TryStart(Packet(s, key))
  PROVE  PacketInv'
<1> DEFINE p == Packet(s, key)
           x == Attempt(Insert(packets, p))
<1>1. /\ ~ (received_video /\ received_audio)
      /\ received_video' = x.video /\ received_audio' = x.audio
      /\ \/ x.video /\ x.audio /\ Begin(x, p)
         \/ /\ ~ (x.video /\ x.audio)
            /\ packets' = x.packets
            /\ highest_video_ts' = HigherVideo(p) /\ highest_audio_ts' = HigherAudio(p)
            /\ UNCHANGED <<offset, sent>>
  BY DEF TryStart
<1>2. ~ Underway
  BY <1>1 DEF Underway
<1>3. Outcome(Insert(packets, p), x, Zero, made')
  <2>1. /\ Insert(packets, p) \in Seq(PacketsOf(Streams)) /\ Ordered(Insert(packets, p))
        /\ InLine(Insert(packets, p), Zero, made')
    BY <1>2, Joins
  <2>2. made' \in [Streams -> Nat]
    BY NextPacket
  <2> QED BY <2>1, <2>2, AttemptOutcome
<1>4. CASE x.video /\ x.audio /\ Begin(x, p)
  <2> HIDE DEF p
  <2> QED BY <1>1, <1>2, <1>4, Starts DEF p
<1>5. CASE /\ ~ (x.video /\ x.audio)
           /\ packets' = x.packets
           /\ highest_video_ts' = HigherVideo(p) /\ highest_audio_ts' = HigherAudio(p)
           /\ UNCHANGED <<offset, sent>>
  <2> HIDE DEF x
  <2> QED BY <1>1, <1>2, <1>3, <1>5, TriesInVain
<1> QED BY <1>1, <1>4, <1>5

-----------------------------------------------------------------------------
(* The invariance. *)

(* The output before its first packet.                                      *)
Empty ==
  /\ origin \in Origins /\ made \in [Streams -> 0 .. MaxPackets] /\ sent_first_packet \in BOOLEAN
  /\ packets = <<>> /\ sent = <<>> /\ received_video = FALSE /\ received_audio = FALSE
  /\ highest_video_ts = 0 /\ highest_audio_ts = 0 /\ offset \in [Streams -> Int]

(* The invariant holds when nothing has been received.                      *)
LEMMA EmptyInv == Empty => PacketInv
<1> SUFFICES ASSUME Empty PROVE PacketInv
  OBVIOUS
<1>1. /\ packets \in Seq(PacketsOf(Streams)) /\ sent \in Seq(PacketsOf(Streams))
      /\ DOMAIN packets = {} /\ DOMAIN sent = {} /\ sent \o packets = <<>>
  BY DEF Empty
<1>2. DOMAIN History = {}
  BY <1>1 DEF History
<1>3. ~ Underway /\ Shift = Zero /\ Extra = 0
  BY DEF Empty, Underway, Shift, Extra
<1>4. PacketTypes
  BY <1>1 DEF Empty, PacketTypes, ToSet
<1>5. InLine(History, Shift, made)
  BY <1>2 DEF InLine, Timed, Rising, Whole
<1>6. Ordered(packets) /\ Highest
  BY <1>1 DEF Ordered, Highest
<1>7. Received
  <2>1. \A s : ~ Has(packets, s)
    BY <1>1 DEF Has
  <2>2. 1 \in Audio
    BY StepTypes
  <2> QED BY <1>3, <2>1, <2>2 DEF Empty, Received, Short
<1>8. Tracks = 1 => InSync
  BY DEF Empty, InSync
<1>9. Ahead
  <2>1. ASSUME NEW s \in Streams PROVE 0 <= Due(s, made[s], Zero) /\ Due(s, made[s], Zero) \in Int
    <3> DEFINE y == made[s] * Step(s)
    <3>1. made[s] \in Nat /\ Step(s) \in Nat /\ origin[s] \in Nat /\ Zero[s] = 0
      <4>1. made[s] \in Nat /\ Zero[s] = 0
        BY DEF Empty, Zero
      <4> QED BY <4>1, StepTypes, OriginsAssumption DEF Empty
    <3>2. y \in Nat
      BY <3>1
    <3>3. Due(s, made[s], Zero) = origin[s] + (y - Zero[s])
      BY Zenon DEF Due
    <3> HIDE DEF y
    <3> QED BY <3>1, <3>2, <3>3
  <2>2. 0 <= Due(Video, made[Video], Shift) + Extra /\ 0 <= Due(1, made[1], Shift)
    <3>1. Video \in Streams /\ 1 \in Streams
      BY StepTypes
    <3> HIDE DEF Due
    <3> QED BY <1>3, <2>1, <3>1
  <2>3. AlmostMonotonic
    BY <1>1 DEF Empty, AlmostMonotonic
  <2> QED BY <1>1, <2>2, <2>3 DEF Empty, Ahead
<1> QED BY <1>1, <1>4, <1>5, <1>6, <1>7, <1>8, <1>9 DEF PacketInv

LEMMA InterleavesInv ==
  ASSUME PacketInv, NEW s \in Streams, NEW key \in BOOLEAN, Encode(s),
         sent_first_packet' \in BOOLEAN,
         InterleavePackets(Packet(s, key))
  PROVE  PacketInv'
<1>1. CASE DiscardUnused(Packet(s, key))
  <2>1. s = Video
    BY <1>1 DEF DiscardUnused, Packet
  <2> QED BY <1>1, <2>1, DiscardsAudio
<1>2. CASE Collect(Packet(s, key))
  BY <1>2, Collects
<1>3. CASE TryStart(Packet(s, key))
  BY <1>3, Tries
<1>4. CASE Forward(Packet(s, key))
  BY <1>4, Forwards
<1> QED BY <1>1, <1>2, <1>3, <1>4 DEF InterleavePackets

(* The two offsets a reset clears (obs_output_actual_start).                *)
LEMMA Changed ==
  ASSUME NEW S, NEW T, NEW f \in [S -> T], NEW x, NEW v \in T
  PROVE  [f EXCEPT ![x] = v] \in [S -> T]
  OBVIOUS

LEMMA Cleared ==
  ASSUME NEW o \in [Streams -> Int]
  PROVE  [o EXCEPT ![Video] = 0, ![1] = 0] \in [Streams -> Int]
<1>1. PICK zero : zero = 0 /\ zero \in Int
  OBVIOUS
<1>2. [o EXCEPT ![Video] = zero] \in [Streams -> Int]
  <2>1. zero \in Int
    BY <1>1
  <2> QED BY <2>1, Changed
<1>3. [[o EXCEPT ![Video] = zero] EXCEPT ![1] = zero] \in [Streams -> Int]
  <2>1. zero \in Int
    BY <1>1
  <2> QED BY <1>2, <2>1, Changed
<1>4. [[o EXCEPT ![Video] = zero] EXCEPT ![1] = zero] = [o EXCEPT ![Video] = 0, ![1] = 0]
  BY <1>1
<1> QED BY <1>3, <1>4

LEMMA StepInv == PacketInv /\ [InterleaverNext]_packetVars => PacketInv'
<1> SUFFICES ASSUME PacketInv, [InterleaverNext]_packetVars PROVE PacketInv'
  OBVIOUS
<1>1. ASSUME NEW key \in BOOLEAN, EncodeVideo(key) PROVE PacketInv'
  <2>1. Video \in Streams
    BY StepTypes
  <2> QED BY <1>1, <2>1, InterleavesInv DEF EncodeVideo
<1>2. ASSUME NEW s \in Audio, EncodeAudio(s) PROVE PacketInv'
  <2>1. s \in Streams /\ sent_first_packet \in BOOLEAN
    BY StepTypes, StateTypes
  <2> QED BY <1>2, <2>1, InterleavesInv DEF EncodeAudio
<1>3. ASSUME Restart PROVE PacketInv'
  <2>1. /\ packets' = <<>> /\ sent' = <<>> /\ received_video' = FALSE /\ received_audio' = FALSE
        /\ highest_video_ts' = 0 /\ highest_audio_ts' = 0 /\ sent_first_packet' = FALSE
        /\ offset' = [offset EXCEPT ![Video] = 0, ![1] = 0] /\ origin' = origin /\ made' = made
    BY <1>3 DEF Restart, Reset
  <2>2. /\ offset \in [Streams -> Int] /\ made \in [Streams -> 0 .. MaxPackets]
        /\ origin \in Origins
    BY StateTypes DEF PacketInv, PacketTypes
  <2>3. offset' \in [Streams -> Int]
    <3> QED BY <2>1, <2>2, Cleared
  <2>4. Empty'
    BY <2>1, <2>2, <2>3 DEF Empty
  <2> QED BY <2>4, EmptyInv, PTL
<1>4. ASSUME UNCHANGED packetVars PROVE PacketInv'
  <2>1. /\ origin' = origin /\ made' = made /\ sent_first_packet' = sent_first_packet
        /\ packets' = packets /\ sent' = sent
        /\ received_video' = received_video /\ received_audio' = received_audio
        /\ highest_video_ts' = highest_video_ts /\ highest_audio_ts' = highest_audio_ts
        /\ offset' = offset
    BY <1>4 DEF packetVars, encoderVars, receivedVars
  <2>2. PacketTypes'
    BY <2>1 DEF PacketInv, PacketTypes
  <2>3. Underway' = Underway /\ Shift' = Shift /\ History' = History
    BY <2>1 DEF Underway, Shift, History
  <2>4. InLine(History, Shift, made)'
    BY <2>1, <2>3 DEF PacketInv, InLine, Timed, Due, Rising, Whole
  <2>5. Ordered(packets)' /\ Received' /\ Highest'
    BY <2>1, <2>3 DEF PacketInv, Ordered, Received, Highest, Has, Short
  <2>6. (Tracks = 1 => InSync)'
    BY <2>1 DEF PacketInv, InSync
  <2>7. (Tracks = 1 => Ahead)'
    BY <2>1, <2>3 DEF PacketInv, Ahead, AlmostMonotonic, Due, Extra
  <2> QED BY <2>1, <2>2, <2>4, <2>5, <2>6, <2>7 DEF PacketInv
<1> QED BY <1>1, <1>2, <1>3, <1>4 DEF InterleaverNext

(* The invariant holds throughout.                                          *)
LEMMA PacketInvariance == InterleaverSpec => []PacketInv
<1>1. InterleaverInit => Empty
  <2> SUFFICES ASSUME InterleaverInit PROVE Empty
    OBVIOUS
  <2>1. [s \in Streams |-> 0] \in [Streams -> Int] /\ MaxPackets \in Nat
    BY StepTypes
  <2>2. [s \in Streams |-> 0] \in [Streams -> 0 .. MaxPackets]
    BY <2>1
  <2> QED BY <2>1, <2>2 DEF InterleaverInit, Empty
<1> QED BY <1>1, EmptyInv, StepInv, PTL DEF InterleaverSpec

(* The output's start is put off only while a stream is missing or ends     *)
(* before the video begins.                                                 *)
THEOREM StartsAsSoonAsPossible == InterleaverSpec => []StartsWhenPossible
<1>1. PacketInv => StartsWhenPossible
  <2> SUFFICES ASSUME PacketInv, ~ Underway
               PROVE  \E s \in Audio :
                        LET a == LastOf(packets, s)
                            v == FirstOf(packets, Video)
                        IN  a = 0 \/ v = 0 \/ packets[a].dts < packets[v].dts
    BY DEF StartsWhenPossible, Underway
  <2>1. packets \in Seq(PacketsOf(Streams))
    BY StateTypes
  <2>2. CASE ~ received_video
    <3>1. ~ Has(packets, Video)
      BY <2>2 DEF PacketInv, Received
    <3>2. FirstOf(packets, Video) = 0 /\ 1 \in Audio
      BY <2>1, <3>1, HasFirst, StepTypes
    <3> QED BY <3>2
  <2>3. CASE received_video
    <3>1. PICK s \in Audio : Short(packets, s)
      BY <2>3 DEF PacketInv, Received, Underway
    <3>2. CASE ~ Has(packets, s)
      BY <2>1, <3>2, HasFirst
    <3>3. CASE Has(packets, s)
      <4>1. Has(packets, Video)
        BY <3>1, <3>3 DEF Short
      <4>2. /\ LastOf(packets, s) \in DOMAIN packets /\ packets[LastOf(packets, s)].stream = s
            /\ FirstOf(packets, Video) \in DOMAIN packets
            /\ packets[FirstOf(packets, Video)].stream = Video
        BY <2>1, <3>3, <4>1, HasFirst
      <4>3. packets[LastOf(packets, s)].dts < packets[FirstOf(packets, Video)].dts
        BY <3>1, <3>3, <4>2 DEF Short
      <4> QED BY <4>3
    <3> QED BY <3>2, <3>3
  <2> QED BY <2>2, <2>3
<1> QED BY <1>1, PacketInvariance, PTL

(* With one audio track the streams begin at most a frame apart, of         *)
(* whichever is longer, and are made to begin together.                     *)
THEOREM LipsInSync ==
  ASSUME Tracks = 1
  PROVE  InterleaverSpec => []InSync
<1>1. PacketInv => InSync
  BY DEF PacketInv
<1> QED BY <1>1, PacketInvariance, PTL

(* A set that holds everything from its least member to e - 1.              *)
LEMMA Filled ==
  ASSUME NEW N, NEW first \in Nat, NEW e \in Nat,
         \A k \in first .. e - 1 : k \in N,
         \A k \in N : k \in Nat /\ first <= k /\ k <= e - 1
  PROVE  N = first .. e - 1
<1>1. N \subseteq first .. e - 1
  OBVIOUS
<1>2. first .. e - 1 \subseteq N
  OBVIOUS
<1> QED BY <1>1, <1>2

(* What the invariant says of the packets sent and buffered together.       *)
LEMMA Complete == PacketInv => NoGaps
<1> SUFFICES ASSUME PacketInv, Underway PROVE NoGaps
  BY DEF NoGaps, Underway
<1>1. History \in Seq(PacketsOf(Streams)) /\ Rising(History) /\ Whole(History, made)
  BY StateTypes, ConcatPlaces DEF PacketInv, InLine, History
<1>2. ASSUME NEW s \in Streams
      PROVE  \E first \in 0 .. made[s] - 1 :
               {History[i].n : i \in {i \in DOMAIN History : History[i].stream = s}}
                 = first .. made[s] - 1
  <2> DEFINE N == {History[i].n : i \in {i \in DOMAIN History : History[i].stream = s}}
  <2>1. made[s] \in Nat
    BY StateTypes
  <2>2. \A i \in DOMAIN History : History[i].n \in Nat
    BY <1>1, PacketFields
  <2>3. N \in SUBSET Nat /\ N # {}
    <3>1. Has(History, s)
      BY DEF PacketInv, Received
    <3> QED BY <2>2, <3>1 DEF Has
  <2>4. PICK first \in N : \A x \in N : first <= x
    <3> HIDE DEF N
    <3> QED BY <2>3, LeastOf
  <2>5. \A x \in N : x < made[s] /\ x \in Nat
    BY <1>1, <2>2 DEF Whole
  <2>6. \A x \in N : \A k \in x .. made[s] - 1 : k \in N
    BY <1>1 DEF Whole
  <2> HIDE DEF N
  <2>7. N = first .. made[s] - 1 /\ first \in 0 .. made[s] - 1
    <3>1. PICK e \in Nat : e = made[s]
      BY <2>1
    <3>2. first \in Nat /\ first < e /\ first \in N
      BY <2>4, <2>5, <3>1
    <3>3. \A k \in first .. e - 1 : k \in N
      BY <2>6, <3>1, <3>2
    <3>4. \A k \in N : k \in Nat /\ first <= k /\ k <= e - 1
      BY <2>4, <2>5, <3>1, <3>2
    <3>5. N = first .. e - 1
      BY <3>1, <3>2, <3>3, <3>4, Filled
    <3> QED BY <3>1, <3>2, <3>5
  <2> QED BY <2>7 DEF N
<1>3. \A i, j \in DOMAIN History :
        i < j /\ History[i].stream = History[j].stream => History[i].n < History[j].n
  BY <1>1 DEF Rising
<1> QED BY <1>2, <1>3, Zenon DEF NoGaps, History

(* From the start on no packet is lost, repeated or overtaken by a later    *)
(* one of its stream, for every number of tracks, with and without B-frames.*)
THEOREM NoneLost == InterleaverSpec => [](PacketTypes /\ NoGaps)
<1>1. PacketInv => PacketTypes
  BY DEF PacketInv
<1> QED BY <1>1, Complete, PacketInvariance, PTL

(* With one audio track the packets are sent in ascending order as well,    *)
(* but for audio that goes ahead of reordered video.                        *)
THEOREM PacketsInOrder ==
  ASSUME Tracks = 1
  PROVE  InterleaverSpec => []StreamsInOrder
<1>1. PacketInv => PacketTypes /\ AlmostMonotonic
  BY DEF PacketInv, Ahead
<1>2. PacketInv => StreamsInOrder
  BY <1>1, Complete DEF StreamsInOrder
<1> QED BY <1>2, PacketInvariance, PTL
=============================================================================
