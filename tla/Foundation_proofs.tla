--------------------------- MODULE Foundation_proofs ------------------------
(***************************************************************************)
(* Theorems about what the objects of libobs rest on: their signals, and   *)
(* their reference counts, for every finite set of threads.                *)
(***************************************************************************)
EXTENDS Signals, WeakRef,
        FiniteSetTheorems, NaturalsInduction, WellFoundedInduction, TLAPS

-----------------------------------------------------------------------------
(* What is left of a list when entries are erased.                         *)

LEMMA LeastNumber ==
  ASSUME NEW S \in SUBSET Nat, S # {}
  PROVE  \E m \in S : \A x \in S : m <= x
<1> DEFINE less == {p \in Nat \X Nat : p[1] < p[2]}
<1>1. OpToRel(<, Nat) = less
  BY Zenon DEF OpToRel
<1>2. IsWellFoundedOn(less, Nat)
  BY <1>1, NatLessThanWellFounded, Zenon
<1>3. PICK m \in S : \A y \in S : ~ (<<y, m>> \in less)
  <2> HIDE DEF less
  <2> QED
    BY <1>2, WFMin
<1>4. \A y \in S : m <= y
  <2>1. TAKE y \in S
  <2>2. y \in Nat /\ m \in Nat
    OBVIOUS
  <2>3. <<y, m>> \in Nat \X Nat /\ ~ (<<y, m>> \in less)
    BY <1>3, <2>2
  <2>4. ~ (y < m)
    BY <2>2, <2>3
  <2> QED
    BY <2>2, <2>4
<1> QED
  BY <1>4

(* The loop of Kept, one entry at a time.                                   *)
LEMMA KeptLoop ==
  ASSUME NEW q \in Seq(Entry), NEW keep
  PROVE  \E kept :
           /\ kept[0] = <<>> /\ Kept(q, keep) = kept[Len(q)]
           /\ \A n \in 1 .. Len(q) :
                kept[n] = IF n \in keep THEN Append(kept[n - 1], q[n]) ELSE kept[n - 1]
<1> DEFINE Steps(b, n) ==
             b = [i \in 0 .. n |->
                    IF i = 0 THEN <<>>
                    ELSE IF i \in keep THEN Append(b[i - 1], q[i]) ELSE b[i - 1]]
           Bad == {n \in Nat : ~ \E b : Steps(b, n)}
<1>1. Bad = {}
  <2> SUFFICES ASSUME Bad # {} PROVE FALSE
    OBVIOUS
  <2>1. PICK n \in Bad : \A m \in Bad : n <= m
    <3>1. Bad \in SUBSET Nat
      OBVIOUS
    <3> HIDE DEF Bad
    <3> QED
      BY <3>1, LeastNumber
  <2>2. n # 0
    <3>1. Steps([i \in 0 .. 0 |-> <<>>], 0)
      OBVIOUS
    <3> QED
      BY <3>1
  <2>3. PICK b : Steps(b, n - 1)
    <3>1. n \in Nat /\ n - 1 \in Nat /\ ~ (n <= n - 1)
      BY <2>2
    <3>2. ~ (n - 1 \in Bad)
      <4> HIDE DEF Bad
      <4> QED BY <2>1, <3>1
    <3> QED
      BY <3>1, <3>2
  <2> DEFINE e == IF n \in keep THEN Append(b[n - 1], q[n]) ELSE b[n - 1]
             c == [i \in 0 .. n |-> IF i = n THEN e ELSE b[i]]
  <2>4. \A i \in 0 .. n : c[i] = IF i = 0 THEN <<>>
                    ELSE IF i \in keep THEN Append(c[i - 1], q[i]) ELSE c[i - 1]
    <3> TAKE i \in 0 .. n
    <3>1. CASE i = n
      <4>1. c[n] = e /\ c[n - 1] = b[n - 1]
        BY <2>2
      <4> QED
        BY <3>1, <4>1, <2>2
    <3>2. CASE i # n
      <4>1. i \in 0 .. n - 1 /\ c[i] = b[i] /\ (i # 0 => c[i - 1] = b[i - 1])
        BY <3>2
      <4>2. b[i] = IF i = 0 THEN <<>>
                   ELSE IF i \in keep THEN Append(b[i - 1], q[i]) ELSE b[i - 1]
        BY <2>3, <4>1
      <4> QED
        BY <4>1, <4>2
    <3> QED
      BY <3>1, <3>2
  <2>5. Steps(c, n)
    <3>1. c = [i \in 0 .. n |-> c[i]]
      OBVIOUS
    <3> HIDE DEF c
    <3> QED
      BY <3>1, <2>4
  <2> QED
    BY <2>1, <2>5
<1>2. PICK b : Steps(b, Len(q))
  BY <1>1
<1> DEFINE kept == CHOOSE d : Steps(d, Len(q))
<1>3. Steps(kept, Len(q))
  BY <1>2
<1>4. Kept(q, keep) = kept[Len(q)]
  BY DEF Kept
<1> HIDE DEF kept
<1>5. Len(q) \in Nat
  OBVIOUS
<1>6. \A i \in 0 .. Len(q) : kept[i] = IF i = 0 THEN <<>>
        ELSE IF i \in keep THEN Append(kept[i - 1], q[i]) ELSE kept[i - 1]
  BY <1>3
<1> QED
  BY <1>4, <1>5, <1>6

Distinct(q) == \A i, j \in DOMAIN q : q[i].callback = q[j].callback => i = j

(* r has the entries of the first n of q that are in keep, each once.      *)
Keeps(q, keep, n, r) ==
  /\ r \in Seq(Entry)
  /\ \A k \in 1 .. Len(r) : \E i \in 1 .. n : i \in keep /\ r[k] = q[i]
  /\ \A i \in 1 .. n : i \in keep => \E k \in 1 .. Len(r) : r[k] = q[i]
  /\ \A j, k \in 1 .. Len(r) : r[j].callback = r[k].callback => j = k

LEMMA OneKept ==
  ASSUME NEW q \in Seq(Entry), NEW keep, NEW n \in 1 .. Len(q), NEW r, Distinct(q),
         Keeps(q, keep, n - 1, r), n \in keep
  PROVE  Keeps(q, keep, n, Append(r, q[n]))
<1> DEFINE s == Append(r, q[n])
<1>1. /\ r \in Seq(Entry) /\ q[n] \in Entry /\ s \in Seq(Entry) /\ Len(r) \in Nat
      /\ Len(s) = Len(r) + 1 /\ s[Len(r) + 1] = q[n]
      /\ \A k \in 1 .. Len(r) : s[k] = r[k]
  BY DEF Keeps
<1> HIDE DEF s
<1>2. \A k \in 1 .. Len(s) : k \in 1 .. Len(r) \/ k = Len(s)
  BY <1>1
<1>3. /\ \A k \in 1 .. Len(r) : \E i \in 1 .. n - 1 : i \in keep /\ r[k] = q[i]
      /\ \A i \in 1 .. n - 1 : i \in keep => \E k \in 1 .. Len(r) : r[k] = q[i]
      /\ \A j, k \in 1 .. Len(r) : r[j].callback = r[k].callback => j = k
  BY DEF Keeps
<1>4. n \in DOMAIN q /\ \A i \in 1 .. n - 1 : i \in 1 .. n /\ i \in DOMAIN q /\ i # n
  OBVIOUS
<1>5. ASSUME NEW k \in 1 .. Len(s) PROVE \E i \in 1 .. n : i \in keep /\ s[k] = q[i]
  <2>1. CASE k \in 1 .. Len(r)
    <3>1. PICK i \in 1 .. n - 1 : i \in keep /\ r[k] = q[i]
      BY <1>3, <2>1
    <3>2. s[k] = q[i]
      BY <1>1, <2>1, <3>1
    <3>3. i \in 1 .. n
      BY <1>4
    <3> QED
      BY <3>1, <3>2, <3>3
  <2>2. CASE k = Len(s)
    BY <2>2, <1>1
  <2> QED
    BY <1>2, <2>1, <2>2
<1>6. ASSUME NEW i \in 1 .. n, i \in keep PROVE \E k \in 1 .. Len(s) : s[k] = q[i]
  <2>1. CASE i = n
    BY <2>1, <1>1
  <2>2. CASE i # n
    <3>1. i \in 1 .. n - 1
      BY <2>2
    <3>2. PICK k \in 1 .. Len(r) : r[k] = q[i]
      BY <1>3, <1>6, <3>1
    <3>3. k \in 1 .. Len(s) /\ s[k] = q[i]
      BY <1>1, <3>2
    <3> QED
      BY <3>3
  <2> QED
    BY <2>1, <2>2
<1>7. \A k \in 1 .. Len(r) : s[k].callback # q[n].callback
  <2>1. TAKE k \in 1 .. Len(r)
  <2>2. PICK i \in 1 .. n - 1 : r[k] = q[i]
    BY <1>3
  <2> QED
    BY <2>2, <1>1, <1>4 DEF Distinct
<1>8. ASSUME NEW j \in 1 .. Len(s), NEW k \in 1 .. Len(s), s[j].callback = s[k].callback
      PROVE  j = k
  <2>1. CASE j \in 1 .. Len(r) /\ k \in 1 .. Len(r)
    BY <2>1, <1>1, <1>3, <1>8
  <2>2. CASE j = Len(s) \/ k = Len(s)
    BY <2>2, <1>1, <1>2, <1>7, <1>8
  <2> QED
    BY <1>2, <2>1, <2>2
<1> QED
  BY <1>1, <1>5, <1>6, <1>8 DEF Keeps, s

LEMMA KeptEntries ==
  ASSUME NEW q \in Seq(Entry), NEW keep, Distinct(q)
  PROVE  Keeps(q, keep, Len(q), Kept(q, keep))
<1>1. PICK kept : /\ kept[0] = <<>> /\ Kept(q, keep) = kept[Len(q)]
                  /\ \A n \in 1 .. Len(q) :
                       kept[n] = IF n \in keep THEN Append(kept[n - 1], q[n]) ELSE kept[n - 1]
  BY KeptLoop
<1> DEFINE Bad == {n \in Nat : n <= Len(q) /\ ~ Keeps(q, keep, n, kept[n])}
<1>2. Keeps(q, keep, 0, kept[0])
  BY <1>1 DEF Keeps
<1>3. Bad = {}
  <2> SUFFICES ASSUME Bad # {} PROVE FALSE
    OBVIOUS
  <2>1. PICK n \in Bad : \A m \in Bad : n <= m
    <3>1. Bad \in SUBSET Nat
      OBVIOUS
    <3> HIDE DEF Bad
    <3> QED
      BY <3>1, LeastNumber
  <2>2. n \in 1 .. Len(q) /\ n - 1 \in Nat /\ n - 1 <= Len(q) /\ ~ (n <= n - 1)
    BY <1>2, <2>1
  <2>3. Keeps(q, keep, n - 1, kept[n - 1])
    BY <2>1, <2>2
  <2>4. CASE n \in keep
    BY <2>1, <2>2, <2>3, <2>4, <1>1, OneKept
  <2>5. CASE n \notin keep
    <3>1. kept[n] = kept[n - 1]
      BY <1>1, <2>2, <2>5
    <3>2. Keeps(q, keep, n, kept[n - 1])
      BY <2>2, <2>3, <2>5 DEF Keeps
    <3> QED
      BY <2>1, <3>1, <3>2
  <2> QED
    BY <2>4, <2>5
<1>4. Len(q) \in Nat
  OBVIOUS
<1> QED
  BY <1>1, <1>3, <1>4

-----------------------------------------------------------------------------
(* What a callback of a list uses comes after the list, and callbacks of   *)
(* the global list use nothing.                                            *)
Ranks(rank) == \A l, m \in Lists : <<l, m>> \in Uses => rank[l] < rank[m]

Orderly ==
  /\ \A l \in Lists : <<All, l>> \notin Uses
  /\ \E rank \in [Lists -> Nat] : Ranks(rank)

Rank == CHOOSE rank \in [Lists -> Nat] : Ranks(rank)

LEMMA RankProperties ==
  ASSUME Orderly
  PROVE  /\ Rank \in [Lists -> Nat]
         /\ \A l, m \in Lists : <<l, m>> \in Uses => Rank[l] < Rank[m]
<1>1. Rank \in [Lists -> Nat] /\ Ranks(Rank)
  BY Zenon DEF Orderly, Rank
<1> QED
  BY <1>1, Zenon DEF Ranks

(* A thread goes through lists in the order of their ranks, one callback   *)
(* inside the other, and through the global callbacks last.                *)
Nested ==
  \A t \in Threads : \A k \in DOMAIN stack[t] :
    LET f == stack[t][k]
    IN  /\ k < Len(stack[t]) => Running(f) /\ f.list # All
        /\ f.at = "lock" => f.list = All /\ f.called = <<>>
        /\ ~ f.moved
        /\ f.list # All => \A j \in 1 .. k - 1 : Rank[stack[t][j].list] < Rank[f.list]

Holds(t, l) == \E k \in DOMAIN stack[t] : stack[t][k].list = l /\ stack[t][k].at # "lock"

Exclusive == \A t, u \in Threads, l \in Lists : Holds(t, l) /\ Holds(u, l) => t = u

(* What a callback wants, its list allows, and what it connects is not     *)
(* marked.                                                                 *)
Allowed(t, w) ==
  w # Nothing =>
    /\ Busy(t) => Running(Top(t))
    /\ w.call = "signal" /\ Busy(t) => <<Top(t).list, w.list>> \in Uses
    /\ w.call # "signal" => ~ (Inside(t, All) /\ w.list = All)
    /\ w.call = "connect" /\ Inside(t, w.list) =>
         \A i \in DOMAIN callbacks[w.list] :
           callbacks[w.list][i].callback = w.callback => ~ callbacks[w.list][i].remove

Allows == \A t \in Threads : Allowed(t, wants[t])

(* Is entry i of the global callbacks being called?                        *)
Calling(i) ==
  \E t \in Threads : \E k \in DOMAIN stack[t] :
    stack[t][k].list = All /\ Running(stack[t][k]) /\ stack[t][k].i = i

Agrees(q, clients) ==
  /\ Distinct(q)
  /\ \A c \in clients : \E i \in DOMAIN q : q[i].callback = c /\ ~ q[i].remove
  /\ \A i \in DOMAIN q : ~ q[i].remove => q[i].callback \in clients

Listed ==
  \A l \in Lists :
    /\ Agrees(callbacks[l], connected[l])
    /\ (\E i \in DOMAIN callbacks[l] : callbacks[l][i].remove) => \E t \in Threads : Holds(t, l)

Counted ==
  \A l \in Lists : \A i \in DOMAIN callbacks[l] :
    callbacks[l][i].signaling = IF l = All /\ Calling(i) THEN 1 ELSE 0

Signalled == \A s \in Signals : signalling[s] <=> \E t \in Threads : Inside(t, s)

(* A loop that has come to entry f.i of q: who was called is before it, or *)
(* there; who is still owed the call comes after it.                       *)
Goes(f, q, clients) ==
  f.at # "lock" =>
    /\ f.i <= Len(q) + 1
    /\ Running(f) => /\ f.i \in DOMAIN q /\ f.called # <<>>
                     /\ f.called[Len(f.called)] = q[f.i].callback
                     /\ q[f.i].remove => f.left
    /\ \A m \in DOMAIN f.called :
         \E j \in DOMAIN q : /\ q[j].callback = f.called[m]
                             /\ j < f.i \/ (Running(f) /\ j = f.i)
    /\ \A c \in f.owed : \/ \E m \in DOMAIN f.called : f.called[m] = c
                         \/ \E j \in DOMAIN q : j >= f.i /\ q[j].callback = c
    /\ f.owed \subseteq clients
    /\ \A m, n \in DOMAIN f.called : f.called[m] = f.called[n] => m = n

Loops ==
  \A t \in Threads : \A k \in DOMAIN stack[t] :
    Goes(stack[t][k], callbacks[stack[t][k].list], connected[stack[t][k].list])

IInv == TypeOK /\ Nested /\ Exclusive /\ Allows /\ Listed /\ Counted /\ Signalled /\ Loops

-----------------------------------------------------------------------------
(* What the invariant says of a thread's innermost loop.                   *)

LEMMA FrameTypes ==
  ASSUME NEW f \in Frame
  PROVE  /\ f.list \in Lists /\ f.at \in {"lock", "loop", "call"} /\ f.i \in Nat \ {0}
         /\ f.moved \in BOOLEAN /\ f.owed \in SUBSET Callbacks /\ f.called \in Seq(Callbacks)
         /\ f.left \in BOOLEAN
  BY DEF Frame

LEMMA EntryTypes ==
  ASSUME NEW e \in Entry
  PROVE  e.callback \in Callbacks /\ e.signaling \in Nat /\ e.remove \in BOOLEAN
  BY DEF Entry

LEMMA StackTypes ==
  ASSUME TypeOK, NEW t \in Threads
  PROVE  /\ stack[t] \in Seq(Frame) /\ Len(stack[t]) \in Nat
         /\ DOMAIN stack[t] = 1 .. Len(stack[t])
         /\ \A k \in DOMAIN stack[t] : stack[t][k] \in Frame /\ stack[t][k].list \in Lists
         /\ Busy(t) <=> Len(stack[t]) # 0
         /\ Busy(t) => Len(stack[t]) \in DOMAIN stack[t] /\ Top(t) = stack[t][Len(stack[t])]
                       /\ Top(t) \in Frame /\ Top(t).list \in Lists
<1>1. stack[t] \in Seq(Frame)
  BY DEF TypeOK
<1>2. \A k \in DOMAIN stack[t] : stack[t][k] \in Frame
  BY <1>1
<1> QED
  BY <1>1, <1>2, FrameTypes DEF Busy, Top

LEMMA ListTypes ==
  ASSUME TypeOK, NEW l \in Lists
  PROVE  /\ callbacks[l] \in Seq(Entry) /\ Len(callbacks[l]) \in Nat
         /\ DOMAIN callbacks[l] = 1 .. Len(callbacks[l])
         /\ \A i \in DOMAIN callbacks[l] : callbacks[l][i] \in Entry
         /\ connected[l] \in SUBSET Callbacks
  BY DEF TypeOK

(* The stack of t changes at place n, its end, and nobody else's does.     *)
Puts(t, n, f) ==
  /\ stack' \in [Threads -> Seq(Frame)] /\ f \in Frame
  /\ \A u \in Threads : u # t => stack'[u] = stack[u]
  /\ n \in Nat \ {0} /\ DOMAIN stack'[t] = 1 .. n /\ Len(stack'[t]) = n
  /\ stack'[t][n] = f
  /\ \A k \in 1 .. n - 1 : k \in DOMAIN stack[t] /\ stack'[t][k] = stack[t][k]

LEMMA SetTopPuts ==
  ASSUME TypeOK, NEW t \in Threads, Busy(t), NEW f \in Frame, SetTop(t, f)
  PROVE  Puts(t, Len(stack[t]), f)
<1> DEFINE s == stack[t]
           n == Len(stack[t])
<1>1. s \in Seq(Frame) /\ n \in Nat /\ n \in DOMAIN s /\ DOMAIN s = 1 .. n
  BY StackTypes
<1>2. stack' = [stack EXCEPT ![t] = [s EXCEPT ![n] = f]]
  BY DEF SetTop
<1>3. stack \in [Threads -> Seq(Frame)]
  BY DEF TypeOK
<1>4. /\ stack'[t] = [s EXCEPT ![n] = f] /\ \A u \in Threads : u # t => stack'[u] = stack[u]
  BY <1>2, <1>3
<1> HIDE DEF s, n
<1>5. /\ [s EXCEPT ![n] = f] \in Seq(Frame) /\ Len([s EXCEPT ![n] = f]) = n
      /\ DOMAIN [s EXCEPT ![n] = f] = 1 .. n /\ [s EXCEPT ![n] = f][n] = f
      /\ \A k \in 1 .. n - 1 : k \in DOMAIN s /\ [s EXCEPT ![n] = f][k] = s[k]
  BY <1>1 DEF n
<1>6. stack' \in [Threads -> Seq(Frame)]
  BY <1>2, <1>3, <1>5 DEF s, n
<1>7. n \in Nat \ {0}
  BY <1>1
<1> QED
  BY <1>4, <1>5, <1>6, <1>7 DEF Puts, s, n

LEMMA AppendPuts ==
  ASSUME TypeOK, NEW t \in Threads, NEW f \in Frame,
         stack' = [stack EXCEPT ![t] = Append(@, f)]
  PROVE  Puts(t, Len(stack[t]) + 1, f)
<1> DEFINE s == stack[t]
           n == Len(stack[t])
<1>1. s \in Seq(Frame) /\ n \in Nat /\ DOMAIN s = 1 .. n
  BY StackTypes
<1>2. stack \in [Threads -> Seq(Frame)]
  BY DEF TypeOK
<1>3. stack'[t] = Append(s, f) /\ \A u \in Threads : u # t => stack'[u] = stack[u]
  BY <1>2
<1> HIDE DEF s, n
<1>4. /\ Append(s, f) \in Seq(Frame) /\ Len(Append(s, f)) = n + 1
      /\ DOMAIN Append(s, f) = 1 .. n + 1 /\ Append(s, f)[n + 1] = f
      /\ \A k \in 1 .. (n + 1) - 1 : k \in DOMAIN s /\ Append(s, f)[k] = s[k]
  BY <1>1 DEF n
<1>5. stack' \in [Threads -> Seq(Frame)]
  BY <1>2, <1>4 DEF s, n
<1>6. n + 1 \in Nat \ {0}
  BY <1>1
<1> QED
  BY <1>3, <1>4, <1>5, <1>6 DEF Puts, s, n

-----------------------------------------------------------------------------
(* What a step of t that changes the end of its stack leaves as it is.     *)

Fits(t, n, f) ==
  /\ \/ n = Len(stack[t])
     \/ n = Len(stack[t]) + 1 /\ (Busy(t) => Running(Top(t)) /\ Top(t).list # All)
  /\ f.at = "lock" => f.list = All /\ f.called = <<>>
  /\ ~ f.moved
  /\ f.list # All => \A j \in 1 .. n - 1 : Rank[stack[t][j].list] < Rank[f.list]

LEMMA NestedPuts ==
  ASSUME TypeOK, Nested, NEW t \in Threads, NEW n, NEW f, Puts(t, n, f), Fits(t, n, f)
  PROVE  Nested'
<1>1. n \in Nat \ {0} /\ DOMAIN stack'[t] = 1 .. n /\ Len(stack'[t]) = n /\ stack'[t][n] = f
      /\ \A k \in 1 .. n - 1 : k \in DOMAIN stack[t] /\ stack'[t][k] = stack[t][k]
  BY DEF Puts
<1>2. Len(stack[t]) \in Nat /\ DOMAIN stack[t] = 1 .. Len(stack[t])
      /\ (Len(stack[t]) # 0 => Busy(t) /\ Top(t) = stack[t][Len(stack[t])])
  BY StackTypes
<1> SUFFICES ASSUME NEW u \in Threads, NEW k \in DOMAIN stack'[u]
             PROVE  LET g == stack'[u][k]
                    IN  /\ k < Len(stack'[u]) => Running(g) /\ g.list # All
                        /\ g.at = "lock" => g.list = All /\ g.called = <<>>
                        /\ ~ g.moved
                        /\ g.list # All =>
                             \A j \in 1 .. k - 1 : Rank[stack'[u][j].list] < Rank[g.list]
  BY DEF Nested, Running, Rank, Ranks
<1>3. CASE u # t
  <2>1. stack'[u] = stack[u]
    BY <1>3 DEF Puts
  <2> QED
    BY <2>1 DEF Nested
<1>4. CASE u = t /\ k = n
  BY <1>1, <1>4 DEF Fits
<1>5. CASE u = t /\ k # n
  <2>1. k \in 1 .. n - 1 /\ stack'[t][k] = stack[t][k] /\ k \in DOMAIN stack[t]
    BY <1>1, <1>5
  <2>2. \A j \in 1 .. k - 1 : stack'[t][j] = stack[t][j]
    BY <1>1, <2>1
  <2>3. LET g == stack[t][k]
        IN  /\ k < Len(stack[t]) => Running(g) /\ g.list # All
            /\ g.at = "lock" => g.list = All /\ g.called = <<>>
            /\ ~ g.moved
            /\ g.list # All => \A j \in 1 .. k - 1 : Rank[stack[t][j].list] < Rank[g.list]
    BY <2>1 DEF Nested
  <2>4. Running(stack[t][k]) /\ stack[t][k].list # All
    <3>1. CASE k < Len(stack[t])
      BY <2>3, <3>1
    <3>2. CASE k = Len(stack[t])
      BY <1>1, <1>2, <2>1, <3>2 DEF Fits
    <3> QED
      BY <1>2, <2>1, <3>1, <3>2
  <2> QED
    BY <1>5, <2>1, <2>2, <2>3, <2>4
<1> QED
  BY <1>1, <1>3, <1>4, <1>5

(* The frames of the other threads are where they were.                    *)
Same(f, g) == g.list = f.list /\ g.at = f.at /\ g.i = f.i /\ g.called = f.called

Outside(t) ==
  \A u \in Threads : u # t =>
    /\ DOMAIN stack'[u] = DOMAIN stack[u] /\ Len(stack'[u]) = Len(stack[u])
    /\ \A k \in DOMAIN stack[u] : Same(stack[u][k], stack'[u][k])

LEMMA PutsOutside ==
  ASSUME NEW t, NEW n, NEW f, Puts(t, n, f)
  PROVE  Outside(t)
  BY DEF Puts, Outside, Same

LEMMA OthersHold ==
  ASSUME NEW t, Outside(t), NEW u \in Threads, u # t, NEW l
  PROVE  (Holds(u, l)' <=> Holds(u, l)) /\ (Inside(u, l)' <=> Inside(u, l))
<1>1. /\ DOMAIN stack'[u] = DOMAIN stack[u]
      /\ \A k \in DOMAIN stack[u] : stack'[u][k].list = stack[u][k].list
                                    /\ stack'[u][k].at = stack[u][k].at
  BY DEF Outside, Same
<1> QED
  BY <1>1 DEF Holds, Inside

LEMMA PutsHold ==
  ASSUME TypeOK, NEW t \in Threads, NEW n, NEW f, Puts(t, n, f), NEW l
  PROVE  /\ Holds(t, l)' => Holds(t, l) \/ (f.list = l /\ f.at # "lock")
         /\ Inside(t, l)' => Inside(t, l) \/ f.list = l
         /\ Inside(t, f.list)'
         /\ f.at # "lock" => Holds(t, f.list)'
<1>1. n \in Nat \ {0} /\ DOMAIN stack'[t] = 1 .. n /\ stack'[t][n] = f
      /\ \A k \in 1 .. n - 1 : k \in DOMAIN stack[t] /\ stack'[t][k] = stack[t][k]
  BY DEF Puts
<1>2. n \in 1 .. n /\ \A k \in 1 .. n : k = n \/ k \in 1 .. n - 1
  BY <1>1
<1> QED
  BY <1>1, <1>2 DEF Holds, Inside

(* Nothing is lost below the end of the stack.                             *)
LEMMA PutsKeeps ==
  ASSUME TypeOK, NEW t \in Threads, NEW n, NEW f, Puts(t, n, f), NEW l, n >= Len(stack[t]),
         n = Len(stack[t]) =>
           f.list = Top(t).list /\ (f.at = "lock" => Top(t).at = "lock")
  PROVE  (Holds(t, l) => Holds(t, l)') /\ (Inside(t, l) => Inside(t, l)')
<1>1. n \in Nat \ {0} /\ DOMAIN stack'[t] = 1 .. n /\ stack'[t][n] = f
      /\ \A k \in 1 .. n - 1 : k \in DOMAIN stack[t] /\ stack'[t][k] = stack[t][k]
  BY DEF Puts
<1>2. Len(stack[t]) \in Nat /\ DOMAIN stack[t] = 1 .. Len(stack[t])
      /\ (Len(stack[t]) # 0 => Top(t) = stack[t][Len(stack[t])])
  BY StackTypes
<1>3. \A k \in DOMAIN stack[t] : k \in 1 .. n - 1 \/ (k = n /\ n = Len(stack[t]))
  BY <1>1, <1>2
<1>4. n \in 1 .. n /\ \A k \in 1 .. n - 1 : k \in 1 .. n
  BY <1>1
<1> QED
  BY <1>1, <1>2, <1>3, <1>4 DEF Holds, Inside

LEMMA ExclusivePuts ==
  ASSUME TypeOK, Exclusive, NEW t \in Threads, NEW n, NEW f, Puts(t, n, f),
         f.at # "lock" => \A u \in Threads : u # t => ~ Holds(u, f.list)
  PROVE  Exclusive'
<1> SUFFICES ASSUME NEW u \in Threads, NEW v \in Threads, NEW l \in Lists,
                    Holds(u, l)', Holds(v, l)', u # v
             PROVE  FALSE
  BY DEF Exclusive, Holds
<1>1. \A w \in Threads : w # t => (Holds(w, l)' <=> Holds(w, l))
  BY PutsOutside, OthersHold
<1>2. Holds(t, l)' => Holds(t, l) \/ (f.list = l /\ f.at # "lock")
  BY PutsHold
<1> QED
  BY <1>1, <1>2 DEF Exclusive

(* Lists that differ only in who is being called.                          *)
Alike(q, r) ==
  /\ DOMAIN r = DOMAIN q /\ Len(r) = Len(q)
  /\ \A i \in DOMAIN q : r[i].callback = q[i].callback /\ r[i].remove = q[i].remove

LEMMA GoesAlike ==
  ASSUME NEW f, NEW q, NEW r, NEW clients, Goes(f, q, clients), Alike(q, r)
  PROVE  Goes(f, r, clients)
  BY DEF Goes, Alike

LEMMA LoopsPuts ==
  ASSUME TypeOK, Loops, NEW t \in Threads, NEW n, NEW f, Puts(t, n, f), connected' = connected,
         Goes(f, callbacks'[f.list], connected[f.list]),
         \A u \in Threads : \A k \in DOMAIN stack'[u] :
           u # t \/ k # n => Alike(callbacks[stack'[u][k].list], callbacks'[stack'[u][k].list])
  PROVE  Loops'
<1> SUFFICES ASSUME NEW u \in Threads, NEW k \in DOMAIN stack'[u]
             PROVE  Goes(stack'[u][k], callbacks'[stack'[u][k].list],
                         connected'[stack'[u][k].list])
  BY DEF Loops, Goes, Running
<1>1. CASE u = t /\ k = n
  BY <1>1 DEF Puts
<1>2. CASE u # t \/ k # n
  <2>1. k \in DOMAIN stack[u] /\ stack'[u][k] = stack[u][k]
    <3>1. CASE u # t
      BY <3>1 DEF Puts
    <3>2. CASE u = t
      <4>1. k \in 1 .. n - 1
        BY <1>2, <3>2 DEF Puts
      <4> QED
        BY <3>2, <4>1 DEF Puts
    <3> QED
      BY <3>1, <3>2
  <2>2. Goes(stack[u][k], callbacks[stack[u][k].list], connected[stack[u][k].list])
    BY <2>1 DEF Loops
  <2>3. Alike(callbacks[stack[u][k].list], callbacks'[stack[u][k].list])
    BY <1>2, <2>1
  <2> QED
    BY <2>1, <2>2, <2>3, GoesAlike
<1> QED
  BY <1>1, <1>2

LEMMA AllowsStep ==
  ASSUME TypeOK, Allows, NEW t \in Threads, Outside(t), wants'[t] = Nothing,
         \A u \in Threads : u # t => wants'[u] = wants[u],
         \A u \in Threads, l \in Lists :
           u # t /\ l # All /\ Inside(u, l) => Alike(callbacks[l], callbacks'[l])
  PROVE  Allows'
<1> SUFFICES ASSUME NEW u \in Threads
             PROVE  Allowed(u, wants[u])'
  BY DEF Allows
<1>1. CASE u = t
  BY <1>1 DEF Allowed, Nothing
<1>2. CASE u # t
  <2> DEFINE w == wants[u]
  <2>1. wants'[u] = w /\ w \in Want /\ Allowed(u, w)
    BY <1>2 DEF Allows, TypeOK
  <2>2. \A l : Inside(u, l)' <=> Inside(u, l)
    BY <1>2, OthersHold
  <2>3. /\ Busy(u)' <=> Busy(u)
        /\ Busy(u) => Top(u)'.list = Top(u).list /\ (Running(Top(u))' <=> Running(Top(u)))
    <3>1. /\ DOMAIN stack'[u] = DOMAIN stack[u] /\ Len(stack'[u]) = Len(stack[u])
          /\ \A k \in DOMAIN stack[u] : Same(stack[u][k], stack'[u][k])
      BY <1>2 DEF Outside
    <3>2. Busy(u) <=> DOMAIN stack[u] # {}
      BY StackTypes
    <3>3. Busy(u)' <=> Busy(u)
      BY <3>1, <3>2, StackTypes DEF Busy
    <3>4. Busy(u) => Len(stack[u]) \in DOMAIN stack[u]
      BY StackTypes
    <3> QED
      BY <3>1, <3>3, <3>4 DEF Top, Running, Same
  <2>4. CASE w = Nothing
    BY <2>1, <2>4 DEF Allowed
  <2>5. CASE w.call = "signal" /\ w # Nothing
    BY <2>1, <2>3, <2>5 DEF Allowed
  <2>6. CASE w.call # "signal" /\ w # Nothing
    <3>1. w.list \in Lists
      BY <2>1, <2>6 DEF Want
    <3>2. Inside(u, w.list) => Alike(callbacks[w.list], callbacks'[w.list])
      BY <1>2, <2>1, <2>6, <3>1 DEF Allowed
    <3>3. w.call = "connect" /\ Inside(u, w.list) =>
            \A i \in DOMAIN callbacks'[w.list] :
              callbacks'[w.list][i].callback = w.callback => ~ callbacks'[w.list][i].remove
      BY <2>1, <2>6, <3>2 DEF Allowed, Alike
    <3> QED
      BY <2>1, <2>2, <2>3, <2>6, <3>3 DEF Allowed
  <2> QED
    BY <2>4, <2>5, <2>6
<1> QED
  BY <1>1, <1>2


LEMMA WantTypes ==
  ASSUME TypeOK, NEW t \in Threads
  PROVE  LET w == wants[t]
         IN  /\ w # Nothing => w.list \in Lists
             /\ w.call = "signal" => w # Nothing /\ w.list \in Signals
             /\ w.call \in {"connect", "disconnect"} =>
                  w # Nothing /\ w.list \in Lists /\ w.callback \in Callbacks
<1>1. wants[t] \in Want
  BY DEF TypeOK
<1> QED
  BY <1>1 DEF Want, Nothing, Lists

(* While t may lock a list, nobody else goes through it.                   *)
LEMMA Alone ==
  ASSUME NEW t, NEW l, Lockable(t, l), NEW u \in Threads, u # t
  PROVE  ~ Holds(u, l)
  BY DEF Lockable, Holds

LEMMA InsideHolds ==
  ASSUME Nested, NEW u \in Threads, NEW l, l # All, Inside(u, l)
  PROVE  Holds(u, l)
<1>1. PICK k \in DOMAIN stack[u] : stack[u][k].list = l
  BY DEF Inside
<1>2. stack[u][k].at # "lock"
  BY <1>1 DEF Nested
<1> QED
  BY <1>1, <1>2 DEF Holds

LEMMA TopHolds ==
  ASSUME TypeOK, NEW t \in Threads, Busy(t)
  PROVE  /\ Inside(t, Top(t).list)
         /\ Top(t).at # "lock" => Holds(t, Top(t).list)
  BY StackTypes DEF Inside, Holds

(* Nothing but the innermost loop goes through the global callbacks.       *)
LEMMA GlobalTop ==
  ASSUME TypeOK, Nested, NEW u \in Threads, NEW k \in DOMAIN stack[u], stack[u][k].list = All
  PROVE  Busy(u) /\ k = Len(stack[u]) /\ Top(u) = stack[u][k]
<1>1. ~ (k < Len(stack[u]))
  BY DEF Nested
<1>2. k \in 1 .. Len(stack[u]) /\ Len(stack[u]) \in Nat
  BY StackTypes
<1> QED
  BY <1>1, <1>2, StackTypes

(* The global callback that is being called is that of the only thread     *)
(* that goes through them.                                                 *)
LEMMA CallingAlone ==
  ASSUME TypeOK, Nested, Exclusive, NEW t \in Threads, Busy(t),
         Top(t).list = All, Top(t).at # "lock", NEW i
  PROVE  Calling(i) <=> Running(Top(t)) /\ Top(t).i = i
<1>1. ASSUME Calling(i) PROVE Running(Top(t)) /\ Top(t).i = i
  <2>1. PICK u \in Threads : \E k \in DOMAIN stack[u] :
               stack[u][k].list = All /\ Running(stack[u][k]) /\ stack[u][k].i = i
    BY <1>1 DEF Calling
  <2>2. PICK k \in DOMAIN stack[u] :
               stack[u][k].list = All /\ Running(stack[u][k]) /\ stack[u][k].i = i
    BY <2>1
  <2>3. Holds(u, All)
    BY <2>2 DEF Holds, Running
  <2>4. u = t
    BY <2>3, TopHolds DEF Exclusive, Lists
  <2>5. Top(t) = stack[u][k]
    BY <2>2, <2>4, GlobalTop
  <2> QED
    BY <2>2, <2>5
<1>2. ASSUME Running(Top(t)), Top(t).i = i PROVE Calling(i)
  BY <1>2, StackTypes DEF Calling
<1> QED
  BY <1>1, <1>2

LEMMA NotCalling ==
  ASSUME NEW i, \A u \in Threads : ~ Holds(u, All)
  PROVE  ~ Calling(i)
  BY DEF Calling, Holds, Running

(* A list that nobody goes through has no marks and no counts.             *)
LEMMA AtRest ==
  ASSUME Listed, Counted, NEW l \in Lists, \A u \in Threads : ~ Holds(u, l),
         NEW i \in DOMAIN callbacks[l]
  PROVE  ~ callbacks[l][i].remove /\ callbacks[l][i].signaling = 0
<1>1. ~ callbacks[l][i].remove
  BY DEF Listed
<1>2. callbacks[l][i].signaling = IF l = All /\ Calling(i) THEN 1 ELSE 0
  BY DEF Counted
<1>3. ~ (l = All /\ Calling(i))
  BY NotCalling
<1> QED
  BY <1>1, <1>2, <1>3

(* What the clients look for is found by its callback alone.               *)
LEMMA FoundIs ==
  ASSUME TypeOK, Nested, Listed, Counted, NEW t \in Threads, NEW l \in Lists, Lockable(t, l),
         ~ (Inside(t, All) /\ l = All), NEW c, NEW i
  PROVE  i \in Found(l, c) <=> i \in DOMAIN callbacks[l] /\ callbacks[l][i].callback = c
<1>1. CASE l # All
  BY <1>1 DEF Found
<1>2. CASE l = All
  <2>1. \A u \in Threads : ~ Holds(u, l)
    BY <1>2, Alone DEF Holds, Inside
  <2>2. ASSUME i \in DOMAIN callbacks[l]
        PROVE  callbacks[l][i] = Fresh(c) <=> callbacks[l][i].callback = c
    <3>1. ~ callbacks[l][i].remove /\ callbacks[l][i].signaling = 0
      BY <2>1, <2>2, AtRest
    <3>2. callbacks[l][i] \in Entry
      BY <2>2, ListTypes
    <3> DEFINE e == callbacks[l][i]
    <3>3. e = [callback |-> e.callback, signaling |-> e.signaling, remove |-> e.remove]
      BY <3>2 DEF Entry
    <3>4. e.remove = FALSE /\ e.signaling = 0
      BY <3>1, <3>2, EntryTypes
    <3> HIDE DEF e
    <3>5. e = [callback |-> e.callback, signaling |-> 0, remove |-> FALSE]
      BY <3>3, <3>4
    <3>6. Fresh(c) = [callback |-> c, signaling |-> 0, remove |-> FALSE] /\ Fresh(c).callback = c
      BY DEF Fresh
    <3>7. e = Fresh(c) => e.callback = c
      BY <3>6
    <3>8. e.callback = c => e = Fresh(c)
      BY <3>5, <3>6
    <3> QED
      BY <3>7, <3>8 DEF e
  <2> QED
    BY <1>2, <2>2 DEF Found
<1> QED
  BY <1>1, <1>2

-----------------------------------------------------------------------------
(* How a loop goes on.                                                     *)

LEMMA GoesStart ==
  ASSUME TypeOK, NEW l \in Lists, NEW q \in Seq(Entry), Agrees(q, connected[l])
  PROVE  Loop(l) \in Frame /\ Goes(Loop(l), q, connected[l])
<1> DEFINE f == Loop(l)
<1>1. /\ f.list = l /\ f.at = "loop" /\ f.i = 1 /\ f.owed = connected[l] /\ f.called = <<>>
      /\ f.moved = FALSE /\ f.left = FALSE
  BY DEF Loop
<1>2. f \in Frame
  <2>1. connected[l] \in SUBSET Callbacks /\ <<>> \in Seq(Callbacks)
    BY ListTypes
  <2> QED
    BY <2>1 DEF Loop, Frame
<1>3. Len(q) \in Nat /\ DOMAIN q = 1 .. Len(q) /\ DOMAIN <<>> = {}
  OBVIOUS
<1>4. \A c \in connected[l] : \E j \in DOMAIN q : j >= 1 /\ q[j].callback = c
  BY <1>3 DEF Agrees
<1> HIDE DEF f
<1>5. Goes(f, q, connected[l])
  BY <1>1, <1>3, <1>4 DEF Goes, Running
<1> QED
  BY <1>2, <1>5 DEF f

LEMMA GoesSkip ==
  ASSUME NEW f \in Frame, NEW q \in Seq(Entry), NEW clients, Agrees(q, clients),
         Goes(f, q, clients), f.at = "loop", f.i \in DOMAIN q, q[f.i].remove
  PROVE  LET g == [f EXCEPT !.i = @ + 1]
         IN  g \in Frame /\ Goes(g, q, clients)
<1> DEFINE g == [f EXCEPT !.i = @ + 1]
<1>1. /\ g.list = f.list /\ g.at = f.at /\ g.i = f.i + 1 /\ g.owed = f.owed /\ g.called = f.called
      /\ g.moved = f.moved /\ g.left = f.left
  BY DEF Frame
<1>2. g \in Frame
  <2>1. f.i + 1 \in Nat \ {0}
    BY FrameTypes
  <2> QED
    BY <2>1 DEF Frame
<1>3. Len(q) \in Nat /\ DOMAIN q = 1 .. Len(q) /\ f.i \in Nat /\ f.i <= Len(q)
  BY FrameTypes
<1> HIDE DEF g
<1>4. /\ \A m \in DOMAIN f.called : \E j \in DOMAIN q : q[j].callback = f.called[m] /\ j < f.i
      /\ \A c \in f.owed : \/ \E m \in DOMAIN f.called : f.called[m] = c
                           \/ \E j \in DOMAIN q : j >= f.i /\ q[j].callback = c
      /\ f.owed \subseteq clients
      /\ \A m, n \in DOMAIN f.called : f.called[m] = f.called[n] => m = n
  BY DEF Goes, Running
<1>5. \A m \in DOMAIN g.called : \E j \in DOMAIN q : q[j].callback = g.called[m] /\ j < g.i
  BY <1>1, <1>3, <1>4
<1>6. ASSUME NEW c \in f.owed
      PROVE  \/ \E m \in DOMAIN f.called : f.called[m] = c
             \/ \E j \in DOMAIN q : j >= f.i + 1 /\ q[j].callback = c
  <2>1. CASE \E m \in DOMAIN f.called : f.called[m] = c
    BY <2>1
  <2>2. CASE \E j \in DOMAIN q : j >= f.i /\ q[j].callback = c
    <3>1. PICK j \in DOMAIN q : j >= f.i /\ q[j].callback = c
      BY <2>2
    <3>2. PICK k \in DOMAIN q : q[k].callback = c /\ ~ q[k].remove
      BY <1>4 DEF Agrees
    <3>3. k = j
      BY <3>1, <3>2 DEF Agrees, Distinct
    <3>4. j # f.i
      BY <3>2, <3>3
    <3>5. j >= f.i + 1
      BY <1>3, <3>1, <3>4
    <3> QED
      BY <3>1, <3>5
  <2> QED
    BY <1>4, <2>1, <2>2
<1>7. Goes(g, q, clients)
  BY <1>1, <1>3, <1>4, <1>5, <1>6 DEF Goes, Running
<1> QED
  BY <1>2, <1>7 DEF g

LEMMA GoesCall ==
  ASSUME NEW f \in Frame, NEW q \in Seq(Entry), NEW clients, Agrees(q, clients),
         Goes(f, q, clients), f.at = "loop", f.i \in DOMAIN q, ~ q[f.i].remove
  PROVE  LET g == [f EXCEPT !.at = "call", !.moved = FALSE, !.left = FALSE,
                            !.called = Append(@, q[f.i].callback)]
         IN  g \in Frame /\ Goes(g, q, clients)
<1> DEFINE a == q[f.i].callback
           g == [f EXCEPT !.at = "call", !.moved = FALSE, !.left = FALSE, !.called = Append(@, a)]
<1>1. /\ g.list = f.list /\ g.at = "call" /\ g.i = f.i /\ g.owed = f.owed
      /\ g.called = Append(f.called, a) /\ g.moved = FALSE /\ g.left = FALSE
  BY DEF Frame
<1>2. a \in Callbacks
  BY EntryTypes
<1>3. g \in Frame
  <2>1. Append(f.called, a) \in Seq(Callbacks)
    BY <1>2, FrameTypes
  <2> HIDE DEF a
  <2> QED
    BY <2>1 DEF Frame
<1>4. Len(q) \in Nat /\ DOMAIN q = 1 .. Len(q) /\ f.i \in Nat /\ f.i <= Len(q)
      /\ f.called \in Seq(Callbacks)
  BY FrameTypes
<1> HIDE DEF g
<1> DEFINE n == Len(f.called)
<1>5. /\ n \in Nat /\ DOMAIN f.called = 1 .. n /\ DOMAIN g.called = 1 .. n + 1
      /\ Len(g.called) = n + 1 /\ g.called[n + 1] = a /\ g.called # <<>>
      /\ \A m \in 1 .. n : g.called[m] = f.called[m]
      /\ \A m \in 1 .. n + 1 : m \in 1 .. n \/ m = n + 1
  <2> DEFINE s == f.called
             t == Append(s, a)
  <2> HIDE DEF a
  <2>1. s \in Seq(Callbacks) /\ n = Len(s) /\ n \in Nat /\ DOMAIN s = 1 .. n
    BY <1>4
  <2> HIDE DEF n, s
  <2>2. /\ DOMAIN t = 1 .. n + 1 /\ Len(t) = n + 1 /\ t[n + 1] = a
        /\ \A m \in 1 .. n : t[m] = s[m]
    BY <1>2, <2>1
  <2>3. g.called = t
    BY <1>1 DEF s
  <2>4. t # <<>> /\ \A m \in 1 .. n + 1 : m \in 1 .. n \/ m = n + 1
    BY <2>1, <2>2
  <2> HIDE DEF t
  <2> QED
    BY <2>1, <2>2, <2>3, <2>4 DEF s
<1> HIDE DEF n
<1>6. /\ \A m \in DOMAIN f.called : \E j \in DOMAIN q : q[j].callback = f.called[m] /\ j < f.i
      /\ \A c \in f.owed : \/ \E m \in DOMAIN f.called : f.called[m] = c
                           \/ \E j \in DOMAIN q : j >= f.i /\ q[j].callback = c
      /\ f.owed \subseteq clients
      /\ \A l, m \in DOMAIN f.called : f.called[l] = f.called[m] => l = m
  BY DEF Goes, Running
<1>7. \A m \in 1 .. n : f.called[m] # a
  <2> TAKE m \in 1 .. n
  <2>1. PICK j \in DOMAIN q : q[j].callback = f.called[m] /\ j < f.i
    BY <1>5, <1>6
  <2>2. j # f.i
    BY <1>4, <2>1
  <2> QED
    BY <2>1, <2>2 DEF Agrees, Distinct
<1>8. ASSUME NEW m \in 1 .. n + 1
      PROVE  \E j \in DOMAIN q : q[j].callback = g.called[m] /\ (j < g.i \/ (Running(g) /\ j = g.i))
  <2>1. CASE m = n + 1
    BY <1>1, <1>5, <2>1 DEF Running
  <2>2. CASE m \in 1 .. n
    BY <1>1, <1>5, <1>6, <2>2
  <2> QED
    BY <1>5, <2>1, <2>2
<1>9. ASSUME NEW c \in f.owed
      PROVE  \/ \E m \in DOMAIN g.called : g.called[m] = c
             \/ \E j \in DOMAIN q : j >= g.i /\ q[j].callback = c
  <2>1. CASE \E m \in DOMAIN f.called : f.called[m] = c
    <3>1. PICK m \in 1 .. n : f.called[m] = c
      BY <1>5, <2>1
    <3>2. m \in 1 .. n + 1 /\ g.called[m] = c
      BY <1>5, <3>1
    <3> QED
      BY <1>5, <3>2
  <2>2. CASE \E j \in DOMAIN q : j >= f.i /\ q[j].callback = c
    <3>1. PICK j \in DOMAIN q : j >= f.i /\ q[j].callback = c
      BY <2>2
    <3>2. j >= g.i
      BY <1>1, <3>1
    <3> QED
      BY <3>1, <3>2
  <2> QED
    BY <1>6, <2>1, <2>2
<1>10. ASSUME NEW l \in 1 .. n + 1, NEW m \in 1 .. n + 1, g.called[l] = g.called[m] PROVE l = m
  <2>1. CASE l \in 1 .. n /\ m \in 1 .. n
    <3>1. f.called[l] = f.called[m]
      BY <1>5, <1>10, <2>1
    <3> QED
      BY <1>5, <1>6, <2>1, <3>1
  <2>2. CASE l = n + 1 \/ m = n + 1
    BY <1>5, <1>7, <1>10, <2>2
  <2> QED
    BY <1>5, <2>1, <2>2
<1>11. Goes(g, q, clients)
  <2>1. g.i <= Len(q) + 1 /\ g.i \in DOMAIN q /\ g.called[Len(g.called)] = q[g.i].callback
        /\ ~ q[g.i].remove
    BY <1>1, <1>4, <1>5
  <2> QED
    BY <1>1, <1>5, <1>6, <1>8, <1>9, <1>10, <2>1 DEF Goes, Running
<1> QED
  BY <1>3, <1>11 DEF g

LEMMA GoesReturn ==
  ASSUME NEW f \in Frame, NEW q \in Seq(Entry), NEW clients, Goes(f, q, clients), f.at = "call"
  PROVE  LET g == [f EXCEPT !.at = "loop", !.i = @ + 1]
         IN  g \in Frame /\ Goes(g, q, clients)
<1> DEFINE g == [f EXCEPT !.at = "loop", !.i = @ + 1]
<1>1. /\ g.list = f.list /\ g.at = "loop" /\ g.i = f.i + 1 /\ g.owed = f.owed
      /\ g.called = f.called /\ g.moved = f.moved /\ g.left = f.left
  BY DEF Frame
<1>2. g \in Frame
  <2>1. f.i + 1 \in Nat \ {0}
    BY FrameTypes
  <2> QED
    BY <2>1 DEF Frame
<1> HIDE DEF g
<1>3. /\ f.i \in DOMAIN q /\ f.called # <<>> /\ f.called[Len(f.called)] = q[f.i].callback
      /\ \A m \in DOMAIN f.called :
           \E j \in DOMAIN q : q[j].callback = f.called[m] /\ (j < f.i \/ j = f.i)
      /\ \A c \in f.owed : \/ \E m \in DOMAIN f.called : f.called[m] = c
                           \/ \E j \in DOMAIN q : j >= f.i /\ q[j].callback = c
      /\ f.owed \subseteq clients
      /\ \A m, n \in DOMAIN f.called : f.called[m] = f.called[n] => m = n
  BY DEF Goes, Running
<1>4. Len(q) \in Nat /\ DOMAIN q = 1 .. Len(q) /\ f.i \in Nat /\ f.i <= Len(q)
      /\ f.called \in Seq(Callbacks)
  BY <1>3, FrameTypes
<1>5. Len(f.called) \in DOMAIN f.called
  BY <1>3, <1>4
<1>6. ASSUME NEW c \in f.owed
      PROVE  \/ \E m \in DOMAIN f.called : f.called[m] = c
             \/ \E j \in DOMAIN q : j >= f.i + 1 /\ q[j].callback = c
  <2>1. CASE \E m \in DOMAIN f.called : f.called[m] = c
    BY <2>1
  <2>2. CASE \E j \in DOMAIN q : j >= f.i /\ q[j].callback = c
    <3>1. PICK j \in DOMAIN q : j >= f.i /\ q[j].callback = c
      BY <2>2
    <3>2. CASE j = f.i
      BY <1>3, <1>5, <3>1, <3>2
    <3>3. CASE j # f.i
      BY <1>4, <3>1, <3>3
    <3> QED
      BY <3>2, <3>3
  <2> QED
    BY <1>3, <2>1, <2>2
<1>7. \A m \in DOMAIN f.called : \E j \in DOMAIN q : q[j].callback = f.called[m] /\ j < f.i + 1
  BY <1>3, <1>4
<1>8. g.i <= Len(q) + 1
  BY <1>1, <1>4
<1>9. Goes(g, q, clients)
  BY <1>1, <1>3, <1>6, <1>7, <1>8 DEF Goes, Running
<1> QED
  BY <1>2, <1>9 DEF g

-----------------------------------------------------------------------------
(* Steps that go on with the innermost loop of t.                          *)

LEMMA AgreesAlike ==
  ASSUME NEW q, NEW r, NEW clients, Agrees(q, clients), Alike(q, r)
  PROVE  Agrees(r, clients)
  BY DEF Agrees, Alike, Distinct

LEMMA CallingSame ==
  ASSUME TypeOK, NEW t \in Threads, NEW n, NEW f, Puts(t, n, f), n >= Len(stack[t]),
         ~ (f.list = All /\ Running(f)),
         n = Len(stack[t]) => ~ (Top(t).list = All /\ Running(Top(t))), NEW i
  PROVE  Calling(i)' <=> Calling(i)
<1>1. /\ n \in Nat \ {0} /\ DOMAIN stack'[t] = 1 .. n /\ stack'[t][n] = f
      /\ \A k \in 1 .. n - 1 : k \in DOMAIN stack[t] /\ stack'[t][k] = stack[t][k]
      /\ \A u \in Threads : u # t => stack'[u] = stack[u]
  BY DEF Puts
<1>2. /\ Len(stack[t]) \in Nat /\ DOMAIN stack[t] = 1 .. Len(stack[t])
      /\ (Len(stack[t]) # 0 => Top(t) = stack[t][Len(stack[t])])
  BY StackTypes
<1>3. /\ \A k \in DOMAIN stack[t] : k \in 1 .. n - 1 \/ (k = n /\ n = Len(stack[t]))
      /\ \A k \in 1 .. n : k = n \/ k \in 1 .. n - 1
      /\ \A k \in 1 .. n - 1 : k \in 1 .. n
  BY <1>1, <1>2
<1>4. ASSUME Calling(i)' PROVE Calling(i)
  <2>0. PICK u \in Threads : \E k \in DOMAIN stack'[u] :
          stack'[u][k].list = All /\ stack'[u][k].at = "call" /\ stack'[u][k].i = i
    BY <1>4 DEF Calling, Running
  <2>1. PICK k \in DOMAIN stack'[u] :
          stack'[u][k].list = All /\ stack'[u][k].at = "call" /\ stack'[u][k].i = i
    BY <2>0
  <2>2. k \in DOMAIN stack[u] /\ stack'[u][k] = stack[u][k]
    BY <1>1, <1>3, <2>1 DEF Running
  <2> QED
    BY <2>1, <2>2 DEF Calling, Running
<1>5. ASSUME Calling(i) PROVE Calling(i)'
  <2>0. PICK u \in Threads : \E k \in DOMAIN stack[u] :
          stack[u][k].list = All /\ stack[u][k].at = "call" /\ stack[u][k].i = i
    BY <1>5 DEF Calling, Running
  <2>1. PICK k \in DOMAIN stack[u] :
          stack[u][k].list = All /\ stack[u][k].at = "call" /\ stack[u][k].i = i
    BY <2>0
  <2>2. k \in DOMAIN stack'[u] /\ stack'[u][k] = stack[u][k]
    BY <1>1, <1>2, <1>3, <2>1 DEF Running
  <2> QED
    BY <2>1, <2>2 DEF Calling, Running
<1> QED
  BY <1>4, <1>5

LEMMA CallingPut ==
  ASSUME TypeOK, Nested, Exclusive, NEW t \in Threads, Busy(t), NEW f,
         Puts(t, Len(stack[t]), f), Top(t).list = All, Top(t).at # "lock", f.list = All, NEW i
  PROVE  Calling(i)' <=> Running(f) /\ f.i = i
<1> DEFINE n == Len(stack[t])
<1>1. /\ n \in Nat \ {0} /\ DOMAIN stack'[t] = 1 .. n /\ stack'[t][n] = f
      /\ \A k \in 1 .. n - 1 : k \in DOMAIN stack[t] /\ stack'[t][k] = stack[t][k]
      /\ \A u \in Threads : u # t => stack'[u] = stack[u]
  BY DEF Puts
<1>2. n \in Nat /\ DOMAIN stack[t] = 1 .. n
  BY StackTypes
<1> HIDE DEF n
<1>3. /\ \A k \in 1 .. n : k = n \/ k \in 1 .. n - 1
      /\ n \in 1 .. n
  BY <1>1
<1>4. \A k \in 1 .. n - 1 : stack[t][k].list # All
  <2> TAKE k \in 1 .. n - 1
  <2>1. k \in DOMAIN stack[t] /\ k # n
    BY <1>1, <1>2
  <2> QED
    BY <2>1, GlobalTop DEF n
<1>5. \A u \in Threads : u # t => ~ Holds(u, All)
  BY TopHolds DEF Exclusive, Lists
<1>6. ASSUME Calling(i)' PROVE Running(f) /\ f.i = i
  <2>0. PICK u \in Threads : \E k \in DOMAIN stack'[u] :
          stack'[u][k].list = All /\ stack'[u][k].at = "call" /\ stack'[u][k].i = i
    BY <1>6 DEF Calling, Running
  <2>1. PICK k \in DOMAIN stack'[u] :
          stack'[u][k].list = All /\ stack'[u][k].at = "call" /\ stack'[u][k].i = i
    BY <2>0
  <2>2. u = t
    BY <1>1, <1>5, <2>1 DEF Holds
  <2>3. k = n
    BY <1>1, <1>3, <1>4, <2>1, <2>2
  <2> QED
    BY <1>1, <2>1, <2>2, <2>3 DEF Running
<1>7. ASSUME Running(f), f.i = i PROVE Calling(i)'
  BY <1>1, <1>3, <1>7 DEF Calling, Running
<1> QED
  BY <1>6, <1>7

LEMMA CountedSame ==
  ASSUME Counted, callbacks' = callbacks, \A i : Calling(i)' <=> Calling(i)
  PROVE  Counted'
<1>1. \A i : Calling(i)' = Calling(i)
  BY DEF Calling
<1> QED
  BY <1>1 DEF Counted

(* All that the step of t can disturb, but for the counts.                 *)
LEMMA TurnStep ==
  ASSUME TypeOK, Nested, Exclusive, Allows, Listed, Signalled, Loops,
         NEW t \in Threads, Busy(t), NEW f \in Frame, SetTop(t, f),
         f.list = Top(t).list, f.at # "lock", ~ f.moved, wants[t] = Nothing,
         \A u \in Threads : u # t => ~ Holds(u, f.list),
         UNCHANGED <<signalling, wants, connected, sent, edits>>,
         callbacks' \in [Lists -> Seq(Entry)],
         \A l \in Lists : Alike(callbacks[l], callbacks'[l]),
         Goes(f, callbacks[f.list], connected[f.list])
  PROVE  TypeOK' /\ Nested' /\ Exclusive' /\ Allows' /\ Listed' /\ Signalled' /\ Loops'
<1> DEFINE n == Len(stack[t])
<1>1. Puts(t, n, f)
  BY SetTopPuts
<1>2. Top(t) = stack[t][n] /\ n \in DOMAIN stack[t] /\ n \in Nat
  BY StackTypes
<1> HIDE DEF n
<1>3. f.list \in Lists
  BY FrameTypes
<1>4. TypeOK'
  BY <1>1 DEF TypeOK, Puts
<1>5. Nested'
  <2>1. Fits(t, n, f)
    <3>1. f.list # All => \A j \in 1 .. n - 1 : Rank[stack[t][j].list] < Rank[f.list]
      BY <1>2 DEF Nested
    <3> QED
      BY <3>1 DEF Fits, n
  <2> QED
    BY <1>1, <2>1, NestedPuts
<1>6. Exclusive'
  BY <1>1, ExclusivePuts
<1>7. Outside(t)
  BY <1>1, PutsOutside
<1>8. Allows'
  BY <1>7, AllowsStep
<1>9. \A l \in Lists : /\ Holds(t, l) => Holds(t, l)'
                       /\ Inside(t, l) <=> Inside(t, l)'
  <2> TAKE l \in Lists
  <2>1. n >= Len(stack[t]) /\ n = Len(stack[t])
    BY <1>2 DEF n
  <2>2. (Holds(t, l) => Holds(t, l)') /\ (Inside(t, l) => Inside(t, l)')
    BY <1>1, <2>1, PutsKeeps
  <2>3. Inside(t, l)' => Inside(t, l) \/ f.list = l
    BY <1>1, PutsHold
  <2>4. Inside(t, f.list)
    BY TopHolds
  <2> QED
    BY <2>2, <2>3, <2>4
<1>10. \A u \in Threads, l \in Lists :
         (Holds(u, l) => Holds(u, l)') /\ (Inside(u, l) <=> Inside(u, l)')
  <2> TAKE u \in Threads, l \in Lists
  <2>1. CASE u = t
    BY <1>9, <2>1
  <2>2. CASE u # t
    BY <1>7, <2>2, OthersHold
  <2> QED
    BY <2>1, <2>2
<1>11. Listed'
  <2> SUFFICES ASSUME NEW l \in Lists
               PROVE  /\ Agrees(callbacks'[l], connected'[l])
                      /\ (\E i \in DOMAIN callbacks'[l] : callbacks'[l][i].remove) =>
                           \E u \in Threads : Holds(u, l)'
    BY DEF Listed, Holds, Agrees
  <2>1. Alike(callbacks[l], callbacks'[l])
    OBVIOUS
  <2>2. Agrees(callbacks[l], connected[l])
    BY DEF Listed
  <2>3. Agrees(callbacks'[l], connected'[l])
    BY <2>1, <2>2, AgreesAlike
  <2>4. ASSUME \E i \in DOMAIN callbacks'[l] : callbacks'[l][i].remove
        PROVE  \E u \in Threads : Holds(u, l)'
    <3>1. \E i \in DOMAIN callbacks[l] : callbacks[l][i].remove
      BY <2>1, <2>4 DEF Alike
    <3>2. PICK u \in Threads : Holds(u, l)
      BY <3>1 DEF Listed
    <3> QED
      BY <1>10, <3>2
  <2> QED
    BY <2>3, <2>4
<1>12. Signalled'
  <2>1. \A s \in Signals : s \in Lists
    BY DEF Lists
  <2> QED
    BY <1>10, <2>1 DEF Signalled
<1>13. Loops'
  <2>1. Goes(f, callbacks'[f.list], connected[f.list])
    BY <1>3, GoesAlike
  <2>2. \A u \in Threads : \A k \in DOMAIN stack'[u] : stack'[u][k].list \in Lists
    <3> TAKE u \in Threads
    <3> TAKE k \in DOMAIN stack'[u]
    <3>1. stack'[u] \in Seq(Frame)
      BY <1>4 DEF TypeOK
    <3>2. stack'[u][k] \in Frame
      BY <3>1
    <3> QED
      BY <3>2, FrameTypes
  <2> QED
    BY <1>1, <2>1, <2>2, LoopsPuts
<1> QED
  BY <1>4, <1>5, <1>6, <1>8, <1>11, <1>12, <1>13

LEMMA Innermost ==
  ASSUME IInv, NEW t \in Threads, Busy(t)
  PROVE  LET f == Top(t)
             q == callbacks[f.list]
         IN  /\ f \in Frame /\ f.list \in Lists /\ f.i \in Nat \ {0} /\ ~ f.moved
             /\ q \in Seq(Entry) /\ Len(q) \in Nat /\ DOMAIN q = 1 .. Len(q)
             /\ Agrees(q, connected[f.list])
             /\ Goes(f, q, connected[f.list])
             /\ f.at # "lock" => \A u \in Threads : u # t => ~ Holds(u, f.list)
             /\ f.at # "call" => wants[t] = Nothing
<1>1. TypeOK /\ Nested /\ Exclusive /\ Allows /\ Listed /\ Loops
  BY DEF IInv
<1> DEFINE n == Len(stack[t])
<1>2. Top(t) = stack[t][n] /\ n \in DOMAIN stack[t] /\ Top(t) \in Frame /\ Top(t).list \in Lists
  BY <1>1, StackTypes
<1> HIDE DEF n
<1>3. Top(t).i \in Nat \ {0} /\ ~ Top(t).moved
  BY <1>1, <1>2, FrameTypes DEF Nested
<1>4. Agrees(callbacks[Top(t).list], connected[Top(t).list])
  BY <1>1, <1>2 DEF Listed
<1>5. Goes(Top(t), callbacks[Top(t).list], connected[Top(t).list])
  BY <1>1, <1>2 DEF Loops
<1>6. Top(t).at # "lock" => \A u \in Threads : u # t => ~ Holds(u, Top(t).list)
  BY <1>1, <1>2, TopHolds DEF Exclusive
<1>7. Top(t).at # "call" => wants[t] = Nothing
  BY <1>1 DEF Allows, Allowed, Running
<1> QED
  BY <1>1, <1>2, <1>3, <1>4, <1>5, <1>6, <1>7, ListTypes

LEMMA AlikeItself == ASSUME NEW q PROVE Alike(q, q)
  BY DEF Alike

LEMMA SkipStep ==
  ASSUME IInv, NEW t \in Threads, Skip(t)
  PROVE  IInv'
<1> DEFINE f == Top(t)
           q == callbacks[f.list]
           g == [f EXCEPT !.i = @ + 1]
<1>1. TypeOK /\ Nested /\ Exclusive /\ Allows /\ Listed /\ Counted /\ Signalled /\ Loops
  BY DEF IInv
<1>2. /\ Busy(t) /\ f.at = "loop" /\ ~ (f.i > Len(q)) /\ q[f.i].remove /\ SetTop(t, g)
      /\ callbacks' = callbacks
      /\ UNCHANGED <<signalling, wants, connected, sent, edits>>
  BY DEF Skip, InLoop, AtEnd, Here
<1>3. /\ f \in Frame /\ f.list \in Lists /\ f.i \in Nat \ {0} /\ ~ f.moved
      /\ q \in Seq(Entry) /\ Len(q) \in Nat /\ DOMAIN q = 1 .. Len(q)
      /\ Agrees(q, connected[f.list]) /\ Goes(f, q, connected[f.list])
      /\ \A u \in Threads : u # t => ~ Holds(u, f.list)
      /\ wants[t] = Nothing
  BY <1>2, Innermost
<1>4. f.i \in DOMAIN q
  BY <1>2, <1>3
<1>5. g \in Frame /\ Goes(g, q, connected[f.list])
  <2> HIDE DEF f, q
  <2> QED
    BY <1>2, <1>3, <1>4, GoesSkip
<1>6. g.list = f.list /\ g.at = "loop" /\ g.moved = f.moved
  <2> HIDE DEF f
  <2> QED
    BY <1>2, <1>3 DEF Frame
<1>7. callbacks' \in [Lists -> Seq(Entry)] /\ \A l \in Lists : Alike(callbacks[l], callbacks'[l])
  BY <1>1, <1>2, AlikeItself DEF TypeOK
<1> HIDE DEF g
<1>8. TypeOK' /\ Nested' /\ Exclusive' /\ Allows' /\ Listed' /\ Signalled' /\ Loops'
  <2>1. g.at # "lock" /\ ~ g.moved /\ Goes(g, callbacks[g.list], connected[g.list])
    BY <1>3, <1>5, <1>6
  <2>2. \A u \in Threads : u # t => ~ Holds(u, g.list)
    BY <1>3, <1>6
  <2> HIDE DEF f, q
  <2> QED
    BY <1>1, <1>2, <1>3, <1>5, <1>6, <1>7, <2>1, <2>2, TurnStep DEF f
<1>9. Counted'
  <2>1. Puts(t, Len(stack[t]), g)
    BY <1>1, <1>2, <1>5, SetTopPuts
  <2>2. Len(stack[t]) >= Len(stack[t])
    BY <1>1, StackTypes
  <2>3. \A i : Calling(i)' <=> Calling(i)
    BY <1>1, <1>2, <1>6, <2>1, <2>2, CallingSame DEF Running
  <2> QED
    BY <1>1, <1>2, <2>3, CountedSame
<1> QED
  BY <1>8, <1>9 DEF IInv

(* The count of the callback that is called, and what else a list is.      *)
LEMMA CountAlike ==
  ASSUME TypeOK, NEW l \in Lists, NEW i \in DOMAIN callbacks[l], NEW n \in Int, Count(l, i, n),
         l = All => callbacks[l][i].signaling + n \in Nat
  PROVE  /\ callbacks' \in [Lists -> Seq(Entry)]
         /\ \A m \in Lists : Alike(callbacks[m], callbacks'[m])
         /\ \A m \in Lists : m # All => callbacks'[m] = callbacks[m]
         /\ l # All => callbacks' = callbacks
         /\ l = All => \A j \in DOMAIN callbacks[l] : callbacks'[l][j].signaling =
                         IF j = i THEN callbacks[l][j].signaling + n ELSE callbacks[l][j].signaling
<1>1. CASE l # All
  <2>1. callbacks' = callbacks
    BY <1>1 DEF Count
  <2> QED
    BY <1>1, <2>1, AlikeItself DEF TypeOK
<1>2. CASE l = All
  <2> DEFINE q == callbacks[l]
             e == [q[i] EXCEPT !.signaling = @ + n]
             r == [q EXCEPT ![i] = e]
  <2>1. callbacks' = [callbacks EXCEPT ![l] = r]
    BY <1>2 DEF Count
  <2>2. q \in Seq(Entry) /\ q[i] \in Entry
    BY ListTypes
  <2>3. /\ e \in Entry /\ e.callback = q[i].callback /\ e.remove = q[i].remove
        /\ e.signaling = q[i].signaling + n
    <3>1. q[i].signaling + n \in Nat
      BY <1>2
    <3> HIDE DEF q
    <3> QED
      BY <2>2, <3>1 DEF Entry
  <2> HIDE DEF q, e
  <2>4. r \in Seq(Entry) /\ DOMAIN r = DOMAIN q /\ Len(r) = Len(q)
        /\ \A j \in DOMAIN q : r[j] = IF j = i THEN e ELSE q[j]
    BY <2>2, <2>3 DEF q
  <2> HIDE DEF r
  <2>5. callbacks \in [Lists -> Seq(Entry)]
    BY DEF TypeOK
  <2>6. callbacks' \in [Lists -> Seq(Entry)] /\ callbacks'[l] = r
        /\ \A m \in Lists : m # l => callbacks'[m] = callbacks[m]
    BY <2>1, <2>4, <2>5
  <2>7. Alike(q, r)
    BY <2>3, <2>4 DEF Alike
  <2>8. \A m \in Lists : Alike(callbacks[m], callbacks'[m])
    BY <2>6, <2>7, AlikeItself DEF q
  <2> QED
    BY <1>2, <2>3, <2>4, <2>6, <2>8 DEF q
<1> QED
  BY <1>1, <1>2

LEMMA CallStep ==
  ASSUME IInv, NEW t \in Threads, Call(t)
  PROVE  IInv'
<1> DEFINE f == Top(t)
           q == callbacks[f.list]
           g == [f EXCEPT !.at = "call", !.moved = FALSE, !.left = FALSE,
                          !.called = Append(@, q[f.i].callback)]
<1>1. TypeOK /\ Nested /\ Exclusive /\ Allows /\ Listed /\ Counted /\ Signalled /\ Loops
  BY DEF IInv
<1>2. /\ Busy(t) /\ f.at = "loop" /\ ~ (f.i > Len(q)) /\ ~ q[f.i].remove /\ SetTop(t, g)
      /\ Count(f.list, f.i, 1)
      /\ UNCHANGED <<signalling, wants, connected, sent, edits>>
  BY DEF Call, InLoop, AtEnd, Here
<1>3. /\ f \in Frame /\ f.list \in Lists /\ f.i \in Nat \ {0} /\ ~ f.moved
      /\ q \in Seq(Entry) /\ Len(q) \in Nat /\ DOMAIN q = 1 .. Len(q)
      /\ Agrees(q, connected[f.list]) /\ Goes(f, q, connected[f.list])
      /\ \A u \in Threads : u # t => ~ Holds(u, f.list)
      /\ wants[t] = Nothing
  BY <1>2, Innermost
<1>4. f.i \in DOMAIN q
  BY <1>2, <1>3
<1>5. g \in Frame /\ Goes(g, q, connected[f.list])
  <2> HIDE DEF f, q
  <2> QED
    BY <1>2, <1>3, <1>4, GoesCall
<1>6. g.list = f.list /\ g.at = "call" /\ g.moved = FALSE /\ g.i = f.i
  <2> HIDE DEF f, q
  <2> QED
    BY <1>3 DEF Frame
<1>7. q[f.i].signaling \in Nat
  BY <1>3, <1>4, EntryTypes
<1> HIDE DEF g
<1>8. /\ callbacks' \in [Lists -> Seq(Entry)] /\ \A m \in Lists : Alike(callbacks[m], callbacks'[m])
      /\ \A m \in Lists : m # All => callbacks'[m] = callbacks[m]
      /\ f.list # All => callbacks' = callbacks
      /\ f.list = All => \A j \in DOMAIN q : callbacks'[f.list][j].signaling =
                           IF j = f.i THEN q[j].signaling + 1 ELSE q[j].signaling
  <2>1. q[f.i].signaling + 1 \in Nat /\ 1 \in Int
    BY <1>7
  <2> HIDE DEF f
  <2> QED
    BY <1>1, <1>2, <1>3, <1>4, <2>1, CountAlike
<1>9. TypeOK' /\ Nested' /\ Exclusive' /\ Allows' /\ Listed' /\ Signalled' /\ Loops'
  <2>1. g.at # "lock" /\ ~ g.moved /\ Goes(g, callbacks[g.list], connected[g.list])
    BY <1>3, <1>5, <1>6
  <2>2. \A u \in Threads : u # t => ~ Holds(u, g.list)
    BY <1>3, <1>6
  <2> HIDE DEF f, q
  <2> QED
    BY <1>1, <1>2, <1>3, <1>5, <1>6, <1>8, <2>1, <2>2, TurnStep DEF f
<1>10. Puts(t, Len(stack[t]), g)
  BY <1>1, <1>2, <1>5, SetTopPuts
<1>11. Counted'
  <2>1. CASE f.list # All
    <3>1. Len(stack[t]) >= Len(stack[t])
      BY <1>1, StackTypes
    <3>2. \A i : Calling(i)' <=> Calling(i)
      BY <1>1, <1>6, <1>10, <2>1, <3>1, CallingSame
    <3> QED
      BY <1>1, <1>8, <2>1, <3>2, CountedSame
  <2>2. CASE f.list = All
    <3> SUFFICES ASSUME NEW m \in Lists, NEW j \in DOMAIN callbacks'[m]
                 PROVE  callbacks'[m][j].signaling = IF m = All /\ Calling(j)' THEN 1 ELSE 0
      BY DEF Counted, Calling
    <3>1. j \in DOMAIN callbacks[m]
      BY <1>8 DEF Alike
    <3>2. callbacks[m][j].signaling = IF m = All /\ Calling(j) THEN 1 ELSE 0
      BY <1>1, <3>1 DEF Counted
    <3>3. CASE m # All
      BY <1>8, <3>2, <3>3
    <3>4. CASE m = All
      <4>1. ~ Calling(j)
        BY <1>1, <1>2, <2>2, CallingAlone DEF Running
      <4>2. Calling(j)' <=> f.i = j
        BY <1>1, <1>2, <1>6, <1>10, <2>2, CallingPut DEF Running
      <4>3. callbacks'[m][j].signaling = IF j = f.i THEN 1 ELSE 0
        BY <1>8, <2>2, <3>1, <3>2, <3>4, <4>1
      <4> QED
        BY <3>4, <4>2, <4>3
    <3> QED
      BY <3>3, <3>4
  <2> QED
    BY <2>1, <2>2
<1> QED
  BY <1>9, <1>11 DEF IInv

LEMMA ReturnStep ==
  ASSUME IInv, NEW t \in Threads, Return(t)
  PROVE  IInv'
<1> DEFINE f == Top(t)
           q == callbacks[f.list]
           g == [f EXCEPT !.at = "loop", !.i = @ + 1]
<1>1. TypeOK /\ Nested /\ Exclusive /\ Allows /\ Listed /\ Counted /\ Signalled /\ Loops
  BY DEF IInv
<1>2. /\ Busy(t) /\ f.at = "call" /\ wants[t] = Nothing /\ SetTop(t, g)
      /\ f.moved \/ Count(f.list, f.i, -1)
      /\ UNCHANGED <<signalling, wants, connected, sent, edits>>
  BY DEF Return, InClient, Running
<1>3. /\ f \in Frame /\ f.list \in Lists /\ f.i \in Nat \ {0} /\ ~ f.moved
      /\ q \in Seq(Entry) /\ Len(q) \in Nat /\ DOMAIN q = 1 .. Len(q)
      /\ Agrees(q, connected[f.list]) /\ Goes(f, q, connected[f.list])
      /\ \A u \in Threads : u # t => ~ Holds(u, f.list)
  BY <1>2, Innermost
<1>4. f.i \in DOMAIN q
  BY <1>2, <1>3 DEF Goes, Running
<1>5. g \in Frame /\ Goes(g, q, connected[f.list])
  <2> HIDE DEF f, q
  <2> QED
    BY <1>2, <1>3, <1>4, GoesReturn
<1>6. g.list = f.list /\ g.at = "loop" /\ g.moved = f.moved
  <2> HIDE DEF f, q
  <2> QED
    BY <1>3 DEF Frame
<1>7. f.list = All => /\ \A j \in DOMAIN q : q[j].signaling = IF j = f.i THEN 1 ELSE 0
  <2> SUFFICES ASSUME f.list = All, NEW j \in DOMAIN q
               PROVE  q[j].signaling = IF j = f.i THEN 1 ELSE 0
    OBVIOUS
  <2>1. Calling(j) <=> f.i = j
    BY <1>1, <1>2, CallingAlone DEF Running
  <2>2. q[j].signaling = IF Calling(j) THEN 1 ELSE 0
    BY <1>1, <1>3 DEF Counted
  <2> QED
    BY <2>1, <2>2
<1> HIDE DEF g
<1>8. /\ callbacks' \in [Lists -> Seq(Entry)] /\ \A m \in Lists : Alike(callbacks[m], callbacks'[m])
      /\ \A m \in Lists : m # All => callbacks'[m] = callbacks[m]
      /\ f.list # All => callbacks' = callbacks
      /\ f.list = All => \A j \in DOMAIN q : callbacks'[f.list][j].signaling =
                           IF j = f.i THEN q[j].signaling + (-1) ELSE q[j].signaling
  <2>1. -1 \in Int /\ (f.list = All => q[f.i].signaling + (-1) \in Nat)
    BY <1>4, <1>7
  <2>2. Count(f.list, f.i, -1)
    BY <1>2, <1>3
  <2> HIDE DEF f
  <2> QED
    BY <1>1, <1>3, <1>4, <2>1, <2>2, CountAlike
<1>9. TypeOK' /\ Nested' /\ Exclusive' /\ Allows' /\ Listed' /\ Signalled' /\ Loops'
  <2>1. g.at # "lock" /\ ~ g.moved /\ Goes(g, callbacks[g.list], connected[g.list])
    BY <1>3, <1>5, <1>6
  <2>2. \A u \in Threads : u # t => ~ Holds(u, g.list)
    BY <1>3, <1>6
  <2> HIDE DEF f, q
  <2> QED
    BY <1>1, <1>2, <1>3, <1>5, <1>6, <1>8, <2>1, <2>2, TurnStep DEF f
<1>10. Puts(t, Len(stack[t]), g)
  BY <1>1, <1>2, <1>5, SetTopPuts
<1>11. Counted'
  <2>1. CASE f.list # All
    <3>1. Len(stack[t]) >= Len(stack[t])
      BY <1>1, StackTypes
    <3>2. \A i : Calling(i)' <=> Calling(i)
      BY <1>1, <1>6, <1>10, <2>1, <3>1, CallingSame
    <3> QED
      BY <1>1, <1>8, <2>1, <3>2, CountedSame
  <2>2. CASE f.list = All
    <3> SUFFICES ASSUME NEW m \in Lists, NEW j \in DOMAIN callbacks'[m]
                 PROVE  callbacks'[m][j].signaling = IF m = All /\ Calling(j)' THEN 1 ELSE 0
      BY DEF Counted, Calling
    <3>1. j \in DOMAIN callbacks[m]
      BY <1>8 DEF Alike
    <3>2. callbacks[m][j].signaling = IF m = All /\ Calling(j) THEN 1 ELSE 0
      BY <1>1, <3>1 DEF Counted
    <3>3. CASE m # All
      BY <1>8, <3>2, <3>3
    <3>4. CASE m = All
      <4>1. ~ Calling(j)'
        BY <1>1, <1>2, <1>6, <1>10, <2>2, CallingPut DEF Running
      <4>2. q[j].signaling = IF j = f.i THEN 1 ELSE 0
        BY <1>7, <2>2, <3>1, <3>4
      <4>3. callbacks'[m][j].signaling = 0
        BY <1>8, <2>2, <3>1, <3>4, <4>2
      <4> QED
        BY <4>1, <4>3
    <3> QED
      BY <3>3, <3>4
  <2> QED
    BY <2>1, <2>2
<1> QED
  BY <1>9, <1>11 DEF IInv

LEMMA LockGlobalStep ==
  ASSUME IInv, SignalsAssumption, NEW t \in Threads, LockGlobal(t)
  PROVE  IInv'
<1> DEFINE f == Top(t)
           g == Loop(All)
<1>1. TypeOK /\ Nested /\ Exclusive /\ Allows /\ Listed /\ Counted /\ Signalled /\ Loops
  BY DEF IInv
<1>2. /\ Busy(t) /\ f.at = "lock" /\ Lockable(t, All) /\ SetTop(t, g) /\ callbacks' = callbacks
      /\ UNCHANGED <<signalling, wants, connected, sent, edits>>
  BY DEF LockGlobal
<1>3. f.list = All /\ All \in Lists /\ wants[t] = Nothing
  <2>1. Len(stack[t]) \in DOMAIN stack[t] /\ f = stack[t][Len(stack[t])]
    BY <1>1, <1>2, StackTypes
  <2>2. f.list = All
    BY <1>1, <1>2, <2>1 DEF Nested
  <2> QED
    BY <1>2, <2>2, Innermost DEF Lists
<1>4. g \in Frame /\ Goes(g, callbacks[All], connected[All])
  BY <1>1, <1>3, ListTypes, GoesStart DEF Listed
<1>5. g.list = All /\ g.at = "loop" /\ g.moved = FALSE
  BY DEF Loop
<1> HIDE DEF g
<1>6. TypeOK' /\ Nested' /\ Exclusive' /\ Allows' /\ Listed' /\ Signalled' /\ Loops'
  <2>1. g.at # "lock" /\ ~ g.moved /\ Goes(g, callbacks[g.list], connected[g.list])
    BY <1>4, <1>5
  <2>2. \A u \in Threads : u # t => ~ Holds(u, g.list)
    BY <1>2, <1>5, Alone
  <2>3. callbacks' \in [Lists -> Seq(Entry)] /\ \A l \in Lists : Alike(callbacks[l], callbacks'[l])
    BY <1>1, <1>2, AlikeItself DEF TypeOK
  <2> HIDE DEF f
  <2> QED
    BY <1>1, <1>2, <1>3, <1>4, <1>5, <2>1, <2>2, <2>3, TurnStep DEF f
<1>7. Counted'
  <2>1. Puts(t, Len(stack[t]), g)
    BY <1>1, <1>2, <1>4, SetTopPuts
  <2>2. Len(stack[t]) >= Len(stack[t])
    BY <1>1, StackTypes
  <2>3. \A i : Calling(i)' <=> Calling(i)
    BY <1>1, <1>2, <1>5, <2>1, <2>2, CallingSame DEF Running
  <2> QED
    BY <1>1, <1>2, <2>3, CountedSame
<1> QED
  BY <1>6, <1>7 DEF IInv

-----------------------------------------------------------------------------
(* A signal that is sent, from a callback or not.                          *)

LEMMA SignalStep ==
  ASSUME IInv, Orderly, SignalsAssumption, NEW t \in Threads, Signal(t)
  PROVE  IInv'
<1> DEFINE l == wants[t].list
           f == Loop(l)
           n == Len(stack[t]) + 1
<1>1. TypeOK /\ Nested /\ Exclusive /\ Allows /\ Listed /\ Counted /\ Signalled /\ Loops
  BY DEF IInv
<1>2. /\ wants[t].call = "signal" /\ Lockable(t, l) /\ wants' = [wants EXCEPT ![t] = Nothing]
      /\ signalling' = [signalling EXCEPT ![l] = TRUE]
      /\ stack' = [stack EXCEPT ![t] = Append(@, f)]
      /\ UNCHANGED <<callbacks, connected, sent, edits>>
  BY DEF Signal, Makes
<1>3. l \in Signals /\ l \in Lists /\ l # All /\ wants[t] # Nothing
  BY <1>1, <1>2, WantTypes DEF Lists, SignalsAssumption
<1>4. f \in Frame /\ Goes(f, callbacks[l], connected[l])
  BY <1>1, <1>3, ListTypes, GoesStart DEF Listed
<1>5. f.list = l /\ f.at = "loop" /\ f.moved = FALSE
  BY DEF Loop
<1>6. /\ Busy(t) => Running(Top(t)) /\ <<Top(t).list, l>> \in Uses
      /\ ~ Running(f)
  BY <1>1, <1>2, <1>3, <1>5 DEF Allows, Allowed, Running
<1> HIDE DEF l, f
<1>7. Puts(t, n, f)
  BY <1>1, <1>2, <1>4, AppendPuts
<1>8. Len(stack[t]) \in Nat /\ n >= Len(stack[t]) /\ n # Len(stack[t]) /\ n - 1 = Len(stack[t])
      /\ DOMAIN stack[t] = 1 .. Len(stack[t])
  BY <1>1, StackTypes
<1>9. \A u \in Threads : u # t => ~ Holds(u, l)
  BY <1>2, Alone
<1>10. Fits(t, n, f)
  <2>1. Busy(t) => Top(t).list # All
    BY <1>3, <1>6 DEF Orderly
  <2>2. ASSUME NEW j \in 1 .. n - 1 PROVE Rank[stack[t][j].list] < Rank[l]
    <3>1. j \in DOMAIN stack[t] /\ Busy(t)
      BY <1>1, <1>8, <2>2, StackTypes
    <3>2. Top(t) = stack[t][n - 1] /\ n - 1 \in DOMAIN stack[t] /\ Top(t).list \in Lists
          /\ stack[t][j].list \in Lists
      BY <1>1, <1>8, <3>1, StackTypes
    <3>3. Rank[Top(t).list] < Rank[l]
      BY <1>3, <1>6, <3>1, <3>2, RankProperties
    <3>4. CASE j = n - 1
      BY <3>2, <3>3, <3>4
    <3>5. CASE j # n - 1
      <4>1. j \in 1 .. (n - 1) - 1
        BY <1>8, <2>2, <3>5
      <4>2. Rank[stack[t][j].list] < Rank[Top(t).list]
        BY <1>1, <2>1, <3>1, <3>2, <4>1 DEF Nested
      <4>3. Rank[stack[t][j].list] \in Nat /\ Rank[Top(t).list] \in Nat /\ Rank[l] \in Nat
        BY <1>3, <3>2, RankProperties
      <4> QED
        BY <3>3, <4>2, <4>3
    <3> QED
      BY <3>4, <3>5
  <2> QED
    BY <1>5, <1>6, <2>1, <2>2 DEF Fits
<1> HIDE DEF n
<1>11. TypeOK'
  <2>1. signalling' \in [Signals -> BOOLEAN]
    BY <1>1, <1>2 DEF TypeOK
  <2>2. wants' \in [Threads -> Want]
    BY <1>1, <1>2 DEF TypeOK, Want
  <2> QED
    BY <1>1, <1>2, <1>7, <2>1, <2>2 DEF TypeOK, Puts
<1>12. Nested'
  BY <1>1, <1>7, <1>10, NestedPuts
<1>13. Exclusive'
  BY <1>1, <1>5, <1>7, <1>9, ExclusivePuts
<1>14. Outside(t)
  BY <1>7, PutsOutside
<1>15. Allows'
  <2>1. wants'[t] = Nothing /\ \A u \in Threads : u # t => wants'[u] = wants[u]
    BY <1>1, <1>2 DEF TypeOK
  <2> QED
    BY <1>1, <1>2, <1>14, <2>1, AllowsStep, AlikeItself
<1>16. \A u \in Threads, m \in Lists :
         (Holds(u, m) => Holds(u, m)') /\ (Inside(u, m) => Inside(u, m)')
  <2> TAKE u \in Threads, m \in Lists
  <2>1. CASE u = t
    BY <1>1, <1>7, <1>8, <2>1, PutsKeeps
  <2>2. CASE u # t
    BY <1>14, <2>2, OthersHold
  <2> QED
    BY <2>1, <2>2
<1>17. Listed'
  BY <1>1, <1>2, <1>16 DEF Listed, Holds
<1>18. Counted'
  <2>1. \A i : Calling(i)' <=> Calling(i)
    BY <1>1, <1>6, <1>7, <1>8, CallingSame
  <2> QED
    BY <1>1, <1>2, <2>1, CountedSame
<1>19. Signalled'
  <2> SUFFICES ASSUME NEW s \in Signals
               PROVE  signalling'[s] <=> \E u \in Threads : Inside(u, s)'
    BY DEF Signalled, Inside
  <2>1. s \in Lists /\ (signalling[s] <=> \E u \in Threads : Inside(u, s))
    BY <1>1 DEF Signalled, Lists
  <2>2. CASE s = l
    <3>1. signalling'[s]
      BY <1>1, <1>2, <2>2 DEF TypeOK
    <3>2. Inside(t, s)'
      BY <1>1, <1>5, <1>7, <2>2, PutsHold
    <3> QED
      BY <3>1, <3>2
  <2>3. CASE s # l
    <3>1. signalling'[s] = signalling[s]
      BY <1>1, <1>2, <2>3 DEF TypeOK
    <3>2. \A u \in Threads : Inside(u, s)' <=> Inside(u, s)
      <4> TAKE u \in Threads
      <4>1. CASE u = t
        <5>1. Inside(t, s)' => Inside(t, s) \/ f.list = s
          BY <1>1, <1>7, PutsHold
        <5> QED
          BY <1>5, <1>16, <2>1, <2>3, <4>1, <5>1
      <4>2. CASE u # t
        BY <1>14, <4>2, OthersHold
      <4> QED
        BY <4>1, <4>2
    <3> QED
      BY <2>1, <3>1, <3>2
  <2> QED
    BY <2>2, <2>3
<1>20. Loops'
  <2>1. Goes(f, callbacks'[f.list], connected[f.list])
    BY <1>2, <1>4, <1>5
  <2> QED
    BY <1>1, <1>2, <1>7, <2>1, LoopsPuts, AlikeItself
<1> QED
  BY <1>11, <1>12, <1>13, <1>15, <1>17, <1>18, <1>19, <1>20 DEF IInv

-----------------------------------------------------------------------------
(* The ends of the two loops.                                              *)

Among(q, keep, r) == \A k \in DOMAIN r : \E i \in DOMAIN q : i \in keep /\ r[k] = q[i]

LEMMA KeepsAgrees ==
  ASSUME NEW q \in Seq(Entry), NEW clients, Agrees(q, clients), NEW keep, NEW rest,
         \A i \in DOMAIN q : i \in keep /\ ~ q[i].remove => q[i].callback \in rest,
         \A c \in rest : \E i \in DOMAIN q : i \in keep /\ q[i].callback = c /\ ~ q[i].remove,
         NEW r, Keeps(q, keep, Len(q), r)
  PROVE  r \in Seq(Entry) /\ Agrees(r, rest) /\ Among(q, keep, r)
<1>1. Distinct(q) /\ DOMAIN q = 1 .. Len(q)
  BY DEF Agrees
<1>2. Keeps(q, keep, Len(q), r)
  OBVIOUS
<1>3. /\ r \in Seq(Entry) /\ DOMAIN r = 1 .. Len(r)
      /\ \A k \in DOMAIN r : \E i \in DOMAIN q : i \in keep /\ r[k] = q[i]
      /\ \A i \in DOMAIN q : i \in keep => \E k \in DOMAIN r : r[k] = q[i]
      /\ \A j, k \in DOMAIN r : r[j].callback = r[k].callback => j = k
  <2>1. r \in Seq(Entry)
    BY <1>2 DEF Keeps
  <2>2. DOMAIN r = 1 .. Len(r)
    BY <2>1
  <2>3. /\ \A k \in 1 .. Len(r) : \E i \in 1 .. Len(q) : i \in keep /\ r[k] = q[i]
        /\ \A i \in 1 .. Len(q) : i \in keep => \E k \in 1 .. Len(r) : r[k] = q[i]
        /\ \A j, k \in 1 .. Len(r) : r[j].callback = r[k].callback => j = k
    BY <1>2 DEF Keeps
  <2> QED
    BY <1>1, <2>1, <2>2, <2>3
<1>4. \A k \in DOMAIN r : ~ r[k].remove => r[k].callback \in rest
  BY <1>3
<1>5. \A c \in rest : \E k \in DOMAIN r : r[k].callback = c /\ ~ r[k].remove
  BY <1>3
<1>6. Agrees(r, rest)
  BY <1>3, <1>4, <1>5 DEF Agrees, Distinct
<1> QED
  BY <1>3, <1>6 DEF Among

LEMMA KeptAgrees ==
  ASSUME NEW q \in Seq(Entry), NEW clients, Agrees(q, clients), NEW keep, NEW rest,
         \A i \in DOMAIN q : i \in keep /\ ~ q[i].remove => q[i].callback \in rest,
         \A c \in rest : \E i \in DOMAIN q : i \in keep /\ q[i].callback = c /\ ~ q[i].remove,
         NEW r, r = Kept(q, keep)
  PROVE  r \in Seq(Entry) /\ Agrees(r, rest) /\ Among(q, keep, r)
<1>1. Distinct(q)
  BY DEF Agrees
<1>2. Keeps(q, keep, Len(q), r)
  BY <1>1, KeptEntries
<1> QED
  BY <1>2, KeepsAgrees, Zenon

Remain(q, r) == \A k \in DOMAIN r : \E i \in DOMAIN q : r[k] = q[i] /\ ~ q[i].remove

LEMMA UnmarkedAgree ==
  ASSUME NEW q \in Seq(Entry), NEW clients, Agrees(q, clients), NEW r, r = Kept(q, Unmarked(q))
  PROVE  r \in Seq(Entry) /\ Agrees(r, clients) /\ Remain(q, r)
<1> DEFINE keep == Unmarked(q)
<1>1. \A i \in DOMAIN q : i \in keep <=> ~ q[i].remove
  BY DEF Unmarked
<1> HIDE DEF keep
<1>2. \A i \in DOMAIN q : i \in keep /\ ~ q[i].remove => q[i].callback \in clients
  BY DEF Agrees
<1>3. \A c \in clients : \E i \in DOMAIN q : i \in keep /\ q[i].callback = c /\ ~ q[i].remove
  BY <1>1 DEF Agrees
<1>4. r = Kept(q, keep)
  BY DEF keep
<1>5. r \in Seq(Entry) /\ Agrees(r, clients) /\ Among(q, keep, r)
  BY <1>2, <1>3, <1>4, KeptAgrees
<1> QED
  BY <1>1, <1>5 DEF Among, Remain

LEMMA FinishStep ==
  ASSUME IInv, Orderly, SignalsAssumption, NEW t \in Threads, Finish(t)
  PROVE  IInv'
<1> DEFINE f == Top(t)
           l == f.list
           q == callbacks[l]
           g == [Loop(All) EXCEPT !.at = "lock"]
           r == Kept(q, Unmarked(q))
           n == Len(stack[t])
<1>1. TypeOK /\ Nested /\ Exclusive /\ Allows /\ Listed /\ Counted /\ Signalled /\ Loops
  BY DEF IInv
<1>2. /\ Busy(t) /\ f.at = "loop" /\ l # All /\ SetTop(t, g)
      /\ callbacks' = [callbacks EXCEPT ![l] = r]
      /\ signalling' = [signalling EXCEPT ![l] = FALSE]
      /\ UNCHANGED <<wants, connected, sent, edits>>
  BY DEF Finish, InLoop
<1>3. /\ f \in Frame /\ l \in Lists /\ q \in Seq(Entry) /\ Agrees(q, connected[l])
      /\ \A u \in Threads : u # t => ~ Holds(u, l)
      /\ wants[t] = Nothing
  BY <1>2, Innermost
<1>4. l \in Signals
  BY <1>2, <1>3 DEF Lists
<1>5. /\ g \in Frame /\ g.list = All /\ g.at = "lock" /\ g.called = <<>> /\ g.moved = FALSE
      /\ ~ Running(g)
  <2>1. Loop(All) \in Frame
    BY <1>1, ListTypes, GoesStart DEF Listed, Lists
  <2> QED
    BY <2>1 DEF Loop, Frame, Running
<1> HIDE DEF g
<1>6. /\ r \in Seq(Entry) /\ Agrees(r, connected[l])
      /\ \A k \in DOMAIN r : \E i \in DOMAIN q : r[k] = q[i] /\ ~ q[i].remove
  <2> DEFINE clients == connected[l]
  <2>1. q \in Seq(Entry) /\ Agrees(q, clients) /\ r = Kept(q, Unmarked(q))
    BY <1>3
  <2> HIDE DEF r, q, clients
  <2>2. r \in Seq(Entry) /\ Agrees(r, clients) /\ Remain(q, r)
    BY <2>1, UnmarkedAgree
  <2> QED
    BY <2>2 DEF clients, Remain
<1>7. \A i \in DOMAIN q : q[i].signaling = 0
  BY <1>1, <1>2, <1>3 DEF Counted
<1> HIDE DEF r
<1>8. callbacks' \in [Lists -> Seq(Entry)] /\ callbacks'[l] = r
      /\ \A m \in Lists : m # l => callbacks'[m] = callbacks[m]
  BY <1>1, <1>2, <1>3, <1>6 DEF TypeOK
<1>9. /\ signalling' \in [Signals -> BOOLEAN] /\ ~ signalling'[l]
      /\ \A s \in Signals : s # l => signalling'[s] = signalling[s]
  BY <1>1, <1>2, <1>4 DEF TypeOK
<1>10. Puts(t, n, g)
  BY <1>1, <1>2, <1>5, SetTopPuts
<1>11. n \in Nat /\ f = stack[t][n] /\ n \in DOMAIN stack[t] /\ DOMAIN stack[t] = 1 .. n /\ n >= n
  BY <1>1, <1>2, StackTypes
<1>12. \A k \in 1 .. n - 1 :
         k \in DOMAIN stack[t] /\ stack[t][k].list # l /\ stack[t][k].list \in Lists
  <2> TAKE k \in 1 .. n - 1
  <2>1. k \in DOMAIN stack[t]
    BY <1>11
  <2>2. Rank[stack[t][k].list] < Rank[f.list]
    BY <1>1, <1>2, <1>11 DEF Nested
  <2>3. stack[t][k].list \in Lists
    BY <1>1, <2>1, StackTypes
  <2>4. stack[t][k].list # l
    <3> SUFFICES ASSUME stack[t][k].list = l PROVE FALSE
      OBVIOUS
    <3>1. Rank[l] < Rank[l] /\ Rank[l] \in Nat
      BY <1>3, <2>2, RankProperties
    <3> QED
      BY <3>1
  <2> QED
    BY <2>1, <2>3, <2>4
<1>13. \A u \in Threads : u # t => \A k \in DOMAIN stack[u] :
          stack[u][k].list # l /\ stack[u][k].list \in Lists
  <2> TAKE u \in Threads
  <2> HAVE u # t
  <2> TAKE k \in DOMAIN stack[u]
  <2>1. ~ Inside(u, l)
    BY <1>1, <1>2, <1>3, InsideHolds
  <2> QED
    BY <1>1, <2>1, StackTypes DEF Inside
<1> HIDE DEF n, q, l, f
<1>14. /\ \A u \in Threads : u # t => stack'[u] = stack[u]
       /\ n \in Nat \ {0} /\ DOMAIN stack'[t] = 1 .. n /\ stack'[t][n] = g
       /\ \A k \in 1 .. n - 1 : stack'[t][k] = stack[t][k]
       /\ \A k \in 1 .. n : k = n \/ k \in 1 .. n - 1
       /\ \A k \in 1 .. n - 1 : k \in 1 .. n
  BY <1>10, <1>11 DEF Puts
<1>15. TypeOK'
  BY <1>1, <1>2, <1>8, <1>9, <1>10 DEF TypeOK, Puts
<1>16. Nested'
  <2>1. Fits(t, n, g)
    BY <1>5 DEF Fits, n
  <2> QED
    BY <1>1, <1>10, <2>1, NestedPuts
<1>17. Exclusive'
  BY <1>1, <1>5, <1>10, ExclusivePuts
<1>18. Outside(t)
  BY <1>10, PutsOutside
<1>19. \A u \in Threads, m \in Lists : m # l =>
         /\ Holds(u, m) => Holds(u, m)'
         /\ m # All => (Inside(u, m)' <=> Inside(u, m))
  <2> TAKE u \in Threads, m \in Lists
  <2> HAVE m # l
  <2>1. CASE u # t
    BY <1>18, <2>1, OthersHold
  <2>2. CASE u = t
    <3>1. \A k \in DOMAIN stack[t] : stack[t][k].list = m => k \in 1 .. n - 1
      BY <1>11, <1>14 DEF l
    <3>2. Holds(t, m) => Holds(t, m)'
      BY <1>14, <3>1 DEF Holds
    <3>3. Inside(t, m) => Inside(t, m)'
      BY <1>14, <3>1 DEF Inside
    <3>4. m # All /\ Inside(t, m)' => Inside(t, m)
      BY <1>5, <1>11, <1>14 DEF Inside
    <3> QED
      BY <2>2, <3>2, <3>3, <3>4
  <2> QED
    BY <2>1, <2>2
<1>20. \A u \in Threads, s \in Signals : s = l => ~ Inside(u, s)'
  <2> TAKE u \in Threads, s \in Signals
  <2> HAVE s = l
  <2>1. CASE u # t
    BY <1>13, <1>14, <2>1 DEF Inside
  <2>2. CASE u = t
    BY <1>2, <1>5, <1>12, <1>14, <2>2 DEF Inside
  <2> QED
    BY <2>1, <2>2
<1>21. Allows'
  <2>1. \A u \in Threads, m \in Lists :
          u # t /\ m # All /\ Inside(u, m) => Alike(callbacks[m], callbacks'[m])
    <3> TAKE u \in Threads, m \in Lists
    <3> HAVE u # t /\ m # All /\ Inside(u, m)
    <3>1. m # l
      BY <1>13 DEF Inside
    <3> QED
      BY <1>8, <3>1, AlikeItself
  <2>2. wants'[t] = Nothing /\ \A u \in Threads : u # t => wants'[u] = wants[u]
    BY <1>2, <1>3
  <2> QED
    BY <1>1, <1>18, <2>1, <2>2, AllowsStep
<1>22. Listed'
  <2> SUFFICES ASSUME NEW m \in Lists
               PROVE  /\ Agrees(callbacks'[m], connected'[m])
                      /\ (\E i \in DOMAIN callbacks'[m] : callbacks'[m][i].remove) =>
                           \E u \in Threads : Holds(u, m)'
    BY DEF Listed, Holds, Agrees
  <2>1. CASE m = l
    BY <1>2, <1>6, <1>8, <2>1
  <2>2. CASE m # l
    BY <1>1, <1>2, <1>8, <1>19, <2>2 DEF Listed
  <2> QED
    BY <2>1, <2>2
<1>23. Counted'
  <2> SUFFICES ASSUME NEW m \in Lists, NEW j \in DOMAIN callbacks'[m]
               PROVE  callbacks'[m][j].signaling = IF m = All /\ Calling(j)' THEN 1 ELSE 0
    BY DEF Counted, Calling
  <2>1. CASE m = l
    BY <1>2, <1>6, <1>7, <1>8, <2>1
  <2>2. CASE m # l
    <3>1. Calling(j)' <=> Calling(j)
      <4>1. n >= Len(stack[t]) /\ ~ (g.list = All /\ Running(g))
            /\ ~ (Top(t).list = All /\ Running(Top(t)))
        BY <1>2, <1>5, <1>11 DEF n, f, l
      <4> QED
        BY <1>1, <1>10, <4>1, CallingSame
    <3>2. callbacks'[m] = callbacks[m]
      BY <1>8, <2>2
    <3>3. callbacks[m][j].signaling = IF m = All /\ Calling(j) THEN 1 ELSE 0
      BY <1>1, <3>2 DEF Counted
    <3> QED
      BY <3>1, <3>2, <3>3
  <2> QED
    BY <2>1, <2>2
<1>24. Signalled'
  <2> SUFFICES ASSUME NEW s \in Signals
               PROVE  signalling'[s] <=> \E u \in Threads : Inside(u, s)'
    BY DEF Signalled, Inside
  <2>1. CASE s = l
    BY <1>9, <1>20, <2>1
  <2>2. CASE s # l
    <3>1. s \in Lists /\ s # All
      BY DEF Lists, SignalsAssumption
    <3> QED
      BY <1>1, <1>9, <1>19, <2>2, <3>1 DEF Signalled
  <2> QED
    BY <2>1, <2>2
<1>25. Loops'
  <2>1. Goes(g, callbacks'[g.list], connected[g.list])
    BY <1>5 DEF Goes
  <2>2. \A u \in Threads : \A k \in DOMAIN stack'[u] :
          u # t \/ k # n => Alike(callbacks[stack'[u][k].list], callbacks'[stack'[u][k].list])
    <3> TAKE u \in Threads
    <3> TAKE k \in DOMAIN stack'[u]
    <3> HAVE u # t \/ k # n
    <3>1. stack'[u][k].list # l /\ stack'[u][k].list \in Lists
      <4>1. CASE u # t
        BY <1>13, <1>14, <4>1
      <4>2. CASE u = t
        BY <1>12, <1>14, <4>2
      <4> QED
        BY <4>1, <4>2
    <3> QED
      BY <1>8, <3>1, AlikeItself
  <2> QED
    BY <1>1, <1>2, <1>10, <2>1, <2>2, LoopsPuts
<1> QED
  BY <1>15, <1>16, <1>17, <1>21, <1>22, <1>23, <1>24, <1>25 DEF IInv

LEMMA FinishGlobalStep ==
  ASSUME IInv, SignalsAssumption, NEW t \in Threads, FinishGlobal(t)
  PROVE  IInv'
<1> DEFINE q == callbacks[All]
           keep == {i \in DOMAIN q : ~ (q[i].remove /\ q[i].signaling = 0)}
           r == Kept(q, keep)
           n == Len(stack[t])
           s == stack[t]
<1>1. TypeOK /\ Nested /\ Exclusive /\ Allows /\ Listed /\ Counted /\ Signalled /\ Loops
  BY DEF IInv
<1>2. /\ Busy(t) /\ Top(t).at = "loop" /\ Top(t).list = All
      /\ callbacks' = [callbacks EXCEPT ![All] = r]
      /\ stack' = [stack EXCEPT ![t] = Front(@)]
      /\ UNCHANGED <<signalling, wants, connected, sent, edits>>
  BY DEF FinishGlobal, InLoop
<1>3. /\ All \in Lists /\ q \in Seq(Entry) /\ Agrees(q, connected[All])
      /\ \A u \in Threads : u # t => ~ Holds(u, All)
      /\ wants[t] = Nothing
  BY <1>2, Innermost
<1>4. \A i \in DOMAIN q : q[i].signaling = 0
  <2> TAKE i \in DOMAIN q
  <2>1. ~ Calling(i)
    BY <1>1, <1>2, CallingAlone DEF Running
  <2> QED
    BY <1>1, <1>3, <2>1 DEF Counted
<1>5. keep = Unmarked(q)
  BY <1>4 DEF Unmarked
<1>6. r \in Seq(Entry) /\ Agrees(r, connected[All]) /\ Remain(q, r)
  <2> DEFINE clients == connected[All]
  <2>1. q \in Seq(Entry) /\ Agrees(q, clients) /\ r = Kept(q, Unmarked(q))
    BY <1>3, <1>5
  <2> HIDE DEF r, q, clients
  <2>2. r \in Seq(Entry) /\ Agrees(r, clients) /\ Remain(q, r)
    BY <2>1, UnmarkedAgree
  <2> QED
    BY <2>2 DEF clients
<1> HIDE DEF r, keep
<1>7. callbacks' \in [Lists -> Seq(Entry)] /\ callbacks'[All] = r
      /\ \A m \in Lists : m # All => callbacks'[m] = callbacks[m]
  BY <1>1, <1>2, <1>3, <1>6 DEF TypeOK
<1>8. \A k \in DOMAIN r : ~ r[k].remove /\ r[k].signaling = 0
  BY <1>4, <1>6 DEF Remain
<1> HIDE DEF q
<1>9. s \in Seq(Frame) /\ n \in Nat \ {0} /\ DOMAIN s = 1 .. n
      /\ Top(t) = s[n]
  BY <1>1, <1>2, StackTypes
<1>10. /\ stack' \in [Threads -> Seq(Frame)] /\ stack'[t] = Front(s)
       /\ \A u \in Threads : u # t => stack'[u] = stack[u]
  <2>1. Front(s) \in Seq(Frame)
    <3> HIDE DEF s, n
    <3>1. n = Len(s)
      BY DEF n, s
    <3> QED
      BY <1>9, <3>1 DEF Front
  <2> QED
    BY <1>1, <1>2, <2>1 DEF TypeOK
<1>11. /\ DOMAIN stack'[t] = 1 .. n - 1 /\ Len(stack'[t]) = n - 1
       /\ \A k \in 1 .. n - 1 : k \in DOMAIN s /\ stack'[t][k] = s[k]
  <2> DEFINE d == Front(s)
  <2>1. n = Len(s)
    OBVIOUS
  <2> HIDE DEF s, n
  <2>2. /\ DOMAIN d = 1 .. n - 1 /\ Len(d) = n - 1
        /\ \A k \in 1 .. n - 1 : k \in 1 .. n /\ d[k] = s[k]
    BY <1>9, <2>1 DEF Front
  <2> HIDE DEF d
  <2> QED
    BY <1>9, <1>10, <2>2 DEF d
<1>12. \A k \in 1 .. n - 1 : Running(s[k]) /\ s[k].list # All
  <2> TAKE k \in 1 .. n - 1
  <2>1. k \in DOMAIN s /\ k < n
    BY <1>9
  <2> QED
    BY <1>1, <2>1 DEF Nested
<1> HIDE DEF n, s
<1>13. TypeOK'
  BY <1>1, <1>2, <1>7, <1>10 DEF TypeOK
<1>14. Nested'
  <2> SUFFICES ASSUME NEW u \in Threads, NEW k \in DOMAIN stack'[u]
               PROVE  LET g == stack'[u][k]
                      IN  /\ k < Len(stack'[u]) => Running(g) /\ g.list # All
                          /\ g.at = "lock" => g.list = All /\ g.called = <<>>
                          /\ ~ g.moved
                          /\ g.list # All =>
                               \A j \in 1 .. k - 1 : Rank[stack'[u][j].list] < Rank[g.list]
    BY DEF Nested, Running, Rank, Ranks
  <2>1. CASE u # t
    BY <1>1, <1>10, <2>1 DEF Nested
  <2>2. CASE u = t
    <3>1. k \in DOMAIN stack[t] /\ stack'[t][k] = stack[t][k] /\ k \in 1 .. n - 1
      BY <1>11, <2>2 DEF s
    <3>2. \A j \in 1 .. k - 1 : stack'[t][j] = stack[t][j]
      <4> TAKE j \in 1 .. k - 1
      <4>1. j \in 1 .. n - 1
        BY <1>9, <3>1
      <4> QED
        BY <1>11, <4>1 DEF s
    <3>3. Running(stack[t][k]) /\ stack[t][k].list # All
      BY <1>12, <3>1 DEF s
    <3>4. LET g == stack[t][k]
          IN  /\ ~ g.moved
              /\ g.list # All => \A j \in 1 .. k - 1 : Rank[stack[t][j].list] < Rank[g.list]
      BY <1>1, <3>1 DEF Nested
    <3> QED
      BY <2>2, <3>1, <3>2, <3>3, <3>4 DEF Running
  <2> QED
    BY <2>1, <2>2
<1>15. Outside(t)
  BY <1>10 DEF Outside, Same
<1>16. \A u \in Threads, m \in Lists :
         /\ Holds(u, m)' => Holds(u, m) /\ m # All
         /\ Inside(u, m)' => Inside(u, m)
         /\ m # All /\ Holds(u, m) => Holds(u, m)'
         /\ m # All /\ Inside(u, m) => Inside(u, m)'
  <2> TAKE u \in Threads, m \in Lists
  <2>1. CASE u # t
    BY <1>3, <1>15, <2>1, OthersHold
  <2>2. CASE u = t
    <3>1. \A k \in DOMAIN s : k \in 1 .. n - 1 \/ s[k].list = All
      BY <1>2, <1>9
    <3>2. Holds(t, m)' => Holds(t, m) /\ m # All
      BY <1>11, <1>12 DEF Holds, s
    <3>3. Inside(t, m)' => Inside(t, m)
      BY <1>11 DEF Inside, s
    <3>4. m # All /\ Holds(t, m) => Holds(t, m)'
      BY <1>11, <3>1 DEF Holds, s
    <3>5. m # All /\ Inside(t, m) => Inside(t, m)'
      BY <1>11, <3>1 DEF Inside, s
    <3> QED
      BY <2>2, <3>2, <3>3, <3>4, <3>5
  <2> QED
    BY <2>1, <2>2
<1>17. Exclusive'
  BY <1>1, <1>16 DEF Exclusive, Holds
<1>18. Allows'
  <2>1. wants'[t] = Nothing /\ \A u \in Threads : u # t => wants'[u] = wants[u]
    BY <1>2, <1>3
  <2>2. \A u \in Threads, m \in Lists :
          u # t /\ m # All /\ Inside(u, m) => Alike(callbacks[m], callbacks'[m])
    BY <1>7, AlikeItself
  <2> QED
    BY <1>1, <1>15, <2>1, <2>2, AllowsStep
<1>19. Listed'
  <2> SUFFICES ASSUME NEW m \in Lists
               PROVE  /\ Agrees(callbacks'[m], connected'[m])
                      /\ (\E i \in DOMAIN callbacks'[m] : callbacks'[m][i].remove) =>
                           \E u \in Threads : Holds(u, m)'
    BY DEF Listed, Holds, Agrees
  <2>1. CASE m = All
    BY <1>2, <1>6, <1>7, <1>8, <2>1
  <2>2. CASE m # All
    BY <1>1, <1>2, <1>7, <1>16, <2>2 DEF Listed
  <2> QED
    BY <2>1, <2>2
<1>20. Counted'
  <2> SUFFICES ASSUME NEW m \in Lists, NEW j \in DOMAIN callbacks'[m]
               PROVE  callbacks'[m][j].signaling = IF m = All /\ Calling(j)' THEN 1 ELSE 0
    BY DEF Counted, Calling
  <2>1. CASE m = All
    <3>1. ~ Calling(j)'
      <4> SUFFICES ASSUME Calling(j)' PROVE FALSE
        OBVIOUS
      <4>1. PICK u \in Threads : Holds(u, All)'
        BY DEF Calling, Holds, Running
      <4> QED
        BY <1>3, <1>16, <4>1
    <3> QED
      BY <1>7, <1>8, <2>1, <3>1
  <2>2. CASE m # All
    BY <1>1, <1>7, <2>2 DEF Counted
  <2> QED
    BY <2>1, <2>2
<1>21. Signalled'
  <2> SUFFICES ASSUME NEW x \in Signals
               PROVE  signalling'[x] <=> \E u \in Threads : Inside(u, x)'
    BY DEF Signalled, Inside
  <2>1. x \in Lists /\ x # All
    BY DEF Lists, SignalsAssumption
  <2> QED
    BY <1>1, <1>2, <1>16, <2>1 DEF Signalled
<1>22. Loops'
  <2> SUFFICES ASSUME NEW u \in Threads, NEW k \in DOMAIN stack'[u]
               PROVE  Goes(stack'[u][k], callbacks'[stack'[u][k].list],
                           connected'[stack'[u][k].list])
    BY DEF Loops, Goes, Running
  <2>1. k \in DOMAIN stack[u] /\ stack'[u][k] = stack[u][k]
    BY <1>10, <1>11 DEF s
  <2> DEFINE f == stack[u][k]
  <2>2. Goes(f, callbacks[f.list], connected[f.list]) /\ f.list \in Lists
    BY <1>1, <2>1, StackTypes DEF Loops
  <2>3. CASE f.list # All
    BY <1>2, <1>7, <2>1, <2>2, <2>3
  <2>4. CASE f.list = All
    <3>1. u # t
      BY <1>11, <1>12, <2>1, <2>4 DEF s
    <3>2. f.at = "lock"
      BY <1>3, <2>1, <2>4, <3>1 DEF Holds
    <3> QED
      BY <2>1, <3>2 DEF Goes
  <2> QED
    BY <2>3, <2>4
<1> QED
  BY <1>13, <1>14, <1>17, <1>18, <1>19, <1>20, <1>21, <1>22 DEF IInv

-----------------------------------------------------------------------------
(* What the clients want.                                                  *)

LEMMA WantStep ==
  ASSUME IInv, NEW t \in Threads, NEW w \in Want, wants' = [wants EXCEPT ![t] = w],
         UNCHANGED <<callbacks, signalling, stack, connected>>,
         sent' \in 0 .. MaxSent, edits' \in 0 .. MaxEdits, Allowed(t, w)
  PROVE  IInv'
<1>1. TypeOK /\ Nested /\ Exclusive /\ Allows /\ Listed /\ Counted /\ Signalled /\ Loops
  BY DEF IInv
<1>2. TypeOK'
  BY <1>1 DEF TypeOK
<1>3. Nested' /\ Exclusive' /\ Listed' /\ Counted' /\ Signalled' /\ Loops'
  <2>1. Nested'
    BY <1>1 DEF Nested, Running, Rank, Ranks
  <2>2. Exclusive'
    BY <1>1 DEF Exclusive, Holds
  <2>3. Listed'
    BY <1>1 DEF Listed, Holds, Agrees, Distinct
  <2>4. Counted'
    BY <1>1, CountedSame DEF Calling, Running
  <2>5. Signalled'
    BY <1>1 DEF Signalled, Inside
  <2>6. Loops'
    <3> SUFFICES ASSUME NEW u \in Threads, NEW k \in DOMAIN stack'[u]
                 PROVE  Goes(stack'[u][k], callbacks'[stack'[u][k].list],
                             connected'[stack'[u][k].list])
      BY DEF Loops, Goes, Running
    <3> QED
      BY <1>1 DEF Loops
  <2> QED
    BY <2>1, <2>2, <2>3, <2>4, <2>5, <2>6
<1>4. Allows'
  <2> SUFFICES ASSUME NEW u \in Threads PROVE Allowed(u, wants[u])'
    BY DEF Allows
  <2>1. Allowed(u, wants'[u])
    BY <1>1 DEF Allows, TypeOK
  <2> QED
    BY <2>1 DEF Allowed, Busy, Top, Running, Inside
<1> QED
  BY <1>2, <1>3, <1>4 DEF IInv

LEMMA WantSignalStep ==
  ASSUME IInv, SignalsAssumption, NEW t \in Threads, NEW s \in Signals, WantSignal(t, s)
  PROVE  IInv'
<1> DEFINE w == [call |-> "signal", list |-> s]
<1>1. /\ Busy(t) => Running(Top(t)) /\ <<Top(t).list, s>> \in Uses
      /\ wants' = [wants EXCEPT ![t] = w] /\ sent < MaxSent /\ sent' = sent + 1
      /\ UNCHANGED <<callbacks, signalling, stack, connected, edits>>
  BY DEF WantSignal, InClient, MayUse
<1>2. w \in Want /\ w.call = "signal" /\ w.list = s
  BY DEF Want
<1> HIDE DEF w
<1>3. Allowed(t, w)
  BY <1>1, <1>2 DEF Allowed
<1>4. sent' \in 0 .. MaxSent /\ edits' \in 0 .. MaxEdits
  BY <1>1 DEF IInv, TypeOK, SignalsAssumption
<1> QED
  BY <1>1, <1>2, <1>3, <1>4, WantStep

LEMMA WantEditStep ==
  ASSUME IInv, SignalsAssumption, NEW t \in Threads, NEW l \in Lists,
         NEW c \in Callbacks, WantEdit(t, l, c), ~ misused'
  PROVE  IInv'
<1>1. PICK e \in {"connect", "disconnect"} :
        /\ ~ Misuse(t, e, l, c)
        /\ wants' = [wants EXCEPT ![t] = [call |-> e, list |-> l, callback |-> c]]
  BY DEF WantEdit
<1>2. /\ Busy(t) => Running(Top(t))
      /\ ~ (Inside(t, All) /\ l = All)
      /\ edits < MaxEdits /\ edits' = edits + 1
      /\ UNCHANGED <<callbacks, signalling, stack, connected, sent>>
  BY <1>1 DEF WantEdit, InClient, Misuse
<1> DEFINE w == [call |-> e, list |-> l, callback |-> c]
<1>3. w \in Want /\ w.call = e /\ w.list = l /\ w.callback = c /\ w.call # "signal"
  BY DEF Want
<1>4. wants' = [wants EXCEPT ![t] = w]
  BY <1>1
<1> HIDE DEF w
<1>5. e = "connect" /\ Inside(t, l) =>
        \A i \in DOMAIN callbacks[l] : callbacks[l][i].callback = c => ~ callbacks[l][i].remove
  BY <1>1 DEF Misuse, Range
<1>6. Allowed(t, w)
  BY <1>2, <1>3, <1>5 DEF Allowed
<1>7. sent' \in 0 .. MaxSent /\ edits' \in 0 .. MaxEdits
  BY <1>2 DEF IInv, TypeOK, SignalsAssumption
<1> QED
  BY <1>2, <1>3, <1>4, <1>6, <1>7, WantStep

-----------------------------------------------------------------------------
(* A callback is connected.                                                *)

Grown(q, r) == /\ Len(q) <= Len(r) /\ DOMAIN q \subseteq DOMAIN r
               /\ \A i \in DOMAIN q : r[i] = q[i]

LEMMA GoesGrown ==
  ASSUME NEW f \in Frame, NEW q \in Seq(Entry), NEW r \in Seq(Entry), NEW clients, NEW more,
         Goes(f, q, clients), Grown(q, r), clients \subseteq more
  PROVE  Goes(f, r, more)
<1> SUFFICES ASSUME f.at # "lock" PROVE Goes(f, r, more)
  BY DEF Goes
<1>1. f.i \in Nat /\ f.i <= Len(q) + 1
  BY FrameTypes DEF Goes
<1>2. /\ Len(q) <= Len(r) /\ \A i \in DOMAIN q : i \in DOMAIN r /\ r[i] = q[i]
      /\ Len(q) \in Nat /\ Len(r) \in Nat
  BY DEF Grown
<1>3. Running(f) => /\ f.i \in DOMAIN r /\ f.called # <<>>
                    /\ f.called[Len(f.called)] = r[f.i].callback
                    /\ r[f.i].remove => f.left
  BY <1>2 DEF Goes
<1>4. \A m \in DOMAIN f.called :
        \E j \in DOMAIN r : r[j].callback = f.called[m] /\ (j < f.i \/ (Running(f) /\ j = f.i))
  BY <1>2 DEF Goes
<1>5. \A c \in f.owed : \/ \E m \in DOMAIN f.called : f.called[m] = c
                        \/ \E j \in DOMAIN r : j >= f.i /\ r[j].callback = c
  BY <1>2 DEF Goes
<1>6. /\ f.owed \subseteq more
      /\ \A m, n \in DOMAIN f.called : f.called[m] = f.called[n] => m = n
  BY DEF Goes
<1>7. f.i <= Len(r) + 1
  BY <1>1, <1>2
<1> QED
  BY <1>3, <1>4, <1>5, <1>6, <1>7 DEF Goes

LEMMA AgreesMore ==
  ASSUME NEW q \in Seq(Entry), NEW clients, Agrees(q, clients), NEW c \in Callbacks,
         \A i \in DOMAIN q : q[i].callback # c
  PROVE  LET r == Append(q, Fresh(c))
         IN  /\ r \in Seq(Entry) /\ Agrees(r, clients \union {c}) /\ Grown(q, r)
             /\ \A i \in DOMAIN r : i \in DOMAIN q \/ (~ r[i].remove /\ r[i].signaling = 0)
<1> DEFINE e == Fresh(c)
           r == Append(q, e)
           n == Len(q)
<1>1. e \in Entry /\ e.callback = c /\ ~ e.remove /\ e.signaling = 0
  BY DEF Fresh, Entry
<1> HIDE DEF e
<1>2. /\ r \in Seq(Entry) /\ Len(r) = n + 1 /\ DOMAIN r = 1 .. n + 1 /\ r[n + 1] = e
      /\ n \in Nat /\ DOMAIN q = 1 .. n /\ \A i \in 1 .. n : r[i] = q[i]
  BY <1>1
<1> HIDE DEF r, n
<1>3. /\ \A i \in 1 .. n + 1 : i \in 1 .. n \/ i = n + 1
      /\ \A i \in 1 .. n : i \in 1 .. n + 1
      /\ n + 1 \in 1 .. n + 1 /\ n <= n + 1
  BY <1>2
<1>4. Grown(q, r)
  BY <1>2, <1>3 DEF Grown, n
<1>5. Distinct(r)
  <2>1. Distinct(q)
    BY DEF Agrees
  <2> SUFFICES ASSUME NEW i \in 1 .. n + 1, NEW j \in 1 .. n + 1, r[i].callback = r[j].callback
               PROVE  i = j
    BY <1>2 DEF Distinct
  <2> QED
    BY <1>1, <1>2, <1>3, <2>1 DEF Distinct
<1>6. \A d \in clients \union {c} : \E i \in DOMAIN r : r[i].callback = d /\ ~ r[i].remove
  <2> TAKE d \in clients \union {c}
  <2>1. CASE d = c
    BY <1>1, <1>2, <1>3, <2>1
  <2>2. CASE d \in clients
    <3>1. PICK i \in 1 .. n : q[i].callback = d /\ ~ q[i].remove
      BY <1>2, <2>2 DEF Agrees
    <3> QED
      BY <1>2, <1>3, <3>1
  <2> QED
    BY <2>1, <2>2
<1>7. \A i \in DOMAIN r : ~ r[i].remove => r[i].callback \in clients \union {c}
  BY <1>1, <1>2, <1>3 DEF Agrees
<1>8. \A i \in DOMAIN r : i \in DOMAIN q \/ (~ r[i].remove /\ r[i].signaling = 0)
  BY <1>1, <1>2, <1>3
<1> QED
  BY <1>2, <1>4, <1>5, <1>6, <1>7, <1>8 DEF Agrees, r, e

Moved(t) ==
  [stack EXCEPT ![t] = [k \in DOMAIN @ |->
     IF @[k].list = All /\ Running(@[k]) THEN [@[k] EXCEPT !.moved = TRUE] ELSE @[k]]]

LEMMA ConnectStep ==
  ASSUME IInv, SignalsAssumption, NEW t \in Threads, Connect(t)
  PROVE  IInv'
<1>1. TypeOK /\ Nested /\ Exclusive /\ Allows /\ Listed /\ Counted /\ Signalled /\ Loops
  BY DEF IInv
<1>2. PICK l, c : l = wants[t].list /\ c = wants[t].callback
  OBVIOUS
<1>3. /\ wants[t].call = "connect" /\ Lockable(t, l) /\ wants' = [wants EXCEPT ![t] = Nothing]
      /\ callbacks' = IF Found(l, c) # {} THEN callbacks
                      ELSE [callbacks EXCEPT ![l] = Append(@, Fresh(c))]
      /\ stack' = stack \/ (l = All /\ stack' = Moved(t))
      /\ connected' = [connected EXCEPT ![l] = @ \union {c}]
      /\ UNCHANGED <<signalling, sent, edits>>
  BY <1>2 DEF Connect, Makes, Moves, Moved
<1>4. l \in Lists /\ c \in Callbacks /\ wants[t] # Nothing
  BY <1>1, <1>2, <1>3, WantTypes
<1>5. /\ ~ (Inside(t, All) /\ l = All)
      /\ Inside(t, l) =>
           \A i \in DOMAIN callbacks[l] : callbacks[l][i].callback = c => ~ callbacks[l][i].remove
  BY <1>1, <1>2, <1>3, <1>4 DEF Allows, Allowed
<1>6. stack' = stack
  <2>1. CASE stack' = stack
    BY <2>1
  <2>2. CASE l = All /\ stack' = Moved(t)
    <3> DEFINE s == stack[t]
    <3>1. s \in Seq(Frame) /\ s = [k \in DOMAIN s |-> s[k]]
      BY <1>1, StackTypes
    <3>2. \A k \in DOMAIN s : s[k].list # All
      BY <1>5, <2>2 DEF Inside
    <3>3. [k \in DOMAIN s |->
             IF s[k].list = All /\ Running(s[k]) THEN [s[k] EXCEPT !.moved = TRUE] ELSE s[k]]
          = [k \in DOMAIN s |-> s[k]]
      BY <3>2
    <3>4. stack' = [stack EXCEPT ![t] = s]
      BY <2>2, <3>1, <3>3 DEF Moved
    <3> QED
      BY <1>1, <3>4 DEF TypeOK
  <2> QED
    BY <1>3, <2>1, <2>2
<1> DEFINE q == callbacks[l]
           r == callbacks'[l]
<1>7. q \in Seq(Entry) /\ Agrees(q, connected[l])
  BY <1>1, <1>4, ListTypes DEF Listed
<1>8. \A i \in DOMAIN q : q[i].callback = c => ~ q[i].remove
  <2>1. CASE Inside(t, l)
    BY <1>5, <2>1
  <2>2. CASE ~ Inside(t, l)
    <3>1. \A u \in Threads : ~ Holds(u, l)
      BY <1>3, <2>2, Alone DEF Holds, Inside
    <3> QED
      BY <1>1, <1>4, <3>1, AtRest
  <2> QED
    BY <2>1, <2>2
<1>9. /\ callbacks' \in [Lists -> Seq(Entry)]
      /\ \A m \in Lists : m # l => callbacks'[m] = callbacks[m]
      /\ r \in Seq(Entry) /\ Agrees(r, connected[l] \union {c}) /\ Grown(q, r)
      /\ \A i \in DOMAIN r : \/ i \in DOMAIN q /\ r[i] = q[i]
                             \/ ~ r[i].remove /\ r[i].signaling = 0
  <2>1. \A i : i \in Found(l, c) <=> i \in DOMAIN q /\ q[i].callback = c
    BY <1>1, <1>3, <1>4, <1>5, FoundIs
  <2>2. CASE Found(l, c) # {}
    <3>1. callbacks' = callbacks
      BY <1>3, <2>2
    <3>2. PICK i \in DOMAIN q : q[i].callback = c
      BY <2>1, <2>2
    <3>3. Agrees(q, connected[l] \union {c})
      BY <1>7, <1>8, <3>2 DEF Agrees
    <3>4. Grown(q, q)
      BY <1>7 DEF Grown
    <3> QED
      BY <1>1, <1>7, <3>1, <3>3, <3>4 DEF TypeOK
  <2>3. CASE Found(l, c) = {}
    <3> DEFINE z == Append(q, Fresh(c))
    <3>1. callbacks' = [callbacks EXCEPT ![l] = z]
      BY <1>3, <2>3
    <3>2. /\ z \in Seq(Entry) /\ Agrees(z, connected[l] \union {c}) /\ Grown(q, z)
          /\ \A i \in DOMAIN z : i \in DOMAIN q \/ (~ z[i].remove /\ z[i].signaling = 0)
      BY <1>4, <1>7, <2>1, <2>3, AgreesMore
    <3> HIDE DEF z
    <3>3. callbacks' \in [Lists -> Seq(Entry)] /\ r = z
          /\ \A m \in Lists : m # l => callbacks'[m] = callbacks[m]
      BY <1>1, <1>4, <3>1, <3>2 DEF TypeOK
    <3> QED
      BY <3>2, <3>3 DEF Grown
  <2> QED
    BY <2>2, <2>3
<1>10. /\ connected' \in [Lists -> SUBSET Callbacks] /\ connected'[l] = connected[l] \union {c}
       /\ \A m \in Lists : m # l => connected'[m] = connected[m]
  BY <1>1, <1>3, <1>4 DEF TypeOK
<1> HIDE DEF q, r
<1>11. /\ wants' \in [Threads -> Want] /\ wants'[t] = Nothing
       /\ \A u \in Threads : u # t => wants'[u] = wants[u]
  BY <1>1, <1>3 DEF TypeOK, Want
<1>12. TypeOK'
  BY <1>1, <1>3, <1>6, <1>9, <1>10, <1>11 DEF TypeOK
<1>13. Nested' /\ Exclusive' /\ Signalled'
  <2>1. Nested'
    BY <1>1, <1>6 DEF Nested, Running, Rank, Ranks
  <2>2. Exclusive'
    BY <1>1, <1>6 DEF Exclusive, Holds
  <2>3. Signalled'
    BY <1>1, <1>3, <1>6 DEF Signalled, Inside
  <2> QED
    BY <2>1, <2>2, <2>3
<1>14. \A u \in Threads, m \in Lists : (Holds(u, m)' <=> Holds(u, m))
  BY <1>6 DEF Holds
<1>15. Allows'
  <2>1. Outside(t)
    BY <1>6 DEF Outside, Same
  <2>2. \A u \in Threads, m \in Lists :
          u # t /\ m # All /\ Inside(u, m) => Alike(callbacks[m], callbacks'[m])
    <3> TAKE u \in Threads, m \in Lists
    <3> HAVE u # t /\ m # All /\ Inside(u, m)
    <3>1. m # l
      BY <1>1, <1>3, Alone, InsideHolds
    <3> QED
      BY <1>9, <3>1, AlikeItself
  <2> QED
    BY <1>1, <1>11, <2>1, <2>2, AllowsStep
<1>16. Listed'
  <2> SUFFICES ASSUME NEW m \in Lists
               PROVE  /\ Agrees(callbacks'[m], connected'[m])
                      /\ (\E i \in DOMAIN callbacks'[m] : callbacks'[m][i].remove) =>
                           \E u \in Threads : Holds(u, m)'
    BY DEF Listed, Holds, Agrees
  <2>1. CASE m = l
    <3>1. Agrees(callbacks'[m], connected'[m])
      BY <1>9, <1>10, <2>1 DEF r
    <3>2. ASSUME \E i \in DOMAIN callbacks'[m] : callbacks'[m][i].remove
          PROVE  \E u \in Threads : Holds(u, m)'
      <4>1. \E i \in DOMAIN callbacks[m] : callbacks[m][i].remove
        BY <1>9, <2>1, <3>2 DEF r, q
      <4> QED
        BY <1>1, <1>14, <4>1 DEF Listed
    <3> QED
      BY <3>1, <3>2
  <2>2. CASE m # l
    BY <1>1, <1>9, <1>10, <1>14, <2>2 DEF Listed
  <2> QED
    BY <2>1, <2>2
<1>17. Counted'
  <2> SUFFICES ASSUME NEW m \in Lists, NEW j \in DOMAIN callbacks'[m]
               PROVE  callbacks'[m][j].signaling = IF m = All /\ Calling(j)' THEN 1 ELSE 0
    BY DEF Counted, Calling
  <2>1. Calling(j)' <=> Calling(j)
    BY <1>6 DEF Calling, Running
  <2>2. CASE j \in DOMAIN callbacks[m] /\ callbacks'[m][j] = callbacks[m][j]
    BY <1>1, <2>1, <2>2 DEF Counted
  <2>3. CASE m = l /\ ~ (j \in DOMAIN callbacks[m] /\ callbacks'[m][j] = callbacks[m][j])
    <3>1. callbacks'[m][j].signaling = 0
      BY <1>9, <2>3 DEF r, q
    <3>2. ASSUME m = All PROVE ~ Calling(j)
      <4>1. \A u \in Threads : ~ Holds(u, All)
        BY <1>3, <1>5, <2>3, <3>2, Alone DEF Holds, Inside
      <4>2. j \notin DOMAIN callbacks[m] \/ callbacks'[m][j] # callbacks[m][j]
        BY <2>3
      <4> QED
        BY <4>1, NotCalling
    <3> QED
      BY <2>1, <3>1, <3>2
  <2> QED
    BY <1>9, <2>2, <2>3
<1>18. Loops'
  <2> SUFFICES ASSUME NEW u \in Threads, NEW k \in DOMAIN stack'[u]
               PROVE  Goes(stack'[u][k], callbacks'[stack'[u][k].list],
                           connected'[stack'[u][k].list])
    BY DEF Loops, Goes, Running
  <2> DEFINE f == stack[u][k]
  <2>1. stack'[u][k] = f /\ k \in DOMAIN stack[u]
    BY <1>6
  <2>2. Goes(f, callbacks[f.list], connected[f.list]) /\ f \in Frame /\ f.list \in Lists
    BY <1>1, <2>1, StackTypes DEF Loops
  <2> HIDE DEF f
  <2>3. CASE f.list # l
    BY <1>9, <1>10, <2>1, <2>2, <2>3
  <2>4. CASE f.list = l
    <3>1. Goes(f, q, connected[l])
      BY <2>2, <2>4 DEF q
    <3>2. connected[l] \subseteq connected'[l]
      BY <1>10
    <3>3. Goes(f, r, connected'[l])
      BY <1>7, <1>9, <2>2, <3>1, <3>2, GoesGrown
    <3> QED
      BY <2>1, <2>4, <3>3 DEF r
  <2> QED
    BY <2>3, <2>4
<1> QED
  BY <1>12, <1>13, <1>15, <1>16, <1>17, <1>18 DEF IInv

-----------------------------------------------------------------------------
(* A callback is disconnected.                                             *)

Left(f, g, l, c, u, t) ==
  /\ Same(f, g) /\ g.moved = f.moved
  /\ f.list # l => g = f
  /\ f.list = l => /\ g.owed = f.owed \ {c}
                   /\ f.left => g.left
                   /\ u = t /\ Running(f) /\ f.called[Len(f.called)] = c => g.left

LEMMA LeftFrame ==
  ASSUME NEW f \in Frame, NEW l, NEW c, NEW u, NEW t, NEW g,
         g = IF f.list # l THEN f
             ELSE [f EXCEPT !.owed = @ \ {c},
                            !.left = @ \/ (u = t /\ Running(f) /\ Last(f.called) = c)]
  PROVE  g \in Frame /\ Left(f, g, l, c, u, t)
<1>1. CASE f.list # l
  BY <1>1 DEF Left, Same
<1>2. CASE f.list = l
  <2> DEFINE b == f.left \/ (u = t /\ Running(f) /\ Last(f.called) = c)
  <2>1. b \in BOOLEAN /\ f.owed \ {c} \in SUBSET Callbacks
    BY FrameTypes
  <2>2. (f.left => b) /\ (u = t /\ Running(f) /\ f.called[Len(f.called)] = c => b)
    BY DEF Last
  <2>3. g = [f EXCEPT !.owed = @ \ {c}, !.left = b]
    BY <1>2
  <2> HIDE DEF b
  <2>4. /\ g \in Frame /\ g.list = f.list /\ g.at = f.at /\ g.i = f.i /\ g.called = f.called
        /\ g.moved = f.moved /\ g.owed = f.owed \ {c} /\ g.left = b
    BY <2>1, <2>3 DEF Frame
  <2> QED
    BY <1>2, <2>2, <2>4 DEF Left, Same
<1> QED
  BY <1>1, <1>2

LEMMA LeavesFrames ==
  ASSUME TypeOK, NEW t \in Threads, NEW l \in Lists, NEW c, Leaves(t, l, c)
  PROVE  /\ connected' \in [Lists -> SUBSET Callbacks] /\ connected'[l] = connected[l] \ {c}
         /\ \A m \in Lists : m # l => connected'[m] = connected[m]
         /\ stack' \in [Threads -> Seq(Frame)]
         /\ \A u \in Threads :
              /\ DOMAIN stack'[u] = DOMAIN stack[u] /\ Len(stack'[u]) = Len(stack[u])
              /\ \A k \in DOMAIN stack[u] : Left(stack[u][k], stack'[u][k], l, c, u, t)
<1>1. /\ connected' = [connected EXCEPT ![l] = @ \ {c}]
      /\ stack' = [u \in Threads |-> [k \in DOMAIN stack[u] |->
                     IF stack[u][k].list # l THEN stack[u][k]
                     ELSE [stack[u][k] EXCEPT !.owed = @ \ {c},
                             !.left = @ \/ (u = t /\ Running(stack[u][k])
                                            /\ Last(stack[u][k].called) = c)]]]
  BY DEF Leaves
<1>2. /\ connected' \in [Lists -> SUBSET Callbacks] /\ connected'[l] = connected[l] \ {c}
      /\ \A m \in Lists : m # l => connected'[m] = connected[m]
  BY <1>1 DEF TypeOK
<1>3. ASSUME NEW u \in Threads
      PROVE  /\ stack'[u] \in Seq(Frame)
             /\ DOMAIN stack'[u] = DOMAIN stack[u] /\ Len(stack'[u]) = Len(stack[u])
             /\ \A k \in DOMAIN stack[u] : Left(stack[u][k], stack'[u][k], l, c, u, t)
  <2> DEFINE s == stack[u]
             n == Len(s)
             d == stack'[u]
  <2>1. /\ n \in Nat /\ DOMAIN s = 1 .. n /\ \A k \in 1 .. n : s[k] \in Frame
    BY StackTypes
  <2>2. /\ DOMAIN d = 1 .. n
        /\ d = [k \in 1 .. n |-> d[k]]
        /\ \A k \in 1 .. n : d[k] = IF s[k].list # l THEN s[k]
             ELSE [s[k] EXCEPT !.owed = @ \ {c},
                     !.left = @ \/ (u = t /\ Running(s[k]) /\ Last(s[k].called) = c)]
    BY <1>1, <2>1
  <2> HIDE DEF s, n, d
  <2>3. ASSUME NEW k \in 1 .. n PROVE d[k] \in Frame /\ Left(s[k], d[k], l, c, u, t)
    <3>1. s[k] \in Frame
      BY <2>1
    <3> QED
      BY <2>2, <3>1, LeftFrame
  <2>4. d \in Seq(Frame) /\ Len(d) = n
    <3>1. d \in [1 .. n -> Frame]
      BY <2>2, <2>3
    <3> QED
      BY <2>1, <3>1
  <2> QED
    BY <2>1, <2>2, <2>3, <2>4 DEF s, n, d
<1>4. stack' \in [Threads -> Seq(Frame)]
  <2>1. stack' = [u \in Threads |-> stack'[u]]
    BY <1>1
  <2> QED
    BY <1>3, <2>1
<1> QED
  BY <1>2, <1>3, <1>4

(* What leaving a list disturbs, but for that list and the loops in it.    *)
LEMMA LeavesStep ==
  ASSUME IInv, NEW t \in Threads, NEW l \in Lists, NEW c, Leaves(t, l, c),
         callbacks' \in [Lists -> Seq(Entry)],
         \A m \in Lists : m # l => callbacks'[m] = callbacks[m],
         \A u \in Threads : u # t => ~ Holds(u, l),
         Agrees(callbacks'[l], connected[l] \ {c}),
         (\E i \in DOMAIN callbacks'[l] : callbacks'[l][i].remove) => Holds(t, l),
         \A j \in DOMAIN callbacks'[l] :
           callbacks'[l][j].signaling = IF l = All /\ Calling(j) THEN 1 ELSE 0,
         \A k \in DOMAIN stack[t] :
           stack[t][k].list = l => Goes(stack'[t][k], callbacks'[l], connected[l] \ {c}),
         signalling' = signalling, wants' \in [Threads -> Want], wants'[t] = Nothing,
         \A u \in Threads : u # t => wants'[u] = wants[u],
         sent' \in 0 .. MaxSent, edits' \in 0 .. MaxEdits
  PROVE  IInv'
<1>1. TypeOK /\ Nested /\ Exclusive /\ Allows /\ Listed /\ Counted /\ Signalled /\ Loops
  BY DEF IInv
<1>2. /\ connected' \in [Lists -> SUBSET Callbacks] /\ connected'[l] = connected[l] \ {c}
      /\ \A m \in Lists : m # l => connected'[m] = connected[m]
      /\ stack' \in [Threads -> Seq(Frame)]
      /\ \A u \in Threads :
           /\ DOMAIN stack'[u] = DOMAIN stack[u] /\ Len(stack'[u]) = Len(stack[u])
           /\ \A k \in DOMAIN stack[u] : Left(stack[u][k], stack'[u][k], l, c, u, t)
  BY <1>1, LeavesFrames
<1>3. \A u \in Threads :
        /\ DOMAIN stack'[u] = DOMAIN stack[u] /\ Len(stack'[u]) = Len(stack[u])
        /\ \A k \in DOMAIN stack[u] :
             /\ stack'[u][k].list = stack[u][k].list /\ stack'[u][k].at = stack[u][k].at
             /\ stack'[u][k].i = stack[u][k].i /\ stack'[u][k].called = stack[u][k].called
             /\ stack'[u][k].moved = stack[u][k].moved
             /\ stack[u][k].list # l => stack'[u][k] = stack[u][k]
  BY <1>2 DEF Left, Same
<1>4. TypeOK'
  BY <1>1, <1>2 DEF TypeOK
<1>5. Nested'
  <2> SUFFICES ASSUME NEW u \in Threads, NEW k \in DOMAIN stack'[u]
               PROVE  LET g == stack'[u][k]
                      IN  /\ k < Len(stack'[u]) => Running(g) /\ g.list # All
                          /\ g.at = "lock" => g.list = All /\ g.called = <<>>
                          /\ ~ g.moved
                          /\ g.list # All =>
                               \A j \in 1 .. k - 1 : Rank[stack'[u][j].list] < Rank[g.list]
    BY DEF Nested, Running, Rank, Ranks
  <2>1. LET g == stack[u][k]
        IN  /\ k < Len(stack[u]) => Running(g) /\ g.list # All
            /\ g.at = "lock" => g.list = All /\ g.called = <<>>
            /\ ~ g.moved
            /\ g.list # All => \A j \in 1 .. k - 1 : Rank[stack[u][j].list] < Rank[g.list]
    BY <1>1, <1>3 DEF Nested
  <2>2. k \in 1 .. Len(stack[u]) /\ DOMAIN stack[u] = 1 .. Len(stack[u]) /\ Len(stack[u]) \in Nat
    BY <1>1, <1>3, StackTypes
  <2>3. \A j \in 1 .. k - 1 : j \in DOMAIN stack[u]
    BY <2>2
  <2>4. \A j \in 1 .. k - 1 : stack'[u][j].list = stack[u][j].list
    BY <1>3, <2>3
  <2>5. /\ Len(stack'[u]) = Len(stack[u])
        /\ stack'[u][k].list = stack[u][k].list /\ stack'[u][k].at = stack[u][k].at
        /\ stack'[u][k].called = stack[u][k].called /\ stack'[u][k].moved = stack[u][k].moved
    BY <1>3
  <2> QED
    BY <2>1, <2>4, <2>5 DEF Running
<1>6. \A u \in Threads, m \in Lists :
        (Holds(u, m)' <=> Holds(u, m)) /\ (Inside(u, m)' <=> Inside(u, m))
  <2> TAKE u \in Threads, m \in Lists
  <2>1. /\ DOMAIN stack'[u] = DOMAIN stack[u]
        /\ \A k \in DOMAIN stack[u] :
             stack'[u][k].list = stack[u][k].list /\ stack'[u][k].at = stack[u][k].at
    BY <1>3
  <2> QED
    BY <2>1 DEF Holds, Inside
<1>7. Exclusive'
  BY <1>1, <1>6 DEF Exclusive, Holds
<1>8. Signalled'
  <2>1. \A s \in Signals : s \in Lists
    BY DEF Lists
  <2> QED
    BY <1>1, <1>6, <2>1 DEF Signalled
<1>9. Allows'
  <2>1. Outside(t)
    BY <1>3 DEF Outside, Same
  <2>2. \A u \in Threads, m \in Lists :
          u # t /\ m # All /\ Inside(u, m) => Alike(callbacks[m], callbacks'[m])
    <3> TAKE u \in Threads, m \in Lists
    <3> HAVE u # t /\ m # All /\ Inside(u, m)
    <3>1. m # l
      BY <1>1, InsideHolds
    <3> QED
      BY <3>1, AlikeItself
  <2> QED
    BY <1>1, <2>1, <2>2, AllowsStep
<1>10. Listed'
  <2> SUFFICES ASSUME NEW m \in Lists
               PROVE  /\ Agrees(callbacks'[m], connected'[m])
                      /\ (\E i \in DOMAIN callbacks'[m] : callbacks'[m][i].remove) =>
                           \E u \in Threads : Holds(u, m)'
    BY DEF Listed, Holds, Agrees
  <2>1. CASE m = l
    BY <1>2, <1>6, <2>1
  <2>2. CASE m # l
    BY <1>1, <1>2, <1>6, <2>2 DEF Listed
  <2> QED
    BY <2>1, <2>2
<1>11. Counted'
  <2> SUFFICES ASSUME NEW m \in Lists, NEW j \in DOMAIN callbacks'[m]
               PROVE  callbacks'[m][j].signaling = IF m = All /\ Calling(j)' THEN 1 ELSE 0
    BY DEF Counted, Calling
  <2>1. Calling(j)' <=> Calling(j)
    <3>1. \A u \in Threads :
            (\E k \in DOMAIN stack'[u] :
               stack'[u][k].list = All /\ Running(stack'[u][k]) /\ stack'[u][k].i = j)
            <=> (\E k \in DOMAIN stack[u] :
                   stack[u][k].list = All /\ Running(stack[u][k]) /\ stack[u][k].i = j)
      <4> TAKE u \in Threads
      <4>1. /\ DOMAIN stack'[u] = DOMAIN stack[u]
            /\ \A k \in DOMAIN stack[u] :
                 /\ stack'[u][k].list = stack[u][k].list /\ stack'[u][k].at = stack[u][k].at
                 /\ stack'[u][k].i = stack[u][k].i
        BY <1>3
      <4> QED
        BY <4>1 DEF Running
    <3> QED
      BY <3>1 DEF Calling, Running
  <2>2. CASE m = l
    BY <2>1, <2>2
  <2>3. CASE m # l
    BY <1>1, <2>1, <2>3 DEF Counted
  <2> QED
    BY <2>2, <2>3
<1>12. Loops'
  <2> SUFFICES ASSUME NEW u \in Threads, NEW k \in DOMAIN stack'[u]
               PROVE  Goes(stack'[u][k], callbacks'[stack'[u][k].list],
                           connected'[stack'[u][k].list])
    BY DEF Loops, Goes, Running
  <2>1. /\ k \in DOMAIN stack[u] /\ stack'[u][k].list = stack[u][k].list
        /\ stack'[u][k].at = stack[u][k].at
        /\ stack[u][k].list # l => stack'[u][k] = stack[u][k]
    BY <1>3
  <2>2. /\ Goes(stack[u][k], callbacks[stack[u][k].list], connected[stack[u][k].list])
        /\ stack[u][k].list \in Lists
    BY <1>1, <2>1, StackTypes DEF Loops
  <2>3. CASE stack[u][k].list # l
    BY <1>2, <2>1, <2>2, <2>3
  <2>4. CASE stack[u][k].list = l /\ u = t
    BY <1>2, <2>1, <2>4
  <2>5. CASE stack[u][k].list = l /\ u # t
    <3>1. stack'[u][k].at = "lock"
      BY <2>1, <2>5 DEF Holds
    <3> QED
      BY <3>1 DEF Goes
  <2> QED
    BY <2>3, <2>4, <2>5
<1> QED
  BY <1>4, <1>5, <1>7, <1>8, <1>9, <1>10, <1>11, <1>12 DEF IInv

(* Entries of r are those of q; only those of c may have got a mark.       *)
Marked(q, r, c) ==
  /\ DOMAIN r = DOMAIN q /\ Len(r) = Len(q)
  /\ \A j \in DOMAIN q : /\ r[j].callback = q[j].callback
                         /\ r[j].remove => q[j].remove \/ q[j].callback = c

LEMMA GoesMarked ==
  ASSUME NEW f \in Frame, NEW g \in Frame, NEW q, NEW r, NEW clients, NEW c, NEW l, NEW t,
         Goes(f, q, clients), Left(f, g, l, c, t, t), f.list = l, Marked(q, r, c)
  PROVE  Goes(g, r, clients \ {c})
<1>1. /\ g.at = f.at /\ g.i = f.i /\ g.called = f.called /\ g.owed = f.owed \ {c}
      /\ f.left => g.left
      /\ Running(f) /\ f.called[Len(f.called)] = c => g.left
  BY DEF Left, Same
<1>2. /\ DOMAIN r = DOMAIN q /\ Len(r) = Len(q)
      /\ \A j \in DOMAIN q : /\ r[j].callback = q[j].callback
                             /\ r[j].remove => q[j].remove \/ q[j].callback = c
  BY DEF Marked
<1> SUFFICES ASSUME g.at # "lock" PROVE Goes(g, r, clients \ {c})
  BY DEF Goes
<1>3. Running(g) => /\ g.i \in DOMAIN r /\ g.called # <<>>
                    /\ g.called[Len(g.called)] = r[g.i].callback
                    /\ r[g.i].remove => g.left
  BY <1>1, <1>2 DEF Goes, Running
<1>4. /\ g.i <= Len(r) + 1
      /\ \A m \in DOMAIN g.called :
           \E j \in DOMAIN r : r[j].callback = g.called[m] /\ (j < g.i \/ (Running(g) /\ j = g.i))
  BY <1>1, <1>2 DEF Goes, Running
<1>5. /\ \A d \in g.owed : \/ \E m \in DOMAIN g.called : g.called[m] = d
                           \/ \E j \in DOMAIN r : j >= g.i /\ r[j].callback = d
      /\ g.owed \subseteq clients \ {c}
      /\ \A m, n \in DOMAIN g.called : g.called[m] = g.called[n] => m = n
  BY <1>1, <1>2 DEF Goes, Running
<1> QED
  BY <1>3, <1>4, <1>5 DEF Goes

LEMMA AgreesMarked ==
  ASSUME NEW q, NEW r, NEW clients, NEW c, Agrees(q, clients), Marked(q, r, c),
         \A j \in DOMAIN q : r[j].callback = c => r[j].remove,
         \A j \in DOMAIN q : q[j].remove => r[j].remove
  PROVE  Agrees(r, clients \ {c})
<1>1. /\ DOMAIN r = DOMAIN q
      /\ \A j \in DOMAIN q : /\ r[j].callback = q[j].callback
                             /\ r[j].remove => q[j].remove \/ q[j].callback = c
  BY DEF Marked
<1>2. Distinct(r)
  BY <1>1 DEF Agrees, Distinct
<1>3. \A d \in clients \ {c} : \E i \in DOMAIN r : r[i].callback = d /\ ~ r[i].remove
  BY <1>1 DEF Agrees
<1>4. \A i \in DOMAIN r : ~ r[i].remove => r[i].callback \in clients \ {c}
  BY <1>1 DEF Agrees
<1> QED
  BY <1>2, <1>3, <1>4 DEF Agrees

(* The callback of entry i leaves a list that its thread goes through.     *)
LEMMA MarkStep ==
  ASSUME IInv, NEW t \in Threads, NEW l \in Lists, NEW i \in DOMAIN callbacks[l], NEW c,
         c = callbacks[l][i].callback, Leaves(t, l, c),
         callbacks' = [callbacks EXCEPT ![l][i].remove = TRUE],
         Holds(t, l), \A u \in Threads : u # t => ~ Holds(u, l),
         signalling' = signalling, wants' \in [Threads -> Want], wants'[t] = Nothing,
         \A u \in Threads : u # t => wants'[u] = wants[u],
         sent' \in 0 .. MaxSent, edits' \in 0 .. MaxEdits
  PROVE  IInv'
<1>1. TypeOK /\ Listed /\ Counted /\ Loops
  BY DEF IInv
<1> DEFINE q == callbacks[l]
           e == [q[i] EXCEPT !.remove = TRUE]
           r == [q EXCEPT ![i] = e]
<1>2. callbacks' = [callbacks EXCEPT ![l] = r]
  OBVIOUS
<1>3. q \in Seq(Entry) /\ q[i] \in Entry /\ i \in DOMAIN q /\ q[i].callback = c
      /\ Agrees(q, connected[l])
  BY <1>1, ListTypes DEF Listed
<1>4. \A j \in DOMAIN q : q[j].signaling = IF l = All /\ Calling(j) THEN 1 ELSE 0
  BY <1>1 DEF Counted
<1> HIDE DEF q
<1>5. e \in Entry /\ e.callback = c /\ e.remove /\ e.signaling = q[i].signaling
  BY <1>3 DEF Entry
<1> HIDE DEF e
<1>6. r \in Seq(Entry) /\ DOMAIN r = DOMAIN q /\ Len(r) = Len(q)
      /\ \A j \in DOMAIN q : r[j] = IF j = i THEN e ELSE q[j]
  BY <1>3, <1>5
<1> HIDE DEF r
<1>7. callbacks' \in [Lists -> Seq(Entry)] /\ callbacks'[l] = r
      /\ \A m \in Lists : m # l => callbacks'[m] = callbacks[m]
  BY <1>1, <1>2, <1>6 DEF TypeOK
<1>8. Marked(q, r, c)
  BY <1>3, <1>5, <1>6 DEF Marked
<1>9. Agrees(r, connected[l] \ {c})
  <2>1. \A j \in DOMAIN q : r[j].callback = c => r[j].remove
    BY <1>3, <1>5, <1>6 DEF Agrees, Distinct
  <2>2. \A j \in DOMAIN q : q[j].remove => r[j].remove
    BY <1>5, <1>6
  <2> QED
    BY <1>3, <1>8, <2>1, <2>2, AgreesMarked
<1>10. \A j \in DOMAIN callbacks'[l] :
         callbacks'[l][j].signaling = IF l = All /\ Calling(j) THEN 1 ELSE 0
  <2> TAKE j \in DOMAIN callbacks'[l]
  <2>1. j \in DOMAIN q /\ callbacks'[l][j] = IF j = i THEN e ELSE q[j]
    BY <1>6, <1>7
  <2>2. callbacks'[l][j].signaling = q[j].signaling
    <3>1. CASE j = i
      BY <1>5, <2>1, <3>1
    <3>2. CASE j # i
      BY <2>1, <3>2
    <3> QED
      BY <3>1, <3>2
  <2>3. q[j].signaling = IF l = All /\ Calling(j) THEN 1 ELSE 0
    BY <1>4, <2>1
  <2> QED
    BY <2>2, <2>3
<1>11. \A k \in DOMAIN stack[t] :
         stack[t][k].list = l => Goes(stack'[t][k], callbacks'[l], connected[l] \ {c})
  <2> TAKE k \in DOMAIN stack[t]
  <2> HAVE stack[t][k].list = l
  <2>1. Left(stack[t][k], stack'[t][k], l, c, t, t) /\ k \in DOMAIN stack'[t]
        /\ stack' \in [Threads -> Seq(Frame)]
    BY <1>1, LeavesFrames
  <2>2. stack[t][k] \in Frame /\ stack'[t][k] \in Frame
    <3>1. stack'[t] \in Seq(Frame)
      BY <2>1
    <3> QED
      BY <1>1, <2>1, <3>1, StackTypes
  <2>3. Goes(stack[t][k], q, connected[l])
    BY <1>1 DEF Loops, q
  <2> QED
    BY <1>7, <1>8, <2>1, <2>2, <2>3, GoesMarked
<1>12. (\E j \in DOMAIN callbacks'[l] : callbacks'[l][j].remove) => Holds(t, l)
  OBVIOUS
<1>13. Agrees(callbacks'[l], connected[l] \ {c})
  BY <1>7, <1>9
<1> QED
  BY <1>7, <1>10, <1>11, <1>12, <1>13, LeavesStep

(* It leaves one that nobody goes through.                                 *)
LEMMA EraseStep ==
  ASSUME IInv, NEW t \in Threads, NEW l \in Lists, NEW i \in DOMAIN callbacks[l], NEW c,
         c = callbacks[l][i].callback, Leaves(t, l, c),
         callbacks' = [callbacks EXCEPT ![l] = Kept(@, (DOMAIN @) \ {i})],
         \A u \in Threads : ~ Holds(u, l),
         signalling' = signalling, wants' \in [Threads -> Want], wants'[t] = Nothing,
         \A u \in Threads : u # t => wants'[u] = wants[u],
         sent' \in 0 .. MaxSent, edits' \in 0 .. MaxEdits
  PROVE  IInv'
<1>1. TypeOK /\ Listed /\ Counted /\ Loops
  BY DEF IInv
<1> DEFINE q == callbacks[l]
           keep == (DOMAIN q) \ {i}
           r == Kept(q, keep)
           rest == connected[l] \ {c}
           clients == connected[l]
<1>2. callbacks' = [callbacks EXCEPT ![l] = r]
  OBVIOUS
<1>3. q \in Seq(Entry) /\ i \in DOMAIN q /\ q[i].callback = c /\ Agrees(q, clients)
  BY <1>1, ListTypes DEF Listed
<1>4. \A j \in DOMAIN q : ~ q[j].remove /\ q[j].signaling = 0
  BY <1>1, AtRest
<1>5. \A j \in DOMAIN q : j \in keep <=> j # i
  OBVIOUS
<1>6. \A d : d \in rest <=> d \in clients /\ d # c
  OBVIOUS
<1>7. r = Kept(q, keep)
  OBVIOUS
<1> HIDE DEF q, keep, r, rest, clients
<1>8. \A j \in DOMAIN q : j \in keep /\ ~ q[j].remove => q[j].callback \in rest
  BY <1>3, <1>5, <1>6 DEF Agrees, Distinct
<1>9. \A d \in rest : \E j \in DOMAIN q : j \in keep /\ q[j].callback = d /\ ~ q[j].remove
  BY <1>3, <1>5, <1>6 DEF Agrees
<1>10. r \in Seq(Entry) /\ Agrees(r, rest) /\ Among(q, keep, r)
  BY <1>3, <1>7, <1>8, <1>9, KeptAgrees
<1>11. \A k \in DOMAIN r : ~ r[k].remove /\ r[k].signaling = 0
  BY <1>4, <1>10 DEF Among
<1>12. callbacks' \in [Lists -> Seq(Entry)] /\ callbacks'[l] = r
       /\ \A m \in Lists : m # l => callbacks'[m] = callbacks[m]
  BY <1>1, <1>2, <1>10 DEF TypeOK
<1>13. \A j \in DOMAIN callbacks'[l] :
         callbacks'[l][j].signaling = IF l = All /\ Calling(j) THEN 1 ELSE 0
  <2> TAKE j \in DOMAIN callbacks'[l]
  <2>1. ~ (l = All /\ Calling(j))
    BY NotCalling
  <2> QED
    BY <1>11, <1>12, <2>1
<1>14. \A k \in DOMAIN stack[t] :
         stack[t][k].list = l => Goes(stack'[t][k], callbacks'[l], connected[l] \ {c})
  <2> TAKE k \in DOMAIN stack[t]
  <2> HAVE stack[t][k].list = l
  <2>1. Left(stack[t][k], stack'[t][k], l, c, t, t)
    BY <1>1, LeavesFrames
  <2>2. stack'[t][k].at = "lock"
    BY <2>1 DEF Left, Same, Holds
  <2> QED
    BY <2>2 DEF Goes
<1>15. Agrees(callbacks'[l], connected[l] \ {c})
       /\ ((\E j \in DOMAIN callbacks'[l] : callbacks'[l][j].remove) => Holds(t, l))
  BY <1>10, <1>11, <1>12 DEF rest
<1>16. \A u \in Threads : u # t => ~ Holds(u, l)
  OBVIOUS
<1> QED
  BY <1>12, <1>13, <1>14, <1>15, <1>16, LeavesStep

LEMMA DisconnectStep ==
  ASSUME IInv, SignalsAssumption, NEW t \in Threads, Disconnect(t)
  PROVE  IInv'
<1>1. TypeOK /\ Nested /\ Exclusive /\ Allows /\ Listed /\ Counted /\ Signalled /\ Loops
  BY DEF IInv
<1>2. PICK l, c : l = wants[t].list /\ c = wants[t].callback
  OBVIOUS
<1>3. /\ wants[t].call = "disconnect" /\ Lockable(t, l) /\ wants' = [wants EXCEPT ![t] = Nothing]
      /\ \/ \E i \in Found(l, c) : callbacks' = Disconnected(l, i)
         \/ Found(l, c) = {} /\ callbacks' = callbacks
      /\ Leaves(t, l, c)
      /\ UNCHANGED <<signalling, sent, edits>>
  BY <1>2 DEF Disconnect, Makes
<1>4. l \in Lists /\ c \in Callbacks /\ wants[t] # Nothing
  BY <1>1, <1>2, <1>3, WantTypes
<1>5. ~ (Inside(t, All) /\ l = All)
  BY <1>1, <1>2, <1>3, <1>4 DEF Allows, Allowed
<1>6. \A i : i \in Found(l, c) <=> i \in DOMAIN callbacks[l] /\ callbacks[l][i].callback = c
  BY <1>1, <1>3, <1>4, <1>5, FoundIs
<1>7. \A u \in Threads : u # t => ~ Holds(u, l)
  BY <1>3, Alone
<1>8. /\ wants' \in [Threads -> Want] /\ wants'[t] = Nothing
      /\ \A u \in Threads : u # t => wants'[u] = wants[u]
      /\ signalling' = signalling /\ sent' \in 0 .. MaxSent /\ edits' \in 0 .. MaxEdits
  BY <1>1, <1>3 DEF TypeOK, Want
<1>9. ASSUME NEW i \in Found(l, c), callbacks' = Disconnected(l, i) PROVE IInv'
  <2>1. i \in DOMAIN callbacks[l] /\ c = callbacks[l][i].callback
    BY <1>6, <1>9
  <2>2. CASE l \in Signals /\ signalling[l]
    <3>1. callbacks' = [callbacks EXCEPT ![l][i].remove = TRUE]
      BY <1>9, <2>2 DEF Disconnected
    <3>2. Holds(t, l)
      <4>1. PICK u \in Threads : Inside(u, l)
        BY <1>1, <2>2 DEF Signalled
      <4>2. l # All
        BY <2>2 DEF SignalsAssumption
      <4>3. Holds(u, l)
        BY <1>1, <4>1, <4>2, InsideHolds
      <4> QED
        BY <1>7, <4>3
    <3> QED
      BY <1>3, <1>4, <1>7, <1>8, <2>1, <3>1, <3>2, MarkStep
  <2>3. CASE ~ (l \in Signals /\ signalling[l])
    <3>1. callbacks' = [callbacks EXCEPT ![l] = Kept(@, (DOMAIN @) \ {i})]
      BY <1>9, <2>3 DEF Disconnected
    <3>2. \A u \in Threads : ~ Holds(u, l)
      <4>1. CASE l = All
        BY <1>5, <1>7, <4>1 DEF Holds, Inside
      <4>2. CASE l # All
        <5>1. l \in Signals /\ ~ signalling[l]
          BY <1>4, <2>3, <4>2 DEF Lists
        <5> QED
          BY <1>1, <5>1 DEF Signalled, Holds, Inside
      <4> QED
        BY <4>1, <4>2
    <3> QED
      BY <1>3, <1>4, <1>8, <2>1, <3>1, <3>2, EraseStep
  <2> QED
    BY <2>2, <2>3
<1>10. ASSUME Found(l, c) = {}, callbacks' = callbacks PROVE IInv'
  <2>1. \A j \in DOMAIN callbacks[l] : callbacks[l][j].callback # c
    BY <1>6, <1>10
  <2>2. /\ Agrees(callbacks[l], connected[l])
        /\ (\E i \in DOMAIN callbacks[l] : callbacks[l][i].remove) => \E u \in Threads : Holds(u, l)
    BY <1>1, <1>4 DEF Listed
  <2>3. Marked(callbacks[l], callbacks[l], c)
    BY DEF Marked
  <2>4. Agrees(callbacks[l], connected[l] \ {c})
    BY <2>1, <2>2, <2>3, AgreesMarked
  <2>5. (\E i \in DOMAIN callbacks[l] : callbacks[l][i].remove) => Holds(t, l)
    BY <1>7, <2>2
  <2>6. \A j \in DOMAIN callbacks[l] :
          callbacks[l][j].signaling = IF l = All /\ Calling(j) THEN 1 ELSE 0
    BY <1>1, <1>4 DEF Counted
  <2>7. \A k \in DOMAIN stack[t] :
          stack[t][k].list = l => Goes(stack'[t][k], callbacks[l], connected[l] \ {c})
    <3> TAKE k \in DOMAIN stack[t]
    <3> HAVE stack[t][k].list = l
    <3>1. Left(stack[t][k], stack'[t][k], l, c, t, t) /\ k \in DOMAIN stack'[t]
          /\ stack' \in [Threads -> Seq(Frame)]
      BY <1>1, <1>3, <1>4, LeavesFrames
    <3>2. stack[t][k] \in Frame /\ stack'[t][k] \in Frame
      <4>1. stack'[t] \in Seq(Frame)
        BY <3>1
      <4> QED
        BY <1>1, <3>1, <4>1, StackTypes
    <3>3. Goes(stack[t][k], callbacks[l], connected[l])
      BY <1>1 DEF Loops
    <3> QED
      BY <2>3, <3>1, <3>2, <3>3, GoesMarked
  <2>8. /\ callbacks' \in [Lists -> Seq(Entry)]
        /\ \A m \in Lists : m # l => callbacks'[m] = callbacks[m]
    BY <1>1, <1>10 DEF TypeOK
  <2> QED
    BY <1>3, <1>4, <1>7, <1>8, <1>10, <2>4, <2>5, <2>6, <2>7, <2>8, LeavesStep
<1> QED
  BY <1>3, <1>9, <1>10

LEMMA RemoveCurrentStep ==
  ASSUME IInv, SignalsAssumption, NEW t \in Threads, RemoveCurrent(t), ~ misused'
  PROVE  IInv'
<1>1. TypeOK /\ Nested /\ Exclusive /\ Allows /\ Listed /\ Counted /\ Signalled /\ Loops
  BY DEF IInv
<1>2. PICK l, i, c : l = Top(t).list /\ i = Top(t).i /\ c = Last(Top(t).called)
  OBVIOUS
<1>3. /\ Busy(t) /\ Running(Top(t)) /\ wants[t] = Nothing /\ edits < MaxEdits
      /\ Current(t) = <<l, i>> /\ Leaves(t, l, c) /\ edits' = edits + 1
      /\ UNCHANGED <<signalling, wants, sent>>
  BY <1>2 DEF RemoveCurrent, InClient
<1>4. /\ l \in Lists /\ i \in DOMAIN callbacks[l] /\ c = callbacks[l][i].callback
      /\ \A u \in Threads : u # t => ~ Holds(u, l)
  <2>1. /\ l \in Lists /\ Goes(Top(t), callbacks[l], connected[l])
        /\ \A u \in Threads : u # t => ~ Holds(u, l)
    BY <1>2, <1>3, Innermost DEF Running
  <2>2. /\ Top(t).i \in DOMAIN callbacks[l]
        /\ Top(t).called[Len(Top(t).called)] = callbacks[l][Top(t).i].callback
    BY <1>3, <2>1 DEF Goes, Running
  <2> QED
    BY <1>2, <2>1, <2>2 DEF Last
<1>5. callbacks' = [callbacks EXCEPT ![l][i].remove = TRUE]
  <2>1. /\ Current(t) # <<>> /\ Current(t)[1] = l /\ Current(t)[2] = i
    BY <1>3
  <2>2. IF Current(t) # <<>> /\ Current(t)[2] \in DOMAIN callbacks[Current(t)[1]]
        THEN callbacks' = [callbacks EXCEPT ![Current(t)[1]][Current(t)[2]].remove = TRUE]
        ELSE callbacks' = callbacks
    BY DEF RemoveCurrent
  <2> QED
    BY <1>4, <2>1, <2>2
<1>6. Holds(t, l)
  BY <1>1, <1>2, <1>3, TopHolds DEF Running
<1>7. /\ wants' \in [Threads -> Want] /\ wants'[t] = Nothing
      /\ \A u \in Threads : u # t => wants'[u] = wants[u]
      /\ signalling' = signalling /\ sent' \in 0 .. MaxSent /\ edits' \in 0 .. MaxEdits
  BY <1>1, <1>3 DEF TypeOK, SignalsAssumption
<1> QED
  BY <1>3, <1>4, <1>5, <1>6, <1>7, MarkStep

-----------------------------------------------------------------------------
(* The invariant holds, and what it says.                                  *)

LEMMA Beginning ==
  ASSUME SignalsAssumption, Init
  PROVE  IInv
<1>1. /\ callbacks = [l \in Lists |-> <<>>] /\ signalling = [s \in Signals |-> FALSE]
      /\ wants = [t \in Threads |-> Nothing] /\ stack = [t \in Threads |-> <<>>]
      /\ connected = [l \in Lists |-> {}] /\ sent = 0 /\ edits = 0
  BY DEF Init
<1>2. /\ \A t \in Threads : DOMAIN stack[t] = {} /\ wants[t] = Nothing
      /\ \A l \in Lists : DOMAIN callbacks[l] = {} /\ connected[l] = {}
  BY <1>1
<1>3. TypeOK
  BY <1>1 DEF TypeOK, Want, SignalsAssumption
<1>4. Nested /\ Exclusive
  BY <1>2 DEF Nested, Exclusive, Holds
<1>5. Allows
  BY <1>2 DEF Allows, Allowed
<1>6. Listed /\ Counted
  BY <1>2 DEF Listed, Agrees, Distinct, Counted
<1>7. Signalled
  BY <1>1, <1>2 DEF Signalled, Inside
<1>8. Loops
  BY <1>2 DEF Loops
<1> QED
  BY <1>3, <1>4, <1>5, <1>6, <1>7, <1>8 DEF IInv

LEMMA Stutter ==
  ASSUME IInv, UNCHANGED vars
  PROVE  IInv'
<1>1. UNCHANGED <<callbacks, signalling, wants, stack, connected, sent, edits>>
  BY DEF vars
<1>2. TypeOK /\ Nested /\ Exclusive /\ Allows /\ Listed /\ Counted /\ Signalled /\ Loops
  BY DEF IInv
<1>3. TypeOK'
  BY <1>1, <1>2 DEF TypeOK
<1>4. Nested'
  BY <1>1, <1>2 DEF Nested, Running, Rank, Ranks
<1>5. Exclusive'
  BY <1>1, <1>2 DEF Exclusive, Holds
<1>6. Allows'
  BY <1>1, <1>2 DEF Allows, Allowed, Busy, Top, Running, Inside
<1>7. Listed'
  BY <1>1, <1>2 DEF Listed, Holds, Agrees, Distinct
<1>8. Counted'
  BY <1>1, <1>2, CountedSame DEF Calling, Running
<1>9. Signalled'
  BY <1>1, <1>2 DEF Signalled, Inside
<1>10. Loops'
  <2> SUFFICES ASSUME NEW t \in Threads, NEW k \in DOMAIN stack'[t]
               PROVE  Goes(stack'[t][k], callbacks'[stack'[t][k].list],
                           connected'[stack'[t][k].list])
    BY DEF Loops, Goes, Running
  <2> QED
    BY <1>1, <1>2 DEF Loops
<1> QED
  BY <1>3, <1>4, <1>5, <1>6, <1>7, <1>8, <1>9, <1>10 DEF IInv

LEMMA Inductive ==
  ASSUME SignalsAssumption, Orderly, IInv, [Next]_vars, ~ misused'
  PROVE  IInv'
<1>1. CASE UNCHANGED vars
  BY <1>1, Stutter
<1>2. CASE Next
  <2>1. PICK t \in Threads : Sending(t) \/ Making(t) \/ Wanting(t)
    BY <1>2 DEF Next
  <2>2. CASE Skip(t)
    BY <2>2, SkipStep
  <2>3. CASE Call(t)
    BY <2>3, CallStep
  <2>4. CASE Return(t)
    BY <2>4, ReturnStep
  <2>5. CASE Finish(t)
    BY <2>5, FinishStep
  <2>6. CASE LockGlobal(t)
    BY <2>6, LockGlobalStep
  <2>7. CASE FinishGlobal(t)
    BY <2>7, FinishGlobalStep
  <2>8. CASE Connect(t)
    BY <2>8, ConnectStep
  <2>9. CASE Disconnect(t)
    BY <2>9, DisconnectStep
  <2>10. CASE Signal(t)
    BY <2>10, SignalStep
  <2>11. ASSUME NEW s \in Signals, WantSignal(t, s) PROVE IInv'
    BY <2>11, WantSignalStep
  <2>12. ASSUME NEW l \in Lists, NEW c \in Callbacks, WantEdit(t, l, c) PROVE IInv'
    BY <2>12, WantEditStep
  <2>13. CASE RemoveCurrent(t)
    BY <2>13, RemoveCurrentStep
  <2> QED
    BY <2>1, <2>2, <2>3, <2>4, <2>5, <2>6, <2>7, <2>8, <2>9, <2>10, <2>11, <2>12, <2>13
       DEF Sending, Making, Wanting
<1> QED
  BY <1>1, <1>2

(* Whose thread is in a callback of the global list.                       *)
LEMMA CallersOf ==
  ASSUME IInv, SignalsAssumption, NEW i \in DOMAIN callbacks[All]
  PROVE  Cardinality({t \in Threads : \E f \in Frames(t) :
                        f.list = All /\ Running(f) /\ Last(f.called) = callbacks[All][i].callback})
         = IF Calling(i) THEN 1 ELSE 0
<1> DEFINE q == callbacks[All]
           S == {t \in Threads : \E f \in Frames(t) :
                   f.list = All /\ Running(f) /\ Last(f.called) = q[i].callback}
<1>1. TypeOK /\ Exclusive /\ Listed /\ Loops /\ All \in Lists
  BY DEF IInv, Lists
<1>2. Distinct(q)
  BY <1>1 DEF Listed, Agrees
<1>3. \A t \in Threads : \A k \in DOMAIN stack[t] :
        stack[t][k].list = All /\ Running(stack[t][k]) =>
          /\ Holds(t, All) /\ stack[t][k].i \in DOMAIN q
          /\ Last(stack[t][k].called) = q[stack[t][k].i].callback
  <2> TAKE t \in Threads
  <2> TAKE k \in DOMAIN stack[t]
  <2> HAVE stack[t][k].list = All /\ Running(stack[t][k])
  <2>1. Goes(stack[t][k], q, connected[All])
    BY <1>1 DEF Loops
  <2> QED
    BY <2>1 DEF Goes, Running, Holds, Last
<1>4. \A t : t \in S <=> /\ t \in Threads
                         /\ \E k \in DOMAIN stack[t] :
                              stack[t][k].list = All /\ Running(stack[t][k])
                              /\ Last(stack[t][k].called) = q[i].callback
  BY DEF Frames
<1> HIDE DEF S
<1>5. CASE Calling(i)
  <2>1. PICK t \in Threads : \E k \in DOMAIN stack[t] :
               stack[t][k].list = All /\ Running(stack[t][k]) /\ stack[t][k].i = i
    BY <1>5 DEF Calling
  <2>2. t \in S /\ Holds(t, All)
    BY <1>3, <1>4, <2>1
  <2>3. \A u \in S : u = t
    BY <1>1, <1>3, <1>4, <2>2 DEF Exclusive
  <2>4. S = {t}
    BY <2>2, <2>3
  <2> QED
    BY <1>5, <2>4, FS_Singleton DEF S
<1>6. CASE ~ Calling(i)
  <2>1. S = {}
    <3> SUFFICES ASSUME NEW t \in S PROVE FALSE
      OBVIOUS
    <3>1. PICK k \in DOMAIN stack[t] :
            stack[t][k].list = All /\ Running(stack[t][k])
            /\ Last(stack[t][k].called) = q[i].callback
      BY <1>4
    <3>2. stack[t][k].i = i
      BY <1>2, <1>3, <1>4, <3>1 DEF Distinct
    <3> QED
      BY <1>4, <1>6, <3>1, <3>2 DEF Calling
  <2> QED
    BY <1>6, <2>1, FS_EmptySet DEF S
<1> QED
  BY <1>5, <1>6

LEMMA InvariantListsAgree ==
  ASSUME IInv, SignalsAssumption
  PROVE  ListsAgree
<1>1. TypeOK /\ Nested /\ Listed /\ Counted /\ Signalled
  BY DEF IInv
<1>2. ASSUME NEW l \in Lists
      PROVE  LET q == callbacks[l]
             IN  /\ {q[i].callback : i \in Unmarked(q)} = connected[l]
                 /\ \A i, j \in Unmarked(q) : q[i].callback = q[j].callback => i = j
  <2>1. Agrees(callbacks[l], connected[l])
    BY <1>1 DEF Listed
  <2> QED
    BY <2>1 DEF Agrees, Distinct, Unmarked
<1>3. ASSUME NEW s \in Signals
      PROVE  /\ signalling[s] <=> \E t \in Threads : \E f \in Frames(t) : f.list = s
             /\ (\E e \in Range(callbacks[s]) : e.remove) => signalling[s]
  <2>1. s \in Lists
    BY DEF Lists
  <2>2. \A t \in Threads : Inside(t, s) <=> \E f \in Frames(t) : f.list = s
    BY DEF Inside, Frames
  <2>3. signalling[s] <=> \E t \in Threads : Inside(t, s)
    BY <1>1 DEF Signalled
  <2>4. ASSUME \E e \in Range(callbacks[s]) : e.remove PROVE signalling[s]
    <3>1. \E i \in DOMAIN callbacks[s] : callbacks[s][i].remove
      BY <2>4 DEF Range
    <3>2. PICK t \in Threads : Holds(t, s)
      BY <1>1, <2>1, <3>1 DEF Listed
    <3> QED
      BY <2>3, <3>2 DEF Holds, Inside
  <2> QED
    BY <2>2, <2>3, <2>4
<1>4. ASSUME NEW e \in Range(callbacks[All])
      PROVE  /\ e.signaling = Cardinality({t \in Threads : \E f \in Frames(t) :
                                 f.list = All /\ Running(f) /\ Last(f.called) = e.callback})
             /\ e.remove => \E t \in Threads : \E f \in Frames(t) : f.list = All /\ f.at # "lock"
  <2>1. PICK i \in DOMAIN callbacks[All] : e = callbacks[All][i]
    BY DEF Range
  <2>2. All \in Lists
    BY DEF Lists
  <2>3. e.signaling = IF Calling(i) THEN 1 ELSE 0
    BY <1>1, <2>1, <2>2 DEF Counted
  <2>4. e.remove => \E t \in Threads : Holds(t, All)
    BY <1>1, <2>1, <2>2 DEF Listed
  <2>5. \A t \in Threads : Holds(t, All) => \E f \in Frames(t) : f.list = All /\ f.at # "lock"
    BY DEF Holds, Frames
  <2>6. e.signaling = Cardinality({t \in Threads : \E f \in Frames(t) :
                         f.list = All /\ Running(f) /\ Last(f.called) = e.callback})
    BY <2>1, <2>3, CallersOf
  <2> QED
    BY <2>4, <2>5, <2>6
<1>5. \A l \in Lists :
        LET q == callbacks[l]
        IN  /\ {q[i].callback : i \in Unmarked(q)} = connected[l]
            /\ \A i, j \in Unmarked(q) : q[i].callback = q[j].callback => i = j
  BY <1>2
<1>6. \A s \in Signals :
        /\ signalling[s] <=> \E t \in Threads : \E f \in Frames(t) : f.list = s
        /\ (\E e \in Range(callbacks[s]) : e.remove) => signalling[s]
  BY <1>3
<1>7. \A e \in Range(callbacks[All]) :
        /\ e.signaling = Cardinality({t \in Threads : \E f \in Frames(t) :
                            f.list = All /\ Running(f) /\ Last(f.called) = e.callback})
        /\ e.remove => \E t \in Threads : \E f \in Frames(t) : f.list = All /\ f.at # "lock"
  BY <1>4
<1> QED
  BY <1>5, <1>6, <1>7 DEF ListsAgree

LEMMA InvariantCalledRightly ==
  ASSUME IInv
  PROVE  CalledRightly
<1> SUFFICES ASSUME NEW t \in Threads, NEW k \in DOMAIN stack[t]
             PROVE  LET f == stack[t][k]
                    IN /\ IsInjective(f.called)
                       /\ f.at = "loop" /\ f.i > Len(callbacks[f.list]) =>
                            f.owed \subseteq Range(f.called)
                       /\ Running(f) => f.left \/ Last(f.called) \in connected[f.list]
  BY DEF CalledRightly
<1> DEFINE f == stack[t][k]
           q == callbacks[f.list]
<1>1. /\ f \in Frame /\ f.list \in Lists /\ Goes(f, q, connected[f.list])
      /\ Agrees(q, connected[f.list]) /\ q \in Seq(Entry)
  BY StackTypes, ListTypes DEF IInv, Loops, Listed
<1>2. f.at = "lock" => f.called = <<>>
  BY DEF IInv, Nested
<1> HIDE DEF f, q
<1>3. f.i \in Nat /\ Len(q) \in Nat /\ DOMAIN q = 1 .. Len(q)
  BY <1>1, FrameTypes
<1>4. IsInjective(f.called)
  <2>1. CASE f.at = "lock"
    BY <1>2, <2>1 DEF IsInjective
  <2>2. CASE f.at # "lock"
    BY <1>1, <2>2 DEF Goes, IsInjective
  <2> QED
    BY <2>1, <2>2
<1>5. ASSUME f.at = "loop", f.i > Len(q) PROVE f.owed \subseteq Range(f.called)
  <2>1. \A c \in f.owed : \E m \in DOMAIN f.called : f.called[m] = c
    BY <1>1, <1>3, <1>5 DEF Goes
  <2> QED
    BY <2>1 DEF Range
<1>6. ASSUME Running(f) PROVE f.left \/ Last(f.called) \in connected[f.list]
  <2>1. /\ f.i \in DOMAIN q /\ f.called[Len(f.called)] = q[f.i].callback
        /\ q[f.i].remove => f.left
    BY <1>1, <1>6 DEF Goes, Running
  <2> QED
    BY <1>1, <2>1 DEF Agrees, Last
<1> QED
  BY <1>4, <1>5, <1>6 DEF f, q

(* What has been misused stays so.                                         *)
LEMMA Misused ==
  ASSUME [Next]_vars, misused
  PROVE  misused'
<1>1. CASE UNCHANGED vars
  BY <1>1 DEF vars
<1>2. CASE Next
  BY <1>2 DEF Next, Sending, Making, Wanting, Skip, Call, Return, Finish, LockGlobal, FinishGlobal,
              Connect, Disconnect, Signal, WantSignal, WantEdit, RemoveCurrent
<1> QED
  BY <1>1, <1>2

(* However threads send signals, and callbacks send others, connect and    *)
(* disconnect, in the order of the lists, until a callback misuses them    *)
(* (misused): the unmarked callbacks of a list are those connected, marks  *)
(* and counts go when their loops end, whoever was connected when a signal *)
(* began is called once, and nobody is called who has left                 *)
(* (signal_handler_signal, _connect, _disconnect, _remove_current).        *)
THEOREM OrderlySignals ==
  ASSUME Orderly
  PROVE  Spec => []SignalsInv
<1>1. Init => misused \/ IInv
  BY SignalsAssumption, Beginning
<1>2. (misused \/ IInv) /\ [Next]_vars => (misused \/ IInv)'
  BY SignalsAssumption, Inductive, Misused
<1>3. (misused \/ IInv) => SignalsInv
  BY SignalsAssumption, InvariantListsAgree, InvariantCalledRightly DEF SignalsInv, IInv
<1> QED
  BY <1>1, <1>2, <1>3, PTL DEF Spec

-----------------------------------------------------------------------------
(* The reference counts. *)

USE HoldersAssumption DEF countVars, heldVars, listVars, memVars

-----------------------------------------------------------------------------
(* Sets of threads are finite, and only the empty one counts 0.            *)
LEMMA CardTypes ==
  ASSUME NEW S \in SUBSET Holders
  PROVE  /\ IsFiniteSet(S) /\ Cardinality(S) \in Nat
         /\ Cardinality(S) <= Cardinality(Holders) /\ Cardinality(Holders) \in Nat
         /\ Cardinality(S) = 0 <=> S = {}
BY FS_Subset, FS_CardinalityType, FS_EmptySet

(* A thread that gets a reference adds one to the number of holders ...    *)
LEMMA CardAdd ==
  ASSUME NEW S \in SUBSET Holders, NEW u \in Holders, u \notin S
  PROVE  /\ Cardinality(S \union {u}) = Cardinality(S) + 1
         /\ S \union {u} \in SUBSET Holders
BY CardTypes, FS_AddElement

(* ... and one that releases it takes one away.                            *)
LEMMA CardRemove ==
  ASSUME NEW S \in SUBSET Holders, NEW u \in S
  PROVE  /\ Cardinality(S \ {u}) = Cardinality(S) - 1
         /\ S \ {u} \in SUBSET Holders
BY CardTypes, FS_RemoveElement

(* While somebody owns the object nobody destroys it.                      *)
LEMMA Owned ==
  ASSUME RefsInv, refs # -1 \/ strong # {}
  PROVE  /\ refs \in Nat /\ weak_refs \in Nat /\ strong # {} /\ Shared = 1
         /\ Destroyers = {} /\ \A t \in Holders : pc[t] \notin Destroying
         /\ listed /\ object = "alive" /\ control = "alive"
         /\ \A t \in Holders : pc[t] # "free_control"
<1>1. refs + 1 \in Nat /\ refs \in Nat /\ strong # {}
  BY CardTypes DEF RefsInv, RefsTypeOK, Counts
<1>2. Destroyers = {} /\ Shared = 1
  BY <1>1 DEF RefsInv, Stages, Shared
<1>3. \A t \in Holders : pc[t] \notin Destroying
  BY <1>2 DEF Destroyers
<1>4. Cardinality(weak) \in Nat
  BY CardTypes DEF RefsInv, RefsTypeOK
<1>5. weak_refs \in Nat
  BY <1>2, <1>4 DEF RefsInv, RefsTypeOK, Counts
<1>6. listed /\ object = "alive"
  BY <1>1 DEF RefsInv, Stages
<1>7. control = "alive" /\ \A t \in Holders : pc[t] # "free_control"
  BY <1>5 DEF RefsInv, LastOut, RefsTypeOK
<1> QED BY <1>1, <1>2, <1>3, <1>5, <1>6, <1>7

(* While somebody counts in the control block nobody frees it.             *)
LEMMA StillCounted ==
  ASSUME RefsInv, weak # {} \/ Shared = 1
  PROVE  /\ weak_refs \in Nat /\ control = "alive"
         /\ \A t \in Holders : pc[t] # "free_control"
<1>1. Cardinality(weak) \in Nat /\ (weak # {} => Cardinality(weak) # 0) /\ Shared \in {0, 1}
  BY CardTypes DEF RefsInv, RefsTypeOK, Shared
<1>2. weak_refs \in Nat
  BY <1>1 DEF RefsInv, RefsTypeOK, Counts
<1> QED BY <1>2 DEF RefsInv, LastOut, RefsTypeOK

(* obs_output_create establishes the invariant.                            *)
LEMMA RefsInvInit == RefsInit => RefsInv
<1> SUFFICES ASSUME RefsInit PROVE RefsInv
  OBVIOUS
<1>1. Cardinality({Creator}) = 1 /\ Cardinality({}) = 0
  BY FS_Singleton, FS_EmptySet
<1>2. Destroyers = {} /\ Shared = 1
  BY DEF RefsInit, Destroyers, Destroying, Shared
<1>3. Counts
  BY <1>1, <1>2 DEF RefsInit, Counts
<1>4. RefsTypeOK
  BY DEF RefsInit, RefsTypeOK, Labels
<1>5. Stages
  BY <1>2 DEF RefsInit, Stages
<1> QED BY <1>3, <1>4, <1>5 DEF RefsInit, RefsInv, LastOut, InGetRef

(* A step outside the counts: one thread moves, or none.                   *)
LEMMA SharedSame ==
  ASSUME refs' = refs, Destroyers' = Destroyers
  PROVE  Shared' = Shared
BY DEF Shared

(* Moving between places that are not part of a destruction.               *)
LEMMA DestroyersSame ==
  ASSUME RefsTypeOK, NEW t \in Holders, NEW l \in Labels \ Destroying,
         pc' = [pc EXCEPT ![t] = l], pc[t] \notin Destroying
  PROVE  /\ Destroyers' = Destroyers
         /\ \A u \in Holders, d \in Destroying : pc'[u] = d <=> pc[u] = d
BY DEF RefsTypeOK, Destroyers

(* obs_output_addref                                                       *)
LEMMA AddRefStep ==
  ASSUME RefsInv, NEW t \in Holders, NEW u \in Holders, AddRef(t, u)
  PROVE  RefsInv'
<1>1. refs \in Nat /\ Shared = 1 /\ Destroyers = {} /\ listed /\ object = "alive"
  BY Owned DEF AddRef
<1>2. Cardinality(strong') = Cardinality(strong) + 1 /\ strong' \in SUBSET Holders
  BY CardAdd DEF AddRef, RefsInv, RefsTypeOK
<1>3. Destroyers' = {} /\ Shared' = 1
  BY <1>1 DEF AddRef, Destroyers, Shared
<1>4. RefsTypeOK'
  BY <1>2 DEF AddRef, RefsInv, RefsTypeOK
<1>5. Counts'
  BY <1>1, <1>2, <1>3 DEF AddRef, RefsInv, Counts, RefsTypeOK
<1>6. Stages'
  BY <1>1, <1>3 DEF AddRef, RefsInv, Stages
<1>7. LastOut' /\ InGetRef'
  BY DEF AddRef, RefsInv, LastOut, InGetRef, Idle
<1> QED BY <1>4, <1>5, <1>6, <1>7 DEF RefsInv

(* obs_output_release, up to the destruction it may begin.                 *)
LEMMA ReleaseStep ==
  ASSUME RefsInv, NEW t \in Holders, Release(t)
  PROVE  RefsInv'
<1>1. /\ refs \in Nat /\ Shared = 1 /\ Destroyers = {} /\ listed /\ object = "alive"
      /\ weak_refs \in Nat /\ control = "alive"
      /\ \A u \in Holders : pc[u] \notin Destroying /\ pc[u] # "free_control"
  BY Owned DEF Release
<1>2. Cardinality(strong') = Cardinality(strong) - 1 /\ strong' \in SUBSET Holders
  BY CardRemove DEF Release, RefsInv, RefsTypeOK
<1>3. refs' = refs - 1 /\ refs' \in Int
  BY <1>1 DEF Release
<1>4. \A u \in Holders : pc'[u] = IF u = t /\ refs' = -1 THEN "unlist" ELSE pc[u]
  BY DEF Release, Go, RefsInv, RefsTypeOK, Idle
<1>5. Destroyers' = IF refs' = -1 THEN {t} ELSE {}
  BY <1>1, <1>4 DEF Destroyers, Destroying
<1>6. Shared' = 1
  BY <1>5 DEF Shared
<1>7. RefsTypeOK'
  BY <1>2, <1>3 DEF Release, Go, RefsInv, RefsTypeOK, Labels, Destroying
<1>8. Counts'
  BY <1>1, <1>2, <1>6 DEF Release, RefsInv, Counts, RefsTypeOK
<1>9. Stages'
  BY <1>1, <1>4, <1>5 DEF Release, Stages, Destroying
<1>10. LastOut' /\ InGetRef'
  BY <1>1, <1>4 DEF Release, RefsInv, LastOut, InGetRef, Idle
<1> QED BY <1>7, <1>8, <1>9, <1>10 DEF RefsInv

(* obs_context_data_remove waits for a lookup, and ends its like.          *)
LEMMA UnlistStep ==
  ASSUME RefsInv, NEW t \in Holders, Unlist(t)
  PROVE  RefsInv'
<1>1. t \in Destroyers /\ refs = -1 /\ Destroyers = {t} /\ object = "alive"
  BY DEF Unlist, RefsInv, Stages, Destroyers, Destroying
<1>2. \A u \in Holders : pc'[u] = IF u = t THEN "free" ELSE pc[u]
  BY DEF Unlist, Go, RefsInv, RefsTypeOK
<1>3. Destroyers' = {t} /\ Shared' = Shared
  BY <1>1, <1>2, SharedSame DEF Unlist, Destroyers, Destroying
<1>4. RefsTypeOK'
  BY DEF Unlist, Go, RefsInv, RefsTypeOK, Labels, Destroying
<1>5. Counts'
  BY <1>3 DEF Unlist, RefsInv, Counts
<1>6. \A u \in Holders : u # t => pc[u] \notin Destroying
  BY <1>1 DEF Destroyers
<1>7. Stages'
  BY <1>1, <1>2, <1>3, <1>6 DEF Unlist, Stages, Destroying
<1>8. LastOut' /\ InGetRef'
  BY <1>1, <1>2 DEF Unlist, RefsInv, LastOut, InGetRef, RefsTypeOK
<1> QED BY <1>4, <1>5, <1>7, <1>8 DEF RefsInv

(* bfree(output)                                                           *)
LEMMA FreeObjectStep ==
  ASSUME RefsInv, NEW t \in Holders, FreeObject(t)
  PROVE  RefsInv'
<1>1. t \in Destroyers /\ refs = -1 /\ Destroyers = {t}
  BY DEF FreeObject, RefsInv, Stages, Destroyers, Destroying
<1>2. \A u \in Holders : pc'[u] = IF u = t THEN "drop" ELSE pc[u]
  BY DEF FreeObject, Go, RefsInv, RefsTypeOK
<1>3. Destroyers' = {t} /\ Shared' = Shared
  BY <1>1, <1>2, SharedSame DEF FreeObject, Destroyers, Destroying
<1>4. RefsTypeOK'
  BY DEF FreeObject, Go, RefsInv, RefsTypeOK, Labels, Destroying
<1>5. Counts'
  BY <1>3 DEF FreeObject, RefsInv, Counts
<1>6. \A u \in Holders : u # t => pc[u] \notin Destroying
  BY <1>1 DEF Destroyers
<1>7. Stages'
  BY <1>1, <1>2, <1>3, <1>6 DEF FreeObject, RefsInv, Stages, Destroying
<1>8. LastOut' /\ InGetRef'
  BY <1>1, <1>2 DEF FreeObject, RefsInv, LastOut, InGetRef, RefsTypeOK
<1> QED BY <1>4, <1>5, <1>7, <1>8 DEF RefsInv

(* The last owner drops the shared weak reference.                         *)
LEMMA DropControlStep ==
  ASSUME RefsInv, NEW t \in Holders, DropControl(t)
  PROVE  RefsInv'
<1>1. t \in Destroyers /\ refs = -1 /\ Destroyers = {t} /\ Shared = 1
  BY DEF DropControl, RefsInv, Stages, Destroyers, Destroying, Shared
<1>2. weak_refs \in Nat /\ control = "alive" /\ \A u \in Holders : pc[u] # "free_control"
  BY <1>1, StillCounted
<1>3. weak_refs' = weak_refs - 1 /\ UNCHANGED <<refs, strong, weak, listed, object, control>>
  BY DEF DropControl, DropWeak
<1>4. \A u \in Holders : pc'[u] = IF u # t THEN pc[u]
                                  ELSE IF weak_refs' = -1 THEN "free_control" ELSE "idle"
  BY DEF DropControl, DropWeak, Go, RefsInv, RefsTypeOK
<1>5. \A u \in Holders : u # t => pc[u] \notin Destroying
  BY <1>1 DEF Destroyers
<1>6. \A u \in Holders : pc'[u] \notin Destroying
  BY <1>4, <1>5 DEF Destroying
<1>7. Destroyers' = {}
  BY <1>6 DEF Destroyers
<1>8. Shared' = 0
  BY <1>1, <1>3, <1>7 DEF Shared
<1>9. RefsTypeOK'
  BY <1>2 DEF DropControl, DropWeak, Go, RefsInv, RefsTypeOK, Labels
<1>10. Counts'
  <2>1. Cardinality(weak) \in Nat
    BY CardTypes DEF RefsInv, RefsTypeOK
  <2> QED BY <1>1, <1>2, <1>3, <1>8, <2>1 DEF RefsInv, Counts
<1>11. Stages'
  <2>1. pc[t] = "drop"
    BY DEF DropControl
  <2> QED BY <1>1, <1>3, <1>4, <1>5, <1>6, <1>7, <2>1 DEF RefsInv, Stages, Destroying
<1>12. LastOut'
  BY <1>2, <1>3, <1>4 DEF LastOut
<1>13. InGetRef'
  BY <1>3, <1>4 DEF DropControl, RefsInv, InGetRef
<1> QED BY <1>9, <1>10, <1>11, <1>12, <1>13 DEF RefsInv

(* obs_output_get_weak_output and obs_weak_output_addref                   *)
LEMMA NewWeakStep ==
  ASSUME RefsInv, NEW u \in Holders \ weak, weak # {} \/ strong # {},
         weak_refs' = weak_refs + 1, weak' = weak \union {u},
         UNCHANGED <<refs, strong, listVars, memVars, pc, owners>>
  PROVE  RefsInv'
<1>1. weak_refs \in Nat /\ control = "alive" /\ \A t \in Holders : pc[t] # "free_control"
  BY Owned, StillCounted
<1>2. Cardinality(weak') = Cardinality(weak) + 1 /\ weak' \in SUBSET Holders
  BY CardAdd DEF RefsInv, RefsTypeOK
<1>3. Destroyers' = Destroyers /\ Shared' = Shared
  BY SharedSame DEF Destroyers
<1>4. RefsTypeOK'
  BY <1>2 DEF RefsInv, RefsTypeOK
<1>5. Counts'
  <2>1. Cardinality(weak) \in Nat /\ Shared \in {0, 1}
    BY CardTypes DEF RefsInv, RefsTypeOK, Shared
  <2> QED BY <1>1, <1>2, <1>3, <2>1 DEF RefsInv, Counts
<1>6. Stages'
  BY <1>3 DEF RefsInv, Stages
<1>7. LastOut' /\ InGetRef'
  BY <1>1 DEF RefsInv, LastOut, InGetRef
<1> QED BY <1>4, <1>5, <1>6, <1>7 DEF RefsInv

(* obs_weak_output_release                                                 *)
LEMMA WeakReleaseStep ==
  ASSUME RefsInv, NEW t \in Holders, WeakRelease(t)
  PROVE  RefsInv'
<1>1. weak_refs \in Nat /\ control = "alive" /\ \A u \in Holders : pc[u] # "free_control"
  BY StillCounted DEF WeakRelease
<1>2. Cardinality(weak') = Cardinality(weak) - 1 /\ weak' \in SUBSET Holders
  BY CardRemove DEF WeakRelease, RefsInv, RefsTypeOK
<1>3. weak_refs' = weak_refs - 1 /\ UNCHANGED <<refs, strong, listed, object, control>>
  BY DEF WeakRelease, DropWeak
<1>4. \A u \in Holders : pc'[u] = IF u # t THEN pc[u]
                                  ELSE IF weak_refs' = -1 THEN "free_control" ELSE "idle"
  BY DEF WeakRelease, DropWeak, Go, RefsInv, RefsTypeOK
<1>5. pc[t] = "idle"
  BY DEF WeakRelease, Idle
<1>6. \A u \in Holders : \A d \in Destroying : pc'[u] = d <=> pc[u] = d
  BY <1>4, <1>5 DEF Destroying
<1>7. Destroyers' = Destroyers /\ Shared' = Shared
  BY <1>3, <1>6, SharedSame DEF Destroyers
<1>8. RefsTypeOK'
  BY <1>1, <1>2 DEF WeakRelease, DropWeak, Go, RefsInv, RefsTypeOK, Labels
<1>9. Counts'
  <2>1. Cardinality(weak) \in Nat /\ Shared \in {0, 1}
    BY CardTypes DEF RefsInv, RefsTypeOK, Shared
  <2> QED BY <1>1, <1>2, <1>3, <1>7, <2>1 DEF RefsInv, Counts
<1>10. Stages'
  BY <1>3, <1>6, <1>7 DEF RefsInv, Stages, Destroying
<1>11. LastOut'
  BY <1>1, <1>3, <1>4 DEF LastOut
<1>12. InGetRef'
  BY <1>3, <1>4, <1>5 DEF WeakRelease, RefsInv, InGetRef
<1> QED BY <1>8, <1>9, <1>10, <1>11, <1>12 DEF RefsInv

(* bfree(weak)                                                             *)
LEMMA FreeControlStep ==
  ASSUME RefsInv, NEW t \in Holders, FreeControl(t)
  PROVE  RefsInv'
<1>1. pc[t] = "free_control" /\ weak_refs = -1
  BY DEF FreeControl, RefsInv, LastOut
<1>2. \A u \in Holders : pc'[u] = IF u = t THEN "idle" ELSE pc[u]
  BY DEF FreeControl, Go, RefsInv, RefsTypeOK
<1>3. \A u \in Holders : \A d \in Destroying : pc'[u] = d <=> pc[u] = d
  BY <1>1, <1>2 DEF Destroying
<1>4. Destroyers' = Destroyers /\ Shared' = Shared
  BY <1>3, SharedSame DEF FreeControl, Destroyers
<1>5. RefsTypeOK'
  BY DEF FreeControl, Go, RefsInv, RefsTypeOK, Labels
<1>6. Counts'
  BY <1>4 DEF FreeControl, RefsInv, Counts
<1>7. Stages'
  BY <1>3, <1>4 DEF FreeControl, RefsInv, Stages, Destroying
<1>8. LastOut'
  BY <1>1, <1>2 DEF FreeControl, RefsInv, LastOut
<1>9. InGetRef'
  BY <1>1, <1>2 DEF FreeControl, RefsInv, InGetRef
<1> QED BY <1>5, <1>6, <1>7, <1>8, <1>9 DEF RefsInv

(* A step in or into get_ref that leaves the counts alone.                 *)
LEMMA GetRefStep ==
  ASSUME RefsInv, NEW t \in Holders, NEW l \in {"idle", "load", "cas"},
         pc[t] \in {"idle", "load", "cas"}, pc' = [pc EXCEPT ![t] = l],
         UNCHANGED <<refs, weak_refs, strong, weak, listed, object, control>>,
         mutex' \in Holders \union {NoThread}, owners' \in [Holders -> Int], InGetRef'
  PROVE  RefsInv'
<1>1. \A u \in Holders : pc'[u] = IF u = t THEN l ELSE pc[u]
  BY DEF RefsInv, RefsTypeOK
<1>2. \A u \in Holders : \A d \in Destroying : pc'[u] = d <=> pc[u] = d
  BY <1>1 DEF Destroying
<1>3. Destroyers' = Destroyers /\ Shared' = Shared
  BY <1>2, SharedSame DEF Destroyers
<1>4. RefsTypeOK'
  BY DEF RefsInv, RefsTypeOK, Labels
<1>5. Counts'
  BY <1>3 DEF RefsInv, Counts
<1>6. Stages'
  BY <1>2, <1>3 DEF RefsInv, Stages, Destroying
<1>7. LastOut'
  BY <1>1 DEF RefsInv, LastOut
<1> QED BY <1>4, <1>5, <1>6, <1>7 DEF RefsInv

(* obs_weak_output_get_output is called.                                   *)
LEMMA UpgradeStep ==
  ASSUME RefsInv, NEW t \in Holders, Upgrade(t)
  PROVE  RefsInv'
<1>1. \A u \in Holders : pc'[u] = IF u = t THEN "load" ELSE pc[u]
  BY DEF Upgrade, Go, RefsInv, RefsTypeOK
<1>2. InGetRef'
  BY <1>1 DEF Upgrade, RefsInv, InGetRef, Idle
<1> QED BY <1>2, GetRefStep DEF Upgrade, Go, Idle, RefsInv, RefsTypeOK

(* get_context_by_name finds the object in the list.                       *)
LEMMA LookupStep ==
  ASSUME RefsInv, NEW t \in Holders, Lookup(t)
  PROVE  RefsInv'
<1>1. \A u \in Holders : pc'[u] = IF u = t THEN "load" ELSE pc[u]
  BY DEF Lookup, Go, RefsInv, RefsTypeOK
<1>2. InGetRef'
  BY <1>1 DEF Lookup, RefsInv, InGetRef, Idle
<1> QED BY <1>2, GetRefStep DEF Lookup, Go, Idle, RefsInv, RefsTypeOK

(* obs_weak_ref_get_ref reads the owners.                                  *)
LEMMA LoadStep ==
  ASSUME RefsInv, NEW t \in Holders, Load(t)
  PROVE  RefsInv'
<1>1. /\ owners' \in [Holders -> Int]
      /\ \A u \in Holders : owners'[u] = IF u = t THEN refs ELSE owners[u]
  BY DEF Load, RefsInv, RefsTypeOK
<1>2. CASE refs > -1
  <2>1. pc' = [pc EXCEPT ![t] = "cas"] /\ mutex' = mutex
    BY <1>2 DEF Load, Go
  <2>2. \A u \in Holders : pc'[u] = IF u = t THEN "cas" ELSE pc[u]
    BY <2>1 DEF RefsInv, RefsTypeOK
  <2>3. InGetRef'
    BY <1>1, <1>2, <2>1, <2>2 DEF Load, RefsInv, InGetRef
  <2> QED BY <1>1, <2>1, <2>3, GetRefStep DEF Load, RefsInv, RefsTypeOK
<1>3. CASE ~ (refs > -1)
  <2>1. pc' = [pc EXCEPT ![t] = "idle"] /\ mutex' = IF mutex = t THEN NoThread ELSE mutex
    BY <1>3 DEF Load, Go, Leave
  <2>2. \A u \in Holders : pc'[u] = IF u = t THEN "idle" ELSE pc[u]
    BY <2>1 DEF RefsInv, RefsTypeOK
  <2>3. InGetRef'
    BY <1>1, <2>1, <2>2 DEF Load, RefsInv, InGetRef
  <2> QED BY <1>1, <2>1, <2>3, GetRefStep DEF Load, RefsInv, RefsTypeOK
<1> QED BY <1>2, <1>3

(* The compare-and-swap: it succeeds only on a count read while the object *)
(* was owned, and that is the count it still has.                          *)
LEMMA SwapStep ==
  ASSUME RefsInv, NEW t \in Holders, Swap(t)
  PROVE  RefsInv'
<1>1. pc[t] = "cas" /\ t \notin strong /\ owners[t] > -1
  BY DEF Swap, RefsInv, InGetRef
<1>2. CASE refs = owners[t]
  <2>1. /\ refs' = refs + 1 /\ strong' = strong \union {t}
        /\ pc' = [pc EXCEPT ![t] = "idle"] /\ mutex' = IF mutex = t THEN NoThread ELSE mutex
        /\ UNCHANGED <<weak_refs, weak, listed, object, control, owners>>
    BY <1>2 DEF Swap, Leave, Go
  <2>2. /\ refs \in Nat /\ Shared = 1 /\ listed /\ object = "alive"
        /\ \A u \in Holders : pc[u] \notin Destroying
    <3>1. refs # -1
      BY <1>1, <1>2 DEF RefsInv, RefsTypeOK
    <3> QED BY <3>1, Owned
  <2>3. Cardinality(strong') = Cardinality(strong) + 1 /\ strong' \in SUBSET Holders
    BY <1>1, <2>1, CardAdd DEF RefsInv, RefsTypeOK
  <2>4. \A u \in Holders : pc'[u] = IF u = t THEN "idle" ELSE pc[u]
    BY <2>1 DEF RefsInv, RefsTypeOK
  <2>5. \A u \in Holders : pc'[u] \notin Destroying
    BY <2>2, <2>4 DEF Destroying
  <2>6. Destroyers' = {} /\ refs' # -1 /\ Shared' = 1
    BY <2>1, <2>2, <2>5 DEF Destroyers, Shared
  <2>7. RefsTypeOK'
    BY <2>1, <2>3 DEF RefsInv, RefsTypeOK, Labels
  <2>8. Counts'
    BY <2>1, <2>2, <2>3, <2>6 DEF RefsInv, Counts, RefsTypeOK
  <2>9. Stages'
    BY <2>1, <2>2, <2>6 DEF Stages
  <2>10. LastOut'
    BY <2>1, <2>4 DEF RefsInv, LastOut
  <2>11. InGetRef'
    BY <2>1, <2>4 DEF RefsInv, InGetRef
  <2> QED BY <2>7, <2>8, <2>9, <2>10, <2>11 DEF RefsInv
<1>3. CASE refs # owners[t]
  <2>1. pc' = [pc EXCEPT ![t] = "load"] /\ mutex' = mutex
    BY <1>3 DEF Swap, Go
  <2>2. \A u \in Holders : pc'[u] = IF u = t THEN "load" ELSE pc[u]
    BY <2>1 DEF RefsInv, RefsTypeOK
  <2>3. InGetRef'
    BY <1>1, <1>3, <2>1, <2>2 DEF Swap, RefsInv, InGetRef
  <2> QED BY <1>1, <1>3, <2>1, <2>3, GetRefStep DEF Swap, RefsInv, RefsTypeOK
<1> QED BY <1>2, <1>3

(* Every step of the reference counting preserves the invariant.           *)
LEMMA RefsInvStep == RefsInv /\ [RefsNext]_refVars => RefsInv'
<1> SUFFICES ASSUME RefsInv, [RefsNext]_refVars PROVE RefsInv'
  OBVIOUS
<1>1. ASSUME NEW t \in Holders, Step(t) PROVE RefsInv'
  BY <1>1, UnlistStep, FreeObjectStep, DropControlStep, FreeControlStep, LoadStep, SwapStep
  DEF Step
<1>2. ASSUME NEW t \in Holders, Begins(t) PROVE RefsInv'
  <2>1. CASE Release(t) \/ WeakRelease(t) \/ Upgrade(t) \/ Lookup(t)
    BY <2>1, ReleaseStep, WeakReleaseStep, UpgradeStep, LookupStep
  <2>2. CASE GetWeak(t)
    BY <2>2, NewWeakStep DEF GetWeak
  <2>3. ASSUME NEW u \in Holders, AddRef(t, u) PROVE RefsInv'
    BY <2>3, AddRefStep
  <2>4. ASSUME NEW u \in Holders, WeakAddRef(t, u) PROVE RefsInv'
    BY <2>4, NewWeakStep DEF WeakAddRef
  <2> QED BY <1>2, <2>1, <2>2, <2>3, <2>4 DEF Begins
<1>3. CASE UNCHANGED refVars
  <2>1. Destroyers' = Destroyers /\ Shared' = Shared
    BY <1>3, SharedSame DEF refVars, Destroyers
  <2> QED BY <1>3, <2>1 DEF refVars, RefsInv, RefsTypeOK, Counts, Stages, LastOut, InGetRef
<1> QED BY <1>1, <1>2, <1>3 DEF RefsNext

-----------------------------------------------------------------------------
(* The invariant the theorems below follow from.                           *)
THEOREM CountsInvariant == RefsSpec => []RefsInv
<1> QED BY RefsInvInit, RefsInvStep, PTL DEF RefsSpec

(* Nobody who holds a reference, or finds the object in its list, meets a  *)
(* freed object.                                                           *)
THEOREM OwnersAreSafe == RefsSpec => []NoUseAfterFree
<1>1. RefsInv => NoUseAfterFree
  <2> SUFFICES ASSUME RefsInv PROVE NoUseAfterFree
    OBVIOUS
  <2>1. strong # {} => object = "alive" /\ \A t \in Holders : pc[t] \notin Destroying
    BY Owned
  <2>2. listed => object = "alive"
    BY DEF RefsInv, Stages
  <2> QED BY <2>1, <2>2 DEF NoUseAfterFree
<1> QED BY <1>1, CountsInvariant, PTL

(* Nobody who counts in the control block meets a freed one.               *)
THEOREM ControlIsSafe == RefsSpec => []ControlAlive
<1>1. RefsInv => ControlAlive
  <2> SUFFICES ASSUME RefsInv PROVE ControlAlive
    OBVIOUS
  <2>1. strong \union weak # {} => control = "alive"
    BY Owned, StillCounted
  <2>2. listed => control = "alive"
    <3> SUFFICES ASSUME listed PROVE control = "alive"
      OBVIOUS
    <3>1. refs # -1 \/ Destroyers # {}
      BY DEF RefsInv, Stages, Destroyers, Destroying
    <3> QED BY <3>1, StillCounted DEF Shared
  <2>3. ASSUME NEW t \in Holders, pc[t] \in Destroying PROVE control = "alive"
    BY <2>3, StillCounted DEF Destroyers, Shared
  <2>4. ASSUME NEW t \in Holders, pc[t] \in {"load", "cas"} PROVE control = "alive"
    BY <2>1, <2>2, <2>4 DEF RefsInv, InGetRef
  <2> QED BY <2>1, <2>2, <2>3, <2>4 DEF ControlAlive
<1> QED BY <1>1, CountsInvariant, PTL

(* Nobody touches freed memory. *)
THEOREM MemoryIsSafe == RefsSpec => []MemorySafe
BY OwnersAreSafe, ControlIsSafe, PTL DEF MemorySafe

(* The counts stay within what the threads can hold.                       *)
THEOREM CountTypes ==
  RefsSpec => [](/\ refs \in -1 .. Cardinality(Holders) - 1
                 /\ weak_refs \in -1 .. Cardinality(Holders))
<1>1. RefsInv => /\ refs \in -1 .. Cardinality(Holders) - 1
                 /\ weak_refs \in -1 .. Cardinality(Holders)
  BY CardTypes DEF RefsInv, RefsTypeOK, Counts, Shared
<1> QED BY <1>1, CountsInvariant, PTL

(* An object without owners never gets one again.                          *)
THEOREM GoneForGood == RefsSpec => NoResurrection
<1>1. RefsInv /\ [RefsNext]_refVars => [refs = -1 => refs' = -1 /\ strong' = {}]_refVars
  <2> SUFFICES ASSUME RefsInv, [RefsNext]_refVars, refs = -1 PROVE refs' = -1 /\ strong' = {}
    OBVIOUS
  <2>1. strong = {}
    BY CardTypes DEF RefsInv, RefsTypeOK, Counts
  <2>2. \A t \in Holders : ~ (pc[t] = "cas" /\ refs = owners[t])
    BY DEF RefsInv, InGetRef
  <2>3. CASE UNCHANGED refVars
    BY <2>1, <2>3 DEF refVars
  <2>4. ASSUME NEW t \in Holders, Step(t) PROVE refs' = -1 /\ strong' = {}
    BY <2>1, <2>2, <2>4
    DEF Step, Unlist, FreeObject, DropControl, DropWeak, FreeControl, Load, Swap
  <2>5. ASSUME NEW t \in Holders, Begins(t) PROVE refs' = -1 /\ strong' = {}
    BY <2>1, <2>5 DEF Begins, Release, GetWeak, WeakRelease, Upgrade, Lookup, AddRef, WeakAddRef
  <2> QED BY <2>3, <2>4, <2>5 DEF RefsNext
<1> QED BY <1>1, CountsInvariant, PTL DEF RefsSpec, NoResurrection
=============================================================================
