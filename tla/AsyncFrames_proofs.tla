-------------------------- MODULE AsyncFrames_proofs --------------------------
(***************************************************************************)
(* That no frame is lost, freed too early or shared (FrameInv), and that   *)
(* what is drawn goes forward (ShownForward), for any number of threads,   *)
(* frames and pictures, as long as the cache is not emptied while the      *)
(* graphics thread looks at a size without the mutex.                      *)
(***************************************************************************)
EXTENDS AsyncFrames, TLAPS

(* What the queues' operations do to their elements.                       *)
LEMMA AppendElements ==
  ASSUME NEW q \in Seq(Frames), NEW f \in Frames
  PROVE  /\ Append(q, f) \in Seq(Frames)
         /\ Elements(Append(q, f)) = Elements(q) \union {f}
         /\ Distinct(q) /\ f \notin Elements(q) => Distinct(Append(q, f))
<1>1. /\ Append(q, f) \in Seq(Frames) /\ Len(Append(q, f)) = Len(q) + 1
      /\ \A i \in 1 .. Len(q) : Append(q, f)[i] = q[i]
      /\ Append(q, f)[Len(q) + 1] = f
  OBVIOUS
<1>2. DOMAIN Append(q, f) = DOMAIN q \union {Len(q) + 1} /\ DOMAIN q = 1 .. Len(q)
  BY <1>1
<1>3. Elements(Append(q, f)) = Elements(q) \union {f}
  BY <1>1, <1>2 DEF Elements
<1>4. Distinct(q) /\ f \notin Elements(q) => Distinct(Append(q, f))
  BY <1>1, <1>2 DEF Elements, Distinct
<1>q. QED BY <1>1, <1>3, <1>4

LEMMA TailElements ==
  ASSUME NEW q \in Seq(Frames), q # <<>>
  PROVE  /\ Tail(q) \in Seq(Frames) /\ Head(q) \in Frames
         /\ Elements(q) = Elements(Tail(q)) \union {Head(q)}
         /\ Distinct(q) => Distinct(Tail(q)) /\ Head(q) \notin Elements(Tail(q))
<1>1. /\ Tail(q) \in Seq(Frames) /\ Head(q) = q[1] /\ Len(q) \in Nat /\ Len(q) > 0
      /\ Len(Tail(q)) = Len(q) - 1 /\ \A i \in 1 .. Len(q) - 1 : Tail(q)[i] = q[i + 1]
  OBVIOUS
<1>2. DOMAIN q = 1 .. Len(q) /\ DOMAIN Tail(q) = 1 .. Len(q) - 1
  BY <1>1
<1>3. \A i \in DOMAIN q : i = 1 \/ (i - 1 \in DOMAIN Tail(q) /\ Tail(q)[i - 1] = q[i])
  BY <1>1, <1>2
<1>4. \A i \in DOMAIN Tail(q) : i + 1 \in DOMAIN q /\ Tail(q)[i] = q[i + 1] /\ i + 1 # 1
  BY <1>1, <1>2
<1>5. 1 \in DOMAIN q /\ q[1] \in Frames
  BY <1>1, <1>2
<1>6. Elements(q) = Elements(Tail(q)) \union {Head(q)}
  <2>1. \A i \in DOMAIN q : q[i] \in Elements(Tail(q)) \union {Head(q)}
    BY <1>1, <1>3 DEF Elements
  <2>2. \A i \in DOMAIN Tail(q) : Tail(q)[i] \in Elements(q)
    BY <1>4 DEF Elements
  <2>3. Head(q) \in Elements(q)
    BY <1>1, <1>5 DEF Elements
  <2>q. QED BY <2>1, <2>2, <2>3 DEF Elements
<1>7. ASSUME Distinct(q) PROVE Distinct(Tail(q)) /\ Head(q) \notin Elements(Tail(q))
  <2>1. \A i, j \in DOMAIN Tail(q) : Tail(q)[i] = Tail(q)[j] => i + 1 = j + 1
    BY <1>4, <1>7 DEF Distinct
  <2>2. \A i, j \in DOMAIN Tail(q) : i + 1 = j + 1 => i = j
    BY <1>2
  <2>3. \A i \in DOMAIN Tail(q) : Tail(q)[i] # q[1]
    BY <1>4, <1>5, <1>7 DEF Distinct
  <2>q. QED BY <2>1, <2>2, <2>3, <1>1 DEF Distinct, Elements
<1>q. QED BY <1>1, <1>5, <1>6, <1>7

LEMMA RestElements ==
  ASSUME NEW q \in Seq(Frames), Distinct(q), NEW due \in DOMAIN q,
         NEW rest, rest = SubSeq(q, due + 1, Len(q)),
         NEW late, late = {q[i] : i \in 1 .. due - 1}
  PROVE  /\ rest \in Seq(Frames) /\ Distinct(rest)
         /\ q[due] \in Frames /\ late \subseteq Frames
         /\ Elements(q) = Elements(rest) \union {q[due]} \union late
         /\ q[due] \notin Elements(rest) /\ q[due] \notin late
         /\ Elements(rest) \intersect late = {}
<1>1. DOMAIN q = 1 .. Len(q) /\ Len(q) \in Nat /\ due \in 1 .. Len(q)
  OBVIOUS
<1>2. /\ rest \in Seq(Frames) /\ Len(rest) = Len(q) - due /\ DOMAIN rest = 1 .. Len(q) - due
      /\ \A i \in 1 .. Len(q) - due : rest[i] = q[i + due]
  BY <1>1
<1>3. \A i \in DOMAIN rest : i + due \in DOMAIN q /\ rest[i] = q[i + due] /\ i + due > due
  BY <1>1, <1>2
<1>4. \A i \in DOMAIN q : i > due => i - due \in DOMAIN rest /\ rest[i - due] = q[i]
  <2>1. SUFFICES ASSUME NEW i \in 1 .. Len(q), i > due
        PROVE  i - due \in DOMAIN rest /\ rest[i - due] = q[i]
    BY <1>1
  <2>2. i - due \in 1 .. Len(q) - due /\ (i - due) + due = i
    BY <1>1, <2>1
  <2>q. QED BY <1>2, <2>2
<1>5. 1 .. due - 1 \subseteq DOMAIN q /\ \A i \in DOMAIN q : i < due => i \in 1 .. due - 1
  BY <1>1
<1>6. \A i, j \in DOMAIN q : q[i] = q[j] => i = j
  BY DEF Distinct
<1>7. \A i \in DOMAIN q : q[i] \in Frames
  OBVIOUS
<1>8. Distinct(rest)
  <2>1. \A i, j \in DOMAIN rest : rest[i] = rest[j] => i + due = j + due
    BY <1>3, <1>6
  <2>2. \A i, j \in DOMAIN rest : i + due = j + due => i = j
    BY <1>1, <1>2
  <2>q. QED BY <2>1, <2>2 DEF Distinct
<1>9. Elements(q) = Elements(rest) \union {q[due]} \union late
  <2>1. \A i \in DOMAIN q : i < due \/ i = due \/ i > due
    BY <1>1
  <2>2. \A i \in DOMAIN q : q[i] \in Elements(rest) \union {q[due]} \union late
    BY <2>1, <1>4, <1>5 DEF Elements
  <2>3. Elements(rest) \subseteq Elements(q) /\ late \subseteq Elements(q)
    BY <1>3, <1>5 DEF Elements
  <2>q. QED BY <2>2, <2>3 DEF Elements
<1>10. q[due] \notin Elements(rest) /\ q[due] \notin late
  <2>1. \A i \in DOMAIN rest : rest[i] # q[due]
    BY <1>1, <1>2, <1>3, <1>6
  <2>2. \A i \in 1 .. due - 1 : q[i] # q[due]
    BY <1>1, <1>5, <1>6
  <2>q. QED BY <2>1, <2>2 DEF Elements
<1>11. Elements(rest) \intersect late = {}
  <2>1. \A i \in DOMAIN rest, j \in 1 .. due - 1 : i + due # j
    BY <1>1, <1>2
  <2>2. \A i \in DOMAIN rest, j \in 1 .. due - 1 : rest[i] # q[j]
    BY <1>3, <1>5, <1>6, <2>1
  <2>q. QED BY <2>2 DEF Elements
<1>q. QED BY <1>2, <1>5, <1>7, <1>8, <1>9, <1>10, <1>11

(* Where a thread stands tells whether it has a frame. *)
LEMMA HandsOfThreads ==
  ASSUME TypeOK
  PROVE  /\ \A t \in Threads : /\ capture[t] = Idle => capture[t].frame = NoFrame
                               /\ capture[t] # Idle => /\ capture[t].frame \in Frames
                                                      /\ capture[t].at \in {"copy", "queue"}
                               /\ capture[t].at = "idle" => capture[t] = Idle
         /\ graphics.at \in {"idle", "render", "size", "filter", "reset", "draw", "release"}
         /\ graphics = [at |-> graphics.at, frame |-> graphics.frame]
         /\ graphics.at \in {"idle", "render"} => graphics.frame = NoFrame
         /\ graphics.at \notin {"idle", "render"} => graphics.frame \in Frames
         /\ NoFrame \notin Frames
<1>1. ASSUME NEW t \in Threads
      PROVE  /\ capture[t] = Idle => capture[t].frame = NoFrame
             /\ capture[t] # Idle => /\ capture[t].frame \in Frames
                                    /\ capture[t].at \in {"copy", "queue"}
             /\ capture[t].at = "idle" => capture[t] = Idle
  <2>1. capture[t] = Idle \/ capture[t] \in [at : {"copy", "queue"}, frame : Frames]
    BY DEF TypeOK
  <2>q. QED BY <2>1 DEF Idle
<1>2. \/ graphics \in [at : {"idle", "render"}, frame : {NoFrame}]
      \/ graphics \in [at : {"size", "filter", "reset", "draw", "release"}, frame : Frames]
  BY DEF TypeOK
<1>q. QED BY <1>1, <1>2, AsyncAssumption

LEMMA IdleHand == Idle.at = "idle" /\ Idle.frame = NoFrame /\ Idle \in [at : {"idle"}, frame : {NoFrame}]
  BY DEF Idle

(* A thread takes a free frame to copy a picture into it. *)
LEMMA TakeCopies ==
  ASSUME TypeOK, OnePlace, NEW t \in Threads, NEW f \in Frames, NEW s \in Sizes,
         MayCapture(t), Take(t, f, s), ~ Copying(f)
  PROVE  /\ \A g \in Frames : Copying(g)' <=> (Copying(g) \/ g = f)
         /\ \A u, v \in Threads : capture'[u].frame = capture'[v].frame => u = v \/ capture'[u] = Idle
         /\ capture' \in [Threads -> {Idle} \union [at : {"copy", "queue"}, frame : Frames]]
         /\ picture' \in [Frames -> Nat] /\ size' \in [Frames -> Sizes]
         /\ captured' \in Nat /\ queued' \in Nat
<1>1. capture[t] = Idle /\ capture[t].frame = NoFrame /\ f # NoFrame
  BY HandsOfThreads DEF MayCapture
<1>2. capture' = [capture EXCEPT ![t] = [at |-> "copy", frame |-> f]]
  BY DEF Take
<1>3. capture' \in [Threads -> {Idle} \union [at : {"copy", "queue"}, frame : Frames]]
  BY <1>2 DEF TypeOK
<1>4. /\ capture'[t].frame = f
      /\ \A u \in Threads : u # t => capture'[u] = capture[u]
  BY <1>2 DEF TypeOK
<1>5. \A g \in Frames : Copying(g)' <=> (Copying(g) \/ g = f)
  <2>1. \A g \in Frames : g # f => capture'[t].frame # g /\ capture[t].frame # g
    BY <1>1, <1>4, HandsOfThreads
  <2>q. QED BY <1>4, <2>1 DEF Copying
<1>6. \A u, v \in Threads : capture'[u].frame = capture'[v].frame => u = v \/ capture'[u] = Idle
  <2>1. \A u \in Threads : u # t => capture'[u].frame # f
    BY <1>4 DEF Copying
  <2>q. QED BY <1>4, <2>1 DEF OnePlace
<1>7. /\ picture' \in [Frames -> Nat] /\ size' \in [Frames -> Sizes]
      /\ captured' \in Nat /\ queued' \in Nat
  BY DEF Take, TypeOK
<1>q. QED BY <1>3, <1>5, <1>6, <1>7

(* While one thread works, the others' frames stay where they are. *)
LEMMA HandsUnchanged ==
  ASSUME capture' = capture PROVE \A f : Copying(f)' <=> Copying(f)
  BY DEF Copying

LEMMA FilterUnchanged ==
  ASSUME graphics' = graphics, video_frames' = video_frames
  PROVE  \A f : (Drawing(f)' <=> Drawing(f)) /\ (Kept(f)' <=> Kept(f))
  BY DEF Drawing, Kept, Elements

LEMMA QueueUnchanged ==
  ASSUME async_frames' = async_frames, cur_async_frame' = cur_async_frame
  PROVE  /\ \A f : Waiting(f)' <=> Waiting(f)
         /\ Elements(async_frames)' = Elements(async_frames)
  BY DEF Waiting, Elements

LEMMA NoElements == Elements(<<>>) = {} /\ Distinct(<<>>) /\ <<>> \in Seq(Frames)
  BY DEF Elements, Distinct
LEMMA OverflowKeeps ==
  ASSUME FrameInv, "size" \notin Races, NEW t \in Threads, CacheOverflow(t)
  PROVE  FrameInv'
<1> USE DEF FrameInv
<1>0. /\ graphics' = graphics /\ video_frames' = video_frames /\ capture' = capture
      /\ async_frames' = <<>> /\ cur_async_frame' = NoFrame /\ graphics.at # "size"
      /\ refs' = Freed /\ async_cache' = {} /\ used' = {}
  BY DEF CacheOverflow, FreeCache, filterVars, MayFree
<1>1. \A f : /\ (Copying(f)' <=> Copying(f)) /\ (Drawing(f)' <=> Drawing(f))
             /\ (Kept(f)' <=> Kept(f)) /\ (Held(f)' <=> Held(f))
  BY <1>0, HandsUnchanged, FilterUnchanged DEF Held
<1>2. \A f \in Frames : ~ Waiting(f)'
  BY <1>0, NoElements, AsyncAssumption DEF Waiting
<1>3. RefsHeld'
  <2>1. \A f \in Frames : refs'[f] = One(Held(f))
    BY <1>0 DEF RefsHeld, Freed, One, TypeOK
  <2>q. QED BY <1>0, <1>1, <2>1 DEF RefsHeld, One
<1>4. TypeOK'
  <2>1. \A f \in Frames : refs'[f] = One(Held(f)) + 0 /\ One(Held(f)) \in Nat
    BY <1>0 DEF RefsHeld, Freed, One, TypeOK
  <2>2. refs' \in [Frames -> Nat]
    BY <1>0, <2>1 DEF Freed
  <2>q. QED BY <1>0, <2>2 DEF TypeOK, CacheOverflow, FreeCache, filterVars, drawVars
<1>5. OnePlace'
  BY <1>0, <1>1, <1>2, NoElements DEF OnePlace
<1>6. InUse'
  BY <1>0 DEF InUse
<1>q. QED BY <1>3, <1>4, <1>5, <1>6

LEMMA RestartKeeps ==
  ASSUME FrameInv, "size" \notin Races, NEW t \in Threads, NEW f \in Frames, NEW s \in Sizes,
         CacheRestart(t, f, s)
  PROVE  FrameInv'
<1> USE DEF FrameInv
<1>0. /\ graphics' = graphics /\ video_frames' = video_frames
      /\ async_frames' = <<>> /\ cur_async_frame' = NoFrame /\ graphics.at # "size"
      /\ refs' = [Freed EXCEPT ![f] = 2] /\ async_cache' = {f} /\ used' = {f}
      /\ Freed[f] = 0 /\ MayCapture(t) /\ Take(t, f, s)
  BY DEF CacheRestart, FreeCache, filterVars, MayFree
<1>1. \A g \in Frames : Freed[g] = One(Held(g)) /\ One(Held(g)) \in Nat
  BY SMTT(20) DEF RefsHeld, Freed, One, TypeOK
<1>2. ~ Held(f)
  BY <1>0, <1>1 DEF One
<1>3. /\ \A g \in Frames : Copying(g)' <=> (Copying(g) \/ g = f)
      /\ \A u, v \in Threads : capture'[u].frame = capture'[v].frame => u = v \/ capture'[u] = Idle
      /\ capture' \in [Threads -> {Idle} \union [at : {"copy", "queue"}, frame : Frames]]
      /\ picture' \in [Frames -> Nat] /\ size' \in [Frames -> Sizes]
      /\ captured' \in Nat /\ queued' \in Nat
  BY <1>0, <1>2, TakeCopies DEF Held
<1>4. \A g : (Drawing(g)' <=> Drawing(g)) /\ (Kept(g)' <=> Kept(g))
  BY <1>0, FilterUnchanged
<1>5. \A g \in Frames : Held(g)' <=> (Held(g) \/ g = f)
  BY <1>3, <1>4 DEF Held
<1>6. \A g \in Frames : ~ Waiting(g)'
  BY <1>0, NoElements, AsyncAssumption DEF Waiting
<1>7. \A g \in Frames : refs'[g] = IF g = f THEN 2 ELSE Freed[g]
  BY <1>0 DEF Freed
<1>8. RefsHeld'
  <2>1. \A g \in Frames : refs'[g] = One(Held(g)') + One(g \in async_cache')
    BY <1>0, <1>1, <1>5, <1>7 DEF One
  <2>q. QED BY <1>0, <2>1 DEF RefsHeld, One
<1>9. TypeOK'
  <2>1. refs' \in [Frames -> Nat]
    BY <1>0, <1>1, <1>7 DEF Freed
  <2>2. /\ unused_count' \in [Frames -> Nat] /\ cache_size' \in Sizes
        /\ UNCHANGED <<texture_size, shown, reached, resets>>
    BY DEF CacheRestart, FreeCache, filterVars, drawVars, TypeOK
  <2>3. async_frames' \in Seq(Frames) /\ cur_async_frame' \in Frames \union {NoFrame}
    BY <1>0, NoElements
  <2>4. used' \subseteq async_cache' /\ async_cache' \subseteq Frames
    BY <1>0
  <2>q. QED BY <1>0, <1>3, <2>1, <2>2, <2>3, <2>4 DEF TypeOK
<1>10. OnePlace'
  BY <1>0, <1>2, <1>3, <1>4, <1>6, NoElements DEF OnePlace, Held
<1>11. InUse'
  BY <1>0, <1>5 DEF InUse
<1>q. QED BY <1>8, <1>9, <1>10, <1>11

LEMMA ReuseKeeps ==
  ASSUME FrameInv, NEW t \in Threads, NEW f \in Frames, CacheReuse(t, f)
  PROVE  FrameInv'
<1> USE DEF FrameInv
<1>0. /\ UNCHANGED <<graphics, video_frames, async_frames, cur_async_frame>>
      /\ refs' = [g \in Frames |-> IF g = f THEN refs[g] + 1
                                   ELSE IF g \in Expired(f) THEN 0 ELSE refs[g]]
      /\ async_cache' = async_cache \ Expired(f) /\ used' = used \union {f}
      /\ f \in async_cache /\ f \notin used /\ MayCapture(t) /\ Take(t, f, cache_size)
      /\ cache_size \in Sizes
  BY DEF CacheReuse, filterVars, TypeOK
<1>1. ~ Held(f) /\ ~ Waiting(f)
  BY <1>0 DEF InUse
<1>2. /\ \A g \in Frames : Copying(g)' <=> (Copying(g) \/ g = f)
      /\ \A u, v \in Threads : capture'[u].frame = capture'[v].frame => u = v \/ capture'[u] = Idle
      /\ capture' \in [Threads -> {Idle} \union [at : {"copy", "queue"}, frame : Frames]]
      /\ picture' \in [Frames -> Nat] /\ size' \in [Frames -> Sizes]
      /\ captured' \in Nat /\ queued' \in Nat
  BY <1>0, <1>1, TakeCopies DEF Held
<1>3. \A g : /\ (Drawing(g)' <=> Drawing(g)) /\ (Kept(g)' <=> Kept(g))
             /\ (Waiting(g)' <=> Waiting(g))
  BY <1>0, FilterUnchanged, QueueUnchanged
<1>4. \A g \in Frames : Held(g)' <=> (Held(g) \/ g = f)
  BY <1>2, <1>3 DEF Held
<1>5. \A g \in Frames : g \in Expired(f) =>
        g \in async_cache /\ g \notin used /\ g # f /\ ~ Held(g) /\ ~ Waiting(g)
  BY DEF Expired, InUse
<1>6. \A g \in Frames : One(Held(g)) \in Nat /\ One(g \in async_cache) \in Nat
  BY DEF One
<1>7. RefsHeld'
  <2>1. \A g \in Frames : refs'[g] = One(Held(g)') + One(g \in async_cache')
    <3> SUFFICES ASSUME NEW g \in Frames PROVE refs'[g] = One(Held(g)') + One(g \in async_cache')
      OBVIOUS
    <3>1. CASE g = f
      BY <1>0, <1>1, <1>4, <1>5, <3>1 DEF RefsHeld, One
    <3>2. CASE g # f /\ g \in Expired(f)
      BY <1>0, <1>4, <1>5, <3>2 DEF One
    <3>3. CASE g # f /\ g \notin Expired(f)
      BY <1>0, <1>4, <3>3 DEF RefsHeld, One
    <3>q. QED BY <3>1, <3>2, <3>3
  <2>2. graphics'.at = "size" => graphics'.frame = cur_async_frame'
    BY <1>0 DEF RefsHeld
  <2>q. QED BY <2>1, <2>2 DEF RefsHeld
<1>8. TypeOK'
  <2>1. refs' \in [Frames -> Nat]
    BY <1>0 DEF TypeOK
  <2>2. /\ unused_count' \in [Frames -> Nat]
        /\ UNCHANGED <<cache_size, texture_size, shown, reached, resets>>
    BY SMTT(20) DEF CacheReuse, filterVars, drawVars, TypeOK
  <2>3. used' \subseteq async_cache' /\ async_cache' \subseteq Frames
    BY <1>0, <1>5 DEF TypeOK
  <2>q. QED BY <1>0, <1>2, <2>1, <2>2, <2>3 DEF TypeOK
<1>9. OnePlace'
  <2>1. \A g \in Frames : /\ Copying(g)' => ~ Drawing(g)' /\ ~ Kept(g)'
                          /\ Kept(g)' => ~ Drawing(g)'
                          /\ Waiting(g)' => g \in async_cache' /\ ~ Held(g)'
    BY <1>0, <1>1, <1>2, <1>3, <1>4, <1>5 DEF OnePlace, Held
  <2>2. cur_async_frame' \notin Elements(async_frames)'
    BY <1>0, QueueUnchanged DEF OnePlace
  <2>q. QED BY <1>0, <1>2, <2>1, <2>2 DEF OnePlace, Distinct
<1>10. InUse'
  <2>1. \A g \in async_cache' : g \in used' <=> Waiting(g)' \/ Held(g)'
    BY <1>0, <1>3, <1>4, <1>5 DEF InUse, TypeOK
  <2>q. QED BY <2>1 DEF InUse
<1>q. QED BY <1>7, <1>8, <1>9, <1>10

LEMMA GrowKeeps ==
  ASSUME FrameInv, NEW t \in Threads, NEW f \in Frames, CacheGrow(t, f)
  PROVE  FrameInv'
<1> USE DEF FrameInv
<1>0. /\ UNCHANGED <<graphics, video_frames, async_frames, cur_async_frame>>
      /\ refs[f] = 0 /\ refs' = [refs EXCEPT ![f] = 2]
      /\ async_cache' = async_cache \union {f} /\ used' = used \union {f}
      /\ MayCapture(t) /\ Take(t, f, cache_size) /\ cache_size \in Sizes
  BY DEF CacheGrow, filterVars, TypeOK
<1>1. ~ Held(f) /\ f \notin async_cache
  BY <1>0 DEF RefsHeld, One
<1>2. /\ \A g \in Frames : Copying(g)' <=> (Copying(g) \/ g = f)
      /\ \A u, v \in Threads : capture'[u].frame = capture'[v].frame => u = v \/ capture'[u] = Idle
      /\ capture' \in [Threads -> {Idle} \union [at : {"copy", "queue"}, frame : Frames]]
      /\ picture' \in [Frames -> Nat] /\ size' \in [Frames -> Sizes]
      /\ captured' \in Nat /\ queued' \in Nat
  BY <1>0, <1>1, TakeCopies DEF Held
<1>3. \A g : /\ (Drawing(g)' <=> Drawing(g)) /\ (Kept(g)' <=> Kept(g))
             /\ (Waiting(g)' <=> Waiting(g))
  BY <1>0, FilterUnchanged, QueueUnchanged
<1>4. \A g \in Frames : Held(g)' <=> (Held(g) \/ g = f)
  BY <1>2, <1>3 DEF Held
<1>5. RefsHeld'
  <2>1. \A g \in Frames : refs'[g] = One(Held(g)') + One(g \in async_cache')
    BY <1>0, <1>1, <1>4, SMTT(20) DEF RefsHeld, One, TypeOK
  <2>2. graphics'.at = "size" => graphics'.frame = cur_async_frame'
    BY <1>0 DEF RefsHeld
  <2>q. QED BY <2>1, <2>2 DEF RefsHeld
<1>6. TypeOK'
  <2>1. refs' \in [Frames -> Nat]
    BY <1>0 DEF TypeOK
  <2>2. /\ unused_count' \in [Frames -> Nat]
        /\ UNCHANGED <<cache_size, texture_size, shown, reached, resets>>
    BY DEF CacheGrow, filterVars, drawVars, TypeOK
  <2>q. QED BY <1>0, <1>2, <2>1, <2>2 DEF TypeOK
<1>7. OnePlace'
  <2>1. \A g \in Frames : /\ Copying(g)' => ~ Drawing(g)' /\ ~ Kept(g)'
                          /\ Kept(g)' => ~ Drawing(g)'
                          /\ Waiting(g)' => g \in async_cache' /\ ~ Held(g)'
    BY <1>0, <1>1, <1>2, <1>3, <1>4 DEF OnePlace, Held
  <2>2. cur_async_frame' \notin Elements(async_frames)'
    BY <1>0, QueueUnchanged DEF OnePlace
  <2>q. QED BY <1>0, <1>2, <2>1, <2>2 DEF OnePlace, Distinct
<1>8. InUse'
  <2>1. \A g \in Frames : Waiting(g) => g # f
    BY <1>1 DEF OnePlace
  <2>2. \A g \in async_cache' : g \in used' <=> Waiting(g)' \/ Held(g)'
    BY <1>0, <1>1, <1>3, <1>4, <2>1 DEF InUse, TypeOK
  <2>q. QED BY <2>2 DEF InUse
<1>q. QED BY <1>5, <1>6, <1>7, <1>8

LEMMA CopyKeeps ==
  ASSUME FrameInv, NEW t \in Threads, Copy(t)
  PROVE  FrameInv'
<1> USE DEF FrameInv
<1>0. /\ UNCHANGED <<graphics, video_frames, async_frames, cur_async_frame, refs, async_cache, used,
                     unused_count, cache_size, picture, size, captured, queued, texture_size, shown,
                     reached, resets>>
      /\ capture[t].at = "copy" /\ capture' = [capture EXCEPT ![t].at = "queue"]
  BY DEF Copy, filterVars, cacheVars, drawVars
<1>1. /\ capture[t] # Idle /\ capture[t] \in [at : {"copy", "queue"}, frame : Frames]
      /\ capture'[t] = [at |-> "queue", frame |-> capture[t].frame]
      /\ \A u \in Threads : u # t => capture'[u] = capture[u]
  BY <1>0 DEF TypeOK, Idle
<1>2. capture' \in [Threads -> {Idle} \union [at : {"copy", "queue"}, frame : Frames]]
  BY <1>0, <1>1 DEF TypeOK
<1>3. \A u \in Threads : capture'[u].frame = capture[u].frame
  BY <1>1
<1>4. \A g : /\ (Drawing(g)' <=> Drawing(g)) /\ (Kept(g)' <=> Kept(g))
             /\ (Waiting(g)' <=> Waiting(g)) /\ (Copying(g)' <=> Copying(g))
             /\ (Held(g)' <=> Held(g))
  BY <1>0, <1>3, FilterUnchanged, QueueUnchanged DEF Copying, Held
<1>5. TypeOK'
  BY <1>0, <1>2 DEF TypeOK
<1>6. RefsHeld'
  BY <1>0, <1>4 DEF RefsHeld, One
<1>7. OnePlace'
  <2>1. \A u, v \in Threads : capture'[u].frame = capture'[v].frame => u = v \/ capture'[u] = Idle
    BY <1>1, <1>3 DEF OnePlace
  <2>q. QED BY <1>0, <1>4, <2>1, QueueUnchanged DEF OnePlace, Distinct
<1>8. InUse'
  BY <1>0, <1>4 DEF InUse
<1>q. QED BY <1>5, <1>6, <1>7, <1>8

LEMMA QueueKeeps ==
  ASSUME FrameInv, NEW t \in Threads, Queue(t)
  PROVE  FrameInv'
<1> USE DEF FrameInv
<1> DEFINE f == capture[t].frame
<1>0. /\ UNCHANGED <<graphics, video_frames, cur_async_frame, async_cache, used,
                     unused_count, cache_size, size, captured, texture_size, shown,
                     reached, resets>>
      /\ capture[t].at = "queue" /\ capture' = [capture EXCEPT ![t] = Idle]
      /\ refs' = [refs EXCEPT ![f] = @ - 1]
  BY DEF Queue, filterVars, cacheVars, drawVars
<1>1. /\ capture[t] # Idle /\ f \in Frames
      /\ capture'[t] = Idle /\ \A u \in Threads : u # t => capture'[u] = capture[u]
      /\ Idle.frame = NoFrame /\ NoFrame # f
  BY <1>0, HandsOfThreads, IdleHand, AsyncAssumption DEF TypeOK
<1>2. capture' \in [Threads -> {Idle} \union [at : {"copy", "queue"}, frame : Frames]]
  BY <1>0 DEF TypeOK
<1>3. \A g \in Frames : Copying(g)' <=> (Copying(g) /\ g # f)
  <2>1. \A g \in Frames : capture'[t].frame # g
    BY <1>1, AsyncAssumption
  <2>2. \A u \in Threads : u # t => capture[u].frame # f
    BY <1>1 DEF OnePlace
  <2>q. QED BY <1>1, <2>1, <2>2 DEF Copying
<1>4. \A g : (Drawing(g)' <=> Drawing(g)) /\ (Kept(g)' <=> Kept(g))
  BY <1>0, FilterUnchanged
<1>5. Copying(f) /\ ~ Drawing(f) /\ ~ Kept(f) /\ ~ Waiting(f)
  BY <1>1 DEF Copying, OnePlace, Held
<1>6. \A g \in Frames : Held(g)' <=> (Held(g) /\ g # f)
  BY <1>3, <1>4, <1>5 DEF Held
<1>7. refs' \in [Frames -> Nat] /\ \A g \in Frames : refs'[g] = One(Held(g)') + One(g \in async_cache)
  <2>1. \A g \in Frames : refs'[g] = IF g = f THEN refs[g] - 1 ELSE refs[g]
    BY <1>0, <1>1 DEF TypeOK
  <2>2. \A g \in Frames : refs'[g] = One(Held(g)') + One(g \in async_cache)
    BY <1>5, <1>6, <2>1 DEF RefsHeld, Held, One
  <2>3. \A g \in Frames : refs'[g] \in Nat
    BY <2>2 DEF One
  <2>q. QED BY <1>0, <1>1, <2>2, <2>3 DEF TypeOK
<1>8. RefsHeld'
  BY <1>0, <1>7 DEF RefsHeld, One
<1>9. \A u, v \in Threads : capture'[u].frame = capture'[v].frame => u = v \/ capture'[u] = Idle
  BY <1>1, HandsOfThreads DEF OnePlace
<1>10. CASE f \notin async_cache
  <2>1. UNCHANGED <<async_frames, queued, picture>>
    <3>1. refs'[f] = 0
      BY <1>1, <1>6, <1>7, <1>10 DEF One
    <3>q. QED BY <3>1 DEF Queue
  <2>2. TypeOK'
    BY <1>0, <1>2, <1>7, <2>1 DEF TypeOK
  <2>3. \A g : Waiting(g)' <=> Waiting(g)
    BY <1>0, <2>1, QueueUnchanged
  <2>4. OnePlace'
    <3>1. \A g \in Frames : /\ Copying(g)' => ~ Drawing(g)' /\ ~ Kept(g)'
                            /\ Kept(g)' => ~ Drawing(g)'
                            /\ Waiting(g)' => g \in async_cache' /\ ~ Held(g)'
      BY <1>0, <1>3, <1>4, <1>6, <2>3 DEF OnePlace
    <3>q. QED BY <1>0, <1>9, <2>1, <3>1, QueueUnchanged DEF OnePlace, Distinct
  <2>5. InUse'
    <3>1. \A g \in async_cache' : g \in used' <=> Waiting(g)' \/ Held(g)'
      BY <1>0, <1>6, <1>10, <2>3 DEF InUse, TypeOK
    <3>q. QED BY <3>1 DEF InUse
  <2>q. QED BY <1>8, <2>2, <2>4, <2>5
<1>11. CASE f \in async_cache
  <2>1. /\ async_frames' = Append(async_frames, f) /\ queued' = queued + 1
        /\ picture' = [picture EXCEPT ![f] = queued']
    BY <1>1, <1>6, <1>7, <1>11 DEF Queue, One
  <2>2. /\ async_frames' \in Seq(Frames) /\ Distinct(async_frames')
        /\ Elements(async_frames') = Elements(async_frames) \union {f}
    BY <1>1, <1>5, <2>1, AppendElements DEF TypeOK, OnePlace, Waiting
  <2>3. TypeOK'
    <3>1. picture' \in [Frames -> Nat] /\ queued' \in Nat
      <4>1. queued' \in Nat /\ f \in Frames /\ picture \in [Frames -> Nat]
        BY <1>1, <2>1 DEF TypeOK
      <4>q. QED BY <2>1, <4>1
    <3>2. captured' \in Nat /\ shown' \in Nat /\ resets' \in Nat
      BY <1>0 DEF TypeOK
    <3>3. cur_async_frame' \in Frames \union {NoFrame} /\ graphics' = graphics
      BY <1>0 DEF TypeOK
    <3>4. /\ size' \in [Frames -> Sizes] /\ unused_count' \in [Frames -> Nat]
          /\ used' \subseteq async_cache' /\ async_cache' \subseteq Frames
          /\ cache_size' \in Sizes /\ texture_size' \in Sizes
          /\ video_frames' \in Seq(Frames) /\ reached' \in BOOLEAN
      BY <1>0 DEF TypeOK
    <3>q. QED BY <1>2, <1>7, <2>2, <3>1, <3>2, <3>3, <3>4 DEF TypeOK
  <2>4. \A g \in Frames : Waiting(g)' <=> (Waiting(g) \/ g = f)
    BY <1>0, <2>2 DEF Waiting
  <2>5. OnePlace'
    <3>1. \A g \in Frames : /\ Copying(g)' => ~ Drawing(g)' /\ ~ Kept(g)'
                            /\ Kept(g)' => ~ Drawing(g)'
                            /\ Waiting(g)' => g \in async_cache' /\ ~ Held(g)'
      BY <1>0, <1>3, <1>4, <1>6, <1>11, <2>4 DEF OnePlace
    <3>2. Distinct(video_frames)'
      BY <1>0 DEF OnePlace, Distinct
    <3>3. cur_async_frame' \notin Elements(async_frames')
      BY <1>0, <1>5, <2>2 DEF OnePlace, Waiting
    <3>q. QED BY <1>9, <2>2, <3>1, <3>2, <3>3 DEF OnePlace
  <2>6. InUse'
    <3>1. \A g \in async_cache' : g \in used' <=> Waiting(g)' \/ Held(g)'
      BY <1>0, <1>5, <1>6, <2>4 DEF InUse, TypeOK, Held
    <3>q. QED BY <3>1 DEF InUse
  <2>q. QED BY <1>8, <2>3, <2>5, <2>6
<1>q. QED BY <1>10, <1>11

LEMMA TickNothingKeeps ==
  ASSUME FrameInv, TickNothing
  PROVE  FrameInv'
<1> USE DEF FrameInv
<1>0. /\ UNCHANGED <<graphics, video_frames, capture, async_frames, refs, async_cache,
                     unused_count, cache_size, picture, size, captured, queued, texture_size, shown,
                     reached, resets>>
      /\ cur_async_frame' = NoFrame /\ used' = used \ {cur_async_frame}
  BY DEF TickNothing, filterVars, captureVars, drawVars, Remove
<1>1. \A g : /\ (Drawing(g)' <=> Drawing(g)) /\ (Kept(g)' <=> Kept(g))
             /\ (Copying(g)' <=> Copying(g)) /\ (Held(g)' <=> Held(g))
  BY <1>0, HandsUnchanged, FilterUnchanged DEF Held
<1>2. \A g \in Frames : Waiting(g)' <=> (Waiting(g) /\ g # cur_async_frame)
  BY <1>0, AsyncAssumption DEF Waiting, OnePlace, Elements
<1>3. TypeOK'
  BY <1>0 DEF TypeOK
<1>4. RefsHeld'
  BY <1>0, <1>1 DEF RefsHeld, One, TickNothing
<1>5. OnePlace'
  <2>1. NoFrame \notin Elements(async_frames)
    BY AsyncAssumption DEF TypeOK, Elements
  <2>2. Elements(async_frames)' = Elements(async_frames)
    BY <1>0 DEF Elements
  <2>q. QED BY <1>0, <1>1, <1>2, <2>1, <2>2 DEF OnePlace, Distinct
<1>6. InUse'
  <2>1. \A g \in Frames : g = cur_async_frame => ~ Held(g)
    BY DEF OnePlace, Waiting
  <2>2. \A g \in async_cache' : g \in used' <=> Waiting(g)' \/ Held(g)'
    BY <1>0, <1>1, <1>2, <2>1 DEF InUse, TypeOK
  <2>q. QED BY <2>2 DEF InUse
<1>q. QED BY <1>3, <1>4, <1>5, <1>6

LEMMA TickKeeps ==
  ASSUME FrameInv, NEW due \in DOMAIN async_frames, Tick(due)
  PROVE  FrameInv'
<1> USE DEF FrameInv
<1> DEFINE q == async_frames
           f == q[due]
           rest == SubSeq(q, due + 1, Len(q))
           late == {q[i] : i \in 1 .. due - 1}
<1>0. /\ UNCHANGED <<video_frames, capture, refs, async_cache, unused_count, cache_size,
                     picture, size, captured, queued, texture_size, shown, reached, resets>>
      /\ graphics.at = "idle" /\ graphics' = [at |-> "size", frame |-> f]
      /\ cur_async_frame' = f /\ async_frames' = rest
      /\ used' = used \ ({cur_async_frame} \union late)
  BY DEF Tick, filterVars, captureVars, drawVars, Remove
<1>1. /\ rest \in Seq(Frames) /\ Distinct(rest)
      /\ f \in Frames /\ late \subseteq Frames
      /\ Elements(q) = Elements(rest) \union {f} \union late
      /\ f \notin Elements(rest) /\ f \notin late
      /\ Elements(rest) \intersect late = {}
  <2>1. q \in Seq(Frames) /\ Distinct(q)
    BY DEF TypeOK, OnePlace
  <2>2. \A r, l : r = rest /\ l = late =>
             /\ r \in Seq(Frames) /\ Distinct(r) /\ f \in Frames /\ l \subseteq Frames
             /\ Elements(q) = Elements(r) \union {f} \union l
             /\ f \notin Elements(r) /\ f \notin l /\ Elements(r) \intersect l = {}
    BY <2>1, RestElements, Zenon
  <2>q. QED BY <2>2, Zenon
<1>2. \A g \in Frames : ~ Drawing(g) /\ ~ Drawing(g)'
  BY <1>0, HandsOfThreads DEF Drawing
<1>3. \A g : (Kept(g)' <=> Kept(g)) /\ (Copying(g)' <=> Copying(g))
  BY <1>0, HandsUnchanged DEF Kept, Elements
<1>4. \A g \in Frames : Held(g)' <=> Held(g)
  BY <1>2, <1>3 DEF Held
<1>5. \A g \in Frames : Waiting(g)' <=> (Waiting(g) /\ g # cur_async_frame /\ g \notin late)
  <2>1. cur_async_frame \notin Elements(q)
    BY DEF OnePlace
  <2>2. \A g : Waiting(g)' <=> g = f \/ g \in Elements(rest)
    BY <1>0 DEF Waiting
  <2>q. QED BY <1>1, <2>1, <2>2 DEF Waiting
<1>6. TypeOK'
  <2>1. /\ async_frames' \in Seq(Frames) /\ cur_async_frame' \in Frames \union {NoFrame}
        /\ graphics' \in [at : {"size", "filter", "reset", "draw", "release"}, frame : Frames]
    BY <1>0, <1>1
  <2>2. used' \subseteq async_cache' /\ async_cache' \subseteq Frames
    BY <1>0 DEF TypeOK
  <2>q. QED BY <1>0, <2>1, <2>2 DEF TypeOK
<1>7. RefsHeld'
  BY <1>0, <1>4 DEF RefsHeld, One
<1>8. OnePlace'
  <2>1. \A g \in Frames : /\ Copying(g)' => ~ Drawing(g)' /\ ~ Kept(g)'
                          /\ Kept(g)' => ~ Drawing(g)'
                          /\ Waiting(g)' => g \in async_cache' /\ ~ Held(g)'
    BY <1>0, <1>2, <1>3, <1>4, <1>5 DEF OnePlace
  <2>2. cur_async_frame' \notin Elements(async_frames)'
    BY <1>0, <1>1
  <2>3. Distinct(async_frames)' /\ Distinct(video_frames)'
    BY <1>0, <1>1 DEF OnePlace, Distinct
  <2>4. \A t, u \in Threads : capture'[t].frame = capture'[u].frame => t = u \/ capture'[t] = Idle
    BY <1>0 DEF OnePlace
  <2>q. QED BY <2>1, <2>2, <2>3, <2>4 DEF OnePlace
<1>9. InUse'
  <2>1. \A g \in Frames : g = cur_async_frame \/ g \in late => ~ Held(g)
    BY <1>1 DEF OnePlace, Waiting
  <2>2. \A g \in async_cache' : g \in used' <=> Waiting(g)' \/ Held(g)'
    BY <1>0, <1>4, <1>5, <2>1 DEF InUse, TypeOK
  <2>q. QED BY <2>2 DEF InUse
<1>q. QED BY <1>6, <1>7, <1>8, <1>9

(* Steps of the graphics thread that leave every frame with whom it is. *)
LEMMA LookKeeps ==
  ASSUME FrameInv, Size \/ Unseen \/ FilterReset \/ Draw
  PROVE  FrameInv'
<1> USE DEF FrameInv
<1>0. UNCHANGED <<video_frames, capture, async_frames, cur_async_frame, refs, async_cache, used,
                  unused_count, cache_size, picture, size, captured, queued>>
  BY DEF Size, Unseen, FilterReset, Draw, cacheVars, captureVars, filterVars
<1>1. /\ \A g \in Frames : Drawing(g)' <=> Drawing(g)
      /\ graphics'.at # "size"
      /\ \/ graphics' \in [at : {"idle", "render"}, frame : {NoFrame}]
         \/ graphics' \in [at : {"size", "filter", "reset", "draw", "release"}, frame : Frames]
  <2>1. CASE Size
    <3>1. graphics.at = "size" /\ graphics' = [at |-> "render", frame |-> NoFrame]
      BY <2>1 DEF Size
    <3>q. QED BY <3>1, AsyncAssumption DEF Drawing
  <2>2. CASE Unseen
    <3>1. graphics.frame = NoFrame /\ graphics' = [at |-> "idle", frame |-> NoFrame]
      BY <2>2, HandsOfThreads DEF Unseen, Idle
    <3>q. QED BY <3>1, AsyncAssumption DEF Drawing
  <2>3. CASE FilterReset
    <3>1. /\ graphics.at = "filter" /\ graphics.frame \in Frames
          /\ graphics' = [at |-> "reset", frame |-> graphics.frame]
      BY <2>3, HandsOfThreads DEF FilterReset
    <3>q. QED BY <3>1 DEF Drawing
  <2>4. CASE Draw
    <3>1. /\ graphics.at = "draw" /\ graphics.frame \in Frames
          /\ graphics' = [at |-> "release", frame |-> graphics.frame]
      BY <2>4, HandsOfThreads DEF Draw
    <3>q. QED BY <3>1 DEF Drawing
  <2>q. QED BY <2>1, <2>2, <2>3, <2>4
<1>2. \A g : /\ (Kept(g)' <=> Kept(g)) /\ (Copying(g)' <=> Copying(g))
             /\ (Waiting(g)' <=> Waiting(g))
  BY <1>0, HandsUnchanged, QueueUnchanged DEF Kept, Elements
<1>3. \A g \in Frames : Held(g)' <=> Held(g)
  BY <1>1, <1>2 DEF Held
<1>4. /\ texture_size' \in Sizes /\ shown' \in Nat /\ reached' \in BOOLEAN /\ resets' \in Nat
  <2>1. CASE Size
    BY <2>1, HandsOfThreads DEF Size, TypeOK, filterVars
  <2>2. CASE Unseen
    BY <2>2 DEF Unseen, TypeOK, filterVars, drawVars
  <2>3. CASE FilterReset
    <3>1. /\ reached' = FALSE /\ resets' = resets + 1
          /\ texture_size' = texture_size /\ shown' = shown
      BY <2>3 DEF FilterReset, drawVars
    <3>2. texture_size \in Sizes /\ shown \in Nat /\ resets \in Nat
      BY DEF TypeOK
    <3>3. reached' \in BOOLEAN
      BY <3>1, Zenon
    <3>4. resets' \in Nat /\ shown' \in Nat /\ texture_size' \in Sizes
      BY <3>1, <3>2
    <3>q. QED BY <3>3, <3>4
  <2>4. CASE Draw
    BY <2>4, HandsOfThreads DEF Draw, TypeOK, filterVars
  <2>q. QED BY <2>1, <2>2, <2>3, <2>4
<1>5. TypeOK'
  BY <1>0, <1>1, <1>4 DEF TypeOK
<1>6. RefsHeld'
  BY <1>0, <1>1, <1>3 DEF RefsHeld, One
<1>7. OnePlace'
  BY <1>0, <1>1, <1>2, <1>3, QueueUnchanged DEF OnePlace, Distinct
<1>8. InUse'
  <2>1. \A g \in async_cache' : g \in used' <=> Waiting(g)' \/ Held(g)'
    BY <1>0, <1>2, <1>3 DEF InUse, TypeOK
  <2>q. QED BY <2>1 DEF InUse
<1>q. QED BY <1>5, <1>6, <1>7, <1>8

LEMMA GetFrameKeeps ==
  ASSUME FrameInv, GetFrame
  PROVE  FrameInv'
<1> USE DEF FrameInv
<1> DEFINE f == cur_async_frame
<1>0. /\ UNCHANGED <<video_frames, capture, async_frames, async_cache, used,
                     unused_count, cache_size, picture, size, captured, queued, texture_size, shown,
                     reached, resets>>
      /\ graphics.at = "render" /\ f # NoFrame
      /\ refs' = [refs EXCEPT ![f] = @ + 1]
      /\ graphics' = [at |-> "filter", frame |-> f] /\ cur_async_frame' = NoFrame
  BY DEF GetFrame, cacheVars, captureVars, filterVars, drawVars
<1>1. f \in Frames /\ Waiting(f) /\ ~ Held(f) /\ f \notin Elements(async_frames)
  BY <1>0 DEF TypeOK, Waiting, OnePlace
<1>2. \A g \in Frames : ~ Drawing(g) /\ (Drawing(g)' <=> g = f)
  BY <1>0, HandsOfThreads DEF Drawing
<1>3. \A g : (Kept(g)' <=> Kept(g)) /\ (Copying(g)' <=> Copying(g))
  BY <1>0, HandsUnchanged DEF Kept, Elements
<1>4. \A g \in Frames : Held(g)' <=> (Held(g) \/ g = f)
  BY <1>2, <1>3 DEF Held
<1>5. /\ Elements(async_frames)' = Elements(async_frames)
      /\ \A g \in Frames : Waiting(g)' <=> (Waiting(g) /\ g # f)
  <2>1. Elements(async_frames)' = Elements(async_frames)
    BY <1>0 DEF Elements
  <2>q. QED BY <1>0, <1>1, <2>1, AsyncAssumption DEF Waiting
<1>6. refs' \in [Frames -> Nat] /\ \A g \in Frames : refs'[g] = IF g = f THEN refs[g] + 1 ELSE refs[g]
  BY <1>0, <1>1 DEF TypeOK
<1>7. TypeOK'
  BY <1>0, <1>1, <1>6 DEF TypeOK
<1>8. RefsHeld'
  BY <1>0, <1>1, <1>4, <1>6 DEF RefsHeld, One
<1>9. OnePlace'
  <2>1. \A g \in Frames : /\ Copying(g)' => ~ Drawing(g)' /\ ~ Kept(g)'
                          /\ Kept(g)' => ~ Drawing(g)'
                          /\ Waiting(g)' => g \in async_cache' /\ ~ Held(g)'
    BY <1>0, <1>1, <1>2, <1>3, <1>4, <1>5 DEF OnePlace, Held
  <2>2. cur_async_frame' \notin Elements(async_frames)'
    BY <1>0, <1>5, AsyncAssumption DEF TypeOK, Elements
  <2>q. QED BY <1>0, <2>1, <2>2 DEF OnePlace, Distinct
<1>10. InUse'
  <2>1. \A g \in async_cache' : g \in used' <=> Waiting(g)' \/ Held(g)'
    BY <1>0, <1>1, <1>4, <1>5 DEF InUse, TypeOK
  <2>q. QED BY <2>1 DEF InUse
<1>q. QED BY <1>7, <1>8, <1>9, <1>10

(* Giving a frame back leaves it to the cache, where its entry is free, or *)
(* to nobody.                                                              *)
LEMMA ReleaseGivesBack ==
  ASSUME FrameInv, NEW f \in Frames, Held(f), ~ Copying(f), Release(f),
         async_cache' = async_cache,
         \A g : Waiting(g)' <=> Waiting(g),
         \A g \in Frames : Held(g)' <=> (Held(g) /\ g # f)
  PROVE  /\ refs' \in [Frames -> Nat]
         /\ \A g \in Frames : refs'[g] = One(Held(g)') + One(g \in async_cache')
         /\ used' \subseteq async_cache' /\ async_cache' \subseteq Frames
         /\ \A g \in async_cache' : g \in used' <=> Waiting(g)' \/ Held(g)'
<1> USE DEF FrameInv
<1>1. \A g \in Frames : refs'[g] = IF g = f THEN refs[g] - 1 ELSE refs[g]
  BY DEF Release, TypeOK
<1>2. \A g \in Frames : refs'[g] = One(Held(g)') + One(g \in async_cache')
  BY <1>1 DEF RefsHeld, One
<1>3. refs' \in [Frames -> Nat]
  <2>1. \A g \in Frames : refs'[g] \in Nat
    BY <1>2 DEF One
  <2>q. QED BY <2>1 DEF Release, TypeOK
<1>4. used' = used \ {f}
  <2>1. CASE f \in async_cache
    <3>1. refs'[f] # 0
      BY <1>2, <2>1 DEF One
    <3>q. QED BY <3>1 DEF Release, Remove
  <2>2. CASE f \notin async_cache
    <3>1. refs'[f] = 0
      BY <1>2, <2>2 DEF One
    <3>2. used' = used
      BY <3>1 DEF Release
    <3>q. QED BY <2>2, <3>2 DEF TypeOK
  <2>q. QED BY <2>1, <2>2
<1>5. ~ Waiting(f)
  BY DEF OnePlace
<1>6. used' \subseteq async_cache' /\ async_cache' \subseteq Frames
  BY <1>4 DEF TypeOK
<1>7. \A g \in async_cache' : g \in used' <=> Waiting(g)' \/ Held(g)'
  BY <1>4, <1>5, <1>6 DEF InUse
<1>q. QED BY <1>2, <1>3, <1>6, <1>7

LEMMA FilterFreeKeeps ==
  ASSUME FrameInv, FilterFree
  PROVE  FrameInv'
<1> USE DEF FrameInv
<1> DEFINE f == Head(video_frames)
<1>0. /\ UNCHANGED <<capture, async_frames, cur_async_frame, async_cache, graphics,
                     unused_count, cache_size, picture, size, captured, queued, texture_size, shown,
                     reached, resets>>
      /\ graphics.at = "reset" /\ video_frames # <<>>
      /\ Release(f) /\ video_frames' = Tail(video_frames)
  BY DEF FilterFree, captureVars, drawVars
<1>1. /\ video_frames' \in Seq(Frames) /\ f \in Frames
      /\ Elements(video_frames) = Elements(video_frames)' \union {f}
      /\ Distinct(video_frames)' /\ f \notin Elements(video_frames)'
  <2>1. video_frames \in Seq(Frames) /\ Distinct(video_frames)
    BY DEF TypeOK, OnePlace
  <2>2. /\ Tail(video_frames) \in Seq(Frames) /\ f \in Frames
        /\ Elements(video_frames) = Elements(Tail(video_frames)) \union {f}
        /\ Distinct(Tail(video_frames)) /\ f \notin Elements(Tail(video_frames))
    BY <1>0, <2>1, TailElements
  <2>q. QED BY <1>0, <2>2 DEF Elements, Distinct
<1>2. \A g : /\ (Kept(g)' <=> Kept(g) /\ g # f) /\ (Copying(g)' <=> Copying(g))
             /\ (Drawing(g)' <=> Drawing(g)) /\ (Waiting(g)' <=> Waiting(g))
  BY <1>0, <1>1, HandsUnchanged, QueueUnchanged DEF Kept, Drawing
<1>3. Kept(f) /\ ~ Copying(f) /\ ~ Drawing(f) /\ Held(f)
  BY <1>1 DEF OnePlace, Kept, Held
<1>4. \A g \in Frames : Held(g)' <=> (Held(g) /\ g # f)
  BY <1>2, <1>3 DEF Held
<1>5. /\ refs' \in [Frames -> Nat]
      /\ \A g \in Frames : refs'[g] = One(Held(g)') + One(g \in async_cache')
      /\ used' \subseteq async_cache' /\ async_cache' \subseteq Frames
      /\ \A g \in async_cache' : g \in used' <=> Waiting(g)' \/ Held(g)'
  BY <1>0, <1>1, <1>2, <1>3, <1>4, ReleaseGivesBack
<1>6. TypeOK'
  BY <1>0, <1>1, <1>5 DEF TypeOK
<1>7. RefsHeld'
  BY <1>0, <1>5 DEF RefsHeld
<1>8. OnePlace'
  <2>1. \A g \in Frames : /\ Copying(g)' => ~ Drawing(g)' /\ ~ Kept(g)'
                          /\ Kept(g)' => ~ Drawing(g)'
                          /\ Waiting(g)' => g \in async_cache' /\ ~ Held(g)'
    BY <1>0, <1>2, <1>4 DEF OnePlace
  <2>q. QED BY <1>0, <1>1, <2>1, QueueUnchanged DEF OnePlace, Distinct
<1>9. InUse'
  BY <1>5 DEF InUse
<1>q. QED BY <1>6, <1>7, <1>8, <1>9

LEMMA ReleaseFrameKeeps ==
  ASSUME FrameInv, ReleaseFrame
  PROVE  FrameInv'
<1> USE DEF FrameInv
<1> DEFINE f == graphics.frame
<1>0. /\ UNCHANGED <<capture, async_frames, cur_async_frame, async_cache, video_frames,
                     unused_count, cache_size, picture, size, captured, queued, texture_size, shown,
                     reached, resets>>
      /\ graphics.at = "release" /\ graphics' = [at |-> "idle", frame |-> NoFrame] /\ Release(f)
  BY DEF ReleaseFrame, captureVars, drawVars, filterVars, Idle
<1>1. f \in Frames /\ Drawing(f) /\ \A g : Drawing(g) => g = f
  BY <1>0, HandsOfThreads DEF Drawing
<1>2. /\ \A g : /\ (Kept(g)' <=> Kept(g)) /\ (Copying(g)' <=> Copying(g))
                /\ (Waiting(g)' <=> Waiting(g))
      /\ \A g \in Frames : ~ Drawing(g)'
  BY <1>0, HandsUnchanged, QueueUnchanged, AsyncAssumption DEF Kept, Elements, Drawing
<1>3. ~ Copying(f) /\ ~ Kept(f) /\ Held(f)
  BY <1>1 DEF OnePlace, Held
<1>4. \A g \in Frames : Held(g)' <=> (Held(g) /\ g # f)
  BY <1>1, <1>2, <1>3 DEF Held
<1>5. /\ refs' \in [Frames -> Nat]
      /\ \A g \in Frames : refs'[g] = One(Held(g)') + One(g \in async_cache')
      /\ used' \subseteq async_cache' /\ async_cache' \subseteq Frames
      /\ \A g \in async_cache' : g \in used' <=> Waiting(g)' \/ Held(g)'
  BY <1>0, <1>1, <1>2, <1>3, <1>4, ReleaseGivesBack
<1>6. TypeOK'
  BY <1>0, <1>5 DEF TypeOK
<1>7. RefsHeld'
  BY <1>0, <1>5 DEF RefsHeld
<1>8. OnePlace'
  <2>1. \A g \in Frames : /\ Copying(g)' => ~ Drawing(g)' /\ ~ Kept(g)'
                          /\ Kept(g)' => ~ Drawing(g)'
                          /\ Waiting(g)' => g \in async_cache' /\ ~ Held(g)'
    BY <1>0, <1>2, <1>4 DEF OnePlace
  <2>q. QED BY <1>0, <2>1, QueueUnchanged DEF OnePlace, Distinct
<1>9. InUse'
  BY <1>5 DEF InUse
<1>q. QED BY <1>6, <1>7, <1>8, <1>9

(* The filter takes the frame at hand, and perhaps gives the oldest of     *)
(* those it keeps, which may be the same, for it.                          *)
LEMMA FilterVideoKeeps ==
  ASSUME FrameInv, FilterVideo
  PROVE  FrameInv'
<1> USE DEF FrameInv
<1> DEFINE f == graphics.frame
           kept == Append(video_frames, f)
<1>0. /\ UNCHANGED <<capture, async_frames, cur_async_frame, async_cache, refs, used,
                     unused_count, cache_size, picture, size, captured, queued, texture_size, shown,
                     resets>>
      /\ graphics.at \in {"filter", "reset"}
  BY DEF FilterVideo, captureVars, drawVars, cacheVars
<1>1. /\ f \in Frames /\ Drawing(f) /\ (\A g : Drawing(g) => g = f)
      /\ ~ Copying(f) /\ f \notin Elements(video_frames)
  <2>1. f \in Frames /\ Drawing(f) /\ \A g : Drawing(g) => g = f
    BY <1>0, HandsOfThreads DEF Drawing
  <2>q. QED BY <2>1 DEF OnePlace, Kept
<1>2. /\ kept \in Seq(Frames) /\ Distinct(kept) /\ kept # <<>>
      /\ Elements(kept) = Elements(video_frames) \union {f}
  <2>1. video_frames \in Seq(Frames) /\ Distinct(video_frames)
    BY DEF TypeOK, OnePlace
  <2>2. kept # <<>>
    BY <1>1, <2>1
  <2>q. QED BY <1>1, <2>1, <2>2, AppendElements
<1>3. /\ video_frames' \in Seq(Frames) /\ Distinct(video_frames)' /\ reached' \in BOOLEAN
      /\ graphics' \in [at : {"idle", "render"}, frame : {NoFrame}]
             \union [at : {"size", "filter", "reset", "draw", "release"}, frame : Frames]
      /\ graphics'.at # "size"
      /\ \A g \in Frames : /\ (Kept(g)' \/ Drawing(g)') <=> (Kept(g) \/ Drawing(g))
                           /\ ~ (Kept(g)' /\ Drawing(g)')
  <2>1. CASE ~ reached /\ Len(kept) <= Delay
    <3>1. /\ video_frames' = kept /\ graphics' = [at |-> "idle", frame |-> NoFrame]
          /\ reached' = reached
      BY <2>1 DEF FilterVideo, Idle
    <3>2. \A g \in Frames : Kept(g)' <=> (Kept(g) \/ g = f)
      BY <1>2, <3>1 DEF Kept, Elements
    <3>3. \A g \in Frames : ~ Drawing(g)'
      BY <3>1, AsyncAssumption DEF Drawing
    <3>4. Distinct(video_frames)' /\ reached' \in BOOLEAN
      BY <1>2, <3>1 DEF Distinct, TypeOK
    <3>q. QED BY <1>1, <1>2, <3>1, <3>2, <3>3, <3>4
  <2>2. CASE ~ (~ reached /\ Len(kept) <= Delay)
    <3>1. /\ video_frames' = Tail(kept) /\ reached' = TRUE
          /\ graphics' = [at |-> "draw", frame |-> Head(kept)]
      BY <2>2 DEF FilterVideo
    <3>2. /\ Tail(kept) \in Seq(Frames) /\ Head(kept) \in Frames /\ Distinct(Tail(kept))
          /\ Elements(kept) = Elements(Tail(kept)) \union {Head(kept)}
          /\ Head(kept) \notin Elements(Tail(kept))
      BY <1>2, TailElements
    <3>3. \A g : Kept(g)' <=> g \in Elements(Tail(kept))
      BY <3>1 DEF Kept, Elements
    <3>4. \A g : Drawing(g)' <=> g = Head(kept)
      BY <3>1 DEF Drawing
    <3>5. \A g \in Frames : g \in Elements(kept) <=> (Kept(g) \/ Drawing(g))
      BY <1>1, <1>2 DEF Kept
    <3>6. Distinct(video_frames)'
      BY <3>1, <3>2 DEF Distinct
    <3>q. QED BY <3>1, <3>2, <3>3, <3>4, <3>5, <3>6
  <2>q. QED BY <2>1, <2>2
<1>4. \A g : (Copying(g)' <=> Copying(g)) /\ (Waiting(g)' <=> Waiting(g))
  BY <1>0, HandsUnchanged, QueueUnchanged
<1>5. \A g \in Frames : Held(g)' <=> Held(g)
  BY <1>3, <1>4 DEF Held
<1>6. TypeOK'
  BY <1>0, <1>3 DEF TypeOK
<1>7. RefsHeld'
  BY <1>0, <1>3, <1>5 DEF RefsHeld, One
<1>8. OnePlace'
  <2>1. \A g \in Frames : /\ Copying(g)' => ~ Drawing(g)' /\ ~ Kept(g)'
                          /\ Kept(g)' => ~ Drawing(g)'
                          /\ Waiting(g)' => g \in async_cache' /\ ~ Held(g)'
    BY <1>0, <1>3, <1>4, <1>5 DEF OnePlace
  <2>q. QED BY <1>0, <1>3, <2>1, QueueUnchanged DEF OnePlace, Distinct
<1>9. InUse'
  <2>1. \A g \in async_cache' : g \in used' <=> Waiting(g)' \/ Held(g)'
    BY <1>0, <1>4, <1>5 DEF InUse, TypeOK
  <2>q. QED BY <2>1 DEF InUse
<1>q. QED BY <1>6, <1>7, <1>8, <1>9

LEMMA InitFrames == Init => FrameInv
<1> SUFFICES ASSUME Init PROVE FrameInv
  OBVIOUS
<1>1. \A f \in Frames : ~ Held(f) /\ ~ Waiting(f)
  BY IdleHand, NoElements, AsyncAssumption
  DEF Init, Held, Copying, Drawing, Kept, Waiting
<1>2. AnySize \in Sizes
  BY AsyncAssumption DEF AnySize
<1>3. TypeOK
  <2>1. /\ refs \in [Frames -> Nat] /\ picture \in [Frames -> Nat]
        /\ unused_count \in [Frames -> Nat] /\ size \in [Frames -> Sizes]
    BY <1>2 DEF Init
  <2>2. /\ capture \in [Threads -> {Idle} \union [at : {"copy", "queue"}, frame : Frames]]
        /\ graphics \in [at : {"idle", "render"}, frame : {NoFrame}]
    BY DEF Init, Idle
  <2>3. /\ async_frames \in Seq(Frames) /\ video_frames \in Seq(Frames)
        /\ cur_async_frame \in Frames \union {NoFrame} /\ reached \in BOOLEAN
        /\ used \subseteq async_cache /\ async_cache \subseteq Frames
        /\ cache_size \in Sizes /\ texture_size \in Sizes
        /\ captured \in Nat /\ queued \in Nat /\ shown \in Nat /\ resets \in Nat
    BY <1>2, NoElements DEF Init
  <2>q. QED BY <2>1, <2>2, <2>3 DEF TypeOK
<1>4. RefsHeld
  BY <1>1, IdleHand DEF Init, RefsHeld, One
<1>5. OnePlace
  BY <1>1, NoElements DEF Init, OnePlace, Held
<1>6. InUse
  BY DEF Init, InUse
<1>q. QED BY <1>3, <1>4, <1>5, <1>6 DEF FrameInv

(* No frame is lost or freed while somebody has it, none is in two places, *)
(* and its cache entry is free exactly when nobody has it: if the cache is *)
(* not emptied while the graphics thread looks at a size (obs-source.c:    *)
(* 1025 reads cur_async_frame after async_mutex is released).              *)
THEOREM FramesAreSafe == ASSUME "size" \notin Races PROVE Spec => []FrameInv
<1>1. ASSUME FrameInv, [Next]_vars PROVE FrameInv'
  <2>1. CASE UNCHANGED vars
    BY <1>1, <2>1, SMTT(20)
    DEF FrameInv, TypeOK, RefsHeld, OnePlace, InUse, Held, Copying, Drawing, Kept, Waiting, Elements,
        Distinct, One, vars, cacheVars, captureVars, drawVars, filterVars
  <2>2. ASSUME NEW t \in Threads, CacheOverflow(t) \/ Copy(t) \/ Queue(t) PROVE FrameInv'
    BY <1>1, <2>2, OverflowKeeps, CopyKeeps, QueueKeeps
  <2>3. ASSUME NEW t \in Threads, NEW f \in Frames,
               CacheReuse(t, f) \/ CacheGrow(t, f) \/ \E s \in Sizes : CacheRestart(t, f, s)
        PROVE  FrameInv'
    BY <1>1, <2>3, ReuseKeeps, GrowKeeps, RestartKeeps
  <2>4. ASSUME NEW due \in DOMAIN async_frames, Tick(due) PROVE FrameInv'
    BY <1>1, <2>4, TickKeeps
  <2>5. CASE TickNothing \/ GetFrame \/ FilterFree \/ FilterVideo \/ ReleaseFrame
    BY <1>1, <2>5, TickNothingKeeps, GetFrameKeeps, FilterFreeKeeps, FilterVideoKeeps,
       ReleaseFrameKeeps
  <2>6. CASE Size \/ Unseen \/ FilterReset \/ Draw
    BY <1>1, <2>6, LookKeeps
  <2>q. QED BY <1>1, <2>1, <2>2, <2>3, <2>4, <2>5, <2>6 DEF Next
<1>q. QED BY InitFrames, <1>1, PTL DEF Spec

-----------------------------------------------------------------------------
(* What is drawn only goes forward, because the frames on their way to the *)
(* screen are in the order of their pictures: the one to be drawn, those   *)
(* that the filter keeps, the one it is given, and those that wait.        *)

Drawn(f)  == graphics.at = "draw" /\ graphics.frame = f
Passes(f) == graphics.at \in {"filter", "reset"} /\ graphics.frame = f
OnWay(f)  == Drawn(f) \/ Kept(f) \/ Passes(f) \/ Waiting(f)

Precedes(q, f, g) == \E i, j \in DOMAIN q : i < j /\ q[i] = f /\ q[j] = g

Ahead(f, g) ==
  \/ Drawn(f) /\ (Kept(g) \/ Waiting(g))
  \/ Precedes(video_frames, f, g)
  \/ Kept(f) /\ (Passes(g) \/ Waiting(g))
  \/ Passes(f) /\ Waiting(g)
  \/ f = cur_async_frame /\ g \in Elements(async_frames)
  \/ Precedes(async_frames, f, g)

(* No picture on its way is older than what is shown, or newer than what   *)
(* was queued last, and they are in turn.                                  *)
Forward ==
  /\ shown <= queued
  /\ \A f \in Frames : OnWay(f) => shown < picture[f] /\ picture[f] <= queued
  /\ \A f, g \in Frames : Ahead(f, g) => picture[f] < picture[g]

LEMMA AppendPrecedes ==
  ASSUME NEW q \in Seq(Frames), NEW f \in Frames, NEW a, NEW b,
         Precedes(Append(q, f), a, b)
  PROVE  Precedes(q, a, b) \/ (a \in Elements(q) /\ b = f)
<1>1. /\ Append(q, f) \in Seq(Frames) /\ Len(Append(q, f)) = Len(q) + 1 /\ Len(q) \in Nat
      /\ \A i \in 1 .. Len(q) : Append(q, f)[i] = q[i]
      /\ Append(q, f)[Len(q) + 1] = f /\ DOMAIN q = 1 .. Len(q)
      /\ DOMAIN Append(q, f) = 1 .. Len(q) + 1
  OBVIOUS
<1>2. PICK i, j \in 1 .. Len(q) + 1 : i < j /\ Append(q, f)[i] = a /\ Append(q, f)[j] = b
  BY <1>1 DEF Precedes
<1>3. i \in 1 .. Len(q) /\ a = q[i]
  BY <1>1, <1>2
<1>4. CASE j = Len(q) + 1
  BY <1>1, <1>2, <1>3, <1>4 DEF Elements
<1>5. CASE j # Len(q) + 1
  <2>1. j \in 1 .. Len(q)
    BY <1>1, <1>5
  <2>q. QED BY <1>1, <1>2, <1>3, <2>1 DEF Precedes
<1>q. QED BY <1>4, <1>5

(* What remains when the first "gone" are taken off.                       *)
LEMMA RestPrecedes ==
  ASSUME NEW q \in Seq(Frames), NEW gone \in 1 .. Len(q),
         NEW rest, rest = SubSeq(q, gone + 1, Len(q))
  PROVE  /\ \A a, b : Precedes(rest, a, b) => Precedes(q, a, b)
         /\ \A b : b \in Elements(rest) => Precedes(q, q[gone], b)
<1>1. /\ Len(q) \in Nat /\ DOMAIN q = 1 .. Len(q) /\ DOMAIN rest = 1 .. Len(q) - gone
      /\ \A i \in 1 .. Len(q) - gone : rest[i] = q[i + gone]
  OBVIOUS
<1>2. \A i \in 1 .. Len(q) - gone : i + gone \in 1 .. Len(q) /\ i + gone > gone
  BY <1>1
<1>3. ASSUME NEW a, NEW b, Precedes(rest, a, b) PROVE Precedes(q, a, b)
  <2>1. PICK i, j \in 1 .. Len(q) - gone : i < j /\ rest[i] = a /\ rest[j] = b
    BY <1>1, <1>3 DEF Precedes
  <2>2. i + gone < j + gone /\ q[i + gone] = a /\ q[j + gone] = b
    BY <1>1, <2>1
  <2>q. QED BY <1>1, <1>2, <2>2 DEF Precedes
<1>4. ASSUME NEW b \in Elements(rest) PROVE Precedes(q, q[gone], b)
  BY <1>1, <1>2 DEF Precedes, Elements
<1>q. QED BY <1>3, <1>4

LEMMA TailPrecedes ==
  ASSUME NEW q \in Seq(Frames), q # <<>>
  PROVE  /\ \A a, b : Precedes(Tail(q), a, b) => Precedes(q, a, b)
         /\ \A b : b \in Elements(Tail(q)) => Precedes(q, Head(q), b)
<1>1. /\ 1 \in 1 .. Len(q) /\ Head(q) = q[1] /\ Tail(q) = SubSeq(q, 1 + 1, Len(q))
  OBVIOUS
<1>q. QED BY <1>1, RestPrecedes

(* A step that lets no frame onto the way or ahead of another, and writes  *)
(* only to frames that are on no way, keeps their order.                   *)
LEMMA OrderKept ==
  ASSUME Forward, UNCHANGED <<shown, queued>>,
         \A f \in Frames : OnWay(f)' => OnWay(f) /\ picture'[f] = picture[f],
         \A f, g \in Frames : Ahead(f, g)' => Ahead(f, g) /\ OnWay(f)' /\ OnWay(g)'
  PROVE  Forward'
<1>1. \A f \in Frames : OnWay(f)' => shown' < picture'[f] /\ picture'[f] <= queued'
  BY DEF Forward
<1>2. \A f, g \in Frames : Ahead(f, g)' => picture'[f] < picture'[g]
  BY DEF Forward
<1>q. QED BY <1>1, <1>2 DEF Forward

LEMMA PrecedesWithin ==
  ASSUME NEW q, NEW f, NEW g, Precedes(q, f, g)
  PROVE  f \in Elements(q) /\ g \in Elements(q)
BY DEF Precedes, Elements

LEMMA AheadOnWay == \A f, g \in Frames : Ahead(f, g) => OnWay(f) /\ OnWay(g)
BY PrecedesWithin DEF Ahead, OnWay, Waiting, Kept

LEMMA OnWayAfter == \A f, g \in Frames : Ahead(f, g)' => OnWay(f)' /\ OnWay(g)'
<1>1. \A f, g \in Frames : Precedes(async_frames, f, g)' => Waiting(f)' /\ Waiting(g)'
  BY DEF Precedes, Elements, Waiting
<1>2. \A f, g \in Frames : Precedes(video_frames, f, g)' => Kept(f)' /\ Kept(g)'
  BY DEF Precedes, Elements, Kept
<1>q. QED BY <1>1, <1>2 DEF Ahead, OnWay, Waiting

(* The threads that capture. *)
LEMMA CaptureInTurn ==
  ASSUME FrameInv, Forward, NEW t \in Threads, NEW f \in Frames,
         \E s \in Sizes : Take(t, f, s), ~ OnWay(f)', shown' = shown,
         graphics' = graphics, video_frames' = video_frames,
         \/ UNCHANGED <<async_frames, cur_async_frame>>
         \/ async_frames' = <<>> /\ cur_async_frame' = NoFrame
  PROVE  Forward'
<1>1. \A g \in Frames : (Drawn(g)' <=> Drawn(g)) /\ (Passes(g)' <=> Passes(g)) /\ (Kept(g)' <=> Kept(g))
  BY FilterUnchanged DEF Drawn, Passes
<1>2. \A g \in Frames : /\ Waiting(g)' => Waiting(g)
                        /\ g \in Elements(async_frames)' => g \in Elements(async_frames)
                        /\ g = cur_async_frame' => g = cur_async_frame
  BY QueueUnchanged, NoElements, AsyncAssumption DEF Waiting, Elements
<1>3. \A g, h \in Frames :
        Precedes(async_frames, g, h)' => Precedes(async_frames, g, h)
  BY DEF Precedes
<1>4. \A g \in Frames : OnWay(g)' => OnWay(g)
  BY <1>1, <1>2 DEF OnWay
<1>5. \A g, h \in Frames : Ahead(g, h)' => Ahead(g, h)
  BY <1>1, <1>2, <1>3 DEF Ahead, Precedes
<1>6. \A g, h \in Frames : Ahead(g, h)' => OnWay(g)' /\ OnWay(h)'
  BY OnWayAfter
<1>7. queued' = queued /\ \A g \in Frames : g # f => picture'[g] = picture[g]
  BY DEF Take, FrameInv, TypeOK
<1>q. QED BY <1>4, <1>5, <1>6, <1>7, OrderKept

LEMMA AllCapture ==
  ASSUME FrameInv, Forward, NEW t \in Threads, NEW f \in Frames,
         CacheReuse(t, f) \/ CacheGrow(t, f) \/ \E s \in Sizes : CacheRestart(t, f, s)
  PROVE  Forward'
<1>1. CASE CacheReuse(t, f) \/ CacheGrow(t, f)
  <2>1. /\ UNCHANGED <<graphics, video_frames, async_frames, cur_async_frame, shown>>
        /\ Take(t, f, cache_size) /\ cache_size \in Sizes
    BY <1>1 DEF CacheReuse, CacheGrow, filterVars, drawVars, FrameInv, TypeOK
  <2>2. ~ Held(f) /\ ~ Waiting(f)
    <3>1. CASE CacheReuse(t, f)
      BY <3>1 DEF CacheReuse, FrameInv, InUse
    <3>2. CASE CacheGrow(t, f)
      <4>1. refs[f] = 0 /\ refs[f] = One(Held(f)) + One(f \in async_cache)
        BY <3>2 DEF CacheGrow, FrameInv, RefsHeld
      <4>2. ~ Held(f) /\ f \notin async_cache
        BY <4>1 DEF One
      <4>q. QED BY <4>2 DEF FrameInv, OnePlace
    <3>q. QED BY <1>1, <3>1, <3>2
  <2>3. ~ OnWay(f)'
    <3>1. ~ Drawn(f) /\ ~ Passes(f) /\ ~ Kept(f) /\ ~ Waiting(f)
      BY <2>2 DEF Held, Drawing, Drawn, Passes
    <3>2. (Drawn(f)' <=> Drawn(f)) /\ (Passes(f)' <=> Passes(f)) /\ (Kept(f)' <=> Kept(f))
          /\ (Waiting(f)' <=> Waiting(f))
      BY <2>1, FilterUnchanged, QueueUnchanged DEF Drawn, Passes
    <3>q. QED BY <3>1, <3>2 DEF OnWay
  <2>q. QED BY <2>1, <2>3, CaptureInTurn
<1>2. ASSUME NEW s \in Sizes, CacheRestart(t, f, s) PROVE Forward'
  <2>1. /\ UNCHANGED <<graphics, video_frames, shown>> /\ Take(t, f, s) /\ Freed[f] = 0
        /\ async_frames' = <<>> /\ cur_async_frame' = NoFrame
    BY <1>2 DEF CacheRestart, FreeCache, filterVars, drawVars
  <2>2. ~ Held(f)
    <3>1. Freed[f] = One(Held(f))
      BY DEF FrameInv, RefsHeld, Freed, One, TypeOK
    <3>q. QED BY <2>1, <3>1 DEF One
  <2>3. ~ OnWay(f)'
    <3>1. ~ Drawn(f) /\ ~ Passes(f) /\ ~ Kept(f)
      BY <2>2 DEF Held, Drawing, Drawn, Passes
    <3>2. (Drawn(f)' <=> Drawn(f)) /\ (Passes(f)' <=> Passes(f)) /\ (Kept(f)' <=> Kept(f))
      BY <2>1, FilterUnchanged DEF Drawn, Passes
    <3>3. ~ Waiting(f)'
      BY <2>1, NoElements, AsyncAssumption DEF Waiting
    <3>q. QED BY <3>1, <3>2, <3>3 DEF OnWay
  <2>q. QED BY <2>1, <2>3, CaptureInTurn
<1>q. QED BY <1>1, <1>2

(* A frame that is queued gets the newest picture, behind all others.      *)
LEMMA QueueInTurn ==
  ASSUME FrameInv, Forward, NEW t \in Threads, Queue(t)
  PROVE  Forward'
<1> DEFINE f == capture[t].frame
<1>1. /\ UNCHANGED <<graphics, video_frames, cur_async_frame, shown>>
      /\ capture[t].at = "queue"
  BY DEF Queue, filterVars, drawVars
<1>2. f \in Frames /\ Copying(f)
  <2>1. capture[t] # Idle
    BY <1>1, IdleHand
  <2>q. QED BY <2>1, HandsOfThreads DEF FrameInv, Copying
<1>3. ~ OnWay(f)
  BY <1>2 DEF FrameInv, OnePlace, OnWay, Held, Drawing, Drawn, Passes
<1>4. \A g : (Drawn(g)' <=> Drawn(g)) /\ (Passes(g)' <=> Passes(g)) /\ (Kept(g)' <=> Kept(g))
  BY <1>1, FilterUnchanged DEF Drawn, Passes
<1>5. CASE UNCHANGED <<async_frames, queued, picture>>
  <2>1. \A g : (Waiting(g)' <=> Waiting(g)) /\ (OnWay(g)' <=> OnWay(g))
    BY <1>1, <1>4, <1>5, QueueUnchanged DEF OnWay
  <2>2. \A g, h \in Frames : Ahead(g, h)' => Ahead(g, h)
    BY <1>1, <1>4, <1>5, <2>1 DEF Ahead, Precedes, Elements
  <2>q. QED BY <1>1, <1>5, <2>1, <2>2, OrderKept, AheadOnWay
<1>6. CASE ~ UNCHANGED <<async_frames, queued, picture>>
  <2>1. /\ async_frames' = Append(async_frames, f) /\ queued' = queued + 1
        /\ picture' = [picture EXCEPT ![f] = queued + 1]
    BY <1>6 DEF Queue
  <2>2. /\ picture'[f] = queued + 1 /\ \A g \in Frames : g # f => picture'[g] = picture[g]
        /\ queued \in Nat /\ shown \in Nat
    BY <1>2, <2>1 DEF FrameInv, TypeOK
  <2>3. Elements(async_frames)' = Elements(async_frames) \union {f}
    <3>1. Elements(Append(async_frames, f)) = Elements(async_frames) \union {f}
      BY <1>2, AppendElements DEF FrameInv, TypeOK
    <3>q. QED BY <2>1, <3>1 DEF Elements
  <2>4. \A g \in Frames : OnWay(g)' => OnWay(g) \/ g = f
    BY <1>1, <1>4, <2>3 DEF OnWay, Waiting
  <2>5. \A g, h \in Frames : Ahead(g, h)' => Ahead(g, h) \/ (OnWay(g) /\ h = f)
    <3>1. ASSUME NEW g \in Frames, NEW h \in Frames, Precedes(async_frames', g, h)
          PROVE  Precedes(async_frames, g, h) \/ (g \in Elements(async_frames) /\ h = f)
      BY <1>2, <2>1, <3>1, AppendPrecedes DEF FrameInv, TypeOK
    <3>2. ASSUME NEW g \in Frames, NEW h \in Frames, Precedes(video_frames', g, h)
          PROVE  Precedes(video_frames, g, h)
      BY <1>1, <3>2
    <3>3. \A g : Waiting(g)' => Waiting(g) \/ g = f
      BY <1>1, <2>3 DEF Waiting
    <3>q. QED BY <1>1, <1>4, <2>3, <3>1, <3>2, <3>3 DEF Ahead, OnWay, Waiting
  <2>6. ASSUME NEW g \in Frames, OnWay(g)'
        PROVE  shown' < picture'[g] /\ picture'[g] <= queued'
    <3>1. CASE g = f
      BY <1>1, <2>1, <2>2, <3>1 DEF Forward
    <3>2. CASE g # f
      <4>1. OnWay(g) /\ picture[g] \in Nat
        BY <2>4, <2>6, <3>2 DEF FrameInv, TypeOK
      <4>q. QED BY <1>1, <2>1, <2>2, <3>2, <4>1 DEF Forward
    <3>q. QED BY <3>1, <3>2
  <2>7. ASSUME NEW g \in Frames, NEW h \in Frames, Ahead(g, h)'
        PROVE  picture'[g] < picture'[h]
    <3>1. picture[g] \in Nat /\ picture[h] \in Nat
      BY DEF FrameInv, TypeOK
    <3>2. CASE Ahead(g, h)
      <4>1. OnWay(g) /\ OnWay(h)
        BY <3>2, AheadOnWay
      <4>2. g # f /\ h # f
        BY <1>3, <4>1
      <4>q. QED BY <2>2, <3>2, <4>2 DEF Forward
    <3>3. CASE OnWay(g) /\ h = f
      <4>1. g # f /\ picture[g] <= queued
        BY <1>3, <3>3 DEF Forward
      <4>q. QED BY <2>2, <3>1, <3>3, <4>1
    <3>q. QED BY <2>5, <2>7, <3>2, <3>3
  <2>8. shown' <= queued'
    BY <1>1, <2>1, <2>2 DEF Forward
  <2>q. QED BY <2>6, <2>7, <2>8 DEF Forward
<1>q. QED BY <1>5, <1>6

(* The graphics thread picks a frame: it was ahead of those left.          *)
LEMMA TickInTurn ==
  ASSUME FrameInv, Forward, NEW due \in DOMAIN async_frames, Tick(due)
  PROVE  Forward'
<1> DEFINE f == async_frames[due]
           rest == SubSeq(async_frames, due + 1, Len(async_frames))
<1>1. /\ UNCHANGED <<video_frames, shown, queued, picture>>
      /\ graphics.at = "idle" /\ graphics'.at = "size"
      /\ cur_async_frame' = f /\ async_frames' = rest
  BY DEF Tick, captureVars, drawVars, filterVars
<1>2. async_frames \in Seq(Frames) /\ due \in 1 .. Len(async_frames)
  BY SMTT(20) DEF FrameInv, TypeOK
<1>3. /\ \A g, h : Precedes(rest, g, h) => Precedes(async_frames, g, h)
      /\ \A h \in Elements(rest) : Precedes(async_frames, f, h)
      /\ Elements(rest) \subseteq Elements(async_frames) /\ f \in Elements(async_frames)
  <2>1. /\ \A g, h : Precedes(rest, g, h) => Precedes(async_frames, g, h)
        /\ \A h \in Elements(rest) : Precedes(async_frames, f, h)
    BY <1>2, RestPrecedes
  <2>2. f \in Elements(async_frames)
    BY <1>2 DEF Elements
  <2>q. QED BY <2>1, <2>2, PrecedesWithin
<1>4. \A g : /\ ~ Drawn(g)' /\ ~ Passes(g)' /\ (Kept(g)' <=> Kept(g))
             /\ Waiting(g)' => Waiting(g)
  <2>1. Elements(async_frames)' = Elements(rest)
    BY <1>1 DEF Elements
  <2>q. QED BY <1>1, <1>3, <2>1 DEF Drawn, Passes, Kept, Elements, Waiting
<1>5. \A g, h \in Frames : Ahead(g, h)' => Ahead(g, h)
  <2>1. \A g, h : Precedes(async_frames', g, h) => Precedes(async_frames, g, h)
    BY <1>1, <1>3
  <2>2. \A g, h : g = cur_async_frame' /\ h \in Elements(async_frames') => Precedes(async_frames, g, h)
    BY <1>1, <1>3
  <2>3. \A g, h : Precedes(video_frames', g, h) => Precedes(video_frames, g, h)
    BY <1>1
  <2>q. QED BY <1>4, <2>1, <2>2, <2>3 DEF Ahead
<1>6. \A g \in Frames : OnWay(g)' => OnWay(g)
  BY <1>4 DEF OnWay
<1>7. \A g, h \in Frames : Ahead(g, h)' => OnWay(g)' /\ OnWay(h)'
  BY OnWayAfter
<1>q. QED BY <1>1, <1>5, <1>6, <1>7, OrderKept

(* Frames that leave, or are thrown away, were on their way before.        *)
LEMMA QuietInTurn ==
  ASSUME FrameInv, Forward,
         UNCHANGED <<shown, queued, picture, video_frames>>,
         \/ UNCHANGED <<async_frames, cur_async_frame>>
         \/ async_frames' \in {async_frames, <<>>} /\ cur_async_frame' = NoFrame,
         \A f \in Frames : (Drawn(f)' => Drawn(f)) /\ (Passes(f)' => Passes(f))
  PROVE  Forward'
<1>1. \A g \in Frames : /\ Kept(g)' <=> Kept(g)
                        /\ Waiting(g)' => Waiting(g)
                        /\ g \in Elements(async_frames)' => g \in Elements(async_frames)
                        /\ g = cur_async_frame' => g = cur_async_frame
  BY NoElements, AsyncAssumption DEF Waiting, Elements, Kept
<1>2. \A g, h \in Frames : /\ Precedes(async_frames, g, h)' => Precedes(async_frames, g, h)
                           /\ Precedes(video_frames, g, h)' => Precedes(video_frames, g, h)
  BY DEF Precedes
<1>3. \A g \in Frames : OnWay(g)' => OnWay(g)
  BY <1>1 DEF OnWay
<1>4. \A g, h \in Frames : Ahead(g, h)' => Ahead(g, h)
  BY <1>1, <1>2 DEF Ahead
<1>q. QED BY <1>3, <1>4, OnWayAfter, OrderKept

LEMMA OthersInTurn ==
  ASSUME FrameInv, Forward,
         \/ \E t \in Threads : CacheOverflow(t) \/ Copy(t)
         \/ TickNothing \/ Size \/ Unseen \/ FilterReset \/ ReleaseFrame
  PROVE  Forward'
<1>1. UNCHANGED <<shown, queued, picture, video_frames>>
  BY DEF CacheOverflow, Copy, TickNothing, Size, Unseen, FilterReset, ReleaseFrame, FreeCache,
         captureVars, drawVars, filterVars
<1>2. \/ UNCHANGED <<async_frames, cur_async_frame>>
      \/ async_frames' \in {async_frames, <<>>} /\ cur_async_frame' = NoFrame
  BY DEF CacheOverflow, Copy, TickNothing, Size, Unseen, FilterReset, ReleaseFrame, FreeCache
<1>3. \A f \in Frames : (Drawn(f)' => Drawn(f)) /\ (Passes(f)' => Passes(f))
  <2>1. CASE UNCHANGED graphics
    BY <2>1 DEF Drawn, Passes
  <2>2. CASE graphics'.at \in {"idle", "render"}
    BY <2>2 DEF Drawn, Passes
  <2>3. CASE FilterReset
    <3>1. /\ graphics.at = "filter" /\ graphics'.at = "reset"
          /\ graphics'.frame = graphics.frame
      <4>1. graphics = [at |-> graphics.at, frame |-> graphics.frame]
        BY HandsOfThreads DEF FrameInv
      <4>q. QED BY <2>3, <4>1 DEF FilterReset
    <3>q. QED BY <3>1 DEF Drawn, Passes
  <2>q. QED BY <2>1, <2>2, <2>3, IdleHand
            DEF CacheOverflow, Copy, TickNothing, Size, Unseen, ReleaseFrame, FreeCache
<1>q. QED BY <1>1, <1>2, <1>3, QuietInTurn

(* The frame that is picked is ahead of the queue.                         *)
LEMMA GetFrameInTurn ==
  ASSUME FrameInv, Forward, GetFrame
  PROVE  Forward'
<1> DEFINE f == cur_async_frame
<1>1. /\ UNCHANGED <<video_frames, async_frames, shown, queued, picture>>
      /\ graphics.at = "render" /\ graphics' = [at |-> "filter", frame |-> f]
      /\ cur_async_frame' = NoFrame /\ f # NoFrame
  BY DEF GetFrame, captureVars, drawVars, filterVars
<1>2. f \in Frames /\ Waiting(f)
  BY <1>1 DEF FrameInv, TypeOK, Waiting
<1>3. \A g \in Frames : /\ ~ Drawn(g)' /\ (Passes(g)' <=> g = f) /\ (Kept(g)' <=> Kept(g))
                        /\ Waiting(g)' <=> g \in Elements(async_frames)
                        /\ g # cur_async_frame'
  BY <1>1, AsyncAssumption DEF Drawn, Passes, Kept, Elements, Waiting
<1>4. \A g \in Frames : OnWay(g)' => OnWay(g)
  BY <1>2, <1>3 DEF OnWay, Waiting
<1>5. \A g, h \in Frames : Ahead(g, h)' => Ahead(g, h)
  <2>1. \A g, h \in Frames : /\ Precedes(async_frames, g, h)' => Precedes(async_frames, g, h)
                             /\ Precedes(video_frames, g, h)' => Precedes(video_frames, g, h)
    BY <1>1 DEF Precedes
  <2>2. \A g, h \in Frames : Kept(g)' /\ (Passes(h)' \/ Waiting(h)') => Ahead(g, h)
    BY <1>2, <1>3 DEF Ahead, Waiting
  <2>3. \A g, h \in Frames : Passes(g)' /\ Waiting(h)' => Ahead(g, h)
    BY <1>3 DEF Ahead
  <2>q. QED BY <1>3, <2>1, <2>2, <2>3 DEF Ahead
<1>q. QED BY <1>1, <1>4, <1>5, OnWayAfter, OrderKept

(* The filter gives back its oldest frame ...                              *)
LEMMA FilterFreeInTurn ==
  ASSUME FrameInv, Forward, FilterFree
  PROVE  Forward'
<1>1. /\ UNCHANGED <<graphics, async_frames, cur_async_frame, shown, queued, picture>>
      /\ video_frames # <<>> /\ video_frames' = Tail(video_frames)
      /\ video_frames \in Seq(Frames)
  BY DEF FilterFree, captureVars, drawVars, FrameInv, TypeOK
<1>2. \A g : /\ Kept(g)' => Kept(g)
             /\ (Drawn(g)' <=> Drawn(g)) /\ (Passes(g)' <=> Passes(g)) /\ (Waiting(g)' <=> Waiting(g))
  <2>1. Elements(video_frames)' \subseteq Elements(video_frames)
    BY <1>1, TailElements DEF Elements
  <2>q. QED BY <1>1, <2>1, QueueUnchanged DEF Kept, Drawn, Passes
<1>3. \A g \in Frames : OnWay(g)' => OnWay(g)
  BY <1>2 DEF OnWay
<1>4. \A g, h \in Frames : Ahead(g, h)' => Ahead(g, h)
  <2>1. \A g, h : Precedes(video_frames', g, h) => Precedes(video_frames, g, h)
    BY <1>1, TailPrecedes
  <2>2. \A g, h : Precedes(async_frames', g, h) => Precedes(async_frames, g, h)
    BY <1>1
  <2>3. Elements(async_frames') = Elements(async_frames)
    BY <1>1
  <2>q. QED BY <1>1, <1>2, <2>1, <2>2, <2>3 DEF Ahead
<1>q. QED BY <1>1, <1>3, <1>4, OnWayAfter, OrderKept

(* ... or passes it on to be drawn, ahead of the one that it is given.     *)
LEMMA FilterVideoInTurn ==
  ASSUME FrameInv, Forward, FilterVideo
  PROVE  Forward'
<1> DEFINE f == graphics.frame
           kept == Append(video_frames, f)
<1>1. /\ UNCHANGED <<async_frames, cur_async_frame, shown, queued, picture>>
      /\ graphics.at \in {"filter", "reset"} /\ video_frames \in Seq(Frames)
  BY DEF FilterVideo, captureVars, drawVars, FrameInv, TypeOK
<1>2. f \in Frames /\ Passes(f)
  BY <1>1, HandsOfThreads DEF FrameInv, Passes
<1>3. /\ kept \in Seq(Frames) /\ kept # <<>>
      /\ \A g : g \in Elements(kept) <=> (Kept(g) \/ g = f)
  BY <1>1, <1>2, AppendElements DEF Kept
<1>4. \A g, h : Precedes(kept, g, h) => Precedes(video_frames, g, h) \/ (Kept(g) /\ h = f)
  BY <1>1, <1>2, AppendPrecedes DEF Kept
<1>5. \A g : Waiting(g)' <=> Waiting(g)
  BY <1>1, QueueUnchanged
<1>6. /\ Elements(async_frames') = Elements(async_frames)
      /\ \A g, h : Precedes(async_frames', g, h) => Precedes(async_frames, g, h)
  BY <1>1
<1>7. CASE video_frames' = kept /\ graphics' = Idle
  <2>1. \A g \in Frames : ~ Drawn(g)' /\ ~ Passes(g)' /\ (Kept(g)' <=> Kept(g) \/ g = f)
    BY <1>3, <1>7, IdleHand DEF Drawn, Passes, Kept, Elements
  <2>2. \A g, h \in Frames : Precedes(video_frames', g, h) => Ahead(g, h)
    BY <1>2, <1>4, <1>7 DEF Ahead
  <2>3. \A g \in Frames : OnWay(g)' => OnWay(g)
    BY <1>2, <1>5, <2>1 DEF OnWay
  <2>4. \A g, h \in Frames : Ahead(g, h)' => Ahead(g, h)
    BY <1>1, <1>2, <1>5, <1>6, <2>1, <2>2 DEF Ahead
  <2>q. QED BY <1>1, <2>3, <2>4, OnWayAfter, OrderKept
<1>8. CASE video_frames' = Tail(kept) /\ graphics' = [at |-> "draw", frame |-> Head(kept)]
  <2>1. /\ Elements(kept) = Elements(Tail(kept)) \union {Head(kept)}
        /\ \A a, b : Precedes(Tail(kept), a, b) => Precedes(kept, a, b)
        /\ \A b : b \in Elements(Tail(kept)) => Precedes(kept, Head(kept), b)
    BY <1>3, TailElements, TailPrecedes
  <2>2. \A g : /\ Drawn(g)' <=> g = Head(kept)
               /\ ~ Passes(g)' /\ (Kept(g)' <=> g \in Elements(Tail(kept)))
    BY <1>8 DEF Drawn, Passes, Kept, Elements
  <2>3. \A g \in Frames : Drawn(g)' \/ Kept(g)' => Kept(g) \/ Passes(g)
    BY <1>2, <1>3, <2>1, <2>2
  <2>4. \A g, h \in Frames : Precedes(kept, g, h) => Ahead(g, h)
    BY <1>2, <1>4 DEF Ahead
  <2>5. \A g, h \in Frames : Precedes(video_frames', g, h) \/ (Drawn(g)' /\ Kept(h)') => Ahead(g, h)
    BY <1>8, <2>1, <2>2, <2>4
  <2>6. \A g \in Frames : OnWay(g)' => OnWay(g)
    BY <1>5, <2>2, <2>3 DEF OnWay
  <2>7. \A g, h \in Frames : Waiting(h) /\ (Kept(g) \/ Passes(g)) => Ahead(g, h)
    BY DEF Ahead
  <2>8. \A g, h \in Frames : Ahead(g, h)' => Ahead(g, h)
    <3>1. \A g, h \in Frames : g = cur_async_frame' /\ h \in Elements(async_frames') => Ahead(g, h)
      BY <1>1, <1>6 DEF Ahead
    <3>2. \A g, h \in Frames : Precedes(async_frames', g, h) => Ahead(g, h)
      BY <1>6 DEF Ahead
    <3>3. \A g, h \in Frames : (Drawn(g)' \/ Kept(g)' \/ Passes(g)') /\ Waiting(h)' => Ahead(g, h)
      BY <1>5, <2>2, <2>3, <2>7
    <3>4. \A g, h \in Frames : ~ Passes(h)'
      BY <2>2
    <3>q. QED BY <2>5, <3>1, <3>2, <3>3, <3>4 DEF Ahead
  <2>q. QED BY <1>1, <2>6, <2>8, OnWayAfter, OrderKept
<1>q. QED BY <1>7, <1>8 DEF FilterVideo

(* What is drawn was ahead of all others, and later than what was shown.   *)
LEMMA DrawInTurn ==
  ASSUME FrameInv, Forward, Draw
  PROVE  Forward' /\ shown' > shown
<1> DEFINE f == graphics.frame
<1>1. /\ UNCHANGED <<video_frames, async_frames, cur_async_frame, queued, picture>>
      /\ graphics.at = "draw" /\ shown' = picture[f] /\ graphics'.at = "release"
  <2>1. graphics = [at |-> graphics.at, frame |-> graphics.frame]
    BY HandsOfThreads DEF FrameInv
  <2>q. QED BY <2>1 DEF Draw, captureVars, filterVars
<1>2. f \in Frames /\ Drawn(f)
  BY <1>1, HandsOfThreads DEF FrameInv, Drawn
<1>3. /\ shown < picture[f] /\ picture[f] <= queued
      /\ shown \in Nat /\ queued \in Nat /\ picture \in [Frames -> Nat]
  BY <1>2 DEF Forward, OnWay, FrameInv, TypeOK
<1>4. \A g : /\ ~ Drawn(g)' /\ ~ Passes(g)' /\ ~ Passes(g) /\ (Kept(g)' <=> Kept(g))
             /\ (Waiting(g)' <=> Waiting(g))
  BY <1>1, QueueUnchanged DEF Drawn, Passes, Kept, Elements
<1>5. \A g \in Frames : OnWay(g)' => Ahead(f, g) /\ OnWay(g)
  BY <1>2, <1>4 DEF OnWay, Ahead
<1>6. \A g, h \in Frames : Ahead(g, h)' => Ahead(g, h)
  <2>1. /\ Elements(async_frames') = Elements(async_frames)
        /\ \A g, h : /\ Precedes(async_frames', g, h) => Precedes(async_frames, g, h)
                     /\ Precedes(video_frames', g, h) => Precedes(video_frames, g, h)
    BY <1>1
  <2>q. QED BY <1>1, <1>4, <2>1 DEF Ahead
<1>7. \A g \in Frames : OnWay(g)' => shown' < picture'[g] /\ picture'[g] <= queued'
  BY <1>1, <1>2, <1>5 DEF Forward
<1>8. \A g, h \in Frames : Ahead(g, h)' => picture'[g] < picture'[h]
  BY <1>1, <1>6 DEF Forward
<1>q. QED BY <1>1, <1>3, <1>7, <1>8 DEF Forward

LEMMA InitForward == Init => Forward
<1> SUFFICES ASSUME Init PROVE Forward
  OBVIOUS
<1>1. \A f \in Frames : ~ OnWay(f)
  BY IdleHand, NoElements, AsyncAssumption DEF Init, OnWay, Drawn, Passes, Kept, Waiting
<1>2. shown <= queued
  BY DEF Init
<1>q. QED BY <1>1, <1>2, AheadOnWay DEF Forward

LEMMA ForwardStep ==
  ASSUME FrameInv, Forward, [Next]_vars
  PROVE  Forward' /\ (shown' # shown => shown' > shown)
<1>1. CASE UNCHANGED vars
  <2>1. Forward'
    BY <1>1 DEF Forward, OnWay, Ahead, Drawn, Passes, Kept, Waiting, Elements, Precedes,
                vars, cacheVars, captureVars, drawVars, filterVars
  <2>q. QED BY <1>1, <2>1 DEF vars, drawVars
<1>2. ASSUME NEW t \in Threads, NEW f \in Frames,
             CacheReuse(t, f) \/ CacheGrow(t, f) \/ \E s \in Sizes : CacheRestart(t, f, s)
      PROVE  Forward' /\ shown' = shown
  <2>1. shown' = shown
    BY <1>2 DEF CacheReuse, CacheGrow, CacheRestart, FreeCache, drawVars
  <2>q. QED BY <1>2, <2>1, AllCapture
<1>3. ASSUME NEW t \in Threads, Queue(t) PROVE Forward' /\ shown' = shown
  <2>1. shown' = shown
    BY <1>3 DEF Queue, drawVars
  <2>q. QED BY <1>3, <2>1, QueueInTurn
<1>4. ASSUME NEW due \in DOMAIN async_frames, Tick(due) PROVE Forward' /\ shown' = shown
  <2>1. shown' = shown
    BY <1>4 DEF Tick, drawVars
  <2>q. QED BY <1>4, <2>1, TickInTurn
<1>5. CASE \/ \E t \in Threads : CacheOverflow(t) \/ Copy(t)
           \/ TickNothing \/ Size \/ Unseen \/ FilterReset \/ ReleaseFrame
  <2>1. shown' = shown
    BY <1>5 DEF CacheOverflow, Copy, TickNothing, Size, Unseen, FilterReset, ReleaseFrame,
                FreeCache, drawVars
  <2>q. QED BY <1>5, <2>1, OthersInTurn
<1>6. CASE GetFrame \/ FilterFree \/ FilterVideo
  <2>1. shown' = shown
    BY <1>6 DEF GetFrame, FilterFree, FilterVideo, drawVars
  <2>q. QED BY <1>6, <2>1, GetFrameInTurn, FilterFreeInTurn, FilterVideoInTurn
<1>7. CASE Draw
  BY <1>7, DrawInTurn
<1>q. QED BY <1>1, <1>2, <1>3, <1>4, <1>5, <1>6, <1>7 DEF Next

(* What is drawn only goes forward, whatever the filter keeps and however  *)
(* often the cache is emptied (obs-source.c: async_tick, and the delay     *)
(* filter); under the same condition.                                      *)
THEOREM PicturesGoForward == ASSUME "size" \notin Races PROVE Spec => ShownForward
<1>1. FrameInv /\ Forward /\ [Next]_vars => Forward'
  BY ForwardStep
<1>2. FrameInv /\ Forward /\ [Next]_vars => [shown' # shown => shown' > shown]_shown
  BY ForwardStep
<1>q. QED BY FramesAreSafe, InitForward, <1>1, <1>2, PTL DEF Spec, ShownForward
=============================================================================
