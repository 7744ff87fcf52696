----------------------- MODULE AudioBuffering_proofs -----------------------
(***************************************************************************)
(* The blocks that the audio thread gives out follow each other, for every *)
(* number of sources, every lateness of their timestamps and every limit   *)
(* of the buffering.                                                       *)
(*                                                                         *)
(* What is heard of a source is in its place, and no more of it is lost    *)
(* than the buffering has grown by, wherever between two frames its        *)
(* timestamps fall and whenever they jump, with the exceptions that the    *)
(* properties name.                                                        *)
(***************************************************************************)
EXTENDS AudioBuffering, WellFoundedInduction, TLAPS

LEMMA BlockType == Block \in Nat /\ Block > 0
  BY AudioAssumption DEF Block

LEMMA StartType == Start \in Nat
  BY AudioAssumption, BlockType DEF Start

LEMMA TimesMonotone ==
  ASSUME NEW a \in Nat, NEW b \in Nat, a <= b, NEW c \in Nat
  PROVE  a * c <= b * c
  OBVIOUS

(* As many blocks as the buffering allows do not reach back to time 0. *)
LEMMA BlocksAfterZero ==
  ASSUME NEW p \in Nat, p >= Start, NEW n \in 0 .. MAX_BUFFERING_TICKS + 1
  PROVE  p - n * Block \in Nat
<1>1. n * Block <= (MAX_BUFFERING_TICKS + 2) * Block
  BY AudioAssumption, BlockType, TimesMonotone
<1> QED
  BY <1>1, AudioAssumption, BlockType DEF Start

(* A set of natural numbers has a minimum. *)
LEMMA NatMin ==
  ASSUME NEW S \in SUBSET Nat, S # {}
  PROVE  Min(S) \in S /\ \A x \in S : Min(S) <= x
<1> DEFINE less == {p \in Nat \X Nat : p[1] < p[2]}
<1>1. OpToRel(<, Nat) = less
  BY Zenon DEF OpToRel
<1>2. IsWellFoundedOn(less, Nat)
  BY <1>1, NatLessThanWellFounded, Zenon
<1>3. PICK m \in S : \A y \in S : ~ (<<y, m>> \in less)
  <2> HIDE DEF less
  <2> QED
    BY <1>2, WFMin
<1>4. \A y \in S : m <= y
  <2>1. TAKE y \in S
  <2>2. y \in Nat /\ m \in Nat
    OBVIOUS
  <2>3. <<y, m>> \in Nat \X Nat /\ ~ (<<y, m>> \in less)
    BY <1>3, <2>2
  <2>4. ~ (y < m)
    BY <2>2, <2>3
  <2> QED
    BY <2>2, <2>4
<1> QED
  BY <1>4 DEF Min

LEMMA SourceTypes ==
  ASSUME Types, NEW s \in Sources
  PROVE  source[s].audio_ts \in Nat /\ source[s].size \in Nat
  BY DEF Types, SourceRecord

(* The least timestamp does not come after the block. *)
LEMMA MinTsType ==
  ASSUME Types
  PROVE  min_ts \in Nat /\ min_ts <= ts.start
<1> DEFINE S == {ts.start} \union
      {source[s].audio_ts :
         s \in {r \in Sources : ~ source[r].pending /\ source[r].audio_ts # None}}
<1>1. S \in SUBSET Nat /\ ts.start \in S
  BY SourceTypes DEF Types
<1> QED
  BY <1>1, NatMin DEF min_ts

LEMMA InitBuffering == Init => BufferingInv
<1> SUFFICES ASSUME Init PROVE BufferingInv
  OBVIOUS
<1>1. Start - Block \in Nat
  BY BlocksAfterZero, StartType, BlockType, AudioAssumption
<1>2. Types
  <2>1. source \in [Sources -> SourceRecord]
    BY DEF Init, Silent, None, SourceRecord
  <2> QED
    BY <1>1, <2>1, StartType, AudioAssumption DEF Init, Types
<1>3. Chain /\ Resumes
  BY <1>1, StartType, BlockType DEF Init, Chain, Resumes
<1> QED
  BY <1>2, <1>3 DEF BufferingInv

----------------------------------------------------------------------------
(* The steps of the audio thread. *)

(* The blocks under way, once the tick has begun: they begin after time 0, *)
(* and the thread handles the first of them.                               *)
LEMMA Underway ==
  ASSUME BufferingInv
  PROVE  LET n == Len(buffered_timestamps)
         IN /\ n \in 0 .. MAX_BUFFERING_TICKS + 1
            /\ n = total_buffering_ticks + (IF pc = "wait" THEN 0 ELSE 1)
            /\ prev_time - n * Block \in Nat
            /\ pc # "wait" => /\ n > 0
                              /\ ts.start = prev_time - n * Block
                              /\ ts.start + buffering_wait_ticks * Block = out_ts + Block
<1> DEFINE n == Len(buffered_timestamps)
<1>1. /\ n \in 0 .. MAX_BUFFERING_TICKS + 1
      /\ n = total_buffering_ticks + (IF pc = "wait" THEN 0 ELSE 1)
  BY AudioAssumption DEF BufferingInv, Types, Chain
<1>2. prev_time - n * Block \in Nat
  BY <1>1, BlocksAfterZero DEF BufferingInv, Types
<1>3. pc # "wait" => n > 0 /\ ts.start = prev_time - n * Block
  <2>1. SUFFICES ASSUME pc # "wait" PROVE n > 0 /\ ts.start = prev_time - n * Block
    OBVIOUS
  <2>2. n > 0
    BY <1>1, <2>1 DEF BufferingInv, Types
  <2>3. buffered_timestamps[1] = prev_time - (n + 1 - 1) * Block /\ n + 1 - 1 = n
    BY <1>1, <2>2 DEF BufferingInv, Chain
  <2> QED
    BY <2>1, <2>2, <2>3 DEF BufferingInv, Chain
<1> HIDE DEF n
<1>4. prev_time - n * Block + buffering_wait_ticks * Block = out_ts + Block
  BY DEF BufferingInv, Resumes, n
<1> QED
  BY <1>1, <1>2, <1>3, <1>4 DEF n

LEMMA EditedType ==
  ASSUME NEW r \in SourceRecord, NEW k \in Nat, NEW t \in Nat
  PROVE  /\ [r EXCEPT !.size = k, !.last_size = 0] \in SourceRecord
         /\ [r EXCEPT !.size = 0, !.last_size = 0, !.audio_ts = t] \in SourceRecord
         /\ [r EXCEPT !.size = k, !.last_size = 0, !.pending_stop = FALSE, !.audio_ts = t]
               \in SourceRecord
  BY DEF SourceRecord

(* What a source's thread or the audio thread makes of a source's buffer   *)
(* keeps its type.                                                         *)
LEMMA PlaceType ==
  ASSUME Types, NEW s \in Sources, NEW late \in Lateness, NEW n \in Chunks,
         Place(s, prev_time - late, n)
  PROVE  source' \in [Sources -> SourceRecord]
<1> DEFINE t == prev_time - late
           base == IF source[s].audio_ts = None \/ t < source[s].audio_ts
                   THEN [source[s] EXCEPT !.size = 0, !.last_size = 0, !.audio_ts = t]
                   ELSE source[s]
           placement == frames(t - base.audio_ts)
<1>1. t \in Nat
  <2>1. late \in Nat /\ late <= Start
    BY AudioAssumption DEF Start, Block
  <2> QED
    BY <2>1, StartType DEF Types
<1>2. source[s] \in SourceRecord
  BY DEF Types
<1>3. base \in SourceRecord /\ base.audio_ts <= t
  <2>1. source[s].audio_ts \in Nat
    BY <1>2 DEF SourceRecord
  <2>2. CASE source[s].audio_ts = None \/ t < source[s].audio_ts
    <3> HIDE DEF t
    <3>1. [source[s] EXCEPT !.size = 0, !.last_size = 0, !.audio_ts = t] \in SourceRecord
      BY <1>1, <1>2, EditedType
    <3>2. [source[s] EXCEPT !.size = 0, !.last_size = 0, !.audio_ts = t].audio_ts = t
      BY <1>2 DEF SourceRecord
    <3> QED
      BY <1>1, <2>2, <3>1, <3>2
  <2>3. CASE ~ (source[s].audio_ts = None \/ t < source[s].audio_ts)
    BY <1>1, <1>2, <2>1, <2>3
  <2> QED
    BY <2>2, <2>3
<1>4. placement \in Nat
  <2>1. t - base.audio_ts \in Nat
    BY <1>1, <1>3 DEF SourceRecord
  <2> QED
    BY <2>1, AudioAssumption DEF frames
<1>5. n \in Nat
  BY AudioAssumption
<1>6. source' = [source EXCEPT ![s] = IF placement + n > MaxBuf
                                      THEN base
                                      ELSE [base EXCEPT !.size = placement + n,
                                                        !.last_size = 0]]
  BY DEF Place
<1>7. [base EXCEPT !.size = placement + n, !.last_size = 0] \in SourceRecord
  <2> HIDE DEF base, placement
  <2>1. placement + n \in Nat
    BY <1>4, <1>5
  <2> QED
    BY <1>3, <2>1, EditedType
<1> HIDE DEF base, placement
<1> QED
  BY <1>3, <1>6, <1>7 DEF Types

LEMMA PushBackType ==
  ASSUME Types, NEW s \in Sources, NEW n \in Chunks, PushBack(s, n)
  PROVE  source' \in [Sources -> SourceRecord]
<1>1. source[s] \in SourceRecord /\ n \in Nat
  BY AudioAssumption DEF Types
<1>2. [source[s] EXCEPT !.size = @ + n, !.last_size = 0] \in SourceRecord
  <2>1. source[s].size + n \in Nat
    BY <1>1 DEF SourceRecord
  <2> QED
    BY <1>1, <2>1, EditedType
<1>3. source' = [source EXCEPT ![s] = [source[s] EXCEPT !.size = @ + n, !.last_size = 0]]
  BY <1>1 DEF PushBack, Types, SourceRecord
<1> QED
  BY <1>2, <1>3 DEF Types

LEMMA RenderedType ==
  ASSUME NEW r \in SourceRecord
  PROVE  Rendered(r) \in SourceRecord
  BY DEF SourceRecord, Rendered

LEMMA MarkInvalidType ==
  ASSUME Types, MarkInvalid
  PROVE  source' \in [Sources -> SourceRecord]
<1>1. \A s \in Sources : [source[s] EXCEPT !.pending = TRUE] \in SourceRecord
  BY DEF Types, SourceRecord
<1> QED
  BY <1>1 DEF Types, MarkInvalid

LEMMA StoppedType ==
  ASSUME NEW r \in SourceRecord
  PROVE  Stopped(r) \in SourceRecord
  BY DEF SourceRecord, Stopped, None

LEMMA DiscardedType ==
  ASSUME Types, NEW r \in SourceRecord
  PROVE  Discarded(r) \in SourceRecord
<1>1. Ignored(r) \in SourceRecord /\ Ignored(Stopped(r)) \in SourceRecord
  <2>1. ASSUME NEW q \in SourceRecord PROVE Ignored(q) \in SourceRecord
    <3>1. q.audio_ts \in Nat /\ q.size \in Nat
      BY DEF SourceRecord
    <3>2. q.audio_ts + q.size * FrameLen \in Nat
      BY <3>1, AudioAssumption
    <3> QED
      BY <3>2 DEF Ignored, SourceRecord
  <2> QED
    BY <2>1, StoppedType
<1>2. DiscardEarly(r) \in SourceRecord
  BY <1>1, StoppedType DEF DiscardEarly
<1>3. DiscardWithin(r) \in SourceRecord
  <2> DEFINE start_point == IF r.audio_ts \in {ts.start, ts.start - 1}
                            THEN 0 ELSE frames(r.audio_ts - ts.start)
             total == AUDIO_OUTPUT_FRAMES - start_point
  <2>1. start_point \in Int
    BY AudioAssumption DEF frames, Types, SourceRecord
  <2>2. total \in Int
    BY <2>1, AudioAssumption
  <2> HIDE DEF start_point
  <2>3. ~ (total < 0 \/ r.size < total) =>
          [r EXCEPT !.size = @ - total, !.last_size = 0, !.pending_stop = FALSE,
                    !.audio_ts = ts.end] \in SourceRecord
    <3> HIDE DEF total
    <3>1. r.size \in Nat /\ ts.end \in Nat
      BY DEF SourceRecord, Types
    <3>2. ~ (total < 0 \/ r.size < total) => r.size - total \in Nat
      BY <2>2, <3>1
    <3>3. r.size - total \in Nat =>
            [r EXCEPT !.size = r.size - total, !.last_size = 0, !.pending_stop = FALSE,
                      !.audio_ts = ts.end] \in SourceRecord
      BY <3>1, EditedType
    <3> QED
      BY <3>2, <3>3
  <2> QED
    BY <2>3, StoppedType DEF DiscardWithin, start_point
<1> QED
  BY <1>2, <1>3 DEF Discarded

(* The other actors leave the blocks alone. *)
LEMMA SourceStep ==
  ASSUME BufferingInv,
         \E s \in Sources, n \in Chunks :
            \/ PushBack(s, n)
            \/ \E late \in Lateness : Place(s, prev_time - late, n)
  PROVE  BufferingInv'
<1>1. source' \in [Sources -> SourceRecord]
  BY PushBackType, PlaceType DEF BufferingInv
<1>2. UNCHANGED <<pc, prev_time, thread, ts, out_ts, given>>
  BY DEF PushBack, Place
<1>3. Types'
  BY <1>1, <1>2 DEF BufferingInv, Types, thread
<1>4. Chain' /\ Resumes'
  BY <1>2 DEF BufferingInv, Chain, Resumes, thread
<1> QED
  BY <1>3, <1>4 DEF BufferingInv

LEMMA TickStep ==
  ASSUME BufferingInv, Tick
  PROVE  BufferingInv'
<1> DEFINE n == Len(buffered_timestamps)
<1> USE DEF Tick
<1>1. /\ buffered_timestamps \in Seq(Int) /\ prev_time \in Nat /\ prev_time >= Start
      /\ n \in 0 .. MAX_BUFFERING_TICKS /\ n = total_buffering_ticks
  BY DEF BufferingInv, Types, Chain
<1>2. /\ buffered_timestamps' \in Seq(Int) /\ Len(buffered_timestamps') = n + 1
      /\ buffered_timestamps'[n + 1] = prev_time
      /\ \A i \in 1 .. n : buffered_timestamps'[i] = buffered_timestamps[i]
  BY <1>1
<1>3. prev_time' = prev_time + Block /\ prev_time' \in Nat /\ prev_time' >= Start
  BY <1>1, BlockType, StartType
<1>4. \A i \in 1 .. n + 1 : buffered_timestamps'[i] = prev_time' - (n + 2 - i) * Block
  <2>1. TAKE i \in 1 .. n + 1
  <2>2. CASE i = n + 1
    <3>1. n + 2 - i = 1
      BY <1>1, <2>2
    <3> QED
      BY <1>1, <1>2, <1>3, <2>2, <3>1, BlockType
  <2>3. CASE i \in 1 .. n
    <3>1. buffered_timestamps[i] = prev_time - (n + 1 - i) * Block
      BY <2>3 DEF BufferingInv, Chain
    <3>2. (n + 2 - i) * Block = (n + 1 - i) * Block + Block
      BY <1>1, BlockType
    <3>3. (n + 1 - i) * Block \in Int
      BY <1>1, BlockType
    <3> QED
      BY <1>1, <1>2, <1>3, <2>3, <3>1, <3>2, <3>3, BlockType
  <2> QED
    BY <1>1, <2>2, <2>3
<1>5. ts' = [start |-> prev_time' - (n + 1) * Block,
             end |-> prev_time' - (n + 1) * Block + Block]
  <2>1. Head(buffered_timestamps') = buffered_timestamps'[1]
    BY <1>1, <1>2
  <2>2. buffered_timestamps'[1] = prev_time' - (n + 2 - 1) * Block /\ n + 2 - 1 = n + 1
    BY <1>1, <1>4
  <2> QED
    BY <2>1, <2>2
<1>6. prev_time' - (n + 1) * Block \in Nat
  BY <1>1, <1>3, BlocksAfterZero, AudioAssumption, SMTT(20)
<1>7. source' \in [Sources -> SourceRecord]
  BY RenderedType DEF BufferingInv, Types
<1>8. Types'
  BY <1>2, <1>3, <1>5, <1>6, <1>7, BlockType DEF BufferingInv, Types, history
<1>9. Chain'
  <2>1. total_buffering_ticks' = total_buffering_ticks /\ pc' = "min"
    OBVIOUS
  <2>2. Len(buffered_timestamps') = total_buffering_ticks' + (IF pc' = "wait" THEN 0 ELSE 1)
    BY <1>1, <1>2, <2>1
  <2>3. \A i \in 1 .. Len(buffered_timestamps') :
           buffered_timestamps'[i] = prev_time' - (Len(buffered_timestamps') + 1 - i) * Block
    BY <1>1, <1>2, <1>4
  <2>4. ts'.start = buffered_timestamps'[1]
    BY <1>1, <1>2
  <2> QED
    BY <2>2, <2>3, <2>4, Zenon DEF Chain
<1>10. Resumes'
  <2>1. (n + 1) * Block = n * Block + Block
    BY <1>1, BlockType
  <2>2. prev_time' - (n + 1) * Block = prev_time - n * Block
    BY <1>1, <1>3, <2>1, BlockType
  <2> QED
    BY <1>2, <2>2 DEF BufferingInv, Resumes, history
<1> QED
  BY <1>8, <1>9, <1>10 DEF BufferingInv

LEMMA NoBufferingStep ==
  ASSUME BufferingInv, NoBuffering
  PROVE  BufferingInv'
<1>1. source' \in [Sources -> SourceRecord]
  BY MarkInvalidType DEF BufferingInv, NoBuffering
<1>2. Types'
  BY <1>1 DEF BufferingInv, Types, NoBuffering, thread, history
<1>3. Chain' /\ Resumes'
  BY DEF BufferingInv, Chain, Resumes, NoBuffering, thread, history
<1> QED
  BY <1>2, <1>3 DEF BufferingInv

LEMMA MixStep ==
  ASSUME BufferingInv, Mix
  PROVE  BufferingInv'
<1>1. Types'
  BY DEF BufferingInv, Types, Mix, thread, history
<1>2. Chain' /\ Resumes'
  BY DEF BufferingInv, Chain, Resumes, Mix, thread, history
<1> QED
  BY <1>1, <1>2 DEF BufferingInv

LEMMA ConcatTypes ==
  ASSUME NEW p \in Seq(Int), NEW q \in Seq(Int)
  PROVE  /\ p \o q \in Seq(Int) /\ Len(p \o q) = Len(p) + Len(q)
         /\ \A i \in 1 .. Len(p) : (p \o q)[i] = p[i]
         /\ \A i \in Len(p) + 1 .. Len(q) + Len(p) : (p \o q)[i] = q[i - Len(p)]
  OBVIOUS

LEMMA Regroup ==
  ASSUME NEW p \in Int, NEW n \in Int, NEW t \in Int, NEW w \in Int, NEW o \in Int,
         p - n + w = o
  PROVE  p - (n + t) + (w + t) = o
  OBVIOUS

(* Going back in time: the blocks that are pushed precede the first one. *)
LEMMA AddBufferingStep ==
  ASSUME BufferingInv, AddBuffering
  PROVE  BufferingInv'
<1> DEFINE n == Len(buffered_timestamps)
           from == IF buffering_wait_ticks = 0 THEN ts.start ELSE buffered_ts
           wanted == (frames(ts.start - min_ts) + AUDIO_OUTPUT_FRAMES - 1)
                       \div AUDIO_OUTPUT_FRAMES
           ticks  == Min({wanted, MAX_BUFFERING_TICKS - total_buffering_ticks})
           back   == from - buffering_wait_ticks * Block
<1>1. /\ pc = "min" /\ min_ts < ts.start /\ total_buffering_ticks < MAX_BUFFERING_TICKS
      /\ MarkInvalid /\ buffered_ts' = from
      /\ total_buffering_ticks' = total_buffering_ticks + ticks
      /\ buffering_wait_ticks' = buffering_wait_ticks + ticks
      /\ buffered_timestamps' = BlocksBefore(back, ticks) \o buffered_timestamps
      /\ pc' = "mix"
      /\ UNCHANGED <<prev_time, out_ts, given>>
  BY DEF AddBuffering, AddBufferingFrom, Late, history
<1>2. \E end \in IF ticks = 0 THEN Garbage ELSE {back - (ticks - 1) * Block} :
         ts' = [start |-> back - ticks * Block, end |-> end]
  BY DEF AddBuffering, AddBufferingFrom
<1>3. /\ n \in 1 .. MAX_BUFFERING_TICKS + 1 /\ n = total_buffering_ticks + 1
      /\ ts.start = prev_time - n * Block /\ ts.start \in Nat
      /\ ts.start + buffering_wait_ticks * Block = out_ts + Block
  BY <1>1, Underway
<1>4. /\ buffered_timestamps \in Seq(Int) /\ prev_time \in Nat /\ prev_time >= Start
      /\ total_buffering_ticks \in 0 .. MAX_BUFFERING_TICKS /\ buffering_wait_ticks \in Nat
      /\ out_ts \in Int /\ given \in Nat
  BY DEF BufferingInv, Types
<1>5. from = out_ts + Block /\ back = ts.start
  <2>1. buffering_wait_ticks = 0 => buffering_wait_ticks * Block = 0
    BY BlockType
  <2>2. from = out_ts + Block
    <3>1. CASE buffering_wait_ticks = 0
      BY <1>3, <1>4, <2>1, <3>1, BlockType
    <3>2. CASE buffering_wait_ticks > 0
      BY <1>3, <1>4, <3>2, BlockType DEF BufferingInv, Resumes
    <3> QED
      BY <1>4, <3>1, <3>2
  <2>3. buffering_wait_ticks * Block \in Int
    BY <1>4, BlockType
  <2> HIDE DEF from
  <2> QED
    BY <1>3, <1>4, <2>2, <2>3, BlockType
<1>6. ticks \in 0 .. MAX_BUFFERING_TICKS - total_buffering_ticks
  <2>1. wanted \in Nat
    <3>1. ts.start - min_ts \in Nat
      BY <1>1, <1>3, MinTsType DEF BufferingInv
    <3>2. frames(ts.start - min_ts) \in Nat
      BY <3>1, AudioAssumption DEF frames
    <3>3. frames(ts.start - min_ts) + AUDIO_OUTPUT_FRAMES - 1 \in Nat
      BY <3>2, AudioAssumption
    <3> QED
      BY <3>3, AudioAssumption
  <2>2. MAX_BUFFERING_TICKS - total_buffering_ticks \in Nat
    BY <1>4, AudioAssumption
  <2> HIDE DEF wanted
  <2>3. /\ ticks \in {wanted, MAX_BUFFERING_TICKS - total_buffering_ticks}
        /\ ticks <= MAX_BUFFERING_TICKS - total_buffering_ticks
    BY <2>1, <2>2, NatMin
  <2> QED
    BY <2>1, <2>2, <2>3
<1> HIDE DEF from, wanted, ticks
<1>7. BlocksBefore(back, ticks) \in Seq(Int) /\ Len(BlocksBefore(back, ticks)) = ticks
  <2>1. \A i \in 1 .. ticks : back - (ticks + 1 - i) * Block \in Int
    BY <1>3, <1>5, <1>6, BlockType
  <2> HIDE DEF back
  <2> QED
    BY <1>6, <2>1 DEF BlocksBefore
<1>8. /\ buffered_timestamps' \in Seq(Int) /\ Len(buffered_timestamps') = n + ticks
      /\ \A i \in 1 .. ticks : buffered_timestamps'[i] = back - (ticks + 1 - i) * Block
      /\ \A i \in ticks + 1 .. n + ticks :
            buffered_timestamps'[i] = buffered_timestamps[i - ticks]
  <2> HIDE DEF back
  <2>1. \A i \in 1 .. ticks : BlocksBefore(back, ticks)[i] = back - (ticks + 1 - i) * Block
    BY DEF BlocksBefore
  <2> QED
    <3> DEFINE q == BlocksBefore(back, ticks)
    <3>1. /\ q \in Seq(Int) /\ Len(q) = ticks /\ buffered_timestamps' = q \o buffered_timestamps
          /\ \A i \in 1 .. ticks : q[i] = back - (ticks + 1 - i) * Block
      BY <1>1, <1>7, <2>1
    <3> HIDE DEF q
    <3>2. ticks + n = n + ticks
      BY <1>3, <1>6
    <3> QED
      BY <1>4, <3>1, <3>2, ConcatTypes
<1>9. \A i \in 1 .. n + ticks :
         buffered_timestamps'[i] = prev_time - (n + ticks + 1 - i) * Block
  <2>1. TAKE i \in 1 .. n + ticks
  <2>2. CASE i <= ticks
    <3>1. (n + ticks + 1 - i) * Block = n * Block + (ticks + 1 - i) * Block
      BY <1>3, <1>6, BlockType
    <3>2. n * Block \in Int /\ (ticks + 1 - i) * Block \in Int
      BY <1>3, <1>6, BlockType
    <3>3. buffered_timestamps'[i] = ts.start - (ticks + 1 - i) * Block
      BY <1>3, <1>5, <1>6, <1>8, <2>2
    <3> QED
      BY <1>3, <1>4, <3>1, <3>2, <3>3
  <2>3. CASE i > ticks
    <3>1. i \in ticks + 1 .. n + ticks /\ i - ticks \in 1 .. n
      BY <1>3, <1>6, <2>3
    <3>2. buffered_timestamps[i - ticks] = prev_time - (n + 1 - (i - ticks)) * Block
      BY <3>1 DEF BufferingInv, Chain
    <3>3. n + 1 - (i - ticks) = n + ticks + 1 - i
      BY <1>3, <1>6, <3>1
    <3> QED
      BY <1>8, <3>1, <3>2, <3>3
  <2> QED
    BY <1>3, <1>6, <2>2, <2>3
<1>10. /\ ts'.start = prev_time - (n + ticks) * Block /\ ts'.start \in Nat
       /\ ts' \in [start : Nat, end : Nat]
  <2>1. (n + ticks) * Block = n * Block + ticks * Block /\ ticks * Block \in Int
        /\ n * Block \in Int
    BY <1>3, <1>6, BlockType
  <2>2. back - ticks * Block = prev_time - (n + ticks) * Block
    BY <1>3, <1>4, <1>5, <2>1
  <2>3. n + ticks \in 0 .. MAX_BUFFERING_TICKS + 1
    BY <1>3, <1>4, <1>6, AudioAssumption
  <2>4. back - ticks * Block \in Nat
    BY <1>4, <2>2, <2>3, BlocksAfterZero
  <2>5. back - (ticks - 1) * Block \in Nat
    <3>1. (ticks - 1) * Block = ticks * Block - Block
      BY <1>6, BlockType
    <3>2. back \in Int
      BY <1>3, <1>5
    <3> QED
      BY <2>1, <2>4, <3>1, <3>2, BlockType
  <2> HIDE DEF back
  <2> QED
    BY <1>2, <2>2, <2>4, <2>5, AudioAssumption
<1>11. Types'
  <2>1. source' \in [Sources -> SourceRecord]
    BY <1>1, MarkInvalidType DEF BufferingInv
  <2> QED
    BY <1>1, <1>3, <1>4, <1>5, <1>6, <1>8, <1>10, <2>1, BlockType, AudioAssumption DEF Types
<1>12. Chain'
  <2>1. /\ Len(buffered_timestamps') = total_buffering_ticks' + 1
        /\ n + ticks >= 1
    BY <1>1, <1>3, <1>4, <1>6, <1>8
  <2>2. buffered_timestamps'[1] = prev_time - (n + ticks + 1 - 1) * Block
        /\ n + ticks + 1 - 1 = n + ticks
    BY <1>3, <1>6, <1>9, <2>1
  <2> QED
    BY <1>1, <1>8, <1>9, <1>10, <2>1, <2>2 DEF Chain
<1>13. Resumes'
  <2>1. /\ (n + ticks) * Block = n * Block + ticks * Block
        /\ (buffering_wait_ticks + ticks) * Block
              = buffering_wait_ticks * Block + ticks * Block
        /\ n * Block \in Int /\ ticks * Block \in Int /\ buffering_wait_ticks * Block \in Int
    BY <1>3, <1>4, <1>6, BlockType
  <2>2. prev_time' - (n + ticks) * Block + (buffering_wait_ticks + ticks) * Block
           = out_ts' + Block
    <3>1. prev_time - n * Block + buffering_wait_ticks * Block = out_ts + Block
      BY <1>3
    <3>2. out_ts + Block \in Int /\ prev_time \in Int
      BY <1>4, BlockType
    <3>3. prev_time - (n * Block + ticks * Block)
             + (buffering_wait_ticks * Block + ticks * Block) = out_ts + Block
      <4> DEFINE a == n * Block
                 b == ticks * Block
                 c == buffering_wait_ticks * Block
                 d == out_ts + Block
      <4>1. a \in Int /\ b \in Int /\ c \in Int /\ d \in Int /\ prev_time - a + c = d
        BY <2>1, <3>1, <3>2
      <4> HIDE DEF a, b, c, d
      <4>2. prev_time - (a + b) + (c + b) = d
        BY <3>2, <4>1, Regroup
      <4> QED
        BY <4>2 DEF a, b, c, d
    <3> QED
      BY <1>1, <2>1, <3>3
  <2>3. buffering_wait_ticks + ticks <= total_buffering_ticks + ticks
    BY <1>4, <1>6 DEF BufferingInv, Resumes
  <2> QED
    BY <1>1, <1>5, <1>8, <2>2, <2>3 DEF Resumes
<1> QED
  BY <1>11, <1>12, <1>13 DEF BufferingInv

(* Both ends of audio_callback take the block from the queue.  If it is    *)
(* given out, it is the next one.                                          *)
LEMMA DiscardStep ==
  ASSUME BufferingInv, GiveOut \/ HoldBack
  PROVE  /\ BufferingInv'
         /\ given' # given => out_ts' = out_ts + Block
<1> DEFINE n == Len(buffered_timestamps)
<1>1. /\ pc = "discard" /\ pc' = "wait" /\ Discard
      /\ buffered_timestamps' = Tail(buffered_timestamps)
      /\ source' = [s \in Sources |-> Discarded(source[s])]
      /\ UNCHANGED <<prev_time, total_buffering_ticks, buffered_ts, ts>>
  BY DEF GiveOut, HoldBack, Discard
<1>2. /\ n \in 1 .. MAX_BUFFERING_TICKS + 1 /\ n = total_buffering_ticks + 1
      /\ ts.start = prev_time - n * Block /\ ts.start \in Nat
      /\ ts.start + buffering_wait_ticks * Block = out_ts + Block
  BY <1>1, Underway
<1>3. /\ buffered_timestamps \in Seq(Int) /\ prev_time \in Nat
      /\ buffering_wait_ticks \in Nat /\ out_ts \in Int /\ given \in Nat
      /\ total_buffering_ticks \in 0 .. MAX_BUFFERING_TICKS
  BY DEF BufferingInv, Types
<1>4. /\ buffered_timestamps' \in Seq(Int) /\ Len(buffered_timestamps') = n - 1
      /\ \A i \in 1 .. n - 1 : buffered_timestamps'[i] = buffered_timestamps[i + 1]
  BY <1>1, <1>2, <1>3
<1>5. source' \in [Sources -> SourceRecord]
  BY <1>1, DiscardedType DEF BufferingInv, Types
<1>6. Chain'
  <2>1. \A i \in 1 .. n - 1 :
          buffered_timestamps'[i] = prev_time - (n - 1 + 1 - i) * Block
    <3>1. TAKE i \in 1 .. n - 1
    <3>2. buffered_timestamps[i + 1] = prev_time - (n + 1 - (i + 1)) * Block
      BY <1>2 DEF BufferingInv, Chain
    <3>3. n + 1 - (i + 1) = n - 1 + 1 - i
      BY <1>2
    <3> QED
      BY <1>4, <3>2, <3>3
  <2> QED
    <3>1. Len(buffered_timestamps') = n - 1 /\ n - 1 = total_buffering_ticks' + 0
      BY <1>1, <1>2, <1>3, <1>4
    <3> HIDE DEF n
    <3> QED
      BY <1>1, <2>1, <3>1 DEF Chain
<1>7. /\ (n - 1) * Block = n * Block - Block
      /\ n * Block \in Int /\ buffering_wait_ticks * Block \in Int
  BY <1>2, <1>3, BlockType
<1>8. prev_time' - (n - 1) * Block = ts.start + Block
  BY <1>1, <1>2, <1>3, <1>7, BlockType
<1>9. CASE GiveOut
  <2>1. buffering_wait_ticks = 0 /\ buffering_wait_ticks' = 0
        /\ out_ts' = ts.start /\ given' = given + 1
    BY <1>9 DEF GiveOut
  <2>2. ts.start = out_ts + Block
    BY <1>2, <1>3, <2>1, BlockType
  <2>3. Types'
    BY <1>1, <1>2, <1>3, <1>4, <1>5, <2>1 DEF BufferingInv, Types
  <2>4. Resumes'
    <3>1. prev_time' - (n - 1) * Block + 0 * Block = ts.start + Block
      BY <1>2, <1>8, BlockType
    <3> QED
      BY <1>1, <1>3, <1>4, <2>1, <3>1 DEF Resumes
  <2> QED
    BY <1>6, <2>1, <2>2, <2>3, <2>4 DEF BufferingInv
<1>10. CASE HoldBack
  <2>1. /\ buffering_wait_ticks > 0 /\ buffering_wait_ticks' = buffering_wait_ticks - 1
        /\ out_ts' = out_ts /\ given' = given
    BY <1>10 DEF HoldBack
  <2>2. Types'
    BY <1>1, <1>3, <1>4, <1>5, <2>1 DEF BufferingInv, Types
  <2>3. Resumes'
    <3>1. (buffering_wait_ticks - 1) * Block = buffering_wait_ticks * Block - Block
      BY <1>3, BlockType
    <3>2. prev_time' - (n - 1) * Block + (buffering_wait_ticks - 1) * Block = out_ts + Block
      BY <1>2, <1>3, <1>7, <1>8, <3>1, BlockType
    <3>3. buffered_ts = out_ts + Block /\ buffering_wait_ticks <= total_buffering_ticks
      BY <2>1 DEF BufferingInv, Resumes
    <3> QED
      BY <1>1, <1>3, <1>4, <2>1, <3>2, <3>3 DEF Resumes
  <2> QED
    BY <1>6, <2>1, <2>2, <2>3 DEF BufferingInv
<1> QED
  BY <1>9, <1>10

----------------------------------------------------------------------------

LEMMA NextStep ==
  ASSUME BufferingInv, [Next]_vars
  PROVE  /\ BufferingInv'
         /\ given' # given => out_ts' = out_ts + Block
<1>1. CASE \E s \in Sources, n \in Chunks :
              \/ PushBack(s, n)
              \/ \E late \in Lateness : Place(s, prev_time - late, n)
  <2>1. given' = given
    BY <1>1, ZenonT(30) DEF PushBack, Place
  <2> QED
    BY <1>1, <2>1, SourceStep
<1>2. CASE Tick
  BY <1>2, TickStep DEF Tick, history
<1>3. CASE NoBuffering
  BY <1>3, NoBufferingStep DEF NoBuffering, history
<1>4. CASE AddBuffering
  BY <1>4, AddBufferingStep DEF AddBuffering, AddBufferingFrom, history
<1>5. CASE Mix
  BY <1>5, MixStep DEF Mix
<1>6. CASE GiveOut \/ HoldBack
  BY <1>6, DiscardStep
<1>7. CASE UNCHANGED vars
  <2>1. Types' /\ Chain' /\ Resumes'
    BY <1>7 DEF BufferingInv, Types, Chain, Resumes, vars, thread, history
  <2> QED
    BY <1>7, <2>1 DEF BufferingInv, vars, history
<1> QED
  BY <1>1, <1>2, <1>3, <1>4, <1>5, <1>6, <1>7 DEF Next, AudioThread

(* The blocks under way follow each other up to the present, and the       *)
(* thread waits for exactly as many ticks as it has gone back.             *)
THEOREM BlocksUnderway == Spec => []BufferingInv
<1>1. BufferingInv /\ [Next]_vars => BufferingInv'
  BY NextStep
<1> QED
  BY InitBuffering, <1>1, PTL DEF Spec

(* The blocks given out follow each other, whatever the sources do.        *)
THEOREM OutputIsContiguous == Spec => BlocksContiguous
<1>1. BufferingInv /\ [Next]_vars
        => [given' # given => out_ts' = out_ts + Block]_<<given, out_ts>>
  BY NextStep
<1> QED
  BY BlocksUnderway, <1>1, PTL DEF Spec, BlocksContiguous

----------------------------------------------------------------------------
(* What is heard of a source, until an uninitialised ts.end is used.       *)

OnBlock(t) == \E k \in Int : t = k * Block

(* A source that has just been mixed, and will move on to the end.         *)
InBlock(s) == ts.start <= source[s].audio_ts /\ source[s].audio_ts < ts.end
JustMixed(s) == /\ pc = "discard" /\ buffering_wait_ticks = 0
                /\ ~ source[s].pending /\ InBlock(s) /\ heard[s] = ts.end

Ready(s) == /\ source[s].rendered = source[s].audio_ts /\ source[s].audio_ts # None
            /\ source[s].size >= AUDIO_OUTPUT_FRAMES

(* What is heard has been given out or is about to be.                     *)
InOutput(s) == \/ heard[s] <= out_ts + Block
               \/ pc = "discard" /\ buffering_wait_ticks = 0 /\ heard[s] = ts.end

(* Whatever a tick was begun with is still there, time is counted in       *)
(* blocks, and nothing is heard that is yet to come.  A source that has    *)
(* jumped has not been heard since, unless it has just been mixed.         *)
HeardInv ==
  /\ heard \in [Sources -> Nat] /\ skipped \in [Sources -> Nat]
  /\ OnBlock(prev_time)
  /\ pc # "wait" => /\ ts.end = ts.start + Block
                    /\ \A s \in Sources : s \in jumped \/ source[s].pending \/ Ready(s)
                    /\ \A s \in Sources : s \in jumped => heard[s] = None \/ JustMixed(s)
  /\ \A s \in Sources : /\ InOutput(s)
                        /\ source[s].audio_ts = None => heard[s] = None \/ source[s].size = 0
  /\ pc = "discard" /\ buffering_wait_ticks = 0 =>
       \A s \in Sources : s \in jumped \/ (~ source[s].pending /\ InBlock(s) => heard[s] = ts.end)

Going(s) == heard[s] # None /\ source[s].audio_ts # None /\ ~ JustMixed(s)

(* Where the source goes on: what lies before that has been heard.         *)
Onward(s) == IF source[s].audio_ts < heard[s] THEN heard[s] ELSE source[s].audio_ts

(* Lost is what has been skipped, and what will be by the time the thread  *)
(* no longer waits.                                                        *)
Lost(s) == /\ skipped[s] * FrameLen <= total_buffering_ticks * Block
           /\ Going(s) => skipped[s] * FrameLen + (Onward(s) - heard[s])
                             + buffering_wait_ticks * Block <= total_buffering_ticks * Block

(* A source late by less than a frame is left where it is, but then the    *)
(* thread waits, or ts.end would not have been initialised.                *)
LossInv ==
  total_buffering_ticks < MAX_BUFFERING_TICKS =>
    /\ pc \in {"mix", "discard"} =>
         \A s \in Sources \ jumped : ~ source[s].pending =>
            /\ source[s].audio_ts > ts.start - FrameLen
            /\ buffering_wait_ticks = 0 => source[s].audio_ts >= ts.start
    /\ \A s \in Sources \ surprised :
         /\ Lost(s)
         /\ Going(s) => /\ source[s].audio_ts < heard[s] \/ OnBlock(source[s].audio_ts)
                        /\ pc # "wait" /\ source[s].pending =>
                             source[s].size < AUDIO_OUTPUT_FRAMES

LEMMA Lengths == /\ FrameLen \in Nat /\ FrameLen > 0
                 /\ AUDIO_OUTPUT_FRAMES \in Nat /\ AUDIO_OUTPUT_FRAMES > 0
  BY AudioAssumption

LEMMA GridSum ==
  ASSUME NEW t \in Int, NEW n \in Int
  PROVE  OnBlock(t) => OnBlock(t + n * Block) /\ OnBlock(t - n * Block)
<1>1. ASSUME NEW k \in Int, NEW m \in Nat, t = k * m
      PROVE  t + n * m = (k + n) * m /\ t - n * m = (k - n) * m
  BY <1>1
<1>2. \A k \in Int : k + n \in Int /\ k - n \in Int
  OBVIOUS
<1> QED
  BY <1>1, <1>2, BlockType DEF OnBlock

LEMMA LessTimes ==
  ASSUME NEW m \in Nat, NEW k \in Int, NEW j \in Int, k * m < j * m
  PROVE  k < j
<1>1. SUFFICES ASSUME j <= k PROVE FALSE
  OBVIOUS
<1>2. k = j + (k - j) /\ k - j \in Nat
  BY <1>1
<1>3. (j + (k - j)) * m = j * m + (k - j) * m
  OBVIOUS
<1>4. (k - j) * m \in Nat /\ j * m \in Int
  BY <1>2
<1> QED
  BY <1>2, <1>3, <1>4

(* Between two blocks there is none.                                       *)
LEMMA SameBlock ==
  ASSUME NEW a \in Int, NEW b \in Int, OnBlock(a), OnBlock(b), a <= b, b < a + Block
  PROVE  a = b
<1>1. PICK k \in Int, j \in Int : a = k * Block /\ b = j * Block
  BY DEF OnBlock
<1>2. (k + 1) * Block = k * Block + Block
  BY BlockType
<1>3. j < k + 1
  BY <1>1, <1>2, BlockType, LessTimes
<1>4. j >= k
  <2>1. SUFFICES ASSUME j < k PROVE FALSE
    OBVIOUS
  <2>2. k - j - 1 \in Nat /\ k = j + 1 + (k - j - 1)
    BY <2>1
  <2>3. (j + 1 + (k - j - 1)) * Block = j * Block + Block + (k - j - 1) * Block
    BY BlockType
  <2>4. (k - j - 1) * Block \in Nat /\ j * Block \in Int
    BY <2>2, BlockType
  <2> QED
    BY <1>1, <2>2, <2>3, <2>4, BlockType
<1> QED
  BY <1>1, <1>3, <1>4

LEMMA FramesIn ==
  ASSUME NEW t \in Nat
  PROVE  /\ frames(t) \in Nat /\ frames(t) * FrameLen <= t
         /\ t < frames(t) * FrameLen + FrameLen
         /\ t < Block => frames(t) < AUDIO_OUTPUT_FRAMES
<1>1. /\ frames(t) \in Nat /\ frames(t) * FrameLen <= t
      /\ t < frames(t) * FrameLen + FrameLen
  BY Lengths DEF frames
<1>2. ASSUME t < Block PROVE frames(t) < AUDIO_OUTPUT_FRAMES
  <2>1. frames(t) * FrameLen < AUDIO_OUTPUT_FRAMES * FrameLen
    BY <1>1, <1>2, Lengths, BlockType DEF Block
  <2> QED
    BY <1>1, <2>1, Lengths, LessTimes
<1> QED
  BY <1>1, <1>2

----------------------------------------------------------------------------
(* What the steps do to a source. *)

LEMMA MinTsLeast ==
  ASSUME Types
  PROVE  /\ min_ts = ts.start \/ \E s \in Sources : min_ts = source[s].audio_ts
         /\ \A s \in Sources : ~ source[s].pending /\ source[s].audio_ts # None
                                 => min_ts <= source[s].audio_ts
<1> DEFINE S == {ts.start} \union
      {source[s].audio_ts :
         s \in {r \in Sources : ~ source[r].pending /\ source[r].audio_ts # None}}
<1>1. S \in SUBSET Nat /\ S # {}
  BY SourceTypes DEF Types
<1>2. min_ts = Min(S)
  BY DEF min_ts
<1>3. min_ts \in S /\ \A x \in S : min_ts <= x
  <2> HIDE DEF S
  <2> QED
    BY <1>1, <1>2, NatMin
<1> QED
  BY <1>3

(* No source that has been rendered is found to be insufficient, unless    *)
(* its timestamp has jumped; then it becomes pending at most.              *)
LEMMA NothingInvalid ==
  ASSUME Types, MarkInvalid, \A s \in Sources : s \in jumped \/ source[s].pending \/ Ready(s)
  PROVE  \A s \in Sources :
           /\ s \notin jumped => source'[s] = source[s]
           /\ source'[s].audio_ts = source[s].audio_ts /\ source'[s].size = source[s].size
           /\ source'[s].pending \in BOOLEAN /\ source[s].pending => source'[s].pending
<1>1. ASSUME NEW s \in Sources, s \notin jumped PROVE ~ Insufficient(source[s])
  <2>1. SUFFICES ASSUME ~ source[s].pending, source[s].audio_ts # None,
                        source[s].audio_ts \notin {min_ts, min_ts - 1},
                        source[s].size < AUDIO_OUTPUT_FRAMES
                                           - frames(source[s].audio_ts - min_ts)
                 PROVE  FALSE
    BY <1>1, Lengths, SourceTypes DEF Insufficient, Ready
  <2>2. source[s].audio_ts - min_ts \in Nat
    BY <2>1, MinTsType, MinTsLeast, SourceTypes
  <2>3. frames(source[s].audio_ts - min_ts) \in Nat
    BY <2>2, FramesIn
  <2>4. source[s].size \in Nat /\ source[s].size >= AUDIO_OUTPUT_FRAMES
    BY <1>1, <2>1, SourceTypes DEF Ready
  <2> QED
    BY <2>1, <2>3, <2>4, Lengths
<1>2. \A s \in Sources :
        /\ source[s] \in SourceRecord
        /\ source'[s] = IF Insufficient(source[s])
                        THEN [source[s] EXCEPT !.pending = TRUE] ELSE source[s]
  BY DEF MarkInvalid, Types
<1> QED
  BY <1>1, <1>2 DEF SourceRecord

LEMMA StoppedEffect ==
  ASSUME NEW r \in SourceRecord
  PROVE  LET d == Stopped(r) IN
         /\ d \in SourceRecord
         /\ d.pending = r.pending /\ d.rendered = r.rendered
         /\ (d.audio_ts = r.audio_ts /\ d.size = r.size) \/ (d.audio_ts = None /\ d.size = 0)
  BY DEF Stopped, SourceRecord, None

LEMMA DiscardEarlyEffect ==
  ASSUME NEW r \in SourceRecord
  PROVE  LET d == DiscardEarly(r) IN
         \/ d.audio_ts = r.audio_ts /\ d.size = r.size
         \/ d.audio_ts = None /\ d.size = 0
         \/ /\ total_buffering_ticks = MAX_BUFFERING_TICKS /\ r.size # 0
            /\ d.audio_ts = r.audio_ts + r.size * FrameLen
<1>1. ASSUME NEW q \in SourceRecord
      PROVE  LET d == Ignored(q) IN
             \/ d.audio_ts = q.audio_ts /\ d.size = q.size
             \/ d.audio_ts = q.audio_ts + q.size * FrameLen /\ q.size # 0
  BY DEF Ignored, SourceRecord
<1>2. ASSUME NEW q \in SourceRecord, q.size = 0
      PROVE  Ignored(q) = q
  BY <1>2 DEF Ignored
<1>3. /\ Stopped(r) \in SourceRecord
      /\ \/ Stopped(r).audio_ts = r.audio_ts /\ Stopped(r).size = r.size
         \/ Stopped(r).audio_ts = None /\ Stopped(r).size = 0
  BY StoppedEffect
<1>4. DiscardEarly(r) \in {r, Stopped(r), Ignored(r), Ignored(Stopped(r))}
  BY DEF DiscardEarly
<1>5. DiscardEarly(r) \in {Ignored(r), Ignored(Stopped(r))} =>
        \/ DiscardEarly(r) \in {r, Stopped(r)}
        \/ total_buffering_ticks = MAX_BUFFERING_TICKS
  BY DEF DiscardEarly
<1> QED
  BY <1>1, <1>2, <1>3, <1>4, <1>5

LEMMA DiscardWithinEffect ==
  ASSUME Types, ts.end = ts.start + Block, NEW r \in SourceRecord,
         r.audio_ts < ts.end, r.audio_ts >= ts.start - 1
  PROVE  LET d == DiscardWithin(r) IN
         /\ \/ d.audio_ts = r.audio_ts /\ d.size = r.size
            \/ d.audio_ts = None /\ d.size = 0
            \/ d.audio_ts = ts.end /\ \/ r.size >= AUDIO_OUTPUT_FRAMES
                                      \/ r.audio_ts > ts.start /\ r.size > 0
         /\ r.size >= AUDIO_OUTPUT_FRAMES => d.audio_ts = ts.end
<1> DEFINE start_point == IF r.audio_ts \in {ts.start, ts.start - 1}
                          THEN 0 ELSE frames(r.audio_ts - ts.start)
           total == AUDIO_OUTPUT_FRAMES - start_point
           moved == [r EXCEPT !.size = @ - total, !.last_size = 0, !.pending_stop = FALSE,
                              !.audio_ts = ts.end]
<1>1. /\ r.audio_ts \in Nat /\ r.size \in Nat /\ ts.start \in Nat /\ ts.end \in Nat
  BY DEF Types, SourceRecord
<1>2. total \in Nat /\ total > 0 /\ total <= AUDIO_OUTPUT_FRAMES
      /\ (r.audio_ts \in {ts.start, ts.start - 1} => total = AUDIO_OUTPUT_FRAMES)
  <2>1. CASE r.audio_ts \in {ts.start, ts.start - 1}
    BY <2>1, Lengths
  <2>2. CASE r.audio_ts \notin {ts.start, ts.start - 1}
    <3>1. r.audio_ts - ts.start \in Nat /\ r.audio_ts - ts.start < Block
      BY <1>1, <2>2, BlockType
    <3>2. frames(r.audio_ts - ts.start) \in Nat
          /\ frames(r.audio_ts - ts.start) < AUDIO_OUTPUT_FRAMES
      BY <3>1, FramesIn
    <3> QED
      BY <2>2, <3>2, Lengths
  <2> QED
    BY <2>1, <2>2
<1>3. DiscardWithin(r) = IF r.size < total THEN IF r.size = 0 THEN r ELSE Stopped(r) ELSE moved
  <2> HIDE DEF total
  <2>1. DiscardWithin(r) = CASE total = 0 -> r
                             [] total < 0 \/ r.size < total -> IF r.size = 0 THEN r ELSE Stopped(r)
                             [] OTHER -> moved
    BY DEF DiscardWithin, total
  <2> QED
    BY <1>2, <2>1
<1>4. moved.audio_ts = ts.end
  <2> HIDE DEF total
  <2> QED
    BY DEF SourceRecord
<1> HIDE DEF moved, total
<1>5. CASE r.size < total
  BY <1>1, <1>2, <1>3, <1>5, StoppedEffect, Lengths
<1>6. CASE r.size >= total
  <2>1. r.audio_ts \notin {ts.start, ts.start - 1} => r.audio_ts > ts.start
    BY <1>1
  <2> QED
    BY <1>1, <1>2, <1>3, <1>4, <1>6, <2>1, Lengths
<1> QED
  BY <1>1, <1>2, <1>5, <1>6

LEMMA DiscardedEffect ==
  ASSUME Types, ts.end = ts.start + Block, NEW r \in SourceRecord
  PROVE  LET d == Discarded(r) IN
         /\ \/ d.audio_ts = r.audio_ts /\ d.size = r.size
            \/ d.audio_ts = None /\ d.size = 0
            \/ /\ d.audio_ts = ts.end /\ r.audio_ts < ts.end /\ r.audio_ts >= ts.start - 1
               /\ r.size >= AUDIO_OUTPUT_FRAMES \/ (r.audio_ts > ts.start /\ r.size > 0)
            \/ /\ total_buffering_ticks = MAX_BUFFERING_TICKS /\ r.size # 0
               /\ d.audio_ts = r.audio_ts + r.size * FrameLen
         /\ ts.start <= r.audio_ts /\ r.audio_ts < ts.end /\ r.size >= AUDIO_OUTPUT_FRAMES
              => d.audio_ts = ts.end
<1>1. /\ r.audio_ts \in Nat /\ r.size \in Nat /\ ts.start \in Nat /\ ts.end \in Nat
  BY DEF Types, SourceRecord
<1>2. CASE ts.end <= r.audio_ts
  <2>1. Discarded(r) = r
    BY <1>1, <1>2, BlockType DEF Discarded
  <2> QED
    BY <1>1, <1>2, <2>1
<1>3. CASE r.audio_ts < ts.start - 1
  <2>1. Discarded(r) = DiscardEarly(r)
    BY <1>1, <1>3, BlockType DEF Discarded
  <2> QED
    BY <1>1, <1>3, <2>1, DiscardEarlyEffect
<1>4. CASE r.audio_ts < ts.end /\ r.audio_ts >= ts.start - 1
  <2>1. Discarded(r) = DiscardWithin(r)
    BY <1>1, <1>4 DEF Discarded
  <2> QED
    BY <1>1, <1>4, <2>1, DiscardWithinEffect
<1> QED
  BY <1>1, <1>2, <1>3, <1>4

LEMMA TsOnBlock ==
  ASSUME BufferingInv, HeardInv, pc # "wait"
  PROVE  OnBlock(ts.start) /\ OnBlock(ts.end) /\ ts.start \in Nat /\ ts.end \in Nat
<1>1. ts.start = prev_time - Len(buffered_timestamps) * Block /\ ts.start \in Nat
      /\ Len(buffered_timestamps) \in Nat /\ prev_time \in Nat
  BY Underway DEF BufferingInv, Types
<1>2. OnBlock(ts.start)
  BY <1>1, GridSum DEF HeardInv
<1>3. ts.end = ts.start + 1 * Block /\ ts.end \in Nat
  BY <1>1, BlockType DEF HeardInv
<1> QED
  BY <1>1, <1>2, <1>3, GridSum

(* No block begins near time 0, the timestamp of sources without audio.    *)
LEMMA TsNotNone ==
  ASSUME BufferingInv, pc # "wait"
  PROVE  ts.start > 0
<1> DEFINE n == Len(buffered_timestamps)
<1>1. ts.start = prev_time - n * Block /\ n \in 0 .. MAX_BUFFERING_TICKS + 1
  BY Underway
<1>2. n * Block <= (MAX_BUFFERING_TICKS + 1) * Block
  BY <1>1, AudioAssumption, BlockType, TimesMonotone
<1>3. (MAX_BUFFERING_TICKS + 2) * Block = (MAX_BUFFERING_TICKS + 1) * Block + Block
      /\ (MAX_BUFFERING_TICKS + 1) * Block \in Nat
  BY AudioAssumption, BlockType
<1>4. prev_time \in Nat /\ prev_time >= (MAX_BUFFERING_TICKS + 2) * Block /\ n * Block \in Nat
  BY <1>1, BlockType DEF BufferingInv, Types, Start
<1> HIDE DEF n
<1> QED
  BY <1>1, <1>2, <1>3, <1>4, BlockType

(* What has been mixed ends before the block of this tick, unless the      *)
(* thread waits.                                                           *)
LEMMA MixedBefore ==
  ASSUME BufferingInv, pc # "wait", buffering_wait_ticks = 0
  PROVE  out_ts + Block = ts.start
<1>1. ts.start + buffering_wait_ticks * Block = out_ts + Block /\ ts.start \in Int
  BY Underway DEF BufferingInv, Types
<1>2. buffering_wait_ticks * Block = 0
  BY BlockType
<1> QED
  BY <1>1, <1>2

LEMMA InitHeard == Init => HeardInv
<1> SUFFICES ASSUME Init PROVE HeardInv
  OBVIOUS
<1>1. OnBlock(Start)
  BY Lengths, AudioAssumption DEF OnBlock, Start
<1>2. \A s \in Sources : /\ source[s].audio_ts = None /\ source[s].size = 0
                         /\ heard[s] = None /\ skipped[s] = 0
  BY DEF Init, Silent
<1>3. Start - Block \in Nat /\ out_ts = Start - Block
  <2>1. Start - 1 * Block \in Nat
    BY BlocksAfterZero, StartType, AudioAssumption
  <2> QED
    BY <2>1, BlockType DEF Init
<1>4. 0 <= out_ts + Block
  BY <1>3, BlockType, StartType
<1> QED
  BY <1>1, <1>2, <1>4 DEF Init, HeardInv, InOutput, None

LEMMA OutputType ==
  ASSUME BufferingInv
  PROVE  out_ts + Block \in Nat /\ out_ts \in Int
<1>1. /\ prev_time - Len(buffered_timestamps) * Block \in Nat
      /\ prev_time - Len(buffered_timestamps) * Block + buffering_wait_ticks * Block
           = out_ts + Block
  BY Underway DEF BufferingInv, Resumes
<1>2. buffering_wait_ticks * Block \in Nat /\ out_ts \in Int
  BY BlockType DEF BufferingInv, Types
<1> QED
  BY <1>1, <1>2

LEMMA PushBackEffect ==
  ASSUME Types, NEW s \in Sources, NEW n \in Chunks, PushBack(s, n)
  PROVE  /\ \A r \in Sources :
              /\ source'[r].audio_ts = source[r].audio_ts /\ source'[r].pending = source[r].pending
              /\ source'[r].rendered = source[r].rendered /\ source'[r].size >= source[r].size
              /\ r # s => source'[r] = source[r]
         /\ source[s].audio_ts # None
         /\ UNCHANGED <<pc, prev_time, ts, total_buffering_ticks, buffering_wait_ticks,
                        out_ts, heard, skipped, jumped>>
<1>1. n \in Nat /\ source[s].size \in Nat
  BY AudioAssumption, SourceTypes
<1> DEFINE new == [source[s] EXCEPT !.size = @ + n, !.last_size = 0]
<1>2. source' = [source EXCEPT ![s] = new]
  BY <1>1 DEF PushBack, Types, SourceRecord
<1>3. /\ new.audio_ts = source[s].audio_ts /\ new.pending = source[s].pending
      /\ new.rendered = source[s].rendered /\ new.size >= source[s].size
  BY <1>1 DEF Types, SourceRecord
<1> HIDE DEF new
<1>4. source'[s] = new /\ \A r \in Sources : r # s => source'[r] = source[r]
  BY <1>2 DEF Types
<1>5. \A r \in Sources : source[r].size \in Nat
  BY SourceTypes
<1>6. ASSUME NEW r \in Sources
      PROVE  /\ source'[r].audio_ts = source[r].audio_ts /\ source'[r].pending = source[r].pending
             /\ source'[r].rendered = source[r].rendered /\ source'[r].size >= source[r].size
             /\ r # s => source'[r] = source[r]
  <2>1. CASE r = s
    BY <1>3, <1>4, <2>1
  <2>2. CASE r # s
    BY <1>4, <1>5, <2>2
  <2> QED
    BY <2>1, <2>2
<1>7. /\ source[s].audio_ts # None
      /\ UNCHANGED <<pc, prev_time, ts, total_buffering_ticks, buffering_wait_ticks,
                     out_ts, heard, skipped, jumped>>
  BY DEF PushBack, thread
<1> QED
  BY <1>6, <1>7

LEMMA PushBackHeard ==
  ASSUME BufferingInv, HeardInv, NEW s \in Sources, NEW n \in Chunks, PushBack(s, n)
  PROVE  HeardInv'
<1>1. Types
  BY DEF BufferingInv
<1>2. /\ \A r \in Sources :
            /\ source'[r].audio_ts = source[r].audio_ts /\ source'[r].pending = source[r].pending
            /\ source'[r].rendered = source[r].rendered /\ source'[r].size >= source[r].size
            /\ r # s => source'[r] = source[r]
      /\ source[s].audio_ts # None
      /\ UNCHANGED <<pc, prev_time, ts, buffering_wait_ticks, out_ts, heard, skipped, jumped>>
  BY <1>1, PushBackEffect
<1>3. \A r \in Sources : source[r].size \in Nat /\ source'[r].size \in Nat
  <2>1. source' \in [Sources -> SourceRecord]
    BY <1>1, PushBackType
  <2> QED
    BY <1>1, <2>1, SourceTypes DEF SourceRecord
<1>4. \A r \in Sources : /\ JustMixed(r)' <=> JustMixed(r)
                         /\ InBlock(r)' <=> InBlock(r)
                         /\ InOutput(r)' <=> InOutput(r)
                         /\ Ready(r) => Ready(r)'
  BY <1>2, <1>3, Lengths DEF JustMixed, InBlock, InOutput, Ready
<1>5. \A r \in Sources : source'[r].audio_ts = None => heard'[r] = None \/ source'[r].size = 0
  BY <1>2 DEF HeardInv
<1> QED
  BY <1>2, <1>4, <1>5 DEF HeardInv

LEMMA PlaceEffect ==
  ASSUME Types, HeardInv, NEW s \in Sources, NEW late \in Lateness, NEW n \in Chunks,
         Place(s, prev_time - late, n)
  PROVE  /\ \A r \in Sources : r # s => source'[r] = source[r] /\ heard'[r] = heard[r]
         /\ heard'[s] = None /\ heard' \in [Sources -> Nat]
         /\ jumped' = IF pc = "wait" THEN jumped ELSE jumped \union {s}
         /\ UNCHANGED <<pc, prev_time, ts, total_buffering_ticks, buffering_wait_ticks,
                        out_ts, skipped, surprised>>
<1>1. \A r \in Sources : r # s => source'[r] = source[r]
  BY DEF Place, Types
<1>2. /\ heard' \in [Sources -> Nat] /\ heard'[s] = None
      /\ \A r \in Sources : r # s => heard'[r] = heard[r]
  BY DEF Place, HeardInv, None
<1> QED
  BY <1>1, <1>2 DEF Place, thread

LEMMA PlaceHeard ==
  ASSUME BufferingInv, HeardInv, NEW s \in Sources, NEW late \in Lateness, NEW n \in Chunks,
         Place(s, prev_time - late, n)
  PROVE  HeardInv'
<1>1. /\ \A r \in Sources : r # s => source'[r] = source[r] /\ heard'[r] = heard[r]
      /\ heard'[s] = None /\ heard' \in [Sources -> Nat]
      /\ jumped' = IF pc = "wait" THEN jumped ELSE jumped \union {s}
      /\ UNCHANGED <<pc, prev_time, ts, buffering_wait_ticks, out_ts, skipped>>
  BY PlaceEffect DEF BufferingInv
<1>2. \A r \in Sources : r # s => /\ (JustMixed(r)' <=> JustMixed(r)) /\ (Ready(r)' <=> Ready(r))
                                  /\ (InBlock(r)' <=> InBlock(r))
                                  /\ (InOutput(r)' <=> InOutput(r))
  BY <1>1 DEF JustMixed, Ready, InBlock, InOutput
<1>3. InOutput(s)'
  BY <1>1, OutputType DEF InOutput, None
<1>4. pc' # "wait" =>
        /\ ts'.end = ts'.start + Block
        /\ \A r \in Sources : r \in jumped' \/ source'[r].pending \/ Ready(r)'
        /\ \A r \in Sources : r \in jumped' => heard'[r] = None \/ JustMixed(r)'
  BY <1>1, <1>2 DEF HeardInv
<1>5. \A r \in Sources : /\ InOutput(r)'
                         /\ source'[r].audio_ts = None => heard'[r] = None \/ source'[r].size = 0
  BY <1>1, <1>2, <1>3 DEF HeardInv
<1>6. pc' = "discard" /\ buffering_wait_ticks' = 0 =>
        \A r \in Sources : \/ r \in jumped'
                           \/ ~ source'[r].pending /\ InBlock(r)' => heard'[r] = ts'.end
  BY <1>1, <1>2 DEF HeardInv
<1> QED
  BY <1>1, <1>4, <1>5, <1>6 DEF HeardInv

LEMMA TickEffect ==
  ASSUME Types, Tick
  PROVE  /\ \A s \in Sources :
              /\ source'[s].audio_ts = source[s].audio_ts /\ source'[s].size = source[s].size
              /\ source'[s].pending \/ Ready(s)'
              /\ source'[s].pending /\ source[s].audio_ts # None
                   => source[s].size < AUDIO_OUTPUT_FRAMES
         /\ pc = "wait" /\ pc' = "min" /\ prev_time' = prev_time + Block
         /\ ts'.end = ts'.start + Block /\ jumped' = {}
         /\ UNCHANGED <<total_buffering_ticks, buffering_wait_ticks, out_ts, heard, skipped,
                        surprised>>
<1>1. ASSUME NEW r \in SourceRecord
      PROVE  LET d == Rendered(r) IN
             /\ d.audio_ts = r.audio_ts /\ d.size = r.size
             /\ \/ d.pending
                \/ d.rendered = r.audio_ts /\ r.audio_ts # None /\ r.size >= AUDIO_OUTPUT_FRAMES
             /\ d.pending /\ r.audio_ts # None => r.size < AUDIO_OUTPUT_FRAMES
  BY Lengths DEF Rendered, SourceRecord
<1>2. \A s \in Sources : source[s] \in SourceRecord /\ source'[s] = Rendered(source[s])
  BY DEF Types, Tick
<1>3. \A s \in Sources :
        /\ source'[s].audio_ts = source[s].audio_ts /\ source'[s].size = source[s].size
        /\ source'[s].pending \/ Ready(s)'
        /\ source'[s].pending /\ source[s].audio_ts # None
             => source[s].size < AUDIO_OUTPUT_FRAMES
  BY <1>1, <1>2 DEF Ready
<1> QED
  BY <1>3 DEF Tick

LEMMA TickHeard ==
  ASSUME BufferingInv, HeardInv, Tick
  PROVE  HeardInv'
<1>1. Types
  BY DEF BufferingInv
<1>2. /\ \A s \in Sources :
           /\ source'[s].audio_ts = source[s].audio_ts /\ source'[s].size = source[s].size
           /\ source'[s].pending \/ Ready(s)'
      /\ pc = "wait" /\ pc' = "min" /\ prev_time' = prev_time + Block
      /\ ts'.end = ts'.start + Block /\ jumped' = {}
      /\ UNCHANGED <<out_ts, heard, skipped>>
  BY <1>1, TickEffect
<1>3. OnBlock(prev_time')
  <2>1. prev_time' = prev_time + 1 * Block /\ prev_time \in Int
    BY <1>1, <1>2, BlockType DEF Types
  <2> QED
    BY <2>1, GridSum DEF HeardInv
<1>4. \A s \in Sources : InOutput(s)'
  BY <1>2 DEF InOutput, HeardInv
<1> QED
  BY <1>2, <1>3, <1>4 DEF HeardInv

LEMMA RoundUp ==
  ASSUME NEW y \in Nat, NEW a \in Nat \ {0}
  PROVE  LET w == (y + a - 1) \div a IN w \in Nat /\ y <= w * a /\ (y > 0 => w > 0)
<1> DEFINE w == (y + a - 1) \div a
<1>1. w \in Nat /\ y + a - 1 < w * a + a
  BY SMT
<1>2. y <= w * a
  <2> HIDE DEF w
  <2>1. w * a \in Int
    BY <1>1
  <2> QED
    BY <1>1, <2>1
<1>3. y > 0 => w > 0
  <2> HIDE DEF w
  <2>1. w = 0 => w * a = 0
    OBVIOUS
  <2> QED
    BY <1>1, <1>2, <2>1
<1> QED
  BY <1>1, <1>2, <1>3

(* When the thread goes back, it does so by whole blocks, and, unless that *)
(* is more than it may, to less than a frame after the source that is late. *)
LEMMA AddedTicks ==
  ASSUME BufferingInv, AddBuffering, ~ garbled'
  PROVE  \E ticks \in Nat \ {0} :
           /\ total_buffering_ticks' = total_buffering_ticks + ticks
           /\ buffering_wait_ticks' = buffering_wait_ticks + ticks
           /\ ts'.end = ts'.start + Block
           /\ total_buffering_ticks' < MAX_BUFFERING_TICKS => ts'.start < min_ts + FrameLen
<1> DEFINE from == IF buffering_wait_ticks = 0 THEN ts.start ELSE buffered_ts
           late == frames(ts.start - min_ts)
           wanted == (late + AUDIO_OUTPUT_FRAMES - 1) \div AUDIO_OUTPUT_FRAMES
           ticks == Min({wanted, MAX_BUFFERING_TICKS - total_buffering_ticks})
           back == from - buffering_wait_ticks * Block
<1>1. /\ pc = "min" /\ min_ts < ts.start /\ total_buffering_ticks < MAX_BUFFERING_TICKS
      /\ total_buffering_ticks' = total_buffering_ticks + ticks
      /\ buffering_wait_ticks' = buffering_wait_ticks + ticks
      /\ \E end \in IF ticks = 0 THEN Garbage ELSE {back - (ticks - 1) * Block} :
            ts' = [start |-> back - ticks * Block, end |-> end]
      /\ garbled' = (garbled \/ ticks = 0)
  BY DEF AddBuffering, AddBufferingFrom, Late
<1>2. /\ ts.start \in Nat /\ min_ts \in Nat /\ total_buffering_ticks \in Nat
      /\ buffering_wait_ticks \in Nat /\ MAX_BUFFERING_TICKS \in Nat
  BY MinTsType, AudioAssumption DEF BufferingInv, Types
<1>3. ts.start - min_ts \in Nat
  BY <1>1, <1>2
<1>4. late \in Nat /\ ts.start - min_ts < late * FrameLen + FrameLen
  BY <1>3, FramesIn
<1> HIDE DEF late
<1>5. wanted \in Nat /\ late <= wanted * AUDIO_OUTPUT_FRAMES
  BY <1>4, RoundUp, AudioAssumption
<1> HIDE DEF wanted
<1>6. /\ ticks \in Nat /\ ticks # 0
      /\ ticks = wanted \/ ticks = MAX_BUFFERING_TICKS - total_buffering_ticks
  <2>1. MAX_BUFFERING_TICKS - total_buffering_ticks \in Nat
    BY <1>1, <1>2
  <2>2. ticks \in {wanted, MAX_BUFFERING_TICKS - total_buffering_ticks}
    BY <1>5, <2>1, NatMin
  <2> QED
    BY <1>1, <1>5, <2>1, <2>2
<1> HIDE DEF ticks
<1>7. back = ts.start
  <2>1. ts.start + buffering_wait_ticks * Block = out_ts + Block
    BY <1>1, Underway
  <2>2. buffering_wait_ticks > 0 => buffered_ts = out_ts + Block
    BY DEF BufferingInv, Resumes
  <2>3. buffering_wait_ticks = 0 => buffering_wait_ticks * Block = 0
    BY BlockType
  <2>4. buffering_wait_ticks * Block \in Int /\ out_ts \in Int
    BY <1>2, BlockType DEF BufferingInv, Types
  <2> QED
    BY <1>2, <2>1, <2>2, <2>3, <2>4, BlockType
<1> HIDE DEF back
<1>8. ts'.start = ts.start - ticks * Block /\ ts'.end = ts.start - (ticks - 1) * Block
  BY <1>1, <1>6, <1>7
<1>9. (ticks - 1) * Block = ticks * Block - Block /\ ticks * Block \in Int
  BY <1>6, BlockType
<1>10. ts'.end = ts'.start + Block
  BY <1>2, <1>8, <1>9, BlockType
<1>11. ASSUME total_buffering_ticks' < MAX_BUFFERING_TICKS PROVE ts'.start < min_ts + FrameLen
  <2>1. ticks = wanted
    BY <1>1, <1>2, <1>6, <1>11
  <2>2. wanted * Block = (wanted * AUDIO_OUTPUT_FRAMES) * FrameLen
        /\ wanted * AUDIO_OUTPUT_FRAMES \in Nat
    BY <1>5, Lengths DEF Block
  <2>3. late * FrameLen <= (wanted * AUDIO_OUTPUT_FRAMES) * FrameLen /\ late * FrameLen \in Nat
    BY <1>4, <1>5, <2>2, Lengths, TimesMonotone
  <2>4. ts.start - min_ts < ticks * Block + FrameLen
    BY <1>2, <1>4, <1>9, <2>1, <2>2, <2>3, Lengths
  <2> QED
    BY <1>2, <1>8, <1>9, <2>4, Lengths
<1> QED
  BY <1>1, <1>6, <1>10, <1>11

LEMMA MinStepHeard ==
  ASSUME BufferingInv, HeardInv, NoBuffering \/ AddBuffering, ~ garbled'
  PROVE  /\ HeardInv' /\ pc = "min" /\ pc' = "mix"
         /\ UNCHANGED <<prev_time, out_ts, heard, skipped, surprised, jumped>>
         /\ \A s \in Sources :
              /\ s \notin jumped => source'[s] = source[s]
              /\ source'[s].audio_ts = source[s].audio_ts /\ source'[s].size = source[s].size
<1>1. /\ pc = "min" /\ pc' = "mix" /\ MarkInvalid
      /\ UNCHANGED <<prev_time, out_ts, heard, skipped, surprised, jumped>>
  BY DEF NoBuffering, AddBuffering, AddBufferingFrom, history
<1>2. \A s \in Sources :
        /\ s \notin jumped => source'[s] = source[s]
        /\ source'[s].audio_ts = source[s].audio_ts /\ source'[s].size = source[s].size
  BY <1>1, NothingInvalid DEF HeardInv, BufferingInv
<1>3. ts'.end = ts'.start + Block
  <2>1. CASE NoBuffering
    BY <1>1, <2>1 DEF NoBuffering, HeardInv
  <2>2. CASE AddBuffering
    BY <2>2, AddedTicks
  <2> QED
    BY <2>1, <2>2
<1>4. \A s \in Sources : /\ ~ JustMixed(s) /\ (InOutput(s)' <=> InOutput(s))
                         /\ s \notin jumped => (Ready(s)' <=> Ready(s))
  BY <1>1, <1>2 DEF JustMixed, InOutput, Ready
<1>5. \A s \in Sources : s \in jumped' \/ source'[s].pending \/ Ready(s)'
  BY <1>1, <1>2, <1>4 DEF HeardInv
<1>6. \A s \in Sources : s \in jumped' => heard'[s] = None
  BY <1>1, <1>4 DEF HeardInv
<1>7. \A s \in Sources : /\ InOutput(s)'
                         /\ source'[s].audio_ts = None => heard'[s] = None \/ source'[s].size = 0
  BY <1>1, <1>2, <1>4 DEF HeardInv
<1>8. HeardInv'
  BY <1>1, <1>3, <1>5, <1>6, <1>7 DEF HeardInv
<1> QED
  BY <1>1, <1>2, <1>8

(* A source is mixed when its audio lies in the block; what lies between   *)
(* that and the audio heard before is skipped.                             *)
LEMMA MixEffect ==
  ASSUME BufferingInv, HeardInv, Mix
  PROVE  /\ pc = "mix" /\ pc' = "discard"
         /\ UNCHANGED <<prev_time, ts, source, total_buffering_ticks, buffering_wait_ticks,
                        out_ts, surprised, jumped>>
         /\ heard' \in [Sources -> Nat] /\ skipped' \in [Sources -> Nat]
         /\ \A s \in Sources :
              IF buffering_wait_ticks = 0 /\ ~ source[s].pending /\ InBlock(s)
              THEN /\ heard'[s] = ts.end /\ heard[s] <= source[s].audio_ts
                   /\ IF heard[s] = None
                      THEN skipped'[s] = skipped[s]
                      ELSE skipped'[s] * FrameLen
                             <= skipped[s] * FrameLen + (source[s].audio_ts - heard[s])
              ELSE heard'[s] = heard[s] /\ skipped'[s] = skipped[s]
<1>1. /\ pc = "mix" /\ pc' = "discard"
      /\ UNCHANGED <<prev_time, ts, source, total_buffering_ticks, buffering_wait_ticks,
                     out_ts, surprised, jumped>>
      /\ heard' = [s \in Sources |-> IF Mixes(source[s]) THEN ts.end ELSE heard[s]]
      /\ skipped' = [s \in Sources |->
                       IF Mixes(source[s]) /\ heard[s] # None
                       THEN skipped[s] + frames(source[s].audio_ts - heard[s])
                       ELSE skipped[s]]
  BY DEF Mix, thread
<1>2. /\ ts.start \in Nat /\ ts.end \in Nat /\ ts.end = ts.start + Block
      /\ heard \in [Sources -> Nat] /\ skipped \in [Sources -> Nat]
  BY <1>1 DEF BufferingInv, Types, HeardInv
<1>3. ASSUME NEW s \in Sources
      PROVE  /\ Mixes(source[s]) <=>
                  buffering_wait_ticks = 0 /\ ~ source[s].pending /\ InBlock(s)
             /\ Mixes(source[s]) =>
                  /\ heard[s] <= source[s].audio_ts
                  /\ frames(source[s].audio_ts - heard[s]) \in Nat
                  /\ frames(source[s].audio_ts - heard[s]) * FrameLen
                       <= source[s].audio_ts - heard[s]
  <2>1. source[s].audio_ts \in Nat /\ heard[s] \in Nat
    BY <1>2, SourceTypes DEF BufferingInv
  <2>3. Mixes(source[s]) => buffering_wait_ticks = 0 /\ ~ source[s].pending /\ InBlock(s)
    BY DEF Mixes, InBlock
  <2>4. ASSUME buffering_wait_ticks = 0, ~ source[s].pending, InBlock(s)
        PROVE  /\ Mixes(source[s]) /\ heard[s] <= source[s].audio_ts
               /\ frames(source[s].audio_ts - heard[s]) \in Nat
               /\ frames(source[s].audio_ts - heard[s]) * FrameLen
                    <= source[s].audio_ts - heard[s]
    <3>1. source[s].audio_ts - ts.start \in Nat /\ source[s].audio_ts - ts.start < Block
      BY <1>2, <2>1, <2>4, BlockType DEF InBlock
    <3>2. frames(source[s].audio_ts - ts.start) # AUDIO_OUTPUT_FRAMES
      BY <3>1, FramesIn, Lengths
    <3>3. Mixes(source[s])
      <4>1. source[s].audio_ts # None
        BY <1>1, <1>2, <2>1, <2>4, TsNotNone DEF InBlock, None
      <4> QED
        BY <2>4, <3>2, <4>1 DEF Mixes, InBlock
    <3>5. heard[s] <= source[s].audio_ts
      <4>1. heard[s] <= out_ts + Block
        BY <1>1 DEF HeardInv, InOutput
      <4>2. out_ts + Block = ts.start
        BY <1>1, <2>4, MixedBefore
      <4> QED
        BY <1>2, <2>1, <2>4, <4>1, <4>2 DEF InBlock
    <3>6. source[s].audio_ts - heard[s] \in Nat
      BY <2>1, <3>5
    <3> QED
      BY <3>3, <3>5, <3>6, FramesIn
  <2> QED
    BY <2>3, <2>4
<1>4. \A s \in Sources : skipped'[s] \in Nat
  <2>1. TAKE s \in Sources
  <2>2. skipped[s] \in Nat
    BY <1>2
  <2>3. CASE Mixes(source[s]) /\ heard[s] # None
    <3>1. skipped'[s] = skipped[s] + frames(source[s].audio_ts - heard[s])
      BY <1>1, <2>3
    <3> QED
      BY <1>3, <2>2, <2>3, <3>1
  <2>4. CASE ~ (Mixes(source[s]) /\ heard[s] # None)
    BY <1>1, <2>2, <2>4
  <2> QED
    BY <2>3, <2>4
<1>5. skipped' \in [Sources -> Nat] /\ heard' \in [Sources -> Nat]
  <2>1. heard' \in [Sources -> Nat]
    BY <1>1, <1>2
  <2>2. skipped' = [s \in Sources |-> skipped'[s]]
    BY <1>1
  <2> QED
    BY <1>4, <2>1, <2>2
<1>6. ASSUME NEW s \in Sources, Mixes(source[s])
      PROVE  /\ heard'[s] = ts.end
             /\ IF heard[s] = None
                THEN skipped'[s] = skipped[s]
                ELSE skipped'[s] * FrameLen
                       <= skipped[s] * FrameLen + (source[s].audio_ts - heard[s])
  <2>1. heard'[s] = ts.end
    BY <1>1, <1>6
  <2>2. heard[s] = None => skipped'[s] = skipped[s]
    BY <1>1
  <2>3. ASSUME heard[s] # None
        PROVE  skipped'[s] * FrameLen
                 <= skipped[s] * FrameLen + (source[s].audio_ts - heard[s])
    <3> DEFINE k == frames(source[s].audio_ts - heard[s])
    <3>1. skipped'[s] = skipped[s] + k
      BY <1>1, <1>6, <2>3
    <3>2. k \in Nat /\ k * FrameLen <= source[s].audio_ts - heard[s]
      BY <1>3, <1>6
    <3> HIDE DEF k
    <3>3. (skipped[s] + k) * FrameLen = skipped[s] * FrameLen + k * FrameLen
      BY <1>2, <3>2, Lengths
    <3>4. skipped[s] * FrameLen \in Nat /\ k * FrameLen \in Nat
      BY <1>2, <3>2, Lengths
    <3>5. source[s].audio_ts - heard[s] \in Int
      BY <1>2, SourceTypes DEF BufferingInv
    <3> QED
      BY <3>1, <3>2, <3>3, <3>4, <3>5
  <2> QED
    BY <2>1, <2>2, <2>3
<1>7. \A s \in Sources : ~ Mixes(source[s]) => heard'[s] = heard[s] /\ skipped'[s] = skipped[s]
  BY <1>1
<1> QED
  BY <1>1, <1>3, <1>5, <1>6, <1>7

LEMMA MixHeard ==
  ASSUME BufferingInv, HeardInv, Mix
  PROVE  HeardInv'
<1>1. /\ pc = "mix" /\ pc' = "discard"
      /\ UNCHANGED <<prev_time, ts, source, buffering_wait_ticks, out_ts, jumped>>
      /\ heard' \in [Sources -> Nat] /\ skipped' \in [Sources -> Nat]
      /\ \A s \in Sources :
           IF buffering_wait_ticks = 0 /\ ~ source[s].pending /\ InBlock(s)
           THEN heard'[s] = ts.end ELSE heard'[s] = heard[s]
  BY MixEffect
<1>2. \A s \in Sources : (InBlock(s)' <=> InBlock(s)) /\ (Ready(s)' <=> Ready(s))
  BY <1>1 DEF InBlock, Ready
<1>3. \A s \in Sources : /\ ~ JustMixed(s)
                         /\ JustMixed(s)' <=> buffering_wait_ticks = 0 /\ ~ source[s].pending
                                                /\ InBlock(s) /\ heard'[s] = ts.end
  BY <1>1, <1>2 DEF JustMixed
<1>4. \A s \in Sources : s \in jumped' => heard'[s] = None \/ JustMixed(s)'
  BY <1>1, <1>3 DEF HeardInv
<1>5. \A s \in Sources : InOutput(s)'
  BY <1>1 DEF HeardInv, InOutput
<1>6. \A s \in Sources : source'[s].audio_ts = None => heard'[s] = None \/ source'[s].size = 0
  <2>1. \A s \in Sources : InBlock(s) => source[s].audio_ts # None
    BY <1>1, TsNotNone, SourceTypes DEF InBlock, None, BufferingInv, Types
  <2> QED
    BY <1>1, <2>1 DEF HeardInv
<1>7. \A s \in Sources : ~ source'[s].pending /\ InBlock(s)' /\ buffering_wait_ticks' = 0 =>
                           heard'[s] = ts'.end
  BY <1>1, <1>2
<1> QED
  BY <1>1, <1>2, <1>4, <1>5, <1>6, <1>7 DEF HeardInv

LEMMA DiscardHeard ==
  ASSUME BufferingInv, HeardInv, GiveOut \/ HoldBack
  PROVE  HeardInv'
<1>1. /\ pc = "discard" /\ pc' = "wait" /\ source' = [s \in Sources |-> Discarded(source[s])]
      /\ UNCHANGED <<prev_time, ts, heard, skipped>>
  BY DEF GiveOut, HoldBack, Discard
<1>2. /\ Types /\ ts.end = ts.start + Block /\ ts.start \in Nat /\ ts.end \in Nat /\ ts.start > 0
      /\ out_ts \in Int
  BY <1>1, TsOnBlock, TsNotNone, OutputType DEF BufferingInv, HeardInv
<1>3. ASSUME NEW s \in Sources, source'[s].audio_ts = None
      PROVE  heard'[s] = None \/ source'[s].size = 0
  <2>1. /\ source[s] \in SourceRecord /\ source'[s] = Discarded(source[s])
        /\ source[s].audio_ts \in Nat /\ source[s].size \in Nat /\ heard'[s] = heard[s]
    BY <1>1, <1>2, SourceTypes DEF Types
  <2> DEFINE r == source[s]
             d == source'[s]
             moved == source[s].size * FrameLen
  <2>2. moved \in Nat /\ (r.size # 0 => moved > 0)
    BY <2>1, Lengths, SMTT(20)
  <2>3. \/ d.audio_ts = r.audio_ts /\ d.size = r.size
        \/ d.audio_ts = None /\ d.size = 0
        \/ d.audio_ts = ts.end
        \/ d.audio_ts = r.audio_ts + moved /\ r.size # 0
    BY <1>2, <2>1, DiscardedEffect
  <2>4. r.audio_ts = None => heard[s] = None \/ r.size = 0
    BY DEF HeardInv
  <2> HIDE DEF moved
  <2> QED
    BY <1>2, <1>3, <2>1, <2>2, <2>3, <2>4, BlockType DEF None
<1>4. ASSUME NEW s \in Sources PROVE heard[s] <= out_ts' + Block
  <2>1. heard[s] \in Nat /\ InOutput(s)
    BY DEF HeardInv
  <2>2. CASE GiveOut
    <3>1. out_ts' = ts.start /\ out_ts + Block = ts.start
      BY <1>1, <2>2, MixedBefore DEF GiveOut
    <3> QED
      BY <1>2, <2>1, <3>1, BlockType DEF InOutput
  <2>3. CASE HoldBack
    BY <2>1, <2>3 DEF InOutput, HoldBack
  <2> QED
    BY <2>2, <2>3
<1> QED
  BY <1>1, <1>3, <1>4 DEF HeardInv, InOutput

(* Once an uninitialised ts.end has been used, it has been.                *)
LEMMA StaysGarbled ==
  ASSUME [Next]_vars, ~ garbled'
  PROVE  ~ garbled
<1>1. CASE \E s \in Sources, n \in Chunks : PushBack(s, n)
  BY <1>1 DEF PushBack
<1>2. CASE \E s \in Sources, n \in Chunks :
             \E late \in Lateness : Place(s, prev_time - late, n)
  <2>1. PICK s \in Sources, n \in Chunks, late \in Lateness : Place(s, prev_time - late, n)
    BY <1>2
  <2>2. garbled' = garbled
    BY <2>1, Zenon DEF Place
  <2> QED
    BY <2>2
<1>3. CASE Tick \/ NoBuffering \/ Mix
  BY <1>3, Zenon DEF Tick, NoBuffering, Mix, history
<1>4. CASE AddBuffering
  BY <1>4, Zenon DEF AddBuffering, AddBufferingFrom
<1>5. CASE GiveOut \/ HoldBack
  BY <1>5, Zenon DEF GiveOut, HoldBack, Discard
<1>6. CASE UNCHANGED vars
  BY <1>6, Zenon DEF vars, history
<1> QED
  BY <1>1, <1>2, <1>3, <1>4, <1>5, <1>6, Zenon DEF Next, AudioThread

LEMMA HeardStep ==
  ASSUME BufferingInv, HeardInv, [Next]_vars, ~ garbled'
  PROVE  HeardInv'
<1>1. CASE \E s \in Sources, n \in Chunks : PushBack(s, n)
  BY <1>1, PushBackHeard
<1>2. CASE \E s \in Sources, n \in Chunks :
             \E late \in Lateness : Place(s, prev_time - late, n)
  BY <1>2, PlaceHeard
<1>3. CASE Tick
  BY <1>3, TickHeard
<1>4. CASE NoBuffering \/ AddBuffering
  BY <1>4, MinStepHeard
<1>5. CASE Mix
  BY <1>5, MixHeard
<1>6. CASE GiveOut \/ HoldBack
  BY <1>6, DiscardHeard
<1>7. CASE UNCHANGED vars
  <2>1. UNCHANGED <<pc, prev_time, ts, source, buffering_wait_ticks, out_ts, heard, skipped,
                    jumped>>
    BY <1>7 DEF vars, thread, history
  <2>2. \A s \in Sources : /\ (JustMixed(s)' <=> JustMixed(s)) /\ (Ready(s)' <=> Ready(s))
                           /\ (InBlock(s)' <=> InBlock(s)) /\ (InOutput(s)' <=> InOutput(s))
    BY <2>1 DEF JustMixed, Ready, InBlock, InOutput
  <2> QED
    BY <2>1, <2>2 DEF HeardInv
<1> QED
  BY <1>1, <1>2, <1>3, <1>4, <1>5, <1>6, <1>7 DEF Next, AudioThread

LEMMA HeardAlways == Spec => [](garbled \/ HeardInv)
<1>1. BufferingInv /\ (garbled \/ HeardInv) /\ [Next]_vars => (garbled \/ HeardInv)'
  BY HeardStep, StaysGarbled
<1> QED
  BY InitHeard, <1>1, BlocksUnderway, PTL DEF Spec

(* Audio is mixed at its own time and only once, and a block at a time,    *)
(* wherever the sources' timestamps fall and whenever they jump, but for   *)
(* what the property names: a source that has jumped in the same tick, and *)
(* an uninitialised ts.end.                                                *)
THEOREM AudioInItsPlace == Spec => []MixedInPlace
<1>1. BufferingInv /\ (garbled \/ HeardInv) => MixedInPlace
  <2> SUFFICES ASSUME BufferingInv, HeardInv, pc = "mix"
               PROVE  /\ ts.end = ts.start + Block
                      /\ \A s \in Sources \ jumped :
                           Mixes(source[s]) => /\ source[s].rendered = source[s].audio_ts
                                               /\ heard[s] <= source[s].audio_ts
    BY DEF MixedInPlace
  <2>1. ts.end = ts.start + Block /\ ts.start \in Nat
    BY DEF HeardInv, BufferingInv, Types
  <2>2. ASSUME NEW s \in Sources, s \notin jumped, Mixes(source[s])
        PROVE  source[s].rendered = source[s].audio_ts /\ heard[s] <= source[s].audio_ts
    <3>1. source[s].rendered = source[s].audio_ts
      BY <2>2 DEF HeardInv, Mixes, Ready
    <3>2. heard[s] <= out_ts + Block /\ out_ts + Block = ts.start
      BY <2>2, MixedBefore DEF HeardInv, InOutput, Mixes
    <3>3. heard[s] \in Nat /\ source[s].audio_ts \in Nat /\ source[s].audio_ts >= ts.start
      BY <2>2, SourceTypes DEF HeardInv, BufferingInv, Mixes
    <3> QED
      BY <2>1, <3>1, <3>2, <3>3
  <2> QED
    BY <2>1, <2>2
<1> QED
  BY <1>1, HeardAlways, BlocksUnderway, PTL

----------------------------------------------------------------------------
(* What is lost of a source. *)

LEMMA InitLoss == Init => LossInv
<1>1. Init => /\ \A s \in Sources : ~ Going(s) /\ skipped[s] = 0
              /\ total_buffering_ticks = 0 /\ pc = "wait"
  BY DEF Init, Going
<1>2. 0 * FrameLen <= 0 * Block
  BY Lengths, BlockType
<1> QED
  BY <1>1, <1>2 DEF LossInv, Lost

LEMMA PushBackLoss ==
  ASSUME BufferingInv, LossInv, NEW s \in Sources, NEW n \in Chunks, PushBack(s, n)
  PROVE  LossInv'
<1>1. /\ \A r \in Sources :
            /\ source'[r].audio_ts = source[r].audio_ts /\ source'[r].pending = source[r].pending
            /\ r # s => source'[r] = source[r]
      /\ UNCHANGED <<pc, prev_time, ts, total_buffering_ticks, buffering_wait_ticks,
                     heard, skipped, jumped>>
  BY PushBackEffect DEF BufferingInv
<1>2. \A r \in Sources : (Going(r)' <=> Going(r)) /\ (Lost(r)' <=> Lost(r))
  BY <1>1 DEF Going, JustMixed, InBlock, Lost, Onward
<1>3. /\ surprised \subseteq surprised'
      /\ pc # "wait" /\ source[s].pending => s \in surprised'
  BY DEF PushBack
<1> QED
  BY <1>1, <1>2, <1>3 DEF LossInv

LEMMA PlaceLoss ==
  ASSUME BufferingInv, HeardInv, LossInv,
         NEW s \in Sources, NEW late \in Lateness, NEW n \in Chunks,
         Place(s, prev_time - late, n)
  PROVE  LossInv'
<1>1. /\ \A r \in Sources : r # s => source'[r] = source[r] /\ heard'[r] = heard[r]
      /\ heard'[s] = None
      /\ jumped' = IF pc = "wait" THEN jumped ELSE jumped \union {s}
      /\ UNCHANGED <<pc, prev_time, ts, total_buffering_ticks, buffering_wait_ticks,
                     skipped, surprised>>
  BY PlaceEffect DEF BufferingInv
<1>2. ~ Going(s)'
  BY <1>1 DEF Going
<1>3. \A r \in Sources : r # s => (Going(r)' <=> Going(r)) /\ (Lost(r)' <=> Lost(r))
  BY <1>1 DEF Going, JustMixed, InBlock, Lost, Onward
<1>4. Lost(s) => Lost(s)'
  BY <1>1, <1>2 DEF Lost
<1> QED
  BY <1>1, <1>2, <1>3, <1>4 DEF LossInv

LEMMA TickLoss ==
  ASSUME BufferingInv, LossInv, Tick
  PROVE  LossInv'
<1>1. /\ \A s \in Sources :
           /\ source'[s].audio_ts = source[s].audio_ts /\ source'[s].size = source[s].size
           /\ source'[s].pending /\ source[s].audio_ts # None
                => source[s].size < AUDIO_OUTPUT_FRAMES
      /\ pc = "wait" /\ pc' = "min"
      /\ UNCHANGED <<total_buffering_ticks, buffering_wait_ticks, heard, skipped, surprised>>
  BY TickEffect DEF BufferingInv
<1>2. \A s \in Sources : /\ (Going(s)' <=> Going(s)) /\ (Lost(s)' <=> Lost(s))
                         /\ Going(s) => source[s].audio_ts # None
  BY <1>1 DEF Going, JustMixed, Lost, Onward
<1> QED
  BY <1>1, <1>2 DEF LossInv

LEMMA MinStepLoss ==
  ASSUME BufferingInv, HeardInv, LossInv, NoBuffering \/ AddBuffering, ~ garbled'
  PROVE  LossInv'
<1>1. /\ pc = "min" /\ pc' = "mix"
      /\ UNCHANGED <<heard, skipped, surprised, jumped>>
      /\ \A s \in Sources :
           /\ s \notin jumped => source'[s] = source[s]
           /\ source'[s].audio_ts = source[s].audio_ts /\ source'[s].size = source[s].size
  BY MinStepHeard
<1>2. PICK ticks \in Nat :
        /\ total_buffering_ticks' = total_buffering_ticks + ticks
        /\ buffering_wait_ticks' = buffering_wait_ticks + ticks
        /\ total_buffering_ticks' < MAX_BUFFERING_TICKS =>
             \/ ts'.start <= min_ts
             \/ buffering_wait_ticks' # 0 /\ ts'.start < min_ts + FrameLen
  <2>1. CASE NoBuffering
    <3>1. /\ total_buffering_ticks' = total_buffering_ticks + 0
          /\ buffering_wait_ticks' = buffering_wait_ticks + 0
      BY <2>1 DEF NoBuffering, thread, BufferingInv, Types
    <3>2. total_buffering_ticks' < MAX_BUFFERING_TICKS => ts'.start <= min_ts
      BY <2>1, MinTsType DEF NoBuffering, thread, Late, BufferingInv, Types
    <3> QED
      BY <3>1, <3>2
  <2>2. CASE AddBuffering
    <3>1. PICK ticks \in Nat \ {0} :
            /\ total_buffering_ticks' = total_buffering_ticks + ticks
            /\ buffering_wait_ticks' = buffering_wait_ticks + ticks
            /\ total_buffering_ticks' < MAX_BUFFERING_TICKS => ts'.start < min_ts + FrameLen
      BY <2>2, AddedTicks
    <3>2. buffering_wait_ticks' # 0
      BY <3>1 DEF BufferingInv, Types
    <3> QED
      BY <3>1, <3>2
  <2> QED
    BY <2>1, <2>2
<1> SUFFICES ASSUME total_buffering_ticks' < MAX_BUFFERING_TICKS
             PROVE  LossInv'
  BY DEF LossInv
<1>3. /\ total_buffering_ticks \in Nat /\ buffering_wait_ticks \in Nat
      /\ MAX_BUFFERING_TICKS \in Nat /\ total_buffering_ticks < MAX_BUFFERING_TICKS
  BY <1>2, AudioAssumption DEF BufferingInv, Types
<1>4. \A s \in Sources \ jumped' : ~ source'[s].pending =>
         /\ source'[s].audio_ts > ts'.start - FrameLen
         /\ buffering_wait_ticks' = 0 => source'[s].audio_ts >= ts'.start
  <2>1. TAKE s \in Sources \ jumped'
  <2>2. SUFFICES ASSUME ~ source[s].pending
                 PROVE  /\ source[s].audio_ts > ts'.start - FrameLen
                        /\ buffering_wait_ticks' = 0 => source[s].audio_ts >= ts'.start
    BY <1>1
  <2>3. source[s].audio_ts # None
    BY <1>1, <2>2 DEF HeardInv, Ready
  <2>4. min_ts <= source[s].audio_ts
    BY <2>2, <2>3, MinTsLeast DEF BufferingInv
  <2>5. ts'.start \in Nat /\ source[s].audio_ts \in Nat /\ min_ts \in Nat
    <3>1. Types'
      BY NoBufferingStep, AddBufferingStep DEF BufferingInv
    <3> QED
      BY <3>1, SourceTypes, MinTsType DEF BufferingInv, Types
  <2> QED
    BY <1>2, <2>4, <2>5, Lengths
<1> DEFINE T == total_buffering_ticks * Block
           W == buffering_wait_ticks * Block
           more == ticks * Block
<1>5. /\ T \in Nat /\ W \in Nat /\ more \in Nat
      /\ total_buffering_ticks' * Block = T + more
      /\ buffering_wait_ticks' * Block = W + more
  BY <1>2, <1>3, BlockType
<1>6. \A s \in Sources : Going(s)' <=> Going(s)
  BY <1>1 DEF Going, JustMixed
<1>7. ASSUME NEW s \in Sources, Lost(s)
      PROVE  Lost(s)'
  <2> DEFINE S == skipped[s] * FrameLen
             gap == Onward(s) - heard[s]
  <2>1. S \in Int /\ gap \in Int
    BY Lengths, SourceTypes DEF HeardInv, BufferingInv, Onward
  <2>2. S <= T /\ (Going(s) => S + gap + W <= T)
    BY <1>7 DEF Lost
  <2>3. S <= T + more /\ (Going(s) => S + gap + (W + more) <= T + more)
    <3> HIDE DEF S, gap, T, W, more
    <3> QED
      BY <1>5, <2>1, <2>2
  <2>4. skipped'[s] * FrameLen = S /\ (Onward(s) - heard[s])' = gap
    BY <1>1 DEF Onward
  <2> QED
    BY <1>5, <1>6, <2>3, <2>4 DEF Lost
<1>8. \A s \in Sources : Going(s) => s \notin jumped /\ source'[s] = source[s]
  BY <1>1 DEF HeardInv, Going
<1>9. \A s \in Sources \ surprised' :
        /\ Lost(s)'
        /\ Going(s)' => /\ source'[s].audio_ts < heard'[s] \/ OnBlock(source'[s].audio_ts)
                        /\ pc' # "wait" /\ source'[s].pending =>
                             source'[s].size < AUDIO_OUTPUT_FRAMES
  BY <1>1, <1>3, <1>6, <1>7, <1>8 DEF LossInv
<1> QED
  BY <1>4, <1>9 DEF LossInv

LEMMA MixLoss ==
  ASSUME BufferingInv, HeardInv, LossInv, Mix
  PROVE  LossInv'
<1>1. /\ pc = "mix" /\ pc' = "discard"
      /\ UNCHANGED <<ts, source, total_buffering_ticks, buffering_wait_ticks, surprised, jumped>>
      /\ heard' \in [Sources -> Nat] /\ skipped' \in [Sources -> Nat]
      /\ \A s \in Sources :
           IF buffering_wait_ticks = 0 /\ ~ source[s].pending /\ InBlock(s)
           THEN /\ heard'[s] = ts.end /\ heard[s] <= source[s].audio_ts
                /\ IF heard[s] = None
                   THEN skipped'[s] = skipped[s]
                   ELSE skipped'[s] * FrameLen
                          <= skipped[s] * FrameLen + (source[s].audio_ts - heard[s])
           ELSE heard'[s] = heard[s] /\ skipped'[s] = skipped[s]
  BY MixEffect
<1> DEFINE mixed(s) == buffering_wait_ticks = 0 /\ ~ source[s].pending /\ InBlock(s)
<1>2. \A s \in Sources : ~ JustMixed(s) /\ (JustMixed(s)' <=> mixed(s) /\ heard'[s] = ts.end)
  BY <1>1 DEF JustMixed, InBlock
<1>3. \A s \in Sources : /\ mixed(s) => ~ Going(s)'
                         /\ ~ mixed(s) => (Going(s)' <=> Going(s)) /\ heard'[s] = heard[s]
                                          /\ skipped'[s] = skipped[s]
  BY <1>1, <1>2 DEF Going
<1>4. ASSUME NEW s \in Sources, Lost(s) PROVE Lost(s)'
  <2>1. CASE mixed(s)
    <3>1. ~ Going(s)'
      BY <1>3, <2>1
    <3>2. skipped'[s] * FrameLen <= total_buffering_ticks * Block
      <4>1. CASE heard[s] = None
        BY <1>1, <1>4, <2>1, <4>1 DEF Lost
      <4>2. CASE heard[s] # None
        <5>1. Going(s)
          <6>1. source[s].audio_ts # None
            BY <1>1, <2>1, TsNotNone, SourceTypes DEF InBlock, None, BufferingInv, Types
          <6> QED
            BY <1>2, <4>2, <6>1 DEF Going
        <5>2. buffering_wait_ticks * Block = 0
          BY <2>1, BlockType
        <5> DEFINE S == skipped[s] * FrameLen
                   U == skipped'[s] * FrameLen
                   gap == source[s].audio_ts - heard[s]
                   T == total_buffering_ticks * Block
        <5>3. S \in Int /\ U \in Int /\ gap \in Int /\ T \in Int
          BY <1>1, Lengths, BlockType, SourceTypes, SMTT(20) DEF HeardInv, BufferingInv, Types
        <5>4. U <= S + gap
          BY <1>1, <2>1, <4>2
        <5>5. S + gap + 0 <= T
          <6>1. Onward(s) = source[s].audio_ts
            BY <1>1, <2>1, SourceTypes DEF Onward, HeardInv, BufferingInv
          <6> QED
            BY <1>4, <5>1, <5>2, <6>1 DEF Lost
        <5>6. U <= T
          <6> HIDE DEF S, U, gap, T
          <6> QED
            BY <5>3, <5>4, <5>5
        <5> QED
          BY <5>6
      <4> QED
        BY <4>1, <4>2
    <3> QED
      BY <1>1, <3>1, <3>2 DEF Lost
  <2>2. CASE ~ mixed(s)
    <3>1. heard'[s] = heard[s] /\ skipped'[s] = skipped[s] /\ (Going(s)' <=> Going(s))
      BY <1>3, <2>2
    <3>2. Onward(s)' = Onward(s)
      BY <1>1, <3>1 DEF Onward
    <3> QED
      BY <1>1, <1>4, <3>1, <3>2 DEF Lost
  <2> QED
    BY <2>1, <2>2
<1> HIDE DEF mixed
<1>5. \A s \in Sources \ surprised' :
        total_buffering_ticks < MAX_BUFFERING_TICKS =>
        /\ Lost(s)'
        /\ Going(s)' => /\ source'[s].audio_ts < heard'[s] \/ OnBlock(source'[s].audio_ts)
                        /\ pc' # "wait" /\ source'[s].pending =>
                             source'[s].size < AUDIO_OUTPUT_FRAMES
  BY <1>1, <1>3, <1>4 DEF LossInv
<1> QED
  BY <1>1, <1>5 DEF LossInv

(* A source that is neither mixed nor ready stays where it is; the others  *)
(* move on by the block for which the thread has waited, or no further     *)
(* than a block after what has been heard of them.                         *)
LEMMA DiscardLoss ==
  ASSUME BufferingInv, HeardInv, LossInv, GiveOut \/ HoldBack
  PROVE  LossInv'
<1>1. /\ pc = "discard" /\ pc' = "wait" /\ source' = [s \in Sources |-> Discarded(source[s])]
      /\ UNCHANGED <<prev_time, ts, total_buffering_ticks, heard, skipped, surprised, jumped>>
  BY DEF GiveOut, HoldBack, Discard
<1>2. /\ buffering_wait_ticks \in Nat /\ total_buffering_ticks \in Nat
      /\ buffering_wait_ticks' =
           IF buffering_wait_ticks = 0 THEN 0 ELSE buffering_wait_ticks - 1
  BY DEF GiveOut, HoldBack, BufferingInv, Types
<1>3. /\ Types /\ ts.end = ts.start + Block
      /\ ts.start \in Nat /\ ts.end \in Nat /\ OnBlock(ts.start) /\ OnBlock(ts.end)
      /\ FrameLen <= Block
  <2>1. 1 * FrameLen <= AUDIO_OUTPUT_FRAMES * FrameLen /\ 1 * FrameLen = FrameLen
    BY Lengths, TimesMonotone
  <2> QED
    BY <1>1, <2>1, TsOnBlock DEF BufferingInv, HeardInv, Block
<1> SUFFICES ASSUME total_buffering_ticks < MAX_BUFFERING_TICKS,
                    NEW s \in Sources, s \notin surprised
             PROVE  /\ Lost(s)'
                    /\ Going(s)' => source'[s].audio_ts < heard[s] \/ OnBlock(source'[s].audio_ts)
  BY <1>1, AudioAssumption DEF LossInv, BufferingInv, Types
<1> DEFINE S == skipped[s] * FrameLen
           T == total_buffering_ticks * Block
           W == buffering_wait_ticks * Block
           V == buffering_wait_ticks' * Block
           a == source[s].audio_ts
           b == source'[s].audio_ts
           h == heard[s]
<1>4. /\ S \in Nat /\ T \in Nat /\ W \in Nat /\ V \in Nat /\ h \in Nat
      /\ V = IF buffering_wait_ticks = 0 THEN 0 ELSE W - Block
      /\ buffering_wait_ticks = 0 => W = 0
      /\ V <= W
  <2>1. buffering_wait_ticks \in Nat /\ buffering_wait_ticks' \in Nat
    BY <1>2
  <2>2. CASE buffering_wait_ticks = 0
    BY <1>2, <2>1, <2>2, Lengths, BlockType DEF HeardInv
  <2>3. CASE buffering_wait_ticks > 0
    <3>1. buffering_wait_ticks' = buffering_wait_ticks - 1
      BY <1>2, <2>3
    <3>2. (buffering_wait_ticks - 1) * Block = W - Block
      BY <2>1, BlockType
    <3>3. S \in Nat /\ T \in Nat /\ W \in Nat /\ V \in Nat /\ h \in Nat
      BY <1>2, <2>1, Lengths, BlockType DEF HeardInv
    <3> QED
      BY <2>3, <3>1, <3>2, <3>3, BlockType
  <2> QED
    BY <1>2, <2>2, <2>3
<1>5. /\ source[s] \in SourceRecord /\ source'[s] = Discarded(source[s])
      /\ a \in Nat /\ source[s].size \in Nat
  BY <1>1, <1>3, SourceTypes DEF Types
<1>6. \/ b = a
      \/ b = None
      \/ /\ b = ts.end /\ a < ts.end /\ a >= ts.start - 1
         /\ \/ source[s].size >= AUDIO_OUTPUT_FRAMES
            \/ a > ts.start /\ source[s].size > 0
  <2> DEFINE r == source[s]
             d == Discarded(r)
  <2>1. r \in SourceRecord /\ a = r.audio_ts /\ b = d.audio_ts
    BY <1>5
  <2> HIDE DEF r, a, b
  <2>2. \/ d.audio_ts = r.audio_ts /\ d.size = r.size
        \/ d.audio_ts = None /\ d.size = 0
        \/ /\ d.audio_ts = ts.end /\ r.audio_ts < ts.end /\ r.audio_ts >= ts.start - 1
           /\ r.size >= AUDIO_OUTPUT_FRAMES \/ (r.audio_ts > ts.start /\ r.size > 0)
        \/ /\ total_buffering_ticks = MAX_BUFFERING_TICKS /\ r.size # 0
           /\ d.audio_ts = r.audio_ts + r.size * FrameLen
    BY <1>3, <2>1, DiscardedEffect
  <2>3. total_buffering_ticks # MAX_BUFFERING_TICKS
    BY <1>2, AudioAssumption
  <2> HIDE DEF d
  <2> QED
    BY <2>1, <2>2, <2>3 DEF r
<1>7. /\ S <= T /\ (Going(s) => S + (Onward(s) - h) + W <= T)
      /\ Going(s) => a < h \/ OnBlock(a)
      /\ Going(s) /\ source[s].pending => source[s].size < AUDIO_OUTPUT_FRAMES
      /\ s \notin jumped /\ ~ source[s].pending =>
           a > ts.start - FrameLen /\ (buffering_wait_ticks = 0 => a >= ts.start)
  BY <1>1 DEF LossInv, Lost
<1> DEFINE next == IF b < h THEN h ELSE b
<1> SUFFICES ASSUME Going(s)' PROVE S + (next - h) + V <= T /\ (b < h \/ OnBlock(b))
  BY <1>1, <1>7 DEF Lost, Onward
<1>8. h # None /\ b # None
  BY <1>1 DEF Going
<1>9. CASE JustMixed(s)
  <2>1. V = 0 /\ h = ts.end /\ a < ts.end
    BY <1>4, <1>9 DEF JustMixed, InBlock
  <2>2. b = a \/ b = ts.end
    BY <1>6, <1>8
  <2> HIDE DEF S, T, V, a, b, h
  <2>3. next = h /\ (b < h \/ b = ts.end)
    BY <1>3, <1>5, <2>1, <2>2
  <2> HIDE DEF next
  <2> QED
    BY <1>3, <1>4, <1>7, <2>1, <2>3
<1>10. CASE ~ JustMixed(s)
  <2>1. Going(s) /\ s \notin jumped
    <3>1. a # None
      BY <1>3, <1>5, <1>6, <1>8, Lengths DEF HeardInv, None
    <3> QED
      BY <1>1, <1>8, <1>10, <3>1 DEF Going, HeardInv
  <2>2. S + (Onward(s) - h) + W <= T /\ (a < h \/ OnBlock(a))
    BY <1>7, <2>1
  <2>3. Onward(s) = IF a < h THEN h ELSE a
    BY DEF Onward
  <2>4. CASE b = a
    <3> HIDE DEF S, T, V, W, a, b, h
    <3> QED
      BY <1>4, <1>5, <2>2, <2>3, <2>4
  <2>5. CASE b # a
    <3>1. /\ b = ts.end /\ a < ts.end /\ a >= ts.start - 1
          /\ source[s].size >= AUDIO_OUTPUT_FRAMES \/ a > ts.start
      BY <1>6, <1>8, <2>5
    <3>2. ~ (a > ts.start) => /\ ~ source[s].pending /\ a > ts.start - FrameLen
                              /\ buffering_wait_ticks = 0 => a >= ts.start
      BY <1>5, <1>7, <2>1, <3>1, Lengths
    <3>3. CASE a >= h
      <4>1. OnBlock(a)
        BY <1>4, <1>5, <2>2, <3>3
      <4>2. ~ (a > ts.start)
        BY <1>3, <1>5, <3>1, <4>1, SameBlock
      <4>3. a = ts.start
        <5>1. a <= ts.start /\ ts.start < a + Block
          BY <1>3, <1>5, <3>2, <4>2, Lengths, BlockType
        <5> QED
          BY <1>3, <1>5, <4>1, <5>1, SameBlock
      <4>4. ~ source[s].pending /\ InBlock(s)
        BY <1>3, <3>2, <4>2, <4>3, BlockType DEF InBlock
      <4>5. buffering_wait_ticks # 0
        BY <1>1, <1>10, <2>1, <4>4 DEF HeardInv, JustMixed
      <4>6. b = a + Block /\ V = W - Block
        BY <1>3, <1>4, <3>1, <4>3, <4>5
      <4> HIDE DEF S, T, V, W, a, b, h
      <4>7. next = a + Block /\ Onward(s) = a
        BY <1>4, <1>5, <2>3, <3>3, <4>6, BlockType
      <4> HIDE DEF next
      <4>8. S + (next - h) + V <= T
        BY <1>4, <1>5, <2>2, <4>6, <4>7, BlockType
      <4> QED
        BY <1>3, <3>1, <4>8
    <3>4. CASE a < h
      <4>1. Onward(s) = h
        BY <2>3, <3>4
      <4>2. CASE buffering_wait_ticks = 0
        <5>1. h <= ts.start \/ h = ts.end
          BY <1>1, <4>2, MixedBefore DEF HeardInv, InOutput
        <5>2. ~ (h <= ts.start)
          BY <1>3, <1>4, <1>5, <3>2, <3>4, <4>2
        <5> HIDE DEF S, T, V, W, a, b, h
        <5>3. next = h
          BY <1>3, <3>1, <5>1, <5>2
        <5> HIDE DEF next
        <5> QED
          BY <1>3, <1>4, <1>7, <3>1, <4>2, <5>3
      <4>3. CASE buffering_wait_ticks # 0
        <5> HIDE DEF S, T, V, W, a, b, h
        <5>1. next \in Int /\ next <= h + Block
          BY <1>3, <1>4, <1>5, <3>1, <3>4, BlockType
        <5> HIDE DEF next
        <5>2. S + W <= T /\ V = W - Block
          BY <1>4, <2>2, <4>1, <4>3
        <5>3. S + (next - h) + V <= T
          BY <1>4, <5>1, <5>2, BlockType
        <5> QED
          BY <1>3, <3>1, <5>3
      <4> QED
        BY <4>2, <4>3
    <3> QED
      BY <1>4, <1>5, <3>3, <3>4
  <2> QED
    BY <2>4, <2>5
<1> QED
  BY <1>9, <1>10

LEMMA LossStep ==
  ASSUME BufferingInv, HeardInv, LossInv, [Next]_vars, ~ garbled'
  PROVE  LossInv'
<1>1. CASE \E s \in Sources, n \in Chunks : PushBack(s, n)
  BY <1>1, PushBackLoss
<1>2. CASE \E s \in Sources, n \in Chunks :
             \E late \in Lateness : Place(s, prev_time - late, n)
  BY <1>2, PlaceLoss
<1>3. CASE Tick
  BY <1>3, TickLoss
<1>4. CASE NoBuffering \/ AddBuffering
  BY <1>4, MinStepLoss
<1>5. CASE Mix
  BY <1>5, MixLoss
<1>6. CASE GiveOut \/ HoldBack
  BY <1>6, DiscardLoss
<1>7. CASE UNCHANGED vars
  <2>1. UNCHANGED <<pc, ts, source, total_buffering_ticks, buffering_wait_ticks, heard,
                    skipped, surprised, jumped>>
    BY <1>7 DEF vars, thread, history
  <2>2. \A s \in Sources : (Going(s)' <=> Going(s)) /\ (Lost(s)' <=> Lost(s))
    BY <2>1 DEF Going, JustMixed, InBlock, Lost, Onward
  <2> QED
    BY <2>1, <2>2 DEF LossInv
<1> QED
  BY <1>1, <1>2, <1>3, <1>4, <1>5, <1>6, <1>7 DEF Next, AudioThread

(* While there is room to buffer, a source that goes on delivering loses   *)
(* no more than the audio by which the buffering has grown, wherever its   *)
(* timestamps fall and whenever they jump, but for what the property       *)
(* names: data that comes after the source has been found pending in the   *)
(* same tick, and an uninitialised ts.end.                                 *)
THEOREM LossesAreBuffered == Spec => []LossIsBuffered
<1>1. BufferingInv /\ (garbled \/ HeardInv) /\ (garbled \/ LossInv) /\ [Next]_vars
        => (garbled \/ LossInv)'
  BY LossStep, StaysGarbled
<1>2. BufferingInv /\ (garbled \/ HeardInv) /\ (garbled \/ LossInv) => LossIsBuffered
  <2> SUFFICES ASSUME BufferingInv, HeardInv, LossInv,
                      total_buffering_ticks < MAX_BUFFERING_TICKS,
                      NEW s \in Sources, s \notin surprised
               PROVE  skipped[s] <= total_buffering_ticks * AUDIO_OUTPUT_FRAMES
    BY DEF LossIsBuffered
  <2> DEFINE bound == total_buffering_ticks * AUDIO_OUTPUT_FRAMES
  <2>1. skipped[s] \in Nat /\ bound \in Nat /\ total_buffering_ticks \in Nat
    BY Lengths DEF BufferingInv, Types, HeardInv
  <2>2. skipped[s] * FrameLen <= bound * FrameLen
    <3>1. total_buffering_ticks * Block = bound * FrameLen
      BY <2>1, Lengths DEF Block
    <3> QED
      BY <3>1 DEF LossInv, Lost
  <2>3. ~ (bound < skipped[s])
    <3> HIDE DEF bound
    <3>1. SUFFICES ASSUME bound < skipped[s] PROVE FALSE
      OBVIOUS
    <3>2. skipped[s] = bound + 1 + (skipped[s] - bound - 1)
          /\ skipped[s] - bound - 1 \in Nat
      BY <2>1, <3>1
    <3> DEFINE more == skipped[s] - bound - 1
    <3>3. more \in Nat /\ skipped[s] = bound + 1 + more
      BY <3>2
    <3> HIDE DEF more
    <3>4. (bound + 1 + more) * FrameLen = bound * FrameLen + FrameLen + more * FrameLen
      BY <2>1, <3>3, Lengths
    <3>5. bound * FrameLen \in Nat /\ more * FrameLen \in Nat
      BY <2>1, <3>3, Lengths
    <3> QED
      BY <2>2, <3>3, <3>4, <3>5, Lengths
  <2> QED
    BY <2>1, <2>3
<1> QED
  BY InitLoss, <1>1, <1>2, BlocksUnderway, HeardAlways, PTL DEF Spec
============================================================================
