-------------------------- MODULE AudioBuffering ---------------------------
(***************************************************************************)
(* The audio thread of libobs: audio_callback in src/core/obs-audio.c,     *)
(* with the sources' buffers of src/core/obs-source.c.                     *)
(*                                                                         *)
(* Each tick the thread handles one block of audio.  When a source is late *)
(* the thread goes back in time: it pushes blocks in front of the queue of *)
(* timestamps, and gives nothing out for as many ticks (buffering_wait_    *)
(* ticks) as it pushed, until it is back at the block where it was.        *)
(*                                                                         *)
(* Source threads put data into their buffers between any two steps of the *)
(* audio thread.  Sources are output channels of their own; what scenes    *)
(* and transitions add up is left out.  A frame lasts FrameLen units of    *)
(* time, so that a timestamp may fall between two frames.                  *)
(***************************************************************************)
EXTENDS Integers, SequencesExt, FiniteSetsExt

CONSTANTS
  Sources,
  AUDIO_OUTPUT_FRAMES,   (* frames in a block                               *)
  FrameLen,              (* length of a frame                               *)
  MAX_BUFFERING_TICKS,
  MaxBuf,                (* frames a source's buffer may hold, MAX_BUF_SIZE *)
  Chunks,                (* numbers of frames a source delivers at a time   *)
  Lateness,              (* how far behind the clock its timestamps may be  *)
  Garbage,               (* values of an uninitialised ts.end               *)
  MaxJumps,              (* bound on (re)starts of a source                 *)
  MaxTime                (* bound: no tick begins later                     *)

ASSUME AudioAssumption ==
  /\ AUDIO_OUTPUT_FRAMES \in Nat \ {0} /\ FrameLen \in Nat \ {0}
  /\ MAX_BUFFERING_TICKS \in Nat \ {0} /\ MaxBuf \in Nat
  /\ Chunks \subseteq Nat \ {0} /\ Garbage \subseteq Nat
  /\ Lateness \subseteq 0 .. (MAX_BUFFERING_TICKS + 2) * (AUDIO_OUTPUT_FRAMES * FrameLen)
  /\ MaxTime \in Nat /\ MaxJumps \in Nat

VARIABLES
  pc,                       (* where the audio thread is                    *)
  prev_time,                (* start of the next block to come              *)
  buffered_timestamps,      (* starts of the blocks under way, oldest first *)
  total_buffering_ticks, buffering_wait_ticks, buffered_ts,
  ts,                       (* the block of this tick                       *)
  source,                   (* the buffers of the sources                   *)
  jumps,                    (* (re)starts of each source so far             *)
  out_ts,                   (* history: start of the last block given out   *)
  given,                    (* history: number of blocks given out          *)
  heard,                    (* history: where each source's mixed audio ends *)
  skipped,                  (* history: its frames that were never mixed    *)
  surprised,                (* history: sources whose data came after they  *)
                            (* had been found pending, in the same tick     *)
  jumped,                   (* history: sources whose timestamps have begun *)
                            (* or jumped since this tick began              *)
  garbled                   (* history: has an uninitialised ts.end been    *)
                            (* used?                                        *)

thread == <<buffered_timestamps, total_buffering_ticks, buffering_wait_ticks, buffered_ts>>
history == <<out_ts, given, heard, skipped, surprised, jumped, garbled>>
vars == <<pc, prev_time, thread, ts, source, jumps, history>>

Block == AUDIO_OUTPUT_FRAMES * FrameLen
frames(t) == t \div FrameLen            (* convert_time_to_frames          *)
Start == (MAX_BUFFERING_TICKS + 2) * Block   (* no timestamp comes near 0   *)
None == 0                               (* audio_ts of a source without audio *)

Silent == [audio_ts |-> None, size |-> 0, last_size |-> 0, pending |-> TRUE,
           pending_stop |-> FALSE, rendered |-> None]

Init ==
  /\ pc = "wait" /\ prev_time = Start
  /\ buffered_timestamps = <<>>
  /\ total_buffering_ticks = 0 /\ buffering_wait_ticks = 0 /\ buffered_ts = 0
  /\ ts = [start |-> Start - Block, end |-> Start]
  /\ source = [s \in Sources |-> Silent]
  /\ jumps = [s \in Sources |-> 0]
  /\ out_ts = Start - Block /\ given = 0
  /\ heard = [s \in Sources |-> None] /\ skipped = [s \in Sources |-> 0]
  /\ surprised = {} /\ jumped = {} /\ garbled = FALSE

----------------------------------------------------------------------------
(* The sources' threads: source_output_audio_data under audio_buf_mutex. *)

(* source_output_audio_push_back *)
PushBack(s, n) ==
  /\ source[s].audio_ts # None
  /\ source[s].size + n <= MaxBuf
  /\ source[s].audio_ts + source[s].size * FrameLen <= prev_time   (* not from the future *)
  /\ source' = [source EXCEPT ![s].size = @ + n, ![s].last_size = 0]
  /\ surprised' = IF pc # "wait" /\ source[s].pending
                  THEN surprised \union {s} ELSE surprised
  /\ UNCHANGED <<pc, prev_time, thread, ts, jumps, out_ts, given, heard, skipped, jumped, garbled>>

(* source_output_audio_place, when the source begins or its timestamps     *)
(* jump: data from before audio_ts throws the buffer away.                 *)
Place(s, t, n) ==
  LET base == IF source[s].audio_ts = None \/ t < source[s].audio_ts
              THEN [source[s] EXCEPT !.size = 0, !.last_size = 0, !.audio_ts = t]
              ELSE source[s]
      placement == frames(t - base.audio_ts)
  IN /\ jumps[s] < MaxJumps
     /\ jumps' = [jumps EXCEPT ![s] = @ + 1]
     /\ heard' = [heard EXCEPT ![s] = None]
     /\ source' = [source EXCEPT ![s] = IF placement + n > MaxBuf
                                        THEN base
                                        ELSE [base EXCEPT !.size = placement + n,
                                                          !.last_size = 0]]
     /\ jumped' = IF pc = "wait" THEN jumped ELSE jumped \union {s}
     /\ UNCHANGED <<pc, prev_time, thread, ts, out_ts, given, skipped, surprised, garbled>>

----------------------------------------------------------------------------
(* The audio thread. *)

(* obs_source_audio_render: a source with a whole block is copied to its   *)
(* audio_output_buf, the others are pending.                               *)
Rendered(r) ==
  IF r.audio_ts = None \/ r.size < AUDIO_OUTPUT_FRAMES
  THEN [r EXCEPT !.pending = TRUE]
  ELSE [r EXCEPT !.pending = FALSE, !.rendered = r.audio_ts]

(* The start of audio_callback: the new block joins the queue, the one at  *)
(* its front is handled, and the sources are rendered.                     *)
Tick ==
  /\ pc = "wait" /\ prev_time < MaxTime
  /\ buffered_timestamps' = Append(buffered_timestamps, prev_time)
  /\ prev_time' = prev_time + Block
  /\ ts' = [start |-> Head(buffered_timestamps'), end |-> Head(buffered_timestamps') + Block]
  /\ source' = [s \in Sources |-> Rendered(source[s])]
  /\ pc' = "min" /\ jumped' = {}
  /\ UNCHANGED <<total_buffering_ticks, buffering_wait_ticks, buffered_ts, jumps, out_ts, given,
                 heard, skipped, surprised, garbled>>

(* find_min_ts *)
min_ts ==
  Min({ts.start} \union
      {source[s].audio_ts :
         s \in {r \in Sources : ~ source[r].pending /\ source[r].audio_ts # None}})

(* audio_buffer_insuffient *)
Insufficient(r) ==
  /\ ~ r.pending /\ r.audio_ts # None
  /\ IF r.audio_ts \in {min_ts, min_ts - 1}
     THEN r.size < AUDIO_OUTPUT_FRAMES
     ELSE /\ frames(r.audio_ts - min_ts) < AUDIO_OUTPUT_FRAMES
          /\ r.size < AUDIO_OUTPUT_FRAMES - frames(r.audio_ts - min_ts)

(* calc_min_ts.  Its second find_min_ts starts from the minimum that the   *)
(* first has found, so that it changes nothing.                            *)
MarkInvalid ==
  source' = [s \in Sources |-> IF Insufficient(source[s])
                               THEN [source[s] EXCEPT !.pending = TRUE] ELSE source[s]]

Late == min_ts < ts.start /\ total_buffering_ticks < MAX_BUFFERING_TICKS

NoBuffering ==
  /\ pc = "min" /\ ~ Late
  /\ MarkInvalid
  /\ pc' = "mix"
  /\ UNCHANGED <<prev_time, thread, ts, jumps, history>>

(* The n blocks before time b, oldest first. *)
BlocksBefore(b, n) == [i \in 1 .. n |-> b - (n + 1 - i) * Block]

(* add_audio_buffering, where "from" is the value buffered_ts takes.  When *)
(* the source is late by less than a frame no tick is added, and new_ts.end *)
(* is not initialised.                                                     *)
AddBufferingFrom(from) ==
  LET wanted == (frames(ts.start - min_ts) + AUDIO_OUTPUT_FRAMES - 1) \div AUDIO_OUTPUT_FRAMES
      ticks  == Min({wanted, MAX_BUFFERING_TICKS - total_buffering_ticks})
      back   == from - buffering_wait_ticks * Block
  IN /\ pc = "min" /\ Late
     /\ MarkInvalid
     /\ buffered_ts' = from
     /\ total_buffering_ticks' = total_buffering_ticks + ticks
     /\ buffering_wait_ticks' = buffering_wait_ticks + ticks
     /\ buffered_timestamps' = BlocksBefore(back, ticks) \o buffered_timestamps
     /\ \E end \in IF ticks = 0 THEN Garbage ELSE {back - (ticks - 1) * Block} :
           ts' = [start |-> back - ticks * Block, end |-> end]
     /\ garbled' = (garbled \/ ticks = 0)
     /\ pc' = "mix"
     /\ UNCHANGED <<prev_time, jumps, out_ts, given, heard, skipped, surprised, jumped>>

(* Mutant: buffered_ts is taken anew although the thread is waiting. *)
AddBufferingRestarts == AddBufferingFrom(ts.start)

AddBuffering == AddBufferingFrom(IF buffering_wait_ticks = 0 THEN ts.start ELSE buffered_ts)

(* Mutant: pending sources are mixed too. *)
MixesPending(r) ==
  /\ buffering_wait_ticks = 0 /\ r.audio_ts # None
  /\ r.audio_ts >= ts.start /\ r.audio_ts < ts.end
  /\ frames(r.audio_ts - ts.start) # AUDIO_OUTPUT_FRAMES

(* mix_audio *)
Mixes(r) ==
  /\ buffering_wait_ticks = 0
  /\ ~ r.pending /\ r.audio_ts # None
  /\ r.audio_ts >= ts.start /\ r.audio_ts < ts.end
  /\ frames(r.audio_ts - ts.start) # AUDIO_OUTPUT_FRAMES

Mix ==
  LET mixed == {s \in Sources : Mixes(source[s])}
  IN /\ pc = "mix"
     /\ skipped' = [s \in Sources |->
                      IF s \in mixed /\ heard[s] # None
                      THEN skipped[s] + frames(source[s].audio_ts - heard[s]) ELSE skipped[s]]
     /\ heard' = [s \in Sources |-> IF s \in mixed THEN ts.end ELSE heard[s]]
     /\ pc' = "discard"
     /\ UNCHANGED <<prev_time, thread, ts, source, jumps, out_ts, given, surprised, jumped,
                    garbled>>

(* discard_if_stopped, for a source that has data *)
Stopped(r) ==
  CASE r.last_size # r.size -> [r EXCEPT !.last_size = r.size]
    [] r.last_size = r.size /\ ~ r.pending_stop -> [r EXCEPT !.pending_stop = TRUE]
    [] OTHER -> [r EXCEPT !.size = 0, !.pending_stop = FALSE, !.audio_ts = None,
                          !.last_size = 0]

(* ignore_audio *)
Ignored(r) ==
  IF r.size = 0 THEN r
  ELSE [r EXCEPT !.size = 0, !.last_size = 0, !.audio_ts = @ + r.size * FrameLen]

(* Data from before the block: a source that has stopped is cleared, and   *)
(* when the buffering has reached its limit late data is thrown away.      *)
DiscardEarly(r) ==
  LET stops  == r.pending /\ r.size < AUDIO_OUTPUT_FRAMES /\ r.size # 0
      next   == IF stops THEN Stopped(r) ELSE r
      done   == stops /\ r.last_size = r.size       (* it returned true      *)
  IN IF ~ done /\ total_buffering_ticks = MAX_BUFFERING_TICKS THEN Ignored(next) ELSE next

(* Mutant: a source that does not have the rest of the block moves on too. *)
DiscardWithinPending(r) ==
  LET total == AUDIO_OUTPUT_FRAMES - (IF r.audio_ts \in {ts.start, ts.start - 1}
                                      THEN 0 ELSE frames(r.audio_ts - ts.start))
  IN [r EXCEPT !.size = IF @ < total THEN 0 ELSE @ - total, !.last_size = 0,
               !.audio_ts = ts.end]

(* Data inside the block is used up. *)
DiscardWithin(r) ==
  LET start_point == IF r.audio_ts \in {ts.start, ts.start - 1}
                     THEN 0 ELSE frames(r.audio_ts - ts.start)
      total == AUDIO_OUTPUT_FRAMES - start_point
  IN CASE total = 0 -> r
       [] total < 0 \/ r.size < total -> IF r.size = 0 THEN r ELSE Stopped(r)
       [] OTHER -> [r EXCEPT !.size = @ - total, !.last_size = 0, !.pending_stop = FALSE,
                             !.audio_ts = ts.end]

(* discard_audio *)
Discarded(r) ==
  CASE ts.end <= r.audio_ts -> r
    [] r.audio_ts < ts.start - 1 -> DiscardEarly(r)
    [] OTHER -> DiscardWithin(r)

Discard ==
  /\ pc = "discard"
  /\ source' = [s \in Sources |-> Discarded(source[s])]
  /\ buffered_timestamps' = Tail(buffered_timestamps)
  /\ pc' = "wait"
  /\ UNCHANGED <<prev_time, total_buffering_ticks, buffered_ts, ts, jumps, heard, skipped,
                 surprised, jumped, garbled>>

(* The end of audio_callback, with the output in input_and_output ... *)
GiveOut ==
  /\ Discard
  /\ buffering_wait_ticks = 0
  /\ out_ts' = ts.start /\ given' = given + 1
  /\ UNCHANGED buffering_wait_ticks

(* Mutant: the thread gives out the last block it waited for. *)
HoldBackLess ==
  /\ Discard
  /\ buffering_wait_ticks > 0
  /\ buffering_wait_ticks' = buffering_wait_ticks - 1
  /\ IF buffering_wait_ticks' = 0
     THEN out_ts' = ts.start /\ given' = given + 1
     ELSE UNCHANGED <<out_ts, given>>

(* ... and without. *)
HoldBack ==
  /\ Discard
  /\ buffering_wait_ticks > 0
  /\ buffering_wait_ticks' = buffering_wait_ticks - 1
  /\ UNCHANGED <<out_ts, given>>

AudioThread ==
  Tick \/ NoBuffering \/ AddBuffering \/ Mix \/ GiveOut \/ HoldBack

Next ==
  \/ AudioThread
  \/ \E s \in Sources, n \in Chunks :
        \/ PushBack(s, n)
        \/ \E late \in Lateness : Place(s, prev_time - late, n)

Spec == Init /\ [][Next]_vars

----------------------------------------------------------------------------
(* Properties. *)

SourceRecord == [audio_ts : Nat, size : Nat, last_size : Nat, pending : BOOLEAN,
                 pending_stop : BOOLEAN, rendered : Nat]

Types ==
  /\ pc \in {"wait", "min", "mix", "discard"}
  /\ prev_time \in Nat /\ prev_time >= Start /\ buffered_timestamps \in Seq(Int)
  /\ total_buffering_ticks \in 0 .. MAX_BUFFERING_TICKS
  /\ buffering_wait_ticks \in Nat /\ buffered_ts \in Int
  /\ ts \in [start : Nat, end : Nat]
  /\ source \in [Sources -> SourceRecord]
  /\ out_ts \in Int /\ given \in Nat

(* The blocks under way follow each other without a gap up to the present, *)
(* and there are as many of them as the buffering has ticks.               *)
Chain ==
  LET n == Len(buffered_timestamps)
  IN /\ n = total_buffering_ticks + (IF pc = "wait" THEN 0 ELSE 1)
     /\ \A i \in 1 .. n : buffered_timestamps[i] = prev_time - (n + 1 - i) * Block
     /\ pc # "wait" => ts.start = buffered_timestamps[1]

(* The block after the last one given out is at the front of the queue or, *)
(* while the thread waits, as many blocks further as it will wait.         *)
Resumes ==
  LET next == prev_time - Len(buffered_timestamps) * Block
  IN /\ next + buffering_wait_ticks * Block = out_ts + Block
     /\ buffering_wait_ticks > 0 => buffered_ts = out_ts + Block
     /\ buffering_wait_ticks <= total_buffering_ticks

(* The inductive invariant of the audio thread: what audio_callback keeps  *)
(* true of buffered_timestamps and its counters, with their types.         *)
BufferingInv == Types /\ Chain /\ Resumes

(* Whatever sources do, the blocks given out follow each other: going back *)
(* in time neither repeats nor loses a block of the output.                *)
BlocksContiguous ==
  [][given' # given => out_ts' = out_ts + Block]_<<given, out_ts>>

(* Audio is mixed at its own time and only once: what was copied before    *)
(* the minimum was calculated is still what the source's timestamp says,   *)
(* unless that has jumped within the tick, also for blocks the thread      *)
(* handles a second time; and what it handles is a whole block, as long as *)
(* every block has had an end.                                             *)
MixedInPlace ==
  pc = "mix" /\ ~ garbled => ts.end = ts.start + Block /\ \A s \in Sources \ jumped :
                   Mixes(source[s]) => /\ source[s].rendered = source[s].audio_ts
                                       /\ heard[s] <= source[s].audio_ts

(* While there is room to buffer, a source that goes on delivering loses   *)
(* no more than the audio by which the buffering has grown, although its   *)
(* timestamps may jump at any moment, unless its data arrives between      *)
(* being found pending and being discarded; as long as every block has had *)
(* an end.                                                                 *)
LossIsBuffered ==
  total_buffering_ticks < MAX_BUFFERING_TICKS /\ ~ garbled =>
    \A s \in Sources \ surprised :
       skipped[s] <= total_buffering_ticks * AUDIO_OUTPUT_FRAMES
============================================================================
