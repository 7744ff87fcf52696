----------------------------- MODULE AsyncFrames -----------------------------
(***************************************************************************)
(* The pictures of an asynchronous source (a camera, a media file):        *)
(* src/core/obs-source.c.  The thread that captures, or several, copies    *)
(* each picture into a frame of the source's cache and queues it; the      *)
(* graphics thread picks one per tick, lets the filters have it and draws  *)
(* it.  The filter here keeps frames to itself for a while:                *)
(* src/plugins/obs-filters/async-delay-filter.c.                           *)
(*                                                                         *)
(* A frame counts its references: one of the cache, one of whoever copies, *)
(* keeps or draws it.  That it is in use is a flag of its cache entry.     *)
(* The cache is emptied when the queue is full or the pictures change      *)
(* their size, whoever uses a frame then, and an entry goes that has been  *)
(* unused for some time.  async_mutex is held for each step below but      *)
(* Copy, Size, Draw and FilterVideo, which hold it for no part of them.    *)
(*                                                                         *)
(* Time is left out: which of the queued frames is due is arbitrary.       *)
(***************************************************************************)
EXTENDS Integers, Sequences, FiniteSets

CONSTANTS Threads,                   (* threads that deliver pictures      *)
          Frames,                    (* memory for frames                  *)
          NoFrame,
          Sizes,                     (* sizes (and formats) of pictures    *)
          MAX_ASYNC_FRAMES,
          MAX_UNUSED_FRAME_DURATION,
          Delay,                     (* the filter's interval, in frames   *)
          Races,                     (* {"size"}: see MayFree              *)
          MaxPictures,               (* bound: pictures that are captured  *)
          MaxResets                  (* bound: the filter's resets         *)

ASSUME AsyncAssumption ==
  /\ NoFrame \notin Frames /\ Delay \in Nat /\ Races \subseteq {"size"}
  /\ MAX_ASYNC_FRAMES \in Nat \ {0} /\ MAX_UNUSED_FRAME_DURATION \in Nat \ {0}
  /\ MaxPictures \in Nat /\ MaxResets \in Nat /\ Sizes # {}

VARIABLES
  refs,            (* refs of each frame, 0 where the memory is free        *)
  picture, size,   (* what each frame holds                                 *)
  async_cache,     (* the frames of the cache,                              *)
  used,            (* ... those in use                                      *)
  unused_count,    (* ... and how long the others have not been             *)
  async_frames,    (* the queue                                             *)
  cur_async_frame,
  cache_size,      (* async_cache_width, _height and _format                *)
  texture_size,    (* the size of async_texture                             *)
  capture,         (* the capturing threads: where each is, with what frame *)
  graphics,        (* the graphics thread, likewise                         *)
  video_frames,    (* the frames that the filter keeps                      *)
  reached,         (* video_delay_reached                                   *)
  queued, shown,   (* the pictures that were last queued and drawn          *)
  captured, resets (* how many were captured, how often the filter reset    *)

cacheVars   == <<async_cache, used, unused_count, cache_size>>
filterVars  == <<video_frames, reached, resets>>
captureVars == <<capture, captured, queued, picture, size>>
drawVars    == <<texture_size, shown>>
vars == <<refs, cacheVars, captureVars, async_frames, cur_async_frame, drawVars, graphics,
          filterVars>>

AnySize == CHOOSE s \in Sizes : TRUE
Idle == [at |-> "idle", frame |-> NoFrame]

Init ==
  /\ refs = [f \in Frames |-> 0] /\ picture = [f \in Frames |-> 0]
  /\ size = [f \in Frames |-> AnySize]
  /\ async_cache = {} /\ used = {} /\ unused_count = [f \in Frames |-> 0]
  /\ async_frames = <<>> /\ cur_async_frame = NoFrame
  /\ cache_size = AnySize /\ texture_size = AnySize
  /\ capture = [t \in Threads |-> Idle]
  /\ graphics = Idle
  /\ video_frames = <<>> /\ reached = FALSE
  /\ captured = 0 /\ queued = 0 /\ shown = 0 /\ resets = 0

Elements(q) == {q[i] : i \in DOMAIN q}

----------------------------------------------------------------------------
(* The capturing thread: obs_source_output_video, cache_video. *)

(* free_async_cache; a frame that somebody still holds outlives it.        *)
FreeCache ==
  /\ async_frames' = <<>> /\ cur_async_frame' = NoFrame
  /\ UNCHANGED <<drawVars, graphics, filterVars>>

Freed == [f \in Frames |-> IF f \in async_cache THEN refs[f] - 1 ELSE refs[f]]

(* The graphics thread looks at the size of the frame it has picked after  *)
(* it has let go of the mutex.                                             *)
MayFree == graphics.at = "size" => "size" \in Races

(* A new frame, or one of the cache, is to hold the next picture.          *)
Take(t, f, s) ==
  /\ capture' = [capture EXCEPT ![t] = [at |-> "copy", frame |-> f]]
  /\ captured' = captured + 1
  /\ picture' = [picture EXCEPT ![f] = 0] /\ size' = [size EXCEPT ![f] = s]
  /\ UNCHANGED queued

MayCapture(t) == capture[t].at = "idle" /\ captured < MaxPictures
Full == Len(async_frames) >= MAX_ASYNC_FRAMES

(* The queue is full: everything is thrown away, this picture included.    *)
CacheOverflow(t) ==
  /\ MayCapture(t) /\ Full /\ MayFree
  /\ FreeCache
  /\ refs' = Freed
  /\ async_cache' = {} /\ used' = {}
  /\ captured' = captured + 1
  /\ UNCHANGED <<unused_count, cache_size, capture, queued, picture, size>>

(* The size changes: the cache starts again.                               *)
CacheRestart(t, f, s) ==
  /\ MayCapture(t) /\ ~ Full /\ s # cache_size /\ MayFree
  /\ Freed[f] = 0
  /\ FreeCache
  /\ refs' = [Freed EXCEPT ![f] = 2]
  /\ async_cache' = {f} /\ used' = {f} /\ cache_size' = s
  /\ unused_count' = [unused_count EXCEPT ![f] = 0]
  /\ Take(t, f, s)

(* clean_cache, after f was put to use                                     *)
Expired(f) ==
  {g \in (async_cache \ used) \ {f} : unused_count[g] + 1 >= MAX_UNUSED_FRAME_DURATION}

(* A frame of the cache is used again.                                     *)
CacheReuse(t, f) ==
  /\ MayCapture(t) /\ ~ Full
  /\ f \in async_cache \ used
  /\ refs' = [g \in Frames |-> IF g = f THEN refs[g] + 1
                               ELSE IF g \in Expired(f) THEN 0 ELSE refs[g]]
  /\ async_cache' = async_cache \ Expired(f) /\ used' = used \union {f}
  /\ unused_count' = [g \in Frames |-> IF g = f THEN 0
                        ELSE IF g \in async_cache \ used THEN unused_count[g] + 1
                        ELSE unused_count[g]]
  /\ Take(t, f, cache_size)
  /\ UNCHANGED <<cache_size, async_frames, cur_async_frame, drawVars, graphics, filterVars>>

(* All of the cache is in use: it grows.                                   *)
CacheGrow(t, f) ==
  /\ MayCapture(t) /\ ~ Full
  /\ async_cache \subseteq used /\ refs[f] = 0
  /\ refs' = [refs EXCEPT ![f] = 2]
  /\ async_cache' = async_cache \union {f} /\ used' = used \union {f}
  /\ unused_count' = [unused_count EXCEPT ![f] = 0]
  /\ Take(t, f, cache_size)
  /\ UNCHANGED <<cache_size, async_frames, cur_async_frame, drawVars, graphics, filterVars>>

(* copy_frame_data                                                         *)
Copy(t) ==
  /\ capture[t].at = "copy"
  /\ capture' = [capture EXCEPT ![t].at = "queue"]
  /\ UNCHANGED <<refs, cacheVars, captured, queued, picture, size, async_frames,
                 cur_async_frame, drawVars, graphics, filterVars>>

(* Mutant: the frame is queued even if it was thrown away.                 *)
QueueAnyway(t) ==
  /\ capture[t].at = "queue"
  /\ refs' = [refs EXCEPT ![capture[t].frame] = @ - 1]
  /\ async_frames' = Append(async_frames, capture[t].frame)
  /\ queued' = queued + 1
  /\ picture' = [picture EXCEPT ![capture[t].frame] = queued']
  /\ capture' = [capture EXCEPT ![t] = Idle]
  /\ UNCHANGED <<cacheVars, captured, size, cur_async_frame, drawVars, graphics, filterVars>>

(* The frame is queued, unless it was thrown away meanwhile.               *)
Queue(t) ==
  /\ capture[t].at = "queue"
  /\ LET f == capture[t].frame IN
       /\ refs' = [refs EXCEPT ![f] = @ - 1]
       /\ IF refs'[f] = 0 THEN UNCHANGED <<async_frames, queued, picture>>
          ELSE /\ async_frames' = Append(async_frames, f)
               /\ queued' = queued + 1
               /\ picture' = [picture EXCEPT ![f] = queued']
  /\ capture' = [capture EXCEPT ![t] = Idle]
  /\ UNCHANGED <<cacheVars, captured, size, cur_async_frame, drawVars, graphics, filterVars>>

----------------------------------------------------------------------------
(* The graphics thread. *)

(* remove_async_frame for the frames of F: their entries are not in use    *)
Remove(F) == used' = used \ F

(* async_tick: the frame of the last tick is given back if nobody drew it; *)
(* of the queued frames none is due, or one is and those before it are     *)
(* late (ready_async_frame, get_closest_frame).                            *)
TickNothing ==
  /\ graphics.at = "idle"
  /\ Remove({cur_async_frame})
  /\ cur_async_frame' = NoFrame
  /\ UNCHANGED <<refs, async_cache, unused_count, cache_size, captureVars, async_frames,
                 drawVars, graphics, filterVars>>

(* Mutant: the frame that is due is free to be used again, too.            *)
TickGivesAway(due) ==
  /\ graphics.at = "idle" /\ due \in DOMAIN async_frames
  /\ Remove({cur_async_frame} \union {async_frames[i] : i \in 1 .. due})
  /\ cur_async_frame' = async_frames[due]
  /\ async_frames' = SubSeq(async_frames, due + 1, Len(async_frames))
  /\ graphics' = [at |-> "size", frame |-> async_frames[due]]
  /\ UNCHANGED <<refs, async_cache, unused_count, cache_size, captureVars, drawVars,
                 filterVars>>

Tick(due) ==
  /\ graphics.at = "idle" /\ due \in DOMAIN async_frames
  /\ Remove({cur_async_frame} \union {async_frames[i] : i \in 1 .. due - 1})
  /\ cur_async_frame' = async_frames[due]
  /\ async_frames' = SubSeq(async_frames, due + 1, Len(async_frames))
  /\ graphics' = [at |-> "size", frame |-> async_frames[due]]
  /\ UNCHANGED <<refs, async_cache, unused_count, cache_size, captureVars, drawVars,
                 filterVars>>

(* set_async_texture_size *)
Size ==
  /\ graphics.at = "size"
  /\ texture_size' = size[graphics.frame]
  /\ graphics' = [at |-> "render", frame |-> NoFrame]
  /\ UNCHANGED <<refs, cacheVars, captureVars, async_frames, cur_async_frame, shown, filterVars>>

(* obs_source_update_async_video, if the source is drawn at all;           *)
(* obs_source_get_frame                                                    *)
Unseen ==
  /\ graphics.at = "render"
  /\ graphics' = Idle
  /\ UNCHANGED <<refs, cacheVars, captureVars, async_frames, cur_async_frame, drawVars, filterVars>>

GetFrame ==
  /\ graphics.at = "render" /\ cur_async_frame # NoFrame
  /\ refs' = [refs EXCEPT ![cur_async_frame] = @ + 1]
  /\ graphics' = [at |-> "filter", frame |-> cur_async_frame]
  /\ cur_async_frame' = NoFrame
  /\ UNCHANGED <<cacheVars, captureVars, async_frames, drawVars, filterVars>>

(* obs_source_release_frame *)
Release(f) ==
  /\ refs' = [refs EXCEPT ![f] = @ - 1]
  /\ IF refs'[f] = 0 THEN UNCHANGED used ELSE Remove({f})

(* async_delay_filter_video: after a change of its settings, or a jump of  *)
(* the timestamps, it gives back what it keeps.                            *)
FilterReset ==
  /\ graphics.at = "filter" /\ Delay # 0 /\ resets < MaxResets
  /\ graphics' = [graphics EXCEPT !.at = "reset"]
  /\ reached' = FALSE /\ resets' = resets + 1
  /\ UNCHANGED <<refs, cacheVars, captureVars, async_frames, cur_async_frame, drawVars,
                 video_frames>>

(* free_video_data *)
FilterFree ==
  /\ graphics.at = "reset" /\ video_frames # <<>>
  /\ Release(Head(video_frames))
  /\ video_frames' = Tail(video_frames)
  /\ UNCHANGED <<async_cache, unused_count, cache_size, captureVars, async_frames,
                 cur_async_frame, drawVars, graphics, reached, resets>>

(* It keeps the new frame; once the delay is reached it passes the oldest. *)
FilterVideo ==
  /\ graphics.at = "filter" \/ (graphics.at = "reset" /\ video_frames = <<>>)
  /\ LET kept == Append(video_frames, graphics.frame) IN
       IF ~ reached /\ Len(kept) <= Delay
       THEN /\ video_frames' = kept
            /\ graphics' = Idle
            /\ UNCHANGED reached
       ELSE /\ video_frames' = Tail(kept)
            /\ graphics' = [at |-> "draw", frame |-> Head(kept)]
            /\ reached' = TRUE
  /\ UNCHANGED <<refs, cacheVars, captureVars, async_frames, cur_async_frame, drawVars, resets>>

(* update_async_texture *)
Draw ==
  /\ graphics.at = "draw"
  /\ shown' = picture[graphics.frame]
  /\ graphics' = [graphics EXCEPT !.at = "release"]
  /\ UNCHANGED <<refs, cacheVars, captureVars, async_frames, cur_async_frame, texture_size,
                 filterVars>>

ReleaseFrame ==
  /\ graphics.at = "release"
  /\ Release(graphics.frame)
  /\ graphics' = Idle
  /\ UNCHANGED <<async_cache, unused_count, cache_size, captureVars, async_frames,
                 cur_async_frame, drawVars, filterVars>>

----------------------------------------------------------------------------
Next ==
  \/ \E t \in Threads :
       \/ CacheOverflow(t) \/ Copy(t) \/ Queue(t)
       \/ \E f \in Frames : CacheReuse(t, f) \/ CacheGrow(t, f)
                           \/ \E s \in Sizes : CacheRestart(t, f, s)
  \/ TickNothing \/ (\E due \in DOMAIN async_frames : Tick(due)) \/ Size \/ Unseen \/ GetFrame
  \/ FilterReset \/ FilterFree \/ FilterVideo \/ Draw \/ ReleaseFrame

Spec == Init /\ [][Next]_vars

----------------------------------------------------------------------------
(* Properties. *)

TypeOK ==
  /\ refs \in [Frames -> Nat] /\ picture \in [Frames -> Nat]
  /\ size \in [Frames -> Sizes]
  /\ used \subseteq async_cache /\ async_cache \subseteq Frames
  /\ unused_count \in [Frames -> Nat]
  /\ async_frames \in Seq(Frames) /\ cur_async_frame \in Frames \union {NoFrame}
  /\ cache_size \in Sizes /\ texture_size \in Sizes
  /\ capture \in [Threads -> {Idle} \union [at : {"copy", "queue"}, frame : Frames]]
  /\ graphics \in [at : {"idle", "render"}, frame : {NoFrame}]
                    \union [at : {"size", "filter", "reset", "draw", "release"}, frame : Frames]
  /\ video_frames \in Seq(Frames) /\ reached \in BOOLEAN
  /\ {captured, queued, shown, resets} \subseteq Nat

(* Who has a frame, with a reference besides that of the cache.            *)
Copying(f) == \E t \in Threads : capture[t].frame = f
Drawing(f) == graphics.frame = f /\ graphics.at # "size"
Kept(f) == f \in Elements(video_frames)
Held(f) == Copying(f) \/ Drawing(f) \/ Kept(f)

Waiting(f) == f = cur_async_frame \/ f \in Elements(async_frames)

(* Every reference is held by somebody: nothing leaks, and nobody has a    *)
(* frame whose memory is gone.                                             *)
One(holds) == IF holds THEN 1 ELSE 0

RefsHeld ==
  /\ \A f \in Frames : refs[f] = One(Held(f)) + One(f \in async_cache)
  /\ graphics.at = "size" => graphics.frame = cur_async_frame

(* A frame is in one place: nobody copies into a frame that waits, is kept *)
(* or is drawn, ...                                                        *)
Distinct(q) == \A i, j \in DOMAIN q : q[i] = q[j] => i = j

OnePlace ==
  /\ \A t, u \in Threads : capture[t].frame = capture[u].frame => t = u \/ capture[t] = Idle
  /\ Distinct(async_frames) /\ Distinct(video_frames)
  /\ cur_async_frame \notin Elements(async_frames)
  /\ \A f \in Frames : /\ Copying(f) => ~ Drawing(f) /\ ~ Kept(f)
                       /\ Kept(f) => ~ Drawing(f)
                       /\ Waiting(f) => f \in async_cache /\ ~ Held(f)

(* ... and its entry in the cache is in use as long as it is in any.       *)
InUse == \A f \in async_cache : f \in used <=> Waiting(f) \/ Held(f)

(* No frame is lost, leaked or shared between the cache, the queue, the    *)
(* filter and the thread that draws.                                       *)
FrameInv == TypeOK /\ RefsHeld /\ OnePlace /\ InUse

(* Whoever looks at a frame finds the picture that was put there: what is  *)
(* drawn only goes forward.                                                *)
ShownForward == [][shown' # shown => shown' > shown]_shown

(* A frame is drawn into a texture of its size.                            *)
TextureFits == graphics.at = "draw" => texture_size = size[graphics.frame]
=============================================================================
