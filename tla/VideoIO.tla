------------------------------ MODULE VideoIO ------------------------------
(***************************************************************************)
(* The raw video output of libobs: src/core/media-io/video-io.c.           *)
(*                                                                         *)
(* The graphics thread (obs-video.c) fills slots of a ring of cached       *)
(* frames; the video thread scales each frame for every connected input    *)
(* and calls the input's callback.  A slot is filled and read outside      *)
(* data_mutex: what keeps the two threads off the same slot is the count   *)
(* of available frames and the semaphore.  A step below is a stretch of    *)
(* code between two lock operations, or between two reads of video->stop.  *)
(*                                                                         *)
(* A timestamp is a number of frame intervals, so that frame_time is 1.    *)
(***************************************************************************)
EXTENDS Integers, SequencesExt

CONSTANTS CacheSize,  (* video->info.cache_size after init_cache           *)
          Inputs,     (* (callback, param) pairs that may be connected     *)
          Failing,    (* inputs whose callback may disconnect its own input *)
          NoInput,    (* no callback is running                            *)
          Counts,     (* values of video_sleep's count                     *)
          MaxTick     (* bound: the graphics thread starts no iteration later *)

ASSUME CacheSizeAssumption == CacheSize \in Nat \ {0}
ASSUME InputAssumption == Failing \subseteq Inputs /\ NoInput \notin Inputs
ASSUME CountAssumption == Counts \subseteq Nat \ {0} /\ MaxTick \in Nat

VARIABLES
  available_frames, first_added, last_added, cache,   (* under data_mutex  *)
  sem,          (* value of update_semaphore                               *)
  stop, initialized, joined,
  inputs,       (* video->inputs, under input_mutex                        *)
  pc_gfx,       (* where the graphics thread is                            *)
  fill,         (* the slot whose planes it copies a frame to              *)
  pc_vid,       (* where the video thread is                               *)
  cur,          (* its frame_info: the slot it reads                       *)
  idx,          (* its loop index over the inputs, from 1                  *)
  running,      (* the input whose callback runs                           *)
  tick,         (* timestamp the next frame will get                       *)
  outTs,        (* history: last timestamp completed for all inputs        *)
  owed,         (* history: inputs still to be served in this round        *)
  displaced     (* history: inputs that moved down during this round       *)

dataVars  == <<available_frames, first_added, last_added, cache>>
stopVars  == <<stop, initialized, joined>>
gfxVars   == <<pc_gfx, fill, tick>>
roundVars == <<cur, idx, running, owed, displaced>>
vars == <<dataVars, sem, stopVars, inputs, gfxVars, pc_vid, roundVars, outTs>>

Slots == 0 .. CacheSize - 1

NextSlot(i) == IF i + 1 = CacheSize THEN 0 ELSE i + 1

SlotRecord == [ts : Nat, count : Nat, skipped : Nat]

Init ==
  /\ available_frames = CacheSize /\ first_added = 0 /\ last_added = 0
  /\ cache = [s \in Slots |-> [ts |-> 0, count |-> 0, skipped |-> 0]]
  /\ sem = 0
  /\ stop = FALSE /\ initialized = TRUE /\ joined = FALSE
  /\ inputs = <<>>
  /\ pc_gfx = "top" /\ fill = 0 /\ tick = 0
  /\ pc_vid = "wait" /\ cur = 0 /\ idx = 1 /\ running = NoInput
  /\ owed = {} /\ displaced = {} /\ outTs = -1

----------------------------------------------------------------------------
(* The graphics thread. *)

(* while (!video_output_stopped(obs->video.video)) *)
GfxLoop ==
  /\ pc_gfx = "top"
  /\ stop \/ tick < MaxTick
  /\ pc_gfx' = IF stop THEN "exited" ELSE "render"
  /\ UNCHANGED <<dataVars, sem, stopVars, inputs, fill, tick, pc_vid, roundVars, outTs>>

(* An iteration without raw output, or whose frame is not downloaded yet. *)
GfxNoFrame(c) ==
  /\ pc_gfx = "render"
  /\ pc_gfx' = "top" /\ tick' = tick + c
  /\ UNCHANGED <<dataVars, sem, stopVars, inputs, fill, pc_vid, roundVars, outTs>>

(* video_output_lock_frame with a free slot. *)
LockFrame(c) ==
  LET l == IF available_frames # CacheSize THEN NextSlot(last_added) ELSE last_added
  IN /\ pc_gfx = "render"
     /\ available_frames # 0
     /\ last_added' = l
     /\ cache' = [cache EXCEPT ![l] = [ts |-> tick, count |-> c, skipped |-> 0]]
     /\ fill' = l
     /\ pc_gfx' = "filling" /\ tick' = tick + c
     /\ UNCHANGED <<available_frames, first_added, sem, stopVars, inputs, pc_vid, roundVars, outTs>>

(* video_output_lock_frame with every slot in use: the newest one is kept  *)
(* for c more frames.                                                      *)
LockFrameFull(c) ==
  /\ pc_gfx = "render"
  /\ available_frames = 0
  /\ cache' = [cache EXCEPT ![last_added] =
                 [ts |-> @.ts, count |-> @.count + c, skipped |-> @.skipped + c]]
  /\ pc_gfx' = "top" /\ tick' = tick + c
  /\ UNCHANGED <<available_frames, first_added, last_added, fill, sem, stopVars, inputs,
                 pc_vid, roundVars, outTs>>

UnlockFrame ==
  /\ pc_gfx = "filling"
  /\ available_frames' = available_frames - 1
  /\ sem' = sem + 1
  /\ pc_gfx' = "top"
  /\ UNCHANGED <<first_added, last_added, cache, stopVars, inputs, fill, tick, pc_vid,
                 roundVars, outTs>>

----------------------------------------------------------------------------
(* The video thread: video_thread and video_output_cur_frame. *)

VidStep(from, to) == pc_vid = from /\ pc_vid' = to

(* os_sem_wait *)
VidWait ==
  /\ sem > 0
  /\ sem' = sem - 1
  /\ VidStep("wait", "woken")
  /\ UNCHANGED <<dataVars, stopVars, inputs, gfxVars, roundVars, outTs>>

(* if (video->stop) break; *)
VidWoken ==
  /\ VidStep("woken", IF stop THEN "exited" ELSE "loop")
  /\ UNCHANGED <<dataVars, sem, stopVars, inputs, gfxVars, roundVars, outTs>>

(* !video->stop in the inner loop's condition *)
VidLoop ==
  /\ VidStep("loop", IF stop THEN "wait" ELSE "pick")
  /\ UNCHANGED <<dataVars, sem, stopVars, inputs, gfxVars, roundVars, outTs>>

(* frame_info = &video->cache[video->first_added]; *)
VidPick ==
  /\ VidStep("pick", "picked")
  /\ cur' = first_added
  /\ UNCHANGED <<dataVars, sem, stopVars, inputs, gfxVars, idx, running, owed, displaced, outTs>>

VidLockInputs ==
  /\ VidStep("picked", "deliver")
  /\ idx' = 1 /\ owed' = ToSet(inputs) /\ displaced' = {}
  /\ UNCHANGED <<dataVars, sem, stopVars, inputs, gfxVars, cur, running, outTs>>

(* Mutant: a failed scale ends the round. *)
VidScaleFailBreaks ==
  /\ pc_vid = "deliver" /\ idx <= Len(inputs)
  /\ idx' = Len(inputs) + 1 /\ owed' = owed \ {inputs[idx]}
  /\ UNCHANGED <<dataVars, sem, stopVars, inputs, gfxVars, pc_vid, cur, running, displaced, outTs>>

(* scale_video_output fails: this input gets nothing for this frame. *)
VidScaleFail ==
  /\ pc_vid = "deliver" /\ idx <= Len(inputs)
  /\ idx' = idx + 1 /\ owed' = owed \ {inputs[idx]}
  /\ UNCHANGED <<dataVars, sem, stopVars, inputs, gfxVars, pc_vid, cur, running, displaced, outTs>>

VidCallback ==
  /\ VidStep("deliver", "callback")
  /\ idx <= Len(inputs)
  /\ running' = inputs[idx] /\ owed' = owed \ {inputs[idx]}
  /\ UNCHANGED <<dataVars, sem, stopVars, inputs, gfxVars, cur, idx, displaced, outTs>>

(* The callback disconnects its own input: do_encode fails, full_stop and  *)
(* stop_raw_video run on this thread, and input_mutex is recursive.        *)
VidSelfDisconnect ==
  /\ pc_vid = "callback" /\ running \in Failing
  /\ \E k \in DOMAIN inputs :
        /\ inputs[k] = running
        /\ inputs' = RemoveAt(inputs, k)
        /\ displaced' = displaced \union {inputs[j] : j \in {k + 1} \intersect DOMAIN inputs}
  /\ UNCHANGED <<dataVars, sem, stopVars, gfxVars, pc_vid, cur, idx, running, owed, outTs>>

VidReturn ==
  /\ VidStep("callback", "deliver")
  /\ idx' = idx + 1 /\ running' = NoInput
  /\ UNCHANGED <<dataVars, sem, stopVars, inputs, gfxVars, cur, owed, displaced, outTs>>

VidUnlockInputs ==
  /\ idx > Len(inputs)
  /\ VidStep("deliver", "finish")
  /\ UNCHANGED <<dataVars, sem, stopVars, inputs, gfxVars, roundVars, outTs>>

(* Mutant: last_added is not reset when the cache drains. *)
VidCompleteNoReset ==
  /\ cache[cur].count = 1
  /\ VidStep("finish", "wait")
  /\ cache' = [cache EXCEPT ![cur] = [ts |-> @.ts + 1, count |-> 0, skipped |-> @.skipped]]
  /\ first_added' = NextSlot(first_added)
  /\ available_frames' = available_frames + 1
  /\ outTs' = cache[cur].ts
  /\ UNCHANGED <<last_added, sem, stopVars, inputs, gfxVars, roundVars>>

(* The last critical section when this was the frame's last tick ... *)
VidComplete ==
  /\ cache[cur].count = 1
  /\ VidStep("finish", "wait")
  /\ cache' = [cache EXCEPT ![cur] = [ts |-> @.ts + 1, count |-> 0, skipped |-> @.skipped]]
  /\ first_added' = NextSlot(first_added)
  /\ available_frames' = available_frames + 1
  /\ last_added' = IF available_frames' = CacheSize THEN first_added' ELSE last_added
  /\ outTs' = cache[cur].ts
  /\ UNCHANGED <<sem, stopVars, inputs, gfxVars, roundVars>>

(* ... and when the frame has to be given out again. *)
VidRepeatWith(next) ==
  /\ cache[cur].count # 1
  /\ VidStep("finish", "loop")
  /\ cache' = [cache EXCEPT ![cur] = next]
  /\ outTs' = cache[cur].ts
  /\ UNCHANGED <<available_frames, first_added, last_added, sem, stopVars, inputs, gfxVars,
                 roundVars>>

(* Mutant: a repetition keeps the old timestamp. *)
VidRepeatSameTime == VidRepeatWith([cache[cur] EXCEPT !.count = @ - 1])

VidRepeat ==
  VidRepeatWith([ts |-> cache[cur].ts + 1, count |-> cache[cur].count - 1,
                 skipped |-> IF cache[cur].skipped > 0 THEN cache[cur].skipped - 1 ELSE 0])

----------------------------------------------------------------------------
(* Other threads. *)

(* The video thread holds input_mutex while it goes over the inputs. *)
InputMutexFree == pc_vid \notin {"deliver", "callback"}

Connect(i) ==
  /\ InputMutexFree
  /\ ~ Contains(inputs, i)
  /\ inputs' = Append(inputs, i)
  /\ UNCHANGED <<dataVars, sem, stopVars, gfxVars, pc_vid, roundVars, outTs>>

(* Mutant: disconnect does not take input_mutex. *)
DisconnectUnlocked(i) ==
  /\ \E k \in DOMAIN inputs : inputs[k] = i /\ inputs' = RemoveAt(inputs, k)
  /\ UNCHANGED <<dataVars, sem, stopVars, gfxVars, pc_vid, roundVars, outTs>>

Disconnect(i) ==
  /\ InputMutexFree
  /\ \E k \in DOMAIN inputs : inputs[k] = i /\ inputs' = RemoveAt(inputs, k)
  /\ UNCHANGED <<dataVars, sem, stopVars, gfxVars, pc_vid, roundVars, outTs>>

(* Mutant: stop is flagged, but nobody wakes the video thread. *)
StopNoPost ==
  /\ initialized
  /\ initialized' = FALSE /\ stop' = TRUE
  /\ UNCHANGED <<dataVars, sem, joined, inputs, gfxVars, pc_vid, roundVars, outTs>>

(* video_output_stop, up to its pthread_join ... *)
Stop ==
  /\ initialized
  /\ initialized' = FALSE /\ stop' = TRUE /\ sem' = sem + 1
  /\ UNCHANGED <<dataVars, joined, inputs, gfxVars, pc_vid, roundVars, outTs>>

(* ... and its return. *)
Join ==
  /\ ~ initialized /\ ~ joined /\ pc_vid = "exited"
  /\ joined' = TRUE
  /\ UNCHANGED <<dataVars, sem, stop, initialized, inputs, gfxVars, pc_vid, roundVars, outTs>>

----------------------------------------------------------------------------
GfxFrame(c) == GfxNoFrame(c) \/ LockFrame(c) \/ LockFrameFull(c)

VidNext ==
  \/ VidWait \/ VidWoken \/ VidLoop \/ VidPick \/ VidLockInputs \/ VidScaleFail \/ VidCallback
  \/ VidSelfDisconnect \/ VidReturn \/ VidUnlockInputs \/ VidComplete \/ VidRepeat

Next ==
  \/ GfxLoop \/ UnlockFrame \/ VidNext \/ Stop \/ Join
  \/ \E c \in Counts : GfxFrame(c)
  \/ \E i \in Inputs : Connect(i) \/ Disconnect(i)

Spec == Init /\ [][Next]_vars

(* Both threads are scheduled and callbacks return. *)
Fairness ==
  /\ WF_vars(VidNext)
  /\ WF_vars(GfxLoop)
  /\ WF_vars(UnlockFrame)
  /\ WF_vars(\E c \in Counts : GfxFrame(c))
  /\ WF_vars(Join)

FairSpec == Spec /\ Fairness

----------------------------------------------------------------------------
(* Properties. *)

RingTypeOK ==
  /\ available_frames \in 0 .. CacheSize
  /\ first_added \in Slots /\ last_added \in Slots /\ fill \in Slots /\ cur \in Slots
  /\ cache \in [Slots -> SlotRecord]
  /\ sem \in Nat /\ tick \in Nat /\ outTs \in Int

ThreadTypeOK ==
  /\ stop \in BOOLEAN /\ initialized \in BOOLEAN /\ joined \in BOOLEAN
  /\ inputs \in Seq(Inputs)
  /\ pc_gfx \in {"top", "render", "filling", "exited"}
  /\ pc_vid \in {"wait", "woken", "loop", "pick", "picked", "deliver", "callback", "finish",
                 "exited"}
  /\ idx \in Nat \ {0} /\ running \in Inputs \union {NoInput}
  /\ owed \subseteq Inputs /\ displaced \subseteq Inputs

TypeOK == RingTypeOK /\ ThreadTypeOK

Used == CacheSize - available_frames
Filling == IF pc_gfx = "filling" THEN 1 ELSE 0

(* The k-th slot from first_added. *)
Slot(k) == IF first_added + k >= CacheSize THEN first_added + k - CacheSize
                                           ELSE first_added + k

Reading == pc_vid \in {"picked", "deliver", "callback", "finish"}

(* The graphics thread never copies a frame into the slot the callbacks    *)
(* read: both use the slot's planes outside data_mutex.                    *)
NoTear == pc_gfx = "filling" /\ Reading => fill # cur

(* The value of the semaphore is the number of queued frames nobody works  *)
(* on yet: one token short and a frame is never sent, one token over and   *)
(* the video thread sends a slot that holds no frame.                      *)
SemaphoreCountsFrames ==
  ~ stop => sem + (IF pc_vid = "wait" THEN 0 ELSE 1) = Used

(* Positions, counted from first_added, of the slots that hold a frame.    *)
InUse == 0 .. Used + Filling - 1

(* The timestamps covered by the slots in use are disjoint and ascending,  *)
(* all later than what was given out and earlier than the next timestamp:  *)
(* encoders rely on it for pts that never repeat or go back, although a    *)
(* full cache makes lock_frame and cur_frame update one slot's count, one  *)
(* ahead of and the other behind the current timestamp.                    *)
TimestampOrder ==
  \A k \in InUse :
    LET s == cache[Slot(k)]
    IN /\ s.count > 0 /\ outTs < s.ts /\ s.ts + s.count <= tick
       /\ \A j \in 0 .. k - 1 : cache[Slot(j)].ts + cache[Slot(j)].count <= s.ts

(* A slot is never charged with more skipped frames than it still has to   *)
(* repeat, so skipped_frames only counts repetitions.                      *)
SkippedAreRepeats ==
  \A k \in InUse : cache[Slot(k)].skipped < cache[Slot(k)].count

(* The slots in use run from first_added to last_added, and the slot being *)
(* filled is the newest of them.                                           *)
Layout ==
  /\ Used + Filling <= CacheSize
  /\ last_added = IF Used + Filling = 0 THEN first_added ELSE Slot(Used + Filling - 1)
  /\ pc_gfx = "filling" => fill = last_added

(* Pending timestamps are ordered, and the next one is still to come.      *)
Ordered == outTs < tick /\ TimestampOrder /\ SkippedAreRepeats

(* A frame is in the cache for as long as the video thread works on it.    *)
Reader ==
  /\ initialized <=> ~ stop
  /\ pc_vid = "exited" => stop
  /\ pc_vid \in {"loop", "pick"} \/ Reading => Used >= 1
  /\ Reading => cur = first_added

(* From the stop on, a token is left for the video thread to wake up to.   *)
StopToken == stop /\ pc_vid \notin {"woken", "exited"} => sem > 0

(* Ring, threads and semaphore agree in all of this at every step, so that *)
(* a token never stands for a frame that is not there.                     *)
RingInv ==
  TypeOK /\ Layout /\ Ordered /\ Reader /\ StopToken /\ SemaphoreCountsFrames

(* ... and the two threads therefore never meet in a slot.                 *)
RingSafe == RingInv /\ NoTear

(* Once video_output_disconnect has returned, the callback does not run:   *)
(* obs-encoder.c and obs-output.c free its param after that.  Only a       *)
(* callback that disconnected itself still runs.                           *)
DisconnectIsSynchronous ==
  running # NoInput => Contains(inputs, running) \/ running \in Failing

(* A frame reaches every input connected when its round began, apart from  *)
(* one that moved into the place of an input which disconnected itself in  *)
(* its own callback (the loop goes forward, so that input is skipped).     *)
EveryInputServed == pc_vid = "finish" => owed \subseteq displaced

(* A stop always finds the semaphore posted, whatever frame the video      *)
(* thread abandoned: pthread_join cannot hang on a sleeping thread.        *)
StopWakesVideoThread == stop /\ pc_vid = "wait" => sem > 0

(* video_output_stop returns, and with it both threads end.                *)
StopTerminates == stop ~> joined /\ pc_gfx = "exited"

(* Every timestamp the cache accepted is given out unless the output is    *)
(* stopped.                                                                *)
Accepted(t) ==
  \E k \in InUse :
    cache[Slot(k)].ts <= t /\ t < cache[Slot(k)].ts + cache[Slot(k)].count

AcceptedFramesAreSent ==
  \A t \in 0 .. MaxTick : Accepted(t) ~> (stop \/ outTs >= t)

(* What the ring has taken on comes to an end: the frames it accepted are  *)
(* sent, and a stop ends both threads (video_output_stop, video_thread).   *)
Completes == AcceptedFramesAreSent /\ StopTerminates

(* The fields of the k-th pending slot, and the pictures the slots in use  *)
(* hold, oldest first.                                                     *)
Ts(k) == cache[Slot(k)].ts
Count(k) == cache[Slot(k)].count
Pending == [k \in 1 .. Used + Filling |-> [ts |-> Ts(k - 1), left |-> Count(k - 1)]]

(* The ring, the threads and the semaphore implement the abstract queue.   *)
Abstract == INSTANCE VideoFrameQueue WITH
  Capacity <- CacheSize, out <- outTs, queue <- Pending

ImplementsQueue == Abstract!QSpec
=============================================================================
