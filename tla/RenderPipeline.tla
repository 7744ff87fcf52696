-------------------------- MODULE RenderPipeline ---------------------------
(***************************************************************************)
(* The graphics thread of libobs: obs_graphics_thread in                   *)
(* src/core/obs-video.c.                                                   *)
(*                                                                         *)
(* A picture is drawn in one iteration, scaled in the next, converted in   *)
(* the one after that if the GPU converts, copied to a staging surface in  *)
(* the next and mapped in the last: each stage has two textures and reads  *)
(* the one the stage before it wrote an iteration ago.  The timestamps of  *)
(* the iterations travel beside the pictures in vframe_info_buffer; what   *)
(* keeps the two together is only that both lines have the same length.    *)
(*                                                                         *)
(* A time is a number of frame intervals.  The content of a texture is the *)
(* time of the iteration that drew it, and None when the texture's flag is *)
(* clear: nobody reads it then.                                            *)
(***************************************************************************)
EXTENDS Integers, Sequences

CONSTANTS gpu_conversion,  (* video->gpu_conversion                         *)
          MapMayFail,      (* gs_stagesurface_map may fail                  *)
          Lags,            (* intervals a call of video_sleep may take      *)
          MaxTime,         (* bound: no iteration starts later              *)
          MaxRaw           (* bound on raw_active                           *)

ASSUME PipelineAssumption ==
  /\ gpu_conversion \in BOOLEAN /\ MapMayFail \in BOOLEAN
  /\ Lags \subseteq Nat \ {0} /\ MaxTime \in Nat /\ MaxRaw \in Nat

VARIABLES
  raw_active,            (* number of raw outputs, changed by other threads *)
  stopped,               (* video_output_stopped                            *)
  pc,                    (* where the graphics thread is                    *)
  active,                (* its raw_active: what it read in this iteration  *)
  raw_was_active,        (* ... and in the last                             *)
  cur_texture,
  rendered, output, converted, copied,   (* content of the stages' textures *)
  mapped_surface,        (* index of the mapped staging surface, or None    *)
  frame,                 (* content of the mapped picture, or None          *)
  vframe_info_buffer,
  video_time,
  given                  (* history: the last frame given to the ring       *)

otherVars == <<raw_active, stopped>>
textures  == <<rendered, output, converted, copied>>
pipelineVars == <<otherVars, pc, active, raw_was_active, cur_texture, textures, mapped_surface,
          frame, vframe_info_buffer, video_time, given>>

None == -1
NUM_TEXTURES == 2
Index == 0 .. NUM_TEXTURES - 1
prev_texture == IF cur_texture = 0 THEN NUM_TEXTURES - 1 ELSE cur_texture - 1
Clear == [i \in Index |-> None]

PipelineInit ==
  /\ raw_active = 0 /\ stopped = FALSE
  /\ pc = "top" /\ active = FALSE /\ raw_was_active = FALSE
  /\ cur_texture = 0
  /\ rendered = Clear /\ output = Clear /\ converted = Clear /\ copied = Clear
  /\ mapped_surface = None /\ frame = None
  /\ vframe_info_buffer = <<>>
  /\ video_time = 0
  /\ given = [content |-> None, ts |-> None, count |-> 1]

----------------------------------------------------------------------------
(* The loop's condition and the start of an iteration. *)

(* Mutant: the flags of the drawn textures survive. *)
clear_frame_data_partly ==
  /\ UNCHANGED rendered
  /\ output' = Clear /\ converted' = Clear /\ copied' = Clear
  /\ vframe_info_buffer' = <<>>
  /\ cur_texture' = 0

clear_frame_data ==
  /\ rendered' = Clear /\ output' = Clear /\ converted' = Clear /\ copied' = Clear
  /\ vframe_info_buffer' = <<>>
  /\ cur_texture' = 0

Ended ==
  /\ pc = "top" /\ stopped
  /\ pc' = "ended"
  /\ UNCHANGED <<otherVars, active, raw_was_active, cur_texture, textures, mapped_surface,
                 frame, vframe_info_buffer, video_time, given>>

(* Mutant: raw_was_active is not kept, so that every iteration clears. *)
IterateForgetful ==
  /\ pc = "top" /\ ~ stopped
  /\ video_time < MaxTime
  /\ active' = (raw_active > 0)
  /\ UNCHANGED raw_was_active
  /\ IF ~ raw_was_active /\ active'
     THEN clear_frame_data
     ELSE UNCHANGED <<textures, vframe_info_buffer, cur_texture>>
  /\ pc' = "render"
  /\ UNCHANGED <<otherVars, mapped_surface, frame, video_time, given>>

Iterate ==
  /\ pc = "top" /\ ~ stopped
  /\ video_time < MaxTime
  /\ active' = (raw_active > 0)
  /\ raw_was_active' = active'
  /\ IF ~ raw_was_active /\ active'
     THEN clear_frame_data
     ELSE UNCHANGED <<textures, vframe_info_buffer, cur_texture>>
  /\ pc' = "render"
  /\ UNCHANGED <<otherVars, mapped_surface, frame, video_time, given>>

----------------------------------------------------------------------------
(* output_frame *)

(* A stage draws its current texture from the previous one of the stage    *)
(* before it, if that has been drawn.                                      *)
Drawn(target, source) ==
  IF source[prev_texture] = None
  THEN target
  ELSE [target EXCEPT ![cur_texture] = source[prev_texture]]

(* render_main_texture, render_output_texture, render_convert_texture *)
Render ==
  /\ pc = "render"
  /\ rendered' = [rendered EXCEPT ![cur_texture] = video_time]
  /\ output' = IF active THEN Drawn(output, rendered) ELSE output
  /\ converted' = IF active /\ gpu_conversion THEN Drawn(converted, output) ELSE converted
  /\ pc' = IF active THEN "unmap" ELSE "flip"
  /\ UNCHANGED <<otherVars, active, raw_was_active, cur_texture, copied, mapped_surface,
                 frame, vframe_info_buffer, video_time, given>>

(* stage_output_texture: unmap_last_surface ... *)
UnmapLast ==
  /\ pc = "unmap"
  /\ mapped_surface' = None
  /\ pc' = "stage"
  /\ UNCHANGED <<otherVars, active, raw_was_active, cur_texture, textures, frame,
                 vframe_info_buffer, video_time, given>>

(* ... and gs_stage_texture *)
Stage ==
  /\ pc = "stage"
  /\ copied' = Drawn(copied, IF gpu_conversion THEN converted ELSE output)
  /\ pc' = "download"
  /\ UNCHANGED <<otherVars, active, raw_was_active, cur_texture, rendered, output, converted,
                 mapped_surface, frame, vframe_info_buffer, video_time, given>>

(* download_frame: nothing is copied yet, or the map fails ... *)
DownloadNothing ==
  /\ pc = "download"
  /\ copied[prev_texture] = None \/ MapMayFail
  /\ frame' = None
  /\ pc' = "flip"
  /\ UNCHANGED <<otherVars, active, raw_was_active, cur_texture, textures, mapped_surface,
                 vframe_info_buffer, video_time, given>>

(* ... or the last iteration's copy is mapped. *)
Download ==
  /\ pc = "download"
  /\ copied[prev_texture] # None
  /\ mapped_surface' = prev_texture
  /\ frame' = copied[prev_texture]
  /\ pc' = "hand_over"
  /\ UNCHANGED <<otherVars, active, raw_was_active, cur_texture, textures,
                 vframe_info_buffer, video_time, given>>

(* circlebuf_pop_front, and output_video_data's call of *)
(* video_output_lock_frame                              *)
HandOver ==
  /\ pc = "hand_over"
  /\ vframe_info_buffer # <<>>
  /\ vframe_info_buffer' = Tail(vframe_info_buffer)
  /\ given' = [content |-> frame, ts |-> Head(vframe_info_buffer).ts,
               count |-> Head(vframe_info_buffer).count]
  /\ pc' = "flip"
  /\ UNCHANGED <<otherVars, active, raw_was_active, cur_texture, textures, mapped_surface,
                 frame, video_time>>

(* if (++video->cur_texture == NUM_TEXTURES) *)
NextTexture ==
  /\ pc = "flip"
  /\ cur_texture' = IF cur_texture + 1 = NUM_TEXTURES THEN 0 ELSE cur_texture + 1
  /\ pc' = "sleep"
  /\ UNCHANGED <<otherVars, active, raw_was_active, textures, mapped_surface, frame,
                 vframe_info_buffer, video_time, given>>

(* Mutant: the interval that has begun is counted as well. *)
video_sleep_rounds_up(count) ==
  /\ pc = "sleep"
  /\ video_time' = video_time + count
  /\ vframe_info_buffer' = IF active
                           THEN Append(vframe_info_buffer,
                                       [ts |-> video_time, count |-> count + 1])
                           ELSE vframe_info_buffer
  /\ pc' = "top"
  /\ UNCHANGED <<otherVars, active, raw_was_active, cur_texture, textures, mapped_surface,
                 frame, given>>

(* video_sleep: one interval if the thread is in time, more if it lags *)
video_sleep(count) ==
  /\ pc = "sleep"
  /\ video_time' = video_time + count
  /\ vframe_info_buffer' = IF active
                           THEN Append(vframe_info_buffer,
                                       [ts |-> video_time, count |-> count])
                           ELSE vframe_info_buffer
  /\ pc' = "top"
  /\ UNCHANGED <<otherVars, active, raw_was_active, cur_texture, textures, mapped_surface,
                 frame, given>>

----------------------------------------------------------------------------
(* Other threads: start_raw_video, stop_raw_video, video_output_stop. *)

start_raw_video ==
  /\ raw_active < MaxRaw
  /\ raw_active' = raw_active + 1
  /\ UNCHANGED <<stopped, pc, active, raw_was_active, cur_texture, textures, mapped_surface,
                 frame, vframe_info_buffer, video_time, given>>

stop_raw_video ==
  /\ raw_active > 0
  /\ raw_active' = raw_active - 1
  /\ UNCHANGED <<stopped, pc, active, raw_was_active, cur_texture, textures, mapped_surface,
                 frame, vframe_info_buffer, video_time, given>>

StopVideo ==
  /\ ~ stopped
  /\ stopped' = TRUE
  /\ UNCHANGED <<raw_active, pc, active, raw_was_active, cur_texture, textures,
                 mapped_surface, frame, vframe_info_buffer, video_time, given>>

GraphicsThread ==
  \/ Ended \/ Iterate \/ Render \/ UnmapLast \/ Stage \/ DownloadNothing \/ Download
  \/ HandOver \/ NextTexture
  \/ \E count \in Lags : video_sleep(count)

PipelineNext == GraphicsThread \/ start_raw_video \/ stop_raw_video \/ StopVideo

PipelineSpec == PipelineInit /\ [][PipelineNext]_pipelineVars

(* The graphics thread is scheduled, and drawing and mapping return. *)
PipelineFairSpec == PipelineSpec /\ WF_pipelineVars(GraphicsThread)

----------------------------------------------------------------------------
(* Properties. *)

InfoRecord == [ts : Nat, count : Nat \ {0}]
Content == [Index -> Nat \union {None}]

PipelineTypes ==
  /\ raw_active \in Nat /\ stopped \in BOOLEAN
  /\ pc \in {"top", "render", "unmap", "stage", "download", "hand_over", "flip", "sleep",
             "ended"}
  /\ active \in BOOLEAN /\ raw_was_active \in BOOLEAN
  /\ cur_texture \in Index
  /\ rendered \in Content /\ output \in Content /\ converted \in Content /\ copied \in Content
  /\ mapped_surface \in Index \union {None}
  /\ frame \in Nat \union {None}
  /\ vframe_info_buffer \in Seq(InfoRecord)
  /\ video_time \in Nat
  /\ given \in [content : Nat \union {None}, ts : Nat \union {None}, count : Nat \ {0}]

(* Iterations from drawing a picture to giving it to the ring. *)
Depth == IF gpu_conversion THEN 4 ELSE 3

Waiting == Len(vframe_info_buffer)

(* The content of a texture that a stage wrote in the last iteration is    *)
(* the time at this place of the FIFO, counted from its end, if the FIFO   *)
(* is that long ...                                                        *)
Holds(texture, i, place) ==
  texture[i] = IF place <= Waiting
               THEN vframe_info_buffer[Waiting - place + 1].ts ELSE None

(* ... and the stage's other texture is not ahead of it.                   *)
InPlace(texture, i, place) ==
  /\ Holds(texture, i, place)
  /\ texture[1 - i] # None => texture[i] # None

(* All stages, before an iteration draws ...                               *)
DrawnBefore(i) ==
  /\ Waiting <= Depth
  /\ InPlace(rendered, i, 1)
  /\ InPlace(output, i, 2)
  /\ gpu_conversion => InPlace(converted, i, 3)
  /\ InPlace(copied, i, Depth)

(* ... and all but the last after it has, when the FIFO does not know of   *)
(* this iteration yet.                                                     *)
DrawnNow(i) ==
  /\ rendered[i] = video_time
  /\ InPlace(output, i, 1)
  /\ gpu_conversion => InPlace(converted, i, 2)

Rendering ==
  /\ Waiting <= Depth
  /\ DrawnNow(cur_texture)
  /\ Holds(IF gpu_conversion THEN converted ELSE output, prev_texture, Depth - 1)
  /\ InPlace(copied, prev_texture, Depth)

Downloading ==
  /\ Waiting <= Depth
  /\ DrawnNow(cur_texture)
  /\ InPlace(copied, cur_texture, Depth - 1)
  /\ Holds(copied, prev_texture, Depth)

HandingOver ==
  /\ Waiting = Depth
  /\ frame = vframe_info_buffer[1].ts
  /\ DrawnNow(cur_texture)
  /\ InPlace(copied, cur_texture, Depth - 1)

Flipping(i) ==
  /\ Waiting < Depth
  /\ DrawnNow(i)
  /\ InPlace(copied, i, Depth - 1)

InStep ==
  /\ active = raw_was_active
  /\ pc \in {"unmap", "stage", "download", "hand_over"} => active
  /\ pc \in {"top", "render"} /\ active => DrawnBefore(prev_texture)
  /\ pc \in {"unmap", "stage"} => Rendering
  /\ pc = "download" => Downloading
  /\ pc = "hand_over" => HandingOver
  /\ pc = "flip" /\ active => Flipping(cur_texture)
  /\ pc = "sleep" /\ active => Flipping(prev_texture)

(* One run of timestamps ends before the next begins, from the frame given *)
(* last through the FIFO to the present.                                   *)
RunsApart ==
  LET q == vframe_info_buffer
  IN /\ \A i \in 1 .. Len(q) : q[i].ts + q[i].count <= video_time
     /\ \A i, j \in 1 .. Len(q) : i < j => q[i].ts + q[i].count <= q[j].ts
     /\ \A i \in 1 .. Len(q) : given.ts + given.count <= q[i].ts
     /\ given.ts + given.count <= video_time

(* A frame is given to the ring with the timestamp of the iteration that   *)
(* drew it, although the timestamp went another way than the picture and   *)
(* the raw outputs may have gone and come back in between.                 *)
OwnTimestamp == given.content = given.ts

(* The surface that is copied to or about to be mapped is not mapped       *)
(* already: the picture the last iteration mapped has been dropped.        *)
StagingUnmapped == pc \in {"stage", "download"} => mapped_surface = None

(* Pictures and timestamps stay in step: there are never more timestamps   *)
(* waiting than pictures under way, a mapped picture finds its timestamp,  *)
(* and no staging surface is written or mapped while it is mapped.         *)
PipeInv == PipelineTypes /\ InStep /\ RunsApart /\ OwnTimestamp /\ StagingUnmapped

(* The ring gets disjoint runs of timestamps in ascending order, which is  *)
(* what VideoIO takes for granted of the graphics thread.                  *)
RunsAscend == [][given' # given => given'.ts >= given.ts + given.count]_given

(* While raw output stays on, frames come: no stage waits for a texture    *)
(* that nobody draws.  (The bound leaves room for one lagging pass.)       *)
FramesFlow ==
  raw_active > 0 /\ video_time + 2 * (Depth + 2) <= MaxTime
    ~> raw_active = 0 \/ stopped \/ (pc = "flip" /\ active /\ frame # None)
============================================================================
