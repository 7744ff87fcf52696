--------------------------- MODULE VideoIO_proofs ---------------------------
(***************************************************************************)
(* Theorems about the way of a picture. In RenderPipeline pictures and     *)
(* timestamps stay in step, for every number of raw outputs, every lag of  *)
(* the graphics thread and both ways of converting, provided that staging  *)
(* surfaces can be mapped. The frame cache of VideoIO, for every size, set *)
(* of inputs, list of run lengths and bound on time, is safe, calls its    *)
(* inputs as it should, and implements the queue of VideoFrameQueue.       *)
(***************************************************************************)
EXTENDS VideoIO, RenderPipeline, SequenceTheorems, TLAPS

-----------------------------------------------------------------------------
(* From drawing to the ring.                                               *)

(* The FIFO's end after a push and its front after a pop. *)
LEMMA PushInfo ==
  ASSUME NEW q \in Seq(InfoRecord), NEW r \in InfoRecord
  PROVE  /\ Append(q, r) \in Seq(InfoRecord)
         /\ Len(Append(q, r)) = Len(q) + 1
         /\ \A k \in 1 .. Len(q) : Append(q, r)[k] = q[k]
         /\ Append(q, r)[Len(q) + 1] = r
  OBVIOUS

LEMMA PopInfo ==
  ASSUME NEW q \in Seq(InfoRecord), q # <<>>
  PROVE  /\ Tail(q) \in Seq(InfoRecord)
         /\ Len(Tail(q)) = Len(q) - 1
         /\ \A k \in 1 .. Len(q) - 1 : Tail(q)[k] = q[k + 1]
         /\ Head(q) = q[1] /\ Len(q) > 0
  OBVIOUS

LEMMA InfoTypes ==
  ASSUME PipelineTypes
  PROVE  /\ Len(vframe_info_buffer) \in Nat
         /\ \A k \in 1 .. Len(vframe_info_buffer) :
               /\ vframe_info_buffer[k].ts \in Nat
               /\ vframe_info_buffer[k].count \in Nat \ {0}
<1>1. \A k \in 1 .. Len(vframe_info_buffer) : vframe_info_buffer[k] \in InfoRecord
  BY DEF PipelineTypes
<1> QED
  BY <1>1 DEF InfoRecord, PipelineTypes

LEMMA GivenTypes ==
  ASSUME PipelineTypes
  PROVE  given.ts \in Int /\ given.count \in Nat \ {0}
<1>1. Nat \union {None} \subseteq Int
  BY DEF None
<1> QED
  BY <1>1 DEF PipelineTypes

LEMMA ClearType == Clear \in Content
  BY DEF Clear, Content, None

LEMMA InitPipe == PipelineInit => PipeInv
<1> SUFFICES ASSUME PipelineInit PROVE PipeInv
  OBVIOUS
<1> USE PipelineAssumption DEF PipelineInit, Index, NUM_TEXTURES, None
<1>1. PipelineTypes
  <2>1. vframe_info_buffer \in Seq(InfoRecord)
    OBVIOUS
  <2>2. given \in [content : Nat \union {None}, ts : Nat \union {None}, count : Nat \ {0}]
    OBVIOUS
  <2>3. rendered \in Content /\ output \in Content /\ converted \in Content /\ copied \in Content
    BY ClearType
  <2>4. /\ mapped_surface \in Index \union {None} /\ frame \in Nat \union {None}
        /\ cur_texture \in Index /\ video_time \in Nat /\ raw_active \in Nat
    OBVIOUS
  <2>5. /\ stopped \in BOOLEAN /\ active \in BOOLEAN /\ raw_was_active \in BOOLEAN
        /\ pc \in {"top", "render", "unmap", "stage", "download", "hand_over", "flip", "sleep",
                  "ended"}
    OBVIOUS
  <2> HIDE DEF PipelineInit
  <2> QED
    BY <2>1, <2>2, <2>3, <2>4, <2>5 DEF PipelineTypes
<1>2. InStep
  BY DEF InStep
<1>3. RunsApart /\ OwnTimestamp /\ StagingUnmapped
  BY DEF RunsApart, OwnTimestamp, StagingUnmapped
<1> QED
  BY <1>1, <1>2, <1>3 DEF PipeInv

LEMMA TypeStep == PipelineTypes /\ [PipelineNext]_pipelineVars => PipelineTypes'
<1> SUFFICES ASSUME PipelineTypes, [PipelineNext]_pipelineVars PROVE PipelineTypes'
  OBVIOUS
<1> USE PipelineAssumption
    DEF PipelineTypes, Content, Index, NUM_TEXTURES, None, otherVars, textures
<1>1. CASE Ended
  BY <1>1 DEF Ended
<1>2. CASE Iterate
  <2>1. /\ rendered' \in Content /\ output' \in Content /\ converted' \in Content
        /\ copied' \in Content /\ vframe_info_buffer' \in Seq(InfoRecord) /\ cur_texture' \in Index
    <3>1. CASE ~ raw_was_active /\ active'
      <4>1. /\ rendered' = Clear /\ output' = Clear /\ converted' = Clear /\ copied' = Clear
            /\ vframe_info_buffer' = <<>> /\ cur_texture' = 0
        BY <1>2, <3>1 DEF Iterate, clear_frame_data
      <4>2. <<>> \in Seq(InfoRecord) /\ 0 \in Index
        OBVIOUS
      <4>3. Clear \in Content
        BY ClearType
      <4> QED
        BY <4>1, <4>2, <4>3
    <3>2. CASE ~ (~ raw_was_active /\ active')
      BY <1>2, <3>2 DEF Iterate
    <3> QED
      BY <3>1, <3>2
  <2> QED
    BY <1>2, <2>1 DEF Iterate
<1>3. CASE Render
  BY <1>3 DEF Render, Drawn, prev_texture
<1>4. CASE Stage
  BY <1>4 DEF Stage, Drawn, prev_texture
<1>5. CASE HandOver
  <2>1. Head(vframe_info_buffer) \in InfoRecord /\ Tail(vframe_info_buffer) \in Seq(InfoRecord)
    BY <1>5, PopInfo DEF HandOver
  <2> QED
    BY <1>5, <2>1 DEF HandOver, InfoRecord
<1>6. ASSUME NEW count \in Lags, video_sleep(count) PROVE PipelineTypes'
  <2>1. [ts |-> video_time, count |-> count] \in InfoRecord /\ video_time + count \in Nat
    BY DEF InfoRecord
  <2> QED
    BY <1>6, <2>1, PushInfo DEF video_sleep
<1>7. CASE start_raw_video
  BY <1>7 DEF start_raw_video
<1>8. CASE stop_raw_video
  BY <1>8 DEF stop_raw_video
<1>9. CASE StopVideo
  BY <1>9 DEF StopVideo
<1>10. CASE UNCHANGED pipelineVars
  BY <1>10 DEF pipelineVars
<1>11. CASE UnmapLast
  BY <1>11 DEF UnmapLast
<1>12. CASE DownloadNothing
  BY <1>12 DEF DownloadNothing
<1>13. CASE Download
  BY <1>13 DEF Download, prev_texture
<1>14. CASE NextTexture
  BY <1>14 DEF NextTexture
<1> QED
  BY <1>1, <1>2, <1>3, <1>4, <1>5, <1>6, <1>7, <1>8, <1>9, <1>10, <1>11, <1>12, <1>13, <1>14
  DEF PipelineNext, GraphicsThread

(* Steps that touch neither the textures nor what they are compared with. *)
LEMMA QuietStep ==
  ASSUME PipeInv,
         UNCHANGED <<pc, active, raw_was_active, cur_texture, textures, mapped_surface, frame,
                     vframe_info_buffer, video_time, given>>
  PROVE  InStep' /\ RunsApart' /\ OwnTimestamp' /\ StagingUnmapped'
<1> USE DEF PipeInv, textures, prev_texture
<1>1. InStep'
  BY DEF InStep, Holds, InPlace, DrawnBefore, DrawnNow, Waiting, Rendering, Downloading,
         HandingOver, Flipping
<1>2. RunsApart' /\ OwnTimestamp' /\ StagingUnmapped'
  BY DEF RunsApart, OwnTimestamp, StagingUnmapped
<1> QED
  BY <1>1, <1>2

(* One lemma for each step that moves pictures or timestamps. *)
LEMMA IterateInStep == PipeInv /\ PipelineTypes' /\ Iterate => InStep'
<1> SUFFICES ASSUME PipeInv, PipelineTypes', Iterate PROVE InStep'
  OBVIOUS
<1> USE PipelineAssumption
    DEF PipeInv, PipelineTypes, Content, Index, NUM_TEXTURES, None, textures, InStep
<1>1. CASE ~ raw_was_active /\ active'
  <2>1. /\ Waiting' = 0 /\ cur_texture' = 0 /\ prev_texture' = 1
        /\ rendered' = Clear /\ output' = Clear /\ converted' = Clear /\ copied' = Clear
    BY <1>1 DEF Iterate, clear_frame_data, Waiting, prev_texture
  <2>2. Clear[0] = None /\ Clear[1] = None
    BY DEF Clear
  <2>3. DrawnBefore(prev_texture)'
    BY <2>1, <2>2 DEF DrawnBefore, InPlace, Holds, Depth
  <2> QED
    BY <1>1, <2>3 DEF Iterate
<1>2. CASE ~ (~ raw_was_active /\ active')
  BY <1>2 DEF Iterate, DrawnBefore, InPlace, Holds, prev_texture, Waiting, Depth
<1> QED
  BY <1>1, <1>2

LEMMA RenderInStep == PipeInv /\ PipelineTypes' /\ Render => InStep'
<1> SUFFICES ASSUME PipeInv, PipelineTypes', Render, active PROVE Rendering'
  BY DEF PipeInv, InStep, Render
<1> USE PipelineAssumption DEF Index, NUM_TEXTURES, None
<1>1. /\ DrawnBefore(prev_texture) /\ cur_texture \in Index /\ prev_texture = 1 - cur_texture
      /\ UNCHANGED <<cur_texture, vframe_info_buffer, video_time, copied>>
      /\ prev_texture' = prev_texture /\ Waiting' = Waiting /\ Waiting \in Nat
  BY DEF PipeInv, InStep, Render, PipelineTypes, prev_texture, Waiting
<1>2. \A k \in 1 .. Waiting : vframe_info_buffer[k].ts \in Nat
  BY InfoTypes DEF PipeInv, Waiting
<1>3. DrawnNow(cur_texture)'
  <2>1. rendered'[cur_texture] = video_time
    BY DEF Render, PipeInv, PipelineTypes, Content
  <2>2. InPlace(output, cur_texture, 1)'
    BY <1>1, <1>2 DEF Render, Drawn, DrawnBefore, InPlace, Holds, PipeInv, PipelineTypes, Content
  <2>3. gpu_conversion => InPlace(converted, cur_texture, 2)'
    BY <1>1, <1>2 DEF Render, Drawn, DrawnBefore, InPlace, Holds, PipeInv, PipelineTypes, Content
  <2> QED
    BY <1>1, <2>1, <2>2, <2>3 DEF DrawnNow
<1>4. Holds(IF gpu_conversion THEN converted ELSE output, prev_texture, Depth - 1)'
  <2>1. /\ gpu_conversion => converted'[prev_texture] = converted[prev_texture]
        /\ output'[prev_texture] = output[prev_texture]
    BY <1>1 DEF Render, Drawn, PipeInv, PipelineTypes, Content
  <2> QED
    BY <1>1, <2>1 DEF DrawnBefore, InPlace, Holds, Depth
<1>5. (Waiting <= Depth)' /\ InPlace(copied, prev_texture, Depth)'
  BY <1>1 DEF DrawnBefore, InPlace, Holds, Depth
<1> QED
  BY <1>3, <1>4, <1>5, <1>1 DEF Rendering

LEMMA StageInStep == PipeInv /\ PipelineTypes' /\ Stage => InStep'
<1> SUFFICES ASSUME PipeInv, PipelineTypes', Stage PROVE Downloading'
  BY DEF PipeInv, InStep, Stage
<1> USE PipelineAssumption DEF Index, NUM_TEXTURES, None
<1>1. /\ Rendering /\ cur_texture \in Index /\ prev_texture = 1 - cur_texture
      /\ UNCHANGED <<cur_texture, vframe_info_buffer, video_time, rendered, output, converted>>
      /\ prev_texture' = prev_texture /\ Waiting' = Waiting /\ Waiting \in Nat
  BY DEF PipeInv, InStep, Stage, PipelineTypes, prev_texture, Waiting
<1>2. \A k \in 1 .. Waiting : vframe_info_buffer[k].ts \in Nat
  BY InfoTypes DEF PipeInv, Waiting
<1>3. (Waiting <= Depth)' /\ DrawnNow(cur_texture)'
  BY <1>1 DEF Rendering, DrawnNow, InPlace, Holds, Depth
<1>4. Holds(copied, prev_texture, Depth)'
  <2>1. copied'[prev_texture] = copied[prev_texture]
    BY <1>1 DEF Stage, Drawn, PipeInv, PipelineTypes, Content
  <2> QED
    BY <1>1, <2>1 DEF Rendering, InPlace, Holds, Depth
<1>5. InPlace(copied, cur_texture, Depth - 1)'
  <2> DEFINE source == IF gpu_conversion THEN converted ELSE output
  <2>1. Holds(source, prev_texture, Depth - 1) /\ InPlace(copied, prev_texture, Depth)
    BY <1>1 DEF Rendering
  <2>2. copied' = IF source[prev_texture] = None
                  THEN copied ELSE [copied EXCEPT ![cur_texture] = source[prev_texture]]
    BY DEF Stage, Drawn
  <2>3. copied \in Content /\ Depth \in {3, 4}
    BY DEF PipeInv, PipelineTypes, Depth
  <2> HIDE DEF source
  <2> QED
    BY <1>1, <1>2, <2>1, <2>2, <2>3 DEF InPlace, Holds, Content
<1> QED
  BY <1>1, <1>3, <1>4, <1>5 DEF Downloading

LEMMA DownloadInStep ==
  ASSUME ~ MapMayFail
  PROVE  PipeInv /\ PipelineTypes' /\ (DownloadNothing \/ Download) => InStep'
<1> SUFFICES ASSUME PipeInv, PipelineTypes', DownloadNothing \/ Download PROVE InStep'
  OBVIOUS
<1> USE PipelineAssumption DEF Index, NUM_TEXTURES, None
<1>1. /\ Downloading /\ active /\ Waiting \in Nat /\ Depth \in {3, 4}
      /\ UNCHANGED <<cur_texture, vframe_info_buffer, video_time, textures, active,
                     raw_was_active>>
  BY DEF PipeInv, InStep, DownloadNothing, Download, PipelineTypes, prev_texture, Waiting, Depth
<1>2. \A k \in 1 .. Waiting : vframe_info_buffer[k].ts \in Nat
  BY InfoTypes DEF PipeInv, Waiting
<1>3. CASE DownloadNothing
  <2>1. Waiting < Depth
    BY <1>1, <1>2, <1>3 DEF DownloadNothing, Downloading, Holds
  <2> QED
    BY <1>1, <1>3, <2>1 DEF DownloadNothing, InStep, PipeInv, Downloading, Flipping, DrawnNow,
                            InPlace, Holds, Waiting, textures, prev_texture
<1>4. CASE Download
  <2>1. Waiting = Depth /\ copied[prev_texture] = vframe_info_buffer[1].ts
    BY <1>1, <1>2, <1>4 DEF Download, Downloading, Holds
  <2> QED
    BY <1>1, <1>4, <2>1 DEF Download, InStep, PipeInv, Downloading, HandingOver, DrawnNow,
                            InPlace, Holds, Waiting, textures, prev_texture
<1> QED
  BY <1>3, <1>4

LEMMA HandOverInStep == PipeInv /\ PipelineTypes' /\ HandOver => InStep'
<1> SUFFICES ASSUME PipeInv, PipelineTypes', HandOver PROVE Flipping(cur_texture)'
  BY DEF PipeInv, InStep, HandOver
<1>1. /\ HandingOver /\ Depth \in {3, 4} /\ cur_texture' = cur_texture
      /\ UNCHANGED <<textures, video_time>>
  BY DEF PipeInv, InStep, HandOver, Depth
<1>2. /\ vframe_info_buffer' = Tail(vframe_info_buffer)
      /\ Waiting' = Waiting - 1 /\ Waiting \in Nat
      /\ \A k \in 1 .. Waiting - 1 : vframe_info_buffer'[k] = vframe_info_buffer[k + 1]
  BY PopInfo DEF HandOver, PipeInv, PipelineTypes, Waiting
<1> DEFINE q == vframe_info_buffer
<1>7. /\ q'[Waiting - 1] = q[Waiting] /\ q'[Waiting - 2] = q[Waiting - 1] /\ q'[1] = q[2]
      /\ Waiting = Depth
  <2>1. Waiting = Depth /\ Waiting - 1 \in 1 .. Waiting - 1 /\ Waiting - 2 \in 1 .. Waiting - 1
        /\ 1 \in 1 .. Waiting - 1
    BY <1>1 DEF HandingOver
  <2>2. (Waiting - 1) + 1 = Waiting /\ (Waiting - 2) + 1 = Waiting - 1
    BY <1>2
  <2> HIDE DEF q
  <2>3. \A k \in 1 .. Waiting - 1 : q'[k] = q[k + 1]
    BY <1>2 DEF q
  <2> QED
    BY <2>1, <2>2, <2>3
<1>8. /\ Waiting - 1 + 1 = Waiting /\ Waiting' - 1 + 1 = Waiting - 1
      /\ Waiting - 2 + 1 = Waiting - 1 /\ Waiting' - 2 + 1 = Waiting - 2
      /\ Waiting - (Depth - 1) + 1 = 2 /\ Waiting' - (Depth - 1) + 1 = 1
      /\ 1 <= Waiting' /\ 2 <= Waiting' /\ Depth - 1 <= Waiting'
  BY <1>1, <1>2, <1>7
<1>9. /\ output[cur_texture] = q[Waiting].ts
      /\ gpu_conversion => converted[cur_texture] = q[Waiting - 1].ts
      /\ copied[cur_texture] = q[2].ts
  BY <1>1, <1>7, <1>8 DEF HandingOver, DrawnNow, InPlace, Holds
<1>3. InPlace(output, cur_texture, 1)'
  <2>1. InPlace(output, cur_texture, 1)
    BY <1>1 DEF HandingOver, DrawnNow
  <2>2. output' = output /\ output[1 - cur_texture] # None => output[cur_texture] # None
    BY <1>1, <2>1 DEF InPlace, textures
  <2> QED
    BY <1>1, <1>7, <1>8, <1>9, <2>2 DEF InPlace, Holds, textures
<1>4. gpu_conversion => InPlace(converted, cur_texture, 2)'
  BY <1>1, <1>7, <1>8, <1>9, PipelineAssumption
  DEF HandingOver, DrawnNow, InPlace, Holds, textures
<1>5. InPlace(copied, cur_texture, Depth - 1)'
  <2>1. Depth' = Depth
    BY DEF Depth
  <2> QED
    BY <1>1, <1>7, <1>8, <1>9, <2>1 DEF HandingOver, InPlace, Holds, textures
<1>6. (Waiting < Depth /\ rendered[cur_texture] = video_time)'
  BY <1>1, <1>2 DEF HandingOver, DrawnNow, textures, Depth
<1> QED
  BY <1>3, <1>4, <1>5, <1>6 DEF Flipping, DrawnNow

LEMMA FlipInStep == PipeInv /\ PipelineTypes' /\ NextTexture => InStep'
<1> SUFFICES ASSUME PipeInv, PipelineTypes', NextTexture, active PROVE Flipping(prev_texture)'
  BY DEF PipeInv, InStep, NextTexture
<1>1. /\ Flipping(cur_texture) /\ prev_texture' = cur_texture
      /\ UNCHANGED <<textures, vframe_info_buffer, video_time>>
  BY DEF PipeInv, InStep, NextTexture, PipelineTypes, prev_texture, Index, NUM_TEXTURES
<1> QED
  BY <1>1 DEF Flipping, DrawnNow, InPlace, Holds, Waiting, textures

LEMMA SleepInStep ==
  ASSUME NEW count \in Lags, PipeInv, PipelineTypes', video_sleep(count)
  PROVE  InStep'
<1> SUFFICES ASSUME active PROVE DrawnBefore(prev_texture)'
  BY DEF PipeInv, InStep, video_sleep
<1> USE PipelineAssumption
<1> DEFINE info == [ts |-> video_time, count |-> count]
<1>1. /\ Flipping(prev_texture) /\ prev_texture' = prev_texture /\ UNCHANGED textures
      /\ Depth \in {3, 4} /\ gpu_conversion <=> Depth = 4
  BY DEF PipeInv, InStep, video_sleep, prev_texture, Depth
<1>2. info \in InfoRecord
  BY DEF PipeInv, PipelineTypes, InfoRecord
<1>3. /\ Waiting' = Waiting + 1 /\ Waiting \in Nat
      /\ \A k \in 1 .. Waiting : vframe_info_buffer'[k] = vframe_info_buffer[k]
      /\ vframe_info_buffer'[Waiting + 1].ts = video_time
  BY <1>2, PushInfo DEF video_sleep, PipeInv, PipelineTypes, Waiting
<1>4. rendered[1 - prev_texture] # None => rendered[prev_texture] # None
  BY <1>1 DEF PipeInv, PipelineTypes, Flipping, DrawnNow, None
<1> QED
  BY <1>1, <1>3, <1>4 DEF Flipping, DrawnNow, DrawnBefore, InPlace, Holds, textures, Depth

LEMMA InStepStep == ASSUME ~ MapMayFail PROVE PipeInv /\ PipelineTypes' /\ [PipelineNext]_pipelineVars => InStep'
<1> SUFFICES ASSUME PipeInv, PipelineTypes', [PipelineNext]_pipelineVars PROVE InStep'
  OBVIOUS
<1>1. CASE Ended
  BY <1>1 DEF Ended, PipeInv, InStep
<1>2. CASE UnmapLast
  BY <1>2 DEF UnmapLast, PipeInv, InStep, Rendering, DrawnNow, InPlace, Holds, Waiting,
              textures, prev_texture
<1>3. CASE Iterate \/ Render \/ Stage \/ DownloadNothing \/ Download \/ HandOver \/ NextTexture
  BY <1>3, IterateInStep, RenderInStep, StageInStep, DownloadInStep, HandOverInStep, FlipInStep
<1>4. ASSUME NEW count \in Lags, video_sleep(count) PROVE InStep'
  BY <1>4, SleepInStep
<1>5. CASE start_raw_video \/ stop_raw_video \/ StopVideo \/ UNCHANGED pipelineVars
  BY <1>5, QuietStep DEF start_raw_video, stop_raw_video, StopVideo, pipelineVars, otherVars
<1> QED
  BY <1>1, <1>2, <1>3, <1>4, <1>5 DEF PipelineNext, GraphicsThread

LEMMA RunsStep ==
  PipeInv /\ PipelineTypes' /\ [PipelineNext]_pipelineVars => RunsApart' /\ OwnTimestamp' /\ StagingUnmapped'
<1> SUFFICES ASSUME PipeInv, PipelineTypes', [PipelineNext]_pipelineVars
             PROVE  RunsApart' /\ OwnTimestamp' /\ StagingUnmapped'
  OBVIOUS
<1> USE PipelineAssumption DEF PipeInv
<1>1. CASE Ended \/ Render \/ UnmapLast \/ Stage \/ DownloadNothing \/ Download \/ NextTexture
  BY <1>1 DEF Ended, Render, UnmapLast, Stage, DownloadNothing, Download, NextTexture,
              RunsApart, OwnTimestamp, StagingUnmapped
<1>2. CASE Iterate
  BY <1>2 DEF Iterate, clear_frame_data, RunsApart, OwnTimestamp, StagingUnmapped
<1>3. CASE HandOver
  <2>1. /\ Len(vframe_info_buffer) \in Nat
        /\ Len(vframe_info_buffer') = Len(vframe_info_buffer) - 1
        /\ \A k \in 1 .. Len(vframe_info_buffer) - 1 :
              vframe_info_buffer'[k] = vframe_info_buffer[k + 1]
        /\ Head(vframe_info_buffer) = vframe_info_buffer[1] /\ Len(vframe_info_buffer) > 0
    BY <1>3, PopInfo DEF HandOver, PipelineTypes
  <2>2. RunsApart'
    BY <1>3, <2>1 DEF HandOver, RunsApart
  <2>3. OwnTimestamp' /\ StagingUnmapped'
    BY <1>3, <2>1 DEF HandOver, OwnTimestamp, StagingUnmapped, InStep, HandingOver
  <2> QED
    BY <2>2, <2>3
<1>4. ASSUME NEW count \in Lags, video_sleep(count)
      PROVE  RunsApart' /\ OwnTimestamp' /\ StagingUnmapped'
  <2>1. [ts |-> video_time, count |-> count] \in InfoRecord
    BY DEF PipelineTypes, InfoRecord
  <2>2. OwnTimestamp' /\ StagingUnmapped'
    BY <1>4 DEF video_sleep, OwnTimestamp, StagingUnmapped
  <2>3. /\ video_time \in Nat /\ count \in Nat \ {0} /\ given.ts + given.count \in Int
        /\ \A k \in 1 .. Len(vframe_info_buffer) :
              vframe_info_buffer[k].ts + vframe_info_buffer[k].count \in Int
    BY InfoTypes, GivenTypes, SMTT(20) DEF PipelineTypes
  <2>4. CASE active
    <3>1. /\ Len(vframe_info_buffer') = Len(vframe_info_buffer) + 1
          /\ Len(vframe_info_buffer) \in Nat
          /\ \A k \in 1 .. Len(vframe_info_buffer) :
                vframe_info_buffer'[k] = vframe_info_buffer[k]
          /\ vframe_info_buffer'[Len(vframe_info_buffer) + 1]
               = [ts |-> video_time, count |-> count]
      BY <1>4, <2>1, <2>4, PushInfo DEF video_sleep, PipelineTypes
    <3> QED
      BY <1>4, <2>2, <2>3, <3>1, SMTT(20) DEF video_sleep, RunsApart
  <2>5. CASE ~ active
    BY <1>4, <2>2, <2>3, <2>5 DEF video_sleep, RunsApart
  <2> QED
    BY <2>4, <2>5
<1>5. CASE start_raw_video \/ stop_raw_video \/ StopVideo \/ UNCHANGED pipelineVars
  BY <1>5, QuietStep DEF start_raw_video, stop_raw_video, StopVideo, pipelineVars, otherVars
<1> QED
  BY <1>1, <1>2, <1>3, <1>4, <1>5 DEF PipelineNext, GraphicsThread

(* If surfaces can be mapped, pictures and timestamps stay in step through *)
(* every sequence of starts, stops and lags (obs-video.c:559 to 601): each *)
(* frame that is given to the ring has the timestamp of its drawing, and   *)
(* no surface is written while it is mapped.                               *)
THEOREM PipelineInStep == ASSUME ~ MapMayFail PROVE PipelineSpec => []PipeInv
<1>1. PipeInv /\ [PipelineNext]_pipelineVars => PipeInv'
  <2> SUFFICES ASSUME PipeInv, [PipelineNext]_pipelineVars PROVE PipeInv'
    OBVIOUS
  <2>1. PipelineTypes'
    BY TypeStep DEF PipeInv
  <2> QED
    BY <2>1, InStepStep, RunsStep DEF PipeInv
<1> QED
  BY InitPipe, <1>1, PTL DEF PipelineSpec

(* The ring gets disjoint, ascending runs of timestamps: what VideoIO      *)
(* assumes of the graphics thread holds of it.                             *)
THEOREM RingIsFedInOrder == ASSUME ~ MapMayFail PROVE PipelineSpec => RunsAscend
<1>1. PipeInv /\ [PipelineNext]_pipelineVars => [given' # given => given'.ts >= given.ts + given.count]_given
  <2> SUFFICES ASSUME PipeInv, PipelineNext, given' # given
               PROVE  given'.ts >= given.ts + given.count
    BY DEF pipelineVars
  <2>1. HandOver
    BY DEF PipelineNext, GraphicsThread, Ended, Iterate, Render, UnmapLast, Stage, DownloadNothing,
           Download, NextTexture, video_sleep, start_raw_video, stop_raw_video, StopVideo
  <2>2. Len(vframe_info_buffer) > 0 /\ Head(vframe_info_buffer) = vframe_info_buffer[1]
    BY <2>1, PopInfo DEF HandOver, PipeInv, PipelineTypes
  <2>3. given'.ts = vframe_info_buffer[1].ts /\ 1 \in 1 .. Len(vframe_info_buffer)
    BY <2>1, <2>2, InfoTypes DEF HandOver, PipeInv
  <2>4. given.ts + given.count <= vframe_info_buffer[1].ts
    BY <2>3 DEF PipeInv, RunsApart
  <2> QED
    BY <2>3, <2>4
<1> QED
  BY PipelineInStep, <1>1, PTL DEF PipelineSpec, RunsAscend

-----------------------------------------------------------------------------
(* The ring.                                                               *)

USE CacheSizeAssumption, InputAssumption, CountAssumption

(* da_erase keeps a list of inputs a list of inputs.                       *)
LEMMA RemoveAtProperties ==
  ASSUME NEW S, NEW s \in Seq(S), NEW k \in DOMAIN s
  PROVE  /\ RemoveAt(s, k) \in Seq(S)
         /\ Len(RemoveAt(s, k)) = Len(s) - 1
         /\ \A j \in 1 .. Len(s) - 1 : RemoveAt(s, k)[j] = IF j < k THEN s[j] ELSE s[j + 1]
<1> DEFINE a == SubSeq(s, 1, k - 1)
           b == SubSeq(s, k + 1, Len(s))
<1>1. k \in 1 .. Len(s) /\ Len(s) \in Nat /\ \A i \in 1 .. Len(s) : s[i] \in S
  BY LenProperties, ElementOfSeq
<1>2. /\ a \in Seq(S) /\ Len(a) = k - 1
      /\ \A i \in 1 .. k - 1 : a[i] = s[i]
  <2>1. \A i \in 1 .. k - 1 : s[i] \in S
    BY <1>1
  <2>2. /\ a \in Seq(S)
        /\ Len(a) = IF 1 <= k - 1 THEN (k - 1) - 1 + 1 ELSE 0
        /\ \A i \in 1 .. (k - 1) - 1 + 1 : a[i] = s[1 + i - 1]
    BY <1>1, <2>1, SubSeqProperties, 1 \in Int, k - 1 \in Int
  <2> QED BY <1>1, <2>2
<1>3. /\ b \in Seq(S) /\ Len(b) = Len(s) - k
      /\ \A i \in 1 .. Len(s) - k : b[i] = s[k + i]
  <2>1. \A i \in k + 1 .. Len(s) : s[i] \in S
    BY <1>1
  <2>2. /\ b \in Seq(S)
        /\ Len(b) = IF k + 1 <= Len(s) THEN Len(s) - (k + 1) + 1 ELSE 0
        /\ \A i \in 1 .. Len(s) - (k + 1) + 1 : b[i] = s[(k + 1) + i - 1]
    BY <1>1, <2>1, SubSeqProperties, k + 1 \in Int, Len(s) \in Int
  <2> QED BY <1>1, <2>2
<1>4. /\ a \o b \in Seq(S)
      /\ Len(a \o b) = Len(a) + Len(b)
      /\ \A i \in 1 .. Len(a) + Len(b) : (a \o b)[i] = IF i <= Len(a) THEN a[i] ELSE b[i - Len(a)]
  BY <1>2, <1>3, ConcatProperties, SMTT(20)
<1>5. RemoveAt(s, k) = a \o b
  BY DEF RemoveAt
<1> HIDE DEF a, b
<1>6. Len(a \o b) = Len(s) - 1
  BY <1>1, <1>2, <1>3, <1>4
<1>7. ASSUME NEW j \in 1 .. Len(s) - 1
      PROVE  (a \o b)[j] = IF j < k THEN s[j] ELSE s[j + 1]
  <2>1. CASE j < k
    <3>1. j \in 1 .. k - 1 /\ j <= Len(a) /\ j \in 1 .. Len(a) + Len(b)
      BY <2>1, <1>1, <1>2, <1>3
    <3>2. (a \o b)[j] = a[j]
      BY <3>1, <1>4
    <3> QED BY <2>1, <3>1, <3>2, <1>2
  <2>2. CASE ~ (j < k)
    <3>1. j - (k - 1) \in 1 .. Len(s) - k /\ k + (j - (k - 1)) = j + 1 /\ ~ (j <= Len(a))
      BY <2>2, <1>1, <1>2
    <3>2. j \in 1 .. Len(a) + Len(b) /\ j - Len(a) = j - (k - 1)
      BY <1>1, <1>2, <1>3
    <3>3. (a \o b)[j] = b[j - (k - 1)]
      BY <3>1, <3>2, <1>4
    <3> QED BY <2>2, <3>1, <3>3, <1>3
  <2> QED BY <2>1, <2>2
<1> QED BY <1>4, <1>5, <1>6, <1>7

-----------------------------------------------------------------------------
USE DEF Slots

(* The positions counted from first_added are distinct slots of the ring,  *)
(* and moving first_added on by one shifts them.                           *)
LEMMA SlotProperties ==
  ASSUME first_added \in Slots
  PROVE  /\ \A k \in 0 .. CacheSize - 1 : Slot(k) \in Slots
         /\ \A j, k \in 0 .. CacheSize - 1 : Slot(j) = Slot(k) => j = k
         /\ \A k \in 0 .. CacheSize - 2 : NextSlot(Slot(k)) = Slot(k + 1)
         /\ Slot(0) = first_added
         /\ NextSlot(first_added) \in Slots
BY DEF Slot, NextSlot

(* video_output_open starts with an empty ring that satisfies the invariant. *)
LEMMA RingInit == Init => RingInv
<1> SUFFICES ASSUME Init PROVE RingInv
  OBVIOUS
<1>1. TypeOK
  <2>1. inputs \in Seq(Inputs)
    BY EmptySeq DEF Init
  <2>2. cache \in [Slots -> SlotRecord]
    BY DEF Init, SlotRecord
  <2>3. available_frames \in 0 .. CacheSize /\ 0 \in Slots /\ -1 \in Int
    BY DEF Init, SlotRecord
  <2>4. RingTypeOK
    BY <2>2, <2>3 DEF Init, RingTypeOK
  <2>5. ThreadTypeOK
    BY <2>1 DEF Init, ThreadTypeOK
  <2> QED BY <2>4, <2>5 DEF TypeOK
<1>2. Layout
  BY DEF Init, Layout, Used, Filling
<1>3. Ordered
  BY DEF Init, Ordered, TimestampOrder, SkippedAreRepeats, InUse, Used, Filling
<1>4. Reader
  BY DEF Init, Reader, Reading
<1>5. StopToken /\ SemaphoreCountsFrames
  BY DEF Init, StopToken, SemaphoreCountsFrames, Used
<1> QED BY <1>1, <1>2, <1>3, <1>4, <1>5 DEF RingInv

(* Steps that leave the ring, the graphics thread and the output alone.    *)
LEMMA RingQuiet ==
  ASSUME RingInv, UNCHANGED <<dataVars, gfxVars, outTs>>
  PROVE  Layout' /\ Ordered'
BY DEF RingInv, Layout, Ordered, TimestampOrder, SkippedAreRepeats, InUse, Used, Filling, Slot,
       dataVars, gfxVars

(* The part of the invariant that the steps which write a slot establish.  *)
RingPart == RingTypeOK /\ Layout /\ Ordered

(* The skip count of the k-th pending slot.                                *)
Skipped(k) == cache[Slot(k)].skipped

(* What the ring part of the invariant says about the types of the ring.  *)
LEMMA RingTypes ==
  ASSUME RingPart
  PROVE  /\ Used \in 0 .. CacheSize /\ Filling \in 0 .. 1 /\ Used + Filling <= CacheSize
         /\ available_frames \in 0 .. CacheSize
         /\ first_added \in Slots /\ last_added \in Slots
         /\ tick \in Nat /\ outTs \in Int /\ outTs < tick
         /\ \A k \in 0 .. CacheSize - 1 : Ts(k) \in Nat /\ Count(k) \in Nat /\ Skipped(k) \in Nat
<1>1. /\ first_added \in Slots /\ last_added \in Slots
      /\ tick \in Nat /\ outTs \in Int /\ cache \in [Slots -> SlotRecord]
      /\ available_frames \in 0 .. CacheSize
  BY DEF RingPart, RingTypeOK
<1>2. Used \in 0 .. CacheSize /\ Filling \in 0 .. 1
  BY <1>1 DEF Used, Filling
<1>3. Used + Filling <= CacheSize /\ outTs < tick
  BY DEF RingPart, Layout, Ordered
<1>4. ASSUME NEW k \in 0 .. CacheSize - 1
      PROVE  Ts(k) \in Nat /\ Count(k) \in Nat /\ Skipped(k) \in Nat
  <2>1. cache[Slot(k)] \in SlotRecord
    BY <1>1, SlotProperties
  <2> QED BY <2>1 DEF SlotRecord, Ts, Count, Skipped
<1> QED BY <1>1, <1>2, <1>3, <1>4

(* The slots themselves.                                                   *)
LEMMA CacheTypes ==
  ASSUME RingPart
  PROVE  /\ cache \in [Slots -> SlotRecord]
         /\ \A k \in 0 .. CacheSize - 1 : Slot(k) \in Slots /\ cache[Slot(k)] \in SlotRecord
         /\ \A j, k \in 0 .. CacheSize - 1 : Slot(j) = Slot(k) => j = k
BY SlotProperties DEF RingPart, RingTypeOK

(* The order and the skip counts of the pending slots, slot by slot.       *)
LEMMA PendingSlots ==
  ASSUME RingPart, NEW k \in 0 .. Used + Filling - 1
  PROVE  /\ Skipped(k) < Count(k) /\ Count(k) > 0 /\ outTs < Ts(k) /\ Ts(k) + Count(k) <= tick
         /\ \A j \in 0 .. k - 1 : Ts(j) + Count(j) <= Ts(k)
BY DEF RingPart, Ordered, TimestampOrder, SkippedAreRepeats, InUse, Ts, Count, Skipped

(* Locking a frame puts one more slot, the next one, into use.             *)
LEMMA InUseNext ==
  ASSUME NEW W \in Nat, Used' \in Nat, Filling' \in Nat, Used' + Filling' = W
  PROVE  InUse' = 0 .. W - 1
<1> PICK U \in Nat, F \in Nat : Used' = U /\ Filling' = F
  OBVIOUS
<1>1. U + F - 1 = W - 1
  OBVIOUS
<1> QED BY <1>1 DEF InUse

(* How to conclude Ordered in the next state.                              *)
LEMMA OrderedNext ==
  ASSUME NEW W \in Nat, Used' \in Nat, Filling' \in Nat, Used' + Filling' = W, outTs' < tick',
         \A k \in 0 .. W - 1 :
            /\ Skipped(k)' < Count(k)' /\ Count(k)' > 0
            /\ outTs' < Ts(k)' /\ Ts(k)' + Count(k)' <= tick'
            /\ \A j \in 0 .. k - 1 : Ts(j)' + Count(j)' <= Ts(k)'
  PROVE  Ordered'
<1>1. InUse' = 0 .. W - 1
  BY InUseNext
<1>2. TimestampOrder'
  BY <1>1 DEF TimestampOrder, Ts, Count
<1>3. SkippedAreRepeats'
  BY <1>1 DEF SkippedAreRepeats, Count, Skipped
<1> QED BY <1>2, <1>3 DEF Ordered

(* A step that leaves first_added alone and writes v to the k-th slot.     *)
LEMMA WriteSlot ==
  ASSUME RingPart, first_added' = first_added,
         NEW w \in 0 .. CacheSize - 1, NEW v \in SlotRecord,
         cache' = [cache EXCEPT ![Slot(w)] = v]
  PROVE  /\ cache' \in [Slots -> SlotRecord]
         /\ Ts(w)' = v.ts /\ Count(w)' = v.count /\ Skipped(w)' = v.skipped
         /\ \A k \in 0 .. CacheSize - 1 :
              /\ Slot(k)' = Slot(k)
              /\ k # w => Ts(k)' = Ts(k) /\ Count(k)' = Count(k) /\ Skipped(k)' = Skipped(k)
<1>1. \A k \in 0 .. CacheSize - 1 : Slot(k)' = Slot(k)
  BY DEF Slot
<1>2. cache \in [Slots -> SlotRecord] /\ Slot(w) \in Slots
  BY CacheTypes
<1>3. ASSUME NEW k \in 0 .. CacheSize - 1, k # w PROVE cache'[Slot(k)] = cache[Slot(k)]
  BY <1>2, <1>3, CacheTypes
<1>4. cache'[Slot(w)] = v /\ cache' \in [Slots -> SlotRecord]
  BY <1>2
<1>5. Ts(w)' = v.ts /\ Count(w)' = v.count /\ Skipped(w)' = v.skipped
  BY <1>1, <1>4 DEF Ts, Count, Skipped
<1>6. ASSUME NEW k \in 0 .. CacheSize - 1, k # w
      PROVE  Ts(k)' = Ts(k) /\ Count(k)' = Count(k) /\ Skipped(k)' = Skipped(k)
  BY <1>1, <1>3, <1>6 DEF Ts, Count, Skipped
<1> QED BY <1>1, <1>4, <1>5, <1>6

(* What video_output_lock_frame does to a ring with a free slot: the slot  *)
(* after the last one in use becomes the last.                             *)
LEMMA LockFrameSlots ==
  ASSUME RingPart, NEW c \in Counts, LockFrame(c), NEW w \in 0 .. CacheSize - 1, w = Used
  PROVE  /\ last_added' = Slot(w)
         /\ cache' \in [Slots -> SlotRecord]
         /\ Ts(w)' = tick /\ Count(w)' = c /\ Skipped(w)' = 0
         /\ \A k \in 0 .. CacheSize - 1 :
              /\ Slot(k)' = Slot(k)
              /\ k # w => Ts(k)' = Ts(k) /\ Count(k)' = Count(k) /\ Skipped(k)' = Skipped(k)
<1> DEFINE new == [ts |-> tick, count |-> c, skipped |-> 0]
<1>1. /\ Used' = Used /\ Filling = 0 /\ Filling' = 1
      /\ tick' = tick + c /\ pc_gfx' = "filling" /\ fill' = last_added'
      /\ UNCHANGED <<available_frames, first_added, outTs, cur, sem>>
  BY DEF LockFrame, Used, Filling, roundVars
<1>2. c \in Nat /\ c > 0 /\ (available_frames # CacheSize <=> w # 0)
  <2>1. available_frames \in 0 .. CacheSize /\ w = CacheSize - available_frames
    BY RingTypes DEF Used
  <2> QED BY <2>1
<1>3. last_added' = Slot(w)
  <2>1. CASE w = 0
    <3>1. last_added = first_added
      BY <2>1, <1>1 DEF RingPart, Layout
    <3> QED BY <2>1, <3>1, <1>2, RingTypes, SlotProperties DEF LockFrame
  <2>2. CASE w # 0
    <3>1. last_added = Slot(w - 1)
      <4>1. Used + Filling # 0 /\ Used + Filling - 1 = w - 1
        BY <2>2, <1>1
      <4> QED BY <4>1 DEF RingPart, Layout
    <3>2. w - 1 \in 0 .. CacheSize - 2 /\ (w - 1) + 1 = w
      BY <2>2
    <3> QED BY <2>2, <3>1, <3>2, <1>2, RingTypes, SlotProperties DEF LockFrame
  <2> QED BY <2>1, <2>2
<1>4. new \in SlotRecord /\ cache' = [cache EXCEPT ![Slot(w)] = new]
  <2>1. new \in SlotRecord
    BY <1>2, RingTypes DEF SlotRecord
  <2> QED BY <2>1, <1>3 DEF LockFrame
<1>5. new.ts = tick /\ new.count = c /\ new.skipped = 0
  OBVIOUS
<1> HIDE DEF new
<1>6. /\ cache' \in [Slots -> SlotRecord]
      /\ Ts(w)' = tick /\ Count(w)' = c /\ Skipped(w)' = 0
      /\ \A k \in 0 .. CacheSize - 1 :
           /\ Slot(k)' = Slot(k)
           /\ k # w => Ts(k)' = Ts(k) /\ Count(k)' = Count(k) /\ Skipped(k)' = Skipped(k)
  BY <1>1, <1>4, <1>5, WriteSlot
<1> QED BY <1>3, <1>6

(* video_output_lock_frame with a free slot keeps the ring in order.       *)
LEMMA LockFrameRing ==
  ASSUME RingPart, NEW c \in Counts, LockFrame(c)
  PROVE  RingPart'
<1>1. /\ Used' = Used /\ Filling = 0 /\ Filling' = 1
      /\ tick' = tick + c /\ pc_gfx' = "filling" /\ fill' = last_added'
      /\ UNCHANGED <<available_frames, first_added, outTs, cur, sem>>
  BY DEF LockFrame, Used, Filling, roundVars
<1>2. c \in Nat /\ c > 0 /\ Used \in 0 .. CacheSize - 1 /\ (available_frames # CacheSize <=> Used # 0)
  <2>1. available_frames # 0
    BY DEF LockFrame
  <2>2. Used # CacheSize
    BY <2>1, RingTypes DEF Used
  <2>3. available_frames # CacheSize <=> Used # 0
    BY RingTypes DEF Used
  <2> QED BY <2>2, <2>3, RingTypes
<1> PICK w \in 0 .. CacheSize - 1 : w = Used
  BY <1>2
<1>3. last_added' = Slot(w) /\ (\A k \in 0 .. CacheSize - 1 : Slot(k)' = Slot(k))
  BY LockFrameSlots
<1>4. /\ cache' \in [Slots -> SlotRecord]
      /\ Ts(w)' = tick /\ Count(w)' = c /\ Skipped(w)' = 0
      /\ \A k \in 0 .. CacheSize - 1 :
           k # w => Ts(k)' = Ts(k) /\ Count(k)' = Count(k) /\ Skipped(k)' = Skipped(k)
  BY LockFrameSlots
<1>5. RingTypeOK'
  <2>1. last_added' \in Slots /\ tick' \in Nat
    BY <1>1, <1>2, <1>3, RingTypes, SlotProperties
  <2> QED BY <2>1, <1>1, <1>4 DEF RingPart, RingTypeOK
<1>6. Layout'
  <2>1. Used' + Filling' # 0 /\ Used' + Filling' <= CacheSize /\ Used' + Filling' - 1 = w
    BY <1>1
  <2> QED BY <1>1, <1>3, <2>1 DEF Layout
<1>7. Ordered'
  <2>1. ASSUME NEW k \in 0 .. (w + 1) - 1
        PROVE  /\ Skipped(k)' < Count(k)' /\ Count(k)' > 0
               /\ outTs < Ts(k)' /\ Ts(k)' + Count(k)' <= tick + c
               /\ \A j \in 0 .. k - 1 : Ts(j)' + Count(j)' <= Ts(k)'
    <3>1. \A j \in 0 .. k - 1 : j \in 0 .. CacheSize - 1 /\ j # w /\ j \in 0 .. Used + Filling - 1
      BY <1>1
    <3>2. \A j \in 0 .. k - 1 : Ts(j)' = Ts(j) /\ Count(j)' = Count(j) /\ Ts(j) + Count(j) <= tick
      BY <3>1, <1>4, PendingSlots
    <3>3. CASE k = w
      <4>1. 0 < c /\ outTs < tick /\ tick + c <= tick + c
        BY <1>2, RingTypes
      <4> QED BY <3>2, <3>3, <4>1, <1>4
    <3>4. CASE k # w
      <4>1. k \in 0 .. Used + Filling - 1 /\ k \in 0 .. CacheSize - 1
        BY <3>4, <1>1
      <4>2. Ts(k)' = Ts(k) /\ Count(k)' = Count(k) /\ Skipped(k)' = Skipped(k)
        BY <3>4, <4>1, <1>4
      <4>3. /\ Skipped(k) < Count(k) /\ Count(k) > 0 /\ outTs < Ts(k) /\ Ts(k) + Count(k) <= tick
            /\ \A j \in 0 .. k - 1 : Ts(j) + Count(j) <= Ts(k)
        BY <4>1, PendingSlots
      <4>4. Ts(k) + Count(k) <= tick + c
        BY <4>1, <4>3, <1>2, RingTypes
      <4> QED BY <3>2, <4>2, <4>3, <4>4
    <3> QED BY <3>3, <3>4
  <2>2. w + 1 \in Nat /\ Used' + Filling' = w + 1 /\ outTs' < tick'
    BY <1>1, <1>2, RingTypes
  <2> QED BY <1>1, <2>1, <2>2, OrderedNext
<1> QED BY <1>5, <1>6, <1>7 DEF RingPart

(* What it does to a full ring: the slot added last counts for more.       *)
LEMMA LockFrameFullSlots ==
  ASSUME RingPart, NEW c \in Counts, LockFrameFull(c), NEW w, w = CacheSize - 1
  PROVE  /\ last_added = Slot(w)
         /\ cache' \in [Slots -> SlotRecord]
         /\ Ts(w)' = Ts(w) /\ Count(w)' = Count(w) + c /\ Skipped(w)' = Skipped(w) + c
         /\ \A k \in 0 .. CacheSize - 1 :
              /\ Slot(k)' = Slot(k)
              /\ k # w => Ts(k)' = Ts(k) /\ Count(k)' = Count(k) /\ Skipped(k)' = Skipped(k)
<1> DEFINE old == cache[Slot(w)]
           new == [ts |-> old.ts, count |-> old.count + c, skipped |-> old.skipped + c]
<1>1. /\ Used = CacheSize /\ Used' = CacheSize /\ Filling = 0 /\ Filling' = 0
      /\ tick' = tick + c /\ pc_gfx' # "filling"
      /\ UNCHANGED <<available_frames, first_added, last_added, outTs, fill, cur, sem>>
  BY DEF LockFrameFull, Used, Filling, roundVars
<1>2. last_added = Slot(w) /\ w \in 0 .. CacheSize - 1 /\ c \in Nat /\ c > 0
  <2>1. Used + Filling # 0 /\ Used + Filling - 1 = w
    BY <1>1
  <2> QED BY <2>1 DEF Layout, RingPart
<1>3. old \in SlotRecord
  BY <1>2, CacheTypes
<1>4. old.ts = Ts(w) /\ old.count = Count(w) /\ old.skipped = Skipped(w)
  BY DEF Ts, Count, Skipped
<1>5. new \in SlotRecord /\ new.ts = Ts(w) /\ new.count = Count(w) + c /\ new.skipped = Skipped(w) + c
  <2>1. old.ts \in Nat /\ old.count + c \in Nat /\ old.skipped + c \in Nat
    BY <1>2, <1>4, RingTypes
  <2> QED BY <2>1, <1>4 DEF SlotRecord
<1>6. cache' = [cache EXCEPT ![Slot(w)] = new]
  <2>1. Slot(w) \in Slots /\ cache \in [Slots -> SlotRecord]
    BY <1>2, CacheTypes
  <2> QED BY <1>2, <2>1 DEF LockFrameFull
<1> HIDE DEF new, old
<1>7. /\ cache' \in [Slots -> SlotRecord]
      /\ Ts(w)' = Ts(w) /\ Count(w)' = Count(w) + c /\ Skipped(w)' = Skipped(w) + c
      /\ \A k \in 0 .. CacheSize - 1 :
           /\ Slot(k)' = Slot(k)
           /\ k # w => Ts(k)' = Ts(k) /\ Count(k)' = Count(k) /\ Skipped(k)' = Skipped(k)
  BY <1>1, <1>2, <1>5, <1>6, WriteSlot
<1> QED BY <1>2, <1>7

(* video_output_lock_frame on a full ring keeps it in order.               *)
LEMMA LockFrameFullRing ==
  ASSUME RingPart, NEW c \in Counts, LockFrameFull(c)
  PROVE  RingPart'
<1> PICK w \in 0 .. CacheSize - 1 : w = CacheSize - 1
  OBVIOUS
<1>1. /\ Used = CacheSize /\ Used' = CacheSize /\ Filling = 0 /\ Filling' = 0
      /\ tick' = tick + c /\ pc_gfx' # "filling"
      /\ UNCHANGED <<available_frames, first_added, last_added, outTs, fill, cur, sem>>
  BY DEF LockFrameFull, Used, Filling, roundVars
<1>2. last_added = Slot(w) /\ w \in 0 .. CacheSize - 1 /\ c \in Nat /\ c > 0
  <2>1. Used + Filling # 0 /\ Used + Filling - 1 = w
    BY <1>1
  <2> QED BY <2>1 DEF Layout, RingPart
<1>7. /\ cache' \in [Slots -> SlotRecord]
      /\ Ts(w)' = Ts(w) /\ Count(w)' = Count(w) + c /\ Skipped(w)' = Skipped(w) + c
      /\ \A k \in 0 .. CacheSize - 1 :
           /\ Slot(k)' = Slot(k)
           /\ k # w => Ts(k)' = Ts(k) /\ Count(k)' = Count(k) /\ Skipped(k)' = Skipped(k)
  BY LockFrameFullSlots
<1>8. RingTypeOK'
  <2>1. tick' \in Nat
    BY <1>1, <1>2, RingTypes
  <2> QED BY <2>1, <1>1, <1>7 DEF RingPart, RingTypeOK
<1>9. Layout'
  <2>1. Used' + Filling' # 0 /\ Used' + Filling' <= CacheSize /\ Used' + Filling' - 1 = w
    BY <1>1
  <2> QED BY <1>1, <1>2, <1>7, <2>1 DEF Layout
<1>10. Ordered'
  <2>1. ASSUME NEW k \in 0 .. CacheSize - 1
        PROVE  /\ Skipped(k)' < Count(k)' /\ Count(k)' > 0
               /\ outTs < Ts(k)' /\ Ts(k)' + Count(k)' <= tick + c
               /\ \A j \in 0 .. k - 1 : Ts(j)' + Count(j)' <= Ts(k)'
    <3>1. /\ k \in 0 .. Used + Filling - 1
          /\ \A j \in 0 .. k - 1 : j \in 0 .. CacheSize - 1 /\ j # w
      BY <1>1
    <3>2. /\ Skipped(k) < Count(k) /\ Count(k) > 0 /\ outTs < Ts(k) /\ Ts(k) + Count(k) <= tick
          /\ \A j \in 0 .. k - 1 : Ts(j) + Count(j) <= Ts(k)
      BY <3>1, PendingSlots
    <3>3. \A j \in 0 .. k - 1 : Ts(j)' = Ts(j) /\ Count(j)' = Count(j)
      BY <3>1, <1>7
    <3>4. Ts(k)' = Ts(k) /\ Skipped(k)' < Count(k)' /\ Count(k)' > 0 /\ Ts(k)' + Count(k)' <= tick + c
      <4>1. CASE k = w
        <5>1. Skipped(w) + c < Count(w) + c /\ Count(w) + c > 0 /\ Ts(w) + (Count(w) + c) <= tick + c
          BY <4>1, <3>2, <1>2, RingTypes
        <5> QED BY <4>1, <5>1, <1>7
      <4>2. CASE k # w
        <5>1. Ts(k) + Count(k) <= tick + c
          BY <3>2, <1>2, RingTypes
        <5> QED BY <4>2, <5>1, <3>2, <1>7
      <4> QED BY <4>1, <4>2
    <3> QED BY <3>2, <3>3, <3>4
  <2>2. CacheSize \in Nat /\ Used' + Filling' = CacheSize /\ outTs' < tick'
    BY <1>1, <1>2, RingTypes
  <2> QED BY <1>1, <2>1, <2>2, OrderedNext
<1> QED BY <1>8, <1>9, <1>10 DEF RingPart

(* What video_output_cur_frame does to the ring when the frame is to be    *)
(* repeated: the first slot stands for one timestamp less.                 *)
LEMMA VidRepeatSlots ==
  ASSUME RingPart, VidRepeat, cur = first_added, Used >= 1
  PROVE  /\ outTs' = Ts(0) /\ Count(0) # 1
         /\ cache' \in [Slots -> SlotRecord]
         /\ Ts(0)' = Ts(0) + 1 /\ Count(0)' = Count(0) - 1 /\ Skipped(0)' < Count(0) - 1
         /\ \A k \in 0 .. CacheSize - 1 :
              /\ Slot(k)' = Slot(k)
              /\ k # 0 => Ts(k)' = Ts(k) /\ Count(k)' = Count(k) /\ Skipped(k)' = Skipped(k)
<1> DEFINE old == cache[first_added]
           skips == IF old.skipped > 0 THEN old.skipped - 1 ELSE 0
           new == [ts |-> old.ts + 1, count |-> old.count - 1, skipped |-> skips]
<1>1. /\ Used' = Used /\ Filling' = Filling
      /\ UNCHANGED <<available_frames, first_added, last_added, fill, cur, sem, tick, pc_gfx>>
      /\ outTs' = old.ts /\ old.count # 1 /\ cache' = [cache EXCEPT ![first_added] = new]
  BY DEF VidRepeat, VidRepeatWith, Used, Filling, roundVars, gfxVars
<1>2. Slot(0) = first_added /\ 0 \in 0 .. CacheSize - 1 /\ 0 \in 0 .. Used + Filling - 1
  BY RingTypes, SlotProperties
<1>3. old.ts = Ts(0) /\ old.count = Count(0) /\ old.skipped = Skipped(0)
  BY <1>2 DEF Ts, Count, Skipped
<1>4. /\ Ts(0) \in Nat /\ Count(0) \in Nat /\ Skipped(0) \in Nat /\ Count(0) # 1
      /\ Skipped(0) < Count(0) /\ Count(0) > 0 /\ outTs < Ts(0) /\ Ts(0) + Count(0) <= tick
  BY <1>1, <1>2, <1>3, RingTypes, PendingSlots
<1>5. old.ts + 1 \in Nat /\ old.count - 1 \in Nat /\ skips \in Nat /\ skips < old.count - 1
  BY <1>3, <1>4
<1>6. /\ new \in SlotRecord /\ new.ts = Ts(0) + 1 /\ new.count = Count(0) - 1
      /\ new.skipped < Count(0) - 1
  BY <1>3, <1>5 DEF SlotRecord
<1>7. cache' = [cache EXCEPT ![Slot(0)] = new] /\ outTs' = Ts(0)
  BY <1>1, <1>2, <1>3
<1> HIDE DEF new, old, skips
<1>8. /\ cache' \in [Slots -> SlotRecord]
      /\ Ts(0)' = Ts(0) + 1 /\ Count(0)' = Count(0) - 1 /\ Skipped(0)' < Count(0) - 1
      /\ \A k \in 0 .. CacheSize - 1 :
           /\ Slot(k)' = Slot(k)
           /\ k # 0 => Ts(k)' = Ts(k) /\ Count(k)' = Count(k) /\ Skipped(k)' = Skipped(k)
  BY <1>1, <1>2, <1>6, <1>7, WriteSlot
<1> QED BY <1>4, <1>7, <1>8

(* A repeated frame keeps the ring in order.                               *)
LEMMA VidRepeatRing ==
  ASSUME RingPart, VidRepeat, cur = first_added, Used >= 1
  PROVE  RingPart'
<1>1. /\ Used' = Used /\ Filling' = Filling
      /\ UNCHANGED <<available_frames, first_added, last_added, fill, cur, sem, tick, pc_gfx>>
  BY DEF VidRepeat, VidRepeatWith, Used, Filling, roundVars, gfxVars
<1>2. Slot(0) = first_added /\ 0 \in 0 .. CacheSize - 1 /\ 0 \in 0 .. Used + Filling - 1
  BY RingTypes, SlotProperties
<1>3. /\ cache' \in [Slots -> SlotRecord]
      /\ Ts(0)' = Ts(0) + 1 /\ Count(0)' = Count(0) - 1 /\ Skipped(0)' < Count(0) - 1
      /\ \A k \in 0 .. CacheSize - 1 :
           /\ Slot(k)' = Slot(k)
           /\ k # 0 => Ts(k)' = Ts(k) /\ Count(k)' = Count(k) /\ Skipped(k)' = Skipped(k)
  BY VidRepeatSlots
<1>4. /\ outTs' = Ts(0) /\ Ts(0) \in Nat /\ Count(0) \in Nat /\ Count(0) # 1
      /\ Count(0) > 0 /\ Ts(0) + Count(0) <= tick
  <2>1. outTs' = Ts(0) /\ Count(0) # 1
    BY VidRepeatSlots
  <2> QED BY <2>1, <1>2, RingTypes, PendingSlots
<1>5. RingTypeOK'
  <2>1. outTs' \in Int
    BY <1>4
  <2> QED BY <2>1, <1>1, <1>3 DEF RingPart, RingTypeOK
<1>6. Layout'
  <2>1. Used + Filling # 0 /\ Used + Filling - 1 \in 0 .. CacheSize - 1
    BY <1>2, RingTypes
  <2>2. Slot(Used + Filling - 1)' = Slot(Used + Filling - 1)
    BY <1>1 DEF Slot
  <2> QED BY <1>1, <2>1, <2>2 DEF Layout, RingPart
<1>7. Ordered'
  <2> PICK W \in 1 .. CacheSize : W = Used + Filling
    BY <1>2, RingTypes
  <2>1. ASSUME NEW k \in 0 .. W - 1
        PROVE  /\ Skipped(k)' < Count(k)' /\ Count(k)' > 0
               /\ outTs' < Ts(k)' /\ Ts(k)' + Count(k)' <= tick
               /\ \A j \in 0 .. k - 1 : Ts(j)' + Count(j)' <= Ts(k)'
    <3>1. CASE k = 0
      <4>1. \A j \in 0 .. k - 1 : FALSE
        BY <3>1
      <4>2. (Ts(0) + 1) + (Count(0) - 1) <= tick /\ Ts(0) < Ts(0) + 1 /\ Count(0) - 1 > 0
        BY <1>4, RingTypes
      <4> QED BY <3>1, <4>1, <4>2, <1>3, <1>4
    <3>2. CASE k # 0
      <4>1. /\ k \in 0 .. CacheSize - 1 /\ 0 \in 0 .. k - 1
            /\ \A j \in 0 .. k - 1 : j \in 0 .. CacheSize - 1
        BY <3>2
      <4>2. /\ Skipped(k) < Count(k) /\ Count(k) > 0 /\ Ts(k) + Count(k) <= tick
            /\ \A j \in 0 .. k - 1 : Ts(j) + Count(j) <= Ts(k)
        BY PendingSlots, RingTypes
      <4>3. ASSUME NEW j \in 0 .. k - 1 PROVE Ts(j)' + Count(j)' <= Ts(k)
        BY <4>1, <4>2, <1>4, <1>3
      <4>4. Ts(0) < Ts(k)
        BY <4>1, <4>2, <1>4, RingTypes
      <4> QED BY <3>2, <4>1, <4>2, <4>3, <4>4, <1>3, <1>4
    <3> QED BY <3>1, <3>2
  <2>2. Used' \in Nat /\ Filling' \in Nat /\ W \in Nat /\ Used' + Filling' = W /\ outTs' < tick'
    BY <1>1, <1>4, RingTypes
  <2> QED BY <1>1, <2>1, <2>2, OrderedNext
<1> QED BY <1>5, <1>6, <1>7 DEF RingPart

(* What video_output_cur_frame does to the ring when a frame is complete:  *)
(* the positions of the other slots move down by one.                      *)
LEMMA VidCompleteSlots ==
  ASSUME RingPart, VidComplete, cur = first_added, Used >= 1
  PROVE  /\ outTs' = Ts(0) /\ Count(0) = 1
         /\ first_added' \in Slots /\ cache' \in [Slots -> SlotRecord]
         /\ \A k \in 0 .. CacheSize - 2 :
              /\ Slot(k)' = Slot(k + 1)
              /\ Ts(k)' = Ts(k + 1) /\ Count(k)' = Count(k + 1) /\ Skipped(k)' = Skipped(k + 1)
<1> DEFINE old == cache[first_added]
           new == [ts |-> old.ts + 1, count |-> 0, skipped |-> old.skipped]
<1>1. /\ first_added' = NextSlot(first_added) /\ outTs' = old.ts /\ old.count = 1
      /\ cache' = [cache EXCEPT ![first_added] = new]
  <2>1. first_added \in Slots /\ cache \in [Slots -> SlotRecord]
    BY RingTypes, CacheTypes
  <2> QED BY <2>1 DEF VidComplete
<1>2. Slot(0) = first_added /\ first_added' \in Slots /\ 0 \in 0 .. CacheSize - 1
  BY <1>1, RingTypes, SlotProperties
<1>3. old.ts = Ts(0) /\ old.count = Count(0) /\ old.skipped = Skipped(0)
  BY <1>2 DEF Ts, Count, Skipped
<1>4. new \in SlotRecord
  <2>1. old.ts + 1 \in Nat /\ old.skipped \in Nat
    BY <1>2, <1>3, RingTypes
  <2> QED BY <2>1 DEF SlotRecord
<1> HIDE DEF new, old
<1>5. \A k \in 0 .. CacheSize - 2 : Slot(k)' = Slot(k + 1)
  BY <1>1, RingTypes DEF Slot, NextSlot
<1>6. cache' \in [Slots -> SlotRecord]
  BY <1>1, <1>4, CacheTypes
<1>7. \A k \in 0 .. CacheSize - 2 :
         Ts(k)' = Ts(k + 1) /\ Count(k)' = Count(k + 1) /\ Skipped(k)' = Skipped(k + 1)
  <2> TAKE k \in 0 .. CacheSize - 2
  <2>1. k + 1 \in 0 .. CacheSize - 1 /\ 0 \in 0 .. CacheSize - 1 /\ k + 1 # 0
    OBVIOUS
  <2>2. Slot(k + 1) \in Slots /\ Slot(k + 1) # first_added
    BY <2>1, <1>2, CacheTypes
  <2>3. cache'[Slot(k + 1)] = cache[Slot(k + 1)] /\ Slot(k)' = Slot(k + 1)
    BY <2>1, <2>2, <1>1, <1>5, CacheTypes
  <2> QED BY <2>3 DEF Ts, Count, Skipped
<1> QED BY <1>1, <1>2, <1>3, <1>5, <1>6, <1>7

(* A completed frame leaves the ring, which stays in order.                *)
LEMMA VidCompleteRing ==
  ASSUME RingPart, VidComplete, cur = first_added, Used >= 1
  PROVE  RingPart'
<1>1. /\ available_frames' = available_frames + 1 /\ Filling' = Filling
      /\ first_added' = NextSlot(first_added)
      /\ last_added' = IF available_frames' = CacheSize THEN first_added' ELSE last_added
      /\ UNCHANGED <<fill, cur, sem, tick, pc_gfx>>
  BY DEF VidComplete, Filling, gfxVars, roundVars
<1> PICK W \in 1 .. CacheSize : W = Used + Filling
  BY RingTypes
<1>2. /\ first_added' \in Slots /\ cache' \in [Slots -> SlotRecord]
      /\ \A k \in 0 .. CacheSize - 2 :
           /\ Slot(k)' = Slot(k + 1)
           /\ Ts(k)' = Ts(k + 1) /\ Count(k)' = Count(k + 1) /\ Skipped(k)' = Skipped(k + 1)
  BY VidCompleteSlots
<1>3. /\ first_added' \in Slots /\ outTs' = Ts(0) /\ Ts(0) \in Nat /\ Count(0) = 1
      /\ outTs < Ts(0) /\ Ts(0) + 1 <= tick
  <2>1. outTs' = Ts(0) /\ Count(0) = 1 /\ first_added' \in Slots
    BY VidCompleteSlots
  <2>2. 0 \in 0 .. W - 1 /\ 0 \in 0 .. CacheSize - 1
    BY SMT
  <2> QED BY <2>1, <2>2, PendingSlots, RingTypes
<1>4. /\ Used' = Used - 1 /\ Used \in 1 .. CacheSize /\ Filling \in 0 .. 1
      /\ available_frames' \in 0 .. CacheSize /\ (available_frames' = CacheSize <=> Used' = 0)
  <2>1. available_frames \in 0 .. CacheSize
    BY RingTypes
  <2>2. Used' = Used - 1 /\ (available_frames' = CacheSize <=> Used' = 0)
    BY <1>1, <2>1 DEF Used
  <2>3. available_frames # CacheSize
    BY DEF Used
  <2> QED BY <1>1, <2>1, <2>2, <2>3, RingTypes
<1>5. RingTypeOK'
  <2>1. outTs' \in Int
    BY <1>3
  <2>2. last_added' \in Slots
    BY <1>1, <1>3, RingTypes
  <2> QED BY <2>1, <2>2, <1>1, <1>2, <1>4 DEF RingPart, RingTypeOK
<1>6. Layout'
  <2>1. last_added = Slot(W - 1) /\ (pc_gfx = "filling" => fill = last_added)
    BY RingTypes DEF Layout, RingPart
  <2>2. CASE W = 1
    <3>1. Used' = 0 /\ Filling = 0
      BY <2>2, <1>4
    <3>2. pc_gfx # "filling"
      BY <3>1 DEF Filling
    <3> QED BY <3>1, <3>2, <1>1, <1>4 DEF Layout
  <2>3. CASE W # 1
    <3>1. /\ W - 2 \in 0 .. CacheSize - 2 /\ (W - 2) + 1 = W - 1
          /\ Used' + Filling' # 0 /\ Used' + Filling' - 1 = W - 2 /\ Used' + Filling' <= CacheSize
      BY <2>3, <1>1, <1>4
    <3>2. Slot(W - 2)' = last_added
      <4>1. Slot(W - 2)' = Slot((W - 2) + 1)
        BY <3>1, <1>2
      <4> QED BY <4>1, <3>1, <2>1
    <3>3. last_added' = last_added
      <4>1. CASE Used' = 0
        <5>1. W - 1 = 1 /\ 0 \in 0 .. CacheSize - 2 /\ 0 + 1 = 1
          BY <4>1, <2>3, <1>1, <1>4
        <5>2. first_added' = Slot(1)
          BY <5>1, <1>1, RingTypes, SlotProperties
        <5> QED BY <5>1, <5>2, <2>1, <4>1, <1>1, <1>4
      <4>2. CASE Used' # 0
        BY <4>2, <1>1, <1>4
      <4> QED BY <4>1, <4>2
    <3> QED BY <3>1, <3>2, <3>3, <2>1, <1>1 DEF Layout
  <2> QED BY <2>2, <2>3
<1>7. Ordered'
  <2>1. ASSUME NEW k \in 0 .. (W - 1) - 1
        PROVE  /\ Skipped(k)' < Count(k)' /\ Count(k)' > 0
               /\ outTs' < Ts(k)' /\ Ts(k)' + Count(k)' <= tick
               /\ \A j \in 0 .. k - 1 : Ts(j)' + Count(j)' <= Ts(k)'
    <3>1. k \in 0 .. W - 2 /\ k + 1 \in 0 .. W - 1 /\ 0 \in 0 .. (k + 1) - 1 /\ k + 1 \in 0 .. CacheSize - 1 /\ k \in 0 .. CacheSize - 2
      OBVIOUS
    <3>2. /\ Skipped(k + 1) < Count(k + 1) /\ Count(k + 1) > 0 /\ Ts(k + 1) + Count(k + 1) <= tick
          /\ \A j \in 0 .. (k + 1) - 1 : Ts(j) + Count(j) <= Ts(k + 1)
      BY <3>1, PendingSlots, RingTypes
    <3>3. Ts(0) + Count(0) <= Ts(k + 1)
      BY <3>1, <3>2
    <3>4. Ts(0) < Ts(k + 1)
      BY <3>1, <3>3, <1>3, RingTypes
    <3>5. ASSUME NEW j \in 0 .. k - 1 PROVE Ts(j)' + Count(j)' <= Ts(k + 1)
      <4>1. j \in 0 .. CacheSize - 2 /\ j + 1 \in 0 .. (k + 1) - 1
        OBVIOUS
      <4> QED BY <4>1, <3>2, <1>2
    <3> QED BY <3>1, <3>2, <3>4, <3>5, <1>2, <1>3
  <2>2. Used' \in Nat /\ Filling' \in Nat /\ W - 1 \in Nat /\ Used' + Filling' = W - 1 /\ outTs' < tick'
    BY <1>1, <1>3, <1>4, RingTypes
  <2> QED BY <1>1, <2>1, <2>2, OrderedNext
<1> QED BY <1>5, <1>6, <1>7 DEF RingPart

(* Every step of video-io.c and its callers preserves the invariant.       *)
LEMMA RingStep == RingInv /\ [Next]_vars => RingInv'
<1> SUFFICES ASSUME RingInv, [Next]_vars PROVE RingInv'
  OBVIOUS
<1>0. RingPart /\ RingTypeOK /\ ThreadTypeOK /\ Layout /\ Ordered /\ Reader /\ StopToken
      /\ SemaphoreCountsFrames
  BY DEF RingInv, RingPart, TypeOK
<1> USE DEF dataVars, stopVars, gfxVars, roundVars, VidStep
<1>1. CASE GfxLoop
  <2>1. RingPart'
    BY <1>0, <1>1 DEF GfxLoop, RingPart, RingTypeOK, Layout, Ordered, TimestampOrder,
       SkippedAreRepeats, InUse, Used, Filling, Slot
  <2>2. ThreadTypeOK'
    BY <1>0, <1>1 DEF GfxLoop, ThreadTypeOK
  <2>3. Reader' /\ StopToken' /\ SemaphoreCountsFrames'
    BY <1>0, <1>1 DEF GfxLoop, RingTypeOK, Reader, Reading, StopToken, SemaphoreCountsFrames, Used
  <2> QED BY <2>1, <2>2, <2>3 DEF RingInv, RingPart, TypeOK
<1>2. ASSUME NEW c \in Counts, GfxNoFrame(c) PROVE RingInv'
  <2>1. RingPart'
    <3>1. tick' \in Nat /\ tick <= tick' /\ outTs' < tick'
      BY <1>0, <1>2 DEF GfxNoFrame, RingTypeOK, Ordered
    <3>2. RingTypeOK'
      BY <1>0, <1>2, <3>1 DEF GfxNoFrame, RingTypeOK
    <3>3. Layout'
      BY <1>0, <1>2 DEF GfxNoFrame, Layout, Used, Filling, Slot
    <3>4. /\ cache' = cache /\ outTs' = outTs
          /\ \A k \in 0 .. CacheSize : Slot(k)' = Slot(k)
      BY <1>2 DEF GfxNoFrame, Used, Filling, Slot
    <3>5. Ordered'
      <4> PICK W \in 0 .. CacheSize : W = Used + Filling
        BY <1>0, RingTypes
      <4>1. ASSUME NEW k \in 0 .. CacheSize - 1
            PROVE  Ts(k)' = Ts(k) /\ Count(k)' = Count(k) /\ Skipped(k)' = Skipped(k)
        BY <3>4 DEF Ts, Count, Skipped
      <4>2. ASSUME NEW k \in 0 .. W - 1
            PROVE  /\ Skipped(k)' < Count(k)' /\ Count(k)' > 0
                   /\ outTs' < Ts(k)' /\ Ts(k)' + Count(k)' <= tick'
                   /\ \A j \in 0 .. k - 1 : Ts(j)' + Count(j)' <= Ts(k)'
        <5>1. k \in 0 .. CacheSize - 1 /\ \A j \in 0 .. k - 1 : j \in 0 .. CacheSize - 1
          OBVIOUS
        <5>2. /\ Skipped(k) < Count(k) /\ Count(k) > 0 /\ outTs < Ts(k) /\ Ts(k) + Count(k) <= tick
              /\ \A j \in 0 .. k - 1 : Ts(j) + Count(j) <= Ts(k)
          BY <1>0, PendingSlots, RingTypes
        <5>3. Ts(k) + Count(k) <= tick'
          BY <1>0, <5>1, <5>2, <3>1, RingTypes
        <5> QED BY <5>1, <5>2, <5>3, <4>1, <3>4
      <4>3. W \in Nat /\ Used' \in Nat /\ Filling' \in Nat /\ Used' + Filling' = W /\ outTs' < tick'
        <5>1. Used' = Used /\ Filling' = Filling
          BY <1>0, <1>2 DEF GfxNoFrame, Used, Filling
        <5> QED BY <5>1, <1>0, <3>1, RingTypes
      <4> QED BY <4>2, <4>3, OrderedNext
    <3> QED BY <3>2, <3>3, <3>5 DEF RingPart
  <2>2. ThreadTypeOK'
    BY <1>0, <1>2 DEF GfxNoFrame, ThreadTypeOK
  <2>3. Reader' /\ StopToken' /\ SemaphoreCountsFrames'
    BY <1>0, <1>2 DEF GfxNoFrame, RingTypeOK, Reader, Reading, StopToken, SemaphoreCountsFrames, Used
  <2> QED BY <2>1, <2>2, <2>3 DEF RingInv, RingPart, TypeOK
<1>3. ASSUME NEW c \in Counts, LockFrame(c) PROVE RingInv'
  <2>1. RingPart'
    BY <1>0, <1>3, LockFrameRing
  <2>2. ThreadTypeOK'
    BY <1>0, <1>3 DEF LockFrame, ThreadTypeOK
  <2>3. Reader' /\ StopToken' /\ SemaphoreCountsFrames'
    BY <1>0, <1>3 DEF LockFrame, RingTypeOK, Reader, Reading, StopToken, SemaphoreCountsFrames, Used
  <2> QED BY <2>1, <2>2, <2>3 DEF RingInv, RingPart, TypeOK
<1>4. ASSUME NEW c \in Counts, LockFrameFull(c) PROVE RingInv'
  <2>1. RingPart'
    BY <1>0, <1>4, LockFrameFullRing
  <2>2. ThreadTypeOK'
    BY <1>0, <1>4 DEF LockFrameFull, ThreadTypeOK
  <2>3. Reader' /\ StopToken' /\ SemaphoreCountsFrames'
    BY <1>0, <1>4 DEF LockFrameFull, RingTypeOK, Reader, Reading, StopToken, SemaphoreCountsFrames, Used
  <2> QED BY <2>1, <2>2, <2>3 DEF RingInv, RingPart, TypeOK
<1>5. CASE UnlockFrame
  <2>1. RingPart'
    BY <1>0, <1>5 DEF UnlockFrame, RingPart, RingTypeOK, Layout, Ordered, TimestampOrder,
       SkippedAreRepeats, InUse, Used, Filling, Slot
  <2>2. ThreadTypeOK'
    BY <1>0, <1>5 DEF UnlockFrame, ThreadTypeOK
  <2>3. Reader' /\ StopToken' /\ SemaphoreCountsFrames'
    BY <1>0, <1>5 DEF UnlockFrame, RingTypeOK, Reader, Reading, StopToken, SemaphoreCountsFrames, Used
  <2> QED BY <2>1, <2>2, <2>3 DEF RingInv, RingPart, TypeOK
<1>6. CASE VidWait
  <2>1. RingPart'
    <3>1. RingTypeOK'
      BY <1>0, <1>6 DEF VidWait, RingTypeOK
    <3>2. Layout' /\ Ordered'
      BY <1>6, RingQuiet DEF VidWait
    <3> QED BY <3>1, <3>2 DEF RingPart
  <2>2. ThreadTypeOK'
    BY <1>0, <1>6 DEF VidWait, ThreadTypeOK
  <2>3. Reader' /\ StopToken' /\ SemaphoreCountsFrames'
    BY <1>0, <1>6 DEF VidWait, RingTypeOK, Reader, Reading, StopToken, SemaphoreCountsFrames, Used
  <2> QED BY <2>1, <2>2, <2>3 DEF RingInv, RingPart, TypeOK
<1>7. CASE VidWoken
  <2>1. RingPart'
    <3>1. RingTypeOK'
      BY <1>0, <1>7 DEF VidWoken, RingTypeOK
    <3>2. Layout' /\ Ordered'
      BY <1>7, RingQuiet DEF VidWoken
    <3> QED BY <3>1, <3>2 DEF RingPart
  <2>2. ThreadTypeOK'
    BY <1>0, <1>7 DEF VidWoken, ThreadTypeOK
  <2>3. Reader' /\ StopToken' /\ SemaphoreCountsFrames'
    BY <1>0, <1>7 DEF VidWoken, RingTypeOK, Reader, Reading, StopToken, SemaphoreCountsFrames, Used
  <2> QED BY <2>1, <2>2, <2>3 DEF RingInv, RingPart, TypeOK
<1>8. CASE VidLoop
  <2>1. RingPart'
    <3>1. RingTypeOK'
      BY <1>0, <1>8 DEF VidLoop, RingTypeOK
    <3>2. Layout' /\ Ordered'
      BY <1>8, RingQuiet DEF VidLoop
    <3> QED BY <3>1, <3>2 DEF RingPart
  <2>2. ThreadTypeOK'
    BY <1>0, <1>8 DEF VidLoop, ThreadTypeOK
  <2>3. Reader' /\ StopToken' /\ SemaphoreCountsFrames'
    BY <1>0, <1>8 DEF VidLoop, RingTypeOK, Reader, Reading, StopToken, SemaphoreCountsFrames, Used
  <2> QED BY <2>1, <2>2, <2>3 DEF RingInv, RingPart, TypeOK
<1>9. CASE VidPick
  <2>1. RingPart'
    <3>1. RingTypeOK'
      BY <1>0, <1>9 DEF VidPick, RingTypeOK
    <3>2. Layout' /\ Ordered'
      BY <1>9, RingQuiet DEF VidPick
    <3> QED BY <3>1, <3>2 DEF RingPart
  <2>2. ThreadTypeOK'
    BY <1>0, <1>9 DEF VidPick, ThreadTypeOK
  <2>3. Reader' /\ StopToken' /\ SemaphoreCountsFrames'
    BY <1>0, <1>9 DEF VidPick, RingTypeOK, Reader, Reading, StopToken, SemaphoreCountsFrames, Used
  <2> QED BY <2>1, <2>2, <2>3 DEF RingInv, RingPart, TypeOK
<1>10. CASE VidLockInputs
  <2>1. RingPart'
    <3>1. RingTypeOK'
      BY <1>0, <1>10 DEF VidLockInputs, RingTypeOK
    <3>2. Layout' /\ Ordered'
      BY <1>10, RingQuiet DEF VidLockInputs
    <3> QED BY <3>1, <3>2 DEF RingPart
  <2>2. ThreadTypeOK'
    <3>1. ToSet(inputs) \subseteq Inputs
      BY <1>0 DEF ThreadTypeOK, ToSet
    <3> QED BY <3>1, <1>0, <1>10 DEF VidLockInputs, ThreadTypeOK
  <2>3. Reader' /\ StopToken' /\ SemaphoreCountsFrames'
    BY <1>0, <1>10 DEF VidLockInputs, RingTypeOK, Reader, Reading, StopToken, SemaphoreCountsFrames, Used
  <2> QED BY <2>1, <2>2, <2>3 DEF RingInv, RingPart, TypeOK
<1>11. CASE VidScaleFail
  <2>1. RingPart'
    <3>1. RingTypeOK'
      BY <1>0, <1>11 DEF VidScaleFail, RingTypeOK
    <3>2. Layout' /\ Ordered'
      BY <1>11, RingQuiet DEF VidScaleFail
    <3> QED BY <3>1, <3>2 DEF RingPart
  <2>2. ThreadTypeOK'
    BY <1>0, <1>11 DEF VidScaleFail, ThreadTypeOK
  <2>3. Reader' /\ StopToken' /\ SemaphoreCountsFrames'
    BY <1>0, <1>11 DEF VidScaleFail, RingTypeOK, Reader, Reading, StopToken, SemaphoreCountsFrames, Used
  <2> QED BY <2>1, <2>2, <2>3 DEF RingInv, RingPart, TypeOK
<1>12. CASE VidCallback
  <2>1. RingPart'
    <3>1. RingTypeOK'
      BY <1>0, <1>12 DEF VidCallback, RingTypeOK
    <3>2. Layout' /\ Ordered'
      BY <1>12, RingQuiet DEF VidCallback
    <3> QED BY <3>1, <3>2 DEF RingPart
  <2>2. ThreadTypeOK'
    BY <1>0, <1>12 DEF VidCallback, ThreadTypeOK
  <2>3. Reader' /\ StopToken' /\ SemaphoreCountsFrames'
    BY <1>0, <1>12 DEF VidCallback, RingTypeOK, Reader, Reading, StopToken, SemaphoreCountsFrames, Used
  <2> QED BY <2>1, <2>2, <2>3 DEF RingInv, RingPart, TypeOK
<1>13. CASE VidSelfDisconnect
  <2>1. RingPart'
    <3>1. RingTypeOK'
      BY <1>0, <1>13 DEF VidSelfDisconnect, RingTypeOK
    <3>2. Layout' /\ Ordered'
      BY <1>13, RingQuiet DEF VidSelfDisconnect
    <3> QED BY <3>1, <3>2 DEF RingPart
  <2>2. ThreadTypeOK'
    <3>1. PICK k \in DOMAIN inputs :
            /\ inputs' = RemoveAt(inputs, k)
            /\ displaced' = displaced \union {inputs[j] : j \in {k + 1} \intersect DOMAIN inputs}
      BY <1>13 DEF VidSelfDisconnect
    <3>2. inputs' \in Seq(Inputs) /\ displaced' \subseteq Inputs
      BY <1>0, <3>1, RemoveAtProperties DEF ThreadTypeOK
    <3> QED BY <3>2, <1>0, <1>13 DEF VidSelfDisconnect, ThreadTypeOK
  <2>3. Reader' /\ StopToken' /\ SemaphoreCountsFrames'
    BY <1>0, <1>13 DEF VidSelfDisconnect, RingTypeOK, Reader, Reading, StopToken, SemaphoreCountsFrames, Used
  <2> QED BY <2>1, <2>2, <2>3 DEF RingInv, RingPart, TypeOK
<1>14. CASE VidReturn
  <2>1. RingPart'
    <3>1. RingTypeOK'
      BY <1>0, <1>14 DEF VidReturn, RingTypeOK
    <3>2. Layout' /\ Ordered'
      BY <1>14, RingQuiet DEF VidReturn
    <3> QED BY <3>1, <3>2 DEF RingPart
  <2>2. ThreadTypeOK'
    BY <1>0, <1>14 DEF VidReturn, ThreadTypeOK
  <2>3. Reader' /\ StopToken' /\ SemaphoreCountsFrames'
    BY <1>0, <1>14 DEF VidReturn, RingTypeOK, Reader, Reading, StopToken, SemaphoreCountsFrames, Used
  <2> QED BY <2>1, <2>2, <2>3 DEF RingInv, RingPart, TypeOK
<1>15. CASE VidUnlockInputs
  <2>1. RingPart'
    <3>1. RingTypeOK'
      BY <1>0, <1>15 DEF VidUnlockInputs, RingTypeOK
    <3>2. Layout' /\ Ordered'
      BY <1>15, RingQuiet DEF VidUnlockInputs
    <3> QED BY <3>1, <3>2 DEF RingPart
  <2>2. ThreadTypeOK'
    BY <1>0, <1>15 DEF VidUnlockInputs, ThreadTypeOK
  <2>3. Reader' /\ StopToken' /\ SemaphoreCountsFrames'
    BY <1>0, <1>15 DEF VidUnlockInputs, RingTypeOK, Reader, Reading, StopToken, SemaphoreCountsFrames, Used
  <2> QED BY <2>1, <2>2, <2>3 DEF RingInv, RingPart, TypeOK
<1>16. CASE VidComplete
  <2>1. RingPart'
    BY <1>0, <1>16, VidCompleteRing DEF VidComplete, Reader, Reading
  <2>2. ThreadTypeOK'
    BY <1>0, <1>16 DEF VidComplete, ThreadTypeOK
  <2>3. Reader' /\ StopToken' /\ SemaphoreCountsFrames'
    <3>1. Reader' /\ StopToken'
      BY <1>0, <1>16 DEF VidComplete, Reader, Reading, StopToken
    <3>2. available_frames \in Int /\ sem \in Nat
      BY <1>0 DEF RingTypeOK
    <3>3. SemaphoreCountsFrames'
      BY <1>0, <1>16, <3>2 DEF VidComplete, SemaphoreCountsFrames, Used
    <3> QED BY <3>1, <3>3
  <2> QED BY <2>1, <2>2, <2>3 DEF RingInv, RingPart, TypeOK
<1>17. CASE VidRepeat
  <2>1. RingPart'
    BY <1>0, <1>17, VidRepeatRing DEF VidRepeat, VidRepeatWith, Reader, Reading
  <2>2. ThreadTypeOK'
    BY <1>0, <1>17 DEF VidRepeat, VidRepeatWith, ThreadTypeOK
  <2>3. Reader' /\ StopToken' /\ SemaphoreCountsFrames'
    BY <1>0, <1>17 DEF VidRepeat, VidRepeatWith, RingTypeOK, Reader, Reading, StopToken, SemaphoreCountsFrames, Used
  <2> QED BY <2>1, <2>2, <2>3 DEF RingInv, RingPart, TypeOK
<1>18. ASSUME NEW i \in Inputs, Connect(i) PROVE RingInv'
  <2>1. RingPart'
    <3>1. RingTypeOK'
      BY <1>0, <1>18 DEF Connect, RingTypeOK
    <3>2. Layout' /\ Ordered'
      BY <1>18, RingQuiet DEF Connect
    <3> QED BY <3>1, <3>2 DEF RingPart
  <2>2. ThreadTypeOK'
    <3>1. inputs' \in Seq(Inputs)
      BY <1>0, <1>18, AppendProperties DEF Connect, ThreadTypeOK
    <3> QED BY <3>1, <1>0, <1>18 DEF Connect, ThreadTypeOK
  <2>3. Reader' /\ StopToken' /\ SemaphoreCountsFrames'
    BY <1>0, <1>18 DEF Connect, RingTypeOK, Reader, Reading, StopToken, SemaphoreCountsFrames, Used
  <2> QED BY <2>1, <2>2, <2>3 DEF RingInv, RingPart, TypeOK
<1>19. ASSUME NEW i \in Inputs, Disconnect(i) PROVE RingInv'
  <2>1. RingPart'
    <3>1. RingTypeOK'
      BY <1>0, <1>19 DEF Disconnect, RingTypeOK
    <3>2. Layout' /\ Ordered'
      BY <1>19, RingQuiet DEF Disconnect
    <3> QED BY <3>1, <3>2 DEF RingPart
  <2>2. ThreadTypeOK'
    <3>1. inputs' \in Seq(Inputs)
      BY <1>0, <1>19, RemoveAtProperties DEF Disconnect, ThreadTypeOK
    <3> QED BY <3>1, <1>0, <1>19 DEF Disconnect, ThreadTypeOK
  <2>3. Reader' /\ StopToken' /\ SemaphoreCountsFrames'
    BY <1>0, <1>19 DEF Disconnect, RingTypeOK, Reader, Reading, StopToken, SemaphoreCountsFrames, Used
  <2> QED BY <2>1, <2>2, <2>3 DEF RingInv, RingPart, TypeOK
<1>20. CASE Stop
  <2>1. RingPart'
    <3>1. RingTypeOK'
      BY <1>0, <1>20 DEF Stop, RingTypeOK
    <3>2. Layout' /\ Ordered'
      BY <1>20, RingQuiet DEF Stop
    <3> QED BY <3>1, <3>2 DEF RingPart
  <2>2. ThreadTypeOK'
    BY <1>0, <1>20 DEF Stop, ThreadTypeOK
  <2>3. Reader' /\ StopToken' /\ SemaphoreCountsFrames'
    BY <1>0, <1>20 DEF Stop, RingTypeOK, Reader, Reading, StopToken, SemaphoreCountsFrames, Used
  <2> QED BY <2>1, <2>2, <2>3 DEF RingInv, RingPart, TypeOK
<1>21. CASE Join
  <2>1. RingPart'
    <3>1. RingTypeOK'
      BY <1>0, <1>21 DEF Join, RingTypeOK
    <3>2. Layout' /\ Ordered'
      BY <1>21, RingQuiet DEF Join
    <3> QED BY <3>1, <3>2 DEF RingPart
  <2>2. ThreadTypeOK'
    BY <1>0, <1>21 DEF Join, ThreadTypeOK
  <2>3. Reader' /\ StopToken' /\ SemaphoreCountsFrames'
    BY <1>0, <1>21 DEF Join, RingTypeOK, Reader, Reading, StopToken, SemaphoreCountsFrames, Used
  <2> QED BY <2>1, <2>2, <2>3 DEF RingInv, RingPart, TypeOK
<1>22. CASE UNCHANGED vars
  <2>1. TypeOK' /\ Reader' /\ StopToken' /\ SemaphoreCountsFrames'
    BY <1>0, <1>22 DEF vars, TypeOK, RingTypeOK, ThreadTypeOK, Reader, Reading, StopToken,
       SemaphoreCountsFrames, Used
  <2> QED BY <2>1, <1>22, RingQuiet DEF vars, RingInv
<1> QED
  BY <1>1, <1>2, <1>3, <1>4, <1>5, <1>6, <1>7, <1>8, <1>9, <1>10, <1>11, <1>12, <1>13, <1>14, <1>15, <1>16, <1>17, <1>18, <1>19, <1>20, <1>21, <1>22
  DEF Next, VidNext, GfxFrame

(* The invariant the theorems below follow from: types, semaphore, pcs and *)
(* the order of the slots in use.                                          *)
THEOREM RingInvariant == Spec => []RingInv
BY RingInit, RingStep, PTL DEF Spec

-----------------------------------------------------------------------------
(***************************************************************************)
(* What the invariant is for.                                              *)
(***************************************************************************)

(* Every variable keeps its type: the ring indices stay in the ring and    *)
(* available_frames between 0 and cache_size.                              *)
THEOREM TypeCorrect == Spec => []TypeOK
<1>1. RingInv => TypeOK
  BY DEF RingInv
<1> QED BY <1>1, RingInvariant, PTL

(* The graphics thread and the video thread never use one slot at a time.  *)
THEOREM NoTearing == Spec => []NoTear
<1>1. RingInv => NoTear
  <2> SUFFICES ASSUME RingInv, pc_gfx = "filling", Reading PROVE fill # cur
    BY DEF NoTear
  <2>1. RingPart /\ Reader /\ Filling = 1
    BY DEF RingInv, RingPart, TypeOK, Filling
  <2>2. cur = Slot(0) /\ Used \in 1 .. CacheSize - 1
    BY <2>1, RingTypes, SlotProperties DEF Reader
  <2>3. fill = Slot(Used)
    BY <2>1, <2>2 DEF RingPart, Layout
  <2>4. Used \in 0 .. CacheSize - 1 /\ 0 \in 0 .. CacheSize - 1 /\ Used # 0
    BY <2>2
  <2> QED BY <2>1, <2>2, <2>3, <2>4, RingTypes, SlotProperties
<1> QED BY <1>1, RingInvariant, PTL

(* Ring, threads and semaphore agree, and no frame is torn.                *)
THEOREM RingIsSafe == Spec => []RingSafe
BY RingInvariant, NoTearing, PTL DEF RingSafe

(* The semaphore and available_frames agree as long as nobody stops.       *)
THEOREM SemaphoreAccounting == Spec => []SemaphoreCountsFrames
<1>1. RingInv => SemaphoreCountsFrames
  BY DEF RingInv
<1> QED BY <1>1, RingInvariant, PTL

(* Pending timestamps are disjoint, ascending, and later than the output,  *)
(* and no slot has more skipped frames than repetitions left.              *)
THEOREM TimestampsOrdered == Spec => [](TimestampOrder /\ SkippedAreRepeats)
<1>1. RingInv => TimestampOrder /\ SkippedAreRepeats
  BY DEF RingInv, Ordered
<1> QED BY <1>1, RingInvariant, PTL

(* A stop never leaves the video thread asleep.                            *)
THEOREM StopWakes == Spec => []StopWakesVideoThread
<1>1. RingInv => StopWakesVideoThread
  BY DEF RingInv, StopToken, StopWakesVideoThread
<1> QED BY <1>1, RingInvariant, PTL

-----------------------------------------------------------------------------
(***************************************************************************)
(* The list of inputs: who is called, and who is called in time, whatever  *)
(* connects and disconnects.                                               *)
(***************************************************************************)

(* da_push_back is guarded: an input is in the list once.                  *)
Distinct == \A j, k \in 1 .. Len(inputs) : inputs[j] = inputs[k] => j = k

(* The callback that runs is the one at the index of the loop, unless it   *)
(* took itself out of the list.                                            *)
Caller ==
  /\ running # NoInput <=> pc_vid = "callback"
  /\ pc_vid = "callback" => \A k \in 1 .. Len(inputs) : inputs[k] = running => k = idx
  /\ DisconnectIsSynchronous

(* The inputs the loop has still to come to.                               *)
Ahead(from) == {inputs[j] : j \in from .. Len(inputs)}

Round ==
  /\ pc_vid = "deliver" => owed \subseteq displaced \union Ahead(idx)
  /\ pc_vid = "callback" => owed \subseteq displaced \union Ahead(idx + 1)
  /\ EveryInputServed

InputsInv == Distinct /\ Caller /\ Round

(* What the ring's invariant says about the variables used here.           *)
LEMMA InputTypes ==
  ASSUME RingInv
  PROVE  /\ inputs \in Seq(Inputs) /\ Len(inputs) \in Nat /\ DOMAIN inputs = 1 .. Len(inputs)
         /\ \A k \in 1 .. Len(inputs) : inputs[k] \in Inputs
         /\ idx \in Nat \ {0} /\ running \in Inputs \union {NoInput}
<1>1. inputs \in Seq(Inputs) /\ idx \in Nat \ {0} /\ running \in Inputs \union {NoInput}
  BY DEF RingInv, TypeOK, ThreadTypeOK
<1> QED BY <1>1, LenProperties, ElementOfSeq

(* No input is connected and no callback runs at first.                   *)
LEMMA InputsInit == Init => InputsInv
BY DEF Init, InputsInv, Distinct, Caller, Round, DisconnectIsSynchronous, EveryInputServed

(* Removing an input keeps the others apart.                               *)
LEMMA RemoveDistinct ==
  ASSUME RingInv, Distinct, NEW k \in 1 .. Len(inputs), inputs' = RemoveAt(inputs, k)
  PROVE  Distinct'
<1>1. /\ Len(inputs') = Len(inputs) - 1 /\ Len(inputs) \in Nat
      /\ \A j \in 1 .. Len(inputs) - 1 : inputs'[j] = IF j < k THEN inputs[j] ELSE inputs[j + 1]
  BY InputTypes, RemoveAtProperties
<1> SUFFICES ASSUME NEW i \in 1 .. Len(inputs) - 1, NEW j \in 1 .. Len(inputs) - 1,
                    inputs'[i] = inputs'[j]
             PROVE  i = j
  BY <1>1 DEF Distinct
<1> DEFINE at(n) == IF n < k THEN n ELSE n + 1
<1>2. at(i) \in 1 .. Len(inputs) /\ at(j) \in 1 .. Len(inputs)
  BY <1>1
<1>3. inputs[at(i)] = inputs[at(j)]
  BY <1>1
<1>4. at(i) = at(j)
  BY <1>2, <1>3 DEF Distinct
<1> QED BY <1>4

(* A callback that disconnects itself moves the next input into its place  *)
(* and leaves the inputs after that ahead of the loop.                     *)
LEMMA SelfDisconnectInputs ==
  ASSUME RingInv, InputsInv, VidSelfDisconnect
  PROVE  InputsInv'
<1> USE InputTypes
<1>1. /\ pc_vid = "callback" /\ pc_vid' = "callback" /\ running \in Failing
      /\ UNCHANGED <<idx, running, owed>>
  BY DEF VidSelfDisconnect
<1>2. PICK k \in 1 .. Len(inputs) :
         /\ inputs[k] = running /\ inputs' = RemoveAt(inputs, k)
         /\ displaced' = displaced \union {inputs[j] : j \in {k + 1} \intersect 1 .. Len(inputs)}
  BY DEF VidSelfDisconnect
<1>3. k = idx
  BY <1>1, <1>2 DEF InputsInv, Caller
<1>4. /\ Len(inputs') = Len(inputs) - 1
      /\ \A j \in 1 .. Len(inputs) - 1 : inputs'[j] = IF j < k THEN inputs[j] ELSE inputs[j + 1]
  BY <1>2, RemoveAtProperties
<1>5. Distinct'
  BY <1>2, RemoveDistinct DEF InputsInv
<1>6. Caller'
  <2>1. ASSUME NEW j \in 1 .. Len(inputs) - 1, inputs'[j] = running PROVE FALSE
    <3>1. CASE j < k
      BY <1>2, <1>4, <2>1, <3>1 DEF InputsInv, Distinct
    <3>2. CASE ~ (j < k)
      <4>1. j + 1 \in 1 .. Len(inputs) /\ j + 1 # k /\ inputs[j + 1] = running
        BY <1>4, <2>1, <3>2
      <4> QED BY <1>2, <4>1 DEF InputsInv, Distinct
    <3> QED BY <3>1, <3>2
  <2>2. running # NoInput
    BY <1>1
  <2> QED BY <1>1, <1>4, <2>1, <2>2 DEF Caller, DisconnectIsSynchronous
<1>7. Round'
  <2>1. ASSUME NEW i \in owed PROVE i \in displaced' \union Ahead(idx + 1)'
    <3>1. i \in displaced \union Ahead(idx + 1)
      BY <1>1, <2>1 DEF InputsInv, Round
    <3>2. CASE i \in displaced
      BY <1>2, <3>2
    <3>3. CASE i \notin displaced
      <4>1. PICK j \in idx + 1 .. Len(inputs) : i = inputs[j]
        BY <3>1, <3>3 DEF Ahead
      <4>2. CASE j = idx + 1
        BY <1>2, <1>3, <4>1, <4>2
      <4>3. CASE j # idx + 1
        <5>1. j - 1 \in idx + 1 .. Len(inputs) - 1 /\ j - 1 \in 1 .. Len(inputs) - 1 /\ ~ (j - 1 < k)
              /\ (j - 1) + 1 = j
          BY <1>3, <4>1, <4>3
        <5>2. inputs'[j - 1] = i
          BY <1>4, <4>1, <5>1
        <5> QED BY <1>1, <1>4, <5>1, <5>2 DEF Ahead
      <4> QED BY <4>2, <4>3
    <3> QED BY <3>2, <3>3
  <2> QED BY <1>1, <2>1 DEF Round, EveryInputServed
<1> QED BY <1>5, <1>6, <1>7 DEF InputsInv

(* Connecting and disconnecting take input_mutex: no callback runs and the *)
(* loop is not under way.                                                  *)
LEMMA ConnectInputs ==
  ASSUME RingInv, InputsInv, NEW i \in Inputs, Connect(i) \/ Disconnect(i)
  PROVE  InputsInv'
<1>1. /\ pc_vid \notin {"deliver", "callback"}
      /\ UNCHANGED <<pc_vid, running, owed, displaced>>
  BY DEF Connect, Disconnect, InputMutexFree, roundVars
<1>2. Distinct'
  <2>1. CASE Connect(i)
    <3>1. inputs' = Append(inputs, i) /\ (\A k \in 1 .. Len(inputs) : inputs[k] # i)
      BY <2>1 DEF Connect, Contains
    <3>2. /\ Len(inputs') = Len(inputs) + 1 /\ inputs'[Len(inputs) + 1] = i
          /\ \A k \in 1 .. Len(inputs) : inputs'[k] = inputs[k]
      BY <3>1, InputTypes, AppendProperties
    <3>3. \A k \in 1 .. Len(inputs) + 1 : k = Len(inputs) + 1 \/ k \in 1 .. Len(inputs)
      BY InputTypes
    <3> QED BY <3>1, <3>2, <3>3 DEF InputsInv, Distinct
  <2>2. CASE Disconnect(i)
    <3>1. PICK k \in 1 .. Len(inputs) : inputs' = RemoveAt(inputs, k)
      BY <2>2, InputTypes DEF Disconnect
    <3> QED BY <3>1, RemoveDistinct DEF InputsInv
  <2> QED BY <2>1, <2>2
<1>3. Caller' /\ Round'
  BY <1>1 DEF InputsInv, Caller, Round, DisconnectIsSynchronous, EveryInputServed
<1> QED BY <1>2, <1>3 DEF InputsInv

(* The loop over the inputs.                                               *)
LEMMA LoopInputs ==
  ASSUME RingInv, InputsInv,
         VidLockInputs \/ VidScaleFail \/ VidCallback \/ VidReturn \/ VidUnlockInputs
  PROVE  InputsInv'
<1>1. inputs' = inputs /\ Distinct'
  <2>1. inputs' = inputs
    BY DEF VidLockInputs, VidScaleFail, VidCallback, VidReturn, VidUnlockInputs
  <2> QED BY <2>1 DEF InputsInv, Distinct
<1>2. CASE VidLockInputs
  <2>1. /\ pc_vid = "picked" /\ pc_vid' = "deliver" /\ idx' = 1 /\ running' = running
        /\ owed' = ToSet(inputs)
    BY <1>2 DEF VidLockInputs, VidStep
  <2>2. owed' \subseteq Ahead(1)
    BY <1>1, <2>1, InputTypes DEF ToSet, Ahead
  <2> QED BY <1>1, <2>1, <2>2
          DEF InputsInv, Caller, Round, DisconnectIsSynchronous, EveryInputServed, Ahead
<1>3. CASE VidScaleFail \/ VidCallback
  <2>1. /\ pc_vid = "deliver" /\ idx <= Len(inputs) /\ idx \in 1 .. Len(inputs)
        /\ owed' = owed \ {inputs[idx]} /\ displaced' = displaced
    BY <1>3, InputTypes DEF VidScaleFail, VidCallback, VidStep
  <2>2. owed' \subseteq displaced' \union Ahead(idx + 1)
    <3>1. Ahead(idx) \subseteq {inputs[idx]} \union Ahead(idx + 1)
      BY InputTypes DEF Ahead
    <3> QED BY <2>1, <3>1 DEF InputsInv, Round
  <2>3. CASE VidScaleFail
    <3>1. pc_vid' = "deliver" /\ idx' = idx + 1 /\ running' = running
      BY <2>1, <2>3 DEF VidScaleFail
    <3> QED BY <1>1, <2>1, <2>2, <3>1
            DEF InputsInv, Caller, Round, DisconnectIsSynchronous, EveryInputServed, Ahead
  <2>4. CASE VidCallback
    <3>1. pc_vid' = "callback" /\ idx' = idx /\ running' = inputs[idx]
      BY <2>4 DEF VidCallback, VidStep
    <3>2. running' # NoInput
      BY <2>1, <3>1, InputTypes
    <3>3. Caller'
      BY <1>1, <2>1, <3>1, <3>2 DEF InputsInv, Distinct, Caller, DisconnectIsSynchronous, Contains
    <3>4. Round'
      BY <1>1, <2>2, <3>1 DEF Round, EveryInputServed, Ahead
    <3> QED BY <1>1, <3>3, <3>4 DEF InputsInv
  <2> QED BY <1>3, <2>3, <2>4
<1>4. CASE VidReturn
  <2>1. /\ pc_vid = "callback" /\ pc_vid' = "deliver" /\ idx' = idx + 1 /\ running' = NoInput
        /\ UNCHANGED <<owed, displaced>>
    BY <1>4 DEF VidReturn, VidStep
  <2> QED BY <1>1, <2>1
          DEF InputsInv, Caller, Round, DisconnectIsSynchronous, EveryInputServed, Ahead
<1>5. CASE VidUnlockInputs
  <2>1. /\ pc_vid = "deliver" /\ pc_vid' = "finish" /\ idx > Len(inputs)
        /\ UNCHANGED <<owed, displaced, running>>
    BY <1>5 DEF VidUnlockInputs, VidStep, roundVars
  <2>2. Ahead(idx) = {}
    BY <2>1, InputTypes DEF Ahead
  <2> QED BY <1>1, <2>1, <2>2
          DEF InputsInv, Caller, Round, DisconnectIsSynchronous, EveryInputServed
<1> QED BY <1>2, <1>3, <1>4, <1>5

(* Everything else leaves the inputs and the round alone.                  *)
LEMMA QuietInputs ==
  ASSUME InputsInv, UNCHANGED <<inputs, idx, running, owed, displaced>>,
         \/ pc_vid' = pc_vid
         \/ pc_vid # "callback" /\ pc_vid' \notin {"deliver", "callback", "finish"}
  PROVE  InputsInv'
BY DEF InputsInv, Distinct, Caller, Round, DisconnectIsSynchronous, EveryInputServed, Ahead

(* Every step preserves the invariant of the inputs.                       *)
LEMMA InputsStep == RingInv /\ InputsInv /\ [Next]_vars => InputsInv'
<1> SUFFICES ASSUME RingInv, InputsInv, [Next]_vars PROVE InputsInv'
  OBVIOUS
<1>1. CASE VidSelfDisconnect
  BY <1>1, SelfDisconnectInputs
<1>2. CASE \E i \in Inputs : Connect(i) \/ Disconnect(i)
  BY <1>2, ConnectInputs
<1>3. CASE VidLockInputs \/ VidScaleFail \/ VidCallback \/ VidReturn \/ VidUnlockInputs
  BY <1>3, LoopInputs
<1>4. CASE VidWait \/ VidWoken \/ VidLoop \/ VidPick \/ VidComplete \/ VidRepeat
  <2>1. /\ UNCHANGED <<inputs, idx, running, owed, displaced>>
        /\ pc_vid # "callback" /\ pc_vid' \notin {"deliver", "callback", "finish"}
    BY <1>4 DEF VidWait, VidWoken, VidLoop, VidPick, VidComplete, VidRepeat, VidRepeatWith,
       VidStep, roundVars
  <2> QED BY <2>1, QuietInputs
<1>5. CASE GfxLoop \/ UnlockFrame \/ Stop \/ Join \/ (\E c \in Counts : GfxFrame(c))
  <2>1. UNCHANGED <<inputs, idx, running, owed, displaced, pc_vid>>
    BY <1>5 DEF GfxLoop, UnlockFrame, Stop, Join, GfxFrame, GfxNoFrame, LockFrame, LockFrameFull,
       roundVars
  <2> QED BY <2>1, QuietInputs
<1>6. CASE UNCHANGED vars
  BY <1>6, QuietInputs DEF vars, roundVars
<1> QED BY <1>1, <1>2, <1>3, <1>4, <1>5, <1>6 DEF Next, VidNext

(* It needs the ring's invariant only for the types.                       *)
LEMMA InputsInvariant == Spec => []InputsInv
BY InputsInit, InputsStep, RingInvariant, PTL DEF Spec

(* After video_output_disconnect nobody is called, whatever runs when.     *)
THEOREM NobodyIsCalledAfterDisconnect == Spec => []DisconnectIsSynchronous
<1>1. InputsInv => DisconnectIsSynchronous
  BY DEF InputsInv, Caller
<1> QED BY <1>1, InputsInvariant, PTL

(* Of the inputs connected when a round began, only one that moved into    *)
(* the place of a self-disconnected one misses the frame.                  *)
THEOREM InputsAreServed == Spec => []EveryInputServed
<1>1. InputsInv => EveryInputServed
  BY DEF InputsInv, Round
<1> QED BY <1>1, InputsInvariant, PTL

-----------------------------------------------------------------------------
(***************************************************************************)
(* The frame cache implements the abstract queue of VideoFrameQueue.  The  *)
(* ring's invariant says where the pictures are; what is left is to follow *)
(* the sequence of pending pictures through each step.                     *)
(***************************************************************************)

Picture == [ts : Nat, left : Nat]

(* A function on an initial segment of the numbers is a sequence.          *)
LEMMA FunctionSeq ==
  ASSUME NEW S, NEW n \in Nat, NEW f \in [1 .. n -> S]
  PROVE  f \in Seq(S) /\ Len(f) = n
<1>1. f \in Seq(S)
  BY SeqDef
<1>2. Len(f) \in Nat /\ 1 .. Len(f) = 1 .. n
  BY <1>1, LenProperties
<1> QED BY <1>1, <1>2

(* The pictures pending in a state that satisfies the invariant.           *)
LEMMA PendingSeq ==
  ASSUME RingPart, NEW W \in Nat, Used + Filling = W
  PROVE  /\ Pending \in Seq(Picture) /\ Len(Pending) = W
         /\ \A i \in 1 .. W : Pending[i] = [ts |-> Ts(i - 1), left |-> Count(i - 1)]
<1>1. W <= CacheSize
  BY RingTypes
<1>2. ASSUME NEW i \in 1 .. W
      PROVE  [ts |-> Ts(i - 1), left |-> Count(i - 1)] \in Picture
  <2>1. i - 1 \in 0 .. CacheSize - 1
    BY <1>1
  <2>2. Ts(i - 1) \in Nat /\ Count(i - 1) \in Nat
    BY <2>1, RingTypes
  <2> QED BY <2>2 DEF Picture
<1>3. Pending = [k \in 1 .. W |-> [ts |-> Ts(k - 1), left |-> Count(k - 1)]]
  BY DEF Pending
<1>4. Pending \in [1 .. W -> Picture]
  BY <1>2, <1>3
<1> QED BY <1>3, <1>4, FunctionSeq

(* The pictures pending after a step, from the slots in use after it.      *)
LEMMA PendingNext ==
  ASSUME NEW W \in Nat, Used' + Filling' = W,
         \A k \in 0 .. W - 1 : Ts(k)' \in Nat /\ Count(k)' \in Nat
  PROVE  /\ Pending' \in Seq(Picture) /\ Len(Pending') = W
         /\ \A i \in 1 .. W : Pending'[i] = [ts |-> Ts(i - 1)', left |-> Count(i - 1)']
<1>1. ASSUME NEW i \in 1 .. W
      PROVE  [ts |-> Ts(i - 1)', left |-> Count(i - 1)'] \in Picture
  <2>1. i - 1 \in 0 .. W - 1
    OBVIOUS
  <2>2. Ts(i - 1)' \in Nat /\ Count(i - 1)' \in Nat
    BY <2>1
  <2> QED BY <2>2 DEF Picture
<1>2. Pending' = [k \in 1 .. W |-> [ts |-> Ts(k - 1)', left |-> Count(k - 1)']]
  BY DEF Pending
<1>3. Pending' \in [1 .. W -> Picture]
  BY <1>1, <1>2
<1> QED BY <1>2, <1>3, FunctionSeq

(* A free slot: the new picture is appended.                               *)
LEMMA LockFramePuts ==
  ASSUME RingPart, NEW c \in Counts, LockFrame(c)
  PROVE  Abstract!Put(c)
<1>1. /\ Filling = 0 /\ Filling' = 1 /\ Used' = Used /\ Used # CacheSize
      /\ tick' = tick + c /\ outTs' = outTs
  BY RingTypes DEF LockFrame, Used, Filling
<1> PICK w \in 0 .. CacheSize - 1 : w = Used
  BY <1>1, RingTypes
<1>2. /\ Ts(w)' = tick /\ Count(w)' = c
      /\ \A k \in 0 .. CacheSize - 1 : k # w => Ts(k)' = Ts(k) /\ Count(k)' = Count(k)
  BY LockFrameSlots
<1>3. /\ Pending \in Seq(Picture) /\ Len(Pending) = w
      /\ \A i \in 1 .. w : Pending[i] = [ts |-> Ts(i - 1), left |-> Count(i - 1)]
  <2>1. Used + Filling = w /\ w \in Nat
    BY <1>1
  <2> QED BY <2>1, PendingSeq
<1>4. /\ Pending' \in Seq(Picture) /\ Len(Pending') = w + 1
      /\ \A i \in 1 .. w + 1 : Pending'[i] = [ts |-> Ts(i - 1)', left |-> Count(i - 1)']
  <2>1. ASSUME NEW k \in 0 .. (w + 1) - 1 PROVE Ts(k)' \in Nat /\ Count(k)' \in Nat
    <3>1. k \in 0 .. CacheSize - 1 /\ c \in Nat
      OBVIOUS
    <3> QED BY <3>1, <1>2, RingTypes
  <2>2. Used' + Filling' = w + 1 /\ w + 1 \in Nat
    BY <1>1
  <2> QED BY <2>1, <2>2, PendingNext
<1> DEFINE new == [ts |-> tick, left |-> c]
<1>5. new \in Picture
  BY RingTypes DEF Picture
<1> HIDE DEF new
<1>6. /\ Append(Pending, new) \in Seq(Picture) /\ Len(Append(Pending, new)) = w + 1
      /\ \A i \in 1 .. w : Append(Pending, new)[i] = Pending[i]
      /\ Append(Pending, new)[w + 1] = new
  BY <1>3, <1>5, AppendProperties
<1>7. ASSUME NEW i \in 1 .. w + 1 PROVE Pending'[i] = Append(Pending, new)[i]
  <2>1. CASE i = w + 1
    <3>1. i - 1 = w
      BY <2>1
    <3> QED BY <2>1, <3>1, <1>2, <1>4, <1>6 DEF new
  <2>2. CASE i # w + 1
    <3>1. i \in 1 .. w /\ i - 1 \in 0 .. CacheSize - 1 /\ i - 1 # w
      BY <2>2
    <3> QED BY <3>1, <1>2, <1>3, <1>4, <1>6
  <2> QED BY <2>1, <2>2
<1>8. Pending' = Append(Pending, new)
  BY <1>4, <1>6, <1>7, SeqEqual
<1> QED BY <1>1, <1>3, <1>8 DEF new, Abstract!Put

(* No free slot: the newest picture stands for more ticks.                 *)
LEMMA LockFrameFullExtends ==
  ASSUME RingPart, NEW c \in Counts, LockFrameFull(c)
  PROVE  Abstract!Extend(c)
<1>1. /\ Filling = 0 /\ Filling' = 0 /\ Used' = Used /\ Used = CacheSize
      /\ tick' = tick + c /\ outTs' = outTs
  BY RingTypes DEF LockFrameFull, Used, Filling
<1> PICK w \in 0 .. CacheSize - 1 : w = CacheSize - 1
  OBVIOUS
<1>2. /\ Ts(w)' = Ts(w) /\ Count(w)' = Count(w) + c
      /\ \A k \in 0 .. CacheSize - 1 : k # w => Ts(k)' = Ts(k) /\ Count(k)' = Count(k)
  BY LockFrameFullSlots
<1>3. /\ Pending \in Seq(Picture) /\ Len(Pending) = CacheSize
      /\ \A i \in 1 .. CacheSize : Pending[i] = [ts |-> Ts(i - 1), left |-> Count(i - 1)]
  <2>1. Used + Filling = CacheSize /\ CacheSize \in Nat
    BY <1>1
  <2> QED BY <2>1, PendingSeq
<1>4. /\ Pending' \in Seq(Picture) /\ Len(Pending') = CacheSize
      /\ \A i \in 1 .. CacheSize : Pending'[i] = [ts |-> Ts(i - 1)', left |-> Count(i - 1)']
  <2>1. ASSUME NEW k \in 0 .. CacheSize - 1 PROVE Ts(k)' \in Nat /\ Count(k)' \in Nat
    <3>1. Ts(k) \in Nat /\ Count(k) \in Nat /\ Count(k) + c \in Nat
      BY RingTypes
    <3> QED BY <3>1, <1>2
  <2>2. Used' + Filling' = CacheSize /\ CacheSize \in Nat
    BY <1>1
  <2> QED BY <2>1, <2>2, PendingNext
<1> DEFINE new == [ts |-> Ts(w), left |-> Count(w) + c]
<1>5. new \in Picture
  BY RingTypes DEF Picture
<1>6. [Pending EXCEPT ![Len(Pending)].left = @ + c] = [Pending EXCEPT ![CacheSize] = new]
  <2>1. Pending[CacheSize] = [ts |-> Ts(w), left |-> Count(w)]
    BY <1>3
  <2>2. [Pending[CacheSize] EXCEPT !.left = @ + c] = new
    BY <2>1
  <2>3. Len(Pending) = CacheSize
    BY <1>3
  <2> HIDE DEF new
  <2>4. [Pending EXCEPT ![CacheSize].left = @ + c]
          = [Pending EXCEPT ![CacheSize] = [Pending[CacheSize] EXCEPT !.left = @ + c]]
    OBVIOUS
  <2> QED BY <2>2, <2>3, <2>4
<1> HIDE DEF new
<1>7. /\ [Pending EXCEPT ![CacheSize] = new] \in Seq(Picture)
      /\ Len([Pending EXCEPT ![CacheSize] = new]) = CacheSize
      /\ \A i \in 1 .. CacheSize :
           [Pending EXCEPT ![CacheSize] = new][i] = IF i = CacheSize THEN new ELSE Pending[i]
  <2>1. CacheSize \in 1 .. Len(Pending)
    BY <1>3
  <2> QED BY <2>1, <1>3, <1>5, ExceptSeq
<1>8. ASSUME NEW i \in 1 .. CacheSize PROVE Pending'[i] = [Pending EXCEPT ![CacheSize] = new][i]
  <2>1. CASE i = CacheSize
    <3>1. i - 1 = w
      BY <2>1
    <3> QED BY <2>1, <3>1, <1>2, <1>4, <1>7 DEF new
  <2>2. CASE i # CacheSize
    <3>1. i - 1 \in 0 .. CacheSize - 1 /\ i - 1 # w
      BY <2>2
    <3> QED BY <2>2, <3>1, <1>2, <1>3, <1>4, <1>7
  <2> QED BY <2>1, <2>2
<1>9. Pending' = [Pending EXCEPT ![CacheSize] = new]
  BY <1>4, <1>7, <1>8, SeqEqual
<1> QED BY <1>1, <1>3, <1>6, <1>9 DEF Abstract!Extend

(* The first slot is the head of the queue.                                *)
LEMMA FirstPending ==
  ASSUME RingPart, Used >= 1
  PROVE  /\ Pending \in Seq(Picture) /\ Len(Pending) = Used + Filling
         /\ Pending # <<>> /\ Head(Pending) = Pending[1]
         /\ \A i \in 1 .. Used + Filling : Pending[i] = [ts |-> Ts(i - 1), left |-> Count(i - 1)]
         /\ Pending[1] = [ts |-> Ts(0), left |-> Count(0)]
<1> PICK W \in 1 .. CacheSize : W = Used + Filling
  BY RingTypes
<1>1. /\ Pending \in Seq(Picture) /\ Len(Pending) = W
      /\ \A i \in 1 .. W : Pending[i] = [ts |-> Ts(i - 1), left |-> Count(i - 1)]
  BY PendingSeq
<1>2. Pending # <<>>
  BY <1>1, EmptySeq
<1>3. Head(Pending) = Pending[1]
  BY <1>1, <1>2
<1>4. Pending[1] = [ts |-> Ts(0), left |-> Count(0)]
  <2>1. 1 \in 1 .. W /\ 1 - 1 = 0
    OBVIOUS
  <2> QED BY <2>1, <1>1
<1> QED BY <1>1, <1>2, <1>3, <1>4

(* The frame was given out for the last time: it leaves the queue.         *)
LEMMA VidCompleteTakes ==
  ASSUME RingPart, VidComplete, cur = first_added, Used >= 1
  PROVE  Abstract!Take
<1>1. /\ outTs' = Ts(0) /\ Count(0) = 1 /\ tick' = tick
      /\ \A k \in 0 .. CacheSize - 2 : Ts(k)' = Ts(k + 1) /\ Count(k)' = Count(k + 1)
  BY VidCompleteSlots DEF VidComplete, gfxVars
<1> PICK W \in 1 .. CacheSize : W = Used + Filling
  BY RingTypes
<1>2. Used' + Filling' = W - 1
  <2>1. available_frames' = available_frames + 1 /\ Filling' = Filling
    BY DEF VidComplete, Filling, gfxVars
  <2>2. Used' = Used - 1
    BY <2>1, RingTypes DEF Used
  <2> QED BY <2>1, <2>2, RingTypes
<1>3. /\ Pending \in Seq(Picture) /\ Len(Pending) = W
      /\ Pending # <<>> /\ Head(Pending) = [ts |-> Ts(0), left |-> Count(0)]
      /\ \A i \in 1 .. W : Pending[i] = [ts |-> Ts(i - 1), left |-> Count(i - 1)]
  BY FirstPending
<1>4. /\ Pending' \in Seq(Picture) /\ Len(Pending') = W - 1
      /\ \A i \in 1 .. W - 1 : Pending'[i] = [ts |-> Ts(i - 1)', left |-> Count(i - 1)']
  <2>1. ASSUME NEW k \in 0 .. (W - 1) - 1 PROVE Ts(k)' \in Nat /\ Count(k)' \in Nat
    <3>1. k \in 0 .. CacheSize - 2 /\ k + 1 \in 0 .. CacheSize - 1
      OBVIOUS
    <3> QED BY <3>1, <1>1, RingTypes
  <2> QED BY <2>1, <1>2, PendingNext
<1>5. /\ Tail(Pending) \in Seq(Picture) /\ Len(Tail(Pending)) = W - 1
      /\ \A i \in 1 .. W - 1 : Tail(Pending)[i] = Pending[i + 1]
  BY <1>3, HeadTailProperties
<1>6. ASSUME NEW i \in 1 .. W - 1 PROVE Pending'[i] = Tail(Pending)[i]
  <2>1. /\ i - 1 \in 0 .. CacheSize - 2 /\ (i - 1) + 1 = i
        /\ i + 1 \in 1 .. W /\ (i + 1) - 1 = i
    OBVIOUS
  <2>2. Pending'[i] = [ts |-> Ts(i), left |-> Count(i)]
    BY <2>1, <1>1, <1>4
  <2>3. Pending[i + 1] = [ts |-> Ts(i), left |-> Count(i)]
    BY <2>1, <1>3
  <2> QED BY <2>2, <2>3, <1>5
<1>7. Pending' = Tail(Pending)
  BY <1>4, <1>5, <1>6, SeqEqual
<1>8. Head(Pending).ts = Ts(0) /\ Head(Pending).left = 1
  BY <1>1, <1>3
<1> QED BY <1>1, <1>3, <1>7, <1>8 DEF Abstract!Take

(* The frame stays: its first tick has been given out.                     *)
LEMMA VidRepeatTakes ==
  ASSUME RingPart, VidRepeat, cur = first_added, Used >= 1
  PROVE  Abstract!Take
<1>1. /\ outTs' = Ts(0) /\ Count(0) # 1 /\ tick' = tick
      /\ Ts(0)' = Ts(0) + 1 /\ Count(0)' = Count(0) - 1
      /\ \A k \in 0 .. CacheSize - 1 : k # 0 => Ts(k)' = Ts(k) /\ Count(k)' = Count(k)
  BY VidRepeatSlots DEF VidRepeat, VidRepeatWith, gfxVars
<1> PICK W \in 1 .. CacheSize : W = Used + Filling
  BY RingTypes
<1>2. Used' + Filling' = W
  BY DEF VidRepeat, VidRepeatWith, Used, Filling, gfxVars
<1>3. /\ Pending \in Seq(Picture) /\ Len(Pending) = W
      /\ Pending # <<>> /\ Head(Pending) = [ts |-> Ts(0), left |-> Count(0)]
      /\ \A i \in 1 .. W : Pending[i] = [ts |-> Ts(i - 1), left |-> Count(i - 1)]
      /\ Pending[1] = [ts |-> Ts(0), left |-> Count(0)]
  BY FirstPending
<1>4. Ts(0) + 1 \in Nat /\ Count(0) - 1 \in Nat
  <2>1. 0 \in 0 .. Used + Filling - 1 /\ 0 \in 0 .. CacheSize - 1
    BY RingTypes
  <2> QED BY <2>1, <1>1, RingTypes, PendingSlots
<1>5. /\ Pending' \in Seq(Picture) /\ Len(Pending') = W
      /\ \A i \in 1 .. W : Pending'[i] = [ts |-> Ts(i - 1)', left |-> Count(i - 1)']
  <2>1. ASSUME NEW k \in 0 .. W - 1 PROVE Ts(k)' \in Nat /\ Count(k)' \in Nat
    BY <1>1, <1>4, RingTypes
  <2> QED BY <2>1, <1>2, PendingNext
<1> DEFINE new == [ts |-> Ts(0) + 1, left |-> Count(0) - 1]
<1>6. new \in Picture
  BY <1>4 DEF Picture
<1>7. [ts |-> Pending[1].ts + 1, left |-> Pending[1].left - 1] = new
  BY <1>3
<1> HIDE DEF new
<1>8. [Pending EXCEPT ![1] = [ts |-> @.ts + 1, left |-> @.left - 1]] = [Pending EXCEPT ![1] = new]
  BY <1>7
<1>9. /\ [Pending EXCEPT ![1] = new] \in Seq(Picture) /\ Len([Pending EXCEPT ![1] = new]) = W
      /\ \A i \in 1 .. W : [Pending EXCEPT ![1] = new][i] = IF i = 1 THEN new ELSE Pending[i]
  <2>1. 1 \in 1 .. Len(Pending)
    BY <1>3
  <2> QED BY <2>1, <1>3, <1>6, ExceptSeq
<1>10. ASSUME NEW i \in 1 .. W PROVE Pending'[i] = [Pending EXCEPT ![1] = new][i]
  <2>1. CASE i = 1
    <3>1. i - 1 = 0
      BY <2>1
    <3> QED BY <2>1, <3>1, <1>1, <1>5, <1>9 DEF new
  <2>2. CASE i # 1
    <3>1. i - 1 \in 0 .. CacheSize - 1 /\ i - 1 # 0
      BY <2>2
    <3> QED BY <2>2, <3>1, <1>1, <1>3, <1>5, <1>9
  <2> QED BY <2>1, <2>2
<1>11. Pending' = [Pending EXCEPT ![1] = new]
  BY <1>5, <1>9, <1>10, SeqEqual
<1>12. Head(Pending).ts = Ts(0) /\ Head(Pending).left # 1
  BY <1>1, <1>3
<1> QED BY <1>1, <1>3, <1>8, <1>11, <1>12 DEF Abstract!Take

(* The slot that is full now was the one being filled.                     *)
LEMMA UnlockFrameStutters ==
  ASSUME RingPart, UnlockFrame
  PROVE  UNCHANGED <<Pending, tick, outTs>>
<1>1. /\ available_frames' = available_frames - 1 /\ Filling = 1 /\ Filling' = 0
      /\ UNCHANGED <<first_added, cache, tick, outTs>>
  BY DEF UnlockFrame, Filling
<1>2. Used' + Filling' = Used + Filling
  <2>1. Used' = Used + 1
    BY <1>1, RingTypes DEF Used
  <2> QED BY <2>1, <1>1, RingTypes
<1> QED BY <1>1, <1>2 DEF Pending, Ts, Count, Slot

(* Time passes without raw output.                                         *)
LEMMA GfxNoFrameIsGap ==
  ASSUME NEW c \in Counts, GfxNoFrame(c)
  PROVE  Abstract!Gap(c)
<1>1. /\ tick' = tick + c /\ Filling' = Filling
      /\ UNCHANGED <<available_frames, first_added, cache, outTs>>
  BY DEF GfxNoFrame, Filling, dataVars
<1> QED BY <1>1 DEF Abstract!Gap, Pending, Used, Ts, Count, Slot

(* Steps that neither fill nor give out a frame leave the queue alone.     *)
LEMMA QuietStutters ==
  ASSUME UNCHANGED <<dataVars, tick, outTs>>, Filling' = Filling
  PROVE  UNCHANGED <<Pending, tick, outTs>>
BY DEF dataVars, Pending, Used, Ts, Count, Slot

(* Every step of the threads is a step of the queue or leaves it alone.    *)
LEMMA RefinementStep == RingInv /\ [Next]_vars => [Abstract!QNext]_Abstract!qvars
<1> SUFFICES ASSUME RingInv, [Next]_vars PROVE Abstract!QNext \/ UNCHANGED <<Pending, tick, outTs>>
  BY DEF Abstract!qvars
<1>0. RingPart /\ Reader
  BY DEF RingInv, RingPart, TypeOK
<1>1. ASSUME NEW c \in Counts, LockFrame(c) PROVE Abstract!QNext
  BY <1>0, <1>1, LockFramePuts DEF Abstract!QNext
<1>2. ASSUME NEW c \in Counts, LockFrameFull(c) PROVE Abstract!QNext
  BY <1>0, <1>2, LockFrameFullExtends DEF Abstract!QNext
<1>3. ASSUME NEW c \in Counts, GfxNoFrame(c) PROVE Abstract!QNext
  BY <1>3, GfxNoFrameIsGap DEF Abstract!QNext
<1>4. CASE UnlockFrame
  BY <1>0, <1>4, UnlockFrameStutters
<1>5. CASE VidComplete
  <2>1. cur = first_added /\ Used >= 1
    BY <1>0, <1>5 DEF VidComplete, VidStep, Reader, Reading
  <2> QED BY <1>0, <1>5, <2>1, VidCompleteTakes DEF Abstract!QNext
<1>6. CASE VidRepeat
  <2>1. cur = first_added /\ Used >= 1
    BY <1>0, <1>6 DEF VidRepeat, VidRepeatWith, VidStep, Reader, Reading
  <2> QED BY <1>0, <1>6, <2>1, VidRepeatTakes DEF Abstract!QNext
<1>7. CASE GfxLoop
  <2>1. UNCHANGED <<dataVars, tick, outTs>> /\ Filling' = Filling
    BY <1>7 DEF GfxLoop, Filling
  <2> QED BY <2>1, QuietStutters
<1>8. CASE \/ VidWait \/ VidWoken \/ VidLoop \/ VidPick \/ VidLockInputs \/ VidScaleFail
           \/ VidCallback \/ VidSelfDisconnect \/ VidReturn \/ VidUnlockInputs
  <2>1. UNCHANGED <<dataVars, gfxVars, outTs>>
    BY <1>8 DEF VidWait, VidWoken, VidLoop, VidPick, VidLockInputs, VidScaleFail, VidCallback,
       VidSelfDisconnect, VidReturn, VidUnlockInputs
  <2> QED BY <2>1, QuietStutters DEF gfxVars, Filling
<1>9. CASE Stop \/ Join \/ (\E i \in Inputs : Connect(i) \/ Disconnect(i)) \/ UNCHANGED vars
  <2>1. UNCHANGED <<dataVars, gfxVars, outTs>>
    BY <1>9 DEF Stop, Join, Connect, Disconnect, vars
  <2> QED BY <2>1, QuietStutters DEF gfxVars, Filling
<1> QED
  BY <1>1, <1>2, <1>3, <1>4, <1>5, <1>6, <1>7, <1>8, <1>9 DEF Next, VidNext, GfxFrame

(* The empty ring is the empty queue.                                      *)
LEMMA RefinementInit == Init => Abstract!QInit
<1> SUFFICES ASSUME Init PROVE Abstract!QInit
  OBVIOUS
<1>1. RingPart /\ Used + Filling = 0
  BY RingInit DEF RingInv, RingPart, TypeOK, Init, Used, Filling
<1>2. Pending = <<>>
  BY <1>1, PendingSeq, EmptySeq
<1> QED BY <1>2 DEF Init, Abstract!QInit

(* The frame cache, its two threads and the semaphore implement the queue: *)
(* the ticks handed to video_output_lock_frame go out in order, none twice *)
(* and none left out, each from the slot its picture was copied to.        *)
THEOREM Implements == Spec => ImplementsQueue
<1>1. Init /\ [][Next]_vars /\ []RingInv => Abstract!QInit /\ [][Abstract!QNext]_Abstract!qvars
  BY RefinementInit, RefinementStep, PTL
<1> QED BY <1>1, RingInvariant, PTL DEF Spec, ImplementsQueue, Abstract!QSpec
=============================================================================
