----------------------------- MODULE EncoderPair -----------------------------
(***************************************************************************)
(* How an audio encoder and the video encoders of the outputs that use it  *)
(* find a common start: pairing in obs-output.c, the callbacks             *)
(* receive_video and receive_audio of obs-encoder.c.                       *)
(*                                                                         *)
(* The video thread and the audio thread call them with raw frames and     *)
(* blocks of samples.  Video waits until audio is there that reaches back  *)
(* to its frame; audio is kept until video has started, and what is older  *)
(* than the video is cut off.  Neither thread holds a lock that the other  *)
(* takes.  The life of one encoder, its mutexes and its codec are the      *)
(* subject of Encoder: here outputs start and stop one at a time, and what *)
(* an encoder does is one step unless the partner may interfere.           *)
(*                                                                         *)
(* Time is counted in units of which a sample takes SampleTime.  0 is no   *)
(* time, as in start_ts.                                                   *)
(***************************************************************************)
EXTENDS Integers, FiniteSets, SequencesExt

CONSTANTS
  Outputs, Videos, NoVideo,
  VideoOf,         (* the video encoder of each output; all share the audio *)
  SampleTime, Block, FrameSize,  (* samples per block and per encoded frame *)
  FrameTime,       (* of the video                                          *)
  Clocks,          (* where audio and video may be when encoders start      *)
  Lag,             (* by how much audio and video may be apart              *)
  Delay,           (* frames that the video codec may hold back             *)
  MaxStarts,       (* bounds: starts of an output, samples that audio keeps *)
  MaxInput,        (* until it starts, and those that it keeps while an     *)
  MaxAlone         (* output is between its two encoders                    *)

ASSUME EncoderPairAssumption ==
  /\ VideoOf \in [Outputs -> Videos] /\ NoVideo \notin Videos /\ "audio" \notin Outputs
  /\ {SampleTime, Block, FrameSize, FrameTime} \subseteq Nat \ {0}
  /\ Clocks \subseteq (Nat \ {0}) \X (Nat \ {0}) /\ Clocks # {}
  /\ {Lag, Delay, MaxStarts, MaxInput, MaxAlone} \subseteq Nat

VARIABLES
  audio,     (* the audio encoder                                           *)
  video,     (* each video encoder                                          *)
  a_ts,      (* the timestamps of the next block and the next frame         *)
  v_ts,
  pc,        (* each output, and the audio thread ("audio")                 *)
  starts

vars == <<audio, video, a_ts, v_ts, pc, starts>>

(* data: has it been initialised?  users: outputs that have started it.    *)
(* input: the times of the samples in audio_input_buffer; encoded: those   *)
(* of the samples the codec got.                                           *)
NewAudio == [data |-> FALSE, users |-> {}, paired |-> NoVideo, first_received |-> FALSE,
             first_raw_ts |-> 0, start_ts |-> 0, input |-> <<>>, encoded |-> <<>>]
NewVideo == [data |-> FALSE, users |-> {}, paired |-> FALSE, first_received |-> FALSE,
             start_ts |-> 0, frames |-> 0]

Init ==
  /\ audio = NewAudio /\ video = [v \in Videos |-> NewVideo]
  /\ \E c \in Clocks : a_ts = c[1] /\ v_ts = c[2]
  /\ pc = [t \in Outputs \union {"audio"} |-> "idle"] /\ starts = 0

At(t, l) == pc[t] = l
Go(t, l) == pc' = [pc EXCEPT ![t] = l]
Active(e) == e.users # {}

-----------------------------------------------------------------------------
(* An output starts, unless another is about to start or stop:             *)
(* obs_output_initialize_encoders with pair_encoders ...                   *)
Quiet == \A o \in Outputs : pc[o] \in {"idle", "running"}

Initialize(o) ==
  LET v == VideoOf[o]
      a1 == IF audio.data THEN audio ELSE [NewAudio EXCEPT !.data = TRUE]
      v1 == IF video[v].data THEN video[v] ELSE [NewVideo EXCEPT !.data = TRUE]
      pairs == /\ ~ Active(a1) /\ ~ Active(v1) /\ a1.paired = NoVideo /\ ~ v1.paired
  IN
  /\ At(o, "idle") /\ Quiet /\ starts < MaxStarts /\ starts' = starts + 1
  /\ audio' = IF pairs THEN [a1 EXCEPT !.paired = v] ELSE a1
  /\ video' = [video EXCEPT ![v] = IF pairs THEN [v1 EXCEPT !.paired = TRUE] ELSE v1]
  /\ Go(o, "start")
  /\ UNCHANGED <<a_ts, v_ts>>

(* ... and, when the connection stands, audio is started and then video    *)
(* (hook_data_capture); or there is no connection.                         *)
Abandon(o) ==
  /\ At(o, "start") /\ Go(o, "idle")
  /\ UNCHANGED <<audio, video, a_ts, v_ts, starts>>

StartAudio(o) ==
  /\ At(o, "start") /\ Go(o, "start_video")
  /\ audio' = [audio EXCEPT !.users = @ \union {o}]
  /\ UNCHANGED <<video, a_ts, v_ts, starts>>

StartVideo(o) ==
  /\ At(o, "start_video") /\ Go(o, "running")
  /\ video' = [video EXCEPT ![VideoOf[o]].users = @ \union {o}]
  /\ UNCHANGED <<audio, a_ts, v_ts, starts>>

(* It stops video first (end_data_capture_thread).  The last one to stop   *)
(* an encoder shuts it down, and only it: the partner keeps its side.      *)
StopVideo(o) ==
  LET v == VideoOf[o] IN
  /\ At(o, "running") /\ Quiet /\ Go(o, "stop_audio")
  /\ video' = [video EXCEPT ![v] =
                 IF @.users = {o} THEN NewVideo ELSE [video[v] EXCEPT !.users = @ \ {o}]]
  /\ UNCHANGED <<audio, a_ts, v_ts, starts>>

(* The last stop waits for the audio thread's callback.  When nothing is   *)
(* left of the encoders, time may go on in between.                        *)
StopAudio(o) ==
  /\ At(o, "stop_audio") /\ At("audio", "idle") /\ Go(o, "idle")
  /\ audio' = IF audio.users = {o} THEN NewAudio ELSE [audio EXCEPT !.users = @ \ {o}]
  /\ IF Active(audio') \/ \E v \in Videos : Active(video[v]) THEN UNCHANGED <<a_ts, v_ts>>
     ELSE \E c \in Clocks : a_ts' = c[1] /\ v_ts' = c[2]
  /\ UNCHANGED <<video, starts>>

-----------------------------------------------------------------------------
(* Mutant: the frame waits for audio that has started, which waits for it. *)
WaitsForAudioStart(e) == ~ e.first_received /\ e.paired /\ audio.start_ts = 0

(* The video thread: receive_video of every encoder with the next frame.   *)
(* Until the codec has given its first packet, each frame is looked at     *)
(* again.                                                                  *)
WaitsForAudio(e) ==
  ~ e.first_received /\ e.paired /\ (~ audio.first_received \/ audio.first_raw_ts > v_ts)

Receive(e, received) ==
  IF ~ Active(e) \/ WaitsForAudio(e) THEN e
  ELSE [e EXCEPT !.start_ts = IF @ = 0 THEN v_ts ELSE @,
                 !.first_received = @ \/ received \/ e.frames >= Delay,
                 !.frames = IF @ <= Delay THEN @ + 1 ELSE @]

(* Frames and blocks are of interest as long as an encoder has not started *)
(* or the audio codec has got nothing yet (bound).                         *)
VideoPending == \E v \in Videos : Active(video[v]) /\ ~ video[v].first_received
AudioPending == Active(audio) /\ audio.encoded = <<>>

ReceiveVideo ==
  /\ VideoPending \/ AudioPending
  /\ v_ts <= a_ts + Lag
  /\ \E received \in BOOLEAN : video' = [v \in Videos |-> Receive(video[v], received)]
  /\ v_ts' = v_ts + FrameTime
  /\ UNCHANGED <<audio, a_ts, pc, starts>>

-----------------------------------------------------------------------------
(* The audio thread: receive_audio with the next block.                    *)
ReceiveAudio ==
  /\ At("audio", "idle") /\ Active(audio) /\ (VideoPending \/ AudioPending)
  /\ a_ts <= v_ts + Lag /\ Len(audio.input) < (IF Quiet THEN MaxInput ELSE MaxAlone)
  /\ audio' = IF audio.first_received THEN audio ELSE [audio EXCEPT !.first_raw_ts = a_ts]
  /\ Go("audio", IF audio.first_received THEN "buffer" ELSE "first")
  /\ UNCHANGED <<video, a_ts, v_ts, starts>>

FirstReceived ==
  /\ At("audio", "first") /\ Go("audio", "buffer")
  /\ audio' = [audio EXCEPT !.first_received = TRUE, !.input = <<>>]
  /\ UNCHANGED <<video, a_ts, v_ts, starts>>

Samples(ts) == [i \in 1 .. Block |-> ts + (i - 1) * SampleTime]

(* calc_offset_size, in samples                                            *)
Offset(v_start_ts, a_start_ts) == (v_start_ts - a_start_ts) \div SampleTime

(* push_back_audio                                                         *)
Cut(samples, offset) == SubSeq(samples, offset + 1, Len(samples))

(* Mutant: what is buffered is kept as it is.                              *)
BufferedUncut ==
  LET v_start_ts == video[audio.paired].start_ts
      block == Samples(a_ts)
      Wait == [input |-> audio.input \o block, start_ts |-> 0]
  IN
  IF audio.start_ts # 0 \/ audio.paired = NoVideo
  THEN [input |-> audio.input \o block,
        start_ts |-> IF audio.start_ts = 0 THEN a_ts ELSE audio.start_ts]
  ELSE IF v_start_ts = 0 \/ a_ts + Block * SampleTime <= v_start_ts THEN Wait
  ELSE [start_ts |-> v_start_ts,
        input |-> IF a_ts <= v_start_ts THEN Cut(block, Offset(v_start_ts, a_ts))
                  ELSE audio.input \o block]

(* buffer_audio: the input and start_ts afterwards; no start_ts if audio   *)
(* is still to wait.                                                       *)
Buffered ==
  LET v_start_ts == video[audio.paired].start_ts
      block == Samples(a_ts)
      Wait == [input |-> audio.input \o block, start_ts |-> 0]
      first == audio.first_raw_ts
  IN
  IF audio.start_ts # 0 \/ audio.paired = NoVideo
  THEN [input |-> audio.input \o block,
        start_ts |-> IF audio.start_ts = 0 THEN a_ts ELSE audio.start_ts]
  ELSE IF v_start_ts = 0 \/ a_ts + Block * SampleTime <= v_start_ts THEN Wait
  ELSE [start_ts |-> v_start_ts,
        input |-> IF a_ts <= v_start_ts THEN Cut(block, Offset(v_start_ts, a_ts))
                  ELSE Cut(audio.input, IF first < v_start_ts THEN Offset(v_start_ts, first)
                                        ELSE 0) \o block]

(* send_audio_data for each complete frame; encoded keeps the first.       *)
BufferAudio ==
  LET b == Buffered
      whole == IF b.start_ts = 0 THEN 0 ELSE (Len(b.input) \div FrameSize) * FrameSize
  IN
  /\ At("audio", "buffer") /\ Go("audio", "idle")
  /\ audio' = [audio EXCEPT !.start_ts = b.start_ts, !.input = Cut(b.input, whole),
                            !.encoded = IF @ = <<>> THEN SubSeq(b.input, 1, whole) ELSE @]
  /\ a_ts' = a_ts + Block * SampleTime
  /\ UNCHANGED <<video, v_ts, starts>>

-----------------------------------------------------------------------------
VideoThread == ReceiveVideo
AudioThread == ReceiveAudio \/ FirstReceived \/ BufferAudio
OutputSteps(o) == StartAudio(o) \/ StartVideo(o) \/ StopAudio(o)

Next ==
  \/ \E o \in Outputs : Initialize(o) \/ Abandon(o) \/ StopVideo(o) \/ OutputSteps(o)
  \/ VideoThread \/ AudioThread

Spec == Init /\ [][Next]_vars

(* Both threads go on as long as they are of interest; calls return.       *)
FairSpec ==
  /\ Spec /\ WF_vars(VideoThread) /\ WF_vars(AudioThread)
  /\ \A o \in Outputs : WF_vars(OutputSteps(o))

-----------------------------------------------------------------------------
TypeOK ==
  /\ audio \in [data : BOOLEAN, users : SUBSET Outputs, paired : Videos \union {NoVideo},
                first_received : BOOLEAN, first_raw_ts : Nat, start_ts : Nat,
                input : Seq(Nat \ {0}), encoded : Seq(Nat \ {0})]
  /\ video \in [Videos -> [data : BOOLEAN, users : SUBSET Outputs, paired : BOOLEAN,
                           first_received : BOOLEAN, start_ts : Nat, frames : Nat]]
  /\ a_ts \in Nat /\ v_ts \in Nat /\ starts \in 0 .. MaxStarts
  /\ \A o \in Outputs : pc[o] \in {"idle", "start", "start_video", "running", "stop_audio"}
  /\ pc["audio"] \in {"idle", "first", "buffer"}

(* The k-th sample that is encoded gets the time start_ts plus k - 1       *)
(* samples, and that is when it was captured, give or take less than one   *)
(* sample, however the threads interleave and whatever is cut off.         *)
InPlace ==
  \A k \in DOMAIN audio.encoded :
    LET time == audio.start_ts + (k - 1) * SampleTime
    IN  time - SampleTime < audio.encoded[k] /\ audio.encoded[k] <= time

(* Partners that both run have started at the same time, video with a      *)
(* frame that the audio covers.                                            *)
Together ==
  audio.paired # NoVideo =>
    LET v == video[audio.paired] IN
    v.paired /\ v.start_ts # 0 =>
      /\ audio.start_ts # 0 => audio.start_ts = v.start_ts
      /\ audio.first_received => audio.first_raw_ts <= v.start_ts

(* Sound and picture fit (obs-encoder.c:844, 899, 930).                    *)
InSync == TypeOK /\ InPlace /\ Together

(* Video that waits for audio and audio that waits for video do not wait   *)
(* for each other: an output that runs gets both, or is stopped            *)
(* (obs-encoder.c:844, 935).                                               *)
Served(o) == video[VideoOf[o]].first_received /\ audio.encoded # <<>>
BothStart == \A o \in Outputs : At(o, "running") ~> Served(o) \/ ~ At(o, "running")
=============================================================================
