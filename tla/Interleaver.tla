----------------------------- MODULE Interleaver -----------------------------
(***************************************************************************)
(* The interleaver of an encoded output: interleave_packets of             *)
(* src/core/obs-output.c with all it calls.                                *)
(*                                                                         *)
(* Two encoder threads hand over packets in an order of their own, each    *)
(* stream in its order.  Under interleaved_mutex the output collects them, *)
(* looks for a place where audio and video can start together, makes both  *)
(* start at 0 there, and from then on sends one packet per arrival.  A     *)
(* packet's dts is its dts_usec: system time until the start, relative to  *)
(* the stream's offset after it.                                           *)
(*                                                                         *)
(* Stream 0 is the video, 1 .. Tracks are the audio tracks.                *)
(***************************************************************************)
EXTENDS Integers, Sequences, SequencesExt

CONSTANTS Tracks,       (* num_audio_mixes                                 *)
          VideoStep, AudioStep,     (* length of a frame                   *)
          Reorder,      (* pts - dts of the first video frame: B-frames    *)
          Origins,      (* the streams' first system timestamps            *)
          MaxPackets,   (* bound: packets of each stream                   *)
          MaxRestarts   (* bound: how often the output begins again        *)

ASSUME StepsAssumption ==
  /\ {Tracks, VideoStep, AudioStep, MaxPackets} \subseteq Nat \ {0}
  /\ {Reorder, MaxRestarts} \subseteq Nat

Video == 0
Audio == 1 .. Tracks
Streams == {Video} \union Audio
Step(s) == IF s = Video THEN VideoStep ELSE AudioStep

ASSUME OriginsAssumption == Origins \subseteq [Streams -> Nat \ {0}]

VARIABLES
  origin, made,                       (* the encoders: first timestamp and *)
                                      (* number of packets of each stream  *)
  sent_first_packet,                  (* a keyframe has reached the output *)
  packets,                            (* interleaved_packets               *)
  received_video, received_audio,
  highest_video_ts, highest_audio_ts,
  offset,                             (* video_offset and audio_offsets    *)
  sent,                               (* what encoded_packet was given     *)
  restarts

encoderVars == <<origin, made, sent_first_packet>>
receivedVars == <<received_video, received_audio>>
packetVars == <<encoderVars, packets, receivedVars, highest_video_ts, highest_audio_ts,
                offset, sent, restarts>>

(* reset_packet_data: of the audio offsets only the first is reset.        *)
Reset ==
  /\ offset' = [offset EXCEPT ![Video] = 0, ![1] = 0]
  /\ packets' = <<>> /\ sent' = <<>>
  /\ received_video' = FALSE /\ received_audio' = FALSE
  /\ highest_video_ts' = 0 /\ highest_audio_ts' = 0

InterleaverInit ==
  /\ origin \in Origins /\ made = [s \in Streams |-> 0] /\ sent_first_packet = FALSE
  /\ packets = <<>> /\ sent = <<>>
  /\ received_video = FALSE /\ received_audio = FALSE
  /\ highest_video_ts = 0 /\ highest_audio_ts = 0
  /\ offset = [s \in Streams |-> 0]
  /\ restarts = 0

----------------------------------------------------------------------------
(* The buffer. *)

FirstOf(q, s) == SelectInSeq(q, LAMBDA p : p.stream = s)
LastOf(q, s) == SelectLastInSeq(q, LAMBDA p : p.stream = s)
HasVideo(q) == FirstOf(q, Video) # 0
HasAudio(q) == \A s \in Audio : FirstOf(q, s) # 0
DiscardTo(q, i) == SubSeq(q, i, Len(q))

Precedes(p, c) == p.dts < c.dts \/ (p.dts = c.dts /\ p.stream = Video)

(* insert_interleaved_packet: by timestamp, video before audio.            *)
Insert(q, p) ==
  LET i == SelectInSeq(q, LAMBDA c : Precedes(p, c))
  IN  IF i = 0 THEN Append(q, p) ELSE InsertAt(q, i, p)

(* resort_interleaved_packets *)
Resort(q) ==
  LET sorted[n \in 0 .. Len(q)] == IF n = 0 THEN <<>> ELSE Insert(sorted[n - 1], q[n])
  IN  sorted[Len(q)]

Relative(p, o) == [p EXCEPT !.dts = @ - o[p.stream]]

Distance(p, r) == IF p.dts < r.dts THEN r.dts - p.dts ELSE p.dts - r.dts
Larger(a, b) == IF a < b THEN b ELSE a

(* get_interleaved_start_idx: where audio and video are closest together.  *)
StartIdx(q) ==
  LET v == FirstOf(q, Video)
      A == {i \in 1 .. Len(q) : q[i].stream # Video}
      c == CHOOSE i \in A : \A j \in A :
             \/ Distance(q[i], q[v]) < Distance(q[j], q[v])
             \/ Distance(q[i], q[v]) = Distance(q[j], q[v]) /\ i <= j
  IN  IF v < c THEN v ELSE c

(* prune_interleaved_packets of a buffer with all streams: away with the   *)
(* first packet of each when the (last) track's is too late.               *)
Prune(q) ==
  LET late == q[FirstOf(q, Tracks)].dts - q[FirstOf(q, Video)].dts
      last == CHOOSE i \in {FirstOf(q, s) : s \in Streams} :
                \A s \in Streams : FirstOf(q, s) <= i
  IN  DiscardTo(q, IF late > VideoStep THEN last + 1 ELSE StartIdx(q))

(* The outcome of one attempt to start: the buffer that is left, whether   *)
(* video and audio still count as received, and where each stream starts.  *)
NotYet(q, video, audio) ==
  [packets |-> q, video |-> video, audio |-> audio, start |-> [s \in Streams |-> 0]]

(* get_audio_and_video_packets on the buffer the outcome is about.         *)
WithPackets(q) == NotYet(q, HasVideo(q), HasAudio(q))

Started(q) ==
  [WithPackets(q) EXCEPT !.start = [s \in Streams |-> q[FirstOf(q, s)].dts]]

(* Mutant: when the audio is too short, the video is asked for again too.  *)
InitializeForgetsVideo(q) ==
  IF ~ (HasVideo(q) /\ HasAudio(q)) THEN WithPackets(q)
  ELSE IF \E s \in Audio : q[LastOf(q, s)].dts < q[FirstOf(q, Video)].dts
  THEN NotYet(q, FALSE, FALSE)
  ELSE LET r == DiscardTo(q, StartIdx(q))
       IN  IF HasVideo(r) /\ HasAudio(r) THEN Started(r) ELSE WithPackets(r)

(* initialize_interleaved_packets, up to the new offsets.                  *)
Initialize(q) ==
  IF ~ (HasVideo(q) /\ HasAudio(q)) THEN WithPackets(q)
  ELSE IF \E s \in Audio : q[LastOf(q, s)].dts < q[FirstOf(q, Video)].dts
  THEN NotYet(q, TRUE, FALSE)
  ELSE LET r == DiscardTo(q, StartIdx(q))
       IN  IF HasVideo(r) /\ HasAudio(r) THEN Started(r) ELSE WithPackets(r)

(* Mutant: what comes too early is not pruned.                             *)
AttemptNoPrune(q) ==
  IF ~ HasVideo(q) THEN NotYet(q, FALSE, TRUE)
  ELSE IF ~ HasAudio(q) THEN NotYet(q, TRUE, FALSE)
  ELSE Initialize(q)

(* prune_interleaved_packets, and when it succeeds the initialisation.     *)
Attempt(q) ==
  IF ~ HasVideo(q) THEN NotYet(q, FALSE, TRUE)
  ELSE IF ~ HasAudio(q) THEN NotYet(q, TRUE, FALSE)
  ELSE Initialize(Prune(q))

----------------------------------------------------------------------------
(* interleave_packets, as the arrival of one packet finds the output.      *)

(* send_interleaved: one packet, once the other stream is further on.      *)
Send(q, highest_video, highest_audio) ==
  IF (IF Head(q).stream = Video THEN highest_audio ELSE highest_video) > Head(q).dts
  THEN packets' = Tail(q) /\ sent' = Append(sent, Head(q))
  ELSE packets' = q /\ UNCHANGED sent

(* set_higher_ts *)
HigherVideo(p) ==
  IF p.stream = Video THEN Larger(highest_video_ts, p.dts) ELSE highest_video_ts
HigherAudio(p) ==
  IF p.stream # Video THEN Larger(highest_audio_ts, p.dts) ELSE highest_audio_ts

(* Mutant: whether there was video before is not asked.                    *)
DiscardUnusedAlways(p) ==
  /\ p.stream = Video /\ ~ p.key
  /\ LET i == SelectInSeq(packets, LAMBDA c : c.dts >= p.dts)
     IN  packets' = IF i = 0 THEN <<>> ELSE DiscardTo(packets, i)
  /\ UNCHANGED <<receivedVars, highest_video_ts, highest_audio_ts, offset, sent>>

(* No video yet, and this frame cannot be the first: the audio before it   *)
(* is of no use either (discard_unused_audio_packets).                     *)
DiscardUnused(p) ==
  /\ ~ received_video /\ p.stream = Video /\ ~ p.key
  /\ LET i == SelectInSeq(packets, LAMBDA c : c.dts >= p.dts)
     IN  packets' = IF i = 0 THEN <<>> ELSE DiscardTo(packets, i)
  /\ UNCHANGED <<receivedVars, highest_video_ts, highest_audio_ts, offset, sent>>

Useful(p) == received_video \/ p.stream # Video \/ p.key

(* check_received *)
NowVideo(p) == received_video \/ p.stream = Video
NowAudio(p) == received_audio \/ p.stream # Video

(* Audio or video is still missing.                                        *)
Collect(p) ==
  /\ Useful(p) /\ ~ (NowVideo(p) /\ NowAudio(p))
  /\ received_video' = NowVideo(p) /\ received_audio' = NowAudio(p)
  /\ packets' = Insert(packets, p)
  /\ highest_video_ts' = HigherVideo(p) /\ highest_audio_ts' = HigherAudio(p)
  /\ UNCHANGED <<offset, sent>>

(* Mutant: the highest timestamps are left as they were.                   *)
BeginUnshifted(r, p) ==
  LET o == [r.start EXCEPT ![Video] = @ + Reorder]
  IN  /\ offset' = o
      /\ highest_video_ts' = HigherVideo(p) /\ highest_audio_ts' = HigherAudio(p)
      /\ Send(Resort([i \in 1 .. Len(r.packets) |-> Relative(r.packets[i], o)]),
              highest_video_ts', highest_audio_ts')

(* The streams start: video with its first pts at 0, audio with its dts.   *)
Begin(r, p) ==
  LET o == [r.start EXCEPT ![Video] = @ + Reorder]
  IN  /\ offset' = o
      /\ highest_video_ts' = HigherVideo(p) - r.start[Video]
      /\ highest_audio_ts' = HigherAudio(p) - r.start[1]
      /\ Send(Resort([i \in 1 .. Len(r.packets) |-> Relative(r.packets[i], o)]),
              highest_video_ts', highest_audio_ts')

(* Both have just been received: try to start.                             *)
TryStart(p) ==
  /\ Useful(p) /\ NowVideo(p) /\ NowAudio(p) /\ ~ (received_video /\ received_audio)
  /\ LET r == Attempt(Insert(packets, p))
     IN  /\ received_video' = r.video /\ received_audio' = r.audio
         /\ \/ r.video /\ r.audio /\ Begin(r, p)
            \/ /\ ~ (r.video /\ r.audio)
               /\ packets' = r.packets
               /\ highest_video_ts' = HigherVideo(p) /\ highest_audio_ts' = HigherAudio(p)
               /\ UNCHANGED <<offset, sent>>

(* Started: the packet joins the buffer, and one leaves it.                *)
Forward(p) ==
  /\ received_video /\ received_audio
  /\ LET r == Relative(p, offset)
     IN  /\ highest_video_ts' = HigherVideo(r) /\ highest_audio_ts' = HigherAudio(r)
         /\ Send(Insert(packets, r), highest_video_ts', highest_audio_ts')
  /\ UNCHANGED <<receivedVars, offset>>

InterleavePackets(p) == DiscardUnused(p) \/ Collect(p) \/ TryStart(p) \/ Forward(p)

----------------------------------------------------------------------------
(* The encoders: do_encode, send_packet and send_first_video_packet.       *)

Packet(s, key) ==
  [stream |-> s, n |-> made[s], dts |-> origin[s] + made[s] * Step(s), key |-> key]

Encode(s) ==
  /\ made[s] < MaxPackets
  /\ made' = [made EXCEPT ![s] = @ + 1]
  /\ UNCHANGED <<origin, restarts>>

(* The video encoder sends nothing before a keyframe.                      *)
EncodeVideo(key) ==
  /\ Encode(Video)
  /\ sent_first_packet \/ key
  /\ sent_first_packet' = TRUE
  /\ InterleavePackets(Packet(Video, key))

(* The audio thread serves the tracks in turn.                             *)
EncodeAudio(s) ==
  /\ \A t \in Audio : made[t] = IF t < s THEN made[s] + 1 ELSE made[s]
  /\ Encode(s)
  /\ UNCHANGED sent_first_packet
  /\ InterleavePackets(Packet(s, TRUE))

(* hook_data_capture of the next start; the encoders have run on for       *)
(* another output.                                                         *)
Restart ==
  /\ restarts < MaxRestarts
  /\ Reset
  /\ restarts' = restarts + 1
  /\ sent_first_packet' = FALSE
  /\ UNCHANGED <<origin, made>>

InterleaverNext ==
  \/ \E key \in BOOLEAN : EncodeVideo(key)
  \/ \E s \in Audio : EncodeAudio(s)
  \/ Restart

InterleaverSpec == InterleaverInit /\ [][InterleaverNext]_packetVars

----------------------------------------------------------------------------
(* Properties. *)

PacketsOf(S) ==
  [stream : S, n : 0 .. MaxPackets - 1, dts : Int, key : BOOLEAN]

PacketTypes ==
  /\ origin \in Origins /\ made \in [Streams -> 0 .. MaxPackets]
  /\ {sent_first_packet, received_video, received_audio} \subseteq BOOLEAN
  /\ ToSet(packets) \union ToSet(sent) \subseteq PacketsOf(Streams)
  /\ highest_video_ts \in Nat /\ highest_audio_ts \in Nat /\ offset \in [Streams -> Int]
  /\ sent # <<>> => received_video /\ received_audio

(* What is sent has ascending timestamps ("this ensures that the           *)
(* timestamps are monotonic", send_interleaved).                           *)
Monotonic == \A i, j \in 1 .. Len(sent) : i < j => sent[i].dts <= sent[j].dts

(* p may be sent before what stream s has at time d.  A frame's pts is     *)
(* what its stream starts from, its dts what it is sorted by: audio may    *)
(* pass video by less than lies between the two.                           *)
Goes(p, s, d) ==
  \/ p.dts <= d
  \/ p.stream # Video /\ s = Video /\ p.dts < d + Reorder

(* No timestamp goes back, but for audio ahead of reordered video.         *)
AlmostMonotonic ==
  \A i, j \in 1 .. Len(sent) : i < j => Goes(sent[i], sent[j].stream, sent[j].dts)

(* From the start on every stream is complete and in order: what was sent  *)
(* of it, then what is buffered of it, up to the packet made last.         *)
NoGaps ==
  received_video /\ received_audio =>
    LET h == sent \o packets
    IN  /\ \A s \in Streams : \E first \in 0 .. made[s] - 1 :
             {h[i].n : i \in {i \in DOMAIN h : h[i].stream = s}} = first .. made[s] - 1
        /\ \A i, j \in DOMAIN h : i < j /\ h[i].stream = h[j].stream => h[i].n < h[j].n

(* The buffer and what has left it hold well-formed packets, none of them  *)
(* lost, repeated or overtaken by a later one (interleave_packets,         *)
(* send_interleaved).                                                      *)
StreamsInOrder == PacketTypes /\ AlmostMonotonic /\ NoGaps

(* All streams are made to start at 0; what began no more than a frame     *)
(* apart stays so, of whichever is longer, so the lips stay in sync.       *)
InSync ==
  received_video /\ received_audio =>
    \A s \in Audio :
      Distance([dts |-> offset[s]], [dts |-> offset[Video] - Reorder])
        <= Larger(VideoStep, AudioStep)

(* The output puts its start off only for a reason the next packets can    *)
(* remove: a stream has nothing in the buffer, or its audio ends before    *)
(* the video begins.                                                       *)
StartsWhenPossible ==
  (received_video /\ received_audio) \/
    \E s \in Audio :
      LET a == LastOf(packets, s)
          v == FirstOf(packets, Video)
      IN  a = 0 \/ v = 0 \/ packets[a].dts < packets[v].dts

(* The first video frame sent is a keyframe ("if first video frame is not  *)
(* a keyframe, discard until received", interleave_packets).               *)
StartsWithKeyframe ==
  LET i == FirstOf(sent, Video) IN i # 0 => sent[i].key
=============================================================================
