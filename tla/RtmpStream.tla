----------------------------- MODULE RtmpStream ------------------------------
(***************************************************************************)
(* The packet queue of the RTMP stream: rtmp-stream.c of obs-outputs.      *)
(*                                                                         *)
(* While the output captures, encoder threads hand packets to              *)
(* rtmp_stream_data, one at a time; the send thread takes them, one per    *)
(* token of send_sem, and writes them to the connection.  When the queue   *)
(* grows too long, video is thrown out of it by priority, and refused      *)
(* until a frame comes that needs none of what is missing.  The life of    *)
(* the output around it is the subject of Output: here the capture begins  *)
(* when the connection stands and ends some time after the send thread     *)
(* has asked for it, and the next connection comes after that.             *)
(*                                                                         *)
(* Time is counted in video frames.  Audio has the time of the next frame. *)
(***************************************************************************)
EXTENDS Integers, FiniteSets, SequencesExt

CONSTANTS
  Few,             (* with fewer packets in the queue none are dropped: 5   *)
  DropThreshold,   (* drop_threshold_usec and pframe_drop_threshold_usec,   *)
  PDropThreshold,  (* in frames                                             *)
  Faults,          (* what may go wrong: "network", "metadata", "timeout",  *)
                   (* "stall"                                               *)
  Streams,         (* the sequences of kinds of packets that encoders may   *)
                   (* produce per connection, before keyframes only (bound) *)
  MaxConnections   (* bound                                                 *)

(* OBS_NAL_PRIORITY_...: disposable frames (LOW is dropped with them),     *)
(* frames that others refer to, keyframes.                                 *)
Disposable == 0
High == 2
Highest == 3
Audio == 4   (* the kind of a packet without priority *)
Kinds == {Disposable, High, Highest, Audio}
NoFrame == 0

ASSUME RtmpStreamAssumption ==
  /\ Few \in Nat \ {0} /\ DropThreshold \in Nat /\ PDropThreshold \in Nat
  /\ DropThreshold < PDropThreshold
  /\ Faults \subseteq {"network", "metadata", "timeout", "stall"}
  /\ Streams \subseteq Seq(Kinds) /\ \A s \in Streams : s # <<>> /\ s[1] = Highest
  /\ MaxConnections \in Nat

VARIABLES
  packets, min_priority, last_dts, dropped_frames,  (* struct rtmp_stream   *)
  active, disconnected, stop_event, stop_ts,
  send_sem, timeout,  (* tokens; is it later than shutdown_timeout_ts?      *)
  capture,            (* "off", "on", "ending"                              *)
  pc,                 (* the threads "connect", "send", "encoder", "user"   *)
  hand,               (* the packet that the send and the encoder thread    *)
                      (* hold, as a sequence of at most one                 *)
  dts, ref,           (* the encoder: number of the next frame, and of the  *)
                      (* last frame that the next may refer to              *)
  shown,              (* history: the last such frame that was sent         *)
  sent,               (* history: how many frames (FALSE) and how much      *)
                      (* audio (TRUE) the send thread has taken             *)
  orphans,            (* history: send threads left behind                  *)
  stalled,            (* has an encoder failed, so that no more packets come?*)
  stream, count, connections

queueVars == <<packets, min_priority, last_dts, dropped_frames>>
flagVars == <<active, disconnected, stop_event, stop_ts>>
encoderVars == <<dts, ref, stalled, stream, count>>
historyVars == <<shown, sent, orphans>>
vars == <<queueVars, flagVars, send_sem, timeout, capture, pc, hand, encoderVars, historyVars,
          connections>>

Threads == {"connect", "send", "encoder", "user"}
Labels == {"idle", "send", "metadata", "wait", "next", "close", "free", "add", "post", "signal"}
Sending == pc["send"] \in {"wait", "next", "send"}

(* rtmp_stream_create *)
Init ==
  /\ packets = <<>> /\ min_priority = 0 /\ last_dts = 0 /\ dropped_frames = 0
  /\ active = FALSE /\ disconnected = FALSE /\ stop_event = FALSE /\ stop_ts = 0
  /\ send_sem = 0 /\ timeout = FALSE /\ capture = "off"
  /\ pc = [t \in Threads |-> "idle"] /\ hand = [send |-> <<>>, encoder |-> <<>>]
  /\ dts = 1 /\ ref = NoFrame /\ stalled = FALSE /\ stream = <<>> /\ count = 0
  /\ shown = NoFrame /\ sent = [a \in BOOLEAN |-> 0] /\ orphans = 0
  /\ connections = 0

At(t, l) == pc[t] = l
Go(t, l) == pc' = [pc EXCEPT ![t] = l]

-----------------------------------------------------------------------------
(* The connect thread: rtmp_stream_start, init_connect.  A start comes     *)
(* when the capture has ended; a stream that was told to stop is waited    *)
(* for, and one that was cut has ended by the time of the retry.           *)
InitConnect ==
  /\ At("connect", "idle") /\ connections < MaxConnections
  /\ capture = "off" /\ (At("send", "idle") \/ (At("send", "wait") /\ ~ stop_event))
  /\ packets' = <<>> /\ disconnected' = FALSE /\ dropped_frames' = 0 /\ min_priority' = 0
  /\ dts' = 1 /\ ref' = NoFrame /\ stalled' = FALSE /\ stream' \in Streams /\ count' = 0
  /\ shown' = NoFrame
  /\ sent' = [a \in BOOLEAN |-> 0] /\ timeout' = FALSE /\ connections' = connections + 1
  /\ Go("connect", "send")
  /\ UNCHANGED <<last_dts, active, stop_event, stop_ts, send_sem, capture, hand, orphans>>

(* try_connect may fail before init_send, which replaces the semaphore and *)
(* creates the send thread.                                                *)
ConnectFails ==
  /\ At("connect", "send") /\ "network" \in Faults /\ Go("connect", "idle")
  /\ UNCHANGED <<queueVars, flagVars, send_sem, timeout, capture, hand, encoderVars, historyVars,
                 connections>>

InitSend ==
  /\ At("connect", "send")
  /\ send_sem' = 0 /\ active' = TRUE
  /\ orphans' = orphans + (IF At("send", "idle") THEN 0 ELSE 1)
  /\ pc' = [pc EXCEPT !["connect"] = "metadata", !["send"] = "wait"]
  /\ UNCHANGED <<queueVars, disconnected, stop_event, stop_ts, timeout, capture, hand,
                 encoderVars, shown, sent, connections>>

(* send_meta_data; then the capture begins, or the output tries again.     *)
Metadata ==
  /\ At("connect", "metadata") /\ Go("connect", "idle")
  /\ \/ capture' = "on"
     \/ "metadata" \in Faults /\ UNCHANGED capture
  /\ UNCHANGED <<queueVars, flagVars, send_sem, timeout, hand, encoderVars, historyVars,
                 connections>>

-----------------------------------------------------------------------------
(* The encoder threads: rtmp_stream_data.  A stream begins with a keyframe.*)
Packet(k) ==
  [audio |-> k = Audio, priority |-> IF k = Audio THEN Highest ELSE k, dts |-> dts, ref |-> ref]

Frame(p) == ~ p.audio /\ p.priority < Highest

(* Beyond the bound only the keyframes come that end the stream.           *)
Produces(k) ==
  IF count < Len(stream) THEN k = stream[count + 1]
  ELSE k = Highest /\ stop_event /\ Sending /\ \A p \in Range(packets) : p.dts < stop_ts

Produce(k) ==
  /\ At("encoder", "idle") /\ capture # "off" /\ ~ stalled /\ Produces(k)
  /\ count' = count + 1
  /\ dts' = IF k = Audio THEN dts ELSE dts + 1
  /\ ref' = IF k \in {High, Highest} THEN dts ELSE ref
  /\ IF disconnected \/ ~ active THEN UNCHANGED <<pc, hand>>
     ELSE /\ hand' = [hand EXCEPT !.encoder = <<Packet(k)>>]
          /\ Go("encoder", "add")
  /\ UNCHANGED <<queueVars, flagVars, send_sem, timeout, capture, stalled, stream, historyVars,
                 connections>>

(* full_stop in obs-encoder.c                                              *)
Stall ==
  /\ "stall" \in Faults /\ At("encoder", "idle") /\ capture = "on" /\ ~ stalled
  /\ stalled' = TRUE
  /\ UNCHANGED <<queueVars, flagVars, send_sem, timeout, capture, pc, hand, dts, ref, stream, count,
                 historyVars, connections>>

(* drop_frames, given the queue: what stays in it, and the buffer it is    *)
(* copied to, one packet after the other.                                  *)
Stays(p, priority) == p.audio \/ p.priority >= priority

new_buf(q, priority) ==
  LET buf[i \in 0 .. Len(q)] ==
        IF i = 0 THEN <<>>
        ELSE IF Stays(q[i], priority) THEN Append(buf[i - 1], q[i]) ELSE buf[i - 1]
  IN  buf

drop_frames(q, priority) == new_buf(q, priority)[Len(q)]

(* check_to_drop_frames: the queue is too long if the first frame in it is *)
(* older than the threshold.                                               *)
TooLong(q, threshold) ==
  /\ Len(q) >= Few
  /\ \E i \in DOMAIN q :
       /\ Frame(q[i]) /\ \A j \in 1 .. i - 1 : ~ Frame(q[j])
       /\ last_dts - q[i].dts > threshold

(* Mutant: frames are dropped, but what refers to them is accepted.        *)
check_to_drop_frames_forgets(s, threshold, priority) ==
  IF ~ TooLong(s.queue, threshold) THEN s
  ELSE LET rest == drop_frames(s.queue, priority)
       IN  [s EXCEPT !.queue = rest, !.dropped = @ + Len(s.queue) - Len(rest)]

check_to_drop_frames(s, threshold, priority) ==
  IF ~ TooLong(s.queue, threshold) THEN s
  ELSE LET rest == drop_frames(s.queue, priority)
       IN  [queue   |-> rest,
            min     |-> IF s.min < priority THEN priority ELSE s.min,
            dropped |-> s.dropped + Len(s.queue) - Len(rest)]

add_video_packet(p) ==
  LET b == check_to_drop_frames([queue |-> packets, min |-> min_priority,
                                 dropped |-> dropped_frames], DropThreshold, High)
      s == check_to_drop_frames(b, PDropThreshold, Highest)
  IN  IF p.priority < s.min THEN [s EXCEPT !.dropped = @ + 1]
      ELSE [s EXCEPT !.queue = Append(@, p), !.min = 0]

(* Under packets_mutex.                                                    *)
Add ==
  LET p == hand.encoder[1] IN
  /\ At("encoder", "add")
  /\ hand' = [hand EXCEPT !.encoder = <<>>]
  /\ IF disconnected
     THEN Go("encoder", "idle") /\ UNCHANGED queueVars
     ELSE LET s == IF p.audio
                   THEN [queue |-> Append(packets, p), min |-> min_priority,
                         dropped |-> dropped_frames]
                   ELSE add_video_packet(p)
              accepted == s.queue # <<>> /\ Last(s.queue) = p
          IN  /\ packets' = s.queue /\ min_priority' = s.min /\ dropped_frames' = s.dropped
              /\ last_dts' = IF accepted /\ ~ p.audio THEN p.dts ELSE last_dts
              /\ Go("encoder", IF accepted THEN "post" ELSE "idle")
  /\ UNCHANGED <<flagVars, send_sem, timeout, capture, encoderVars, historyVars, connections>>

(* Mutant: an event instead of a semaphore.                                *)
PostEvent ==
  /\ At("encoder", "post") /\ send_sem' = 1 /\ Go("encoder", "idle")
  /\ UNCHANGED <<queueVars, flagVars, timeout, capture, hand, encoderVars, historyVars,
                 connections>>

Post ==
  /\ At("encoder", "post") /\ send_sem' = send_sem + 1 /\ Go("encoder", "idle")
  /\ UNCHANGED <<queueVars, flagVars, timeout, capture, hand, encoderVars, historyVars,
                 connections>>

(* end_data_capture_thread waits for the encoders.                         *)
EndCapture ==
  /\ capture = "ending" /\ At("encoder", "idle") /\ capture' = "off"
  /\ UNCHANGED <<queueVars, flagVars, send_sem, timeout, pc, hand, encoderVars, historyVars,
                 connections>>

-----------------------------------------------------------------------------
(* The send thread.  It waits for a token ...                              *)
Wait ==
  /\ At("send", "wait") /\ send_sem > 0 /\ send_sem' = send_sem - 1
  /\ Go("send", IF stop_event /\ stop_ts = 0 THEN "close" ELSE "next")
  /\ UNCHANGED <<queueVars, flagVars, timeout, capture, hand, encoderVars, historyVars,
                 connections>>

(* Mutant: it looks at the packet that was queued last.                    *)
can_shutdown_stream_early(p) == timeout \/ Last(packets).dts >= stop_ts

(* ... and takes a packet (get_next_packet), if one is left.  One that was *)
(* captured after the stop ends the stream.                                *)
can_shutdown_stream(p) == timeout \/ p.dts >= stop_ts

GetNextPacket ==
  /\ At("send", "next")
  /\ IF packets = <<>> THEN Go("send", "wait") /\ UNCHANGED <<packets, hand, sent>>
     ELSE LET p == packets[1] IN
          /\ packets' = Tail(packets)
          /\ sent' = [sent EXCEPT ![p.audio] = @ + 1]
          /\ IF stop_event /\ can_shutdown_stream(p)
             THEN Go("send", "close") /\ UNCHANGED hand
             ELSE Go("send", "send") /\ hand' = [hand EXCEPT !.send = <<p>>]
  /\ UNCHANGED <<min_priority, last_dts, dropped_frames, flagVars, send_sem, timeout, capture,
                 encoderVars, shown, orphans, connections>>

(* send_headers and send_packet *)
Send ==
  LET p == hand.send[1] IN
  /\ At("send", "send") /\ hand' = [hand EXCEPT !.send = <<>>]
  /\ \/ /\ Go("send", "wait")
        /\ shown' = IF ~ p.audio /\ p.priority >= High THEN p.dts ELSE shown
        /\ UNCHANGED disconnected
     \/ /\ "network" \in Faults /\ disconnected' = TRUE
        /\ Go("send", "close") /\ UNCHANGED shown
  /\ UNCHANGED <<queueVars, active, stop_event, stop_ts, send_sem, timeout, capture, encoderVars,
                 sent, orphans, connections>>

(* A stream that was cut makes the output reconnect, one that was told to  *)
(* stop ends the capture.                                                  *)
Close ==
  /\ At("send", "close") /\ capture' = "ending" /\ Go("send", "free")
  /\ UNCHANGED <<queueVars, flagVars, send_sem, timeout, hand, encoderVars, historyVars,
                 connections>>

Finish ==
  /\ At("send", "free") /\ packets' = <<>> /\ stop_event' = FALSE /\ active' = FALSE
  /\ Go("send", "idle")
  /\ UNCHANGED <<min_priority, last_dts, dropped_frames, disconnected, stop_ts, send_sem, timeout,
                 capture, hand, encoderVars, historyVars, connections>>

-----------------------------------------------------------------------------
(* rtmp_stream_stop: gently, as soon as what was captured until now is     *)
(* sent (ts), or at once (0).  It waits for the connect thread.  Frames    *)
(* that were captured before the stop may yet have to be encoded.  Stopping*)
(* at once a second time is left out: it posts another token.  So is the   *)
(* stop of a stream that is not active, which is only answered (Output).   *)
StopTime(ts) ==
  /\ At("user", "idle") /\ At("connect", "idle") /\ active
  /\ stop_event => ts = 0 /\ stop_ts # 0
  /\ stop_ts' = ts /\ Go("user", "signal")
  /\ UNCHANGED <<queueVars, active, disconnected, stop_event, send_sem, timeout, capture, hand,
                 encoderVars, historyVars, connections>>

(* Mutant: the send thread is not woken.                                   *)
StopSignalOnly ==
  /\ At("user", "signal") /\ Go("user", "idle")
  /\ stop_event' = IF active THEN TRUE ELSE stop_event
  /\ UNCHANGED <<queueVars, active, disconnected, stop_ts, send_sem, timeout, capture, hand,
                 encoderVars, historyVars, connections>>

StopSignal ==
  /\ At("user", "signal") /\ Go("user", "idle")
  /\ IF active THEN /\ stop_event' = TRUE
                    /\ send_sem' = IF stop_ts = 0 THEN send_sem + 1 ELSE send_sem
     ELSE UNCHANGED <<stop_event, send_sem>>
  /\ UNCHANGED <<queueVars, active, disconnected, stop_ts, timeout, capture, hand, encoderVars,
                 historyVars, connections>>

(* max_shutdown_time_sec have passed since the stop.                       *)
Timeout ==
  /\ "timeout" \in Faults /\ stop_event /\ ~ timeout /\ timeout' = TRUE
  /\ UNCHANGED <<queueVars, flagVars, send_sem, capture, pc, hand, encoderVars, historyVars,
                 connections>>

-----------------------------------------------------------------------------
Connect == InitConnect \/ ConnectFails \/ InitSend \/ Metadata
EncoderStep == (\E k \in Kinds : Produce(k)) \/ Add \/ Post
SendThread == Wait \/ GetNextPacket \/ Send \/ Close \/ Finish

Next ==
  \/ Connect \/ EncoderStep \/ Stall \/ EndCapture \/ SendThread
  \/ (\E ts \in {0, dts, dts + 1} : StopTime(ts)) \/ StopSignal \/ Timeout

Spec == Init /\ [][Next]_vars

(* Threads that can go on do.  The encoders deliver as long as the capture *)
(* is on, and a keyframe comes in the end (see Produces).                  *)
FairSpec ==
  /\ Spec /\ WF_vars(SendThread) /\ WF_vars(EncoderStep) /\ WF_vars(StopSignal)
  /\ WF_vars(InitSend \/ Metadata)

-----------------------------------------------------------------------------
PacketSet == [audio : BOOLEAN, priority : {Disposable, High, Highest}, dts : Nat, ref : Nat]

TypeOK ==
  /\ packets \in Seq(PacketSet) /\ min_priority \in {0, High, Highest}
  /\ last_dts \in Nat /\ dropped_frames \in Nat
  /\ active \in BOOLEAN /\ disconnected \in BOOLEAN /\ stop_event \in BOOLEAN
  /\ stop_ts \in Nat /\ send_sem \in Nat /\ timeout \in BOOLEAN
  /\ capture \in {"off", "on", "ending"}
  /\ pc \in [Threads -> Labels] /\ pc["connect"] \in {"idle", "send", "metadata"}
  /\ pc["send"] \in {"idle", "wait", "next", "send", "close", "free"}
  /\ pc["encoder"] \in {"idle", "add", "post"} /\ pc["user"] \in {"idle", "signal"}
  /\ hand \in [send : Seq(PacketSet), encoder : Seq(PacketSet)]
  /\ stream \in Streams \union {<<>>} /\ stalled \in BOOLEAN
  /\ dts \in Nat /\ ref \in Nat /\ count \in Nat /\ shown \in Nat
  /\ sent \in [BOOLEAN -> Nat] /\ orphans \in Nat /\ connections \in 0 .. MaxConnections

(* The packets on their way; r is the last frame that others refer to      *)
(* among the first n of q, or, if there is none, the last before them.     *)
InLine == hand.send \o packets
Reference(p) == ~ p.audio /\ p.priority >= High
LastReference(last, q, n, r) ==
  \/ r = last /\ \A i \in 1 .. n : ~ Reference(q[i])
  \/ \E i \in 1 .. n : /\ Reference(q[i]) /\ q[i].dts = r
                       /\ \A j \in i + 1 .. n : ~ Reference(q[j])

(* However frames are dropped, what is sent can be decoded: each frame but *)
(* a keyframe finds the frame it refers to sent, or in line ahead of it    *)
(* with nothing missing in between.  So does the next frame that is        *)
(* accepted (rtmp-stream.c:976-1092).                                      *)
Decodable ==
  Sending =>
  /\ \A i \in DOMAIN InLine :
       Frame(InLine[i]) => LastReference(shown, InLine, i - 1, InLine[i].ref)
  /\ capture # "off" /\ min_priority < Highest /\ ~ disconnected /\ active
       => LastReference(shown, InLine \o hand.encoder, Len(InLine \o hand.encoder), ref)

(* Every packet in the queue has its token, or is about to get it, so none *)
(* is left lying (a token too many does no harm); dropped_frames is exactly*)
(* the number of frames that will be missing, and no audio is ever dropped.*)
(* No send thread is left behind (rtmp-stream.c:186, 597, 976, 1127).      *)
Amount(audio) ==
  sent[audio] + Cardinality({i \in DOMAIN packets : packets[i].audio = audio})
    + Cardinality({i \in DOMAIN hand.encoder : hand.encoder[i].audio = audio})

Accounted ==
  /\ Sending /\ ~ At("connect", "send")
       => Len(packets) <= send_sem + (IF At("encoder", "post") THEN 1 ELSE 0)
                                + (IF At("send", "next") THEN 1 ELSE 0)
  /\ capture # "off" /\ active /\ ~ disconnected
       => /\ dts - 1 = Amount(FALSE) + dropped_frames
          /\ count - (dts - 1) = Amount(TRUE)
  /\ orphans = 0

QueueInv == TypeOK /\ Accounted

(* A stream that ends because it was told to stop gently, and in time, has *)
(* taken everything captured before the stop (rtmp-stream.c:373, 469).     *)
SentUntilStop ==
  At("send", "close") /\ ~ disconnected
    => /\ stop_event
       /\ timeout \/ \A i \in DOMAIN packets : packets[i].dts >= stop_ts

(* Stopping ends the stream, gently or at once, whatever is dropped on the *)
(* way; at once also when no more packets come (rtmp-stream.c:186, 459).   *)
StopEnds == stop_event ~> At("send", "idle") \/ (stalled /\ stop_ts # 0)
=============================================================================
