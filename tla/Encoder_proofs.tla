--------------------------- MODULE Encoder_proofs ---------------------------
(***************************************************************************)
(* Theorems about encoders.  First the pair of an audio and a video        *)
(* encoder, then the life of one encoder, for every set of outputs, with a *)
(* codec that may fail or not, whatever starts, stops and the release do   *)
(* to each other.                                                          *)
(***************************************************************************)
EXTENDS Encoder, SequenceTheorems, TLAPS

-----------------------------------------------------------------------------
(* That sound and picture fit (InSync of EncoderPair) for all sample       *)
(* times, sizes of blocks and frames, clocks and codecs, and any number of *)
(* outputs, as long as outputs that share the audio encoder share the      *)
(* video encoder.                                                          *)
CONSTANTS Videos, NoVideo, VideoOf, SampleTime, Block, FrameSize, FrameTime, Clocks, Lag, Delay,
          MaxInput, MaxAlone
VARIABLES audio, video, a_ts, v_ts, pair_pc, pair_starts

Pair == INSTANCE EncoderPair WITH pc <- pair_pc, starts <- pair_starts

PairAssumption == Pair!EncoderPairAssumption

(* A video encoder is the same for all outputs that share the audio.       *)
Shared == \A o, p \in Outputs : VideoOf[o] = VideoOf[p]

Times == Nat \ {0}

(* An encoder is used by the outputs that have started it and have not     *)
(* stopped it, and at most one output is about to start or to stop.        *)
Started == {"start_video", "running", "stop_audio"}
Busy(o) == pair_pc[o] \in {"start", "start_video", "stop_audio"}

Users ==
  /\ \A o \in Outputs : o \in audio.users <=> pair_pc[o] \in Started
  /\ \A v \in Videos : \A o \in Outputs :
       o \in video[v].users <=> VideoOf[o] = v /\ Pair!At(o, "running")
  /\ \A o, p \in Outputs : Busy(o) /\ Busy(p) => o = p

(* The last output to stop is between its two encoders.                    *)
Closing == \E o \in Outputs : Pair!At(o, "stop_audio") /\ audio.users = {o}

(* Encoders that have been initialised are partners until the video has    *)
(* been shut down.                                                         *)
Pairing ==
  /\ audio.data <=> audio.paired # NoVideo
  /\ audio.paired # NoVideo => \A o \in Outputs : VideoOf[o] = audio.paired
  /\ \A v \in Videos : video[v].data => video[v].paired /\ audio.paired = v
  /\ \A v \in Videos : video[v].paired => video[v].data
  /\ audio.data => Closing \/ video[audio.paired].data
  /\ Closing => \A v \in Videos : ~ video[v].data

(* An encoder is initialised before it is used, and begins after.          *)
Unused ==
  /\ \A o \in Outputs : Pair!At(o, "start") => audio.data
  /\ audio.users # {} => audio.data
  /\ audio.users = {} => Pair!At("audio", "idle") /\ ~ audio.first_received
  /\ \A v \in Videos :
       /\ video[v].users # {} => video[v].data
       /\ video[v].users = {} => video[v].start_ts = 0 /\ ~ video[v].first_received

(* Video begins with a frame that audio reaches back to, and audio with    *)
(* the video.                                                              *)
Begun ==
  /\ \A v \in Videos :
       /\ video[v].first_received => video[v].start_ts # 0
       /\ video[v].start_ts # 0 =>
            audio.first_received /\ audio.first_raw_ts <= video[v].start_ts
  /\ audio.start_ts # 0 =>
       \A v \in Videos : video[v].paired => video[v].start_ts = audio.start_ts

(* The samples of q follow each other from the time first to the time end. *)
Line(q, first, end) ==
  /\ \A k \in DOMAIN q : q[k] = first + (k - 1) * SampleTime
  /\ end = first + Len(q) * SampleTime

InTime(first) == audio.start_ts - SampleTime < first /\ first <= audio.start_ts

(* The audio that waits reaches from the first block, or, when the encoder *)
(* has begun, from where it begins, to the next block.                     *)
Waiting ==
  /\ Pair!At("audio", "first") => ~ audio.first_received /\ audio.first_raw_ts = a_ts
  /\ Pair!At("audio", "buffer") => audio.first_received
  /\ ~ audio.first_received => audio.start_ts = 0 /\ audio.input = <<>>
  /\ audio.start_ts = 0 => audio.encoded = <<>>
  /\ audio.first_received /\ audio.start_ts = 0 => Line(audio.input, audio.first_raw_ts, a_ts)
  /\ audio.start_ts # 0 /\ audio.encoded = <<>> =>
       /\ audio.input # <<>> /\ InTime(audio.input[1])
       /\ Line(audio.input, audio.input[1], a_ts)

PairInv ==
  /\ Pair!TypeOK /\ a_ts # 0 /\ v_ts # 0
  /\ pair_pc = [t \in Outputs \union {"audio"} |-> pair_pc[t]]
  /\ Users /\ Pairing /\ Unused /\ Begun /\ Waiting /\ Pair!InPlace

-----------------------------------------------------------------------------
(* What appending and cutting do to a line of samples.                     *)

LEMMA Sizes ==
  ASSUME PairAssumption
  PROVE  /\ SampleTime \in Times /\ Block \in Times /\ FrameSize \in Times /\ FrameTime \in Times
         /\ VideoOf \in [Outputs -> Videos] /\ NoVideo \notin Videos /\ "audio" \notin Outputs
         /\ MaxStarts \in Nat /\ Delay \in Nat
  BY DEF PairAssumption, Pair!EncoderPairAssumption, Times

LEMMA Grows ==
  ASSUME PairAssumption, NEW a \in Nat
  PROVE  a * SampleTime \in Nat
  BY Sizes DEF Times

LEMMA LineConcat ==
  ASSUME PairAssumption,
         NEW p \in Seq(Times), NEW q \in Seq(Times), NEW a \in Int, NEW b \in Int, NEW c \in Int,
         Line(p, a, b), Line(q, b, c)
  PROVE  p \o q \in Seq(Times) /\ Line(p \o q, a, c)
<1> DEFINE s == p \o q
<1>1. /\ s \in Seq(Times) /\ Len(s) = Len(p) + Len(q)
      /\ \A i \in 1 .. Len(p) + Len(q) : s[i] = IF i <= Len(p) THEN p[i] ELSE q[i - Len(p)]
  BY ConcatProperties
<1>2. Len(p) \in Nat /\ Len(q) \in Nat /\ DOMAIN p = 1 .. Len(p) /\ DOMAIN q = 1 .. Len(q)
      /\ DOMAIN s = 1 .. Len(s)
  BY <1>1
<1>3. c = a + Len(s) * SampleTime
  BY <1>1, <1>2, Sizes, SMTT(20) DEF Line, Times
<1>4. ASSUME NEW k \in DOMAIN s PROVE s[k] = a + (k - 1) * SampleTime
  <2>1. CASE k <= Len(p)
    BY <1>1, <1>2, <2>1 DEF Line
  <2>2. CASE k > Len(p)
    <3>1. k - Len(p) \in DOMAIN q /\ s[k] = q[k - Len(p)]
      BY <1>1, <1>2, <2>2
    <3>2. s[k] = b + (k - Len(p) - 1) * SampleTime
      BY <3>1 DEF Line
    <3>3. (Len(p) + (k - Len(p) - 1)) * SampleTime
            = Len(p) * SampleTime + (k - Len(p) - 1) * SampleTime
      BY <1>2, Sizes DEF Times
    <3>4. Len(p) + (k - Len(p) - 1) = k - 1
      BY <1>2
    <3>5. Len(p) * SampleTime \in Int /\ (k - Len(p) - 1) * SampleTime \in Int
      BY <1>2, Sizes DEF Times
    <3>6. b = a + Len(p) * SampleTime
      BY DEF Line
    <3>q. QED BY <3>2, <3>3, <3>4, <3>5, <3>6
  <2>q. QED BY <1>2, <2>1, <2>2
<1>q. QED BY <1>1, <1>3, <1>4 DEF Line

LEMMA CutProperties ==
  ASSUME PairAssumption, NEW q \in Seq(Times), NEW n \in 0 .. Len(q)
  PROVE  /\ Pair!Cut(q, n) \in Seq(Times) /\ Len(Pair!Cut(q, n)) = Len(q) - n
         /\ \A i \in 1 .. Len(q) - n : Pair!Cut(q, n)[i] = q[n + i]
<1>1. n + 1 \in Int /\ Len(q) \in Int /\ \A i \in n + 1 .. Len(q) : q[i] \in Times
  OBVIOUS
<1>q. QED BY <1>1, SubSeqProperties DEF Pair!Cut

LEMMA LineCut ==
  ASSUME PairAssumption,
         NEW q \in Seq(Times), NEW n \in 0 .. Len(q), NEW a \in Int, NEW c \in Int, Line(q, a, c)
  PROVE  Line(Pair!Cut(q, n), a + n * SampleTime, c)
<1> DEFINE s == Pair!Cut(q, n)
<1>1. /\ s \in Seq(Times) /\ Len(s) = Len(q) - n
      /\ \A i \in 1 .. Len(q) - n : s[i] = q[n + i]
  BY CutProperties
<1>2. /\ Len(q) \in Nat /\ n \in Nat /\ DOMAIN q = 1 .. Len(q) /\ DOMAIN s = 1 .. Len(q) - n
      /\ n * SampleTime \in Int
  BY <1>1, Sizes DEF Times
<1>3. c = a + n * SampleTime + Len(s) * SampleTime
  <2>1. (n + Len(s)) * SampleTime = n * SampleTime + Len(s) * SampleTime
    BY <1>1, <1>2, Sizes DEF Times
  <2>2. n + Len(s) = Len(q)
    BY <1>1, <1>2
  <2>3. Len(s) * SampleTime \in Int
    BY <1>1, <1>2, Sizes DEF Times
  <2>4. c = a + Len(q) * SampleTime
    BY DEF Line
  <2>q. QED BY <1>2, <2>1, <2>2, <2>3, <2>4
<1>4. ASSUME NEW k \in DOMAIN s PROVE s[k] = a + n * SampleTime + (k - 1) * SampleTime
  <2>1. n + k \in DOMAIN q /\ s[k] = q[n + k]
    BY <1>1, <1>2
  <2>2. s[k] = a + (n + k - 1) * SampleTime
    <3>1. \A j \in DOMAIN q : q[j] = a + (j - 1) * SampleTime
      BY DEF Line
    <3>2. q[n + k] = a + ((n + k) - 1) * SampleTime
      BY <2>1, <3>1, Zenon
    <3>3. (n + k) - 1 = n + k - 1
      BY <1>2
    <3>q. QED BY <2>1, <3>2, <3>3
  <2>3. (n + (k - 1)) * SampleTime = n * SampleTime + (k - 1) * SampleTime
    BY <1>2, Sizes DEF Times
  <2>4. n + (k - 1) = n + k - 1 /\ (k - 1) * SampleTime \in Int
    BY <1>2, Sizes DEF Times
  <2>q. QED BY <1>2, <2>2, <2>3, <2>4
<1>q. QED BY <1>3, <1>4 DEF Line

LEMMA LineSamples ==
  ASSUME PairAssumption, NEW ts \in Times
  PROVE  /\ Pair!Samples(ts) \in Seq(Times) /\ Len(Pair!Samples(ts)) = Block
         /\ Line(Pair!Samples(ts), ts, ts + Block * SampleTime)
<1>1. \A i \in 1 .. Block : (i - 1) * SampleTime \in Nat
  BY Grows, Sizes DEF Times
<1>2. Pair!Samples(ts) \in [1 .. Block -> Times]
  BY <1>1 DEF Pair!Samples, Times
<1>3. Pair!Samples(ts) \in Seq(Times) /\ Len(Pair!Samples(ts)) = Block
  BY <1>2, Sizes DEF Times
<1>q. QED BY <1>3, Sizes DEF Line, Pair!Samples, Times

(* The cut leaves less than one sample before the time it aims at.         *)
LEMMA OffsetProperties ==
  ASSUME PairAssumption, NEW v \in Int, NEW a \in Int, a <= v
  PROVE  /\ Pair!Offset(v, a) \in Nat
         /\ v - SampleTime < a + Pair!Offset(v, a) * SampleTime
         /\ a + Pair!Offset(v, a) * SampleTime <= v
<1>1. SampleTime \in Int /\ SampleTime > 0 /\ v - a \in Nat
  BY Sizes DEF Times
<1>2. /\ (v - a) \div SampleTime \in Nat
      /\ ((v - a) \div SampleTime) * SampleTime <= v - a
      /\ v - a < ((v - a) \div SampleTime) * SampleTime + SampleTime
  BY <1>1
<1>3. ((v - a) \div SampleTime) * SampleTime \in Int
  BY <1>1, <1>2, Sizes DEF Times
<1>q. QED BY <1>1, <1>2, <1>3 DEF Pair!Offset

(* ... and within the line if that does.                                   *)
LEMMA OffsetInLine ==
  ASSUME PairAssumption,
         NEW v \in Int, NEW a \in Int, NEW n \in Nat, a <= v, v < a + n * SampleTime
  PROVE  Pair!Offset(v, a) < n
<1>1. Pair!Offset(v, a) \in Nat /\ a + Pair!Offset(v, a) * SampleTime <= v
  BY OffsetProperties
<1>2. SUFFICES ASSUME n <= Pair!Offset(v, a) PROVE FALSE
  BY <1>1
<1>3. Pair!Offset(v, a) - n \in Nat
  BY <1>1, <1>2
<1>4. Pair!Offset(v, a) * SampleTime = n * SampleTime + (Pair!Offset(v, a) - n) * SampleTime
  <2>1. (n + (Pair!Offset(v, a) - n)) * SampleTime = n * SampleTime + (Pair!Offset(v, a) - n) * SampleTime
    BY <1>1, <1>3, Sizes DEF Times
  <2>2. n + (Pair!Offset(v, a) - n) = Pair!Offset(v, a)
    BY <1>1
  <2>q. QED BY <2>1, <2>2
<1>5. (Pair!Offset(v, a) - n) * SampleTime \in Nat /\ n * SampleTime \in Nat
  BY <1>3, Grows
<1>q. QED BY <1>1, <1>4, <1>5

-----------------------------------------------------------------------------
(* The steps of the outputs.                                               *)

VideoEncoders == [data : BOOLEAN, users : SUBSET Outputs, paired : BOOLEAN,
                  first_received : BOOLEAN, start_ts : Nat, frames : Nat]

LEMMA UsersChange ==
  ASSUME PairAssumption, NEW e \in VideoEncoders, NEW U \in SUBSET Outputs
  PROVE  LET f == [e EXCEPT !.users = U] IN
         /\ f \in VideoEncoders /\ f.users = U /\ f.data = e.data /\ f.paired = e.paired
         /\ f.first_received = e.first_received /\ f.start_ts = e.start_ts
  BY DEF VideoEncoders

LEMMA VideoTypes ==
  ASSUME PairAssumption, PairInv
  PROVE  /\ video \in [Videos -> VideoEncoders]
         /\ \A v \in Videos : video[v] \in VideoEncoders /\ video[v].users \subseteq Outputs
  BY DEF PairInv, Pair!TypeOK, VideoEncoders

LEMMA Moves ==
  ASSUME PairAssumption,
         PairInv, NEW t \in Outputs \union {"audio"}, NEW l, Pair!Go(t, l)
  PROVE  /\ pair_pc' = [u \in Outputs \union {"audio"} |-> pair_pc'[u]]
         /\ pair_pc'[t] = l /\ \A u \in (Outputs \union {"audio"}) \ {t} : pair_pc'[u] = pair_pc[u]
  BY DEF PairInv, Pair!Go

LEMMA OutputMoves ==
  ASSUME PairAssumption, PairInv, NEW o \in Outputs, NEW l, Pair!Go(o, l)
  PROVE  /\ pair_pc' = [u \in Outputs \union {"audio"} |-> pair_pc'[u]]
         /\ pair_pc'[o] = l /\ pair_pc'["audio"] = pair_pc["audio"]
         /\ \A u \in Outputs : u # o => pair_pc'[u] = pair_pc[u]
  BY Moves, Sizes

(* A step that leaves the audio alone leaves it waiting.                   *)
SameSound ==
  /\ audio'.first_received = audio.first_received /\ audio'.first_raw_ts = audio.first_raw_ts
  /\ audio'.start_ts = audio.start_ts /\ audio'.input = audio.input
  /\ audio'.encoded = audio.encoded
  /\ pair_pc'["audio"] = pair_pc["audio"] /\ a_ts' = a_ts

LEMMA StillWaiting ==
  ASSUME PairAssumption, PairInv, SameSound
  PROVE  Waiting' /\ Pair!InPlace'
  BY DEF PairInv, SameSound, Waiting, Pair!InPlace, Line, InTime, Pair!At

LEMMA AbandonKeeps ==
  ASSUME PairAssumption, PairInv, NEW o \in Outputs, Pair!Abandon(o)
  PROVE  PairInv'
<1>1. /\ Pair!At(o, "start") /\ UNCHANGED <<audio, video, a_ts, v_ts, pair_starts>>
      /\ pair_pc' = [u \in Outputs \union {"audio"} |-> pair_pc'[u]]
      /\ pair_pc'[o] = "idle" /\ pair_pc'["audio"] = pair_pc["audio"]
      /\ \A u \in Outputs : u # o => pair_pc'[u] = pair_pc[u]
  BY OutputMoves DEF Pair!Abandon
<1>2. Pair!TypeOK' /\ a_ts' # 0 /\ v_ts' # 0
  BY <1>1 DEF PairInv, Pair!TypeOK
<1>3. Users'
  BY <1>1 DEF PairInv, Users, Started, Busy, Pair!At
<1>4. Closing' <=> Closing
  BY <1>1 DEF Closing, Pair!At
<1>5. Pairing' /\ Unused' /\ Begun'
  BY <1>1, <1>4 DEF PairInv, Pairing, Unused, Begun, Pair!At
<1>6. Waiting' /\ Pair!InPlace'
  BY <1>1, StillWaiting DEF SameSound
<1>q. QED BY <1>1, <1>2, <1>3, <1>5, <1>6 DEF PairInv

LEMMA StartAudioKeeps ==
  ASSUME PairAssumption, PairInv, NEW o \in Outputs, Pair!StartAudio(o)
  PROVE  PairInv'
<1>1. /\ Pair!At(o, "start") /\ UNCHANGED <<video, a_ts, v_ts, pair_starts>>
      /\ pair_pc' = [u \in Outputs \union {"audio"} |-> pair_pc'[u]]
      /\ pair_pc'[o] = "start_video" /\ pair_pc'["audio"] = pair_pc["audio"]
      /\ \A u \in Outputs : u # o => pair_pc'[u] = pair_pc[u]
  BY OutputMoves DEF Pair!StartAudio
<1>2. /\ audio'.users = audio.users \union {o} /\ SameSound
      /\ audio'.data = audio.data /\ audio'.paired = audio.paired
  BY <1>1 DEF PairInv, Pair!TypeOK, Pair!StartAudio, SameSound
<1>3. Pair!TypeOK' /\ a_ts' # 0 /\ v_ts' # 0
  BY <1>1 DEF PairInv, Pair!TypeOK, Pair!StartAudio
<1>4. Users'
  BY <1>1, <1>2 DEF PairInv, Users, Started, Busy, Pair!At
<1>5. ~ Closing /\ ~ Closing'
  BY <1>1, <1>2 DEF PairInv, Users, Busy, Closing, Pair!At
<1>6. Pairing'
  BY <1>1, <1>2, <1>5 DEF PairInv, Pairing
<1>7. Begun'
  BY <1>1, <1>2 DEF PairInv, Begun, SameSound
<1>8. audio.data
  BY <1>1 DEF PairInv, Unused
<1>9. Unused'
  BY <1>1, <1>2, <1>8 DEF PairInv, Unused, Pair!At
<1>10. Waiting' /\ Pair!InPlace'
  BY <1>2, StillWaiting
<1>q. QED BY <1>1, <1>3, <1>4, <1>6, <1>7, <1>9, <1>10 DEF PairInv

LEMMA StartVideoKeeps ==
  ASSUME PairAssumption, PairInv, NEW o \in Outputs, Pair!StartVideo(o)
  PROVE  PairInv'
<1> DEFINE v == VideoOf[o]
<1>1. /\ Pair!At(o, "start_video") /\ UNCHANGED <<audio, a_ts, v_ts, pair_starts>> /\ v \in Videos
      /\ pair_pc' = [u \in Outputs \union {"audio"} |-> pair_pc'[u]]
      /\ pair_pc'[o] = "running" /\ pair_pc'["audio"] = pair_pc["audio"]
      /\ \A u \in Outputs : u # o => pair_pc'[u] = pair_pc[u]
  BY OutputMoves, Sizes DEF Pair!StartVideo
<1>2. /\ video'[v].users = video[v].users \union {o}
      /\ \A w \in Videos : w # v => video'[w] = video[w]
      /\ \A w \in Videos :
           /\ video'[w].data = video[w].data /\ video'[w].paired = video[w].paired
           /\ video'[w].first_received = video[w].first_received
           /\ video'[w].start_ts = video[w].start_ts
  BY <1>1 DEF PairInv, Pair!TypeOK, Pair!StartVideo
<1>3. Pair!TypeOK' /\ a_ts' # 0 /\ v_ts' # 0
  <2>1. [video[v] EXCEPT !.users = @ \union {o}] \in VideoEncoders
    BY <1>1, VideoTypes, UsersChange
  <2>2. video' \in [Videos -> VideoEncoders]
    BY <1>1, <2>1 DEF PairInv, Pair!TypeOK, VideoEncoders, Pair!StartVideo
  <2>q. QED BY <1>1, <2>2 DEF PairInv, Pair!TypeOK, VideoEncoders
<1>4. Users'
  BY <1>1, <1>2 DEF PairInv, Users, Started, Busy, Pair!At
<1>5. ~ Closing /\ ~ Closing'
  BY <1>1 DEF PairInv, Users, Busy, Closing, Pair!At
<1>6. Pairing' /\ Begun'
  BY <1>1, <1>2, <1>5 DEF PairInv, Pairing, Begun
<1>7. audio.data /\ video[v].data
  BY <1>1, <1>5 DEF PairInv, Users, Started, Unused, Pairing, Pair!At
<1>8. Unused'
  BY <1>1, <1>2, <1>7 DEF PairInv, Unused, Pair!At
<1>9. Waiting' /\ Pair!InPlace'
  BY <1>1, StillWaiting DEF SameSound
<1>q. QED BY <1>1, <1>3, <1>4, <1>6, <1>8, <1>9 DEF PairInv

LEMMA InitializePairs ==
  ASSUME PairAssumption,
         Shared, PairInv, NEW o \in Outputs, Pair!Initialize(o)
  PROVE  PairInv'
<1> DEFINE v == VideoOf[o]
<1>1. /\ Pair!At(o, "idle") /\ Pair!Quiet /\ UNCHANGED <<a_ts, v_ts>> /\ v \in Videos
      /\ pair_pc' = [u \in Outputs \union {"audio"} |-> pair_pc'[u]]
      /\ pair_pc'[o] = "start" /\ pair_pc'["audio"] = pair_pc["audio"]
      /\ \A u \in Outputs : u # o => pair_pc'[u] = pair_pc[u]
  BY OutputMoves, Sizes DEF Pair!Initialize
<1>2. /\ pair_starts' \in 0 .. MaxStarts /\ ~ Closing /\ ~ Closing'
      /\ \A p \in Outputs : ~ Busy(p) /\ pair_pc'[p] \notin {"start_video", "stop_audio"}
  <2>1. \A p \in Outputs : pair_pc[p] \in {"idle", "running"} /\ pair_pc'[p] \in {"idle", "running", "start"}
    BY <1>1 DEF Pair!Quiet
  <2>2. pair_starts' \in 0 .. MaxStarts
    BY Sizes DEF PairInv, Pair!TypeOK, Pair!Initialize
  <2>q. QED BY <2>1, <2>2 DEF Closing, Busy, Pair!At
<1>3. CASE audio.data
  <2>1. audio.paired = v /\ video[v].data /\ video[v].paired /\ audio.paired # NoVideo
    BY <1>1, <1>2, <1>3 DEF PairInv, Pairing
  <2>2. audio' = audio /\ video' = video
    BY <1>1, <1>3, <2>1 DEF PairInv, Pair!TypeOK, Pair!Initialize
  <2>3. Pair!TypeOK' /\ a_ts' # 0 /\ v_ts' # 0
    BY <1>1, <1>2, <2>2 DEF PairInv, Pair!TypeOK
  <2>4. Users'
    BY <1>1, <1>2, <2>2 DEF PairInv, Users, Started, Busy, Pair!At
  <2>5. Pairing' /\ Unused' /\ Begun'
    BY <1>1, <1>2, <1>3, <2>2 DEF PairInv, Pairing, Unused, Begun, Pair!At
  <2>6. Waiting' /\ Pair!InPlace'
    BY <1>1, <2>2, StillWaiting DEF SameSound
  <2>q. QED BY <1>1, <2>3, <2>4, <2>5, <2>6 DEF PairInv
<1>4. CASE ~ audio.data
  <2>1. /\ ~ video[v].data /\ audio.users = {} /\ video[v].users = {} /\ audio.paired = NoVideo
        /\ \A w \in Videos : ~ video[w].data /\ ~ video[w].paired
    <3>1. audio.paired = NoVideo /\ audio.users = {}
      BY <1>4 DEF PairInv, Pairing, Unused
    <3>2. \A w \in Videos : ~ video[w].data /\ ~ video[w].paired
      BY <3>1, Sizes DEF PairInv, Pairing
    <3>q. QED BY <1>1, <3>1, <3>2 DEF PairInv, Unused
  <2>2. /\ audio' = [Pair!NewAudio EXCEPT !.data = TRUE, !.paired = v]
        /\ video' = [video EXCEPT ![v] = [Pair!NewVideo EXCEPT !.data = TRUE, !.paired = TRUE]]
    BY <1>1, <1>4, <2>1 DEF Pair!Initialize, Pair!Active, Pair!NewAudio, Pair!NewVideo
  <2>3. /\ audio' = [data |-> TRUE, users |-> {}, paired |-> v, first_received |-> FALSE,
                     first_raw_ts |-> 0, start_ts |-> 0, input |-> <<>>, encoded |-> <<>>]
        /\ video'[v] = [data |-> TRUE, users |-> {}, paired |-> TRUE, first_received |-> FALSE,
                        start_ts |-> 0, frames |-> 0]
        /\ \A w \in Videos : w # v => video'[w] = video[w]
        /\ video' \in [Videos -> VideoEncoders]
    <3>1. video'[v] = [data |-> TRUE, users |-> {}, paired |-> TRUE, first_received |-> FALSE,
                       start_ts |-> 0, frames |-> 0]
      BY <1>1, <2>2, VideoTypes DEF Pair!NewVideo
    <3>2. [data |-> TRUE, users |-> {}, paired |-> TRUE, first_received |-> FALSE,
           start_ts |-> 0, frames |-> 0] \in VideoEncoders
      BY DEF VideoEncoders
    <3>3. \A w \in Videos : w # v => video'[w] = video[w]
      BY <1>1, <2>2, VideoTypes
    <3>4. video' = [w \in Videos |-> video'[w]]
      BY <2>2, VideoTypes
    <3>q. QED BY <1>1, <2>2, <3>1, <3>2, <3>3, <3>4, VideoTypes DEF Pair!NewAudio
  <2>4. Pair!TypeOK' /\ a_ts' # 0 /\ v_ts' # 0
    <3>1. audio' \in [data : BOOLEAN, users : SUBSET Outputs, paired : Videos \union {NoVideo},
                      first_received : BOOLEAN, first_raw_ts : Nat, start_ts : Nat,
                      input : Seq(Nat \ {0}), encoded : Seq(Nat \ {0})]
      BY <1>1, <2>3
    <3>q. QED BY <1>1, <1>2, <2>3, <3>1 DEF PairInv, Pair!TypeOK, VideoEncoders
  <2>5. Users'
    BY <1>1, <1>2, <2>1, <2>3 DEF PairInv, Users, Started, Busy, Pair!At
  <2>6. Pairing'
    BY <1>1, <1>2, <2>1, <2>3, Sizes DEF PairInv, Pairing, Shared
  <2>7. Pair!At("audio", "idle") /\ pair_pc'["audio"] = "idle"
    BY <1>1, <2>1 DEF PairInv, Unused, Pair!At
  <2>8. Unused' /\ Begun'
    <3>1. \A w \in Videos : w # v => video'[w].users = {} /\ video'[w].start_ts = 0
                                       /\ ~ video'[w].first_received
      BY <2>1, <2>3 DEF PairInv, Unused
    <3>q. QED BY <1>1, <2>3, <2>7, <3>1 DEF PairInv, Unused, Begun, Pair!At
  <2>9. Waiting' /\ Pair!InPlace'
    BY <2>3, <2>7 DEF Waiting, Pair!InPlace, Pair!At
  <2>q. QED BY <1>1, <2>4, <2>5, <2>6, <2>8, <2>9 DEF PairInv
<1>q. QED BY <1>3, <1>4

LEMMA StopVideoKeeps ==
  ASSUME PairAssumption, PairInv, NEW o \in Outputs, Pair!StopVideo(o)
  PROVE  PairInv'
<1> DEFINE v == VideoOf[o]
           last == video[v].users = {o}
<1>1. /\ Pair!At(o, "running") /\ Pair!Quiet /\ UNCHANGED <<audio, a_ts, v_ts, pair_starts>>
      /\ v \in Videos
      /\ pair_pc' = [u \in Outputs \union {"audio"} |-> pair_pc'[u]]
      /\ pair_pc'[o] = "stop_audio" /\ pair_pc'["audio"] = pair_pc["audio"]
      /\ \A u \in Outputs : u # o => pair_pc'[u] = pair_pc[u]
  BY OutputMoves, Sizes DEF Pair!StopVideo
<1>2. /\ o \in audio.users /\ audio.data /\ ~ Closing /\ audio.paired = v
      /\ \A p \in Outputs : ~ Busy(p)
      /\ \A p \in audio.users : p \in video[v].users
  <2>1. \A p \in Outputs : pair_pc[p] \in {"idle", "running"}
    BY <1>1 DEF Pair!Quiet
  <2>2. ~ Closing /\ \A p \in Outputs : ~ Busy(p)
    BY <2>1 DEF Closing, Busy, Pair!At
  <2>3. o \in audio.users /\ audio.data
    BY <1>1 DEF PairInv, Users, Started, Unused, Pair!At
  <2>4. audio.paired = v
    BY <2>3 DEF PairInv, Pairing
  <2>5. \A p \in Outputs : VideoOf[p] = v
    BY <2>3, <2>4 DEF PairInv, Pairing
  <2>6. \A p \in audio.users : p \in Outputs /\ p \in video[v].users
    BY <1>1, <2>1, <2>5 DEF PairInv, Pair!TypeOK, Users, Started, Pair!At
  <2>q. QED BY <2>2, <2>3, <2>4, <2>6
<1>3. \A w \in Videos : w # v => video'[w] = video[w] /\ ~ video[w].data
  BY <1>1, <1>2 DEF PairInv, Pair!TypeOK, Pairing, Pair!StopVideo
<1>4. CASE last
  <2>1. video'[v] = Pair!NewVideo
    BY <1>1, <1>4 DEF PairInv, Pair!TypeOK, Pair!StopVideo
  <2>2. Pair!NewVideo \in VideoEncoders
    BY DEF Pair!NewVideo, VideoEncoders
  <2>3. Pair!TypeOK' /\ a_ts' # 0 /\ v_ts' # 0
    <3>1. video' \in [Videos -> VideoEncoders]
      BY <1>1, <1>4, <2>2 DEF PairInv, Pair!TypeOK, VideoEncoders, Pair!StopVideo
    <3>q. QED BY <1>1, <3>1 DEF PairInv, Pair!TypeOK, VideoEncoders
  <2>4. audio.users = {o} /\ Closing'
    BY <1>1, <1>2, <1>4 DEF Closing, Pair!At
  <2>5. Users'
    BY <1>1, <1>2, <1>3, <1>4, <2>1 DEF PairInv, Users, Started, Busy, Pair!At, Pair!NewVideo
  <2>6. Pairing'
    BY <1>1, <1>2, <1>3, <2>1, <2>4 DEF PairInv, Pairing, Pair!NewVideo
  <2>7. Unused' /\ Begun'
    BY <1>1, <1>3, <2>1 DEF PairInv, Unused, Begun, Pair!NewVideo, Pair!At
  <2>8. Waiting' /\ Pair!InPlace'
    BY <1>1, StillWaiting DEF SameSound
  <2>q. QED BY <1>1, <2>3, <2>5, <2>6, <2>7, <2>8 DEF PairInv
<1>5. CASE ~ last
  <2> DEFINE e == [video[v] EXCEPT !.users = video[v].users \ {o}]
  <2>1. video' = [video EXCEPT ![v] = e]
    <3>1. video' = [video EXCEPT ![v] = IF last THEN Pair!NewVideo ELSE e]
      BY DEF Pair!StopVideo
    <3>q. QED BY <3>1, <1>5
  <2>2. /\ e \in VideoEncoders /\ e.users = video[v].users \ {o}
        /\ e.data = video[v].data /\ e.paired = video[v].paired
        /\ e.first_received = video[v].first_received /\ e.start_ts = video[v].start_ts
    <3>1. video[v] \in VideoEncoders /\ video[v].users \ {o} \in SUBSET Outputs
      BY <1>1, VideoTypes
    <3>q. QED BY <3>1, UsersChange
  <2> HIDE DEF e
  <2>3. /\ video'[v].users = video[v].users \ {o}
        /\ \A w \in Videos :
             /\ video'[w].data = video[w].data /\ video'[w].paired = video[w].paired
             /\ video'[w].first_received = video[w].first_received
             /\ video'[w].start_ts = video[w].start_ts
    BY <1>1, <2>1, <2>2, VideoTypes
  <2>4. Pair!TypeOK' /\ a_ts' # 0 /\ v_ts' # 0
    <3>1. video' \in [Videos -> VideoEncoders]
      BY <1>1, <2>1, <2>2, VideoTypes
    <3>q. QED BY <1>1, <3>1 DEF PairInv, Pair!TypeOK, VideoEncoders
  <2>5. video[v].users \ {o} # {} /\ o \in video[v].users
    BY <1>1, <1>2, <1>5 DEF PairInv, Users
  <2>6. audio.users # {o} /\ ~ Closing'
    <3>1. PICK p \in video[v].users : p # o
      BY <2>5
    <3>2. p \in Outputs /\ p \in audio.users
      BY <1>1, <3>1 DEF PairInv, Pair!TypeOK, Users, Started, Pair!At
    <3>3. \A q \in Outputs : pair_pc'[q] = "stop_audio" => q = o
      BY <1>1, <1>2 DEF Busy
    <3>q. QED BY <1>1, <3>1, <3>2, <3>3 DEF Closing, Pair!At
  <2>7. Users'
    BY <1>1, <1>2, <1>3, <2>3 DEF PairInv, Users, Started, Busy, Pair!At
  <2>8. Pairing' /\ Begun'
    BY <1>1, <1>2, <2>3, <2>6 DEF PairInv, Pairing, Begun
  <2>9. Unused'
    BY <1>1, <1>3, <2>3, <2>5 DEF PairInv, Unused, Pair!At
  <2>10. Waiting' /\ Pair!InPlace'
    BY <1>1, StillWaiting DEF SameSound
  <2>q. QED BY <1>1, <2>4, <2>7, <2>8, <2>9, <2>10 DEF PairInv
<1>q. QED BY <1>4, <1>5

LEMMA StopAudioKeeps ==
  ASSUME PairAssumption, PairInv, NEW o \in Outputs, Pair!StopAudio(o)
  PROVE  PairInv'
<1>1. /\ Pair!At(o, "stop_audio") /\ Pair!At("audio", "idle") /\ UNCHANGED <<video, pair_starts>>
      /\ pair_pc' = [u \in Outputs \union {"audio"} |-> pair_pc'[u]]
      /\ pair_pc'[o] = "idle" /\ pair_pc'["audio"] = "idle"
      /\ \A u \in Outputs : u # o => pair_pc'[u] = pair_pc[u]
  BY OutputMoves DEF Pair!StopAudio, Pair!At
<1>2. o \in audio.users /\ \A p \in Outputs : p # o => ~ Busy(p)
  BY <1>1 DEF PairInv, Users, Started, Busy, Pair!At
<1>3. CASE audio.users = {o}
  <2>1. audio' = Pair!NewAudio /\ Closing
    BY <1>1, <1>3 DEF Pair!StopAudio, Closing
  <2>2. /\ audio' = [data |-> FALSE, users |-> {}, paired |-> NoVideo, first_received |-> FALSE,
                     first_raw_ts |-> 0, start_ts |-> 0, input |-> <<>>, encoded |-> <<>>]
    BY <2>1 DEF Pair!NewAudio
  <2>3. \A w \in Videos : /\ ~ video[w].data /\ video[w].users = {} /\ ~ video[w].paired
                          /\ video[w].start_ts = 0 /\ ~ video[w].first_received
    BY <2>1 DEF PairInv, Pair!TypeOK, Pairing, Unused
  <2>4. PICK c \in Clocks : a_ts' = c[1] /\ v_ts' = c[2]
    BY <1>3, <2>2, <2>3 DEF Pair!StopAudio, Pair!Active
  <2>5. a_ts' \in Nat /\ v_ts' \in Nat /\ a_ts' # 0 /\ v_ts' # 0
    BY <2>4 DEF PairAssumption, Pair!EncoderPairAssumption
  <2>6. Pair!TypeOK'
    <3>1. audio' \in [data : BOOLEAN, users : SUBSET Outputs, paired : Videos \union {NoVideo},
                      first_received : BOOLEAN, first_raw_ts : Nat, start_ts : Nat,
                      input : Seq(Nat \ {0}), encoded : Seq(Nat \ {0})]
      BY <2>2
    <3>q. QED BY <1>1, <2>5, <3>1 DEF PairInv, Pair!TypeOK
  <2>7. Users'
    BY <1>1, <1>2, <1>3, <2>2 DEF PairInv, Users, Started, Busy, Pair!At
  <2>8. ~ Closing'
    BY <2>2 DEF Closing
  <2>9. Pairing' /\ Unused' /\ Begun'
    BY <1>1, <1>2, <2>2, <2>3, <2>8, Sizes DEF Pairing, Unused, Begun, Busy, Pair!At
  <2>10. Waiting' /\ Pair!InPlace'
    BY <1>1, <2>2 DEF Waiting, Pair!InPlace, Pair!At
  <2>q. QED BY <1>1, <2>5, <2>6, <2>7, <2>9, <2>10 DEF PairInv
<1>4. CASE audio.users # {o}
  <2>1. /\ audio'.users = audio.users \ {o} /\ audio.users \ {o} # {}
        /\ audio'.data = audio.data /\ audio'.paired = audio.paired
        /\ audio'.first_received = audio.first_received
        /\ audio'.first_raw_ts = audio.first_raw_ts /\ audio'.start_ts = audio.start_ts
        /\ audio'.input = audio.input /\ audio'.encoded = audio.encoded
    BY <1>2, <1>4 DEF PairInv, Pair!TypeOK, Pair!StopAudio
  <2>2. UNCHANGED <<a_ts, v_ts>>
    BY <2>1 DEF Pair!StopAudio, Pair!Active
  <2>3. Pair!TypeOK' /\ a_ts' # 0 /\ v_ts' # 0
    BY <1>1, <1>4, <2>2 DEF PairInv, Pair!TypeOK, Pair!StopAudio
  <2>4. Users'
    BY <1>1, <1>2, <2>1 DEF PairInv, Users, Started, Busy, Pair!At
  <2>5. ~ Closing /\ ~ Closing'
    BY <1>1, <1>2, <1>4 DEF Closing, Busy, Pair!At
  <2>6. Pairing' /\ Unused' /\ Begun'
    BY <1>1, <2>1, <2>5 DEF PairInv, Pairing, Unused, Begun, Pair!At
  <2>7. Waiting' /\ Pair!InPlace'
    BY <1>1, <2>1, <2>2, StillWaiting DEF SameSound, Pair!At
  <2>q. QED BY <1>1, <2>2, <2>3, <2>4, <2>6, <2>7 DEF PairInv
<1>q. QED BY <1>3, <1>4

-----------------------------------------------------------------------------
(* The steps of the two threads.                                           *)

(* A frame changes when an encoder begins, and nothing else.               *)
LEMMA ReceiveProperties ==
  ASSUME PairAssumption, PairInv, NEW v \in Videos, NEW received \in BOOLEAN
  PROVE  LET e == video[v]
             f == Pair!Receive(e, received)
         IN  /\ f \in VideoEncoders /\ f.data = e.data /\ f.users = e.users /\ f.paired = e.paired
             /\ e.users = {} => f = e
             /\ e.start_ts # 0 => f.start_ts = e.start_ts
             /\ e.start_ts = 0 /\ f.start_ts # 0 =>
                  e.users # {} /\ f.start_ts = v_ts /\ ~ Pair!WaitsForAudio(e)
             /\ f.first_received => f.start_ts # 0
<1> DEFINE e == video[v]
           f == Pair!Receive(e, received)
<1>1. e \in VideoEncoders /\ v_ts \in Nat /\ v_ts # 0 /\ (e.first_received => e.start_ts # 0)
  BY VideoTypes DEF PairInv, Pair!TypeOK, Begun
<1>2. CASE ~ Pair!Active(e) \/ Pair!WaitsForAudio(e)
  <2>1. f = e
    BY <1>2 DEF Pair!Receive
  <2>q. QED BY <1>1, <2>1
<1>3. CASE Pair!Active(e) /\ ~ Pair!WaitsForAudio(e)
  <2> DEFINE s == IF e.start_ts = 0 THEN v_ts ELSE e.start_ts
             r == e.first_received \/ received \/ e.frames >= Delay
             n == IF e.frames <= Delay THEN e.frames + 1 ELSE e.frames
  <2>1. f = [e EXCEPT !.start_ts = s, !.first_received = r, !.frames = n]
    BY <1>3 DEF Pair!Receive
  <2>2. s \in Nat /\ r \in BOOLEAN /\ n \in Nat
    BY <1>1, Sizes DEF VideoEncoders
  <2>3. /\ f.data = e.data /\ f.users = e.users /\ f.paired = e.paired
        /\ f.start_ts = s /\ f \in VideoEncoders
    <3> HIDE DEF e, f, s, r, n
    <3>q. QED BY <1>1, <2>1, <2>2 DEF VideoEncoders
  <2>q. QED BY <1>1, <1>3, <2>3 DEF Pair!Active
<1>q. QED BY <1>2, <1>3

LEMMA ReceiveVideoKeeps ==
  ASSUME PairAssumption, PairInv, Pair!ReceiveVideo
  PROVE  PairInv'
<1>1. PICK received \in BOOLEAN : video' = [v \in Videos |-> Pair!Receive(video[v], received)]
  BY DEF Pair!ReceiveVideo
<1>2. UNCHANGED <<audio, a_ts, pair_pc, pair_starts>> /\ v_ts' = v_ts + FrameTime
  BY DEF Pair!ReceiveVideo
<1>3. \A v \in Videos :
        LET e == video[v]
            f == video'[v]
        IN  /\ f \in VideoEncoders /\ f.data = e.data /\ f.users = e.users /\ f.paired = e.paired
            /\ e.users = {} => f = e
            /\ e.start_ts # 0 => f.start_ts = e.start_ts
            /\ e.start_ts = 0 /\ f.start_ts # 0 =>
                 e.users # {} /\ f.start_ts = v_ts /\ ~ Pair!WaitsForAudio(e)
            /\ f.first_received => f.start_ts # 0
  BY <1>1, ReceiveProperties
<1>4. v_ts' \in Nat /\ v_ts' # 0
  BY <1>2, Sizes, SMTT(20) DEF PairInv, Pair!TypeOK, Times
<1>5. Pair!TypeOK'
  <2>1. video' \in [Videos -> VideoEncoders]
    BY <1>1, <1>3
  <2>q. QED BY <1>2, <1>4, <2>1 DEF PairInv, Pair!TypeOK, VideoEncoders
<1>6. Users'
  BY <1>2, <1>3 DEF PairInv, Users, Started, Busy, Pair!At
<1>7. Closing' <=> Closing
  BY <1>2 DEF Closing, Pair!At
<1>8. Pairing'
  BY <1>2, <1>3, <1>7 DEF PairInv, Pair!TypeOK, Pairing
<1>9. Unused'
  BY <1>2, <1>3 DEF PairInv, Unused, Pair!At
<1>10. Begun'
  <2>1. ASSUME NEW v \in Videos, video'[v].start_ts # 0
        PROVE  audio.first_received /\ audio.first_raw_ts <= video'[v].start_ts
    <3>1. CASE video[v].start_ts # 0
      BY <1>3, <3>1 DEF PairInv, Begun
    <3>2. CASE video[v].start_ts = 0
      <4>1. video[v].paired /\ ~ video[v].first_received /\ ~ Pair!WaitsForAudio(video[v])
        BY <1>3, <2>1, <3>2 DEF PairInv, Unused, Pairing, Begun
      <4>2. audio.first_received /\ ~ (audio.first_raw_ts > v_ts)
        BY <4>1 DEF Pair!WaitsForAudio
      <4>3. audio.first_raw_ts \in Nat /\ v_ts \in Nat /\ video'[v].start_ts = v_ts
        BY <1>3, <2>1, <3>2 DEF PairInv, Pair!TypeOK
      <4>q. QED BY <4>2, <4>3
    <3>q. QED BY <3>1, <3>2
  <2>2. ASSUME audio.start_ts # 0, NEW v \in Videos, video[v].paired
        PROVE  video'[v].start_ts = audio.start_ts
    BY <1>3, <2>2 DEF PairInv, Begun
  <2>q. QED BY <1>2, <1>3, <2>1, <2>2 DEF Begun
<1>11. Waiting' /\ Pair!InPlace'
  BY <1>2, StillWaiting DEF SameSound
<1>q. QED BY <1>2, <1>4, <1>5, <1>6, <1>8, <1>9, <1>10, <1>11 DEF PairInv

AudioEncoders == [data : BOOLEAN, users : SUBSET Outputs, paired : Videos \union {NoVideo},
                  first_received : BOOLEAN, first_raw_ts : Nat, start_ts : Nat,
                  input : Seq(Times), encoded : Seq(Times)]

LEMMA AudioMoves ==
  ASSUME PairAssumption, PairInv, NEW l, Pair!Go("audio", l)
  PROVE  /\ pair_pc' = [u \in Outputs \union {"audio"} |-> pair_pc'[u]]
         /\ pair_pc'["audio"] = l
      /\ \A u \in Outputs : pair_pc'[u] = pair_pc[u]
  BY Moves, Sizes

(* The audio thread runs while an output uses the encoder.                 *)
LEMMA AudioRuns ==
  ASSUME PairAssumption, PairInv, ~ Pair!At("audio", "idle")
  PROVE  /\ audio.users # {} /\ audio.data /\ audio.paired # NoVideo /\ audio.paired \in Videos
  BY DEF PairInv, Pair!TypeOK, Unused, Pairing

(* What its steps leave alone.                                             *)
LEMMA OutputsUndisturbed ==
  ASSUME PairAssumption,
         PairInv, UNCHANGED <<video, v_ts, pair_starts>>, audio' \in AudioEncoders,
         audio'.data = audio.data, audio'.users = audio.users, audio'.paired = audio.paired,
         audio.users # {}, a_ts' \in Times, pair_pc'["audio"] \in {"idle", "first", "buffer"},
         pair_pc' = [u \in Outputs \union {"audio"} |-> pair_pc'[u]], \A u \in Outputs : pair_pc'[u] = pair_pc[u]
  PROVE  Pair!TypeOK' /\ a_ts' # 0 /\ v_ts' # 0 /\ Users' /\ Pairing' /\ Unused'
<1>1. Pair!TypeOK' /\ a_ts' # 0 /\ v_ts' # 0
  BY DEF PairInv, Pair!TypeOK, AudioEncoders, Times
<1>2. Users'
  BY DEF PairInv, Users, Started, Busy, Pair!At
<1>3. Closing' <=> Closing
  BY DEF Closing, Pair!At
<1>4. Pairing' /\ Unused'
  BY <1>3 DEF PairInv, Pairing, Unused, Pair!At
<1>q. QED BY <1>1, <1>2, <1>4

LEMMA ReceiveAudioKeeps ==
  ASSUME PairAssumption, PairInv, Pair!ReceiveAudio
  PROVE  PairInv'
<1>1. /\ Pair!At("audio", "idle") /\ audio.users # {}
      /\ UNCHANGED <<video, a_ts, v_ts, pair_starts>>
      /\ pair_pc'["audio"] = IF audio.first_received THEN "buffer" ELSE "first"
      /\ pair_pc' = [u \in Outputs \union {"audio"} |-> pair_pc'[u]]
      /\ \A u \in Outputs : pair_pc'[u] = pair_pc[u]
  BY AudioMoves DEF Pair!ReceiveAudio, Pair!Active
<1>2. /\ audio' \in AudioEncoders /\ audio'.data = audio.data /\ audio'.users = audio.users
      /\ audio'.paired = audio.paired /\ audio'.first_received = audio.first_received
      /\ audio'.first_raw_ts = IF audio.first_received THEN audio.first_raw_ts ELSE a_ts
      /\ audio'.start_ts = audio.start_ts /\ audio'.input = audio.input
      /\ audio'.encoded = audio.encoded
  BY DEF PairInv, Pair!TypeOK, Pair!ReceiveAudio, AudioEncoders, Times
<1>3. a_ts \in Times
  BY DEF PairInv, Pair!TypeOK, Times
<1>4. Pair!TypeOK' /\ a_ts' # 0 /\ v_ts' # 0 /\ Users' /\ Pairing' /\ Unused'
  BY <1>1, <1>2, <1>3, OutputsUndisturbed
<1>5. Begun'
  BY <1>1, <1>2 DEF PairInv, Begun
<1>6. Waiting'
  BY <1>1, <1>2 DEF PairInv, Waiting, Line, InTime, Pair!At
<1>7. Pair!InPlace'
  BY <1>2 DEF PairInv, Pair!InPlace
<1>q. QED BY <1>1, <1>4, <1>5, <1>6, <1>7 DEF PairInv

LEMMA FirstReceivedKeeps ==
  ASSUME PairAssumption, PairInv, Pair!FirstReceived
  PROVE  PairInv'
<1>1. /\ Pair!At("audio", "first") /\ UNCHANGED <<video, a_ts, v_ts, pair_starts>>
      /\ pair_pc'["audio"] = "buffer"
      /\ pair_pc' = [u \in Outputs \union {"audio"} |-> pair_pc'[u]]
      /\ \A u \in Outputs : pair_pc'[u] = pair_pc[u]
  BY AudioMoves DEF Pair!FirstReceived
<1>2. /\ audio' \in AudioEncoders /\ audio'.data = audio.data /\ audio'.users = audio.users
      /\ audio'.paired = audio.paired /\ audio'.first_received
      /\ audio'.first_raw_ts = audio.first_raw_ts
      /\ audio'.start_ts = audio.start_ts /\ audio'.input = <<>>
      /\ audio'.encoded = audio.encoded
  <2>1. <<>> \in Seq(Times) /\ audio \in AudioEncoders
    BY DEF PairInv, Pair!TypeOK, AudioEncoders, Times
  <2>2. audio' = [audio EXCEPT !.first_received = TRUE, !.input = <<>>]
    BY DEF Pair!FirstReceived
  <2>q. QED BY <2>1, <2>2 DEF AudioEncoders
<1>3. a_ts \in Times /\ audio.users # {}
  BY <1>1, AudioRuns DEF PairInv, Pair!TypeOK, Times, Pair!At
<1>4. Pair!TypeOK' /\ a_ts' # 0 /\ v_ts' # 0 /\ Users' /\ Pairing' /\ Unused'
  BY <1>1, <1>2, <1>3, OutputsUndisturbed
<1>5. /\ ~ audio.first_received /\ audio.first_raw_ts = a_ts /\ audio.start_ts = 0
      /\ audio.encoded = <<>>
  BY <1>1 DEF PairInv, Waiting
<1>6. Begun'
  BY <1>1, <1>2, <1>5 DEF PairInv, Begun
<1>7. Line(<<>>, a_ts, a_ts)
  BY <1>3, Sizes DEF Line, Times
<1>8. Waiting' /\ Pair!InPlace'
  BY <1>1, <1>2, <1>5, <1>7 DEF Waiting, Pair!InPlace, Line, Pair!At
<1>q. QED BY <1>1, <1>4, <1>6, <1>8 DEF PairInv

-----------------------------------------------------------------------------
(* What buffer_audio makes of a block.                                     *)

LEMMA LineFirst ==
  ASSUME PairAssumption,
         NEW q \in Seq(Times), NEW a \in Int, NEW c \in Int, Line(q, a, c), q # <<>>
  PROVE  q[1] = a
<1>1. 1 \in DOMAIN q /\ q[1] = a + (1 - 1) * SampleTime
  BY DEF Line
<1>q. QED BY <1>1, Sizes DEF Times

(* A line that is cut where a time v lies in it begins at v.               *)
LEMMA CutInTime ==
  ASSUME PairAssumption,
         NEW q \in Seq(Times), NEW a \in Int, NEW c \in Int, NEW v \in Int,
         Line(q, a, c), a <= v, v < c
  PROVE  LET r == Pair!Cut(q, Pair!Offset(v, a)) IN
         /\ r \in Seq(Times) /\ r # <<>> /\ Line(r, r[1], c)
         /\ v - SampleTime < r[1] /\ r[1] <= v
<1> DEFINE n == Pair!Offset(v, a)
           r == Pair!Cut(q, n)
<1>1. c = a + Len(q) * SampleTime /\ Len(q) \in Nat
  BY DEF Line
<1>2. n \in Nat /\ v - SampleTime < a + n * SampleTime /\ a + n * SampleTime <= v
  BY OffsetProperties
<1>3. n < Len(q)
  BY <1>1, OffsetInLine
<1>4. n \in 0 .. Len(q) /\ n * SampleTime \in Nat
  BY <1>1, <1>2, <1>3, Grows
<1> HIDE DEF n
<1>5. r \in Seq(Times) /\ Len(r) = Len(q) - n /\ r # <<>>
  BY <1>1, <1>2, <1>3, <1>4, CutProperties
<1>6. Line(r, a + n * SampleTime, c)
  BY <1>4, LineCut
<1>7. r[1] = a + n * SampleTime
  BY <1>4, <1>5, <1>6, LineFirst
<1>q. QED BY <1>2, <1>5, <1>6, <1>7 DEF n

LEMMA BufferedProperties ==
  ASSUME PairAssumption, PairInv, Pair!At("audio", "buffer")
  PROVE  LET b == Pair!Buffered
             end == a_ts + Block * SampleTime
         IN  /\ b.start_ts \in Nat /\ b.input \in Seq(Times)
             /\ audio.start_ts # 0 => b.start_ts = audio.start_ts
             /\ audio.start_ts = 0 /\ b.start_ts # 0 =>
                  b.start_ts = video[audio.paired].start_ts
             /\ b.start_ts = 0 => Line(b.input, audio.first_raw_ts, end)
             /\ b.start_ts # 0 /\ audio.encoded = <<>> =>
                  /\ b.input # <<>> /\ Line(b.input, b.input[1], end)
                  /\ b.start_ts - SampleTime < b.input[1] /\ b.input[1] <= b.start_ts
<1> DEFINE b == Pair!Buffered
           end == a_ts + Block * SampleTime
           v == video[audio.paired].start_ts
           block == Pair!Samples(a_ts)
           first == audio.first_raw_ts
<1>1. /\ audio.paired # NoVideo /\ audio.paired \in Videos /\ audio.first_received
  BY AudioRuns DEF PairInv, Waiting, Pair!At
<1>2. /\ a_ts \in Times /\ audio.start_ts \in Nat /\ first \in Nat /\ v \in Nat
      /\ audio.input \in Seq(Times) /\ Block * SampleTime \in Nat /\ end \in Int
  BY <1>1, Sizes, Grows, SMTT(20) DEF PairInv, Pair!TypeOK, Times
<1>3. block \in Seq(Times) /\ Len(block) = Block /\ block # <<>> /\ Line(block, a_ts, end)
  BY <1>2, LineSamples, Sizes DEF Times
<1>4. audio.input \o block \in Seq(Times) /\ audio.input \o block # <<>>
  BY <1>2, <1>3, ConcatProperties
<1>5. ASSUME NEW a \in Int, Line(audio.input, a, a_ts)
      PROVE  Line(audio.input \o block, a, end)
  BY <1>2, <1>3, <1>5, LineConcat DEF Times
<1>6. v # 0 => first <= v
  BY <1>1 DEF PairInv, Begun
<1> HIDE DEF block, end, v, first
<1>7. CASE audio.start_ts # 0
  <2>1. b = [input |-> audio.input \o block, start_ts |-> audio.start_ts]
    BY <1>7 DEF Pair!Buffered, block
  <2>2. CASE audio.encoded = <<>>
    <3>1. /\ audio.input # <<>> /\ InTime(audio.input[1])
          /\ Line(audio.input, audio.input[1], a_ts)
      BY <1>7, <2>2 DEF PairInv, Waiting
    <3>2. audio.input[1] \in Int /\ (audio.input \o block)[1] = audio.input[1]
      BY <1>2, <1>3, <3>1 DEF Times
    <3>3. Line(audio.input \o block, audio.input[1], end)
      BY <1>5, <3>1, <3>2
    <3>4. audio.start_ts - SampleTime < audio.input[1] /\ audio.input[1] <= audio.start_ts
      BY <3>1 DEF InTime
    <3>q. QED BY <1>2, <1>4, <1>7, <2>1, <3>2, <3>3, <3>4 DEF end
  <2>3. CASE audio.encoded # <<>>
    BY <1>2, <1>4, <1>7, <2>1, <2>3
  <2>q. QED BY <2>2, <2>3
<1>8. CASE audio.start_ts = 0
  <2>1. Line(audio.input, first, a_ts)
    BY <1>1, <1>8 DEF PairInv, Waiting, first
  <2>2. CASE v = 0 \/ end <= v
    <3>1. b = [input |-> audio.input \o block, start_ts |-> 0]
      BY <1>1, <1>8, <2>2 DEF Pair!Buffered, block, v, end
    <3>2. Line(audio.input \o block, first, end)
      BY <1>2, <1>5, <2>1
    <3>q. QED BY <1>4, <1>8, <3>1, <3>2 DEF first, end
  <2>3. CASE v # 0 /\ ~ (end <= v) /\ a_ts <= v
    <3>1. b = [start_ts |-> v, input |-> Pair!Cut(block, Pair!Offset(v, a_ts))]
      BY <1>1, <1>8, <2>3 DEF Pair!Buffered, block, v, end
    <3>2. a_ts <= v /\ v < end /\ a_ts \in Int /\ end \in Int /\ v \in Int
      BY <1>2, <2>3 DEF Times
    <3>3. LET r == Pair!Cut(block, Pair!Offset(v, a_ts)) IN
          /\ r \in Seq(Times) /\ r # <<>> /\ Line(r, r[1], end)
          /\ v - SampleTime < r[1] /\ r[1] <= v
      BY <1>3, <3>2, CutInTime
    <3>q. QED BY <1>2, <1>8, <2>3, <3>1, <3>3 DEF v, end
  <2>4. CASE v # 0 /\ ~ (end <= v) /\ ~ (a_ts <= v)
    <3>1. b = [start_ts |-> v, input |-> Pair!Cut(audio.input, IF first < v THEN Pair!Offset(v, first) ELSE 0)
                                           \o block]
      BY <1>1, <1>8, <2>4 DEF Pair!Buffered, block, v, end, first
    <3>2. Pair!Offset(v, first) = 0 \/ first < v
      <4>1. ASSUME first = v PROVE Pair!Offset(v, first) = 0
        BY <1>2, <4>1, Sizes DEF Pair!Offset, Times
      <4>q. QED BY <1>2, <1>6, <2>4, <4>1
    <3>3. b = [start_ts |-> v, input |-> Pair!Cut(audio.input, Pair!Offset(v, first)) \o block]
      BY <3>1, <3>2
    <3>4. /\ first <= v /\ v < a_ts /\ first \in Int /\ a_ts \in Int /\ v \in Int
          /\ audio.input \in Seq(Times)
      BY <1>2, <1>6, <2>4 DEF Times
    <3> DEFINE r == Pair!Cut(audio.input, Pair!Offset(v, first))
    <3>5. /\ r \in Seq(Times) /\ r # <<>> /\ Line(r, r[1], a_ts)
          /\ v - SampleTime < r[1] /\ r[1] <= v
      BY <2>1, <3>4, CutInTime
    <3>6. r[1] \in Int /\ (r \o block)[1] = r[1] /\ r \o block \in Seq(Times) /\ r \o block # <<>>
      BY <1>3, <3>5 DEF Times
    <3>7. Line(r \o block, r[1], end)
      BY <1>2, <1>3, <3>4, <3>5, <3>6, LineConcat
    <3>q. QED BY <1>2, <1>8, <2>4, <3>3, <3>5, <3>6, <3>7 DEF v, end
  <2>q. QED BY <2>2, <2>3, <2>4
<1>q. QED BY <1>2, <1>7, <1>8

LEMMA WholeFrames ==
  ASSUME PairAssumption, NEW n \in Nat
  PROVE  (n \div FrameSize) * FrameSize \in 0 .. n
<1>1. FrameSize \in Int /\ FrameSize > 0
  BY Sizes DEF Times
<1>2. n \div FrameSize \in Nat /\ (n \div FrameSize) * FrameSize <= n
  BY <1>1
<1>3. (n \div FrameSize) * FrameSize \in Nat
  BY <1>1, <1>2
<1>q. QED BY <1>2, <1>3

LEMMA BufferAudioKeeps ==
  ASSUME PairAssumption, PairInv, Pair!BufferAudio
  PROVE  PairInv'
<1> DEFINE b == Pair!Buffered
           end == a_ts + Block * SampleTime
           whole == IF b.start_ts = 0 THEN 0 ELSE (Len(b.input) \div FrameSize) * FrameSize
           rest == Pair!Cut(b.input, whole)
           chunk == SubSeq(b.input, 1, whole)
<1>1. /\ Pair!At("audio", "buffer") /\ UNCHANGED <<video, v_ts, pair_starts>>
      /\ pair_pc'["audio"] = "idle" /\ a_ts' = end
      /\ pair_pc' = [u \in Outputs \union {"audio"} |-> pair_pc'[u]]
      /\ \A u \in Outputs : pair_pc'[u] = pair_pc[u]
  BY AudioMoves DEF Pair!BufferAudio
<1>2. /\ b.start_ts \in Nat /\ b.input \in Seq(Times)
      /\ audio.start_ts # 0 => b.start_ts = audio.start_ts
      /\ audio.start_ts = 0 /\ b.start_ts # 0 => b.start_ts = video[audio.paired].start_ts
      /\ b.start_ts = 0 => Line(b.input, audio.first_raw_ts, end)
      /\ b.start_ts # 0 /\ audio.encoded = <<>> =>
           /\ b.input # <<>> /\ Line(b.input, b.input[1], end)
           /\ b.start_ts - SampleTime < b.input[1] /\ b.input[1] <= b.start_ts
  BY <1>1, BufferedProperties
<1>3. /\ audio.users # {} /\ audio.paired # NoVideo /\ audio.paired \in Videos
      /\ audio.first_received /\ (audio.start_ts = 0 => audio.encoded = <<>>)
  BY <1>1, AudioRuns DEF PairInv, Waiting, Pair!At
<1>4. a_ts \in Times /\ end \in Times /\ audio.first_raw_ts \in Nat /\ SampleTime \in Times
  <2>1. Block * SampleTime \in Nat
    BY Sizes, Grows DEF Times
  <2>2. a_ts \in Times /\ audio.first_raw_ts \in Nat /\ SampleTime \in Times
    BY Sizes DEF PairInv, Pair!TypeOK, Times
  <2>q. QED BY <2>1, <2>2 DEF Times
<1>5. audio' = [audio EXCEPT !.start_ts = b.start_ts, !.input = rest,
                             !.encoded = IF audio.encoded = <<>> THEN chunk ELSE audio.encoded]
  BY DEF Pair!BufferAudio
<1> HIDE DEF b, end
<1>6. whole \in 0 .. Len(b.input)
  <2>1. Len(b.input) \in Nat
    BY <1>2
  <2>q. QED BY <2>1, WholeFrames
<1> HIDE DEF whole
<1>7. /\ rest \in Seq(Times) /\ Len(rest) = Len(b.input) - whole
      /\ \A i \in 1 .. Len(b.input) - whole : rest[i] = b.input[whole + i]
  BY <1>2, <1>6, CutProperties
<1>8. /\ chunk \in Seq(Times) /\ Len(chunk) = whole
      /\ \A k \in 1 .. whole : chunk[k] = b.input[k]
  <2>1. 1 \in Int /\ whole \in Int /\ \A i \in 1 .. whole : b.input[i] \in Times
    BY <1>2, <1>6
  <2>2. /\ chunk \in Seq(Times) /\ Len(chunk) = (IF 1 <= whole THEN whole - 1 + 1 ELSE 0)
        /\ \A i \in 1 .. whole - 1 + 1 : chunk[i] = b.input[1 + i - 1]
    BY <2>1, SubSeqProperties
  <2>q. QED BY <1>6, <2>2
<1> HIDE DEF rest, chunk
<1>9. /\ audio' \in AudioEncoders /\ audio'.data = audio.data /\ audio'.users = audio.users
      /\ audio'.paired = audio.paired /\ audio'.first_received = audio.first_received
      /\ audio'.first_raw_ts = audio.first_raw_ts
      /\ audio'.start_ts = b.start_ts /\ audio'.input = rest
      /\ audio'.encoded = IF audio.encoded = <<>> THEN chunk ELSE audio.encoded
  BY <1>2, <1>5, <1>7, <1>8 DEF PairInv, Pair!TypeOK, AudioEncoders, Times
<1>10. Pair!TypeOK' /\ a_ts' # 0 /\ v_ts' # 0 /\ Users' /\ Pairing' /\ Unused'
  BY <1>1, <1>3, <1>4, <1>9, OutputsUndisturbed
<1>11. Begun'
  <2>1. ASSUME b.start_ts # 0, NEW v \in Videos, video[v].paired
        PROVE  video[v].start_ts = b.start_ts
    <3>1. audio.paired = v
      BY <2>1 DEF PairInv, Pairing
    <3>q. QED BY <1>2, <2>1, <3>1 DEF PairInv, Begun
  <2>q. QED BY <1>1, <1>9, <2>1 DEF PairInv, Begun
<1>12. CASE b.start_ts = 0
  <2>1. audio.start_ts = 0 /\ audio.encoded = <<>> /\ whole = 0
    BY <1>2, <1>3, <1>12 DEF whole
  <2>2. chunk = <<>>
    BY <1>8, <2>1
  <2>3. Line(rest, audio.first_raw_ts, end)
    <3>1. Line(rest, audio.first_raw_ts + 0 * SampleTime, end)
      BY <1>2, <1>4, <1>6, <1>12, <2>1, LineCut DEF rest, Times
    <3>2. audio.first_raw_ts + 0 * SampleTime = audio.first_raw_ts
      BY <1>4 DEF Times
    <3>q. QED BY <3>1, <3>2
  <2>4. Waiting' /\ Pair!InPlace'
    BY <1>1, <1>3, <1>9, <1>12, <2>1, <2>2, <2>3 DEF Waiting, Pair!InPlace, Pair!At
  <2>q. QED BY <1>1, <1>10, <1>11, <2>4 DEF PairInv
<1>13. CASE b.start_ts # 0 /\ audio.encoded # <<>>
  <2>1. audio.start_ts # 0 /\ audio'.start_ts = audio.start_ts /\ audio'.encoded = audio.encoded
    BY <1>2, <1>3, <1>9, <1>13
  <2>2. Waiting' /\ Pair!InPlace'
    BY <1>1, <1>3, <1>9, <1>13, <2>1 DEF PairInv, Waiting, Pair!InPlace, Pair!At
  <2>q. QED BY <1>1, <1>10, <1>11, <2>2 DEF PairInv
<1>14. CASE b.start_ts # 0 /\ audio.encoded = <<>>
  <2>1. /\ b.input # <<>> /\ Line(b.input, b.input[1], end) /\ b.input[1] \in Times
        /\ b.start_ts - SampleTime < b.input[1] /\ b.input[1] <= b.start_ts
    BY <1>2, <1>14
  <2>2. Pair!InPlace'
    <3>1. ASSUME NEW k \in DOMAIN chunk
          PROVE  LET time == b.start_ts + (k - 1) * SampleTime
                 IN  time - SampleTime < chunk[k] /\ chunk[k] <= time
      <4>1. k \in 1 .. whole /\ k \in DOMAIN b.input
        BY <1>2, <1>6, <1>8
      <4>2. chunk[k] = b.input[1] + (k - 1) * SampleTime
        BY <1>8, <2>1, <4>1 DEF Line
      <4>3. (k - 1) * SampleTime \in Int
        BY <1>4, <4>1 DEF Times
      <4>q. QED BY <1>2, <1>4, <2>1, <4>2, <4>3 DEF Times
    <3>q. QED BY <1>9, <1>14, <3>1 DEF Pair!InPlace
  <2>3. ASSUME chunk = <<>> PROVE rest # <<>> /\ rest[1] = b.input[1] /\ Line(rest, rest[1], end)
    <3>1. whole = 0
      BY <1>8, <2>3
    <3>2. Len(b.input) \in Nat /\ Len(b.input) > 0
      BY <1>2, <2>1
    <3>3. rest # <<>> /\ rest[1] = b.input[1]
      BY <1>7, <3>1, <3>2
    <3>4. Line(rest, b.input[1] + 0 * SampleTime, end)
      BY <1>2, <1>4, <1>6, <2>1, <3>1, LineCut DEF rest, Times
    <3>5. b.input[1] + 0 * SampleTime = b.input[1]
      BY <1>4, <2>1 DEF Times
    <3>q. QED BY <3>3, <3>4, <3>5
  <2>4. Waiting'
    BY <1>1, <1>3, <1>9, <1>14, <2>1, <2>3 DEF Waiting, InTime, Pair!At
  <2>q. QED BY <1>1, <1>10, <1>11, <2>2, <2>4 DEF PairInv
<1>q. QED BY <1>12, <1>13, <1>14

-----------------------------------------------------------------------------
LEMMA PairInit ==
  ASSUME PairAssumption, Pair!Init
  PROVE  PairInv
<1>1. /\ audio = [data |-> FALSE, users |-> {}, paired |-> NoVideo, first_received |-> FALSE,
                  first_raw_ts |-> 0, start_ts |-> 0, input |-> <<>>, encoded |-> <<>>]
      /\ video \in [Videos -> VideoEncoders]
      /\ \A v \in Videos : video[v] = [data |-> FALSE, users |-> {}, paired |-> FALSE,
                                       first_received |-> FALSE, start_ts |-> 0, frames |-> 0]
      /\ pair_pc = [t \in Outputs \union {"audio"} |-> "idle"] /\ pair_starts = 0
  BY DEF Pair!Init, Pair!NewAudio, Pair!NewVideo, VideoEncoders
<1>2. a_ts \in Times /\ v_ts \in Times
  BY DEF PairAssumption, Pair!EncoderPairAssumption, Pair!Init, Times
<1>3. audio \in AudioEncoders
  BY <1>1 DEF AudioEncoders
<1>4. Pair!TypeOK /\ a_ts # 0 /\ v_ts # 0
  BY <1>1, <1>2, <1>3, Sizes DEF Pair!TypeOK, AudioEncoders, VideoEncoders, Times
<1>5. Users /\ ~ Closing
  BY <1>1, Sizes DEF Users, Closing, Started, Busy, Pair!At
<1>6. Pairing /\ Unused /\ Begun /\ Waiting /\ Pair!InPlace
  BY <1>1, <1>5, Sizes DEF Pairing, Unused, Begun, Waiting, Pair!InPlace, Pair!At
<1>q. QED BY <1>1, <1>4, <1>5, <1>6 DEF PairInv

LEMMA PairStep ==
  ASSUME PairAssumption,
         Shared, PairInv, [Pair!Next]_Pair!vars
  PROVE  PairInv'
<1>1. ASSUME NEW o \in Outputs, Pair!Initialize(o) \/ Pair!Abandon(o) \/ Pair!StopVideo(o) \/ Pair!OutputSteps(o)
      PROVE  PairInv'
  BY <1>1, InitializePairs, AbandonKeeps, StopVideoKeeps, StartAudioKeeps, StartVideoKeeps,
     StopAudioKeeps DEF Pair!OutputSteps
<1>2. ASSUME Pair!VideoThread \/ Pair!AudioThread PROVE PairInv'
  BY <1>2, ReceiveVideoKeeps, ReceiveAudioKeeps, FirstReceivedKeeps, BufferAudioKeeps
  DEF Pair!VideoThread, Pair!AudioThread
<1>3. ASSUME UNCHANGED Pair!vars PROVE PairInv'
  BY <1>3 DEF Pair!vars, PairInv, Pair!TypeOK, Users, Busy, Pairing, Closing, Unused, Begun,
              Waiting,
     Pair!InPlace, InTime, Line, Pair!At
<1>q. QED BY <1>1, <1>2, <1>3 DEF Pair!Next

(* Sound and picture fit, whatever the sizes of samples, blocks and frames *)
(* and wherever the clocks begin, for any number of outputs that use the   *)
(* same two encoders.                                                      *)
THEOREM SoundFitsPicture ==
  ASSUME PairAssumption, Shared
  PROVE  Pair!Spec => []Pair!InSync
<1>1. ASSUME PairInv PROVE Pair!InSync
  <2>1. ASSUME audio.paired # NoVideo, video[audio.paired].paired
        PROVE  audio.paired \in Videos
    BY <1>1, <2>1 DEF PairInv, Pair!TypeOK
  <2>2. Pair!Together
    BY <1>1, <2>1 DEF PairInv, Begun, Pair!Together
  <2>q. QED BY <1>1, <2>2 DEF PairInv, Pair!InSync
<1>2. Pair!Init => PairInv
  BY PairInit
<1>3. PairInv /\ [Pair!Next]_Pair!vars => PairInv'
  BY PairStep
<1>q. QED BY <1>1, <1>2, <1>3, PTL DEF Pair!Spec

-----------------------------------------------------------------------------
(* The encoder itself.                                                     *)
USE OutputsAssumption, SwitchAssumption
DEF lockVars, stateVars, endVars, packetVars, Threads, Rob

-----------------------------------------------------------------------------
(* The inductive invariant.                                                *)

WithInit == {"register", "connect", "erase", "disconnect", "shutdown"}
Outside  == {"idle", "start", "running"}
OutputPlaces == WithInit \union Outside \union {"destroy"}
MediaPlaces  == {"idle", "encode", "deliver", "shutdown", "encoded"}
ClientPlaces == {"idle", "destroy", "done"}

Types ==
  /\ init \in Outputs \union {NoThread}
  /\ callbacks \in SUBSET Outputs /\ delivering \in SUBSET Outputs /\ robbed \in SUBSET Outputs
  /\ connected \in BOOLEAN /\ active \in BOOLEAN
  /\ data \in BOOLEAN /\ initialized \in BOOLEAN
  /\ destroy_on_stop \in BOOLEAN /\ freed \in BOOLEAN /\ failed \in BOOLEAN /\ raced \in BOOLEAN
  /\ frames \in 0 .. MaxFrames /\ (pc["media"] # "idle" => frames # 0)
  /\ pc \in [Threads -> OutputPlaces \union MediaPlaces \union ClientPlaces]
  /\ \A o \in Outputs : pc[o] \in OutputPlaces
  /\ pc["media"] \in MediaPlaces /\ pc["client"] \in ClientPlaces
  /\ starts \in [Outputs -> 0 .. MaxStarts]

(* Which thread holds which mutex is a matter of where it is.              *)
Holders ==
  /\ \A o \in Outputs : init = o <=> pc[o] \in WithInit
  /\ cbs = IF pc["media"] \in {"deliver", "shutdown"} THEN "media" ELSE NoThread
  /\ input = IF pc["media"] = "idle" THEN NoThread ELSE "media"

(* Whoever destroys the encoder is alone with it, apart from outputs that  *)
(* have yet to begin a call, or to find that there is no codec.            *)
Apart ==
  /\ \A o \in Outputs : At(o, "destroy") =>
       ~ data /\ \A p \in Outputs \ {o} : pc[p] \in Outside
  /\ At("client", "destroy") => \A o \in Outputs : pc[o] \in {"idle", "running"}
  /\ freed => ~ data /\ \A o \in Outputs : pc[o] \in Outside

(* The callbacks are outputs that have registered and not yet left, and    *)
(* packets are on their way to some of them.                               *)
Registered ==
  /\ \A o \in callbacks : pc[o] \in {"connect", "running", "erase"}
  /\ delivering \subseteq callbacks
  /\ pc["media"] # "deliver" => delivering = {}

(* The connection follows the callbacks, apart from the steps of those who *)
(* change both.                                                            *)
Linked ==
  /\ \A o \in Outputs :
       /\ At(o, "connect") => callbacks = {o} /\ ~ connected /\ ~ active /\ At("media", "idle")
       /\ At(o, "disconnect") => callbacks = {} /\ (connected \/ At("media", "shutdown"))
       /\ At(o, "shutdown") => callbacks = {} /\ ~ connected /\ At("media", "idle")
       /\ At(o, "destroy") => callbacks = {} /\ ~ connected
  /\ At("client", "destroy") \/ freed => callbacks = {} /\ ~ connected
  /\ At("media", "shutdown") => callbacks = {} /\ ~ connected
  /\ (\A o \in Outputs : pc[o] \notin {"connect", "disconnect", "shutdown"})
       /\ ~ At("media", "shutdown") => (connected <=> callbacks # {}) /\ (active <=> connected)

(* The codec is there for whoever counts on it.                            *)
Codec ==
  /\ data => initialized /\ ~ freed
  /\ connected \/ callbacks # {} => data
  /\ \A o \in Outputs : At(o, "register") => data

(* The media thread is in the codec only while it is connected, until      *)
(* encoding fails.  Then the encoder is dead: initialized is still set, so *)
(* that there will be no codec again.                                      *)
Dead ==
  /\ failed /\ ~ At("media", "shutdown") => initialized /\ ~ data /\ ~ connected /\ ~ active
  /\ \A o \in Outputs : At(o, "shutdown") => ~ failed
  /\ At("media", "shutdown") => failed /\ initialized
  /\ At("media", "encode") \/ At("media", "deliver") =>
       connected \/ (failed /\ MaxFrames > 1)
  /\ At("media", "encoded") => connected \/ failed

Agrees == Apart /\ Registered /\ Linked /\ Codec /\ Dead

IInv == Types /\ Holders /\ (~ raced => Agrees)

-----------------------------------------------------------------------------
(* It holds at the start.                                                  *)
LEMMA IInit == Init => IInv
<1> SUFFICES ASSUME Init PROVE IInv
  OBVIOUS
<1>1. Types
  <2>1. \A t \in Threads : pc[t] = "idle"
    BY DEF Init
  <2>2. pc \in [Threads -> OutputPlaces \union MediaPlaces \union ClientPlaces]
    BY DEF Init, OutputPlaces, Outside
  <2>3. starts \in [Outputs -> 0 .. MaxStarts]
    BY DEF Init
  <2>4. frames \in 0 .. MaxFrames
    BY DEF Init
  <2> QED BY <2>1, <2>2, <2>3, <2>4 DEF Init, Types, WithInit, Outside, OutputPlaces, MediaPlaces,
     ClientPlaces
<1>2. Holders /\ Apart
  BY DEF Init, Holders, Apart, At, WithInit
<1>3. Registered /\ Linked /\ Codec /\ Dead
  BY DEF Init, Registered, Linked, Codec, Dead, At
<1> QED BY <1>1, <1>2, <1>3 DEF IInv, Agrees

(* An output that has been told that there is a codec will look again.     *)
LEMMA InitializeKeeps ==
  ASSUME IInv, NEW o \in Outputs, Initialize(o)
  PROVE  IInv'
<1>1. Types'
  <2>1. starts' \in [Outputs -> 0 .. MaxStarts]
    BY DEF IInv, Types, Initialize
  <2>2. data' \in BOOLEAN /\ initialized' \in BOOLEAN /\ raced' \in BOOLEAN
    BY DEF IInv, Types, Initialize, BeginCall
  <2>3. pc' = [pc EXCEPT ![o] = "start"] \/ pc' = pc
    BY DEF Initialize, Go
  <2>4. /\ UNCHANGED <<lockVars, packetVars, connected, active, destroy_on_stop, freed, failed>>
        /\ robbed' \in SUBSET Outputs
    BY DEF IInv, Types, Initialize
  <2> QED BY <2>1, <2>2, <2>3, <2>4 DEF IInv, Types, Outside, OutputPlaces
<1>2. Holders'
  BY DEF IInv, Types, Holders, WithInit, OutputPlaces, MediaPlaces, ClientPlaces, At, Go,
         Initialize, BeginCall, Destroying
<1>3. ASSUME ~ raced' PROVE Agrees'
  <2>1. ~ raced /\ Agrees
    BY <1>3 DEF IInv, Types, Initialize, BeginCall, Destroying
  <2>2. Apart'
    BY <1>3, <2>1 DEF IInv, Types, Holders, Apart, Registered, Linked, Codec, Dead, Agrees,
       WithInit, Outside, OutputPlaces, MediaPlaces, ClientPlaces, At, Go, Initialize, BeginCall,
       Destroying
  <2>3. Registered'
    BY <1>3, <2>1 DEF IInv, Types, Holders, Apart, Registered, Linked, Codec, Dead, Agrees,
       WithInit, Outside, OutputPlaces, MediaPlaces, ClientPlaces, At, Go, Initialize, BeginCall,
       Destroying
  <2>4. Linked'
    BY <1>3, <2>1 DEF IInv, Types, Holders, Apart, Registered, Linked, Codec, Dead, Agrees,
       WithInit, Outside, OutputPlaces, MediaPlaces, ClientPlaces, At, Go, Initialize, BeginCall,
       Destroying
  <2>5. Codec'
    BY <1>3, <2>1 DEF IInv, Types, Holders, Apart, Registered, Linked, Codec, Dead, Agrees,
       WithInit, Outside, OutputPlaces, MediaPlaces, ClientPlaces, At, Go, Initialize, BeginCall,
       Destroying
  <2>6. Dead'
    BY <1>3, <2>1 DEF IInv, Types, Holders, Apart, Registered, Linked, Codec, Dead, Agrees,
       WithInit, Outside, OutputPlaces, MediaPlaces, ClientPlaces, At, Go, Initialize, BeginCall,
       Destroying
  <2> QED BY <2>2, <2>3, <2>4, <2>5, <2>6 DEF Agrees
<1> QED BY <1>1, <1>2, <1>3 DEF IInv

(* Without a codec there is nothing to register with.                      *)
LEMMA StartNothingKeeps ==
  ASSUME IInv, NEW o \in Outputs, StartNothing(o)
  PROVE  IInv'
<1>1. Types'
  BY DEF IInv, Types, WithInit, Outside, OutputPlaces, MediaPlaces, ClientPlaces, At, Go,
         StartNothing
<1>2. Holders'
  BY DEF IInv, Types, Holders, WithInit, OutputPlaces, MediaPlaces, ClientPlaces, At, Go,
         StartNothing
<1>3. ASSUME ~ raced' PROVE Agrees'
  <2>1. ~ raced /\ Agrees
    BY <1>3 DEF IInv, StartNothing
  <2>2. Apart'
    BY <1>3, <2>1 DEF IInv, Types, Holders, Apart, Registered, Linked, Codec, Dead, Agrees,
       WithInit, Outside, OutputPlaces, MediaPlaces, ClientPlaces, At, Go, StartNothing
  <2>3. Registered'
    BY <1>3, <2>1 DEF IInv, Types, Holders, Apart, Registered, Linked, Codec, Dead, Agrees,
       WithInit, Outside, OutputPlaces, MediaPlaces, ClientPlaces, At, Go, StartNothing
  <2>4. Linked'
    BY <1>3, <2>1 DEF IInv, Types, Holders, Apart, Registered, Linked, Codec, Dead, Agrees,
       WithInit, Outside, OutputPlaces, MediaPlaces, ClientPlaces, At, Go, StartNothing
  <2>5. Codec'
    BY <1>3, <2>1 DEF IInv, Types, Holders, Apart, Registered, Linked, Codec, Dead, Agrees,
       WithInit, Outside, OutputPlaces, MediaPlaces, ClientPlaces, At, Go, StartNothing
  <2>6. Dead'
    BY <1>3, <2>1 DEF IInv, Types, Holders, Apart, Registered, Linked, Codec, Dead, Agrees,
       WithInit, Outside, OutputPlaces, MediaPlaces, ClientPlaces, At, Go, StartNothing
  <2> QED BY <2>2, <2>3, <2>4, <2>5, <2>6 DEF Agrees
<1> QED BY <1>1, <1>2, <1>3 DEF IInv

(* The mutex is free, so that no other output is between its steps.        *)
LEMMA StartKeeps ==
  ASSUME IInv, NEW o \in Outputs, Start(o)
  PROVE  IInv'
<1>1. Types'
  BY DEF IInv, Types, WithInit, Outside, OutputPlaces, MediaPlaces, ClientPlaces, At, Go, Start
<1>2. Holders'
  BY DEF IInv, Types, Holders, WithInit, OutputPlaces, MediaPlaces, ClientPlaces, At, Go, Start
<1>3. ASSUME ~ raced' PROVE Agrees'
  <2>1. ~ raced /\ Agrees
    BY <1>3 DEF IInv, Start
  <2>2. Apart'
    BY <1>3, <2>1 DEF IInv, Types, Holders, Apart, Registered, Linked, Codec, Dead, Agrees,
       WithInit, Outside, OutputPlaces, MediaPlaces, ClientPlaces, At, Go, Start
  <2>3. Registered'
    BY <1>3, <2>1 DEF IInv, Types, Holders, Apart, Registered, Linked, Codec, Dead, Agrees,
       WithInit, Outside, OutputPlaces, MediaPlaces, ClientPlaces, At, Go, Start
  <2>4. Linked'
    BY <1>3, <2>1 DEF IInv, Types, Holders, Apart, Registered, Linked, Codec, Dead, Agrees,
       WithInit, Outside, OutputPlaces, MediaPlaces, ClientPlaces, At, Go, Start
  <2>5. Codec'
    BY <1>3, <2>1 DEF IInv, Types, Holders, Apart, Registered, Linked, Codec, Dead, Agrees,
       WithInit, Outside, OutputPlaces, MediaPlaces, ClientPlaces, At, Go, Start
  <2>6. Dead'
    BY <1>3, <2>1 DEF IInv, Types, Holders, Apart, Registered, Linked, Codec, Dead, Agrees,
       WithInit, Outside, OutputPlaces, MediaPlaces, ClientPlaces, At, Go, Start
  <2> QED BY <2>2, <2>3, <2>4, <2>5, <2>6 DEF Agrees
<1> QED BY <1>1, <1>2, <1>3 DEF IInv

(* The first output finds the media thread idle, as nothing is connected.  *)
LEMMA RegisterKeeps ==
  ASSUME IInv, NEW o \in Outputs, Register(o)
  PROVE  IInv'
<1>1. Types'
  BY DEF IInv, Types, WithInit, Outside, OutputPlaces, MediaPlaces, ClientPlaces, At, Go, Register
<1>2. Holders'
  BY DEF IInv, Types, Holders, WithInit, OutputPlaces, MediaPlaces, ClientPlaces, At, Go, Register
<1>3. ASSUME ~ raced' PROVE Agrees'
  <2>1. ~ raced /\ Agrees
    BY <1>3 DEF IInv, Register
  <2>2. Apart'
    BY <1>3, <2>1 DEF IInv, Types, Holders, Apart, Registered, Linked, Codec, Dead, Agrees,
       WithInit, Outside, OutputPlaces, MediaPlaces, ClientPlaces, At, Go, Register
  <2>3. Registered'
    BY <1>3, <2>1 DEF IInv, Types, Holders, Apart, Registered, Linked, Codec, Dead, Agrees,
       WithInit, Outside, OutputPlaces, MediaPlaces, ClientPlaces, At, Go, Register
  <2>4. Linked'
    BY <1>3, <2>1 DEF IInv, Types, Holders, Apart, Registered, Linked, Codec, Dead, Agrees,
       WithInit, Outside, OutputPlaces, MediaPlaces, ClientPlaces, At, Go, Register
  <2>5. Codec'
    BY <1>3, <2>1 DEF IInv, Types, Holders, Apart, Registered, Linked, Codec, Dead, Agrees,
       WithInit, Outside, OutputPlaces, MediaPlaces, ClientPlaces, At, Go, Register
  <2>6. Dead'
    BY <1>3, <2>1 DEF IInv, Types, Holders, Apart, Registered, Linked, Codec, Dead, Agrees,
       WithInit, Outside, OutputPlaces, MediaPlaces, ClientPlaces, At, Go, Register
  <2> QED BY <2>2, <2>3, <2>4, <2>5, <2>6 DEF Agrees
<1> QED BY <1>1, <1>2, <1>3 DEF IInv

(* The connection is made for the one callback there is.                   *)
LEMMA ConnectKeeps ==
  ASSUME IInv, NEW o \in Outputs, Connect(o)
  PROVE  IInv'
<1>1. Types'
  BY DEF IInv, Types, WithInit, Outside, OutputPlaces, MediaPlaces, ClientPlaces, At, Go, Connect
<1>2. Holders'
  BY DEF IInv, Types, Holders, WithInit, OutputPlaces, MediaPlaces, ClientPlaces, At, Go, Connect
<1>3. ASSUME ~ raced' PROVE Agrees'
  <2>1. ~ raced /\ Agrees
    BY <1>3 DEF IInv, Connect
  <2>2. Apart'
    BY <1>3, <2>1 DEF IInv, Types, Holders, Apart, Registered, Linked, Codec, Dead, Agrees,
       WithInit, Outside, OutputPlaces, MediaPlaces, ClientPlaces, At, Go, Connect
  <2>3. Registered'
    BY <1>3, <2>1 DEF IInv, Types, Holders, Apart, Registered, Linked, Codec, Dead, Agrees,
       WithInit, Outside, OutputPlaces, MediaPlaces, ClientPlaces, At, Go, Connect
  <2>4. Linked'
    BY <1>3, <2>1 DEF IInv, Types, Holders, Apart, Registered, Linked, Codec, Dead, Agrees,
       WithInit, Outside, OutputPlaces, MediaPlaces, ClientPlaces, At, Go, Connect
  <2>5. Codec'
    BY <1>3, <2>1 DEF IInv, Types, Holders, Apart, Registered, Linked, Codec, Dead, Agrees,
       WithInit, Outside, OutputPlaces, MediaPlaces, ClientPlaces, At, Go, Connect
  <2>6. Dead'
    BY <1>3, <2>1 DEF IInv, Types, Holders, Apart, Registered, Linked, Codec, Dead, Agrees,
       WithInit, Outside, OutputPlaces, MediaPlaces, ClientPlaces, At, Go, Connect
  <2> QED BY <2>2, <2>3, <2>4, <2>5, <2>6 DEF Agrees
<1> QED BY <1>1, <1>2, <1>3 DEF IInv

(* The encoder has been taken from the output.                             *)
LEMMA StopNothingKeeps ==
  ASSUME IInv, NEW o \in Outputs, StopNothing(o)
  PROVE  IInv'
<1>1. Types'
  BY DEF IInv, Types, WithInit, Outside, OutputPlaces, MediaPlaces, ClientPlaces, At, Go,
         StopNothing
<1>2. Holders'
  BY DEF IInv, Types, Holders, WithInit, OutputPlaces, MediaPlaces, ClientPlaces, At, Go,
         StopNothing
<1>3. ASSUME ~ raced' PROVE Agrees'
  <2>1. ~ raced /\ Agrees
    BY <1>3 DEF IInv, StopNothing
  <2>2. Apart'
    BY <1>3, <2>1 DEF IInv, Types, Holders, Apart, Registered, Linked, Codec, Dead, Agrees,
       WithInit, Outside, OutputPlaces, MediaPlaces, ClientPlaces, At, Go, StopNothing
  <2>3. Registered'
    BY <1>3, <2>1 DEF IInv, Types, Holders, Apart, Registered, Linked, Codec, Dead, Agrees,
       WithInit, Outside, OutputPlaces, MediaPlaces, ClientPlaces, At, Go, StopNothing
  <2>4. Linked'
    BY <1>3, <2>1 DEF IInv, Types, Holders, Apart, Registered, Linked, Codec, Dead, Agrees,
       WithInit, Outside, OutputPlaces, MediaPlaces, ClientPlaces, At, Go, StopNothing
  <2>5. Codec'
    BY <1>3, <2>1 DEF IInv, Types, Holders, Apart, Registered, Linked, Codec, Dead, Agrees,
       WithInit, Outside, OutputPlaces, MediaPlaces, ClientPlaces, At, Go, StopNothing
  <2>6. Dead'
    BY <1>3, <2>1 DEF IInv, Types, Holders, Apart, Registered, Linked, Codec, Dead, Agrees,
       WithInit, Outside, OutputPlaces, MediaPlaces, ClientPlaces, At, Go, StopNothing
  <2> QED BY <2>2, <2>3, <2>4, <2>5, <2>6 DEF Agrees
<1> QED BY <1>1, <1>2, <1>3 DEF IInv

(* The mutex is free, so that no other output is between its steps.        *)
LEMMA StopKeeps ==
  ASSUME IInv, NEW o \in Outputs, Stop(o)
  PROVE  IInv'
<1>1. Types'
  BY DEF IInv, Types, WithInit, Outside, OutputPlaces, MediaPlaces, ClientPlaces, At, Go, Stop,
         BeginCall, Destroying
<1>2. Holders'
  BY DEF IInv, Types, Holders, WithInit, OutputPlaces, MediaPlaces, ClientPlaces, At, Go, Stop,
         BeginCall, Destroying
<1>3. ASSUME ~ raced' PROVE Agrees'
  <2>1. ~ raced /\ Agrees
    BY <1>3 DEF IInv, Types, Stop, BeginCall, Destroying
  <2>2. Apart'
    BY <1>3, <2>1 DEF IInv, Types, Holders, Apart, Registered, Linked, Codec, Dead, Agrees,
       WithInit, Outside, OutputPlaces, MediaPlaces, ClientPlaces, At, Go, Stop, BeginCall,
       Destroying
  <2>3. Registered'
    BY <1>3, <2>1 DEF IInv, Types, Holders, Apart, Registered, Linked, Codec, Dead, Agrees,
       WithInit, Outside, OutputPlaces, MediaPlaces, ClientPlaces, At, Go, Stop, BeginCall,
       Destroying
  <2>4. Linked'
    BY <1>3, <2>1 DEF IInv, Types, Holders, Apart, Registered, Linked, Codec, Dead, Agrees,
       WithInit, Outside, OutputPlaces, MediaPlaces, ClientPlaces, At, Go, Stop, BeginCall,
       Destroying
  <2>5. Codec'
    BY <1>3, <2>1 DEF IInv, Types, Holders, Apart, Registered, Linked, Codec, Dead, Agrees,
       WithInit, Outside, OutputPlaces, MediaPlaces, ClientPlaces, At, Go, Stop, BeginCall,
       Destroying
  <2>6. Dead'
    BY <1>3, <2>1 DEF IInv, Types, Holders, Apart, Registered, Linked, Codec, Dead, Agrees,
       WithInit, Outside, OutputPlaces, MediaPlaces, ClientPlaces, At, Go, Stop, BeginCall,
       Destroying
  <2> QED BY <2>2, <2>3, <2>4, <2>5, <2>6 DEF Agrees
<1> QED BY <1>1, <1>2, <1>3 DEF IInv

(* The last output goes on alone.                                          *)
LEMMA EraseKeeps ==
  ASSUME IInv, NEW o \in Outputs, Erase(o)
  PROVE  IInv'
<1>1. Types'
  BY DEF IInv, Types, WithInit, Outside, OutputPlaces, MediaPlaces, ClientPlaces, At, Go, Erase
<1>2. Holders'
  BY DEF IInv, Types, Holders, WithInit, OutputPlaces, MediaPlaces, ClientPlaces, At, Go, Erase
<1>3. ASSUME ~ raced' PROVE Agrees'
  <2>1. ~ raced /\ Agrees
    BY <1>3 DEF IInv, Erase
  <2>2. Apart'
    BY <1>3, <2>1 DEF IInv, Types, Holders, Apart, Registered, Linked, Codec, Dead, Agrees,
       WithInit, Outside, OutputPlaces, MediaPlaces, ClientPlaces, At, Go, Erase
  <2>3. Registered'
    BY <1>3, <2>1 DEF IInv, Types, Holders, Apart, Registered, Linked, Codec, Dead, Agrees,
       WithInit, Outside, OutputPlaces, MediaPlaces, ClientPlaces, At, Go, Erase
  <2>4. Linked'
    BY <1>3, <2>1 DEF IInv, Types, Holders, Apart, Registered, Linked, Codec, Dead, Agrees,
       WithInit, Outside, OutputPlaces, MediaPlaces, ClientPlaces, At, Go, Erase
  <2>5. Codec'
    BY <1>3, <2>1 DEF IInv, Types, Holders, Apart, Registered, Linked, Codec, Dead, Agrees,
       WithInit, Outside, OutputPlaces, MediaPlaces, ClientPlaces, At, Go, Erase
  <2>6. Dead'
    BY <1>3, <2>1 DEF IInv, Types, Holders, Apart, Registered, Linked, Codec, Dead, Agrees,
       WithInit, Outside, OutputPlaces, MediaPlaces, ClientPlaces, At, Go, Erase
  <2> QED BY <2>2, <2>3, <2>4, <2>5, <2>6 DEF Agrees
<1> QED BY <1>1, <1>2, <1>3 DEF IInv

(* The media thread has returned, and is not called again.                 *)
LEMMA DisconnectKeeps ==
  ASSUME IInv, NEW o \in Outputs, Disconnect(o)
  PROVE  IInv'
<1>1. Types'
  BY DEF IInv, Types, WithInit, Outside, OutputPlaces, MediaPlaces, ClientPlaces, At, Go,
         Disconnect
<1>2. Holders'
  BY DEF IInv, Types, Holders, WithInit, OutputPlaces, MediaPlaces, ClientPlaces, At, Go,
         Disconnect
<1>3. ASSUME ~ raced' PROVE Agrees'
  <2>1. ~ raced /\ Agrees
    BY <1>3 DEF IInv, Disconnect
  <2>2. Apart'
    BY <1>3, <2>1 DEF IInv, Types, Holders, Apart, Registered, Linked, Codec, Dead, Agrees,
       WithInit, Outside, OutputPlaces, MediaPlaces, ClientPlaces, At, Go, Disconnect
  <2>3. Registered'
    BY <1>3, <2>1 DEF IInv, Types, Holders, Apart, Registered, Linked, Codec, Dead, Agrees,
       WithInit, Outside, OutputPlaces, MediaPlaces, ClientPlaces, At, Go, Disconnect
  <2>4. Linked'
    BY <1>3, <2>1 DEF IInv, Types, Holders, Apart, Registered, Linked, Codec, Dead, Agrees,
       WithInit, Outside, OutputPlaces, MediaPlaces, ClientPlaces, At, Go, Disconnect
  <2>5. Codec'
    BY <1>3, <2>1 DEF IInv, Types, Holders, Apart, Registered, Linked, Codec, Dead, Agrees,
       WithInit, Outside, OutputPlaces, MediaPlaces, ClientPlaces, At, Go, Disconnect
  <2>6. Dead'
    BY <1>3, <2>1 DEF IInv, Types, Holders, Apart, Registered, Linked, Codec, Dead, Agrees,
       WithInit, Outside, OutputPlaces, MediaPlaces, ClientPlaces, At, Go, Disconnect
  <2> QED BY <2>2, <2>3, <2>4, <2>5, <2>6 DEF Agrees
<1> QED BY <1>1, <1>2, <1>3 DEF IInv

(* The codec goes, and those who are to start will not find it.            *)
LEMMA ShutdownKeeps ==
  ASSUME IInv, NEW o \in Outputs, Shutdown(o)
  PROVE  IInv'
<1>1. Types'
  BY DEF IInv, Types, WithInit, Outside, OutputPlaces, MediaPlaces, ClientPlaces, At, Go,
         Shutdown, Starting
<1>2. Holders'
  BY DEF IInv, Types, Holders, WithInit, OutputPlaces, MediaPlaces, ClientPlaces, At, Go,
         Shutdown, Starting
<1>3. ASSUME ~ raced' PROVE Agrees'
  <2>1. ~ raced /\ Agrees
    BY <1>3 DEF IInv, Shutdown
  <2>2. Apart'
    BY <1>3, <2>1 DEF IInv, Types, Holders, Apart, Registered, Linked, Codec, Dead, Agrees,
       WithInit, Outside, OutputPlaces, MediaPlaces, ClientPlaces, At, Go, Shutdown, Starting
  <2>3. Registered'
    BY <1>3, <2>1 DEF IInv, Types, Holders, Apart, Registered, Linked, Codec, Dead, Agrees,
       WithInit, Outside, OutputPlaces, MediaPlaces, ClientPlaces, At, Go, Shutdown, Starting
  <2>4. Linked'
    BY <1>3, <2>1 DEF IInv, Types, Holders, Apart, Registered, Linked, Codec, Dead, Agrees,
       WithInit, Outside, OutputPlaces, MediaPlaces, ClientPlaces, At, Go, Shutdown, Starting
  <2>5. Codec'
    BY <1>3, <2>1 DEF IInv, Types, Holders, Apart, Registered, Linked, Codec, Dead, Agrees,
       WithInit, Outside, OutputPlaces, MediaPlaces, ClientPlaces, At, Go, Shutdown, Starting
  <2>6. Dead'
    BY <1>3, <2>1 DEF IInv, Types, Holders, Apart, Registered, Linked, Codec, Dead, Agrees,
       WithInit, Outside, OutputPlaces, MediaPlaces, ClientPlaces, At, Go, Shutdown, Starting
  <2> QED BY <2>2, <2>3, <2>4, <2>5, <2>6 DEF Agrees
<1> QED BY <1>1, <1>2, <1>3 DEF IInv

(* Nobody is in a call, and nothing is connected.                          *)
LEMMA ActuallyDestroyKeeps ==
  ASSUME IInv, NEW t \in Threads, ActuallyDestroy(t)
  PROVE  IInv'
<1>1. Types'
  BY DEF IInv, Types, WithInit, Outside, OutputPlaces, MediaPlaces, ClientPlaces, At, Go,
         ActuallyDestroy, Starting
<1>2. Holders'
  BY DEF IInv, Types, Holders, WithInit, OutputPlaces, MediaPlaces, ClientPlaces, At, Go,
         ActuallyDestroy, Starting
<1>3. ASSUME ~ raced' PROVE Agrees'
  <2>1. ~ raced /\ Agrees
    BY <1>3 DEF IInv, ActuallyDestroy
  <2>2. Apart'
    BY <1>3, <2>1 DEF IInv, Types, Holders, Apart, Registered, Linked, Codec, Dead, Agrees,
       WithInit, Outside, OutputPlaces, MediaPlaces, ClientPlaces, At, Go, ActuallyDestroy,
       Starting
  <2>3. Registered'
    BY <1>3, <2>1 DEF IInv, Types, Holders, Apart, Registered, Linked, Codec, Dead, Agrees,
       WithInit, Outside, OutputPlaces, MediaPlaces, ClientPlaces, At, Go, ActuallyDestroy,
       Starting
  <2>4. Linked'
    BY <1>3, <2>1 DEF IInv, Types, Holders, Apart, Registered, Linked, Codec, Dead, Agrees,
       WithInit, Outside, OutputPlaces, MediaPlaces, ClientPlaces, At, Go, ActuallyDestroy,
       Starting
  <2>5. Codec'
    BY <1>3, <2>1 DEF IInv, Types, Holders, Apart, Registered, Linked, Codec, Dead, Agrees,
       WithInit, Outside, OutputPlaces, MediaPlaces, ClientPlaces, At, Go, ActuallyDestroy,
       Starting
  <2>6. Dead'
    BY <1>3, <2>1 DEF IInv, Types, Holders, Apart, Registered, Linked, Codec, Dead, Agrees,
       WithInit, Outside, OutputPlaces, MediaPlaces, ClientPlaces, At, Go, ActuallyDestroy,
       Starting
  <2> QED BY <2>2, <2>3, <2>4, <2>5, <2>6 DEF Agrees
<1> QED BY <1>1, <1>2, <1>3 DEF IInv

(* Without outputs, the client goes on alone.                              *)
LEMMA DestroyKeeps ==
  ASSUME IInv, Destroy
  PROVE  IInv'
<1>1. Types'
  <2>1. UNCHANGED <<lockVars, packetVars, stateVars, freed, failed, robbed, starts>>
    BY DEF Destroy
  <2>2. destroy_on_stop' \in BOOLEAN /\ raced' \in BOOLEAN
    BY DEF Destroy, FindsNoOutput, IInv, Types
  <2>3. pc' = [pc EXCEPT !["client"] = "destroy"] \/ pc' = [pc EXCEPT !["client"] = "done"]
    BY DEF Destroy, Go
  <2> QED BY <2>1, <2>2, <2>3 DEF IInv, Types, Outside, OutputPlaces, ClientPlaces
<1>2. Holders'
  BY DEF IInv, Types, Holders, WithInit, OutputPlaces, MediaPlaces, ClientPlaces, At, Go, Destroy,
         FindsNoOutput, Starting, Stopping
<1>3. ASSUME ~ raced' PROVE Agrees'
  <2>1. ~ raced /\ Agrees
    BY <1>3 DEF IInv, Types, Destroy, FindsNoOutput
  <2>a. callbacks = {} => \A o \in Outputs : ~ Starting(o) /\ ~ Stopping(o)
    BY <1>3 DEF IInv, Types, Destroy, FindsNoOutput
  <2>b. /\ \/ pc' = [pc EXCEPT !["client"] = "done"]
           \/ callbacks = {} /\ pc' = [pc EXCEPT !["client"] = "destroy"]
        /\ data' = data /\ freed' = freed
    BY DEF Destroy, Go
  <2>2. Apart'
    BY <1>3, <2>1, <2>a, <2>b DEF IInv, Types, Apart, Agrees, WithInit, Outside, OutputPlaces, At,
       Starting, Stopping
  <2>3. Registered'
    BY <1>3, <2>1 DEF IInv, Types, Holders, Apart, Registered, Linked, Codec, Dead, Agrees,
       WithInit, Outside, OutputPlaces, MediaPlaces, ClientPlaces, At, Go, Destroy, FindsNoOutput,
       Starting, Stopping
  <2>4. Linked'
    BY <1>3, <2>1 DEF IInv, Types, Holders, Apart, Registered, Linked, Codec, Dead, Agrees,
       WithInit, Outside, OutputPlaces, MediaPlaces, ClientPlaces, At, Go, Destroy, FindsNoOutput,
       Starting, Stopping
  <2>5. Codec'
    BY <1>3, <2>1 DEF IInv, Types, Holders, Apart, Registered, Linked, Codec, Dead, Agrees,
       WithInit, Outside, OutputPlaces, MediaPlaces, ClientPlaces, At, Go, Destroy, FindsNoOutput,
       Starting, Stopping
  <2>6. Dead'
    BY <1>3, <2>1 DEF IInv, Types, Holders, Apart, Registered, Linked, Codec, Dead, Agrees,
       WithInit, Outside, OutputPlaces, MediaPlaces, ClientPlaces, At, Go, Destroy, FindsNoOutput,
       Starting, Stopping
  <2> QED BY <2>2, <2>3, <2>4, <2>5, <2>6 DEF Agrees
<1> QED BY <1>1, <1>2, <1>3 DEF IInv

(* Who is connected has a codec.                                           *)
LEMMA FeedKeeps ==
  ASSUME IInv, Feed
  PROVE  IInv'
<1>1. Types'
  BY DEF IInv, Types, WithInit, Outside, OutputPlaces, MediaPlaces, ClientPlaces, At, Go, Feed
<1>2. Holders'
  BY DEF IInv, Types, Holders, WithInit, OutputPlaces, MediaPlaces, ClientPlaces, At, Go, Feed
<1>3. ASSUME ~ raced' PROVE Agrees'
  <2>1. ~ raced /\ Agrees
    BY <1>3 DEF IInv, Feed
  <2>2. Apart'
    BY <1>3, <2>1 DEF IInv, Types, Holders, Apart, Registered, Linked, Codec, Dead, Agrees,
       WithInit, Outside, OutputPlaces, MediaPlaces, ClientPlaces, At, Go, Feed
  <2>3. Registered'
    BY <1>3, <2>1 DEF IInv, Types, Holders, Apart, Registered, Linked, Codec, Dead, Agrees,
       WithInit, Outside, OutputPlaces, MediaPlaces, ClientPlaces, At, Go, Feed
  <2>4. Linked'
    BY <1>3, <2>1 DEF IInv, Types, Holders, Apart, Registered, Linked, Codec, Dead, Agrees,
       WithInit, Outside, OutputPlaces, MediaPlaces, ClientPlaces, At, Go, Feed
  <2>5. Codec'
    BY <1>3, <2>1 DEF IInv, Types, Holders, Apart, Registered, Linked, Codec, Dead, Agrees,
       WithInit, Outside, OutputPlaces, MediaPlaces, ClientPlaces, At, Go, Feed
  <2>6. Dead'
    BY <1>3, <2>1 DEF IInv, Types, Holders, Apart, Registered, Linked, Codec, Dead, Agrees,
       WithInit, Outside, OutputPlaces, MediaPlaces, ClientPlaces, At, Go, Feed
  <2> QED BY <2>2, <2>3, <2>4, <2>5, <2>6 DEF Agrees
<1> QED BY <1>1, <1>2, <1>3 DEF IInv

(* The media thread takes the callbacks as they are.                       *)
LEMMA EncodeKeeps ==
  ASSUME IInv, Encode
  PROVE  IInv'
<1>1. Types'
  BY DEF IInv, Types, WithInit, Outside, OutputPlaces, MediaPlaces, ClientPlaces, At, Go, Encode
<1>2. Holders'
  BY DEF IInv, Types, Holders, WithInit, OutputPlaces, MediaPlaces, ClientPlaces, At, Go, Encode
<1>3. ASSUME ~ raced' PROVE Agrees'
  <2>1. ~ raced /\ Agrees
    BY <1>3 DEF IInv, Encode
  <2>2. Apart'
    BY <1>3, <2>1 DEF IInv, Types, Holders, Apart, Registered, Linked, Codec, Dead, Agrees,
       WithInit, Outside, OutputPlaces, MediaPlaces, ClientPlaces, At, Go, Encode
  <2>3. Registered'
    BY <1>3, <2>1 DEF IInv, Types, Holders, Apart, Registered, Linked, Codec, Dead, Agrees,
       WithInit, Outside, OutputPlaces, MediaPlaces, ClientPlaces, At, Go, Encode
  <2>4. Linked'
    BY <1>3, <2>1 DEF IInv, Types, Holders, Apart, Registered, Linked, Codec, Dead, Agrees,
       WithInit, Outside, OutputPlaces, MediaPlaces, ClientPlaces, At, Go, Encode
  <2>5. Codec'
    BY <1>3, <2>1 DEF IInv, Types, Holders, Apart, Registered, Linked, Codec, Dead, Agrees,
       WithInit, Outside, OutputPlaces, MediaPlaces, ClientPlaces, At, Go, Encode
  <2>6. Dead'
    BY <1>3, <2>1 DEF IInv, Types, Holders, Apart, Registered, Linked, Codec, Dead, Agrees,
       WithInit, Outside, OutputPlaces, MediaPlaces, ClientPlaces, At, Go, Encode
  <2> QED BY <2>2, <2>3, <2>4, <2>5, <2>6 DEF Agrees
<1> QED BY <1>1, <1>2, <1>3 DEF IInv

(* The packet is delivered.                                                *)
LEMMA DeliverKeeps ==
  ASSUME IInv, Deliver
  PROVE  IInv'
<1>1. Types'
  BY DEF IInv, Types, WithInit, Outside, OutputPlaces, MediaPlaces, ClientPlaces, At, Go, Deliver
<1>2. Holders'
  BY DEF IInv, Types, Holders, WithInit, OutputPlaces, MediaPlaces, ClientPlaces, At, Go, Deliver
<1>3. ASSUME ~ raced' PROVE Agrees'
  <2>1. ~ raced /\ Agrees
    BY <1>3 DEF IInv, Deliver
  <2>2. Apart'
    BY <1>3, <2>1 DEF IInv, Types, Holders, Apart, Registered, Linked, Codec, Dead, Agrees,
       WithInit, Outside, OutputPlaces, MediaPlaces, ClientPlaces, At, Go, Deliver
  <2>3. Registered'
    BY <1>3, <2>1 DEF IInv, Types, Holders, Apart, Registered, Linked, Codec, Dead, Agrees,
       WithInit, Outside, OutputPlaces, MediaPlaces, ClientPlaces, At, Go, Deliver
  <2>4. Linked'
    BY <1>3, <2>1 DEF IInv, Types, Holders, Apart, Registered, Linked, Codec, Dead, Agrees,
       WithInit, Outside, OutputPlaces, MediaPlaces, ClientPlaces, At, Go, Deliver
  <2>5. Codec'
    BY <1>3, <2>1 DEF IInv, Types, Holders, Apart, Registered, Linked, Codec, Dead, Agrees,
       WithInit, Outside, OutputPlaces, MediaPlaces, ClientPlaces, At, Go, Deliver
  <2>6. Dead'
    BY <1>3, <2>1 DEF IInv, Types, Holders, Apart, Registered, Linked, Codec, Dead, Agrees,
       WithInit, Outside, OutputPlaces, MediaPlaces, ClientPlaces, At, Go, Deliver
  <2> QED BY <2>2, <2>3, <2>4, <2>5, <2>6 DEF Agrees
<1> QED BY <1>1, <1>2, <1>3 DEF IInv

(* Nothing is delivered.                                                   *)
LEMMA EncodeNoPacketKeeps ==
  ASSUME IInv, EncodeNoPacket
  PROVE  IInv'
<1>1. Types'
  BY DEF IInv, Types, WithInit, Outside, OutputPlaces, MediaPlaces, ClientPlaces, At, Go,
         EncodeNoPacket
<1>2. Holders'
  BY DEF IInv, Types, Holders, WithInit, OutputPlaces, MediaPlaces, ClientPlaces, At, Go,
         EncodeNoPacket
<1>3. ASSUME ~ raced' PROVE Agrees'
  <2>1. ~ raced /\ Agrees
    BY <1>3 DEF IInv, EncodeNoPacket
  <2>2. Apart'
    BY <1>3, <2>1 DEF IInv, Types, Holders, Apart, Registered, Linked, Codec, Dead, Agrees,
       WithInit, Outside, OutputPlaces, MediaPlaces, ClientPlaces, At, Go, EncodeNoPacket
  <2>3. Registered'
    BY <1>3, <2>1 DEF IInv, Types, Holders, Apart, Registered, Linked, Codec, Dead, Agrees,
       WithInit, Outside, OutputPlaces, MediaPlaces, ClientPlaces, At, Go, EncodeNoPacket
  <2>4. Linked'
    BY <1>3, <2>1 DEF IInv, Types, Holders, Apart, Registered, Linked, Codec, Dead, Agrees,
       WithInit, Outside, OutputPlaces, MediaPlaces, ClientPlaces, At, Go, EncodeNoPacket
  <2>5. Codec'
    BY <1>3, <2>1 DEF IInv, Types, Holders, Apart, Registered, Linked, Codec, Dead, Agrees,
       WithInit, Outside, OutputPlaces, MediaPlaces, ClientPlaces, At, Go, EncodeNoPacket
  <2>6. Dead'
    BY <1>3, <2>1 DEF IInv, Types, Holders, Apart, Registered, Linked, Codec, Dead, Agrees,
       WithInit, Outside, OutputPlaces, MediaPlaces, ClientPlaces, At, Go, EncodeNoPacket
  <2> QED BY <2>2, <2>3, <2>4, <2>5, <2>6 DEF Agrees
<1> QED BY <1>1, <1>2, <1>3 DEF IInv

(* The media thread drops all callbacks and the connection at once.        *)
LEMMA FullStopKeeps ==
  ASSUME IInv, FullStop
  PROVE  IInv'
<1>1. Types'
  BY DEF IInv, Types, WithInit, Outside, OutputPlaces, MediaPlaces, ClientPlaces, At, Go, FullStop
<1>2. Holders'
  BY DEF IInv, Types, Holders, WithInit, OutputPlaces, MediaPlaces, ClientPlaces, At, Go, FullStop
<1>3. ASSUME ~ raced' PROVE Agrees'
  <2>1. ~ raced /\ Agrees
    BY <1>3 DEF IInv, FullStop
  <2>2. Apart'
    BY <1>3, <2>1 DEF IInv, Types, Holders, Apart, Registered, Linked, Codec, Dead, Agrees,
       WithInit, Outside, OutputPlaces, MediaPlaces, ClientPlaces, At, Go, FullStop
  <2>3. Registered'
    BY <1>3, <2>1 DEF IInv, Types, Holders, Apart, Registered, Linked, Codec, Dead, Agrees,
       WithInit, Outside, OutputPlaces, MediaPlaces, ClientPlaces, At, Go, FullStop
  <2>4. Linked'
    BY <1>3, <2>1 DEF IInv, Types, Holders, Apart, Registered, Linked, Codec, Dead, Agrees,
       WithInit, Outside, OutputPlaces, MediaPlaces, ClientPlaces, At, Go, FullStop
  <2>5. Codec'
    BY <1>3, <2>1 DEF IInv, Types, Holders, Apart, Registered, Linked, Codec, Dead, Agrees,
       WithInit, Outside, OutputPlaces, MediaPlaces, ClientPlaces, At, Go, FullStop
  <2>6. Dead'
    BY <1>3, <2>1 DEF IInv, Types, Holders, Apart, Registered, Linked, Codec, Dead, Agrees,
       WithInit, Outside, OutputPlaces, MediaPlaces, ClientPlaces, At, Go, FullStop
  <2> QED BY <2>2, <2>3, <2>4, <2>5, <2>6 DEF Agrees
<1> QED BY <1>1, <1>2, <1>3 DEF IInv

(* ... and destroys the codec while no output is between its steps.        *)
LEMMA FullStopShutdownKeeps ==
  ASSUME IInv, FullStopShutdown
  PROVE  IInv'
<1>1. Types'
  BY DEF IInv, Types, WithInit, Outside, OutputPlaces, MediaPlaces, ClientPlaces, At, Go,
         FullStopShutdown, Starting
<1>2. Holders'
  BY DEF IInv, Types, Holders, WithInit, OutputPlaces, MediaPlaces, ClientPlaces, At, Go,
         FullStopShutdown, Starting
<1>3. ASSUME ~ raced' PROVE Agrees'
  <2>1. ~ raced /\ Agrees
    BY <1>3 DEF IInv, FullStopShutdown
  <2>2. Apart'
    BY <1>3, <2>1 DEF IInv, Types, Holders, Apart, Registered, Linked, Codec, Dead, Agrees,
       WithInit, Outside, OutputPlaces, MediaPlaces, ClientPlaces, At, Go, FullStopShutdown,
       Starting
  <2>3. Registered'
    BY <1>3, <2>1 DEF IInv, Types, Holders, Apart, Registered, Linked, Codec, Dead, Agrees,
       WithInit, Outside, OutputPlaces, MediaPlaces, ClientPlaces, At, Go, FullStopShutdown,
       Starting
  <2>4. Linked'
    BY <1>3, <2>1 DEF IInv, Types, Holders, Apart, Registered, Linked, Codec, Dead, Agrees,
       WithInit, Outside, OutputPlaces, MediaPlaces, ClientPlaces, At, Go, FullStopShutdown,
       Starting
  <2>5. Codec'
    BY <1>3, <2>1 DEF IInv, Types, Holders, Apart, Registered, Linked, Codec, Dead, Agrees,
       WithInit, Outside, OutputPlaces, MediaPlaces, ClientPlaces, At, Go, FullStopShutdown,
       Starting
  <2>6. Dead'
    BY <1>3, <2>1 DEF IInv, Types, Holders, Apart, Registered, Linked, Codec, Dead, Agrees,
       WithInit, Outside, OutputPlaces, MediaPlaces, ClientPlaces, At, Go, FullStopShutdown,
       Starting
  <2> QED BY <2>2, <2>3, <2>4, <2>5, <2>6 DEF Agrees
<1> QED BY <1>1, <1>2, <1>3 DEF IInv

(* The next of the frames is encoded, or the call returns.                 *)
LEMMA EncodedKeeps ==
  ASSUME IInv, Encoded
  PROVE  IInv'
<1>1. Types'
  BY DEF IInv, Types, WithInit, Outside, OutputPlaces, MediaPlaces, ClientPlaces, At, Go, Encoded
<1>2. Holders'
  BY DEF IInv, Types, Holders, WithInit, OutputPlaces, MediaPlaces, ClientPlaces, At, Go, Encoded
<1>3. ASSUME ~ raced' PROVE Agrees'
  <2>1. ~ raced /\ Agrees
    BY <1>3 DEF IInv, Encoded
  <2>2. Apart'
    BY <1>3, <2>1 DEF IInv, Types, Holders, Apart, Registered, Linked, Codec, Dead, Agrees,
       WithInit, Outside, OutputPlaces, MediaPlaces, ClientPlaces, At, Go, Encoded
  <2>3. Registered'
    BY <1>3, <2>1 DEF IInv, Types, Holders, Apart, Registered, Linked, Codec, Dead, Agrees,
       WithInit, Outside, OutputPlaces, MediaPlaces, ClientPlaces, At, Go, Encoded
  <2>4. Linked'
    BY <1>3, <2>1 DEF IInv, Types, Holders, Apart, Registered, Linked, Codec, Dead, Agrees,
       WithInit, Outside, OutputPlaces, MediaPlaces, ClientPlaces, At, Go, Encoded
  <2>5. Codec'
    BY <1>3, <2>1 DEF IInv, Types, Holders, Apart, Registered, Linked, Codec, Dead, Agrees,
       WithInit, Outside, OutputPlaces, MediaPlaces, ClientPlaces, At, Go, Encoded
  <2>6. Dead'
    BY <1>3, <2>1 DEF IInv, Types, Holders, Apart, Registered, Linked, Codec, Dead, Agrees,
       WithInit, Outside, OutputPlaces, MediaPlaces, ClientPlaces, At, Go, Encoded
  <2> QED BY <2>2, <2>3, <2>4, <2>5, <2>6 DEF Agrees
<1> QED BY <1>1, <1>2, <1>3 DEF IInv

-----------------------------------------------------------------------------
(* Every step keeps the invariant, one lemma per action.                   *)
LEMMA IStep == ASSUME IInv, [Next]_vars PROVE IInv'
<1>1. ASSUME NEW o \in Outputs, Calls(o) PROVE IInv'
  BY <1>1, InitializeKeeps, StopKeeps, StopNothingKeeps DEF Calls
<1>2. ASSUME NEW o \in Outputs, StartSteps(o) PROVE IInv'
  BY <1>2, StartNothingKeeps, StartKeeps, RegisterKeeps, ConnectKeeps DEF StartSteps
<1>3. ASSUME NEW o \in Outputs, StopSteps(o) PROVE IInv'
  BY <1>3, EraseKeeps, DisconnectKeeps, ShutdownKeeps DEF StopSteps
<1>4. ASSUME NEW t \in Threads, ActuallyDestroy(t) PROVE IInv'
  BY <1>4, ActuallyDestroyKeeps
<1>5. CASE Destroy
  BY <1>5, DestroyKeeps
<1>6. CASE Feed
  BY <1>6, FeedKeeps
<1>7. CASE Media
  BY <1>7, EncodeKeeps, DeliverKeeps, EncodeNoPacketKeeps, FullStopKeeps, FullStopShutdownKeeps,
     EncodedKeeps
  DEF Media
<1>8. CASE UNCHANGED vars
  BY <1>8 DEF vars, IInv, Types, Holders, Agrees, Apart, Registered, Linked, Codec, Dead, At
<1> QED
  BY <1>1, <1>2, <1>3, <1>4, <1>5, <1>6, <1>7, <1>8 DEF Next

(* What the invariant is for.                                              *)
LEMMA IInvSuffices == IInv => EncoderInv /\ DestroyedLast
<1> SUFFICES ASSUME IInv PROVE EncoderInv /\ DestroyedLast
  OBVIOUS
<1>1. TypeOK
  <2>1. {init, cbs, input} \subseteq Threads \union {NoThread}
    BY DEF IInv, Types, Holders
  <2>2. \A t \in Threads : pc[t] \in OutputPlaces \union MediaPlaces \union ClientPlaces
    BY DEF IInv, Types
  <2>3. pc \in [Threads -> {"idle", "start", "register", "connect", "running", "erase",
                           "disconnect", "shutdown", "destroy", "encode", "deliver", "encoded",
                           "done"}]
    BY <2>2 DEF IInv, Types, WithInit, Outside, OutputPlaces, MediaPlaces, ClientPlaces
  <2> QED BY <2>1, <2>3 DEF IInv, Types, TypeOK
<1>2. ASSUME ~ raced PROVE EncodesWithCodec /\ ConnectedWhenUsed /\ StoppedIsQuiet
  <2>1. Agrees
    BY <1>2 DEF IInv
  <2>2. EncodesWithCodec
    BY <2>1 DEF IInv, Agrees, Linked, Codec, Dead, At, EncodesWithCodec
  <2>3. ConnectedWhenUsed
    BY <2>1 DEF IInv, Agrees, Linked, Codec, At, Starting, Stopping, ConnectedWhenUsed
  <2>4. StoppedIsQuiet
    BY <2>1 DEF IInv, Agrees, Registered, At, StoppedIsQuiet
  <2> QED BY <2>2, <2>3, <2>4
<1>3. DestroyedLast
  BY DEF IInv, Agrees, Apart, Linked, Outside, DestroyedLast
<1> QED BY <1>1, <1>2, <1>3 DEF EncoderInv

(* Whatever starts, stops and the release do to each other, with a codec   *)
(* that works or fails, for any set of outputs and any number of frames in *)
(* a call: as long as nobody calls the encoder while it is destroyed, the  *)
(* media thread finds the codec until it fails, connection and callbacks   *)
(* agree, and no output is called after obs_encoder_stop has returned.     *)
THEOREM EncoderIsSafe == Spec => []EncoderInv
<1>1. IInv /\ [Next]_vars => IInv'
  BY IStep
<1> QED BY <1>1, IInit, IInvSuffices, PTL DEF Spec

(* Also after a failure: an encoder that nobody calls while it is          *)
(* destroyed is off the media output then, off all outputs, and nobody is  *)
(* within a call that goes on with it.                                     *)
THEOREM LastOutputDestroys == Spec => []DestroyedLast
<1>1. IInv /\ [Next]_vars => IInv'
  BY IStep
<1> QED BY <1>1, IInit, IInvSuffices, PTL DEF Spec

-----------------------------------------------------------------------------
(* What holds besides, as long as encoding has not failed, also if the     *)
(* encoder is called while it is destroyed: whoever has initialized the    *)
(* encoder finds the codec, unless it was robbed of it, and nobody but the *)
(* output itself or who frees the encoder takes it off the callbacks.      *)

Present ==
  /\ ~ At("media", "shutdown")
  /\ data => initialized
  /\ active \/ initialized => data \/ freed
  /\ \A o \in Outputs :
       /\ At(o, "start") => data \/ o \in robbed
       /\ At(o, "register") \/ At(o, "connect") => data \/ freed
       /\ At(o, "connect") => o \in callbacks \/ o \in robbed

Working == ~ failed => Present

LEMMA WorkingInit == Init => Working
  BY DEF Init, Working, Present, At

LEMMA StartsKeepWorking ==
  ASSUME IInv, Working, NEW o \in Outputs, Initialize(o) \/ StartSteps(o)
  PROVE  Working'
<1>1. CASE Initialize(o)
  BY <1>1 DEF IInv, Types, Holders, WithInit, OutputPlaces, MediaPlaces, Working, Present, At, Go,
     Initialize, BeginCall, Destroying
<1>2. CASE StartNothing(o)
  BY <1>2 DEF IInv, Types, Holders, WithInit, OutputPlaces, MediaPlaces, Working, Present, At, Go,
     StartNothing
<1>3. CASE Start(o)
  BY <1>3 DEF IInv, Types, Holders, WithInit, OutputPlaces, MediaPlaces, Working, Present, At, Go,
     Start
<1>4. CASE Register(o)
  BY <1>4 DEF IInv, Types, Holders, WithInit, OutputPlaces, MediaPlaces, Working, Present, At, Go,
     Register
<1>5. CASE Connect(o)
  BY <1>5 DEF IInv, Types, Holders, WithInit, OutputPlaces, MediaPlaces, Working, Present, At, Go,
     Connect
<1> QED BY <1>1, <1>2, <1>3, <1>4, <1>5 DEF StartSteps

LEMMA StopsKeepWorking ==
  ASSUME IInv, Working, NEW o \in Outputs, Stop(o) \/ StopNothing(o) \/ StopSteps(o)
  PROVE  Working'
<1>1. CASE Stop(o)
  BY <1>1 DEF IInv, Types, Holders, WithInit, OutputPlaces, MediaPlaces, Working, Present, At, Go,
     Stop, BeginCall, Destroying
<1>2. CASE StopNothing(o)
  BY <1>2 DEF IInv, Types, Holders, WithInit, OutputPlaces, MediaPlaces, Working, Present, At, Go,
     StopNothing
<1>3. CASE Erase(o)
  BY <1>3 DEF IInv, Types, Holders, WithInit, OutputPlaces, MediaPlaces, Working, Present, At, Go,
     Erase
<1>4. CASE Disconnect(o)
  BY <1>4 DEF IInv, Types, Holders, WithInit, OutputPlaces, MediaPlaces, Working, Present, At, Go,
     Disconnect
<1>5. CASE Shutdown(o)
  BY <1>5 DEF IInv, Types, Holders, WithInit, OutputPlaces, MediaPlaces, Working, Present, At, Go,
     Shutdown, Starting
<1> QED BY <1>1, <1>2, <1>3, <1>4, <1>5 DEF StopSteps

LEMMA DestroyKeepsWorking ==
  ASSUME IInv, Working, NEW t \in Threads, ActuallyDestroy(t) \/ Destroy
  PROVE  Working'
<1>1. CASE ActuallyDestroy(t)
  BY <1>1 DEF IInv, Types, Holders, WithInit, OutputPlaces, MediaPlaces, Working, Present, At, Go,
     ActuallyDestroy, Starting
<1>2. CASE Destroy
  BY <1>2 DEF IInv, Types, Holders, WithInit, OutputPlaces, MediaPlaces, Working, Present, At, Go,
     Destroy, FindsNoOutput
<1> QED BY <1>1, <1>2

LEMMA MediaKeepsWorking ==
  ASSUME IInv, Working, Feed \/ Media
  PROVE  Working'
<1>1. CASE Feed
  BY <1>1 DEF IInv, Types, Holders, WithInit, OutputPlaces, MediaPlaces, Working, Present, At, Go,
     Feed
<1>2. CASE Encode
  BY <1>2 DEF IInv, Types, Holders, WithInit, OutputPlaces, MediaPlaces, Working, Present, At, Go,
     Encode
<1>3. CASE Deliver
  BY <1>3 DEF IInv, Types, Holders, WithInit, OutputPlaces, MediaPlaces, Working, Present, At, Go,
     Deliver
<1>4. CASE EncodeNoPacket
  BY <1>4 DEF IInv, Types, Holders, WithInit, OutputPlaces, MediaPlaces, Working, Present, At, Go,
     EncodeNoPacket
<1>5. CASE FullStop
  BY <1>5 DEF IInv, Types, Holders, WithInit, OutputPlaces, MediaPlaces, Working, Present, At, Go,
     FullStop
<1>6. CASE FullStopShutdown
  BY <1>6 DEF IInv, Types, Holders, WithInit, OutputPlaces, MediaPlaces, Working, Present, At, Go,
     FullStopShutdown, Starting
<1>7. CASE Encoded
  BY <1>7 DEF IInv, Types, Holders, WithInit, OutputPlaces, MediaPlaces, Working, Present, At, Go,
     Encoded
<1> QED BY <1>1, <1>2, <1>3, <1>4, <1>5, <1>6, <1>7 DEF Media

LEMMA WorkingStep ==
  ASSUME IInv, Working, [Next]_vars
  PROVE  Working'
<1>1. ASSUME NEW o \in Outputs, Calls(o) PROVE Working'
  BY <1>1, StartsKeepWorking, StopsKeepWorking DEF Calls
<1>2. ASSUME NEW o \in Outputs, StartSteps(o) PROVE Working'
  BY <1>2, StartsKeepWorking
<1>3. ASSUME NEW o \in Outputs, StopSteps(o) PROVE Working'
  BY <1>3, StopsKeepWorking
<1>4. ASSUME NEW t \in Threads, ActuallyDestroy(t) PROVE Working'
  BY <1>4, DestroyKeepsWorking
<1>5. CASE Destroy
  <2>1. "client" \in Threads
    OBVIOUS
  <2> QED BY <1>5, <2>1, DestroyKeepsWorking
<1>6. CASE Feed \/ Media
  BY <1>6, MediaKeepsWorking
<1>7. CASE UNCHANGED vars
  BY <1>7 DEF vars, Working, Present, At
<1> QED BY <1>1, <1>2, <1>3, <1>4, <1>5, <1>6, <1>7 DEF Next

(* A start that ends has found no codec, or has just registered, or has    *)
(* connected the encoder for the callback that it registered.              *)
LEMMA StartStepServes ==
  ASSUME IInv, Working, [Next]_vars, ~ failed', NEW o \in Outputs \ robbed',
         Starting(o), At(o, "running")'
  PROVE  o \in callbacks'
<1>1. ~ failed /\ Present
  <2>1. failed => failed'
    BY DEF Next, Calls, StartSteps, StopSteps, Media, Initialize, Stop, StopNothing, StartNothing,
           Start, Register, Connect, Erase, Disconnect, Shutdown, ActuallyDestroy, Destroy, Feed,
           Encode, Deliver, EncodeNoPacket, FullStop, FullStopShutdown, Encoded, vars
  <2> QED BY <2>1 DEF Working
<1>2. pc[o] # pc'[o]
  BY DEF Starting, At
<1>3. StartNothing(o) \/ Register(o) \/ Connect(o)
  <2>1. ASSUME NEW p \in Outputs, Calls(p) \/ StopSteps(p) PROVE FALSE
    BY <2>1, <1>2 DEF IInv, Types, Calls, StopSteps, Initialize, Stop, StopNothing, Erase,
       Disconnect,
                      Shutdown, Go, At, Starting
  <2>2. ASSUME NEW t \in Threads, ActuallyDestroy(t) PROVE FALSE
    BY <2>2, <1>2 DEF IInv, Types, ActuallyDestroy, Go, At, Starting
  <2>3. ASSUME Destroy \/ Feed \/ Media PROVE FALSE
    BY <2>3, <1>2 DEF IInv, Types, Media, Destroy, Feed, Encode, Deliver, EncodeNoPacket,
       FullStop,
                      FullStopShutdown, Encoded, Go, At, Starting
  <2>4. ASSUME NEW p \in Outputs, StartSteps(p) PROVE p = o /\ ~ Start(o)
    BY <2>4, <1>2 DEF IInv, Types, StartSteps, StartNothing, Start, Register, Connect, Go, At,
       Starting
  <2>5. vars' # vars
    BY <1>2 DEF vars
  <2> QED BY <2>1, <2>2, <2>3, <2>4, <2>5 DEF Next, StartSteps
<1>4. CASE StartNothing(o)
  BY <1>1, <1>4 DEF StartNothing, Present, At
<1>5. CASE Register(o)
  BY <1>5 DEF Register
<1>6. CASE Connect(o)
  BY <1>1, <1>6 DEF Connect, Present, At
<1> QED BY <1>3, <1>4, <1>5, <1>6

(* Whatever other outputs and the client do, for any set of outputs, an    *)
(* output that has started the encoder gets its packets, unless encoding   *)
(* has failed or the codec went after it was initialized.                  *)
THEOREM StartsAreServed == Spec => StartServes
<1>1. IInv /\ [Next]_vars => IInv'
  BY IStep
<1>2. Init => IInv /\ Working
  BY IInit, WorkingInit
<1>3. IInv /\ Working /\ [Next]_vars => Working'
  BY WorkingStep
<1>4. IInv /\ Working /\ [Next]_vars
        => [~ failed' => \A o \in Outputs \ robbed' :
              Starting(o) /\ At(o, "running")' => o \in callbacks']_vars
  BY StartStepServes
<1> QED BY <1>1, <1>2, <1>3, <1>4, PTL DEF Spec, StartServes
=============================================================================
