------------------------------- MODULE Encoder -------------------------------
(***************************************************************************)
(* One encoder that several outputs share: src/core/obs-encoder.c.         *)
(*                                                                         *)
(* Each output starts and stops the encoder from a thread of its own (the  *)
(* plugin's connect thread, end_data_capture_thread).  The media thread    *)
(* (video_thread or audio_thread) feeds it and delivers its packets, and   *)
(* stops it when encoding fails.  The client may release it at any time:   *)
(* outputs hold no reference.  Nothing keeps starts, stops and the release *)
(* apart; what they do to each other is noted (raced, robbed).  Three      *)
(* mutexes are involved, all recursive: init_mutex, callbacks_mutex, and   *)
(* the input_mutex of the media output the encoder is connected to.  A     *)
(* step is a stretch of code up to the next lock of a mutex or the next    *)
(* access to unprotected state.                                            *)
(***************************************************************************)
EXTENDS Integers, FiniteSets

CONSTANTS Outputs,    (* the outputs that share the encoder                *)
          NoThread,   (* nobody holds the mutex                            *)
          MayFail,    (* can info.create and info.encode fail?             *)
          MaxFrames,  (* bound: whole frames that one call of the input has *)
                      (* to encode; 1 for video, which comes by the frame  *)
          MaxStarts   (* bound: how often each output starts               *)

Threads == Outputs \union {"media", "client"}

ASSUME OutputsAssumption ==
  Outputs \intersect {"media", "client"} = {} /\ NoThread \notin Threads
ASSUME SwitchAssumption ==
  MayFail \in BOOLEAN /\ MaxFrames \in Nat \ {0} /\ MaxStarts \in Nat

VARIABLES
  init, cbs, input,           (* holders of the three mutexes              *)
  callbacks,                  (* outputs that are called with packets      *)
  connected, active,          (* is an input of the media output; active   *)
  data, initialized,          (* context.data is there; initialized        *)
  delivering,                 (* outputs a packet is on its way to         *)
  frames,                     (* whole frames left of the input's call     *)
  destroy_on_stop, freed,
  failed,                     (* history: encoding has failed once         *)
  raced,                      (* history: an output called, or was in a    *)
                              (* call, while the encoder was destroyed     *)
  robbed,                     (* history: outputs that lost the codec      *)
                              (* between initializing and starting         *)
  pc, starts

lockVars == <<init, cbs, input>>
stateVars == <<connected, active, data, initialized>>
endVars == <<destroy_on_stop, freed, failed, raced, robbed>>
packetVars == <<callbacks, delivering, frames>>
vars == <<lockVars, packetVars, stateVars, endVars, pc, starts>>

(* create_encoder *)
Init ==
  /\ init = NoThread /\ cbs = NoThread /\ input = NoThread
  /\ callbacks = {} /\ delivering = {} /\ frames = 0 /\ connected = FALSE /\ active = FALSE
  /\ data = FALSE /\ initialized = FALSE
  /\ destroy_on_stop = FALSE /\ freed = FALSE /\ failed = FALSE
  /\ raced = FALSE /\ robbed = {}
  /\ pc = [t \in Threads |-> "idle"]
  /\ starts = [o \in Outputs |-> 0]

At(t, l) == pc[t] = l
Go(t, l) == pc' = [pc EXCEPT ![t] = l]

Starting(o) == pc[o] \in {"start", "register", "connect"}
Stopping(o) == pc[o] \in {"erase", "disconnect", "shutdown", "destroy"}

(* Somebody has found the encoder without outputs and is about to free it. *)
Destroying == \E t \in Threads : At(t, "destroy")

(* The codec goes, which whoever has initialized will not find.            *)
Rob == robbed' = robbed \union {o \in Outputs : Starting(o)}

----------------------------------------------------------------------------
(* An output starts: obs_encoder_initialize, then obs_encoder_start.       *)

(* An output calls the encoder as long as it has not been taken from it.   *)
BeginCall(o) ==
  /\ ~ freed /\ init = NoThread
  /\ raced' = (raced \/ Destroying)

(* obs_encoder_initialize: the codec is created unless it is there, or     *)
(* cannot be.                                                              *)
Initialize(o) ==
  /\ At(o, "idle") /\ starts[o] < MaxStarts /\ BeginCall(o)
  /\ \/ /\ active \/ initialized
        /\ Go(o, "start") /\ UNCHANGED <<data, initialized>>
     \/ /\ ~ active /\ ~ initialized
        /\ data' = TRUE /\ initialized' = TRUE /\ Go(o, "start")
     \/ /\ ~ active /\ ~ initialized /\ MayFail
        /\ data' = FALSE /\ UNCHANGED <<initialized, pc>>
  /\ starts' = [starts EXCEPT ![o] = @ + 1]
  /\ robbed' = robbed \ {o}
  /\ UNCHANGED <<lockVars, packetVars, connected, active, destroy_on_stop, freed, failed>>

(* obs_encoder_start returns at once when there is no codec.               *)
StartNothing(o) ==
  /\ At(o, "start") /\ init = NoThread /\ ~ data
  /\ Go(o, "running")
  /\ UNCHANGED <<lockVars, packetVars, stateVars, endVars, starts>>

Start(o) ==
  /\ At(o, "start") /\ init = NoThread /\ data
  /\ init' = o
  /\ Go(o, "register")
  /\ UNCHANGED <<cbs, input, packetVars, stateVars, endVars, starts>>

(* obs_encoder_start_internal: the first output connects the encoder.      *)
Register(o) ==
  /\ At(o, "register") /\ cbs = NoThread
  /\ callbacks' = callbacks \union {o}
  /\ IF callbacks = {} THEN Go(o, "connect") /\ UNCHANGED init
     ELSE init' = NoThread /\ Go(o, "running")
  /\ UNCHANGED <<cbs, input, stateVars, endVars, starts, delivering, frames>>

(* add_connection *)
Connect(o) ==
  /\ At(o, "connect") /\ input = NoThread
  /\ connected' = TRUE /\ active' = TRUE
  /\ init' = NoThread /\ Go(o, "running")
  /\ UNCHANGED <<cbs, input, packetVars, data, initialized, endVars, starts>>

----------------------------------------------------------------------------
(* An output stops: obs_encoder_stop. *)

(* obs_encoder_actually_destroy has taken the encoder from its outputs.    *)
StopNothing(o) ==
  /\ At(o, "running") /\ freed
  /\ Go(o, "idle")
  /\ UNCHANGED <<lockVars, packetVars, stateVars, endVars, starts>>

Stop(o) ==
  /\ At(o, "running") /\ BeginCall(o)
  /\ init' = o /\ Go(o, "erase")
  /\ UNCHANGED <<cbs, input, packetVars, stateVars, destroy_on_stop, freed, failed, robbed, starts>>

(* Mutant: a delivery under way is not waited for.                         *)
EraseUnlocked(o) ==
  /\ At(o, "erase")
  /\ callbacks' = callbacks \ {o}
  /\ IF o \in callbacks /\ callbacks' = {} THEN Go(o, "disconnect") /\ UNCHANGED init
     ELSE init' = NoThread /\ Go(o, "idle")
  /\ UNCHANGED <<cbs, input, stateVars, endVars, starts, delivering, frames>>


(* obs_encoder_stop_internal: the last output goes on.                     *)
Erase(o) ==
  /\ At(o, "erase") /\ cbs = NoThread
  /\ callbacks' = callbacks \ {o}
  /\ IF o \in callbacks /\ callbacks' = {} THEN Go(o, "disconnect") /\ UNCHANGED init
     ELSE init' = NoThread /\ Go(o, "idle")
  /\ UNCHANGED <<cbs, input, stateVars, endVars, starts, delivering, frames>>

(* remove_connection: off the media output, ...                            *)
Disconnect(o) ==
  /\ At(o, "disconnect") /\ input = NoThread
  /\ connected' = FALSE
  /\ Go(o, "shutdown")
  /\ UNCHANGED <<lockVars, packetVars, active, data, initialized, endVars, starts>>

(* Mutant: initialized is left as it is.                                   *)
ShutdownKeepsInitialized(o) ==
  /\ At(o, "shutdown")
  /\ data' = FALSE /\ active' = FALSE /\ Rob
  /\ init' = NoThread
  /\ Go(o, IF destroy_on_stop THEN "destroy" ELSE "idle")
  /\ UNCHANGED <<cbs, input, packetVars, connected, initialized, destroy_on_stop, freed,
                 failed, raced, starts>>

(* ... and the codec is destroyed (obs_encoder_shutdown).                  *)
Shutdown(o) ==
  /\ At(o, "shutdown")
  /\ data' = FALSE /\ active' = FALSE /\ initialized' = FALSE /\ Rob
  /\ init' = NoThread
  /\ Go(o, IF destroy_on_stop THEN "destroy" ELSE "idle")
  /\ UNCHANGED <<cbs, input, packetVars, connected, destroy_on_stop, freed, failed, raced,
                 starts>>

(* obs_encoder_actually_destroy, by the last output or by the client.      *)
ActuallyDestroy(t) ==
  /\ At(t, "destroy")
  /\ freed' = TRUE /\ callbacks' = {} /\ data' = FALSE /\ Rob
  /\ Go(t, IF t = "client" THEN "done" ELSE "idle")
  /\ UNCHANGED <<lockVars, connected, active, initialized, destroy_on_stop, failed, raced,
                 starts, delivering, frames>>

----------------------------------------------------------------------------
(* The client's last release: obs_encoder_destroy. *)

(* It finds no output, so that one in a call has not registered or has     *)
(* already left.                                                           *)
FindsNoOutput ==
  raced' = (raced \/ \E o \in Outputs : Starting(o) \/ Stopping(o))

(* Mutant: nothing is left to the last output.                             *)
DestroyAtOnce ==
  /\ At("client", "idle") /\ cbs = NoThread
  /\ FindsNoOutput /\ Go("client", "destroy")
  /\ UNCHANGED <<lockVars, packetVars, stateVars, destroy_on_stop, freed, failed, robbed, starts>>

Destroy ==
  /\ At("client", "idle") /\ cbs = NoThread
  /\ \/ /\ callbacks = {} /\ FindsNoOutput
        /\ Go("client", "destroy") /\ UNCHANGED destroy_on_stop
     \/ /\ callbacks # {} /\ destroy_on_stop' = TRUE
        /\ Go("client", "done") /\ UNCHANGED raced
  /\ UNCHANGED <<lockVars, packetVars, stateVars, freed, failed, robbed, starts>>

----------------------------------------------------------------------------
(* The media thread, in the call of its input. *)

(* The media output calls receive_video with a frame, or receive_audio     *)
(* with a block that completes some, under the input_mutex.                *)
Feed ==
  /\ At("media", "idle") /\ input = NoThread /\ connected
  /\ input' = "media" /\ Go("media", "encode")
  /\ frames' \in 1 .. MaxFrames
  /\ UNCHANGED <<init, cbs, callbacks, delivering, stateVars, endVars, starts>>

(* do_encode: the codec has a packet, ...                                  *)
Encode ==
  /\ At("media", "encode") /\ cbs = NoThread
  /\ cbs' = "media" /\ delivering' = callbacks /\ Go("media", "deliver")
  /\ UNCHANGED <<init, input, callbacks, frames, stateVars, endVars, starts>>

(* ... which goes to every output that has registered, ...                 *)
Deliver ==
  /\ At("media", "deliver")
  /\ cbs' = NoThread /\ delivering' = {} /\ Go("media", "encoded")
  /\ UNCHANGED <<init, input, callbacks, frames, stateVars, endVars, starts>>

(* ... or has none yet, ...                                                *)
EncodeNoPacket ==
  /\ At("media", "encode")
  /\ Go("media", "encoded")
  /\ UNCHANGED <<lockVars, packetVars, stateVars, endVars, starts>>

(* ... or fails: full_stop drops all outputs, ...                          *)
FullStop ==
  /\ At("media", "encode") /\ MayFail /\ cbs = NoThread
  /\ cbs' = "media" /\ callbacks' = {} /\ connected' = FALSE /\ failed' = TRUE
  /\ Go("media", "shutdown")
  /\ UNCHANGED <<init, input, active, data, initialized, destroy_on_stop, freed, raced, robbed,
                 starts, delivering, frames>>

(* ... and remove_connection destroys the codec under the init_mutex.      *)
FullStopShutdown ==
  /\ At("media", "shutdown") /\ init = NoThread
  /\ data' = FALSE /\ active' = FALSE /\ Rob
  /\ cbs' = NoThread /\ Go("media", "encoded")
  /\ UNCHANGED <<init, input, packetVars, connected, initialized, destroy_on_stop, freed, failed,
                 raced, starts>>

(* receive_audio encodes all the frames it has, even if one has failed;    *)
(* then, or after the one of receive_video, the call returns.              *)
Encoded ==
  /\ At("media", "encoded")
  /\ frames' = frames - 1
  /\ IF frames > 1 THEN Go("media", "encode") /\ UNCHANGED input
     ELSE input' = NoThread /\ Go("media", "idle")
  /\ UNCHANGED <<init, cbs, callbacks, delivering, stateVars, endVars, starts>>

----------------------------------------------------------------------------
StartSteps(o) == StartNothing(o) \/ Start(o) \/ Register(o) \/ Connect(o)
StopSteps(o) == Erase(o) \/ Disconnect(o) \/ Shutdown(o)
Calls(o) == Initialize(o) \/ Stop(o) \/ StopNothing(o)
Media == Encode \/ Deliver \/ EncodeNoPacket \/ FullStop \/ FullStopShutdown \/ Encoded

Next ==
  \/ \E o \in Outputs : Calls(o) \/ StartSteps(o) \/ StopSteps(o)
  \/ \E t \in Threads : ActuallyDestroy(t)
  \/ Destroy \/ Feed \/ Media

Spec == Init /\ [][Next]_vars

(* A thread goes on; a mutex that is free again and again is given to the  *)
(* thread that waits for it.  Whether the client calls, and whether frames *)
(* come, is left open.                                                     *)
Fairness ==
  /\ \A o \in Outputs : SF_vars(StartSteps(o)) /\ SF_vars(StopSteps(o))
  /\ \A t \in Threads : WF_vars(ActuallyDestroy(t))
  /\ SF_vars(Media)

FairSpec == Spec /\ Fairness

----------------------------------------------------------------------------
(* Properties. *)

TypeOK ==
  /\ {init, cbs, input} \subseteq Threads \union {NoThread}
  /\ {callbacks, delivering, robbed} \subseteq SUBSET Outputs /\ frames \in 0 .. MaxFrames
  /\ {connected, active, data, initialized, destroy_on_stop, freed, failed, raced} \subseteq BOOLEAN
  /\ pc \in [Threads -> {"idle", "start", "register", "connect", "running", "erase", "disconnect",
                         "shutdown", "destroy", "encode", "deliver", "encoded", "done"}]
  /\ starts \in [Outputs -> 0 .. MaxStarts]

(* Once obs_encoder_stop has returned, no packet is being delivered to the *)
(* output: it may be destroyed.                                            *)
StoppedIsQuiet ==
  \A o \in Outputs : At(o, "idle") => o \notin delivering

(* The encoder and its codec are there for as long as the media thread is  *)
(* in its call.  Only what is left of the call in which encoding fails     *)
(* finds neither: the rest of the audio is encoded without a codec.        *)
EncodesWithCodec ==
  /\ pc["media"] \in {"encode", "deliver"} => (data /\ ~ freed) \/ (failed /\ MaxFrames > 1)
  /\ pc["media"] \in {"shutdown", "encoded"} => ~ freed \/ failed

(* When no output is starting or stopping, the encoder is connected if and *)
(* only if it has outputs, and then it has a codec.                        *)
ConnectedWhenUsed ==
  /\ (\A o \in Outputs : ~ Starting(o) /\ ~ Stopping(o)) /\ ~ At("media", "shutdown") =>
       (connected <=> callbacks # {}) /\ (active <=> connected)
  /\ callbacks # {} => data /\ initialized

(* The connection, the callbacks and the codec agree, as long as nobody    *)
(* calls the encoder while it is destroyed: the media thread finds a       *)
(* codec, is connected for as long as there are outputs, and none of them  *)
(* is called after its stop has returned.                                  *)
EncoderInv ==
  TypeOK /\ (~ raced => EncodesWithCodec /\ ConnectedWhenUsed /\ StoppedIsQuiet)

(* As long as encoding has not failed, and nobody calls the encoder while  *)
(* it is destroyed, an encoder that is released is destroyed last: "does   *)
(* not actually destroy the encoder until all connections to it have been  *)
(* removed" (obs_encoder_destroy).  At most an output that has initialized *)
(* it has yet to find it gone.                                             *)
DestroyedLast ==
  freed /\ ~ raced =>
    ~ connected /\ callbacks = {} /\ \A o \in Outputs : pc[o] \in {"idle", "start", "running"}

(* An output that has started the encoder gets its packets ("Starts the    *)
(* output"), whatever other outputs and the client do, unless encoding has *)
(* failed or the codec has gone since obs_encoder_initialize said that it  *)
(* was there.                                                              *)
StartServes ==
  [][~ failed' => \A o \in Outputs \ robbed' :
       Starting(o) /\ At(o, "running")' => o \in callbacks']_vars

(* obs_encoder_start and obs_encoder_stop return.                          *)
CallsReturn ==
  \A o \in Outputs :
     Starting(o) \/ Stopping(o) ~> At(o, "idle") \/ At(o, "running") \/ failed

(* An encoder the client has released is destroyed when its last output    *)
(* has stopped.                                                            *)
ReleasedIsDestroyed ==
  At("client", "done") /\ callbacks = {} ~> freed \/ failed

=============================================================================
