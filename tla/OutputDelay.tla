----------------------------- MODULE OutputDelay -----------------------------
(***************************************************************************)
(* Streaming with a delay: src/core/obs-output-delay.c and the branches of *)
(* src/core/obs-output.c that delay_active selects, with the RTMP stream   *)
(* of src/plugins/obs-outputs/rtmp-stream.c as the plugin.                 *)
(*                                                                         *)
(* The encoders feed a queue.  A start or a stop is a message in it that   *)
(* takes effect when the packets before it have left, on whichever encoder *)
(* thread pops it.  delay_restart_refs counts the starts to come: the end  *)
(* of one capture leaves the encoders running for them.                    *)
(*                                                                         *)
(* Time is counted in packets: a message has waited for as long as packets *)
(* stand behind it in the queue.  signal_stop and end_data_capture are one *)
(* step each (Output.tla takes them apart), and the interleaver hands a    *)
(* packet on at once.                                                      *)
(***************************************************************************)
EXTENDS Integers, SequencesExt

CONSTANTS Encoders,     (* encoder threads that feed the output             *)
          Delay,        (* delay_sec, in packets                            *)
          MaxDelay,     (* bound: the delay that preserving may reach       *)
          MaxBehind,    (* how many packets may pass a thread that stalls    *)
          Setups,       (* the encoders an output has, and whether it sets  *)
                        (* OBS_OUTPUT_DELAY_PRESERVE                        *)
          Latency,      (* packets after a stop that were encoded before it *)
          RetryMax,     (* reconnect_retry_max                              *)
          Races,        (* what may coincide, see Settled and Unhurried     *)
          MaxCalls,     (* bound: how often the client starts or stops      *)
          MaxLosses     (* bound: how often the connection breaks           *)

ASSUME DelayAssumption ==
  /\ Delay \in Nat \ {0} /\ MaxDelay \in Nat /\ Delay <= MaxDelay /\ MaxBehind \in Nat
  /\ Setups \subseteq [encoders : SUBSET Encoders, preserve : BOOLEAN]
  /\ Latency \in Nat /\ RetryMax \in Nat
  /\ Races \subseteq {"call", "loss", "haste", "connecting"}
  /\ MaxCalls \in Nat /\ MaxLosses \in Nat

Fixed == {"user", "connect", "send", "ender", "retry"}
ASSUME EncoderAssumption == Encoders \intersect Fixed = {}
Threads == Fixed \union Encoders

VARIABLES
  out,        (* the flags of struct obs_output                             *)
  hooked,     (* the encoders whose callback is process_delay               *)
  delay_data, (* the queue of messages                                      *)
  hand,       (* the message an encoder thread has popped                   *)
  behind,     (* the packets that came after the one a thread is at         *)
  stream,     (* the flags of struct rtmp_stream                            *)
  pc, client, calls, losses

vars == <<out, hooked, delay_data, hand, behind, stream, pc, client, calls, losses>>

Init ==
  /\ \E s \in Setups :
       out = [encoders |-> s.encoders, preserve |-> s.preserve,
              active |-> FALSE, data_active |-> FALSE, stopping |-> FALSE,
              delay_active |-> FALSE, delay_capturing |-> FALSE, active_delay |-> 0,
              delay_restart_refs |-> 0,
              reconnecting |-> FALSE, retry_stop |-> FALSE, retries |-> 0]
  /\ hooked = {} /\ delay_data = <<>>
  /\ hand = [e \in Encoders |-> "packet"] /\ behind = [e \in Encoders |-> 0]
  /\ stream = [connecting |-> FALSE, active |-> FALSE, stop |-> FALSE, now |-> FALSE,
               after |-> 0]
  /\ pc = [t \in Threads |-> IF t \in Encoders \union {"user"} THEN "idle" ELSE "none"]
  /\ client = "off" /\ calls = 0 /\ losses = 0

At(t, l) == pc[t] = l
Go(t, l) == pc' = [pc EXCEPT ![t] = l]
Spawn(t, l, new, first) == pc' = [pc EXCEPT ![t] = l, ![new] = first]
Exited(t) == At(t, "none")

----------------------------------------------------------------------------
(* The end of a capture. *)

(* obs_output_end_data_capture_internal on flags o by thread t, which goes *)
(* on at l: the flags are tested, and either nothing runs, or a restart is *)
(* still to come, or a thread takes the encoders off.                      *)
EndDataCapture(o, signal, t, l) ==
  CASE ~ o.active \/ ~ o.data_active ->
         /\ out' = IF signal THEN [o EXCEPT !.stopping = FALSE] ELSE o
         /\ client' = IF signal THEN "off" ELSE client
         /\ Go(t, l)
    [] o.active /\ o.data_active /\ o.delay_active /\ o.delay_restart_refs > 0 ->
         /\ out' = [o EXCEPT !.delay_capturing = FALSE, !.stopping = FALSE]
         /\ Go(t, l) /\ UNCHANGED client
    [] OTHER ->
         /\ Exited("ender")
         /\ out' = [o EXCEPT !.delay_capturing = @ /\ ~ o.delay_active,
                             !.delay_active = FALSE, !.data_active = FALSE]
         /\ client' = IF signal THEN "off" ELSE client
         /\ Spawn(t, l, "ender", "unhook")

(* obs_output_signal_stop *)
CanReconnect(code) ==
  \/ out.reconnecting /\ code # "success"
  \/ RetryMax # 0 /\ code = "disconnected"

SignalStop(t, code, l) ==
  IF CanReconnect(code)
  THEN EndDataCapture([out EXCEPT !.delay_restart_refs = @ + (IF out.delay_active THEN 1 ELSE 0)],
                      FALSE, t, "reconnect")
  ELSE EndDataCapture([out EXCEPT !.delay_active = FALSE], TRUE, t, l)

(* output_reconnect, on the connect or the send thread *)
Tried == IF out.reconnecting THEN out.retries ELSE 0

GiveUp(t) ==
  /\ At(t, "reconnect") /\ Tried >= RetryMax
  /\ EndDataCapture([out EXCEPT !.reconnecting = FALSE, !.delay_active = FALSE], TRUE, t, "done")
  /\ UNCHANGED <<hooked, delay_data, hand, behind, stream, calls, losses>>

Reconnect(t) ==
  /\ At(t, "reconnect") /\ Tried < RetryMax
  /\ Exited("retry")
  /\ out' = [out EXCEPT !.reconnecting = TRUE, !.retries = Tried + 1,
                        !.retry_stop = @ /\ out.reconnecting]
  /\ Spawn(t, "done", "retry", "wait")
  /\ UNCHANGED <<hooked, delay_data, hand, behind, stream, client, calls, losses>>

(* end_data_capture_thread: obs_encoder_stop waits for the callback that   *)
(* runs in this encoder, ...                                               *)
EnderUnhook ==
  /\ At("ender", "unhook")
  /\ \E e \in hooked :
       At(e, "idle") /\ hooked' = hooked \ {e}
                     /\ IF hooked' = {} THEN Go("ender", "cleanup") ELSE UNCHANGED pc
  /\ UNCHANGED <<out, delay_data, hand, behind, stream, client, calls, losses>>

(* Mutant: messages stay in the queue for the next capture.                *)
EnderCleanupForgotten ==
  /\ At("ender", "cleanup")
  /\ out' = [out EXCEPT !.active_delay = 0, !.delay_restart_refs = 0]
  /\ Go("ender", "inactive")
  /\ UNCHANGED <<hooked, delay_data, hand, behind, stream, client, calls, losses>>

(* ... obs_output_cleanup_delay empties the queue ...                      *)
EnderCleanup ==
  /\ At("ender", "cleanup")
  /\ delay_data' = <<>>
  /\ out' = [out EXCEPT !.active_delay = 0, !.delay_restart_refs = 0]
  /\ Go("ender", "inactive")
  /\ UNCHANGED <<hooked, hand, behind, stream, client, calls, losses>>

(* Mutant: stopping_event is not signalled.                                *)
EnderInactiveSilent ==
  /\ At("ender", "inactive")
  /\ out' = [out EXCEPT !.active = FALSE]
  /\ Go("ender", "none")
  /\ UNCHANGED <<hooked, delay_data, hand, behind, stream, client, calls, losses>>

(* ... and the output has stopped.                                         *)
EnderInactive ==
  /\ At("ender", "inactive")
  /\ out' = [out EXCEPT !.active = FALSE, !.stopping = FALSE]
  /\ Go("ender", "none")
  /\ UNCHANGED <<hooked, delay_data, hand, behind, stream, client, calls, losses>>

----------------------------------------------------------------------------
(* The stream: rtmp_stream_start, _stop, connect_thread, send_thread. *)

(* Mutant: the reference to this start is kept.                            *)
ActualStartKeepsReference(t, l) ==
  /\ ~ out.stopping
  /\ IF out.delay_active
     THEN /\ Exited("connect")
          /\ stream' = [stream EXCEPT !.connecting = TRUE]
          /\ Spawn(t, l, "connect", "try")
     ELSE /\ out.active
          /\ Go(t, l) /\ UNCHANGED stream
  /\ UNCHANGED out

(* obs_output_actual_start by thread t: it waits while the output stops,   *)
(* starts the plugin, and takes back the reference to this start.          *)
ActualStart(t, l) ==
  /\ ~ out.stopping
  /\ IF out.delay_active
     THEN /\ Exited("connect")
          /\ stream' = [stream EXCEPT !.connecting = TRUE]
          /\ Spawn(t, l, "connect", "try")
     ELSE /\ out.active                      (* can_begin_data_capture fails *)
          /\ Go(t, l) /\ UNCHANGED stream
  /\ out' = [out EXCEPT !.delay_restart_refs = IF @ > 0 THEN @ - 1 ELSE 0]

(* rtmp_stream_stop by thread t *)
PluginStop(t, now, l) ==
  IF stream.stop /\ ~ now
  THEN Go(t, l) /\ UNCHANGED <<out, stream, client>>
  ELSE /\ stream.connecting => Exited("connect")
       /\ IF stream.active
          THEN /\ stream' = [stream EXCEPT !.stop = TRUE, !.now = now, !.after = 0]
               /\ Go(t, l) /\ UNCHANGED <<out, client>>
          ELSE SignalStop(t, "success", l) /\ UNCHANGED stream

(* What does not coincide unless Races allows it: the end of an attempt or *)
(* of a connection with a call of the client ("call"), and either of them, *)
(* or an attempt to reconnect, with a stop message that is being processed *)
(* or that has a start behind it ("loss").                                 *)
Stopping ==
  \E t \in Encoders \union {"user"} :
    pc[t] \in {"join", "plugin"} \/ (At(t, "process") /\ hand[t] # "packet")
Restarting == \E i \in DOMAIN delay_data : delay_data[i] = "start"

MayBreak ==
  /\ losses < MaxLosses
  /\ At("user", "idle") \/ "call" \in Races
  /\ ~ (Stopping \/ Restarting) \/ "loss" \in Races

Settled ==
  /\ pc["send"] \in {"none", "loop"} /\ pc["connect"] \in {"none", "try"}
  /\ out.reconnecting => Exited("connect") /\ At("retry", "wait")

ConnectFails ==
  /\ At("connect", "try") /\ MayBreak
  /\ stream.stop => Exited("send")
  /\ losses' = losses + 1
  /\ SignalStop("connect", "error", "done")
  /\ UNCHANGED <<hooked, delay_data, hand, behind, stream, calls>>

ConnectSucceeds ==
  /\ At("connect", "try") /\ Exited("send")
  /\ stream' = [stream EXCEPT !.active = TRUE]
  /\ Spawn("connect", "begin", "send", "loop")
  /\ UNCHANGED <<out, hooked, delay_data, hand, behind, client, calls, losses>>

(* hook_data_capture, with a delay *)
Hooked(o) ==
  [o EXCEPT !.active = TRUE, !.data_active = TRUE, !.delay_active = TRUE,
            !.active_delay = Delay, !.reconnecting = FALSE]

(* obs_output_begin_data_capture, when the connection stands: the capture  *)
(* has begun long ago and its packets may now pass, unless it was ended    *)
(* meanwhile.                                                              *)
Begin ==
  /\ At("connect", "begin")
  /\ CASE out.delay_active /\ ~ out.delay_capturing ->
            /\ out' = [out EXCEPT !.delay_capturing = TRUE, !.reconnecting = FALSE]
            /\ client' = IF client = "starting" /\ ~ out.reconnecting THEN "on" ELSE client
            /\ UNCHANGED hooked
       [] ~ out.delay_active /\ ~ out.active ->
            /\ out' = Hooked(out) /\ hooked' = out.encoders
            /\ client' = IF out.reconnecting THEN client ELSE "starting"
       [] OTHER -> UNCHANGED <<out, client, hooked>>
  /\ Go("connect", "done")
  /\ UNCHANGED <<delay_data, hand, behind, stream, calls, losses>>

ConnectDone ==
  /\ At("connect", "done")
  /\ stream' = [stream EXCEPT !.connecting = FALSE]
  /\ Go("connect", "none")
  /\ UNCHANGED <<out, hooked, delay_data, hand, behind, client, calls, losses>>

SendFails ==
  /\ At("send", "loop") /\ Exited("connect") /\ ~ stream.stop /\ MayBreak
  /\ losses' = losses + 1
  /\ SignalStop("send", "disconnected", "done")
  /\ UNCHANGED <<hooked, delay_data, hand, behind, stream, calls>>

(* A forced stop wakes the thread, any other waits for a packet that was   *)
(* encoded after it.                                                       *)
SendStops ==
  /\ At("send", "loop") /\ stream.stop
  /\ stream.now \/ stream.after > Latency
  /\ EndDataCapture(out, TRUE, "send", "done")
  /\ UNCHANGED <<hooked, delay_data, hand, behind, stream, calls, losses>>

SendDone ==
  /\ At("send", "done")
  /\ stream' = [stream EXCEPT !.stop = FALSE, !.active = FALSE]
  /\ Go("send", "none")
  /\ UNCHANGED <<out, hooked, delay_data, hand, behind, client, calls, losses>>

----------------------------------------------------------------------------
(* reconnect_thread *)

RetryTimeout ==
  /\ At("retry", "wait") /\ ~ out.retry_stop /\ (~ Stopping \/ "loss" \in Races)
  /\ Exited("connect") /\ Exited("send")
  /\ Go("retry", "start")
  /\ UNCHANGED <<out, hooked, delay_data, hand, behind, stream, client, calls, losses>>

RetryStart ==
  /\ At("retry", "start")
  /\ ActualStart("retry", "end")
  /\ UNCHANGED <<hooked, delay_data, hand, behind, client, calls, losses>>

RetryEnd ==
  /\ At("retry", "end") \/ (At("retry", "wait") /\ out.retry_stop)
  /\ out' = [out EXCEPT !.reconnecting = @ /\ ~ out.retry_stop]
  /\ Go("retry", "none")
  /\ UNCHANGED <<hooked, delay_data, hand, behind, stream, client, calls, losses>>

----------------------------------------------------------------------------
(* An encoder thread in process_delay. *)

(* push_packet *)
Push(e) ==
  /\ At(e, "idle") /\ e \in hooked
  /\ out.preserve /\ out.reconnecting => out.active_delay < MaxDelay
  /\ delay_data' = Append(delay_data, "packet")
  /\ behind' = [f \in Encoders |-> IF f = e \/ At(f, "idle") THEN 0 ELSE behind[f] + 1]
  /\ \A f \in Encoders : behind'[f] <= MaxBehind
  /\ Go(e, "pop")
  /\ UNCHANGED <<out, hooked, hand, stream, client, calls, losses>>

Packets(q) == Len(SelectSeq(q, LAMBDA m : m = "packet"))
elapsed_time(e) == Packets(Tail(delay_data)) - behind[e]
Old(e) == elapsed_time(e) > out.active_delay \/ elapsed_time(e) < 0

(* pop_packet: while a preserved delay reconnects, it only grows, ...      *)
Holds == out.preserve /\ out.reconnecting

Keep(e) ==
  /\ At(e, "pop") /\ delay_data # <<>> /\ Holds
  /\ out' = [out EXCEPT !.active_delay = elapsed_time(e)]
  /\ Go(e, "idle")
  /\ UNCHANGED <<hooked, delay_data, hand, behind, stream, client, calls, losses>>

(* ... and otherwise a message that is old enough leaves the queue.        *)
Pop(e) ==
  /\ At(e, "pop") /\ delay_data # <<>> /\ ~ Holds /\ Old(e)
  /\ \/ Head(delay_data) = "packet"
     \/ (At("user", "idle") \/ "call" \in Races) /\ (~ Stopping \/ "haste" \in Races)
  /\ hand' = [hand EXCEPT ![e] = Head(delay_data)]
  /\ delay_data' = Tail(delay_data)
  /\ Go(e, "process")
  /\ UNCHANGED <<out, hooked, behind, stream, client, calls, losses>>

PopNothing(e) ==
  /\ At(e, "pop")
  /\ delay_data # <<>> => ~ Holds /\ ~ Old(e)
  /\ Go(e, "idle")
  /\ UNCHANGED <<out, hooked, delay_data, hand, behind, stream, client, calls, losses>>

(* process_delay_data: a packet goes to the stream or is released ...      *)
ProcessPacket(e) ==
  /\ At(e, "process") /\ hand[e] = "packet"
  /\ stream' = IF out.delay_active /\ out.delay_capturing /\ stream.active /\ stream.stop
               THEN [stream EXCEPT !.after = IF @ > Latency THEN @ ELSE @ + 1] ELSE stream
  /\ Go(e, "pop")
  /\ UNCHANGED <<out, hooked, delay_data, hand, behind, client, calls, losses>>

(* ... the output is started ...                                           *)
ProcessStart(e) ==
  /\ At(e, "process") /\ hand[e] = "start"
  /\ ActualStart(e, "pop")
  /\ UNCHANGED <<hooked, delay_data, hand, behind, client, calls, losses>>

(* ... or stopped: obs_output_actual_stop                                  *)
ProcessStop(e) ==
  /\ At(e, "process") /\ hand[e] = "stop" /\ (Settled \/ "loss" \in Races)
  /\ IF out.stopping
     THEN Go(e, "pop") /\ UNCHANGED out
     ELSE /\ out' = [out EXCEPT !.stopping = TRUE, !.retry_stop = @ \/ out.reconnecting]
          /\ Go(e, IF out.reconnecting THEN "join" ELSE "plugin")
  /\ UNCHANGED <<hooked, delay_data, hand, behind, stream, client, calls, losses>>

StopJoins(t, next) ==
  /\ At(t, "join") /\ Exited("retry")
  /\ Go(t, next)
  /\ UNCHANGED <<out, hooked, delay_data, hand, behind, stream, client, calls, losses>>

ProcessPluginStop(e) ==
  /\ At(e, "plugin")
  /\ PluginStop(e, FALSE, "pop")
  /\ UNCHANGED <<hooked, delay_data, hand, behind, calls, losses>>

----------------------------------------------------------------------------
(* The client. *)

(* People are slower than Latency: a call comes after some packets more.   *)
Unhurried ==
  \/ "haste" \in Races
  \/ \A i \in DOMAIN delay_data :
       delay_data[i] # "packet" => Packets(SubSeq(delay_data, i, Len(delay_data))) > Latency

CallAllowed ==
  /\ At("user", "idle") /\ calls < MaxCalls /\ Unhurried
  /\ \/ Settled /\ ~ Stopping /\ (out.delay_active \/ (Exited("ender") /\ Exited("send")))
     \/ "call" \in Races

(* obs_output_start, obs_output_delay_start: when a delayed capture runs,  *)
(* the start joins its queue ...                                           *)
UserStart ==
  /\ CallAllowed
  /\ client = "off" \/ (client = "stopping" /\ out.delay_active)
  /\ out.reconnecting => "loss" \in Races
  /\ ~ out.delay_active => ~ out.active /\ ~ out.reconnecting
  /\ calls' = calls + 1
  /\ delay_data' = Append(delay_data, "start")
  /\ out' = [out EXCEPT !.delay_restart_refs = @ + 1]
  /\ Go("user", "begin")
  /\ UNCHANGED <<hooked, hand, behind, stream, client, losses>>

(* ... and otherwise it begins one, which only fails in a race.            *)
UserBegin ==
  /\ At("user", "begin")
  /\ CASE out.delay_active -> client' = "starting" /\ UNCHANGED <<out, hooked, delay_data>>
       [] ~ out.delay_active /\ ~ out.active ->
            /\ out' = Hooked(out) /\ hooked' = out.encoders /\ client' = "starting"
            /\ UNCHANGED delay_data
       [] OTHER ->
            /\ delay_data' = <<>> /\ client' = "off"
            /\ out' = [out EXCEPT !.active_delay = 0, !.delay_restart_refs = 0]
            /\ UNCHANGED hooked
  /\ Go("user", "idle")
  /\ UNCHANGED <<hand, behind, stream, calls, losses>>

(* obs_output_stop, obs_output_delay_stop *)
UserStop ==
  /\ CallAllowed
  /\ client \in {"starting", "on"} /\ ~ out.reconnecting /\ out.active_delay # 0
  /\ calls' = calls + 1
  /\ delay_data' = Append(delay_data, "stop")
  /\ client' = "stopping"
  /\ UNCHANGED <<out, hooked, hand, behind, stream, pc, losses>>

(* obs_output_force_stop, which obs_output_stop calls while reconnecting   *)
UserForceStop ==
  /\ CallAllowed
  /\ client # "off" /\ (out.active \/ out.reconnecting)
  /\ stream.connecting => "connecting" \in Races
  /\ calls' = calls + 1
  /\ client' = "stopping"
  /\ out' = [out EXCEPT !.stopping = TRUE, !.retry_stop = @ \/ out.reconnecting]
  /\ Go("user", IF out.reconnecting THEN "join" ELSE "end")
  /\ UNCHANGED <<hooked, delay_data, hand, behind, stream, losses>>

(* The plugin is only stopped if packets were passed to it.                *)
ForceEnd ==
  /\ At("user", "end")
  /\ IF out.delay_active
     THEN /\ EndDataCapture([out EXCEPT !.delay_active = FALSE, !.delay_capturing = FALSE],
                            TRUE, "user", IF out.delay_capturing THEN "event+" ELSE "event")
     ELSE Go("user", "plugin") /\ UNCHANGED <<out, client>>
  /\ UNCHANGED <<hooked, delay_data, hand, behind, stream, calls, losses>>

ForceEvent ==
  /\ pc["user"] \in {"event", "event+"}
  /\ out' = [out EXCEPT !.stopping = FALSE]
  /\ Go("user", IF At("user", "event+") THEN "plugin" ELSE "idle")
  /\ UNCHANGED <<hooked, delay_data, hand, behind, stream, client, calls, losses>>

ForcePluginStop ==
  /\ At("user", "plugin")
  /\ PluginStop("user", TRUE, "idle")
  /\ UNCHANGED <<hooked, delay_data, hand, behind, calls, losses>>

----------------------------------------------------------------------------
UserCall ==
  UserBegin \/ StopJoins("user", "end") \/ ForceEnd \/ ForceEvent
    \/ ForcePluginStop

ConnectThread ==
  ConnectSucceeds \/ Begin \/ GiveUp("connect") \/ Reconnect("connect")
    \/ ConnectDone

SendThread == SendStops \/ GiveUp("send") \/ Reconnect("send") \/ SendDone

EnderThread == EnderUnhook \/ EnderCleanup \/ EnderInactive

RetryThread == RetryTimeout \/ RetryStart \/ RetryEnd

EncoderThread(e) ==
  \/ Push(e) \/ Keep(e) \/ Pop(e) \/ PopNothing(e) \/ ProcessPacket(e) \/ ProcessStart(e)
  \/ ProcessStop(e) \/ StopJoins(e, "plugin") \/ ProcessPluginStop(e)

Next ==
  \/ UserStart \/ UserStop \/ UserForceStop \/ UserCall
  \/ ConnectThread \/ ConnectFails \/ SendThread \/ SendFails \/ EnderThread \/ RetryThread
  \/ \E e \in Encoders : EncoderThread(e)

Spec == Init /\ [][Next]_vars

(* Every thread is scheduled, every connection attempt ends, and encoders  *)
(* go on delivering packets; the client need not call, and a connection    *)
(* need not break.  A mutex is fair: a thread that takes the encoders off  *)
(* gets callbacks_mutex between two packets.                               *)
Fairness ==
  /\ WF_vars(UserCall) /\ WF_vars(ConnectThread) /\ WF_vars(SendThread)
  /\ SF_vars(EnderThread) /\ WF_vars(RetryThread)
  /\ \A e \in Encoders : WF_vars(EncoderThread(e))

FairSpec == Spec /\ Fairness

----------------------------------------------------------------------------
(* Properties. *)

Labels == {"none", "idle", "begin", "join", "end", "event", "event+", "plugin", "try", "done",
           "reconnect", "loop", "unhook", "cleanup", "inactive", "wait", "start", "pop",
           "process"}

TypeOK ==
  /\ out \in [encoders : SUBSET Encoders, preserve : BOOLEAN,
              active : BOOLEAN, data_active : BOOLEAN, stopping : BOOLEAN,
              delay_active : BOOLEAN, delay_capturing : BOOLEAN, active_delay : Nat,
              delay_restart_refs : Nat,
              reconnecting : BOOLEAN, retry_stop : BOOLEAN, retries : Nat]
  /\ hooked \subseteq Encoders /\ delay_data \in Seq({"packet", "start", "stop"})
  /\ hand \in [Encoders -> {"packet", "start", "stop"}]
  /\ behind \in [Encoders -> 0 .. MaxBehind]
  /\ stream \in [connecting : BOOLEAN, active : BOOLEAN, stop : BOOLEAN, now : BOOLEAN,
                 after : Nat]
  /\ pc \in [Threads -> Labels]
  /\ client \in {"off", "starting", "on", "stopping"}

Quiet == \A t \in Threads : pc[t] \in {"none", "idle", "loop"}

(* An output that is off leaves nothing behind for its next capture: no    *)
(* message in the queue, no reference to a start, no delay.                *)
NothingStale ==
  ~ out.active /\ At("user", "idle") =>
     delay_data = <<>> /\ out.delay_restart_refs = 0 /\ out.active_delay = 0

(* While a delay is active, delay_restart_refs counts the starts to come,  *)
(* and the attempt to reconnect: were it lower, a stop would end a capture *)
(* that was started anew, were it higher, no stop would ever end it.       *)
StartsToCome ==
  Len(SelectSeq(delay_data, LAMBDA m : m = "start")) + (IF out.reconnecting THEN 1 ELSE 0)

RefsCountStarts ==
  Quiet /\ out.delay_active => out.delay_restart_refs = StartsToCome

(* When nothing runs, the client was told that the output is off exactly   *)
(* if it is.                                                               *)
QuietIsTold ==
  (Quiet /\ hooked = {}) => (client = "off" <=> ~ out.active /\ ~ out.reconnecting)

(* The queue, the references and the client's view of the output agree,    *)
(* over delayed stops and starts, reconnects and forced stops.             *)
DelayInv == TypeOK /\ NothingStale /\ RefsCountStarts /\ QuietIsTold

(* process_delay returns: no encoder thread hangs in a start that waits    *)
(* for a stop, or in a stop that waits for a thread.                       *)
EncodersReturn == \A e \in Encoders : ~ At(e, "idle") ~> At(e, "idle")

(* Whoever stops the output sees it off, unless he starts it again.        *)
StopHonoured == client = "stopping" ~> client # "stopping"

(* Whoever starts the output learns whether it streams or has stopped,     *)
(* unless he stops it first.                                               *)
StartTold == client = "starting" ~> client # "starting"

(* Every start and every stop has its answer, through the delay, through   *)
(* reconnects and forced stops (obs_output_delay_start, _delay_stop).      *)
Answered == StopHonoured /\ StartTold
=============================================================================
