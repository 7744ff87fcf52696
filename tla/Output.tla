------------------------------- MODULE Output -------------------------------
(***************************************************************************)
(* The life of one encoded output: src/core/obs-output.c with the RTMP     *)
(* stream of src/plugins/obs-outputs/rtmp-stream.c as its plugin, and with *)
(* the button of the front end (src/api/ObsBasic.cpp) as its client.       *)
(*                                                                         *)
(* Five kinds of threads share the output's flags without a lock: the user *)
(* (start, stop, force stop), the plugin's connect and send threads, the   *)
(* thread that ends data capture, and one thread per reconnect attempt.    *)
(* signal_stop, end_data_capture and output_reconnect run on whichever     *)
(* thread calls them, so their steps take the thread as a parameter.  A    *)
(* step is a stretch of code with at most one access that another thread   *)
(* can disturb, or a blocking call.                                        *)
(*                                                                         *)
(* The output has no delay (delay_sec = 0), and its metadata can always be *)
(* written once the connection stands.                                     *)
(***************************************************************************)
EXTENDS Integers

CONSTANTS Retriers,      (* reconnect threads                              *)
          Scenarios,     (* what the output may meet; Init picks one:      *)
                         (*   retry_max  reconnect_retry_max               *)
                         (*   races      which events may coincide         *)
                         (*   may_fail   may the encoders not initialise?  *)
          MayForce,      (* does the client use obs_output_force_stop?     *)
          MaxStarts      (* bound: how often the client starts the output  *)

Fixed == {"user", "connect", "send", "ender"}
Threads == Fixed \union Retriers

ASSUME ThreadAssumption == Retriers \intersect Fixed = {} /\ Retriers # {}
ASSUME ScenarioAssumption ==
  /\ Scenarios \subseteq
       [retry_max : Nat, races : SUBSET {"setup", "loss", "attempt", "force"}, may_fail : BOOLEAN]
  /\ MayForce \in BOOLEAN /\ MaxStarts \in Nat

VARIABLES
  active, data_active, ending,      (* ending: end_data_capture_thread_active *)
  hooked,                  (* the encoders send packets to this output     *)
  stop_code,
  stopping_event,          (* TRUE when signalled: nobody is stopping      *)
  reconnecting, reconnect_stop_event, reconnect_thread_active, reconnect_thread,
  retries,
  connecting, s_active, s_stop, stop_ts,     (* the RTMP stream            *)
  pc, code, sig,           (* per thread: place, signal_stop's code, and   *)
                           (* whether the end of capture is signalled      *)
  forced, joining,         (* actual_stop's force, the thread it joins     *)
  client, starts,          (* what the client was told, and its starts     *)
  scenario                 (* one of Scenarios, and never another          *)

captureVars == <<active, data_active, hooked, ending>>
stopVars    == <<stop_code, stopping_event>>
retryVars   == <<reconnecting, reconnect_stop_event, reconnect_thread_active,
                 reconnect_thread, retries>>
streamVars  == <<connecting, s_active, s_stop, stop_ts>>
callVars    == <<code, sig, forced, joining>>
clientVars  == <<client, starts, scenario>>
vars == <<captureVars, stopVars, retryVars, streamVars, pc, callVars, clientVars>>

RetryMax == scenario.retry_max
Races == scenario.races
StartMayFail == scenario.may_fail

Init ==
  /\ active = FALSE /\ data_active = FALSE /\ hooked = FALSE /\ ending = FALSE
  /\ stop_code = "success" /\ stopping_event = TRUE
  /\ reconnecting = FALSE /\ reconnect_stop_event = FALSE
  /\ reconnect_thread_active = FALSE /\ retries = 0
  /\ reconnect_thread = CHOOSE r \in Retriers : TRUE
  /\ connecting = FALSE /\ s_active = FALSE /\ s_stop = FALSE /\ stop_ts = "now"
  /\ pc = [t \in Threads |-> IF t = "user" THEN "idle" ELSE "none"]
  /\ code = [t \in Threads |-> "success"] /\ sig = [t \in Threads |-> TRUE]
  /\ forced = FALSE /\ joining = reconnect_thread /\ client = "off" /\ starts = 0
  /\ scenario \in Scenarios

At(t, l) == pc[t] = l
Go(t, l) == pc' = [pc EXCEPT ![t] = l]
Spawn(t, l, new, first) == pc' = [pc EXCEPT ![t] = l, ![new] = first]
Exited(t) == At(t, "none")

(* Where a thread goes on after obs_output_signal_stop or end_data_capture. *)
Return(t) == CASE t = "user" -> "idle" [] t = "connect" -> "c_done" [] OTHER -> "s_reset"

(* A step of thread t that changes nothing but its place.                  *)
Jump(t, from, to) ==
  /\ At(t, from) /\ Go(t, to)
  /\ UNCHANGED <<captureVars, stopVars, retryVars, streamVars, callVars, clientVars>>

(* People and retry timers are slower than the last steps of a thread.     *)
StreamQuiet == Exited("connect") /\ Exited("send")

----------------------------------------------------------------------------
(* obs_output_actual_start, called by the user and by reconnect threads.   *)

(* obs_output_start: the client's button only starts an inactive output.   *)
UserStart ==
  /\ At("user", "idle") /\ client = "off" /\ ~ active /\ ~ reconnecting
  /\ StreamQuiet /\ starts < MaxStarts
  /\ client' = "starting" /\ starts' = starts + 1
  /\ Go("user", "start_wait")
  /\ UNCHANGED <<captureVars, stopVars, retryVars, streamVars, callVars, scenario>>

StartWait(t) ==
  /\ At(t, "start_wait")
  /\ stopping_event
  /\ stop_code' = "success"
  /\ Go(t, "start_check")
  /\ UNCHANGED <<captureVars, stopping_event, retryVars, streamVars, callVars, clientVars>>

StartFails(t) ==
  /\ Go(t, IF t = "user" THEN "idle" ELSE "r_after")
  /\ client' = IF t = "user" THEN "off" ELSE client
  /\ UNCHANGED <<captureVars, stopVars, retryVars, streamVars, callVars, starts, scenario>>

(* rtmp_stream_start: obs_output_can_begin_data_capture refuses ...        *)
StartRefused(t) == At(t, "start_check") /\ active /\ StartFails(t)

(* Mutant: it does not wait for the thread that ends the last capture.     *)
StartCheckNoJoin(t) == ~ active /\ Jump(t, "start_check", "start_init")

(* ... or waits for the thread that ends the last capture.                 *)
StartCheck(t) ==
  /\ ~ active
  /\ ending => Exited("ender")
  /\ Jump(t, "start_check", "start_init")

(* obs_output_initialize_encoders fails.                                   *)
StartInitFails(t) == At(t, "start_init") /\ StartMayFail /\ StartFails(t)

StartConnect(t) ==
  /\ At(t, "start_init") /\ Exited("connect")
  /\ connecting' = TRUE
  /\ Spawn(t, IF t = "user" THEN "idle" ELSE "r_after", "connect", "c_init")
  /\ UNCHANGED <<captureVars, stopVars, retryVars, s_active, s_stop, stop_ts, callVars,
                 clientVars>>

----------------------------------------------------------------------------
(* connect_thread *)

(* init_connect joins a send thread that was told to stop.                 *)
ConnectInit == (s_stop => Exited("send")) /\ Jump("connect", "c_init", "c_try")

ConnectFails ==
  /\ At("connect", "c_try")
  /\ code' = [code EXCEPT !["connect"] = "error"]
  /\ Go("connect", "signal_stop")
  /\ UNCHANGED <<captureVars, stopVars, retryVars, streamVars, sig, forced, joining, clientVars>>

(* init_send *)
ConnectSucceeds ==
  /\ At("connect", "c_try") /\ Exited("send")
  /\ s_active' = TRUE
  /\ Spawn("connect", "c_begin", "send", "s_loop")
  /\ UNCHANGED <<captureVars, stopVars, retryVars, connecting, s_stop, stop_ts, callVars,
                 clientVars>>

(* obs_output_begin_data_capture, up to hook_data_capture, ...             *)
BeginCapture ==
  /\ At("connect", "c_begin")
  /\ IF active
     THEN Go("connect", "c_done") /\ UNCHANGED <<data_active, hooked>>
     ELSE data_active' = TRUE /\ hooked' = TRUE /\ Go("connect", "c_hooked")
  /\ UNCHANGED <<active, ending, stopVars, retryVars, streamVars, callVars, clientVars>>

BeginActive ==
  /\ At("connect", "c_hooked")
  /\ active' = TRUE
  /\ Go("connect", "c_signal")
  /\ UNCHANGED <<data_active, hooked, ending, stopVars, retryVars, streamVars, callVars,
                 clientVars>>

(* ... and "start", or "reconnect_success", which the front end ignores.   *)
BeginSignal ==
  /\ At("connect", "c_signal")
  /\ IF reconnecting
     THEN reconnecting' = FALSE /\ UNCHANGED client
     ELSE client' = "on" /\ UNCHANGED reconnecting
  /\ Go("connect", "c_done")
  /\ UNCHANGED <<captureVars, stopVars, reconnect_stop_event, reconnect_thread_active,
                 reconnect_thread, retries, streamVars, callVars, starts, scenario>>

ConnectDone ==
  /\ At("connect", "c_done")
  /\ connecting' = FALSE
  /\ Go("connect", "none")
  /\ UNCHANGED <<captureVars, stopVars, retryVars, s_active, s_stop, stop_ts, callVars,
                 clientVars>>

----------------------------------------------------------------------------
(* send_thread *)

(* A packet cannot be written.                                             *)
SendFails ==
  /\ hooked
  /\ ~ Exited("connect") => "setup" \in Races
  /\ client = "stopping" => "loss" \in Races
  /\ Jump("send", "s_loop", "s_end")

(* A forced stop posts the semaphore, any other waits for a packet.        *)
SendStops ==
  /\ s_stop
  /\ stop_ts = "now" \/ hooked
  /\ Jump("send", "s_loop", "s_end")

SendEnd ==
  /\ At("send", "s_end")
  /\ IF s_stop
     THEN sig' = [sig EXCEPT !["send"] = TRUE] /\ Go("send", "end_check") /\ UNCHANGED code
     ELSE /\ code' = [code EXCEPT !["send"] = "disconnected"]
          /\ Go("send", "signal_stop") /\ UNCHANGED sig
  /\ UNCHANGED <<captureVars, stopVars, retryVars, streamVars, forced, joining, clientVars>>

SendReset ==
  /\ At("send", "s_reset")
  /\ s_stop' = FALSE
  /\ Go("send", "s_inactive")
  /\ UNCHANGED <<captureVars, stopVars, retryVars, connecting, s_active, stop_ts, callVars,
                 clientVars>>

SendInactive ==
  /\ At("send", "s_inactive")
  /\ s_active' = FALSE
  /\ Go("send", "none")
  /\ UNCHANGED <<captureVars, stopVars, retryVars, connecting, s_stop, stop_ts, callVars,
                 clientVars>>

----------------------------------------------------------------------------
(* obs_output_signal_stop and what it calls, on thread t. *)

CanReconnect(c) ==
  \/ reconnecting /\ c # "success"
  \/ RetryMax # 0 /\ c = "disconnected"

SignalStop(t) ==
  /\ At(t, "signal_stop")
  /\ stop_code' = code[t]
  /\ sig' = [sig EXCEPT ![t] = ~ CanReconnect(code[t])]
  /\ Go(t, "end_check")
  /\ UNCHANGED <<captureVars, stopping_event, retryVars, streamVars, code, forced, joining, clientVars>>

(* obs_output_end_data_capture_internal *)
EndCheck(t) == active /\ data_active /\ Jump(t, "end_check", "end_clear")

EndNothing(t) ==
  /\ At(t, "end_check")
  /\ ~ active \/ ~ data_active
  /\ IF sig[t]
     THEN /\ client' = "off" /\ stop_code' = "success" /\ stopping_event' = TRUE
          /\ Go(t, Return(t))
     ELSE Go(t, "retry") /\ UNCHANGED <<client, stopVars>>
  /\ UNCHANGED <<captureVars, retryVars, streamVars, callVars, starts, scenario>>

EndClear(t) ==
  /\ At(t, "end_clear")
  /\ data_active' = FALSE
  /\ Go(t, "end_join")
  /\ UNCHANGED <<active, hooked, ending, stopVars, retryVars, streamVars, callVars, clientVars>>

EndJoin(t) ==
  /\ At(t, "end_join") /\ Exited("ender")
  /\ ending' = TRUE
  /\ Spawn(t, IF sig[t] THEN "end_signal" ELSE "retry", "ender", "e_unhook")
  /\ UNCHANGED <<active, data_active, hooked, stopVars, retryVars, streamVars, callVars,
                 clientVars>>

EndSignal(t) ==
  /\ At(t, "end_signal")
  /\ client' = "off" /\ stop_code' = "success"
  /\ Go(t, Return(t))
  /\ UNCHANGED <<captureVars, stopping_event, retryVars, streamVars, callVars, starts, scenario>>

(* output_reconnect: give up after reconnect_retry_max attempts ...        *)
Retry(t) ==
  /\ At(t, "retry")
  /\ retries' = IF reconnecting THEN retries ELSE 0
  /\ IF retries' >= RetryMax
     THEN /\ stop_code' = "disconnected" /\ reconnecting' = FALSE
          /\ sig' = [sig EXCEPT ![t] = TRUE]
          /\ Go(t, "end_check")
     ELSE Go(t, "retry_spawn") /\ UNCHANGED <<stop_code, reconnecting, sig>>
  /\ UNCHANGED <<captureVars, stopping_event, reconnect_stop_event, reconnect_thread_active,
                 reconnect_thread, streamVars, code, forced, joining, clientVars>>

(* ... and leave the next one to a thread of its own.                      *)
RetrySpawnWith(t, count) ==
  /\ At(t, "retry_spawn")
  /\ reconnecting' = TRUE
  /\ reconnect_stop_event' = (reconnecting /\ reconnect_stop_event)
  /\ retries' = count
  /\ stop_code' = "disconnected"
  /\ \E r \in Retriers :
       Exited(r) /\ reconnect_thread' = r /\ Spawn(t, Return(t), r, "r_begin")
  /\ UNCHANGED <<captureVars, stopping_event, reconnect_thread_active, streamVars, callVars,
                 clientVars>>

(* Mutant: the attempt is not counted.                                     *)
RetrySpawnUncounted(t) == RetrySpawnWith(t, retries)

RetrySpawn(t) == RetrySpawnWith(t, retries + 1)

(* end_data_capture_thread *)
EnderUnhook ==
  /\ At("ender", "e_unhook")
  /\ hooked' = FALSE
  /\ Go("ender", "e_inactive")
  /\ UNCHANGED <<active, data_active, ending, stopVars, retryVars, streamVars, callVars,
                 clientVars>>

EnderInactive ==
  /\ At("ender", "e_inactive")
  /\ active' = FALSE
  /\ Go("ender", "e_event")
  /\ UNCHANGED <<data_active, hooked, ending, stopVars, retryVars, streamVars, callVars,
                 clientVars>>

EnderEvent ==
  /\ At("ender", "e_event")
  /\ stopping_event' = TRUE
  /\ Go("ender", "e_flag")
  /\ UNCHANGED <<captureVars, stop_code, retryVars, streamVars, callVars, clientVars>>

EnderFlag ==
  /\ At("ender", "e_flag")
  /\ ending' = FALSE
  /\ Go("ender", "none")
  /\ UNCHANGED <<active, data_active, hooked, stopVars, retryVars, streamVars, callVars,
                 clientVars>>

----------------------------------------------------------------------------
(* reconnect_thread *)

RetryBegin(r) ==
  /\ At(r, "r_begin")
  /\ reconnect_thread_active' = TRUE
  /\ Go(r, "r_wait")
  /\ UNCHANGED <<captureVars, stopVars, reconnecting, reconnect_stop_event, reconnect_thread,
                 retries, streamVars, callVars, clientVars>>

RetryTimeout(r) ==
  /\ ~ reconnect_stop_event /\ StreamQuiet /\ Exited("ender")
  /\ At("user", "idle") \/ "attempt" \in Races
  /\ \A q \in Retriers \ {r} : pc[q] \in {"none", "r_wait"}
  /\ Jump(r, "r_wait", "start_wait")

RetryWoken(r) == reconnect_stop_event /\ Jump(r, "r_wait", "r_after")

(* Mutant: the thread that was stopped leaves reconnecting set.            *)
RetryAfterKeeps(r) == Jump(r, "r_after", "r_done")

RetryAfter(r) ==
  /\ At(r, "r_after")
  /\ reconnecting' = (reconnecting /\ ~ reconnect_stop_event)
  /\ Go(r, "r_done")
  /\ UNCHANGED <<captureVars, stopVars, reconnect_stop_event, reconnect_thread_active,
                 reconnect_thread, retries, streamVars, callVars, clientVars>>

RetryDone(r) ==
  /\ At(r, "r_done")
  /\ reconnect_thread_active' = FALSE
  /\ Go(r, "none")
  /\ UNCHANGED <<captureVars, stopVars, reconnecting, reconnect_stop_event, reconnect_thread,
                 retries, streamVars, callVars, clientVars>>

----------------------------------------------------------------------------
(* obs_output_stop and obs_output_force_stop *)

(* What does not coincide unless Races allows it: a lost connection with   *)
(* the set-up of the output or with a stop, a reconnect attempt with a     *)
(* stop, and a forced stop with one that is under way.                     *)
Calm ==
  /\ "loss" \in Races \/ pc["send"] \in {"none", "s_loop"}
  /\ \/ "attempt" \in Races
     \/ /\ pc["connect"] \in {"none", "c_done"}
        /\ \A r \in Retriers : pc[r] \in {"none", "r_wait"}

UserStops(force) ==
  /\ active \/ reconnecting
  /\ forced' = force /\ client' = "stopping"
  /\ stop_code' = IF force /\ stopping_event THEN "success" ELSE stop_code
  /\ Go("user", "stop_begin")
  /\ UNCHANGED <<captureVars, stopping_event, retryVars, streamVars, code, sig, joining, starts, scenario>>

(* obs_output_stop: a stop while reconnecting is a forced one.             *)
UserStop == At("user", "idle") /\ client = "on" /\ Calm /\ UserStops(reconnecting)

UserForceStop ==
  /\ MayForce /\ At("user", "idle") /\ Calm
  /\ client = "on" \/ (client = "stopping" /\ "force" \in Races)
  /\ UserStops(TRUE)

(* obs_output_actual_stop *)
StopBegin ==
  /\ At("user", "stop_begin")
  /\ IF ~ stopping_event /\ ~ forced
     THEN Go("user", "idle") /\ UNCHANGED stopping_event
     ELSE stopping_event' = FALSE /\ Go("user", "stop_check")
  /\ UNCHANGED <<captureVars, stop_code, retryVars, streamVars, callVars, clientVars>>

StopCheck ==
  /\ At("user", "stop_check")
  /\ IF reconnecting
     THEN reconnect_stop_event' = TRUE /\ Go("user", "stop_retry")
     ELSE Go("user", "stop_plugin") /\ UNCHANGED reconnect_stop_event
  /\ UNCHANGED <<captureVars, stopVars, reconnecting, reconnect_thread_active,
                 reconnect_thread, retries, streamVars, callVars, clientVars>>

StopRetry ==
  /\ At("user", "stop_retry")
  /\ joining' = reconnect_thread
  /\ Go("user", IF reconnect_thread_active THEN "stop_join" ELSE "stop_plugin")
  /\ UNCHANGED <<captureVars, stopVars, retryVars, streamVars, code, sig, forced, clientVars>>

StopJoin == Exited(joining) /\ Jump("user", "stop_join", "stop_plugin")

(* rtmp_stream_stop *)
PluginStop ==
  Jump("user", "stop_plugin", IF s_stop /\ ~ forced THEN "idle"
                              ELSE IF connecting THEN "stop_connect" ELSE "stop_stream")

StopConnect == Exited("connect") /\ Jump("user", "stop_connect", "stop_stream")

StopStream ==
  /\ At("user", "stop_stream")
  /\ stop_ts' = IF forced THEN "now" ELSE "later"
  /\ IF s_active
     THEN s_stop' = TRUE /\ Go("user", "idle") /\ UNCHANGED code
     ELSE /\ code' = [code EXCEPT !["user"] = "success"]
          /\ Go("user", "signal_stop") /\ UNCHANGED s_stop
  /\ UNCHANGED <<captureVars, stopVars, retryVars, connecting, s_active, sig, forced, joining,
                 clientVars>>

----------------------------------------------------------------------------
Start(t) ==
  \/ StartWait(t) \/ StartRefused(t) \/ StartCheck(t) \/ StartInitFails(t) \/ StartConnect(t)

SignalStopSteps(t) ==
  \/ SignalStop(t) \/ EndCheck(t) \/ EndNothing(t) \/ EndClear(t) \/ EndJoin(t)
  \/ EndSignal(t) \/ Retry(t) \/ RetrySpawn(t)

UserCall ==
  \/ Start("user") \/ SignalStopSteps("user")
  \/ StopBegin \/ StopCheck \/ StopRetry \/ StopJoin \/ PluginStop \/ StopConnect \/ StopStream

ConnectThread ==
  \/ ConnectInit \/ ConnectFails \/ ConnectSucceeds \/ BeginCapture
  \/ BeginActive \/ BeginSignal \/ SignalStopSteps("connect") \/ ConnectDone

SendThread ==
  SendStops \/ SendEnd \/ SignalStopSteps("send") \/ SendReset \/ SendInactive

EnderThread == EnderUnhook \/ EnderInactive \/ EnderEvent \/ EnderFlag

RetryThread(r) ==
  \/ RetryBegin(r) \/ RetryTimeout(r) \/ RetryWoken(r) \/ Start(r) \/ RetryAfter(r)
  \/ RetryDone(r)

Next ==
  \/ UserStart \/ UserStop \/ UserForceStop \/ UserCall
  \/ ConnectThread \/ SendThread \/ SendFails \/ EnderThread
  \/ \E r \in Retriers : RetryThread(r)

Spec == Init /\ [][Next]_vars

(* Every thread is scheduled and every connection attempt ends; nobody has *)
(* to press a button, and a connection need not break.                     *)
Fairness ==
  /\ WF_vars(UserCall) /\ WF_vars(ConnectThread) /\ WF_vars(SendThread)
  /\ WF_vars(EnderThread)
  /\ \A r \in Retriers : WF_vars(RetryThread(r))

FairSpec == Spec /\ Fairness

----------------------------------------------------------------------------
(* Properties. *)

Labels == {"none", "idle", "start_wait", "start_check", "start_init", "c_init", "c_try",
  "c_begin", "c_hooked", "c_signal", "c_done", "s_loop", "s_end", "s_reset", "s_inactive",
  "signal_stop", "end_check", "end_clear", "end_join", "end_signal", "retry", "retry_spawn",
  "e_unhook", "e_inactive", "e_event", "e_flag", "r_begin", "r_wait", "r_after", "r_done",
  "stop_begin", "stop_check", "stop_retry", "stop_join", "stop_plugin", "stop_connect",
  "stop_stream"}
Codes == {"success", "error", "disconnected"}

TypeOK ==
  /\ active \in BOOLEAN /\ data_active \in BOOLEAN /\ hooked \in BOOLEAN
  /\ ending \in BOOLEAN /\ stop_code \in Codes /\ stopping_event \in BOOLEAN
  /\ reconnecting \in BOOLEAN /\ reconnect_stop_event \in BOOLEAN
  /\ reconnect_thread_active \in BOOLEAN /\ reconnect_thread \in Retriers
  /\ retries \in 0 .. RetryMax
  /\ connecting \in BOOLEAN /\ s_active \in BOOLEAN /\ s_stop \in BOOLEAN
  /\ stop_ts \in {"now", "later"}
  /\ pc \in [Threads -> Labels] /\ code \in [Threads -> Codes]
  /\ sig \in [Threads -> BOOLEAN] /\ forced \in BOOLEAN /\ joining \in Retriers
  /\ client \in {"off", "starting", "on", "stopping"} /\ starts \in 0 .. MaxStarts
  /\ scenario \in Scenarios

Idle(t) == pc[t] \in {"none", "idle"}
Quiet == \A t \in Threads : Idle(t)

(* A capture only begins when the encoders of the last one are unhooked    *)
(* and the thread that unhooks them is gone: hook_data_capture would       *)
(* otherwise be undone by the late end of the capture before it.           *)
CapturesOnce == At("connect", "c_begin") /\ ~ active => ~ hooked /\ Exited("ender")

(* A capture is ended by one thread, while its packets still flow and      *)
(* nobody unhooks them yet: signal_stop runs on the send, connect and user *)
(* threads, and active and data_active are read without a lock.            *)
Ending(t) == pc[t] \in {"end_clear", "end_join"}
EndsOnce ==
  \A t \in Threads : Ending(t) =>
     /\ hooked /\ pc["ender"] \notin {"e_unhook", "e_inactive"}
     /\ \A u \in Threads \ {t} : ~ Ending(u)

(* A capture begins after the last has ended, and ends once, when the      *)
(* connect and the send thread, the user and a reconnect that fails call   *)
(* obs_output_begin_data_capture and _signal_stop at once; not when a stop *)
(* coincides with an attempt to reconnect.                                 *)
CapturesInTurn == CapturesOnce /\ EndsOnce

(* When nothing runs, stopping_event is signalled: the next start and      *)
(* obs_output_destroy do not wait for a stop that nobody will finish.      *)
QuietIsStartable == Quiet => stopping_event

(* When nothing runs, the client was told that the output is off exactly   *)
(* if obs_output_active() says so: no stop signal is lost, and none leaves *)
(* an output behind that still counts as active.                           *)
QuietIsTold == Quiet => (client = "off" <=> ~ active /\ ~ reconnecting)

(* While nobody sets the output up or takes it down, an active output has  *)
(* a send thread, and a send thread that sends has an active output.       *)
ActiveIsServed ==
  (\A t \in Threads \ {"send"} : Idle(t)) =>
     (active => ~ Exited("send")) /\ (At("send", "s_loop") => active)

(* Nothing coincides, and the encoders initialise.                         *)
Orderly == Races = {} /\ ~ StartMayFail

(* Between two events nothing is left over of the last: no flag, no stop   *)
(* event, no thread without a capture (obs_output_active and the signals   *)
(* agree).                                                                 *)
Settled == TypeOK /\ (Orderly => QuietIsStartable /\ QuietIsTold /\ ActiveIsServed)

(* A stop is honoured: the output goes inactive and stops reconnecting     *)
(* (obs_output_stop and obs_output_force_stop).                            *)
StopHonoured == Orderly /\ client = "stopping" ~> ~ active /\ ~ reconnecting

(* Whoever starts the output learns whether it streams or has stopped.     *)
StartTold == Orderly /\ client = "starting" ~> client \in {"on", "off"}

(* Reconnecting ends, in a new capture or after reconnect_retry_max tries. *)
LossResolved == Orderly /\ reconnecting ~> ~ reconnecting

(* obs_output_start, _stop and _force_stop return: no wait for the         *)
(* stopping event, the reconnect thread or the connect thread hangs.       *)
CallsReturn == Orderly /\ ~ At("user", "idle") ~> At("user", "idle")

(* Every call returns, and every start, stop and loss of the connection    *)
(* comes to an end the client can see (obs_output_start, obs_output_stop,  *)
(* output_reconnect).                                                      *)
Answered == StartTold /\ StopHonoured /\ LossResolved /\ CallsReturn
=============================================================================
