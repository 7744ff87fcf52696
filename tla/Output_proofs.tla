---------------------------- MODULE Output_proofs ----------------------------
(***************************************************************************)
(* Theorems about the life of an output for every set of reconnect         *)
(* threads, every reconnect_retry_max and every number of starts, in the   *)
(* scenarios whose events wait for each other (Orderly).                   *)
(***************************************************************************)
EXTENDS Output, TLAPS

USE DEF captureVars, stopVars, retryVars, streamVars, callVars, clientVars

-----------------------------------------------------------------------------
(* The inductive invariant.                                                *)

StartPlaces == {"start_wait", "start_check", "start_init"}
StopPlaces  == {"stop_begin", "stop_check", "stop_retry", "stop_join", "stop_plugin",
                "stop_connect", "stop_stream"}
UserPlaces  == {"idle", "signal_stop", "end_check"} \union StartPlaces \union StopPlaces
TryPlaces   == {"c_init", "c_try", "signal_stop", "end_check", "retry", "retry_spawn"}
BeginPlaces == {"c_begin", "c_hooked", "c_signal"}
ConnectPlaces == {"none", "c_done"} \union TryPlaces \union BeginPlaces
EndPlaces   == {"s_end", "signal_stop", "end_check", "end_clear", "end_join"}
RetryPlaces == {"retry", "retry_spawn"}
LastPlaces  == {"s_reset", "s_inactive"}
SendPlaces  == {"none", "s_loop", "end_signal"} \union EndPlaces \union RetryPlaces
                 \union LastPlaces
EnderPlaces == {"none", "e_unhook", "e_inactive", "e_event", "e_flag"}
PendingPlaces == {"r_begin", "r_wait"} \union StartPlaces

(* The type invariant, but for the bound of retries.                       *)
Flags ==
  /\ active \in BOOLEAN /\ data_active \in BOOLEAN /\ hooked \in BOOLEAN
  /\ ending \in BOOLEAN /\ stopping_event \in BOOLEAN /\ forced \in BOOLEAN
  /\ reconnecting \in BOOLEAN /\ reconnect_stop_event \in BOOLEAN
  /\ reconnect_thread_active \in BOOLEAN
  /\ connecting \in BOOLEAN /\ s_active \in BOOLEAN /\ s_stop \in BOOLEAN
Values ==
  /\ stop_code \in Codes /\ reconnect_thread \in Retriers /\ retries \in Nat
  /\ stop_ts \in {"now", "later"} /\ joining \in Retriers
  /\ client \in {"off", "starting", "on", "stopping"} /\ starts \in 0 .. MaxStarts
  /\ scenario \in Scenarios
Functions ==
  /\ pc = [t \in Threads |-> pc[t]] /\ code \in [Threads -> Codes] /\ sig \in [Threads -> BOOLEAN]
Kinds == Flags /\ Values /\ Functions

(* Where each thread can be in an orderly scenario.                        *)
Places ==
  /\ pc["user"] \in UserPlaces /\ pc["connect"] \in ConnectPlaces
  /\ pc["send"] \in SendPlaces /\ pc["ender"] \in EnderPlaces
  /\ \A r \in Retriers : pc[r] \in {"none", "r_after", "r_done"} \union PendingPlaces

Pending(r) == pc[r] \in PendingPlaces
Starting(t) == pc[t] \in StartPlaces
NonePending == \A r \in Retriers : ~ Pending(r)
UserStopping == pc["user"] \in StopPlaces \union {"signal_stop", "end_check"}

(* What the flags of the capture say of the threads that set them up and   *)
(* take them down.                                                         *)
Captured ==
  /\ data_active => /\ hooked /\ (active \/ At("connect", "c_hooked"))
                    /\ pc["send"] \in {"s_loop"} \union (EndPlaces \ {"end_join"})
  /\ active => data_active \/ At("send", "end_join") \/ pc["ender"] \in {"e_unhook", "e_inactive"}
  /\ hooked => data_active \/ At("send", "end_join") \/ At("ender", "e_unhook")
  /\ pc["send"] \in EndPlaces => active /\ hooked /\ (data_active <=> ~ At("send", "end_join"))
  /\ At("send", "s_loop") /\ pc["connect"] \in {"none", "c_done"} => active /\ data_active

(* The thread that ends a capture follows the send thread.                 *)
Ender ==
  /\ ending <=> ~ Exited("ender")
  /\ ~ Exited("ender") =>
       /\ Exited("connect") /\ ~ data_active
       /\ pc["send"] \in {"none", "end_signal"} \union RetryPlaces \union LastPlaces
  /\ At("ender", "e_unhook") => active /\ hooked
  /\ At("ender", "e_inactive") => active /\ ~ hooked

(* The connect thread has the output to itself until it is done.           *)
Connecting ==
  /\ connecting <=> ~ Exited("connect")
  /\ ~ Exited("connect") => Exited("ender") /\ pc["send"] \in {"none", "s_loop"}
  /\ pc["connect"] \in TryPlaces \union BeginPlaces =>
       /\ At("user", "idle") /\ NonePending /\ stopping_event /\ ~ s_stop
       /\ At("connect", "end_check") => (sig["connect"] <=> ~ reconnecting)
       /\ ~ At("connect", "end_check") => client = IF reconnecting THEN "on" ELSE "starting"
       /\ reconnecting => client = "on"
  /\ pc["connect"] \in TryPlaces => Exited("send")
  /\ pc["connect"] \in BeginPlaces => At("send", "s_loop")
  /\ At("connect", "c_begin") => ~ active /\ ~ data_active
  /\ At("connect", "c_hooked") => ~ active /\ data_active
  /\ At("connect", "c_signal") => active /\ data_active
  /\ At("connect", "signal_stop") => code["connect"] = "error"
  /\ pc["connect"] \in RetryPlaces => reconnecting /\ ~ sig["connect"]

(* The send thread ends a capture alone, and knows why it does.            *)
Sending ==
  /\ s_active <=> ~ Exited("send")
  /\ At("send", "s_loop") =>
       /\ NonePending /\ ~ Starting("user")
       /\ pc["connect"] \in {"none", "c_done"} =>
            ~ reconnecting /\ client \in {"on", "stopping"}
  /\ pc["send"] \in EndPlaces \union RetryPlaces \union {"end_signal"} =>
       /\ NonePending /\ ~ reconnecting
       /\ client = IF s_stop THEN "stopping" ELSE "on"
  /\ ~ Exited("send") /\ ~ At("send", "s_loop") => At("user", "idle") /\ Exited("connect")
  /\ At("send", "signal_stop") => code["send"] = "disconnected" /\ ~ s_stop
  /\ pc["send"] \in {"end_check", "end_clear", "end_join"} =>
       (sig["send"] <=> s_stop \/ RetryMax = 0)
  /\ At("send", "end_signal") => sig["send"]
  /\ pc["send"] \in RetryPlaces => ~ sig["send"] /\ ~ s_stop /\ RetryMax # 0
  /\ pc["send"] \in LastPlaces => client = IF reconnecting THEN "on" ELSE "off"
  /\ s_stop => /\ pc["send"] \in {"s_loop", "s_end", "end_check", "end_clear", "end_join",
                                  "end_signal", "s_reset"}
               /\ At("user", "idle") /\ Exited("connect")
               /\ ~ At("send", "s_reset") => client = "stopping"

(* Only one reconnect thread still waits or tries, on its own when a stop  *)
(* wakes it.                                                               *)
Waiting ==
  /\ \A r \in Retriers : Pending(r) =>
       /\ reconnecting /\ r = reconnect_thread /\ ~ Starting("user")
       /\ pc["send"] \in {"none"} \union LastPlaces /\ pc["connect"] \in {"none", "c_done"}
  /\ \A r \in Retriers : Starting(r) =>
       At("user", "idle") /\ StreamQuiet /\ Exited("ender") /\ client = "on"
  /\ \A r \in Retriers : Pending(r) /\ client # "on" =>
       At(r, "r_wait") /\ \A q \in Retriers \ {r} : Exited(q)

(* reconnecting says that it does, or that the attempt it made goes on.    *)
Reconnecting ==
  reconnecting =>
    \/ Pending(reconnect_thread)
    \/ reconnect_stop_event /\ \E r \in Retriers : At(r, "r_after")
    \/ pc["connect"] \in TryPlaces \union BeginPlaces

(* A stop has told the reconnect thread, and tries are counted.            *)
Retrying ==
  /\ reconnecting =>
       (reconnect_stop_event <=> client # "on" /\ pc["user"] \notin {"stop_begin", "stop_check"})
  /\ retries <= RetryMax
  /\ At("connect", "retry_spawn") \/ At("send", "retry_spawn") => retries < RetryMax

(* A call of the user waits for what is still under way.                   *)
Calling ==
  /\ Starting("user") =>
       /\ StreamQuiet /\ NonePending /\ ~ reconnecting /\ ~ active /\ client = "starting"
       /\ At("user", "start_init") => Exited("ender")
  /\ UserStopping =>
       /\ client = "stopping" /\ ~ s_stop
       /\ pc["connect"] \in {"none", "c_done"} /\ pc["send"] \in {"none", "s_loop"}
       /\ At("send", "s_loop") \/ pc["user"] \notin {"stop_begin", "stop_check"} \/ reconnecting
  /\ At("user", "stop_begin") => stopping_event
  /\ pc["user"] \in {"stop_stream", "signal_stop", "end_check"} => Exited("connect")
  /\ pc["user"] \in {"signal_stop", "end_check"} => Exited("send") /\ code["user"] = "success"
  /\ At("user", "end_check") => sig["user"]

(* Whatever the client was told last, or a stop has reset, somebody is at  *)
(* work on.                                                                *)
Told ==
  /\ client = "starting" =>
       Starting("user") \/ pc["connect"] \in TryPlaces \union BeginPlaces
  /\ client = "on" =>
       \/ reconnecting \/ At("connect", "end_check")
       \/ pc["send"] \in {"s_loop", "end_signal"} \union EndPlaces \union RetryPlaces
  /\ client = "stopping" =>
       UserStopping \/ (s_stop /\ ~ At("send", "s_reset"))
  /\ ~ stopping_event =>
       /\ client \in {"off", "stopping"} \/ At("user", "start_wait")
       /\ \/ UserStopping
          \/ s_stop /\ pc["send"] \in {"s_loop"} \union EndPlaces
          \/ pc["ender"] \in {"e_unhook", "e_inactive", "e_event"}

IInv ==
  /\ Places /\ Captured /\ Ender /\ Connecting /\ Sending
  /\ Waiting /\ Reconnecting /\ Retrying /\ Calling /\ Told

(* ... as long as the scenario is an orderly one, and it never changes.    *)
OrderlyInv == Kinds /\ (Orderly => IInv)

-----------------------------------------------------------------------------
(* The threads of S stay where they are.                                   *)
Stay(S) == \A u \in S : pc'[u] = pc[u]

LEMMA Moves ==
  ASSUME Kinds, NEW t \in Threads, NEW l, Go(t, l)
  PROVE pc'[t] = l /\ Stay(Fixed \ {t}) /\ Stay(Retriers \ {t})
  BY DEF Kinds, Functions, Go, Stay, Fixed, Threads

LEMMA Spawns ==
  ASSUME Kinds, NEW t \in Threads, NEW l, NEW new \in Threads, new # t, NEW first,
         Spawn(t, l, new, first)
  PROVE /\ pc'[t] = l /\ pc'[new] = first
        /\ \A u \in Threads : u # t /\ u # new => pc'[u] = pc[u]
  BY DEF Kinds, Functions, Spawn

LEMMA Strangers ==
  \A r \in Retriers : r \in Threads /\ r # "user" /\ r # "connect" /\ r # "send" /\ r # "ender"
  BY ThreadAssumption DEF Fixed, Threads

LEMMA FixedThreads == /\ "user" \in Threads /\ "connect" \in Threads
                      /\ "send" \in Threads /\ "ender" \in Threads
  BY DEF Fixed, Threads

LEMMA SpawnsFixed ==
  ASSUME Kinds, NEW t \in Fixed, NEW l, NEW new \in Fixed, new # t, NEW first,
         Spawn(t, l, new, first)
  PROVE /\ pc'[t] = l /\ pc'[new] = first
        /\ \A u \in Threads : u # t /\ u # new => pc'[u] = pc[u]
  BY Spawns DEF Threads

LEMMA SpawnsRetrier ==
  ASSUME Kinds, NEW t \in Fixed, NEW l, NEW r \in Retriers, NEW first
  PROVE /\ Spawn(t, l, r, first) =>
             /\ pc'[t] = l /\ pc'[r] = first
             /\ \A u \in Threads : u # t /\ u # r => pc'[u] = pc[u]
        /\ Spawn(r, l, t, first) =>
             /\ pc'[r] = l /\ pc'[t] = first
             /\ \A u \in Threads : u # t /\ u # r => pc'[u] = pc[u]
<1>1. t \in Threads /\ r \in Threads /\ t # r
  BY ThreadAssumption DEF Threads
<1>2. QED
  BY <1>1, Spawns

LEMMA Returns == /\ Return("user") = "idle" /\ Return("connect") = "c_done"
                 /\ Return("send") = "s_reset"
  BY DEF Return

LEMMA Maximum == ASSUME Kinds PROVE RetryMax \in Nat
  BY ScenarioAssumption DEF Kinds, Values, RetryMax
-----------------------------------------------------------------------------
(* Every step keeps the kinds of the variables, in any scenario.           *)

LEMMA MovesKind == ASSUME Kinds, NEW t, NEW l, Go(t, l) PROVE pc' = [u \in Threads |-> pc'[u]]
  BY DEF Kinds, Functions, Go

LEMMA SpawnsKind ==
  ASSUME Kinds, NEW t, NEW l, NEW new, NEW first, Spawn(t, l, new, first)
  PROVE pc' = [u \in Threads |-> pc'[u]]
  BY DEF Kinds, Functions, Spawn

LEMMA UserStartKinds == ASSUME Kinds, UserStart PROVE Kinds'
<1>1. Flags'
  BY DEF Kinds, Flags, UserStart
<1>2. Values'
  BY ScenarioAssumption DEF Kinds, Values, Codes, UserStart
<1>3. Functions'
  BY MovesKind, SpawnsKind DEF Kinds, Functions, Codes, UserStart
<1>4. QED
  BY <1>1, <1>2, <1>3 DEF Kinds

LEMMA UserStopKinds == ASSUME Kinds, UserStop PROVE Kinds'
<1>1. Flags'
  BY DEF Kinds, Flags, UserStop, UserStops
<1>2. Values'
  BY DEF Kinds, Values, Codes, UserStop, UserStops
<1>3. Functions'
  BY MovesKind, SpawnsKind DEF Kinds, Functions, Codes, UserStop, UserStops
<1>4. QED
  BY <1>1, <1>2, <1>3 DEF Kinds

LEMMA UserForceStopKinds == ASSUME Kinds, UserForceStop PROVE Kinds'
<1>1. Flags'
  BY DEF Kinds, Flags, UserForceStop, UserStops
<1>2. Values'
  BY DEF Kinds, Values, Codes, UserForceStop, UserStops
<1>3. Functions'
  BY MovesKind, SpawnsKind DEF Kinds, Functions, Codes, UserForceStop, UserStops
<1>4. QED
  BY <1>1, <1>2, <1>3 DEF Kinds

LEMMA StopBeginKinds == ASSUME Kinds, StopBegin PROVE Kinds'
<1>1. Flags'
  BY DEF Kinds, Flags, StopBegin
<1>2. Values'
  BY DEF Kinds, Values, Codes, StopBegin
<1>3. Functions'
  BY MovesKind, SpawnsKind DEF Kinds, Functions, Codes, StopBegin
<1>4. QED
  BY <1>1, <1>2, <1>3 DEF Kinds

LEMMA StopCheckKinds == ASSUME Kinds, StopCheck PROVE Kinds'
<1>1. Flags'
  BY DEF Kinds, Flags, StopCheck
<1>2. Values'
  BY DEF Kinds, Values, Codes, StopCheck
<1>3. Functions'
  BY MovesKind, SpawnsKind DEF Kinds, Functions, Codes, StopCheck
<1>4. QED
  BY <1>1, <1>2, <1>3 DEF Kinds

LEMMA StopRetryKinds == ASSUME Kinds, StopRetry PROVE Kinds'
<1>1. Flags'
  BY DEF Kinds, Flags, StopRetry
<1>2. Values'
  BY DEF Kinds, Values, Codes, StopRetry
<1>3. Functions'
  BY MovesKind, SpawnsKind DEF Kinds, Functions, Codes, StopRetry
<1>4. QED
  BY <1>1, <1>2, <1>3 DEF Kinds

LEMMA StopJoinKinds == ASSUME Kinds, StopJoin PROVE Kinds'
<1>1. Flags'
  BY DEF Kinds, Flags, StopJoin, Jump
<1>2. Values'
  BY DEF Kinds, Values, Codes, StopJoin, Jump
<1>3. Functions'
  BY MovesKind, SpawnsKind DEF Kinds, Functions, Codes, StopJoin, Jump
<1>4. QED
  BY <1>1, <1>2, <1>3 DEF Kinds

LEMMA PluginStopKinds == ASSUME Kinds, PluginStop PROVE Kinds'
<1>1. Flags'
  BY DEF Kinds, Flags, PluginStop, Jump
<1>2. Values'
  BY DEF Kinds, Values, Codes, PluginStop, Jump
<1>3. Functions'
  BY MovesKind, SpawnsKind DEF Kinds, Functions, Codes, PluginStop, Jump
<1>4. QED
  BY <1>1, <1>2, <1>3 DEF Kinds

LEMMA StopConnectKinds == ASSUME Kinds, StopConnect PROVE Kinds'
<1>1. Flags'
  BY DEF Kinds, Flags, StopConnect, Jump
<1>2. Values'
  BY DEF Kinds, Values, Codes, StopConnect, Jump
<1>3. Functions'
  BY MovesKind, SpawnsKind DEF Kinds, Functions, Codes, StopConnect, Jump
<1>4. QED
  BY <1>1, <1>2, <1>3 DEF Kinds

LEMMA StopStreamKinds == ASSUME Kinds, StopStream PROVE Kinds'
<1>1. Flags'
  BY DEF Kinds, Flags, StopStream
<1>2. Values'
  BY DEF Kinds, Values, Codes, StopStream
<1>3. Functions'
  BY MovesKind, SpawnsKind DEF Kinds, Functions, Codes, StopStream
<1>4. QED
  BY <1>1, <1>2, <1>3 DEF Kinds

LEMMA ConnectInitKinds == ASSUME Kinds, ConnectInit PROVE Kinds'
<1>1. Flags'
  BY DEF Kinds, Flags, ConnectInit, Jump
<1>2. Values'
  BY DEF Kinds, Values, Codes, ConnectInit, Jump
<1>3. Functions'
  BY MovesKind, SpawnsKind DEF Kinds, Functions, Codes, ConnectInit, Jump
<1>4. QED
  BY <1>1, <1>2, <1>3 DEF Kinds

LEMMA ConnectFailsKinds == ASSUME Kinds, ConnectFails PROVE Kinds'
<1>1. Flags'
  BY DEF Kinds, Flags, ConnectFails
<1>2. Values'
  BY DEF Kinds, Values, Codes, ConnectFails
<1>3. Functions'
  BY MovesKind, SpawnsKind DEF Kinds, Functions, Codes, ConnectFails
<1>4. QED
  BY <1>1, <1>2, <1>3 DEF Kinds

LEMMA ConnectSucceedsKinds == ASSUME Kinds, ConnectSucceeds PROVE Kinds'
<1>1. Flags'
  BY DEF Kinds, Flags, ConnectSucceeds
<1>2. Values'
  BY DEF Kinds, Values, Codes, ConnectSucceeds
<1>3. Functions'
  BY MovesKind, SpawnsKind DEF Kinds, Functions, Codes, ConnectSucceeds
<1>4. QED
  BY <1>1, <1>2, <1>3 DEF Kinds

LEMMA BeginCaptureKinds == ASSUME Kinds, BeginCapture PROVE Kinds'
<1>1. Flags'
  BY DEF Kinds, Flags, BeginCapture
<1>2. Values'
  BY DEF Kinds, Values, Codes, BeginCapture
<1>3. Functions'
  BY MovesKind, SpawnsKind DEF Kinds, Functions, Codes, BeginCapture
<1>4. QED
  BY <1>1, <1>2, <1>3 DEF Kinds

LEMMA BeginActiveKinds == ASSUME Kinds, BeginActive PROVE Kinds'
<1>1. Flags'
  BY DEF Kinds, Flags, BeginActive
<1>2. Values'
  BY DEF Kinds, Values, Codes, BeginActive
<1>3. Functions'
  BY MovesKind, SpawnsKind DEF Kinds, Functions, Codes, BeginActive
<1>4. QED
  BY <1>1, <1>2, <1>3 DEF Kinds

LEMMA BeginSignalKinds == ASSUME Kinds, BeginSignal PROVE Kinds'
<1>1. Flags'
  BY ZenonT(30) DEF Kinds, Flags, BeginSignal
<1>2. Values'
  BY DEF Kinds, Values, Codes, BeginSignal
<1>3. Functions'
  BY MovesKind, SpawnsKind DEF Kinds, Functions, Codes, BeginSignal
<1>4. QED
  BY <1>1, <1>2, <1>3 DEF Kinds

LEMMA ConnectDoneKinds == ASSUME Kinds, ConnectDone PROVE Kinds'
<1>1. Flags'
  BY DEF Kinds, Flags, ConnectDone
<1>2. Values'
  BY DEF Kinds, Values, Codes, ConnectDone
<1>3. Functions'
  BY MovesKind, SpawnsKind DEF Kinds, Functions, Codes, ConnectDone
<1>4. QED
  BY <1>1, <1>2, <1>3 DEF Kinds

LEMMA SendFailsKinds == ASSUME Kinds, SendFails PROVE Kinds'
<1>1. Flags'
  BY DEF Kinds, Flags, SendFails, Jump
<1>2. Values'
  BY DEF Kinds, Values, Codes, SendFails, Jump
<1>3. Functions'
  BY MovesKind, SpawnsKind DEF Kinds, Functions, Codes, SendFails, Jump
<1>4. QED
  BY <1>1, <1>2, <1>3 DEF Kinds

LEMMA SendStopsKinds == ASSUME Kinds, SendStops PROVE Kinds'
<1>1. Flags'
  BY DEF Kinds, Flags, SendStops, Jump
<1>2. Values'
  BY DEF Kinds, Values, Codes, SendStops, Jump
<1>3. Functions'
  BY MovesKind, SpawnsKind DEF Kinds, Functions, Codes, SendStops, Jump
<1>4. QED
  BY <1>1, <1>2, <1>3 DEF Kinds

LEMMA SendEndKinds == ASSUME Kinds, SendEnd PROVE Kinds'
<1>1. Flags'
  BY DEF Kinds, Flags, SendEnd
<1>2. Values'
  BY DEF Kinds, Values, Codes, SendEnd
<1>3. Functions'
  BY MovesKind, SpawnsKind DEF Kinds, Functions, Codes, SendEnd
<1>4. QED
  BY <1>1, <1>2, <1>3 DEF Kinds

LEMMA SendResetKinds == ASSUME Kinds, SendReset PROVE Kinds'
<1>1. Flags'
  BY DEF Kinds, Flags, SendReset
<1>2. Values'
  BY DEF Kinds, Values, Codes, SendReset
<1>3. Functions'
  BY MovesKind, SpawnsKind DEF Kinds, Functions, Codes, SendReset
<1>4. QED
  BY <1>1, <1>2, <1>3 DEF Kinds

LEMMA SendInactiveKinds == ASSUME Kinds, SendInactive PROVE Kinds'
<1>1. Flags'
  BY DEF Kinds, Flags, SendInactive
<1>2. Values'
  BY DEF Kinds, Values, Codes, SendInactive
<1>3. Functions'
  BY MovesKind, SpawnsKind DEF Kinds, Functions, Codes, SendInactive
<1>4. QED
  BY <1>1, <1>2, <1>3 DEF Kinds

LEMMA EnderUnhookKinds == ASSUME Kinds, EnderUnhook PROVE Kinds'
<1>1. Flags'
  BY DEF Kinds, Flags, EnderUnhook
<1>2. Values'
  BY DEF Kinds, Values, Codes, EnderUnhook
<1>3. Functions'
  BY MovesKind, SpawnsKind DEF Kinds, Functions, Codes, EnderUnhook
<1>4. QED
  BY <1>1, <1>2, <1>3 DEF Kinds

LEMMA EnderInactiveKinds == ASSUME Kinds, EnderInactive PROVE Kinds'
<1>1. Flags'
  BY DEF Kinds, Flags, EnderInactive
<1>2. Values'
  BY DEF Kinds, Values, Codes, EnderInactive
<1>3. Functions'
  BY MovesKind, SpawnsKind DEF Kinds, Functions, Codes, EnderInactive
<1>4. QED
  BY <1>1, <1>2, <1>3 DEF Kinds

LEMMA EnderEventKinds == ASSUME Kinds, EnderEvent PROVE Kinds'
<1>1. Flags'
  BY DEF Kinds, Flags, EnderEvent
<1>2. Values'
  BY DEF Kinds, Values, Codes, EnderEvent
<1>3. Functions'
  BY MovesKind, SpawnsKind DEF Kinds, Functions, Codes, EnderEvent
<1>4. QED
  BY <1>1, <1>2, <1>3 DEF Kinds

LEMMA EnderFlagKinds == ASSUME Kinds, EnderFlag PROVE Kinds'
<1>1. Flags'
  BY DEF Kinds, Flags, EnderFlag
<1>2. Values'
  BY DEF Kinds, Values, Codes, EnderFlag
<1>3. Functions'
  BY MovesKind, SpawnsKind DEF Kinds, Functions, Codes, EnderFlag
<1>4. QED
  BY <1>1, <1>2, <1>3 DEF Kinds

LEMMA RetryBeginKinds == ASSUME Kinds, NEW r \in Retriers, RetryBegin(r) PROVE Kinds'
<1>1. Flags'
  BY DEF Kinds, Flags, RetryBegin
<1>2. Values'
  BY DEF Kinds, Values, Codes, RetryBegin
<1>3. Functions'
  BY MovesKind, SpawnsKind DEF Kinds, Functions, Codes, RetryBegin
<1>4. QED
  BY <1>1, <1>2, <1>3 DEF Kinds

LEMMA RetryTimeoutKinds == ASSUME Kinds, NEW r \in Retriers, RetryTimeout(r) PROVE Kinds'
<1>1. Flags'
  BY DEF Kinds, Flags, RetryTimeout, Jump
<1>2. Values'
  BY DEF Kinds, Values, Codes, RetryTimeout, Jump
<1>3. Functions'
  BY MovesKind, SpawnsKind DEF Kinds, Functions, Codes, RetryTimeout, Jump
<1>4. QED
  BY <1>1, <1>2, <1>3 DEF Kinds

LEMMA RetryWokenKinds == ASSUME Kinds, NEW r \in Retriers, RetryWoken(r) PROVE Kinds'
<1>1. Flags'
  BY DEF Kinds, Flags, RetryWoken, Jump
<1>2. Values'
  BY DEF Kinds, Values, Codes, RetryWoken, Jump
<1>3. Functions'
  BY MovesKind, SpawnsKind DEF Kinds, Functions, Codes, RetryWoken, Jump
<1>4. QED
  BY <1>1, <1>2, <1>3 DEF Kinds

LEMMA RetryAfterKinds == ASSUME Kinds, NEW r \in Retriers, RetryAfter(r) PROVE Kinds'
<1>1. Flags'
  BY DEF Kinds, Flags, RetryAfter
<1>2. Values'
  BY DEF Kinds, Values, Codes, RetryAfter
<1>3. Functions'
  BY MovesKind, SpawnsKind DEF Kinds, Functions, Codes, RetryAfter
<1>4. QED
  BY <1>1, <1>2, <1>3 DEF Kinds

LEMMA RetryDoneKinds == ASSUME Kinds, NEW r \in Retriers, RetryDone(r) PROVE Kinds'
<1>1. Flags'
  BY DEF Kinds, Flags, RetryDone
<1>2. Values'
  BY DEF Kinds, Values, Codes, RetryDone
<1>3. Functions'
  BY MovesKind, SpawnsKind DEF Kinds, Functions, Codes, RetryDone
<1>4. QED
  BY <1>1, <1>2, <1>3 DEF Kinds

LEMMA StartWaitKinds == ASSUME Kinds, NEW t \in Threads, StartWait(t) PROVE Kinds'
<1>1. Flags'
  BY DEF Kinds, Flags, StartWait
<1>2. Values'
  BY DEF Kinds, Values, Codes, StartWait
<1>3. Functions'
  BY MovesKind, SpawnsKind DEF Kinds, Functions, Codes, StartWait
<1>4. QED
  BY <1>1, <1>2, <1>3 DEF Kinds

LEMMA StartRefusedKinds == ASSUME Kinds, NEW t \in Threads, StartRefused(t) PROVE Kinds'
<1>1. Flags'
  BY DEF Kinds, Flags, StartRefused, StartFails
<1>2. Values'
  BY DEF Kinds, Values, Codes, StartRefused, StartFails
<1>3. Functions'
  BY MovesKind, SpawnsKind DEF Kinds, Functions, Codes, StartRefused, StartFails
<1>4. QED
  BY <1>1, <1>2, <1>3 DEF Kinds

LEMMA StartCheckKinds == ASSUME Kinds, NEW t \in Threads, StartCheck(t) PROVE Kinds'
<1>1. Flags'
  BY DEF Kinds, Flags, StartCheck, Jump
<1>2. Values'
  BY DEF Kinds, Values, Codes, StartCheck, Jump
<1>3. Functions'
  BY MovesKind, SpawnsKind DEF Kinds, Functions, Codes, StartCheck, Jump
<1>4. QED
  BY <1>1, <1>2, <1>3 DEF Kinds

LEMMA StartInitFailsKinds == ASSUME Kinds, NEW t \in Threads, StartInitFails(t) PROVE Kinds'
<1>1. Flags'
  BY DEF Kinds, Flags, StartInitFails, StartFails
<1>2. Values'
  BY DEF Kinds, Values, Codes, StartInitFails, StartFails
<1>3. Functions'
  BY MovesKind, SpawnsKind DEF Kinds, Functions, Codes, StartInitFails, StartFails
<1>4. QED
  BY <1>1, <1>2, <1>3 DEF Kinds

LEMMA StartConnectKinds == ASSUME Kinds, NEW t \in Threads, StartConnect(t) PROVE Kinds'
<1>1. Flags'
  BY DEF Kinds, Flags, StartConnect
<1>2. Values'
  BY DEF Kinds, Values, Codes, StartConnect
<1>3. Functions'
  BY MovesKind, SpawnsKind DEF Kinds, Functions, Codes, StartConnect
<1>4. QED
  BY <1>1, <1>2, <1>3 DEF Kinds

LEMMA SignalStopKinds == ASSUME Kinds, NEW t \in Threads, SignalStop(t) PROVE Kinds'
<1>1. Flags'
  BY DEF Kinds, Flags, SignalStop
<1>2. Values'
  BY DEF Kinds, Values, Functions, Codes, SignalStop
<1>3. Functions'
  BY MovesKind, SpawnsKind DEF Kinds, Functions, Codes, SignalStop
<1>4. QED
  BY <1>1, <1>2, <1>3 DEF Kinds

LEMMA EndCheckKinds == ASSUME Kinds, NEW t \in Threads, EndCheck(t) PROVE Kinds'
<1>1. Flags'
  BY DEF Kinds, Flags, EndCheck, Jump
<1>2. Values'
  BY DEF Kinds, Values, Codes, EndCheck, Jump
<1>3. Functions'
  BY MovesKind, SpawnsKind DEF Kinds, Functions, Codes, EndCheck, Jump
<1>4. QED
  BY <1>1, <1>2, <1>3 DEF Kinds

LEMMA EndNothingKinds == ASSUME Kinds, NEW t \in Threads, EndNothing(t) PROVE Kinds'
<1>1. Flags'
  BY DEF Kinds, Flags, EndNothing
<1>2. Values'
  BY DEF Kinds, Values, Codes, EndNothing
<1>3. Functions'
  BY MovesKind, SpawnsKind DEF Kinds, Functions, Codes, EndNothing
<1>4. QED
  BY <1>1, <1>2, <1>3 DEF Kinds

LEMMA EndClearKinds == ASSUME Kinds, NEW t \in Threads, EndClear(t) PROVE Kinds'
<1>1. Flags'
  BY DEF Kinds, Flags, EndClear
<1>2. Values'
  BY DEF Kinds, Values, Codes, EndClear
<1>3. Functions'
  BY MovesKind, SpawnsKind DEF Kinds, Functions, Codes, EndClear
<1>4. QED
  BY <1>1, <1>2, <1>3 DEF Kinds

LEMMA EndJoinKinds == ASSUME Kinds, NEW t \in Threads, EndJoin(t) PROVE Kinds'
<1>1. Flags'
  BY DEF Kinds, Flags, EndJoin
<1>2. Values'
  BY DEF Kinds, Values, Codes, EndJoin
<1>3. Functions'
  BY MovesKind, SpawnsKind DEF Kinds, Functions, Codes, EndJoin
<1>4. QED
  BY <1>1, <1>2, <1>3 DEF Kinds

LEMMA EndSignalKinds == ASSUME Kinds, NEW t \in Threads, EndSignal(t) PROVE Kinds'
<1>1. Flags'
  BY DEF Kinds, Flags, EndSignal
<1>2. Values'
  BY DEF Kinds, Values, Codes, EndSignal
<1>3. Functions'
  BY MovesKind, SpawnsKind DEF Kinds, Functions, Codes, EndSignal
<1>4. QED
  BY <1>1, <1>2, <1>3 DEF Kinds

LEMMA RetryKinds == ASSUME Kinds, NEW t \in Threads, Retry(t) PROVE Kinds'
<1>1. Flags'
  BY ZenonT(30) DEF Kinds, Flags, Retry
<1>2. Values'
  BY DEF Kinds, Values, Codes, Retry
<1>3. Functions'
  BY MovesKind, SpawnsKind DEF Kinds, Functions, Codes, Retry
<1>4. QED
  BY <1>1, <1>2, <1>3 DEF Kinds

LEMMA RetrySpawnKinds == ASSUME Kinds, NEW t \in Threads, RetrySpawn(t) PROVE Kinds'
<1>1. Flags'
  BY DEF Kinds, Flags, RetrySpawn, RetrySpawnWith
<1>2. Values'
  BY DEF Kinds, Values, Codes, RetrySpawn, RetrySpawnWith
<1>3. Functions'
  BY MovesKind, SpawnsKind DEF Kinds, Functions, Codes, RetrySpawn, RetrySpawnWith
<1>4. QED
  BY <1>1, <1>2, <1>3 DEF Kinds

LEMMA KindsStep == ASSUME Kinds, [Next]_vars PROVE Kinds'
<1>1. ASSUME NEW t \in Threads, Start(t) PROVE Kinds'
  BY <1>1, StartWaitKinds, StartRefusedKinds, StartCheckKinds, StartInitFailsKinds,
     StartConnectKinds DEF Start
<1>2. ASSUME NEW t \in Threads, SignalStopSteps(t) PROVE Kinds'
  BY <1>2, SignalStopKinds, EndCheckKinds, EndNothingKinds, EndClearKinds, EndJoinKinds,
     EndSignalKinds, RetryKinds, RetrySpawnKinds DEF SignalStopSteps
<1>3. CASE UserStart \/ UserStop \/ UserForceStop \/ UserCall
  BY <1>1, <1>2, FixedThreads, <1>3, UserStartKinds, UserStopKinds, UserForceStopKinds, StopBeginKinds,
     StopCheckKinds, StopRetryKinds, StopJoinKinds, PluginStopKinds, StopConnectKinds,
     StopStreamKinds DEF UserCall
<1>4. CASE ConnectThread
  BY <1>2, FixedThreads, <1>4, ConnectInitKinds, ConnectFailsKinds, ConnectSucceedsKinds, BeginCaptureKinds,
     BeginActiveKinds, BeginSignalKinds, ConnectDoneKinds DEF ConnectThread
<1>5. CASE SendThread \/ SendFails
  BY <1>2, FixedThreads, <1>5, SendFailsKinds, SendStopsKinds, SendEndKinds, SendResetKinds,
     SendInactiveKinds DEF SendThread
<1>6. CASE EnderThread
  BY <1>6, EnderUnhookKinds, EnderInactiveKinds, EnderEventKinds, EnderFlagKinds DEF EnderThread
<1>7. ASSUME NEW r \in Retriers, RetryThread(r) PROVE Kinds'
  BY <1>1, <1>7, Strangers, RetryBeginKinds, RetryTimeoutKinds, RetryWokenKinds, RetryAfterKinds,
     RetryDoneKinds DEF RetryThread
<1>8. CASE UNCHANGED vars
  BY <1>8 DEF vars, Kinds, Flags, Values, Functions
<1>9. QED
  BY <1>3, <1>4, <1>5, <1>6, <1>7, <1>8 DEF Next

(* No step changes the scenario.                                           *)
LEMMA ScenarioStays == ASSUME [Next]_vars PROVE scenario' = scenario
<1>1. ASSUME NEW t, Start(t) PROVE scenario' = scenario
  BY <1>1 DEF Start, StartWait, StartRefused, StartFails, StartCheck, Jump, StartInitFails,
     StartConnect
<1>2. ASSUME NEW t, SignalStopSteps(t) PROVE scenario' = scenario
  BY <1>2 DEF SignalStopSteps, SignalStop, EndCheck, Jump, EndNothing, EndClear, EndJoin,
     EndSignal, Retry, RetrySpawn, RetrySpawnWith
<1>3. CASE UserStart \/ UserStop \/ UserForceStop \/ UserCall
  BY <1>1, <1>2, <1>3 DEF UserStart, UserStop, UserForceStop, UserStops, UserCall, StopBegin,
     StopCheck, StopRetry, StopJoin, PluginStop, StopConnect, StopStream, Jump
<1>4. CASE ConnectThread
  BY <1>2, <1>4 DEF ConnectThread, ConnectInit, Jump, ConnectFails, ConnectSucceeds,
     BeginCapture, BeginActive, BeginSignal, ConnectDone
<1>5. CASE SendThread \/ SendFails
  BY <1>2, <1>5 DEF SendThread, SendFails, SendStops, Jump, SendEnd, SendReset, SendInactive
<1>6. CASE EnderThread
  BY <1>6 DEF EnderThread, EnderUnhook, EnderInactive, EnderEvent, EnderFlag
<1>7. ASSUME NEW r \in Retriers, RetryThread(r) PROVE scenario' = scenario
  BY <1>1, <1>7 DEF RetryThread, RetryBegin, RetryTimeout, Jump, RetryWoken, RetryAfter,
     RetryDone
<1>8. QED
  BY <1>3, <1>4, <1>5, <1>6, <1>7 DEF Next, vars

-----------------------------------------------------------------------------
(* In an orderly scenario every step keeps the invariant: first where it   *)
(* takes its thread, then what that does to the parts.                     *)

USE DEF StartPlaces, StopPlaces, UserPlaces, TryPlaces, BeginPlaces, ConnectPlaces, EndPlaces,
  RetryPlaces, LastPlaces, SendPlaces, EnderPlaces, PendingPlaces, Pending, Starting, NonePending,
  UserStopping, At, Exited, StreamQuiet

(* Every step below relies on the whole invariant.                         *)
USE DEF IInv, Places, Captured, Ender, Connecting, Sending, Waiting, Reconnecting, Retrying,
  Calling, Told

LEMMA UserStartPreserves == ASSUME Kinds, IInv, Orderly, UserStart PROVE IInv'
<1>1. pc'["user"] = "start_wait" /\ Stay({"connect", "send", "ender"}) /\ Stay(Retriers)
  BY FixedThreads, Moves DEF UserStart, Fixed, Stay
<1>2. QED
  BY <1>1 DEF RetryMax, Stay, UserStart

LEMMA UserStopPreserves == ASSUME Kinds, IInv, Orderly, UserStop PROVE IInv'
<1>1. pc'["user"] = "stop_begin" /\ Stay({"connect", "send", "ender"}) /\ Stay(Retriers)
  BY FixedThreads, Moves DEF UserStop, UserStops, Fixed, Stay
<1>2. QED
  BY <1>1 DEF Kinds, Values, RetryMax, Stay, UserStop, UserStops, Calm, Orderly

LEMMA UserForceStopPreserves == ASSUME Kinds, IInv, Orderly, UserForceStop PROVE IInv'
<1>1. pc'["user"] = "stop_begin" /\ Stay({"connect", "send", "ender"}) /\ Stay(Retriers)
  BY FixedThreads, Moves DEF UserForceStop, UserStops, Fixed, Stay
<1>2. QED
  BY <1>1 DEF Kinds, Values, RetryMax, Stay, UserForceStop, UserStops, Calm, Orderly

LEMMA StopBeginPreserves == ASSUME Kinds, IInv, Orderly, StopBegin PROVE IInv'
<1>1. CASE stopping_event
  <2>1. pc'["user"] = "stop_check" /\ Stay({"connect", "send", "ender"}) /\ Stay(Retriers)
    BY <1>1, FixedThreads, Moves DEF StopBegin, Fixed, Stay
  <2>2. QED
    BY <1>1, <2>1 DEF Kinds, Values, RetryMax, Stay, StopBegin
<1>2. CASE ~ stopping_event
  BY <1>2 DEF IInv, Calling, StopBegin
<1>3. QED
  BY <1>1, <1>2

LEMMA StopCheckPreserves == ASSUME Kinds, IInv, Orderly, StopCheck PROVE IInv'
<1>1. CASE reconnecting
  <2>1. pc'["user"] = "stop_retry" /\ Stay({"connect", "send", "ender"}) /\ Stay(Retriers)
    BY <1>1, FixedThreads, Moves DEF StopCheck, Fixed, Stay
  <2>2. QED
    BY <1>1, <2>1 DEF Kinds, Values, RetryMax, Stay, StopCheck
<1>2. CASE ~ reconnecting
  <2>1. pc'["user"] = "stop_plugin" /\ Stay({"connect", "send", "ender"}) /\ Stay(Retriers)
    BY <1>2, FixedThreads, Moves DEF StopCheck, Fixed, Stay
  <2>2. QED
    BY <1>2, <2>1 DEF RetryMax, Stay, StopCheck
<1>3. QED
  BY <1>1, <1>2

LEMMA StopRetryPreserves == ASSUME Kinds, IInv, Orderly, StopRetry PROVE IInv'
<1>1. CASE reconnect_thread_active
  <2>1. pc'["user"] = "stop_join" /\ Stay({"connect", "send", "ender"}) /\ Stay(Retriers)
    BY <1>1, FixedThreads, Moves DEF StopRetry, Fixed, Stay
  <2>2. QED
    BY <1>1, <2>1 DEF Kinds, Values, RetryMax, Stay, StopRetry
<1>2. CASE ~ reconnect_thread_active
  <2>1. pc'["user"] = "stop_plugin" /\ Stay({"connect", "send", "ender"}) /\ Stay(Retriers)
    BY <1>2, FixedThreads, Moves DEF StopRetry, Fixed, Stay
  <2>2. QED
    BY <1>2, <2>1 DEF Kinds, Values, RetryMax, Stay, StopRetry
<1>3. QED
  BY <1>1, <1>2

LEMMA StopJoinPreserves == ASSUME Kinds, IInv, Orderly, StopJoin PROVE IInv'
<1>1. pc'["user"] = "stop_plugin" /\ Stay({"connect", "send", "ender"}) /\ Stay(Retriers)
  BY FixedThreads, Moves DEF StopJoin, Jump, Fixed, Stay
<1>2. QED
  BY <1>1 DEF Kinds, Values, RetryMax, Stay, StopJoin, Jump

LEMMA PluginStopPreserves == ASSUME Kinds, IInv, Orderly, PluginStop PROVE IInv'
<1>1. CASE connecting /\ ~ s_stop
  <2>1. pc'["user"] = "stop_connect" /\ Stay({"connect", "send", "ender"}) /\ Stay(Retriers)
    BY <1>1, FixedThreads, Moves DEF PluginStop, Jump, Fixed, Stay
  <2>2. QED
    BY <1>1, <2>1 DEF Kinds, Values, RetryMax, Stay, PluginStop, Jump
<1>2. CASE ~ connecting /\ ~ s_stop
  <2>1. pc'["user"] = "stop_stream" /\ Stay({"connect", "send", "ender"}) /\ Stay(Retriers)
    BY <1>2, FixedThreads, Moves DEF PluginStop, Jump, Fixed, Stay
  <2>2. QED
    BY <1>2, <2>1 DEF Kinds, Values, RetryMax, Stay, PluginStop, Jump
<1>3. CASE s_stop
  BY <1>3 DEF IInv, Calling, PluginStop, Jump
<1>4. QED
  BY <1>1, <1>2, <1>3

LEMMA StopConnectPreserves == ASSUME Kinds, IInv, Orderly, StopConnect PROVE IInv'
<1>1. pc'["user"] = "stop_stream" /\ Stay({"connect", "send", "ender"}) /\ Stay(Retriers)
  BY FixedThreads, Moves DEF StopConnect, Jump, Fixed, Stay
<1>2. QED
  BY <1>1 DEF Kinds, Values, RetryMax, Stay, StopConnect, Jump

LEMMA StopStreamPreserves == ASSUME Kinds, IInv, Orderly, StopStream PROVE IInv'
<1>1. CASE s_active
  <2>1. pc'["user"] = "idle" /\ Stay({"connect", "send", "ender"}) /\ Stay(Retriers)
    BY <1>1, FixedThreads, Moves DEF StopStream, Fixed, Stay
  <2>2. QED
    BY <1>1, <2>1 DEF Kinds, Values, RetryMax, Stay, StopStream
<1>2. CASE ~ s_active
  <2>1. pc'["user"] = "signal_stop" /\ Stay({"connect", "send", "ender"}) /\ Stay(Retriers)
    BY <1>2, FixedThreads, Moves DEF StopStream, Fixed, Stay
  <2>2. code'["user"] = "success"
    BY <1>2, <2>1, FixedThreads DEF Kinds, Functions, RetryMax, StopStream
  <2>3. QED
    BY <1>2, <2>1, <2>2 DEF Kinds, Flags, Values, RetryMax, Stay, StopStream
<1>3. QED
  BY <1>1, <1>2

LEMMA UserStartWaitPreserves ==
  ASSUME Kinds, IInv, Orderly, StartWait("user")
  PROVE IInv'
<1>1. pc'["user"] = "start_check" /\ Stay({"connect", "send", "ender"}) /\ Stay(Retriers)
  BY FixedThreads, Moves DEF StartWait, Fixed, Stay
<1>2. QED
  BY <1>1 DEF Kinds, Values, RetryMax, Stay, StartWait

LEMMA UserStartCheckPreserves ==
  ASSUME Kinds, IInv, Orderly, StartCheck("user")
  PROVE IInv'
<1>1. pc'["user"] = "start_init" /\ Stay({"connect", "send", "ender"}) /\ Stay(Retriers)
  BY FixedThreads, Moves DEF StartCheck, Jump, Fixed, Stay
<1>2. QED
  BY <1>1 DEF Kinds, Values, RetryMax, Stay, StartCheck, Jump

LEMMA UserStartConnectPreserves ==
  ASSUME Kinds, IInv, Orderly, StartConnect("user")
  PROVE IInv'
<1>1. Spawn("user", "idle", "connect", "c_init")
  BY DEF StartConnect
<1>2. /\ pc'["user"] = "idle" /\ pc'["connect"] = "c_init"
     /\ \A u \in Threads : u # "user" /\ u # "connect" => pc'[u] = pc[u]
  BY <1>1, SpawnsFixed DEF Fixed
<1>3. Stay({"send", "ender"}) /\ Stay(Retriers)
  BY <1>2, Strangers, FixedThreads DEF Stay
<1>4. QED
  BY <1>2, <1>3 DEF RetryMax, Stay, StartConnect

LEMMA UserSignalStopPreserves ==
  ASSUME Kinds, IInv, Orderly, SignalStop("user")
  PROVE IInv'
<1>1. pc'["user"] = "end_check" /\ Stay({"connect", "send", "ender"}) /\ Stay(Retriers)
  BY FixedThreads, Moves DEF SignalStop, Fixed, Stay
<1>2. sig'["user"]
  BY <1>1, FixedThreads DEF Kinds, Functions, RetryMax, SignalStop, CanReconnect
<1>3. QED
  BY <1>1, <1>2 DEF Kinds, Flags, Values, RetryMax, Stay, SignalStop, CanReconnect

LEMMA UserEndNothingPreserves ==
  ASSUME Kinds, IInv, Orderly, EndNothing("user")
  PROVE IInv'
<1>1. CASE sig["user"]
  <2>1. pc'["user"] = "idle" /\ Stay({"connect", "send", "ender"}) /\ Stay(Retriers)
    BY <1>1, Returns, FixedThreads, Moves DEF EndNothing, Fixed, Stay
  <2>2. QED
    BY <1>1, <2>1 DEF Kinds, Values, RetryMax, Stay, EndNothing
<1>2. CASE ~ sig["user"]
  BY <1>2 DEF IInv, Calling, EndNothing
<1>3. QED
  BY <1>1, <1>2

LEMMA ConnectInitPreserves == ASSUME Kinds, IInv, Orderly, ConnectInit PROVE IInv'
<1>1. pc'["connect"] = "c_try" /\ Stay({"user", "send", "ender"}) /\ Stay(Retriers)
  BY FixedThreads, Moves DEF ConnectInit, Jump, Fixed, Stay
<1>2. QED
  BY <1>1 DEF RetryMax, Stay, ConnectInit, Jump

LEMMA ConnectFailsPreserves == ASSUME Kinds, IInv, Orderly, ConnectFails PROVE IInv'
<1>1. pc'["connect"] = "signal_stop" /\ Stay({"user", "send", "ender"}) /\ Stay(Retriers)
  BY FixedThreads, Moves DEF ConnectFails, Fixed, Stay
<1>2. code'["connect"] = "error"
  BY <1>1, FixedThreads DEF Kinds, Functions, RetryMax, ConnectFails
<1>3. QED
  BY <1>1, <1>2 DEF Kinds, Flags, RetryMax, Stay, ConnectFails

LEMMA ConnectSucceedsPreserves ==
  ASSUME Kinds, IInv, Orderly, ConnectSucceeds
  PROVE IInv'
<1>1. Spawn("connect", "c_begin", "send", "s_loop")
  BY DEF ConnectSucceeds
<1>2. /\ pc'["connect"] = "c_begin" /\ pc'["send"] = "s_loop"
     /\ \A u \in Threads : u # "connect" /\ u # "send" => pc'[u] = pc[u]
  BY <1>1, SpawnsFixed DEF Fixed
<1>3. Stay({"user", "ender"}) /\ Stay(Retriers)
  BY <1>2, Strangers, FixedThreads DEF Stay
<1>4. QED
  BY <1>2, <1>3 DEF RetryMax, Stay, ConnectSucceeds

LEMMA BeginCapturePreserves == ASSUME Kinds, IInv, Orderly, BeginCapture PROVE IInv'
<1>1. CASE ~ active
  <2>1. pc'["connect"] = "c_hooked" /\ Stay({"user", "send", "ender"}) /\ Stay(Retriers)
    BY <1>1, FixedThreads, Moves DEF BeginCapture, Fixed, Stay
  <2>2. QED
    BY <1>1, <2>1 DEF RetryMax, Stay, BeginCapture
<1>2. CASE active
  BY <1>2 DEF IInv, Connecting, BeginCapture
<1>3. QED
  BY <1>1, <1>2

LEMMA BeginActivePreserves == ASSUME Kinds, IInv, Orderly, BeginActive PROVE IInv'
<1>1. pc'["connect"] = "c_signal" /\ Stay({"user", "send", "ender"}) /\ Stay(Retriers)
  BY FixedThreads, Moves DEF BeginActive, Fixed, Stay
<1>2. QED
  BY <1>1 DEF RetryMax, Stay, BeginActive

LEMMA BeginSignalPreserves == ASSUME Kinds, IInv, Orderly, BeginSignal PROVE IInv'
<1>1. CASE reconnecting
  <2>1. pc'["connect"] = "c_done" /\ Stay({"user", "send", "ender"}) /\ Stay(Retriers)
    BY <1>1, FixedThreads, Moves DEF BeginSignal, Fixed, Stay
  <2>2. QED
    BY <1>1, <2>1 DEF RetryMax, Stay, BeginSignal
<1>2. CASE ~ reconnecting
  <2>1. pc'["connect"] = "c_done" /\ Stay({"user", "send", "ender"}) /\ Stay(Retriers)
    BY <1>2, FixedThreads, Moves DEF BeginSignal, Fixed, Stay
  <2>2. QED
    BY <1>2, <2>1 DEF RetryMax, Stay, BeginSignal
<1>3. QED
  BY <1>1, <1>2

LEMMA ConnectSignalStopPreserves ==
  ASSUME Kinds, IInv, Orderly, SignalStop("connect")
  PROVE IInv'
<1>1. pc'["connect"] = "end_check" /\ Stay({"user", "send", "ender"}) /\ Stay(Retriers)
  BY FixedThreads, Moves DEF SignalStop, Fixed, Stay
<1>2. sig'["connect"] = ~ reconnecting
  BY <1>1, FixedThreads DEF Kinds, Functions, RetryMax, SignalStop, CanReconnect
<1>3. QED
  BY <1>1, <1>2 DEF Kinds, Flags, RetryMax, Stay, SignalStop, CanReconnect

LEMMA ConnectEndNothingPreserves ==
  ASSUME Kinds, IInv, Orderly, EndNothing("connect")
  PROVE IInv'
<1>1. CASE sig["connect"]
  <2>1. pc'["connect"] = "c_done" /\ Stay({"user", "send", "ender"}) /\ Stay(Retriers)
    BY <1>1, Returns, FixedThreads, Moves DEF EndNothing, Fixed, Stay
  <2>2. QED
    BY <1>1, <2>1 DEF RetryMax, Stay, EndNothing
<1>2. CASE ~ sig["connect"]
  <2>1. pc'["connect"] = "retry" /\ Stay({"user", "send", "ender"}) /\ Stay(Retriers)
    BY <1>2, Returns, FixedThreads, Moves DEF EndNothing, Fixed, Stay
  <2>2. QED
    BY <1>2, <2>1 DEF RetryMax, Stay, EndNothing
<1>3. QED
  BY <1>1, <1>2

LEMMA ConnectRetryPreserves == ASSUME Kinds, IInv, Orderly, Retry("connect") PROVE IInv'
<1>1. CASE retries >= RetryMax
  <2>1. pc'["connect"] = "end_check" /\ Stay({"user", "send", "ender"}) /\ Stay(Retriers)
    BY <1>1, Maximum, FixedThreads, Moves DEF IInv, Connecting, Retry, Fixed, Stay
  <2>2. sig'["connect"]
    BY <1>1, <2>1, FixedThreads, Maximum DEF Kinds, Functions, RetryMax, Retry
  <2>3. QED
    BY <1>1, <2>1, <2>2, Maximum DEF Kinds, Flags, Values, RetryMax, Stay, Retry
<1>2. CASE ~ (retries >= RetryMax)
  <2>1. pc'["connect"] = "retry_spawn" /\ Stay({"user", "send", "ender"}) /\ Stay(Retriers)
    BY <1>2, Maximum, FixedThreads, Moves DEF IInv, Connecting, Retry, Fixed, Stay
  <2>2. Retrying'
    BY <1>2, <2>1, Maximum DEF Kinds, Values, RetryMax, Stay, Retry
  <2>3. /\ Places' /\ Captured' /\ Ender' /\ Connecting' /\ Sending'
       /\ Waiting' /\ Reconnecting' /\ Calling' /\ Told'
    BY <1>2, <2>1, Maximum DEF Kinds, Values, RetryMax, Stay, Retry
  <2>4. QED
    BY <2>2, <2>3
<1>3. QED
  BY <1>1, <1>2

LEMMA ConnectRetrySpawnPreserves ==
  ASSUME Kinds, IInv, Orderly, RetrySpawn("connect")
  PROVE IInv'
<1>1. PICK r \in Retriers :
        Exited(r) /\ reconnect_thread' = r /\ Spawn("connect", "c_done", r, "r_begin")
  BY Returns DEF RetrySpawn, RetrySpawnWith
<1>2. /\ pc'["connect"] = "c_done" /\ pc'[r] = "r_begin"
     /\ \A u \in Threads : u # "connect" /\ u # r => pc'[u] = pc[u]
  BY <1>1, SpawnsRetrier DEF Fixed
<1>3. Stay({"user", "send", "ender"}) /\ Stay(Retriers \ {r})
  BY <1>2, Strangers, FixedThreads DEF Stay
<1>4. retries + 1 <= RetryMax /\ retries' = retries + 1 /\ RetryMax' = RetryMax
  BY Maximum DEF Kinds, Values, RetryMax, RetrySpawn, RetrySpawnWith
<1>5. ~ reconnect_stop_event' /\ client = "on" /\ At("user", "idle") /\ NonePending
  BY DEF RetrySpawn, RetrySpawnWith
<1>6. Retrying'
  BY <1>2, <1>3, <1>4, <1>5 DEF Stay, RetrySpawn, RetrySpawnWith
<1>7. Places' /\ Captured' /\ Ender' /\ Connecting' /\ Sending'
  BY <1>1, <1>2, <1>3, Strangers DEF RetryMax, Stay, RetrySpawn, RetrySpawnWith
<1>8. Waiting' /\ Reconnecting' /\ Calling' /\ Told'
  BY <1>1, <1>2, <1>3, <1>5, Strangers DEF Stay, RetrySpawn, RetrySpawnWith
<1>9. QED
  BY <1>6, <1>7, <1>8

LEMMA ConnectDonePreserves == ASSUME Kinds, IInv, Orderly, ConnectDone PROVE IInv'
<1>1. pc'["connect"] = "none" /\ Stay({"user", "send", "ender"}) /\ Stay(Retriers)
  BY FixedThreads, Moves DEF ConnectDone, Fixed, Stay
<1>2. QED
  BY <1>1 DEF Kinds, Values, RetryMax, Stay, ConnectDone

LEMMA SendFailsPreserves == ASSUME Kinds, IInv, Orderly, SendFails PROVE IInv'
<1>1. pc'["send"] = "s_end" /\ Stay({"user", "connect", "ender"}) /\ Stay(Retriers)
  BY FixedThreads, Moves DEF SendFails, Jump, Fixed, Stay
<1>2. QED
  BY <1>1 DEF Kinds, Values, RetryMax, Stay, SendFails, Orderly, Jump

LEMMA SendStopsPreserves == ASSUME Kinds, IInv, Orderly, SendStops PROVE IInv'
<1>1. pc'["send"] = "s_end" /\ Stay({"user", "connect", "ender"}) /\ Stay(Retriers)
  BY FixedThreads, Moves DEF SendStops, Jump, Fixed, Stay
<1>2. QED
  BY <1>1 DEF Kinds, Values, RetryMax, Stay, SendStops, Jump

LEMMA SendEndPreserves == ASSUME Kinds, IInv, Orderly, SendEnd PROVE IInv'
<1>1. CASE s_stop
  <2>1. pc'["send"] = "end_check" /\ Stay({"user", "connect", "ender"}) /\ Stay(Retriers)
    BY <1>1, FixedThreads, Moves DEF SendEnd, Fixed, Stay
  <2>2. sig'["send"]
    BY <1>1, <2>1, FixedThreads DEF Kinds, Functions, RetryMax, SendEnd
  <2>3. QED
    BY <1>1, <2>1, <2>2 DEF Kinds, Flags, Values, RetryMax, Stay, SendEnd
<1>2. CASE ~ s_stop
  <2>1. pc'["send"] = "signal_stop" /\ Stay({"user", "connect", "ender"}) /\ Stay(Retriers)
    BY <1>2, FixedThreads, Moves DEF SendEnd, Fixed, Stay
  <2>2. code'["send"] = "disconnected"
    BY <1>2, <2>1, FixedThreads DEF Kinds, Functions, RetryMax, SendEnd
  <2>3. QED
    BY <1>2, <2>1, <2>2 DEF Kinds, Flags, Values, RetryMax, Stay, SendEnd
<1>3. QED
  BY <1>1, <1>2

LEMMA SendSignalStopPreserves ==
  ASSUME Kinds, IInv, Orderly, SignalStop("send")
  PROVE IInv'
<1>1. pc'["send"] = "end_check" /\ Stay({"user", "connect", "ender"}) /\ Stay(Retriers)
  BY FixedThreads, Moves DEF SignalStop, Fixed, Stay
<1>2. sig'["send"] = (RetryMax = 0)
  BY <1>1, FixedThreads DEF Kinds, Functions, RetryMax, SignalStop, CanReconnect
<1>3. QED
  BY <1>1, <1>2 DEF Kinds, Flags, Values, RetryMax, Stay, SignalStop, CanReconnect

LEMMA SendEndCheckPreserves == ASSUME Kinds, IInv, Orderly, EndCheck("send") PROVE IInv'
<1>1. pc'["send"] = "end_clear" /\ Stay({"user", "connect", "ender"}) /\ Stay(Retriers)
  BY FixedThreads, Moves DEF EndCheck, Jump, Fixed, Stay
<1>2. QED
  BY <1>1 DEF Kinds, Values, RetryMax, Stay, EndCheck, Jump

LEMMA SendEndClearPreserves == ASSUME Kinds, IInv, Orderly, EndClear("send") PROVE IInv'
<1>1. pc'["send"] = "end_join" /\ Stay({"user", "connect", "ender"}) /\ Stay(Retriers)
  BY FixedThreads, Moves DEF EndClear, Fixed, Stay
<1>2. QED
  BY <1>1 DEF Kinds, Values, RetryMax, Stay, EndClear

LEMMA SendEndJoinPreserves == ASSUME Kinds, IInv, Orderly, EndJoin("send") PROVE IInv'
<1>1. CASE sig["send"]
  <2>1. Spawn("send", "end_signal", "ender", "e_unhook")
    BY <1>1 DEF EndJoin
  <2>2. /\ pc'["send"] = "end_signal" /\ pc'["ender"] = "e_unhook"
       /\ \A u \in Threads : u # "send" /\ u # "ender" => pc'[u] = pc[u]
    BY <2>1, SpawnsFixed DEF Fixed
  <2>3. Stay({"user", "connect"}) /\ Stay(Retriers)
    BY <2>2, Strangers, FixedThreads DEF Stay
  <2>4. QED
    BY <1>1, <2>2, <2>3 DEF Kinds, Values, RetryMax, Stay, EndJoin
<1>2. CASE ~ sig["send"]
  <2>1. Spawn("send", "retry", "ender", "e_unhook")
    BY <1>2 DEF EndJoin
  <2>2. /\ pc'["send"] = "retry" /\ pc'["ender"] = "e_unhook"
       /\ \A u \in Threads : u # "send" /\ u # "ender" => pc'[u] = pc[u]
    BY <2>1, SpawnsFixed DEF Fixed
  <2>3. Stay({"user", "connect"}) /\ Stay(Retriers)
    BY <2>2, Strangers, FixedThreads DEF Stay
  <2>4. QED
    BY <1>2, <2>2, <2>3 DEF Kinds, Values, RetryMax, Stay, EndJoin
<1>3. QED
  BY <1>1, <1>2

LEMMA SendEndSignalPreserves ==
  ASSUME Kinds, IInv, Orderly, EndSignal("send")
  PROVE IInv'
<1>1. pc'["send"] = "s_reset" /\ Stay({"user", "connect", "ender"}) /\ Stay(Retriers)
  BY Returns, FixedThreads, Moves DEF EndSignal, Fixed, Stay
<1>2. QED
  BY <1>1 DEF Kinds, Values, RetryMax, Stay, EndSignal

LEMMA SendRetryPreserves == ASSUME Kinds, IInv, Orderly, Retry("send") PROVE IInv'
<1>1. pc'["send"] = "retry_spawn" /\ Stay({"user", "connect", "ender"}) /\ Stay(Retriers)
  BY Maximum, FixedThreads, Moves DEF IInv, Sending, Retry, Fixed, Stay
<1>2. QED
  BY <1>1, Maximum DEF Kinds, Flags, Values, RetryMax, Stay, Retry

LEMMA SendRetrySpawnPreserves ==
  ASSUME Kinds, IInv, Orderly, RetrySpawn("send")
  PROVE IInv'
<1>1. PICK r \in Retriers :
        Exited(r) /\ reconnect_thread' = r /\ Spawn("send", "s_reset", r, "r_begin")
  BY Returns DEF RetrySpawn, RetrySpawnWith
<1>2. /\ pc'["send"] = "s_reset" /\ pc'[r] = "r_begin"
     /\ \A u \in Threads : u # "send" /\ u # r => pc'[u] = pc[u]
  BY <1>1, SpawnsRetrier DEF Fixed
<1>3. Stay({"user", "connect", "ender"}) /\ Stay(Retriers \ {r})
  BY <1>2, Strangers, FixedThreads DEF Stay
<1>4. retries + 1 <= RetryMax /\ retries' = retries + 1 /\ RetryMax' = RetryMax
  BY Maximum DEF Kinds, Values, RetryMax, RetrySpawn, RetrySpawnWith
<1>5. ~ reconnect_stop_event' /\ client = "on" /\ At("user", "idle") /\ NonePending
  BY DEF RetrySpawn, RetrySpawnWith
<1>6. Retrying'
  BY <1>2, <1>3, <1>4, <1>5 DEF Stay, RetrySpawn, RetrySpawnWith
<1>7. Places' /\ Captured' /\ Ender' /\ Connecting' /\ Sending'
  BY <1>1, <1>2, <1>3, Strangers DEF RetryMax, Stay, RetrySpawn, RetrySpawnWith
<1>8. Waiting' /\ Reconnecting' /\ Calling' /\ Told'
  BY <1>1, <1>2, <1>3, <1>5, Strangers DEF Stay, RetrySpawn, RetrySpawnWith
<1>9. QED
  BY <1>6, <1>7, <1>8

LEMMA SendResetPreserves == ASSUME Kinds, IInv, Orderly, SendReset PROVE IInv'
<1>1. pc'["send"] = "s_inactive" /\ Stay({"user", "connect", "ender"}) /\ Stay(Retriers)
  BY FixedThreads, Moves DEF SendReset, Fixed, Stay
<1>2. QED
  BY <1>1 DEF Kinds, Values, RetryMax, Stay, SendReset

LEMMA SendInactivePreserves == ASSUME Kinds, IInv, Orderly, SendInactive PROVE IInv'
<1>1. pc'["send"] = "none" /\ Stay({"user", "connect", "ender"}) /\ Stay(Retriers)
  BY FixedThreads, Moves DEF SendInactive, Fixed, Stay
<1>2. QED
  BY <1>1 DEF Kinds, Values, RetryMax, Stay, SendInactive

LEMMA EnderUnhookPreserves == ASSUME Kinds, IInv, Orderly, EnderUnhook PROVE IInv'
<1>1. pc'["ender"] = "e_inactive" /\ Stay({"user", "connect", "send"}) /\ Stay(Retriers)
  BY FixedThreads, Moves DEF EnderUnhook, Fixed, Stay
<1>2. QED
  BY <1>1 DEF Kinds, Values, RetryMax, Stay, EnderUnhook

LEMMA EnderInactivePreserves == ASSUME Kinds, IInv, Orderly, EnderInactive PROVE IInv'
<1>1. pc'["ender"] = "e_event" /\ Stay({"user", "connect", "send"}) /\ Stay(Retriers)
  BY FixedThreads, Moves DEF EnderInactive, Fixed, Stay
<1>2. QED
  BY <1>1 DEF Kinds, Values, RetryMax, Stay, EnderInactive

LEMMA EnderEventPreserves == ASSUME Kinds, IInv, Orderly, EnderEvent PROVE IInv'
<1>1. pc'["ender"] = "e_flag" /\ Stay({"user", "connect", "send"}) /\ Stay(Retriers)
  BY FixedThreads, Moves DEF EnderEvent, Fixed, Stay
<1>2. QED
  BY <1>1 DEF Kinds, Values, RetryMax, Stay, EnderEvent

LEMMA EnderFlagPreserves == ASSUME Kinds, IInv, Orderly, EnderFlag PROVE IInv'
<1>1. pc'["ender"] = "none" /\ Stay({"user", "connect", "send"}) /\ Stay(Retriers)
  BY FixedThreads, Moves DEF EnderFlag, Fixed, Stay
<1>2. QED
  BY <1>1 DEF Kinds, Values, RetryMax, Stay, EnderFlag

LEMMA RetryBeginPreserves ==
  ASSUME Kinds, IInv, Orderly, NEW r \in Retriers, RetryBegin(r)
  PROVE IInv'
<1>1. pc'[r] = "r_wait" /\ Stay({"user", "connect", "send", "ender"}) /\ Stay(Retriers \ {r})
  BY Strangers, FixedThreads, Moves DEF RetryBegin, Fixed, Stay
<1>2. Places' /\ Captured' /\ Ender' /\ Connecting' /\ Sending'
  BY <1>1, Strangers DEF RetryMax, Stay, RetryBegin
<1>3. Waiting'
  BY <1>1, Strangers DEF Kinds, Values, RetryMax, Stay, RetryBegin
<1>4. Reconnecting'
  BY <1>1, Strangers DEF Kinds, Values, RetryMax, Stay, RetryBegin
<1>5. Retrying' /\ Calling' /\ Told'
  BY <1>1, Strangers DEF RetryMax, Stay, RetryBegin
<1>6. QED
  BY <1>2, <1>3, <1>4, <1>5

LEMMA RetryTimeoutPreserves ==
  ASSUME Kinds, IInv, Orderly, NEW r \in Retriers, RetryTimeout(r)
  PROVE IInv'
<1>1. pc'[r] = "start_wait" /\ Stay({"user", "connect", "send", "ender"}) /\ Stay(Retriers \ {r})
  BY Strangers, FixedThreads, Moves DEF RetryTimeout, Jump, Fixed, Stay
<1>2. Places' /\ Captured' /\ Ender' /\ Connecting' /\ Sending'
  BY <1>1, Strangers DEF RetryMax, Stay, RetryTimeout, Orderly, Jump
<1>3. Waiting'
  BY <1>1, Strangers DEF Kinds, Values, RetryMax, Stay, RetryTimeout, Orderly, Jump
<1>4. Reconnecting'
  BY <1>1, Strangers DEF Kinds, Values, RetryMax, Stay, RetryTimeout, Orderly, Jump
<1>5. Retrying' /\ Calling' /\ Told'
  BY <1>1, Strangers DEF RetryMax, Stay, RetryTimeout, Orderly, Jump
<1>6. QED
  BY <1>2, <1>3, <1>4, <1>5

LEMMA RetryWokenPreserves ==
  ASSUME Kinds, IInv, Orderly, NEW r \in Retriers, RetryWoken(r)
  PROVE IInv'
<1>1. pc'[r] = "r_after" /\ Stay({"user", "connect", "send", "ender"}) /\ Stay(Retriers \ {r})
  BY Strangers, FixedThreads, Moves DEF RetryWoken, Jump, Fixed, Stay
<1>2. Places' /\ Captured' /\ Ender' /\ Connecting' /\ Sending'
  BY <1>1, Strangers DEF RetryMax, Stay, RetryWoken, Jump
<1>3. Waiting'
  BY <1>1, Strangers DEF Kinds, Values, RetryMax, Stay, RetryWoken, Jump
<1>4. Reconnecting'
  BY <1>1, Strangers DEF Kinds, Values, RetryMax, Stay, RetryWoken, Jump
<1>5. Retrying' /\ Calling' /\ Told'
  BY <1>1, Strangers DEF RetryMax, Stay, RetryWoken, Jump
<1>6. QED
  BY <1>2, <1>3, <1>4, <1>5

LEMMA RetryAfterPreserves ==
  ASSUME Kinds, IInv, Orderly, NEW r \in Retriers, RetryAfter(r)
  PROVE IInv'
<1>1. pc'[r] = "r_done" /\ Stay({"user", "connect", "send", "ender"}) /\ Stay(Retriers \ {r})
  BY Strangers, FixedThreads, Moves DEF RetryAfter, Fixed, Stay
<1>2. Places' /\ Captured' /\ Ender'
  BY <1>1, Strangers DEF RetryMax, Stay, RetryAfter
<1>3. Connecting'
  BY <1>1, Strangers DEF RetryMax, Stay, RetryAfter
<1>4. Sending'
  BY <1>1, Strangers DEF RetryMax, Stay, RetryAfter
<1>5. Waiting'
  BY <1>1, Strangers, ZenonT(30) DEF Kinds, Values, RetryMax, Stay, RetryAfter
<1>6. Reconnecting'
  BY <1>1, Strangers DEF Kinds, Values, RetryMax, Stay, RetryAfter
<1>7. Retrying' /\ Calling' /\ Told'
  BY <1>1, Strangers, ZenonT(30) DEF RetryMax, Stay, RetryAfter
<1>8. QED
  BY <1>2, <1>3, <1>4, <1>5, <1>6, <1>7

LEMMA RetryDonePreserves ==
  ASSUME Kinds, IInv, Orderly, NEW r \in Retriers, RetryDone(r)
  PROVE IInv'
<1>1. pc'[r] = "none" /\ Stay({"user", "connect", "send", "ender"}) /\ Stay(Retriers \ {r})
  BY Strangers, FixedThreads, Moves DEF RetryDone, Fixed, Stay
<1>2. Places' /\ Captured' /\ Ender' /\ Connecting' /\ Sending'
  BY <1>1, Strangers DEF RetryMax, Stay, RetryDone
<1>3. Waiting'
  BY <1>1, Strangers DEF Kinds, Values, RetryMax, Stay, RetryDone
<1>4. Reconnecting'
  BY <1>1, Strangers DEF Kinds, Values, RetryMax, Stay, RetryDone
<1>5. Retrying' /\ Calling' /\ Told'
  BY <1>1, Strangers DEF RetryMax, Stay, RetryDone
<1>6. QED
  BY <1>2, <1>3, <1>4, <1>5

LEMMA RetryStartWaitPreserves ==
  ASSUME Kinds, IInv, Orderly, NEW r \in Retriers, StartWait(r)
  PROVE IInv'
<1>1. pc'[r] = "start_check" /\ Stay({"user", "connect", "send", "ender"}) /\ Stay(Retriers \ {r})
  BY Strangers, FixedThreads, Moves DEF StartWait, Fixed, Stay
<1>2. Places' /\ Captured' /\ Ender' /\ Connecting' /\ Sending'
  BY <1>1, Strangers DEF RetryMax, Stay, StartWait
<1>3. Waiting'
  BY <1>1, Strangers DEF Kinds, Values, RetryMax, Stay, StartWait
<1>4. Reconnecting'
  BY <1>1, Strangers DEF Kinds, Values, RetryMax, Stay, StartWait
<1>5. Retrying' /\ Calling' /\ Told'
  BY <1>1, Strangers DEF RetryMax, Stay, StartWait
<1>6. QED
  BY <1>2, <1>3, <1>4, <1>5

LEMMA RetryStartCheckPreserves ==
  ASSUME Kinds, IInv, Orderly, NEW r \in Retriers, StartCheck(r)
  PROVE IInv'
<1>1. pc'[r] = "start_init" /\ Stay({"user", "connect", "send", "ender"}) /\ Stay(Retriers \ {r})
  BY Strangers, FixedThreads, Moves DEF StartCheck, Jump, Fixed, Stay
<1>2. Places' /\ Captured' /\ Ender' /\ Connecting' /\ Sending'
  BY <1>1, Strangers DEF RetryMax, Stay, StartCheck, Jump
<1>3. Waiting'
  BY <1>1, Strangers DEF Kinds, Values, RetryMax, Stay, StartCheck, Jump
<1>4. Reconnecting'
  BY <1>1, Strangers DEF Kinds, Values, RetryMax, Stay, StartCheck, Jump
<1>5. Retrying' /\ Calling' /\ Told'
  BY <1>1, Strangers DEF RetryMax, Stay, StartCheck, Jump
<1>6. QED
  BY <1>2, <1>3, <1>4, <1>5

LEMMA RetryStartConnectPreserves ==
  ASSUME Kinds, IInv, Orderly, NEW r \in Retriers, StartConnect(r)
  PROVE IInv'
<1>1. Spawn(r, "r_after", "connect", "c_init")
  BY Strangers DEF StartConnect
<1>2. /\ pc'[r] = "r_after" /\ pc'["connect"] = "c_init"
     /\ \A u \in Threads : u # r /\ u # "connect" => pc'[u] = pc[u]
  BY <1>1, SpawnsRetrier DEF Fixed
<1>3. Stay({"user", "send", "ender"}) /\ Stay(Retriers \ {r})
  BY <1>2, Strangers, FixedThreads DEF Stay
<1>4. Places' /\ Captured' /\ Ender' /\ Connecting' /\ Sending'
  BY <1>2, <1>3, Strangers DEF RetryMax, Stay, StartConnect
<1>5. Waiting'
  BY <1>2, <1>3, Strangers DEF Kinds, Values, RetryMax, Stay, StartConnect
<1>6. Reconnecting'
  BY <1>2, <1>3, Strangers DEF Kinds, Values, RetryMax, Stay, StartConnect
<1>7. Retrying' /\ Calling' /\ Told'
  BY <1>2, <1>3, Strangers DEF RetryMax, Stay, StartConnect
<1>8. QED
  BY <1>4, <1>5, <1>6, <1>7

(* What an orderly scenario never does: no start meets an active output or *)
(* fails, a stop that was not sent to the stream finds nothing to end, and *)
(* only the send thread ends a capture.                                    *)
LEMMA NoStartFails ==
  ASSUME Kinds, IInv, Orderly, NEW t \in {"user"} \union Retriers
  PROVE ~ StartRefused(t) /\ ~ StartInitFails(t)
<1>1. ~ StartInitFails(t)
  BY DEF StartInitFails, Orderly
<1>2. CASE t = "user"
  BY <1>1, <1>2 DEF IInv, Calling, StartRefused
<1>3. CASE t \in Retriers
  <2>1. Starting(t) => ~ active
    BY <1>3 DEF IInv, Waiting, Captured
  <2>2. QED
    BY <1>1, <2>1 DEF StartRefused
<1>4. QED
  BY <1>2, <1>3

LEMMA NothingToEnd ==
  ASSUME Kinds, IInv
  PROVE /\ ~ EndCheck("user") /\ ~ EndClear("user") /\ ~ EndJoin("user") /\ ~ EndSignal("user")
        /\ ~ Retry("user") /\ ~ RetrySpawn("user")
        /\ ~ EndCheck("connect") /\ ~ EndClear("connect") /\ ~ EndJoin("connect")
        /\ ~ EndSignal("connect") /\ ~ EndNothing("send")
<1>1. /\ ~ EndClear("user") /\ ~ EndJoin("user") /\ ~ EndSignal("user")
      /\ ~ Retry("user") /\ ~ RetrySpawn("user")
  BY DEF IInv, Places, EndClear, EndJoin, EndSignal, Retry, RetrySpawn, RetrySpawnWith
<1>2. ~ EndClear("connect") /\ ~ EndJoin("connect") /\ ~ EndSignal("connect")
  BY DEF IInv, Places, EndClear, EndJoin, EndSignal
<1>3. ~ EndCheck("user")
  BY DEF IInv, Calling, Captured, EndCheck, Jump
<1>4. ~ EndCheck("connect")
  BY DEF IInv, Connecting, Captured, EndCheck, Jump
<1>5. ~ EndNothing("send")
  BY DEF IInv, Captured, EndNothing
<1>6. QED
  BY <1>1, <1>2, <1>3, <1>4, <1>5

LEMMA UserPreserves ==
  ASSUME Kinds, IInv, Orderly, UserStart \/ UserStop \/ UserForceStop \/ UserCall PROVE IInv'
<1>1. CASE Start("user")
  BY <1>1, NoStartFails, UserStartWaitPreserves, UserStartCheckPreserves,
     UserStartConnectPreserves DEF Start
<1>2. CASE SignalStopSteps("user")
  BY <1>2, NothingToEnd, UserSignalStopPreserves, UserEndNothingPreserves DEF SignalStopSteps
<1>3. QED
  BY <1>1, <1>2, UserStartPreserves, UserStopPreserves, UserForceStopPreserves,
     StopBeginPreserves, StopCheckPreserves, StopRetryPreserves, StopJoinPreserves,
     PluginStopPreserves, StopConnectPreserves, StopStreamPreserves DEF UserCall

LEMMA ConnectPreserves == ASSUME Kinds, IInv, Orderly, ConnectThread PROVE IInv'
<1>1. CASE SignalStopSteps("connect")
  BY <1>1, NothingToEnd, ConnectSignalStopPreserves, ConnectEndNothingPreserves,
     ConnectRetryPreserves, ConnectRetrySpawnPreserves DEF SignalStopSteps
<1>2. QED
  BY <1>1, ConnectInitPreserves, ConnectFailsPreserves, ConnectSucceedsPreserves,
     BeginCapturePreserves, BeginActivePreserves, BeginSignalPreserves, ConnectDonePreserves
  DEF ConnectThread

LEMMA SendPreserves == ASSUME Kinds, IInv, Orderly, SendThread \/ SendFails PROVE IInv'
<1>1. CASE SignalStopSteps("send")
  BY <1>1, NothingToEnd, SendSignalStopPreserves, SendEndCheckPreserves, SendEndClearPreserves,
     SendEndJoinPreserves, SendEndSignalPreserves, SendRetryPreserves, SendRetrySpawnPreserves
  DEF SignalStopSteps
<1>2. QED
  BY <1>1, SendFailsPreserves, SendStopsPreserves, SendEndPreserves, SendResetPreserves,
     SendInactivePreserves DEF SendThread

LEMMA RetryThreadPreserves ==
  ASSUME Kinds, IInv, Orderly, NEW r \in Retriers, RetryThread(r) PROVE IInv'
<1>1. CASE Start(r)
  BY <1>1, NoStartFails, RetryStartWaitPreserves, RetryStartCheckPreserves,
     RetryStartConnectPreserves DEF Start
<1>2. QED
  BY <1>1, RetryBeginPreserves, RetryTimeoutPreserves, RetryWokenPreserves,
     RetryAfterPreserves, RetryDonePreserves DEF RetryThread

LEMMA NextPreserves == ASSUME Kinds, IInv, Orderly, Next PROVE IInv'
  BY UserPreserves, ConnectPreserves, SendPreserves, RetryThreadPreserves,
     EnderUnhookPreserves, EnderInactivePreserves, EnderEventPreserves, EnderFlagPreserves
  DEF Next, EnderThread

LEMMA StutterPreserves == ASSUME IInv, UNCHANGED vars PROVE IInv'
  BY DEF vars, IInv, Places, Captured, Ender, Connecting, Sending, Waiting, Reconnecting,
     Retrying, Calling, Told, RetryMax

LEMMA OrderlyInit == ASSUME Init PROVE OrderlyInv
<1>1. Kinds
  <2>1. Flags
    BY DEF Init, Flags
  <2>2. Values
    BY ThreadAssumption, ScenarioAssumption DEF Init, Values, Codes
  <2>3. Functions
    BY DEF Init, Functions, Codes
  <2>4. QED
    BY <2>1, <2>2, <2>3 DEF Kinds
<1>2. /\ pc["user"] = "idle" /\ pc["connect"] = "none" /\ pc["send"] = "none"
      /\ pc["ender"] = "none" /\ \A r \in Retriers : pc[r] = "none"
  BY Strangers, FixedThreads DEF Init
<1>3. Places /\ Captured /\ Ender /\ Connecting
  BY <1>2 DEF Init, Places, Captured, Ender, Connecting
<1>4. Sending /\ Waiting /\ Reconnecting
  BY <1>2 DEF Init, Sending, Waiting, Reconnecting
<1>5. Retrying /\ Calling /\ Told
  BY <1>1, <1>2, Maximum DEF Init, Retrying, Calling, Told
<1>6. QED
  BY <1>1, <1>3, <1>4, <1>5 DEF OrderlyInv, IInv

LEMMA OrderlyStep == ASSUME OrderlyInv, [Next]_vars PROVE OrderlyInv'
<1>1. Kinds'
  BY KindsStep DEF OrderlyInv
<1>2. scenario' = scenario
  BY ScenarioStays
<1>3. ASSUME Orderly' PROVE IInv'
  <2>1. Orderly /\ IInv /\ Kinds
    BY <1>2, <1>3 DEF OrderlyInv, Orderly, Races, StartMayFail
  <2>2. QED
    BY <2>1, NextPreserves, StutterPreserves
<1>4. QED
  BY <1>1, <1>3 DEF OrderlyInv

LEMMA Invariance == Spec => []OrderlyInv
  BY OrderlyInit, OrderlyStep, PTL DEF Spec

-----------------------------------------------------------------------------
(* What it says between two events and of a capture.                       *)

LEMMA OrderlyTypes == ASSUME OrderlyInv, Orderly PROVE TypeOK
<1>1. Kinds /\ Places /\ Retrying
  BY DEF OrderlyInv, IInv
<1>2. retries \in 0 .. RetryMax
  BY <1>1, Maximum DEF Kinds, Values, Retrying
<1>3. \A t \in Threads : pc[t] \in Labels
  <2>1. pc["user"] \in Labels /\ pc["connect"] \in Labels
    BY <1>1 DEF Places, Labels
  <2>2. pc["send"] \in Labels /\ pc["ender"] \in Labels
    BY <1>1 DEF Places, Labels
  <2>3. \A r \in Retriers : pc[r] \in Labels
    BY <1>1 DEF Places, Labels
  <2>4. QED
    BY <2>1, <2>2, <2>3 DEF Threads, Fixed
<1>4. pc \in [Threads -> Labels]
  BY <1>1, <1>3 DEF Kinds, Functions
<1>5. QED
  BY <1>1, <1>2, <1>4 DEF Kinds, Flags, Values, Functions, TypeOK

LEMMA QuietPlaces ==
  ASSUME OrderlyInv, Orderly, Quiet
  PROVE /\ At("user", "idle") /\ Exited("connect") /\ Exited("send") /\ Exited("ender")
        /\ \A r \in Retriers : Exited(r)
  BY Strangers, FixedThreads DEF OrderlyInv, Quiet, Idle

LEMMA OrderlyQuiet == ASSUME OrderlyInv, Orderly PROVE QuietIsStartable /\ QuietIsTold
<1>1. QuietIsStartable
  BY QuietPlaces DEF OrderlyInv, IInv, Told, Sending, QuietIsStartable
<1>2. ASSUME Quiet PROVE ~ active /\ ~ reconnecting /\ client = "off"
  <2>1. ~ active
    BY <1>2, QuietPlaces DEF OrderlyInv, IInv, Captured
  <2>2. ~ reconnecting
    BY <1>2, QuietPlaces DEF OrderlyInv, IInv, Kinds, Values, Reconnecting
  <2>3. client = "off"
    BY <1>2, <2>2, QuietPlaces DEF OrderlyInv, IInv, Kinds, Values, Told, Sending
  <2>4. QED
    BY <2>1, <2>2, <2>3
<1>3. QED
  BY <1>1, <1>2 DEF QuietIsTold

LEMMA OrderlyServed == ASSUME OrderlyInv, Orderly PROVE ActiveIsServed
<1>1. SUFFICES ASSUME \A t \in Threads \ {"send"} : Idle(t)
               PROVE (active => ~ Exited("send")) /\ (At("send", "s_loop") => active)
  BY DEF ActiveIsServed
<1>2. Exited("connect") /\ Exited("ender")
  BY <1>1, FixedThreads DEF OrderlyInv, Idle
<1>3. QED
  BY <1>2 DEF OrderlyInv, IInv, Captured

(* Between two events of an orderly scenario the output has settled,       *)
(* whatever the number of reconnect threads, of retries and of starts.     *)
THEOREM OrderlySettled == Spec => [](Orderly => Settled)
<1>1. ASSUME OrderlyInv PROVE Orderly => Settled
  BY <1>1, OrderlyTypes, OrderlyQuiet, OrderlyServed DEF Settled
<1>2. QED
  BY <1>1, Invariance, PTL

(* In an orderly scenario a capture begins after the last has ended, and   *)
(* only the send thread ends it.                                           *)
THEOREM OrderlyCaptures == Spec => [](Orderly => CapturesInTurn)
<1>1. ASSUME OrderlyInv, Orderly PROVE CapturesInTurn
  <2>1. CapturesOnce
    BY <1>1 DEF OrderlyInv, IInv, Connecting, Captured, CapturesOnce
  <2>2. EndsOnce
    <3>1. \A t \in Threads : Ending(t) => t = "send"
      BY <1>1 DEF OrderlyInv, Ending, Threads, Fixed
    <3>2. Ending("send") => hooked /\ Exited("ender")
      BY <1>1 DEF OrderlyInv, IInv, Captured, Ender, Ending
    <3>3. QED
      BY <3>1, <3>2 DEF EndsOnce
  <2>3. QED
    BY <2>1, <2>2 DEF CapturesInTurn
<1>2. QED
  BY <1>1, Invariance, PTL
=============================================================================
