-------------------------- MODULE VideoFrameQueue --------------------------
(***************************************************************************)
(* What the frame cache of video-io.c promises to the graphics thread and  *)
(* to the encoders, with neither ring, nor threads, nor semaphore.         *)
(*                                                                         *)
(* Time is a sequence of ticks of one frame interval.  The graphics thread *)
(* hands over a picture with the run of ticks it stands for; when the      *)
(* queue is full the run of the newest picture is extended instead.  The   *)
(* encoders get one picture per tick, oldest first, and no tick that was   *)
(* handed over is lost or given out twice.                                 *)
(***************************************************************************)
EXTENDS Integers, Sequences

CONSTANTS Capacity,   (* how many pictures the cache can hold             *)
          Counts      (* lengths of the runs the graphics thread produces *)

VARIABLES queue,      (* pending pictures, oldest first: [ts, left]       *)
          tick,       (* the first tick not handed over yet               *)
          out         (* the last tick the encoders received, -1 if none  *)

qvars == <<queue, tick, out>>

QInit == queue = <<>> /\ tick = 0 /\ out = -1

(* A new picture for the next c ticks. *)
Put(c) ==
  /\ Len(queue) < Capacity
  /\ queue' = Append(queue, [ts |-> tick, left |-> c])
  /\ tick' = tick + c
  /\ UNCHANGED out

(* The queue is full: the newest picture also stands for the next c ticks. *)
Extend(c) ==
  /\ Len(queue) = Capacity
  /\ queue' = [queue EXCEPT ![Len(queue)].left = @ + c]
  /\ tick' = tick + c
  /\ UNCHANGED out

(* Nobody consumes raw video: the ticks pass without a picture. *)
Gap(c) == tick' = tick + c /\ UNCHANGED <<queue, out>>

(* The encoders receive the oldest pending tick. *)
Take ==
  /\ queue # <<>>
  /\ out' = Head(queue).ts
  /\ queue' = IF Head(queue).left = 1
              THEN Tail(queue)
              ELSE [queue EXCEPT ![1] = [ts |-> @.ts + 1, left |-> @.left - 1]]
  /\ UNCHANGED tick

QNext == Take \/ \E c \in Counts : Put(c) \/ Extend(c) \/ Gap(c)

QSpec == QInit /\ [][QNext]_qvars
=============================================================================
