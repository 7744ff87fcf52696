---------------------------- MODULE MCEncoderPair ----------------------------
(* Model values for EncoderPair.                                           *)
EXTENDS EncoderPair

CONSTANTS o1, o2, x264, nvenc

(* Both outputs share both encoders, or each has its own video encoder.    *)
MCShared == [o \in Outputs |-> x264]
MCOwn == (o1 :> x264) @@ (o2 :> nvenc)

(* Audio is a little behind, in front or far behind.                       *)
MCClocks == {1, 2, 6} \X {3, 4}
==============================================================================
