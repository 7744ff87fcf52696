------------------------------ MODULE MCEncoder ------------------------------
(* Model values for Encoder.                                               *)
EXTENDS Encoder

CONSTANTS stream, recording
=============================================================================
