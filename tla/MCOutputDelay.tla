---------------------------- MODULE MCOutputDelay ----------------------------
(* Model values for OutputDelay.                                           *)
EXTENDS OutputDelay

CONSTANTS e1, e2

MCSetups == {[encoders |-> {e1, e2}, preserve |-> FALSE], [encoders |-> {e1}, preserve |-> TRUE]}
=============================================================================
