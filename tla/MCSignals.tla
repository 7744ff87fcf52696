------------------------------ MODULE MCSignals ------------------------------
(* Model values for Signals.                                               *)
EXTENDS Signals

CONSTANTS a, b

(* Callbacks of signal a send b and use the lists of b and of the global   *)
(* callbacks; those of b use the list of the global callbacks.             *)
MCUses == {<<a, b>>, <<a, All>>, <<b, All>>}
==============================================================================
