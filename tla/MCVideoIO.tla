----------------------------- MODULE MCVideoIO -----------------------------
(* Two inputs: enc1 may disconnect itself in its callback, and enc2 then   *)
(* moves into its place.                                                   *)
EXTENDS VideoIO

CONSTANTS enc1, enc2
=============================================================================
