---------------------------- MODULE MCAsyncFrames ----------------------------
(* Model values for AsyncFrames.                                           *)
EXTENDS AsyncFrames, TLC

Symmetry == Permutations(Frames) \union Permutations(Threads)
=============================================================================
