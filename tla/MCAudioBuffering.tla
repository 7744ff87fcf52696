------------------------- MODULE MCAudioBuffering --------------------------
(* AudioBuffering with two interchangeable sources. *)
EXTENDS AudioBuffering, TLC

Symmetry == Permutations(Sources)
============================================================================
