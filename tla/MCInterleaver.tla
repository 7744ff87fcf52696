----------------------------- MODULE MCInterleaver -----------------------------
(* Streams that begin at different times, up to two video frames apart.    *)
EXTENDS Interleaver

MCOrigins == {o \in [Streams -> 1 .. 8] : o[Video] \in {1, 4, 6, 8} /\ \A s \in Audio : o[s] \in {3, 4}}
=============================================================================
