----------------------------- MODULE MCWeakRef -----------------------------
(* With three threads a lookup, a holder of a weak reference and the       *)
(* thread that destroys the object meet.                                   *)
EXTENDS WeakRef

CONSTANTS t1, t2, t3
=============================================================================
