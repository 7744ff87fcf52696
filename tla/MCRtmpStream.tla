---------------------------- MODULE MCRtmpStream -----------------------------
(* Model values for RtmpStream.                                            *)
EXTENDS RtmpStream

(* A keyframe and frames that refer to it, with disposable ones between;   *)
(* audio now and then; the next keyframe soon or late.                     *)
MCStreams ==
  {<<Highest, Disposable, High, Audio, High, High, Highest, High>>,
   <<Highest, High, Disposable, Audio, Disposable, High, High, Highest>>}
==============================================================================
