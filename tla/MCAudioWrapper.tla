--------------------------- MODULE MCAudioWrapper ---------------------------
(***************************************************************************)
(* The threads of the media server: a playback thread, a second thread     *)
(* that records and also writes, and the thread that serves the policy.    *)
(***************************************************************************)
EXTENDS AudioWrapper

MediaThreads == {"playback", "record", "policy"}

MediaCalls ==
  [t \in MediaThreads |->
     CASE t = "playback" -> {"io", "set_parameters"} \X {"out"}
       [] t = "record"   -> {"io"} \X {"out", "in"}
       [] t = "policy"   -> ({"open", "close"} \X Dirs) \cup ({"function"} \X Dirs)
                              \cup (HalOps \X {"out"})]
=============================================================================
