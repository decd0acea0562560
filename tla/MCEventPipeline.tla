--------------------------- MODULE MCEventPipeline ---------------------------
(* EventPipeline with one object per server, for TLC.                      *)
EXTENDS EventPipeline, TLC

CONSTANTS a, b, ea, eb

OneEach == (ea :> a) @@ (eb :> b)
OneAlone == (ea :> a)
=============================================================================
