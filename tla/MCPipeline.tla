----------------------------- MODULE MCPipeline -----------------------------
(* Four frames, so that the camera always has one to capture while two are *)
(* queued and one is held; records of two bytes in a queue of two.         *)
EXTENDS Pipeline
=============================================================================
