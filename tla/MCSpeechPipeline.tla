-------------------------- MODULE MCSpeechPipeline --------------------------
(* Speech translation on small instances. *)
EXTENDS SpeechPipeline
=============================================================================
