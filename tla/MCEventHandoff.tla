---------------------------- MODULE MCEventHandoff ----------------------------
(* A finite instance of EventHandoff for TLC. *)
EXTENDS EventHandoff

\* Notifications in the first and in the second run: three fill the queue, the
\* worker and a reader, or keep two readers waiting.
SeqBounds == <<3, 1>>
=============================================================================
