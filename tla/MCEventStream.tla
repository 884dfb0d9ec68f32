--------------------------- MODULE MCEventStream ---------------------------
(* An instance of EventStream for TLC.  The connections are model values.  *)
EXTENDS EventStream
=============================================================================
