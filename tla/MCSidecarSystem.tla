-------------------------- MODULE MCSidecarSystem --------------------------
(* An instance of SidecarSystem for TLC.  The connections are model values. *)
EXTENDS SidecarSystem
=============================================================================
