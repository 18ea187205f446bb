------------------------------ MODULE MCSidecar ------------------------------
(* Sidecar for TLC. *)
EXTENDS SidecarProps, TLC
=============================================================================
