---------------------------- MODULE MCWebSession ----------------------------
(* WebSession for TLC. *)
EXTENDS WebSessionProps, TLC

CONSTANTS t1, t2, ann, bob
=============================================================================
