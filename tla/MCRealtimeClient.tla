-------------------------- MODULE MCRealtimeClient --------------------------
(***************************************************************************)
(* A small instance of RealtimeClient, with the delays of the code.        *)
(***************************************************************************)
EXTENDS RealtimeClient

CONSTANTS w1, w2, w3
=============================================================================
