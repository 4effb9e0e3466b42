-------------------------- MODULE MCTunnelFramePipe --------------------------
(***************************************************************************)
(* An instance of TunnelFramePipe for TLC: the chain of the program, which *)
(* is tunnel (0), compression (1), signature (2) and sockets (3), with two *)
(* tunnel threads and one socket thread.                                   *)
(***************************************************************************)
EXTENDS TunnelFramePipe

MCLast == 3
=============================================================================
