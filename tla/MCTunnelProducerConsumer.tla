---------------------- MODULE MCTunnelProducerConsumer ----------------------
(***************************************************************************)
(* An instance of TunnelProducerConsumer for TLC.  A frame has room for 10 *)
(* bytes: datagrams of 1 to 4 bytes and their separators of one fill it    *)
(* exactly, leave it room for a separator only, or do not fit any more.    *)
(* Two datagrams have the same size.                                       *)
(***************************************************************************)
EXTENDS TunnelProducerConsumer

MCSize ==
  [d \in {"a", "b", "c", "d", "e"} |->
     CASE d \in {"a", "b"} -> 1 [] d = "c" -> 2 [] d = "d" -> 3 [] d = "e" -> 4]
=============================================================================
