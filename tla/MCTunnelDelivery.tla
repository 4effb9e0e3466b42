-------------------------- MODULE MCTunnelDelivery ---------------------------
(***************************************************************************)
(* Instances of TunnelDelivery: small headers, datagrams and buffers, and  *)
(* frames that TunnelFrameWriter lays out.                                 *)
(***************************************************************************)
EXTENDS TunnelDelivery, SequencesExt

CONSTANTS
  Longer,        \* the connection on which the client sends a frame more
  FirstFaults    \* faults while there is one connection

MCSize == [d \in {"hello", "a", "b"} |-> 1]

MCFrameOf(batch) == close(FoldLeft(onDatagramWritten, NewWriter(FrameMax), batch))

MCFrames == {MCFrameOf(<<"a", "b">>)}

MCMaxFaults == [n \in 0..Cardinality(Conns) |-> IF n = 1 THEN FirstFaults ELSE 0]

MCClientVersions == [c \in Conns |-> IF c = Longer THEN {1} ELSE {1, 2}]

MCMaxFrames ==
  [e \in Conns \X Sides |->
     IF e[2] = "server" THEN 1 ELSE IF e[1] = Longer THEN 3 ELSE 2]
=============================================================================
