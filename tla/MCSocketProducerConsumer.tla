---------------------- MODULE MCSocketProducerConsumer ----------------------
(***************************************************************************)
(* Instances of SocketProducerConsumer for TLC.                            *)
(***************************************************************************)
EXTENDS SocketProducerConsumer

\* Tunnel threads run the same code on queues that differ in nothing, and
\* sockets are told apart only by what happens to them: both sets may be
\* permuted.  Liveness is checked without.
Symmetry == Permutations(Senders) \cup Permutations(Sockets)
=============================================================================
