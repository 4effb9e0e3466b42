----------------------------- MODULE StreamPool -----------------------------
(***************************************************************************)
(* What SocketProducerConsumer promises to the threads that send through   *)
(* it, with the mutexes, the sessions and the sockets' life cycle left     *)
(* out: a pool of streams.  A stream joins once and leaves once; a thread  *)
(* takes a stream for the duration of one frame; a stream is given to at   *)
(* most one thread at a time and only while it is in the pool.  A stream   *)
(* may leave while a thread still writes to it (its receiver found the     *)
(* connection dead): the thread keeps what it holds until it gives it up.  *)
(***************************************************************************)
CONSTANTS Senders,  \* the threads that send frames
          Streams,  \* the streams that may ever be in the pool
          None      \* "holds nothing"

VARIABLES members,  \* the streams in the pool
          departed, \* the streams that were in it
          held      \* the stream each thread writes to, or None

poolVars == <<members, departed, held>>

Holders(s) == {t \in Senders : held[t] = s}

PoolInit == /\ members = {}
            /\ departed = {}
            /\ held = [t \in Senders |-> None]

Join(s) == /\ s \notin members \cup departed
           /\ members' = members \cup {s}
           /\ UNCHANGED <<departed, held>>

Leave(s) == /\ s \in members
            /\ members' = members \ {s}
            /\ departed' = departed \cup {s}
            /\ UNCHANGED held

Acquire(t, s) == /\ held[t] = None
                 /\ s \in members
                 /\ Holders(s) = {}
                 /\ held' = [held EXCEPT ![t] = s]
                 /\ UNCHANGED <<members, departed>>

GiveUp(t) == /\ held[t] # None
             /\ held' = [held EXCEPT ![t] = None]
             /\ UNCHANGED <<members, departed>>

PoolNext == \/ \E s \in Streams : Join(s) \/ Leave(s)
            \/ \E t \in Senders : GiveUp(t) \/ \E s \in Streams : Acquire(t, s)

PoolSpec == PoolInit /\ [][PoolNext]_poolVars
=============================================================================
