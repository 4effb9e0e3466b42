----------------------- MODULE TunnelProducerConsumer -----------------------
(***************************************************************************)
(* _receiveFromTunnelLoop of native/common/tunnel_producer_consumer.cpp,   *)
(* in the thread of one queue of the tunnel device: it packs the datagrams *)
(* of the queue into frames, keeps the one that does not fit for the next  *)
(* frame, and passes every frame down the chain, again and again as long   *)
(* as the chain is not ready.  The threads share nothing but _interrupted. *)
(*                                                                         *)
(* What it writes to and what it passes on is the subject of TunnelFrame.  *)
(***************************************************************************)
EXTENDS TunnelFrame, Sequences, FiniteSets

CONSTANTS
  MaxArrivals,      \* bound: how many datagrams arrive
  Mtu               \* _mtu, the size of mtuBuffer

ASSUME BoundAssumption == MaxArrivals \in Nat

\* What a read of at most _mtu bytes returns.
ASSUME DatagramAssumption == \A d \in Datagrams : Size[d] \in 1..Mtu

\* The code takes the MTU of the device as it is; up to 3936 it is right.
ASSUME MtuAssumption ==
  Mtu \in Nat \ {0} /\ HeaderSize + SeparatorSize + Mtu <= FrameMax

VARIABLES
  arrived,     \* history: the datagrams that have arrived
  queue,       \* those still in the queue of the device
  held,        \* mtuBuffer: empty, or one datagram
  writer,      \* the writer into buffer
  frame,       \* history: the datagrams written with it
  sent,        \* history: the datagrams of the frames the chain has accepted
  ready,       \* has the chain somewhere to send frames to?
  interrupted, \* _interrupted
  pc           \* where the thread is

vars == <<arrived, queue, held, writer, frame, sent, ready, interrupted, pc>>

dataVars == <<arrived, queue, held, writer, frame, sent>>

\* "closed": a frame is to be passed on; "asserted": a RASSERT has failed.
States == {"looking", "polling", "reading", "fitting", "closed", "calling",
           "sleeping", "ended", "asserted"}

\* numDatagramsWritten is counted together with what is written.
numDatagramsWritten == Len(frame)

-----------------------------------------------------------------------------
(* The surroundings.                                                       *)

\* The kernel routes a datagram into the device.
Arrive(d) ==
  /\ Len(arrived) < MaxArrivals
  /\ arrived' = Append(arrived, d)
  /\ queue' = Append(queue, d)
  /\ UNCHANGED <<held, writer, frame, sent, ready, interrupted, pc>>

\* A session appears or disappears, a pipe is attached or detached.
ChainTurns ==
  /\ ready' = ~ ready
  /\ UNCHANGED <<dataVars, interrupted, pc>>

\* ~TunnelProducerConsumer.
Interrupt ==
  /\ ~ interrupted
  /\ interrupted' = TRUE
  /\ UNCHANGED <<dataVars, ready, pc>>

-----------------------------------------------------------------------------
(* The thread.                                                             *)

Moves(from, to) ==
  /\ pc = from
  /\ pc' = to
  /\ UNCHANGED <<dataVars, ready, interrupted>>

\* The head of the inner loop; a datagram in mtuBuffer goes first.
Look ==
  Moves("looking", IF interrupted THEN "ended"
                   ELSE IF held # <<>> THEN "fitting" ELSE "polling")

PollReady == queue # <<>> /\ Moves("polling", "reading")

\* Where the thread goes when a poll times out: it passes on what it has; and
\* when it waits for a fuller frame, or passes on what it does not have.
WaitOn == "looking"

CloseAnyway == "closed"

AfterTimeout == IF numDatagramsWritten > 0 THEN "closed" ELSE "looking"

PollTimesOut == queue = <<>> /\ Moves("polling", AfterTimeout)

\* poll or read throws a SystemException.
DeviceFails == \E from \in {"polling", "reading"} : Moves(from, "ended")

\* read on the descriptor waits if there is nothing.
Read ==
  /\ pc = "reading"
  /\ queue # <<>>
  /\ held' = <<Head(queue)>>
  /\ queue' = Tail(queue)
  /\ pc' = "fitting"
  /\ UNCHANGED <<arrived, writer, frame, sent, ready, interrupted>>

\* The frame is full, whatever the size of the datagram just read; and when
\* its separator is forgotten.
TooBigAlone == Size[held[1]] > writer.end - writer.current

TooBig == Size[held[1]] > remainingBytes(writer)

FrameFull ==
  /\ pc = "fitting"
  /\ TooBig
  /\ Moves("fitting", IF numDatagramsWritten > 0 THEN "closed" ELSE "asserted")

\* mtuBuffer after its datagram went into the frame; and when it is not
\* marked empty.
StillHeld == held

Emptied == <<>>

\* onDatagramWritten asserts that the end of the buffer is not passed.
Write ==
  /\ pc = "fitting"
  /\ ~ TooBig
  /\ writer' = onDatagramWritten(writer, held[1])
  /\ frame' = Append(frame, held[1])
  /\ held' = Emptied
  /\ pc' = IF writer'.current <= writer.end THEN "looking" ELSE "asserted"
  /\ UNCHANGED <<arrived, queue, sent, ready, interrupted>>

\* The look at _interrupted before each call; and without it.
CalledAnyway == "calling"

IfNotInterrupted == IF interrupted THEN "ended" ELSE "calling"

Call == Moves("closed", IfNotInterrupted)

\* A writer is set up for the next frame.
Accept ==
  /\ pc = "calling"
  /\ ready
  /\ sent' = sent \o frame
  /\ frame' = <<>>
  /\ writer' = NewWriter(FrameMax)
  /\ pc' = "looking"
  /\ UNCHANGED <<arrived, queue, held, ready, interrupted>>

\* NotYetReadyException.
Refuse == ~ ready /\ Moves("calling", "sleeping")

SleepOver == Moves("sleeping", "closed")

\* Any other exception ends the thread; the frame is lost.
CallFails == Moves("calling", "ended")

-----------------------------------------------------------------------------
Init ==
  /\ arrived = <<>>
  /\ queue = <<>>
  /\ held = <<>>
  /\ writer = NewWriter(FrameMax)
  /\ frame = <<>>
  /\ sent = <<>>
  /\ ready = FALSE
  /\ interrupted = FALSE
  /\ pc = "looking"

\* What the thread does by itself.
Run ==
  \/ Look
  \/ PollReady
  \/ PollTimesOut
  \/ Read
  \/ FrameFull
  \/ Write
  \/ Call
  \/ Accept
  \/ Refuse
  \/ SleepOver

Next ==
  \/ \E d \in Datagrams : Arrive(d)
  \/ ChainTurns
  \/ Interrupt
  \/ Run
  \/ DeviceFails
  \/ CallFails

Spec == Init /\ [][Next]_vars

\* The thread runs; nothing is assumed of the device, the chain and the owner.
FairSpec == Spec /\ WF_vars(Run)

-----------------------------------------------------------------------------
(* Properties.                                                             *)

TypeOK ==
  /\ arrived \in Seq(Datagrams)
  /\ queue \in Seq(Datagrams)
  /\ held \in Seq(Datagrams)
  /\ writer = [end |-> FrameMax, current |-> writer.current, at |-> writer.at]
  /\ writer.current \in HeaderSize..FrameMax
  /\ DOMAIN writer.at \subseteq HeaderSize..FrameMax
  /\ \A o \in DOMAIN writer.at : writer.at[o] \in Datagrams
  /\ frame \in Seq(Datagrams)
  /\ sent \in Seq(Datagrams)
  /\ ready \in BOOLEAN
  /\ interrupted \in BOOLEAN
  /\ pc \in States

\* The datagrams leave in the order in which they arrived, none of them twice
\* and none left out, through every batch, carry-over, refusal and retry: what
\* was sent, is in the frame, in mtuBuffer and in the queue is what arrived.
NothingLostOrDoubled == sent \o frame \o held \o queue = arrived

\* The RASSERTs on numDatagramsWritten, and the one of onDatagramWritten that
\* guards the end of the buffer: a datagram always fits in an empty frame.
AssertsHold == pc # "asserted"

\* The place in the frame of the datagram behind the separator at o.
Place(at, o) == Cardinality({p \in DOMAIN at : p <= o})

\* The bytes laid out are the datagrams written, in their order.
LaidOut(at) ==
  /\ Cardinality(DOMAIN at) = Len(frame)
  /\ \A o \in DOMAIN at : at[o] = frame[Place(at, o)]

\* A frame is never passed on empty, a reader can follow it to its end, and it
\* finds there the datagrams that were put in, in their order.
FramesFilled ==
  pc \in {"closed", "calling", "sleeping"} =>
    frame # <<>> /\ WellFormed(close(writer)) /\ LaidOut(close(writer).at)

\* Whatever has arrived is passed on if the chain is ready at last, however
\* often it refused before and though no other datagram follows.
Delivered ==
  <>[]ready =>
    \A n \in 1..MaxArrivals : Len(arrived) >= n ~> (Len(sent) >= n \/ pc = "ended")

\* An interruption ends the thread, also when the chain will never be ready.
InterruptEnds == interrupted ~> pc = "ended"
=============================================================================
