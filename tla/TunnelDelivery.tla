---------------------------- MODULE TunnelDelivery ----------------------------
(***************************************************************************)
(* The way up: what happens to a frame that came out of a stream.  The     *)
(* thread of the socket calls, through the pipes, the method               *)
(* TunnelProducerConsumer::onTunnelFrameFromNext, which hands the frame's  *)
(* datagrams one by one to the queues of the tunnel device, in turn.       *)
(* The threads of all sockets of a process share the counter of the turn   *)
(* and, per queue, a mutex that is held while the device takes a datagram. *)
(* Composed with the streams of module TunnelFrameStream, whose task is    *)
(* "handling" meanwhile.                                                   *)
(***************************************************************************)
EXTENDS TunnelFrameStream

CONSTANTS
  NumQueues,       \* _tunnelFds.size()
  RoundRobinWrap   \* 2^64: _tunnelFdRoundRobin is an atomic_uint64_t

ASSUME NumQueuesAssumption == NumQueues \in Nat \ {0}
ASSUME WrapAssumption == RoundRobinWrap \in Nat \ {0}

VARIABLES
  roundRobin,  \* side -> _tunnelFdRoundRobin
  current,     \* end -> the reader's cursor, 0 at _begin
  queue,       \* end -> idxTunnelFds of the datagram in hand, or None
  mutex,       \* side, queue -> the end whose thread holds tunnelFd->mutex
  given,       \* side, queue -> history: number of datagrams given to the queue
  log          \* end -> history: datagrams the device took from this stream, each
               \* with the number of its frame and its place there

Queues == 0..(NumQueues - 1)

deliveryVars == <<roundRobin, current, queue, mutex, given, log>>

vars == <<streamVars, deliveryVars>>

-----------------------------------------------------------------------------
(* onTunnelFrameFromNext.                                                  *)

\* The frame in `_buffer`, the last that receive() returned.
InHand(e) == begun[Peer(e)][got[e]].body

Handling(e) == task[e] = "handling"

Unlocked(e) == [q \in Queues |-> IF mutex[e[2]][q] = e THEN None ELSE mutex[e[2]][q]]

\* The counter after the turn of one more datagram; and when the counter is
\* advanced in a copy of its own.
TurnOfCopy(r) == r

Turn(r) == (r + 1) % RoundRobinWrap

\* idxTunnelFds; and when queues are counted from one.
CountedFromOne(r) == (r % NumQueues) + 1

QueueOfTurn(r) == r % NumQueues

\* next() is true: the turn of a queue.
NextDatagram(e) ==
  /\ Handling(e)
  /\ queue[e] = None
  /\ HasNext(InHand(e), current[e])
  /\ LET r == Turn(roundRobin[e[2]])
         q == QueueOfTurn(r) IN
     /\ roundRobin' = [roundRobin EXCEPT ![e[2]] = r]
     /\ queue' = [queue EXCEPT ![e] = q]
     /\ given' = [given EXCEPT ![e[2]][q] = @ + 1]
  /\ current' = [current EXCEPT ![e] = Advance(InHand(e), @)]
  /\ UNCHANGED <<streamVars, mutex, log>>

LockQueue(e) ==
  /\ queue[e] # None
  /\ mutex[e[2]][queue[e]] = None
  /\ mutex' = [mutex EXCEPT ![e[2]][queue[e]] = e]
  /\ UNCHANGED <<streamVars, roundRobin, current, queue, given, log>>

\* The datagram in hand, and where it came from.
DatagramInHand(e) ==
  [frame |-> got[e], at |-> current[e], datagram |-> InHand(e).at[current[e]]]

\* The device takes the datagram whole.
WriteDatagram(e) ==
  /\ queue[e] # None
  /\ mutex[e[2]][queue[e]] = e
  /\ log' = [log EXCEPT ![e] = Append(@, DatagramInHand(e))]
  /\ mutex' = [mutex EXCEPT ![e[2]] = Unlocked(e)]
  /\ queue' = [queue EXCEPT ![e] = None]
  /\ UNCHANGED <<streamVars, roundRobin, current, given>>

\* The lock_guard, when the write throws; and when it is not one.
StillLocked(e) == mutex[e[2]]

AfterFailure(e) == Unlocked(e)

\* The write throws: the exception leaves the receive loop.
WriteDatagramFails(e) ==
  /\ queue[e] # None
  /\ mutex[e[2]][queue[e]] = e
  /\ HandleFails(e)
  /\ mutex' = [mutex EXCEPT ![e[2]] = AfterFailure(e)]
  /\ queue' = [queue EXCEPT ![e] = None]
  /\ current' = [current EXCEPT ![e] = 0]
  /\ UNCHANGED <<roundRobin, given, log>>

\* next() is false: the frame is done with.
FrameDone(e) ==
  /\ Handled(e)
  /\ queue[e] = None
  /\ Advance(InHand(e), current[e]) = InHand(e).size
  /\ current' = [current EXCEPT ![e] = 0]
  /\ UNCHANGED <<roundRobin, queue, mutex, given, log>>

\* The threads of a process that ends.  The next one's counter begins at 0.
CrashAll(side) ==
  /\ Crash(side)
  /\ roundRobin' = [roundRobin EXCEPT ![side] = 0]
  /\ given' = [given EXCEPT ![side] = [q \in Queues |-> 0]]
  /\ mutex' = [mutex EXCEPT ![side] = [q \in Queues |-> None]]
  /\ queue' = [e \in Ends |-> IF e[2] = side THEN None ELSE queue[e]]
  /\ current' = [e \in Ends |-> IF e[2] = side THEN 0 ELSE current[e]]
  /\ UNCHANGED log

-----------------------------------------------------------------------------

Init ==
  /\ StreamInit
  /\ roundRobin = [s \in Sides |-> 0]
  /\ current = [e \in Ends |-> 0]
  /\ queue = [e \in Ends |-> None]
  /\ mutex = [s \in Sides |-> [q \in Queues |-> None]]
  /\ given = [s \in Sides |-> [q \in Queues |-> 0]]
  /\ log = [e \in Ends |-> <<>>]

Delivers(e) ==
  \/ NextDatagram(e)
  \/ LockQueue(e)
  \/ WriteDatagram(e)
  \/ FrameDone(e)

Streams(A) == A /\ UNCHANGED deliveryVars

Next ==
  \/ \E s \in Sides : CrashAll(s)
  \/ \E c \in Conns : Streams(Connect(c)) \/ Streams(Accept(c)) \/ Streams(Break(c))
  \/ \E e \in Ends :
       \/ Streams(Sends(e)) \/ Streams(Receives(e)) \/ Streams(Close(e))
       \/ \E f \in Frames : Streams(BeginSend(e, f))
       \/ Delivers(e)
       \/ WriteDatagramFails(e)

\* When descriptors may be reused.
NextReusing ==
  /\ strayed = {}
  /\ Next \/ \E e, x \in Ends : Streams(Stray(e, x))

\* Threads run on; a peer, the network while it is not broken, and the device
\* take what they are given.  Nothing makes a lost network report its loss.
Fairness ==
  /\ \A c \in Conns : WF_vars(Streams(Accept(c)))
  /\ \A e \in Ends :
       /\ WF_vars(Streams(Sends(e)))
       /\ WF_vars(\/ Streams(Receives(e) /\ ~ broken[e[1]])
                  \/ Streams(Close(e))
                  \/ Delivers(e))

Spec == Init /\ [][Next]_vars

SpecReusing == Init /\ [][NextReusing]_vars

FairSpec == Spec /\ Fairness

-----------------------------------------------------------------------------
(* What must hold.                                                         *)

\* The streams' variables keep their types, and so do those of the way up: a
\* queue's mutex is held by a thread that has a datagram for that queue.
TypeOK ==
  /\ StreamTypeOK
  /\ roundRobin \in [Sides -> 0..(RoundRobinWrap - 1)]
  /\ current \in [Ends -> Nat]
  /\ queue \in [Ends -> Queues \cup {None}]
  /\ mutex \in [Sides -> [Queues -> Ends \cup {None}]]
  /\ given \in [Sides -> [Queues -> Nat]]
  /\ log \in [Ends -> Seq([frame : Nat, at : Nat, datagram : Datagrams])]

\* Of the frames given to send() at the other end, number k.
SentFrame(e, k) == begun[Peer(e)][k].body

Before(k, o, l, p) == k < l \/ (k = l /\ o < p)

Logged(e, k, o) == \E i \in DOMAIN log[e] : log[e][i].frame = k /\ log[e][i].at = o

\* All that the device took came before the place o of frame k.
Ahead(e, k, o) == \A i \in DOMAIN log[e] : Before(log[e][i].frame, log[e][i].at, k, o)

\* What the device took is what was sent, in a frame after the initial one.
AsSent(e) ==
  \A i \in DOMAIN log[e] :
    LET l == log[e][i] IN
    /\ l.frame \in 2..got[e]
    /\ l.at \in DOMAIN SentFrame(e, l.frame).at
    /\ l.datagram = SentFrame(e, l.frame).at[l.at]

InOrder(e) ==
  \A i, j \in DOMAIN log[e] :
    i < j => Before(log[e][i].frame, log[e][i].at, log[e][j].frame, log[e][j].at)

\* All that was sent up to the last frame was taken; of the last, if the thread
\* has not done with it, a beginning.
NoneSkipped(e) ==
  \A k \in 2..got[e] : \A o \in DOMAIN SentFrame(e, k).at :
    \/ Logged(e, k, o)
    \/ k = got[e] /\ task[e] # "receiving" /\ Ahead(e, k, o)

\* The device gets from every stream the datagrams of the frames that came
\* after the initial one: in their order, none twice, none skipped, all of them
\* by the time the next frame is received; no frame is found badly formatted.
DatagramsInOrder ==
  \A e \in Ends :
    /\ AsSent(e)
    /\ InOrder(e)
    /\ NoneSkipped(e)
    /\ Handling(e) => ~ BadlyFormatted(InHand(e), current[e])

\* Whichever threads deliver, no queue is given two datagrams more than another.
QueuesBalanced ==
  \A s \in Sides : \A q, r \in Queues : given[s][q] <= given[s][r] + 1

\* A thread that holds a queue's mutex has a datagram for that queue in hand;
\* whoever ends, normally or not, leaves no mutex behind.
MutexHolders ==
  \A s \in Sides : \A q \in Queues :
    mutex[s][q] # None =>
      /\ mutex[s][q][2] = s
      /\ Handling(mutex[s][q])
      /\ queue[mutex[s][q]] = q

-----------------------------------------------------------------------------

\* The connection does not serve any more: an end has failed or is closed, or
\* the network has lost it.
Down(c) ==
  \/ broken[c]
  \/ \E s \in Sides : task[<<c, s>>] \in {"dropping", "closing"} \/ Gone(<<c, s>>)

Established(e) == task[e] \in {"receiving", "handling"}

Delivered(e) ==
  \/ got[Peer(e)] = Len(begun[e]) /\ ~ Handling(Peer(e))
  \/ Down(e[1])

\* The three that follow are of the form []<>P: an end begins a bounded number
\* of frames, what P says of an end or a connection stays true once it is, and
\* so P is reached from wherever a thread may be.

\* The exchange ends: both sides come to serve the tunnel, neither waits for
\* the other to speak first, unless the connection goes down.
ExchangeEnds ==
  []<>(\A c \in Made : (\A s \in Sides : Established(<<c, s>>)) \/ Down(c))

\* What a sender gives to a stream is received and delivered to its last
\* datagram, whatever befalls the other connections of the process.
FramesArrive == []<>(\A e \in Ends : Delivered(e))

\* An end whose peer has closed, or has ended, is closed too, unless the network
\* loses the connection.
PeerGoneNoticed ==
  []<>(\A e \in Ends :
         Gone(e) /\ task[Peer(e)] # "absent" => Gone(Peer(e)) \/ broken[e[1]])
=============================================================================
