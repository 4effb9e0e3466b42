-------------------------- MODULE TunnelFrameStream --------------------------
(***************************************************************************)
(* TunnelFrameStream (native/common/socket_producer_consumer.cpp), the     *)
(* reads and writes of FileDescriptor below it, and the task of addSocket  *)
(* that owns it, at both ends of some TCP connections.  send() and         *)
(* receive() are loops over partial writes and reads; what flows are       *)
(* bytes, counted from the start of each direction.  Of the bytes only the *)
(* bounds of the frames and the contents of their headers matter, so that  *)
(* `begun` keeps the frames, and `written` and `read` say how much of them *)
(* has gone into the connection and come out of it.                        *)
(*                                                                         *)
(* A stream is used by the thread of its task and by at most one sender at *)
(* a time (StreamHeldByOne of module SocketProducerConsumer).              *)
(***************************************************************************)
EXTENDS TunnelFrame, Integers, Sequences, FiniteSets

CONSTANTS
  Conns,           \* the connections ever made
  Frames,          \* what the tunnel threads send
  Hello,           \* the datagram of the initial frame
  ServerVersion,   \* kVersion in the server's build
  ClientVersions,  \* connection -> values of it in the builds of the client
  Capacity,        \* bytes a connection holds in each direction
  MaxFrames,       \* bound: frames begun at each end
  MaxFaults,       \* bound: faults, when so many connections are made
  ReuseDescriptors,\* are connections made while a sender holds a closed number?
  None             \* no descriptor

Sides == {"client", "server"}

\* initialTunnelFrameExchange's frame, in a buffer it does not fill.
InitFrame == close(onDatagramWritten(NewWriter(FrameMax), Hello))

ASSUME ConnsAssumption == IsFiniteSet(Conns)
ASSUME FramesAssumption ==
  /\ \A f \in Frames : WellFormed(f)
  /\ WellFormed(InitFrame)
ASSUME CapacityAssumption == Capacity \in Nat \ {0}
ASSUME BoundsAssumption == 
  /\ MaxFrames \in [Conns \X Sides -> Nat]
  /\ MaxFaults \in [0..Cardinality(Conns) -> Nat]
ASSUME VersionAssumption == DOMAIN ClientVersions = Conns
ASSUME ReuseAssumption == ReuseDescriptors \in BOOLEAN
ASSUME NoneAssumption == None \notin Nat

VARIABLES
  fd,        \* end -> FileDescriptor::_fd, -1 when closed
  loaded,    \* end -> the _fd a sender has read that was closed since, or None
  task,      \* where each end is in the task of addSocket
  busy,      \* end -> is a thread inside send()?
  begun,     \* end -> history: the frames given to send(), with their last byte
  written,   \* end -> bytes that went into the connection
  read,      \* end -> bytes that came out of it
  got,       \* end -> number of calls of receive() that returned
  version,   \* end -> kVersion of the build that runs there
  broken,    \* connection -> has the network lost it?
  strayed,   \* history: <<end, end>> bytes meant for one went to the other
  faults     \* history: number of connections broken and processes ended

sendVars == <<busy, begun, written>>
receiveVars == <<read, got>>
streamVars == <<fd, loaded, task, busy, begun, written, read, got, version,
                broken, strayed, faults>>

Ends == Conns \X Sides

Versions == {ServerVersion} \cup UNION {ClientVersions[c] : c \in Conns}

Peer(e) == <<e[1], IF e[2] = "client" THEN "server" ELSE "client">>

-----------------------------------------------------------------------------
(* The states of a task.                                                   *)

Receiving == {"recvInit", "receiving"}

\* The stream is in the list of its session and senders may choose it.
Registered == {"receiving", "handling", "closing"}

TaskStates == {"absent", "sendInit", "recvInit", "dropping", "asserted", "done"}
              \cup Registered

Gone(e) == task[e] = "done"

\* The client sends first, the server answers; and when both wait to be sent to.
BothReceive(e) == "recvInit"

FirstTask(e) == IF e[2] = "client" THEN "sendInit" ELSE "recvInit"

\* The client then receives the answer; and when it does not wait for it.
NoAnswer(e) == "receiving"

AfterInitSent(e) == IF e[2] = "client" THEN "recvInit" ELSE "receiving"

AfterInitReceived(e) == IF e[2] = "client" THEN "receiving" ELSE "sendInit"

\* Where an exception takes the task: out of the exchange, or to the guard.
Thrown(e) == IF task[e] \in {"sendInit", "recvInit"} THEN "dropping" ELSE "closing"

-----------------------------------------------------------------------------
(* Positions.                                                              *)

EndAt(e, k) == IF k = 0 THEN 0 ELSE begun[e][k].end

\* Is the frame last begun still not written to its end?
Unfinished(e) == written[e] < EndAt(e, Len(begun[e]))

InTransit(e) == written[e] - read[Peer(e)]

numRead(e) == read[e] - EndAt(Peer(e), got[e])

\* The frame whose bytes receive() is reading.
Incoming(e) == begun[Peer(e)][got[e] + 1]

\* How long it is; and when only the header is read.
SizeOfHeader(e) == HeaderSize

totalSize(e) == Incoming(e).body.size

\* How much the next read() asks for; and when the first loop's bytes are not
\* subtracted in the second.
WantedAnew(e) ==
  IF numRead(e) < HeaderInfoSize THEN HeaderInfoSize - numRead(e) ELSE totalSize(e)

Wanted(e) ==
  IF numRead(e) < HeaderInfoSize THEN HeaderInfoSize - numRead(e)
                                 ELSE totalSize(e) - numRead(e)

\* TunnelFrameHeaderInfo::check on what the peer's writers produce; and when
\* the version is not looked at.
AnyVersion(e) == totalSize(e) <= FrameMax

CheckPasses(e) ==
  /\ version[Peer(e)] = version[e]
  /\ totalSize(e) <= FrameMax

\* Does the connection carry what this end writes?  A write to one that is
\* broken, or that the peer has closed, fails or reaches no one.
Carries(e) == fd[e] # -1 /\ ~ broken[e[1]] /\ ~ Gone(Peer(e))

-----------------------------------------------------------------------------
(* The task of addSocket and its descriptor.                               *)

\* connect() and accept() return the lowest number that is not in use.
OpenAt(side) == {fd[<<c, side>>] : c \in Conns}

IsLowestFree(side, n) ==
  /\ n \notin OpenAt(side)
  /\ 1..(n - 1) \subseteq OpenAt(side)

Made == {c \in Conns : task[<<c, "client">>] # "absent"}

Opens(e) ==
  /\ task[e] = "absent"
  /\ faults <= MaxFaults[Cardinality(Made \cup {e[1]})]
  /\ ReuseDescriptors \/ \A c \in Conns : loaded[<<c, e[2]>>] = None
  /\ \E n \in 1..Cardinality(Conns) :
       IsLowestFree(e[2], n) /\ fd' = [fd EXCEPT ![e] = n]
  /\ task' = [task EXCEPT ![e] = FirstTask(e)]
  /\ UNCHANGED <<loaded, sendVars, receiveVars, version, broken, strayed, faults>>

Connect(c) == Opens(<<c, "client">>)

Accept(c) == task[<<c, "client">>] # "absent" /\ Opens(<<c, "server">>)

\* Who closes: the guard of the task, and the destructor of a stream that never
\* got to be registered; and when only the guard does.
ClosedByGuard(e) == task[e] = "closing"

ClosedNow(e) == task[e] \in {"dropping", "closing"}

\* A sender may have read _fd for its next write.
Close(e) ==
  /\ ClosedNow(e)
  /\ fd' = [fd EXCEPT ![e] = -1]
  /\ loaded' = [loaded EXCEPT ![e] = IF busy[e] THEN fd[e] ELSE None]
  /\ task' = [task EXCEPT ![e] = "done"]
  /\ UNCHANGED <<sendVars, receiveVars, version, broken, strayed, faults>>

-----------------------------------------------------------------------------
(* send().                                                                 *)

Begins(e, kind, f) ==
  /\ Carries(e)
  /\ ~ busy[e]
  /\ Len(begun[e]) < MaxFrames[e]
  /\ busy' = [busy EXCEPT ![e] = TRUE]
  /\ begun' =
       [begun EXCEPT
          ![e] = Append(@, [kind |-> kind, body |-> f,
                            end |-> EndAt(e, Len(begun[e])) + f.size])]
  /\ UNCHANGED <<fd, loaded, task, written, receiveVars, version, broken,
                 strayed, faults>>

BeginInit(e) ==
  /\ task[e] = "sendInit"
  /\ Begins(e, "init", InitFrame)

BeginSend(e, f) ==
  /\ task[e] \in Registered
  /\ Begins(e, "data", f)

\* A write() that takes n bytes: there is room for them.
Write(e, n) ==
  /\ busy[e]
  /\ Carries(e)
  /\ n <= EndAt(e, Len(begun[e])) - written[e]
  /\ n <= Capacity - InTransit(e)
  /\ written' = [written EXCEPT ![e] = @ + n]
  /\ UNCHANGED <<fd, loaded, task, busy, begun, receiveVars, version, broken,
                 strayed, faults>>

\* send() returns; in the exchange, to the next step of it.
Returned(e) ==
  /\ busy' = [busy EXCEPT ![e] = FALSE]
  /\ loaded' = [loaded EXCEPT ![e] = None]
  /\ task' =
       [task EXCEPT ![e] = IF @ = "sendInit" THEN AfterInitSent(e) ELSE @]
  /\ UNCHANGED <<fd, begun, written, receiveVars, version, broken, strayed, faults>>

SendDone(e) ==
  /\ busy[e]
  /\ ~ Unfinished(e)
  /\ Returned(e)

Sending(e) == busy[e] \/ task[e] = "sendInit"

\* The kernel takes the rest of the frame, which reaches no one.
SendLost(e) ==
  /\ Sending(e)
  /\ fd[e] # -1
  /\ ~ Carries(e)
  /\ Returned(e)

\* write() throws: the number is -1 or refers to nothing, or the connection is
\* known to be down.  (Where it raises SIGPIPE instead: Crash.)
SendFails(e) ==
  /\ Sending(e)
  /\ ~ Carries(e)
  /\ busy' = [busy EXCEPT ![e] = FALSE]
  /\ loaded' = [loaded EXCEPT ![e] = None]
  /\ task' = [task EXCEPT ![e] = IF @ = "sendInit" THEN "dropping" ELSE @]
  /\ UNCHANGED <<fd, begun, written, receiveVars, version, broken, strayed, faults>>

\* The number that a sender had read has become that of another connection:
\* the rest of the frame goes there.  What follows is not pursued, and with
\* ReuseDescriptors FALSE it cannot happen: it is not a part of StreamNext.
Stray(e, x) ==
  /\ busy[e]
  /\ loaded[e] # None
  /\ Unfinished(e)
  /\ x[2] = e[2]
  /\ fd[x] = loaded[e]
  /\ strayed' = strayed \cup {<<e, x>>}
  /\ loaded' = [loaded EXCEPT ![e] = None]
  /\ UNCHANGED <<fd, task, sendVars, receiveVars, version, broken, faults>>

-----------------------------------------------------------------------------
(* receive().                                                              *)

\* A read() that returns n bytes; after the last byte of the header's first
\* part the frame is checked.
Read(e, n) ==
  /\ task[e] \in Receiving
  /\ n <= InTransit(Peer(e))
  /\ n <= Wanted(e)
  /\ read' = [read EXCEPT ![e] = @ + n]
  /\ IF numRead(e) + n = HeaderInfoSize /\ ~ CheckPasses(e)
       THEN task' = [task EXCEPT ![e] = Thrown(e)]
       ELSE UNCHANGED task
  /\ UNCHANGED <<fd, loaded, sendVars, got, version, broken, strayed, faults>>

\* receive() returns; the exchange wants a first datagram, or throws.
Receive(e) ==
  /\ task[e] \in Receiving
  /\ numRead(e) >= HeaderInfoSize
  /\ numRead(e) >= totalSize(e)
  /\ IF numRead(e) = totalSize(e)
       THEN /\ got' = [got EXCEPT ![e] = @ + 1]
            /\ task' = [task EXCEPT ![e] =
                 IF @ = "receiving" THEN "handling"
                 ELSE IF HasNext(Incoming(e).body, 0) THEN AfterInitReceived(e)
                                                      ELSE "dropping"]
       ELSE /\ task' = [task EXCEPT ![e] = "asserted"]
            /\ UNCHANGED got
  /\ UNCHANGED <<fd, loaded, sendVars, read, version, broken, strayed, faults>>

\* read() throws: nothing is left and the peer has closed, the peer has closed
\* with bytes unread (a reset), or the network has given up.
ReadFails(e) ==
  /\ task[e] \in Receiving
  /\ \/ broken[e[1]]
     \/ Gone(Peer(e)) /\ (InTransit(Peer(e)) = 0 \/ InTransit(e) > 0)
  /\ task' = [task EXCEPT ![e] = Thrown(e)]
  /\ UNCHANGED <<fd, loaded, sendVars, receiveVars, version, broken, strayed, faults>>

\* pipeInvokePrev returns, or throws; and when what it throws is ignored.
Handled(e) ==
  /\ task[e] = "handling"
  /\ task' = [task EXCEPT ![e] = "receiving"]
  /\ UNCHANGED <<fd, loaded, sendVars, receiveVars, version, broken, strayed, faults>>

FailureIgnored(e) ==
  /\ task[e] = "handling"
  /\ UNCHANGED streamVars

HandleFails(e) ==
  /\ task[e] = "handling"
  /\ task' = [task EXCEPT ![e] = Thrown(e)]
  /\ UNCHANGED <<fd, loaded, sendVars, receiveVars, version, broken, strayed, faults>>

-----------------------------------------------------------------------------
(* The environment.                                                        *)

Fault ==
  /\ faults < MaxFaults[Cardinality(Made)]
  /\ faults' = faults + 1

Break(c) ==
  /\ Fault
  /\ c \in Made /\ ~ broken[c]
  /\ broken' = [broken EXCEPT ![c] = TRUE]
  /\ UNCHANGED <<fd, loaded, task, sendVars, receiveVars, version, strayed>>

\* The process at one side ends: SIGPIPE, a failed assertion, a signal.  The
\* kernel closes its connections, those it has not accepted too.  Connections
\* made later are those of the process that is started after it.
Crash(side) ==
  /\ Fault
  /\ \E c \in Made : ~ Gone(<<c, side>>)
  /\ LET here(e) == e[2] = side /\ e[1] \in Made IN
     /\ fd' = [e \in Ends |-> IF here(e) THEN -1 ELSE fd[e]]
     /\ loaded' = [e \in Ends |-> IF here(e) THEN None ELSE loaded[e]]
     /\ task' = [e \in Ends |-> IF here(e) THEN "done" ELSE task[e]]
     /\ busy' = [e \in Ends |-> IF here(e) THEN FALSE ELSE busy[e]]
  /\ UNCHANGED <<begun, written, receiveVars, version, broken, strayed>>

-----------------------------------------------------------------------------

StreamInit ==
  /\ fd = [e \in Ends |-> -1]
  /\ loaded = [e \in Ends |-> None]
  /\ task = [e \in Ends |-> "absent"]
  /\ busy = [e \in Ends |-> FALSE]
  /\ begun = [e \in Ends |-> <<>>]
  /\ written = [e \in Ends |-> 0]
  /\ read = [e \in Ends |-> 0]
  /\ got = [e \in Ends |-> 0]
  /\ version \in [Ends -> Versions]
  /\ \A c \in Conns :
       /\ version[<<c, "client">>] \in ClientVersions[c]
       /\ version[<<c, "server">>] = ServerVersion
  /\ broken = [c \in Conns |-> FALSE]
  /\ strayed = {}
  /\ faults = 0

\* The steps of the threads in send(), in receive() and in the task.
Sends(e) ==
  \/ BeginInit(e)
  \/ \E n \in 1..Capacity : Write(e, n)
  \/ SendDone(e) \/ SendLost(e) \/ SendFails(e)

Receives(e) ==
  \/ \E n \in 1..Capacity : Read(e, n)
  \/ Receive(e)
  \/ ReadFails(e)

StreamStep ==
  \/ \E c \in Conns : Connect(c) \/ Accept(c) \/ Break(c)
  \/ \E s \in Sides : Crash(s)
  \/ \E e \in Ends :
       \/ Sends(e) \/ Receives(e) \/ Close(e)
       \/ \E f \in Frames : BeginSend(e, f)

\* For a user of the stream that takes what is received in one step.
StreamNext == StreamStep \/ \E e \in Ends : Handled(e) \/ HandleFails(e)

StreamSpec == StreamInit /\ [][StreamNext]_streamVars

-----------------------------------------------------------------------------
(* What must hold.                                                         *)

\* Every variable keeps its type; no more is read than was written, and no
\* more is on its way than the connection holds.
StreamTypeOK ==
  /\ fd \in [Ends -> Int]
  /\ loaded \in [Ends -> Int \cup {None}]
  /\ task \in [Ends -> TaskStates]
  /\ busy \in [Ends -> BOOLEAN]
  /\ begun \in [Ends -> Seq([kind : {"init", "data"},
                             body : Frames \cup {InitFrame}, end : Nat])]
  /\ written \in [Ends -> Nat]
  /\ read \in [Ends -> Nat]
  /\ got \in [Ends -> Nat]
  /\ version \in [Ends -> Versions]
  /\ broken \in [Conns -> BOOLEAN]
  /\ strayed \subseteq Ends \X Ends
  /\ faults \in Nat
  /\ \A e \in Ends : InTransit(e) \in 0..Capacity

\* The receiver stays in step with the sender's frames: it reads into its
\* buffer no more than one frame, the assertion after its loops never fails,
\* and it never takes the middle of a frame for a header.
InStep ==
  \A e \in Ends :
    /\ task[e] # "asserted"
    /\ got[e] <= Len(begun[Peer(e)])
    /\ numRead(e) \in 0..FrameMax
    /\ numRead(e) > 0 => got[e] < Len(begun[Peer(e)]) /\ numRead(e) <= totalSize(e)

\* The frame with number 0 is the first of its direction and no other, and no
\* frame of the tunnel is sent before the peer's initial frame has come.
ExchangeFirst ==
  \A e \in Ends :
    /\ \A i \in DOMAIN begun[e] : begun[e][i].kind = "init" <=> i = 1
    /\ Len(begun[e]) > 1 => got[e] > 0

\* There is something to receive: bytes on their way, or a frame that has come
\* in to its end.
Readable(e) ==
  \/ InTransit(Peer(e)) > 0
  \/ 0 < numRead(e) /\ numRead(e) = totalSize(e)

\* The two ends do not wait for each other: while one waits for the initial
\* frame there is something to receive for it, or for the other if that waits
\* too, or the other is not at its turn yet, sends, or leaves.
ExchangeNotStuck ==
  \A e \in Ends :
    task[e] = "recvInit" /\ ~ broken[e[1]] =>
      \/ Readable(e)
      \/ task[Peer(e)] = "recvInit" /\ Readable(Peer(e))
      \/ task[Peer(e)] \in {"absent", "sendInit", "dropping", "closing", "done"}

\* A frame that was given to send() and has not been received yet has something
\* to receive under way, or a thread that can write on: sender and receiver do
\* not wait for each other, however little the connection holds.
NoFrameStranded ==
  \A e \in Ends :
    got[Peer(e)] < Len(begun[e]) /\ Carries(e) =>
      \/ Readable(Peer(e))
      \/ busy[e] /\ Unfinished(e) /\ InTransit(e) < Capacity

\* Nothing is taken from, or sent to, a peer of another version, but for the
\* initial frame of the client.
OtherVersionsRefused ==
  \A c \in Conns :
    version[<<c, "client">>] # version[<<c, "server">>] =>
      /\ got[<<c, "client">>] = 0 /\ got[<<c, "server">>] = 0
      /\ Len(begun[<<c, "client">>]) <= 1
      /\ begun[<<c, "server">>] = <<>>

\* What is sent on a socket goes to that socket.
FramesOnOwnSocket == strayed = {}

\* The two directions of every connection are channels of whole frames.
Whole(e) == IF Unfinished(e) THEN Len(begun[e]) - 1 ELSE Len(begun[e])

Bodies(e, k) == [i \in 1..k |-> begun[e][i].body]

Channel ==
  INSTANCE FrameChannel
    WITH Ends <- Ends, Partner <- Peer, Frames <- Frames \cup {InitFrame},
         sent <- [e \in Ends |-> Bodies(e, Whole(e))],
         received <- [e \in Ends |-> Bodies(Peer(e), got[e])]

ChannelImplemented == Channel!Spec
=============================================================================
