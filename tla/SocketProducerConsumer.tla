----------------------- MODULE SocketProducerConsumer -----------------------
(***************************************************************************)
(* native/common/socket_producer_consumer.{h,cpp}: the last pipe of the    *)
(* chain.  Threads of the tunnel producer/consumer (Senders) call          *)
(* onTunnelFrameFromPrev concurrently to send a frame on a stream nobody   *)
(* is using; every socket has a thread of its own that exchanges the       *)
(* initial frame, registers the socket as a stream of its session,         *)
(* receives until the connection fails, and unregisters the stream and,    *)
(* with the last one, the session.                                         *)
(*                                                                         *)
(* Locks.  A critical section of session.mutex, and a section that holds   *)
(* _mutex exclusively, contains no blocking call: each is one action.      *)
(* _mutex held shared lasts for several actions (it is held across the     *)
(* wait on session.cv), so its holders are those of Readers.               *)
(*                                                                         *)
(* Session objects.  A session object lives in _sessions from the          *)
(* registration that emplaces it to the unregistration that finds its list *)
(* of streams empty; another with the same SessionId is another object.    *)
(* An object is named by the socket whose registration created it.         *)
(***************************************************************************)
EXTENDS Naturals, Sequences, FiniteSets, SequencesExt

CONSTANTS
  Senders,         \* the threads of the tunnel producer/consumer
  Sockets,         \* the sockets ever passed to addSocket
  SessionIds,      \* the session identifiers a peer may present
  ClientSessionId, \* _clientSessionId: None when run as a server
  PoolSize,        \* number of threads of _pool
  MaxSeq,          \* bound: last sequence number a session assigns
  WriterPreference,\* does a thread waiting for _mutex exclusively keep new
                   \* readers out?  FALSE with glibc's default rwlock
  None             \* no socket, no session

ASSUME SendersAssumption == None \notin Senders
ASSUME SocketsAssumption == None \notin Sockets
ASSUME SessionsAssumption == None \notin SessionIds
ASSUME ClientAssumption == ClientSessionId \in SessionIds \cup {None}
ASSUME PoolSizeAssumption == PoolSize \in Nat \ {0}
ASSUME MaxSeqAssumption == MaxSeq \in Nat
ASSUME WriterPreferenceAssumption == WriterPreference \in BOOLEAN

VARIABLES
  sessions,    \* _sessions: SessionId -> the session object, or None
  streams,     \* session object -> Session::streams
  nextSeq,     \* session object -> Session::nextSeqNum
  inUse,       \* stream -> StreamTracker::inUse
  pc,          \* where each sender is in onTunnelFrameFromPrev
  ref,         \* sender -> the session object its `session` refers to
  st,          \* sender -> the stream its `st` refers to
  seq,         \* sender -> the sequence number in its buffer
  sock,        \* where each socket's thread is in the task of addSocket
  ident,       \* socket -> ier.sessionId
  home,        \* socket -> the session object its `session` refers to
  wire,        \* history: sequence numbers of the frames fully sent
  dtor,        \* where the destructor is
  fault        \* how the process ended, or "none"

sessionVars == <<sessions, streams, nextSeq>>
senderVars == <<pc, ref, st, seq>>
socketVars == <<sock, ident, home>>
vars == <<sessions, streams, nextSeq, inUse, pc, ref, st, seq,
          sock, ident, home, wire, dtor, fault>>

kInitFrameSeqNum == 0

-----------------------------------------------------------------------------
(* The states of the two kinds of threads.                                 *)

\* Inside onTunnelFrameFromPrev with _mutex held shared.  A sender that locks
\* the mutex of a freed session may never return ("hung").
ReaderStates == {"select", "asleep", "woken", "hung"}

\* Between the two unlocks of lines 259-260 and the end of the guard `sg`.
HolderStates == {"sending", "sent", "failed"}

SenderStates == {"idle", "backoff", "dead"} \cup ReaderStates \cup HolderStates

\* The streams in the list of some session.
RegisteredStates == {"loop", "receiving", "closing", "unregistering"}

\* The states in which a thread of _pool is running the socket's task.
RunningStates == {"exchange", "registering"} \cup RegisteredStates

SocketStates == {"absent", "posted", "done"} \cup RunningStates

\* The threads that hold _mutex shared; and if the wait on session.cv
\* released it.
ReadersNotWaiting == {t \in Senders : pc[t] \in {"select", "hung"}}

Readers == {t \in Senders : pc[t] \in ReaderStates}

Inside(t) == pc[t] \in ReaderStates \cup HolderStates
Holds(t, s) == pc[t] \in HolderStates /\ st[t] = s

Live(o) == o # None /\ \E i \in SessionIds : sessions[i] = o
LiveSessions == {o \in Sockets : Live(o)}

CanLockExclusive == Readers = {}

NoWriterWaits ==
  \A s \in Sockets : sock[s] \notin {"registering", "unregistering"}

CanLockShared == WriterPreference => NoWriterWaits

\* The process is running and this step does not end it.
Running == fault = "none" /\ UNCHANGED fault

\* A step of a socket's thread, or of a sender, that only moves it.
SocketMoves(s, from, to) ==
  /\ Running
  /\ sock[s] = from
  /\ sock' = [sock EXCEPT ![s] = to]
  /\ UNCHANGED <<sessionVars, senderVars, inUse, ident, home, wire, dtor>>

SenderMoves(t, from, to) ==
  /\ Running
  /\ pc[t] = from
  /\ pc' = [pc EXCEPT ![t] = to]
  /\ UNCHANGED <<sessionVars, ref, st, seq, inUse, socketVars, wire, dtor>>

\* A step that ends the process.
Ends(how) ==
  /\ fault = "none"
  /\ fault' = how
  /\ UNCHANGED <<sessionVars, senderVars, socketVars, inUse, wire, dtor>>

-----------------------------------------------------------------------------
(* addSocket and the task it posts.                                        *)

\* The system calls that may throw precede the post and leave no trace.  The
\* owner of the object calls both addSocket and the destructor.
AddSocket(s) == dtor = "running" /\ SocketMoves(s, "absent", "posted")

StartTask(s) ==
  /\ Cardinality({r \in Sockets : sock[r] \in RunningStates}) < PoolSize
  /\ SocketMoves(s, "posted", "exchange")

\* initialTunnelFrameExchange returns, its own initial frame on the wire.  A
\* client's server echoes the id it was sent; a server takes what it is sent.
ExchangeOk(s, i) ==
  /\ Running
  /\ sock[s] = "exchange"
  /\ ClientSessionId # None => i = ClientSessionId
  /\ sock' = [sock EXCEPT ![s] = "registering"]
  /\ ident' = [ident EXCEPT ![s] = i]
  /\ wire' = [wire EXCEPT ![s] = <<kInitFrameSeqNum>>]
  /\ UNCHANGED <<sessionVars, senderVars, inUse, home, dtor>>

ExchangeFails(s) == SocketMoves(s, "exchange", "done")

\* Session::Session, and two ways to get its first number wrong.
EmplaceSessionAtInit(i, o) ==
  /\ sessions' = [sessions EXCEPT ![i] = o]
  /\ nextSeq' = [nextSeq EXCEPT ![o] = kInitFrameSeqNum]

EmplaceSessionBeforeInit(i, o) ==
  /\ sessions' = [sessions EXCEPT ![i] = o]
  /\ nextSeq' = [nextSeq EXCEPT ![o] = kInitFrameSeqNum - 1]

EmplaceSession(i, o) ==
  /\ sessions' = [sessions EXCEPT ![i] = o]
  /\ nextSeq' = [nextSeq EXCEPT ![o] = kInitFrameSeqNum + 1]

\* Lines 162-201: find or emplace the session, append the stream.
Register(s) ==
  /\ Running
  /\ sock[s] = "registering"
  /\ CanLockExclusive
  /\ \E o \in Sockets :
       /\ \/ sessions[ident[s]] = o /\ UNCHANGED <<sessions, nextSeq>>
          \/ LiveSessions = {} /\ o = s /\ EmplaceSession(ident[s], o)
       /\ home' = [home EXCEPT ![s] = o]
       /\ streams' = [streams EXCEPT ![o] = Append(@, s)]
  /\ sock' = [sock EXCEPT ![s] = "loop"]
  /\ UNCHANGED <<senderVars, inUse, ident, wire, dtor>>

\* Line 171: a second session id.  The exception leaves the task, hence a
\* thread of the pool, and std::terminate ends the process.
SecondSession(s) ==
  /\ sock[s] = "registering"
  /\ CanLockExclusive
  /\ sessions[ident[s]] = None
  /\ LiveSessions # {}
  /\ Ends("terminate")

\* The head of _receiveFromSocketLoop's loop: _interrupted is the destructor's.
CheckInterrupted(s) ==
  SocketMoves(s, "loop", IF dtor = "running" THEN "receiving" ELSE "closing")

\* receive() and pipeInvokePrev: a frame goes up the chain, or one of them
\* throws (connection closed, malformed frame, tunnel device gone).
Receive(s) ==
  \E next \in {"loop", "closing"} : SocketMoves(s, "receiving", next)

\* The task's guard `sg` closes the stream before it locks _mutex.
CloseStream(s) == SocketMoves(s, "closing", "unregistering")

\* list::erase of the task's own iterator; not the last element of the list.
EraseLast(list, s) == Front(list)

Erase(list, s) == RemoveAt(list, CHOOSE k \in DOMAIN list : list[k] = s)

\* eraseSession of line 191; and a session that is never erased.
NeverDrained(list) == FALSE

Drained(list) == list = <<>>

\* Lines 186-193.
Unregister(s) ==
  /\ Running
  /\ sock[s] = "unregistering"
  /\ CanLockExclusive
  /\ LET o == sessions[ident[s]]
         rest == Erase(streams[o], s)
     IN /\ streams' = [streams EXCEPT ![o] = rest]
        /\ sessions' = IF Drained(rest) THEN [sessions EXCEPT ![ident[s]] = None]
                                        ELSE sessions
  /\ sock' = [sock EXCEPT ![s] = "done"]
  /\ UNCHANGED <<senderVars, nextSeq, inUse, ident, home, wire, dtor>>

-----------------------------------------------------------------------------
(* onTunnelFrameFromPrev.                                                  *)

\* Lines 218-221, reached through pipeInvokeNext of the pipes above: there is
\* no session, or the destructor has already detached this pipe from them.
CallNotReady(t) ==
  /\ \/ dtor \in {"popping", "gone"}
     \/ CanLockShared /\ LiveSessions = {}
  /\ SenderMoves(t, "idle", "backoff")

\* Lines 218-236: the frame gets its number before session.mutex is locked.
Call(t) ==
  /\ Running
  /\ pc[t] = "idle"
  /\ dtor \in {"running", "joining"}
  /\ CanLockShared
  /\ \E o \in LiveSessions :
       /\ nextSeq[o] <= MaxSeq
       /\ ref' = [ref EXCEPT ![t] = o]
       /\ seq' = [seq EXCEPT ![t] = nextSeq[o]]
       /\ nextSeq' = [nextSeq EXCEPT ![o] = @ + 1]
  /\ pc' = [pc EXCEPT ![t] = "select"]
  /\ UNCHANGED <<sessions, streams, st, inUse, socketVars, wire, dtor>>

\* The caller sleeps and tries again.
Retry(t) == SenderMoves(t, "backoff", "idle")

\* The first stream of the list that is not in use; not just the first.
FirstInList(o, s) == streams[o] # <<>> /\ s = Head(streams[o])

FirstFree(o, s) ==
  \E k \in DOMAIN streams[o] :
    /\ streams[o][k] = s
    /\ ~ inUse[s]
    /\ \A j \in 1..(k - 1) : inUse[streams[o][j]]

\* Lines 256-260.
Take(t, s) ==
  /\ inUse' = [inUse EXCEPT ![s] = TRUE]
  /\ pc' = [pc EXCEPT ![t] = "sending"]

\* Lines 238-260: take the first free stream, or wait for the first stream.
Select(t) ==
  /\ Running
  /\ pc[t] = "select"
  /\ \E s \in Sockets :
       /\ st' = [st EXCEPT ![t] = s]
       /\ \/ FirstFree(ref[t], s) /\ Take(t, s)
          \/ /\ \A k \in DOMAIN streams[ref[t]] : inUse[streams[ref[t]][k]]
             /\ s = Head(streams[ref[t]])
             /\ pc' = [pc EXCEPT ![t] = "asleep"]
             /\ UNCHANGED inUse
  /\ UNCHANGED <<sessionVars, ref, seq, socketVars, wire, dtor>>

\* session.cv.wait may return although nobody notified it.
SpuriousWakeup(t) == SenderMoves(t, "asleep", "woken")

\* The predicate of the wait, evaluated with session.mutex held; and a wait
\* that trusts the notification.
NoPredicate(t) == TRUE

StreamFree(t) == ~ inUse[st[t]]

Recheck(t) ==
  /\ Running
  /\ pc[t] = "woken"
  /\ \/ StreamFree(t) /\ Take(t, st[t])
     \/ ~ StreamFree(t) /\ pc' = [pc EXCEPT ![t] = "asleep"] /\ UNCHANGED inUse
  /\ UNCHANGED <<sessionVars, ref, st, seq, socketVars, wire, dtor>>

StreamOpen(s) == sock[s] \in {"loop", "receiving", "closing"}

\* TunnelFrameStream::send returns: the receiver has not closed the stream.
SendDone(t) ==
  /\ Running
  /\ pc[t] = "sending"
  /\ StreamOpen(st[t])
  /\ pc' = [pc EXCEPT ![t] = "sent"]
  /\ wire' = [wire EXCEPT ![st[t]] = Append(@, seq[t])]
  /\ UNCHANGED <<sessionVars, ref, st, seq, inUse, socketVars, dtor>>

\* It throws SystemException: the receiver closed the stream, or the
\* connection is broken.
SendFails(t) == SenderMoves(t, "sending", "failed")

\* The kernel raises SIGPIPE, which the program neither handles nor ignores,
\* before ::write returns EPIPE.
SigPipe(t) == pc[t] = "sending" /\ StreamOpen(st[t]) /\ Ends("sigpipe")

\* The threads notify_one of line 268 may wake; and when the notification is
\* not in the guard but after a send that succeeded.
WaitersIfSent(t) ==
  {u \in Senders : pc[t] = "sent" /\ pc[u] = "asleep" /\ ref[u] = ref[t]}

Waiters(t) == {u \in Senders : pc[u] = "asleep" /\ ref[u] = ref[t]}

\* After the guard: the call returns, or its exception ends the thread.
Returned(t) == IF pc[t] = "sent" THEN "idle" ELSE "dead"

\* The guard `sg`, lines 262-269: both locks again.
Release(t) ==
  /\ Running
  /\ pc[t] \in {"sent", "failed"}
  /\ CanLockShared
  /\ Live(ref[t])
  /\ inUse' = [inUse EXCEPT ![st[t]] = FALSE]
  /\ \/ Waiters(t) = {} /\ pc' = [pc EXCEPT ![t] = Returned(t)]
     \/ \E u \in Waiters(t) : pc' = [pc EXCEPT ![t] = Returned(t), ![u] = "woken"]
  /\ UNCHANGED <<sessionVars, ref, st, seq, socketVars, wire, dtor>>

\* The guard when its `session` was erased during the send: undefined
\* behaviour.  The freed mutex and condition variable seem intact, or the
\* mutex seems locked for ever, or the process is brought down.
ReleaseFreed(t) ==
  /\ Running
  /\ pc[t] \in {"sent", "failed"}
  /\ CanLockShared
  /\ ~ Live(ref[t])
  /\ \/ /\ inUse' = [inUse EXCEPT ![st[t]] = FALSE]
        /\ pc' = [pc EXCEPT ![t] = Returned(t)]
     \/ /\ pc' = [pc EXCEPT ![t] = "hung"]
        /\ UNCHANGED inUse
  /\ UNCHANGED <<sessionVars, ref, st, seq, socketVars, wire, dtor>>

CrashFreed(t) ==
  /\ pc[t] \in {"sent", "failed"}
  /\ CanLockShared
  /\ ~ Live(ref[t])
  /\ Ends("corrupt")

-----------------------------------------------------------------------------
(* ~SocketProducerConsumer.                                                *)

DtorMoves(from, to) ==
  /\ Running
  /\ dtor = from
  /\ dtor' = to
  /\ UNCHANGED <<sessionVars, senderVars, socketVars, inUse, wire>>

\* _interrupted.store(true).
BeginDestroy == DtorMoves("running", "joining")

\* _pool.join() waits for every posted task; not just for the loops.
LoopsEnded == \A s \in Sockets : sock[s] \notin {"loop", "receiving"}

TasksEnded == \A s \in Sockets : sock[s] \in {"absent", "done"}

\* join returns and pipePop detaches the pipe from the one above.
JoinPool == TasksEnded /\ DtorMoves("joining", "popping")

\* pipePop returns when no call is inside.
FinishDestroy ==
  (\A t \in Senders : ~ Inside(t)) /\ DtorMoves("popping", "gone")

-----------------------------------------------------------------------------
Init ==
  /\ sessions = [i \in SessionIds |-> None]
  /\ streams = [o \in Sockets |-> <<>>]
  /\ nextSeq = [o \in Sockets |-> kInitFrameSeqNum + 1]
  /\ inUse = [s \in Sockets |-> FALSE]
  /\ pc = [t \in Senders |-> "idle"]
  /\ ref = [t \in Senders |-> None]
  /\ st = [t \in Senders |-> None]
  /\ seq = [t \in Senders |-> kInitFrameSeqNum]
  /\ sock = [s \in Sockets |-> "absent"]
  /\ ident = [s \in Sockets |-> None]
  /\ home = [s \in Sockets |-> None]
  /\ wire = [s \in Sockets |-> <<>>]
  /\ dtor = "running"
  /\ fault = "none"

SocketStep(s) ==
  \/ AddSocket(s)
  \/ StartTask(s)
  \/ \E i \in SessionIds : ExchangeOk(s, i)
  \/ ExchangeFails(s)
  \/ Register(s)
  \/ SecondSession(s)
  \/ CheckInterrupted(s)
  \/ Receive(s)
  \/ CloseStream(s)
  \/ Unregister(s)

SenderStep(t) ==
  \/ CallNotReady(t)
  \/ Call(t)
  \/ Retry(t)
  \/ Select(t)
  \/ SpuriousWakeup(t)
  \/ Recheck(t)
  \/ SendDone(t)
  \/ SendFails(t)
  \/ SigPipe(t)
  \/ Release(t)
  \/ ReleaseFreed(t)
  \/ CrashFreed(t)

Next ==
  \/ \E s \in Sockets : SocketStep(s)
  \/ \E t \in Senders : SenderStep(t)
  \/ BeginDestroy
  \/ JoinPool
  \/ FinishDestroy

Spec == Init /\ [][Next]_vars

\* What the scheduler and the locks owe every thread.  No fairness for the
\* peers (Exchange*, Receive), for the owner (AddSocket, BeginDestroy), for
\* new traffic (Call, Retry) or for spurious wake-ups.
ThreadFairness ==
  /\ \A s \in Sockets :
       /\ WF_vars(StartTask(s))
       /\ WF_vars(Register(s) \/ SecondSession(s))
       /\ WF_vars(CheckInterrupted(s))
       /\ WF_vars(CloseStream(s))
       /\ WF_vars(Unregister(s))
  /\ \A t \in Senders :
       /\ WF_vars(Select(t))
       /\ WF_vars(Recheck(t))
       /\ WF_vars(Release(t) \/ ReleaseFreed(t))
  /\ WF_vars(JoinPool)
  /\ WF_vars(FinishDestroy)

\* Every peer reads what it is sent, or its connection breaks.
PeersDrain == \A t \in Senders : WF_vars(SendDone(t) \/ SendFails(t))

FairSpec == Spec /\ ThreadFairness /\ PeersDrain

-----------------------------------------------------------------------------
(* Safety.                                                                 *)

TypeOK ==
  /\ sessions \in [SessionIds -> Sockets \cup {None}]
  /\ streams \in [Sockets -> Seq(Sockets)]
  /\ nextSeq \in [Sockets -> Nat]
  /\ inUse \in [Sockets -> BOOLEAN]
  /\ pc \in [Senders -> SenderStates]
  /\ ref \in [Senders -> Sockets \cup {None}]
  /\ st \in [Senders -> Sockets \cup {None}]
  /\ seq \in [Senders -> Nat]
  /\ sock \in [Sockets -> SocketStates]
  /\ ident \in [Sockets -> SessionIds \cup {None}]
  /\ home \in [Sockets -> Sockets \cup {None}]
  /\ wire \in [Sockets -> Seq(Nat)]
  /\ dtor \in {"running", "joining", "popping", "gone"}
  /\ fault \in {"none", "terminate", "sigpipe", "corrupt"}

\* A sender that has taken the stream and has not given it back.
Occupies(t, s) == pc[t] \in HolderStates \cup {"hung"} /\ st[t] = s

\* Frames of two threads are never interleaved on one socket: a stream is in
\* use exactly while one thread is between the unlock and the guard of
\* onTunnelFrameFromPrev, whichever way the stream was chosen (free in the
\* list, or waited for) and whatever its receiver did meanwhile.
StreamHeldByOne ==
  \A s \in Sockets :
    /\ inUse[s] <=> \E t \in Senders : Occupies(t, s)
    /\ \A t, u \in Senders : Occupies(t, s) /\ Occupies(u, s) => t = u

\* The RASSERTs of lines 93, 225 and 230: at most one session is live under
\* at most one id, and none once the pool has been joined.
OneSession ==
  /\ \A i, j \in SessionIds : sessions[i] # None /\ sessions[j] # None => i = j
  /\ dtor \in {"popping", "gone"} => LiveSessions = {}

\* What the task's guard relies on when it dereferences find(sessionId) and
\* erases its own iterator (lines 188-189), unchecked: the session it
\* registered with is still the one under its id, and the list of a live
\* session holds its registered sockets, each exactly once.
EraseIsSafe ==
  \A s \in Sockets :
    sock[s] \in RegisteredStates =>
      /\ sessions[ident[s]] = home[s]
      /\ \E k \in DOMAIN streams[home[s]] :
           \A j \in DOMAIN streams[home[s]] : streams[home[s]][j] = s <=> j = k

\* A session that a sender can find has a stream: its[0] of line 251 is
\* never an uninitialised iterator.  And no list keeps a stream that left.
NoEmptySession ==
  \A o \in Sockets :
    /\ Live(o) => streams[o] # <<>>
    /\ \A k \in DOMAIN streams[o] : sock[streams[o][k]] \in RegisteredStates

\* Lines 238-254 use `session`, and after a wait of any length the iterator
\* its[0]: the session is still live and its[0] still its first stream, since
\* the shared lock is held across the wait.
WaiterIteratorValid ==
  \A t \in Senders :
    /\ pc[t] \in {"select", "asleep", "woken"} => Live(ref[t])
    /\ pc[t] \in {"asleep", "woken"} =>
         streams[ref[t]] # <<>> /\ st[t] = Head(streams[ref[t]])

\* notify_one is enough: while a thread sleeps on session.cv although the
\* stream it waits for is free, some thread of the same session has been
\* woken and has yet to look.
NoLostWakeup ==
  \A t \in Senders :
    pc[t] = "asleep" /\ ~ inUse[st[t]] =>
      \E u \in Senders : pc[u] = "woken" /\ ref[u] = ref[t]

\* Within a session object no two frames have the same number: neither two
\* on the wire of its streams, nor one on the wire and one on its way to it.
\* Data frames never carry the number of the initial frame, which comes first
\* on every stream.
FrameNumbersUnique ==
  /\ \A s \in Sockets :
       wire[s] # <<>> => \A k \in DOMAIN wire[s] : wire[s][k] = kInitFrameSeqNum <=> k = 1
  /\ \A r, s \in Sockets : home[r] = home[s] =>
       \A j \in 2..Len(wire[r]), k \in 2..Len(wire[s]) :
         wire[r][j] = wire[s][k] => r = s /\ j = k
  /\ \A t \in Senders : pc[t] \in {"select", "asleep", "woken", "sending"} =>
       /\ \A u \in Senders \ {t} :
            pc[u] \in {"select", "asleep", "woken", "sending"} /\ ref[u] = ref[t] => seq[u] # seq[t]
       /\ \A s \in Sockets : home[s] = ref[t] => ~ Contains(wire[s], seq[t])

\* Once the destructor has joined the pool, no frame reaches a wire and no
\* sender takes a stream: what is still inside fails and leaves.
QuietStep ==
  dtor \in {"popping", "gone"} =>
    /\ wire' = wire
    /\ \A t \in Senders : pc'[t] = "sending" => pc[t] = "sending"

QuietAfterJoin == [][QuietStep]_vars

-----------------------------------------------------------------------------
(* Liveness.                                                               *)

\* The process ended, or a thread is stuck in a freed mutex.
Damaged == fault # "none" \/ \E t \in Senders : pc[t] = "hung"

\* With finite traffic every call to onTunnelFrameFromPrev ends: a thread
\* that waits for its stream is not forgotten when the stream is released,
\* whether the send succeeded or threw.
CallsReturn ==
  \A t \in Senders : Inside(t) ~> (~ Inside(t) \/ Damaged)

\* With finite traffic, the stream of a broken connection leaves its session:
\* the senders and the waiters, which hold _mutex shared, do not keep its
\* receiver from unregistering it.
DeadStreamsLeave ==
  \A s \in Sockets : sock[s] = "closing" ~> (sock[s] = "done" \/ Damaged)

\* If the destructor never ends, it is for one reason: a receiver sits in a
\* receive of the initial exchange or of the loop for ever, its peer silent.
DestructorWaitsOnlyForPeers ==
  <>[](dtor \in {"joining", "popping"} /\ ~ Damaged) =>
    <>[](\E s \in Sockets : sock[s] \in {"exchange", "receiving"})

-----------------------------------------------------------------------------
(* The pool of streams this implements.                                    *)

PoolMembers == {s \in Sockets : sock[s] \in RegisteredStates}

PoolDeparted == {s \in Sockets : sock[s] = "done" /\ home[s] # None}

PoolHeld ==
  [t \in Senders |-> IF pc[t] \in HolderStates \cup {"hung"} THEN st[t] ELSE None]

Pool == INSTANCE StreamPool WITH
  Streams <- Sockets, members <- PoolMembers, departed <- PoolDeparted, held <- PoolHeld

\* What the threads see of the sessions, the locks and the sockets' tasks is
\* the pool of StreamPool: a stream is given to one thread at a time, and only
\* while it is in the list of its session.
PoolImplemented == Pool!PoolSpec

-----------------------------------------------------------------------------
(* Claims of the comments and tests, which the code does not keep.         *)

\* Comment at lines 164-166: the `session` reference outlives its users.  A
\* sender about to lock session.mutex in its guard finds the session live.
SessionOutlivesUsers ==
  \A t \in Senders : pc[t] \in {"sent", "failed"} => Live(ref[t])

\* tunnel_frame.h:74-75: the numbers of the frames a side sends are
\* consecutive; here, only as they follow each other on one stream of a
\* session with a single stream and no failed send.
SeqNumsConsecutive ==
  \A s \in Sockets :
    (home[s] # None /\ \A r \in Sockets \ {s} : home[r] # home[s]) =>
      \A k \in 2..Len(wire[s]) : wire[s][k] = wire[s][k - 1] + 1

\* common_test.cpp:266-280 destroys the object with an idle socket open.
DestructorTerminates == dtor = "joining" ~> (dtor = "gone" \/ Damaged)

\* Comment at lines 112-114: a full socket buffer makes the selection move
\* on to the next available socket.  No thread of a session is asleep, with
\* nobody woken to look again, while a stream of the session is free.
WaiterMovesOn ==
  \A t \in Senders :
    pc[t] = "asleep" /\ (\A u \in Senders : pc[u] # "woken") =>
      \A k \in DOMAIN streams[ref[t]] : inUse[streams[ref[t]][k]]
=============================================================================
