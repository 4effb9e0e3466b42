-------------------------- MODULE SocketPool_proofs --------------------------
(***************************************************************************)
(* SocketProducerConsumer implements StreamPool: its initial states map to *)
(* the empty pool, and every step maps to a stream that joins or leaves, a *)
(* thread that takes or gives up a stream, or a stutter.                   *)
(***************************************************************************)
EXTENDS SocketProducerConsumer_proofs

USE DEF ReaderStates, HolderStates, SenderStates, RegisteredStates, RunningStates, SocketStates,
        PoolMembers, PoolDeparted, PoolHeld, Pool!poolVars

\* The steps in which a socket neither enters nor leaves a list.
LEMMA SocketStutters ==
  ASSUME IInv, NEW s \in Sockets, NEW to \in SocketStates,
         sock' = [sock EXCEPT ![s] = to], UNCHANGED <<home, pc, st>>,
         sock[s] \in RegisteredStates <=> to \in RegisteredStates,
         sock[s] # "done", to = "done" => home[s] = None
  PROVE  UNCHANGED Pool!poolVars
<1>1. \A r \in Sockets : sock'[r] = IF r = s THEN to ELSE sock[r]
  BY DEF IInv, TypeOK
<1>2. \A r \in Sockets : sock'[r] \in RegisteredStates <=> sock[r] \in RegisteredStates
  BY <1>1
<1>3. \A r \in Sockets :
        sock'[r] = "done" /\ home'[r] # None <=> sock[r] = "done" /\ home[r] # None
  BY <1>1
<1>4. PoolMembers' = PoolMembers
  BY <1>2
<1>5. PoolDeparted' = PoolDeparted
  BY <1>3
<1> QED BY <1>4, <1>5

LEMMA SocketStepOfPool ==
  ASSUME IInv, NEW s \in Sockets, SocketStep(s)
  PROVE  [Pool!PoolNext]_(Pool!poolVars)
<1> USE DEF IInv, sessionVars, senderVars, socketVars
<1>t. TypeOK
  OBVIOUS
<1>m. ASSUME NEW from \in SocketStates, NEW to \in SocketStates, SocketMoves(s, from, to),
             from \in RegisteredStates <=> to \in RegisteredStates,
             from # "done", to = "done" => from = "exchange"
      PROVE  UNCHANGED Pool!poolVars
  <2>1. /\ sock[s] = from /\ sock' = [sock EXCEPT ![s] = to] /\ UNCHANGED <<home, pc, st>>
    BY <1>m DEF SocketMoves
  <2>2. to = "done" => home[s] = None
    BY <1>m, <2>1 DEF SocketLocals
  <2> QED BY <1>m, <2>1, <2>2, SocketStutters
<1>1. CASE AddSocket(s)
  BY <1>1, <1>m DEF AddSocket
<1>2. CASE StartTask(s)
  BY <1>2, <1>m DEF StartTask
<1>3. ASSUME NEW i \in SessionIds, ExchangeOk(s, i) PROVE UNCHANGED Pool!poolVars
  BY <1>3, SocketStutters DEF ExchangeOk
<1>4. CASE ExchangeFails(s)
  BY <1>4, <1>m DEF ExchangeFails
<1>5. CASE Register(s)
  <2>1. PICK o \in Sockets : home' = [home EXCEPT ![s] = o]
    BY <1>5 DEF Register
  <2>2. /\ sock[s] = "registering" /\ UNCHANGED <<pc, st>>
        /\ \A r \in Sockets : sock'[r] = IF r = s THEN "loop" ELSE sock[r]
        /\ \A r \in Sockets : home'[r] = IF r = s THEN o ELSE home[r]
    BY <1>5, <2>1 DEF Register, TypeOK
  <2>3. PoolMembers' = PoolMembers \cup {s} /\ s \notin PoolMembers \cup PoolDeparted
    BY <2>2
  <2>4. PoolDeparted' = PoolDeparted
    BY <2>2
  <2>5. Pool!Join(s)
    BY <2>2, <2>3, <2>4 DEF Pool!Join
  <2> QED BY <2>5 DEF Pool!PoolNext
<1>6. CASE SecondSession(s)
  BY <1>6 DEF SecondSession, Ends
<1>7. CASE CheckInterrupted(s)
  BY <1>7, <1>m DEF CheckInterrupted
<1>8. CASE Receive(s)
  BY <1>8, <1>m DEF Receive
<1>9. CASE CloseStream(s)
  BY <1>9, <1>m DEF CloseStream
<1>10. CASE Unregister(s)
  <2>1. /\ sock[s] = "unregistering" /\ UNCHANGED <<home, pc, st>>
        /\ \A r \in Sockets : sock'[r] = IF r = s THEN "done" ELSE sock[r]
    BY <1>10 DEF Unregister, TypeOK
  <2>2. home[s] # None
    BY <2>1, SocketsAssumption DEF SocketLocals
  <2>3. PoolMembers' = PoolMembers \ {s} /\ s \in PoolMembers
    BY <2>1
  <2>4. PoolDeparted' = PoolDeparted \cup {s}
    BY <2>1, <2>2
  <2>5. Pool!Leave(s)
    BY <2>1, <2>3, <2>4 DEF Pool!Leave
  <2> QED BY <2>5 DEF Pool!PoolNext
<1> QED BY <1>1, <1>2, <1>3, <1>4, <1>5, <1>6, <1>7, <1>8, <1>9, <1>10 DEF SocketStep

\* A thread in the list of a session's readers that takes a free stream of it.
LEMMA TakeAcquires ==
  ASSUME IInv, NEW t \in Senders, NEW o \in Sockets, NEW k \in DOMAIN streams[o],
         pc[t] \in {"select", "woken"}, Take(t, streams[o][k]), ~ inUse[streams[o][k]],
         st' = [st EXCEPT ![t] = streams[o][k]], UNCHANGED <<sock, home>>
  PROVE  Pool!PoolNext
<1>0. PICK s \in Sockets : s = streams[o][k]
  BY ListElements DEF IInv
<1>1. sock[s] \in RegisteredStates
  BY <1>0 DEF IInv, NoEmptySession
<1>2. \A u \in Senders : ~ Occupies(u, s)
  BY <1>0 DEF IInv, StreamHeldByOne
<1>3. \A u \in Senders : PoolHeld[u] # s
  BY <1>1, <1>2, SocketsAssumption DEF Occupies
<1>4. PoolHeld' = [PoolHeld EXCEPT ![t] = s]
  <2>1. \A u \in Senders : pc'[u] = IF u = t THEN "sending" ELSE pc[u]
    BY DEF IInv, TypeOK, Take
  <2>2. \A u \in Senders : st'[u] = IF u = t THEN s ELSE st[u]
    BY <1>0 DEF IInv, TypeOK
  <2> QED BY <2>1, <2>2
<1>5. s \in PoolMembers /\ PoolHeld[t] = None
  BY <1>1
<1>6. UNCHANGED <<PoolMembers, PoolDeparted>>
  OBVIOUS
<1>7. Pool!Acquire(t, s)
  BY <1>3, <1>4, <1>5, <1>6 DEF Pool!Acquire, Pool!Holders
<1> QED BY <1>7 DEF Pool!PoolNext

\* A holder that leaves its stream, whoever else it wakes.
LEMMA LeavingGivesUp ==
  ASSUME IInv, NEW t \in Senders, pc[t] \in HolderStates, NEW W \in SUBSET Senders,
         \A u \in W : pc[u] = "asleep",
         \A u \in Senders : pc'[u] = IF u = t THEN Returned(t)
                                     ELSE IF u \in W THEN "woken" ELSE pc[u],
         UNCHANGED <<sock, home, st>>
  PROVE  Pool!PoolNext
<1>1. st[t] \in Sockets
  BY DEF IInv, HoldersHold
<1>2. PoolHeld[t] # None
  BY <1>1, SocketsAssumption
<1>3. PoolHeld' = [PoolHeld EXCEPT ![t] = None]
  BY DEF Returned
<1>4. Pool!GiveUp(t)
  BY <1>2, <1>3 DEF Pool!GiveUp
<1> QED BY <1>4 DEF Pool!PoolNext

\* A sender that keeps what it holds.
LEMMA SenderStutters ==
  ASSUME IInv, NEW t \in Senders, NEW to \in SenderStates,
         pc' = [pc EXCEPT ![t] = to],
         \A u \in Senders : pc[u] \in HolderStates \cup {"hung"} => st'[u] = st[u],
         pc[t] \in HolderStates \cup {"hung"} <=> to \in HolderStates \cup {"hung"},
         UNCHANGED <<sock, home>>
  PROVE  UNCHANGED Pool!poolVars
<1>1. \A u \in Senders : pc'[u] = IF u = t THEN to ELSE pc[u]
  BY DEF IInv, TypeOK
<1>2. PoolHeld' = PoolHeld
  BY <1>1
<1> QED BY <1>2

LEMMA SenderStepOfPool ==
  ASSUME IInv, NEW t \in Senders, SenderStep(t)
  PROVE  [Pool!PoolNext]_(Pool!poolVars)
<1> USE DEF IInv, sessionVars, senderVars, socketVars
<1>m. ASSUME NEW from \in SenderStates, NEW to \in SenderStates, SenderMoves(t, from, to),
             from \in HolderStates \cup {"hung"} <=> to \in HolderStates \cup {"hung"}
      PROVE  UNCHANGED Pool!poolVars
  BY <1>m, SenderStutters DEF SenderMoves
<1>1. CASE CallNotReady(t)
  BY <1>1, <1>m DEF CallNotReady
<1>2. CASE Call(t)
  BY <1>2, SenderStutters DEF Call
<1>3. CASE Retry(t)
  BY <1>3, <1>m DEF Retry
<1>4. CASE Select(t)
  <2>1. PICK s \in Sockets :
          /\ st' = [st EXCEPT ![t] = s]
          /\ \/ FirstFree(ref[t], s) /\ Take(t, s)
             \/ pc' = [pc EXCEPT ![t] = "asleep"]
    BY <1>4 DEF Select
  <2>2. pc[t] = "select" /\ UNCHANGED <<sock, home>> /\ ref[t] \in Sockets
    BY <1>4, ReaderSession DEF Select
  <2>3. CASE FirstFree(ref[t], s) /\ Take(t, s)
    <3>1. PICK k \in DOMAIN streams[ref[t]] : streams[ref[t]][k] = s /\ ~ inUse[s]
      BY <2>3 DEF FirstFree
    <3> QED BY <2>1, <2>2, <2>3, <3>1, TakeAcquires
  <2>4. CASE pc' = [pc EXCEPT ![t] = "asleep"]
    <3>1. \A u \in Senders : pc[u] \in HolderStates \cup {"hung"} => st'[u] = st[u]
      BY <2>1, <2>2 DEF TypeOK
    <3> QED BY <2>2, <2>4, <3>1, SenderStutters
  <2> QED BY <2>1, <2>3, <2>4
<1>5. CASE SpuriousWakeup(t)
  BY <1>5, <1>m DEF SpuriousWakeup
<1>6. CASE Recheck(t)
  <2>1. pc[t] = "woken" /\ UNCHANGED <<sock, home, st>> /\ ref[t] \in Sockets
    BY <1>6, ReaderSession DEF Recheck
  <2>2. CASE StreamFree(t) /\ Take(t, st[t])
    <3>1. 1 \in DOMAIN streams[ref[t]] /\ st[t] = streams[ref[t]][1]
      BY <2>1, ReaderSession, ListElements, EmptySeq DEF WaiterIteratorValid
    <3>2. st' = [st EXCEPT ![t] = st[t]] /\ ~ inUse[st[t]]
      BY <2>1, <2>2 DEF TypeOK, StreamFree
    <3>3. /\ Take(t, streams[ref[t]][1]) /\ ~ inUse[streams[ref[t]][1]]
          /\ st' = [st EXCEPT ![t] = streams[ref[t]][1]]
      BY <2>2, <3>1, <3>2
    <3> HIDE DEF IInv
    <3> QED BY <2>1, <3>1, <3>3, TakeAcquires
  <2>3. CASE pc' = [pc EXCEPT ![t] = "asleep"]
    BY <2>1, <2>3, SenderStutters
  <2> QED BY <1>6, <2>2, <2>3 DEF Recheck
<1>7. CASE SendDone(t)
  BY <1>7, SenderStutters DEF SendDone
<1>8. CASE SendFails(t)
  BY <1>8, <1>m DEF SendFails
<1>9. CASE SigPipe(t) \/ CrashFreed(t)
  BY <1>9 DEF SigPipe, CrashFreed, Ends
<1>10. CASE Release(t)
  <2>1. pc[t] \in HolderStates /\ UNCHANGED <<sock, home, st>>
    BY <1>10 DEF Release
  <2>2. CASE pc' = [pc EXCEPT ![t] = Returned(t)]
    <3>1. \A u \in Senders : pc'[u] = IF u = t THEN Returned(t)
                                      ELSE IF u \in {} THEN "woken" ELSE pc[u]
      BY <2>2 DEF TypeOK
    <3>2. {} \in SUBSET Senders /\ \A u \in {} : pc[u] = "asleep"
      OBVIOUS
    <3>3. pc[t] \in HolderStates
      BY <2>1
    <3> HIDE DEF IInv, HolderStates
    <3> QED BY <2>1, <3>1, <3>2, <3>3, LeavingGivesUp
  <2>3. ASSUME NEW w \in Waiters(t), pc' = [pc EXCEPT ![t] = Returned(t), ![w] = "woken"]
        PROVE  Pool!PoolNext
    <3>1. w \in Senders /\ pc[w] = "asleep" /\ w # t
      BY <2>1 DEF Waiters
    <3>2. \A u \in Senders : pc'[u] = IF u = t THEN Returned(t)
                                      ELSE IF u \in {w} THEN "woken" ELSE pc[u]
      BY <2>3, <3>1 DEF TypeOK
    <3> QED BY <2>1, <3>1, <3>2, LeavingGivesUp
  <2> QED BY <1>10, <2>2, <2>3 DEF Release
<1>11. CASE ReleaseFreed(t)
  <2>1. pc[t] \in {"sent", "failed"} /\ UNCHANGED <<sock, home, st>>
    BY <1>11 DEF ReleaseFreed
  <2>2. CASE pc' = [pc EXCEPT ![t] = Returned(t)]
    <3>1. \A u \in Senders : pc'[u] = IF u = t THEN Returned(t)
                                      ELSE IF u \in {} THEN "woken" ELSE pc[u]
      BY <2>2 DEF TypeOK
    <3>2. {} \in SUBSET Senders /\ \A u \in {} : pc[u] = "asleep"
      OBVIOUS
    <3>3. pc[t] \in HolderStates
      BY <2>1
    <3> HIDE DEF IInv, HolderStates
    <3> QED BY <2>1, <3>1, <3>2, <3>3, LeavingGivesUp
  <2>3. CASE pc' = [pc EXCEPT ![t] = "hung"]
    BY <2>1, <2>3, SenderStutters
  <2> QED BY <1>11, <2>2, <2>3 DEF ReleaseFreed
<1> QED BY <1>1, <1>2, <1>3, <1>4, <1>5, <1>6, <1>7, <1>8, <1>9, <1>10, <1>11 DEF SenderStep

\* The threads see a pool of streams, each given to one thread at a time and
\* only while it is registered: what onTunnelFrameFromPrev, the tasks of
\* addSocket and the destructor promise together.
THEOREM ImplementsPool == Spec => PoolImplemented
<1>1. Init => Pool!PoolInit
  BY DEF Init, Pool!PoolInit
<1>2. IInv /\ [Next]_vars => [Pool!PoolNext]_(Pool!poolVars)
  <2> SUFFICES ASSUME IInv, [Next]_vars PROVE [Pool!PoolNext]_(Pool!poolVars)
    OBVIOUS
  <2>1. CASE BeginDestroy \/ JoinPool \/ FinishDestroy
    BY <2>1, DtorFrame
  <2>2. CASE UNCHANGED vars
    BY <2>2 DEF vars
  <2> QED BY <2>1, <2>2, SocketStepOfPool, SenderStepOfPool DEF Next
<1> QED BY <1>1, <1>2, Invariance, PTL DEF Spec, PoolImplemented, Pool!PoolSpec
=============================================================================
