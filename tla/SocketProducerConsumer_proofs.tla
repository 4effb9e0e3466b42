-------------------- MODULE SocketProducerConsumer_proofs --------------------
(***************************************************************************)
(* Proofs of the safety properties of SocketProducerConsumer, for any      *)
(* number of senders, sockets and sessions, and for either preference of   *)
(* the shared mutex.                                                       *)
(***************************************************************************)
EXTENDS SocketProducerConsumer, SequenceTheorems, FiniteSetTheorems, TLAPS

-----------------------------------------------------------------------------
(* The inductive invariant.                                                *)

\* A socket knows its session's id from the exchange on, and its session
\* from the registration on.
SocketLocals ==
  \A s \in Sockets :
    /\ sock[s] \in {"registering"} \cup RegisteredStates => ident[s] \in SessionIds
    /\ sock[s] \in RegisteredStates => home[s] \in Sockets
    /\ sock[s] \in {"absent", "posted", "exchange", "registering"} => home[s] = None

\* A list holds streams of its own session only.
ListsAtHome ==
  \A o \in Sockets : \A k \in DOMAIN streams[o] : home[streams[o][k]] = o

OneId == \A i, j \in SessionIds : sessions[i] # None /\ sessions[j] # None => i = j

TasksEndedOnceJoined == dtor \in {"popping", "gone"} => TasksEnded

\* From the moment it takes one, a sender refers to a stream that is, or was,
\* in the list of the session the sender refers to.
HoldersHold ==
  \A t \in Senders :
    pc[t] \in HolderStates \cup {"hung"} =>
      st[t] \in Sockets /\ ref[t] \in Sockets /\ home[st[t]] = ref[t]

IInv ==
  /\ TypeOK
  /\ SocketLocals
  /\ ListsAtHome
  /\ EraseIsSafe
  /\ NoEmptySession
  /\ OneId
  /\ TasksEndedOnceJoined
  /\ HoldersHold
  /\ StreamHeldByOne
  /\ WaiterIteratorValid
  /\ NoLostWakeup

-----------------------------------------------------------------------------
(* Type correctness.                                                       *)

USE DEF kInitFrameSeqNum, ReaderStates, HolderStates, SenderStates,
        RegisteredStates, RunningStates, SocketStates

\* Erasing the one position k of s: what is before k stays, the rest moves up.
LEMMA EraseProperties ==
  ASSUME NEW S, NEW list \in Seq(S), NEW s, NEW k \in DOMAIN list,
         \A j \in DOMAIN list : list[j] = s <=> j = k
  PROVE  /\ Erase(list, s) \in Seq(S)
         /\ Len(Erase(list, s)) = Len(list) - 1
         /\ \A j \in 1..(Len(list) - 1) :
              Erase(list, s)[j] = IF j < k THEN list[j] ELSE list[j + 1]
<1>1. (CHOOSE j \in DOMAIN list : list[j] = s) = k
  OBVIOUS
<1>2. k \in 1..Len(list) /\ Len(list) \in Nat
  BY LenProperties
<1> DEFINE before == SubSeq(list, 1, k - 1)
           after == SubSeq(list, k + 1, Len(list))
<1>3. /\ before \in Seq(S) /\ Len(before) = k - 1
      /\ \A j \in 1..(k - 1) : before[j] = list[j]
  BY <1>2, SubSeqProperties
<1>4. /\ after \in Seq(S) /\ Len(after) = Len(list) - k
      /\ \A j \in 1..(Len(list) - k) : after[j] = list[k + j]
  BY <1>2, SubSeqProperties
<1>5. Erase(list, s) = before \o after
  BY <1>1 DEF Erase, RemoveAt
<1> HIDE DEF before, after
<1>6. /\ before \o after \in Seq(S)
      /\ Len(before \o after) = Len(before) + Len(after)
      /\ \A j \in 1..(Len(before) + Len(after)) :
           (before \o after)[j] = IF j <= Len(before) THEN before[j]
                                                      ELSE after[j - Len(before)]
  BY <1>3, <1>4, ConcatProperties
<1>7. Len(before) + Len(after) = Len(list) - 1
  BY <1>2, <1>3, <1>4
<1>8. ASSUME NEW j \in 1..(Len(list) - 1)
      PROVE  Erase(list, s)[j] = IF j < k THEN list[j] ELSE list[j + 1]
  <2>1. j \in Nat /\ k \in Nat
    BY <1>2
  <2>2. (before \o after)[j] = IF j <= k - 1 THEN before[j] ELSE after[j - (k - 1)]
    BY <1>3, <1>6, <1>7
  <2>3. CASE j < k
    BY <2>1, <2>2, <2>3, <1>3, <1>5
  <2>4. CASE ~ (j < k)
    <3>1. j - (k - 1) \in 1..(Len(list) - k) /\ ~ (j <= k - 1)
      BY <2>1, <2>4, <1>2
    <3>2. after[j - (k - 1)] = list[k + (j - (k - 1))]
      BY <3>1, <1>4
    <3>3. k + (j - (k - 1)) = j + 1
      BY <2>1
    <3> QED BY <3>1, <3>2, <3>3, <2>2, <2>4, <1>5
  <2> QED BY <2>3, <2>4
<1>9. Erase(list, s) \in Seq(S) /\ Len(Erase(list, s)) = Len(list) - 1
  BY <1>5, <1>6, <1>7
<1> QED BY <1>8, <1>9

\* What the steps of one kind of threads leave alone.
LEMMA SenderFrame ==
  ASSUME NEW t \in Senders, SenderStep(t)
  PROVE  UNCHANGED <<sessions, streams, sock, ident, home, dtor>>
BY DEF SenderStep, CallNotReady, Call, Retry, Select, SpuriousWakeup, Recheck, SendDone,
       SendFails, SigPipe, Release, ReleaseFreed, CrashFreed, SenderMoves, Ends,
       sessionVars, senderVars, socketVars

LEMMA SocketFrame ==
  ASSUME NEW s \in Sockets, SocketStep(s)
  PROVE  UNCHANGED <<pc, ref, st, seq, inUse, dtor>>
BY DEF SocketStep, AddSocket, StartTask, ExchangeOk, ExchangeFails, Register, SecondSession,
       CheckInterrupted, Receive, CloseStream, Unregister, SocketMoves, Ends, EmplaceSession,
       sessionVars, senderVars, socketVars

LEMMA DtorFrame ==
  ASSUME BeginDestroy \/ JoinPool \/ FinishDestroy
  PROVE  UNCHANGED <<sessions, streams, nextSeq, inUse, pc, ref, st, seq,
                     sock, ident, home, wire, fault>>
BY DEF BeginDestroy, JoinPool, FinishDestroy, DtorMoves, Running,
       sessionVars, senderVars, socketVars

\* What Unregister does: s leaves its place k in the list of its session o,
\* and the session leaves the map if the rest of the list is empty.
UnregisterBy(s, o, k, rest) ==
  /\ home[s] = o /\ sessions[ident[s]] = o /\ ident[s] \in SessionIds
  /\ \A j \in DOMAIN streams[o] : streams[o][j] = s <=> j = k
  /\ Len(rest) = Len(streams[o]) - 1
  /\ \A j \in 1..(Len(streams[o]) - 1) :
       rest[j] = IF j < k THEN streams[o][j] ELSE streams[o][j + 1]
  /\ streams' = [streams EXCEPT ![o] = rest]
  /\ sessions' = IF rest = <<>> THEN [sessions EXCEPT ![ident[s]] = None] ELSE sessions

LEMMA UnregisterEffect ==
  ASSUME IInv, NEW s \in Sockets, Unregister(s)
  PROVE  \E o \in Sockets, rest \in Seq(Sockets) : \E k \in DOMAIN streams[o] :
           UnregisterBy(s, o, k, rest)
<1>1. sock[s] \in RegisteredStates
  BY DEF Unregister
<1> DEFINE o == home[s]
           rest == Erase(streams[o], s)
<1>2. sessions[ident[s]] = o /\ ident[s] \in SessionIds /\ o \in Sockets
  BY <1>1 DEF IInv, SocketLocals, EraseIsSafe
<1>3. streams[o] \in Seq(Sockets)
  BY <1>2 DEF IInv, TypeOK
<1>4. PICK k \in DOMAIN streams[o] : \A j \in DOMAIN streams[o] : streams[o][j] = s <=> j = k
  BY <1>1 DEF IInv, EraseIsSafe
<1>5. /\ streams' = [streams EXCEPT ![o] = rest]
      /\ sessions' = IF rest = <<>> THEN [sessions EXCEPT ![ident[s]] = None] ELSE sessions
  BY <1>2 DEF Unregister, Drained
<1> HIDE DEF o
<1>6. /\ rest \in Seq(Sockets)
      /\ Len(rest) = Len(streams[o]) - 1
      /\ \A j \in 1..(Len(streams[o]) - 1) :
           rest[j] = IF j < k THEN streams[o][j] ELSE streams[o][j + 1]
  BY <1>3, <1>4, EraseProperties
<1> HIDE DEF rest
<1>7. o = home[s]
  BY DEF o
<1>8. UnregisterBy(s, o, k, rest)
  BY <1>2, <1>4, <1>5, <1>6, <1>7 DEF UnregisterBy
<1> QED BY <1>2, <1>4, <1>6, <1>8

LEMMA TypeOKStep == IInv /\ [Next]_vars => TypeOK'
<1> SUFFICES ASSUME IInv, [Next]_vars PROVE TypeOK'
  OBVIOUS
<1> USE DEF TypeOK
<1>t. TypeOK
  BY DEF IInv
<1>1. ASSUME NEW s \in Sockets, SocketStep(s) PROVE TypeOK'
  <2> USE <1>t DEF sessionVars, senderVars, socketVars
  <2>m. ASSUME NEW from \in SocketStates, NEW to \in SocketStates, SocketMoves(s, from, to)
        PROVE  TypeOK'
    BY <2>m DEF SocketMoves, Running
  <2>1. CASE AddSocket(s)
    BY <2>1, <2>m DEF AddSocket
  <2>2. CASE StartTask(s)
    BY <2>2, <2>m DEF StartTask
  <2>3. ASSUME NEW i \in SessionIds, ExchangeOk(s, i) PROVE TypeOK'
    <3>1. <<0>> \in Seq(Nat)
      OBVIOUS
    <3> QED BY <2>3, <3>1 DEF ExchangeOk, Running
  <2>4. CASE ExchangeFails(s)
    BY <2>4, <2>m DEF ExchangeFails
  <2>5. CASE Register(s)
    <3>1. PICK o \in Sockets :
            /\ \/ sessions[ident[s]] = o /\ UNCHANGED <<sessions, nextSeq>>
               \/ LiveSessions = {} /\ o = s /\ EmplaceSession(ident[s], o)
            /\ home' = [home EXCEPT ![s] = o]
            /\ streams' = [streams EXCEPT ![o] = Append(@, s)]
      BY <2>5 DEF Register
    <3>2. Append(streams[o], s) \in Seq(Sockets)
      OBVIOUS
    <3>3. streams' \in [Sockets -> Seq(Sockets)]
      BY <3>1, <3>2
    <3>4. sessions' \in [SessionIds -> Sockets \cup {None}] /\ nextSeq' \in [Sockets -> Nat]
      <4>1. CASE UNCHANGED <<sessions, nextSeq>>
        BY <4>1
      <4>2. CASE EmplaceSession(ident[s], o)
        <5>1. sessions' = [sessions EXCEPT ![ident[s]] = o] /\ nextSeq' = [nextSeq EXCEPT ![o] = 1]
          BY <4>2 DEF EmplaceSession
        <5> QED BY <5>1
      <4> QED BY <3>1, <4>1, <4>2
    <3> QED BY <2>5, <3>1, <3>3, <3>4 DEF Register, Running
  <2>6. CASE SecondSession(s)
    BY <2>6 DEF SecondSession, Ends
  <2>7. CASE CheckInterrupted(s)
    BY <2>7, <2>m DEF CheckInterrupted
  <2>8. CASE Receive(s)
    BY <2>8, <2>m DEF Receive
  <2>9. CASE CloseStream(s)
    BY <2>9, <2>m DEF CloseStream
  <2>10. CASE Unregister(s)
    <3>1. PICK o \in Sockets, rest \in Seq(Sockets) :
            \E k \in DOMAIN streams[o] : UnregisterBy(s, o, k, rest)
      BY <2>10, UnregisterEffect
    <3>2. streams' \in [Sockets -> Seq(Sockets)]
      BY <3>1 DEF UnregisterBy
    <3>3. sessions' \in [SessionIds -> Sockets \cup {None}]
      BY <3>1 DEF UnregisterBy
    <3> QED BY <2>10, <3>2, <3>3 DEF Unregister, Running
  <2> QED BY <1>1, <2>1, <2>2, <2>3, <2>4, <2>5, <2>6, <2>7, <2>8, <2>9, <2>10 DEF SocketStep
<1>2. ASSUME NEW t \in Senders, SenderStep(t) PROVE TypeOK'
  <2> USE <1>t DEF sessionVars, senderVars, socketVars
  <2>m. ASSUME NEW from \in SenderStates, NEW to \in SenderStates, SenderMoves(t, from, to)
        PROVE  TypeOK'
    BY <2>m DEF SenderMoves, Running
  <2>1. CASE CallNotReady(t)
    BY <2>1, <2>m DEF CallNotReady
  <2>2. CASE Call(t)
    BY <2>2 DEF Call, LiveSessions, Running
  <2>3. CASE Retry(t)
    BY <2>3, <2>m DEF Retry
  <2>4. CASE Select(t)
    <3>1. PICK s \in Sockets :
            /\ st' = [st EXCEPT ![t] = s]
            /\ \/ Take(t, s)
               \/ pc' = [pc EXCEPT ![t] = "asleep"] /\ UNCHANGED inUse
      BY <2>4 DEF Select
    <3>2. pc' \in [Senders -> SenderStates] /\ inUse' \in [Sockets -> BOOLEAN]
      BY <3>1 DEF Take
    <3> QED BY <2>4, <3>1, <3>2 DEF Select, Running
  <2>5. CASE SpuriousWakeup(t)
    BY <2>5, <2>m DEF SpuriousWakeup
  <2>6. CASE Recheck(t)
    BY <2>6 DEF Recheck, Take, Running
  <2>7. CASE SendDone(t)
    <3>1. ASSUME NEW s \in Sockets PROVE Append(wire[s], seq[t]) \in Seq(Nat)
      OBVIOUS
    <3> QED BY <2>7, <3>1 DEF SendDone, Running
  <2>8. CASE SendFails(t)
    BY <2>8, <2>m DEF SendFails
  <2>9. CASE SigPipe(t)
    BY <2>9 DEF SigPipe, Ends
  <2>10. CASE Release(t)
    BY <2>10 DEF Release, Returned, Waiters, Running
  <2>11. CASE ReleaseFreed(t)
    BY <2>11 DEF ReleaseFreed, Returned, Running
  <2>12. CASE CrashFreed(t)
    BY <2>12 DEF CrashFreed, Ends
  <2> QED BY <1>2, <2>1, <2>2, <2>3, <2>4, <2>5, <2>6, <2>7, <2>8, <2>9, <2>10, <2>11, <2>12
          DEF SenderStep
<1>3. CASE BeginDestroy \/ JoinPool \/ FinishDestroy
  BY <1>3, <1>t DEF BeginDestroy, JoinPool, FinishDestroy, DtorMoves, Running,
                    sessionVars, senderVars, socketVars
<1>4. CASE UNCHANGED vars
  BY <1>4, <1>t DEF vars
<1> QED BY <1>1, <1>2, <1>3, <1>4 DEF Next

-----------------------------------------------------------------------------
(* The steps of the sockets' threads.                                      *)

SocketInv == /\ SocketLocals
             /\ ListsAtHome
             /\ EraseIsSafe
             /\ NoEmptySession
             /\ OneId
             /\ TasksEndedOnceJoined

\* A socket that neither enters nor leaves a list.
LEMMA StaysInPlace ==
  ASSUME IInv, NEW s \in Sockets, NEW to \in SocketStates,
         dtor \notin {"popping", "gone"},
         sock' = [sock EXCEPT ![s] = to],
         UNCHANGED <<sessions, streams, home, dtor>>,
         \A r \in Sockets \ {s} : ident'[r] = ident[r],
         sock[s] \in RegisteredStates <=> to \in RegisteredStates,
         sock[s] \in RegisteredStates => ident'[s] = ident[s],
         to = "registering" => ident'[s] \in SessionIds,
         to \in {"absent", "posted", "exchange", "registering"} =>
           sock[s] \in {"absent", "posted", "exchange"}
  PROVE  SocketInv'
<1>1. /\ sock \in [Sockets -> SocketStates]
      /\ \A r \in Sockets : sock'[r] = IF r = s THEN to ELSE sock[r]
  BY DEF IInv, TypeOK
<1>2. \A r \in Sockets : sock'[r] \in RegisteredStates <=> sock[r] \in RegisteredStates
  BY <1>1
<1>3. SocketLocals'
  BY <1>1, <1>2 DEF IInv, SocketLocals
<1>4. ListsAtHome' /\ OneId' /\ TasksEndedOnceJoined'
  BY DEF IInv, ListsAtHome, OneId, TasksEndedOnceJoined
<1>5. EraseIsSafe'
  BY <1>1, <1>2 DEF IInv, EraseIsSafe
<1>6. NoEmptySession'
  <2>1. ASSUME NEW o \in Sockets, NEW j \in DOMAIN streams[o]
        PROVE  streams[o][j] \in Sockets
    BY ElementOfSeq, LenProperties DEF IInv, TypeOK
  <2> QED BY <1>2, <2>1 DEF IInv, NoEmptySession, Live
<1> QED BY <1>3, <1>4, <1>5, <1>6 DEF SocketInv

\* The elements of the lists are sockets.
LEMMA ListElements ==
  ASSUME TypeOK, NEW o \in Sockets
  PROVE  /\ streams[o] \in Seq(Sockets)
         /\ Len(streams[o]) \in Nat
         /\ DOMAIN streams[o] = 1..Len(streams[o])
         /\ \A j \in DOMAIN streams[o] : streams[o][j] \in Sockets
BY ElementOfSeq, LenProperties DEF TypeOK

LEMMA RegisterStep ==
  ASSUME IInv, NEW s \in Sockets, Register(s)
  PROVE  SocketInv'
<1> USE DEF IInv
<1>1. PICK o \in Sockets :
        /\ \/ sessions[ident[s]] = o /\ UNCHANGED <<sessions, nextSeq>>
           \/ LiveSessions = {} /\ o = s /\ EmplaceSession(ident[s], o)
        /\ home' = [home EXCEPT ![s] = o]
        /\ streams' = [streams EXCEPT ![o] = Append(@, s)]
  BY DEF Register
<1>2. sock[s] = "registering" /\ ident[s] \in SessionIds /\ UNCHANGED <<ident, dtor>>
  BY DEF Register, SocketLocals
<1>3. \A r \in Sockets : sock'[r] = IF r = s THEN "loop" ELSE sock[r]
  BY DEF Register, TypeOK
<1>4. \A r \in Sockets : home'[r] = IF r = s THEN o ELSE home[r]
  BY <1>1 DEF TypeOK
<1> DEFINE n == Len(streams[o])
<1>5. /\ n \in Nat /\ DOMAIN streams[o] = 1..n /\ DOMAIN streams'[o] = 1..(n + 1)
      /\ streams'[o][n + 1] = s
      /\ \A j \in 1..n : streams'[o][j] = streams[o][j] /\ streams[o][j] \in Sockets
  <2>1. streams'[o] = Append(streams[o], s)
    BY <1>1 DEF TypeOK
  <2>2. streams[o] \in Seq(Sockets) /\ n \in Nat /\ DOMAIN streams[o] = 1..n
    BY ListElements
  <2> QED BY <2>1, <2>2, AppendProperties, LenProperties, ElementOfSeq
<1> HIDE DEF n
<1>6. \A x \in Sockets \ {o} : streams'[x] = streams[x]
  BY <1>1 DEF TypeOK
<1>7. \A x \in Sockets : \A j \in DOMAIN streams[x] :
        streams[x][j] \in Sockets /\ sock[streams[x][j]] \in RegisteredStates /\ streams[x][j] # s
  BY <1>2, ListElements DEF NoEmptySession
<1>8. \/ sessions' = sessions /\ sessions[ident[s]] = o
      \/ /\ \A i \in SessionIds : sessions[i] = None
         /\ \A i \in SessionIds : sessions'[i] = IF i = ident[s] THEN o ELSE None
         /\ \A r \in Sockets : sock[r] \notin RegisteredStates
  <2>1. CASE LiveSessions = {} /\ o = s /\ EmplaceSession(ident[s], o)
    <3>1. \A i \in SessionIds : sessions[i] = None
      BY <2>1 DEF LiveSessions, Live, TypeOK
    <3>2. \A i \in SessionIds : sessions'[i] = IF i = ident[s] THEN o ELSE None
      BY <2>1, <3>1, <1>2 DEF EmplaceSession, TypeOK
    <3>3. \A r \in Sockets : sock[r] \notin RegisteredStates
      BY <3>1, SocketsAssumption DEF SocketLocals, EraseIsSafe
    <3> QED BY <3>1, <3>2, <3>3
  <2> QED BY <1>1, <2>1
<1>9. SocketLocals'
  BY <1>2, <1>3, <1>4 DEF SocketLocals
<1>10. ListsAtHome'
  <2> SUFFICES ASSUME NEW x \in Sockets, NEW j \in DOMAIN streams'[x]
               PROVE  home'[streams'[x][j]] = x
    BY DEF ListsAtHome
  <2>1. CASE x # o
    BY <2>1, <1>4, <1>6, <1>7 DEF ListsAtHome
  <2>2. CASE x = o /\ j = n + 1
    BY <2>2, <1>4, <1>5
  <2>3. CASE x = o /\ j \in 1..n
    BY <2>3, <1>4, <1>5, <1>7 DEF ListsAtHome
  <2> QED BY <2>1, <2>2, <2>3, <1>5
<1>11. EraseIsSafe'
  <2> SUFFICES ASSUME NEW r \in Sockets, sock'[r] \in RegisteredStates
               PROVE  /\ sessions'[ident'[r]] = home'[r]
                      /\ \E k \in DOMAIN streams'[home'[r]] :
                           \A j \in DOMAIN streams'[home'[r]] : streams'[home'[r]][j] = r <=> j = k
    BY DEF EraseIsSafe
  <2>1. CASE r = s
    <3>1. sessions'[ident'[r]] = home'[r]
      BY <2>1, <1>2, <1>4, <1>8
    <3>2. \A j \in 1..(n + 1) : streams'[o][j] = s <=> j = n + 1
      BY <1>5, <1>7
    <3>3. n + 1 \in DOMAIN streams'[o]
      BY <1>5
    <3>4. \A j \in DOMAIN streams'[o] : streams'[o][j] = r <=> j = n + 1
      BY <2>1, <3>2, <1>5
    <3>5. home'[r] = o
      BY <2>1, <1>4
    <3> QED BY <3>1, <3>3, <3>4, <3>5
  <2>2. CASE r # s
    <3>1. sock[r] \in RegisteredStates /\ home'[r] = home[r] /\ home[r] \in Sockets
      BY <2>2, <1>3, <1>4 DEF SocketLocals
    <3>2. sessions' = sessions
      BY <3>1, <1>8
    <3>3. PICK k \in DOMAIN streams[home[r]] :
            \A j \in DOMAIN streams[home[r]] : streams[home[r]][j] = r <=> j = k
      BY <3>1 DEF EraseIsSafe
    <3>4. k \in DOMAIN streams'[home[r]]
      BY <3>1, <3>3, <1>5, <1>6
    <3>5. \A j \in DOMAIN streams'[home[r]] : streams'[home[r]][j] = r <=> j = k
      <4>1. CASE home[r] = o
        <5>1. k \in 1..n /\ k # n + 1
          BY <4>1, <3>3, <1>5
        <5> QED BY <4>1, <5>1, <3>3, <2>2, <1>5
      <4>2. CASE home[r] # o
        BY <4>2, <3>1, <3>3, <1>6
      <4> QED BY <4>1, <4>2
    <3> QED BY <3>1, <3>2, <3>4, <3>5, <1>2 DEF EraseIsSafe
  <2> QED BY <2>1, <2>2
<1>12. NoEmptySession'
  <2> SUFFICES ASSUME NEW x \in Sockets
               PROVE  /\ Live(x)' => streams'[x] # <<>>
                      /\ \A j \in DOMAIN streams'[x] : sock'[streams'[x][j]] \in RegisteredStates
    BY DEF NoEmptySession
  <2>1. CASE x = o
    <3>1. streams'[x] # <<>>
      BY <2>1, <1>5
    <3>2. ASSUME NEW j \in DOMAIN streams'[x] PROVE sock'[streams'[x][j]] \in RegisteredStates
      <4>1. CASE j = n + 1
        BY <2>1, <4>1, <1>3, <1>5
      <4>2. CASE j \in 1..n
        BY <2>1, <4>2, <1>3, <1>5, <1>7
      <4> QED BY <2>1, <4>1, <4>2, <1>5
    <3> QED BY <3>1, <3>2
  <2>2. CASE x # o
    <3>1. Live(x)' => Live(x)
      BY <2>2, <1>8, SocketsAssumption DEF Live
    <3> QED BY <2>2, <3>1, <1>3, <1>6, <1>7 DEF NoEmptySession
  <2> QED BY <2>1, <2>2
<1>13. OneId'
  BY <1>8 DEF OneId
<1>14. TasksEndedOnceJoined'
  BY <1>2 DEF TasksEndedOnceJoined, TasksEnded
<1> QED BY <1>9, <1>10, <1>11, <1>12, <1>13, <1>14 DEF SocketInv

LEMMA UnregisterStep ==
  ASSUME IInv, NEW s \in Sockets, Unregister(s)
  PROVE  SocketInv'
<1> USE DEF IInv
<1>1. PICK o \in Sockets, rest \in Seq(Sockets) :
        \E k \in DOMAIN streams[o] : UnregisterBy(s, o, k, rest)
  BY UnregisterEffect
<1>2. PICK k \in DOMAIN streams[o] : UnregisterBy(s, o, k, rest)
  BY <1>1
<1>3. sock[s] = "unregistering" /\ UNCHANGED <<ident, home, dtor>>
  BY DEF Unregister
<1>4. \A r \in Sockets : sock'[r] = IF r = s THEN "done" ELSE sock[r]
  BY DEF Unregister, TypeOK
<1>5. home[s] = o /\ sessions[ident[s]] = o /\ ident[s] \in SessionIds
  BY <1>2 DEF UnregisterBy
<1> DEFINE n == Len(streams[o])
<1>6. /\ n \in Nat /\ k \in 1..n /\ DOMAIN streams[o] = 1..n
      /\ DOMAIN rest = 1..(n - 1)
      /\ rest = <<>> <=> n = 1
      /\ \A j \in 1..n : streams[o][j] = s <=> j = k
      /\ \A j \in 1..(n - 1) : rest[j] = IF j < k THEN streams[o][j] ELSE streams[o][j + 1]
  <2>1. n \in Nat /\ DOMAIN streams[o] = 1..n
    BY ListElements
  <2>2. Len(rest) = n - 1 /\ DOMAIN rest = 1..Len(rest) /\ Len(rest) \in Nat
    BY <1>2, LenProperties DEF UnregisterBy
  <2>3. rest = <<>> <=> Len(rest) = 0
    BY EmptySeq
  <2>4. k \in 1..n /\ DOMAIN rest = 1..(n - 1) /\ (rest = <<>> <=> n = 1)
    BY <2>1, <2>2, <2>3
  <2>5. /\ \A j \in 1..n : streams[o][j] = s <=> j = k
        /\ \A j \in 1..(n - 1) : rest[j] = IF j < k THEN streams[o][j] ELSE streams[o][j + 1]
    BY <2>1, <1>2 DEF UnregisterBy
  <2> QED BY <2>1, <2>4, <2>5
<1> HIDE DEF n
<1>7. \A x \in Sockets : streams'[x] = IF x = o THEN rest ELSE streams[x]
  BY <1>2 DEF UnregisterBy, TypeOK
<1>8. \A i \in SessionIds : sessions'[i] = IF n = 1 /\ i = ident[s] THEN None ELSE sessions[i]
  BY <1>2, <1>6 DEF UnregisterBy, TypeOK
\* What is left in the list was in it, and is not s.
<1>9. ASSUME NEW j \in 1..(n - 1)
      PROVE  \E m \in 1..n : m # k /\ rest[j] = streams[o][m]
  <2>1. CASE j < k
    BY <2>1, <1>6
  <2>2. CASE ~ (j < k)
    BY <2>2, <1>6
  <2> QED BY <2>1, <2>2
<1>10. \A x \in Sockets : \A j \in DOMAIN streams[x] :
         streams[x][j] \in Sockets /\ sock[streams[x][j]] \in RegisteredStates
         /\ home[streams[x][j]] = x
  BY ListElements DEF NoEmptySession, ListsAtHome
<1>11. SocketLocals'
  BY <1>3, <1>4 DEF SocketLocals
<1>12. ListsAtHome'
  <2> SUFFICES ASSUME NEW x \in Sockets, NEW j \in DOMAIN streams'[x]
               PROVE  home[streams'[x][j]] = x
    BY <1>3 DEF ListsAtHome
  <2>1. CASE x # o
    BY <2>1, <1>7, <1>10
  <2>2. CASE x = o
    BY <2>2, <1>6, <1>7, <1>9, <1>10
  <2> QED BY <2>1, <2>2
<1>13. EraseIsSafe'
  <2> SUFFICES ASSUME NEW r \in Sockets, sock'[r] \in RegisteredStates
               PROVE  /\ sessions'[ident'[r]] = home'[r]
                      /\ \E m \in DOMAIN streams'[home'[r]] :
                           \A j \in DOMAIN streams'[home'[r]] : streams'[home'[r]][j] = r <=> j = m
    BY DEF EraseIsSafe
  <2>0. r # s /\ sock[r] \in RegisteredStates /\ home'[r] = home[r] /\ ident'[r] = ident[r]
    BY <1>3, <1>4
  <2>1. /\ home[r] \in Sockets /\ ident[r] \in SessionIds /\ sessions[ident[r]] = home[r]
    BY <2>0 DEF SocketLocals, EraseIsSafe
  <2>2. PICK m \in DOMAIN streams[home[r]] :
          \A j \in DOMAIN streams[home[r]] : streams[home[r]][j] = r <=> j = m
    BY <2>0 DEF EraseIsSafe
  <2>3. CASE home[r] # o
    BY <2>0, <2>1, <2>2, <2>3, <1>5, <1>7, <1>8
  <2>4. CASE home[r] = o
    <3>1. m \in 1..n /\ m # k /\ \A j \in 1..n : streams[o][j] = r <=> j = m
      <4>1. m \in 1..n /\ \A j \in 1..n : streams[o][j] = r <=> j = m
        BY <2>2, <2>4, <1>6
      <4>2. streams[o][m] = r /\ streams[o][k] = s
        BY <4>1, <1>6
      <4> QED BY <4>1, <4>2, <2>0
    <3>2. n # 1
      BY <3>1, <1>6
    <3>3. sessions'[ident[r]] = home[r]
      BY <2>1, <3>2, <1>8
    <3>4. \A p \in 1..(n - 1) : (\A j \in 1..(n - 1) : rest[j] = r <=> j = p) =>
            \E q \in DOMAIN streams'[home'[r]] :
              \A j \in DOMAIN streams'[home'[r]] : streams'[home'[r]][j] = r <=> j = q
      <4>1. streams'[home'[r]] = rest /\ DOMAIN rest = 1..(n - 1)
        BY <2>0, <2>4, <1>6, <1>7
      <4> QED BY <4>1
    <3>5. CASE m < k
      <4>1. m \in 1..(n - 1)
        BY <3>1, <3>5, <1>6
      <4>2. ASSUME NEW j \in 1..(n - 1) PROVE rest[j] = r <=> j = m
        <5>1. CASE j < k
          BY <5>1, <3>1, <3>5, <1>6
        <5>2. CASE ~ (j < k)
          <6>1. rest[j] = streams[o][j + 1] /\ j + 1 \in 1..n /\ j + 1 # m /\ j # m
            BY <5>2, <3>1, <3>5, <1>6
          <6> QED BY <6>1, <3>1
        <5> QED BY <5>1, <5>2
      <4> QED BY <2>0, <3>3, <3>4, <4>1, <4>2
    <3>6. CASE k < m
      <4>1. m - 1 \in 1..(n - 1)
        BY <3>1, <3>6, <1>6
      <4>2. ASSUME NEW j \in 1..(n - 1) PROVE rest[j] = r <=> j = m - 1
        <5>1. CASE j < k
          <6>1. rest[j] = streams[o][j] /\ j \in 1..n /\ j # m /\ j # m - 1
            BY <5>1, <3>1, <3>6, <1>6
          <6> QED BY <6>1, <3>1
        <5>2. CASE ~ (j < k)
          <6>1. rest[j] = streams[o][j + 1] /\ j + 1 \in 1..n /\ (j + 1 = m <=> j = m - 1)
            BY <5>2, <3>1, <3>6, <1>6
          <6> QED BY <6>1, <3>1
        <5> QED BY <5>1, <5>2
      <4> QED BY <2>0, <3>3, <3>4, <4>1, <4>2
    <3> QED BY <3>1, <3>5, <3>6, <1>6
  <2> QED BY <2>3, <2>4
<1>14. NoEmptySession'
  <2> SUFFICES ASSUME NEW x \in Sockets
               PROVE  /\ Live(x)' => streams'[x] # <<>>
                      /\ \A j \in DOMAIN streams'[x] : sock'[streams'[x][j]] \in RegisteredStates
    BY DEF NoEmptySession
  <2>1. CASE x # o
    <3>1. Live(x)' => Live(x)
      BY <1>8, SocketsAssumption DEF Live
    <3>2. ASSUME NEW j \in DOMAIN streams[x] PROVE streams[x][j] # s
      BY <2>1, <1>5, <1>10
    <3> QED BY <2>1, <3>1, <3>2, <1>4, <1>7, <1>10 DEF NoEmptySession
  <2>2. CASE x = o
    <3>1. Live(x)' => n # 1
      BY <2>2, <1>5, <1>8, SocketsAssumption DEF Live, OneId
    <3>2. ASSUME NEW j \in DOMAIN rest PROVE sock'[rest[j]] \in RegisteredStates
      <4>1. PICK m \in 1..n : m # k /\ rest[j] = streams[o][m]
        BY <1>6, <1>9
      <4>2. streams[o][m] # s /\ sock[streams[o][m]] \in RegisteredStates /\ streams[o][m] \in Sockets
        BY <4>1, <1>6, <1>10
      <4> QED BY <4>1, <4>2, <1>4
    <3> QED BY <2>2, <3>1, <3>2, <1>6, <1>7
  <2> QED BY <2>1, <2>2
<1>15. OneId'
  BY <1>8 DEF OneId
<1>16. TasksEndedOnceJoined'
  BY <1>3 DEF TasksEndedOnceJoined, TasksEnded
<1> QED BY <1>11, <1>12, <1>13, <1>14, <1>15, <1>16 DEF SocketInv

LEMMA SocketInvUnchanged ==
  ASSUME IInv, UNCHANGED <<sessions, streams, sock, ident, home, dtor>>
  PROVE  SocketInv'
<1>1. SocketLocals' /\ ListsAtHome' /\ OneId' /\ TasksEndedOnceJoined'
  BY DEF IInv, SocketLocals, ListsAtHome, OneId, TasksEndedOnceJoined, TasksEnded
<1>2. EraseIsSafe'
  BY DEF IInv, EraseIsSafe
<1>3. NoEmptySession'
  BY DEF IInv, NoEmptySession, Live
<1> QED BY <1>1, <1>2, <1>3 DEF SocketInv

LEMMA SocketInvStep ==
  ASSUME IInv, NEW s \in Sockets, SocketStep(s)
  PROVE  SocketInv'
<1> USE DEF IInv, TypeOK, sessionVars, senderVars, socketVars
\* No socket's thread moves once the pool has been joined.
<1>j. sock[s] \notin {"absent", "done"} => dtor \notin {"popping", "gone"}
  BY DEF TasksEndedOnceJoined, TasksEnded
<1>m. ASSUME NEW from \in SocketStates, NEW to \in SocketStates, SocketMoves(s, from, to),
             from # "done", from = "absent" => dtor = "running",
             from \in RegisteredStates <=> to \in RegisteredStates,
             to \notin {"absent", "registering"},
             to \in {"posted", "exchange"} => from \in {"absent", "posted"}
      PROVE  SocketInv'
  <2>1. /\ sock[s] = from /\ sock' = [sock EXCEPT ![s] = to]
        /\ UNCHANGED <<sessions, streams, ident, home, dtor>>
    BY <1>m DEF SocketMoves
  <2>2. dtor \notin {"popping", "gone"}
    BY <1>m, <1>j, <2>1
  <2> QED BY <1>m, <2>1, <2>2, StaysInPlace
<1>1. CASE AddSocket(s)
  BY <1>1, <1>m DEF AddSocket
<1>2. CASE StartTask(s)
  BY <1>2, <1>m DEF StartTask
<1>3. ASSUME NEW i \in SessionIds, ExchangeOk(s, i) PROVE SocketInv'
  <2>1. /\ sock[s] = "exchange" /\ sock' = [sock EXCEPT ![s] = "registering"]
        /\ UNCHANGED <<sessions, streams, home, dtor>>
        /\ \A r \in Sockets : ident'[r] = IF r = s THEN i ELSE ident[r]
    BY <1>3 DEF ExchangeOk
  <2> QED BY <2>1, <1>j, StaysInPlace
<1>4. CASE ExchangeFails(s)
  BY <1>4, <1>m DEF ExchangeFails
<1>5. CASE Register(s)
  BY <1>5, RegisterStep
<1>6. CASE SecondSession(s)
  BY <1>6, SocketInvUnchanged DEF SecondSession, Ends
<1>7. CASE CheckInterrupted(s)
  BY <1>7, <1>m DEF CheckInterrupted
<1>8. CASE Receive(s)
  BY <1>8, <1>m DEF Receive
<1>9. CASE CloseStream(s)
  BY <1>9, <1>m DEF CloseStream
<1>10. CASE Unregister(s)
  BY <1>10, UnregisterStep
<1> QED BY <1>1, <1>2, <1>3, <1>4, <1>5, <1>6, <1>7, <1>8, <1>9, <1>10 DEF SocketStep

-----------------------------------------------------------------------------
(* The steps of the senders.                                               *)

SenderInv == /\ HoldersHold
             /\ StreamHeldByOne
             /\ WaiterIteratorValid
             /\ NoLostWakeup

\* The threads on the way to a stream refer to a session whose list has one.
LEMMA ReaderSession ==
  ASSUME IInv, NEW t \in Senders, pc[t] \in {"select", "asleep", "woken"}
  PROVE  /\ ref[t] \in Sockets
         /\ streams[ref[t]] # <<>>
         /\ Head(streams[ref[t]]) \in Sockets
<1>1. Live(ref[t])
  BY DEF IInv, WaiterIteratorValid
<1>2. ref[t] \in Sockets
  BY <1>1, SocketsAssumption DEF IInv, TypeOK, Live
<1>3. streams[ref[t]] # <<>>
  BY <1>1, <1>2 DEF IInv, NoEmptySession
<1> QED BY <1>2, <1>3, HeadTailProperties, ListElements DEF IInv

\* A sender that changes neither streams in use nor who waits for what.
LEMMA SenderMovesStep ==
  ASSUME IInv, NEW t \in Senders, NEW to \in SenderStates,
         pc' = [pc EXCEPT ![t] = to],
         UNCHANGED <<sessions, streams, home, inUse, ref, st>>,
         pc[t] \in HolderStates \cup {"hung"} <=> to \in HolderStates \cup {"hung"},
         to \notin {"select", "asleep"}, pc[t] # "woken",
         to = "woken" => pc[t] = "asleep"
  PROVE  SenderInv'
<1> USE DEF IInv
<1>1. \A u \in Senders : pc'[u] = IF u = t THEN to ELSE pc[u]
  BY DEF TypeOK
<1>2. HoldersHold'
  BY <1>1 DEF HoldersHold
<1>3. StreamHeldByOne'
  <2>1. \A u \in Senders, s \in Sockets : Occupies(u, s)' <=> Occupies(u, s)
    BY <1>1 DEF Occupies
  <2> QED BY <2>1 DEF StreamHeldByOne
<1>4. WaiterIteratorValid'
  BY <1>1 DEF WaiterIteratorValid, Live
<1>5. NoLostWakeup'
  BY <1>1 DEF NoLostWakeup
<1> QED BY <1>2, <1>3, <1>4, <1>5 DEF SenderInv

\* A sender that takes a free stream of its session.
LEMMA TakeStep ==
  ASSUME IInv, NEW t \in Senders, NEW s \in Sockets,
         pc[t] \in {"select", "woken"}, Take(t, s), ~ inUse[s],
         home[s] = ref[t], pc[t] = "woken" => st[t] = s,
         st' = [st EXCEPT ![t] = s],
         UNCHANGED <<sessions, streams, home, ref>>
  PROVE  SenderInv'
<1> USE DEF IInv
<1>1. \A u \in Senders : pc'[u] = IF u = t THEN "sending" ELSE pc[u]
  BY DEF Take, TypeOK
<1>2. \A u \in Senders : st'[u] = IF u = t THEN s ELSE st[u]
  BY DEF TypeOK
<1>3. \A r \in Sockets : inUse'[r] = IF r = s THEN TRUE ELSE inUse[r]
  BY DEF Take, TypeOK
<1>4. HoldersHold'
  BY <1>1, <1>2, ReaderSession DEF HoldersHold
<1>5. StreamHeldByOne'
  <2>1. \A u \in Senders, r \in Sockets :
          Occupies(u, r)' <=> IF u = t THEN r = s ELSE Occupies(u, r)
    BY <1>1, <1>2 DEF Occupies
  <2>2. \A u \in Senders : ~ Occupies(u, s)
    BY DEF StreamHeldByOne
  <2>3. \A r \in Sockets : ~ Occupies(t, r)
    BY DEF Occupies
  <2> SUFFICES ASSUME NEW r \in Sockets
               PROVE  /\ inUse'[r] <=> \E u \in Senders : Occupies(u, r)'
                      /\ \A u, v \in Senders : Occupies(u, r)' /\ Occupies(v, r)' => u = v
    BY DEF StreamHeldByOne
  <2>4. CASE r = s
    BY <2>1, <2>2, <2>4, <1>3
  <2>5. CASE r # s
    <3>1. \A u \in Senders : Occupies(u, r)' <=> Occupies(u, r)
      BY <2>1, <2>3, <2>5
    <3> QED BY <2>5, <3>1, <1>3 DEF StreamHeldByOne
  <2> QED BY <2>4, <2>5
<1>6. WaiterIteratorValid'
  BY <1>1, <1>2 DEF WaiterIteratorValid, Live
<1>7. NoLostWakeup'
  <2> SUFFICES ASSUME NEW u \in Senders, pc'[u] = "asleep", ~ inUse'[st'[u]]
               PROVE  \E v \in Senders : pc'[v] = "woken" /\ ref'[v] = ref'[u]
    BY DEF NoLostWakeup
  <2>1. u # t /\ pc[u] = "asleep" /\ st'[u] = st[u] /\ st[u] = Head(streams[ref[u]])
    BY <1>1, <1>2 DEF WaiterIteratorValid
  <2>2. st[u] \in Sockets
    BY <2>1, ReaderSession
  <2>3. st[u] # s /\ ~ inUse[st[u]]
    BY <2>1, <2>2, <1>3
  <2>4. PICK v \in Senders : pc[v] = "woken" /\ ref[v] = ref[u]
    BY <2>1, <2>3 DEF NoLostWakeup
  \* The stream taken is not the one the woken thread of this session waits for.
  <2>5. v # t
    <3>1. st[v] = Head(streams[ref[v]])
      BY <2>4 DEF WaiterIteratorValid
    <3> QED BY <2>1, <2>3, <2>4, <3>1
  <2> QED BY <2>4, <2>5, <1>1
<1> QED BY <1>4, <1>5, <1>6, <1>7 DEF SenderInv

\* A sender that finds every stream, or the one it waits for, in use.
LEMMA SleepStep ==
  ASSUME IInv, NEW t \in Senders, NEW s \in Sockets,
         pc[t] \in {"select", "woken"}, inUse[s], s = Head(streams[ref[t]]),
         pc' = [pc EXCEPT ![t] = "asleep"],
         st' = [st EXCEPT ![t] = s],
         UNCHANGED <<sessions, streams, home, ref, inUse>>
  PROVE  SenderInv'
<1> USE DEF IInv
<1>1. \A u \in Senders : pc'[u] = IF u = t THEN "asleep" ELSE pc[u]
  BY DEF TypeOK
<1>2. \A u \in Senders : st'[u] = IF u = t THEN s ELSE st[u]
  BY DEF TypeOK
<1>3. HoldersHold'
  BY <1>1, <1>2 DEF HoldersHold
<1>4. StreamHeldByOne'
  <2>1. \A u \in Senders, r \in Sockets : Occupies(u, r)' <=> Occupies(u, r)
    BY <1>1, <1>2 DEF Occupies
  <2> QED BY <2>1 DEF StreamHeldByOne
<1>5. WaiterIteratorValid'
  BY <1>1, <1>2, ReaderSession DEF WaiterIteratorValid, Live
<1>6. NoLostWakeup'
  <2> SUFFICES ASSUME NEW u \in Senders, pc'[u] = "asleep", ~ inUse[st'[u]]
               PROVE  \E v \in Senders : pc'[v] = "woken" /\ ref'[v] = ref'[u]
    BY DEF NoLostWakeup
  <2>1. u # t /\ pc[u] = "asleep" /\ ~ inUse[st[u]] /\ st[u] = Head(streams[ref[u]])
    BY <1>1, <1>2 DEF WaiterIteratorValid
  <2>2. PICK v \in Senders : pc[v] = "woken" /\ ref[v] = ref[u]
    BY <2>1 DEF NoLostWakeup
  <2>3. v # t
    BY <2>1, <2>2
  <2> QED BY <2>2, <2>3, <1>1
<1> QED BY <1>3, <1>4, <1>5, <1>6 DEF SenderInv

\* A sender gives its stream back, waking at most one thread of its session.
LEMMA FreeStep ==
  ASSUME IInv, NEW t \in Senders, pc[t] \in HolderStates,
         NEW W \in SUBSET {u \in Senders : pc[u] = "asleep" /\ ref[u] = ref[t]},
         Live(ref[t]) /\ (\E u \in Senders : pc[u] = "asleep" /\ ref[u] = ref[t]) => W # {},
         \A u \in Senders : pc'[u] = IF u = t THEN Returned(t)
                                     ELSE IF u \in W THEN "woken" ELSE pc[u],
         inUse' = [inUse EXCEPT ![st[t]] = FALSE],
         UNCHANGED <<sessions, streams, home, ref, st>>
  PROVE  SenderInv'
<1> USE DEF IInv
<1>1. Returned(t) \in {"idle", "dead"}
  BY DEF Returned
<1>2. st[t] \in Sockets
  BY DEF HoldersHold
<1>3. \A r \in Sockets : inUse'[r] = IF r = st[t] THEN FALSE ELSE inUse[r]
  BY DEF TypeOK
<1>4. HoldersHold'
  BY <1>1 DEF HoldersHold
<1>5. StreamHeldByOne'
  <2>1. \A u \in Senders, r \in Sockets : Occupies(u, r)' <=> u # t /\ Occupies(u, r)
    BY <1>1 DEF Occupies
  <2>2. Occupies(t, st[t])
    BY DEF Occupies
  <2> SUFFICES ASSUME NEW r \in Sockets
               PROVE  /\ inUse'[r] <=> \E u \in Senders : Occupies(u, r)'
                      /\ \A u, v \in Senders : Occupies(u, r)' /\ Occupies(v, r)' => u = v
    BY DEF StreamHeldByOne
  <2>3. CASE r = st[t]
    <3>1. \A u \in Senders : Occupies(u, r) => u = t
      BY <2>2, <2>3, <1>2 DEF StreamHeldByOne
    <3> QED BY <2>1, <2>3, <3>1, <1>3
  <2>4. CASE r # st[t]
    <3>1. \A u \in Senders : Occupies(u, r)' <=> Occupies(u, r)
      BY <2>1, <2>4 DEF Occupies
    <3> QED BY <2>4, <3>1, <1>3 DEF StreamHeldByOne
  <2> QED BY <2>3, <2>4
<1>6. WaiterIteratorValid'
  BY <1>1 DEF WaiterIteratorValid, Live
<1>7. NoLostWakeup'
  <2> SUFFICES ASSUME NEW u \in Senders, pc'[u] = "asleep", ~ inUse'[st[u]]
               PROVE  \E v \in Senders : pc'[v] = "woken" /\ ref[v] = ref[u]
    BY DEF NoLostWakeup
  <2>1. u # t /\ pc[u] = "asleep" /\ st[u] \in Sockets
    BY <1>1, ReaderSession DEF WaiterIteratorValid
  <2>2. CASE st[u] = st[t]
    \* The stream is the first of the list of u's session, hence of t's.
    <3>1. Live(ref[t]) /\ ref[u] = ref[t]
      <4>1. Live(ref[u]) /\ st[u] = Head(streams[ref[u]])
        BY <2>1 DEF WaiterIteratorValid
      <4>2. ref[u] \in Sockets /\ 1 \in DOMAIN streams[ref[u]]
        BY <2>1, ReaderSession, ListElements, EmptySeq
      <4>3. home[st[u]] = ref[u]
        BY <4>1, <4>2 DEF ListsAtHome
      <4> QED BY <4>1, <4>3, <2>2 DEF HoldersHold
    <3>2. PICK v \in W : TRUE
      BY <2>1, <3>1
    <3>3. v # t /\ v \in Senders /\ ref[v] = ref[t]
      BY <3>2
    <3> QED BY <3>1, <3>2, <3>3
  <2>3. CASE st[u] # st[t]
    <3>1. PICK v \in Senders : pc[v] = "woken" /\ ref[v] = ref[u]
      BY <2>1, <2>3, <1>3 DEF NoLostWakeup
    <3> QED BY <3>1
  <2> QED BY <2>2, <2>3
<1> QED BY <1>4, <1>5, <1>6, <1>7 DEF SenderInv

LEMMA SenderInvStep ==
  ASSUME IInv, NEW t \in Senders, SenderStep(t)
  PROVE  SenderInv'
<1> USE DEF IInv, sessionVars, senderVars, socketVars
<1>m. ASSUME NEW from \in SenderStates, NEW to \in SenderStates, SenderMoves(t, from, to),
             from \in HolderStates \cup {"hung"} <=> to \in HolderStates \cup {"hung"},
             to \notin {"select", "asleep"}, from # "woken", to = "woken" => from = "asleep"
      PROVE  SenderInv'
  <2>1. /\ pc[t] = from /\ pc' = [pc EXCEPT ![t] = to]
        /\ UNCHANGED <<sessions, streams, home, inUse, ref, st>>
    BY <1>m DEF SenderMoves
  <2> QED BY <1>m, <2>1, SenderMovesStep
\* The streams of a sender's session are at home there.
<1>h. ASSUME pc[t] \in {"select", "asleep", "woken"}, NEW k \in DOMAIN streams[ref[t]]
      PROVE  /\ streams[ref[t]][k] \in Sockets
             /\ home[streams[ref[t]][k]] = ref[t]
  BY <1>h, ReaderSession, ListElements DEF ListsAtHome
<1>d. ASSUME pc[t] \in {"select", "asleep", "woken"}
      PROVE  /\ 1 \in DOMAIN streams[ref[t]]
             /\ Head(streams[ref[t]]) = streams[ref[t]][1]
  BY <1>d, ReaderSession, ListElements, EmptySeq
<1>1. CASE CallNotReady(t)
  BY <1>1, <1>m DEF CallNotReady
<1>2. CASE Call(t)
  <2>1. PICK o \in LiveSessions : ref' = [ref EXCEPT ![t] = o]
    BY <1>2 DEF Call
  <2>2. /\ \A u \in Senders : pc'[u] = IF u = t THEN "select" ELSE pc[u]
        /\ \A u \in Senders : ref'[u] = IF u = t THEN o ELSE ref[u]
        /\ pc[t] = "idle" /\ Live(o)
        /\ UNCHANGED <<sessions, streams, home, inUse, st>>
    BY <1>2, <2>1 DEF Call, TypeOK, LiveSessions
  <2>3. HoldersHold'
    BY <2>2 DEF HoldersHold
  <2>4. StreamHeldByOne'
    <3>1. \A u \in Senders, r \in Sockets : Occupies(u, r)' <=> Occupies(u, r)
      BY <2>2 DEF Occupies
    <3> QED BY <2>2, <3>1 DEF StreamHeldByOne
  <2>5. WaiterIteratorValid'
    BY <2>2 DEF WaiterIteratorValid, Live
  <2>6. NoLostWakeup'
    BY <2>2 DEF NoLostWakeup
  <2> QED BY <2>3, <2>4, <2>5, <2>6 DEF SenderInv
<1>3. CASE Retry(t)
  BY <1>3, <1>m DEF Retry
<1>4. CASE Select(t)
  <2>1. PICK s \in Sockets :
          /\ st' = [st EXCEPT ![t] = s]
          /\ \/ FirstFree(ref[t], s) /\ Take(t, s)
             \/ /\ \A k \in DOMAIN streams[ref[t]] : inUse[streams[ref[t]][k]]
                /\ s = Head(streams[ref[t]])
                /\ pc' = [pc EXCEPT ![t] = "asleep"]
                /\ UNCHANGED inUse
    BY <1>4 DEF Select
  <2>2. pc[t] = "select" /\ UNCHANGED <<sessions, streams, home, ref>>
    BY <1>4 DEF Select
  <2>3. CASE FirstFree(ref[t], s) /\ Take(t, s)
    <3>1. ~ inUse[s] /\ home[s] = ref[t]
      BY <2>2, <2>3, <1>h DEF FirstFree
    <3> QED BY <2>1, <2>2, <2>3, <3>1, TakeStep
  <2>4. CASE /\ \A k \in DOMAIN streams[ref[t]] : inUse[streams[ref[t]][k]]
             /\ s = Head(streams[ref[t]])
             /\ pc' = [pc EXCEPT ![t] = "asleep"]
             /\ UNCHANGED inUse
    <3>1. inUse[s]
      BY <2>2, <2>4, <1>d
    <3> QED BY <2>1, <2>2, <2>4, <3>1, SleepStep
  <2> QED BY <2>1, <2>3, <2>4
<1>5. CASE SpuriousWakeup(t)
  BY <1>5, <1>m DEF SpuriousWakeup
<1>6. CASE Recheck(t)
  <2>1. pc[t] = "woken" /\ UNCHANGED <<sessions, streams, home, ref, st>>
    BY <1>6 DEF Recheck
  <2>2. st[t] = Head(streams[ref[t]]) /\ st[t] \in Sockets /\ home[st[t]] = ref[t]
    BY <2>1, <1>h, <1>d DEF WaiterIteratorValid
  <2>3. st' = [st EXCEPT ![t] = st[t]]
    BY <2>1 DEF TypeOK
  <2>4. CASE StreamFree(t) /\ Take(t, st[t])
    <3>1. pc[t] \in {"select", "woken"} /\ ~ inUse[st[t]] /\ Take(t, st[t])
      BY <2>1, <2>4 DEF StreamFree
    <3> QED BY <2>1, <2>2, <2>3, <3>1, TakeStep
  <2>5. CASE ~ StreamFree(t) /\ pc' = [pc EXCEPT ![t] = "asleep"] /\ UNCHANGED inUse
    BY <2>1, <2>2, <2>3, <2>5, SleepStep DEF StreamFree
  <2> QED BY <1>6, <2>4, <2>5 DEF Recheck
<1>7. CASE SendDone(t)
  <2>1. /\ pc[t] = "sending" /\ pc' = [pc EXCEPT ![t] = "sent"]
        /\ UNCHANGED <<sessions, streams, home, inUse, ref, st>>
    BY <1>7 DEF SendDone
  <2>2. /\ "sent" \in SenderStates /\ "sent" \notin {"select", "asleep"} /\ pc[t] # "woken"
        /\ pc[t] \in HolderStates \cup {"hung"} <=> "sent" \in HolderStates \cup {"hung"}
        /\ "sent" = "woken" => pc[t] = "asleep"
    BY <2>1
  <2> HIDE DEF IInv, SenderStates, HolderStates
  <2> QED BY <2>1, <2>2, SenderMovesStep
<1>8. CASE SendFails(t)
  BY <1>8, <1>m DEF SendFails
<1>9. CASE SigPipe(t) \/ CrashFreed(t)
  <2>1. UNCHANGED <<sessions, streams, home, inUse, pc, ref, st>>
    BY <1>9 DEF SigPipe, CrashFreed, Ends
  <2> QED BY <2>1 DEF SenderInv, HoldersHold, StreamHeldByOne, Occupies, WaiterIteratorValid,
                      Live, NoLostWakeup
<1>10. CASE Release(t)
  <2>1. /\ pc[t] \in HolderStates /\ Live(ref[t])
        /\ inUse' = [inUse EXCEPT ![st[t]] = FALSE]
        /\ UNCHANGED <<sessions, streams, home, ref, st>>
    BY <1>10 DEF Release
  <2>2. Waiters(t) = {u \in Senders : pc[u] = "asleep" /\ ref[u] = ref[t]}
    BY DEF Waiters
  <2>3. CASE Waiters(t) = {} /\ pc' = [pc EXCEPT ![t] = Returned(t)]
    <3>1. \A u \in Senders : pc'[u] = IF u = t THEN Returned(t)
                                      ELSE IF u \in {} THEN "woken" ELSE pc[u]
      BY <2>3 DEF TypeOK
    <3>2. ~ \E u \in Senders : pc[u] = "asleep" /\ ref[u] = ref[t]
      BY <2>2, <2>3
    <3>3. {} \in SUBSET {u \in Senders : pc[u] = "asleep" /\ ref[u] = ref[t]}
      OBVIOUS
    <3> HIDE DEF IInv, HolderStates
    <3> QED BY <2>1, <3>1, <3>2, <3>3, FreeStep
  <2>4. ASSUME NEW w \in Waiters(t), pc' = [pc EXCEPT ![t] = Returned(t), ![w] = "woken"]
        PROVE  SenderInv'
    <3>1. w # t
      BY <2>1, <2>2
    <3>2. \A u \in Senders : pc'[u] = IF u = t THEN Returned(t)
                                      ELSE IF u \in {w} THEN "woken" ELSE pc[u]
      BY <2>4, <3>1 DEF TypeOK
    <3>3. {w} \in SUBSET {u \in Senders : pc[u] = "asleep" /\ ref[u] = ref[t]} /\ {w} # {}
      BY <2>2
    <3> QED BY <2>1, <3>2, <3>3, FreeStep
  <2> QED BY <1>10, <2>3, <2>4 DEF Release
<1>11. CASE ReleaseFreed(t)
  <2>1. /\ pc[t] \in {"sent", "failed"} /\ ~ Live(ref[t])
        /\ UNCHANGED <<sessions, streams, home, ref, st>>
    BY <1>11 DEF ReleaseFreed
  <2>2. CASE /\ inUse' = [inUse EXCEPT ![st[t]] = FALSE]
             /\ pc' = [pc EXCEPT ![t] = Returned(t)]
    <3>1. \A u \in Senders : pc'[u] = IF u = t THEN Returned(t)
                                      ELSE IF u \in {} THEN "woken" ELSE pc[u]
      BY <2>2 DEF TypeOK
    <3>2. {} \in SUBSET {u \in Senders : pc[u] = "asleep" /\ ref[u] = ref[t]}
      OBVIOUS
    <3>3. pc[t] \in HolderStates
      BY <2>1
    <3> HIDE DEF IInv, HolderStates
    <3> QED BY <2>1, <2>2, <3>1, <3>2, <3>3, FreeStep
  <2>3. CASE pc' = [pc EXCEPT ![t] = "hung"] /\ UNCHANGED inUse
    <3>1. /\ "hung" \in SenderStates /\ "hung" \notin {"select", "asleep"} /\ pc[t] # "woken"
          /\ pc[t] \in HolderStates \cup {"hung"} <=> "hung" \in HolderStates \cup {"hung"}
          /\ "hung" = "woken" => pc[t] = "asleep"
      BY <2>1
    <3> HIDE DEF IInv, SenderStates, HolderStates
    <3> QED BY <2>1, <2>3, <3>1, SenderMovesStep
  <2> QED BY <1>11, <2>2, <2>3 DEF ReleaseFreed
<1> QED BY <1>1, <1>2, <1>3, <1>4, <1>5, <1>6, <1>7, <1>8, <1>9, <1>10, <1>11 DEF SenderStep

\* The sockets' threads change the lists only while no sender is a reader.
LEMMA SenderInvOfSockets ==
  ASSUME IInv, NEW s \in Sockets, SocketStep(s)
  PROVE  SenderInv'
<1> USE DEF IInv
<1>1. UNCHANGED <<pc, ref, st, inUse>>
  BY SocketFrame
<1>2. \A r \in Sockets : home[r] # None => home'[r] = home[r]
  <2>1. CASE Register(s)
    BY <2>1 DEF Register, SocketLocals, TypeOK
  <2>2. CASE ~ Register(s)
    BY <2>2 DEF SocketStep, AddSocket, StartTask, ExchangeOk, ExchangeFails, SecondSession,
                CheckInterrupted, Receive, CloseStream, Unregister, SocketMoves, Ends, socketVars
  <2> QED BY <2>1, <2>2
<1>3. HoldersHold'
  BY <1>1, <1>2, SocketsAssumption DEF HoldersHold
<1>4. StreamHeldByOne' /\ NoLostWakeup'
  BY <1>1 DEF StreamHeldByOne, NoLostWakeup, Occupies
<1>5. WaiterIteratorValid'
  <2>1. CASE Register(s) \/ Unregister(s)
    BY <1>1, <2>1 DEF Register, Unregister, CanLockExclusive, Readers, WaiterIteratorValid
  <2>2. CASE ~ (Register(s) \/ Unregister(s))
    <3>1. UNCHANGED <<sessions, streams>>
      BY <2>2 DEF SocketStep, AddSocket, StartTask, ExchangeOk, ExchangeFails, SecondSession,
                  CheckInterrupted, Receive, CloseStream, SocketMoves, Ends, sessionVars
    <3> QED BY <1>1, <3>1 DEF WaiterIteratorValid, Live
  <2> QED BY <2>1, <2>2
<1> QED BY <1>3, <1>4, <1>5 DEF SenderInv

-----------------------------------------------------------------------------
(* The invariant is inductive.                                             *)

LEMMA IInvInit == Init => IInv
<1> SUFFICES ASSUME Init PROVE IInv
  OBVIOUS
<1> USE DEF Init
<1>1. TypeOK
  <2>1. <<>> \in Seq(Sockets) /\ <<>> \in Seq(Nat)
    OBVIOUS
  <2> QED BY <2>1 DEF TypeOK
<1>2. SocketLocals /\ EraseIsSafe /\ OneId /\ TasksEndedOnceJoined
  BY DEF SocketLocals, EraseIsSafe, OneId, TasksEndedOnceJoined, TasksEnded
<1>3. \A o \in Sockets : ~ Live(o) /\ DOMAIN streams[o] = {}
  BY DEF Live
<1>4. ListsAtHome /\ NoEmptySession
  BY <1>3 DEF ListsAtHome, NoEmptySession
<1>5. HoldersHold /\ StreamHeldByOne /\ WaiterIteratorValid /\ NoLostWakeup
  BY DEF HoldersHold, StreamHeldByOne, Occupies, WaiterIteratorValid, NoLostWakeup
<1> QED BY <1>1, <1>2, <1>4, <1>5 DEF IInv

LEMMA IInvStep == IInv /\ [Next]_vars => IInv'
<1> SUFFICES ASSUME IInv, [Next]_vars PROVE IInv'
  OBVIOUS
<1>1. TypeOK'
  BY TypeOKStep
<1>2. SocketInv' /\ SenderInv'
  <2>1. ASSUME NEW s \in Sockets, SocketStep(s) PROVE SocketInv' /\ SenderInv'
    BY <2>1, SocketInvStep, SenderInvOfSockets
  <2>2. ASSUME NEW t \in Senders, SenderStep(t) PROVE SocketInv' /\ SenderInv'
    BY <2>2, SenderFrame, SocketInvUnchanged, SenderInvStep
  <2>3. ASSUME UNCHANGED <<sessions, streams, inUse, pc, ref, st, sock, ident, home>>
        PROVE  /\ SenderInv'
               /\ SocketLocals' /\ ListsAtHome' /\ EraseIsSafe' /\ NoEmptySession' /\ OneId'
    BY <2>3 DEF IInv, SenderInv, HoldersHold, StreamHeldByOne, Occupies, WaiterIteratorValid,
                Live, NoLostWakeup, SocketLocals, ListsAtHome, EraseIsSafe, NoEmptySession, OneId
  \* The pool is joined when every task has ended, and no socket is added then.
  <2>4. ASSUME BeginDestroy \/ JoinPool \/ FinishDestroy PROVE SocketInv' /\ SenderInv'
    <3>1. TasksEndedOnceJoined'
      BY <2>4, DtorFrame DEF BeginDestroy, JoinPool, FinishDestroy, DtorMoves, IInv,
                             TasksEndedOnceJoined, TasksEnded
    <3> QED BY <2>3, <2>4, <3>1, DtorFrame DEF SocketInv
  <2>5. CASE UNCHANGED vars
    <3>1. TasksEndedOnceJoined'
      BY <2>5 DEF vars, IInv, TasksEndedOnceJoined, TasksEnded
    <3> QED BY <2>3, <2>5, <3>1 DEF SocketInv, vars
  <2> QED BY <2>1, <2>2, <2>4, <2>5 DEF Next
<1> QED BY <1>1, <1>2 DEF IInv, SocketInv, SenderInv

THEOREM Invariance == Spec => []IInv
<1>1. Init => IInv
  BY IInvInit
<1>2. IInv /\ [Next]_vars => IInv'
  BY IInvStep
<1> QED BY <1>1, <1>2, PTL DEF Spec

\* Every variable keeps its type, whatever the threads and the peers do.
THEOREM TypeCorrect == Spec => []TypeOK
<1>1. IInv => TypeOK
  BY DEF IInv
<1> QED BY <1>1, Invariance, PTL

\* Frames of two threads are never interleaved on one socket: a stream is
\* in use exactly while one thread writes to it (lines 238-269).
THEOREM StreamsAreExclusive == Spec => []StreamHeldByOne
<1>1. IInv => StreamHeldByOne
  BY DEF IInv
<1> QED BY <1>1, Invariance, PTL

\* The task's guard finds its session and its own element of the list
\* (lines 186-193), however the tasks of other sockets interleave.
THEOREM GuardErasesWhatItRegistered == Spec => []EraseIsSafe
<1>1. IInv => EraseIsSafe
  BY DEF IInv
<1> QED BY <1>1, Invariance, PTL

\* A session that can be found has a stream, and every stream of a list is
\* registered: its[0] of line 251 is initialised.
THEOREM SessionsHaveStreams == Spec => []NoEmptySession
<1>1. IInv => NoEmptySession
  BY DEF IInv
<1> QED BY <1>1, Invariance, PTL

\* The session and the iterator used after a wait on session.cv (lines
\* 241-256) are as they were before it.
THEOREM IteratorsSurviveTheWait == Spec => []WaiterIteratorValid
<1>1. IInv => WaiterIteratorValid
  BY DEF IInv
<1> QED BY <1>1, Invariance, PTL

\* notify_one of line 268 is never lost: while a thread sleeps though its
\* stream is free, another of its session has been woken and has yet to look.
THEOREM WakeupsAreNotLost == Spec => []NoLostWakeup
<1>1. IInv => NoLostWakeup
  BY DEF IInv
<1> QED BY <1>1, Invariance, PTL

\* The RASSERTs of lines 93, 225 and 230 never fail: at most one session is
\* live under at most one id, and none after the pool has been joined.
THEOREM AssertsHold == Spec => []OneSession
<1>1. IInv => OneSession
  <2> SUFFICES ASSUME IInv, dtor \in {"popping", "gone"}, NEW o \in LiveSessions
               PROVE  FALSE
    BY DEF IInv, OneId, OneSession
  <2>1. o \in Sockets /\ Live(o)
    BY DEF LiveSessions
  <2>2. 1 \in DOMAIN streams[o]
    BY <2>1, ListElements, EmptySeq DEF IInv, NoEmptySession
  <2>3. streams[o][1] \in Sockets /\ sock[streams[o][1]] \in RegisteredStates
    BY <2>1, <2>2, ListElements DEF IInv, NoEmptySession
  <2> QED BY <2>3 DEF IInv, TasksEndedOnceJoined, TasksEnded
<1> QED BY <1>1, Invariance, PTL

-----------------------------------------------------------------------------
(* After the join.                                                         *)

\* Once the destructor has joined the pool no frame reaches a wire and no
\* thread takes a stream, so that pipePop waits for nothing but the guards of
\* the sends in progress (lines 89-99).
THEOREM QuietOnceJoined == Spec => QuietAfterJoin
<1>1. IInv /\ IInv' /\ [Next]_vars => [QuietStep]_vars
  <2> SUFFICES ASSUME IInv, [Next]_vars, dtor \in {"popping", "gone"}
               PROVE  wire' = wire /\ \A t \in Senders : pc'[t] = "sending" => pc[t] = "sending"
    BY DEF QuietStep
  <2> USE DEF IInv, sessionVars, senderVars, socketVars
  <2>1. TasksEnded
    BY DEF TasksEndedOnceJoined
  <2>2. ASSUME NEW s \in Sockets, SocketStep(s)
        PROVE  FALSE
    <3>1. sock[s] \in {"absent", "done"}
      BY <2>1 DEF TasksEnded
    <3> QED BY <2>2, <3>1 DEF SocketStep, AddSocket, StartTask, ExchangeOk, ExchangeFails, Register,
              SecondSession, CheckInterrupted, Receive, CloseStream, Unregister, SocketMoves
  \* No session is live, so no thread selects or waits.
  <2>3. ASSUME NEW t \in Senders PROVE pc[t] \notin {"select", "asleep", "woken"}
    <3> SUFFICES ASSUME pc[t] \in {"select", "asleep", "woken"} PROVE FALSE
      OBVIOUS
    <3>1. ref[t] \in Sockets /\ streams[ref[t]] # <<>>
      BY ReaderSession
    <3>2. 1 \in DOMAIN streams[ref[t]]
      BY <3>1, ListElements, EmptySeq
    <3>3. streams[ref[t]][1] \in Sockets /\ sock[streams[ref[t]][1]] \in RegisteredStates
      BY <3>1, <3>2, ListElements DEF NoEmptySession
    <3> QED BY <2>1, <3>3 DEF TasksEnded
  <2>4. ASSUME NEW t \in Senders, SenderStep(t)
        PROVE  wire' = wire /\ \A u \in Senders : pc'[u] = "sending" => pc[u] = "sending"
    <3>1. ~ SendDone(t)
      <4>1. pc[t] = "sending" => sock[st[t]] \in {"absent", "done"}
        BY <2>1 DEF HoldersHold, TasksEnded
      <4> QED BY <4>1 DEF SendDone, StreamOpen
    <3>2. ~ Select(t) /\ ~ Recheck(t)
      BY <2>3 DEF Select, Recheck
    <3>3. wire' = wire
      BY <2>4, <3>1 DEF SenderStep, CallNotReady, Call, Retry, Select, SpuriousWakeup, Recheck,
              SendFails, SigPipe, Release, ReleaseFreed, CrashFreed, SenderMoves, Ends
    <3>4. \A u \in Senders : pc'[u] = "sending" => pc[u] = "sending"
      BY <2>4, <3>1, <3>2 DEF SenderStep, CallNotReady, Call, Retry, SpuriousWakeup,
              SendFails, SigPipe, Release, ReleaseFreed, CrashFreed, SenderMoves, Ends,
              Returned, Waiters, TypeOK
    <3> QED BY <3>3, <3>4
  <2>5. CASE BeginDestroy \/ JoinPool \/ FinishDestroy
    BY <2>5, DtorFrame
  <2>6. CASE UNCHANGED vars
    BY <2>6 DEF vars
  <2> QED BY <2>2, <2>4, <2>5, <2>6 DEF Next
<1> QED BY <1>1, Invariance, PTL DEF Spec, QuietAfterJoin

-----------------------------------------------------------------------------
(* Who waits for whom.                                                     *)

\* The threads that wait for nothing but the processor, a mutex that is free,
\* or the peer that reads what is sent to it.
SenderMoving(t) ==
  \/ pc[t] \in {"select", "woken", "sending"}
  \/ pc[t] \in {"sent", "failed"} /\ CanLockShared

SocketMoving(s) ==
  \/ sock[s] = "posted" /\ Cardinality({r \in Sockets : sock[r] \in RunningStates}) < PoolSize
  \/ sock[s] \in {"loop", "closing"}
  \/ sock[s] \in {"registering", "unregistering"} /\ CanLockExclusive

\* The threads that wait for their peer to say something.
Listening(s) == sock[s] \in {"exchange", "receiving"}

SomeoneMoves ==
  (\E t \in Senders : SenderMoving(t)) \/ (\E s \in Sockets : SocketMoving(s))

\* No circle of threads that wait for each other: a call that is inside always
\* leaves some call that goes on, through _mutex, session.mutex and the wait;
\* a task that has not ended leaves a call or a task that goes on, or one whose
\* peer is silent.  The destructor waits for the tasks and then for the calls.
NoCircularWait ==
  fault = "none" /\ (\A t \in Senders : pc[t] # "hung") =>
    /\ (\E t \in Senders : Inside(t)) => \E t \in Senders : SenderMoving(t)
    /\ ~ TasksEnded => SomeoneMoves \/ \E s \in Sockets : Listening(s)

\* With a mutex that lets readers in while a writer waits (glibc's), nothing
\* in onTunnelFrameFromPrev, in the tasks and in the destructor (lines 89-99,
\* 143-203, 213-273) waits in a circle.  What CallsReturn, DeadStreamsLeave and
\* DestructorWaitsOnlyForPeers need besides fairness.
THEOREM NobodyWaitsInACircle ==
  ASSUME ~ WriterPreference
  PROVE  Spec => []NoCircularWait
<1>1. CanLockShared
  BY DEF CanLockShared
<1>2. IInv => NoCircularWait
  <2> SUFFICES ASSUME IInv, fault = "none", \A t \in Senders : pc[t] # "hung"
               PROVE  /\ (\E t \in Senders : Inside(t)) => \E t \in Senders : SenderMoving(t)
                      /\ ~ TasksEnded => SomeoneMoves \/ \E s \in Sockets : Listening(s)
    BY DEF NoCircularWait
  \* A sleeper waits for a stream somebody holds, or somebody has been woken.
  <2>1. ASSUME NEW t \in Senders, Inside(t)
        PROVE  \E u \in Senders : SenderMoving(u)
    <3>1. CASE pc[t] # "asleep"
      BY <1>1, <2>1, <3>1 DEF Inside, ReaderStates, HolderStates, SenderMoving
    <3>2. CASE pc[t] = "asleep" /\ inUse[st[t]]
      <4>1. st[t] \in Sockets
        <5>1. ref[t] \in Sockets /\ streams[ref[t]] # <<>> /\ st[t] = Head(streams[ref[t]])
          BY <3>2, ReaderSession DEF IInv, WaiterIteratorValid
        <5> QED BY <5>1, HeadTailProperties DEF IInv, TypeOK
      <4>2. PICK u \in Senders : Occupies(u, st[t])
        BY <3>2, <4>1 DEF IInv, StreamHeldByOne
      <4>3. pc[u] \in HolderStates
        BY <4>2 DEF Occupies
      <4> QED BY <1>1, <4>3 DEF HolderStates, SenderMoving
    <3>3. CASE pc[t] = "asleep" /\ ~ inUse[st[t]]
      BY <3>3 DEF IInv, NoLostWakeup, SenderMoving
    <3> QED BY <3>1, <3>2, <3>3
  <2>2. CASE \E t \in Senders : pc[t] \in ReaderStates
    BY <2>1, <2>2 DEF Inside, SomeoneMoves
  <2>3. ASSUME Readers = {}, NEW s \in Sockets, sock[s] \notin {"absent", "done"}
        PROVE  SomeoneMoves \/ \E r \in Sockets : Listening(r)
    <3>1. CanLockExclusive
      BY <2>3 DEF CanLockExclusive
    <3>2. ASSUME NEW r \in Sockets, sock[r] \in RunningStates
          PROVE  SocketMoving(r) \/ Listening(r)
      BY <3>1, <3>2 DEF RunningStates, RegisteredStates, SocketMoving, Listening
    <3>3. CASE sock[s] \in RunningStates
      BY <3>2, <3>3 DEF SomeoneMoves
    <3>4. CASE sock[s] = "posted"
      <4>1. CASE {r \in Sockets : sock[r] \in RunningStates} = {}
        <5>1. Cardinality({r \in Sockets : sock[r] \in RunningStates}) < PoolSize
          BY <4>1, FS_EmptySet, PoolSizeAssumption
        <5> QED BY <3>4, <5>1 DEF SocketMoving, SomeoneMoves
      <4>2. CASE \E r \in Sockets : sock[r] \in RunningStates
        BY <3>2, <4>2 DEF SomeoneMoves
      <4> QED BY <4>1, <4>2
    <3> QED BY <2>3, <3>3, <3>4 DEF IInv, TypeOK, SocketStates
  <2> QED BY <2>1, <2>2, <2>3 DEF Readers, TasksEnded
<1> QED BY <1>2, Invariance, PTL
=============================================================================
