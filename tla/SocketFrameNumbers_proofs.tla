---------------------- MODULE SocketFrameNumbers_proofs ----------------------
(***************************************************************************)
(* The numbers that onTunnelFrameFromPrev gives to frames: no two frames   *)
(* of a session object have the same one, and none has the number of the   *)
(* initial frame.                                                          *)
(***************************************************************************)
EXTENDS SocketProducerConsumer_proofs

-----------------------------------------------------------------------------
(* The inductive invariant.                                                *)

\* The senders whose frame has a number and is not yet on a wire.
Numbered(t) == pc[t] \in {"select", "asleep", "woken", "sending"}

\* A session object is named by the socket that created it and was its first
\* stream: a socket not yet registered names none.
NamedByCreator ==
  /\ \A s \in Sockets : home[s] # None => home[home[s]] = home[s]
  /\ \A t \in Senders : Numbered(t) => ref[t] \in Sockets /\ home[ref[t]] = ref[t]
  /\ \A i \in SessionIds : sessions[i] # None => home[sessions[i]] = sessions[i]

\* A wire begins with the initial frame; what follows was numbered by the
\* session, and follows only after the registration.
WireNumbers ==
  \A s \in Sockets :
    /\ sock[s] = "registering" \/ home[s] # None => wire[s] # <<>>
    /\ wire[s] # <<>> => wire[s][1] = 0
    /\ home[s] = None => Len(wire[s]) <= 1
    /\ home[s] # None => \A k \in 2..Len(wire[s]) : wire[s][k] \in 1..(nextSeq[home[s]] - 1)

SenderNumbers ==
  \A t \in Senders : Numbered(t) => seq[t] \in 1..(nextSeq[ref[t]] - 1)

NumbersDiffer ==
  /\ \A r, s \in Sockets : home[r] = home[s] =>
       \A j \in 2..Len(wire[r]), k \in 2..Len(wire[s]) :
         wire[r][j] = wire[s][k] => r = s /\ j = k
  /\ \A t, u \in Senders :
       t # u /\ Numbered(t) /\ Numbered(u) /\ ref[u] = ref[t] => seq[u] # seq[t]
  /\ \A t \in Senders, s \in Sockets : Numbered(t) /\ home[s] = ref[t] =>
       \A k \in 2..Len(wire[s]) : wire[s][k] # seq[t]

NextNumbers == \A o \in Sockets : nextSeq[o] \in Nat \ {0}

NumbersInv == /\ NamedByCreator
              /\ WireNumbers
              /\ SenderNumbers
              /\ NumbersDiffer
              /\ NextNumbers

USE DEF kInitFrameSeqNum, ReaderStates, HolderStates, SenderStates,
        RegisteredStates, RunningStates, SocketStates

LEMMA NumbersSuffice == IInv /\ NumbersInv => FrameNumbersUnique
<1> SUFFICES ASSUME IInv, NumbersInv PROVE FrameNumbersUnique
  OBVIOUS
<1> USE DEF IInv, NumbersInv
<1>w. ASSUME NEW s \in Sockets
      PROVE  /\ Len(wire[s]) \in Nat /\ DOMAIN wire[s] = 1..Len(wire[s])
             /\ home[s] \in Sockets \cup {None}
  BY LenProperties DEF TypeOK
<1>1. ASSUME NEW s \in Sockets, wire[s] # <<>>, NEW k \in DOMAIN wire[s]
      PROVE  wire[s][k] = 0 <=> k = 1
  <2>1. CASE k = 1
    BY <1>1, <2>1 DEF WireNumbers
  <2>2. CASE k # 1
    <3>1. k \in 2..Len(wire[s]) /\ home[s] # None
      BY <2>2, <1>1, <1>w DEF WireNumbers
    <3>2. wire[s][k] \in 1..(nextSeq[home[s]] - 1)
      BY <3>1 DEF WireNumbers
    <3> QED BY <3>2, <2>2
  <2> QED BY <2>1, <2>2
<1>2. ASSUME NEW t \in Senders, Numbered(t), NEW s \in Sockets, home[s] = ref[t]
      PROVE  ~ Contains(wire[s], seq[t])
  <2> SUFFICES ASSUME NEW k \in 1..Len(wire[s]), wire[s][k] = seq[t] PROVE FALSE
    BY DEF Contains
  <2>1. seq[t] \in 1..(nextSeq[ref[t]] - 1)
    BY <1>2 DEF SenderNumbers
  <2>2. CASE k = 1
    <3>1. wire[s] # <<>>
      BY <1>w, EmptySeq, <2>2
    <3> QED BY <2>1, <2>2, <3>1 DEF WireNumbers
  <2>3. CASE k # 1
    BY <2>3, <1>2, <1>w DEF NumbersDiffer
  <2> QED BY <2>2, <2>3
<1>3. \A t \in Senders : pc[t] \in {"select", "asleep", "woken", "sending"} =>
        /\ \A u \in Senders \ {t} :
             pc[u] \in {"select", "asleep", "woken", "sending"} /\ ref[u] = ref[t] => seq[u] # seq[t]
        /\ \A s \in Sockets : home[s] = ref[t] => ~ Contains(wire[s], seq[t])
  BY <1>2 DEF NumbersDiffer, Numbered
<1>4. \A r, s \in Sockets : home[r] = home[s] =>
        \A j \in 2..Len(wire[r]), k \in 2..Len(wire[s]) :
          wire[r][j] = wire[s][k] => r = s /\ j = k
  BY DEF NumbersDiffer
<1> QED BY <1>1, <1>3, <1>4 DEF FrameNumbersUnique

-----------------------------------------------------------------------------
(* Preservation.                                                           *)

\* A step that gives no number, sends no frame and registers no socket.
LEMMA NumbersStay ==
  ASSUME NumbersInv, UNCHANGED <<home, nextSeq, wire, ref, seq>>,
         \A i \in SessionIds : sessions'[i] = sessions[i] \/ sessions'[i] = None,
         \A t \in Senders : Numbered(t)' => Numbered(t),
         \A s \in Sockets : sock'[s] = "registering" => sock[s] = "registering"
  PROVE  NumbersInv'
<1> USE DEF NumbersInv
<1>1. NamedByCreator'
  BY DEF NamedByCreator
<1>2. WireNumbers'
  BY DEF WireNumbers
<1>3. SenderNumbers'
  BY DEF SenderNumbers
<1>4. NumbersDiffer'
  BY DEF NumbersDiffer
<1>5. NextNumbers'
  BY DEF NextNumbers
<1> QED BY <1>1, <1>2, <1>3, <1>4, <1>5

LEMMA NumbersExchange ==
  ASSUME IInv, NumbersInv, NEW s \in Sockets, NEW i \in SessionIds, ExchangeOk(s, i)
  PROVE  NumbersInv'
<1> USE DEF NumbersInv, IInv
<1>1. /\ home[s] = None
      /\ \A r \in Sockets : wire'[r] = IF r = s THEN <<0>> ELSE wire[r]
      /\ \A r \in Sockets : sock'[r] = IF r = s THEN "registering" ELSE sock[r]
      /\ UNCHANGED <<sessions, nextSeq, pc, ref, seq, home>>
  BY DEF ExchangeOk, TypeOK, SocketLocals, sessionVars, senderVars
<1>2. wire'[s] # <<>> /\ Len(wire'[s]) = 1 /\ wire'[s][1] = 0
  BY <1>1
<1>3. NamedByCreator' /\ SenderNumbers' /\ NextNumbers'
  BY <1>1 DEF NamedByCreator, SenderNumbers, NextNumbers, Numbered
<1>4. WireNumbers'
  <2> SUFFICES ASSUME NEW r \in Sockets
               PROVE  /\ sock'[r] = "registering" \/ home'[r] # None => wire'[r] # <<>>
                      /\ wire'[r] # <<>> => wire'[r][1] = 0
                      /\ home'[r] = None => Len(wire'[r]) <= 1
                      /\ home'[r] # None =>
                           \A k \in 2..Len(wire'[r]) : wire'[r][k] \in 1..(nextSeq'[home'[r]] - 1)
    BY DEF WireNumbers
  <2>1. CASE r = s
    BY <2>1, <1>1, <1>2
  <2>2. CASE r # s
    BY <2>2, <1>1 DEF WireNumbers
  <2> QED BY <2>1, <2>2
<1>5. NumbersDiffer'
  <2>1. \A r \in Sockets : r # s => wire'[r] = wire[r]
    BY <1>1
  <2>2. \A k \in 2..Len(wire'[s]) : FALSE
    BY <1>2
  <2> QED BY <1>1, <2>1, <2>2 DEF NumbersDiffer, Numbered
<1> QED BY <1>3, <1>4, <1>5

LEMMA NumbersRegister ==
  ASSUME IInv, NumbersInv, NEW s \in Sockets, Register(s)
  PROVE  NumbersInv'
<1> USE DEF NumbersInv, IInv
<1>1. PICK o \in Sockets :
        /\ \/ sessions[ident[s]] = o /\ UNCHANGED <<sessions, nextSeq>>
           \/ LiveSessions = {} /\ o = s /\ EmplaceSession(ident[s], o)
        /\ home' = [home EXCEPT ![s] = o]
  BY DEF Register
<1>2. /\ sock[s] = "registering" /\ home[s] = None /\ ident[s] \in SessionIds
      /\ \A r \in Sockets : home'[r] = IF r = s THEN o ELSE home[r]
      /\ \A r \in Sockets : sock'[r] = IF r = s THEN "loop" ELSE sock[r]
      /\ UNCHANGED <<wire, pc, ref, seq>>
  BY <1>1 DEF Register, TypeOK, SocketLocals, senderVars
\* Either the session was there, or it is new and s names nothing older.
<1>3. \/ /\ home[o] = o /\ o # s
         /\ UNCHANGED <<sessions, nextSeq>>
      \/ /\ o = s
         /\ \A i \in SessionIds : sessions'[i] = s \/ sessions'[i] = sessions[i]
         /\ \A x \in Sockets : nextSeq'[x] = IF x = s THEN 1 ELSE nextSeq[x]
  <2>1. CASE sessions[ident[s]] = o /\ UNCHANGED <<sessions, nextSeq>>
    BY <2>1, <1>2, SocketsAssumption DEF NamedByCreator
  <2>2. CASE LiveSessions = {} /\ o = s /\ EmplaceSession(ident[s], o)
    BY <2>2, <1>2 DEF EmplaceSession, TypeOK
  <2> QED BY <1>1, <2>1, <2>2
<1>4. /\ \A r \in Sockets : home[r] # s
      /\ \A t \in Senders : Numbered(t) => ref[t] # s
      /\ \A i \in SessionIds : sessions[i] # s
  BY <1>2, SocketsAssumption DEF NamedByCreator
<1>5. /\ \A r \in Sockets \ {s} : home'[r] = home[r]
                                 /\ (home[r] # None => nextSeq'[home[r]] = nextSeq[home[r]])
      /\ \A t \in Senders : Numbered(t) => nextSeq'[ref[t]] = nextSeq[ref[t]]
  BY <1>2, <1>3, <1>4 DEF TypeOK, NamedByCreator
<1>6. Len(wire[s]) <= 1 /\ Len(wire[s]) \in Nat /\ 2..Len(wire[s]) = {}
  <2>1. Len(wire[s]) <= 1 /\ Len(wire[s]) \in Nat
    BY <1>2, LenProperties DEF WireNumbers, TypeOK
  <2> QED BY <2>1
<1>7. NamedByCreator'
  <2>1. \A r \in Sockets : home'[r] # None => home'[home'[r]] = home'[r]
    <3>1. home[o] = o \/ o = s
      BY <1>3
    <3>2. \A r \in Sockets : home[r] # None => home[r] \in Sockets /\ home[home[r]] = home[r]
      BY DEF NamedByCreator, TypeOK
    <3> QED BY <3>1, <3>2, <1>2, <1>4
  <2>2. \A t \in Senders : Numbered(t)' => ref'[t] \in Sockets /\ home'[ref'[t]] = ref'[t]
    BY <1>2, <1>4 DEF NamedByCreator, Numbered
  <2>3. \A i \in SessionIds : sessions'[i] # None => home'[sessions'[i]] = sessions'[i]
    <3>1. \A i \in SessionIds :
            sessions[i] # None => sessions[i] \in Sockets /\ home[sessions[i]] = sessions[i]
      BY DEF NamedByCreator, TypeOK
    <3> QED BY <3>1, <1>2, <1>3, <1>4
  <2> QED BY <2>1, <2>2, <2>3 DEF NamedByCreator
<1>8. WireNumbers'
  BY <1>2, <1>5, <1>6, SocketsAssumption DEF WireNumbers
<1>9. SenderNumbers'
  BY <1>2, <1>5 DEF SenderNumbers, Numbered
<1>10. NumbersDiffer'
  BY <1>2, <1>5, <1>6 DEF NumbersDiffer, Numbered
<1>11. NextNumbers'
  BY <1>3 DEF NextNumbers
<1> QED BY <1>7, <1>8, <1>9, <1>10, <1>11

LEMMA NumbersCall ==
  ASSUME IInv, NumbersInv, NEW t \in Senders, Call(t)
  PROVE  NumbersInv'
<1> USE DEF NumbersInv, IInv
<1>1. PICK o \in LiveSessions :
        /\ ref' = [ref EXCEPT ![t] = o]
        /\ seq' = [seq EXCEPT ![t] = nextSeq[o]]
        /\ nextSeq' = [nextSeq EXCEPT ![o] = @ + 1]
  BY DEF Call
<1>2. o \in Sockets /\ home[o] = o /\ nextSeq[o] \in Nat \ {0}
  BY SocketsAssumption DEF LiveSessions, Live, NamedByCreator, NextNumbers
<1>3. /\ pc[t] = "idle"
      /\ \A u \in Senders : Numbered(u)' <=> u = t \/ Numbered(u)
      /\ \A u \in Senders : ref'[u] = IF u = t THEN o ELSE ref[u]
      /\ \A u \in Senders : seq'[u] = IF u = t THEN nextSeq[o] ELSE seq[u]
      /\ \A x \in Sockets : nextSeq'[x] = IF x = o THEN nextSeq[o] + 1 ELSE nextSeq[x]
      /\ UNCHANGED <<sessions, home, wire, sock>>
  BY <1>1, <1>2 DEF Call, TypeOK, Numbered, socketVars
<1>4. \A x \in Sockets : nextSeq[x] \in Nat
  BY DEF NextNumbers
<1>5. NamedByCreator'
  BY <1>2, <1>3 DEF NamedByCreator
<1>6. WireNumbers'
  <2>1. ASSUME NEW s \in Sockets, home[s] # None, NEW k \in 2..Len(wire[s])
        PROVE  wire[s][k] \in 1..(nextSeq'[home[s]] - 1)
    <3>1. wire[s][k] \in 1..(nextSeq[home[s]] - 1) /\ home[s] \in Sockets
      BY <2>1 DEF WireNumbers, TypeOK
    <3> QED BY <3>1, <1>2, <1>3, <1>4
  <2> QED BY <2>1, <1>3 DEF WireNumbers
<1>7. SenderNumbers'
  <2> SUFFICES ASSUME NEW u \in Senders, Numbered(u)' PROVE seq'[u] \in 1..(nextSeq'[ref'[u]] - 1)
    BY DEF SenderNumbers
  <2>1. CASE u = t
    BY <2>1, <1>2, <1>3
  <2>2. CASE u # t
    <3>1. seq[u] \in 1..(nextSeq[ref[u]] - 1) /\ ref[u] \in Sockets
      BY <2>2, <1>3 DEF SenderNumbers, NamedByCreator
    <3> QED BY <2>2, <3>1, <1>2, <1>3, <1>4
  <2> QED BY <2>1, <2>2
\* Every number given before is below nextSeq[o].
<1>8. NumbersDiffer'
  <2>1. \A u \in Senders : Numbered(u) /\ ref[u] = o => seq[u] # nextSeq[o]
    BY <1>2 DEF SenderNumbers
  <2>2. \A s \in Sockets : home[s] = o => \A k \in 2..Len(wire[s]) : wire[s][k] # nextSeq[o]
    BY <1>2, SocketsAssumption DEF WireNumbers
  <2> QED BY <2>1, <2>2, <1>3 DEF NumbersDiffer
<1>9. NextNumbers'
  BY <1>2, <1>3 DEF NextNumbers
<1> QED BY <1>5, <1>6, <1>7, <1>8, <1>9

LEMMA NumbersSend ==
  ASSUME IInv, NumbersInv, NEW t \in Senders, SendDone(t)
  PROVE  NumbersInv'
<1> USE DEF NumbersInv, IInv
<1>0. PICK s \in Sockets : s = st[t] /\ home[s] = ref[t] /\ ref[t] \in Sockets
  BY DEF SendDone, HoldersHold
<1> DEFINE n == Len(wire[s])
<1>1. /\ Numbered(t)
      /\ \A u \in Senders : Numbered(u)' <=> u # t /\ Numbered(u)
      /\ UNCHANGED <<sessions, nextSeq, ref, seq, sock, home>>
  BY DEF SendDone, TypeOK, Numbered, sessionVars, socketVars
<1>2. /\ n \in Nat /\ Len(wire'[s]) = n + 1 /\ wire'[s][n + 1] = seq[t]
      /\ \A k \in 1..n : wire'[s][k] = wire[s][k]
  <2>1. wire[s] \in Seq(Nat) /\ seq[t] \in Nat /\ wire'[s] = Append(wire[s], seq[t])
    BY <1>0 DEF SendDone, TypeOK
  <2> QED BY <2>1, AppendProperties, LenProperties
<1>3. \A r \in Sockets \ {s} : wire'[r] = wire[r]
  BY <1>0 DEF SendDone, TypeOK
<1>4. n >= 1
  <2>1. wire[s] # <<>> /\ wire[s] \in Seq(Nat)
    BY <1>0, SocketsAssumption DEF WireNumbers, TypeOK
  <2> QED BY <2>1, <1>2, EmptySeq
<1> HIDE DEF n
<1>5. seq[t] \in 1..(nextSeq[ref[t]] - 1)
  BY <1>1 DEF SenderNumbers
<1>6. NamedByCreator' /\ SenderNumbers' /\ NextNumbers'
  BY <1>1 DEF NamedByCreator, SenderNumbers, NextNumbers
<1>7. WireNumbers'
  <2> SUFFICES ASSUME NEW r \in Sockets
               PROVE  /\ sock'[r] = "registering" \/ home'[r] # None => wire'[r] # <<>>
                      /\ wire'[r] # <<>> => wire'[r][1] = 0
                      /\ home'[r] = None => Len(wire'[r]) <= 1
                      /\ home'[r] # None =>
                           \A k \in 2..Len(wire'[r]) : wire'[r][k] \in 1..(nextSeq'[home'[r]] - 1)
    BY DEF WireNumbers
  <2>1. CASE r # s
    BY <2>1, <1>1, <1>3 DEF WireNumbers
  <2>2. CASE r = s
    <3>1. wire'[s] # <<>> /\ wire[s] # <<>>
      BY <1>2, <1>4, EmptySeq DEF n
    <3>2. wire'[s][1] = 0
      BY <3>1, <1>2, <1>4 DEF WireNumbers
    <3>3. ASSUME NEW k \in 2..(n + 1) PROVE wire'[s][k] \in 1..(nextSeq[home[s]] - 1)
      <4>1. CASE k = n + 1
        BY <4>1, <1>0, <1>2, <1>5
      <4>2. CASE k # n + 1
        <5>1. k \in 2..n /\ k \in 1..n
          BY <4>2, <1>2
        <5> QED BY <5>1, <1>0, <1>2, SocketsAssumption DEF WireNumbers, n
      <4> QED BY <4>1, <4>2
    <3> QED BY <2>2, <3>1, <3>2, <3>3, <1>0, <1>1, <1>2, SocketsAssumption
  <2> QED BY <2>1, <2>2
\* The number that goes to the wire was t's alone.
<1>8. \A r \in Sockets : home[r] = home[s] => \A k \in 2..Len(wire[r]) : wire[r][k] # seq[t]
  BY <1>0, <1>1 DEF NumbersDiffer
<1>9. ASSUME NEW r \in Sockets, NEW j \in 2..Len(wire'[r])
      PROVE  \/ r = s /\ j = n + 1 /\ wire'[r][j] = seq[t]
             \/ j \in 2..Len(wire[r]) /\ wire'[r][j] = wire[r][j] /\ ~ (r = s /\ j = n + 1)
  <2>1. CASE r = s
    BY <2>1, <1>2 DEF n
  <2>2. CASE r # s
    BY <2>2, <1>3
  <2> QED BY <2>1, <2>2
<1>10. NumbersDiffer'
  <2>1. ASSUME NEW r \in Sockets, NEW q \in Sockets, home[r] = home[q],
               NEW j \in 2..Len(wire'[r]), NEW k \in 2..Len(wire'[q]), wire'[r][j] = wire'[q][k]
        PROVE  r = q /\ j = k
    <3>1. CASE r = s /\ j = n + 1 /\ wire'[r][j] = seq[t]
      BY <2>1, <3>1, <1>8, <1>9
    <3>2. CASE j \in 2..Len(wire[r]) /\ wire'[r][j] = wire[r][j] /\ ~ (r = s /\ j = n + 1)
      <4>1. CASE q = s /\ k = n + 1 /\ wire'[q][k] = seq[t]
        BY <2>1, <3>2, <4>1, <1>8
      <4>2. CASE k \in 2..Len(wire[q]) /\ wire'[q][k] = wire[q][k]
        <5>1. wire[r][j] = wire[q][k]
          BY <2>1, <3>2, <4>2
        <5>2. \A m \in 2..Len(wire[r]), l \in 2..Len(wire[q]) :
                wire[r][m] = wire[q][l] => r = q /\ m = l
          BY <2>1 DEF NumbersDiffer
        <5> QED BY <5>1, <5>2, <3>2, <4>2
      <4> QED BY <4>1, <4>2, <1>9
    <3> QED BY <3>1, <3>2, <1>9
  <2>2. ASSUME NEW u \in Senders, NEW r \in Sockets, u # t, Numbered(u), home[r] = ref[u],
               NEW k \in 2..Len(wire'[r])
        PROVE  wire'[r][k] # seq[u]
    <3>1. CASE r = s /\ k = n + 1 /\ wire'[r][k] = seq[t]
      BY <2>2, <3>1, <1>0, <1>1 DEF NumbersDiffer
    <3>2. CASE k \in 2..Len(wire[r]) /\ wire'[r][k] = wire[r][k]
      BY <2>2, <3>2 DEF NumbersDiffer
    <3> QED BY <3>1, <3>2, <1>9
  <2>3. \A u, v \in Senders :
          u # v /\ Numbered(u)' /\ Numbered(v)' /\ ref'[v] = ref'[u] => seq'[v] # seq'[u]
    BY <1>1 DEF NumbersDiffer
  <2> QED BY <2>1, <2>2, <2>3, <1>1 DEF NumbersDiffer
<1> QED BY <1>6, <1>7, <1>10

LEMMA NumbersInit == Init => NumbersInv
<1> SUFFICES ASSUME Init PROVE NumbersInv
  OBVIOUS
<1>1. \A s \in Sockets : Len(wire[s]) = 0 /\ 2..Len(wire[s]) = {}
  BY DEF Init
<1>2. NamedByCreator /\ SenderNumbers /\ NextNumbers
  BY DEF Init, NamedByCreator, SenderNumbers, NextNumbers, Numbered
<1>3. WireNumbers
  BY <1>1 DEF Init, WireNumbers
<1>4. NumbersDiffer
  BY <1>1 DEF Init, NumbersDiffer, Numbered
<1> QED BY <1>2, <1>3, <1>4 DEF NumbersInv

LEMMA NumbersStep == IInv /\ NumbersInv /\ [Next]_vars => NumbersInv'
<1> SUFFICES ASSUME IInv, NumbersInv, [Next]_vars PROVE NumbersInv'
  OBVIOUS
<1> USE DEF sessionVars, senderVars, socketVars
<1>t. TypeOK
  BY DEF IInv
<1>1. ASSUME NEW s \in Sockets, SocketStep(s) PROVE NumbersInv'
  <2>m. ASSUME NEW from \in SocketStates, NEW to \in SocketStates, SocketMoves(s, from, to),
               to # "registering"
        PROVE  NumbersInv'
    <3>1. \A r \in Sockets : sock'[r] = IF r = s THEN to ELSE sock[r]
      BY <2>m, <1>t DEF SocketMoves, TypeOK
    <3> QED BY <2>m, <3>1, NumbersStay DEF SocketMoves, Numbered
  <2>1. CASE AddSocket(s)
    BY <2>1, <2>m DEF AddSocket
  <2>2. CASE StartTask(s)
    BY <2>2, <2>m DEF StartTask
  <2>3. CASE \E i \in SessionIds : ExchangeOk(s, i)
    BY <2>3, NumbersExchange
  <2>4. CASE ExchangeFails(s)
    BY <2>4, <2>m DEF ExchangeFails
  <2>5. CASE Register(s)
    BY <2>5, NumbersRegister
  <2>6. CASE SecondSession(s)
    BY <2>6, NumbersStay DEF SecondSession, Ends, Numbered
  <2>7. CASE CheckInterrupted(s)
    BY <2>7, <2>m DEF CheckInterrupted
  <2>8. CASE Receive(s)
    BY <2>8, <2>m DEF Receive
  <2>9. CASE CloseStream(s)
    BY <2>9, <2>m DEF CloseStream
  <2>10. CASE Unregister(s)
    <3>1. \A i \in SessionIds : sessions'[i] = sessions[i] \/ sessions'[i] = None
      BY <2>10, <1>t DEF Unregister, TypeOK
    <3>2. \A r \in Sockets : sock'[r] = IF r = s THEN "done" ELSE sock[r]
      BY <2>10, <1>t DEF Unregister, TypeOK
    <3> QED BY <2>10, <3>1, <3>2, NumbersStay DEF Unregister, Numbered
  <2> QED BY <1>1, <2>1, <2>2, <2>3, <2>4, <2>5, <2>6, <2>7, <2>8, <2>9, <2>10 DEF SocketStep
<1>2. ASSUME NEW t \in Senders, SenderStep(t) PROVE NumbersInv'
  \* All but two steps of a sender number no frame and send none.
  <2>m. ASSUME UNCHANGED <<nextSeq, wire, ref, seq>>,
               \A u \in Senders : Numbered(u)' => Numbered(u)
        PROVE  NumbersInv'
    BY <1>2, <2>m, SenderFrame, NumbersStay
  <2>1. CASE Call(t)
    BY <2>1, NumbersCall
  <2>2. CASE SendDone(t)
    BY <2>2, NumbersSend
  <2>3. CASE CallNotReady(t) \/ Retry(t) \/ SpuriousWakeup(t) \/ SendFails(t)
    BY <2>3, <2>m, <1>t DEF CallNotReady, Retry, SpuriousWakeup, SendFails, SenderMoves, Numbered, TypeOK
  <2>4. CASE Select(t) \/ Recheck(t)
    BY <2>4, <2>m, <1>t DEF Select, Recheck, Take, Numbered, TypeOK
  <2>5. CASE SigPipe(t) \/ CrashFreed(t)
    BY <2>5, <2>m DEF SigPipe, CrashFreed, Ends, Numbered
  <2>6. CASE Release(t) \/ ReleaseFreed(t)
    BY <2>6, <2>m, <1>t DEF Release, ReleaseFreed, Returned, Waiters, Numbered, TypeOK
  <2> QED BY <1>2, <2>1, <2>2, <2>3, <2>4, <2>5, <2>6 DEF SenderStep
<1>3. CASE BeginDestroy \/ JoinPool \/ FinishDestroy
  BY <1>3, DtorFrame, NumbersStay DEF Numbered
<1>4. CASE UNCHANGED vars
  BY <1>4, NumbersStay DEF vars, Numbered
<1> QED BY <1>1, <1>2, <1>3, <1>4 DEF Next

\* Within a session no two frames have the same number, on whichever of its
\* streams and by whichever threads they are sent, and none has the number of
\* the initial frame (lines 38-76, 236 and 289): what a receiver needs to put
\* the frames of several streams in order.
THEOREM FramesAreDistinct == Spec => []FrameNumbersUnique
<1>1. Init => NumbersInv
  BY NumbersInit
<1>2. IInv /\ NumbersInv /\ [Next]_vars => NumbersInv'
  BY NumbersStep
<1>3. Spec => []NumbersInv
  BY <1>1, <1>2, Invariance, PTL DEF Spec
<1> QED BY <1>3, Invariance, NumbersSuffice, PTL
=============================================================================
