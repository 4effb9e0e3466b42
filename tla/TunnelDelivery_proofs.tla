------------------------- MODULE TunnelDelivery_proofs -------------------------
(***************************************************************************)
(* Proofs about TunnelDelivery: the way up adds to the streams nothing     *)
(* that their theorems do not cover, its reader stays on the separators of *)
(* every frame, and no thread leaves a queue locked behind it.             *)
(***************************************************************************)
EXTENDS TunnelDelivery, TunnelFrameStream_proofs

-----------------------------------------------------------------------------
(* The reader of a tunnel frame finds what its writer has left, whatever   *)
(* the sizes of headers, separators and datagrams.                         *)

USE FormatAssumption, SizeAssumption

\* The reader goes from separator to separator, forward and over none, to the
\* very end of the frame: "Badly formatted frame" is never thrown for one that
\* a writer has closed.
THEOREM ReaderFollowsWriter ==
  ASSUME NEW f, WellFormed(f), NEW c \in {0} \cup DOMAIN f.at
  PROVE  /\ Advance(f, c) \in DOMAIN f.at \cup {f.size}
         /\ c < Advance(f, c)
         /\ \A o \in DOMAIN f.at : c < o => Advance(f, c) <= o
         /\ ~ BadlyFormatted(f, c)
PROOF
<1>1. /\ f.size \in Nat /\ HeaderSize <= f.size
      /\ HeaderSize \in DOMAIN f.at \cup {f.size}
      /\ \A o \in DOMAIN f.at :
           /\ o \in HeaderSize..f.size
           /\ o < f.size
           /\ f.at[o] \in Datagrams
           /\ PastDatagram(o, f.at[o]) \in DOMAIN f.at \cup {f.size}
           /\ \A p \in DOMAIN f.at : o < p => PastDatagram(o, f.at[o]) <= p
  BY DEF WellFormed, Chained
<1>2. CASE c = 0
  BY <1>1, <1>2 DEF Advance, BadlyFormatted
<1>3. CASE c # 0
  <2>1. c \in DOMAIN f.at /\ Advance(f, c) = PastDatagram(c, f.at[c])
    BY <1>1, <1>3 DEF Advance
  <2>2. Size[f.at[c]] \in Nat /\ c < PastDatagram(c, f.at[c])
    BY <1>1, <2>1 DEF PastDatagram, Datagrams
  <2> QED
    BY <1>1, <2>1, <2>2 DEF BadlyFormatted
<1> QED
  BY <1>2, <1>3

USE NumQueuesAssumption, WrapAssumption

-----------------------------------------------------------------------------
(* The streams below.                                                      *)

\* Every step is one of the streams, or leaves them alone.
LEMMA NextOfStreams ==
  ASSUME [Next]_vars
  PROVE  [StreamNext]_streamVars
<1>1. CASE \E s \in Sides : CrashAll(s)
  BY <1>1 DEF CrashAll, StreamNext, StreamStep
<1>2. CASE \E c \in Conns : Streams(Connect(c)) \/ Streams(Accept(c)) \/ Streams(Break(c))
  BY <1>2 DEF Streams, StreamNext, StreamStep
<1>3. ASSUME NEW e \in Ends,
             \/ Streams(Sends(e)) \/ Streams(Receives(e)) \/ Streams(Close(e))
             \/ \E f \in Frames : Streams(BeginSend(e, f))
      PROVE  StreamNext
  BY <1>3 DEF Streams, StreamNext, StreamStep
<1>4. ASSUME NEW e \in Ends, Delivers(e) \/ WriteDatagramFails(e)
      PROVE  [StreamNext]_streamVars
  BY <1>4 DEF Delivers, NextDatagram, LockQueue, WriteDatagram, FrameDone,
              WriteDatagramFails, StreamNext
<1>5. CASE UNCHANGED vars
  BY <1>5 DEF vars
<1> QED BY <1>1, <1>2, <1>3, <1>4, <1>5 DEF Next

\* What is proved of the streams is true of the streams of this system.
THEOREM DeliveryUsesStreams == Spec => StreamSpec
<1>1. Init => StreamInit
  BY DEF Init
<1>2. [Next]_vars => [StreamNext]_streamVars
  BY NextOfStreams
<1> QED BY <1>1, <1>2, PTL DEF Spec, StreamSpec

-----------------------------------------------------------------------------
(* The way up.                                                             *)

Entries == [frame : Nat, at : Nat, datagram : Datagrams]

DeliveryTypes ==
  /\ roundRobin \in [Sides -> 0..(RoundRobinWrap - 1)]
  /\ current \in [Ends -> Nat]
  /\ queue \in [Ends -> Queues \cup {None}]
  /\ mutex \in [Sides -> [Queues -> Ends \cup {None}]]
  /\ given \in [Sides -> [Queues -> Nat]]
  /\ log \in [Ends -> Seq(Entries)]

\* While a frame is handled the cursor is at its beginning or at a separator,
\* at one when a datagram is in hand; otherwise there is no frame.
Cursor(e) ==
  /\ Handling(e) => current[e] \in {0} \cup DOMAIN InHand(e).at
  /\ ~ Handling(e) => current[e] = 0 /\ queue[e] = None
  /\ queue[e] # None => current[e] \in DOMAIN InHand(e).at

Cursors == \A e \in Ends : Cursor(e)

\* The frame in hand is one that was begun at the other end.
LEMMA InHandIsWellFormed ==
  ASSUME StreamInv, NEW e \in Ends, Handling(e)
  PROVE  InHand(e) \in Carried /\ WellFormed(InHand(e))
<1>1. Exchange(e) /\ ReaderInStep(e) /\ Peer(e) \in Ends
  BY PeerOfPeer DEF StreamInv, ExchangeInv, Positions
<1>2. got[e] \in Nat /\ begun[Peer(e)] \in Seq(Records)
  BY <1>1 DEF StreamInv, Types
<1>3. got[e] > 0
  BY <1>1 DEF Exchange, Handling, Registered
<1>4. got[e] \in 1..Len(begun[Peer(e)])
  BY <1>1, <1>2, <1>3 DEF ReaderInStep
<1>5. begun[Peer(e)][got[e]] \in Records
  BY <1>2, <1>4, ElementOfSeq
<1>6. InHand(e) \in Carried
  BY <1>5 DEF InHand, Records, Carried
<1> QED BY <1>6, FramesAssumption DEF Carried

\* A frame that was given to send() stays what it was.
LEMMA FramesStay ==
  ASSUME StreamInv, [StreamNext]_streamVars, NEW e \in Ends,
         NEW k \in 1..Len(begun[e])
  PROVE  begun'[e][k] = begun[e][k]
<1>1. begun[e] \in Seq(Records)
  BY DEF StreamInv, Types
<1>2. \/ begun' = begun
      \/ \E x \in Ends : \E r : begun' = [begun EXCEPT ![x] = Append(@, r)]
  <2>1. ASSUME NEW x \in Ends, Cases(x)
        PROVE  \/ begun' = begun
               \/ \E r : begun' = [begun EXCEPT ![x] = Append(@, r)]
    BY <2>1 DEF Cases, Write, Read, BeginInit, BeginSend, Begins, SendDone,
          SendLost, SendFails, Returned, Receive, ReadFails, Handled, HandleFails,
          Close, Opens, sendVars
  <2>2. ASSUME NEW c \in Conns, Break(c)
        PROVE  begun' = begun
    BY <2>2 DEF Break, sendVars
  <2>3. ASSUME NEW s \in Sides, Crash(s)
        PROVE  begun' = begun
    BY <2>3 DEF Crash
  <2>4. CASE UNCHANGED streamVars
    BY <2>4 DEF streamVars, sendVars
  <2> QED BY <2>1, <2>2, <2>3, <2>4, StepCases
<1>3. ASSUME NEW x \in Ends, NEW r, begun' = [begun EXCEPT ![x] = Append(@, r)]
      PROVE  begun'[e][k] = begun[e][k]
  <2>1. CASE x = e
    <3>1. begun'[e] = Append(begun[e], r)
      BY <1>3, <2>1 DEF StreamInv, Types
    <3> QED BY <1>1, <3>1
  <2>2. CASE x # e
    BY <1>3, <2>2 DEF StreamInv, Types
  <2> QED BY <2>1, <2>2
<1> QED BY <1>2, <1>3

\* What has been received of an end, number k of it.
LEMMA SentIsWellFormed ==
  ASSUME StreamInv, NEW e \in Ends, NEW k \in 1..got[e]
  PROVE  /\ k \in 1..Len(begun[Peer(e)])
         /\ WellFormed(SentFrame(e, k))
         /\ \A o \in DOMAIN SentFrame(e, k).at :
              o \in Nat /\ 0 < o /\ SentFrame(e, k).at[o] \in Datagrams
<1>1. ReaderInStep(e) /\ Peer(e) \in Ends
  BY PeerOfPeer DEF StreamInv, Positions
<1>2. got[e] \in Nat /\ begun[Peer(e)] \in Seq(Records)
  BY <1>1 DEF StreamInv, Types
<1>3. k \in 1..Len(begun[Peer(e)])
  BY <1>1, <1>2 DEF ReaderInStep
<1>4. begun[Peer(e)][k] \in Records
  BY <1>2, <1>3, ElementOfSeq
<1>5. WellFormed(SentFrame(e, k))
  <2>1. SentFrame(e, k) \in Carried
    BY <1>4, SMT DEF SentFrame, Records, Carried
  <2> QED BY <2>1, FramesAssumption DEF Carried
<1>6. \A o \in DOMAIN SentFrame(e, k).at :
        o \in HeaderSize..SentFrame(e, k).size /\ SentFrame(e, k).at[o] \in Datagrams
  BY <1>5 DEF WellFormed, Chained
<1>7. SentFrame(e, k).size \in Nat
  BY <1>5 DEF WellFormed
<1> QED BY <1>3, <1>5, <1>6, <1>7

LEMMA SentStays ==
  ASSUME StreamInv, [StreamNext]_streamVars, NEW e \in Ends, NEW k \in 1..got[e]
  PROVE  SentFrame(e, k)' = SentFrame(e, k)
BY SentIsWellFormed, FramesStay, PeerOfPeer DEF SentFrame

\* The frame in hand stays the same as long as it is handled.
LEMMA InHandStays ==
  ASSUME StreamInv, [StreamNext]_streamVars, NEW e \in Ends, Handling(e),
         got'[e] = got[e]
  PROVE  InHand(e)' = InHand(e)
<1>1. Exchange(e) /\ got[e] \in Nat
  BY DEF StreamInv, ExchangeInv, Types
<1>2. got[e] \in 1..got[e]
  BY <1>1 DEF Exchange, Handling, Registered
<1> QED BY <1>2, SentStays DEF InHand, SentFrame

\* The steps of the streams that are taken alone.
LEMMA StreamsAlone ==
  ASSUME StreamInv, NEW e \in Ends,
         \/ \E c \in Conns : Connect(c) \/ Accept(c) \/ Break(c)
         \/ \E x \in Ends : \/ Sends(x) \/ Receives(x) \/ Close(x)
                            \/ \E f \in Frames : BeginSend(x, f)
  PROVE  /\ Handling(e) => Handling(e)' /\ got'[e] = got[e]
         /\ [StreamNext]_streamVars
<1>1. [StreamNext]_streamVars
  BY DEF StreamNext, StreamStep
<1>2. ASSUME Handling(e)
      PROVE  task'[e] = "handling" /\ got'[e] = got[e]
  <2>0. task[e] = "handling"
    BY <1>2 DEF Handling
  <2>1. ASSUME NEW x \in Ends, Opens(x)
        PROVE  task'[e] = "handling" /\ got'[e] = got[e]
    BY <2>0, <2>1 DEF Opens, receiveVars, StreamInv, Types
  <2>2. ASSUME NEW c \in Conns, Connect(c) \/ Accept(c)
        PROVE  task'[e] = "handling" /\ got'[e] = got[e]
    <3>1. <<c, "client">> \in Ends /\ <<c, "server">> \in Ends
      BY DEF Ends, Sides
    <3> QED BY <2>1, <2>2, <3>1 DEF Connect, Accept
  <2>3. ASSUME NEW c \in Conns, Break(c)
        PROVE  task'[e] = "handling" /\ got'[e] = got[e]
    BY <2>0, <2>3 DEF Break, receiveVars
  <2>4. ASSUME NEW x \in Ends, Sends(x) \/ \E f \in Frames : BeginSend(x, f)
        PROVE  task'[e] = "handling" /\ got'[e] = got[e]
    BY <2>0, <2>4 DEF Sends, BeginInit, BeginSend, Begins, Write, SendDone, SendLost,
                      SendFails, Returned, receiveVars, StreamInv, Types
  <2>5. ASSUME NEW x \in Ends, Receives(x)
        PROVE  task'[e] = "handling" /\ got'[e] = got[e]
    <3>1. task[x] \in Receiving
      BY <2>5 DEF Receives, Read, Receive, ReadFails
    <3>2. e # x
      BY <2>0, <3>1 DEF Receiving
    <3> QED BY <2>0, <2>5, <3>2 DEF Receives, Read, Receive, ReadFails, receiveVars,
                                    StreamInv, Types
  <2>6. ASSUME NEW x \in Ends, Close(x)
        PROVE  task'[e] = "handling" /\ got'[e] = got[e]
    BY <2>0, <2>6 DEF Close, ClosedNow, receiveVars, StreamInv, Types
  <2> QED BY <2>2, <2>3, <2>4, <2>5, <2>6
<1> QED BY <1>1, <1>2 DEF Handling

\* The next() that is true moves the cursor to a separator.
LEMMA NextToSeparator ==
  ASSUME StreamInv, NEW e \in Ends, Handling(e),
         current[e] \in {0} \cup DOMAIN InHand(e).at
  PROVE  /\ Advance(InHand(e), current[e]) \in DOMAIN InHand(e).at \cup {InHand(e).size}
         /\ ~ BadlyFormatted(InHand(e), current[e])
         /\ InHand(e).size \in Nat
         /\ \A o \in DOMAIN InHand(e).at : o \in Nat /\ InHand(e).at[o] \in Datagrams
<1>1. WellFormed(InHand(e))
  BY InHandIsWellFormed
<1>2. /\ Advance(InHand(e), current[e]) \in DOMAIN InHand(e).at \cup {InHand(e).size}
      /\ ~ BadlyFormatted(InHand(e), current[e])
  BY <1>1, ReaderFollowsWriter
<1>3. /\ InHand(e).size \in Nat
      /\ \A o \in DOMAIN InHand(e).at :
           o \in HeaderSize..InHand(e).size /\ InHand(e).at[o] \in Datagrams
  BY <1>1 DEF WellFormed, Chained
<1> QED BY <1>2, <1>3, FormatAssumption

DeliveryInv == StreamInv /\ DeliveryTypes /\ Cursors /\ MutexHolders

LEMMA DeliveryInit == Init => DeliveryInv
<1> SUFFICES ASSUME Init
             PROVE  DeliveryInv
  OBVIOUS
<1>1. StreamInit
  BY DEF Init
<1>2. StreamInv
  BY <1>1, TypesInit, PositionsInit, ExchangeInit, ApartInit DEF StreamInv
<1>3. DeliveryTypes
  BY DEF Init, DeliveryTypes
<1>4. Cursors
  BY <1>1 DEF Init, StreamInit, Cursors, Cursor, Handling
<1>5. MutexHolders
  BY DEF Init, MutexHolders
<1> QED BY <1>2, <1>3, <1>4, <1>5 DEF DeliveryInv

\* An end whose thread does not take a step of the way up.
LEMMA CursorKept ==
  ASSUME DeliveryInv, [StreamNext]_streamVars, NEW e \in Ends,
         current'[e] = current[e], queue'[e] = queue[e],
         Handling(e) => Handling(e)' /\ got'[e] = got[e]
  PROVE  Cursor(e)'
<1>1. Cursor(e) /\ StreamInv
  BY DEF DeliveryInv, Cursors
<1>2. CASE Handling(e)
  <2>1. InHand(e)' = InHand(e) /\ Handling(e)'
    BY <1>1, <1>2, InHandStays
  <2> QED BY <1>1, <1>2, <2>1 DEF Cursor
<1>3. CASE ~ Handling(e)
  BY <1>1, <1>3 DEF Cursor
<1> QED BY <1>2, <1>3 DEF Handling

LEMMA StreamsStep ==
  ASSUME DeliveryInv, UNCHANGED deliveryVars,
         \/ \E c \in Conns : Connect(c) \/ Accept(c) \/ Break(c)
         \/ \E x \in Ends : \/ Sends(x) \/ Receives(x) \/ Close(x)
                            \/ \E f \in Frames : BeginSend(x, f)
  PROVE  (DeliveryTypes /\ Cursors /\ MutexHolders)'
<1> USE DEF deliveryVars
<1>1. ASSUME NEW e \in Ends
      PROVE  /\ Handling(e) => Handling(e)' /\ got'[e] = got[e]
             /\ [StreamNext]_streamVars
  BY StreamsAlone DEF DeliveryInv
<1>2. DeliveryTypes'
  BY DEF DeliveryInv, DeliveryTypes
<1>3. Cursors'
  BY <1>1, CursorKept DEF Cursors
<1>4. MutexHolders'
  <2> SUFFICES ASSUME NEW s \in Sides, NEW q \in Queues, mutex[s][q] # None
               PROVE  /\ mutex[s][q][2] = s
                      /\ Handling(mutex[s][q])'
                      /\ queue[mutex[s][q]] = q
    BY DEF MutexHolders
  <2>1. mutex[s][q] \in Ends
    BY DEF DeliveryInv, DeliveryTypes
  <2>2. /\ mutex[s][q][2] = s
        /\ Handling(mutex[s][q])
        /\ queue[mutex[s][q]] = q
    BY DEF DeliveryInv, MutexHolders
  <2> QED BY <1>1, <2>1, <2>2
<1> QED BY <1>2, <1>3, <1>4

LEMMA NextDatagramStep ==
  ASSUME DeliveryInv, NEW x \in Ends, NextDatagram(x)
  PROVE  (DeliveryTypes /\ Cursors /\ MutexHolders)'
<1>0. /\ Handling(x) /\ queue[x] = None /\ UNCHANGED <<streamVars, mutex, log>>
      /\ Advance(InHand(x), current[x]) < InHand(x).size
      /\ current' = [current EXCEPT ![x] = Advance(InHand(x), @)]
      /\ x[2] \in Sides
  BY DEF NextDatagram, HasNext, Ends
<1>1. PICK r, q :
        /\ r = Turn(roundRobin[x[2]]) /\ q = QueueOfTurn(r)
        /\ roundRobin' = [roundRobin EXCEPT ![x[2]] = r]
        /\ queue' = [queue EXCEPT ![x] = q]
        /\ given' = [given EXCEPT ![x[2]][q] = @ + 1]
  BY DEF NextDatagram
<1>2. r \in 0..(RoundRobinWrap - 1) /\ q \in Queues
  <2>1. roundRobin[x[2]] \in Nat
    BY <1>0 DEF DeliveryInv, DeliveryTypes
  <2>2. r \in 0..(RoundRobinWrap - 1)
    BY <1>1, <2>1 DEF Turn
  <2>3. q \in 0..(NumQueues - 1)
    BY <1>1, <2>2 DEF QueueOfTurn
  <2> QED BY <2>2, <2>3 DEF Queues
<1>3. Advance(InHand(x), current[x]) \in DOMAIN InHand(x).at
      /\ Advance(InHand(x), current[x]) \in Nat
  <2>1. current[x] \in {0} \cup DOMAIN InHand(x).at
    BY <1>0 DEF DeliveryInv, Cursors, Cursor
  <2> QED BY <1>0, <2>1, NextToSeparator DEF DeliveryInv
<1>4. DeliveryTypes'
  <2>1. roundRobin' \in [Sides -> 0..(RoundRobinWrap - 1)]
    BY <1>1, <1>2 DEF DeliveryInv, DeliveryTypes
  <2>2. current' \in [Ends -> Nat]
    BY <1>0, <1>3 DEF DeliveryInv, DeliveryTypes
  <2>3. queue' \in [Ends -> Queues \cup {None}]
    BY <1>1, <1>2 DEF DeliveryInv, DeliveryTypes
  <2>4. given' \in [Sides -> [Queues -> Nat]]
    <3>1. given \in [Sides -> [Queues -> Nat]]
      BY DEF DeliveryInv, DeliveryTypes
    <3>2. [given[x[2]] EXCEPT ![q] = @ + 1] \in [Queues -> Nat]
      BY <1>0, <1>2, <3>1
    <3> QED BY <1>0, <1>1, <3>1, <3>2
  <2> QED BY <1>0, <2>1, <2>2, <2>3, <2>4 DEF DeliveryInv, DeliveryTypes
<1>5. UNCHANGED <<task, got, begun>>
  BY <1>0 DEF streamVars, sendVars, receiveVars
<1>6. Cursors'
  <2>1. ASSUME NEW e \in Ends, e # x
        PROVE  Cursor(e)'
    <3>1. current'[e] = current[e] /\ queue'[e] = queue[e]
      BY <1>0, <1>1, <2>1 DEF DeliveryInv, DeliveryTypes
    <3> QED BY <1>0, <1>5, <3>1, CursorKept DEF Handling
  <2>2. Cursor(x)'
    <3>1. current'[x] = Advance(InHand(x), current[x])
      BY <1>0 DEF DeliveryInv, DeliveryTypes
    <3>2. InHand(x)' = InHand(x) /\ Handling(x)'
      BY <1>0, <1>5 DEF InHand, Handling
    <3> QED BY <1>3, <3>1, <3>2 DEF Cursor
  <2> QED BY <2>1, <2>2 DEF Cursors
<1>7. MutexHolders'
  <2> SUFFICES ASSUME NEW s \in Sides, NEW p \in Queues, mutex[s][p] # None
               PROVE  /\ mutex[s][p][2] = s
                      /\ task'[mutex[s][p]] = "handling"
                      /\ queue'[mutex[s][p]] = p
    BY <1>0 DEF MutexHolders, Handling
  <2>1. /\ mutex[s][p] \in Ends /\ mutex[s][p][2] = s
        /\ Handling(mutex[s][p]) /\ queue[mutex[s][p]] = p
    BY DEF DeliveryInv, DeliveryTypes, MutexHolders
  <2>2. mutex[s][p] # x
    BY <1>0, <2>1, NoneAssumption DEF Queues
  <2>3. queue'[mutex[s][p]] = p
    BY <1>1, <2>1, <2>2 DEF DeliveryInv, DeliveryTypes
  <2> QED BY <1>5, <2>1, <2>3 DEF Handling
<1> QED BY <1>4, <1>6, <1>7

LEMMA LockQueueStep ==
  ASSUME DeliveryInv, NEW x \in Ends, LockQueue(x)
  PROVE  (DeliveryTypes /\ Cursors /\ MutexHolders)'
<1>0. /\ queue[x] # None /\ mutex[x[2]][queue[x]] = None
      /\ mutex' = [mutex EXCEPT ![x[2]][queue[x]] = x]
      /\ UNCHANGED <<streamVars, roundRobin, current, queue, given, log>>
      /\ x[2] \in Sides
  BY DEF LockQueue, Ends
<1>1. queue[x] \in Queues /\ Handling(x)
  BY <1>0 DEF DeliveryInv, DeliveryTypes, Cursors, Cursor
<1>2. UNCHANGED <<task, got, begun>>
  BY <1>0 DEF streamVars, sendVars, receiveVars
<1>3. DeliveryTypes'
  <2>1. mutex' \in [Sides -> [Queues -> Ends \cup {None}]]
    BY <1>0, <1>1 DEF DeliveryInv, DeliveryTypes
  <2> QED BY <1>0, <2>1 DEF DeliveryInv, DeliveryTypes
<1>4. Cursors'
  BY <1>0, <1>2, CursorKept DEF Cursors, Handling
<1>5. MutexHolders'
  <2> SUFFICES ASSUME NEW s \in Sides, NEW p \in Queues, mutex'[s][p] # None
               PROVE  /\ mutex'[s][p][2] = s
                      /\ task'[mutex'[s][p]] = "handling"
                      /\ queue'[mutex'[s][p]] = p
    BY DEF MutexHolders, Handling
  <2>1. CASE s = x[2] /\ p = queue[x]
    <3>1. mutex'[s][p] = x
      BY <1>0, <2>1 DEF DeliveryInv, DeliveryTypes
    <3> QED BY <1>0, <1>1, <1>2, <2>1, <3>1 DEF Handling
  <2>2. CASE ~ (s = x[2] /\ p = queue[x])
    <3>1. mutex'[s][p] = mutex[s][p]
      BY <1>0, <2>2 DEF DeliveryInv, DeliveryTypes
    <3>2. /\ mutex[s][p][2] = s /\ Handling(mutex[s][p]) /\ queue[mutex[s][p]] = p
      BY <3>1 DEF DeliveryInv, MutexHolders
    <3> QED BY <1>0, <1>2, <3>1, <3>2 DEF Handling
  <2> QED BY <2>1, <2>2
<1> QED BY <1>3, <1>4, <1>5

\* Mutexes of a side are held by threads of that side, and letting go of those
\* of one thread leaves the others'.
LEMMA Unlocking ==
  ASSUME DeliveryInv, NEW x \in Ends, mutex' = [mutex EXCEPT ![x[2]] = Unlocked(x)]
  PROVE  /\ mutex' \in [Sides -> [Queues -> Ends \cup {None}]]
         /\ \A s \in Sides : \A p \in Queues :
              mutex'[s][p] # None =>
                /\ mutex'[s][p] = mutex[s][p] /\ mutex[s][p] # x
                /\ mutex[s][p] \in Ends /\ mutex[s][p][2] = s
                /\ task[mutex[s][p]] = "handling" /\ queue[mutex[s][p]] = p
<1>0. mutex \in [Sides -> [Queues -> Ends \cup {None}]] /\ x[2] \in Sides
  BY DEF DeliveryInv, DeliveryTypes, Ends
<1>1. Unlocked(x) \in [Queues -> Ends \cup {None}]
  BY <1>0 DEF Unlocked
<1>2. ASSUME NEW s \in Sides, NEW p \in Queues, mutex'[s][p] # None
      PROVE  /\ mutex'[s][p] = mutex[s][p] /\ mutex[s][p] # x
             /\ mutex[s][p] \in Ends /\ mutex[s][p][2] = s
             /\ task[mutex[s][p]] = "handling" /\ queue[mutex[s][p]] = p
  <2>1. CASE s = x[2]
    <3>1. mutex'[s][p] = mutex[s][p] /\ mutex[s][p] # x
      BY <1>0, <1>2, <2>1 DEF Unlocked
    <3> QED BY <1>0, <1>2, <3>1 DEF DeliveryInv, MutexHolders, Handling
  <2>2. CASE s # x[2]
    <3>1. mutex'[s][p] = mutex[s][p]
      BY <1>0, <2>2
    <3>2. mutex[s][p][2] = s /\ task[mutex[s][p]] = "handling"
          /\ queue[mutex[s][p]] = p
      BY <1>2, <3>1 DEF DeliveryInv, MutexHolders, Handling
    <3> QED BY <1>0, <1>2, <2>2, <3>1, <3>2
  <2> QED BY <2>1, <2>2
<1> QED BY <1>0, <1>1, <1>2

LEMMA WriteDatagramStep ==
  ASSUME DeliveryInv, NEW x \in Ends, WriteDatagram(x)
  PROVE  (DeliveryTypes /\ Cursors /\ MutexHolders)'
<1>0. /\ queue[x] # None
      /\ log' = [log EXCEPT ![x] = Append(@, DatagramInHand(x))]
      /\ mutex' = [mutex EXCEPT ![x[2]] = Unlocked(x)]
      /\ queue' = [queue EXCEPT ![x] = None]
      /\ UNCHANGED <<streamVars, roundRobin, current, given>>
  BY DEF WriteDatagram
<1>1. Handling(x) /\ current[x] \in DOMAIN InHand(x).at
  BY <1>0 DEF DeliveryInv, Cursors, Cursor
<1>2. UNCHANGED <<task, got, begun>>
  BY <1>0 DEF streamVars, sendVars, receiveVars
<1>3. InHand(x).at[current[x]] \in Datagrams
  BY <1>1, NextToSeparator DEF DeliveryInv
<1>4. DeliveryTypes'
  <2>0. DatagramInHand(x) \in Entries
    BY <1>3 DEF DatagramInHand, Entries, DeliveryInv, DeliveryTypes, StreamInv, Types
  <2>1. log' \in [Ends -> Seq(Entries)]
    BY <1>0, <2>0 DEF DeliveryInv, DeliveryTypes
  <2>2. queue' \in [Ends -> Queues \cup {None}]
    BY <1>0 DEF DeliveryInv, DeliveryTypes
  <2> QED BY <1>0, <2>1, <2>2, Unlocking DEF DeliveryInv, DeliveryTypes
<1>5. Cursors'
  <2>1. ASSUME NEW e \in Ends, e # x
        PROVE  Cursor(e)'
    <3>1. queue'[e] = queue[e]
      BY <1>0, <2>1 DEF DeliveryInv, DeliveryTypes
    <3> QED BY <1>0, <1>2, <3>1, CursorKept DEF Handling
  <2>2. Cursor(x)'
    <3>1. InHand(x)' = InHand(x) /\ Handling(x)' /\ queue'[x] = None
      BY <1>0, <1>1, <1>2 DEF InHand, Handling, DeliveryInv, DeliveryTypes
    <3> QED BY <1>0, <1>1, <3>1 DEF Cursor
  <2> QED BY <2>1, <2>2 DEF Cursors
<1>6. MutexHolders'
  <2> SUFFICES ASSUME NEW s \in Sides, NEW p \in Queues, mutex'[s][p] # None
               PROVE  /\ mutex'[s][p][2] = s
                      /\ task'[mutex'[s][p]] = "handling"
                      /\ queue'[mutex'[s][p]] = p
    BY DEF MutexHolders, Handling
  <2>1. /\ mutex'[s][p] = mutex[s][p] /\ mutex[s][p] # x
        /\ mutex[s][p] \in Ends /\ mutex[s][p][2] = s
        /\ task[mutex[s][p]] = "handling" /\ queue[mutex[s][p]] = p
    BY <1>0, Unlocking
  <2>2. queue'[mutex[s][p]] = queue[mutex[s][p]]
    BY <1>0, <2>1 DEF DeliveryInv, DeliveryTypes
  <2> QED BY <1>2, <2>1, <2>2
<1> QED BY <1>4, <1>5, <1>6

\* The thread stops handling its frame with nothing in hand.
LEMMA HandlingEnds ==
  ASSUME DeliveryInv, NEW x \in Ends, Handling(x), NEW t, t # "handling",
         [StreamNext]_streamVars, task' = [task EXCEPT ![x] = t], got' = got,
         current' = [current EXCEPT ![x] = 0], queue' = [queue EXCEPT ![x] = None],
         mutex' = [mutex EXCEPT ![x[2]] = Unlocked(x)],
         UNCHANGED <<roundRobin, given, log>>
  PROVE  (DeliveryTypes /\ Cursors /\ MutexHolders)'
<1>0. task'[x] = t /\ \A e \in Ends : e # x => task'[e] = task[e]
  BY DEF DeliveryInv, StreamInv, Types
<1>1. DeliveryTypes'
  <2>1. queue' \in [Ends -> Queues \cup {None}] /\ current' \in [Ends -> Nat]
    BY DEF DeliveryInv, DeliveryTypes
  <2> QED BY <2>1, Unlocking DEF DeliveryInv, DeliveryTypes
<1>2. Cursors'
  <2>1. ASSUME NEW e \in Ends, e # x
        PROVE  Cursor(e)'
    <3>1. queue'[e] = queue[e] /\ current'[e] = current[e]
      BY <2>1 DEF DeliveryInv, DeliveryTypes
    <3> QED BY <1>0, <2>1, <3>1, CursorKept DEF Handling
  <2>2. Cursor(x)'
    <3>1. queue'[x] = None /\ current'[x] = 0
      BY DEF DeliveryInv, DeliveryTypes
    <3> QED BY <1>0, <3>1 DEF Cursor, Handling
  <2> QED BY <2>1, <2>2 DEF Cursors
<1>3. MutexHolders'
  <2> SUFFICES ASSUME NEW s \in Sides, NEW p \in Queues, mutex'[s][p] # None
               PROVE  /\ mutex'[s][p][2] = s
                      /\ task'[mutex'[s][p]] = "handling"
                      /\ queue'[mutex'[s][p]] = p
    BY DEF MutexHolders, Handling
  <2>1. /\ mutex'[s][p] = mutex[s][p] /\ mutex[s][p] # x
        /\ mutex[s][p] \in Ends /\ mutex[s][p][2] = s
        /\ task[mutex[s][p]] = "handling" /\ queue[mutex[s][p]] = p
    BY Unlocking
  <2>2. queue'[mutex[s][p]] = queue[mutex[s][p]]
    BY <2>1 DEF DeliveryInv, DeliveryTypes
  <2> QED BY <1>0, <2>1, <2>2
<1> QED BY <1>1, <1>2, <1>3

LEMMA WriteDatagramFailsStep ==
  ASSUME DeliveryInv, NEW x \in Ends, WriteDatagramFails(x)
  PROVE  (DeliveryTypes /\ Cursors /\ MutexHolders)'
<1>1. /\ HandleFails(x) /\ current' = [current EXCEPT ![x] = 0]
      /\ queue' = [queue EXCEPT ![x] = None]
      /\ mutex' = [mutex EXCEPT ![x[2]] = Unlocked(x)]
      /\ UNCHANGED <<roundRobin, given, log>>
  BY DEF WriteDatagramFails, AfterFailure
<1>2. /\ Handling(x) /\ task' = [task EXCEPT ![x] = Thrown(x)] /\ got' = got
      /\ Thrown(x) # "handling" /\ [StreamNext]_streamVars
  BY <1>1 DEF HandleFails, Handling, Thrown, receiveVars, StreamNext
<1> QED BY <1>1, <1>2, HandlingEnds

LEMMA FrameDoneStep ==
  ASSUME DeliveryInv, NEW x \in Ends, FrameDone(x)
  PROVE  (DeliveryTypes /\ Cursors /\ MutexHolders)'
<1>1. /\ Handled(x) /\ queue[x] = None /\ current' = [current EXCEPT ![x] = 0]
      /\ UNCHANGED <<roundRobin, queue, mutex, given, log>>
  BY DEF FrameDone
<1>2. /\ Handling(x) /\ task' = [task EXCEPT ![x] = "receiving"] /\ got' = got
      /\ [StreamNext]_streamVars
  BY <1>1 DEF Handled, Handling, receiveVars, StreamNext
<1>3. queue' = [queue EXCEPT ![x] = None]
  BY <1>1 DEF DeliveryInv, DeliveryTypes
<1>4. mutex' = [mutex EXCEPT ![x[2]] = Unlocked(x)]
  <2>1. ASSUME NEW q \in Queues, mutex[x[2]][q] = x, x # None
        PROVE  FALSE
    <3>1. x[2] \in Sides
      BY DEF Ends
    <3>2. queue[x] = q
      BY <2>1, <3>1 DEF DeliveryInv, MutexHolders
    <3> QED BY <1>1, <3>2, NoneAssumption DEF Queues
  <2>2. Unlocked(x) = mutex[x[2]]
    BY <2>1 DEF Unlocked, DeliveryInv, DeliveryTypes, Ends
  <2> QED BY <1>1, <2>2 DEF DeliveryInv, DeliveryTypes
<1> QED BY <1>1, <1>2, <1>3, <1>4, HandlingEnds

LEMMA CrashStep ==
  ASSUME DeliveryInv, NEW side \in Sides, CrashAll(side)
  PROVE  (DeliveryTypes /\ Cursors /\ MutexHolders)'
<1>0. /\ Crash(side) /\ UNCHANGED log
      /\ roundRobin' = [roundRobin EXCEPT ![side] = 0]
      /\ given' = [given EXCEPT ![side] = [q \in Queues |-> 0]]
      /\ mutex' = [mutex EXCEPT ![side] = [q \in Queues |-> None]]
      /\ queue' = [e \in Ends |-> IF e[2] = side THEN None ELSE queue[e]]
      /\ current' = [e \in Ends |-> IF e[2] = side THEN 0 ELSE current[e]]
  BY DEF CrashAll
<1>1. /\ [StreamNext]_streamVars /\ got' = got
      /\ \A e \in Ends : \/ e[2] = side /\ task'[e] = "done"
                         \/ task'[e] = task[e]
      /\ \A e \in Ends : task'[e] = "done" \/ e[2] # side \/ e[1] \notin Made
      /\ \A e \in Ends : e[2] # side => task'[e] = task[e]
  BY <1>0 DEF StreamNext, StreamStep, Crash, receiveVars
<1>2. DeliveryTypes'
  <2>1. roundRobin' \in [Sides -> 0..(RoundRobinWrap - 1)]
    BY <1>0 DEF DeliveryInv, DeliveryTypes
  <2>2. /\ given' \in [Sides -> [Queues -> Nat]]
        /\ mutex' \in [Sides -> [Queues -> Ends \cup {None}]]
    BY <1>0 DEF DeliveryInv, DeliveryTypes
  <2>3. /\ queue' \in [Ends -> Queues \cup {None}]
        /\ current' \in [Ends -> Nat]
    BY <1>0 DEF DeliveryInv, DeliveryTypes
  <2> QED BY <1>0, <2>1, <2>2, <2>3 DEF DeliveryInv, DeliveryTypes
<1>3. Cursors'
  <2>1. ASSUME NEW e \in Ends, e[2] # side
        PROVE  Cursor(e)'
    <3>1. queue'[e] = queue[e] /\ current'[e] = current[e]
      BY <1>0, <2>1
    <3> QED BY <1>1, <2>1, <3>1, CursorKept DEF Handling
  <2>2. ASSUME NEW e \in Ends, e[2] = side
        PROVE  Cursor(e)'
    <3>1. queue'[e] = None /\ current'[e] = 0
      BY <1>0, <2>2
    <3> QED BY <3>1 DEF Cursor
  <2> QED BY <2>1, <2>2 DEF Cursors
<1>4. MutexHolders'
  <2> SUFFICES ASSUME NEW s \in Sides, NEW p \in Queues, mutex'[s][p] # None
               PROVE  /\ mutex'[s][p][2] = s
                      /\ task'[mutex'[s][p]] = "handling"
                      /\ queue'[mutex'[s][p]] = p
    BY DEF MutexHolders, Handling
  <2>1. s # side /\ mutex'[s][p] = mutex[s][p]
    BY <1>0 DEF DeliveryInv, DeliveryTypes
  <2>2. /\ mutex[s][p] \in Ends /\ mutex[s][p][2] = s
        /\ task[mutex[s][p]] = "handling" /\ queue[mutex[s][p]] = p
    BY <2>1 DEF DeliveryInv, DeliveryTypes, MutexHolders, Handling
  <2>3. queue'[mutex[s][p]] = queue[mutex[s][p]]
    BY <1>0, <2>1, <2>2
  <2> QED BY <1>1, <2>1, <2>2, <2>3
<1> QED BY <1>2, <1>3, <1>4

LEMMA DeliveryStep ==
  ASSUME DeliveryInv, [Next]_vars
  PROVE  DeliveryInv'
<1>1. StreamInv'
  BY NextOfStreams, TypesStep, PositionsStep, ExchangeStep, ApartStep
  DEF DeliveryInv, StreamInv
<1>2. (DeliveryTypes /\ Cursors /\ MutexHolders)'
  <2>1. CASE \E s \in Sides : CrashAll(s)
    BY <2>1, CrashStep
  <2>2. CASE \E c \in Conns : Streams(Connect(c)) \/ Streams(Accept(c)) \/ Streams(Break(c))
    BY <2>2, StreamsStep DEF Streams
  <2>3. ASSUME NEW e \in Ends,
               \/ Streams(Sends(e)) \/ Streams(Receives(e)) \/ Streams(Close(e))
               \/ \E f \in Frames : Streams(BeginSend(e, f))
        PROVE  (DeliveryTypes /\ Cursors /\ MutexHolders)'
    BY <2>3, StreamsStep DEF Streams
  <2>4. ASSUME NEW e \in Ends, Delivers(e)
        PROVE  (DeliveryTypes /\ Cursors /\ MutexHolders)'
    BY <2>4, NextDatagramStep, LockQueueStep, WriteDatagramStep, FrameDoneStep
    DEF Delivers
  <2>5. ASSUME NEW e \in Ends, WriteDatagramFails(e)
        PROVE  (DeliveryTypes /\ Cursors /\ MutexHolders)'
    BY <2>5, WriteDatagramFailsStep
  <2>6. CASE UNCHANGED vars
    <3>1. UNCHANGED <<streamVars, task, got, begun, roundRobin, current, queue, mutex,
                      given, log>>
      BY <2>6 DEF vars, streamVars, sendVars, receiveVars, deliveryVars
    <3>2. DeliveryTypes'
      BY <3>1 DEF DeliveryInv, DeliveryTypes
    <3>3. Cursors'
      BY <3>1, CursorKept DEF Cursors, Handling
    <3>4. MutexHolders'
      BY <3>1 DEF DeliveryInv, MutexHolders, Handling
    <3> QED BY <3>2, <3>3, <3>4
  <2> QED BY <2>1, <2>2, <2>3, <2>4, <2>5, <2>6 DEF Next
<1> QED BY <1>1, <1>2 DEF DeliveryInv

LEMMA DeliveryInvariant == Spec => []DeliveryInv
BY DeliveryInit, DeliveryStep, PTL DEF Spec

\* The type invariant of the way up and of the streams under it.
THEOREM DeliveryIsTyped == Spec => []TypeOK
<1>1. DeliveryInv => DeliveryTypes
  BY DEF DeliveryInv
<1>2. StreamTypeOK /\ DeliveryTypes => TypeOK
  BY DEF DeliveryTypes, TypeOK, Entries
<1> QED BY <1>1, <1>2, DeliveryInvariant, DeliveryUsesStreams, StreamsAreTyped, PTL

\* A queue's mutex belongs to a thread that has a datagram for that queue in
\* hand; a write that throws, or a process that ends, leaves none locked.
THEOREM NoMutexLeftBehind == Spec => []MutexHolders
<1>1. DeliveryInv => MutexHolders
  BY DEF DeliveryInv
<1> QED BY <1>1, DeliveryInvariant, PTL

\* "Badly formatted frame" is never thrown for what came out of a stream.
FramesReadable ==
  \A e \in Ends : Handling(e) => ~ BadlyFormatted(InHand(e), current[e])

THEOREM ReceivedFramesAreReadable == Spec => []FramesReadable
<1>1. ASSUME DeliveryInv, NEW e \in Ends, Handling(e)
      PROVE  ~ BadlyFormatted(InHand(e), current[e])
  <2>1. current[e] \in {0} \cup DOMAIN InHand(e).at
    BY <1>1 DEF DeliveryInv, Cursors, Cursor
  <2> QED BY <1>1, <2>1, NextToSeparator DEF DeliveryInv
<1>2. DeliveryInv => FramesReadable
  BY <1>1 DEF FramesReadable
<1> QED BY <1>2, DeliveryInvariant, PTL

\* With the way up on top, the streams keep what their theorems promise: the
\* receivers stay in step (send and receive, socket_producer_consumer.cpp:301-327),
\* the exchange comes first (lines 38-76), other versions are refused
\* (tunnel_frame.cpp:46-48), the ends do not wait for each other in the exchange,
\* and every connection is a channel of whole frames.
THEOREM DeliveryKeepsStreams ==
  Spec => /\ [](InStep /\ ExchangeFirst /\ OtherVersionsRefused)
          /\ [](ExchangeNotStuck /\ NoFrameStranded)
          /\ ChannelImplemented
  BY DeliveryUsesStreams, ReceiverInStep, ExchangeComesFirst, VersionsMustMatch,
     ExchangeIsNotStuck, FramesAreNotStranded, StreamsAreChannels, PTL

-----------------------------------------------------------------------------
(* The order of the datagrams.                                             *)

\* The datagram at place o of the frame in hand has not been taken yet.
ToCome(e, o) == current[e] < o \/ (current[e] = o /\ queue[e] # None)

\* Of the frame in hand, the device has taken the datagrams that lie before the
\* reader's, and what comes is after all that it has taken.
Split(e) ==
  Handling(e) =>
    \A o \in DOMAIN InHand(e).at :
      IF ToCome(e, o) THEN Ahead(e, got[e], o) ELSE Logged(e, got[e], o)

Order(e) == AsSent(e) /\ InOrder(e) /\ NoneSkipped(e) /\ Split(e)

\* Only the initial frame is received in the exchange, and it is not handled.
Counted(e) ==
  /\ task[e] \in {"absent", "recvInit"} => got[e] = 0
  /\ task[e] = "sendInit" => got[e] = IF e[2] = "client" THEN 0 ELSE 1
  /\ Handling(e) => got[e] > 1

OrderInv == \A e \in Ends : Counted(e) /\ Order(e)

\* The one way to get a frame, and the ways back to receiving.
ReceivesFrame(e) ==
  /\ task[e] = "receiving" /\ task'[e] = "handling" /\ got'[e] = got[e] + 1

ReceivesInit(e) ==
  /\ got[e] = 0 /\ got'[e] = 1 /\ task'[e] # "handling"

ReceivesNothing(e) ==
  /\ got'[e] = got[e]
  /\ task'[e] = "receiving" => task[e] \in {"receiving", "handling"} \/ got[e] <= 1
  /\ task'[e] = "handling" => task[e] = "handling"

LEMMA Receptions ==
  ASSUME StreamInv, [StreamNext]_streamVars, NEW e \in Ends, Counted(e)
  PROVE  /\ ReceivesFrame(e) \/ ReceivesInit(e) \/ ReceivesNothing(e)
         /\ Counted(e)'
<1> DEFINE Concl == /\ ReceivesFrame(e) \/ ReceivesInit(e) \/ ReceivesNothing(e)
                    /\ Counted(e)'
<1> USE DEF ReceivesFrame, ReceivesInit, ReceivesNothing, Counted, Handling
<1>0. /\ task \in [Ends -> TaskStates] /\ got \in [Ends -> Nat]
      /\ Exchange(e) /\ e[2] \in Sides
  BY DEF StreamInv, Types, ExchangeInv, Ends
<1>1. ASSUME task'[e] = task[e], got'[e] = got[e]
      PROVE  Concl
  BY <1>0, <1>1
<1>2. ASSUME task'[e] \in {"done", "dropping", "closing", "asserted"}, got'[e] = got[e]
      PROVE  Concl
  BY <1>0, <1>2
<1>3. ASSUME NEW x \in Ends, Cases(x)
      PROVE  Concl
  <2>1. CASE x # e
    <3>1. task'[e] = task[e] /\ got'[e] = got[e]
      BY <1>0, <1>3, <2>1 DEF Cases, Write, Read, BeginInit, BeginSend, Begins, SendDone,
            SendLost, SendFails, Returned, Receive, ReadFails, Handled, HandleFails,
            Close, Opens, receiveVars
    <3> QED BY <1>1, <3>1
  <2>2. CASE x = e
    <3>1. CASE \/ \E n \in 1..Capacity : Write(e, n)
               \/ BeginInit(e) \/ (\E f \in Frames : BeginSend(e, f))
      BY <1>1, <3>1 DEF Write, BeginInit, BeginSend, Begins, receiveVars
    <3>2. CASE \E n \in 1..Capacity : Read(e, n)
      <4>1. got'[e] = got[e] /\ (task'[e] = task[e] \/ task'[e] = Thrown(e))
        BY <1>0, <3>2 DEF Read
      <4> QED BY <1>1, <1>2, <4>1 DEF Thrown
    <3>3. CASE SendDone(e) \/ SendLost(e)
      <4>1. got'[e] = got[e]
            /\ task'[e] = IF task[e] = "sendInit" THEN AfterInitSent(e) ELSE task[e]
        BY <1>0, <3>3 DEF SendDone, SendLost, Returned, receiveVars
      <4> QED BY <1>0, <1>1, <4>1 DEF AfterInitSent, Sides
    <3>4. CASE SendFails(e)
      <4>1. got'[e] = got[e]
            /\ task'[e] = IF task[e] = "sendInit" THEN "dropping" ELSE task[e]
        BY <1>0, <3>4 DEF SendFails, receiveVars
      <4> QED BY <1>1, <1>2, <4>1
    <3>5. CASE Receive(e)
      <4>1. task[e] \in Receiving
        BY <3>5 DEF Receive
      <4>2. CASE got'[e] = got[e] /\ task'[e] = "asserted"
        BY <1>2, <4>2
      <4>3. CASE ~ (got'[e] = got[e] /\ task'[e] = "asserted")
        <5>1. /\ got'[e] = got[e] + 1
              /\ task'[e] = IF task[e] = "receiving" THEN "handling"
                            ELSE IF HasNext(Incoming(e).body, 0) THEN AfterInitReceived(e)
                                                                 ELSE "dropping"
          BY <1>0, <3>5, <4>3 DEF Receive
        <5> QED BY <1>0, <4>1, <5>1 DEF Receiving, AfterInitReceived, Exchange,
                  Registered, Sides
      <4> QED BY <4>2, <4>3
    <3>6. CASE ReadFails(e) \/ HandleFails(e)
      <4>1. got'[e] = got[e] /\ task'[e] = Thrown(e)
        BY <1>0, <3>6 DEF ReadFails, HandleFails, receiveVars
      <4> QED BY <1>2, <4>1 DEF Thrown
    <3>7. CASE Close(e)
      <4>1. got'[e] = got[e] /\ task'[e] = "done"
        BY <1>0, <3>7 DEF Close, receiveVars
      <4> QED BY <1>2, <4>1
    <3>8. CASE Handled(e)
      BY <1>0, <3>8 DEF Handled, receiveVars
    <3>9. CASE Opens(e)
      <4>1. got'[e] = got[e] /\ task[e] = "absent" /\ task'[e] = FirstTask(e)
        BY <1>0, <3>9 DEF Opens, receiveVars
      <4> QED BY <1>0, <4>1 DEF FirstTask, Sides
    <3> QED BY <1>3, <2>2, <3>1, <3>2, <3>3, <3>4, <3>5, <3>6, <3>7, <3>8, <3>9 DEF Cases
  <2> QED BY <2>1, <2>2
<1>4. ASSUME NEW c \in Conns, Break(c)
      PROVE  Concl
  BY <1>1, <1>4 DEF Break, receiveVars
<1>5. ASSUME NEW s \in Sides, Crash(s)
      PROVE  Concl
  <2>1. got'[e] = got[e] /\ (task'[e] = task[e] \/ task'[e] = "done")
    BY <1>0, <1>5 DEF Crash, receiveVars
  <2> QED BY <1>1, <1>2, <2>1
<1>6. CASE UNCHANGED streamVars
  BY <1>1, <1>6 DEF streamVars, receiveVars
<1> QED BY <1>3, <1>4, <1>5, <1>6, StepCases

\* A thread that takes nothing off its stream, and gives nothing to the device.
LEMMA OrderKept ==
  ASSUME StreamInv, [StreamNext]_streamVars, NEW e \in Ends, Order(e),
         log'[e] = log[e], got'[e] = got[e],
         task'[e] = "receiving" =>
           \/ task[e] = "receiving" \/ got[e] <= 1
           \/ \A o \in DOMAIN SentFrame(e, got[e]).at : Logged(e, got[e], o),
         Handling(e)' =>
           Handling(e) /\ \A o \in DOMAIN InHand(e).at : ToCome(e, o)' <=> ToCome(e, o)
  PROVE  Order(e)'
<1>1. got[e] \in Nat
  BY DEF StreamInv, Types
<1>2. \A k \in 1..got[e] : SentFrame(e, k)' = SentFrame(e, k)
  BY SentStays
<1>3. 2..got[e] \subseteq 1..got[e]
  BY <1>1
<1>4. AsSent(e)'
  BY <1>2, <1>3 DEF Order, AsSent
<1>5. InOrder(e)'
  BY DEF Order, InOrder
<1>6. NoneSkipped(e)'
  <2> SUFFICES ASSUME NEW k \in 2..got[e], NEW o \in DOMAIN SentFrame(e, k).at
               PROVE  \/ Logged(e, k, o)'
                      \/ k = got[e] /\ task'[e] # "receiving" /\ Ahead(e, k, o)'
    BY <1>2, <1>3 DEF NoneSkipped
  <2>1. \/ Logged(e, k, o)
        \/ k = got[e] /\ task[e] # "receiving" /\ Ahead(e, k, o)
    BY DEF Order, NoneSkipped
  <2> QED BY <1>1, <2>1 DEF Logged, Ahead
<1>7. Split(e)'
  <2> SUFFICES ASSUME Handling(e)'
               PROVE  \A o \in DOMAIN InHand(e)'.at :
                        IF ToCome(e, o)' THEN Ahead(e, got[e], o)' ELSE Logged(e, got[e], o)'
    BY DEF Split
  <2>1. InHand(e)' = InHand(e) /\ Handling(e)
    BY InHandStays
  <2> QED BY <2>1 DEF Order, Split, Ahead, Logged
<1> QED BY <1>4, <1>5, <1>6, <1>7 DEF Order

\* The separators of the frame in hand lie behind its beginning.
LEMMA InHandSeparators ==
  \A x \in Ends : StreamInv /\ Handling(x) =>
    \A o \in DOMAIN InHand(x).at : o \in Nat /\ 0 < o
<1> SUFFICES ASSUME NEW x \in Ends, StreamInv, Handling(x)
             PROVE  \A o \in DOMAIN InHand(x).at : o \in Nat /\ 0 < o
  OBVIOUS
<1>1. WellFormed(InHand(x))
  BY InHandIsWellFormed
<1>2. /\ InHand(x).size \in Nat
      /\ \A o \in DOMAIN InHand(x).at : o \in HeaderSize..InHand(x).size
  BY <1>1 DEF WellFormed, Chained
<1> QED BY <1>2

\* The next frame is received when nothing is left of the one before.
LEMMA OrderReceives ==
  ASSUME DeliveryInv, [StreamNext]_streamVars, NEW e \in Ends, Order(e), Counted(e)',
         ReceivesFrame(e), StreamInv',
         log'[e] = log[e], current'[e] = current[e], queue'[e] = queue[e]
  PROVE  Order(e)'
<1>1. got[e] \in Nat /\ got'[e] = got[e] + 1
  BY DEF DeliveryInv, StreamInv, Types, ReceivesFrame
<1>2. \A k \in 1..got[e] : SentFrame(e, k)' = SentFrame(e, k)
  BY SentStays DEF DeliveryInv
<1>3. AsSent(e)'
  <2>1. 2..got[e] \subseteq 1..got[e] /\ 2..got[e] \subseteq 2..(got[e] + 1)
    BY <1>1
  <2> QED BY <1>1, <1>2, <2>1 DEF Order, AsSent
<1>4. InOrder(e)'
  BY DEF Order, InOrder
<1>5. ASSUME NEW o, NEW i \in DOMAIN log[e]
      PROVE  Before(log[e][i].frame, log[e][i].at, got[e] + 1, o)
  <2>1. log[e][i].frame \in 2..got[e]
    BY DEF Order, AsSent
  <2> QED BY <1>1, <2>1 DEF Before
<1>6. NoneSkipped(e)'
  <2> SUFFICES ASSUME NEW k \in 2..(got[e] + 1), NEW o \in DOMAIN SentFrame(e, k)'.at
               PROVE  \/ Logged(e, k, o)'
                      \/ k = got'[e] /\ task'[e] # "receiving" /\ Ahead(e, k, o)'
    BY <1>1 DEF NoneSkipped
  <2>1. CASE k = got[e] + 1
    BY <1>1, <1>5, <2>1 DEF ReceivesFrame, Ahead
  <2>2. CASE k # got[e] + 1
    <3>1. k \in 2..got[e] /\ SentFrame(e, k)' = SentFrame(e, k)
      BY <1>1, <1>2, <2>2
    <3>2. Logged(e, k, o)
      BY <3>1 DEF Order, NoneSkipped, ReceivesFrame
    <3> QED BY <3>2 DEF Logged
  <2> QED BY <2>1, <2>2
<1>7. Split(e)'
  <2>1. current'[e] = 0
    BY DEF DeliveryInv, Cursors, Cursor, Handling, ReceivesFrame
  <2>2. (\A x \in Ends : StreamInv /\ Handling(x) =>
            \A o \in DOMAIN InHand(x).at : o \in Nat /\ 0 < o)'
    BY InHandSeparators, PTL
  <2>3. \A o \in DOMAIN InHand(e)'.at : o \in Nat /\ 0 < o
    BY <2>2 DEF Handling, ReceivesFrame
  <2>4. \A o : Ahead(e, got[e], o)'
    BY <1>1, <1>5 DEF Ahead
  <2> QED BY <2>1, <2>3, <2>4 DEF Split, ToCome
<1> QED BY <1>3, <1>4, <1>6, <1>7 DEF Order

\* The frame is done with when all of its datagrams were taken.
LEMMA OrderDone ==
  ASSUME DeliveryInv, NEW e \in Ends, Order(e), FrameDone(e)
  PROVE  Order(e)'
<1>1. /\ Handling(e) /\ queue[e] = None /\ log' = log /\ got' = got
      /\ Advance(InHand(e), current[e]) = InHand(e).size
      /\ task' = [task EXCEPT ![e] = "receiving"]
      /\ [StreamNext]_streamVars
  BY DEF FrameDone, Handled, Handling, receiveVars, StreamNext
<1>2. /\ StreamInv /\ WellFormed(InHand(e))
      /\ current[e] \in {0} \cup DOMAIN InHand(e).at
  BY <1>1, InHandIsWellFormed DEF DeliveryInv, Cursors, Cursor
<1>3. ASSUME NEW o \in DOMAIN InHand(e).at
      PROVE  ~ ToCome(e, o)
  <2>1. current[e] < o => Advance(InHand(e), current[e]) <= o
    BY <1>2, ReaderFollowsWriter
  <2>2. o < InHand(e).size /\ o \in HeaderSize..InHand(e).size /\ InHand(e).size \in Nat
    BY <1>2 DEF WellFormed, Chained
  <2> QED BY <1>1, <2>1, <2>2 DEF ToCome
<1>4. \A o \in DOMAIN SentFrame(e, got[e]).at : Logged(e, got[e], o)
  BY <1>1, <1>3 DEF Order, Split, InHand, SentFrame
<1>5. ~ Handling(e)'
  BY <1>1 DEF Handling, DeliveryInv, StreamInv, Types
<1> QED BY <1>1, <1>2, <1>4, <1>5, OrderKept

\* The datagram that is written comes after all that were, and before all that
\* are to come.
LEMMA OrderWrites ==
  ASSUME DeliveryInv, NEW e \in Ends, Order(e), Counted(e), WriteDatagram(e)
  PROVE  Order(e)'
<1> DEFINE g == got[e]
           c == current[e]
           entry == DatagramInHand(e)
<1>1. /\ queue[e] # None
      /\ log' = [log EXCEPT ![e] = Append(@, entry)]
      /\ queue' = [queue EXCEPT ![e] = None]
      /\ UNCHANGED <<streamVars, current>>
  BY DEF WriteDatagram
<1>2. /\ Handling(e) /\ c \in DOMAIN InHand(e).at /\ g \in Nat /\ g > 1
      /\ UNCHANGED <<got, begun, task>>
  BY <1>1 DEF DeliveryInv, Cursors, Cursor, Counted, StreamInv, Types, streamVars,
              sendVars, receiveVars
<1>3. /\ \A o \in DOMAIN InHand(e).at : o \in Nat
      /\ \A k : SentFrame(e, k)' = SentFrame(e, k)
      /\ InHand(e)' = InHand(e) /\ InHand(e) = SentFrame(e, g)
      /\ current'[e] = c /\ queue'[e] = None
  BY <1>1, <1>2, InHandSeparators
  DEF SentFrame, InHand, DeliveryInv, DeliveryTypes
<1>4. /\ log[e] \in Seq(Entries) /\ log'[e] = Append(log[e], entry)
      /\ entry = [frame |-> g, at |-> c, datagram |-> InHand(e).at[c]]
  BY <1>1 DEF DeliveryInv, DeliveryTypes, DatagramInHand
<1>5. ToCome(e, c) /\ Ahead(e, g, c)
  BY <1>1, <1>2, <1>3 DEF ToCome, Order, Split
<1> DEFINE n == Len(log[e])
<1>6. /\ n \in Nat /\ DOMAIN log[e] = 1..n /\ DOMAIN log'[e] = 1..(n + 1)
      /\ \A i \in 1..n : log'[e][i] = log[e][i]
      /\ log'[e][n + 1] = entry
      /\ \A i \in 1..n : log[e][i].frame \in Nat /\ log[e][i].at \in Nat
  <2>1. \A i \in 1..n : log[e][i] \in Entries
    BY <1>4
  <2>2. \A i \in 1..n : log[e][i].frame \in Nat /\ log[e][i].at \in Nat
    BY <2>1 DEF Entries
  <2>3. /\ n \in Nat /\ DOMAIN log[e] = 1..n /\ DOMAIN log'[e] = 1..(n + 1)
        /\ \A i \in 1..n : log'[e][i] = log[e][i]
        /\ log'[e][n + 1] = entry
    BY <1>4
  <2> QED BY <2>2, <2>3
<1>7. entry.frame = g /\ entry.at = c /\ entry.datagram = InHand(e).at[c]
  BY <1>4
<1> HIDE DEF entry, n
<1>8. AsSent(e)'
  <2> SUFFICES ASSUME NEW i \in 1..(n + 1)
               PROVE  /\ log'[e][i].frame \in 2..g
                      /\ log'[e][i].at \in DOMAIN SentFrame(e, log'[e][i].frame).at
                      /\ log'[e][i].datagram =
                           SentFrame(e, log'[e][i].frame).at[log'[e][i].at]
    BY <1>2, <1>3, <1>6 DEF AsSent, SentFrame
  <2>1. CASE i = n + 1
    BY <1>2, <1>3, <1>6, <1>7, <2>1
  <2>2. CASE i # n + 1
    <3>1. i \in 1..n /\ log'[e][i] = log[e][i]
      BY <1>6, <2>2
    <3> QED BY <1>6, <3>1 DEF Order, AsSent
  <2> QED BY <2>1, <2>2
<1>9. InOrder(e)'
  <2> SUFFICES ASSUME NEW i \in 1..(n + 1), NEW j \in 1..(n + 1), i < j
               PROVE  Before(log'[e][i].frame, log'[e][i].at,
                             log'[e][j].frame, log'[e][j].at)
    BY <1>6 DEF InOrder
  <2>1. CASE j = n + 1
    <3>1. i \in 1..n
      BY <1>6, <2>1
    <3> QED BY <1>5, <1>6, <1>7, <2>1, <3>1 DEF Ahead
  <2>2. CASE j # n + 1
    <3>1. i \in 1..n /\ j \in 1..n
      BY <1>6, <2>2
    <3> QED BY <1>6, <3>1 DEF Order, InOrder
  <2> QED BY <2>1, <2>2
<1>10. \A k, o : Logged(e, k, o) => Logged(e, k, o)'
  BY <1>6 DEF Logged
<1>11. Logged(e, g, c)'
  <2>1. n + 1 \in 1..(n + 1)
    BY <1>6
  <2> QED BY <1>2, <1>3, <1>6, <1>7, <2>1 DEF Logged
<1>12. ASSUME NEW o \in DOMAIN InHand(e).at, c < o, Ahead(e, g, o)
       PROVE  Ahead(e, g, o)'
  <2>1. Before(g, c, g, o)
    BY <1>12 DEF Before
  <2> QED BY <1>2, <1>6, <1>7, <1>12, <2>1 DEF Ahead
<1>13. Split(e)'
  <2> SUFFICES ASSUME NEW o \in DOMAIN InHand(e).at
               PROVE  IF c < o THEN Ahead(e, g, o)' ELSE Logged(e, g, o)'
    BY <1>2, <1>3 DEF Split, ToCome, Ahead, Logged
  <2>1. CASE c < o
    <3>1. Ahead(e, g, o)
      BY <1>2, <2>1 DEF Order, Split, ToCome
    <3> QED BY <1>12, <2>1, <3>1
  <2>2. CASE o = c
    BY <1>3, <1>11, <2>2
  <2>3. CASE o < c
    <3>1. Logged(e, g, o)
      BY <1>2, <1>3, <2>3 DEF Order, Split, ToCome
    <3>2. Logged(e, got[e], o)'
      BY <1>2, <1>10, <3>1
    <3> QED BY <1>2, <1>3, <2>3, <3>2
  <2> QED BY <1>2, <1>3, <2>1, <2>2, <2>3
<1>14. NoneSkipped(e)'
  <2> SUFFICES ASSUME NEW k \in 2..g, NEW o \in DOMAIN SentFrame(e, k).at
               PROVE  \/ Logged(e, k, o)'
                      \/ k = g /\ task'[e] # "receiving" /\ Ahead(e, k, o)'
    BY <1>2, <1>3 DEF NoneSkipped
  <2>1. CASE k = g
    <3>1. Ahead(e, g, o)' \/ Logged(e, g, o)'
      BY <1>2, <1>3, <1>13, <2>1 DEF Split, Handling
    <3> QED BY <1>2, <2>1, <3>1 DEF Handling
  <2>2. CASE k # g
    <3>1. Logged(e, k, o)
      BY <2>2 DEF Order, NoneSkipped
    <3> QED BY <1>10, <3>1
  <2> QED BY <2>1, <2>2
<1> QED BY <1>8, <1>9, <1>13, <1>14 DEF Order

LEMMA OrderInit == Init => OrderInv
<1> SUFFICES ASSUME Init, NEW e \in Ends
             PROVE  Counted(e) /\ Order(e)
  BY DEF OrderInv
<1>1. task[e] = "absent" /\ got[e] = 0 /\ log[e] = <<>>
  BY DEF Init, StreamInit
<1> QED BY <1>1 DEF Counted, Order, AsSent, InOrder, NoneSkipped, Split, Handling

\* A step of the streams that is taken alone.
LEMMA OrderStreams ==
  ASSUME DeliveryInv, StreamInv', OrderInv, UNCHANGED deliveryVars,
         \/ \E c \in Conns : Connect(c) \/ Accept(c) \/ Break(c)
         \/ \E x \in Ends : \/ Sends(x) \/ Receives(x) \/ Close(x)
                            \/ \E f \in Frames : BeginSend(x, f),
         NEW e \in Ends
  PROVE  Order(e)'
<1>1. /\ Handling(e) => Handling(e)' /\ got'[e] = got[e]
      /\ [StreamNext]_streamVars /\ StreamInv
  BY StreamsAlone DEF DeliveryInv
<1>2. Order(e) /\ Counted(e) /\ UNCHANGED <<log, current, queue>>
  BY DEF OrderInv, deliveryVars
<1>3. Counted(e)' /\ (ReceivesFrame(e) \/ ReceivesInit(e) \/ ReceivesNothing(e))
  BY <1>1, <1>2, Receptions
<1>4. CASE ReceivesFrame(e)
  BY <1>1, <1>2, <1>3, <1>4, OrderReceives
<1>5. CASE ReceivesInit(e)
  <2>1. \A i \in DOMAIN log[e] : FALSE
    BY <1>2, <1>5 DEF Order, AsSent, ReceivesInit
  <2> QED BY <1>2, <1>5, <2>1 DEF Order, AsSent, InOrder, NoneSkipped, Split,
              ReceivesInit, Handling
<1>6. CASE ReceivesNothing(e)
  <2>1. task'[e] = "receiving" => task[e] = "receiving" \/ got[e] <= 1
    BY <1>1, <1>6 DEF ReceivesNothing, Handling
  <2>2. Handling(e)' =>
          Handling(e) /\ \A o \in DOMAIN InHand(e).at : ToCome(e, o)' <=> ToCome(e, o)
    BY <1>2, <1>6 DEF ReceivesNothing, Handling, ToCome
  <2> QED BY <1>1, <1>2, <1>6, <2>1, <2>2, OrderKept DEF ReceivesNothing
<1> QED BY <1>3, <1>4, <1>5, <1>6

\* The cursor goes to the next datagram to come, which is then in hand.
LEMMA OrderNext ==
  ASSUME DeliveryInv, NEW e \in Ends, Order(e), NextDatagram(e)
  PROVE  Order(e)'
<1>1. /\ Handling(e) /\ queue[e] = None /\ UNCHANGED <<streamVars, log>>
      /\ current' = [current EXCEPT ![e] = Advance(InHand(e), @)]
      /\ \E q \in Nat : queue' = [queue EXCEPT ![e] = q]
      /\ HasNext(InHand(e), current[e])
  <2>1. QueueOfTurn(Turn(roundRobin[e[2]])) \in Nat
    BY DEF QueueOfTurn, Turn, DeliveryInv, DeliveryTypes, Ends
  <2> QED BY <2>1 DEF NextDatagram
<1>2. /\ StreamInv /\ WellFormed(InHand(e))
      /\ current[e] \in {0} \cup DOMAIN InHand(e).at
  BY <1>1, InHandIsWellFormed DEF DeliveryInv, Cursors, Cursor
<1>3. /\ current'[e] = Advance(InHand(e), current[e]) /\ queue'[e] # None
      /\ UNCHANGED <<task, got, begun>>
  BY <1>1, NoneAssumption DEF DeliveryInv, DeliveryTypes, streamVars, sendVars, receiveVars
<1>4. /\ current[e] < current'[e] /\ current[e] \in Nat
      /\ current'[e] \in DOMAIN InHand(e).at
      /\ \A o \in DOMAIN InHand(e).at : current[e] < o => current'[e] <= o
      /\ \A o \in DOMAIN InHand(e).at : o \in Nat
  <2>1. \A o \in DOMAIN InHand(e).at : o \in Nat
    BY <1>1, <1>2, InHandSeparators
  <2>2. current[e] < current'[e] /\ current'[e] \in DOMAIN InHand(e).at \cup {InHand(e).size}
        /\ \A o \in DOMAIN InHand(e).at : current[e] < o => current'[e] <= o
    BY <1>2, <1>3, ReaderFollowsWriter
  <2>3. InHand(e).size \in Nat
    BY <1>2 DEF WellFormed
  <2> QED BY <1>1, <1>2, <1>3, <2>1, <2>2, <2>3 DEF HasNext
<1>5. \A o \in DOMAIN InHand(e).at : ToCome(e, o)' <=> ToCome(e, o)
  BY <1>1, <1>3, <1>4 DEF ToCome
<1> QED BY <1>1, <1>2, <1>3, <1>5, OrderKept DEF Handling

\* Who handles a frame is at the end of a connection that was made.
LEMMA HandlingIsMade ==
  ASSUME StreamInv, NEW e \in Ends, Handling(e)
  PROVE  e[1] \in Made
<1>1. /\ Exchange(e) /\ ReaderInStep(e) /\ Peer(e) \in Ends /\ Exchange(Peer(e))
      /\ got[e] \in Nat /\ begun[Peer(e)] \in Seq(Records)
  BY PeerOfPeer DEF StreamInv, ExchangeInv, Positions, Types
<1>2. got[e] > 0
  BY <1>1 DEF Exchange, Handling, Registered
<1>3. Len(begun[Peer(e)]) > 0
  BY <1>1, <1>2 DEF ReaderInStep
<1>4. task[Peer(e)] # "absent" /\ task[e] # "absent"
  BY <1>1, <1>3 DEF Exchange, Handling
<1>5. e = <<e[1], "client">> \/ Peer(e) = <<e[1], "client">>
  BY DEF Ends, Sides, Peer
<1> QED BY <1>4, <1>5 DEF Made, Ends

LEMMA OrderStep ==
  ASSUME DeliveryInv, DeliveryInv', OrderInv, [Next]_vars
  PROVE  OrderInv'
<1> SUFFICES ASSUME NEW e \in Ends
             PROVE  Counted(e)' /\ Order(e)'
  BY DEF OrderInv
<1>1. /\ StreamInv /\ StreamInv' /\ [StreamNext]_streamVars
      /\ Counted(e) /\ Order(e)
  BY NextOfStreams DEF DeliveryInv, OrderInv
<1>2. Counted(e)'
  BY <1>1, Receptions
\* The thread of this end does nothing but, perhaps, let go of its frame.
<1>3. ASSUME log'[e] = log[e], got'[e] = got[e], task'[e] # "receiving" \/ task'[e] = task[e],
             \/ task'[e] # "handling"
             \/ task'[e] = task[e] /\ current'[e] = current[e] /\ queue'[e] = queue[e]
      PROVE  Order(e)'
  BY <1>1, <1>3, OrderKept DEF Handling, ToCome
<1>4. CASE \/ \E c \in Conns : Streams(Connect(c)) \/ Streams(Accept(c)) \/ Streams(Break(c))
           \/ \E x \in Ends : \/ Streams(Sends(x)) \/ Streams(Receives(x)) \/ Streams(Close(x))
                              \/ \E f \in Frames : Streams(BeginSend(x, f))
  BY <1>1, <1>2, <1>4, OrderStreams DEF Streams
<1>5. ASSUME NEW s \in Sides, CrashAll(s)
      PROVE  Order(e)'
  <2>1. /\ log' = log /\ got' = got
        /\ \/ task'[e] = "done"
           \/ e[2] = s /\ task'[e] = task[e] /\ task[e] # "handling"
           \/ e[2] # s /\ task'[e] = task[e] /\ current'[e] = current[e] /\ queue'[e] = queue[e]
    <3>1. /\ log' = log /\ got' = got
          /\ task'[e] = IF e[2] = s /\ e[1] \in Made THEN "done" ELSE task[e]
          /\ current'[e] = IF e[2] = s THEN 0 ELSE current[e]
          /\ queue'[e] = IF e[2] = s THEN None ELSE queue[e]
      BY <1>5 DEF CrashAll, Crash, receiveVars
    <3>2. e[1] \notin Made => task[e] # "handling"
      BY HandlingIsMade, <1>1 DEF Handling
    <3> QED BY <3>1, <3>2
  <2> QED BY <1>3, <2>1
<1>6. ASSUME NEW x \in Ends, NextDatagram(x) \/ LockQueue(x) \/ WriteDatagram(x) \/ FrameDone(x)
                             \/ WriteDatagramFails(x), x # e
      PROVE  Order(e)'
  <2>1. /\ log'[e] = log[e] /\ got'[e] = got[e] /\ task'[e] = task[e]
        /\ current'[e] = current[e] /\ queue'[e] = queue[e]
    BY <1>6 DEF NextDatagram, LockQueue, WriteDatagram, FrameDone, WriteDatagramFails,
          Handled, HandleFails, DeliveryInv, DeliveryTypes, StreamInv, Types, streamVars,
          sendVars, receiveVars
  <2> QED BY <1>3, <2>1
<1>7. CASE NextDatagram(e)
  BY <1>1, <1>2, <1>7, OrderNext
<1>8. CASE LockQueue(e)
  BY <1>2, <1>3, <1>8 DEF LockQueue, streamVars, receiveVars
<1>9. CASE WriteDatagram(e)
  BY <1>1, <1>2, <1>9, OrderWrites
<1>10. CASE FrameDone(e)
  BY <1>1, <1>2, <1>10, OrderDone
<1>11. CASE WriteDatagramFails(e)
  <2>1. log' = log /\ got' = got /\ task'[e] = Thrown(e)
    BY <1>11 DEF WriteDatagramFails, HandleFails, receiveVars, DeliveryInv, StreamInv, Types
  <2> QED BY <1>2, <1>3, <2>1 DEF Thrown
<1>12. CASE UNCHANGED vars
  BY <1>2, <1>3, <1>12 DEF vars, streamVars, receiveVars, deliveryVars
<1> QED BY <1>2, <1>4, <1>5, <1>6, <1>7, <1>8, <1>9, <1>10, <1>11, <1>12 DEF Next, Delivers

\* The device takes from every stream the datagrams sent into it, from the
\* second frame on, in the order in which TunnelFrameWriter laid them out, none
\* twice and none left out (tunnel_producer_consumer.cpp:109-124, with
\* socket_producer_consumer.cpp:279-287): whatever the sizes, the partial reads
\* and writes, the other threads at the queues, and what fails.  The frame in
\* which something failed is taken up to some datagram, and nothing after it.
THEOREM DatagramsKeepOrder == Spec => []DatagramsInOrder
<1>1. Spec => []OrderInv
  <2>1. Init => OrderInv
    BY OrderInit
  <2>2. DeliveryInv /\ DeliveryInv' /\ OrderInv /\ [Next]_vars => OrderInv'
    BY OrderStep
  <2> QED BY <2>1, <2>2, DeliveryInvariant, PTL DEF Spec
<1>2. OrderInv /\ FramesReadable => DatagramsInOrder
  BY DEF OrderInv, Order, FramesReadable, DatagramsInOrder
<1> QED BY <1>1, <1>2, ReceivedFramesAreReadable, PTL

-----------------------------------------------------------------------------
(* The turns of the queues.                                                *)

\* Division with rest.
LEMMA DivMod ==
  ASSUME NEW n \in Nat \ {0}, NEW r \in Nat
  PROVE  /\ r \div n \in Nat /\ r % n \in 0..(n - 1)
         /\ r = n * (r \div n) + (r % n)
  BY Z3

\* Multiples of n lie n apart.
LEMMA Smaller ==
  ASSUME NEW n \in Nat \ {0}, NEW a \in Int, NEW b \in Int, a < b
  PROVE  n * a + n <= n * b
<1>1. b - a - 1 \in Nat
  OBVIOUS
<1>2. n * (b - a - 1) \in Nat
  BY <1>1
<1>3. n * (b - a - 1) = n * b - n * a - n
  BY Z3
<1> QED BY <1>2, <1>3

\* The rest is unique.
LEMMA ModUnique ==
  ASSUME NEW n \in Nat \ {0}, NEW a \in Nat, NEW b \in 0..(n - 1)
  PROVE  (n * a + b) % n = b
<1> DEFINE r == n * a + b
<1>1. r \in Nat
  OBVIOUS
<1> DEFINE q == r \div n
           m == r % n
<1>2. q \in Nat /\ m \in 0..(n - 1) /\ r = n * q + m
  BY <1>1, DivMod
<1>3. ~ q < a
  BY <1>2, Smaller
<1>4. ~ a < q
  BY <1>2, Smaller
<1>5. q = a
  BY <1>2, <1>3, <1>4
<1> QED BY <1>2, <1>5

\* When the counter wraps at a multiple of n, its rest modulo n goes round.
LEMMA TurnStep ==
  ASSUME NEW n \in Nat \ {0}, NEW w \in Nat \ {0}, NEW k \in Nat, w = k * n,
         NEW r \in 0..(w - 1)
  PROVE  ((r + 1) % w) % n = IF r % n = n - 1 THEN 0 ELSE (r % n) + 1
<1> DEFINE a == r \div n
           b == r % n
<1>0. r \in Nat
  OBVIOUS
<1>1. a \in Nat /\ b \in 0..(n - 1) /\ r = n * a + b
  BY <1>0, DivMod
<1> HIDE DEF a, b
<1>2. r + 1 < w => (r + 1) % w = r + 1
  <2>1. (w * 0 + (r + 1)) % w = r + 1 \/ ~ r + 1 \in 0..(w - 1)
    BY ModUnique
  <2> QED BY <2>1
<1>3. r + 1 = w => (r + 1) % w = 0
  <2>1. (w * 1 + 0) % w = 0
    BY ModUnique
  <2> QED BY <2>1
<1>4. CASE b # n - 1
  <2>1. b + 1 \in 0..(n - 1)
    BY <1>1, <1>4
  <2>2. r + 1 = n * a + (b + 1)
    BY <1>1
  <2>3. (n * a + (b + 1)) % n = b + 1
    BY <1>1, <2>1, ModUnique
  <2>5. (r + 1) % n = b + 1
    BY <2>2, <2>3
  <2>4. r + 1 # w
    <3>1. (n * k + 0) % n = 0
      BY ModUnique
    <3>2. n * k + 0 = w
      OBVIOUS
    <3> QED BY <1>1, <2>5, <3>1, <3>2
  <2> QED BY <1>0, <1>2, <1>4, <2>5, <2>4 DEF b
<1>5. CASE b = n - 1
  <2>1. r + 1 = n * (a + 1) + 0
    BY <1>1, <1>5
  <2>2. (n * (a + 1) + 0) % n = 0
    BY <1>1, ModUnique
  <2>3. (r + 1) % n = 0
    BY <2>1, <2>2
  <2>4. (n * 0 + 0) % n = 0
    BY ModUnique
  <2> QED BY <1>0, <1>2, <1>3, <1>5, <2>3, <2>4 DEF b
<1> QED BY <1>4, <1>5

\* Since the last round that was complete, the queues 1 to Turn % NumQueues
\* have been given one datagram each.
Rounds(s) ==
  \E k \in Nat : \A q \in Queues :
    given[s][q] = IF q \in 1..(roundRobin[s] % NumQueues) THEN k + 1 ELSE k

RoundsInv == \A s \in Sides : Rounds(s)

LEMMA RoundsBalanced == RoundsInv => QueuesBalanced
<1> SUFFICES ASSUME RoundsInv, NEW s \in Sides, NEW q \in Queues, NEW r \in Queues
             PROVE  given[s][q] <= given[s][r] + 1
  BY DEF QueuesBalanced
<1>1. PICK k \in Nat : \A p \in Queues :
        given[s][p] = IF p \in 1..(roundRobin[s] % NumQueues) THEN k + 1 ELSE k
  BY DEF RoundsInv, Rounds
<1>2. given[s][q] \in {k, k + 1} /\ given[s][r] \in {k, k + 1}
  BY <1>1
<1> QED BY <1>2

LEMMA RoundsInit == Init => RoundsInv
<1> SUFFICES ASSUME Init, NEW s \in Sides
             PROVE  Rounds(s)
  BY DEF RoundsInv
<1>1. 0 % NumQueues = 0
  <2>1. (NumQueues * 0 + 0) % NumQueues = 0
    BY ModUnique
  <2> QED BY <2>1
<1>2. \A q \in Queues :
        given[s][q] = IF q \in 1..(roundRobin[s] % NumQueues) THEN 0 + 1 ELSE 0
  BY <1>1 DEF Init
<1> QED BY <1>2 DEF Rounds

LEMMA RoundsKept ==
  ASSUME NEW s \in Sides, Rounds(s), roundRobin'[s] = roundRobin[s],
         given'[s] = given[s]
  PROVE  Rounds(s)'
BY DEF Rounds

LEMMA RoundsTurn ==
  ASSUME DeliveryTypes, RoundsInv, NEW e \in Ends, NextDatagram(e),
         NEW turns \in Nat, RoundRobinWrap = turns * NumQueues
  PROVE  RoundsInv'
<1> SUFFICES ASSUME NEW s \in Sides
             PROVE  Rounds(s)'
  BY DEF RoundsInv
<1> DEFINE r == roundRobin[s]
           c == r % NumQueues
<1>1. CASE s # e[2]
  <2>1. roundRobin'[s] = roundRobin[s] /\ given'[s] = given[s]
    BY <1>1 DEF NextDatagram, DeliveryTypes
  <2> QED BY <2>1, RoundsKept DEF RoundsInv
<1>2. CASE s = e[2]
  <2>1. r \in 0..(RoundRobinWrap - 1) /\ c \in 0..(NumQueues - 1)
    <3>1. r \in 0..(RoundRobinWrap - 1)
      BY DEF DeliveryTypes
    <3> HIDE DEF r
    <3>2. r \in Nat
      BY <3>1
    <3>3. r % NumQueues \in 0..(NumQueues - 1)
      BY <3>2, DivMod
    <3> QED BY <3>1, <3>3
  <2>2. roundRobin'[s] = Turn(r)
    BY <1>2 DEF NextDatagram, DeliveryTypes
  <2> DEFINE q == QueueOfTurn(Turn(r))
  <2>3. q = IF c = NumQueues - 1 THEN 0 ELSE c + 1
    BY <2>1, TurnStep DEF QueueOfTurn, Turn
  <2>4. q \in Queues /\ roundRobin'[s] % NumQueues = q
    BY <2>1, <2>2, <2>3 DEF QueueOfTurn, Queues
  <2>5. given'[s] = [given[s] EXCEPT ![q] = @ + 1]
    BY <1>2 DEF NextDatagram, DeliveryTypes
  <2>6. given[s] \in [Queues -> Nat]
    BY DEF DeliveryTypes
  <2>7. PICK k \in Nat : \A p \in Queues :
          given[s][p] = IF p \in 1..c THEN k + 1 ELSE k
    BY DEF RoundsInv, Rounds
  <2> HIDE DEF q, c
  <2>8. \A p \in Queues : given'[s][p] = IF p = q THEN given[s][p] + 1 ELSE given[s][p]
    BY <2>4, <2>5, <2>6
  <2>9. CASE c = NumQueues - 1
    <3>1. q = 0
      BY <2>3, <2>9
    <3>2. \A p \in Queues : given'[s][p] = IF p \in 1..q THEN k + 1 + 1 ELSE k + 1
      BY <2>1, <2>7, <2>8, <2>9, <3>1 DEF Queues
    <3>3. k + 1 \in Nat
      OBVIOUS
    <3> QED BY <2>4, <3>2, <3>3 DEF Rounds
  <2>10. CASE c # NumQueues - 1
    <3>1. q = c + 1
      BY <2>3, <2>10
    <3>2. \A p \in Queues : given'[s][p] = IF p \in 1..q THEN k + 1 ELSE k
      BY <2>1, <2>7, <2>8, <3>1 DEF Queues
    <3> QED BY <2>4, <3>2 DEF Rounds
  <2> QED BY <2>9, <2>10
<1> QED BY <1>1, <1>2

LEMMA RoundsCrash ==
  ASSUME DeliveryTypes, RoundsInv, NEW side \in Sides, CrashAll(side)
  PROVE  RoundsInv'
<1> SUFFICES ASSUME NEW s \in Sides
             PROVE  Rounds(s)'
  BY DEF RoundsInv
<1>1. CASE s # side
  <2>1. roundRobin'[s] = roundRobin[s] /\ given'[s] = given[s]
    BY <1>1 DEF CrashAll, DeliveryTypes
  <2> QED BY <2>1, RoundsKept DEF RoundsInv
<1>2. CASE s = side
  <2>1. roundRobin'[s] = 0 /\ given'[s] = [q \in Queues |-> 0]
    BY <1>2 DEF CrashAll, DeliveryTypes
  <2>2. (NumQueues * 0 + 0) % NumQueues = 0
    BY ModUnique
  <2>3. roundRobin'[s] % NumQueues = 0
    BY <2>1, <2>2
  <2>4. \A q \in Queues :
          given'[s][q] = IF q \in 1..(roundRobin'[s] % NumQueues) THEN 0 + 1 ELSE 0
    BY <2>1, <2>3
  <2> QED BY <2>4 DEF Rounds
<1> QED BY <1>1, <1>2

LEMMA RoundsStep ==
  ASSUME DeliveryInv, RoundsInv, [Next]_vars,
         NEW turns \in Nat, RoundRobinWrap = turns * NumQueues
  PROVE  RoundsInv'
<1> USE DEF DeliveryInv
<1>1. CASE \E s \in Sides : CrashAll(s)
  BY <1>1, RoundsCrash
<1>2. ASSUME NEW e \in Ends, NextDatagram(e)
      PROVE  RoundsInv'
  BY <1>2, RoundsTurn
<1>3. CASE UNCHANGED <<roundRobin, given>>
  BY <1>3, RoundsKept DEF RoundsInv
<1>4. ASSUME NEW e \in Ends,
             LockQueue(e) \/ WriteDatagram(e) \/ FrameDone(e) \/ WriteDatagramFails(e)
      PROVE  UNCHANGED <<roundRobin, given>>
  BY <1>4 DEF LockQueue, WriteDatagram, FrameDone, WriteDatagramFails
<1>5. CASE UNCHANGED vars
  BY <1>3, <1>5 DEF vars, deliveryVars
<1> QED BY <1>1, <1>2, <1>3, <1>4, <1>5 DEF Next, Streams, deliveryVars, Delivers

\* No queue of the device is given two datagrams more than another
\* (tunnel_producer_consumer.cpp:112), by whatever threads and whatever has
\* failed, if the counter wraps at a multiple of the number of queues.
THEOREM QueuesStayBalanced ==
  ASSUME NEW turns \in Nat, RoundRobinWrap = turns * NumQueues
  PROVE  Spec => []QueuesBalanced
<1>1. Init => RoundsInv
  BY RoundsInit
<1>2. DeliveryInv /\ RoundsInv /\ [Next]_vars => RoundsInv'
  BY RoundsStep
<1>3. RoundsInv => QueuesBalanced
  BY RoundsBalanced
<1> QED BY <1>1, <1>2, <1>3, DeliveryInvariant, PTL DEF Spec
=============================================================================
