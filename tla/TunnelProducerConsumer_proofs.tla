-------------------- MODULE TunnelProducerConsumer_proofs --------------------
(***************************************************************************)
(* Proofs of the safety properties of TunnelProducerConsumer, for any      *)
(* number of datagrams and any sizes that fit.                             *)
(***************************************************************************)
EXTENDS TunnelProducerConsumer, SequenceTheorems, FiniteSetTheorems, TLAPS

USE FormatAssumption, SizeAssumption

-----------------------------------------------------------------------------
(* What the writer of a tunnel frame leaves, for headers, separators,      *)
(* datagrams and buffers of every size.                                    *)

\* A new writer, in a buffer that holds the header (the assertion on
\* kTunnelFrameMinSize), has laid out nothing yet.
THEOREM WriterStarts ==
  ASSUME NEW n \in Nat, HeaderSize <= n
  PROVE  WriterOK(NewWriter(n))
PROOF
  BY DEF WriterOK, NewWriter, Chained

\* A datagram of at most remainingBytes() stays within the buffer (the
\* assertion of onDatagramWritten holds) and lies behind all the others.
THEOREM WriterKeepsInBuffer ==
  ASSUME NEW w, WriterOK(w), NEW d \in Datagrams,
         0 < Size[d], Size[d] <= remainingBytes(w)
  PROVE  WriterOK(onDatagramWritten(w, d))
PROOF
<1> DEFINE v == onDatagramWritten(w, d)
           next == PastDatagram(w.current, d)
           at == [o \in DOMAIN w.at \cup {w.current} |->
                    IF o = w.current THEN d ELSE w.at[o]]
<1>1. Size[d] \in Nat
  BY DEF Datagrams
<1>2. /\ w.end \in Nat /\ w.current \in Nat
      /\ HeaderSize <= w.current /\ w.current <= w.end
      /\ Chained(w.at, w.current)
  BY DEF WriterOK
<1>3. next \in Nat /\ w.current < next /\ next <= w.end
  BY <1>1, <1>2 DEF PastDatagram, remainingBytes
<1>4. v.end = w.end /\ v.current = next /\ v.at = at
  BY DEF onDatagramWritten
<1>5. Chained(at, next)
  <2>1. HeaderSize \in DOMAIN at \cup {next}
    BY <1>2 DEF Chained
  <2>2. ASSUME NEW o \in DOMAIN at
        PROVE  /\ o \in HeaderSize..next
               /\ o < next
               /\ at[o] \in Datagrams
               /\ PastDatagram(o, at[o]) \in DOMAIN at \cup {next}
               /\ \A p \in DOMAIN at : o < p => PastDatagram(o, at[o]) <= p
    <3>1. CASE o = w.current
      <4>1. \A p \in DOMAIN at : p <= o
        BY <1>2, <3>1 DEF Chained
      <4> QED
        BY <1>2, <1>3, <3>1, <4>1 DEF Chained
    <3>2. CASE o # w.current
      <4>1. o \in DOMAIN w.at /\ at[o] = w.at[o]
        BY <3>2
      <4>2. /\ o \in HeaderSize..w.current
            /\ o < w.current
            /\ w.at[o] \in Datagrams
            /\ PastDatagram(o, w.at[o]) \in DOMAIN w.at \cup {w.current}
            /\ \A p \in DOMAIN w.at : o < p => PastDatagram(o, w.at[o]) <= p
        BY <1>2, <4>1 DEF Chained
      <4>3. PastDatagram(o, w.at[o]) <= w.current
        BY <1>2, <4>2 DEF Chained
      <4> QED
        BY <1>2, <1>3, <4>1, <4>2, <4>3
    <3> QED
      BY <3>1, <3>2
  <2> QED
    BY <2>1, <2>2 DEF Chained
<1> QED
  BY <1>2, <1>3, <1>4, <1>5 DEF WriterOK

\* A closed frame is one that a reader can follow.
THEOREM ClosedIsWellFormed ==
  ASSUME NEW w, WriterOK(w), w.end <= FrameMax
  PROVE  WellFormed(close(w))
PROOF
  BY DEF WriterOK, WellFormed, close

-----------------------------------------------------------------------------
(* The datagrams in the frame.                                             *)

\* The separators are finitely many and no place is beyond their number.
LEMMA PlaceBounds ==
  ASSUME NEW at, NEW end \in Nat, Chained(at, end)
  PROVE  /\ IsFiniteSet(DOMAIN at) /\ Cardinality(DOMAIN at) \in Nat
         /\ \A o \in DOMAIN at : Place(at, o) \in 1..Cardinality(DOMAIN at)
<1>1. DOMAIN at \subseteq HeaderSize..end
  BY DEF Chained
<1>2. IsFiniteSet(HeaderSize..end)
  BY FS_Interval
<1>3. IsFiniteSet(DOMAIN at) /\ Cardinality(DOMAIN at) \in Nat
  BY <1>1, <1>2, FS_Subset, FS_CardinalityType
<1>4. ASSUME NEW o \in DOMAIN at
      PROVE  Place(at, o) \in 1..Cardinality(DOMAIN at)
  <2> DEFINE S == {p \in DOMAIN at : p <= o}
  <2>1. IsFiniteSet(S) /\ Cardinality(S) <= Cardinality(DOMAIN at)
    BY <1>3, FS_Subset
  <2>2. o \in S
    BY <1>1
  <2>3. Cardinality(S) \in Nat /\ Cardinality(S) # 0
    BY <2>1, <2>2, FS_CardinalityType, FS_EmptySet
  <2> QED
    BY <1>3, <2>1, <2>3 DEF Place
<1> QED
  BY <1>3, <1>4

\* A datagram that is written comes to the last place, and the others keep
\* theirs.
LEMMA WritingAddsAPlace ==
  ASSUME NEW w, WriterOK(w), NEW d \in Datagrams
  PROVE  LET at == onDatagramWritten(w, d).at IN
         /\ DOMAIN at = DOMAIN w.at \cup {w.current}
         /\ Cardinality(DOMAIN at) = Cardinality(DOMAIN w.at) + 1
         /\ at[w.current] = d /\ Place(at, w.current) = Cardinality(DOMAIN w.at) + 1
         /\ \A o \in DOMAIN w.at : at[o] = w.at[o] /\ Place(at, o) = Place(w.at, o)
<1> DEFINE at == onDatagramWritten(w, d).at
<1>1. /\ w.current \in Nat /\ Chained(w.at, w.current)
      /\ \A o \in DOMAIN w.at : o \in Nat /\ o < w.current
  BY DEF WriterOK, Chained
<1>2. at = [o \in DOMAIN w.at \cup {w.current} |-> IF o = w.current THEN d ELSE w.at[o]]
  BY DEF onDatagramWritten
<1>3. DOMAIN at = DOMAIN w.at \cup {w.current} /\ w.current \notin DOMAIN w.at
  BY <1>1, <1>2
<1>4. Cardinality(DOMAIN at) = Cardinality(DOMAIN w.at) + 1
  BY <1>1, <1>3, PlaceBounds, FS_AddElement
<1>5. at[w.current] = d /\ \A o \in DOMAIN w.at : at[o] = w.at[o]
  BY <1>2, <1>3
<1> HIDE DEF at
<1>6. {p \in DOMAIN at : p <= w.current} = DOMAIN at
  BY <1>1, <1>3
<1>7. \A o \in DOMAIN w.at : {p \in DOMAIN at : p <= o} = {p \in DOMAIN w.at : p <= o}
  BY <1>1, <1>3
<1> QED
  BY <1>3, <1>4, <1>5, <1>6, <1>7 DEF Place, at

-----------------------------------------------------------------------------
(* Sequences.                                                              *)

\* A datagram that arrives is the last one.
LEMMA ArrivalIsLast ==
  ASSUME NEW S, NEW d \in S, NEW a \in Seq(S), NEW q \in Seq(S)
  PROVE  a \o Append(q, d) = Append(a \o q, d)
<1>1. /\ a \o Append(q, d) \in Seq(S) /\ Append(a \o q, d) \in Seq(S)
      /\ Len(a \o Append(q, d)) = Len(Append(a \o q, d))
      /\ \A i \in 1..Len(a \o Append(q, d)) : (a \o Append(q, d))[i] = Append(a \o q, d)[i]
  OBVIOUS
<1>2. QED BY <1>1, SeqEqual

\* Reading moves the first datagram of the queue into the empty buffer.
LEMMA HeadMoves ==
  ASSUME NEW S, NEW a \in Seq(S), NEW q \in Seq(S), q # <<>>
  PROVE  /\ a \o <<>> \o q = a \o <<Head(q)>> \o Tail(q)
         /\ <<Head(q)>> \in Seq(S) /\ Tail(q) \in Seq(S)
<1>1. Head(q) \in S /\ Tail(q) \in Seq(S) /\ <<Head(q)>> \in Seq(S)
  BY HeadTailProperties
<1>2. q = <<Head(q)>> \o Tail(q)
  <2>1. <<Head(q)>> \o Tail(q) \in Seq(S) /\ Len(<<Head(q)>> \o Tail(q)) = Len(q)
    BY <1>1
  <2>2. \A i \in 1..Len(q) : q[i] = (<<Head(q)>> \o Tail(q))[i]
    BY <1>1
  <2>3. QED BY <2>1, <2>2, SeqEqual
<1>3. QED BY <1>1, <1>2, ConcatAssociative, ConcatEmptySeq

\* Writing moves the datagram in the buffer to the end of the frame.
LEMMA HeldMoves ==
  ASSUME NEW S, NEW a \in Seq(S), NEW f \in Seq(S), NEW h \in S, NEW q \in Seq(S)
  PROVE  a \o f \o <<h>> \o q = a \o Append(f, h) \o <<>> \o q
<1>1. Append(f, h) = f \o <<h>> /\ <<h>> \in Seq(S) /\ Append(f, h) \in Seq(S)
  OBVIOUS
<1>2. a \o f \o <<h>> = a \o Append(f, h)
  BY <1>1, ConcatAssociative
<1>3. a \o Append(f, h) \o <<>> = a \o Append(f, h)
  BY <1>1, ConcatProperties, ConcatEmptySeq
<1>4. QED BY <1>2, <1>3

-----------------------------------------------------------------------------
(* The inductive invariant.                                                *)

\* mtuBuffer holds a datagram when one is to be written, and none when one is
\* to be read; a frame without datagrams has its whole room left.
BuffersInv ==
  /\ Len(held) <= 1
  /\ pc = "fitting" => held # <<>>
  /\ pc \in {"polling", "reading"} => held = <<>>
  /\ frame = <<>> => writer.current = HeaderSize
  /\ pc \in {"closed", "calling", "sleeping"} => frame # <<>>

\* At any time closing the writer would leave a frame with these datagrams.
LayoutInv == WriterOK(writer) /\ LaidOut(writer.at)

IInv ==
  /\ TypeOK
  /\ BuffersInv
  /\ LayoutInv
  /\ AssertsHold
  /\ NothingLostOrDoubled

USE BoundAssumption, DatagramAssumption, MtuAssumption
USE DEF States, numDatagramsWritten, dataVars

\* The one datagram in mtuBuffer.
LEMMA HeldDatagram ==
  ASSUME TypeOK, BuffersInv, pc = "fitting"
  PROVE  held = <<held[1]>> /\ held[1] \in Datagrams /\ Size[held[1]] \in 1..Mtu
<1>0. held \in Seq(Datagrams)
  BY DEF TypeOK
<1>1. Len(held) = 1
  <2>1. held # <<>>
    BY DEF BuffersInv
  <2>2. Len(held) \in Nat \ {0}
    BY <1>0, <2>1, EmptySeq
  <2>3. Len(held) <= 1
    BY DEF BuffersInv
  <2>4. \A n \in Nat \ {0} : n <= 1 => n = 1
    OBVIOUS
  <2>5. QED BY <2>2, <2>3, <2>4, Zenon
<1>2. held[1] \in Datagrams
  BY <1>0, <1>1, ElementOfSeq
<1>3. held = <<held[1]>>
  BY <1>0, <1>1, <1>2, SeqEqual
<1>4. QED BY <1>2, <1>3

\* In an empty frame every datagram has room.
LEMMA EmptyFrameHasRoom ==
  ASSUME TypeOK, BuffersInv, pc = "fitting", TooBig
  PROVE  numDatagramsWritten > 0
<1>1. Size[held[1]] \in 1..Mtu
  BY HeldDatagram
<1>2. writer.current # HeaderSize
  <2>1. writer.end = FrameMax
    BY DEF TypeOK
  <2>2. QED BY <1>1, <2>1 DEF TooBig, remainingBytes
<1>3. QED BY <1>2, EmptySeq DEF BuffersInv, TypeOK

\* What is written ends within the buffer, behind the other datagrams.
LEMMA WriteKeepsLayout ==
  ASSUME IInv, Write
  PROVE  /\ LayoutInv' /\ writer'.current \in HeaderSize..FrameMax
         /\ writer' = [end |-> FrameMax, current |-> writer'.current, at |-> writer'.at]
         /\ frame' # <<>> /\ frame' \in Seq(Datagrams)
<1>1. PICK d \in Datagrams : d = held[1] /\ Size[d] \in 1..Mtu
  BY HeldDatagram DEF Write, IInv
<1>2. /\ writer' = onDatagramWritten(writer, d) /\ frame' = Append(frame, d)
      /\ Size[d] <= remainingBytes(writer)
  <2>1. writer.end = FrameMax /\ writer.current \in Nat
    BY DEF IInv, TypeOK
  <2>2. QED BY <1>1, <2>1 DEF Write, TooBig, remainingBytes
<1>3. /\ WriterOK(writer) /\ LaidOut(writer.at) /\ frame \in Seq(Datagrams)
      /\ writer = [end |-> FrameMax, current |-> writer.current, at |-> writer.at]
  BY DEF IInv, TypeOK, LayoutInv
<1>4. WriterOK(writer')
  BY <1>1, <1>2, <1>3, WriterKeepsInBuffer
<1>5. /\ writer' = [end |-> FrameMax, current |-> writer'.current, at |-> writer'.at]
      /\ writer'.current \in HeaderSize..FrameMax
  <2>1. writer' = [end |-> FrameMax, current |-> writer'.current, at |-> writer'.at]
    <3>1. writer.end = FrameMax
      BY <1>3
    <3> DEFINE at == [o \in DOMAIN writer.at \cup {writer.current} |->
                        IF o = writer.current THEN d ELSE writer.at[o]]
               next == PastDatagram(writer.current, d)
    <3>2. writer' = [end |-> FrameMax, current |-> next, at |-> at]
      BY <1>2, <3>1 DEF onDatagramWritten
    <3> HIDE DEF at, next
    <3>3. QED BY <3>2
  <2>2. writer'.end = FrameMax
    BY <2>1
  <2>3. QED BY <1>4, <2>1, <2>2 DEF WriterOK
<1>6. LaidOut(writer.at)'
  <2> DEFINE at == onDatagramWritten(writer, d).at
  <2>1. /\ DOMAIN at = DOMAIN writer.at \cup {writer.current}
        /\ Cardinality(DOMAIN at) = Cardinality(DOMAIN writer.at) + 1
        /\ at[writer.current] = d
        /\ Place(at, writer.current) = Cardinality(DOMAIN writer.at) + 1
        /\ \A o \in DOMAIN writer.at :
             at[o] = writer.at[o] /\ Place(at, o) = Place(writer.at, o)
    BY <1>3, WritingAddsAPlace
  <2>2. writer'.at = at
    BY <1>2
  <2> HIDE DEF at
  <2>3. Cardinality(DOMAIN writer.at) = Len(frame)
    BY <1>3 DEF LaidOut
  <2>4. /\ Len(frame) \in Nat /\ Len(frame') = Len(frame) + 1
        /\ frame'[Len(frame) + 1] = d
        /\ \A k \in 1..Len(frame) : frame'[k] = frame[k]
    BY <1>2, <1>3
  <2>5. \A o \in DOMAIN writer.at : Place(writer.at, o) \in 1..Len(frame)
    BY <1>3, <2>3, PlaceBounds DEF WriterOK
  <2>6. \A o \in DOMAIN at : at[o] = frame'[Place(at, o)]
    BY <1>3, <2>1, <2>3, <2>4, <2>5 DEF LaidOut
  <2>7. Cardinality(DOMAIN at) = Len(frame')
    BY <2>1, <2>3, <2>4
  <2>8. QED BY <2>2, <2>6, <2>7 DEF LaidOut, Place
<1>7. frame' # <<>> /\ frame' \in Seq(Datagrams)
  BY <1>2, <1>3
<1>8. QED BY <1>4, <1>5, <1>6, <1>7 DEF LayoutInv

\* The steps that move no data.
LEMMA MoveSteps ==
  ASSUME NEW from \in States, NEW to \in States, IInv, Moves(from, to),
         to # "asserted",
         to = "fitting" => held # <<>>,
         to \in {"polling", "reading"} => held = <<>>,
         to \in {"closed", "calling", "sleeping"} => frame # <<>>
  PROVE  IInv'
<1>1. pc' = to /\ UNCHANGED <<dataVars, ready, interrupted>>
  BY DEF Moves
<1>2. TypeOK' /\ AssertsHold'
  BY <1>1 DEF IInv, TypeOK, AssertsHold
<1>3. BuffersInv'
  BY <1>1 DEF IInv, BuffersInv
<1>4. LayoutInv'
  BY <1>1 DEF IInv, LayoutInv, LaidOut
<1>5. NothingLostOrDoubled'
  BY <1>1 DEF IInv, NothingLostOrDoubled
<1>6. QED BY <1>2, <1>3, <1>4, <1>5 DEF IInv

-----------------------------------------------------------------------------
(* The invariant holds initially and is kept.                              *)

\* A new writer holds no datagram.
LEMMA NewWriterIsEmpty ==
  /\ WriterOK(NewWriter(FrameMax)) /\ NewWriter(FrameMax).current = HeaderSize
  /\ Cardinality(DOMAIN NewWriter(FrameMax).at) = Len(<<>>)
  /\ DOMAIN NewWriter(FrameMax).at = {}
<1>1. HeaderSize <= FrameMax /\ FrameMax \in Nat
  OBVIOUS
<1>2. DOMAIN NewWriter(FrameMax).at = {} /\ NewWriter(FrameMax).current = HeaderSize
  BY DEF NewWriter
<1>3. Cardinality({}) = 0
  BY FS_EmptySet
<1>4. QED BY <1>1, <1>2, <1>3, WriterStarts

LEMMA IInvInit == Init => IInv
<1> SUFFICES ASSUME Init PROVE IInv
  OBVIOUS
<1>0. writer = NewWriter(FrameMax) /\ HeaderSize <= FrameMax /\ FrameMax \in Nat
  BY DEF Init
<1>1. TypeOK
  <2>1. /\ writer = [end |-> FrameMax, current |-> writer.current, at |-> writer.at]
        /\ writer.current = HeaderSize /\ DOMAIN writer.at = {}
    BY <1>0 DEF NewWriter
  <2>2. <<>> \in Seq(Datagrams)
    BY EmptySeq
  <2>3. /\ queue \in Seq(Datagrams) /\ held \in Seq(Datagrams) /\ arrived \in Seq(Datagrams)
        /\ frame \in Seq(Datagrams) /\ sent \in Seq(Datagrams)
    BY <2>2 DEF Init
  <2>4. ready \in BOOLEAN /\ interrupted \in BOOLEAN /\ pc \in States
    BY DEF Init
  <2>5. writer.current \in HeaderSize..FrameMax
    BY <1>0, <2>1
  <2>6. DOMAIN writer.at \subseteq HeaderSize..FrameMax
    BY <2>1
  <2>7. \A o \in DOMAIN writer.at : writer.at[o] \in Datagrams
    BY <2>1
  <2>8. writer = [end |-> FrameMax, current |-> writer.current, at |-> writer.at]
    BY <2>1
  <2>9. QED BY <2>3, <2>4, <2>5, <2>6, <2>7, <2>8 DEF TypeOK
<1>2. BuffersInv /\ AssertsHold
  BY DEF Init, BuffersInv, AssertsHold, NewWriter
<1>5. LayoutInv
  BY <1>0, NewWriterIsEmpty DEF Init, LayoutInv, LaidOut
<1>3. NothingLostOrDoubled
  <2>1. <<>> \o <<>> = <<>>
    BY ConcatEmptySeq, EmptySeq
  <2>2. QED BY <2>1 DEF Init, NothingLostOrDoubled
<1>4. QED BY <1>1, <1>2, <1>3, <1>5 DEF IInv

LEMMA IInvStep == IInv /\ [Next]_vars => IInv'
<1> SUFFICES ASSUME IInv, [Next]_vars PROVE IInv'
  OBVIOUS
<1>0. /\ sent \in Seq(Datagrams) /\ frame \in Seq(Datagrams)
      /\ held \in Seq(Datagrams) /\ queue \in Seq(Datagrams)
      /\ sent \o frame \in Seq(Datagrams) /\ sent \o frame \o held \in Seq(Datagrams)
  BY ConcatProperties DEF IInv, TypeOK
<1>1. ASSUME NEW d \in Datagrams, Arrive(d) PROVE IInv'
  <2>1. NothingLostOrDoubled'
    <3>1. sent \o frame \o held \o queue = arrived
      BY DEF IInv, NothingLostOrDoubled
    <3>2. sent \o frame \o held \o Append(queue, d) = Append(arrived, d)
      BY <1>0, <3>1, ArrivalIsLast
    <3>3. QED BY <1>1, <3>2 DEF Arrive, NothingLostOrDoubled
  <2>2. TypeOK'
    BY <1>1 DEF Arrive, IInv, TypeOK
  <2>3. QED BY <1>1, <2>1, <2>2 DEF Arrive, IInv, BuffersInv, LayoutInv, LaidOut, AssertsHold
<1>2. CASE ChainTurns \/ Interrupt
  BY <1>2 DEF ChainTurns, Interrupt, IInv, TypeOK, BuffersInv, LayoutInv, LaidOut, AssertsHold,
     NothingLostOrDoubled
<1>3. CASE Look
  BY <1>3, MoveSteps DEF Look, Moves
<1>4. CASE PollReady
  BY <1>4, MoveSteps DEF PollReady, Moves, IInv, BuffersInv
<1>5. CASE PollTimesOut
  <2>1. numDatagramsWritten > 0 => frame # <<>>
    BY EmptySeq
  <2>2. QED BY <1>5, <2>1, MoveSteps DEF PollTimesOut, AfterTimeout, Moves
<1>6. CASE DeviceFails
  BY <1>6, MoveSteps DEF DeviceFails, Moves
<1>7. CASE Read
  <2>1. held = <<>>
    BY <1>7 DEF Read, IInv, BuffersInv
  <2>2. /\ sent \o frame \o <<>> \o queue = sent \o frame \o held' \o queue'
        /\ held' \in Seq(Datagrams) /\ queue' \in Seq(Datagrams)
    BY <1>0, <1>7, HeadMoves DEF Read
  <2>3. NothingLostOrDoubled'
    BY <1>7, <2>1, <2>2 DEF Read, IInv, NothingLostOrDoubled
  <2>4. TypeOK'
    BY <1>7, <2>2 DEF Read, IInv, TypeOK
  <2>5. BuffersInv'
    BY <1>7 DEF Read, IInv, BuffersInv
  <2>6. QED BY <1>7, <2>3, <2>4, <2>5 DEF Read, IInv, LayoutInv, LaidOut, AssertsHold
<1>8. CASE FrameFull
  <2>1. numDatagramsWritten > 0 /\ frame # <<>>
    BY <1>8, EmptyFrameHasRoom, EmptySeq DEF FrameFull, IInv
  <2>2. QED BY <1>8, <2>1, MoveSteps DEF FrameFull, Moves
<1>9. CASE Write
  <2>1. PICK h \in Datagrams : held = <<h>> /\ h = held[1] /\ Size[h] \in 1..Mtu
    BY <1>9, HeldDatagram DEF Write, IInv
  <2>2. /\ LayoutInv' /\ writer'.current \in HeaderSize..FrameMax
        /\ writer' = [end |-> FrameMax, current |-> writer'.current, at |-> writer'.at]
        /\ frame' # <<>> /\ frame' \in Seq(Datagrams)
    BY <1>9, WriteKeepsLayout
  <2>3. /\ frame' = Append(frame, h) /\ held' = <<>> /\ pc' = "looking"
        /\ UNCHANGED <<arrived, queue, sent, ready, interrupted>>
    <3>1. writer.end = FrameMax
      BY DEF IInv, TypeOK
    <3>2. QED BY <1>9, <2>1, <2>2, <3>1 DEF Write, Emptied
  <2>4. NothingLostOrDoubled'
    <3>1. sent \o frame \o <<h>> \o queue = arrived
      BY <2>1 DEF IInv, NothingLostOrDoubled
    <3>2. sent \o frame \o <<h>> \o queue = sent \o Append(frame, h) \o <<>> \o queue
      BY <1>0, HeldMoves
    <3>3. QED BY <2>3, <3>1, <3>2 DEF NothingLostOrDoubled
  <2>5. TypeOK'
    <3>1. /\ DOMAIN writer'.at \subseteq HeaderSize..FrameMax
          /\ \A o \in DOMAIN writer'.at : writer'.at[o] \in Datagrams
      BY <2>2 DEF LayoutInv, WriterOK, Chained
    <3>2. QED BY <2>2, <2>3, <3>1 DEF IInv, TypeOK
  <2>6. QED BY <2>2, <2>3, <2>4, <2>5 DEF IInv, BuffersInv, AssertsHold
<1>10. CASE Call
  BY <1>10, MoveSteps DEF Call, IfNotInterrupted, Moves, IInv, BuffersInv
<1>11. CASE Accept
  <2>1. sent' = sent \o frame /\ sent' \in Seq(Datagrams) /\ frame' = <<>>
    BY <1>0, <1>11 DEF Accept
  <2>2. sent' \o frame' = sent \o frame
    BY <2>1, ConcatEmptySeq
  <2>3. NothingLostOrDoubled'
    BY <1>11, <2>2 DEF Accept, IInv, NothingLostOrDoubled
  <2>4. writer' = NewWriter(FrameMax) /\ UNCHANGED <<arrived, queue, held, ready, interrupted>>
        /\ pc' = "looking"
    BY <1>11 DEF Accept
  <2>5. TypeOK'
    <3>1. /\ writer' = [end |-> FrameMax, current |-> writer'.current, at |-> writer'.at]
          /\ writer'.current = HeaderSize /\ DOMAIN writer'.at = {}
      BY <2>4 DEF NewWriter
    <3>2. HeaderSize \in HeaderSize..FrameMax /\ <<>> \in Seq(Datagrams)
      OBVIOUS
    <3>3. QED BY <2>1, <2>4, <3>1, <3>2 DEF IInv, TypeOK
  <2>6. LayoutInv'
    BY <2>1, <2>4, NewWriterIsEmpty DEF LayoutInv, LaidOut
  <2>7. QED
    BY <2>1, <2>3, <2>4, <2>5, <2>6, NewWriterIsEmpty DEF IInv, BuffersInv, AssertsHold
<1>12. CASE Refuse
  BY <1>12, MoveSteps DEF Refuse, Moves, IInv, BuffersInv
<1>13. CASE SleepOver
  BY <1>13, MoveSteps DEF SleepOver, Moves, IInv, BuffersInv
<1>14. CASE CallFails
  BY <1>14, MoveSteps DEF CallFails, Moves
<1>15. CASE UNCHANGED vars
  BY <1>15 DEF vars, IInv, TypeOK, BuffersInv, LayoutInv, LaidOut, AssertsHold, NothingLostOrDoubled
<1>16. QED
  BY <1>1, <1>2, <1>3, <1>4, <1>5, <1>6, <1>7, <1>8, <1>9, <1>10, <1>11, <1>12, <1>13,
     <1>14, <1>15 DEF Next, Run

-----------------------------------------------------------------------------
(* The theorems.                                                           *)

THEOREM LoopInvariance == Spec => []IInv
  BY IInvInit, IInvStep, PTL DEF Spec

\* The variables of the loop keep their types; the writer stays in its buffer.
THEOREM LoopTypeCorrect == Spec => []TypeOK
  BY LoopInvariance, PTL DEF IInv

\* Datagrams are neither lost nor doubled nor overtaken.
THEOREM DatagramsKeepTheirOrder == Spec => []NothingLostOrDoubled
  BY LoopInvariance, PTL DEF IInv

\* The assertions of the loop and of the writer hold.
THEOREM LoopAssertsHold == Spec => []AssertsHold
  BY LoopInvariance, PTL DEF IInv

\* No frame is passed on empty; every one is such as the streams assume of the
\* frames they are given, and its reader finds the datagrams that were put in.
THEOREM FramesAreFilled == Spec => []FramesFilled
<1>1. IInv => FramesFilled
  <2>1. SUFFICES ASSUME IInv, pc \in {"closed", "calling", "sleeping"}
                 PROVE  /\ frame # <<>> /\ WellFormed(close(writer))
                        /\ LaidOut(close(writer).at)
    BY DEF FramesFilled
  <2>2. WriterOK(writer) /\ LaidOut(writer.at) /\ writer.end = FrameMax
    <3>1. writer = [end |-> FrameMax, current |-> writer.current, at |-> writer.at]
      BY <2>1 DEF IInv, TypeOK
    <3>2. writer.end = FrameMax
      BY <3>1
    <3>3. QED BY <2>1, <3>2 DEF IInv, LayoutInv
  <2>3. WellFormed(close(writer))
    BY <2>2, ClosedIsWellFormed
  <2>4. close(writer).at = writer.at
    BY DEF close
  <2>5. frame # <<>>
    BY <2>1 DEF IInv, BuffersInv
  <2>6. QED BY <2>2, <2>3, <2>4, <2>5
<1>2. QED BY <1>1, LoopInvariance, PTL
=============================================================================
