----------------------- MODULE TunnelFrameStream_proofs -----------------------
(***************************************************************************)
(* Proofs about TunnelFrameStream: for any connections, frames, capacity   *)
(* and faults, the receiver of each direction stays in step with the       *)
(* frames of the sender, and the direction is a channel of whole frames.   *)
(***************************************************************************)
EXTENDS TunnelFrameStream, SequenceTheorems, TLAPS

USE FormatAssumption, ConnsAssumption, CapacityAssumption, BoundsAssumption,
    NoneAssumption

-----------------------------------------------------------------------------
(* Ends, and how a step is taken apart.                                    *)

\* The other end of the other end is this one.
LEMMA PeerOfPeer ==
  ASSUME NEW e \in Ends
  PROVE  Peer(e) \in Ends /\ Peer(Peer(e)) = e /\ Peer(e) # e /\ Peer(e)[1] = e[1]
BY DEF Ends, Peer, Sides

\* Every frame has at least its header.
LEMMA FrameSizes ==
  ASSUME NEW f \in Frames \cup {InitFrame}
  PROVE  f.size \in Nat /\ HeaderSize <= f.size /\ 0 < f.size /\ f.size <= FrameMax
BY FramesAssumption DEF WellFormed

\* A step of the streams is one of these.
Cases(e) ==
  \/ \E n \in 1..Capacity : Write(e, n) \/ Read(e, n)
  \/ BeginInit(e) \/ (\E f \in Frames : BeginSend(e, f))
  \/ SendDone(e) \/ SendLost(e) \/ SendFails(e)
  \/ Receive(e) \/ ReadFails(e)
  \/ Close(e) \/ Handled(e) \/ HandleFails(e)
  \/ Opens(e)

LEMMA StepCases ==
  ASSUME StreamNext
  PROVE  \/ \E e \in Ends : Cases(e)
         \/ \E c \in Conns : Break(c)
         \/ \E s \in Sides : Crash(s)
<1>1. ASSUME NEW c \in Conns, Connect(c) \/ Accept(c)
      PROVE  \E e \in Ends : Opens(e)
  <2>1. <<c, "client">> \in Ends /\ <<c, "server">> \in Ends
    BY DEF Ends, Sides
  <2> QED BY <1>1, <2>1 DEF Connect, Accept
<1> QED
  BY <1>1 DEF StreamNext, StreamStep, Sends, Receives, Cases

-----------------------------------------------------------------------------
(* Types.                                                                  *)

Records == [kind : {"init", "data"}, body : Frames \cup {InitFrame}, end : Nat]

Types ==
  /\ fd \in [Ends -> Int]
  /\ loaded \in [Ends -> Int \cup {None}]
  /\ task \in [Ends -> TaskStates]
  /\ busy \in [Ends -> BOOLEAN]
  /\ begun \in [Ends -> Seq(Records)]
  /\ written \in [Ends -> Nat]
  /\ read \in [Ends -> Nat]
  /\ got \in [Ends -> Nat]
  /\ version \in [Ends -> Versions]
  /\ broken \in [Conns -> BOOLEAN]
  /\ strayed \subseteq Ends \X Ends
  /\ faults \in Nat

\* The last byte of a frame begun is at a natural number.
LEMMA EndAtType ==
  ASSUME Types, NEW e \in Ends, NEW k \in 0..Len(begun[e])
  PROVE  EndAt(e, k) \in Nat
<1>1. begun[e] \in Seq(Records)
  BY DEF Types
<1>2. CASE k = 0
  BY <1>2 DEF EndAt
<1>3. CASE k # 0
  <2>1. k \in 1..Len(begun[e]) /\ begun[e][k] \in Records
    BY <1>1, <1>3
  <2> QED BY <2>1, <1>3 DEF EndAt, Records
<1> QED BY <1>2, <1>3

\* What receive() is about to read, when there is such a frame.
LEMMA IncomingType ==
  ASSUME Types, NEW e \in Ends, got[e] < Len(begun[Peer(e)])
  PROVE  Incoming(e) \in Records /\ totalSize(e) \in Nat /\ 0 < totalSize(e)
         /\ HeaderSize <= totalSize(e) /\ totalSize(e) <= FrameMax
<1>1. begun[Peer(e)] \in Seq(Records) /\ got[e] \in Nat
  BY PeerOfPeer DEF Types
<1>2. Incoming(e) \in Records
  BY <1>1 DEF Incoming
<1> QED BY <1>2, FrameSizes DEF Records, totalSize

LEMMA TypesInit == StreamInit => Types
BY DEF StreamInit, Types, TaskStates, Records

LEMMA TypesStep ==
  ASSUME Types, [StreamNext]_streamVars
  PROVE  Types'
<1> USE DEF Types
<1>1. ASSUME NEW e \in Ends, Cases(e)
      PROVE  Types'
  <2> USE DEF TaskStates, Registered
  <2>1. ASSUME NEW n \in 1..Capacity, Write(e, n)
        PROVE  Types'
    BY <2>1 DEF Write, receiveVars
  <2>2. ASSUME NEW n \in 1..Capacity, Read(e, n)
        PROVE  Types'
    <3>1. task' \in [Ends -> TaskStates]
      BY <2>2 DEF Read, Thrown
    <3>2. read' \in [Ends -> Nat]
      BY <2>2 DEF Read
    <3> QED BY <2>2, <3>1, <3>2 DEF Read, sendVars
  <2>3. ASSUME NEW kind \in {"init", "data"}, NEW f \in Frames \cup {InitFrame},
               Begins(e, kind, f)
        PROVE  Types'
    <3>1. EndAt(e, Len(begun[e])) \in Nat
      <4>1. Len(begun[e]) \in 0..Len(begun[e])
        OBVIOUS
      <4> QED BY <4>1, EndAtType
    <3>2. EndAt(e, Len(begun[e])) + f.size \in Nat
      BY <3>1, FrameSizes
    <3>3. [kind |-> kind, body |-> f, end |-> EndAt(e, Len(begun[e])) + f.size]
            \in Records
      BY <3>2 DEF Records
    <3>4. begun' \in [Ends -> Seq(Records)]
      BY <2>3, <3>3 DEF Begins
    <3>5. busy' \in [Ends -> BOOLEAN]
      BY <2>3 DEF Begins
    <3> QED BY <2>3, <3>4, <3>5 DEF Begins, receiveVars
  <2>4. CASE SendDone(e) \/ SendLost(e)
    BY <2>4 DEF SendDone, SendLost, Returned, AfterInitSent, receiveVars
  <2>5. CASE SendFails(e)
    BY <2>5 DEF SendFails, receiveVars
  <2>6. CASE Receive(e)
    <3>1. task' \in [Ends -> TaskStates]
      BY <2>6 DEF Receive, AfterInitReceived
    <3>2. got' = got \/ got' = [got EXCEPT ![e] = @ + 1]
      BY <2>6 DEF Receive
    <3>3. got' \in [Ends -> Nat]
      <4>1. got \in [Ends -> Nat]
        OBVIOUS
      <4> QED BY ONLY <3>2, <4>1
    <3> QED BY <2>6, <3>1, <3>3 DEF Receive, sendVars
  <2>7. CASE ReadFails(e) \/ Handled(e) \/ HandleFails(e)
    BY <2>7 DEF ReadFails, Handled, HandleFails, Thrown, sendVars, receiveVars
  <2>8. CASE Close(e)
    BY <2>8 DEF Close, sendVars, receiveVars
  <2>9. CASE Opens(e)
    BY <2>9 DEF Opens, FirstTask, sendVars, receiveVars
  <2> QED
    BY <1>1, <2>1, <2>2, <2>3, <2>4, <2>5, <2>6, <2>7, <2>8, <2>9
    DEF Cases, BeginInit, BeginSend
<1>2. ASSUME NEW c \in Conns, Break(c)
      PROVE  Types'
  BY <1>2 DEF Break, Fault, sendVars, receiveVars
<1>3. ASSUME NEW s \in Sides, Crash(s)
      PROVE  Types'
  <2>1. ASSUME NEW e \in Ends
        PROVE  /\ fd'[e] \in Int /\ loaded'[e] \in Int \cup {None}
               /\ task'[e] \in TaskStates /\ busy'[e] \in BOOLEAN
    <3>1. fd'[e] = -1 \/ fd'[e] = fd[e]
      BY <1>3 DEF Crash
    <3>2. loaded'[e] = None \/ loaded'[e] = loaded[e]
      BY <1>3 DEF Crash
    <3>3. task'[e] = "done" \/ task'[e] = task[e]
      BY <1>3 DEF Crash
    <3>4. busy'[e] = FALSE \/ busy'[e] = busy[e]
      BY <1>3 DEF Crash
    <3>5. fd[e] \in Int /\ loaded[e] \in Int \cup {None}
          /\ task[e] \in TaskStates /\ busy[e] \in BOOLEAN
      OBVIOUS
    <3>6. "done" \in TaskStates
      BY DEF TaskStates
    <3>7. fd'[e] \in Int /\ loaded'[e] \in Int \cup {None}
      BY <3>1, <3>2, <3>5
    <3>8. task'[e] \in TaskStates
      BY <3>3, <3>5, <3>6
    <3>9. busy'[e] \in BOOLEAN
      BY <3>4, <3>5
    <3> QED BY <3>7, <3>8, <3>9
  <2>2. /\ fd' = [e \in Ends |-> fd'[e]] /\ loaded' = [e \in Ends |-> loaded'[e]]
        /\ task' = [e \in Ends |-> task'[e]] /\ busy' = [e \in Ends |-> busy'[e]]
    BY <1>3 DEF Crash
  <2>3. faults' \in Nat
    BY <1>3 DEF Crash, Fault
  <2> QED BY <1>3, <2>1, <2>2, <2>3 DEF Crash, receiveVars
<1>4. CASE UNCHANGED streamVars
  BY <1>4 DEF streamVars, sendVars, receiveVars
<1> QED BY <1>1, <1>2, <1>3, <1>4, StepCases

-----------------------------------------------------------------------------
(* A connection that no longer carries what an end writes never does again. *)

LEMMA DownForGood ==
  ASSUME Types, [StreamNext]_streamVars, NEW e \in Ends,
         task[e] # "absent", ~ Carries(e)
  PROVE  (task[e] # "absent" /\ ~ Carries(e))'
<1> USE DEF Types, Carries, Gone
<1>0. Peer(e) \in Ends /\ e[1] \in Conns
  BY PeerOfPeer DEF Ends
<1>1. ASSUME NEW x \in Ends, Cases(x)
      PROVE  (task[e] # "absent" /\ ~ Carries(e))'
  <2>1. ASSUME NEW n \in 1..Capacity, Write(x, n)
        PROVE  (task[e] # "absent" /\ ~ Carries(e))'
    BY <1>0, <2>1 DEF Write
  <2>2. ASSUME NEW n \in 1..Capacity, Read(x, n)
        PROVE  (task[e] # "absent" /\ ~ Carries(e))'
    BY <1>0, <2>2 DEF Read, Thrown, Receiving
  <2>3. ASSUME NEW kind, NEW f, Begins(x, kind, f)
        PROVE  (task[e] # "absent" /\ ~ Carries(e))'
    BY <1>0, <2>3 DEF Begins
  <2>4. CASE SendDone(x) \/ SendLost(x) \/ SendFails(x)
    BY <1>0, <2>4 DEF SendDone, SendLost, SendFails, Returned, AfterInitSent
  <2>5. CASE Receive(x)
    BY <1>0, <2>5 DEF Receive, AfterInitReceived, Receiving
  <2>6. CASE ReadFails(x) \/ Handled(x) \/ HandleFails(x)
    BY <1>0, <2>6 DEF ReadFails, Handled, HandleFails, Thrown, Receiving
  <2>7. CASE Close(x)
    BY <1>0, <2>7 DEF Close, ClosedNow
  <2>8. CASE Opens(x)
    BY <1>0, <2>8 DEF Opens, FirstTask
  <2> QED
    BY <1>1, <2>1, <2>2, <2>3, <2>4, <2>5, <2>6, <2>7, <2>8
    DEF Cases, BeginInit, BeginSend
<1>2. ASSUME NEW c \in Conns, Break(c)
      PROVE  (task[e] # "absent" /\ ~ Carries(e))'
  BY <1>0, <1>2 DEF Break
<1>3. ASSUME NEW s \in Sides, Crash(s)
      PROVE  (task[e] # "absent" /\ ~ Carries(e))'
  BY <1>0, <1>3 DEF Crash
<1>4. CASE UNCHANGED streamVars
  BY <1>4 DEF streamVars
<1> QED BY <1>1, <1>2, <1>3, <1>4, StepCases
-----------------------------------------------------------------------------
(* Positions.                                                              *)

\* Of the frames begun, each ends where its size says, and only the last may be
\* unfinished, while a thread is in send() or the connection is down.
WriterInStep(e) ==
  /\ \A k \in 1..Len(begun[e]) :
       begun[e][k].end = EndAt(e, k - 1) + begun[e][k].body.size
  /\ written[e] <= EndAt(e, Len(begun[e]))
  /\ Unfinished(e) => busy[e] \/ (task[e] # "absent" /\ ~ Carries(e))
  /\ task[e] = "absent" => fd[e] = -1 /\ ~ Unfinished(e) /\ ~ busy[e]

\* What was read ends in the frame that follows those received.
ReaderInStep(e) ==
  /\ got[e] <= Len(begun[Peer(e)])
  /\ EndAt(Peer(e), got[e]) <= read[e]
  /\ read[e] <= written[Peer(e)]
  /\ written[Peer(e)] <= read[e] + Capacity
  /\ numRead(e) > 0 => got[e] < Len(begun[Peer(e)]) /\ numRead(e) <= totalSize(e)
  /\ task[e] # "asserted"

Positions == \A e \in Ends : WriterInStep(e) /\ ReaderInStep(e)

PositionsKept ==
  UNCHANGED <<begun, written, read, got>>

\* Steps that move no byte, and begin no frame.
LEMMA KeptPositions ==
  ASSUME Types, Positions, [StreamNext]_streamVars, PositionsKept,
         \A e \in Ends : /\ busy[e] /\ ~ busy'[e] => task[e] # "absent" /\
                                                     (~ Carries(e) \/ ~ Unfinished(e) \/ fd'[e] = -1)
                         /\ busy'[e] /\ ~ busy[e] => task'[e] # "absent"
                         /\ task'[e] = "absent" => task[e] = "absent"
                         /\ task'[e] = "absent" => fd'[e] = fd[e] /\ ~ busy'[e]
                         /\ task'[e] # "asserted"
  PROVE  Positions'
PROOF
<1> SUFFICES ASSUME NEW e \in Ends
             PROVE  (WriterInStep(e) /\ ReaderInStep(e))'
  BY DEF Positions
<1>0. WriterInStep(e) /\ ReaderInStep(e) /\ Peer(e) \in Ends
  BY PeerOfPeer DEF Positions
<1>1. /\ \A k : EndAt(e, k)' = EndAt(e, k) /\ EndAt(Peer(e), k)' = EndAt(Peer(e), k)
      /\ Unfinished(e)' = Unfinished(e)
      /\ numRead(e)' = numRead(e)
      /\ totalSize(e)' = totalSize(e)
  BY DEF PositionsKept, EndAt, Unfinished, numRead, totalSize, Incoming
<1>2. ReaderInStep(e)'
  BY <1>0, <1>1 DEF PositionsKept, ReaderInStep
<1>3. Unfinished(e)' => busy'[e] \/ (task[e] # "absent" /\ ~ Carries(e))'
  <2>1. CASE busy[e] /\ ~ busy'[e] /\ fd'[e] = -1
    BY <2>1 DEF Carries
  <2>2. CASE ~ (busy[e] /\ ~ busy'[e] /\ fd'[e] = -1)
    BY <1>0, <1>1, <2>2, DownForGood DEF WriterInStep
  <2> QED BY <2>1, <2>2
<1>4. task'[e] = "absent" => fd'[e] = -1 /\ ~ Unfinished(e)' /\ ~ busy'[e]
  <2>1. CASE task'[e] = "absent"
    <3>1. task[e] = "absent" /\ fd'[e] = fd[e]
      BY <2>1
    <3>2. fd[e] = -1 /\ ~ Unfinished(e)
      BY <3>1, <1>0 DEF WriterInStep
    <3> QED BY <3>1, <3>2, <1>1
  <2> QED BY <2>1
<1> QED BY <1>0, <1>1, <1>2, <1>3, <1>4 DEF WriterInStep, PositionsKept

\* Where a position lies does not change when a frame is begun behind it.
LEMMA AppendKeepsEnds ==
  ASSUME Types, NEW x \in Ends, NEW r \in Records,
         begun' = [begun EXCEPT ![x] = Append(@, r)]
  PROVE  /\ begun'[x] = Append(begun[x], r)
         /\ Len(begun[x]) \in Nat /\ Len(begun'[x]) = Len(begun[x]) + 1
         /\ begun'[x][Len(begun[x]) + 1] = r
         /\ \A k \in 1..Len(begun[x]) : begun'[x][k] = begun[x][k]
         /\ \A k \in 0..Len(begun[x]) : EndAt(x, k)' = EndAt(x, k)
         /\ EndAt(x, Len(begun[x]))' = r.end
         /\ \A e \in Ends : e # x => begun'[e] = begun[e]
<1>1. begun[x] \in Seq(Records) /\ begun'[x] = Append(begun[x], r)
  BY DEF Types
<1>2. /\ Len(begun[x]) \in Nat /\ Len(begun'[x]) = Len(begun[x]) + 1
      /\ begun'[x][Len(begun[x]) + 1] = r
      /\ \A k \in 1..Len(begun[x]) : begun'[x][k] = begun[x][k]
  BY <1>1
<1>3. ASSUME NEW k \in 0..Len(begun[x])
      PROVE  EndAt(x, k)' = EndAt(x, k)
  <2>1. CASE k = 0
    BY <2>1 DEF EndAt
  <2>2. CASE k # 0
    <3>1. begun'[x][k] = begun[x][k]
      BY <1>2, <2>2
    <3> QED BY <2>2, <3>1 DEF EndAt
  <2> QED BY <2>1, <2>2
<1>4. EndAt(x, Len(begun[x]))' = r.end
  BY <1>2 DEF EndAt
<1>5. \A e \in Ends : e # x => begun'[e] = begun[e]
  BY DEF Types
<1> QED BY <1>1, <1>2, <1>3, <1>4, <1>5

\* send() begins: everything before was written, and the frame comes after it.
LEMMA BeginsPositions ==
  ASSUME Types, Positions, [StreamNext]_streamVars,
         NEW x \in Ends, NEW kind \in {"init", "data"},
         NEW f \in Frames \cup {InitFrame}, Begins(x, kind, f), task[x] # "absent"
  PROVE  Positions' /\ ~ Unfinished(x) /\ Unfinished(x)'
PROOF
<1> DEFINE n == Len(begun[x])
           r == [kind |-> kind, body |-> f, end |-> EndAt(x, n) + f.size]
<1>0. WriterInStep(x) /\ ~ Unfinished(x)
  BY DEF Positions, WriterInStep, Begins
<1>1. f.size \in Nat /\ 0 < f.size
  BY FrameSizes
<1>2. n \in Nat /\ EndAt(x, n) \in Nat
  <2>1. begun[x] \in Seq(Records)
    BY DEF Types
  <2>2. n \in Nat /\ n \in 0..n
    BY <2>1
  <2> QED BY <2>2, EndAtType
<1>3. r \in Records /\ r.end = EndAt(x, n) + f.size /\ r.body = f
  BY <1>1, <1>2 DEF Records
<1>4. begun' = [begun EXCEPT ![x] = Append(@, r)]
  BY DEF Begins
<1>5. /\ Len(begun'[x]) = n + 1
      /\ begun'[x][n + 1] = r
      /\ \A k \in 1..n : begun'[x][k] = begun[x][k]
      /\ \A k \in 0..n : EndAt(x, k)' = EndAt(x, k)
      /\ EndAt(x, Len(begun[x]))' = r.end
      /\ \A e \in Ends : e # x => begun'[e] = begun[e]
  BY <1>3, <1>4, AppendKeepsEnds
<1>6. /\ UNCHANGED <<fd, task, written, read, got, broken>>
      /\ busy' = [busy EXCEPT ![x] = TRUE]
  BY DEF Begins, receiveVars
<1>7. written[x] \in Nat /\ written[x] = EndAt(x, n)
  <2>1. written[x] \in Nat
    BY DEF Types
  <2> QED BY <1>0, <1>2, <2>1 DEF WriterInStep, Unfinished
<1>8. Unfinished(x)' /\ written'[x] <= EndAt(x, Len(begun[x]))'
  <2>1. EndAt(x, Len(begun[x]))' = EndAt(x, n) + f.size
    BY <1>2, <1>3, <1>5 DEF EndAt
  <2>2. written'[x] < EndAt(x, Len(begun[x]))'
    BY <1>1, <1>2, <1>6, <1>7, <2>1
  <2> QED BY <1>1, <1>2, <1>6, <1>7, <2>1, <2>2 DEF Unfinished
<1>9. ASSUME NEW e \in Ends
      PROVE  WriterInStep(e)'
  <2>1. WriterInStep(e)
    BY DEF Positions
  <2>2. CASE e = x
    <3>1. ASSUME NEW k \in 1..(n + 1)
          PROVE  begun'[x][k].end = EndAt(x, k - 1)' + begun'[x][k].body.size
      <4>1. CASE k = n + 1
        BY <1>2, <1>3, <1>5, <4>1
      <4>2. CASE k # n + 1
        <5>1. k \in 1..n /\ k - 1 \in 0..n
          BY <1>2, <4>2
        <5> QED BY <5>1, <1>5, <1>0 DEF WriterInStep
      <4> QED BY <4>1, <4>2
    <3>2. busy'[x] = TRUE
      BY <1>6 DEF Types
    <3>3. \A k \in 1..Len(begun'[x]) :
            begun'[x][k].end = EndAt(x, k - 1)' + begun'[x][k].body.size
      BY <3>1, <1>5
    <3>4. task'[x] # "absent"
      BY <1>6
    <3> QED BY <2>2, <3>2, <3>3, <3>4, <1>8 DEF WriterInStep
  <2>3. CASE e # x
    <3>1. /\ begun'[e] = begun[e] /\ busy'[e] = busy[e]
          /\ \A k : EndAt(e, k)' = EndAt(e, k)
          /\ Unfinished(e)' = Unfinished(e) /\ Carries(e)' = Carries(e)
      BY <1>5, <1>6, <2>3 DEF EndAt, Unfinished, Carries, Gone, Types
    <3> QED BY <2>1, <3>1, <1>6 DEF WriterInStep
  <2> QED BY <2>2, <2>3
<1>10. ASSUME NEW e \in Ends
       PROVE  ReaderInStep(e)'
  <2>1. ReaderInStep(e) /\ Peer(e) \in Ends
    BY PeerOfPeer DEF Positions
  <2>2. got[e] \in Nat
    BY DEF Types
  <2>3. CASE Peer(e) = x
    <3>1. got[e] \in 0..n
      BY <2>1, <2>2, <2>3, <1>2 DEF ReaderInStep
    <3>2. EndAt(Peer(e), got[e])' = EndAt(Peer(e), got[e]) /\ numRead(e)' = numRead(e)
      BY <1>5, <1>6, <2>3, <3>1 DEF numRead
    <3>3. got[e] < n => got[e] + 1 \in 1..n /\ totalSize(e)' = totalSize(e)
      BY <1>2, <1>5, <1>6, <2>2, <2>3 DEF totalSize, Incoming
    <3> QED BY <2>1, <2>2, <2>3, <3>1, <3>2, <3>3, <1>2, <1>5, <1>6 DEF ReaderInStep
  <2>4. CASE Peer(e) # x
    <3>1. /\ begun'[Peer(e)] = begun[Peer(e)]
          /\ EndAt(Peer(e), got[e])' = EndAt(Peer(e), got[e])
          /\ numRead(e)' = numRead(e) /\ totalSize(e)' = totalSize(e)
      BY <1>5, <1>6, <2>1, <2>4 DEF EndAt, numRead, totalSize, Incoming
    <3> QED BY <2>1, <3>1, <1>6 DEF ReaderInStep
  <2> QED BY <2>3, <2>4
<1> QED BY <1>0, <1>8, <1>9, <1>10 DEF Positions

\* A write() moves only the end of what was written, within the frame.
LEMMA WritePositions ==
  ASSUME Types, Positions, NEW x \in Ends, NEW n \in 1..Capacity, Write(x, n)
  PROVE  Positions'
PROOF
<1>0. WriterInStep(x) /\ written[x] \in Nat /\ n \in Nat
      /\ read[Peer(x)] \in Nat /\ Peer(x) \in Ends /\ Peer(Peer(x)) = x
  BY PeerOfPeer DEF Positions, Types
<1>1. EndAt(x, Len(begun[x])) \in Nat
  <2>1. begun[x] \in Seq(Records)
    BY DEF Types
  <2>2. Len(begun[x]) \in 0..Len(begun[x])
    BY <2>1
  <2> QED BY <2>2, EndAtType
<1>2. /\ UNCHANGED <<fd, task, busy, begun, read, got, broken>>
      /\ written' = [written EXCEPT ![x] = @ + n]
      /\ busy[x] /\ n <= EndAt(x, Len(begun[x])) - written[x]
      /\ n <= Capacity - (written[x] - read[Peer(x)])
  BY DEF Write, receiveVars, InTransit
<1>3. written'[x] = written[x] + n /\ \A e \in Ends : e # x => written'[e] = written[e]
  BY <1>2 DEF Types
<1>4. ASSUME NEW e \in Ends
      PROVE  (WriterInStep(e) /\ ReaderInStep(e))'
  <2>1. WriterInStep(e) /\ ReaderInStep(e) /\ Peer(e) \in Ends /\ Peer(Peer(e)) = e
    BY PeerOfPeer DEF Positions
  <2>2. /\ \A k : EndAt(e, k)' = EndAt(e, k) /\ EndAt(Peer(e), k)' = EndAt(Peer(e), k)
        /\ Carries(e)' = Carries(e)
        /\ numRead(e)' = numRead(e) /\ totalSize(e)' = totalSize(e)
    BY <1>2 DEF EndAt, Carries, Gone, numRead, totalSize, Incoming
  <2>3. WriterInStep(e)'
    <3>1. CASE e = x
      <4>1. written'[e] <= EndAt(e, Len(begun[e]))
        BY <1>0, <1>1, <1>2, <1>3, <3>1
      <4>2. busy'[e] /\ task'[e] # "absent"
        BY <1>2, <2>1, <3>1 DEF WriterInStep
      <4> QED BY <1>2, <2>1, <2>2, <4>1, <4>2 DEF WriterInStep
    <3>2. CASE e # x
      <4>1. written'[e] = written[e] /\ Unfinished(e)' = Unfinished(e)
        BY <1>2, <1>3, <2>2, <3>2 DEF Unfinished
      <4> QED BY <1>2, <2>1, <2>2, <4>1 DEF WriterInStep
    <3> QED BY <3>1, <3>2
  <2>4. ReaderInStep(e)'
    <3>1. CASE Peer(e) = x
      <4>1. e = Peer(x)
        BY <2>1, <3>1
      <4>2. read[e] <= written'[Peer(e)] /\ written'[Peer(e)] <= read[e] + Capacity
        BY <1>0, <1>2, <1>3, <2>1, <3>1, <4>1 DEF ReaderInStep
      <4> QED BY <1>2, <2>1, <2>2, <4>2 DEF ReaderInStep
    <3>2. CASE Peer(e) # x
      <4>1. written'[Peer(e)] = written[Peer(e)]
        BY <1>3, <2>1, <3>2
      <4> QED BY <1>2, <2>1, <2>2, <4>1 DEF ReaderInStep
    <3> QED BY <3>1, <3>2
  <2> QED BY <2>3, <2>4
<1> QED BY <1>4 DEF Positions

\* While bytes are there to be read, there is a frame they belong to.
LEMMA BytesAreOfAFrame ==
  ASSUME Types, Positions, NEW x \in Ends, read[x] < written[Peer(x)]
  PROVE  got[x] < Len(begun[Peer(x)])
<1>1. /\ WriterInStep(Peer(x)) /\ ReaderInStep(x)
      /\ begun[Peer(x)] \in Seq(Records) /\ got[x] \in Nat
      /\ read[x] \in Nat /\ written[Peer(x)] \in Nat
  BY PeerOfPeer DEF Positions, Types
<1>2. Len(begun[Peer(x)]) \in Nat
  BY <1>1
<1>3. EndAt(Peer(x), got[x]) \in Nat /\ EndAt(Peer(x), Len(begun[Peer(x)])) \in Nat
  <2>1. got[x] \in 0..Len(begun[Peer(x)]) /\ Len(begun[Peer(x)]) \in 0..Len(begun[Peer(x)])
    BY <1>1, <1>2 DEF ReaderInStep
  <2> QED BY <2>1, EndAtType, PeerOfPeer
<1>4. CASE got[x] = Len(begun[Peer(x)])
  BY <1>1, <1>3, <1>4 DEF WriterInStep, ReaderInStep
<1> QED BY <1>1, <1>2, <1>4 DEF ReaderInStep

\* A read() does not go beyond the frame that is received.
LEMMA ReadPositions ==
  ASSUME Types, Positions, NEW x \in Ends, NEW n \in 1..Capacity, Read(x, n)
  PROVE  Positions' /\ numRead(x) + n <= totalSize(x)
PROOF
<1>0. /\ WriterInStep(x) /\ ReaderInStep(x)
      /\ read[x] \in Nat /\ n \in Nat /\ 0 < n /\ written[Peer(x)] \in Nat
      /\ Peer(x) \in Ends /\ Peer(Peer(x)) = x
      /\ begun[Peer(x)] \in Seq(Records) /\ got[x] \in Nat
  BY PeerOfPeer DEF Positions, Types
<1>1. /\ UNCHANGED <<fd, busy, begun, written, got, broken>>
      /\ read' = [read EXCEPT ![x] = @ + n]
      /\ n <= written[Peer(x)] - read[x]
      /\ n <= Wanted(x)
      /\ task[x] \in Receiving
      /\ task' = task \/ task' = [task EXCEPT ![x] = Thrown(x)]
  BY <1>0 DEF Read, sendVars, InTransit
<1>2. got[x] < Len(begun[Peer(x)])
  BY <1>0, <1>1, BytesAreOfAFrame
<1>3. EndAt(Peer(x), got[x]) \in Nat
  <2>1. got[x] \in 0..Len(begun[Peer(x)])
    BY <1>0, <1>2
  <2> QED BY <1>0, <2>1, EndAtType
<1>4. numRead(x) \in Nat
  BY <1>0, <1>3 DEF numRead, ReaderInStep
<1>5. numRead(x) + n <= totalSize(x)
  <2>1. HeaderInfoSize <= totalSize(x) /\ totalSize(x) \in Nat
    BY <1>2, IncomingType
  <2> QED BY <1>0, <1>1, <1>4, <2>1 DEF Wanted
<1>6. read'[x] = read[x] + n /\ \A e \in Ends : e # x => read'[e] = read[e]
  BY <1>1 DEF Types
<1>7. ASSUME NEW e \in Ends
      PROVE  /\ task[e] = "absent" <=> task'[e] = "absent"
             /\ task[e] # "asserted" => task'[e] # "asserted"
             /\ Gone(e)' = Gone(e)
  <2>1. task'[e] = task[e] \/ (e = x /\ task'[e] = Thrown(x))
    BY <1>1 DEF Types
  <2> QED BY <1>1, <2>1 DEF Receiving, Thrown, Gone
<1>8. ASSUME NEW e \in Ends
      PROVE  (WriterInStep(e) /\ ReaderInStep(e))'
  <2>1. WriterInStep(e) /\ ReaderInStep(e) /\ Peer(e) \in Ends
    BY PeerOfPeer DEF Positions
  <2>2. /\ \A k : EndAt(e, k)' = EndAt(e, k) /\ EndAt(Peer(e), k)' = EndAt(Peer(e), k)
        /\ Carries(e)' = Carries(e)
        /\ Unfinished(e)' = Unfinished(e)
        /\ totalSize(e)' = totalSize(e)
    BY <1>1, <1>7, <2>1 DEF EndAt, Carries, Unfinished, totalSize, Incoming
  <2>3. WriterInStep(e)'
    BY <1>1, <1>7, <2>1, <2>2 DEF WriterInStep
  <2>4. ReaderInStep(e)'
    <3>1. CASE e = x
      <4>1. numRead(e)' = numRead(e) + n
        BY <1>0, <1>1, <1>3, <1>6, <2>2, <3>1 DEF numRead
      <4>2. /\ read'[e] = read[e] + n
            /\ EndAt(Peer(e), got[e])' <= read'[e]
            /\ read'[e] <= written'[Peer(e)]
            /\ written'[Peer(e)] <= read'[e] + Capacity
        BY <1>0, <1>1, <1>3, <1>6, <2>1, <2>2, <3>1 DEF ReaderInStep
      <4> QED
        BY <1>1, <1>2, <1>5, <1>7, <2>1, <2>2, <3>1, <4>1, <4>2 DEF ReaderInStep
    <3>2. CASE e # x
      <4>1. read'[e] = read[e] /\ numRead(e)' = numRead(e)
        BY <1>1, <1>6, <2>2, <3>2 DEF numRead
      <4> QED BY <1>1, <1>7, <2>1, <2>2, <4>1 DEF ReaderInStep
    <3> QED BY <3>1, <3>2
  <2> QED BY <2>3, <2>4
<1> QED BY <1>5, <1>8 DEF Positions

\* When receive() returns, the frame was read to its end and no further: the
\* assertion after the loops holds, and the next frame begins there.
LEMMA ReceivePositions ==
  ASSUME Types, Positions, NEW x \in Ends, Receive(x)
  PROVE  /\ Positions'
         /\ got[x] < Len(begun[Peer(x)])
         /\ got' = [got EXCEPT ![x] = @ + 1]
         /\ read[x] = EndAt(Peer(x), got[x] + 1)
         /\ task' = [task EXCEPT ![x] = IF @ = "receiving" THEN "handling"
                       ELSE IF HasNext(Incoming(x).body, 0) THEN AfterInitReceived(x)
                       ELSE "dropping"]
PROOF
<1>0. /\ WriterInStep(Peer(x)) /\ ReaderInStep(x)
      /\ read[x] \in Nat /\ got[x] \in Nat /\ written[Peer(x)] \in Nat
      /\ Peer(x) \in Ends /\ Peer(Peer(x)) = x
      /\ begun[Peer(x)] \in Seq(Records)
      /\ numRead(x) >= HeaderInfoSize /\ numRead(x) >= totalSize(x)
      /\ task[x] \in Receiving
  BY PeerOfPeer DEF Positions, Types, Receive
<1>1. EndAt(Peer(x), got[x]) \in Nat
  <2>1. got[x] \in 0..Len(begun[Peer(x)])
    BY <1>0 DEF ReaderInStep
  <2> QED BY <1>0, <2>1, EndAtType
<1>2. numRead(x) \in Nat /\ numRead(x) > 0
  BY <1>0, <1>1 DEF numRead, ReaderInStep
<1>3. got[x] < Len(begun[Peer(x)]) /\ numRead(x) <= totalSize(x)
  BY <1>0, <1>2 DEF ReaderInStep
<1>4. totalSize(x) \in Nat
  BY <1>3, IncomingType
<1>5. numRead(x) = totalSize(x)
  BY <1>0, <1>2, <1>3, <1>4
<1>6. /\ got' = [got EXCEPT ![x] = @ + 1]
      /\ task' = [task EXCEPT ![x] = IF @ = "receiving" THEN "handling"
                    ELSE IF HasNext(Incoming(x).body, 0) THEN AfterInitReceived(x)
                    ELSE "dropping"]
      /\ UNCHANGED <<fd, busy, begun, written, read, broken>>
  BY <1>5 DEF Receive, sendVars
<1>7. got[x] + 1 \in 1..Len(begun[Peer(x)])
  BY <1>0, <1>3
<1>8. read[x] = EndAt(Peer(x), got[x] + 1)
  <2>1. EndAt(Peer(x), got[x] + 1) = EndAt(Peer(x), got[x]) + totalSize(x)
    <3>1. begun[Peer(x)][got[x] + 1].end
            = EndAt(Peer(x), (got[x] + 1) - 1) + begun[Peer(x)][got[x] + 1].body.size
      BY <1>0, <1>7 DEF WriterInStep
    <3>2. (got[x] + 1) - 1 = got[x] /\ got[x] + 1 # 0
      BY <1>0
    <3> QED BY <3>1, <3>2 DEF EndAt, totalSize, Incoming
  <2> QED BY <1>0, <1>1, <1>4, <1>5, <2>1 DEF numRead
<1>9. got'[x] = got[x] + 1 /\ \A e \in Ends : e # x => got'[e] = got[e]
  BY <1>6 DEF Types
<1>10. ASSUME NEW e \in Ends
       PROVE  /\ task[e] = "absent" <=> task'[e] = "absent"
              /\ task[e] # "asserted" => task'[e] # "asserted"
              /\ Gone(e)' = Gone(e)
  <2>1. \/ task'[e] = task[e]
        \/ e = x /\ task'[e] \in {"handling", "receiving", "sendInit", "dropping"}
    BY <1>6 DEF Types, AfterInitReceived
  <2> QED BY <1>0, <2>1 DEF Receiving, Gone
<1>11. ASSUME NEW e \in Ends
       PROVE  (WriterInStep(e) /\ ReaderInStep(e))'
  <2>1. WriterInStep(e) /\ ReaderInStep(e) /\ Peer(e) \in Ends
    BY PeerOfPeer DEF Positions
  <2>2. /\ \A k : EndAt(e, k)' = EndAt(e, k) /\ EndAt(Peer(e), k)' = EndAt(Peer(e), k)
        /\ Carries(e)' = Carries(e)
        /\ Unfinished(e)' = Unfinished(e)
    BY <1>6, <1>10, <2>1 DEF EndAt, Carries, Unfinished
  <2>3. WriterInStep(e)'
    BY <1>6, <1>10, <2>1, <2>2 DEF WriterInStep
  <2>4. ReaderInStep(e)'
    <3>1. CASE e = x
      <4>1. EndAt(Peer(e), got[e])' = read'[e]
        BY <1>6, <1>8, <1>9, <3>1 DEF EndAt
      <4>2. numRead(e)' = 0
        BY <1>0, <1>6, <3>1, <4>1 DEF numRead
      <4>3. read'[e] <= written'[Peer(e)] /\ written'[Peer(e)] <= read'[e] + Capacity
        BY <1>6, <2>1 DEF ReaderInStep
      <4>4. EndAt(Peer(e), got[e])' <= read'[e]
        BY <1>0, <1>6, <3>1, <4>1
      <4> QED
        BY <1>6, <1>7, <1>9, <1>10, <2>1, <3>1, <4>2, <4>3, <4>4 DEF ReaderInStep
    <3>2. CASE e # x
      <4>1. got'[e] = got[e]
        BY <1>9, <3>2
      <4>2. numRead(e)' = numRead(e) /\ totalSize(e)' = totalSize(e)
            /\ EndAt(Peer(e), got[e])' = EndAt(Peer(e), got[e])
        BY <1>6, <4>1 DEF EndAt, numRead, totalSize, Incoming
      <4> QED BY <1>6, <1>10, <2>1, <4>1, <4>2 DEF ReaderInStep
    <3> QED BY <3>1, <3>2
  <2> QED BY <2>3, <2>4
<1> QED BY <1>3, <1>6, <1>8, <1>11 DEF Positions

LEMMA PositionsInit == StreamInit => Positions
<1> SUFFICES ASSUME StreamInit, NEW e \in Ends
             PROVE  WriterInStep(e) /\ ReaderInStep(e)
  BY DEF Positions
<1>1. /\ fd[e] = -1 /\ task[e] = "absent" /\ busy[e] = FALSE
      /\ begun[e] = <<>> /\ begun[Peer(e)] = <<>> /\ got[e] = 0 /\ read[e] = 0
      /\ written[e] = 0 /\ written[Peer(e)] = 0
  BY PeerOfPeer DEF StreamInit
<1> QED
  BY <1>1 DEF WriterInStep, ReaderInStep, Unfinished, EndAt, numRead

LEMMA PositionsStep ==
  ASSUME Types, Positions, [StreamNext]_streamVars
  PROVE  Positions'
PROOF
<1>0. ASSUME NEW e \in Ends
      PROVE  /\ WriterInStep(e) /\ ReaderInStep(e)
             /\ task[e] # "asserted" /\ (task[e] = "absent" => ~ busy[e] /\ fd[e] = -1)
             /\ e[1] \in Conns /\ busy[e] \in BOOLEAN
  BY DEF Positions, WriterInStep, ReaderInStep, Ends, Types
<1>1. ASSUME NEW x \in Ends, Cases(x)
      PROVE  Positions'
  <2>1. ASSUME NEW n \in 1..Capacity, Write(x, n)
        PROVE  Positions'
    BY <2>1, WritePositions
  <2>2. ASSUME NEW n \in 1..Capacity, Read(x, n)
        PROVE  Positions'
    BY <2>2, ReadPositions
  <2>3. CASE BeginInit(x)
    BY <2>3, BeginsPositions DEF BeginInit
  <2>4. ASSUME NEW f \in Frames, BeginSend(x, f)
        PROVE  Positions'
    BY <2>4, BeginsPositions DEF BeginSend, Registered
  <2>5. CASE Receive(x)
    BY <2>5, ReceivePositions
  <2>6. CASE SendDone(x) \/ SendLost(x) \/ SendFails(x)
    <3>1. UNCHANGED <<fd, begun, written, read, got>>
          /\ busy' = [busy EXCEPT ![x] = FALSE]
          /\ (~ Carries(x) \/ ~ Unfinished(x))
          /\ \E t \in {task[x], "recvInit", "receiving", "dropping"} :
               /\ task' = [task EXCEPT ![x] = t]
               /\ task[x] # "sendInit" => t = task[x]
      BY <2>6 DEF SendDone, SendLost, SendFails, Returned, receiveVars, AfterInitSent
    <3>2. ASSUME NEW e \in Ends
          PROVE  /\ busy[e] /\ ~ busy'[e] => task[e] # "absent" /\
                                               (~ Carries(e) \/ ~ Unfinished(e) \/ fd'[e] = -1)
                 /\ busy'[e] /\ ~ busy[e] => task'[e] # "absent"
                 /\ task'[e] = "absent" => task[e] = "absent"
                 /\ task'[e] = "absent" => fd'[e] = fd[e] /\ ~ busy'[e]
                 /\ task'[e] # "asserted"
      BY <1>0, <3>1 DEF Types
    <3> QED BY <3>1, <3>2, KeptPositions DEF PositionsKept
  <2>7. CASE ReadFails(x) \/ Handled(x) \/ HandleFails(x) \/ Close(x) \/ Opens(x)
    <3>1. /\ PositionsKept /\ UNCHANGED busy
          /\ \E t \in {"sendInit", "recvInit", "receiving", "dropping", "closing", "done"} :
               task' = [task EXCEPT ![x] = t]
          /\ fd' = fd \/ \E n : fd' = [fd EXCEPT ![x] = n]
      BY <2>7 DEF ReadFails, Handled, HandleFails, Close, Opens, Thrown, FirstTask,
                  sendVars, receiveVars, PositionsKept
    <3>2. ASSUME NEW e \in Ends
          PROVE  /\ busy[e] /\ ~ busy'[e] => task[e] # "absent" /\
                                               (~ Carries(e) \/ ~ Unfinished(e) \/ fd'[e] = -1)
                 /\ busy'[e] /\ ~ busy[e] => task'[e] # "absent"
                 /\ task'[e] = "absent" => task[e] = "absent"
                 /\ task'[e] = "absent" => fd'[e] = fd[e] /\ ~ busy'[e]
                 /\ task'[e] # "asserted"
      BY <1>0, <3>1 DEF Types
    <3> QED BY <3>1, <3>2, KeptPositions
  <2> QED BY <1>1, <2>1, <2>2, <2>3, <2>4, <2>5, <2>6, <2>7 DEF Cases
<1>2. ASSUME NEW c \in Conns, Break(c)
      PROVE  Positions'
  <2>1. PositionsKept /\ UNCHANGED <<fd, busy, task>>
    BY <1>2 DEF Break, sendVars, receiveVars, PositionsKept
  <2> QED BY <1>0, <2>1, KeptPositions
<1>3. ASSUME NEW s \in Sides, Crash(s)
      PROVE  Positions'
  <2>1. PositionsKept
    BY <1>3 DEF Crash, receiveVars, PositionsKept
  <2>2. ASSUME NEW e \in Ends
        PROVE  /\ busy[e] /\ ~ busy'[e] => task[e] # "absent" /\
                                             (~ Carries(e) \/ ~ Unfinished(e) \/ fd'[e] = -1)
               /\ busy'[e] /\ ~ busy[e] => task'[e] # "absent"
               /\ task'[e] = "absent" => task[e] = "absent"
               /\ task'[e] = "absent" => fd'[e] = fd[e] /\ ~ busy'[e]
               /\ task'[e] # "asserted"
    <3>1. \/ /\ fd'[e] = -1 /\ task'[e] = "done" /\ busy'[e] = FALSE
          \/ /\ fd'[e] = fd[e] /\ task'[e] = task[e] /\ busy'[e] = busy[e]
      BY <1>3 DEF Crash
    <3> QED BY <1>0, <3>1
  <2> QED BY <2>1, <2>2, KeptPositions
<1>4. CASE UNCHANGED streamVars
  <2>1. PositionsKept /\ UNCHANGED <<fd, busy, task>>
    BY <1>4 DEF streamVars, sendVars, receiveVars, PositionsKept
  <2> QED BY <1>0, <2>1, KeptPositions
<1> QED BY <1>1, <1>2, <1>3, <1>4, StepCases

-----------------------------------------------------------------------------
(* The theorems about types and positions.                                 *)

LEMMA PositionsOfStreams ==
  ASSUME Types, Positions, NEW e \in Ends
  PROVE  /\ InTransit(e) \in 0..Capacity
         /\ numRead(e) \in 0..FrameMax
         /\ numRead(e) > 0 => got[e] < Len(begun[Peer(e)]) /\ numRead(e) <= totalSize(e)
<1>1. /\ Peer(e) \in Ends /\ Peer(Peer(e)) = e
      /\ ReaderInStep(e) /\ ReaderInStep(Peer(e))
      /\ read[e] \in Nat /\ read[Peer(e)] \in Nat /\ written[e] \in Nat
      /\ begun[Peer(e)] \in Seq(Records) /\ got[e] \in Nat
  BY PeerOfPeer DEF Positions, Types
<1>2. InTransit(e) \in 0..Capacity
  BY <1>1 DEF ReaderInStep, InTransit
<1>3. EndAt(Peer(e), got[e]) \in Nat
  <2>1. got[e] \in 0..Len(begun[Peer(e)])
    BY <1>1 DEF ReaderInStep
  <2> QED BY <1>1, <2>1, EndAtType
<1>4. numRead(e) \in Nat
  BY <1>1, <1>3 DEF ReaderInStep, numRead
<1>5. CASE numRead(e) > 0
  <2>1. got[e] < Len(begun[Peer(e)]) /\ numRead(e) <= totalSize(e)
    BY <1>1, <1>5 DEF ReaderInStep
  <2>2. totalSize(e) \in Nat /\ totalSize(e) <= FrameMax
    BY <2>1, IncomingType
  <2> QED BY <1>2, <1>4, <2>1, <2>2
<1>6. CASE numRead(e) = 0
  BY <1>2, <1>6
<1> QED BY <1>4, <1>5, <1>6

LEMMA TypesAndPositions == StreamSpec => [](Types /\ Positions)
<1>1. StreamInit => Types /\ Positions
  BY TypesInit, PositionsInit
<1>2. Types /\ Positions /\ [StreamNext]_streamVars => Types' /\ Positions'
  BY TypesStep, PositionsStep
<1> QED BY <1>1, <1>2, PTL DEF StreamSpec

\* The type invariant of the streams, with the bound of what is on its way.
THEOREM StreamsAreTyped == StreamSpec => []StreamTypeOK
<1>1. ASSUME Types, Positions
      PROVE  StreamTypeOK
  <2>1. \A e \in Ends : InTransit(e) \in 0..Capacity
    BY <1>1, PositionsOfStreams
  <2> QED BY <1>1, <2>1 DEF Types, Records, StreamTypeOK
<1> QED BY <1>1, TypesAndPositions, PTL

\* The receiver never loses the bounds of the frames.
THEOREM ReceiverInStep == StreamSpec => []InStep
<1>1. ASSUME Types, Positions
      PROVE  InStep
  <2>1. ASSUME NEW e \in Ends
        PROVE  task[e] # "asserted" /\ got[e] <= Len(begun[Peer(e)])
    BY <1>1 DEF Positions, ReaderInStep
  <2> QED BY <1>1, <2>1, PositionsOfStreams DEF InStep
<1> QED BY <1>1, TypesAndPositions, PTL

-----------------------------------------------------------------------------
(* The exchange of initial frames.                                         *)

\* Where an end is in the exchange tells what it has begun and received.
Exchange(e) ==
  /\ \A i \in 1..Len(begun[e]) : begun[e][i].kind = "init" <=> i = 1
  /\ Len(begun[e]) > 1 => got[e] > 0
  /\ task[e] = "absent" \/ (e[2] = "server" /\ task[e] = "recvInit") =>
       Len(begun[e]) = 0 /\ ~ busy[e]
  /\ task[e] = "sendInit" =>
       Len(begun[e]) = IF busy[e] THEN 1 ELSE 0
  /\ e[2] = "server" /\ (task[e] = "sendInit" \/ Len(begun[e]) > 0) => got[e] > 0
  /\ e[2] = "client" /\ task[e] = "recvInit" /\ Carries(e) => Len(begun[e]) > 0
  /\ task[e] \in Registered =>
       got[e] > 0 /\ (Carries(e) => Len(begun[e]) > 0)

ExchangeInv == \A e \in Ends : Exchange(e)

\* An end whose thread and senders do nothing.
LEMMA ExchangeKept ==
  ASSUME Types, [StreamNext]_streamVars, NEW e \in Ends, Exchange(e),
         begun'[e] = begun[e], got'[e] = got[e], busy'[e] = busy[e],
         task'[e] = task[e]
  PROVE  Exchange(e)'
<1>1. task[e] # "absent" /\ Carries(e)' => Carries(e)
  BY DownForGood
<1> QED BY <1>1 DEF Exchange, Registered

LEMMA ExchangeInit == StreamInit => ExchangeInv
<1> SUFFICES ASSUME StreamInit, NEW e \in Ends
             PROVE  Exchange(e)
  BY DEF ExchangeInv
<1>1. task[e] = "absent" /\ busy[e] = FALSE /\ begun[e] = <<>>
  BY DEF StreamInit
<1> QED BY <1>1 DEF Exchange, Registered

LEMMA BeginsExchange ==
  ASSUME Types, Positions, NEW x \in Ends, Exchange(x),
         BeginInit(x) \/ \E f \in Frames : BeginSend(x, f)
  PROVE  Exchange(x)'
<1>1. /\ UNCHANGED <<fd, task, got, broken>>
      /\ busy' = [busy EXCEPT ![x] = TRUE]
      /\ Carries(x) /\ ~ busy[x]
      /\ Carries(x)' = Carries(x)
  <2>1. /\ UNCHANGED <<fd, task, got, broken>>
        /\ busy' = [busy EXCEPT ![x] = TRUE]
        /\ Carries(x) /\ ~ busy[x]
    BY DEF BeginInit, BeginSend, Begins, receiveVars
  <2>2. Carries(x)' = Carries(x)
    BY <2>1 DEF Carries, Gone
  <2> QED BY <2>1, <2>2
<1>2. PICK kind \in {"init", "data"}, f \in Frames \cup {InitFrame} :
        /\ begun' = [begun EXCEPT ![x] =
             Append(@, [kind |-> kind, body |-> f,
                        end |-> EndAt(x, Len(begun[x])) + f.size])]
        /\ \/ task[x] = "sendInit" /\ kind = "init"
           \/ task[x] \in Registered /\ kind = "data"
  BY DEF BeginInit, BeginSend, Begins
<1> DEFINE r == [kind |-> kind, body |-> f, end |-> EndAt(x, Len(begun[x])) + f.size]
<1>3. r \in Records
  <2>1. begun[x] \in Seq(Records)
    BY DEF Types
  <2>2. Len(begun[x]) \in 0..Len(begun[x])
    BY <2>1
  <2>3. EndAt(x, Len(begun[x])) \in Nat /\ f.size \in Nat
    BY <2>2, EndAtType, FrameSizes
  <2> QED BY <2>3 DEF Records
<1>4. /\ Len(begun[x]) \in Nat /\ Len(begun'[x]) = Len(begun[x]) + 1
      /\ begun'[x][Len(begun[x]) + 1] = r
      /\ \A k \in 1..Len(begun[x]) : begun'[x][k] = begun[x][k]
  BY <1>2, <1>3, AppendKeepsEnds
<1>5. busy'[x] = TRUE
  BY <1>1 DEF Types
<1>6. CASE task[x] = "sendInit" /\ kind = "init"
  <2>1. Len(begun[x]) = 0
    BY <1>1, <1>6 DEF Exchange
  <2>2. Len(begun'[x]) = 1 /\ begun'[x][1].kind = "init"
    BY <1>4, <1>6, <2>1
  <2> QED BY <1>1, <1>5, <1>6, <2>1, <2>2 DEF Exchange, Registered
<1>7. CASE task[x] \in Registered /\ kind = "data"
  <2>1. Len(begun[x]) > 0 /\ got[x] > 0
    BY <1>1, <1>7 DEF Exchange
  <2>2. \A i \in 1..Len(begun'[x]) : begun'[x][i].kind = "init" <=> i = 1
    <3>1. ASSUME NEW i \in 1..Len(begun'[x])
          PROVE  begun'[x][i].kind = "init" <=> i = 1
      <4>1. CASE i \in 1..Len(begun[x])
        BY <1>4, <4>1 DEF Exchange
      <4>2. CASE i = Len(begun[x]) + 1
        BY <1>4, <1>7, <2>1, <4>2
      <4> QED BY <1>4, <4>1, <4>2
    <3> QED BY <3>1
  <2>3. Len(begun'[x]) > 0
    BY <1>4
  <2> QED BY <1>1, <1>7, <2>1, <2>2, <2>3 DEF Exchange, Registered
<1> QED BY <1>2, <1>6, <1>7

LEMMA ExchangeStep ==
  ASSUME Types, Positions, ExchangeInv, [StreamNext]_streamVars
  PROVE  ExchangeInv'
<1>0. ASSUME NEW e \in Ends
      PROVE  /\ Exchange(e) /\ e[2] \in Sides
             /\ Len(begun[e]) \in Nat /\ got[e] \in Nat /\ busy[e] \in BOOLEAN
             /\ task[e] # "absent" /\ Carries(e)' => Carries(e)
  <2>1. begun[e] \in Seq(Records)
    BY DEF Types
  <2>2. Len(begun[e]) \in Nat
    BY <2>1
  <2>3. got[e] \in Nat /\ busy[e] \in BOOLEAN
    BY DEF Types
  <2>4. task[e] # "absent" /\ Carries(e)' => Carries(e)
    BY DownForGood
  <2> QED BY <2>2, <2>3, <2>4 DEF ExchangeInv, Ends
<1>1. ASSUME NEW x \in Ends, Cases(x)
      PROVE  ExchangeInv'
  <2>1. ASSUME NEW e \in Ends, e # x
        PROVE  Exchange(e)'
    <3>1. begun'[e] = begun[e]
      BY <1>1, <2>1 DEF Cases, Write, Read, BeginInit, BeginSend, Begins, SendDone,
            SendLost, SendFails, Returned, Receive, ReadFails, Handled, HandleFails,
            Close, Opens, sendVars, receiveVars, Types
    <3>2. got'[e] = got[e]
      BY <1>1, <2>1 DEF Cases, Write, Read, BeginInit, BeginSend, Begins, SendDone,
            SendLost, SendFails, Returned, Receive, ReadFails, Handled, HandleFails,
            Close, Opens, sendVars, receiveVars, Types
    <3>3. busy'[e] = busy[e]
      BY <1>1, <2>1 DEF Cases, Write, Read, BeginInit, BeginSend, Begins, SendDone,
            SendLost, SendFails, Returned, Receive, ReadFails, Handled, HandleFails,
            Close, Opens, sendVars, receiveVars, Types
    <3>4. task'[e] = task[e]
      BY <1>1, <2>1 DEF Cases, Write, Read, BeginInit, BeginSend, Begins, SendDone,
            SendLost, SendFails, Returned, Receive, ReadFails, Handled, HandleFails,
            Close, Opens, sendVars, receiveVars, Types
    <3> QED BY <1>0, <3>1, <3>2, <3>3, <3>4, ExchangeKept
  <2>2. Exchange(x)'
    <3>1. ASSUME NEW n \in 1..Capacity, Write(x, n)
          PROVE  Exchange(x)'
      BY <1>0, <3>1, ExchangeKept DEF Write, receiveVars
    <3>2. ASSUME NEW n \in 1..Capacity, Read(x, n)
          PROVE  Exchange(x)'
      <4>1. UNCHANGED <<begun, busy, got>>
            /\ (task' = task \/ task' = [task EXCEPT ![x] = Thrown(x)])
            /\ task[x] \in Receiving
        BY <3>2 DEF Read, sendVars
      <4>2. task'[x] = task[x] \/ task'[x] = Thrown(x)
        BY <4>1 DEF Types
      <4>3. task[x] # "recvInit" /\ Carries(x)' => Carries(x)
        BY <1>0, <4>1 DEF Receiving
      <4> QED BY <1>0, <4>1, <4>2, <4>3 DEF Exchange, Thrown, Receiving, Registered
    <3>3. CASE BeginInit(x) \/ \E f \in Frames : BeginSend(x, f)
      BY <1>0, <3>3, BeginsExchange
    <3>4. CASE SendDone(x) \/ SendLost(x)
      <4>1. /\ UNCHANGED <<begun, got>>
            /\ task' = [task EXCEPT ![x] =
                          IF @ = "sendInit" THEN AfterInitSent(x) ELSE @]
            /\ busy' = [busy EXCEPT ![x] = FALSE]
            /\ busy[x] \/ (task[x] = "sendInit" /\ ~ Carries(x))
        BY <3>4 DEF SendDone, SendLost, Sending, Returned, receiveVars
      <4>2. task'[x] = IF task[x] = "sendInit" THEN AfterInitSent(x) ELSE task[x]
        BY <4>1 DEF Types
      <4>3. busy'[x] = FALSE
        BY <4>1 DEF Types
      <4> QED BY <1>0, <4>1, <4>2, <4>3 DEF Exchange, AfterInitSent, Registered, Sides
    <3>5. CASE SendFails(x)
      <4>1. /\ UNCHANGED <<begun, got>>
            /\ task' = [task EXCEPT ![x] = IF @ = "sendInit" THEN "dropping" ELSE @]
            /\ busy' = [busy EXCEPT ![x] = FALSE]
        BY <3>5 DEF SendFails, receiveVars
      <4>2. task'[x] = IF task[x] = "sendInit" THEN "dropping" ELSE task[x]
        BY <4>1 DEF Types
      <4>3. busy'[x] = FALSE
        BY <4>1 DEF Types
      <4> QED BY <1>0, <4>1, <4>2, <4>3 DEF Exchange, Registered
    <3>6. CASE Receive(x)
      <4>1. /\ UNCHANGED <<begun, busy>> /\ task[x] \in Receiving
            /\ got' = [got EXCEPT ![x] = @ + 1]
            /\ task' = [task EXCEPT ![x] = IF @ = "receiving" THEN "handling"
                          ELSE IF HasNext(Incoming(x).body, 0) THEN AfterInitReceived(x)
                          ELSE "dropping"]
        BY <3>6, ReceivePositions DEF Receive, sendVars
      <4>2. /\ got'[x] = got[x] + 1
            /\ \/ task[x] = "receiving" /\ task'[x] = "handling"
               \/ task[x] = "recvInit" /\ task'[x] = AfterInitReceived(x)
               \/ task[x] = "recvInit" /\ task'[x] = "dropping"
        BY <4>1 DEF Types, Receiving
      <4>3. got'[x] > 0
        BY <1>0, <4>2
      <4> QED
        BY <1>0, <4>1, <4>2, <4>3 DEF Exchange, AfterInitReceived, Registered, Sides
    <3>7. CASE ReadFails(x) \/ Handled(x) \/ HandleFails(x)
      <4>1. /\ UNCHANGED <<begun, busy, got>>
            /\ \E t \in {"receiving", Thrown(x)} : task' = [task EXCEPT ![x] = t]
            /\ task[x] \in {"receiving", "recvInit", "handling"}
            /\ task[x] = "handling" \/ task' = [task EXCEPT ![x] = Thrown(x)]
        BY <3>7 DEF ReadFails, Handled, HandleFails, sendVars, receiveVars, Receiving
      <4>2. \/ task'[x] = Thrown(x)
            \/ task[x] = "handling" /\ task'[x] = "receiving"
        BY <4>1 DEF Types
      <4> QED BY <1>0, <4>1, <4>2 DEF Exchange, Thrown, Registered
    <3>8. CASE Close(x)
      <4>1. UNCHANGED <<begun, busy, got>> /\ task'[x] = "done"
        BY <3>8 DEF Close, sendVars, receiveVars, Types
      <4> QED BY <1>0, <4>1 DEF Exchange, Registered
    <3>9. CASE Opens(x)
      <4>1. UNCHANGED <<begun, busy, got>> /\ task'[x] = FirstTask(x)
            /\ task[x] = "absent"
        BY <3>9 DEF Opens, sendVars, receiveVars, Types
      <4> QED BY <1>0, <4>1 DEF Exchange, FirstTask, Registered, Sides
    <3> QED BY <1>1, <3>1, <3>2, <3>3, <3>4, <3>5, <3>6, <3>7, <3>8, <3>9 DEF Cases
  <2> QED BY <2>1, <2>2 DEF ExchangeInv
<1>2. ASSUME NEW c \in Conns, Break(c)
      PROVE  ExchangeInv'
  BY <1>0, <1>2, ExchangeKept DEF Break, sendVars, receiveVars, ExchangeInv
<1>3. ASSUME NEW s \in Sides, Crash(s)
      PROVE  ExchangeInv'
  <2>1. ASSUME NEW e \in Ends
        PROVE  Exchange(e)'
    <3>1. UNCHANGED <<begun, got>>
      BY <1>3 DEF Crash, receiveVars
    <3>2. \/ task'[e] = "done" /\ busy'[e] = FALSE
          \/ task'[e] = task[e] /\ busy'[e] = busy[e]
      BY <1>3 DEF Crash
    <3>3. CASE task'[e] = "done" /\ busy'[e] = FALSE
      BY <1>0, <3>1, <3>3 DEF Exchange, Registered
    <3>4. CASE task'[e] = task[e] /\ busy'[e] = busy[e]
      BY <1>0, <3>1, <3>4, ExchangeKept
    <3> QED BY <3>2, <3>3, <3>4
  <2> QED BY <2>1 DEF ExchangeInv
<1>4. CASE UNCHANGED streamVars
  BY <1>0, <1>4, ExchangeKept DEF streamVars, sendVars, receiveVars, ExchangeInv
<1> QED BY <1>1, <1>2, <1>3, <1>4, StepCases

\* Between builds of different versions nothing is received, and the header
\* that would tell is read to its end only to be refused.
Apart(e) ==
  version[e] # version[Peer(e)] =>
    /\ got[e] = 0
    /\ task[e] \in {"absent", "sendInit", "recvInit"} => read[e] < HeaderInfoSize

ApartInv == \A e \in Ends : Apart(e)

LEMMA ApartInit == StreamInit => ApartInv
BY DEF StreamInit, ApartInv, Apart

LEMMA ApartStep ==
  ASSUME Types, Positions, ExchangeInv, ApartInv, [StreamNext]_streamVars
  PROVE  ApartInv'
<1>0. ASSUME NEW e \in Ends
      PROVE  /\ Apart(e) /\ Exchange(e) /\ Peer(e) \in Ends
             /\ got[e] \in Nat /\ read[e] \in Nat
             /\ got[e] = 0 => numRead(e) = read[e]
  <2>1. got[e] \in Nat /\ read[e] \in Nat
    BY DEF Types
  <2> QED BY <2>1, PeerOfPeer DEF ApartInv, ExchangeInv, numRead, EndAt
<1> DEFINE Early(t) == t \in {"absent", "sendInit", "recvInit"}
           Kept(e) == /\ version' = version /\ got'[e] = got[e]
                      /\ read'[e] = read[e]
                      /\ Early(task'[e]) => Early(task[e])
<1>1. ASSUME NEW e \in Ends, Kept(e)
      PROVE  Apart(e)'
  BY <1>0, <1>1 DEF Apart, Peer
<1>2. ASSUME NEW x \in Ends, Cases(x)
      PROVE  ApartInv'
  <2>1. ASSUME NEW n \in 1..Capacity, Read(x, n)
        PROVE  ApartInv'
    <3>1. /\ UNCHANGED <<version, got>> /\ task[x] \in Receiving
          /\ read' = [read EXCEPT ![x] = @ + n]
          /\ n <= Wanted(x)
          /\ IF numRead(x) + n = HeaderInfoSize /\ ~ CheckPasses(x)
               THEN task' = [task EXCEPT ![x] = Thrown(x)]
               ELSE task' = task
      BY <2>1 DEF Read, sendVars
    <3>2. ASSUME NEW e \in Ends, e # x
          PROVE  Kept(e)
      BY <3>1, <3>2 DEF Types
    <3>3. Apart(x)'
      <4>1. CASE version[x] = version[Peer(x)]
        BY <3>1, <4>1 DEF Apart, Peer
      <4>2. CASE version[x] # version[Peer(x)]
        <5>1. got[x] = 0 /\ task[x] = "recvInit" /\ read[x] < HeaderInfoSize
          BY <1>0, <3>1, <4>2 DEF Apart, Exchange, Receiving, Registered
        <5>2. numRead(x) = read[x] /\ n <= HeaderInfoSize - read[x]
          BY <1>0, <3>1, <5>1 DEF Wanted
        <5>3. ~ CheckPasses(x)
          BY <4>2 DEF CheckPasses
        <5>4. read'[x] = read[x] + n
          BY <3>1 DEF Types
        <5>5. CASE read[x] + n = HeaderInfoSize
          <6>1. task'[x] = "dropping"
            BY <3>1, <5>1, <5>2, <5>3, <5>5 DEF Types, Thrown
          <6> QED BY <3>1, <5>1, <6>1 DEF Apart
        <5>6. CASE read[x] + n # HeaderInfoSize
          <6>1. read'[x] < HeaderInfoSize
            BY <1>0, <5>2, <5>4, <5>6
          <6> QED BY <3>1, <5>1, <6>1 DEF Apart
        <5> QED BY <5>5, <5>6
      <4> QED BY <4>1, <4>2
    <3> QED BY <1>1, <3>2, <3>3 DEF ApartInv
  <2>2. CASE Receive(x)
    <3>1. /\ UNCHANGED <<version, read>>
          /\ task[x] \in Receiving /\ numRead(x) >= HeaderInfoSize
          /\ got' = [got EXCEPT ![x] = @ + 1]
          /\ \E t : task' = [task EXCEPT ![x] = t]
      BY <2>2, ReceivePositions DEF Receive
    <3>2. ASSUME NEW e \in Ends, e # x
          PROVE  Kept(e)
      BY <3>1, <3>2 DEF Types
    <3>3. version[x] = version[Peer(x)]
      <4>1. CASE version[x] # version[Peer(x)]
        <5>1. got[x] = 0 /\ task[x] = "recvInit" /\ read[x] < HeaderInfoSize
          BY <1>0, <3>1, <4>1 DEF Apart, Exchange, Receiving, Registered
        <5> QED BY <1>0, <3>1, <5>1
      <4> QED BY <4>1
    <3>4. Apart(x)'
      BY <3>1, <3>3 DEF Apart, Peer
    <3> QED BY <1>1, <3>2, <3>4 DEF ApartInv
  <2>3. CASE \/ \E n \in 1..Capacity : Write(x, n)
             \/ BeginInit(x) \/ \E f \in Frames : BeginSend(x, f)
    <3>1. UNCHANGED <<version, got, read, task>>
      BY <2>3 DEF Write, BeginInit, BeginSend, Begins, receiveVars
    <3> QED BY <1>1, <3>1 DEF ApartInv
  <2>4. CASE SendDone(x) \/ SendLost(x) \/ SendFails(x)
    <3>1. UNCHANGED <<version, got, read>>
          /\ \E t : /\ task' = [task EXCEPT ![x] = t]
                    /\ Early(t) => Early(task[x])
      BY <2>4 DEF SendDone, SendLost, SendFails, Returned, receiveVars, AfterInitSent
    <3>2. \A e \in Ends : Kept(e)
      BY <3>1 DEF Types
    <3> QED BY <1>1, <3>2 DEF ApartInv
  <2>5. CASE ReadFails(x) \/ Handled(x) \/ HandleFails(x) \/ Close(x) \/ Opens(x)
    <3>1. UNCHANGED <<version, got, read>>
          /\ \E t : /\ task' = [task EXCEPT ![x] = t]
                    /\ Early(t) => Early(task[x])
      <4>1. UNCHANGED <<version, got, read>>
        BY <2>5 DEF ReadFails, Handled, HandleFails, Close, Opens, receiveVars
      <4>2. ~ Early(Thrown(x))
        BY DEF Thrown
      <4>3. CASE ReadFails(x) \/ HandleFails(x)
        BY <4>1, <4>2, <4>3 DEF ReadFails, HandleFails
      <4>4. CASE Handled(x) \/ Close(x)
        <5>1. task' = [task EXCEPT ![x] = "receiving"]
              \/ task' = [task EXCEPT ![x] = "done"]
          BY <4>4 DEF Handled, Close
        <5>2. ~ Early("receiving") /\ ~ Early("done")
          OBVIOUS
        <5> HIDE DEF Early
        <5> QED BY <4>1, <5>1, <5>2
      <4>5. CASE Opens(x)
        BY <4>1, <4>5 DEF Opens
      <4> QED BY <2>5, <4>3, <4>4, <4>5
    <3>2. \A e \in Ends : Kept(e)
      BY <3>1 DEF Types
    <3> QED BY <1>1, <3>2 DEF ApartInv
  <2> QED BY <1>2, <2>1, <2>2, <2>3, <2>4, <2>5 DEF Cases
<1>3. ASSUME NEW c \in Conns, Break(c)
      PROVE  ApartInv'
  BY <1>1, <1>3 DEF Break, receiveVars, ApartInv
<1>4. ASSUME NEW s \in Sides, Crash(s)
      PROVE  ApartInv'
  <2>1. ASSUME NEW e \in Ends
        PROVE  Kept(e)
    <3>1. UNCHANGED <<version, got, read>>
      BY <1>4 DEF Crash, receiveVars
    <3>2. task'[e] = "done" \/ task'[e] = task[e]
      BY <1>4 DEF Crash
    <3> QED BY <3>1, <3>2
  <2> QED BY <1>1, <2>1 DEF ApartInv
<1>5. CASE UNCHANGED streamVars
  BY <1>1, <1>5 DEF streamVars, receiveVars, ApartInv
<1> QED BY <1>2, <1>3, <1>4, <1>5, StepCases

StreamInv == Types /\ Positions /\ ExchangeInv /\ ApartInv

LEMMA StreamInvariant == StreamSpec => []StreamInv
<1>1. StreamInit => StreamInv
  BY TypesInit, PositionsInit, ExchangeInit, ApartInit DEF StreamInv
<1>2. StreamInv /\ [StreamNext]_streamVars => StreamInv'
  BY TypesStep, PositionsStep, ExchangeStep, ApartStep DEF StreamInv
<1> QED BY <1>1, <1>2, PTL DEF StreamSpec

LEMMA ExchangeFirstFollows == StreamInv => ExchangeFirst
<1> SUFFICES ASSUME StreamInv, NEW e \in Ends
             PROVE  /\ \A i \in DOMAIN begun[e] : begun[e][i].kind = "init" <=> i = 1
                    /\ Len(begun[e]) > 1 => got[e] > 0
  BY DEF ExchangeFirst
<1>1. Exchange(e)
  BY DEF StreamInv, ExchangeInv
<1>2. DOMAIN begun[e] = 1..Len(begun[e])
  <2>1. begun[e] \in Seq(Records)
    BY DEF StreamInv, Types
  <2> QED BY <2>1
<1> QED BY <1>1, <1>2 DEF Exchange

\* No frame of the tunnel goes out before the initial frames have been
\* exchanged, and the initial frame is the first of its direction only.
THEOREM ExchangeComesFirst == StreamSpec => []ExchangeFirst
BY StreamInvariant, ExchangeFirstFollows, PTL

-----------------------------------------------------------------------------
(* The two ends do not wait for each other.                                *)

Up(e) == ~ broken[e[1]] /\ ~ Gone(Peer(e))

\* Past its turn to send the initial frame.
HasSent(e) == task[e] \in Registered \/ (e[2] = "client" /\ task[e] = "recvInit")

\* An end past its turn has written its initial frame to the end, unless it
\* reaches no one.
InitSent(e) == HasSent(e) /\ Up(e) => Len(begun[e]) > 0 /\ EndAt(e, 1) <= written[e]

InitsSent == \A e \in Ends : InitSent(e)

\* An end that writes nothing and does not pass its turn.
LEMMA InitSentKept ==
  ASSUME NEW e \in Ends, InitSent(e),
         begun'[e] = begun[e], written'[e] = written[e],
         HasSent(e)' => HasSent(e), Up(e)' => Up(e)
  PROVE  InitSent(e)'
<1>1. EndAt(e, 1)' = EndAt(e, 1)
  BY DEF EndAt
<1> QED BY <1>1 DEF InitSent

LEMMA InitSentStep ==
  ASSUME Types, Positions, ExchangeInv, InitsSent, [StreamNext]_streamVars
  PROVE  InitsSent'
<1>0. ASSUME NEW e \in Ends
      PROVE  InitSent(e) /\ Exchange(e) /\ Peer(e) \in Ends /\ e[1] \in Conns
             /\ begun[e] \in Seq(Records) /\ Len(begun[e]) \in Nat /\ e[2] \in Sides
  <2>1. begun[e] \in Seq(Records)
    BY DEF Types
  <2>2. Len(begun[e]) \in Nat
    BY <2>1
  <2> QED BY <2>1, <2>2, PeerOfPeer DEF InitsSent, ExchangeInv, Ends
<1>1. ASSUME NEW x \in Ends, Cases(x)
      PROVE  InitsSent'
  <2>1. ASSUME NEW e \in Ends
        PROVE  Up(e)' => Up(e)
    <3>1. broken' = broken
      BY <1>1 DEF Cases, Write, Read, BeginInit, BeginSend, Begins, SendDone,
            SendLost, SendFails, Returned, Receive, ReadFails, Handled, HandleFails,
            Close, Opens
    <3>2. Gone(Peer(e)) => Gone(Peer(e))'
      BY <1>0, <1>1 DEF Gone, Types, Cases, Write, Read, BeginInit, BeginSend, Begins, SendDone,
            SendLost, SendFails, Returned, Receive, ReadFails, Handled, HandleFails,
            Close, Opens, Receiving, Thrown, ClosedNow
    <3> QED BY <3>1, <3>2 DEF Up
  <2>2. ASSUME NEW e \in Ends, e # x
        PROVE  InitSent(e)'
    <3>1. begun'[e] = begun[e]
      BY <1>1, <2>2 DEF Cases, Write, Read, BeginInit, BeginSend, Begins, SendDone,
            SendLost, SendFails, Returned, Receive, ReadFails, Handled, HandleFails,
            Close, Opens, sendVars, receiveVars, Types
    <3>2. written'[e] = written[e]
      BY <1>1, <2>2 DEF Cases, Write, Read, BeginInit, BeginSend, Begins, SendDone,
            SendLost, SendFails, Returned, Receive, ReadFails, Handled, HandleFails,
            Close, Opens, sendVars, receiveVars, Types
    <3>3. task'[e] = task[e]
      BY <1>1, <2>2 DEF Cases, Write, Read, BeginInit, BeginSend, Begins, SendDone,
            SendLost, SendFails, Returned, Receive, ReadFails, Handled, HandleFails,
            Close, Opens, sendVars, receiveVars, Types
    <3> QED BY <1>0, <2>1, <3>1, <3>2, <3>3, InitSentKept DEF HasSent
  <2>3. InitSent(x)'
    <3>1. ASSUME NEW n \in 1..Capacity, Write(x, n)
          PROVE  InitSent(x)'
      <4>1. UNCHANGED <<begun, task>> /\ written'[x] = written[x] + n /\ written[x] \in Nat
        BY <3>1 DEF Write, Types
      <4>2. EndAt(x, 1)' = EndAt(x, 1)
        BY <4>1 DEF EndAt
      <4>3. CASE HasSent(x) /\ Up(x)
        <5>1. 1 \in 0..Len(begun[x]) /\ EndAt(x, 1) <= written[x]
          BY <1>0, <4>3 DEF InitSent
        <5>2. EndAt(x, 1) \in Nat
          BY <5>1, EndAtType
        <5>3. EndAt(x, 1) <= written[x] + n
          BY <4>1, <5>1, <5>2
        <5> QED BY <1>0, <4>1, <4>2, <4>3, <5>3 DEF InitSent
      <4>4. CASE ~ (HasSent(x) /\ Up(x))
        BY <2>1, <4>1, <4>4 DEF InitSent, HasSent
      <4> QED BY <4>3, <4>4
    <3>2. CASE BeginInit(x)
      <4>1. task'[x] = "sendInit"
        BY <3>2 DEF BeginInit, Begins
      <4> QED BY <4>1 DEF InitSent, HasSent, Registered
    <3>3. ASSUME NEW f \in Frames, BeginSend(x, f)
          PROVE  InitSent(x)'
      <4>1. /\ UNCHANGED <<task, written, broken>> /\ Up(x) /\ HasSent(x)
        BY <3>3 DEF BeginSend, Begins, Carries, Up, HasSent
      <4>2. Len(begun[x]) > 0 /\ EndAt(x, 1) <= written[x]
        BY <1>0, <4>1 DEF InitSent
      <4> DEFINE r == [kind |-> "data", body |-> f, end |-> EndAt(x, Len(begun[x])) + f.size]
      <4>3. begun'[x] = Append(begun[x], r)
        BY <3>3 DEF BeginSend, Begins, Types
      <4> HIDE DEF r
      <4>4. Len(begun'[x]) > 0 /\ begun'[x][1] = begun[x][1]
        BY <1>0, <4>2, <4>3
      <4>5. EndAt(x, 1)' = EndAt(x, 1)
        BY <4>4 DEF EndAt
      <4> QED BY <4>1, <4>2, <4>4, <4>5 DEF InitSent
    <3>4. CASE SendDone(x) /\ task[x] = "sendInit"
      <4>1. /\ UNCHANGED <<begun, written>> /\ busy[x]
            /\ ~ Unfinished(x)
        BY <3>4 DEF SendDone, Returned
      <4>2. Len(begun[x]) = 1
        BY <1>0, <3>4, <4>1 DEF Exchange
      <4>3. EndAt(x, 1) \in Nat /\ written[x] \in Nat
        <5>1. 1 \in 0..Len(begun[x])
          BY <4>2
        <5> QED BY <5>1, EndAtType DEF Types
      <4>4. EndAt(x, 1) <= written[x]
        BY <4>1, <4>2, <4>3 DEF Unfinished
      <4>5. EndAt(x, 1)' = EndAt(x, 1)
        BY <4>1 DEF EndAt
      <4> QED BY <4>1, <4>2, <4>4, <4>5 DEF InitSent
    <3>5. CASE SendLost(x) /\ task[x] = "sendInit"
      <4>1. ~ Up(x)
        BY <3>5 DEF SendLost, Carries, Up
      <4> QED BY <2>1, <4>1 DEF InitSent
    <3>6. CASE (SendDone(x) \/ SendLost(x)) /\ task[x] # "sendInit"
      <4>1. UNCHANGED <<begun, written>> /\ task'[x] = task[x]
        BY <3>6 DEF SendDone, SendLost, Returned, Types
      <4> QED BY <1>0, <2>1, <4>1, InitSentKept DEF HasSent
    <3>7. CASE SendFails(x) \/ Close(x) \/ Opens(x)
      <4>1. UNCHANGED <<begun, written>> /\ (HasSent(x)' => HasSent(x))
        BY <1>0, <3>7 DEF SendFails, Close, Opens, sendVars, Types, HasSent, Registered,
           FirstTask, Sides
      <4> QED BY <1>0, <2>1, <4>1, InitSentKept
    <3>8. ASSUME NEW n \in 1..Capacity, Read(x, n)
          PROVE  InitSent(x)'
      <4>1. UNCHANGED <<begun, written>> /\ (HasSent(x)' => HasSent(x))
        BY <1>0, <3>8 DEF Read, sendVars, Types, HasSent, Registered, Thrown, Receiving
      <4> QED BY <1>0, <2>1, <4>1, InitSentKept
    <3>9. CASE Receive(x)
      <4>1. UNCHANGED <<begun, written>> /\ (HasSent(x)' => HasSent(x))
        BY <1>0, <3>9 DEF Receive, sendVars, Types, HasSent, Registered, AfterInitReceived,
           Receiving, Sides
      <4> QED BY <1>0, <2>1, <4>1, InitSentKept
    <3>10. CASE ReadFails(x) \/ Handled(x) \/ HandleFails(x)
      <4>1. UNCHANGED <<begun, written>> /\ (HasSent(x)' => HasSent(x))
        BY <1>0, <3>10 DEF ReadFails, Handled, HandleFails, sendVars, Types, HasSent, Registered,
           Thrown, Receiving
      <4> QED BY <1>0, <2>1, <4>1, InitSentKept
    <3> QED
      BY <1>1, <3>1, <3>2, <3>3, <3>4, <3>5, <3>6, <3>7, <3>8, <3>9, <3>10 DEF Cases
  <2> QED BY <2>2, <2>3 DEF InitsSent
<1>2. ASSUME NEW c \in Conns, Break(c)
      PROVE  InitsSent'
  <2>1. ASSUME NEW e \in Ends
        PROVE  InitSent(e)'
    <3>1. UNCHANGED <<begun, written, task>> /\ (Up(e)' => Up(e))
      BY <1>0, <1>2, <2>1 DEF Break, sendVars, Types, Up, Gone
    <3> QED BY <1>0, <2>1, <3>1, InitSentKept DEF HasSent
  <2> QED BY <2>1 DEF InitsSent
<1>3. ASSUME NEW s \in Sides, Crash(s)
      PROVE  InitsSent'
  <2>1. ASSUME NEW e \in Ends
        PROVE  InitSent(e)'
    <3>1. UNCHANGED <<begun, written, broken>>
      BY <1>3 DEF Crash
    <3>2. task'[e] \in {task[e], "done"} /\ task'[Peer(e)] \in {task[Peer(e)], "done"}
      BY <1>0, <1>3, <2>1 DEF Crash
    <3>3. (HasSent(e)' => HasSent(e)) /\ (Up(e)' => Up(e))
      BY <3>1, <3>2 DEF HasSent, Registered, Up, Gone
    <3> QED BY <1>0, <2>1, <3>1, <3>3, InitSentKept
  <2> QED BY <2>1 DEF InitsSent
<1>4. CASE UNCHANGED streamVars
  BY <1>4 DEF streamVars, sendVars, InitsSent, InitSent, HasSent, Up, Gone, EndAt
<1> QED BY <1>1, <1>2, <1>3, <1>4, StepCases

\* An end that has not got to its answer has received nothing.
AtFirst(e) ==
  task[e] \in {"absent", "recvInit"} \/ (e[2] = "client" /\ task[e] = "sendInit")

NoneEarly == \A e \in Ends : AtFirst(e) => got[e] = 0

LEMMA NoneEarlyStep ==
  ASSUME Types, NoneEarly, [StreamNext]_streamVars
  PROVE  NoneEarly'
<1> SUFFICES ASSUME NEW e \in Ends, AtFirst(e)'
             PROVE  AtFirst(e) /\ got'[e] = got[e]
  BY DEF NoneEarly
<1>0. e[2] \in Sides
  BY DEF Ends
<1>1. ASSUME NEW x \in Ends, Cases(x)
      PROVE  AtFirst(e) /\ got'[e] = got[e]
  <2>1. CASE (\E n \in 1..Capacity : Write(x, n) \/ Read(x, n)) \/ Close(x) \/ Opens(x)
    BY <1>0, <2>1 DEF Write, Read, Close, Opens, receiveVars, Types, AtFirst, Thrown, Receiving
  <2>2. CASE BeginInit(x) \/ \E f \in Frames : BeginSend(x, f)
    BY <1>0, <2>2 DEF BeginInit, BeginSend, Begins, receiveVars, Types, AtFirst
  <2>3. CASE SendDone(x) \/ SendLost(x) \/ SendFails(x)
    BY <1>0, <2>3 DEF SendDone, SendLost, SendFails, Returned, AfterInitSent, receiveVars, Types,
       AtFirst, Sides
  <2>4. CASE Receive(x)
    BY <1>0, <2>4 DEF Receive, AfterInitReceived, Types, AtFirst, Receiving, Sides
  <2>5. CASE ReadFails(x) \/ Handled(x) \/ HandleFails(x)
    BY <1>0, <2>5 DEF ReadFails, Handled, HandleFails, receiveVars, Types, AtFirst, Thrown,
       Receiving
  <2> QED BY <1>1, <2>1, <2>2, <2>3, <2>4, <2>5 DEF Cases
<1>2. ASSUME NEW c \in Conns, Break(c)
      PROVE  AtFirst(e) /\ got'[e] = got[e]
  BY <1>2 DEF Break, receiveVars, AtFirst
<1>3. ASSUME NEW s \in Sides, Crash(s)
      PROVE  AtFirst(e) /\ got'[e] = got[e]
  BY <1>3 DEF Crash, receiveVars, AtFirst
<1>4. CASE UNCHANGED streamVars
  BY <1>4 DEF streamVars, receiveVars, AtFirst
<1> QED BY <1>1, <1>2, <1>3, <1>4, StepCases

MovesInv == StreamInv /\ InitsSent /\ NoneEarly

LEMMA MovesInvariant == StreamSpec => []MovesInv
<1>1. StreamInit => InitsSent /\ NoneEarly
  BY DEF StreamInit, InitsSent, InitSent, HasSent, Registered, NoneEarly
<1>2. StreamInv /\ InitsSent /\ NoneEarly /\ [StreamNext]_streamVars
        => (InitsSent /\ NoneEarly)'
  BY InitSentStep, NoneEarlyStep DEF StreamInv
<1> QED BY <1>1, <1>2, StreamInvariant, PTL DEF StreamSpec, MovesInv

\* To an end that has received nothing, one that is past its turn is readable.
LEMMA SentIsReadable ==
  ASSUME MovesInv, NEW e \in Ends, got[e] = 0, HasSent(Peer(e)), Up(Peer(e))
  PROVE  Readable(e)
<1> DEFINE p == Peer(e)
<1>1. p \in Ends
  BY PeerOfPeer
<1>2. Len(begun[p]) > 0 /\ EndAt(p, 1) <= written[p]
  BY <1>1 DEF MovesInv, InitsSent, InitSent
<1>3. /\ begun[p] \in Seq(Records) /\ read[e] \in Nat /\ written[p] \in Nat
      /\ WriterInStep(p) /\ ReaderInStep(e)
  BY <1>1 DEF MovesInv, StreamInv, Types, Positions
<1>4. /\ begun[p][1].end = EndAt(p, 0) + begun[p][1].body.size
      /\ begun[p][1].body \in Frames \cup {InitFrame}
  <2>1. 1 \in 1..Len(begun[p]) /\ 1 - 1 = 0
    BY <1>2, <1>3
  <2>2. begun[p][1] \in Records
    BY <1>3, <2>1
  <2>3. begun[p][1].end = EndAt(p, 1 - 1) + begun[p][1].body.size
    BY <1>3, <2>1 DEF WriterInStep
  <2> QED BY <2>1, <2>2, <2>3 DEF Records
<1>5. EndAt(p, 1) = totalSize(e) /\ totalSize(e) \in Nat /\ 0 < totalSize(e)
  <2>1. totalSize(e) = begun[p][1].body.size
    BY DEF totalSize, Incoming
  <2>2. EndAt(p, 1) = begun[p][1].end /\ EndAt(p, 0) = 0
    BY DEF EndAt
  <2>3. begun[p][1].body.size \in Nat /\ 0 < begun[p][1].body.size
    BY <1>4, FrameSizes
  <2> QED BY <1>4, <2>1, <2>2, <2>3
<1>6. numRead(e) = read[e]
  BY <1>3 DEF numRead, EndAt
<1>7. InTransit(p) = written[p] - read[e]
  BY PeerOfPeer DEF InTransit
<1>8. CASE read[e] < written[p]
  BY <1>3, <1>7, <1>8 DEF Readable
<1>9. CASE read[e] = written[p]
  <2>1. 0 < numRead(e) /\ totalSize(e) <= numRead(e)
    BY <1>2, <1>3, <1>5, <1>6, <1>9
  <2>2. numRead(e) <= totalSize(e)
    BY <1>3, <2>1 DEF ReaderInStep
  <2> QED BY <1>3, <1>5, <1>6, <2>1, <2>2 DEF Readable
<1> QED BY <1>3, <1>8, <1>9 DEF ReaderInStep

LEMMA NotStuckFollows == MovesInv => ExchangeNotStuck
<1> SUFFICES ASSUME MovesInv, NEW e \in Ends,
                    task[e] = "recvInit", ~ broken[e[1]],
                    task[Peer(e)] \notin {"absent", "sendInit", "dropping", "closing", "done"}
             PROVE  Readable(e) \/ (task[Peer(e)] = "recvInit" /\ Readable(Peer(e)))
  BY DEF ExchangeNotStuck
<1>1. /\ Peer(e) \in Ends /\ Peer(Peer(e)) = e /\ Peer(e)[1] = e[1]
      /\ e[2] \in Sides /\ Peer(e)[2] \in Sides /\ Peer(e)[2] # e[2]
  BY PeerOfPeer DEF Ends, Peer, Sides
<1>2. ASSUME NEW x \in Ends, task[x] = "recvInit"
      PROVE  got[x] = 0
  BY <1>2 DEF MovesInv, NoneEarly, AtFirst
<1>3. Up(e) /\ Up(Peer(e))
  BY <1>1 DEF Up, Gone
<1>4. task[Peer(e)] \in {"recvInit", "receiving", "handling"}
  BY <1>1 DEF MovesInv, StreamInv, Types, Positions, ReaderInStep, TaskStates, Registered
<1>5. CASE HasSent(Peer(e))
  BY <1>2, <1>3, <1>5, SentIsReadable
<1>6. CASE ~ HasSent(Peer(e))
  <2>1. task[Peer(e)] = "recvInit" /\ HasSent(e)
    BY <1>1, <1>4, <1>6 DEF HasSent, Registered, Sides
  <2> QED BY <1>1, <1>2, <1>3, <2>1, SentIsReadable
<1> QED BY <1>5, <1>6

\* The exchange of initial frames never has both ends waiting with nothing under
\* way (addSocket's initialTunnelFrameExchange): what ExchangeEnds needs beside
\* threads that run on.
THEOREM ExchangeIsNotStuck == StreamSpec => []ExchangeNotStuck
BY MovesInvariant, NotStuckFollows, PTL

\* The frames of a direction end one after the other.
EndsAscend ==
  \A e \in Ends : \A j, k \in 0..Len(begun[e]) : j < k => EndAt(e, j) < EndAt(e, k)

LEMMA EndsAscendStep ==
  ASSUME Types, EndsAscend, [StreamNext]_streamVars
  PROVE  EndsAscend'
<1>1. CASE begun' = begun
  BY <1>1 DEF EndsAscend, EndAt
<1>2. ASSUME NEW x \in Ends, NEW kind \in {"init", "data"}, NEW f \in Frames \cup {InitFrame},
             Begins(x, kind, f)
      PROVE  EndsAscend'
  <2> DEFINE n == Len(begun[x])
             r == [kind |-> kind, body |-> f, end |-> EndAt(x, n) + f.size]
  <2>1. n \in Nat /\ n \in 0..n /\ begun[x] \in Seq(Records)
    <3>1. begun[x] \in Seq(Records)
      BY DEF Types
    <3> QED BY <3>1
  <2>2. \A k \in 0..n : EndAt(x, k) \in Nat
    BY <2>1, EndAtType
  <2>3. r \in Records /\ EndAt(x, n) < r.end
    BY <2>1, <2>2, FrameSizes DEF Records
  <2>4. begun' = [begun EXCEPT ![x] = Append(@, r)]
    BY <1>2 DEF Begins
  <2>5. /\ Len(begun'[x]) = n + 1 /\ begun'[x][n + 1] = r
        /\ \A k \in 0..n : EndAt(x, k)' = EndAt(x, k)
        /\ \A e \in Ends : e # x => begun'[e] = begun[e]
    <3> HIDE DEF r
    <3> QED BY <2>3, <2>4, AppendKeepsEnds
  <2>6. \A k : k = n + 1 => EndAt(x, k)' = r.end
    BY <2>1, <2>5 DEF EndAt
  <2>7. ASSUME NEW e \in Ends, NEW j \in 0..Len(begun'[e]), NEW k \in 0..Len(begun'[e]), j < k
        PROVE  EndAt(e, j)' < EndAt(e, k)'
    <3>1. CASE e # x
      <4>1. begun'[e] = begun[e]
        BY <2>5, <3>1
      <4> QED BY <2>7, <4>1 DEF EndsAscend, EndAt
    <3>2. CASE e = x /\ k \in 0..n
      <4>1. j \in 0..n
        BY <2>1, <2>7, <3>2
      <4> QED BY <2>5, <2>7, <3>2, <4>1 DEF EndsAscend
    <3>3. CASE e = x /\ k = n + 1
      <4>1. j \in 0..n /\ EndAt(x, j) \in Nat /\ EndAt(x, n) \in Nat
        BY <2>1, <2>2, <2>7, <3>3
      <4>2. EndAt(x, j) <= EndAt(x, n)
        <5>1. CASE j = n
          BY <4>1, <5>1
        <5>2. CASE j # n
          <6>1. j < n
            BY <2>1, <4>1, <5>2
          <6>2. EndAt(x, j) < EndAt(x, n)
            BY <2>1, <4>1, <6>1 DEF EndsAscend
          <6> QED BY <4>1, <6>2
        <5> QED BY <5>1, <5>2
      <4>3. r.end \in Nat
        BY <2>3 DEF Records
      <4>4. EndAt(x, j)' = EndAt(x, j) /\ EndAt(x, k)' = r.end
        BY <2>5, <2>6, <3>3, <4>1
      <4> HIDE DEF r
      <4> QED BY <2>3, <3>3, <4>1, <4>2, <4>3, <4>4
    <3> QED BY <2>1, <2>5, <2>7, <3>1, <3>2, <3>3
  <2> QED BY <2>7 DEF EndsAscend
<1>3. ASSUME NEW x \in Ends, Cases(x)
      PROVE  EndsAscend'
  BY <1>1, <1>2, <1>3 DEF Cases, Write, Read, BeginInit, BeginSend, SendDone, SendLost, SendFails,
     Returned, Receive, ReadFails, Handled, HandleFails, Close, Opens, sendVars
<1>4. CASE (\E c \in Conns : Break(c)) \/ (\E s \in Sides : Crash(s)) \/ UNCHANGED streamVars
  BY <1>1, <1>4 DEF Break, Crash, streamVars, sendVars
<1> QED BY <1>3, <1>4, StepCases

LEMMA NotStrandedFollows == StreamInv /\ EndsAscend => NoFrameStranded
<1> SUFFICES ASSUME StreamInv, EndsAscend, NEW e \in Ends,
                    got[Peer(e)] < Len(begun[e]), Carries(e), ~ Readable(Peer(e))
             PROVE  busy[e] /\ Unfinished(e) /\ InTransit(e) < Capacity
  BY DEF NoFrameStranded
<1> DEFINE p == Peer(e)
           n == Len(begun[e])
<1>1. p \in Ends /\ Peer(p) = e
  BY PeerOfPeer
<1>2. /\ begun[e] \in Seq(Records) /\ written[e] \in Nat /\ read[p] \in Nat /\ got[p] \in Nat
      /\ WriterInStep(e) /\ ReaderInStep(p)
  BY <1>1 DEF StreamInv, Types, Positions
<1>3. /\ n \in Nat /\ n \in 0..n /\ got[p] \in 0..n /\ got[p] + 1 \in 0..n /\ got[p] + 1 \in 1..n
      /\ (got[p] + 1) - 1 = got[p]
  BY <1>2
<1>4. \A k \in 0..n : EndAt(e, k) \in Nat
  BY EndAtType DEF StreamInv
\* Nothing is on its way.
<1>5. InTransit(e) = 0 /\ read[p] = written[e]
  BY <1>1, <1>2 DEF Readable, InTransit, ReaderInStep
\* If all was written, the frame has come in.
<1>6. CASE ~ Unfinished(e)
  <2>1. read[p] = EndAt(e, n)
    <3>1. EndAt(e, n) \in Nat
      BY <1>3, <1>4
    <3>2. written[e] <= EndAt(e, n)
      BY <1>2 DEF WriterInStep
    <3>3. ~ (written[e] < EndAt(e, n))
      BY <1>6 DEF Unfinished
    <3> QED BY <1>2, <1>5, <3>1, <3>2, <3>3
  <2>2. EndAt(e, got[p] + 1) <= EndAt(e, n)
    <3>1. CASE got[p] + 1 = n
      BY <1>3, <1>4, <3>1
    <3>2. CASE got[p] + 1 # n
      <4>1. got[p] + 1 < n
        BY <1>3, <3>2
      <4>2. EndAt(e, got[p] + 1) < EndAt(e, n)
        BY <1>3, <4>1 DEF EndsAscend
      <4> QED BY <1>3, <1>4, <4>2
    <3> QED BY <3>1, <3>2
  <2>3. EndAt(e, got[p] + 1) = EndAt(e, got[p]) + totalSize(p)
    <3>1. begun[e][got[p] + 1].end = EndAt(e, got[p]) + begun[e][got[p] + 1].body.size
      BY <1>2, <1>3 DEF WriterInStep
    <3>2. EndAt(e, got[p] + 1) = begun[e][got[p] + 1].end
      BY <1>2, <1>3 DEF EndAt
    <3>3. totalSize(p) = begun[e][got[p] + 1].body.size
      BY <1>1 DEF totalSize, Incoming
    <3> QED BY <3>1, <3>2, <3>3
  <2>4. totalSize(p) \in Nat /\ 0 < totalSize(p)
    BY <1>1, IncomingType DEF StreamInv
  <2>5. numRead(p) = read[p] - EndAt(e, got[p])
    BY <1>1 DEF numRead
  <2>6. totalSize(p) <= numRead(p) /\ 0 < numRead(p) /\ numRead(p) \in Int
    BY <1>2, <1>3, <1>4, <2>1, <2>2, <2>3, <2>4, <2>5
  <2>7. numRead(p) <= totalSize(p)
    BY <1>2, <2>6 DEF ReaderInStep
  <2> QED BY <2>4, <2>6, <2>7 DEF Readable
<1>7. CASE Unfinished(e)
  BY <1>2, <1>5, <1>7, CapacityAssumption DEF WriterInStep
<1> QED BY <1>6, <1>7

\* However small the buffers of the connection are and however reads and writes
\* split the frames (send and receive), what was given to send() can always go on
\* to its receiver: what FramesArrive needs of the streams besides fairness.
THEOREM FramesAreNotStranded == StreamSpec => []NoFrameStranded
<1>1. StreamInit => EndsAscend
  BY DEF StreamInit, EndsAscend
<1> QED BY <1>1, EndsAscendStep, StreamInvariant, NotStrandedFollows, PTL DEF StreamSpec, StreamInv

LEMMA OtherVersionsFollows == StreamInv => OtherVersionsRefused
<1> SUFFICES ASSUME StreamInv, NEW c \in Conns,
                    version[<<c, "client">>] # version[<<c, "server">>]
             PROVE  /\ got[<<c, "client">>] = 0 /\ got[<<c, "server">>] = 0
                    /\ Len(begun[<<c, "client">>]) <= 1
                    /\ begun[<<c, "server">>] = <<>>
  BY DEF OtherVersionsRefused
<1>1. /\ <<c, "client">> \in Ends /\ <<c, "server">> \in Ends
      /\ Peer(<<c, "client">>) = <<c, "server">>
      /\ Peer(<<c, "server">>) = <<c, "client">>
  BY DEF Ends, Sides, Peer
<1>2. got[<<c, "client">>] = 0 /\ got[<<c, "server">>] = 0
  BY <1>1 DEF StreamInv, ApartInv, Apart
<1>3. Exchange(<<c, "client">>) /\ Exchange(<<c, "server">>)
  BY <1>1 DEF StreamInv, ExchangeInv
<1>4. begun[<<c, "client">>] \in Seq(Records) /\ begun[<<c, "server">>] \in Seq(Records)
  BY <1>1 DEF StreamInv, Types
<1>5. Len(begun[<<c, "client">>]) \in Nat /\ Len(begun[<<c, "server">>]) \in Nat
  BY <1>4
<1>6. Len(begun[<<c, "server">>]) = 0
  BY <1>2, <1>3, <1>5 DEF Exchange
<1> QED BY <1>2, <1>3, <1>4, <1>5, <1>6 DEF Exchange

\* A build of one version takes nothing from a build of another, whoever dials.
THEOREM VersionsMustMatch == StreamSpec => []OtherVersionsRefused
BY StreamInvariant, OtherVersionsFollows, PTL

-----------------------------------------------------------------------------
(* The directions are channels of whole frames.                            *)

Carried == Frames \cup {InitFrame}

Sent == [e \in Ends |-> Bodies(e, Whole(e))]

Received == [e \in Ends |-> Bodies(Peer(e), got[e])]

\* One frame more.
LEMMA BodiesAppend ==
  ASSUME Types, NEW e \in Ends, NEW k \in Nat, k < Len(begun[e])
  PROVE  /\ begun[e][k + 1].body \in Carried
         /\ Bodies(e, k + 1) = Append(Bodies(e, k), begun[e][k + 1].body)
<1>1. begun[e] \in Seq(Records) /\ Len(begun[e]) \in Nat
  BY DEF Types
<1>2. ASSUME NEW i \in 1..(k + 1)
      PROVE  begun[e][i].body \in Carried
  <2>1. i \in 1..Len(begun[e])
    BY <1>1
  <2>2. begun[e][i] \in Records
    BY <1>1, <2>1, ElementOfSeq
  <2> QED BY <2>2 DEF Records, Carried
<1>3. Bodies(e, k) \in Seq(Carried) /\ Len(Bodies(e, k)) = k
  BY <1>2 DEF Bodies
<1>4. Bodies(e, k + 1) \in Seq(Carried) /\ Len(Bodies(e, k + 1)) = k + 1
  BY <1>2 DEF Bodies
<1> DEFINE f == begun[e][k + 1].body
<1>5. f \in Carried
  BY <1>2
<1>6. /\ Append(Bodies(e, k), f) \in Seq(Carried)
      /\ Len(Append(Bodies(e, k), f)) = k + 1
      /\ \A i \in 1..k : Append(Bodies(e, k), f)[i] = Bodies(e, k)[i]
      /\ Append(Bodies(e, k), f)[k + 1] = f
  BY <1>3, <1>5, AppendProperties
<1>7. ASSUME NEW i \in 1..(k + 1)
      PROVE  Bodies(e, k + 1)[i] = Append(Bodies(e, k), f)[i]
  <2>1. Bodies(e, k + 1)[i] = begun[e][i].body
    BY DEF Bodies
  <2>2. CASE i \in 1..k
    BY <1>6, <2>1, <2>2 DEF Bodies
  <2>3. CASE i = k + 1
    BY <1>6, <2>1, <2>3
  <2>4. i \in 1..k \/ i = k + 1
    OBVIOUS
  <2> QED BY <2>2, <2>3, <2>4
<1> HIDE DEF f
<1>8. Bodies(e, k + 1) = Append(Bodies(e, k), f)
  BY <1>4, <1>6, <1>7, SeqEqual
<1> QED BY <1>5, <1>8 DEF f

\* The number of frames written whole.
LEMMA WholeBounds ==
  ASSUME Types, Positions, NEW e \in Ends
  PROVE  Len(begun[e]) \in Nat /\ Whole(e) \in 0..Len(begun[e])
<1>1. begun[e] \in Seq(Records) /\ Len(begun[e]) \in Nat /\ written[e] \in Nat
  BY DEF Types
<1>2. Len(begun[e]) # 0 \/ ~ Unfinished(e)
  BY <1>1 DEF Unfinished, EndAt
<1> QED BY <1>1, <1>2 DEF Whole

\* Steps that leave the frames and what was written and received alone.
LEMMA ChannelKept ==
  ASSUME begun' = begun, written' = written, got' = got
  PROVE  Sent' = Sent /\ Received' = Received
<1>1. ASSUME NEW e \in Ends
      PROVE  /\ Bodies(e, Whole(e))' = Bodies(e, Whole(e))
             /\ Bodies(Peer(e), got[e])' = Bodies(Peer(e), got[e])
  BY DEF Bodies, Whole, Unfinished, EndAt
<1> QED BY <1>1 DEF Sent, Received

\* send() begins: nothing is sent yet.
LEMMA ChannelBegins ==
  ASSUME Types, Positions, [StreamNext]_streamVars,
         NEW x \in Ends, NEW kind \in {"init", "data"}, NEW f \in Carried,
         Begins(x, kind, f), task[x] # "absent"
  PROVE  Sent' = Sent /\ Received' = Received
<1>1. Positions' /\ ~ Unfinished(x) /\ Unfinished(x)'
  BY BeginsPositions DEF Carried
<1>2. EndAt(x, Len(begun[x])) \in Nat /\ f.size \in Nat
  <2>1. begun[x] \in Seq(Records)
    BY DEF Types
  <2>2. Len(begun[x]) \in 0..Len(begun[x])
    BY <2>1
  <2> QED BY <2>2, EndAtType, FrameSizes DEF Carried
<1> DEFINE r == [kind |-> kind, body |-> f, end |-> EndAt(x, Len(begun[x])) + f.size]
<1>3. r \in Records
  BY <1>2 DEF Records, Carried
<1>4. begun' = [begun EXCEPT ![x] = Append(@, r)] /\ UNCHANGED <<written, got>>
  BY DEF Begins, receiveVars
<1>5. /\ Len(begun[x]) \in Nat /\ Len(begun'[x]) = Len(begun[x]) + 1
      /\ \A k \in 1..Len(begun[x]) : begun'[x][k] = begun[x][k]
      /\ \A e \in Ends : e # x => begun'[e] = begun[e]
  BY <1>3, <1>4, AppendKeepsEnds
<1>6. Whole(x) = Len(begun[x]) /\ Whole(x)' = Len(begun[x])
  BY <1>1, <1>5 DEF Whole
<1>7. ASSUME NEW e \in Ends
      PROVE  Bodies(e, Whole(e))' = Bodies(e, Whole(e))
  <2>1. CASE e = x
    BY <1>5, <1>6, <2>1 DEF Bodies
  <2>2. CASE e # x
    BY <1>4, <1>5, <2>2 DEF Bodies, Whole, Unfinished, EndAt
  <2> QED BY <2>1, <2>2
<1>8. ASSUME NEW e \in Ends
      PROVE  Bodies(Peer(e), got[e])' = Bodies(Peer(e), got[e])
  <2>1. Peer(e) \in Ends /\ got[e] \in Nat /\ got[e] <= Len(begun[Peer(e)])
    BY PeerOfPeer DEF Positions, ReaderInStep, Types
  <2>2. CASE Peer(e) = x
    <3>1. \A i \in 1..got[e] : begun'[Peer(e)][i] = begun[Peer(e)][i]
      BY <1>5, <2>1, <2>2
    <3>2. Bodies(Peer(e), got[e])' = [i \in 1..got[e] |-> begun'[Peer(e)][i].body]
      BY <1>4 DEF Bodies
    <3>3. Bodies(Peer(e), got[e]) = [i \in 1..got[e] |-> begun[Peer(e)][i].body]
      BY DEF Bodies
    <3> QED BY <3>1, <3>2, <3>3
  <2>3. CASE Peer(e) # x
    BY <1>4, <1>5, <2>1, <2>3 DEF Bodies
  <2> QED BY <2>2, <2>3
<1> QED BY <1>7, <1>8 DEF Sent, Received

\* A write() that takes the last byte of a frame sends it.
LEMMA ChannelWrites ==
  ASSUME Types, Positions, NEW x \in Ends, NEW n \in 1..Capacity, Write(x, n)
  PROVE  \/ Sent' = Sent /\ Received' = Received
         \/ Channel!Send(x)
<1>1. /\ begun' = begun /\ got' = got
      /\ written' = [written EXCEPT ![x] = @ + n]
  BY DEF Write, receiveVars
<1>2. \A e \in Ends : e # x => written'[e] = written[e]
  BY <1>1 DEF Types
<1>3. \A e \in Ends : e # x => Whole(e)' = Whole(e)
  BY <1>1, <1>2 DEF Whole, Unfinished, EndAt
<1>4. Len(begun[x]) \in Nat /\ Whole(x) \in 0..Len(begun[x])
  BY WholeBounds
<1>5. \/ Whole(x)' = Whole(x)
      \/ Whole(x) < Len(begun[x]) /\ Whole(x)' = Whole(x) + 1
  <2>1. written[x] <= written'[x]
    BY <1>1 DEF Types
  <2>2. Unfinished(x) \in BOOLEAN /\ Unfinished(x)' \in BOOLEAN
    BY DEF Unfinished
  <2>3. CASE Unfinished(x)
    <3>1. Whole(x) = Len(begun[x]) - 1
      BY <2>3 DEF Whole
    <3>2. Whole(x)' = Len(begun[x]) - 1 \/ Whole(x)' = Len(begun[x])
      BY <1>1 DEF Whole
    <3> QED BY <1>4, <3>1, <3>2
  <2>4. CASE ~ Unfinished(x)
    <3>1. EndAt(x, Len(begun[x])) \in Nat
      <4>1. Len(begun[x]) \in 0..Len(begun[x])
        BY <1>4
      <4> QED BY <4>1, EndAtType
    <3>2. ~ Unfinished(x)'
      <4>1. EndAt(x, Len(begun[x]))' = EndAt(x, Len(begun[x]))
        BY <1>1 DEF EndAt
      <4>2. written[x] \in Nat /\ written'[x] \in Nat
        BY <1>1 DEF Types
      <4> QED BY <1>1, <2>1, <2>4, <3>1, <4>1, <4>2 DEF Unfinished
    <3> QED BY <1>1, <2>4, <3>2 DEF Whole
  <2> QED BY <2>3, <2>4
<1>6. Received' = Received
  BY <1>1 DEF Received, Bodies
<1>7. CASE Whole(x)' = Whole(x)
  <2>1. ASSUME NEW e \in Ends
        PROVE  Bodies(e, Whole(e))' = Bodies(e, Whole(e))
    BY <1>1, <1>3, <1>7 DEF Bodies
  <2> QED BY <1>6, <2>1 DEF Sent
<1>8. CASE Whole(x) < Len(begun[x]) /\ Whole(x)' = Whole(x) + 1
  <2> DEFINE f == begun[x][Whole(x) + 1].body
  <2>1. Whole(x) \in Nat
    BY <1>4
  <2>2. f \in Carried /\ Bodies(x, Whole(x) + 1) = Append(Bodies(x, Whole(x)), f)
    BY <1>8, <2>1, BodiesAppend
  <2>3. Bodies(x, Whole(x))' = Bodies(x, Whole(x) + 1)
    BY <1>1, <1>8 DEF Bodies
  <2>4. ASSUME NEW e \in Ends, e # x
        PROVE  Bodies(e, Whole(e))' = Bodies(e, Whole(e))
    BY <1>1, <1>3, <2>4 DEF Bodies
  <2>5. Sent' = [Sent EXCEPT ![x] = Append(@, f)]
    BY <2>2, <2>3, <2>4 DEF Sent
  <2> QED BY <1>6, <2>2, <2>5 DEF Channel!Send, Sent, Received, Carried
<1> QED BY <1>5, <1>7, <1>8

\* receive() returns the frame that is next in the channel, which was sent whole.
LEMMA ChannelReceives ==
  ASSUME Types, Positions, NEW x \in Ends, Receive(x)
  PROVE  Channel!Receive(x)
<1>1. /\ got[x] < Len(begun[Peer(x)])
      /\ got' = [got EXCEPT ![x] = @ + 1]
      /\ read[x] = EndAt(Peer(x), got[x] + 1)
      /\ begun' = begun /\ written' = written
  BY ReceivePositions DEF Receive, sendVars
<1>2. /\ Peer(x) \in Ends /\ got[x] \in Nat /\ read[x] \in Nat
      /\ written[Peer(x)] \in Nat /\ read[x] <= written[Peer(x)]
  BY PeerOfPeer DEF Types, Positions, ReaderInStep
<1>3. Len(begun[Peer(x)]) \in Nat /\ Whole(Peer(x)) \in 0..Len(begun[Peer(x)])
  BY <1>2, WholeBounds
<1>4. got[x] < Whole(Peer(x))
  <2>1. CASE got[x] + 1 < Len(begun[Peer(x)])
    BY <1>2, <1>3, <2>1 DEF Whole
  <2>2. CASE got[x] + 1 = Len(begun[Peer(x)])
    <3>1. ~ Unfinished(Peer(x))
      BY <1>1, <1>2, <2>2 DEF Unfinished
    <3> QED BY <1>2, <1>3, <2>2, <3>1 DEF Whole
  <2> QED BY <1>1, <1>2, <1>3, <2>1, <2>2
<1>5. Sent' = Sent
  BY <1>1 DEF Sent, Bodies, Whole, Unfinished, EndAt
<1> DEFINE f == begun[Peer(x)][got[x] + 1].body
<1>6. f \in Carried /\ Bodies(Peer(x), got[x] + 1) = Append(Bodies(Peer(x), got[x]), f)
  BY <1>1, <1>2, BodiesAppend
<1>7. Received' = [Received EXCEPT ![x] = Append(@, f)]
  <2>1. got'[x] = got[x] + 1 /\ \A e \in Ends : e # x => got'[e] = got[e]
    BY <1>1 DEF Types
  <2>2. Bodies(Peer(x), got[x])' = Bodies(Peer(x), got[x] + 1)
    BY <1>1, <2>1 DEF Bodies
  <2>3. ASSUME NEW e \in Ends, e # x
        PROVE  Bodies(Peer(e), got[e])' = Bodies(Peer(e), got[e])
    BY <1>1, <2>1, <2>3 DEF Bodies
  <2> QED BY <1>6, <2>2, <2>3 DEF Received
<1>8. Len(Received[x]) = got[x] /\ Len(Sent[Peer(x)]) = Whole(Peer(x))
  <2>1. Len(Bodies(Peer(x), got[x])) = got[x]
    BY <1>2 DEF Bodies
  <2>2. Len(Bodies(Peer(x), Whole(Peer(x)))) = Whole(Peer(x))
    BY <1>3 DEF Bodies
  <2> QED BY <1>2, <2>1, <2>2 DEF Received, Sent
<1>9. Sent[Peer(x)][got[x] + 1] = f
  BY <1>2, <1>3, <1>4 DEF Sent, Bodies
<1>10. Received' = [Received EXCEPT ![x] = Append(@, Sent[Peer(x)][Len(@) + 1])]
  BY <1>7, <1>8, <1>9 DEF Received
<1> QED BY <1>4, <1>5, <1>8, <1>10 DEF Channel!Receive, Sent, Received

LEMMA ChannelStep ==
  ASSUME StreamInv, [StreamNext]_streamVars
  PROVE  [Channel!Next]_<<Sent, Received>>
<1> USE DEF StreamInv
<1>1. ASSUME NEW x \in Ends, Cases(x)
      PROVE  [Channel!Next]_<<Sent, Received>>
  <2>1. ASSUME NEW n \in 1..Capacity, Write(x, n)
        PROVE  [Channel!Next]_<<Sent, Received>>
    BY <2>1, ChannelWrites DEF Channel!Next
  <2>2. CASE Receive(x)
    BY <2>2, ChannelReceives DEF Channel!Next
  <2>3. CASE BeginInit(x)
    <3>1. Begins(x, "init", InitFrame) /\ InitFrame \in Carried /\ task[x] # "absent"
      BY <2>3 DEF BeginInit, Carried
    <3> QED BY <3>1, ChannelBegins
  <2>4. ASSUME NEW f \in Frames, BeginSend(x, f)
        PROVE  [Channel!Next]_<<Sent, Received>>
    <3>1. Begins(x, "data", f) /\ f \in Carried /\ task[x] # "absent"
      BY <2>4 DEF BeginSend, Carried, Registered
    <3> QED BY <3>1, ChannelBegins
  <2>5. ASSUME NEW n \in 1..Capacity, Read(x, n)
        PROVE  [Channel!Next]_<<Sent, Received>>
    BY <2>5, ChannelKept DEF Read, sendVars
  <2>6. CASE SendDone(x) \/ SendLost(x) \/ SendFails(x)
    BY <2>6, ChannelKept DEF SendDone, SendLost, SendFails, Returned, receiveVars
  <2>7. CASE ReadFails(x) \/ Handled(x) \/ HandleFails(x) \/ Close(x) \/ Opens(x)
    BY <2>7, ChannelKept
    DEF ReadFails, Handled, HandleFails, Close, Opens, sendVars, receiveVars
  <2> QED BY <1>1, <2>1, <2>2, <2>3, <2>4, <2>5, <2>6, <2>7 DEF Cases
<1>2. ASSUME NEW c \in Conns, Break(c)
      PROVE  [Channel!Next]_<<Sent, Received>>
  BY <1>2, ChannelKept DEF Break, sendVars, receiveVars
<1>3. ASSUME NEW s \in Sides, Crash(s)
      PROVE  [Channel!Next]_<<Sent, Received>>
  BY <1>3, ChannelKept DEF Crash, receiveVars
<1>4. CASE UNCHANGED streamVars
  BY <1>4, ChannelKept DEF streamVars, sendVars, receiveVars
<1> QED BY <1>1, <1>2, <1>3, <1>4, StepCases

\* Whatever sizes the reads and writes take, whatever connections break and
\* processes end, what comes out of a connection is a beginning of the frames
\* put into it, whole and in their order.
THEOREM StreamsAreChannels == StreamSpec => ChannelImplemented
<1>1. StreamInit => Channel!Init
  <2> SUFFICES ASSUME StreamInit
               PROVE  Channel!Init
    OBVIOUS
  <2>1. ASSUME NEW e \in Ends
        PROVE  Bodies(e, Whole(e)) = <<>> /\ Bodies(Peer(e), got[e]) = <<>>
    <3>1. begun[e] = <<>> /\ written[e] = 0 /\ got[e] = 0
      BY DEF StreamInit
    <3>2. Whole(e) = 0
      BY <3>1 DEF Whole, Unfinished, EndAt
    <3>3. \A y \in Ends : Bodies(y, 0) = <<>>
      BY DEF Bodies
    <3> QED BY <3>1, <3>2, <3>3, PeerOfPeer
  <2> QED BY <2>1 DEF Channel!Init
<1>2. StreamInv /\ [StreamNext]_streamVars
        => [Channel!Next]_<<[e \in Ends |-> Bodies(e, Whole(e))],
                            [e \in Ends |-> Bodies(Peer(e), got[e])]>>
  BY ChannelStep DEF Sent, Received
<1> QED
  BY <1>1, <1>2, StreamInvariant, PTL DEF StreamSpec, ChannelImplemented, Channel!Spec
=============================================================================
