----------------------- MODULE TunnelFramePipe_proofs -----------------------
(***************************************************************************)
(* Proofs of the safety properties of TunnelFramePipe, for any number of   *)
(* threads and pipes.                                                      *)
(***************************************************************************)
EXTENDS TunnelFramePipe, FiniteSetTheorems, TLAPS

-----------------------------------------------------------------------------
(* The inductive invariant.                                                *)

Waiting == owner \in {"asleep", "awake"}

\* The pipes 1..Top are attached, and a pipe above Linked points to the next.
Top ==
  IF owner = "attaching" THEN at - 1
  ELSE IF owner \in {"ending", "gone"} THEN 0 ELSE at

Linked == IF Waiting THEN at - 1 ELSE Top

\* The links of the chain are those of the pipes the owner has attached and
\* not yet detached; what was detached is marked, and nothing before.
ChainInv ==
  /\ owner \in {"running", "joining"} => at = Last
  /\ \A p \in Pipes :
       /\ p \in attached <=> 0 < p /\ p <= Top
       /\ next[p] = IF p < Linked THEN p + 1 ELSE NotReady
       /\ prev[p] = IF 0 < p /\ p <= Top THEN p - 1 ELSE NotReady
       /\ detaching[p] => owner # "attaching" /\ p >= Linked
  /\ Waiting => detaching[at - 1]

\* A call is as deep as the pipe it goes into, and goes there only through
\* the pipes before it.
CallerInv ==
  \A c \in Callers :
    /\ pc[c] \in {"idle", "ready", "backoff", "ended"} => depth[c] = 0
    /\ pc[c] = "calling" => depth[c] > 0 /\ target[c] \in {depth[c], NotReady}
    /\ pc[c] = "inside" => depth[c] = Last
    /\ pc[c] \in Unwinding => depth[c] > 0

\* The receivers run only while the whole chain stands.
ReceiverInv ==
  \A r \in Receivers : up[r] # Off => owner \in {"running", "joining"}

IInv ==
  /\ TypeOK
  /\ ChainInv
  /\ CallerInv
  /\ ReceiverInv
  /\ CountsCalls
  /\ NoCallIntoDetached
  /\ OwnerIsWoken

-----------------------------------------------------------------------------
(* What the steps have in common.                                          *)

USE LastAssumption, CallersAssumption, StoresAssumption
USE DEF Pipes, NotReady, Off, Unwinding, CallerStates, OwnerStates, Waiting,
        Interrupted, Running, pipeVars, callerVars, ownerVars

\* The steps of callers that begin no pipeInvokeNext and end none.
QuietStep(c) ==
  /\ UNCHANGED <<pipeVars, depth, target, up, ownerVars>>
  /\ \/ UNCHANGED pc
     \/ \E from, to \in CallerStates :
          /\ pc[c] = from
          /\ pc' = [pc EXCEPT ![c] = to]
          /\ \/ from \in {"idle", "backoff"} /\ to \in {"ready", "ended"}
             \/ from = "calling" /\ target[c] = NotReady /\ to = "refused"
             \/ from = "calling" /\ target[c] = Last /\ to = "inside"
             \/ from = "inside" /\ to \in Unwinding

\* A pipeInvokeNext begins in pipe p, which c is allowed to be in.
Invokes(c, p) ==
  /\ \/ p = 0 /\ pc[c] = "ready"
     \/ p \in 1..(Last - 1) /\ pc[c] = "calling" /\ target[c] = p
  /\ InvokeNext(c, p)

\* A step of a caller is of one of three kinds.
LEMMA CallerSteps ==
  ASSUME NEW c \in Callers, TypeOK, CallerStep(c)
  PROVE  QuietStep(c) \/ (\E p \in Pipes : Invokes(c, p)) \/ Unwind(c)
<1>1. HaveFrame(c) \/ Retry(c) \/ Interrupt(c) => QuietStep(c)
  BY DEF HaveFrame, Retry, Interrupt, CallerMoves, QuietStep
<1>2. Refuse(c) \/ Deliver(c) => QuietStep(c)
  BY DEF Refuse, Deliver, CallerMoves, QuietStep
<1>3. Delivered(c) => QuietStep(c)
  BY DEF Delivered, CallerMoves, QuietStep
<1>4. MeetUnseen(c) => QuietStep(c)
  BY DEF MeetUnseen, QuietStep
<1>5. Invoke(c) => Invokes(c, 0)
  BY DEF Invoke, Invokes
<1>6. PassOn(c) => Invokes(c, target[c]) /\ target[c] \in Pipes
  BY DEF PassOn, Invokes
<1>7. QED BY <1>1, <1>2, <1>3, <1>4, <1>5, <1>6 DEF CallerStep, CallStep

LEMMA InvokeDepth ==
  ASSUME NEW c \in Callers, NEW p \in Pipes, TypeOK, CallerInv, Invokes(c, p)
  PROVE  depth[c] = p /\ p < Last /\ depth' = [depth EXCEPT ![c] = p + 1]
<1>1. CASE p = 0 /\ pc[c] = "ready"
  <2>1. depth[c] = 0
    BY <1>1 DEF CallerInv
  <2>2. QED BY <1>1, <2>1 DEF Invokes, InvokeNext
<1>2. CASE p \in 1..(Last - 1) /\ pc[c] = "calling" /\ target[c] = p
  <2>1. depth[c] = p
    BY <1>2 DEF CallerInv
  <2>2. QED BY <1>2, <2>1 DEF Invokes, InvokeNext
<1>3. QED BY <1>1, <1>2 DEF Invokes

-----------------------------------------------------------------------------
(* The invariant holds initially and is kept.                              *)

LEMMA IInvInit == Init => IInv
<1> SUFFICES ASSUME Init PROVE IInv
  OBVIOUS
<1>1. TypeOK
  <2>1. /\ next \in [Pipes -> Pipes \cup {NotReady}]
        /\ prev \in [Pipes -> Pipes \cup {NotReady}]
        /\ num \in [Pipes -> Nat]
        /\ detaching \in [Pipes -> BOOLEAN]
    BY DEF Init
  <2>2. /\ pc \in [Callers -> CallerStates]
        /\ depth \in [Callers -> 0..Last]
        /\ target \in [Callers -> Pipes \cup {NotReady}]
        /\ up \in [Receivers -> Pipes \cup {Off}]
    BY DEF Init
  <2>3. attached \subseteq Pipes /\ unseen \subseteq attached /\ fault \in BOOLEAN
    BY DEF Init
  <2>4. owner \in OwnerStates /\ at \in 1..Last
    BY DEF Init
  <2>5. QED BY <2>1, <2>2, <2>3, <2>4 DEF TypeOK
<1>2. ChainInv
  BY DEF Init, ChainInv, Top, Linked
<1>3. CountsCalls
  <2>1. \A p \in Pipes : Pending(p) = {}
    BY DEF Init, Pending
  <2>2. QED BY <2>1, FS_EmptySet DEF Init, CountsCalls
<1>4. CallerInv /\ ReceiverInv /\ NoCallIntoDetached /\ OwnerIsWoken
  BY DEF Init, CallerInv, ReceiverInv, NoCallIntoDetached, OwnerIsWoken, In
<1>5. QED BY <1>1, <1>2, <1>3, <1>4 DEF IInv

LEMMA TypeStep == TypeOK /\ CallerInv /\ CountsCalls /\ [Next]_vars => TypeOK'
<1> SUFFICES ASSUME TypeOK, CallerInv, CountsCalls, [Next]_vars PROVE TypeOK'
  OBVIOUS
<1> USE DEF TypeOK
<1>1. ASSUME NEW c \in Callers, CallerStep(c) PROVE TypeOK'
  <2>1. fault' \in BOOLEAN
    BY <1>1 DEF CallerStep, CallStep, HaveFrame, Retry, Interrupt, Refuse, Deliver,
       Delivered, CallerMoves, MeetUnseen, Invoke, PassOn, Unwind
  <2>2. CASE QuietStep(c)
    BY <2>1, <2>2 DEF QuietStep
  <2>3. CASE \E p \in Pipes : Invokes(c, p)
    <3> PICK p \in Pipes : Invokes(c, p)
      BY <2>3
    <3>0. p < Last /\ depth' = [depth EXCEPT ![c] = p + 1]
      BY InvokeDepth
    <3>1. depth' \in [Callers -> 0..Last]
      BY <3>0
    <3>2. num' \in [Pipes -> Nat] /\ target' \in [Callers -> Pipes \cup {NotReady}]
      BY DEF Invokes, InvokeNext, Counted
    <3>3. QED BY <2>1, <3>1, <3>2 DEF Invokes, InvokeNext
  <2>4. CASE Unwind(c)
    <3> DEFINE p == depth[c] - 1
    <3>1. depth[c] > 0 /\ p \in Pipes
      BY <2>4 DEF Unwind, CallerInv
    <3>2. c \in Pending(p) /\ IsFiniteSet(Pending(p))
      BY <3>1, FS_Subset DEF Pending
    <3>3. num[p] # 0
      BY <3>1, <3>2, FS_EmptySet DEF CountsCalls
    <3>4. Discounted(c, p) \in Nat
      BY <3>1, <3>3 DEF Discounted
    <3>5. QED BY <2>1, <2>4, <3>1, <3>4 DEF Unwind, Resumed
  <2>5. QED BY <1>1, <2>2, <2>3, <2>4, CallerSteps
<1>2. ASSUME NEW r \in Receivers, ReceiverStep(r) PROVE TypeOK'
  <2>1. PICK to \in Pipes \cup {Off} : ReceiverMoves(r, to)
    BY <1>2 DEF ReceiverStep, StartReceiver, InvokePrev, Returned, EndReceiver, ReceiverMoves
  <2>2. QED BY <2>1 DEF ReceiverMoves
<1>3. ASSUME NEW p \in Pipes, Visible(p) PROVE TypeOK'
  BY <1>3 DEF Visible
<1>4. ASSUME OwnerStep PROVE TypeOK'
  <2>1. CASE PipePush
    BY <2>1 DEF PipePush
  <2>2. CASE PipePop
    BY <2>2 DEF PipePop, Detached
  <2>3. CASE PopDone
    BY <2>3 DEF PopDone
  <2>4. CASE BeginDestroy \/ JoinReceivers \/ SpuriousWakeup \/ WaitOn \/ JoinCallers
    BY <2>4 DEF BeginDestroy, JoinReceivers, SpuriousWakeup, WaitOn, JoinCallers, OwnerMoves
  <2>5. QED BY <1>4, <2>1, <2>2, <2>3, <2>4 DEF OwnerStep
<1>5. CASE UNCHANGED vars
  BY <1>5 DEF vars
<1>6. QED BY <1>1, <1>2, <1>3, <1>4, <1>5 DEF Next

\* The counters follow the calls.
LEMMA CountsStep == TypeOK /\ CallerInv /\ CountsCalls /\ [Next]_vars => CountsCalls'
<1> SUFFICES ASSUME TypeOK, CallerInv, CountsCalls, [Next]_vars PROVE CountsCalls'
  OBVIOUS
<1>0. \A p \in Pipes : IsFiniteSet(Pending(p))
  BY FS_Subset DEF Pending
<1>1. ASSUME UNCHANGED <<num, depth>> PROVE CountsCalls'
  BY <1>1 DEF CountsCalls, Pending
<1>2. ASSUME NEW c \in Callers, CallerStep(c) PROVE CountsCalls'
  <2>1. CASE QuietStep(c)
    BY <1>1, <2>1 DEF QuietStep
  <2>2. ASSUME NEW p \in Pipes, Invokes(c, p) PROVE CountsCalls'
    <3>1. depth[c] = p /\ depth' = [depth EXCEPT ![c] = p + 1]
      BY <2>2, InvokeDepth
    <3>2. Pending(p)' = Pending(p) \cup {c} /\ c \notin Pending(p)
      BY <3>1 DEF Pending, TypeOK
    <3>3. \A q \in Pipes \ {p} : Pending(q)' = Pending(q)
      BY <3>1 DEF Pending, TypeOK
    <3>4. Cardinality(Pending(p)') = num[p] + 1
      BY <1>0, <3>2, FS_AddElement DEF CountsCalls
    <3>5. num' = [num EXCEPT ![p] = num[p] + 1]
      BY <2>2 DEF Invokes, InvokeNext, Counted
    <3>6. QED BY <3>3, <3>4, <3>5 DEF CountsCalls, TypeOK
  <2>3. CASE Unwind(c)
    <3> PICK p \in Pipes : p = depth[c] - 1
      BY <2>3 DEF Unwind, CallerInv, TypeOK
    <3>1. depth' = [depth EXCEPT ![c] = p] /\ depth[c] = p + 1
      BY <2>3 DEF Unwind, TypeOK
    <3>2. Pending(p)' = Pending(p) \ {c} /\ c \in Pending(p)
      BY <3>1 DEF Pending, TypeOK
    <3>3. ASSUME NEW q \in Pipes \ {p} PROVE Pending(q)' = Pending(q)
      <4>1. q < p <=> q < p + 1
        BY <3>1
      <4>2. \A d \in Callers : q < depth'[d] <=> q < depth[d]
        BY <3>1, <4>1 DEF TypeOK
      <4>3. QED BY <4>2 DEF Pending
    <3>4. Cardinality(Pending(p)') = num[p] - 1
      BY <1>0, <3>1, <3>2, FS_RemoveElement DEF CountsCalls
    <3>5. num' = [num EXCEPT ![p] = num[p] - 1]
      BY <2>3 DEF Unwind, Discounted
    <3>6. num'[p] = Cardinality(Pending(p)')
      BY <3>1, <3>4, <3>5 DEF TypeOK
    <3>7. ASSUME NEW q \in Pipes \ {p} PROVE num'[q] = Cardinality(Pending(q)')
      BY <3>3, <3>5, <3>7 DEF CountsCalls, TypeOK
    <3>8. QED BY <3>6, <3>7 DEF CountsCalls
  <2>4. QED BY <1>2, <2>1, <2>2, <2>3, CallerSteps
<1>3. ASSUME NEW r \in Receivers, ReceiverStep(r) PROVE UNCHANGED <<num, depth>>
  BY <1>3 DEF ReceiverStep, ReceiverMoves, StartReceiver, InvokePrev, Returned, EndReceiver
<1>4. ASSUME NEW p \in Pipes, Visible(p) PROVE UNCHANGED <<num, depth>>
  BY <1>4 DEF Visible
<1>5. ASSUME OwnerStep PROVE UNCHANGED <<num, depth>>
  BY <1>5 DEF OwnerStep, PipePush, PipePop, PopDone, BeginDestroy, JoinReceivers,
     SpuriousWakeup, WaitOn, JoinCallers, OwnerMoves
<1>6. QED BY <1>1, <1>2, <1>3, <1>4, <1>5 DEF Next, vars

\* The chain.
LEMMA ChainStep == TypeOK /\ ChainInv /\ CallerInv /\ [Next]_vars => ChainInv'
<1> SUFFICES ASSUME TypeOK, ChainInv, CallerInv, [Next]_vars PROVE ChainInv'
  OBVIOUS
<1> USE DEF Top, Linked
<1>1. ASSUME UNCHANGED <<next, prev, detaching, attached, at>>,
             owner' = owner \/ (Waiting /\ Waiting')
      PROVE  ChainInv'
  BY <1>1 DEF ChainInv
<1>2. ASSUME NEW c \in Callers, CallerStep(c) PROVE ChainInv'
  <2>1. CASE QuietStep(c)
    BY <1>1, <2>1 DEF QuietStep
  <2>2. CASE \E p \in Pipes : Invokes(c, p)
    BY <1>1, <2>2 DEF Invokes, InvokeNext
  <2>3. CASE Unwind(c)
    BY <1>1, <2>3 DEF Unwind
  <2>4. QED BY <1>2, <2>1, <2>2, <2>3, CallerSteps
<1>3. ASSUME NEW r \in Receivers, ReceiverStep(r) PROVE ChainInv'
  BY <1>1, <1>3 DEF ReceiverStep, ReceiverMoves, StartReceiver, InvokePrev, Returned, EndReceiver
<1>4. ASSUME NEW p \in Pipes, Visible(p) PROVE ChainInv'
  BY <1>1, <1>4 DEF Visible
<1>5. CASE PipePush
  <2>1. /\ at \in 1..Last /\ owner = "attaching"
        /\ attached' = attached \cup {at} /\ detaching' = detaching
        /\ prev' = [prev EXCEPT ![at] = at - 1]
        /\ next' = [next EXCEPT ![at - 1] = at]
    BY <1>5 DEF PipePush, TypeOK
  <2>2. Top' = at /\ Linked' = at /\ (owner' \in {"running", "joining"} => at' = Last) /\ ~ Waiting'
    BY <1>5, <2>1 DEF PipePush
  <2>3. Top = at - 1 /\ Linked = at - 1
    BY <2>1
  <2> HIDE DEF Top, Linked
  <2>4. ASSUME NEW p \in Pipes
        PROVE  /\ p \in attached' <=> 0 < p /\ p <= Top'
               /\ next'[p] = IF p < Linked' THEN p + 1 ELSE NotReady
               /\ prev'[p] = IF 0 < p /\ p <= Top' THEN p - 1 ELSE NotReady
               /\ ~ detaching'[p]
    <3>1. /\ p \in attached <=> 0 < p /\ p <= at - 1
          /\ next[p] = IF p < at - 1 THEN p + 1 ELSE NotReady
          /\ prev[p] = IF 0 < p /\ p <= at - 1 THEN p - 1 ELSE NotReady
          /\ ~ detaching[p]
      BY <2>1, <2>3 DEF ChainInv
    <3>2. /\ prev'[p] = IF p = at THEN at - 1 ELSE prev[p]
          /\ next'[p] = IF p = at - 1 THEN at ELSE next[p]
      BY <2>1 DEF TypeOK
    <3>3. QED BY <2>1, <2>2, <3>1, <3>2
  <2>5. QED BY <2>2, <2>4 DEF ChainInv
<1>6. CASE PipePop
  BY <1>6 DEF PipePop, Detached, TypeOK, ChainInv
<1>7. CASE PopDone
  BY <1>7 DEF PopDone, TypeOK, ChainInv
<1>8. CASE BeginDestroy \/ JoinReceivers \/ JoinCallers
  BY <1>8 DEF BeginDestroy, JoinReceivers, JoinCallers, OwnerMoves, ChainInv
<1>9. CASE SpuriousWakeup \/ WaitOn
  BY <1>1, <1>9 DEF SpuriousWakeup, WaitOn, OwnerMoves
<1>10. CASE UNCHANGED vars
  BY <1>1, <1>10 DEF vars
<1>11. QED
  BY <1>2, <1>3, <1>4, <1>5, <1>6, <1>7, <1>8, <1>9, <1>10 DEF Next, OwnerStep

\* The callers.
LEMMA CallersStep == TypeOK /\ ChainInv /\ CallerInv /\ [Next]_vars => CallerInv'
<1> SUFFICES ASSUME TypeOK, ChainInv, CallerInv, [Next]_vars PROVE CallerInv'
  OBVIOUS
<1>1. ASSUME UNCHANGED callerVars PROVE CallerInv'
  BY <1>1 DEF CallerInv
<1>2. ASSUME NEW c \in Callers, CallerStep(c) PROVE CallerInv'
  <2>1. CASE QuietStep(c)
    BY <2>1 DEF QuietStep, CallerInv, TypeOK
  <2>2. ASSUME NEW p \in Pipes, Invokes(c, p) PROVE CallerInv'
    <3>1. p < Last /\ depth' = [depth EXCEPT ![c] = p + 1]
      BY <2>2, InvokeDepth
    <3>2. next[p] \in {p + 1, NotReady}
      BY DEF ChainInv
    <3>3. pc' = [pc EXCEPT ![c] = "calling"] /\ target' = [target EXCEPT ![c] = next[p]]
      BY <2>2 DEF Invokes, InvokeNext
    <3>4. QED BY <3>1, <3>2, <3>3 DEF CallerInv, TypeOK
  <2>3. CASE Unwind(c)
    BY <2>3 DEF Unwind, Resumed, CallerInv, TypeOK
  <2>4. QED BY <1>2, <2>1, <2>2, <2>3, CallerSteps
<1>3. ASSUME NEW r \in Receivers, ReceiverStep(r) PROVE CallerInv'
  BY <1>1, <1>3 DEF ReceiverStep, ReceiverMoves, StartReceiver, InvokePrev, Returned, EndReceiver
<1>4. ASSUME NEW p \in Pipes, Visible(p) PROVE CallerInv'
  BY <1>1, <1>4 DEF Visible
<1>5. ASSUME OwnerStep PROVE CallerInv'
  BY <1>1, <1>5 DEF OwnerStep, PipePush, PipePop, PopDone, BeginDestroy, JoinReceivers,
     SpuriousWakeup, WaitOn, JoinCallers, OwnerMoves
<1>6. QED BY <1>1, <1>2, <1>3, <1>4, <1>5 DEF Next, vars

\* The receivers.
LEMMA ReceiversStep == TypeOK /\ ReceiverInv /\ [Next]_vars => ReceiverInv'
<1> SUFFICES ASSUME TypeOK, ReceiverInv, [Next]_vars PROVE ReceiverInv'
  OBVIOUS
<1>1. ASSUME UNCHANGED up, owner' = owner \/ owner \notin {"running", "joining"}
      PROVE  ReceiverInv'
  BY <1>1 DEF ReceiverInv
<1>2. ASSUME NEW c \in Callers, CallerStep(c) PROVE ReceiverInv'
  <2>1. CASE QuietStep(c)
    BY <1>1, <2>1 DEF QuietStep
  <2>2. CASE \E p \in Pipes : Invokes(c, p)
    BY <1>1, <2>2 DEF Invokes, InvokeNext
  <2>3. CASE Unwind(c)
    BY <1>1, <2>3 DEF Unwind
  <2>4. QED BY <1>2, <2>1, <2>2, <2>3, CallerSteps
<1>3. ASSUME NEW r \in Receivers, ReceiverStep(r) PROVE ReceiverInv'
  <2>1. \/ owner \in {"running", "joining"}
        \/ up' = [up EXCEPT ![r] = Off]
    BY <1>3 DEF ReceiverStep, ReceiverMoves, StartReceiver, InvokePrev, Returned,
       EndReceiver, ReceiverInv
  <2>2. owner' = owner /\ \E to : up' = [up EXCEPT ![r] = to]
    BY <1>3 DEF ReceiverStep, ReceiverMoves, StartReceiver, InvokePrev, Returned, EndReceiver
  <2>3. QED BY <2>1, <2>2 DEF ReceiverInv, TypeOK
<1>4. ASSUME NEW p \in Pipes, Visible(p) PROVE ReceiverInv'
  BY <1>1, <1>4 DEF Visible
<1>5. CASE PipePush \/ PipePop \/ PopDone \/ SpuriousWakeup \/ WaitOn \/ JoinCallers
  BY <1>1, <1>5 DEF PipePush, PipePop, PopDone, SpuriousWakeup, WaitOn, JoinCallers, OwnerMoves
<1>6. CASE BeginDestroy \/ JoinReceivers
  BY <1>6 DEF BeginDestroy, JoinReceivers, OwnerMoves, ReceiverInv
<1>7. CASE UNCHANGED vars
  BY <1>1, <1>7 DEF vars
<1>8. QED BY <1>2, <1>3, <1>4, <1>5, <1>6, <1>7 DEF Next, OwnerStep

\* The owner sleeps only beside calls that will wake it.
LEMMA WakeStep ==
  TypeOK /\ ChainInv /\ CallerInv /\ OwnerIsWoken /\ [Next]_vars => OwnerIsWoken'
<1> SUFFICES ASSUME TypeOK, ChainInv, CallerInv, OwnerIsWoken, [Next]_vars,
                    owner' = "asleep"
             PROVE  num'[at' - 1] # 0
  BY DEF OwnerIsWoken, Quiet
<1>0. at - 1 \in Pipes
  BY DEF TypeOK
<1>1. ASSUME UNCHANGED <<num, owner, at>> PROVE num'[at' - 1] # 0
  BY <1>1 DEF OwnerIsWoken, Quiet
<1>2. ASSUME NEW c \in Callers, CallerStep(c) PROVE num'[at' - 1] # 0
  <2>1. CASE QuietStep(c)
    BY <1>1, <2>1 DEF QuietStep
  <2>2. CASE \E p \in Pipes : Invokes(c, p)
    BY <1>0, <2>2 DEF Invokes, InvokeNext, Counted, OwnerIsWoken, Quiet, TypeOK
  <2>3. CASE Unwind(c)
    <3> PICK p \in Pipes : p = depth[c] - 1
      BY <2>3 DEF Unwind, CallerInv, TypeOK
    <3>1. owner = "asleep" /\ at' = at /\ ~ (LastCall(p) /\ at = p + 1)
      BY <2>3 DEF Unwind
    <3>2. num' = [num EXCEPT ![p] = num[p] - 1]
      BY <2>3 DEF Unwind, Discounted
    <3>3. num[at - 1] # 0 /\ detaching[at - 1]
      BY <3>1 DEF OwnerIsWoken, Quiet, ChainInv
    <3>4. CASE p = at - 1
      BY <1>0, <3>1, <3>2, <3>3, <3>4 DEF LastCall, TypeOK
    <3>5. CASE p # at - 1
      BY <1>0, <3>1, <3>2, <3>3, <3>5 DEF TypeOK
    <3>6. QED BY <3>4, <3>5
  <2>4. QED BY <1>2, <2>1, <2>2, <2>3, CallerSteps
<1>3. ASSUME NEW r \in Receivers, ReceiverStep(r) PROVE num'[at' - 1] # 0
  BY <1>1, <1>3 DEF ReceiverStep, ReceiverMoves, StartReceiver, InvokePrev, Returned, EndReceiver
<1>4. ASSUME NEW p \in Pipes, Visible(p) PROVE num'[at' - 1] # 0
  BY <1>1, <1>4 DEF Visible
<1>5. CASE PipePush \/ PopDone \/ BeginDestroy \/ JoinReceivers \/ SpuriousWakeup \/ JoinCallers
  BY <1>1, <1>5 DEF PipePush, PopDone, BeginDestroy, JoinReceivers, SpuriousWakeup,
     JoinCallers, OwnerMoves
<1>6. CASE PipePop \/ WaitOn
  BY <1>6 DEF PipePop, WaitOn, OwnerMoves, Quiet
<1>7. CASE UNCHANGED vars
  BY <1>1, <1>7 DEF vars
<1>8. QED BY <1>2, <1>3, <1>4, <1>5, <1>6, <1>7 DEF Next, OwnerStep

\* A call into a pipe is counted in the pipe before it.
LEMMA CallsAreCounted ==
  ASSUME TypeOK, CallerInv, CountsCalls, NEW c \in Callers, NEW p \in 1..Last, In(c, p)
  PROVE  num[p - 1] # 0
<1>1. p - 1 < depth[c] /\ p - 1 \in Pipes
  <2>0. depth[c] \in 0..Last
    BY DEF TypeOK
  <2>1. CASE p < depth[c]
    BY <2>1, <2>0
  <2>2. CASE pc[c] = "calling" /\ target[c] = p
    BY <2>0, <2>2 DEF CallerInv
  <2>3. CASE pc[c] = "inside" /\ p = Last
    BY <2>0, <2>3 DEF CallerInv
  <2>4. QED BY <2>1, <2>2, <2>3 DEF In
<1>2. c \in Pending(p - 1) /\ IsFiniteSet(Pending(p - 1))
  BY <1>1, FS_Subset DEF Pending
<1>3. Cardinality(Pending(p - 1)) # 0
  BY <1>2, FS_EmptySet
<1>4. QED BY <1>1, <1>3 DEF CountsCalls

\* A call gets into a pipe only through the link of the pipe before it.
LEMMA NewCalls ==
  ASSUME TypeOK, ChainInv, CallerInv, [Next]_vars,
         NEW c \in Callers, NEW p \in 1..Last, In(c, p)'
  PROVE  In(c, p) \/ (next[p - 1] = p /\ UNCHANGED attached)
<1>1. ASSUME UNCHANGED callerVars PROVE In(c, p)
  BY <1>1 DEF In
<1>2. ASSUME NEW d \in Callers, CallerStep(d)
      PROVE  In(c, p) \/ (next[p - 1] = p /\ UNCHANGED attached)
  <2>1. CASE QuietStep(d)
    BY <2>1 DEF QuietStep, In, CallerInv, TypeOK
  <2>2. ASSUME NEW q \in Pipes, Invokes(d, q)
        PROVE  In(c, p) \/ (next[p - 1] = p /\ UNCHANGED attached)
    <3>1. depth[d] = q /\ q < Last /\ depth' = [depth EXCEPT ![d] = q + 1]
      BY <2>2, InvokeDepth
    <3>2. /\ pc' = [pc EXCEPT ![d] = "calling"]
          /\ target' = [target EXCEPT ![d] = next[q]]
          /\ UNCHANGED attached
      BY <2>2 DEF Invokes, InvokeNext
    <3>3. next[q] \in {q + 1, NotReady}
      BY DEF ChainInv
    <3>4. q > 0 => In(d, q)
      BY <2>2 DEF Invokes, In
    <3>5. CASE c = d
      BY <3>1, <3>2, <3>3, <3>4, <3>5 DEF In, TypeOK
    <3>6. CASE c # d
      BY <3>1, <3>2, <3>6 DEF In, TypeOK
    <3>7. QED BY <3>5, <3>6
  <2>3. CASE Unwind(d)
    BY <2>3 DEF Unwind, Resumed, In, TypeOK
  <2>4. QED BY <1>2, <2>1, <2>2, <2>3, CallerSteps
<1>3. ASSUME NEW r \in Receivers, ReceiverStep(r) PROVE In(c, p)
  BY <1>1, <1>3 DEF ReceiverStep, ReceiverMoves, StartReceiver, InvokePrev, Returned, EndReceiver
<1>4. ASSUME NEW q \in Pipes, Visible(q) PROVE In(c, p)
  BY <1>1, <1>4 DEF Visible
<1>5. ASSUME OwnerStep PROVE In(c, p)
  BY <1>1, <1>5 DEF OwnerStep, PipePush, PipePop, PopDone, BeginDestroy, JoinReceivers,
     SpuriousWakeup, WaitOn, JoinCallers, OwnerMoves
<1>6. QED BY <1>1, <1>2, <1>3, <1>4, <1>5 DEF Next, vars

\* A pipe leaves the chain only when its counter is zero.
LEMMA Leaving ==
  ASSUME TypeOK, ChainInv, [Next]_vars, NEW p \in attached, p \notin attached'
  PROVE  num[p - 1] = 0 /\ UNCHANGED callerVars /\ owner = "awake"
<1>1. ASSUME UNCHANGED attached PROVE FALSE
  BY <1>1
<1>2. ASSUME NEW c \in Callers, CallerStep(c) PROVE FALSE
  <2>1. CASE QuietStep(c)
    BY <1>1, <2>1 DEF QuietStep
  <2>2. CASE \E q \in Pipes : Invokes(c, q)
    BY <1>1, <2>2 DEF Invokes, InvokeNext
  <2>3. CASE Unwind(c)
    BY <1>1, <2>3 DEF Unwind
  <2>4. QED BY <1>2, <2>1, <2>2, <2>3, CallerSteps
<1>3. ASSUME NEW r \in Receivers, ReceiverStep(r) PROVE FALSE
  BY <1>1, <1>3 DEF ReceiverStep, ReceiverMoves, StartReceiver, InvokePrev, Returned, EndReceiver
<1>4. ASSUME NEW q \in Pipes, Visible(q) PROVE FALSE
  BY <1>1, <1>4 DEF Visible
<1>5. ASSUME PipePush PROVE FALSE
  BY <1>5 DEF PipePush
<1>6. CASE PopDone
  BY <1>6 DEF PopDone, Quiet
<1>7. ASSUME PipePop \/ BeginDestroy \/ JoinReceivers \/ SpuriousWakeup \/ WaitOn \/ JoinCallers
      PROVE  FALSE
  BY <1>1, <1>7 DEF PipePop, BeginDestroy, JoinReceivers, SpuriousWakeup, WaitOn,
     JoinCallers, OwnerMoves
<1>8. QED BY <1>1, <1>2, <1>3, <1>4, <1>5, <1>6, <1>7 DEF Next, OwnerStep, vars

LEMMA DetachStep == IInv /\ [Next]_vars => NoCallIntoDetached'
<1> SUFFICES ASSUME IInv, [Next]_vars PROVE NoCallIntoDetached'
  OBVIOUS
<1> USE DEF IInv
<1>1. ASSUME NEW c \in Callers, NEW p \in 1..Last, In(c, p)' PROVE p \in attached'
  <2>1. CASE In(c, p)
    <3>1. p \in attached /\ num[p - 1] # 0
      BY <2>1, CallsAreCounted DEF NoCallIntoDetached
    <3>2. QED BY <3>1, Leaving
  <2>2. CASE next[p - 1] = p /\ UNCHANGED attached
    BY <2>2 DEF ChainInv, Linked, Top, TypeOK
  <2>3. QED BY <1>1, <2>1, <2>2, NewCalls
<1>2. ASSUME NEW r \in Receivers, NEW p \in 1..Last, up'[r] = p PROVE p \in attached'
  <2>1. owner' \in {"running", "joining"} /\ ChainInv' /\ TypeOK'
    BY <1>2, ReceiversStep, ChainStep, TypeStep DEF ReceiverInv
  <2>2. Top' = Last
    BY <2>1 DEF ChainInv, Top
  <2>3. QED BY <2>1, <2>2 DEF ChainInv
<1>3. QED BY <1>1, <1>2 DEF NoCallIntoDetached

LEMMA IInvStep == IInv /\ [Next]_vars => IInv'
  BY TypeStep, ChainStep, CallersStep, ReceiversStep, CountsStep, DetachStep, WakeStep
  DEF IInv

-----------------------------------------------------------------------------
(* The theorems.                                                           *)

THEOREM PipeInvariance == Spec => []IInv
  BY IInvInit, IInvStep, PTL DEF Spec

\* The variables of the chain keep their types.
THEOREM PipeTypeCorrect == Spec => []TypeOK
  BY PipeInvariance, PTL DEF IInv

\* _numCallsToNext is the number of calls that are pending in a pipe.
THEOREM CountersCount == Spec => []CountsCalls
  BY PipeInvariance, PTL DEF IInv

\* When pipePop returns nobody is in the detached pipe or on the way there.
THEOREM DetachedIsQuiet == Spec => []NoCallIntoDetached
  BY PipeInvariance, PTL DEF IInv

\* pipePop is woken when the last call is over.
THEOREM PopIsWoken == Spec => []OwnerIsWoken
  BY PipeInvariance, PTL DEF IInv

\* The RASSERTs of pipePush and pipePop hold.
THEOREM PipeAssertsHold == Spec => []AssertsHold
<1>1. IInv => AssertsHold
  BY DEF IInv, AssertsHold, ChainInv, TypeOK, Top, Linked
<1>2. QED BY <1>1, PipeInvariance, PTL

\* No call gets into a pipe that is being detached.
THEOREM DetachingAdmitsNone == Spec => NoNewCalls
<1>1. ASSUME IInv, [Next]_vars
      PROVE  [\A c \in Callers, p \in 1..Last :
                detaching[p - 1] /\ In(c, p)' => In(c, p)]_vars
  <2>1. ASSUME NEW c \in Callers, NEW p \in 1..Last, detaching[p - 1], In(c, p)'
        PROVE  In(c, p)
    <3>1. next[p - 1] # p
      BY <1>1, <2>1 DEF IInv, ChainInv, Linked, Top, TypeOK
    <3>2. QED BY <1>1, <2>1, <3>1, NewCalls DEF IInv
  <2>2. QED BY <2>1
<1>2. QED BY <1>1, PipeInvariance, PTL DEF Spec, NoNewCalls
=============================================================================
