--------------------------- MODULE TunnelFramePipe ---------------------------
(***************************************************************************)
(* TunnelFramePipe of native/common/tunnel_frame.{h,cpp}: the chain that   *)
(* takes frames from the tunnel to the socket and back.  Pipe 0 is the     *)
(* TunnelProducerConsumer, the pipe Last the SocketProducerConsumer, the   *)
(* ones between them transform frames (compression, signature).            *)
(*                                                                         *)
(* One thread, the owner, attaches the pipes one after the other and later *)
(* detaches them from the last to the first.  Meanwhile the threads of the *)
(* front pipe (Callers) call down the chain and those of the last one      *)
(* (Receivers) up.  A critical section of a pipe's _mutex is one action.   *)
(***************************************************************************)
EXTENDS Naturals, FiniteSets

CONSTANTS
  Callers,      \* threads of the front pipe
  Receivers,    \* threads of the last pipe
  Last,         \* the pipes behind the front one are 1..Last
  StoresOrdered \* are the stores of a constructor seen before the pointer to
                \* the object is?  TRUE on x86, FALSE on ARM

ASSUME CallersAssumption == IsFiniteSet(Callers)
ASSUME LastAssumption == Last \in Nat \ {0}
ASSUME StoresAssumption == StoresOrdered \in BOOLEAN

Pipes == 0..Last

\* kNotYetReadyTunnelFramePipe; and a receiver that does not run.
NotReady == Last + 1
Off == Last + 1

VARIABLES
  next,      \* pipe -> _next
  prev,      \* pipe -> _prev
  num,       \* pipe -> _numCallsToNext
  detaching, \* pipe -> _nextIsDetaching
  attached,  \* the pipes between the end of pipePush and the end of pipePop
  unseen,    \* attached pipes whose construction other cores may not see yet
  pc,        \* where each caller is
  depth,     \* caller -> how many pipes it has a pending pipeInvokeNext in
  target,    \* caller -> `next` of its innermost pipeInvokeNext
  up,        \* receiver -> the pipe it is in, on its way to pipe 0
  owner,     \* what the owner is doing
  at,        \* the pipe that the owner attaches or detaches
  fault      \* a caller met a pipe not yet constructed

pipeVars == <<next, prev, num, detaching, attached, unseen>>
callerVars == <<pc, depth, target>>
ownerVars == <<owner, at>>
vars == <<next, prev, num, detaching, attached, unseen, pc, depth, target, up,
          owner, at, fault>>

Unwinding == {"returning", "refused", "throwing"}
CallerStates ==
  {"idle", "ready", "calling", "inside", "backoff", "ended"} \cup Unwinding
OwnerStates ==
  {"attaching", "running", "joining", "detaching", "asleep", "awake", "ending", "gone"}

\* Caller c has a call pending in pipe p, or is about to make one.
In(c, p) ==
  \/ p < depth[c]
  \/ pc[c] = "calling" /\ target[c] = p
  \/ pc[c] = "inside" /\ p = Last

Running == ~ fault /\ UNCHANGED fault

-----------------------------------------------------------------------------
(* Calls down the chain.                                                   *)

\* ++_numCallsToNext; and without it.
NotCounted(p) == num[p]

Counted(p) == num[p] + 1

\* The first critical section of pipeInvokeNext, in pipe p.
InvokeNext(c, p) ==
  /\ num' = [num EXCEPT ![p] = Counted(p)]
  /\ depth' = [depth EXCEPT ![c] = @ + 1]
  /\ target' = [target EXCEPT ![c] = next[p]]
  /\ pc' = [pc EXCEPT ![c] = "calling"]
  /\ UNCHANGED <<next, prev, detaching, attached, unseen, up, ownerVars>>

CallerMoves(c, from, to) ==
  /\ Running
  /\ pc[c] = from
  /\ pc' = [pc EXCEPT ![c] = to]
  /\ UNCHANGED <<pipeVars, depth, target, up, ownerVars>>

\* ~TunnelProducerConsumer has set _interrupted.
Interrupted == owner \in {"ending", "gone"}

\* The front pipe has a frame, new or refused before, and has looked at
\* _interrupted for the last time before it calls.
HaveFrame(c) == ~ Interrupted /\ CallerMoves(c, "idle", "ready")

Retry(c) == ~ Interrupted /\ CallerMoves(c, "backoff", "ready")

Interrupt(c) == Interrupted /\ \E from \in {"idle", "backoff"} : CallerMoves(c, from, "ended")

Invoke(c) ==
  /\ Running
  /\ pc[c] = "ready"
  /\ InvokeNext(c, 0)

\* onTunnelFrameFromPrev of kNotYetReadyTunnelFramePipe throws.
Refuse(c) == target[c] = NotReady /\ CallerMoves(c, "calling", "refused")

\* onTunnelFrameFromPrev of a pipe in the middle is a pipeInvokeNext.
PassOn(c) ==
  /\ Running
  /\ pc[c] = "calling"
  /\ target[c] \in 1..(Last - 1) \ unseen
  /\ InvokeNext(c, target[c])

\* onTunnelFrameFromPrev of the last pipe: it sends the frame, is not ready
\* itself (no session), or fails.
Deliver(c) ==
  /\ target[c] = Last
  /\ Last \notin unseen
  /\ CallerMoves(c, "calling", "inside")

Delivered(c) == \E result \in Unwinding : CallerMoves(c, "inside", result)

\* A caller follows the pointer stored by pipePush, without the mutex, to a
\* pipe whose constructor it does not see: undefined behaviour.
MeetUnseen(c) ==
  /\ ~ fault
  /\ pc[c] = "calling"
  /\ target[c] \in unseen
  /\ fault' = TRUE
  /\ UNCHANGED <<pipeVars, callerVars, up, ownerVars>>

\* What follows the outermost pipeInvokeNext in _receiveFromTunnelLoop.
Resumed(c) ==
  CASE pc[c] = "returning" -> "idle"
    [] pc[c] = "refused" -> "backoff"
    [] pc[c] = "throwing" -> "ended"

\* The condition under which the guard of pipeInvokeNext in p notifies; and
\* the one that looks at the count before it is decremented.
LastCallBefore(p) == num[p] = 0 /\ detaching[p]

LastCall(p) == num[p] = 1 /\ detaching[p]

\* --_numCallsToNext runs on every way out of the call; and only on return.
DiscountedIfReturned(c, p) == IF pc[c] = "returning" THEN num[p] - 1 ELSE num[p]

Discounted(c, p) == num[p] - 1

\* The guard `sg` of the innermost pending pipeInvokeNext.
Unwind(c) ==
  LET p == depth[c] - 1 IN
  /\ Running
  /\ pc[c] \in Unwinding
  /\ num' = [num EXCEPT ![p] = Discounted(c, p)]
  /\ depth' = [depth EXCEPT ![c] = @ - 1]
  /\ pc' = [pc EXCEPT ![c] = IF p = 0 THEN Resumed(c) ELSE @]
  /\ owner' = IF LastCall(p) /\ owner = "asleep" /\ at = p + 1 THEN "awake" ELSE owner
  /\ UNCHANGED <<next, prev, detaching, attached, unseen, target, up, at>>

-----------------------------------------------------------------------------
(* Calls up the chain.                                                     *)

ReceiverMoves(r, to) ==
  /\ Running
  /\ up' = [up EXCEPT ![r] = to]
  /\ UNCHANGED <<pipeVars, callerVars, ownerVars>>

\* A thread of the last pipe begins to serve a connection.
StartReceiver(r) == owner = "running" /\ up[r] = Off /\ ReceiverMoves(r, Last)

\* pipeInvokePrev, without any lock.
InvokePrev(r) == up[r] \in 1..Last /\ ReceiverMoves(r, prev[up[r]])

\* The front pipe has written the datagrams.
Returned(r) == up[r] = 0 /\ ReceiverMoves(r, Last)

\* The connection is over or interrupted, or the front pipe threw.
EndReceiver(r) == up[r] \in {0, Last} /\ ReceiverMoves(r, Off)

-----------------------------------------------------------------------------
(* The owner.                                                              *)

\* pipePush in the constructor of pipe `at`; then the next one.
PipePush ==
  /\ Running
  /\ owner = "attaching"
  /\ prev' = [prev EXCEPT ![at] = at - 1]
  /\ next' = [next EXCEPT ![at - 1] = at]
  /\ attached' = attached \cup {at}
  /\ unseen' = IF StoresOrdered THEN unseen ELSE unseen \cup {at}
  /\ IF at = Last THEN owner' = "running" /\ UNCHANGED at
                  ELSE at' = at + 1 /\ UNCHANGED owner
  /\ UNCHANGED <<num, detaching, callerVars, up>>

Visible(p) ==
  /\ Running
  /\ p \in unseen
  /\ unseen' = unseen \ {p}
  /\ UNCHANGED <<next, prev, num, detaching, attached, callerVars, up, ownerVars>>

OwnerMoves(from, to) ==
  /\ Running
  /\ owner = from
  /\ owner' = to
  /\ UNCHANGED <<pipeVars, callerVars, up, at>>

\* ~SocketProducerConsumer interrupts its receivers and joins them.
BeginDestroy == OwnerMoves("running", "joining")

JoinReceivers == (\A r \in Receivers : up[r] = Off) /\ OwnerMoves("joining", "detaching")

\* The new _next of the pipe above; and when it is left as it was.
Kept(p) == p

Detached(p) == NotReady

\* The predicate of the wait in pipePop of pipe p; and when there is none.
NoWait(p) == TRUE

Quiet(p) == num[p - 1] = 0

\* pipePop of pipe `at` locks the mutex of the pipe above and waits.
PipePop ==
  /\ Running
  /\ owner = "detaching"
  /\ detaching' = [detaching EXCEPT ![at - 1] = TRUE]
  /\ next' = [next EXCEPT ![at - 1] = Detached(at)]
  /\ owner' = IF Quiet(at) THEN "awake" ELSE "asleep"
  /\ UNCHANGED <<prev, num, attached, unseen, callerVars, up, at>>

SpuriousWakeup == OwnerMoves("asleep", "awake")

\* The wait ends and pipePop returns; the owner goes on with the pipe above,
\* or with ~TunnelProducerConsumer.
PopDone ==
  /\ Running
  /\ owner = "awake"
  /\ Quiet(at)
  /\ prev' = [prev EXCEPT ![at] = NotReady]
  /\ attached' = attached \ {at}
  /\ unseen' = unseen \ {at}
  /\ IF at = 1 THEN owner' = "ending" /\ UNCHANGED at
               ELSE owner' = "detaching" /\ at' = at - 1
  /\ UNCHANGED <<next, num, detaching, callerVars, up>>

WaitOn == ~ Quiet(at) /\ OwnerMoves("awake", "asleep")

JoinCallers == (\A c \in Callers : pc[c] = "ended") /\ OwnerMoves("ending", "gone")

-----------------------------------------------------------------------------
Init ==
  /\ next = [p \in Pipes |-> NotReady]
  /\ prev = [p \in Pipes |-> NotReady]
  /\ num = [p \in Pipes |-> 0]
  /\ detaching = [p \in Pipes |-> FALSE]
  /\ attached = {}
  /\ unseen = {}
  /\ pc = [c \in Callers |-> "idle"]
  /\ depth = [c \in Callers |-> 0]
  /\ target = [c \in Callers |-> NotReady]
  /\ up = [r \in Receivers |-> Off]
  /\ owner = "attaching"
  /\ at = 1
  /\ fault = FALSE

\* The steps of a call that has begun.
CallStep(c) ==
  \/ Invoke(c)
  \/ Refuse(c)
  \/ PassOn(c)
  \/ Deliver(c)
  \/ Delivered(c)
  \/ Unwind(c)

CallerStep(c) ==
  \/ HaveFrame(c)
  \/ CallStep(c)
  \/ MeetUnseen(c)
  \/ Retry(c)
  \/ Interrupt(c)

ReceiverStep(r) ==
  \/ StartReceiver(r)
  \/ InvokePrev(r)
  \/ Returned(r)
  \/ EndReceiver(r)

OwnerStep ==
  \/ PipePush
  \/ BeginDestroy
  \/ JoinReceivers
  \/ PipePop
  \/ SpuriousWakeup
  \/ PopDone
  \/ WaitOn
  \/ JoinCallers

Next ==
  \/ \E c \in Callers : CallerStep(c)
  \/ \E r \in Receivers : ReceiverStep(r)
  \/ \E p \in Pipes : Visible(p)
  \/ OwnerStep

Spec == Init /\ [][Next]_vars

\* While the owner waits, the refused calls do not overlap for ever: each is
\* over in no time and its thread then sleeps for five seconds.
Lulls ==
  []<>(owner \in {"asleep", "awake"} => \A c \in Callers : depth[c] = 0)

\* Threads run and calls into the last pipe return.  PopDone needs strong
\* fairness: refused calls go on coming while the owner is awake, with lulls.
\* New calls and the decision to destroy the chain are not fair; that
\* receivers end is what ~SocketProducerConsumer waits for.
FairSpec ==
  /\ Spec
  /\ \A c \in Callers : WF_vars(CallStep(c)) /\ WF_vars(Retry(c)) /\ WF_vars(Interrupt(c))
  /\ \A r \in Receivers : WF_vars(InvokePrev(r)) /\ SF_vars(EndReceiver(r))
  /\ \A p \in Pipes : WF_vars(Visible(p))
  /\ WF_vars(PipePush) /\ WF_vars(JoinReceivers) /\ WF_vars(PipePop)
  /\ WF_vars(WaitOn) /\ SF_vars(PopDone) /\ WF_vars(JoinCallers)
  /\ Lulls

-----------------------------------------------------------------------------
(* Properties.                                                             *)

TypeOK ==
  /\ next \in [Pipes -> Pipes \cup {NotReady}]
  /\ prev \in [Pipes -> Pipes \cup {NotReady}]
  /\ num \in [Pipes -> Nat]
  /\ detaching \in [Pipes -> BOOLEAN]
  /\ attached \subseteq Pipes
  /\ unseen \subseteq attached
  /\ pc \in [Callers -> CallerStates]
  /\ depth \in [Callers -> 0..Last]
  /\ target \in [Callers -> Pipes \cup {NotReady}]
  /\ up \in [Receivers -> Pipes \cup {Off}]
  /\ owner \in OwnerStates
  /\ at \in 1..Last
  /\ fault \in BOOLEAN

\* The callers with a call pending in pipe p.
Pending(p) == {c \in Callers : p < depth[c]}

\* What pipePop waits for is what it must wait for: the counter of a pipe is
\* the number of threads with a call pending in it, so that at zero nobody is
\* inside the pipe behind it, nor about to be.
CountsCalls ==
  \A p \in Pipes : num[p] = Cardinality(Pending(p))

\* Nobody is in a pipe, or on the way into one, that is not attached: when
\* pipePop returns the object may be destroyed, whatever calls were in flight
\* when it began and whatever calls came while it waited.
NoCallIntoDetached ==
  /\ \A c \in Callers, p \in 1..Last : In(c, p) => p \in attached
  /\ \A r \in Receivers : up[r] \in 1..Last => up[r] \in attached

\* The RASSERTs of pipePush (lines 169-171) and pipePop (178-179).
AssertsHold ==
  /\ owner = "attaching" =>
       prev[at] = NotReady /\ next[at] = NotReady /\ next[at - 1] = NotReady
  /\ owner = "detaching" => next[at] = NotReady /\ next[prev[at]] = at

\* The owner does not sleep beside a count of zero: _nextIsDetaching is set
\* in the same critical section as _next, so the last guard notifies.
OwnerIsWoken == owner = "asleep" => ~ Quiet(at)

\* A pipe that is being detached lets no new call through to the one behind
\* it, so the calls that pipePop waits for only get fewer.
NoNewCalls ==
  [][\A c \in Callers, p \in 1..Last :
       detaching[p - 1] /\ In(c, p)' => In(c, p)]_vars

\* The destruction of the chain comes to its end although its callers retry
\* for ever: each detached pipe falls quiet, and the callers then see the
\* interruption.
DestructionEnds == owner = "joining" ~> (owner = "gone" \/ fault)
=============================================================================
