---------------------------- MODULE FrameChannel -----------------------------
(***************************************************************************)
(* What TunnelFrameStream promises to its two users: frames are handed     *)
(* over whole, in the order in which they were sent, each at most once,    *)
(* and none before it was sent whole.  Whatever happens to the connection, *)
(* the frames received are a beginning of those sent.                      *)
(***************************************************************************)
EXTENDS Naturals, Sequences

CONSTANTS
  Ends,          \* the two ends of every connection
  Partner(_),    \* the other end
  Frames         \* what may be sent

VARIABLES
  sent,          \* end -> the frames sent from it
  received       \* end -> the frames received at it

TypeOK ==
  /\ sent \in [Ends -> Seq(Frames)]
  /\ received \in [Ends -> Seq(Frames)]

Init ==
  /\ sent = [e \in Ends |-> <<>>]
  /\ received = [e \in Ends |-> <<>>]

Send(e) ==
  /\ \E f \in Frames : sent' = [sent EXCEPT ![e] = Append(@, f)]
  /\ UNCHANGED received

Receive(e) ==
  /\ Len(received[e]) < Len(sent[Partner(e)])
  /\ received' =
       [received EXCEPT ![e] = Append(@, sent[Partner(e)][Len(@) + 1])]
  /\ UNCHANGED sent

Next == \E e \in Ends : Send(e) \/ Receive(e)

Spec == Init /\ [][Next]_<<sent, received>>
=============================================================================
