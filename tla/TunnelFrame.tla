----------------------------- MODULE TunnelFrame -----------------------------
(***************************************************************************)
(* The format of a tunnel frame, native/common/tunnel_frame.{h,cpp}: what  *)
(* TunnelFrameWriter lays out in a buffer and where TunnelFrameReader goes *)
(* in it.  Positions are bytes from the start of the buffer.  Of the       *)
(* contents only the separators matter: `at` tells, for every position of  *)
(* a separator, the datagram that follows it.                              *)
(***************************************************************************)
EXTENDS Naturals

CONSTANTS
  HeaderInfoSize,   \* sizeof(TunnelFrameHeaderInfo)
  HeaderSize,       \* sizeof(TunnelFrameHeader)
  SeparatorSize,    \* sizeof(TunnelFrameDatagramSeparator)
  FrameMax,         \* kTunnelFrameMaxSize
  Size              \* the size of each datagram

ASSUME FormatAssumption ==
  /\ HeaderInfoSize \in Nat \ {0}
  /\ HeaderSize \in Nat
  /\ HeaderInfoSize <= HeaderSize
  /\ SeparatorSize \in Nat \ {0}
  /\ FrameMax \in Nat

ASSUME SizeAssumption == \A d \in DOMAIN Size : Size[d] \in Nat

Datagrams == DOMAIN Size

-----------------------------------------------------------------------------
(* The writer: the end of its buffer, its cursor, what it has written.     *)

NewWriter(bufSize) ==
  [end |-> bufSize, current |-> HeaderSize, at |-> [o \in {} |-> 0]]

remainingBytes(w) ==
  IF w.end < w.current + SeparatorSize THEN 0
                                       ELSE w.end - (w.current + SeparatorSize)

\* The cursor after a datagram; and when its separator is not counted.
PastDataOnly(o, d) == o + Size[d]

PastDatagram(o, d) == o + SeparatorSize + Size[d]

onDatagramWritten(w, d) ==
  [end |-> w.end,
   current |-> PastDatagram(w.current, d),
   at |-> [o \in DOMAIN w.at \cup {w.current} |-> IF o = w.current THEN d ELSE w.at[o]]]

\* The frame that is left in the buffer: its desc.size and its contents.
close(w) == [size |-> w.current, at |-> w.at]

-----------------------------------------------------------------------------
(* The reader: its cursor is 0 (_begin) before the first call of next.     *)

\* Where next() moves the cursor.
Advance(f, cursor) ==
  IF cursor = 0 THEN HeaderSize
  ELSE IF cursor < f.size THEN PastDatagram(cursor, f.at[cursor]) ELSE cursor

\* next() throws, "Badly formatted frame".
BadlyFormatted(f, cursor) == Advance(f, cursor) > f.size

\* next() returns true: there is a datagram at the new position.
HasNext(f, cursor) == Advance(f, cursor) < f.size

-----------------------------------------------------------------------------
(* What writer and reader rely on.                                         *)

\* The datagrams follow each other from the end of the header up to `end`.
Chained(at, end) ==
  /\ HeaderSize \in DOMAIN at \cup {end}
  /\ \A o \in DOMAIN at :
       /\ o \in HeaderSize..end
       /\ o < end
       /\ at[o] \in Datagrams
       /\ PastDatagram(o, at[o]) \in DOMAIN at \cup {end}
       /\ \A p \in DOMAIN at : o < p => PastDatagram(o, at[o]) <= p

WriterOK(w) ==
  /\ w.end \in Nat
  /\ w.current \in Nat
  /\ HeaderSize <= w.current
  /\ w.current <= w.end
  /\ Chained(w.at, w.current)

WellFormed(f) ==
  /\ f.size \in Nat
  /\ HeaderSize <= f.size
  /\ f.size <= FrameMax
  /\ Chained(f.at, f.size)
=============================================================================
