--------------------------- MODULE SocketStreams ---------------------------
(***************************************************************************)
(* The ring buffers between a connection and its socket: what              *)
(* socket_input_stream.cpp and socket_output_stream.cpp do to them.  A     *)
(* ring never holds more than size - 1 bytes, since head = tail is empty.  *)
(***************************************************************************)
EXTENDS Integers, Sequences

CONSTANTS
  Byte,    \* what a cell can hold
  Blank    \* what a cell holds before it is written

Larger(a, b)  == IF a >= b THEN a ELSE b
Smaller(a, b) == IF a <= b THEN a ELSE b

(* initsize                                                                *)
EmptyRing(n) == [size |-> n, head |-> 0, tail |-> 0, cells |-> [i \in 0..n-1 |-> Blank]]

IsRing(r) ==
  /\ r.size \in Nat /\ r.size > 0
  /\ r.head \in 0..r.size-1 /\ r.tail \in 0..r.size-1
  /\ r.cells \in [0..r.size-1 -> Byte]

(* _length                                                                 *)
Length(r) == IF r.head <= r.tail THEN r.tail - r.head ELSE r.size - r.head + r.tail

(* The bytes a ring holds, in order; read copies the first of them out in  *)
(* one piece or, across the end of the buffer, in two.                     *)
First(r, n) == [i \in 1..n |-> r.cells[(r.head + i - 1) % r.size]]
DropUnwrapped(r, n) == [r EXCEPT !.head = r.head + n]
Drop(r, n)  == [r EXCEPT !.head = (r.head + n) % r.size]

(* How far a cell is behind the tail, and bytes stored there.              *)
Behind(r, i) == IF i >= r.tail THEN i - r.tail ELSE i + r.size - r.tail
Put(r, bytes) ==
  [r EXCEPT !.tail = (r.tail + Len(bytes)) % r.size,
            !.cells = [i \in 0..r.size-1 |-> IF Behind(r, i) < Len(bytes)
                                             THEN bytes[Behind(r, i) + 1] ELSE r.cells[i]]]

ResizeFromCellZero(r, more) ==
  LET n == r.size + Larger(r.size \div 2, more) IN
  [size |-> n, head |-> 0, tail |-> Length(r),
   cells |-> [i \in 0..n-1 |-> IF i < Length(r) THEN r.cells[i] ELSE Blank]]

(* resize: by half the buffer or by what is needed, unrolled from cell 0.  *)
Resize(r, more) ==
  LET n == r.size + Larger(r.size \div 2, more) IN
  [size |-> n, head |-> 0, tail |-> Length(r),
   cells |-> [i \in 0..n-1 |-> IF i < Length(r) THEN r.cells[(r.head + i) % r.size]
                                                ELSE Blank]]

-----------------------------------------------------------------------------
(* socket_output_stream                                                    *)
FreeBehindTail(r) == r.size - 1 - r.tail
Free(r) == r.size - 1 - Length(r)

Write(r, bytes) ==
  IF Len(bytes) >= Free(r) THEN Put(Resize(r, Len(bytes) - Free(r) + 1), bytes)
                           ELSE Put(r, bytes)

(* flush, when the kernel accepted n bytes: all of them, or some before it *)
(* would block, at either side of the end of the buffer.                   *)
Flushed(r, n) ==
  IF n = Length(r) THEN [r EXCEPT !.head = 0, !.tail = 0] ELSE Drop(r, n)

-----------------------------------------------------------------------------
(* socket_input_stream: fill takes what has arrived, into the free cells   *)
(* and, when those are full, into a larger buffer unless that would exceed *)
(* max.                                                                    *)
TooMuch(r, bytes, max) ==
  /\ Len(bytes) > Free(r)
  /\ r.size + (Len(bytes) - Free(r)) + 1 > max

Fill(r, bytes) ==
  IF Len(bytes) <= Free(r) THEN Put(r, bytes)
  ELSE LET full == Put(r, SubSeq(bytes, 1, Free(r)))
           rest == SubSeq(bytes, Free(r) + 1, Len(bytes))
       IN Put(Resize(full, Len(rest) + 1), rest)

(* The second receive of a fill, in the cells before the head, finds       *)
(* nothing more.                                                           *)
FillStopsAtTheEnd(r, n) ==
  /\ 1 < r.head /\ r.head <= r.tail
  /\ n = r.size - r.tail
=============================================================================
