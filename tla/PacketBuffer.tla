---------------------------- MODULE PacketBuffer ----------------------------
(***************************************************************************)
(* The packet buffer of a connection, socket_handler.cpp: bytes are read   *)
(* into it from the input stream, and whole packets taken out of it in     *)
(* place.  It has room to wrap round, and it moves what is left to its     *)
(* front when the read index has gone far enough.                          *)
(***************************************************************************)
EXTENDS Integers, Sequences

CONSTANTS
  Byte, Blank,
  BufferSize,    \* MAX_PACKET_BUFFER_SIZE, 196608
  ReadSize,      \* MAX_PACKET_READ_SIZE, 30000
  MoveForward,   \* MAX_PACKET_BUFFER_MOVE_FORWARD_SIZE, 100000
  HeaderLen,     \* sizeof(packet_base)
  MaxPacket,     \* the largest m_len, 65535
  LenAt(_)       \* the m_len of the packet that starts with this byte

EmptyBuffer ==
  [read |-> 0, write |-> 0, max |-> 0, cells |-> [i \in 0..BufferSize-1 |-> Blank]]

Buffers ==
  [read: 0..BufferSize, write: 0..BufferSize, max: 0..BufferSize,
   cells: [0..BufferSize-1 -> Byte]]

-----------------------------------------------------------------------------
(* buffer(len): where the next len bytes go.  At the end of the buffer     *)
(* they go to its front, and the bytes that are there are not looked at.   *)
Wraps(b, n) == b.write + n >= BufferSize
Overruns(b, n) == b.write + n > b.read /\ b.write + n < b.max

Place(b, n) == IF Wraps(b, n) \/ Overruns(b, n) THEN 0 ELSE b.write

Reserved(b, n) ==
  IF Wraps(b, n) THEN [b EXCEPT !.max = b.write, !.write = n]
  ELSE [b EXCEPT !.write = b.write + n,
                 !.max = IF ~Overruns(b, n) /\ b.max < b.write + n THEN b.write + n ELSE b.max]

(* What unpack_packets reads, stored where buffer(len) said.               *)
Stored(b, bytes) ==
  LET at == Place(b, Len(bytes)) IN
  [Reserved(b, Len(bytes)) EXCEPT
     !.cells = [i \in 0..BufferSize-1 |-> IF i >= at /\ i < at + Len(bytes)
                                          THEN bytes[i - at + 1] ELSE b.cells[i]]]

-----------------------------------------------------------------------------
(* unpack_packet: back to the front when the wrapped part has been read,   *)
(* then the packet at the read index, if it is whole.                      *)
Turned(b) ==
  IF b.read = b.max /\ b.read > b.write THEN [b EXCEPT !.read = 0, !.max = b.write] ELSE b

PacketLen(b) == LenAt(b.cells[b.read])

HasPacket(b) ==
  /\ b.max - b.read >= HeaderLen
  /\ b.max - b.read >= PacketLen(b)

(* The bytes after n, moved to the front.                                  *)
Moved(b, n) ==
  [read |-> 0, write |-> b.write - n, max |-> b.max - n,
   cells |-> [i \in 0..BufferSize-1 |-> IF i < b.max - n THEN b.cells[n + i] ELSE b.cells[i]]]

UnpackedInPlace(b) == [b EXCEPT !.read = b.read + PacketLen(b)]
Unpacked(b) ==
  LET n == b.read + PacketLen(b) IN
  IF n > MoveForward THEN Moved(b, n) ELSE [b EXCEPT !.read = n]

(* The packet is handed out as a pointer into the buffer, and copied from  *)
(* there when the buffer may have moved: b before the move, c after it.    *)
PacketIn(b, c) == [i \in 1..PacketLen(b) |-> c.cells[b.read + i - 1]]
=============================================================================
