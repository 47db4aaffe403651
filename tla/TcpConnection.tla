--------------------------- MODULE TcpConnection ---------------------------
(***************************************************************************)
(* One direction of a connection between two processes: the output stream  *)
(* of the sender's net thread, the bytes on their way, and the input       *)
(* stream and packet buffer of the receiver's net thread (tcp_manager.cpp, *)
(* socket.cpp).                                                            *)
(*                                                                         *)
(* A byte is known by its packet, its place in it and the m_len its packet *)
(* starts with, so that a byte that is lost, repeated or out of its place  *)
(* shows in what is unpacked.                                              *)
(***************************************************************************)
EXTENDS Integers, Sequences

CONSTANTS
  Lens,         \* bound: lengths of the packets written
  MaxPackets,   \* bound: packets written
  OutSize, MaxOut,  \* DEFAULT and DISCONNECT sizes of the output buffer
  InSize, MaxIn,    \* and of the input buffer
  Room,         \* bound: bytes the kernels hold
  BufferSize, ReadSize, MoveForward, HeaderLen, MaxPacket

ASSUME SizesAssumption ==
  /\ {MaxPackets, OutSize, MaxOut, InSize, MaxIn, Room} \subseteq Nat \ {0}
  /\ HeaderLen \in Nat \ {0} /\ MaxPacket \in Nat /\ HeaderLen <= MaxPacket
  /\ Lens \subseteq HeaderLen..MaxPacket

(* base_util.h:20: the move forward size leaves room for one packet and    *)
(* one read behind it; a packet and a read also fit before it.             *)
ASSUME BufferAssumption ==
  /\ {BufferSize, ReadSize, MoveForward} \subseteq Nat \ {0}
  /\ MoveForward + MaxPacket + ReadSize <= BufferSize
  /\ MaxPacket + ReadSize <= MoveForward

VARIABLES
  sent,        \* history: the packets written, in order
  out,         \* m_output_stream of the sender
  outLen,      \* its m_output_len, a cached length
  armed,       \* is the write event added?
  sendUp,      \* is the socket in m_sockets of the sender?
  wire,        \* the bytes between send and recv
  ended,       \* what the receiver finds after them: "no", "fin", "reset"
  in,          \* m_input_stream of the receiver
  buf,         \* its packet buffer
  unpacking,   \* is the net thread in the loop of unpack_packets?
  recvUp,      \* is the socket in m_sockets of the receiver?
  delivered    \* the packets put in m_read_packets, in order

sendVars == <<sent, out, outLen, armed, sendUp>>
wireVars == <<wire, ended>>
recvVars == <<in, buf, unpacking, recvUp, delivered>>
vars == <<sendVars, wireVars, recvVars>>

Blank == [pkt |-> 0, off |-> 0, len |-> HeaderLen]
Byte == [pkt: 0..MaxPackets, off: 0..MaxPacket, len: HeaderLen..MaxPacket]
LenAt(byte) == byte.len

Streams == INSTANCE SocketStreams
Packet == INSTANCE PacketBuffer

PacketOf(k, n) == [i \in 1..n |-> [pkt |-> k, off |-> i, len |-> n]]
PacketsWritten == {PacketOf(k, n) : k \in 1..MaxPackets, n \in Lens}

TypeOK ==
  /\ sent \in Seq(PacketsWritten) /\ Len(sent) <= MaxPackets
  /\ Streams!IsRing(out) /\ outLen \in Nat /\ armed \in BOOLEAN /\ sendUp \in BOOLEAN
  /\ wire \in Seq(Byte) /\ Len(wire) <= Room /\ ended \in {"no", "fin", "reset"}
  /\ Streams!IsRing(in) /\ buf \in Packet!Buffers
  /\ unpacking \in BOOLEAN /\ recvUp \in BOOLEAN
  /\ delivered \in Seq(Seq(Byte))

Init ==
  /\ sent = <<>> /\ out = Streams!EmptyRing(OutSize) /\ outLen = 0
  /\ armed = TRUE /\ sendUp = TRUE
  /\ wire = <<>> /\ ended = "no"
  /\ in = Streams!EmptyRing(InSize) /\ buf = Packet!EmptyBuffer
  /\ unpacking = FALSE /\ recvUp = TRUE /\ delivered = <<>>

-----------------------------------------------------------------------------
(* What the kernel may take of the output: something when it has room.     *)
Writable == Len(wire) < Room
Accepted(least) == least..Streams!Smaller(Streams!Length(out), Room - Len(wire))

ArmOnce(len) == armed' = FALSE
Arm(len) == armed' = (len > 0)

(* send_packet                                                             *)
SendPacket(n) ==
  /\ sendUp /\ Len(sent) < MaxPackets
  /\ LET packet == PacketOf(Len(sent) + 1, n) IN
       /\ out' = Streams!Write(out, packet)
       /\ sent' = Append(sent, packet)
  /\ outLen' = Streams!Length(out')
  /\ armed' = TRUE
  /\ UNCHANGED <<sendUp, wireVars, recvVars>>

(* flush, of n bytes.  The cached length is only renewed when all is gone. *)
Flush(n) ==
  /\ wire' = wire \o Streams!First(out, n)
  /\ out' = Streams!Flushed(out, n)
  /\ outLen' = IF n = Streams!Length(out) THEN 0 ELSE outLen

OutputTooBig == out.size > MaxOut

(* del_socket: what is left to send is flushed once more, and the rest of  *)
(* it is lost with the socket.                                             *)
CloseSender ==
  /\ sendUp' = FALSE /\ armed' = FALSE
  /\ out' = Streams!EmptyRing(OutSize) /\ outLen' = 0
  /\ ended' = IF ended = "no" THEN "fin" ELSE ended
  /\ UNCHANGED sent

(* The write event: the socket is writable, and the event has to be added  *)
(* again if there is more to write.                                        *)
OnWrite ==
  /\ sendUp /\ armed /\ Writable /\ ended = "no"
  /\ ~OutputTooBig
  /\ \E n \in Accepted(IF Streams!Length(out) = 0 THEN 0 ELSE 1) : Flush(n)
  /\ Arm(outLen')
  /\ UNCHANGED <<sent, sendUp, ended, recvVars>>

OnWriteTooBig ==
  /\ sendUp /\ armed /\ Writable
  /\ OutputTooBig
  /\ CloseSender
  /\ UNCHANGED <<wire, recvVars>>

(* handle_kick_socket, or a broken connection seen by the sender.          *)
KickSender ==
  /\ sendUp
  /\ IF OutputTooBig \/ ended # "no"
     THEN UNCHANGED wire
     ELSE \E n \in Accepted(0) : wire' = wire \o Streams!First(out, n)
  /\ CloseSender
  /\ UNCHANGED recvVars

-----------------------------------------------------------------------------
(* The connection breaks: some of what is on its way is lost.              *)
Break ==
  /\ ended = "no"
  /\ ended' = "reset"
  /\ \E n \in 0..Len(wire) : wire' = SubSeq(wire, 1, n)
  /\ UNCHANGED <<sendVars, recvVars>>

-----------------------------------------------------------------------------
(* The receiver closes: what it had not unpacked is lost.                  *)
CloseReceiver ==
  /\ recvUp' = FALSE
  /\ wire' = <<>> /\ ended' = IF ended = "no" THEN "reset" ELSE ended
  /\ in' = Streams!EmptyRing(InSize)
  /\ UNCHANGED <<buf, unpacking, delivered>>

(* A read event ends the connection: nothing but its end is there, or its  *)
(* end in the middle of the fill, or more than the input may hold.         *)
EndsWith(n) ==
  \/ n = 0
  \/ n = Len(wire) /\ ended # "no" /\ Streams!FillStopsAtTheEnd(in, n)
  \/ Streams!TooMuch(in, SubSeq(wire, 1, n), MaxIn)

(* The read event, when the first n of the bytes on their way are there.   *)
OnRead ==
  /\ recvUp /\ ~unpacking
  /\ \E n \in 0..Len(wire) :
       /\ n = 0 => wire = <<>> /\ ended # "no"
       /\ IF EndsWith(n) THEN CloseReceiver
          ELSE /\ in' = Streams!Fill(in, SubSeq(wire, 1, n))
               /\ wire' = SubSeq(wire, n + 1, Len(wire))
               /\ UNCHANGED <<ended, buf, unpacking, recvUp, delivered>>
  /\ UNCHANGED sendVars

KickReceiver ==
  /\ recvUp /\ ~unpacking
  /\ CloseReceiver
  /\ UNCHANGED sendVars

(* handle_socket_unpacket: unpack_packets moves at most ReadSize bytes to  *)
(* the packet buffer ...                                                   *)
ReadInput ==
  /\ recvUp /\ ~unpacking
  /\ Streams!Length(in) > 0
  /\ LET n == Streams!Smaller(Streams!Length(in), ReadSize) IN
       /\ buf' = Packet!Stored(buf, Streams!First(in, n))
       /\ in' = Streams!Drop(in, n)
  /\ unpacking' = TRUE
  /\ UNCHANGED <<sendVars, wireVars, recvUp, delivered>>

(* ... and then takes and copies the packets that are whole, one by one.   *)
UnpackPacket ==
  /\ unpacking
  /\ LET b == Packet!Turned(buf) IN
       /\ Packet!HasPacket(b)
       /\ buf' = Packet!Unpacked(b)
       /\ delivered' = Append(delivered, Packet!PacketIn(b, buf'))
  /\ UNCHANGED <<sendVars, wireVars, in, unpacking, recvUp>>

UnpackDone ==
  /\ unpacking
  /\ ~Packet!HasPacket(Packet!Turned(buf))
  /\ buf' = Packet!Turned(buf)
  /\ unpacking' = FALSE
  /\ UNCHANGED <<sendVars, wireVars, in, recvUp, delivered>>

-----------------------------------------------------------------------------
SenderNet   == OnWrite \/ OnWriteTooBig
ReceiverNet == OnRead \/ ReadInput \/ UnpackPacket \/ UnpackDone

Next ==
  \/ \E n \in Lens : SendPacket(n)
  \/ SenderNet \/ KickSender
  \/ Break
  \/ ReceiverNet \/ KickReceiver

Spec == Init /\ [][Next]_vars

(* Both net threads run their loop for ever: event_base_loop finds every   *)
(* event that is due, handle_unpacket visits every socket that has input.  *)
FairSpec ==
  /\ Spec /\ WF_vars(SenderNet)
  /\ WF_vars(OnRead) /\ WF_vars(ReadInput) /\ WF_vars(UnpackPacket \/ UnpackDone)

-----------------------------------------------------------------------------
(* What the sender has still to send is known to its cached length, and    *)
(* its write event is added, although a flush that stops half way leaves   *)
(* the cached length as it was: no packet waits for another to be sent.    *)
UnsentIsScheduled ==
  sendUp /\ Streams!Length(out) > 0 => outLen > 0 /\ armed

(* The packet buffer of a TCP connection never wraps and is never overrun: *)
(* every read finds room behind the bytes not yet unpacked.                *)
BufferNeverWraps ==
  /\ buf.max = buf.write /\ buf.read <= buf.write
  /\ ~unpacking => buf.write + ReadSize < BufferSize

(* The output buffer exceeds the size at which the connection is dropped   *)
(* only with two thirds of that size unsent, although it grows by halves   *)
(* and never shrinks.                                                      *)
OnlyBacklogDrops ==
  [][out.size <= MaxOut /\ out'.size > MaxOut
       => 3 * (Streams!Length(out') + 1) >= 2 * MaxOut]_vars

(* The promise: whole packets, once, in order, and all of them while the   *)
(* connection stands.                                                      *)
Channel == INSTANCE PacketChannel WITH
  Packets <- PacketsWritten, written <- sent, arrived <- delivered,
  stands <- sendUp /\ recvUp /\ ended = "no"

KeepsItsOrder   == Channel!Safe
KeepsItsPromise == Channel!Spec
=============================================================================
