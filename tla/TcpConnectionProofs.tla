------------------------ MODULE TcpConnectionProofs ------------------------
(* The streams and the packet buffer of a connection, for any sizes that   *)
(* leave the room BufferAssumption asks for, any packets and any pieces in *)
(* which the kernel takes and hands out their bytes: no ring loses a byte, *)
(* all stay in the order in which they were written, and the connection    *)
(* implements the safety of PacketChannel.                                 *)
EXTENDS TcpConnection, FiniteSetTheorems, SequenceTheorems, WellFoundedInduction, TLAPS

(* A set of numbers that is not empty has a least one: what is true of the *)
(* first and passes from each number to the next is true of all.           *)
LEMMA LeastNat ==
  ASSUME NEW T, T \subseteq Nat, T # {}
  PROVE  \E x \in T : \A y \in T : x <= y
<1>1. \E x \in T : \A y \in T : ~ (<<y, x>> \in OpToRel(<, Nat))
  BY WFMin, NatLessThanWellFounded
<1>2. OpToRel(<, Nat) = {ss \in Nat \X Nat : ss[1] < ss[2]}
  BY Zenon DEF OpToRel
<1>3. \A x \in Nat, y \in Nat : <<y, x>> \in OpToRel(<, Nat) <=> y < x
  BY <1>2, Zenon
<1>4. \E x \in T : \A y \in T : ~ (y < x)
  BY <1>1, <1>3, Zenon
<1> QED
  BY <1>4

-----------------------------------------------------------------------------
(* An index into a ring that wraps at most once.                           *)
LEMMA ModFacts ==
  ASSUME NEW a \in Nat, NEW b \in Nat \ {0}
  PROVE  a % b \in 0..b-1 /\ (a < b => a % b = a) /\ (a >= b /\ a < 2 * b => a % b = a - b)
OBVIOUS

-----------------------------------------------------------------------------
(* What the operations of the rings return.                                *)
LEMMA RingLength ==
  ASSUME NEW r, Streams!IsRing(r) PROVE Streams!Length(r) \in 0..r.size-1
BY DEF Streams!IsRing, Streams!Length

LEMMA EmptyRingFacts ==
  ASSUME NEW n \in Nat \ {0}
  PROVE  /\ Streams!IsRing(Streams!EmptyRing(n))
         /\ Streams!Length(Streams!EmptyRing(n)) = 0
         /\ Streams!EmptyRing(n).size = n
<1>1. Blank \in Byte
  BY SizesAssumption DEF Blank, Byte
<1> QED
  BY <1>1 DEF Streams!EmptyRing, Streams!IsRing, Streams!Length

LEMMA FirstFacts ==
  ASSUME NEW r, Streams!IsRing(r), NEW n \in Nat
  PROVE  Streams!First(r, n) \in Seq(Byte) /\ Len(Streams!First(r, n)) = n
<1>1. \A i \in 1..n : r.cells[(r.head + i - 1) % r.size] \in Byte
  <2> TAKE i \in 1..n
  <2>1. r.head + i - 1 \in Nat /\ r.size \in Nat \ {0}
    BY DEF Streams!IsRing
  <2>2. (r.head + i - 1) % r.size \in 0..r.size-1
    BY <2>1, ModFacts
  <2> QED
    BY <2>2 DEF Streams!IsRing
<1> QED
  BY <1>1 DEF Streams!First

LEMMA DropFacts ==
  ASSUME NEW r, Streams!IsRing(r), NEW n \in Nat
  PROVE  Streams!IsRing(Streams!Drop(r, n)) /\ Streams!Drop(r, n).size = r.size
<1>1. r.head + n \in Nat /\ r.size \in Nat \ {0}
  BY DEF Streams!IsRing
<1>2. (r.head + n) % r.size \in 0..r.size-1
  BY <1>1, ModFacts
<1>3. /\ Streams!Drop(r, n).size = r.size /\ Streams!Drop(r, n).tail = r.tail
      /\ Streams!Drop(r, n).cells = r.cells
      /\ Streams!Drop(r, n).head = (r.head + n) % r.size
  BY DEF Streams!Drop, Streams!IsRing
<1> QED
  BY <1>2, <1>3 DEF Streams!IsRing

(* Put stores the bytes behind the tail; while they fit, the length grows  *)
(* by theirs.                                                              *)
LEMMA PutFacts ==
  ASSUME NEW r, Streams!IsRing(r), NEW bytes \in Seq(Byte)
  PROVE  /\ Streams!IsRing(Streams!Put(r, bytes)) /\ Streams!Put(r, bytes).size = r.size
         /\ Streams!Length(r) + Len(bytes) < r.size
              => Streams!Length(Streams!Put(r, bytes)) = Streams!Length(r) + Len(bytes)
<1> DEFINE v == Streams!Put(r, bytes)
<1>0. PICK n, t : n = Len(bytes) /\ t = (r.tail + n) % r.size
  OBVIOUS
<1>1. /\ r.size \in Nat \ {0} /\ r.head \in 0..r.size-1 /\ r.tail \in 0..r.size-1
      /\ r.cells \in [0..r.size-1 -> Byte] /\ n \in Nat
  BY <1>0 DEF Streams!IsRing
<1>2. /\ v.size = r.size /\ v.head = r.head /\ v.tail = t
      /\ v.cells = [i \in 0..r.size-1 |-> IF Streams!Behind(r, i) < Len(bytes)
                                          THEN bytes[Streams!Behind(r, i) + 1] ELSE r.cells[i]]
  BY <1>0 DEF Streams!Put, Streams!IsRing
<1>3. PICK a \in Nat : a = r.tail + n
  BY <1>1
<1>4. /\ t \in 0..r.size-1
      /\ a < r.size => t = a
      /\ a >= r.size /\ a < 2 * r.size => t = a - r.size
  <2>1. t = a % r.size
    BY <1>0, <1>3
  <2> QED
    BY <1>1, <2>1, ModFacts
<1>5. \A i \in 0..r.size-1 : Streams!Behind(r, i) \in Nat
  BY <1>1 DEF Streams!Behind
<1>6. \A i \in 0..r.size-1 : Streams!Behind(r, i) < Len(bytes) => bytes[Streams!Behind(r, i) + 1] \in Byte
  BY <1>0, <1>1, <1>5
<1>7. v.cells \in [0..r.size-1 -> Byte]
  BY <1>1, <1>2, <1>6
<1>8. Streams!IsRing(v)
  BY <1>1, <1>2, <1>4, <1>7 DEF Streams!IsRing
<1>9. Streams!Length(r) + n < r.size => Streams!Length(v) = Streams!Length(r) + n
  <2> HIDE DEF v
  <2> SUFFICES ASSUME Streams!Length(r) + n < r.size
               PROVE  Streams!Length(v) = Streams!Length(r) + n
    OBVIOUS
  <2>1. Streams!Length(v) = IF r.head <= t THEN t - r.head ELSE r.size - r.head + t
    BY <1>2 DEF Streams!Length
  <2>2. Streams!Length(r) = IF r.head <= r.tail THEN r.tail - r.head ELSE r.size - r.head + r.tail
    BY DEF Streams!Length
  <2>3. Streams!Length(r) \in Nat
    BY RingLength
  <2>4. /\ r.tail + n < r.size => t = r.tail + n
        /\ r.tail + n >= r.size /\ r.tail + n < 2 * r.size => t = r.tail + n - r.size
    BY <1>1, <1>3, <1>4
  <2>5. PICK s \in Nat \ {0}, h \in Nat, k \in Nat, l \in Nat :
          s = r.size /\ h = r.head /\ k = r.tail /\ l = Streams!Length(r)
    BY <1>1, <2>3
  <2>6. /\ h \in 0..s-1 /\ k \in 0..s-1 /\ t \in 0..s-1 /\ n \in Nat /\ l + n < s
        /\ k + n < s => t = k + n
        /\ k + n >= s /\ k + n < 2 * s => t = k + n - s
        /\ l = (IF h <= k THEN k - h ELSE s - h + k)
    BY <1>1, <1>4, <2>2, <2>4, <2>5
  <2>7. (IF h <= t THEN t - h ELSE s - h + t) = l + n
    BY <2>6
  <2> QED
    BY <2>1, <2>5, <2>7
<1> QED
  BY <1>0, <1>2, <1>8, <1>9

(* Resize adds half the buffer or what is asked for, and unrolls the ring. *)
LEMMA ResizeFacts ==
  ASSUME NEW r, Streams!IsRing(r), NEW more \in Nat \ {0}
  PROVE  LET v == Streams!Resize(r, more) IN
         /\ Streams!IsRing(v) /\ Streams!Length(v) = Streams!Length(r)
         /\ v.size \in Nat /\ v.size >= r.size + more
         /\ v.size > r.size + more => 2 * v.size <= 3 * r.size
<1> DEFINE v == Streams!Resize(r, more)
           n == r.size + Streams!Larger(r.size \div 2, more)
           l == Streams!Length(r)
<1>1. r.size \in Nat \ {0} /\ r.head \in 0..r.size-1 /\ l \in 0..r.size-1
  BY RingLength DEF Streams!IsRing
<1>2. r.size \div 2 \in Nat /\ 2 * (r.size \div 2) <= r.size
  BY <1>1
<1>3. n \in Nat /\ n >= r.size + more /\ (n > r.size + more => 2 * n <= 3 * r.size)
  BY <1>1, <1>2 DEF Streams!Larger
<1>4. /\ v.size = n /\ v.head = 0 /\ v.tail = l
      /\ v.cells = [i \in 0..n-1 |-> IF i < l THEN r.cells[(r.head + i) % r.size] ELSE Blank]
  BY DEF Streams!Resize
<1>5. Blank \in Byte
  BY SizesAssumption DEF Blank, Byte
<1>6. \A i \in 0..n-1 : r.cells[(r.head + i) % r.size] \in Byte
  <2> TAKE i \in 0..n-1
  <2>1. r.head + i \in Nat
    BY <1>1
  <2>2. (r.head + i) % r.size \in 0..r.size-1
    BY <1>1, <2>1, ModFacts
  <2> QED
    BY <2>2 DEF Streams!IsRing
<1> HIDE DEF v, n, l
<1>7. v.cells \in [0..n-1 -> Byte]
  BY <1>4, <1>5, <1>6
<1>8. Streams!IsRing(v) /\ Streams!Length(v) = l
  BY <1>1, <1>3, <1>4, <1>7 DEF Streams!IsRing, Streams!Length
<1> QED
  BY <1>3, <1>4, <1>8 DEF v, l

(* A packet is written behind what is there: nothing is overwritten, and   *)
(* the buffer grows only when it is full.                                  *)
LEMMA WriteFacts ==
  ASSUME NEW r, Streams!IsRing(r), NEW bytes \in Seq(Byte), bytes # <<>>
  PROVE  LET v == Streams!Write(r, bytes) IN
         /\ Streams!IsRing(v) /\ v.size >= r.size
         /\ Streams!Length(v) = Streams!Length(r) + Len(bytes)
         /\ v.size > r.size => 3 * (Streams!Length(v) + 1) >= 2 * v.size
<1> DEFINE v == Streams!Write(r, bytes)
           l == Streams!Length(r)
           free == Streams!Free(r)
<1>1. /\ r.size \in Nat \ {0} /\ l \in 0..r.size-1 /\ free = r.size - 1 - l
      /\ Len(bytes) \in Nat \ {0}
  BY RingLength DEF Streams!IsRing, Streams!Free
<1>2. CASE Len(bytes) >= free
  <2> DEFINE more == Len(bytes) - free + 1
             w == Streams!Resize(r, more)
  <2>1. more \in Nat \ {0} /\ v = Streams!Put(w, bytes)
    BY <1>1, <1>2 DEF Streams!Write
  <2>2. /\ Streams!IsRing(w) /\ Streams!Length(w) = l
        /\ w.size \in Nat /\ w.size >= r.size + more
        /\ w.size > r.size + more => 2 * w.size <= 3 * r.size
    BY <2>1, ResizeFacts
  <2>3. Streams!Length(w) + Len(bytes) < w.size
    BY <1>1, <1>2, <2>2
  <2>4. /\ Streams!IsRing(v) /\ v.size = w.size /\ Streams!Length(v) = l + Len(bytes)
    BY <2>1, <2>2, <2>3, PutFacts
  <2>5. more = l + Len(bytes) + 2 - r.size
    BY <1>1
  <2>6. /\ w.size >= r.size
        /\ 3 * (l + Len(bytes) + 1) >= 2 * w.size
    <3> DEFINE n == Len(bytes)
               old == r.size
               new == w.size
    <3>1. /\ more \in Nat \ {0} /\ old \in Nat /\ l \in Nat /\ n \in Nat \ {0}
          /\ more = l + n + 2 - old
      BY <1>1, <2>1, <2>5
    <3>2. new \in Nat /\ new >= old + more /\ (new > old + more => 2 * new <= 3 * old)
      BY <2>2
    <3> HIDE DEF more, w, l, free, v, n, old, new
    <3>3. new >= old /\ 3 * (l + n + 1) >= 2 * new
      BY <3>1, <3>2
    <3> QED
      BY <3>3 DEF n, old, new
  <2>7. /\ Streams!IsRing(v) /\ v.size >= r.size
        /\ Streams!Length(v) = l + Len(bytes)
        /\ v.size > r.size => 3 * (Streams!Length(v) + 1) >= 2 * v.size
    <3> HIDE DEF more, w, l, free, v
    <3> QED
      BY <2>4, <2>6
  <2> QED
    BY <2>7
<1>3. CASE Len(bytes) < free
  <2>1. v = Streams!Put(r, bytes)
    BY <1>1, <1>3 DEF Streams!Write
  <2>2. l + Len(bytes) < r.size
    BY <1>1, <1>3
  <2>3. Streams!IsRing(v) /\ v.size = r.size /\ Streams!Length(v) = l + Len(bytes)
    BY <2>1, <2>2, PutFacts
  <2> QED
    BY <1>1, <2>3
<1> QED
  BY <1>1, <1>2, <1>3

LEMMA FlushedFacts ==
  ASSUME NEW r, Streams!IsRing(r), NEW n \in Nat
  PROVE  /\ Streams!IsRing(Streams!Flushed(r, n)) /\ Streams!Flushed(r, n).size = r.size
         /\ n = Streams!Length(r) => Streams!Length(Streams!Flushed(r, n)) = 0
<1>1. CASE n = Streams!Length(r)
  <2>1. Streams!Flushed(r, n) = [r EXCEPT !.head = 0, !.tail = 0]
    BY <1>1 DEF Streams!Flushed
  <2>2. /\ Streams!Flushed(r, n).size = r.size /\ Streams!Flushed(r, n).cells = r.cells
        /\ Streams!Flushed(r, n).head = 0 /\ Streams!Flushed(r, n).tail = 0
    BY <2>1 DEF Streams!IsRing
  <2> QED
    BY <2>2 DEF Streams!IsRing, Streams!Length
<1>2. CASE n # Streams!Length(r)
  BY <1>2, DropFacts DEF Streams!Flushed
<1> QED
  BY <1>1, <1>2

LEMMA FillFacts ==
  ASSUME NEW r, Streams!IsRing(r), NEW bytes \in Seq(Byte)
  PROVE  Streams!IsRing(Streams!Fill(r, bytes))
<1> DEFINE free == Streams!Free(r)
<1>1. free \in Nat /\ Len(bytes) \in Nat
  BY RingLength DEF Streams!IsRing, Streams!Free
<1>2. CASE Len(bytes) <= free
  BY <1>2, PutFacts DEF Streams!Fill
<1>3. CASE Len(bytes) > free
  <2> DEFINE full == Streams!Put(r, SubSeq(bytes, 1, free))
             rest == SubSeq(bytes, free + 1, Len(bytes))
  <2>1. SubSeq(bytes, 1, free) \in Seq(Byte) /\ rest \in Seq(Byte)
    BY <1>1, <1>3
  <2>2. Streams!IsRing(full)
    BY <2>1, PutFacts
  <2>3. Len(rest) + 1 \in Nat \ {0}
    BY <2>1
  <2>4. Streams!IsRing(Streams!Resize(full, Len(rest) + 1))
    BY <2>2, <2>3, ResizeFacts
  <2>5. Streams!Fill(r, bytes) = Streams!Put(Streams!Resize(full, Len(rest) + 1), rest)
    BY <1>1, <1>3 DEF Streams!Fill
  <2> QED
    BY <2>1, <2>4, <2>5, PutFacts
<1> QED
  BY <1>1, <1>2, <1>3

-----------------------------------------------------------------------------
(* The packet buffer between two turns of the net thread, and in one: what *)
(* is behind the read index ends where the next bytes go, the read index   *)
(* has not passed the move forward size, between two turns less than a     *)
(* packet is left, and in one less than a packet and a read: less than     *)
(* what lies before the read index when the buffer is moved.               *)
BufferIsRoomy ==
  /\ buf.max = buf.write /\ buf.read <= buf.write
  /\ buf.read <= MoveForward /\ buf.write < BufferSize
  /\ buf.write - buf.read < MaxPacket + ReadSize
  /\ ~unpacking => buf.write - buf.read < MaxPacket

IInv == TypeOK /\ BufferIsRoomy /\ UnsentIsScheduled /\ out.size >= OutSize

LEMMA SizeFacts ==
  /\ MaxPackets \in Nat \ {0} /\ Room \in Nat \ {0}
  /\ OutSize \in Nat \ {0} /\ MaxOut \in Nat \ {0}
  /\ InSize \in Nat \ {0} /\ MaxIn \in Nat \ {0}
  /\ BufferSize \in Nat \ {0} /\ ReadSize \in Nat \ {0} /\ MoveForward \in Nat \ {0}
  /\ HeaderLen \in Nat \ {0} /\ MaxPacket \in Nat \ {0} /\ HeaderLen <= MaxPacket
  /\ MoveForward + MaxPacket + ReadSize <= BufferSize /\ MaxPacket + ReadSize <= MoveForward
  /\ Blank \in Byte
BY SizesAssumption, BufferAssumption DEF Blank, Byte

LEMMA BufferFacts ==
  ASSUME NEW b \in Packet!Buffers
  PROVE  /\ b.read \in Nat /\ b.write \in Nat /\ b.max \in Nat
         /\ b.read <= BufferSize /\ b.write <= BufferSize /\ b.max <= BufferSize
         /\ b.cells \in [0..BufferSize-1 -> Byte]
         /\ b.read < BufferSize => Packet!PacketLen(b) \in HeaderLen..MaxPacket
<1>1. b.cells \in [0..BufferSize-1 -> Byte] /\ b.read \in 0..BufferSize
  BY DEF Packet!Buffers
<1>2. b.read < BufferSize => b.cells[b.read] \in Byte
  BY <1>1, SizeFacts
<1>3. b.read < BufferSize => Packet!PacketLen(b) \in HeaderLen..MaxPacket
  BY <1>2 DEF Packet!PacketLen, LenAt, Byte
<1> QED
  BY <1>1, <1>3, SizeFacts DEF Packet!Buffers

(* Bytes read into a buffer that has room behind its write index go there. *)
LEMMA StoredFacts ==
  ASSUME NEW b \in Packet!Buffers, b.max = b.write, b.read <= b.write,
         NEW bytes \in Seq(Byte), bytes # <<>>, b.write + Len(bytes) < BufferSize
  PROVE  LET v == Packet!Stored(b, bytes) IN
         /\ v \in Packet!Buffers /\ v.read = b.read
         /\ v.write = b.write + Len(bytes) /\ v.max = v.write
<1> DEFINE v == Packet!Stored(b, bytes)
           new == [i \in 0..BufferSize-1 |-> IF i >= b.write /\ i < b.write + Len(bytes)
                                             THEN bytes[i - b.write + 1] ELSE b.cells[i]]
<1>1. PICK n : n = Len(bytes)
  OBVIOUS
<1>2. /\ n \in Nat \ {0} /\ b.write + n < BufferSize
      /\ b.read \in Nat /\ b.write \in Nat /\ b.max \in Nat
      /\ b.cells \in [0..BufferSize-1 -> Byte]
  BY <1>1, BufferFacts
<1>3. ~Packet!Wraps(b, n) /\ ~Packet!Overruns(b, n)
  BY <1>2, SizeFacts DEF Packet!Wraps, Packet!Overruns
<1>4. Packet!Place(b, n) = b.write
  BY <1>3 DEF Packet!Place
<1>5. b.max < b.write + n
  BY <1>2
<1>6. Packet!Reserved(b, n) = [b EXCEPT !.write = b.write + n, !.max = b.write + n]
  BY <1>3, <1>5 DEF Packet!Reserved
<1>7. v = [Packet!Reserved(b, n) EXCEPT !.cells = new]
  BY <1>1, <1>4 DEF Packet!Stored
<1>8. b = [read |-> b.read, write |-> b.write, max |-> b.max, cells |-> b.cells]
  BY DEF Packet!Buffers
<1>9. v = [read |-> b.read, write |-> b.write + n, max |-> b.write + n, cells |-> new]
  BY <1>6, <1>7, <1>8
<1>10. \A i \in 0..BufferSize-1 :
         i >= b.write /\ i < b.write + n => bytes[i - b.write + 1] \in Byte
  BY <1>1, <1>2
<1>11. new \in [0..BufferSize-1 -> Byte]
  BY <1>1, <1>2, <1>10
<1>12. b.read \in 0..BufferSize /\ b.write + n \in 0..BufferSize
  BY <1>2, SizeFacts
<1> QED
  BY <1>1, <1>9, <1>11, <1>12 DEF Packet!Buffers

(* A packet taken out leaves the read index within the move forward size,  *)
(* and the packet is made of bytes of the buffer, moved or not.            *)
LEMMA UnpackedFacts ==
  ASSUME NEW b \in Packet!Buffers, b.max = b.write, b.read <= b.write, b.write < BufferSize,
         Packet!HasPacket(b)
  PROVE  LET v == Packet!Unpacked(b) IN
         /\ v \in Packet!Buffers /\ v.max = v.write /\ v.read <= v.write
         /\ v.read <= MoveForward /\ v.write <= b.write /\ v.write - v.read <= b.write - b.read
         /\ Packet!PacketIn(b, v) \in Seq(Byte)
<1> DEFINE v == Packet!Unpacked(b)
           n == b.read + Packet!PacketLen(b)
           new == [i \in 0..BufferSize-1 |-> IF i < b.max - n THEN b.cells[n + i] ELSE b.cells[i]]
<1>1. /\ b.read \in Nat /\ b.write \in Nat /\ b.read < BufferSize /\ b.write < BufferSize
      /\ Packet!PacketLen(b) \in Nat /\ b.max = b.write
      /\ b.cells \in [0..BufferSize-1 -> Byte]
  <2>1. /\ b.read \in Nat /\ b.write \in Nat /\ b.cells \in [0..BufferSize-1 -> Byte]
        /\ b.read < BufferSize => Packet!PacketLen(b) \in HeaderLen..MaxPacket
    BY BufferFacts
  <2>2. b.read < BufferSize
    BY <2>1, SizeFacts
  <2> QED
    BY <2>1, <2>2, SizeFacts
<1>2. n \in Nat /\ n <= b.write
  BY <1>1 DEF Packet!HasPacket
<1>3. b = [read |-> b.read, write |-> b.write, max |-> b.max, cells |-> b.cells]
  BY DEF Packet!Buffers
<1>4. /\ v \in Packet!Buffers /\ v.max = v.write /\ v.read <= v.write
      /\ v.read <= MoveForward /\ v.write <= b.write /\ v.write - v.read <= b.write - b.read
  <2>1. CASE n > MoveForward
    <3>1. v = [read |-> 0, write |-> b.write - n, max |-> b.max - n, cells |-> new]
      BY <2>1 DEF Packet!Unpacked, Packet!Moved
    <3>2. \A i \in 0..BufferSize-1 : i < b.max - n => b.cells[n + i] \in Byte
      <4> SUFFICES ASSUME NEW i \in 0..BufferSize-1, i < b.max - n PROVE b.cells[n + i] \in Byte
        OBVIOUS
      <4>1. n + i \in 0..BufferSize-1
        BY <1>1, <1>2, SizeFacts
      <4> QED
        BY <1>1, <4>1
    <3>3. new \in [0..BufferSize-1 -> Byte]
      BY <1>1, <3>2
    <3>4. b.write - n \in 0..BufferSize /\ b.write - n <= b.write /\ 0 \in 0..BufferSize
      BY <1>1, <1>2, SizeFacts
    <3> QED
      BY <1>1, <3>1, <3>3, <3>4, SizeFacts DEF Packet!Buffers
  <2>2. CASE ~(n > MoveForward)
    <3>1. v = [b EXCEPT !.read = n]
      BY <2>2 DEF Packet!Unpacked
    <3>2. v = [read |-> n, write |-> b.write, max |-> b.max, cells |-> b.cells]
      BY <1>3, <3>1
    <3>3. n \in 0..BufferSize /\ b.write \in 0..BufferSize /\ n <= MoveForward
      BY <1>1, <1>2, <2>2, SizeFacts
    <3> QED
      BY <1>1, <1>2, <3>2, <3>3 DEF Packet!Buffers
  <2> QED
    BY <2>1, <2>2
<1>5. v.cells \in [0..BufferSize-1 -> Byte]
  BY <1>4, BufferFacts
<1>6. \A i \in 1..Packet!PacketLen(b) : v.cells[b.read + i - 1] \in Byte
  <2> TAKE i \in 1..Packet!PacketLen(b)
  <2>1. b.read + i - 1 \in 0..BufferSize-1
    BY <1>1, <1>2, SizeFacts
  <2> QED
    BY <1>5, <2>1
<1>7. Packet!PacketIn(b, v) \in Seq(Byte)
  BY <1>1, <1>6 DEF Packet!PacketIn
<1> QED
  BY <1>4, <1>7

-----------------------------------------------------------------------------
LEMMA InitIInv == Init => IInv
<1> SUFFICES ASSUME Init PROVE IInv
  OBVIOUS
<1> USE DEF Init
<1>1. /\ Streams!IsRing(out) /\ Streams!Length(out) = 0 /\ out.size = OutSize
      /\ Streams!IsRing(in)
  BY SizeFacts, EmptyRingFacts
<1>2. [i \in 0..BufferSize-1 |-> Blank] \in [0..BufferSize-1 -> Byte]
  BY SizeFacts
<1>3. buf = [read |-> 0, write |-> 0, max |-> 0, cells |-> [i \in 0..BufferSize-1 |-> Blank]]
  BY DEF Packet!EmptyBuffer
<1>4. 0 \in 0..BufferSize
  BY SizeFacts
<1>5. buf \in Packet!Buffers
  BY <1>2, <1>3, <1>4 DEF Packet!Buffers
<1>6. BufferIsRoomy
  BY <1>3, SizeFacts DEF BufferIsRoomy
<1>7. UnsentIsScheduled
  BY <1>1 DEF UnsentIsScheduled
<1>8. /\ sent \in Seq(PacketsWritten) /\ Len(sent) = 0 /\ wire \in Seq(Byte) /\ Len(wire) = 0
      /\ delivered \in Seq(Seq(Byte))
  OBVIOUS
<1>9. /\ outLen \in Nat /\ ended \in {"no", "fin", "reset"}
      /\ armed \in BOOLEAN /\ sendUp \in BOOLEAN /\ unpacking \in BOOLEAN /\ recvUp \in BOOLEAN
  OBVIOUS
<1> HIDE DEF Init
<1>10. TypeOK
  BY <1>1, <1>5, <1>8, <1>9, SizeFacts DEF TypeOK
<1> QED
  BY <1>1, <1>6, <1>7, <1>10, SizeFacts DEF IInv

(* The sender.                                                             *)
LEMMA PacketFacts ==
  ASSUME NEW k \in 1..MaxPackets, NEW n \in Lens
  PROVE  PacketOf(k, n) \in PacketsWritten /\ PacketOf(k, n) \in Seq(Byte) /\ PacketOf(k, n) # <<>>
<1>1. n \in HeaderLen..MaxPacket
  BY SizesAssumption
<1>2. n \in Nat \ {0}
  BY <1>1, SizeFacts
<1>3. \A i \in 1..n : [pkt |-> k, off |-> i, len |-> n] \in Byte
  BY <1>1, <1>2, SizeFacts DEF Byte
<1>4. PacketOf(k, n) \in Seq(Byte) /\ Len(PacketOf(k, n)) = n
  BY <1>2, <1>3 DEF PacketOf
<1> QED
  BY <1>2, <1>4 DEF PacketsWritten

LEMMA SendStep == ASSUME IInv, NEW n \in Lens, SendPacket(n) PROVE IInv'
<1> DEFINE packet == PacketOf(Len(sent) + 1, n)
<1>1. /\ out' = Streams!Write(out, packet) /\ sent' = Append(sent, packet)
      /\ outLen' = Streams!Length(out') /\ armed' = TRUE /\ Len(sent) < MaxPackets
      /\ UNCHANGED <<sendUp, wire, ended, in, buf, unpacking, recvUp, delivered>>
  BY DEF SendPacket, wireVars, recvVars
<1>2. sent \in Seq(PacketsWritten) /\ Streams!IsRing(out) /\ out.size >= OutSize
  BY DEF IInv, TypeOK
<1>3. Len(sent) + 1 \in 1..MaxPackets
  BY <1>1, <1>2, SizeFacts
<1>4. packet \in PacketsWritten /\ packet \in Seq(Byte) /\ packet # <<>>
  BY <1>3, PacketFacts
<1>5. Streams!IsRing(out') /\ out'.size >= out.size
  BY <1>1, <1>2, <1>4, WriteFacts
<1>6. out'.size >= OutSize
  BY <1>2, <1>5, SizeFacts DEF Streams!IsRing
<1>7. outLen' \in Nat
  BY <1>1, <1>5, RingLength DEF Streams!IsRing
<1>8. sent' \in Seq(PacketsWritten) /\ Len(sent') <= MaxPackets
  BY <1>1, <1>2, <1>3, <1>4
<1>9. TypeOK'
  BY <1>1, <1>5, <1>7, <1>8 DEF IInv, TypeOK
<1>10. UnsentIsScheduled'
  BY <1>1 DEF UnsentIsScheduled
<1> QED
  BY <1>1, <1>6, <1>9, <1>10 DEF IInv, BufferIsRoomy

(* Bytes the kernel took from the output.                                  *)
LEMMA TakenFacts ==
  ASSUME TypeOK, Writable, NEW least \in Nat, NEW n \in Accepted(least)
  PROVE  /\ n \in Nat /\ n <= Streams!Length(out)
         /\ wire \o Streams!First(out, n) \in Seq(Byte)
         /\ Len(wire \o Streams!First(out, n)) <= Room
<1>1. Streams!IsRing(out) /\ wire \in Seq(Byte) /\ Len(wire) <= Room
  BY DEF TypeOK
<1>2. PICK l \in Nat, k \in Nat : l = Streams!Length(out) /\ k = Len(wire)
  BY <1>1, RingLength DEF Streams!IsRing
<1>3. n \in Nat /\ n <= l /\ k + n <= Room
  BY <1>1, <1>2, SizeFacts DEF Accepted, Streams!Smaller
<1>4. Streams!First(out, n) \in Seq(Byte) /\ Len(Streams!First(out, n)) = n
  BY <1>1, <1>3, FirstFacts
<1> QED
  BY <1>1, <1>2, <1>3, <1>4

LEMMA WriteStep == ASSUME IInv, OnWrite PROVE IInv'
<1>1. /\ sendUp /\ armed /\ Writable /\ Arm(outLen')
      /\ UNCHANGED <<sent, sendUp, ended, in, buf, unpacking, recvUp, delivered>>
  BY DEF OnWrite, recvVars
<1>2. PICK least \in {0, 1} : \E n \in Accepted(least) : Flush(n)
  BY DEF OnWrite
<1>3. PICK n \in Accepted(least) : Flush(n)
  BY <1>2
<1>4. /\ TypeOK /\ Streams!IsRing(out) /\ out.size >= OutSize /\ outLen \in Nat
      /\ Streams!Length(out) \in Nat
  BY RingLength DEF IInv, TypeOK, Streams!IsRing
<1>5. /\ n \in Nat /\ n <= Streams!Length(out)
      /\ wire' \in Seq(Byte) /\ Len(wire') <= Room
  BY <1>1, <1>3, <1>4, TakenFacts DEF Flush
<1>6. /\ Streams!IsRing(out') /\ out'.size = out.size
      /\ n = Streams!Length(out) => Streams!Length(out') = 0
  BY <1>3, <1>4, <1>5, FlushedFacts DEF Flush
<1>7. outLen' = IF n = Streams!Length(out) THEN 0 ELSE outLen
  BY <1>3 DEF Flush
<1>8. armed' = (outLen' > 0)
  BY <1>1 DEF Arm
<1>9. TypeOK'
  BY <1>1, <1>4, <1>5, <1>6, <1>7, <1>8 DEF TypeOK
<1>10. n # Streams!Length(out) => outLen > 0
  BY <1>1, <1>4, <1>5 DEF IInv, UnsentIsScheduled
<1>11. UnsentIsScheduled'
  BY <1>6, <1>7, <1>8, <1>10 DEF UnsentIsScheduled
<1> QED
  BY <1>1, <1>4, <1>6, <1>9, <1>11 DEF IInv, BufferIsRoomy

LEMMA CloseSenderStep ==
  ASSUME IInv, CloseSender, wire' \in Seq(Byte), Len(wire') <= Room, UNCHANGED recvVars
  PROVE  IInv'
<1>1. /\ sendUp' = FALSE /\ armed' = FALSE /\ outLen' = 0 /\ sent' = sent
      /\ ended' \in {"no", "fin", "reset"}
      /\ UNCHANGED <<in, buf, unpacking, recvUp, delivered>>
  BY DEF CloseSender, recvVars, IInv, TypeOK
<1>2. Streams!IsRing(out') /\ out'.size = OutSize
  BY SizeFacts, EmptyRingFacts DEF CloseSender
<1>3. TypeOK'
  BY <1>1, <1>2 DEF IInv, TypeOK
<1> QED
  BY <1>1, <1>2, <1>3, SizeFacts DEF IInv, BufferIsRoomy, UnsentIsScheduled

LEMMA SenderClosesStep == ASSUME IInv, OnWriteTooBig \/ KickSender PROVE IInv'
<1>1. TypeOK /\ wire \in Seq(Byte) /\ Len(wire) <= Room /\ Streams!IsRing(out)
  BY DEF IInv, TypeOK
<1>2. CASE UNCHANGED wire
  BY <1>1, <1>2, CloseSenderStep DEF OnWriteTooBig, KickSender
<1>3. CASE ~UNCHANGED wire
  <2>1. KickSender
    BY <1>3 DEF OnWriteTooBig
  <2>2. PICK n \in Accepted(0) : wire' = wire \o Streams!First(out, n)
    BY <1>3, <2>1 DEF KickSender
  <2>3. CASE Writable
    <3>1. wire' \in Seq(Byte) /\ Len(wire') <= Room
      BY <1>1, <2>2, <2>3, TakenFacts
    <3> QED
      BY <2>1, <3>1, CloseSenderStep DEF KickSender
  <2>4. CASE ~Writable
    <3>1. n = 0
      <4>1. PICK l \in Nat, k \in Nat : l = Streams!Length(out) /\ k = Len(wire)
        BY <1>1, RingLength DEF Streams!IsRing
      <4> QED
        BY <1>1, <2>2, <2>4, <4>1, SizeFacts DEF Accepted, Streams!Smaller, Writable
    <3>2. Streams!First(out, n) \in Seq(Byte) /\ Len(Streams!First(out, n)) = 0
      BY <1>1, <3>1, FirstFacts DEF TypeOK
    <3>3. wire' \in Seq(Byte) /\ Len(wire') <= Room
      BY <1>1, <2>2, <3>2, SizeFacts
    <3> QED
      BY <2>1, <3>3, CloseSenderStep DEF KickSender
  <2> QED
    BY <2>3, <2>4
<1> QED
  BY <1>2, <1>3

LEMMA BreakStep == ASSUME IInv, Break PROVE IInv'
<1>1. /\ ended' = "reset"
      /\ UNCHANGED <<sent, out, outLen, armed, sendUp, in, buf, unpacking, recvUp, delivered>>
  BY DEF Break, sendVars, recvVars
<1>2. wire' \in Seq(Byte) /\ Len(wire') <= Room
  <2>1. wire \in Seq(Byte) /\ Len(wire) <= Room
    BY DEF IInv, TypeOK
  <2>2. PICK n \in 0..Len(wire) : wire' = SubSeq(wire, 1, n)
    BY DEF Break
  <2> QED
    BY <2>1, <2>2, SizeFacts
<1>3. TypeOK'
  BY <1>1, <1>2 DEF IInv, TypeOK
<1> QED
  BY <1>1, <1>3 DEF IInv, BufferIsRoomy, UnsentIsScheduled

(* The receiver.                                                           *)
LEMMA CloseReceiverStep ==
  ASSUME IInv, CloseReceiver, UNCHANGED sendVars PROVE IInv'
<1>0. recvUp' \in BOOLEAN
  BY DEF CloseReceiver
<1>1. /\ wire' \in Seq(Byte) /\ Len(wire') = 0
      /\ ended' \in {"no", "fin", "reset"}
      /\ UNCHANGED <<sent, out, outLen, armed, sendUp, buf, unpacking, delivered>>
  BY DEF CloseReceiver, sendVars, IInv, TypeOK
<1>2. Streams!IsRing(in')
  BY SizeFacts, EmptyRingFacts DEF CloseReceiver
<1>3. TypeOK'
  BY <1>0, <1>1, <1>2, SizeFacts DEF IInv, TypeOK
<1> QED
  BY <1>1, <1>3 DEF IInv, BufferIsRoomy, UnsentIsScheduled

LEMMA ReadStep == ASSUME IInv, OnRead PROVE IInv'
<1>1. PICK n \in 0..Len(wire) :
        IF EndsWith(n) THEN CloseReceiver
        ELSE /\ in' = Streams!Fill(in, SubSeq(wire, 1, n))
             /\ wire' = SubSeq(wire, n + 1, Len(wire))
             /\ UNCHANGED <<ended, buf, unpacking, recvUp, delivered>>
  BY DEF OnRead
<1>2. UNCHANGED sendVars
  BY DEF OnRead
<1>3. CASE EndsWith(n)
  BY <1>1, <1>2, <1>3, CloseReceiverStep
<1>4. CASE ~EndsWith(n)
  <2>1. /\ in' = Streams!Fill(in, SubSeq(wire, 1, n))
        /\ wire' = SubSeq(wire, n + 1, Len(wire))
        /\ UNCHANGED <<sent, out, outLen, armed, sendUp, ended, buf, unpacking, recvUp, delivered>>
    BY <1>1, <1>2, <1>4 DEF sendVars
  <2>2. wire \in Seq(Byte) /\ Len(wire) <= Room /\ Streams!IsRing(in)
    BY DEF IInv, TypeOK
  <2>3. SubSeq(wire, 1, n) \in Seq(Byte)
    BY <2>2
  <2>4. Streams!IsRing(in')
    BY <2>1, <2>2, <2>3, FillFacts
  <2>5. wire' \in Seq(Byte) /\ Len(wire') <= Room
    BY <2>1, <2>2, SizeFacts
  <2>6. TypeOK'
    BY <2>1, <2>4, <2>5 DEF IInv, TypeOK
  <2> QED
    BY <2>1, <2>6 DEF IInv, BufferIsRoomy, UnsentIsScheduled
<1> QED
  BY <1>3, <1>4

(* A turn of unpack_packets begins: what it reads fits behind the rest of  *)
(* the turn before.                                                        *)
LEMMA ReadInputStep == ASSUME IInv, ReadInput PROVE IInv'
<1> DEFINE n == Streams!Smaller(Streams!Length(in), ReadSize)
           bytes == Streams!First(in, n)
<1>1. /\ ~unpacking /\ Streams!Length(in) > 0 /\ unpacking' = TRUE
      /\ buf' = Packet!Stored(buf, bytes) /\ in' = Streams!Drop(in, n)
      /\ UNCHANGED <<sent, out, outLen, armed, sendUp, wire, ended, recvUp, delivered>>
  BY DEF ReadInput, sendVars, wireVars
<1>2. Streams!IsRing(in) /\ buf \in Packet!Buffers
  BY DEF IInv, TypeOK
<1>3. n \in Nat \ {0} /\ n <= ReadSize
  <2>1. PICK l \in Nat : l = Streams!Length(in)
    BY <1>2, RingLength DEF Streams!IsRing
  <2> QED
    BY <1>1, <2>1, SizeFacts DEF Streams!Smaller
<1> HIDE DEF n
<1>4. bytes \in Seq(Byte) /\ Len(bytes) = n /\ bytes # <<>>
  <2>1. bytes \in Seq(Byte) /\ Len(bytes) = n
    BY <1>2, <1>3, FirstFacts
  <2> QED
    BY <1>3, <2>1
<1>5. /\ buf.max = buf.write /\ buf.read <= buf.write /\ buf.read <= MoveForward
      /\ buf.read \in Nat /\ buf.write \in Nat
      /\ buf.write - buf.read < MaxPacket
  BY <1>1, <1>2, BufferFacts DEF IInv, BufferIsRoomy
<1>6. buf.write + n < BufferSize
  BY <1>3, <1>5, SizeFacts
<1>7. /\ buf' \in Packet!Buffers /\ buf'.read = buf.read
      /\ buf'.write = buf.write + n /\ buf'.max = buf'.write
  BY <1>1, <1>2, <1>4, <1>5, <1>6, StoredFacts
<1>8. Streams!IsRing(in')
  BY <1>1, <1>2, <1>3, DropFacts
<1>9. TypeOK'
  BY <1>1, <1>7, <1>8 DEF IInv, TypeOK
<1>10. BufferIsRoomy'
  BY <1>1, <1>3, <1>5, <1>6, <1>7, SizeFacts DEF BufferIsRoomy
<1> QED
  BY <1>1, <1>9, <1>10 DEF IInv, UnsentIsScheduled

(* A buffer that does not wrap is never turned.                            *)
LEMMA NeverTurned == IInv => Packet!Turned(buf) = buf
<1> SUFFICES ASSUME IInv PROVE Packet!Turned(buf) = buf
  OBVIOUS
<1>1. buf \in Packet!Buffers /\ buf.max = buf.write
  BY DEF IInv, TypeOK, BufferIsRoomy
<1>2. ~(buf.read = buf.max /\ buf.read > buf.write)
  BY <1>1, BufferFacts
<1> QED
  BY <1>2 DEF Packet!Turned

LEMMA UnpackPacketStep == ASSUME IInv, UnpackPacket PROVE IInv'
<1>1. /\ unpacking /\ Packet!HasPacket(buf) /\ buf' = Packet!Unpacked(buf)
      /\ delivered' = Append(delivered, Packet!PacketIn(buf, buf'))
      /\ UNCHANGED <<sent, out, outLen, armed, sendUp, wire, ended, in, unpacking, recvUp>>
  BY NeverTurned DEF UnpackPacket, sendVars, wireVars
<1>2. /\ buf \in Packet!Buffers /\ buf.max = buf.write /\ buf.read <= buf.write
      /\ buf.write < BufferSize /\ delivered \in Seq(Seq(Byte))
  BY DEF IInv, TypeOK, BufferIsRoomy
<1>3. /\ buf' \in Packet!Buffers /\ buf'.max = buf'.write /\ buf'.read <= buf'.write
      /\ buf'.read <= MoveForward /\ buf'.write <= buf.write
      /\ buf'.write - buf'.read <= buf.write - buf.read
      /\ Packet!PacketIn(buf, buf') \in Seq(Byte)
  BY <1>1, <1>2, UnpackedFacts
<1>4. delivered' \in Seq(Seq(Byte))
  BY <1>1, <1>2, <1>3
<1>5. TypeOK'
  BY <1>1, <1>3, <1>4 DEF IInv, TypeOK
<1>6. buf.read \in Nat /\ buf.write \in Nat /\ buf'.read \in Nat /\ buf'.write \in Nat
  BY <1>2, <1>3, BufferFacts
<1>7. buf'.write < BufferSize /\ buf'.write - buf'.read < MaxPacket + ReadSize
  <2>1. buf.write - buf.read < MaxPacket + ReadSize
    BY DEF IInv, BufferIsRoomy
  <2> QED
    BY <1>2, <1>3, <1>6, <2>1, SizeFacts
<1>8. BufferIsRoomy'
  BY <1>1, <1>3, <1>7 DEF BufferIsRoomy
<1> QED
  BY <1>1, <1>5, <1>8 DEF IInv, UnsentIsScheduled

(* The turn ends when what is left is less than a packet.                  *)
LEMMA UnpackDoneStep == ASSUME IInv, UnpackDone PROVE IInv'
<1>1. /\ ~Packet!HasPacket(buf) /\ buf' = buf /\ unpacking' = FALSE
      /\ UNCHANGED <<sent, out, outLen, armed, sendUp, wire, ended, in, recvUp, delivered>>
  BY NeverTurned DEF UnpackDone, sendVars, wireVars
<1>2. /\ buf \in Packet!Buffers /\ buf.max = buf.write /\ buf.read <= buf.write
      /\ buf.read <= MoveForward /\ buf.write < BufferSize
  BY DEF IInv, TypeOK, BufferIsRoomy
<1>3. buf.read \in Nat /\ buf.write \in Nat /\ Packet!PacketLen(buf) \in HeaderLen..MaxPacket
  BY <1>2, BufferFacts, SizeFacts
<1>4. buf.write - buf.read < MaxPacket
  BY <1>1, <1>2, <1>3, SizeFacts DEF Packet!HasPacket
<1>5. BufferIsRoomy'
  BY <1>1, <1>2, <1>3, <1>4, SizeFacts DEF BufferIsRoomy
<1>6. TypeOK'
  BY <1>1 DEF IInv, TypeOK
<1> QED
  BY <1>1, <1>5, <1>6 DEF IInv, UnsentIsScheduled

-----------------------------------------------------------------------------
LEMMA NextIInv == IInv /\ [Next]_vars => IInv'
<1> SUFFICES ASSUME IInv, [Next]_vars PROVE IInv'
  OBVIOUS
<1>1. CASE KickReceiver
  BY <1>1, CloseReceiverStep DEF KickReceiver
<1>2. CASE UNCHANGED vars
  BY <1>2 DEF vars, sendVars, wireVars, recvVars, IInv, TypeOK, BufferIsRoomy, UnsentIsScheduled
<1>3. CASE Next /\ ~KickReceiver
  BY <1>3, SendStep, WriteStep, SenderClosesStep, BreakStep, ReadStep, ReadInputStep,
     UnpackPacketStep, UnpackDoneStep DEF Next, SenderNet, ReceiverNet
<1> QED
  BY <1>1, <1>2, <1>3

(* The streams stay rings and the packet buffer keeps its room, whatever   *)
(* is written, however the kernel cuts it up, and whoever closes when.     *)
THEOREM ConnectionIsSound == Spec => []IInv
BY InitIInv, NextIInv, PTL DEF Spec

(* Every index stays inside its buffer, and only bytes are delivered.      *)
THEOREM TypeCorrect == Spec => []TypeOK
<1>1. IInv => TypeOK
  BY DEF IInv
<1> QED
  BY <1>1, ConnectionIsSound, PTL

(* With the sizes of base_util.h the buffer of unpack_packets needs none   *)
(* of its branches for wrapping round, and no read runs past its end.      *)
THEOREM BufferHasRoom == Spec => []BufferNeverWraps
<1>1. IInv => BufferNeverWraps
  <2> SUFFICES ASSUME IInv PROVE BufferNeverWraps
    OBVIOUS
  <2>1. buf.read \in Nat /\ buf.write \in Nat
    BY BufferFacts DEF IInv, TypeOK
  <2> QED
    BY <2>1, SizeFacts DEF IInv, BufferIsRoomy, BufferNeverWraps
<1> QED
  BY <1>1, ConnectionIsSound, PTL

(* A packet that is not sent yet has the write event added, although the   *)
(* cached length is renewed only by writes and by flushes that end.        *)
THEOREM UnsentIsSent == Spec => []UnsentIsScheduled
<1>1. IInv => UnsentIsScheduled
  BY DEF IInv
<1> QED
  BY <1>1, ConnectionIsSound, PTL

(* A connection is dropped for its output only when two thirds of the      *)
(* largest size are unsent: growing by halves wastes no more.              *)
THEOREM DropsAreEarned == Spec => OnlyBacklogDrops
<1> DEFINE Backlog == out.size <= MaxOut /\ out'.size > MaxOut
                        => 3 * (Streams!Length(out') + 1) >= 2 * MaxOut
<1>1. IInv /\ [Next]_vars => [Backlog]_vars
  <2> SUFFICES ASSUME IInv, Next, out.size <= MaxOut, out'.size > MaxOut
               PROVE  3 * (Streams!Length(out') + 1) >= 2 * MaxOut
    OBVIOUS
  <2>1. Streams!IsRing(out) /\ out.size \in Nat /\ out.size >= OutSize
    BY DEF IInv, TypeOK, Streams!IsRing
  <2>2. CASE \E n \in Lens : SendPacket(n)
    <3>1. PICK n \in Lens : SendPacket(n)
      BY <2>2
    <3>2. PICK packet : /\ packet = PacketOf(Len(sent) + 1, n)
                        /\ out' = Streams!Write(out, packet) /\ Len(sent) < MaxPackets
      BY <3>1 DEF SendPacket
    <3>3. sent \in Seq(PacketsWritten)
      BY DEF IInv, TypeOK
    <3>4. Len(sent) + 1 \in 1..MaxPackets
      BY <3>2, <3>3, SizeFacts
    <3>5. packet \in Seq(Byte) /\ packet # <<>>
      BY <3>2, <3>4, PacketFacts
    <3>6. /\ Streams!IsRing(out')
          /\ out'.size > out.size => 3 * (Streams!Length(out') + 1) >= 2 * out'.size
      BY <2>1, <3>2, <3>5, WriteFacts
    <3>7. PICK l \in Nat, s \in Nat : l = Streams!Length(out') /\ s = out'.size
      BY <3>6, RingLength DEF Streams!IsRing
    <3>8. 3 * (l + 1) >= 2 * s /\ s > MaxOut
      BY <2>1, <3>6, <3>7, SizeFacts
    <3> QED
      BY <3>7, <3>8, SizeFacts
  <2>3. CASE SenderNet \/ KickSender
    <3>1. CASE OnWrite
      <4>1. PICK least \in {0, 1} : \E n \in Accepted(least) : Flush(n)
        BY <3>1 DEF OnWrite
      <4>2. PICK n \in Accepted(least) : Flush(n)
        BY <4>1
      <4>3. n \in Nat
        BY <3>1, TakenFacts DEF OnWrite, IInv
      <4>4. out'.size = out.size
        BY <2>1, <4>2, <4>3, FlushedFacts DEF Flush
      <4> QED
        BY <2>1, <4>4, SizeFacts
    <3>2. CASE OnWriteTooBig \/ KickSender
      <4>1. out'.size = OutSize
        BY <3>2, SizeFacts, EmptyRingFacts DEF OnWriteTooBig, KickSender, CloseSender
      <4> QED
        BY <2>1, <4>1, SizeFacts
    <3> QED
      BY <2>3, <3>1, <3>2 DEF SenderNet
  <2>4. CASE Break \/ ReceiverNet \/ KickReceiver
    <3>1. UNCHANGED out
      BY <2>4 DEF Break, ReceiverNet, KickReceiver, OnRead, ReadInput, UnpackPacket, UnpackDone,
                  sendVars
    <3> QED
      BY <2>1, <3>1, SizeFacts
  <2> QED
    BY <2>2, <2>3, <2>4 DEF Next
<1> QED
  BY <1>1, ConnectionIsSound, PTL DEF Spec, OnlyBacklogDrops
-----------------------------------------------------------------------------
(* An index that has at most once run over the end of a ring.              *)
Wrapped(a, s) == IF a < s THEN a ELSE a - s

LEMMA WrapOnce ==
  ASSUME NEW a \in Nat, NEW s \in Nat \ {0}, a < 2 * s
  PROVE  a % s = Wrapped(a, s) /\ Wrapped(a, s) \in 0..s-1
<1>1. CASE a < s
  BY <1>1, ModFacts DEF Wrapped
<1>2. CASE a >= s
  BY <1>2, ModFacts DEF Wrapped
<1> QED
  BY <1>1, <1>2

(* The bytes a ring holds, in the order in which they were put in.         *)
Held(r) == Streams!First(r, Streams!Length(r))

LEMMA HeldFacts ==
  ASSUME NEW r, Streams!IsRing(r)
  PROVE  Held(r) \in Seq(Byte) /\ Len(Held(r)) = Streams!Length(r) /\ Streams!Length(r) \in Nat
BY FirstFacts, RingLength DEF Held, Streams!IsRing

(* The i-th byte from the head, before or behind the end of the buffer.    *)
LEMMA FirstAt ==
  ASSUME NEW r, Streams!IsRing(r), NEW n \in Nat, n <= Streams!Length(r), NEW i \in 1..n
  PROVE  Streams!First(r, n)[i] = r.cells[Wrapped(r.head + i - 1, r.size)]
<1>1. /\ r.size \in Nat \ {0} /\ r.head \in 0..r.size-1
      /\ Streams!Length(r) \in 0..r.size-1
  BY RingLength DEF Streams!IsRing
<1>2. r.head + i - 1 \in Nat /\ r.head + i - 1 < 2 * r.size
  BY <1>1
<1>3. (r.head + i - 1) % r.size = Wrapped(r.head + i - 1, r.size)
  BY <1>1, <1>2, WrapOnce
<1>4. Streams!First(r, n)[i] = r.cells[(r.head + i - 1) % r.size]
  BY DEF Streams!First
<1> QED
  BY <1>3, <1>4, Zenon

LEMMA HeldAt ==
  ASSUME NEW r, Streams!IsRing(r), NEW i \in 1..Streams!Length(r)
  PROVE  Held(r)[i] = r.cells[Wrapped(r.head + i - 1, r.size)]
<1>1. Streams!Length(r) \in Nat
  BY HeldFacts
<1> QED
  BY <1>1, FirstAt DEF Held

(* Two sequences of bytes that agree place by place are equal.             *)
LEMMA SameBytes ==
  ASSUME NEW s \in Seq(Byte), NEW t \in Seq(Byte), Len(s) = Len(t),
         \A i \in 1..Len(s) : s[i] = t[i]
  PROVE  s = t
BY SeqEqual

LEMMA PieceFacts ==
  ASSUME NEW s \in Seq(Byte), NEW m \in Nat \ {0}, NEW n \in Nat, m <= n + 1, n <= Len(s)
  PROVE  /\ SubSeq(s, m, n) \in Seq(Byte) /\ Len(SubSeq(s, m, n)) = n + 1 - m
         /\ \A i \in 1..n + 1 - m : SubSeq(s, m, n)[i] = s[m + i - 1]
<1>1. \A i \in m..n : s[i] \in Byte
  OBVIOUS
<1>2. /\ SubSeq(s, m, n) \in Seq(Byte)
      /\ Len(SubSeq(s, m, n)) = IF m <= n THEN n - m + 1 ELSE 0
      /\ \A i \in 1..n - m + 1 : SubSeq(s, m, n)[i] = s[m + i - 1]
  BY <1>1, SubSeqProperties
<1> QED
  BY <1>2

LEMMA JoinFacts ==
  ASSUME NEW s \in Seq(Byte), NEW t \in Seq(Byte)
  PROVE  /\ s \o t \in Seq(Byte) /\ Len(s \o t) = Len(s) + Len(t)
         /\ \A i \in 1..Len(s) : (s \o t)[i] = s[i]
         /\ \A i \in 1..Len(t) : (s \o t)[Len(s) + i] = t[i]
<1>1. /\ s \o t \in Seq(Byte) /\ Len(s \o t) = Len(s) + Len(t)
      /\ \A i \in 1..Len(s) + Len(t) : (s \o t)[i] = IF i <= Len(s) THEN s[i] ELSE t[i - Len(s)]
  BY ConcatProperties
<1>2. Len(s) \in Nat /\ Len(t) \in Nat
  OBVIOUS
<1>3. ASSUME NEW i \in 1..Len(t) PROVE (s \o t)[Len(s) + i] = t[i]
  <2>1. Len(s) + i \in 1..Len(s) + Len(t) /\ ~(Len(s) + i <= Len(s)) /\ Len(s) + i - Len(s) = i
    BY <1>2
  <2> QED
    BY <1>1, <2>1
<1>4. ASSUME NEW i \in 1..Len(s) PROVE (s \o t)[i] = s[i]
  BY <1>1, <1>2
<1> QED
  BY <1>1, <1>3, <1>4

(* What is copied out of a ring is what it has held longest.               *)
LEMMA FirstHeld ==
  ASSUME NEW r, Streams!IsRing(r), NEW n \in Nat, n <= Streams!Length(r)
  PROVE  Streams!First(r, n) = SubSeq(Held(r), 1, n)
<1>1. /\ Held(r) \in Seq(Byte) /\ Len(Held(r)) = Streams!Length(r) /\ Streams!Length(r) \in Nat
      /\ Streams!First(r, n) \in Seq(Byte) /\ Len(Streams!First(r, n)) = n
  BY HeldFacts, FirstFacts
<1>2. /\ SubSeq(Held(r), 1, n) \in Seq(Byte) /\ Len(SubSeq(Held(r), 1, n)) = n
      /\ \A i \in 1..n : SubSeq(Held(r), 1, n)[i] = Held(r)[1 + i - 1]
  BY <1>1, PieceFacts
<1>3. ASSUME NEW i \in 1..n PROVE Streams!First(r, n)[i] = SubSeq(Held(r), 1, n)[i]
  <2>1. i \in 1..Streams!Length(r) /\ 1 + i - 1 = i
    BY <1>1
  <2>2. Streams!First(r, n)[i] = Held(r)[i]
    <3>1. Streams!First(r, n)[i] = r.cells[Wrapped(r.head + i - 1, r.size)]
      BY FirstAt
    <3>2. Held(r)[i] = r.cells[Wrapped(r.head + i - 1, r.size)]
      BY <2>1, HeldAt
    <3> QED
      BY <3>1, <3>2
  <2> QED
    BY <1>2, <2>1, <2>2
<1> QED
  BY <1>1, <1>2, <1>3, SameBytes

(* Dropping n bytes leaves the others, in their order.                     *)
LEMMA DropHeld ==
  ASSUME NEW r, Streams!IsRing(r), NEW n \in Nat, n <= Streams!Length(r)
  PROVE  Held(Streams!Drop(r, n)) = SubSeq(Held(r), n + 1, Len(Held(r)))
<1> DEFINE v == Streams!Drop(r, n)
           l == Streams!Length(r)
<1>1. /\ r.size \in Nat \ {0} /\ r.head \in 0..r.size-1 /\ r.tail \in 0..r.size-1
      /\ l \in 0..r.size-1
  BY RingLength DEF Streams!IsRing
<1>2. (r.head + n) % r.size = Wrapped(r.head + n, r.size)
  <2>1. r.head + n \in Nat /\ r.head + n < 2 * r.size
    BY <1>1
  <2> QED
    BY <1>1, <2>1, WrapOnce
<1>3. /\ Streams!IsRing(v) /\ v.size = r.size /\ v.tail = r.tail /\ v.cells = r.cells
      /\ v.head = Wrapped(r.head + n, r.size)
  <2>1. v = [r EXCEPT !.head = Wrapped(r.head + n, r.size)]
    BY <1>2, Zenon DEF Streams!Drop
  <2> HIDE DEF v
  <2>2. v.tail = r.tail /\ v.cells = r.cells /\ v.head = Wrapped(r.head + n, r.size)
    BY <2>1 DEF Streams!IsRing
  <2> QED
    BY <2>2, DropFacts DEF v
<1> HIDE DEF v
<1>4. Streams!Length(v) = l - n
  BY <1>1, <1>3 DEF Streams!Length, Wrapped
<1> HIDE DEF l
<1>5. /\ Held(r) \in Seq(Byte) /\ Len(Held(r)) = l
      /\ Held(v) \in Seq(Byte) /\ Len(Held(v)) = l - n
  BY <1>3, <1>4, HeldFacts DEF l
<1>6. /\ SubSeq(Held(r), n + 1, l) \in Seq(Byte) /\ Len(SubSeq(Held(r), n + 1, l)) = l - n
      /\ \A i \in 1..l - n : SubSeq(Held(r), n + 1, l)[i] = Held(r)[n + i]
  <2>1. n + 1 \in Nat \ {0} /\ l \in Nat /\ n + 1 <= l + 1 /\ l + 1 - (n + 1) = l - n
    BY <1>1 DEF l
  <2>2. \A i \in 1..l - n : n + 1 + i - 1 = n + i
    BY <1>1
  <2> QED
    BY <1>5, <2>1, <2>2, PieceFacts
<1>7. ASSUME NEW i \in 1..l - n PROVE Held(v)[i] = Held(r)[n + i]
  <2>1. n + i \in 1..l /\ l \in Nat /\ l - n \in Nat
    BY <1>1 DEF l
  <2>2. Held(r)[n + i] = r.cells[Wrapped(r.head + (n + i) - 1, r.size)]
    BY <2>1, HeldAt DEF l
  <2>3. Held(v)[i] = v.cells[Wrapped(v.head + i - 1, v.size)]
    BY <1>3, <1>4, <2>1, HeldAt
  <2>4. Wrapped(v.head + i - 1, v.size) = Wrapped(r.head + (n + i) - 1, r.size)
    BY <1>1, <1>3, <2>1 DEF Wrapped, l
  <2> QED
    BY <1>3, <2>2, <2>3, <2>4
<1> QED
  BY <1>5, <1>6, <1>7, SameBytes DEF v

(* The cells from the head to the tail are n or more behind the tail, and  *)
(* the n cells after them are the first n behind it.                       *)
LEMMA CellsBehind ==
  ASSUME NEW r, Streams!IsRing(r), NEW n \in Nat, Streams!Length(r) + n < r.size
  PROVE  /\ \A i \in 1..Streams!Length(r) :
              /\ Wrapped(r.head + i - 1, r.size) \in 0..r.size-1
              /\ Streams!Behind(r, Wrapped(r.head + i - 1, r.size)) \in Nat
              /\ Streams!Behind(r, Wrapped(r.head + i - 1, r.size)) >= n
         /\ \A i \in 1..n :
              /\ Wrapped(r.head + (Streams!Length(r) + i) - 1, r.size) \in 0..r.size-1
              /\ Streams!Behind(r, Wrapped(r.head + (Streams!Length(r) + i) - 1, r.size)) = i - 1
<1>1. PICK s \in Nat, h \in Nat, t \in Nat, l \in Nat :
        s = r.size /\ h = r.head /\ t = r.tail /\ l = Streams!Length(r)
  BY HeldFacts DEF Streams!IsRing
<1>2. /\ h < s /\ t < s /\ l + n < s
      /\ l = IF h <= t THEN t - h ELSE s - h + t
  BY <1>1 DEF Streams!IsRing, Streams!Length
<1> DEFINE B(j) == IF j >= t THEN j - t ELSE j + s - t
<1>3. ASSUME NEW i \in 1..l
      PROVE  Wrapped(h + i - 1, s) \in 0..s-1 /\ B(Wrapped(h + i - 1, s)) \in Nat /\ B(Wrapped(h + i - 1, s)) >= n
  BY <1>2 DEF Wrapped
<1>4. ASSUME NEW i \in 1..n
      PROVE  Wrapped(h + (l + i) - 1, s) \in 0..s-1 /\ B(Wrapped(h + (l + i) - 1, s)) = i - 1
  BY <1>2 DEF Wrapped
<1>5. \A j : Streams!Behind(r, j) = B(j)
  BY <1>1, Zenon DEF Streams!Behind
<1> HIDE DEF B
<1>6. /\ \A i \in 1..l : /\ Wrapped(h + i - 1, s) \in 0..s-1
                        /\ Streams!Behind(r, Wrapped(h + i - 1, s)) \in Nat
                        /\ Streams!Behind(r, Wrapped(h + i - 1, s)) >= n
      /\ \A i \in 1..n : /\ Wrapped(h + (l + i) - 1, s) \in 0..s-1
                        /\ Streams!Behind(r, Wrapped(h + (l + i) - 1, s)) = i - 1
  BY <1>3, <1>4, <1>5
<1> QED
  BY <1>1, <1>6, Zenon

(* Bytes put behind the others, where there is room for them.              *)
LEMMA PutHeld ==
  ASSUME NEW r, Streams!IsRing(r), NEW bytes \in Seq(Byte),
         Streams!Length(r) + Len(bytes) < r.size
  PROVE  Held(Streams!Put(r, bytes)) = Held(r) \o bytes
<1> DEFINE v == Streams!Put(r, bytes)
<1>0. PICK n \in Nat, l \in Nat : n = Len(bytes) /\ l = Streams!Length(r)
  BY HeldFacts
<1>1. /\ r.size \in Nat \ {0} /\ r.head \in 0..r.size-1 /\ r.tail \in 0..r.size-1
      /\ l = (IF r.head <= r.tail THEN r.tail - r.head ELSE r.size - r.head + r.tail)
      /\ l + n < r.size
  BY <1>0 DEF Streams!IsRing, Streams!Length
<1>2. /\ Streams!IsRing(v) /\ v.size = r.size /\ Streams!Length(v) = l + n
      /\ v.head = r.head
      /\ v.cells = [j \in 0..r.size-1 |-> IF Streams!Behind(r, j) < Len(bytes)
                                          THEN bytes[Streams!Behind(r, j) + 1] ELSE r.cells[j]]
  <2>1. v.head = r.head
    BY DEF Streams!Put, Streams!IsRing
  <2>2. v.cells = [j \in 0..r.size-1 |-> IF Streams!Behind(r, j) < Len(bytes)
                                          THEN bytes[Streams!Behind(r, j) + 1] ELSE r.cells[j]]
    BY DEF Streams!Put, Streams!IsRing
  <2> QED
    BY <1>0, <2>1, <2>2, PutFacts
<1> HIDE DEF v
<1>3. /\ Held(r) \in Seq(Byte) /\ Len(Held(r)) = l
      /\ Held(v) \in Seq(Byte) /\ Len(Held(v)) = l + n
  BY <1>0, <1>2, HeldFacts
<1>4. /\ Held(r) \o bytes \in Seq(Byte) /\ Len(Held(r) \o bytes) = l + n
      /\ \A i \in 1..l : (Held(r) \o bytes)[i] = Held(r)[i]
      /\ \A i \in 1..n : (Held(r) \o bytes)[l + i] = bytes[i]
  <2>1. /\ Held(r) \o bytes \in Seq(Byte) /\ Len(Held(r) \o bytes) = Len(Held(r)) + Len(bytes)
        /\ \A i \in 1..Len(Held(r)) : (Held(r) \o bytes)[i] = Held(r)[i]
        /\ \A i \in 1..Len(bytes) : (Held(r) \o bytes)[Len(Held(r)) + i] = bytes[i]
    BY <1>3, JoinFacts
  <2> QED
    BY <1>0, <1>3, <2>1
<1>5. /\ \A i \in 1..l : LET j == Wrapped(r.head + i - 1, r.size) IN
                         /\ j \in 0..r.size-1
                         /\ Streams!Behind(r, j) \in Nat /\ Streams!Behind(r, j) >= n
      /\ \A i \in 1..n : LET j == Wrapped(r.head + (l + i) - 1, r.size) IN
                         j \in 0..r.size-1 /\ Streams!Behind(r, j) = i - 1
  <2>1. Streams!Length(r) + n < r.size
    BY <1>0, <1>1
  <2> QED
    BY <1>0, <2>1, CellsBehind
<1>6. ASSUME NEW i \in 1..l PROVE Held(v)[i] = Held(r)[i]
  <2>1. PICK j : j = Wrapped(r.head + i - 1, r.size)
    OBVIOUS
  <2>2. j \in 0..r.size-1 /\ Streams!Behind(r, j) \in Nat /\ Streams!Behind(r, j) >= n
    BY <1>5, <2>1
  <2>3. v.cells[j] = r.cells[j]
    BY <1>0, <1>2, <2>2
  <2>4. Held(r)[i] = r.cells[j]
    BY <1>0, <2>1, HeldAt
  <2>5. i \in 1..Streams!Length(v)
    BY <1>2
  <2>6. Held(v)[i] = v.cells[Wrapped(v.head + i - 1, v.size)]
    BY <1>2, <2>5, HeldAt
  <2> QED
    BY <1>2, <2>1, <2>3, <2>4, <2>6
<1>7. ASSUME NEW i \in 1..n PROVE Held(v)[l + i] = bytes[i]
  <2>1. PICK j : j = Wrapped(r.head + (l + i) - 1, r.size)
    OBVIOUS
  <2>2. j \in 0..r.size-1 /\ Streams!Behind(r, j) = i - 1
    BY <1>5, <2>1
  <2>3. v.cells[j] = bytes[i]
    <3>1. Streams!Behind(r, j) < Len(bytes) /\ Streams!Behind(r, j) + 1 = i
      BY <1>0, <2>2
    <3> QED
      BY <1>2, <2>2, <3>1
  <2>5. l + i \in 1..Streams!Length(v)
    BY <1>2
  <2>6. Held(v)[l + i] = v.cells[Wrapped(v.head + (l + i) - 1, v.size)]
    BY <1>2, <2>5, HeldAt
  <2> QED
    BY <1>2, <2>1, <2>3, <2>6
<1>8. ASSUME NEW i \in 1..l + n PROVE Held(v)[i] = (Held(r) \o bytes)[i]
  <2>1. CASE i <= l
    <3>1. i \in 1..l
      BY <2>1
    <3> QED
      BY <1>4, <1>6, <3>1
  <2>2. CASE i > l
    <3>1. i - l \in 1..n /\ l + (i - l) = i
      BY <2>2
    <3>2. Held(v)[l + (i - l)] = bytes[i - l] /\ (Held(r) \o bytes)[l + (i - l)] = bytes[i - l]
      BY <1>4, <1>7, <3>1
    <3> QED
      BY <3>1, <3>2
  <2>3. i <= l \/ i > l
    OBVIOUS
  <2> QED
    BY <2>1, <2>2, <2>3
<1> QED
  BY <1>3, <1>4, <1>8, SameBytes DEF v

(* A larger buffer holds the same bytes, from cell 0.                      *)
LEMMA ResizeHeld ==
  ASSUME NEW r, Streams!IsRing(r), NEW more \in Nat \ {0}
  PROVE  Held(Streams!Resize(r, more)) = Held(r)
<1> DEFINE v == Streams!Resize(r, more)
           n == r.size + Streams!Larger(r.size \div 2, more)
<1>1. PICK l \in Nat : l = Streams!Length(r)
  BY HeldFacts
<1>2. /\ Streams!IsRing(v) /\ Streams!Length(v) = l
      /\ v.size \in Nat /\ v.size >= r.size + more
  BY <1>1, ResizeFacts
<1>3. /\ v.size = n /\ v.head = 0
      /\ v.cells = [i \in 0..n-1 |-> IF i < Streams!Length(r) THEN r.cells[(r.head + i) % r.size] ELSE Blank]
  BY DEF Streams!Resize
<1> HIDE DEF v, n
<1>4. /\ r.size \in Nat \ {0} /\ r.head \in 0..r.size-1 /\ l < r.size
  BY <1>1, RingLength DEF Streams!IsRing
<1>5. /\ Held(r) \in Seq(Byte) /\ Len(Held(r)) = l
      /\ Held(v) \in Seq(Byte) /\ Len(Held(v)) = l
  BY <1>1, <1>2, HeldFacts
<1>6. ASSUME NEW i \in 1..l PROVE Held(v)[i] = Held(r)[i]
  <2>1. i \in 1..Streams!Length(v) /\ i \in 1..Streams!Length(r)
    BY <1>1, <1>2
  <2>2. Held(v)[i] = v.cells[Wrapped(v.head + i - 1, v.size)]
    BY <1>2, <2>1, HeldAt
  <2>3. Wrapped(v.head + i - 1, v.size) = i - 1 /\ i - 1 \in 0..n-1 /\ i - 1 < Streams!Length(r)
    BY <1>1, <1>2, <1>3, <1>4 DEF Wrapped
  <2>4. v.cells[i - 1] = r.cells[(r.head + (i - 1)) % r.size]
    BY <1>3, <2>3
  <2>5. (r.head + (i - 1)) % r.size = Wrapped(r.head + i - 1, r.size)
    <3>1. /\ r.head + (i - 1) \in Nat /\ r.head + (i - 1) < 2 * r.size
          /\ r.head + (i - 1) = r.head + i - 1
      BY <1>4
    <3> QED
      BY <1>4, <3>1, WrapOnce
  <2>6. Held(r)[i] = r.cells[Wrapped(r.head + i - 1, r.size)]
    BY <2>1, HeldAt
  <2> QED
    BY <2>2, <2>3, <2>4, <2>5, <2>6
<1> QED
  BY <1>5, <1>6, SameBytes DEF v

(* write: the packet is behind what was there, nothing else has changed.   *)
LEMMA WriteHeld ==
  ASSUME NEW r, Streams!IsRing(r), NEW bytes \in Seq(Byte)
  PROVE  Held(Streams!Write(r, bytes)) = Held(r) \o bytes
<1> DEFINE free == Streams!Free(r)
<1>1. PICK n \in Nat, l \in Nat : n = Len(bytes) /\ l = Streams!Length(r)
  BY HeldFacts
<1>2. /\ r.size \in Nat \ {0} /\ l \in 0..r.size-1 /\ free = r.size - 1 - l
  BY <1>1, RingLength DEF Streams!IsRing, Streams!Free
<1> HIDE DEF free
<1>3. CASE n >= free
  <2>1. PICK more : more = n - free + 1
    OBVIOUS
  <2>2. more \in Nat \ {0}
    BY <1>2, <1>3, <2>1
  <2>3. PICK w : w = Streams!Resize(r, more)
    OBVIOUS
  <2>4. /\ Streams!IsRing(w) /\ Streams!Length(w) = l /\ w.size \in Nat /\ w.size >= r.size + more
    BY <1>1, <2>2, <2>3, ResizeFacts
  <2>5. Streams!Length(w) + Len(bytes) < w.size
    <3>1. PICK s \in Nat, k \in Nat, f \in Nat : s = r.size /\ k = w.size /\ f = free
      BY <1>2, <2>4
    <3>2. f = s - 1 - l /\ more = n - f + 1 /\ k >= s + more
      BY <1>2, <2>1, <2>4, <3>1
    <3>3. l + n < k
      BY <3>2
    <3> QED
      BY <1>1, <2>4, <3>1, <3>3
  <2>6. Streams!Write(r, bytes) = Streams!Put(w, bytes)
    BY <1>1, <1>3, <2>1, <2>3 DEF Streams!Write, free
  <2>7. Held(w) = Held(r)
    BY <2>2, <2>3, ResizeHeld
  <2>8. Held(Streams!Put(w, bytes)) = Held(w) \o bytes
    BY <2>4, <2>5, PutHeld
  <2> QED
    BY <2>6, <2>7, <2>8
<1>4. CASE n < free
  <2>1. Streams!Write(r, bytes) = Streams!Put(r, bytes)
    BY <1>1, <1>2, <1>4 DEF Streams!Write, free
  <2>2. Streams!Length(r) + Len(bytes) < r.size
    BY <1>1, <1>2, <1>4
  <2> QED
    BY <2>1, <2>2, PutHeld
<1> QED
  BY <1>2, <1>3, <1>4

(* flush: what the kernel has taken is gone, the rest is as it was.        *)
LEMMA FlushedHeld ==
  ASSUME NEW r, Streams!IsRing(r), NEW n \in Nat, n <= Streams!Length(r)
  PROVE  Held(Streams!Flushed(r, n)) = SubSeq(Held(r), n + 1, Len(Held(r)))
<1>1. CASE n = Streams!Length(r)
  <2>1. /\ Streams!IsRing(Streams!Flushed(r, n)) /\ Streams!Length(Streams!Flushed(r, n)) = 0
    BY <1>1, FlushedFacts
  <2>2. Held(Streams!Flushed(r, n)) \in Seq(Byte) /\ Len(Held(Streams!Flushed(r, n))) = 0
    BY <2>1, HeldFacts
  <2>3. Held(r) \in Seq(Byte) /\ Len(Held(r)) = n
    BY <1>1, HeldFacts
  <2>4. /\ SubSeq(Held(r), n + 1, Len(Held(r))) \in Seq(Byte)
        /\ Len(SubSeq(Held(r), n + 1, Len(Held(r)))) = 0
    <3>1. n + 1 \in Nat \ {0} /\ n + 1 <= n + 1 /\ n <= Len(Held(r)) /\ n + 1 - (n + 1) = 0
      BY <2>3
    <3> QED
      BY <2>3, <3>1, PieceFacts
  <2> QED
    BY <2>2, <2>4, SameBytes
<1>2. CASE n # Streams!Length(r)
  BY <1>2, DropHeld DEF Streams!Flushed
<1> QED
  BY <1>1, <1>2

(* fill: what has arrived is behind what was there, in one piece or in two *)
(* with the buffer enlarged between them.                                  *)
LEMMA FillHeld ==
  ASSUME NEW r, Streams!IsRing(r), NEW bytes \in Seq(Byte)
  PROVE  Held(Streams!Fill(r, bytes)) = Held(r) \o bytes
<1> DEFINE free == Streams!Free(r)
<1>1. PICK n \in Nat, l \in Nat : n = Len(bytes) /\ l = Streams!Length(r)
  BY HeldFacts
<1>2. /\ r.size \in Nat \ {0} /\ l \in 0..r.size-1 /\ free = r.size - 1 - l
  BY <1>1, RingLength DEF Streams!IsRing, Streams!Free
<1> HIDE DEF free
<1>3. CASE n <= free
  <2>1. Streams!Fill(r, bytes) = Streams!Put(r, bytes)
    BY <1>1, <1>3 DEF Streams!Fill, free
  <2>2. Streams!Length(r) + Len(bytes) < r.size
    BY <1>1, <1>2, <1>3
  <2> QED
    BY <2>1, <2>2, PutHeld
<1>4. CASE n > free
  <2>1. PICK front, rest : front = SubSeq(bytes, 1, free) /\ rest = SubSeq(bytes, free + 1, n)
    OBVIOUS
  <2>2. /\ front \in Seq(Byte) /\ Len(front) = free
        /\ rest \in Seq(Byte) /\ Len(rest) = n - free /\ free \in Nat
    <3>1. free \in Nat /\ free + 1 \in Nat \ {0} /\ 1 <= free + 1 /\ free <= n /\ free + 1 <= n + 1
          /\ free + 1 - 1 = free /\ n + 1 - (free + 1) = n - free
      BY <1>2, <1>4
    <3> QED
      BY <1>1, <2>1, <3>1, PieceFacts
  <2>3. bytes = front \o rest
    <3>1. 1 \in 1..Len(bytes) + 1 /\ free \in 1 - 1..Len(bytes) /\ n \in free..Len(bytes)
      BY <1>1, <1>2, <1>4
    <3>2. SubSeq(bytes, 1, free) \o SubSeq(bytes, free + 1, n) = SubSeq(bytes, 1, n)
      BY <3>1, ConcatAdjacentSubSeq
    <3>3. SubSeq(bytes, 1, n) = bytes
      BY <1>1, SubSeqFull
    <3> QED
      BY <2>1, <3>2, <3>3
  <2>4. PICK full : full = Streams!Put(r, front)
    OBVIOUS
  <2>5. /\ Streams!IsRing(full) /\ full.size = r.size
        /\ Streams!Length(full) = l + free /\ Held(full) = Held(r) \o front
    <3>1. Streams!Length(r) + Len(front) < r.size
      BY <1>1, <1>2, <2>2
    <3> QED
      BY <1>1, <2>2, <2>4, <3>1, PutFacts, PutHeld
  <2>6. PICK more : more = Len(rest) + 1
    OBVIOUS
  <2>7. more \in Nat \ {0}
    BY <2>2, <2>6
  <2>8. PICK w : w = Streams!Resize(full, more)
    OBVIOUS
  <2>9. /\ Streams!IsRing(w) /\ Streams!Length(w) = l + free
        /\ w.size \in Nat /\ w.size >= full.size + more
        /\ Held(w) = Held(full)
    BY <2>5, <2>7, <2>8, ResizeFacts, ResizeHeld
  <2>10. Streams!Length(w) + Len(rest) < w.size
    <3>1. PICK s \in Nat, k \in Nat : s = r.size /\ k = w.size
      BY <1>2, <2>9
    <3>2. /\ free = s - 1 - l /\ more = n - free + 1 /\ k >= s + more
          /\ free \in Nat /\ more \in Nat
      <4>1. k >= s + more
        BY <2>5, <2>9, <3>1
      <4>2. more = n - free + 1
        BY <2>2, <2>6
      <4>3. free = s - 1 - l
        BY <1>2, <3>1
      <4> QED
        BY <2>2, <2>7, <4>1, <4>2, <4>3
    <3>3. l + free + (n - free) < k
      BY <3>2
    <3> QED
      BY <2>2, <2>9, <3>1, <3>3
  <2>11. Streams!Fill(r, bytes) = Streams!Put(w, rest)
    <3>1. ~(Len(bytes) <= free)
      BY <1>1, <1>2, <1>4
    <3>2. Streams!Fill(r, bytes) =
            LET f == Streams!Put(r, SubSeq(bytes, 1, free))
                t == SubSeq(bytes, free + 1, Len(bytes))
            IN Streams!Put(Streams!Resize(f, Len(t) + 1), t)
      BY <3>1 DEF Streams!Fill, free
    <3>3. full = Streams!Put(r, SubSeq(bytes, 1, free)) /\ rest = SubSeq(bytes, free + 1, Len(bytes))
      BY <1>1, <2>1, <2>4
    <3> QED
      BY <2>6, <2>8, <3>2, <3>3
  <2>12. Held(Streams!Fill(r, bytes)) = (Held(r) \o front) \o rest
    <3>1. Held(Streams!Put(w, rest)) = Held(w) \o rest
      <4>1. Streams!IsRing(w) /\ rest \in Seq(Byte)
        BY <2>2, <2>9
      <4> QED
        BY <4>1, <2>10, PutHeld
    <3>2. Held(w) = Held(r) \o front
      BY <2>5, <2>9
    <3> QED
      BY <2>11, <3>1, <3>2, Zenon
  <2>13. (Held(r) \o front) \o rest = Held(r) \o (front \o rest)
    <3>1. Held(r) \in Seq(Byte) /\ front \in Seq(Byte) /\ rest \in Seq(Byte)
      BY <2>2, HeldFacts
    <3> QED
      BY <3>1, ConcatAssociative
  <2> QED
    BY <2>3, <2>12, <2>13
<1> QED
  BY <1>2, <1>3, <1>4

-----------------------------------------------------------------------------
(* The bytes of the packet buffer that are not unpacked yet.               *)
Unread(b) == [i \in 1..b.write - b.read |-> b.cells[b.read + i - 1]]

LEMMA UnreadFacts ==
  ASSUME NEW b \in Packet!Buffers, b.read <= b.write
  PROVE  /\ Unread(b) \in Seq(Byte) /\ Len(Unread(b)) = b.write - b.read
         /\ b.write - b.read \in Nat
         /\ \A i \in 1..b.write - b.read : Unread(b)[i] = b.cells[b.read + i - 1]
<1>1. /\ b.read \in Nat /\ b.write \in Nat /\ b.write <= BufferSize
      /\ b.cells \in [0..BufferSize-1 -> Byte] /\ b.write - b.read \in Nat
  BY BufferFacts
<1>2. ASSUME NEW i \in 1..b.write - b.read PROVE b.cells[b.read + i - 1] \in Byte
  <2>1. b.read + i - 1 \in 0..BufferSize-1
    BY <1>1, SizeFacts
  <2> QED
    BY <1>1, <2>1
<1> QED
  BY <1>1, <1>2 DEF Unread

(* A read of unpack_packets puts its bytes behind those left over.         *)
LEMMA StoredUnread ==
  ASSUME NEW b \in Packet!Buffers, b.max = b.write, b.read <= b.write,
         NEW bytes \in Seq(Byte), bytes # <<>>, b.write + Len(bytes) < BufferSize
  PROVE  Unread(Packet!Stored(b, bytes)) = Unread(b) \o bytes
<1> DEFINE v == Packet!Stored(b, bytes)
<1>1. PICK n \in Nat \ {0}, w \in Nat, r \in Nat : n = Len(bytes) /\ w = b.write /\ r = b.read
  BY BufferFacts
<1>2. /\ v \in Packet!Buffers /\ v.read = r /\ v.write = w + n /\ r <= w /\ w + n < BufferSize
  BY <1>1, StoredFacts
<1>3. \A j \in 0..BufferSize-1 : v.cells[j] = IF j >= w /\ j < w + n THEN bytes[j - w + 1] ELSE b.cells[j]
  <2>1. ~Packet!Wraps(b, n) /\ ~Packet!Overruns(b, n)
    BY <1>1, <1>2, BufferFacts, SizeFacts DEF Packet!Wraps, Packet!Overruns
  <2>2. Packet!Place(b, n) = w
    BY <1>1, <2>1 DEF Packet!Place
  <2>3. Packet!Reserved(b, n) \in Packet!Buffers
    <3>1. b = [read |-> b.read, write |-> b.write, max |-> b.max, cells |-> b.cells]
      BY DEF Packet!Buffers
    <3>2. b.max < b.write + n
      BY <1>1
    <3>3. Packet!Reserved(b, n) = [b EXCEPT !.write = b.write + n, !.max = b.write + n]
      BY <2>1, <3>2 DEF Packet!Reserved
    <3>5. Packet!Reserved(b, n)
            = [read |-> b.read, write |-> b.write + n, max |-> b.write + n, cells |-> b.cells]
      BY <3>1, <3>3
    <3>4. /\ b.read \in 0..BufferSize /\ b.write + n \in 0..BufferSize
          /\ b.cells \in [0..BufferSize-1 -> Byte]
      BY <1>1, <1>2, BufferFacts, SizeFacts
    <3> QED
      BY <3>4, <3>5 DEF Packet!Buffers
  <2>4. v.cells = [i \in 0..BufferSize-1 |-> IF i >= w /\ i < w + n THEN bytes[i - w + 1] ELSE b.cells[i]]
    BY <1>1, <2>2, <2>3 DEF Packet!Stored, Packet!Buffers
  <2> QED
    BY <2>4
<1> HIDE DEF v
<1>4. /\ Unread(b) \in Seq(Byte) /\ Len(Unread(b)) = w - r
      /\ \A i \in 1..w - r : Unread(b)[i] = b.cells[r + i - 1]
  BY <1>1, UnreadFacts
<1>5. /\ Unread(v) \in Seq(Byte) /\ Len(Unread(v)) = w + n - r
      /\ \A i \in 1..w + n - r : Unread(v)[i] = v.cells[r + i - 1]
  <2>1. v.read <= v.write
    BY <1>1, <1>2
  <2>2. /\ Unread(v) \in Seq(Byte) /\ Len(Unread(v)) = v.write - v.read
        /\ \A i \in 1..v.write - v.read : Unread(v)[i] = v.cells[v.read + i - 1]
    BY <1>2, <2>1, UnreadFacts
  <2> QED
    BY <1>2, <2>2
<1>6. /\ Unread(b) \o bytes \in Seq(Byte) /\ Len(Unread(b) \o bytes) = w - r + n
      /\ \A i \in 1..w - r : (Unread(b) \o bytes)[i] = Unread(b)[i]
      /\ \A i \in 1..n : (Unread(b) \o bytes)[w - r + i] = bytes[i]
  <2>1. /\ Unread(b) \o bytes \in Seq(Byte) /\ Len(Unread(b) \o bytes) = Len(Unread(b)) + Len(bytes)
        /\ \A i \in 1..Len(Unread(b)) : (Unread(b) \o bytes)[i] = Unread(b)[i]
        /\ \A i \in 1..Len(bytes) : (Unread(b) \o bytes)[Len(Unread(b)) + i] = bytes[i]
    BY <1>4, JoinFacts
  <2> QED
    BY <1>1, <1>4, <2>1
<1>7. ASSUME NEW i \in 1..w + n - r PROVE Unread(v)[i] = (Unread(b) \o bytes)[i]
  <2>1. r + i - 1 \in 0..BufferSize-1
    BY <1>2, SizeFacts
  <2>2. CASE i <= w - r
    <3>1. i \in 1..w - r /\ ~(r + i - 1 >= w)
      BY <1>2, <2>2
    <3>2. v.cells[r + i - 1] = b.cells[r + i - 1]
      BY <1>3, <2>1, <3>1
    <3> QED
      BY <1>4, <1>5, <1>6, <3>1, <3>2
  <2>3. CASE i > w - r
    <3>1. /\ i - (w - r) \in 1..n /\ w - r + (i - (w - r)) = i
          /\ r + i - 1 >= w /\ r + i - 1 < w + n /\ r + i - 1 - w + 1 = i - (w - r)
      BY <1>2, <2>3
    <3>2. v.cells[r + i - 1] = bytes[i - (w - r)]
      BY <1>3, <2>1, <3>1
    <3>3. (Unread(b) \o bytes)[w - r + (i - (w - r))] = bytes[i - (w - r)]
      BY <1>6, <3>1
    <3> QED
      BY <1>5, <3>1, <3>2, <3>3
  <2>4. i <= w - r \/ i > w - r
    OBVIOUS
  <2> QED
    BY <2>2, <2>3, <2>4
<1>8. w + n - r = w - r + n
  OBVIOUS
<1> QED
  BY <1>5, <1>6, <1>7, <1>8, SameBytes DEF v

(* The packet handed out is what was at the read index, although the bytes *)
(* behind it may have been moved to the front of the buffer meanwhile: the *)
(* packet starts behind the place they are moved to.                       *)
LEMMA UnpackedUnread ==
  ASSUME NEW b \in Packet!Buffers, b.max = b.write, b.read <= b.write, b.write < BufferSize,
         b.write - b.read < MaxPacket + ReadSize, Packet!HasPacket(b)
  PROVE  /\ Packet!PacketLen(b) \in 1..Len(Unread(b))
         /\ Packet!PacketLen(b) = Unread(b)[1].len
         /\ Packet!PacketIn(b, Packet!Unpacked(b)) = SubSeq(Unread(b), 1, Packet!PacketLen(b))
         /\ Unread(Packet!Unpacked(b))
              = SubSeq(Unread(b), Packet!PacketLen(b) + 1, Len(Unread(b)))
<1> DEFINE v == Packet!Unpacked(b)
<1>0. PICK w \in Nat, r \in Nat : w = b.write /\ r = b.read
  BY BufferFacts
<1>1. PICK k : k = Packet!PacketLen(b) /\ w = b.write /\ r = b.read
  BY <1>0
<1>2. /\ b.max - b.read >= HeaderLen /\ r < BufferSize
  BY <1>1, BufferFacts, SizeFacts DEF Packet!HasPacket
<1>3. /\ k \in Nat \ {0} /\ k <= w - r /\ r <= w /\ w < BufferSize
      /\ w - r < MaxPacket + ReadSize
  BY <1>1, <1>2, BufferFacts, SizeFacts DEF Packet!HasPacket
<1>4. /\ Unread(b) \in Seq(Byte) /\ Len(Unread(b)) = w - r
      /\ \A i \in 1..w - r : Unread(b)[i] = b.cells[r + i - 1]
  BY <1>1, UnreadFacts
<1>5. k = Unread(b)[1].len
  <2>1. 1 \in 1..w - r /\ r + 1 - 1 = r
    BY <1>3
  <2>2. Unread(b)[1] = b.cells[r]
    BY <1>4, <2>1
  <2> QED
    BY <1>1, <2>2 DEF Packet!PacketLen, LenAt
<1>6. /\ v \in Packet!Buffers /\ v.max = v.write /\ v.read <= v.write
      /\ Packet!PacketIn(b, v) \in Seq(Byte)
  BY UnpackedFacts
<1>7. /\ v.write - v.read = w - r - k
      /\ \A i \in 1..w - r - k : v.cells[v.read + i - 1] = b.cells[r + k + i - 1]
      /\ \A i \in 1..k : v.cells[r + i - 1] = b.cells[r + i - 1]
  <2>1. CASE r + k > MoveForward
    <3>1. v = Packet!Moved(b, r + k)
      BY <1>1, <2>1 DEF Packet!Unpacked
    <3>2. /\ v.read = 0 /\ v.write = w - (r + k)
          /\ v.cells = [i \in 0..BufferSize-1 |-> IF i < w - (r + k) THEN b.cells[r + k + i] ELSE b.cells[i]]
      BY <1>1, <3>1 DEF Packet!Moved
    <3>3. v.write - v.read = w - r - k
      BY <1>3, <3>2
    <3>4. ASSUME NEW i \in 1..w - r - k PROVE v.cells[v.read + i - 1] = b.cells[r + k + i - 1]
      <4>1. i - 1 \in 0..BufferSize-1 /\ i - 1 < w - (r + k) /\ 0 + i - 1 = i - 1 /\ r + k + (i - 1) = r + k + i - 1
        BY <1>3, SizeFacts
      <4> QED
        BY <3>2, <4>1
    <3>5. ASSUME NEW i \in 1..k PROVE v.cells[r + i - 1] = b.cells[r + i - 1]
      <4>1. r + i - 1 \in 0..BufferSize-1 /\ ~(r + i - 1 < w - (r + k))
        BY <1>3, <2>1, SizeFacts
      <4> QED
        BY <3>2, <4>1
    <3> QED
      BY <3>3, <3>4, <3>5
  <2>2. CASE ~(r + k > MoveForward)
    <3>1. v.read = r + k /\ v.write = w /\ v.cells = b.cells
      BY <1>1, <2>2 DEF Packet!Unpacked, Packet!Buffers
    <3> QED
      BY <1>3, <3>1
  <2> QED
    BY <2>1, <2>2
<1> HIDE DEF v
<1>8. /\ Unread(v) \in Seq(Byte) /\ Len(Unread(v)) = w - r - k
      /\ \A i \in 1..w - r - k : Unread(v)[i] = v.cells[v.read + i - 1]
  BY <1>6, <1>7, UnreadFacts
<1>9. Packet!PacketIn(b, v) = SubSeq(Unread(b), 1, k)
  <2>1. /\ SubSeq(Unread(b), 1, k) \in Seq(Byte) /\ Len(SubSeq(Unread(b), 1, k)) = k
        /\ \A i \in 1..k : SubSeq(Unread(b), 1, k)[i] = Unread(b)[1 + i - 1]
    <3>1. 1 <= k + 1 /\ k <= Len(Unread(b)) /\ k + 1 - 1 = k
      BY <1>3, <1>4
    <3> QED
      BY <1>3, <1>4, <3>1, PieceFacts
  <2>2. /\ Len(Packet!PacketIn(b, v)) = k
        /\ \A i \in 1..k : Packet!PacketIn(b, v)[i] = v.cells[r + i - 1]
    BY <1>1, <1>3 DEF Packet!PacketIn
  <2>3. ASSUME NEW i \in 1..k PROVE Packet!PacketIn(b, v)[i] = SubSeq(Unread(b), 1, k)[i]
    <3>1. i \in 1..w - r /\ 1 + i - 1 = i
      BY <1>3
    <3>2. Packet!PacketIn(b, v)[i] = v.cells[r + i - 1]
      BY <2>2
    <3>3. SubSeq(Unread(b), 1, k)[i] = Unread(b)[i]
      BY <2>1, <3>1
    <3>4. Unread(b)[i] = b.cells[r + i - 1]
      BY <1>4, <3>1
    <3>5. v.cells[r + i - 1] = b.cells[r + i - 1]
      BY <1>7
    <3> QED
      BY <3>2, <3>3, <3>4, <3>5
  <2> QED
    BY <1>6, <2>1, <2>2, <2>3, SameBytes
<1>10. Unread(v) = SubSeq(Unread(b), k + 1, w - r)
  <2>1. /\ SubSeq(Unread(b), k + 1, w - r) \in Seq(Byte)
        /\ Len(SubSeq(Unread(b), k + 1, w - r)) = w - r - k
        /\ \A i \in 1..w - r - k : SubSeq(Unread(b), k + 1, w - r)[i] = Unread(b)[k + 1 + i - 1]
    <3>1. /\ k + 1 \in Nat \ {0} /\ w - r \in Nat /\ k + 1 <= w - r + 1 /\ w - r <= Len(Unread(b))
          /\ w - r + 1 - (k + 1) = w - r - k
      BY <1>3, <1>4
    <3> QED
      BY <1>4, <3>1, PieceFacts
  <2>2. ASSUME NEW i \in 1..w - r - k PROVE Unread(v)[i] = SubSeq(Unread(b), k + 1, w - r)[i]
    <3>1. k + 1 + i - 1 \in 1..w - r /\ r + (k + 1 + i - 1) - 1 = r + k + i - 1
      BY <1>3
    <3>2. Unread(b)[k + 1 + i - 1] = b.cells[r + k + i - 1]
      BY <1>4, <3>1
    <3> QED
      BY <1>7, <1>8, <2>1, <3>2
  <2> QED
    BY <1>8, <2>1, <2>2, SameBytes
<1>11. k \in 1..Len(Unread(b))
  BY <1>3, <1>4
<1> QED
  BY <1>1, <1>4, <1>5, <1>9, <1>10, <1>11 DEF v

-----------------------------------------------------------------------------
(* The bytes of the packets p that were written, and which of them follows *)
(* which; a sequence of bytes in the order in which they were written,     *)
(* from the first one that is not delivered; and all of those bytes.       *)
IsByteOf(b, p) == b.pkt \in 1..Len(p) /\ b.len = Len(p[b.pkt]) /\ b.off \in 1..b.len

Follows(b, c) ==
  IF b.off < b.len THEN c.pkt = b.pkt /\ c.off = b.off + 1
                   ELSE c.pkt = b.pkt + 1 /\ c.off = 1

InOrder(s, d, p) ==
  /\ \A i \in 1..Len(s) : IsByteOf(s[i], p)
  /\ s # <<>> => s[1].pkt = d + 1 /\ s[1].off = 1
  /\ \A i \in 1..Len(s) : i < Len(s) => Follows(s[i], s[i + 1])

ReachesTheLast(s, d, p) ==
  IF s = <<>> THEN d = Len(p) ELSE s[Len(s)].pkt = Len(p) /\ s[Len(s)].off = s[Len(s)].len

(* A break or a close loses bytes only from the end.                       *)
LEMMA PrefixInOrder ==
  ASSUME NEW s \in Seq(Byte), NEW t \in Seq(Byte), NEW d, NEW p, InOrder(s \o t, d, p)
  PROVE  InOrder(s, d, p)
<1>1. PICK n \in Nat, m \in Nat : n = Len(s) /\ m = Len(t)
  OBVIOUS
<1>2. /\ Len(s \o t) = n + m
      /\ \A i \in 1..n : (s \o t)[i] = s[i]
  BY <1>1, JoinFacts
<1>3. ASSUME NEW i \in 1..n PROVE IsByteOf(s[i], p)
  <2>1. i \in 1..Len(s \o t)
    BY <1>2
  <2> QED
    BY <1>2, <2>1 DEF InOrder
<1>4. ASSUME s # <<>> PROVE s[1].pkt = d + 1 /\ s[1].off = 1
  <2>1. 1 \in 1..n /\ s \o t # <<>>
    BY <1>1, <1>2, <1>4
  <2> QED
    BY <1>2, <2>1 DEF InOrder
<1>5. ASSUME NEW i \in 1..n, i < n PROVE Follows(s[i], s[i + 1])
  <2>1. i \in 1..Len(s \o t) /\ i < Len(s \o t) /\ i + 1 \in 1..n
    BY <1>2, <1>5
  <2> QED
    BY <1>2, <2>1 DEF InOrder
<1> QED
  BY <1>1, <1>3, <1>4, <1>5 DEF InOrder

(* Writing more changes nothing in the bytes written before.               *)
LEMMA MoreWritten ==
  ASSUME NEW s \in Seq(Byte), NEW d, NEW S, NEW p \in Seq(S), NEW x \in S, InOrder(s, d, p)
  PROVE  InOrder(s, d, Append(p, x))
<1>1. PICK k \in Nat : k = Len(p)
  OBVIOUS
<1>2. Len(Append(p, x)) = k + 1 /\ \A i \in 1..k : Append(p, x)[i] = p[i]
  BY <1>1
<1>3. \A b : IsByteOf(b, p) => IsByteOf(b, Append(p, x))
  BY <1>1, <1>2 DEF IsByteOf
<1> QED
  BY <1>3 DEF InOrder

(* A packet written follows the last byte that was.                        *)
LEMMA PacketFollows ==
  ASSUME NEW s \in Seq(Byte), NEW d \in Nat, NEW S, NEW p \in Seq(S), NEW n \in Nat \ {0},
         PacketOf(Len(p) + 1, n) \in S, PacketOf(Len(p) + 1, n) \in Seq(Byte),
         InOrder(s, d, p), ReachesTheLast(s, d, p)
  PROVE  LET x == PacketOf(Len(p) + 1, n) IN
         InOrder(s \o x, d, Append(p, x)) /\ ReachesTheLast(s \o x, d, Append(p, x))
<1>1. PICK m \in Nat, k \in Nat : m = Len(s) /\ k = Len(p)
  OBVIOUS
<1>2. PICK x : x = PacketOf(k + 1, n) /\ x = PacketOf(Len(p) + 1, n)
  BY <1>1
<1>3. /\ x \in S /\ x \in Seq(Byte) /\ Len(x) = n
      /\ \A i \in 1..n : x[i] = [pkt |-> k + 1, off |-> i, len |-> n]
  <2>1. x = [i \in 1..n |-> [pkt |-> k + 1, off |-> i, len |-> n]]
    BY <1>2 DEF PacketOf
  <2>2. Len(x) = n
    BY <2>1
  <2>3. \A i \in 1..n : x[i] = [pkt |-> k + 1, off |-> i, len |-> n]
    BY <2>1
  <2> QED
    BY <1>2, <2>2, <2>3
<1>4. PICK q : q = Append(p, x)
  OBVIOUS
<1>5. /\ Len(q) = k + 1 /\ q[k + 1] = x
      /\ InOrder(s, d, q)
  <2>1. Len(q) = k + 1 /\ q[k + 1] = x
    BY <1>1, <1>3, <1>4
  <2>2. InOrder(s, d, q)
    BY <1>3, <1>4, MoreWritten
  <2> QED
    BY <2>1, <2>2
<1>6. PICK j : j = s \o x
  OBVIOUS
<1>7. /\ Len(j) = m + n
      /\ \A i \in 1..m : j[i] = s[i]
      /\ \A i \in 1..n : j[m + i] = [pkt |-> k + 1, off |-> i, len |-> n]
  <2>1. /\ Len(j) = Len(s) + Len(x)
        /\ \A i \in 1..Len(s) : j[i] = s[i]
        /\ \A i \in 1..Len(x) : j[Len(s) + i] = x[i]
    <3>1. x \in Seq(Byte)
      BY <1>3
    <3> QED
      BY <1>6, <3>1, JoinFacts
  <2> QED
    BY <1>1, <1>3, <2>1
<1>8. \A i \in 1..m + n : i \in 1..m \/ \E a \in 1..n : i = m + a
  <2> SUFFICES ASSUME NEW i \in 1..m + n, ~(i \in 1..m) PROVE \E a \in 1..n : i = m + a
    OBVIOUS
  <2>1. i - m \in 1..n /\ i = m + (i - m)
    OBVIOUS
  <2> QED
    BY <2>1
<1>9. ASSUME NEW i \in 1..m + n PROVE IsByteOf(j[i], q)
  <2>1. CASE i \in 1..m
    <3>1. IsByteOf(s[i], q)
      BY <1>1, <1>5, <2>1 DEF InOrder
    <3>2. j[i] = s[i]
      BY <1>7, <2>1
    <3> QED
      BY <3>1, <3>2
  <2>2. ASSUME NEW a \in 1..n, i = m + a PROVE IsByteOf(j[i], q)
    <3>0. j[m + a] = [pkt |-> k + 1, off |-> a, len |-> n]
      BY <1>7
    <3>1. j[i].pkt = k + 1 /\ j[i].off = a /\ j[i].len = n
      BY <2>2, <3>0
    <3>2. k + 1 \in 1..k + 1
      OBVIOUS
    <3> QED
      BY <1>3, <1>5, <3>1, <3>2 DEF IsByteOf
  <2> QED
    BY <1>8, <2>1, <2>2
<1>10. j[1].pkt = d + 1 /\ j[1].off = 1
  <2>1. CASE s = <<>>
    <3>1. m = 0 /\ d = k /\ 1 \in 1..n /\ 0 + 1 = 1
      BY <1>1, <2>1 DEF ReachesTheLast
    <3>2. j[m + 1] = [pkt |-> k + 1, off |-> 1, len |-> n]
      BY <1>7, <3>1
    <3> QED
      BY <3>1, <3>2
  <2>2. CASE s # <<>>
    <3>1. 1 \in 1..m
      BY <1>1, <2>2
    <3> QED
      BY <1>5, <1>7, <2>2, <3>1 DEF InOrder
  <2> QED
    BY <2>1, <2>2
<1>11. ASSUME NEW i \in 1..m + n, i < m + n PROVE Follows(j[i], j[i + 1])
  <2>1. CASE i < m
    <3>1. i \in 1..m /\ i + 1 \in 1..m /\ i < m
      BY <2>1
    <3> QED
      BY <1>1, <1>5, <1>7, <3>1 DEF InOrder
  <2>2. CASE i = m
    <3>1. m \in 1..m /\ s # <<>> /\ 1 \in 1..n
      BY <1>1, <2>2
    <3>2. s[m].pkt = k /\ s[m].off = s[m].len /\ IsByteOf(s[m], q)
      BY <1>1, <1>5, <3>1 DEF ReachesTheLast, InOrder
    <3>3. j[m] = s[m] /\ j[m + 1] = [pkt |-> k + 1, off |-> 1, len |-> n]
      BY <1>7, <3>1
    <3>4. ~(s[m].off < s[m].len)
      BY <3>2 DEF IsByteOf
    <3> QED
      BY <2>2, <3>2, <3>3, <3>4 DEF Follows
  <2>3. CASE i > m
    <3>1. /\ i - m \in 1..n /\ i - m + 1 \in 1..n /\ m + (i - m) = i /\ m + (i - m + 1) = i + 1
          /\ i - m < n
      BY <1>11, <2>3
    <3>2. /\ j[i] = [pkt |-> k + 1, off |-> i - m, len |-> n]
          /\ j[i + 1] = [pkt |-> k + 1, off |-> i - m + 1, len |-> n]
      BY <1>7, <3>1
    <3> QED
      BY <3>1, <3>2 DEF Follows
  <2> QED
    BY <2>1, <2>2, <2>3
<1>12. InOrder(j, d, q)
  BY <1>7, <1>9, <1>10, <1>11 DEF InOrder
<1>13. ReachesTheLast(j, d, q)
  <2>1. j # <<>> /\ Len(j) = m + n /\ n \in 1..n
    BY <1>7
  <2>2. j[m + n] = [pkt |-> k + 1, off |-> n, len |-> n]
    BY <1>7, <2>1
  <2> QED
    BY <1>5, <2>1, <2>2 DEF ReachesTheLast
<1> QED
  BY <1>2, <1>4, <1>6, <1>12, <1>13

(* The first bytes are those of the first packet not delivered, in order.  *)
LEMMA FirstPacket ==
  ASSUME NEW s \in Seq(Byte), NEW d \in Nat, NEW p, InOrder(s, d, p),
         s # <<>>, NEW l \in Nat, l = s[1].len, l <= Len(s)
  PROVE  /\ d + 1 \in 1..Len(p) /\ l = Len(p[d + 1]) /\ l > 0
         /\ \A i \in 1..l : s[i] = [pkt |-> d + 1, off |-> i, len |-> l]
<1>1. PICK n \in Nat : n = Len(s)
  OBVIOUS
<1>2. 1 \in 1..n /\ s[1].pkt = d + 1 /\ s[1].off = 1 /\ IsByteOf(s[1], p)
  BY <1>1 DEF InOrder
<1>3. d + 1 \in 1..Len(p) /\ l = Len(p[d + 1]) /\ l > 0
  BY <1>2 DEF IsByteOf
<1>4. \A i \in 1..l : s[i].pkt = d + 1 /\ s[i].off = i
  <2> DEFINE T == {i \in 1..l : ~(s[i].pkt = d + 1 /\ s[i].off = i)}
  <2> SUFFICES ASSUME T # {} PROVE FALSE
    OBVIOUS
  <2>1. T \subseteq Nat
    OBVIOUS
  <2>2. PICK x \in T : \A y \in T : x <= y
    BY <2>1, LeastNat
  <2>3. x \in 1..l /\ ~(s[x].pkt = d + 1 /\ s[x].off = x)
    BY <2>2
  <2>4. x # 1
    BY <1>2, <2>3
  <2>5. x - 1 \in 1..l /\ x - 1 < x /\ x - 1 \in 1..n /\ x - 1 < n /\ x - 1 + 1 = x /\ x - 1 < l
    BY <1>1, <2>3, <2>4
  <2>6. s[x - 1].pkt = d + 1 /\ s[x - 1].off = x - 1
    BY <2>2, <2>5
  <2>7. IsByteOf(s[x - 1], p) /\ Follows(s[x - 1], s[x])
    <3>1. Follows(s[x - 1], s[x - 1 + 1])
      BY <1>1, <2>5 DEF InOrder
    <3>2. IsByteOf(s[x - 1], p)
      BY <1>1, <2>5 DEF InOrder
    <3> QED
      BY <2>5, <3>1, <3>2
  <2>8. s[x - 1].len = l
    BY <1>3, <2>6, <2>7 DEF IsByteOf
  <2> QED
    BY <2>3, <2>5, <2>6, <2>7, <2>8 DEF Follows
<1>5. ASSUME NEW i \in 1..l PROVE s[i] = [pkt |-> d + 1, off |-> i, len |-> l]
  <2>1. i \in 1..n /\ s[i] \in Byte /\ IsByteOf(s[i], p)
    <3>1. i \in 1..n
      BY <1>1
    <3>2. IsByteOf(s[i], p)
      BY <1>1, <3>1 DEF InOrder
    <3> QED
      BY <1>1, <3>1, <3>2
  <2>2. s[i].len = l
    BY <1>3, <1>4, <2>1 DEF IsByteOf
  <2>3. s[i] = [pkt |-> s[i].pkt, off |-> s[i].off, len |-> s[i].len]
    BY <2>1 DEF Byte
  <2> QED
    BY <1>4, <2>2, <2>3
<1> QED
  BY <1>3, <1>5

(* What is left when the first packet is taken out starts with the next.   *)
LEMMA RestInOrder ==
  ASSUME NEW s \in Seq(Byte), NEW t \in Seq(Byte), NEW d \in Nat, NEW p, InOrder(s \o t, d, p),
         s # <<>>, Len(s) = s[1].len
  PROVE  /\ InOrder(t, d + 1, p)
         /\ ReachesTheLast(s \o t, d, p) => ReachesTheLast(t, d + 1, p)
<1>1. PICK l \in Nat, m \in Nat : l = Len(s) /\ m = Len(t)
  OBVIOUS
<1>2. PICK j : j = s \o t
  OBVIOUS
<1>3. /\ j \in Seq(Byte) /\ Len(j) = l + m
      /\ \A i \in 1..l : j[i] = s[i]
      /\ \A i \in 1..m : j[l + i] = t[i]
  <2>1. /\ j \in Seq(Byte) /\ Len(j) = Len(s) + Len(t)
        /\ \A i \in 1..Len(s) : j[i] = s[i]
        /\ \A i \in 1..Len(t) : j[Len(s) + i] = t[i]
    BY <1>2, JoinFacts
  <2> QED
    BY <1>1, <2>1
<1>4. l > 0 /\ j # <<>> /\ j[1] = s[1] /\ InOrder(j, d, p)
  BY <1>1, <1>2, <1>3
<1>5. /\ l = j[1].len /\ l <= Len(j)
  BY <1>1, <1>3, <1>4
<1>6. /\ \A i \in 1..l : j[i] = [pkt |-> d + 1, off |-> i, len |-> l]
  <2>1. j \in Seq(Byte) /\ l \in Nat
    BY <1>1, <1>3
  <2> QED
    BY <1>4, <1>5, <2>1, FirstPacket
<1>7. j[l].pkt = d + 1 /\ j[l].off = l /\ j[l].len = l
  <2>1. l \in 1..l
    BY <1>1, <1>4
  <2>2. j[l] = [pkt |-> d + 1, off |-> l, len |-> l]
    BY <1>6, <2>1
  <2> QED
    BY <2>2
<1>8. ASSUME NEW i \in 1..m PROVE IsByteOf(t[i], p)
  <2>1. l + i \in 1..Len(j)
    BY <1>3
  <2>2. IsByteOf(j[l + i], p)
    BY <1>4, <2>1 DEF InOrder
  <2> QED
    BY <1>3, <2>2
<1>9. ASSUME t # <<>> PROVE t[1].pkt = d + 1 + 1 /\ t[1].off = 1
  <2>1. 1 \in 1..m /\ l \in 1..Len(j) /\ l < Len(j)
    <3>1. m > 0
      BY <1>1, <1>9
    <3> QED
      BY <1>3, <1>4, <3>1
  <2>2. Follows(j[l], j[l + 1])
    BY <1>4, <2>1 DEF InOrder
  <2>3. j[l].off = l /\ j[l].len = l /\ j[l].pkt = d + 1 /\ j[l + 1] = t[1]
    BY <1>3, <1>7, <2>1
  <2>4. ~(j[l].off < j[l].len)
    BY <1>1, <2>3
  <2> QED
    BY <2>2, <2>3, <2>4 DEF Follows
<1>10. ASSUME NEW i \in 1..m, i < m PROVE Follows(t[i], t[i + 1])
  <2>1. /\ l + i \in 1..Len(j) /\ l + i < Len(j) /\ i + 1 \in 1..m /\ l + i + 1 = l + (i + 1)
    BY <1>3, <1>10
  <2>2. Follows(j[l + i], j[l + i + 1])
    BY <1>4, <2>1 DEF InOrder
  <2>3. j[l + i] = t[i] /\ j[l + (i + 1)] = t[i + 1]
    BY <1>3, <2>1
  <2> QED
    BY <2>1, <2>2, <2>3
<1>11. InOrder(t, d + 1, p)
  BY <1>1, <1>8, <1>9, <1>10 DEF InOrder
<1>12. ASSUME ReachesTheLast(j, d, p) PROVE ReachesTheLast(t, d + 1, p)
  <2>1. j[Len(j)].pkt = Len(p) /\ j[Len(j)].off = j[Len(j)].len
    BY <1>4, <1>12 DEF ReachesTheLast
  <2>2. CASE t = <<>>
    <3>1. Len(j) = l
      BY <1>1, <1>3, <2>2
    <3> QED
      BY <1>7, <2>1, <2>2, <3>1 DEF ReachesTheLast
  <2>3. CASE t # <<>>
    <3>1. m \in 1..m /\ Len(j) = l + m
      BY <1>1, <1>3, <2>3
    <3>2. j[Len(j)] = t[m]
      BY <1>3, <3>1
    <3> QED
      BY <1>1, <2>1, <2>3, <3>2 DEF ReachesTheLast
  <2> QED
    BY <2>2, <2>3
<1> QED
  BY <1>2, <1>11, <1>12


(* The bytes on their way to the receiver's unpack_packets, first those it *)
(* gets first, and what may still be behind them.                          *)
Received == (Unread(buf) \o Held(in)) \o wire

OrderInv ==
  /\ \A k \in 1..Len(sent) : sent[k] = PacketOf(k, Len(sent[k]))
  /\ Len(delivered) <= Len(sent)
  /\ \A k \in 1..Len(delivered) : delivered[k] = sent[k]
  /\ InOrder(Received, Len(delivered), sent)
  /\ sendUp /\ ended = "no" => /\ InOrder(Received \o Held(out), Len(delivered), sent)
                               /\ ReachesTheLast(Received \o Held(out), Len(delivered), sent)

LEMMA StateFacts ==
  ASSUME IInv
  PROVE  /\ Unread(buf) \in Seq(Byte) /\ Held(in) \in Seq(Byte) /\ wire \in Seq(Byte)
         /\ Held(out) \in Seq(Byte) /\ Received \in Seq(Byte)
         /\ Streams!IsRing(in) /\ Streams!IsRing(out) /\ buf \in Packet!Buffers
         /\ Len(Held(out)) = Streams!Length(out) /\ Len(Held(in)) = Streams!Length(in)
         /\ sent \in Seq(PacketsWritten) /\ delivered \in Seq(Seq(Byte))
<1>1. /\ Streams!IsRing(in) /\ Streams!IsRing(out) /\ buf \in Packet!Buffers /\ wire \in Seq(Byte)
      /\ buf.read <= buf.write
      /\ sent \in Seq(PacketsWritten) /\ delivered \in Seq(Seq(Byte))
  BY DEF IInv, TypeOK, BufferIsRoomy
<1>2. Unread(buf) \in Seq(Byte)
  BY <1>1, UnreadFacts
<1>3. /\ Held(in) \in Seq(Byte) /\ Held(out) \in Seq(Byte)
      /\ Len(Held(out)) = Streams!Length(out) /\ Len(Held(in)) = Streams!Length(in)
  BY <1>1, HeldFacts
<1>4. Unread(buf) \o Held(in) \in Seq(Byte)
  BY <1>2, <1>3, JoinFacts
<1>5. Received \in Seq(Byte)
  BY <1>1, <1>4, JoinFacts DEF Received
<1> QED
  BY <1>1, <1>2, <1>3, <1>5

(* A sequence of bytes is its first n and the others.                      *)
LEMMA CutFacts ==
  ASSUME NEW s \in Seq(Byte), NEW n \in 0..Len(s)
  PROVE  /\ SubSeq(s, 1, n) \in Seq(Byte) /\ Len(SubSeq(s, 1, n)) = n
         /\ SubSeq(s, n + 1, Len(s)) \in Seq(Byte)
         /\ s = SubSeq(s, 1, n) \o SubSeq(s, n + 1, Len(s))
<1>1. PICK m \in Nat : m = Len(s)
  OBVIOUS
<1>2. /\ n \in Nat /\ 1 \in Nat \ {0} /\ 1 <= n + 1 /\ n <= m /\ n + 1 - 1 = n
      /\ n + 1 \in Nat \ {0} /\ n + 1 <= m + 1
  BY <1>1
<1>3. SubSeq(s, 1, n) \in Seq(Byte) /\ Len(SubSeq(s, 1, n)) = n
  BY <1>1, <1>2, PieceFacts
<1>4. SubSeq(s, n + 1, m) \in Seq(Byte)
  BY <1>1, <1>2, PieceFacts
<1>5. SubSeq(s, 1, n) \o SubSeq(s, n + 1, m) = SubSeq(s, 1, m)
  <2>1. 1 \in 1..Len(s) + 1 /\ n \in 1 - 1..Len(s) /\ m \in n..Len(s)
    BY <1>1, <1>2
  <2> QED
    BY <2>1, ConcatAdjacentSubSeq
<1>6. SubSeq(s, 1, m) = s
  BY <1>1, SubSeqFull
<1> QED
  BY <1>1, <1>3, <1>4, <1>5, <1>6

LEMMA InitOrder == Init => OrderInv
<1> SUFFICES ASSUME Init PROVE OrderInv
  OBVIOUS
<1>1. IInv
  BY InitIInv
<1>2. buf.read = 0 /\ buf.write = 0 /\ sent = <<>> /\ delivered = <<>> /\ wire = <<>>
  BY DEF Init, Packet!EmptyBuffer
<1>3. /\ Len(Unread(buf)) = 0 /\ Len(Held(in)) = 0 /\ Len(Held(out)) = 0
  <2>1. Len(Unread(buf)) = buf.write - buf.read
    BY <1>1, <1>2, UnreadFacts DEF IInv, TypeOK
  <2>2. Streams!Length(in) = 0 /\ Streams!Length(out) = 0
    BY SizeFacts, EmptyRingFacts DEF Init
  <2> QED
    BY <1>1, <1>2, <2>1, <2>2, StateFacts
<1>4. /\ Unread(buf) = <<>> /\ Held(in) = <<>> /\ Held(out) = <<>>
  BY <1>1, <1>3, StateFacts
<1>5. Received = <<>> /\ Received \o Held(out) = <<>>
  BY <1>2, <1>4 DEF Received
<1>6. InOrder(<<>>, 0, <<>>) /\ ReachesTheLast(<<>>, 0, <<>>)
  BY DEF InOrder, ReachesTheLast
<1> QED
  BY <1>2, <1>5, <1>6 DEF OrderInv

(* A step that moves bytes along, or loses the last of them, keeps them in *)
(* order.                                                                  *)
LEMMA KeepsOrder ==
  ASSUME OrderInv, NEW s \in Seq(Byte), NEW t \in Seq(Byte),
         Received' = s,
         s \o t = Received \/ (sendUp /\ ended = "no" /\ s \o t = Received \o Held(out)),
         UNCHANGED <<sent, delivered>>,
         sendUp' /\ ended' = "no" => /\ sendUp /\ ended = "no"
                                     /\ s \o Held(out)' = Received \o Held(out)
  PROVE  OrderInv'
<1>1. InOrder(s \o t, Len(delivered), sent)
  BY DEF OrderInv
<1>2. InOrder(s, Len(delivered), sent)
  BY <1>1, PrefixInOrder
<1>3. InOrder(Received', Len(delivered'), sent')
  BY <1>2
<1>4. sendUp' /\ ended' = "no" =>
        /\ InOrder(Received' \o Held(out)', Len(delivered'), sent')
        /\ ReachesTheLast(Received' \o Held(out)', Len(delivered'), sent')
  BY DEF OrderInv
<1>5. /\ \A k \in 1..Len(sent') : sent'[k] = PacketOf(k, Len(sent'[k]))
      /\ Len(delivered') <= Len(sent')
      /\ \A k \in 1..Len(delivered') : delivered'[k] = sent'[k]
  BY DEF OrderInv
<1> QED
  BY <1>3, <1>4, <1>5 DEF OrderInv


LEMMA Regroup ==
  ASSUME NEW s \in Seq(Byte), NEW t \in Seq(Byte), NEW u \in Seq(Byte)
  PROVE  (s \o t) \o u = s \o (t \o u) /\ s \o t \in Seq(Byte) /\ t \o u \in Seq(Byte)
<1>1. s \o t \in Seq(Byte) /\ t \o u \in Seq(Byte)
  BY JoinFacts
<1>2. (s \o t) \o u = s \o (t \o u)
  BY ConcatAssociative
<1> QED
  BY <1>1, <1>2

(* A step that changes nothing on the receiver's side of the socket, and   *)
(* of the sender's side only what no longer matters.                       *)
LEMMA NothingMoves ==
  ASSUME IInv, OrderInv, Received' = Received, UNCHANGED <<sent, delivered>>,
         sendUp' /\ ended' = "no" => sendUp /\ ended = "no" /\ Held(out)' = Held(out)
  PROVE  OrderInv'
<1>1. Received \in Seq(Byte) /\ Received \o <<>> = Received /\ <<>> \in Seq(Byte)
  BY StateFacts, ConcatEmptySeq
<1> QED
  BY <1>1, KeepsOrder

LEMMA SendOrder == ASSUME IInv, OrderInv, NEW n \in Lens, SendPacket(n) PROVE OrderInv'
<1>1. PICK x : x = PacketOf(Len(sent) + 1, n)
  OBVIOUS
<1>2. /\ out' = Streams!Write(out, x) /\ sent' = Append(sent, x) /\ Len(sent) < MaxPackets
      /\ UNCHANGED <<sendUp, wire, ended, in, buf, delivered>>
  BY <1>1 DEF SendPacket, wireVars, recvVars
<1>3. PICK k \in Nat, d \in Nat : k = Len(sent) /\ d = Len(delivered)
  BY StateFacts
<1>4. /\ x \in PacketsWritten /\ x \in Seq(Byte) /\ x = PacketOf(k + 1, n)
      /\ n \in Nat \ {0}
  <2>1. k + 1 \in 1..MaxPackets
    BY <1>2, <1>3, SizeFacts
  <2>2. n \in Nat \ {0}
    BY SizesAssumption
  <2> QED
    BY <1>1, <1>3, <2>1, <2>2, PacketFacts
<1>5. Len(x) = n
  BY <1>4 DEF PacketOf
<1>6. /\ Len(sent') = k + 1 /\ sent'[k + 1] = x
      /\ \A i \in 1..k : sent'[i] = sent[i]
  BY <1>2, <1>3, <1>4, StateFacts
<1>7. \A i \in 1..Len(sent') : sent'[i] = PacketOf(i, Len(sent'[i]))
  <2> SUFFICES ASSUME NEW i \in 1..k + 1 PROVE sent'[i] = PacketOf(i, Len(sent'[i]))
    BY <1>6
  <2>1. CASE i = k + 1
    BY <1>4, <1>5, <1>6, <2>1
  <2>2. CASE i # k + 1
    <3>1. i \in 1..k
      BY <1>3, <2>2
    <3>2. sent[i] = PacketOf(i, Len(sent[i]))
      BY <1>3, <3>1 DEF OrderInv
    <3> QED
      BY <1>6, <3>1, <3>2
  <2> QED
    BY <2>1, <2>2
<1>8. d <= k /\ Len(delivered') <= Len(sent')
  BY <1>2, <1>3, <1>6 DEF OrderInv
<1>9. \A i \in 1..Len(delivered') : delivered'[i] = sent'[i]
  <2> SUFFICES ASSUME NEW i \in 1..d PROVE delivered[i] = sent'[i]
    BY <1>2, <1>3
  <2>1. i \in 1..k
    BY <1>8
  <2> QED
    BY <1>3, <1>6, <2>1 DEF OrderInv
<1>10. Received' = Received
  BY <1>2 DEF Received, Held, Unread, Streams!First, Streams!Length
<1>11. InOrder(Received', Len(delivered'), sent')
  <2>1. InOrder(Received, d, sent)
    BY <1>3 DEF OrderInv
  <2>2. InOrder(Received, d, Append(sent, x))
    BY <1>4, <2>1, StateFacts, MoreWritten
  <2> QED
    BY <1>2, <1>3, <1>10, <2>2
<1>12. ASSUME sendUp', ended' = "no"
       PROVE  /\ InOrder(Received' \o Held(out)', Len(delivered'), sent')
              /\ ReachesTheLast(Received' \o Held(out)', Len(delivered'), sent')
  <2>1. Held(out') = Held(out) \o x
    BY <1>2, <1>4, StateFacts, WriteHeld
  <2>2. PICK s : s = Received \o Held(out)
    OBVIOUS
  <2>3. s \in Seq(Byte) /\ Received \o (Held(out) \o x) = s \o x
    <3>1. Received \in Seq(Byte) /\ Held(out) \in Seq(Byte)
      BY StateFacts
    <3>2. (Received \o Held(out)) \o x = Received \o (Held(out) \o x) /\ Received \o Held(out) \in Seq(Byte)
      BY <1>4, <3>1, Regroup
    <3> QED
      BY <2>2, <3>2
  <2>4. InOrder(s, d, sent) /\ ReachesTheLast(s, d, sent)
    BY <1>2, <1>3, <1>12, <2>2 DEF OrderInv
  <2>5. /\ InOrder(s \o x, d, Append(sent, x)) /\ ReachesTheLast(s \o x, d, Append(sent, x))
    BY <1>1, <1>4, <2>3, <2>4, StateFacts, PacketFollows
  <2>6. Received' \o Held(out)' = s \o x
    BY <1>10, <2>1, <2>3
  <2> QED
    BY <1>2, <1>3, <2>5, <2>6
<1> QED
  BY <1>7, <1>8, <1>9, <1>11, <1>12 DEF OrderInv

(* Bytes the kernel took from the output are behind those on their way.    *)
LEMMA FlushOrder ==
  ASSUME IInv, OrderInv, sendUp, ended = "no", NEW n \in Nat, n <= Streams!Length(out),
         wire' = wire \o Streams!First(out, n), UNCHANGED <<sent, in, buf, delivered>>,
         sendUp' /\ ended' = "no" => out' = Streams!Flushed(out, n)
  PROVE  OrderInv'
<1>1. PICK f, g : f = SubSeq(Held(out), 1, n) /\ g = SubSeq(Held(out), n + 1, Len(Held(out)))
  OBVIOUS
<1>2. /\ f \in Seq(Byte) /\ g \in Seq(Byte) /\ Held(out) = f \o g
      /\ f = Streams!First(out, n)
  <2>1. /\ Streams!IsRing(out) /\ Held(out) \in Seq(Byte) /\ n \in 0..Len(Held(out))
    BY StateFacts
  <2>2. f \in Seq(Byte) /\ g \in Seq(Byte) /\ Held(out) = f \o g
    BY <1>1, <2>1, CutFacts
  <2>3. f = Streams!First(out, n)
    BY <1>1, <2>1, FirstHeld
  <2> QED
    BY <2>2, <2>3
<1>3. PICK front : front = Unread(buf) \o Held(in)
  OBVIOUS
<1>4. front \in Seq(Byte) /\ Received = front \o wire
  BY <1>3, StateFacts, JoinFacts DEF Received
<1>5. Received' = front \o (wire \o f)
  BY <1>2, <1>3, Zenon DEF Received, Held, Unread, Streams!First, Streams!Length
<1>6. Received' = Received \o f
  <2>1. front \in Seq(Byte) /\ wire \in Seq(Byte) /\ f \in Seq(Byte)
    BY <1>2, <1>4, StateFacts
  <2>2. (front \o wire) \o f = front \o (wire \o f)
    BY <2>1, Regroup
  <2> QED
    BY <1>4, <1>5, <2>2
<1>7. Received \o f \in Seq(Byte) /\ (Received \o f) \o g = Received \o Held(out)
  <2>1. Received \in Seq(Byte)
    BY StateFacts
  <2>2. (Received \o f) \o g = Received \o (f \o g) /\ Received \o f \in Seq(Byte)
    BY <1>2, <2>1, Regroup
  <2> QED
    BY <1>2, <2>2
<1>8. sendUp' /\ ended' = "no" => Held(out)' = g
  BY <1>1, StateFacts, FlushedHeld
<1> QED
  BY <1>2, <1>6, <1>7, <1>8, KeepsOrder

LEMMA WriteOrder == ASSUME IInv, OrderInv, OnWrite PROVE OrderInv'
<1>1. /\ sendUp /\ Writable /\ ended = "no"
      /\ UNCHANGED <<sent, in, buf, delivered>>
  BY DEF OnWrite, recvVars
<1>2. PICK least \in {0, 1} : \E n \in Accepted(least) : Flush(n)
  BY DEF OnWrite
<1>3. PICK n \in Accepted(least) : Flush(n)
  BY <1>2
<1>4. n \in Nat /\ n <= Streams!Length(out)
  BY <1>1, TakenFacts DEF IInv
<1> QED
  BY <1>1, <1>3, <1>4, FlushOrder DEF Flush

LEMMA SenderClosesOrder == ASSUME IInv, OrderInv, OnWriteTooBig \/ KickSender PROVE OrderInv'
<1>1. /\ sendUp' = FALSE /\ UNCHANGED <<sent, in, buf, delivered>>
  BY DEF OnWriteTooBig, KickSender, CloseSender, recvVars
<1>2. CASE UNCHANGED wire
  <2>1. Received' = Received
    BY <1>1, <1>2 DEF Received, Held, Unread, Streams!First, Streams!Length
  <2> QED
    BY <1>1, <2>1, NothingMoves
<1>3. CASE ~UNCHANGED wire
  <2>1. KickSender /\ sendUp /\ ended = "no"
    BY <1>3 DEF OnWriteTooBig, KickSender
  <2>2. PICK n \in Accepted(0) : wire' = wire \o Streams!First(out, n)
    BY <1>3, <2>1 DEF KickSender
  <2>3. n \in Nat /\ n <= Streams!Length(out)
    <3>1. PICK l \in Nat, k \in Nat : l = Streams!Length(out) /\ k = Len(wire) /\ k <= Room
      BY StateFacts DEF IInv, TypeOK
    <3> QED
      BY <2>2, <3>1, SizeFacts DEF Accepted, Streams!Smaller
  <2> QED
    BY <1>1, <2>1, <2>2, <2>3, FlushOrder
<1> QED
  BY <1>2, <1>3

LEMMA BreakOrder == ASSUME IInv, OrderInv, Break PROVE OrderInv'
<1>1. /\ ended' = "reset" /\ UNCHANGED <<sent, in, buf, delivered>>
  BY DEF Break, sendVars, recvVars
<1>2. PICK n \in 0..Len(wire) : wire' = SubSeq(wire, 1, n)
  BY DEF Break
<1>3. PICK g : g = SubSeq(wire, n + 1, Len(wire))
  OBVIOUS
<1>4. wire' \in Seq(Byte) /\ g \in Seq(Byte) /\ wire = wire' \o g
  BY <1>2, <1>3, StateFacts, CutFacts
<1>5. PICK front : front = Unread(buf) \o Held(in)
  OBVIOUS
<1>6. front \in Seq(Byte) /\ Received = front \o wire
  BY <1>5, StateFacts, JoinFacts DEF Received
<1>7. Received' = front \o wire'
  BY <1>1, <1>5 DEF Received, Held, Unread, Streams!First, Streams!Length
<1>8. front \o wire' \in Seq(Byte) /\ (front \o wire') \o g = Received
  <2>1. (front \o wire') \o g = front \o (wire' \o g) /\ front \o wire' \in Seq(Byte)
    BY <1>4, <1>6, Regroup
  <2> QED
    BY <1>4, <1>6, <2>1
<1> QED
  BY <1>1, <1>4, <1>7, <1>8, KeepsOrder

LEMMA CloseReceiverOrder ==
  ASSUME IInv, OrderInv, CloseReceiver, UNCHANGED sendVars PROVE OrderInv'
<1>1. /\ ended' # "no" /\ wire' = <<>> /\ in' = Streams!EmptyRing(InSize)
      /\ UNCHANGED <<sent, buf, delivered>>
  BY DEF CloseReceiver, sendVars
<1>2. Held(in') = <<>>
  <2>1. Streams!IsRing(in') /\ Streams!Length(in') = 0
    BY <1>1, SizeFacts, EmptyRingFacts
  <2>2. Held(in') \in Seq(Byte) /\ Len(Held(in')) = 0
    BY <2>1, HeldFacts
  <2> QED
    BY <2>2
<1>3. PICK u : u = Unread(buf)
  OBVIOUS
<1>4. Received' = u
  <2>1. Received' = (u \o <<>>) \o <<>>
    BY <1>1, <1>2, <1>3 DEF Received, Unread
  <2> QED
    BY <1>3, <2>1, StateFacts, ConcatEmptySeq
<1>5. Held(in) \o wire \in Seq(Byte) /\ u \o (Held(in) \o wire) = Received
  <2>1. u \in Seq(Byte) /\ Held(in) \in Seq(Byte) /\ wire \in Seq(Byte)
    BY <1>3, StateFacts
  <2>2. (u \o Held(in)) \o wire = u \o (Held(in) \o wire) /\ Held(in) \o wire \in Seq(Byte)
    BY <2>1, Regroup
  <2> QED
    BY <1>3, <2>2 DEF Received
<1> QED
  BY <1>1, <1>3, <1>4, <1>5, StateFacts, KeepsOrder

LEMMA ReadOrder == ASSUME IInv, OrderInv, OnRead PROVE OrderInv'
<1>1. PICK n \in 0..Len(wire) :
        IF EndsWith(n) THEN CloseReceiver
        ELSE /\ in' = Streams!Fill(in, SubSeq(wire, 1, n))
             /\ wire' = SubSeq(wire, n + 1, Len(wire))
             /\ UNCHANGED <<ended, buf, unpacking, recvUp, delivered>>
  BY DEF OnRead
<1>2. UNCHANGED sendVars
  BY DEF OnRead
<1>3. CASE EndsWith(n)
  BY <1>1, <1>2, <1>3, CloseReceiverOrder
<1>4. CASE ~EndsWith(n)
  <2>1. PICK f : f = SubSeq(wire, 1, n)
    OBVIOUS
  <2>2. /\ in' = Streams!Fill(in, f) /\ wire' = SubSeq(wire, n + 1, Len(wire))
        /\ UNCHANGED <<sent, sendUp, out, ended, buf, delivered>>
    BY <1>1, <1>2, <1>4, <2>1 DEF sendVars
  <2>3. f \in Seq(Byte) /\ wire' \in Seq(Byte) /\ wire = f \o wire'
    BY <2>1, <2>2, StateFacts, CutFacts
  <2>4. Held(in') = Held(in) \o f
    BY <2>2, <2>3, StateFacts, FillHeld
  <2>5. PICK u, h : u = Unread(buf) /\ h = Held(in)
    OBVIOUS
  <2>6. u \in Seq(Byte) /\ h \in Seq(Byte) /\ u \o h \in Seq(Byte)
    BY <2>5, StateFacts, JoinFacts
  <2>7. Received' = (u \o (h \o f)) \o wire'
    BY <2>2, <2>4, <2>5 DEF Received, Unread
  <2>8. Received = (u \o h) \o (f \o wire')
    BY <2>3, <2>5 DEF Received
  <2>9. (u \o (h \o f)) \o wire' = (u \o h) \o (f \o wire')
    <3>1. PICK y : y = wire'
      OBVIOUS
    <3>2. f \in Seq(Byte) /\ y \in Seq(Byte)
      BY <2>3, <3>1
    <3>3. u \o (h \o f) = (u \o h) \o f
      <4>1. u \in Seq(Byte) /\ h \in Seq(Byte) /\ f \in Seq(Byte)
        BY <2>6, <3>2
      <4> QED
        BY <4>1, Regroup
    <3>4. ((u \o h) \o f) \o y = (u \o h) \o (f \o y)
      <4>1. PICK z : z = u \o h
        OBVIOUS
      <4>2. z \in Seq(Byte) /\ f \in Seq(Byte) /\ y \in Seq(Byte)
        BY <2>6, <3>2, <4>1
      <4>3. (z \o f) \o y = z \o (f \o y)
        BY <4>2, Regroup
      <4> QED
        BY <4>1, <4>3
    <3>5. (u \o (h \o f)) \o y = (u \o h) \o (f \o y)
      BY <3>3, <3>4
    <3> QED
      BY <3>1, <3>5
  <2>10. Held(out)' = Held(out)
    BY <2>2 DEF Held, Streams!First, Streams!Length
  <2>11. Received' = Received
    BY <2>7, <2>8, <2>9
  <2> QED
    BY <2>2, <2>10, <2>11, NothingMoves
<1> QED
  BY <1>3, <1>4

LEMMA ReadInputOrder == ASSUME IInv, OrderInv, ReadInput PROVE OrderInv'
<1>1. PICK n : n = Streams!Smaller(Streams!Length(in), ReadSize)
  OBVIOUS
<1>2. PICK f : f = Streams!First(in, n)
  OBVIOUS
<1>3. /\ ~unpacking /\ Streams!Length(in) > 0
      /\ buf' = Packet!Stored(buf, f) /\ in' = Streams!Drop(in, n)
      /\ UNCHANGED <<sent, sendUp, out, wire, ended, delivered>>
  BY <1>1, <1>2 DEF ReadInput, sendVars, wireVars
<1>4. n \in Nat \ {0} /\ n <= ReadSize /\ n <= Streams!Length(in)
  <2>1. PICK l \in Nat : l = Streams!Length(in)
    BY StateFacts
  <2> QED
    BY <1>1, <1>3, <2>1, SizeFacts DEF Streams!Smaller
<1>5. PICK g : g = SubSeq(Held(in), n + 1, Len(Held(in)))
  OBVIOUS
<1>6. /\ f \in Seq(Byte) /\ Len(f) = n /\ g \in Seq(Byte) /\ Held(in) = f \o g /\ Held(in') = g
  <2>1. n \in 0..Len(Held(in))
    BY <1>4, StateFacts
  <2>2. f = SubSeq(Held(in), 1, n)
    BY <1>2, <1>4, StateFacts, FirstHeld
  <2>3. Held(in') = g
    BY <1>3, <1>4, <1>5, StateFacts, DropHeld
  <2>4. f \in Seq(Byte) /\ Len(f) = n /\ g \in Seq(Byte) /\ Held(in) = f \o g
    BY <1>5, <2>1, <2>2, StateFacts, CutFacts
  <2> QED
    BY <2>3, <2>4
<1>7. Unread(buf') = Unread(buf) \o f
  <2>1. /\ buf.max = buf.write /\ buf.read <= buf.write /\ buf.read <= MoveForward
        /\ buf.read \in Nat /\ buf.write \in Nat
        /\ buf.write - buf.read < MaxPacket
    BY <1>3, BufferFacts DEF IInv, TypeOK, BufferIsRoomy
  <2>2. buf.write + Len(f) < BufferSize /\ f # <<>>
    BY <1>4, <1>6, <2>1, SizeFacts
  <2> QED
    BY <1>3, <1>6, <2>1, <2>2, StateFacts, StoredUnread
<1>8. PICK u : u = Unread(buf)
  OBVIOUS
<1>9. Received' = ((u \o f) \o g) \o wire
  BY <1>3, <1>6, <1>7, <1>8 DEF Received
<1>10. Received = (u \o (f \o g)) \o wire
  BY <1>6, <1>8 DEF Received
<1>11. (u \o f) \o g = u \o (f \o g)
  <2>1. u \in Seq(Byte)
    BY <1>8, StateFacts
  <2> QED
    BY <1>6, <2>1, Regroup
<1>12. Held(out)' = Held(out)
  BY <1>3 DEF Held, Streams!First, Streams!Length
<1> QED
  BY <1>3, <1>9, <1>10, <1>11, <1>12, NothingMoves


(* The first packet not delivered is all there and is the next one sent.   *)
LEMMA NextPacket ==
  ASSUME IInv, OrderInv, UnpackPacket
  PROVE  /\ Len(delivered) + 1 \in 1..Len(sent)
         /\ delivered' = Append(delivered, sent[Len(delivered) + 1])
         /\ Unread(buf) = sent[Len(delivered) + 1] \o Unread(buf')
         /\ sent[Len(delivered) + 1] \in Seq(Byte) /\ sent[Len(delivered) + 1] # <<>>
         /\ Len(sent[Len(delivered) + 1]) = sent[Len(delivered) + 1][1].len
         /\ Unread(buf') \in Seq(Byte)
<1>1. PICK d \in Nat : d = Len(delivered)
  BY StateFacts
<1>2. PICK l : l = Packet!PacketLen(buf)
  OBVIOUS
<1>3. /\ Packet!HasPacket(buf) /\ buf' = Packet!Unpacked(buf)
      /\ delivered' = Append(delivered, Packet!PacketIn(buf, buf'))
  BY NeverTurned DEF UnpackPacket
<1>4. PICK u : u = Unread(buf)
  OBVIOUS
<1>5. PICK f, g : f = SubSeq(u, 1, l) /\ g = SubSeq(u, l + 1, Len(u))
  OBVIOUS
<1>6. /\ l \in 1..Len(u) /\ l = u[1].len
      /\ Packet!PacketIn(buf, buf') = f /\ Unread(buf') = g
  <2>1. /\ buf \in Packet!Buffers /\ buf.max = buf.write /\ buf.read <= buf.write
        /\ buf.write < BufferSize /\ buf.write - buf.read < MaxPacket + ReadSize
    BY DEF IInv, TypeOK, BufferIsRoomy
  <2> QED
    BY <1>2, <1>3, <1>4, <1>5, <2>1, UnpackedUnread
<1>7. u \in Seq(Byte) /\ f \in Seq(Byte) /\ g \in Seq(Byte) /\ u = f \o g /\ Len(f) = l
  <2>1. u \in Seq(Byte)
    BY <1>4, StateFacts
  <2>2. l \in 0..Len(u)
    BY <1>6
  <2> QED
    BY <1>5, <2>1, <2>2, CutFacts
<1>8. PICK r : r = Received
  OBVIOUS
<1>9. /\ r \in Seq(Byte) /\ InOrder(r, d, sent)
      /\ l <= Len(r) /\ \A i \in 1..Len(u) : r[i] = u[i]
  <2>1. r \in Seq(Byte) /\ InOrder(r, d, sent)
    BY <1>1, <1>8, StateFacts DEF OrderInv
  <2>2. PICK t : t = Held(in) \o wire
    OBVIOUS
  <2>3. t \in Seq(Byte) /\ r = u \o t
    <3>1. u \in Seq(Byte) /\ Held(in) \in Seq(Byte) /\ wire \in Seq(Byte)
      BY <1>7, StateFacts
    <3>2. (u \o Held(in)) \o wire = u \o (Held(in) \o wire) /\ Held(in) \o wire \in Seq(Byte)
      BY <3>1, Regroup
    <3> QED
      BY <1>4, <1>8, <2>2, <3>2 DEF Received
  <2>4. u \in Seq(Byte) /\ l \in 0..Len(u)
    BY <1>6, <1>7
  <2>5. /\ Len(u \o t) = Len(u) + Len(t)
        /\ \A i \in 1..Len(u) : (u \o t)[i] = u[i]
    BY <2>3, <2>4, JoinFacts
  <2>6. Len(u) \in Nat /\ Len(t) \in Nat
    BY <2>3, <2>4
  <2>7. l <= Len(u) + Len(t)
    BY <2>4, <2>6
  <2> QED
    BY <2>1, <2>3, <2>5, <2>7
<1>10. /\ d + 1 \in 1..Len(sent) /\ l = Len(sent[d + 1]) /\ l > 0
       /\ \A i \in 1..l : r[i] = [pkt |-> d + 1, off |-> i, len |-> l]
  <2>1. 1 \in 1..Len(u) /\ l \in Nat
    BY <1>6, <1>7
  <2>2. r[1].len = l
    <3>1. r[1] = u[1]
      BY <1>9, <2>1
    <3> QED
      BY <1>6, <3>1
  <2>3. r # <<>>
    <3>1. Len(r) > 0
      BY <1>9, <2>1, <1>6
    <3> QED
      BY <3>1
  <2>4. r \in Seq(Byte) /\ InOrder(r, d, sent) /\ l <= Len(r) /\ d \in Nat
    BY <1>1, <1>9
  <2> QED
    BY <2>1, <2>2, <2>3, <2>4, FirstPacket
<1>11. \A i \in 1..l : f[i] = [pkt |-> d + 1, off |-> i, len |-> l]
  <2> TAKE i \in 1..l
  <2>1. i \in 1..Len(u)
    BY <1>6, <1>7
  <2>2. (f \o g)[i] = f[i]
    BY <1>7, JoinFacts
  <2> QED
    BY <1>7, <1>9, <1>10, <2>1, <2>2
<1>12. f = PacketOf(d + 1, l)
  <2>1. f = [i \in 1..l |-> f[i]]
    BY <1>7
  <2>2. [i \in 1..l |-> f[i]] = [i \in 1..l |-> [pkt |-> d + 1, off |-> i, len |-> l]]
    BY <1>11
  <2> QED
    BY <2>1, <2>2 DEF PacketOf
<1>13. sent[d + 1] = f
  <2>1. sent[d + 1] = PacketOf(d + 1, Len(sent[d + 1]))
    BY <1>10 DEF OrderInv
  <2> QED
    BY <1>10, <1>12, <2>1
<1>14. f # <<>> /\ f[1].len = l
  <2>1. 1 \in 1..l
    BY <1>6, <1>10
  <2> QED
    BY <1>7, <1>11, <2>1
<1> QED
  BY <1>1, <1>3, <1>4, <1>6, <1>7, <1>10, <1>13, <1>14

LEMMA UnpackOrder == ASSUME IInv, OrderInv, UnpackPacket PROVE OrderInv'
<1>1. PICK d \in Nat : d = Len(delivered)
  BY StateFacts
<1>2. PICK f : f = sent[d + 1]
  OBVIOUS
<1>3. PICK g : g = Unread(buf')
  OBVIOUS
<1>4. /\ d + 1 \in 1..Len(sent) /\ delivered' = Append(delivered, f)
      /\ Unread(buf) = f \o g
      /\ f \in Seq(Byte) /\ f # <<>> /\ Len(f) = f[1].len /\ g \in Seq(Byte)
  BY <1>1, <1>2, <1>3, NextPacket
<1>5. UNCHANGED <<sent, out, sendUp, wire, ended, in>>
  BY DEF UnpackPacket, sendVars, wireVars
<1>6. PICK h, w, o : h = Held(in) /\ w = wire /\ o = Held(out)
  OBVIOUS
<1>7. h \in Seq(Byte) /\ w \in Seq(Byte) /\ o \in Seq(Byte)
  BY <1>6, StateFacts
<1>8. PICK t : t = (g \o h) \o w
  OBVIOUS
<1>9. Received' = t /\ Held(out)' = o
  BY <1>3, <1>5, <1>6, <1>8 DEF Received, Held, Streams!First, Streams!Length
<1>10. t \in Seq(Byte) /\ Received = f \o t
  <2>0. f \in Seq(Byte) /\ g \in Seq(Byte) /\ h \in Seq(Byte) /\ w \in Seq(Byte)
    BY <1>4, <1>7
  <2>1. (f \o g) \o h = f \o (g \o h) /\ g \o h \in Seq(Byte)
    BY <2>0, Regroup
  <2>2. (f \o (g \o h)) \o w = f \o ((g \o h) \o w) /\ (g \o h) \o w \in Seq(Byte)
    <3>1. PICK gh : gh = g \o h /\ gh \in Seq(Byte)
      BY <2>1
    <3>2. (f \o gh) \o w = f \o (gh \o w) /\ gh \o w \in Seq(Byte)
      BY <2>0, <3>1, Regroup
    <3> QED
      BY <3>1, <3>2
  <2> QED
    BY <1>4, <1>6, <1>8, <2>1, <2>2 DEF Received
<1>11. t \o o \in Seq(Byte) /\ Received \o o = f \o (t \o o)
  <2>1. f \in Seq(Byte) /\ t \in Seq(Byte) /\ o \in Seq(Byte)
    BY <1>4, <1>7, <1>10
  <2>2. (f \o t) \o o = f \o (t \o o) /\ t \o o \in Seq(Byte)
    BY <2>1, Regroup
  <2> QED
    BY <1>10, <2>2
<1>12. /\ Len(delivered') = d + 1 /\ delivered'[d + 1] = f
       /\ \A k \in 1..d : delivered'[k] = delivered[k]
  <2>1. delivered \in Seq(Seq(Byte))
    BY StateFacts
  <2> QED
    BY <1>1, <1>4, <2>1
<1>13. /\ \A k \in 1..Len(sent') : sent'[k] = PacketOf(k, Len(sent'[k]))
       /\ Len(delivered') <= Len(sent')
  BY <1>4, <1>5, <1>12 DEF OrderInv
<1>14. \A k \in 1..Len(delivered') : delivered'[k] = sent'[k]
  <2> SUFFICES ASSUME NEW k \in 1..d + 1 PROVE delivered'[k] = sent[k]
    BY <1>5, <1>12
  <2>1. CASE k = d + 1
    BY <1>2, <1>12, <2>1
  <2>2. CASE k # d + 1
    <3>1. k \in 1..d
      BY <1>1, <2>2
    <3> QED
      BY <1>1, <1>12, <3>1 DEF OrderInv
  <2> QED
    BY <2>1, <2>2
<1>15. InOrder(t, d + 1, sent)
  <2>1. InOrder(f \o t, d, sent)
    BY <1>1, <1>10 DEF OrderInv
  <2>2. t \in Seq(Byte) /\ f \in Seq(Byte) /\ f # <<>> /\ Len(f) = f[1].len
    BY <1>4, <1>10
  <2> QED
    BY <2>1, <2>2, RestInOrder
<1>16. ASSUME sendUp', ended' = "no"
       PROVE  InOrder(t \o o, d + 1, sent) /\ ReachesTheLast(t \o o, d + 1, sent)
  <2>1. /\ InOrder(f \o (t \o o), d, sent) /\ ReachesTheLast(f \o (t \o o), d, sent)
    BY <1>1, <1>5, <1>6, <1>11, <1>16 DEF OrderInv
  <2> QED
    BY <1>4, <1>11, <2>1, RestInOrder
<1>17. InOrder(Received', Len(delivered'), sent')
  BY <1>5, <1>9, <1>12, <1>15
<1>18. sendUp' /\ ended' = "no" =>
         /\ InOrder(Received' \o Held(out)', Len(delivered'), sent')
         /\ ReachesTheLast(Received' \o Held(out)', Len(delivered'), sent')
  BY <1>5, <1>9, <1>12, <1>16
<1> QED
  BY <1>13, <1>14, <1>17, <1>18 DEF OrderInv

LEMMA NextOrder == IInv /\ OrderInv /\ [Next]_vars => OrderInv'
<1> SUFFICES ASSUME IInv, OrderInv, [Next]_vars PROVE OrderInv'
  OBVIOUS
<1>1. CASE KickReceiver
  BY <1>1, CloseReceiverOrder DEF KickReceiver
<1>2. CASE UnpackDone \/ UNCHANGED vars
  <2>1. UNCHANGED <<sent, out, sendUp, wire, ended, in, buf, delivered>>
    BY <1>2, NeverTurned DEF UnpackDone, vars, sendVars, wireVars, recvVars
  <2>2. Received' = Received /\ Held(out)' = Held(out)
    BY <2>1 DEF Received, Held, Unread, Streams!First, Streams!Length
  <2> QED
    BY <2>1, <2>2, NothingMoves
<1>3. CASE Next /\ ~KickReceiver /\ ~UnpackDone
  BY <1>3, SendOrder, WriteOrder, SenderClosesOrder, BreakOrder, ReadOrder, ReadInputOrder,
     UnpackOrder DEF Next, SenderNet, ReceiverNet
<1> QED
  BY <1>1, <1>2, <1>3

(* The bytes in the buffers of both processes and between them are those   *)
(* of the packets not delivered yet, in the order written, all of them     *)
(* while the connection stands; and what is delivered is what was written. *)
THEOREM BytesStayInOrder == Spec => []OrderInv
<1>1. Init => OrderInv
  BY InitOrder
<1>2. IInv /\ OrderInv /\ [Next]_vars => OrderInv'
  BY NextOrder
<1> QED
  BY <1>1, <1>2, ConnectionIsSound, PTL DEF Spec

(* Each step of the two net threads and the kernels is one of the channel  *)
(* or changes nothing it shows: it writes a packet, lets the next one      *)
(* arrive, or takes the connection down.                                   *)
LEMMA StepsOfTheChannel ==
  ASSUME IInv, OrderInv, [Next]_vars PROVE [Channel!Next]_(Channel!vars)
<1> DEFINE up == sendUp /\ recvUp /\ ended = "no"
<1>1. ASSUME NEW n \in Lens, SendPacket(n) PROVE Channel!WritePacket
  <2>1. /\ sent' = Append(sent, PacketOf(Len(sent) + 1, n)) /\ Len(sent) < MaxPackets
        /\ UNCHANGED <<delivered, sendUp, recvUp, ended>>
    BY <1>1 DEF SendPacket, wireVars, recvVars
  <2>2. Len(sent) + 1 \in 1..MaxPackets
    <3>1. PICK k \in Nat : k = Len(sent)
      BY StateFacts
    <3> QED
      BY <2>1, <3>1, SizeFacts
  <2>3. PacketOf(Len(sent) + 1, n) \in PacketsWritten
    BY <2>2, PacketFacts
  <2> QED
    BY <2>1, <2>3 DEF Channel!WritePacket
<1>2. ASSUME UnpackPacket PROVE Channel!Arrive
  <2>1. /\ delivered' = Append(delivered, sent[Len(delivered) + 1])
        /\ Len(delivered) + 1 \in 1..Len(sent)
    BY <1>2, NextPacket
  <2>2. Len(delivered) < Len(sent)
    <3>1. Len(delivered) \in Nat /\ Len(sent) \in Nat
      BY StateFacts
    <3> QED
      BY <2>1, <3>1
  <2>3. UNCHANGED <<sent, sendUp, recvUp, ended>>
    BY <1>2 DEF UnpackPacket, sendVars, wireVars
  <2> QED
    BY <2>1, <2>2, <2>3 DEF Channel!Arrive
<1>3. ASSUME OnWriteTooBig \/ KickSender \/ Break PROVE Channel!Fall
  <2>1. UNCHANGED <<sent, delivered>> /\ (sendUp' = FALSE \/ ended' = "reset")
    BY <1>3 DEF OnWriteTooBig, KickSender, Break, CloseSender, sendVars, recvVars
  <2> QED
    BY <2>1 DEF Channel!Fall
<1>4. ASSUME KickReceiver PROVE Channel!Fall
  <2>1. UNCHANGED <<sent, delivered>> /\ recvUp' = FALSE
    BY <1>4 DEF KickReceiver, CloseReceiver, sendVars
  <2> QED
    BY <2>1 DEF Channel!Fall
<1>5. ASSUME OnRead PROVE Channel!Fall \/ UNCHANGED Channel!vars
  <2>1. UNCHANGED <<sent, sendUp, delivered>>
    BY <1>5 DEF OnRead, CloseReceiver, sendVars
  <2>2. recvUp' = FALSE \/ UNCHANGED <<recvUp, ended>>
    BY <1>5 DEF OnRead, CloseReceiver
  <2> QED
    BY <2>1, <2>2 DEF Channel!Fall, Channel!vars
<1>6. ASSUME OnWrite \/ ReadInput \/ UnpackDone \/ UNCHANGED vars PROVE UNCHANGED Channel!vars
  <2>1. UNCHANGED <<sent, delivered, sendUp, recvUp, ended>>
    BY <1>6 DEF OnWrite, ReadInput, UnpackDone, vars, sendVars, wireVars, recvVars
  <2> QED
    BY <2>1 DEF Channel!vars
<1> QED
  BY <1>1, <1>2, <1>3, <1>4, <1>5, <1>6 DEF Next, SenderNet, ReceiverNet, Channel!Next

(* Packets arrive whole, once and in the order they were written, for any  *)
(* sizes of the buffers that leave the room of base_util.h, however the    *)
(* kernels cut up the bytes and whenever either end closes.                *)
THEOREM ConnectionIsAChannel == Spec => KeepsItsOrder
<1>1. Init => Channel!Init
  BY DEF Init, Channel!Init
<1>2. IInv /\ OrderInv /\ [Next]_vars => [Channel!Next]_(Channel!vars)
  BY StepsOfTheChannel
<1> QED
  BY <1>1, <1>2, ConnectionIsSound, BytesStayInOrder, PTL DEF Spec, KeepsItsOrder, Channel!Safe
=============================================================================
