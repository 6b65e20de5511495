-------------------------- MODULE RingBufferProofs --------------------------
(***************************************************************************)
(* Proofs about RingBuffer for every capacity, chunk size and bound: the   *)
(* buffer never leaves its block (TypeCorrect), no byte still to be read   *)
(* is overwritten, repeated or reordered (UnreadStaysInOrder), and it      *)
(* implements the queue that ByteQueue specifies (IsAByteQueue), of which  *)
(* ss_recv_via_buffer hands out what it was asked for                      *)
(* (OkIsTheWholeRequest).                                                  *)
(***************************************************************************)
EXTENDS RingBuffer, SequenceTheorems, TLAPS

-----------------------------------------------------------------------------
(* Arithmetic on positions. *)

(* A position less than two blocks from the start wraps at most once. *)
LEMMA WrapValue ==
    ASSUME NEW i \in 0..(2 * Capacity - 1)
    PROVE  Wrap(i) = IF i < Capacity THEN i ELSE i - Capacity
  BY SizeAssumption, SMT DEF Wrap

LEMMA WrapLow ==
    ASSUME NEW i \in 0..(Capacity - 1)
    PROVE  Wrap(i) = i
  BY SizeAssumption, SMT DEF Wrap

LEMMA WrapHigh ==
    ASSUME NEW i \in Capacity..(2 * Capacity - 1)
    PROVE  Wrap(i) = i - Capacity
  BY SizeAssumption, SMT DEF Wrap

(* A wrapped position is a cell. *)
LEMMA WrapIsCell ==
    ASSUME NEW i \in 0..(2 * Capacity - 1)
    PROVE  Wrap(i) \in Cell
  BY WrapValue, SizeAssumption DEF Cell

(* The cells of two offsets less than a block apart are different cells. *)
LEMMA WrapIsInjective ==
    ASSUME NEW i \in 0..(2 * Capacity - 1), NEW j \in 0..(2 * Capacity - 1),
           i < j, j - i < Capacity
    PROVE  Wrap(i) # Wrap(j)
  BY WrapValue, SizeAssumption

-----------------------------------------------------------------------------
(* What the memory operators return. *)

LEMMA FilledType ==
    ASSUME NEW at \in Cell, NEW n \in Nat, cells \in [Cell -> Nat], fresh \in Nat
    PROVE  Filled(at, n) \in [Cell -> Nat]
  BY SizeAssumption DEF Filled, Cell

LEMMA CopiedType ==
    ASSUME NEW at \in Int, NEW n \in Nat, cells \in [Cell -> Nat],
           n > 0 => at >= 0 /\ at + n <= Capacity
    PROVE  Copied(at, n) \in Seq(Nat)
<1>1. ASSUME NEW i \in 1..n
      PROVE  cells[at + i - 1] \in Nat
  BY <1>1, SizeAssumption DEF Cell
<1>2. QED
  BY <1>1 DEF Copied

LEMMA SpanType ==
    ASSUME NEW at \in Cell, NEW n \in 0..Capacity, cells \in [Cell -> Nat]
    PROVE  Span(at, n) \in Seq(Nat)
<1> DEFINE n1 == FirstPart(at, n)
           n2 == n - n1
           second == Wrap(at + n1)
<1>1. n1 \in 0..n /\ at + n1 <= Capacity
  BY SizeAssumption DEF FirstPart, Cell
<1>2. at + n1 \in 0..(2 * Capacity - 1)
  BY <1>1, SizeAssumption DEF Cell
<1>3. second \in Cell
  BY <1>2, WrapIsCell
<1>4. n2 \in Nat /\ (n2 > 0 => second + n2 <= Capacity)
  BY <1>1, <1>2, WrapValue, SizeAssumption DEF FirstPart, Cell
<1> HIDE DEF n1, n2, second
<1>5. Copied(at, n1) \in Seq(Nat)
  BY <1>1, CopiedType DEF Cell
<1>6. Copied(second, n2) \in Seq(Nat)
  BY <1>3, <1>4, CopiedType DEF Cell
<1>7. QED
  BY <1>5, <1>6 DEF Span, n1, n2, second

-----------------------------------------------------------------------------
(* TypeOK is inductive. *)

LEMMA InitType == Init => TypeOK
  BY SizeAssumption DEF Init, TypeOK, Cell, Size, NoRequest, Request

LEMMA BeginRecvType ==
    ASSUME TypeOK, NEW max \in Size, NEW request \in Request, BeginRecv(max, request)
    PROVE  TypeOK'
<1>1. UNCHANGED <<cells, offset, length, fresh>>
  BY DEF BeginRecv, memory
<1>2. call' = "recvFirst" /\ left' = max /\ via' = request /\ ret' = 0 /\ io' = "none"
  BY DEF BeginRecv
<1>3. start' \in Size
  BY SizeAssumption DEF BeginRecv, TypeOK, Size
<1>4. got' \in Seq(Nat)
  BY DEF BeginRecv
<1>5. QED
  BY <1>1, <1>2, <1>3, <1>4 DEF TypeOK

(* What a call's return sets has the right type, whatever it returns. *)
LEMMA ReturnType ==
    ASSUME NEW n \in Int, NEW err \in {"none", "OK", "EAGAIN", "ERROR", "EOVERFLOW"},
           ReturnWith(n, err)
    PROVE  /\ call' = "idle"
           /\ left' \in Size /\ start' \in Size /\ via' \in Request
           /\ ret' \in Int
           /\ io' \in {"none", "OK", "EAGAIN", "ERROR", "EOVERFLOW"}
  BY SizeAssumption DEF ReturnWith, Size, Request, NoRequest

LEMMA EndRecvType ==
    ASSUME TypeOK, NEW total \in Int, EndRecv(total)
    PROVE  /\ call' \in {"idle", "steal"}
           /\ left' \in Size /\ start' \in Size /\ via' \in Request
           /\ ret' \in Int
           /\ io' \in {"none", "OK", "EAGAIN", "ERROR", "EOVERFLOW"}
<1>1. CASE ReturnSize(total - start)
  <2>1. total - start \in Int
    BY SizeAssumption DEF TypeOK, Size
  <2>2. QED
    BY <1>1, <2>1, ReturnType DEF ReturnSize
<1>2. CASE ReturnIo("EAGAIN")
  BY <1>2, ReturnType DEF ReturnIo
<1>3. CASE /\ call' = "steal" /\ left' = 0 /\ start' = 0
           /\ UNCHANGED <<via, ret, io>>
  BY <1>3, SizeAssumption DEF TypeOK, Size
<1>4. QED
  BY <1>1, <1>2, <1>3 DEF EndRecv

(* The unread bytes end less than two blocks from the start. *)
LEMMA EndRange == TypeOK => End \in 0..(2 * Capacity - 1)
  BY SizeAssumption DEF TypeOK, End, Cell

(* A recv() into cells that are free keeps the memory well typed. *)
LEMMA TakeType ==
    ASSUME TypeOK, NEW at \in Cell, NEW k \in Nat, Take(at, k), length + k <= Capacity
    PROVE  /\ cells' \in [Cell -> Nat] /\ offset' \in Cell
           /\ length' \in 0..Capacity /\ fresh' \in Nat /\ got' \in Seq(Nat)
  BY FilledType, SizeAssumption DEF TypeOK, Take

(* The room before offset is free: an unread byte there is one too many. *)
LEMMA RoomIsFree ==
    ASSUME TypeOK, left # 0, Wrap(End) < offset, NEW k \in 0..RecvRoom
    PROVE  /\ Wrap(End) = End - Capacity
           /\ length + k <= Capacity
           /\ Wrap(End) + k <= offset
<1>1. End \in 0..(2 * Capacity - 1)
  BY SizeAssumption DEF TypeOK, End, Cell
<1>2. Wrap(End) = End - Capacity
  BY <1>1, WrapValue DEF TypeOK, End, Cell
<1>3. RecvRoom \in Int /\ RecvRoom <= offset - Wrap(End)
  BY <1>1, <1>2, SizeAssumption DEF RecvRoom, MIN, TypeOK, Size, Cell
<1>4. k \in Nat /\ k <= offset - Wrap(End)
  BY <1>3, <1>2, SizeAssumption DEF TypeOK, End, Cell
<1>5. QED
  BY <1>1, <1>2, <1>4, SizeAssumption DEF TypeOK, End, Cell

(* The room from the end of the unread bytes to the end of the block. *)
LEMMA BlockEndIsFree ==
    ASSUME TypeOK, End < Capacity, NEW k \in 0..MIN(Capacity - End, left)
    PROVE  End \in Cell /\ k \in Nat /\ k <= left /\ End + k <= Capacity
                      /\ length + k <= Capacity
<1>1. End \in Cell
  BY SizeAssumption DEF TypeOK, End, Cell
<1>2. MIN(Capacity - End, left) <= Capacity - End /\ MIN(Capacity - End, left) <= left
  BY <1>1, SizeAssumption DEF MIN, TypeOK, Size, Cell
<1>3. MIN(Capacity - End, left) \in Int
  BY <1>1, SizeAssumption DEF MIN, TypeOK, Size, Cell
<1>4. QED
  BY <1>1, <1>2, <1>3, SizeAssumption DEF TypeOK, Size, End, Cell

LEMMA RecvFirstType == TypeOK /\ RecvFirst => TypeOK'
<1> SUFFICES ASSUME TypeOK, RecvFirst PROVE TypeOK'
  OBVIOUS
<1>1. CASE RecvSkipped
  <2>1. UNCHANGED <<cells, offset, length, fresh, got>> /\ length \in Int
    BY <1>1, SizeAssumption DEF RecvSkipped, memory, TypeOK
  <2>2. QED
    BY <1>1, <2>1, EndRecvType DEF RecvSkipped, TypeOK
<1>2. CASE RecvToBlockEnd
  <2>1. PICK k \in 0..MIN(Capacity - End, left) :
             /\ Take(End, k)
             /\ \/ EndRecv(length + k)
                \/ /\ call' = "recvRest"
                   /\ left' = left - k
                   /\ UNCHANGED <<start, via, ret, io>>
    BY <1>2 DEF RecvToBlockEnd
  <2>2. End \in Cell /\ k \in Nat /\ k <= left /\ length + k <= Capacity
    BY <1>2, BlockEndIsFree DEF RecvToBlockEnd
  <2>3. /\ cells' \in [Cell -> Nat] /\ offset' \in Cell
        /\ length' \in 0..Capacity /\ fresh' \in Nat /\ got' \in Seq(Nat)
    BY <2>1, <2>2, TakeType
  <2>4. CASE EndRecv(length + k)
    <3>1. length + k \in Int
      BY <2>2, SizeAssumption DEF TypeOK
    <3>2. QED
      BY <2>3, <2>4, <3>1, EndRecvType DEF TypeOK
  <2>5. CASE /\ call' = "recvRest" /\ left' = left - k
             /\ UNCHANGED <<start, via, ret, io>>
    <3>1. left' \in Size
      BY <2>2, <2>5, SizeAssumption DEF TypeOK, Size
    <3>2. QED
      BY <2>3, <2>5, <3>1 DEF TypeOK
  <2>6. QED
    BY <2>1, <2>4, <2>5
<1>3. CASE RecvNoFirstPart
  <2>1. UNCHANGED <<cells, offset, length, fresh, start, via, got, ret, io>>
    BY <1>3 DEF RecvNoFirstPart, memory
  <2>2. left' \in Size /\ call' = "recvRest"
    BY <1>3, SizeAssumption DEF RecvNoFirstPart, Size
  <2>3. QED
    BY <2>1, <2>2 DEF TypeOK
<1>4. QED
  BY <1>1, <1>2, <1>3 DEF RecvFirst

LEMMA RecvRestType == TypeOK /\ RecvRest => TypeOK'
<1> SUFFICES ASSUME TypeOK, RecvRest PROVE TypeOK'
  OBVIOUS
<1>1. CASE EndRecv(length) /\ UNCHANGED <<memory, got>>
  <2>1. UNCHANGED <<cells, offset, length, fresh, got>> /\ length \in Int
    BY <1>1, SizeAssumption DEF memory, TypeOK
  <2>2. QED
    BY <1>1, <2>1, EndRecvType DEF TypeOK
<1>2. CASE /\ left # 0
           /\ Wrap(End) < offset
           /\ \E k \in 0..RecvRoom : Take(Wrap(End), k) /\ EndRecv(length + k)
  <2>1. PICK k \in 0..RecvRoom : Take(Wrap(End), k) /\ EndRecv(length + k)
    BY <1>2
  <2>2. k \in Nat /\ length + k <= Capacity /\ length + k \in Int
    BY <1>2, RoomIsFree, SizeAssumption DEF TypeOK
  <2>3. Wrap(End) \in Cell
    BY EndRange, WrapIsCell
  <2>4. QED
    BY <2>1, <2>2, <2>3, TakeType, EndRecvType DEF TypeOK
<1>3. QED
  BY <1>1, <1>2 DEF RecvRest

(* Bytes that leave the buffer, by a send() or a read. *)
LEMMA ConsumeType ==
    ASSUME TypeOK, NEW n \in 0..length, Consume(n)
    PROVE  /\ cells' \in [Cell -> Nat] /\ offset' \in Cell
           /\ length' \in 0..Capacity /\ fresh' \in Nat
<1>1. offset + n \in 0..(2 * Capacity - 1) /\ length - n \in 0..Capacity
  BY SizeAssumption DEF TypeOK, Cell
<1>2. QED
  BY <1>1, WrapIsCell DEF Consume, TypeOK

(* What one send() is given is unread and does not reach past the block. *)
LEMMA SendWantRange ==
    ASSUME TypeOK, NEW k \in 1..SendWant
    PROVE  k \in 1..length /\ k <= left /\ offset + k <= Capacity
<1>1. MIN(length, ChunkSize) \in 0..length
  BY SizeAssumption DEF MIN, TypeOK
<1>2. /\ FirstPart(offset, MIN(length, ChunkSize)) \in 0..length
      /\ offset + FirstPart(offset, MIN(length, ChunkSize)) <= Capacity
  BY <1>1, SizeAssumption DEF FirstPart, TypeOK, Cell
<1>3. /\ SendWant \in Int /\ SendWant <= left
      /\ SendWant <= FirstPart(offset, MIN(length, ChunkSize))
  BY <1>2, SizeAssumption DEF SendWant, MIN, TypeOK, Size
<1>4. QED
  BY <1>2, <1>3, SizeAssumption DEF TypeOK, Cell, Size

LEMMA SendChunkType == TypeOK /\ SendChunk => TypeOK'
<1> SUFFICES ASSUME TypeOK, SendChunk PROVE TypeOK'
  OBVIOUS
<1>1. PICK k \in 1..SendWant :
           got' = Copied(offset, k) /\ Consume(k) /\ left' = left - k
  BY DEF SendChunk
<1>2. k \in 1..length /\ k <= left /\ offset + k <= Capacity
  BY SendWantRange
<1>3. Copied(offset, k) \in Seq(Nat)
  <2>1. offset \in Int /\ offset >= 0 /\ k \in Nat /\ cells \in [Cell -> Nat]
    BY <1>2, SizeAssumption DEF TypeOK, Cell
  <2>2. QED
    BY <1>2, <2>1, CopiedType
<1>4. /\ cells' \in [Cell -> Nat] /\ offset' \in Cell
      /\ length' \in 0..Capacity /\ fresh' \in Nat
  BY <1>1, <1>2, ConsumeType
<1>5. left' \in Size
  BY <1>1, <1>2, SizeAssumption DEF TypeOK, Size
<1>6. QED
  BY <1>1, <1>3, <1>4, <1>5 DEF SendChunk, TypeOK

LEMMA SendEndType == TypeOK /\ SendEnd => TypeOK'
<1> SUFFICES ASSUME TypeOK, SendEnd PROVE TypeOK'
  OBVIOUS
<1>1. UNCHANGED <<cells, offset, length, fresh>> /\ got' \in Seq(Nat)
  BY DEF SendEnd, memory
<1>2. start - length \in Int
  BY SizeAssumption DEF TypeOK, Size
<1>3. QED
  BY <1>1, <1>2, ReturnType DEF SendEnd, ReturnSize, TypeOK

LEMMA SendType ==
    ASSUME TypeOK, NEW max \in Size, Send(max)
    PROVE  TypeOK'
<1>1. UNCHANGED <<cells, offset, length, fresh, via>> /\ got' \in Seq(Nat)
  BY DEF Send, memory
<1>2. start' \in Size
  BY SizeAssumption DEF Send, TypeOK, Size
<1>3. QED
  BY <1>1, <1>2 DEF Send, TypeOK

LEMMA ReadFixedType ==
    ASSUME TypeOK, NEW n \in Nat, NEW dest \in BOOLEAN, ReadFixed(n, dest)
    PROVE  TypeOK'
<1>1. CASE length < n /\ got' = << >> /\ ReturnSize(-1) /\ UNCHANGED memory
  <2>1. UNCHANGED <<cells, offset, length, fresh>> /\ got' \in Seq(Nat)
    BY <1>1 DEF memory
  <2>2. QED
    BY <1>1, <2>1, ReturnType DEF ReturnSize, TypeOK
<1>2. CASE /\ length >= n
           /\ got' = IF dest THEN Span(offset, n) ELSE << >>
           /\ Consume(n)
           /\ ReturnSize(n)
  <2>1. n \in 0..length /\ n \in 0..Capacity /\ n \in Int
    BY <1>2, SizeAssumption DEF TypeOK
  <2>2. got' \in Seq(Nat)
    BY <1>2, <2>1, SpanType DEF TypeOK
  <2>3. QED
    BY <1>2, <2>1, <2>2, ConsumeType, ReturnType DEF ReturnSize, TypeOK
<1>3. QED
  BY <1>1, <1>2 DEF ReadFixed

LEMMA StealFixedType ==
    ASSUME TypeOK, NEW from \in Nat, NEW n \in Nat, StealFixed(from, n)
    PROVE  TypeOK'
<1>1. UNCHANGED <<cells, offset, length, fresh>>
  BY DEF StealFixed, memory
<1>2. CASE got' = << >> /\ ReturnSize(-1)
  <2>1. got' \in Seq(Nat)
    BY <1>2
  <2>2. QED
    BY <1>1, <1>2, <2>1, ReturnType DEF ReturnSize, TypeOK
<1>3. CASE /\ length >= from + n
           /\ got' = Span(Wrap(offset + from), n)
           /\ ReturnSize(n)
  <2>1. n \in 0..Capacity /\ offset + from \in 0..(2 * Capacity - 1) /\ n \in Int
    BY <1>3, SizeAssumption DEF TypeOK, Cell
  <2>2. got' \in Seq(Nat)
    BY <1>3, <2>1, WrapIsCell, SpanType DEF TypeOK
  <2>3. QED
    BY <1>1, <1>3, <2>1, <2>2, ReturnType DEF ReturnSize, TypeOK
<1>4. QED
  BY <1>2, <1>3 DEF StealFixed

LEMMA StealType ==
    ASSUME TypeOK, NEW from \in Nat, NEW max \in Nat, Steal(from, max)
    PROVE  TypeOK'
<1>1. CASE got' = << >> /\ ReturnSize(0) /\ UNCHANGED memory
  <2>1. UNCHANGED <<cells, offset, length, fresh>> /\ got' \in Seq(Nat)
    BY <1>1 DEF memory
  <2>2. QED
    BY <1>1, <2>1, ReturnType DEF ReturnSize, TypeOK
<1>2. CASE length >= from /\ StealFixed(from, MIN(length - from, max))
  <2>1. MIN(length - from, max) \in Nat
    BY <1>2, SizeAssumption DEF MIN, TypeOK
  <2>2. QED
    BY <1>2, <2>1, StealFixedType
<1>3. QED
  BY <1>1, <1>2 DEF Steal

(* Where the two parts of a block that fits go. *)
LEMMA WriteParts ==
    ASSUME TypeOK, NEW n \in Nat, length + n <= Capacity
    PROVE  /\ Wrap(End) \in Cell
           /\ FirstPart(Wrap(End), n) \in 0..n
           /\ Wrap(End) + FirstPart(Wrap(End), n) <= Capacity
           /\ length + FirstPart(Wrap(End), n) \in 0..Capacity
<1>1. Wrap(End) \in Cell
  BY EndRange, WrapIsCell
<1>2. FirstPart(Wrap(End), n) \in 0..n /\ Wrap(End) + FirstPart(Wrap(End), n) <= Capacity
  BY <1>1, SizeAssumption DEF FirstPart, Cell
<1>3. QED
  BY <1>1, <1>2, SizeAssumption DEF TypeOK

LEMMA WriteBlockType ==
    ASSUME TypeOK, NEW n \in Nat, length + n <= Capacity, WriteBlock(n)
    PROVE  /\ cells' \in [Cell -> Nat] /\ offset' \in Cell
           /\ length' \in 0..Capacity /\ fresh' \in Nat
<1> DEFINE at == Wrap(End)
           n1 == FirstPart(at, n)
<1>1. /\ cells' = [c \in Cell |->
                     IF c < n - n1 THEN fresh + n1 + 1 + c ELSE Filled(at, n1)[c]]
      /\ length' = length + n1 /\ fresh' = fresh + n /\ offset' = offset
  BY DEF WriteBlock
<1>2. at \in Cell /\ n1 \in Nat /\ length + n1 \in 0..Capacity
  BY WriteParts
<1> HIDE DEF at, n1
<1>3. Filled(at, n1) \in [Cell -> Nat]
  BY <1>2, FilledType DEF TypeOK
<1>4. ASSUME NEW c \in Cell PROVE fresh + n1 + 1 + c \in Nat
  BY <1>2, <1>4, SizeAssumption DEF TypeOK, Cell
<1>5. QED
  BY <1>1, <1>2, <1>3, <1>4 DEF TypeOK

LEMMA WriteFixedType ==
    ASSUME TypeOK, NEW n \in Nat, WriteFixed(n)
    PROVE  TypeOK'
<1>1. got' \in Seq(Nat)
  BY DEF WriteFixed
<1>2. CASE ReturnSize(-1) /\ UNCHANGED memory
  BY <1>1, <1>2, ReturnType DEF ReturnSize, memory, TypeOK
<1>3. CASE length + n <= Capacity /\ WriteBlock(n) /\ ReturnSize(n)
  BY <1>1, <1>3, WriteBlockType, ReturnType DEF ReturnSize, TypeOK
<1>4. QED
  BY <1>2, <1>3 DEF WriteFixed

LEMMA SendViaType ==
    ASSUME TypeOK, NEW n \in Nat, SendVia(n)
    PROVE  TypeOK'
<1>1. got' \in Seq(Nat)
  BY DEF SendVia
<1>2. CASE (ReturnIo("EAGAIN") \/ ReturnIo("ERROR")) /\ UNCHANGED memory
  BY <1>1, <1>2, ReturnType DEF ReturnIo, memory, TypeOK
<1>3. CASE length + n <= Capacity /\ WriteBlock(n) /\ ReturnIo("OK")
  BY <1>1, <1>3, WriteBlockType, ReturnType DEF ReturnIo, TypeOK
<1>4. QED
  BY <1>2, <1>3 DEF SendVia

LEMMA RecvViaType ==
    ASSUME TypeOK, NEW request \in Request, RecvVia(request)
    PROVE  TypeOK'
<1> DEFINE expected == request.offset + request.size
<1>1. expected \in Nat
  BY SizeAssumption DEF Request, Size
<1>2. CASE got' = << >> /\ ReturnIo("EOVERFLOW") /\ UNCHANGED memory
  <2>1. UNCHANGED <<cells, offset, length, fresh>> /\ got' \in Seq(Nat)
    BY <1>2 DEF memory
  <2>2. QED
    BY <1>2, <2>1, ReturnType DEF ReturnIo, TypeOK
<1>3. CASE /\ expected <= Capacity
           /\ length < expected
           /\ BeginRecv(expected - length, request)
  <2>1. expected - length \in Size
    BY <1>1, <1>3, SizeAssumption DEF TypeOK, Size
  <2>2. QED
    BY <1>3, <2>1, BeginRecvType
<1>4. CASE /\ call' = "steal" /\ via' = request /\ got' = << >>
           /\ ret' = 0 /\ io' = "none" /\ UNCHANGED <<memory, left, start>>
  <2>1. UNCHANGED <<cells, offset, length, fresh, left, start>> /\ got' \in Seq(Nat)
    BY <1>4 DEF memory
  <2>2. QED
    BY <1>4, <2>1 DEF TypeOK
<1>5. QED
  BY <1>2, <1>3, <1>4 DEF RecvVia

LEMMA StealViaType == TypeOK /\ StealVia => TypeOK'
<1> SUFFICES ASSUME TypeOK, StealVia PROVE TypeOK'
  OBVIOUS
<1>1. UNCHANGED <<cells, offset, length, fresh>>
  BY DEF StealVia, memory
<1>2. via.offset \in Nat /\ via.size \in Nat /\ via.offset <= Capacity + 1
  BY SizeAssumption DEF TypeOK, Request, Size
<1>3. Stolen(via) \in 0..Capacity
  BY <1>2, SizeAssumption DEF Stolen, MIN, TypeOK
<1>4. got' \in Seq(Nat)
  <2>1. offset + via.offset \in Nat
    BY <1>2, SizeAssumption DEF TypeOK, Cell
  <2>2. Wrap(offset + via.offset) \in Cell
    BY <2>1, SizeAssumption, SMT DEF Wrap, Cell
  <2>3. Span(Wrap(offset + via.offset), Stolen(via)) \in Seq(Nat)
    BY <1>3, <2>2, SpanType DEF TypeOK
  <2>4. QED
    BY <2>3 DEF StealVia
<1>5. QED
  BY <1>1, <1>4, ReturnType DEF StealVia, ReturnIo, TypeOK

LEMMA ResetType == TypeOK /\ Reset => TypeOK'
<1> SUFFICES ASSUME TypeOK, Reset PROVE TypeOK'
  OBVIOUS
<1>1. offset' \in Cell /\ length' \in 0..Capacity /\ got' \in Seq(Nat)
  BY SizeAssumption DEF Reset, Cell
<1>2. QED
  BY <1>1, ReturnType DEF Reset, ReturnSize, TypeOK

LEMMA NextType == TypeOK /\ [Next]_vars => TypeOK'
<1> SUFFICES ASSUME TypeOK, [Next]_vars PROVE TypeOK'
  OBVIOUS
<1>1. Size \subseteq Nat
  BY SizeAssumption DEF Size
<1>2. ASSUME NEW n \in Size, Recv(n) PROVE TypeOK'
  <2>1. NoRequest \in Request
    BY SizeAssumption DEF NoRequest, Request, Size
  <2>2. QED
    BY <1>2, <2>1, BeginRecvType DEF Recv
<1>3. ASSUME NEW n \in Size, Send(n) PROVE TypeOK'
  BY <1>3, SendType
<1>4. ASSUME NEW n \in Size, Write(n) PROVE TypeOK'
  <2>1. MIN(Capacity - length, n) \in Nat
    BY <1>1, SizeAssumption DEF MIN, TypeOK
  <2>2. QED
    BY <1>4, <2>1, WriteFixedType DEF Write
<1>5. ASSUME NEW n \in Size, WriteFixed(n) PROVE TypeOK'
  BY <1>1, <1>5, WriteFixedType
<1>6. ASSUME NEW n \in Size, SendVia(n) PROVE TypeOK'
  BY <1>1, <1>6, SendViaType
<1>7. ASSUME NEW n \in Size, NEW dest \in BOOLEAN, Read(n, dest) PROVE TypeOK'
  <2>1. MIN(length, n) \in Nat
    BY <1>1, SizeAssumption DEF MIN, TypeOK
  <2>2. QED
    BY <1>7, <2>1, ReadFixedType DEF Read
<1>8. ASSUME NEW n \in Size, NEW dest \in BOOLEAN, ReadFixed(n, dest) PROVE TypeOK'
  BY <1>1, <1>8, ReadFixedType
<1>9. ASSUME NEW from \in Size, NEW n \in Size, Steal(from, n) PROVE TypeOK'
  BY <1>1, <1>9, StealType
<1>10. ASSUME NEW from \in Size, NEW n \in Size, StealFixed(from, n) PROVE TypeOK'
  BY <1>1, <1>10, StealFixedType
<1>11. ASSUME NEW request \in Request, RecvVia(request) PROVE TypeOK'
  BY <1>11, RecvViaType
<1>12. CASE UNCHANGED vars
  BY <1>12 DEF vars, TypeOK
<1>13. QED
  BY <1>2, <1>3, <1>4, <1>5, <1>6, <1>7, <1>8, <1>9, <1>10, <1>11, <1>12,
     RecvFirstType, RecvRestType, SendChunkType, SendEndType, StealViaType, ResetType
  DEF Next

(* The offset stays inside the block and the unread bytes fit it, for every *)
(* capacity, whatever is called and however the kernel cuts the stream.     *)
THEOREM TypeCorrect == Spec => []TypeOK
<1>1. Init => TypeOK
  BY InitType
<1>2. TypeOK /\ [Next]_vars => TypeOK'
  BY NextType
<1>3. QED
  BY <1>1, <1>2, PTL DEF Spec

-----------------------------------------------------------------------------
(* UnreadInOrder is inductive relative to TypeOK. *)

(* The cell of the i-th unread byte. *)
LEMMA UnreadCell ==
    ASSUME TypeOK, NEW i \in 1..length
    PROVE  /\ offset + i - 1 \in 0..(2 * Capacity - 1)
           /\ Wrap(offset + i - 1) \in Cell
           /\ Unread[i] = cells[Wrap(offset + i - 1)]
<1>1. offset + i - 1 \in 0..(2 * Capacity - 1)
  BY SizeAssumption DEF TypeOK, Cell
<1>2. QED
  BY <1>1, WrapIsCell DEF Unread

(* The unread bytes stay as they are, and the next k of the stream follow.   *)
Appends(k) ==
    /\ length' = length + k
    /\ \A i \in 1..length : Unread'[i] = Unread[i]
    /\ \A i \in 1..k : Unread'[length + i] = fresh + i

LEMMA AppendKeepsOrder ==
    ASSUME TypeOK, UnreadInOrder, NEW k \in Nat, Appends(k),
           fresh' \in Nat, fresh' >= fresh + k
    PROVE  UnreadInOrder'
<1>0. /\ length' = length + k
      /\ \A i \in 1..length : Unread'[i] = Unread[i]
      /\ \A i \in 1..k : Unread'[length + i] = fresh + i
  BY DEF Appends
<1>1. ASSUME NEW i \in 1..length' PROVE Unread'[i] \in 1..fresh'
  <2>1. CASE i \in 1..length
    BY <1>0, <2>1, SizeAssumption DEF UnreadInOrder, TypeOK
  <2>2. CASE i \notin 1..length
    <3>1. i - length \in 1..k /\ length + (i - length) = i
      BY <1>0, <1>1, <2>2, SizeAssumption DEF TypeOK
    <3>2. Unread'[i] = fresh + (i - length)
      BY <1>0, <3>1
    <3>3. QED
      BY <3>1, <3>2, SizeAssumption DEF TypeOK
  <2>3. QED
    BY <2>1, <2>2
<1>2. ASSUME NEW i \in 1..length', NEW j \in 1..length', i < j
      PROVE  Unread'[i] < Unread'[j]
  <2>1. CASE j \in 1..length
    <3>1. i \in 1..length
      BY <1>2, <2>1, SizeAssumption DEF TypeOK
    <3>2. QED
      BY <1>0, <1>2, <2>1, <3>1 DEF UnreadInOrder
  <2>2. CASE j \notin 1..length
    <3>1. j - length \in 1..k /\ length + (j - length) = j
      BY <1>0, <1>2, <2>2, SizeAssumption DEF TypeOK
    <3>2. Unread'[j] = fresh + (j - length)
      BY <1>0, <3>1
    <3>3. CASE i \in 1..length
      <4>1. Unread'[i] = Unread[i] /\ Unread[i] \in 1..fresh
        BY <1>0, <3>3 DEF UnreadInOrder
      <4>2. QED
        BY <3>1, <3>2, <4>1, SizeAssumption DEF TypeOK
    <3>4. CASE i \notin 1..length
      <4>1. i - length \in 1..k /\ length + (i - length) = i
        BY <1>0, <1>2, <3>4, SizeAssumption DEF TypeOK
      <4>2. Unread'[i] = fresh + (i - length)
        BY <1>0, <4>1
      <4>3. QED
        BY <1>2, <3>1, <3>2, <4>1, <4>2, SizeAssumption DEF TypeOK
    <3>5. QED
      BY <3>3, <3>4
  <2>3. QED
    BY <2>1, <2>2
<1>3. QED
  BY <1>1, <1>2 DEF UnreadInOrder

LEMMA SameUnreadKeepsOrder ==
    ASSUME TypeOK, UnreadInOrder, UNCHANGED <<cells, offset, length, fresh>>
    PROVE  UnreadInOrder'
  BY DEF UnreadInOrder, Unread

(* The free cells that follow the unread bytes are not theirs. *)
LEMMA FreeCell ==
    ASSUME TypeOK, NEW i \in 1..length, NEW m \in Nat, length + m < Capacity
    PROVE  /\ End + m \in 0..(2 * Capacity - 1)
           /\ Wrap(offset + i - 1) # Wrap(End + m)
<1>1. /\ offset + i - 1 \in 0..(2 * Capacity - 1)
      /\ End + m \in 0..(2 * Capacity - 1)
      /\ offset + i - 1 < End + m
      /\ (End + m) - (offset + i - 1) < Capacity
  BY SizeAssumption DEF TypeOK, End, Cell
<1>2. QED
  BY <1>1, WrapIsInjective

LEMMA FilledValue ==
    ASSUME NEW at, NEW n, NEW c \in Cell, c \in at..(at + n - 1)
    PROVE  Filled(at, n)[c] = fresh + 1 + (c - at)
  BY Zenon DEF Filled

(* k free cells from the end of the unread bytes on, short of the block's end. *)
LEMMA BlockPositions ==
    ASSUME TypeOK, NEW k \in Nat, length + k <= Capacity, Wrap(End) + k <= Capacity,
           NEW m \in Nat, m < k
    PROVE  Wrap(End + m) = Wrap(End) + m
<1>1. End + m \in 0..(2 * Capacity - 1) /\ End \in 0..(2 * Capacity - 1)
  BY EndRange, SizeAssumption DEF TypeOK, End, Cell
<1>2. QED
  BY <1>1, WrapValue, SizeAssumption DEF Cell

LEMMA BlockIsFree ==
    ASSUME TypeOK, NEW k \in Nat, length + k <= Capacity, Wrap(End) + k <= Capacity,
           NEW i \in 1..length
    PROVE  Wrap(offset + i - 1) \notin Wrap(End)..(Wrap(End) + k - 1)
<1> DEFINE at == Wrap(End)
<1>1. at \in Cell
  BY EndRange, WrapIsCell
<1>2. \A m \in Nat : m < k => Wrap(End + m) = at + m
  BY BlockPositions
<1> HIDE DEF at
<1>3. ASSUME NEW c \in at..(at + k - 1) PROVE Wrap(offset + i - 1) # c
  <2>1. c - at \in Nat /\ c - at < k /\ at + (c - at) = c /\ length + (c - at) < Capacity
    BY <1>1, SizeAssumption DEF TypeOK, Cell
  <2>2. Wrap(End + (c - at)) = c
    BY <1>2, <2>1
  <2>3. QED
    BY <2>1, <2>2, FreeCell
<1>4. QED
  BY <1>3 DEF at

(* The next k bytes of the stream, put there, follow the unread ones. *)
LEMMA LandedAppends ==
    ASSUME TypeOK,
           NEW k \in Nat, length + k <= Capacity, Wrap(End) + k <= Capacity,
           length' = length + k, offset' = offset,
           \A i \in 1..length :
               cells'[Wrap(offset + i - 1)] = cells[Wrap(offset + i - 1)],
           \A c \in Cell : c \in Wrap(End)..(Wrap(End) + k - 1) =>
               cells'[c] = Filled(Wrap(End), k)[c]
    PROVE  Appends(k)
<1> DEFINE at == Wrap(End)
<1>1. at \in Cell /\ at + k <= Capacity
  BY EndRange, WrapIsCell
<1>2. \A m \in Nat : m < k => Wrap(End + m) = at + m
  BY BlockPositions
<1>3. \A c \in Cell : c \in at..(at + k - 1) => cells'[c] = Filled(at, k)[c]
  OBVIOUS
<1> HIDE DEF at
<1>4. ASSUME NEW i \in 1..length PROVE Unread'[i] = Unread[i]
  <2>1. i \in 1..length'
    BY SizeAssumption DEF TypeOK
  <2>2. QED
    BY <2>1 DEF Unread, Wrap
<1>5. ASSUME NEW i \in 1..k PROVE Unread'[length + i] = fresh + i
  <2>1. length + i \in 1..length' /\ i - 1 \in Nat /\ i - 1 < k
    BY SizeAssumption DEF TypeOK
  <2>2. Wrap(End + (i - 1)) = at + (i - 1)
    BY <1>2, <2>1
  <2>3. offset' + (length + i) - 1 = End + (i - 1)
    BY SizeAssumption DEF TypeOK, End, Cell
  <2>4. Unread'[length + i] = cells'[at + (i - 1)]
    BY <2>1, <2>2, <2>3 DEF Unread, Wrap
  <2>5. at + (i - 1) \in Cell /\ at + (i - 1) \in at..(at + k - 1)
    BY <1>1, <2>1, SizeAssumption DEF Cell
  <2>6. cells'[at + (i - 1)] = fresh + 1 + ((at + (i - 1)) - at)
    BY <1>3, <2>5, FilledValue
  <2>7. QED
    BY <1>1, <2>4, <2>6, SizeAssumption DEF TypeOK, Cell
<1>6. QED
  BY <1>4, <1>5 DEF Appends

(* Received bytes land after the unread ones. *)
LEMMA TakeAppends ==
    ASSUME TypeOK, NEW k \in Nat, Take(Wrap(End), k),
           length + k <= Capacity, Wrap(End) + k <= Capacity
    PROVE  Appends(k)
<1>1. /\ cells' = Filled(Wrap(End), k) /\ length' = length + k /\ fresh' = fresh + k
      /\ offset' = offset
  BY DEF Take
<1>2. ASSUME NEW i \in 1..length
      PROVE  cells'[Wrap(offset + i - 1)] = cells[Wrap(offset + i - 1)]
  <2>1. Wrap(offset + i - 1) \in Cell
    BY UnreadCell
  <2>2. Wrap(offset + i - 1) \notin Wrap(End)..(Wrap(End) + k - 1)
    BY BlockIsFree
  <2>3. QED
    BY <1>1, <2>1, <2>2 DEF Filled
<1>3. QED
  BY <1>1, <1>2, LandedAppends

LEMMA TakeKeepsOrder ==
    ASSUME TypeOK, UnreadInOrder, NEW k \in Nat, Take(Wrap(End), k),
           length + k <= Capacity, Wrap(End) + k <= Capacity
    PROVE  UnreadInOrder'
<1>1. fresh' \in Nat /\ fresh' >= fresh + k
  BY DEF Take, TypeOK
<1>2. QED
  BY <1>1, TakeAppends, AppendKeepsOrder

(* So does the part of a written block that is counted; the wrapped part,  *)
(* which is not, lands in free cells.                                      *)
LEMMA WriteBlockAppends ==
    ASSUME TypeOK, NEW n \in Nat, length + n <= Capacity, WriteBlock(n)
    PROVE  Appends(FirstPart(Wrap(End), n))
<1> DEFINE at == Wrap(End)
           n1 == FirstPart(at, n)
<1>1. /\ cells' = [c \in Cell |->
                     IF c < n - n1 THEN fresh + n1 + 1 + c ELSE Filled(at, n1)[c]]
      /\ length' = length + n1 /\ fresh' = fresh + n /\ offset' = offset
  BY DEF WriteBlock
<1>2. /\ at \in Cell /\ n1 \in 0..n /\ at + n1 <= Capacity
      /\ length + n1 \in 0..Capacity
  BY WriteParts
<1>3. /\ at = IF End < Capacity THEN End ELSE End - Capacity
      /\ n1 = IF at + n > Capacity THEN Capacity - at ELSE n
  BY EndRange, WrapValue DEF FirstPart
<1>4. ASSUME NEW i \in 1..length PROVE Wrap(offset + i - 1) \notin at..(at + n1 - 1)
  <2>1. n1 \in Nat /\ length + n1 <= Capacity /\ at + n1 <= Capacity
    BY <1>2
  <2>2. QED
    BY <2>1, BlockIsFree
<1> HIDE DEF at, n1
<1>5. n1 \in Nat
  BY <1>2
<1>6. n - n1 > 0 => End = at /\ at + n1 = Capacity
  BY <1>2, <1>3, SizeAssumption DEF TypeOK, End, Cell
<1>7. ASSUME NEW i \in 1..length
      PROVE  cells'[Wrap(offset + i - 1)] = cells[Wrap(offset + i - 1)]
  <2>1. PICK w \in Cell : w = Wrap(offset + i - 1)
    BY UnreadCell
  <2>2. w \notin at..(at + n1 - 1)
    BY <1>4, <2>1
  <2>3. ~(w < n - n1)
    <3>1. SUFFICES ASSUME w < n - n1 PROVE FALSE
      OBVIOUS
    <3>2. n1 + w \in Nat /\ length + (n1 + w) < Capacity
      BY <1>5, <3>1, SizeAssumption DEF TypeOK, Cell
    <3>3. End + (n1 + w) = Capacity + w
      BY <1>2, <1>5, <1>6, <3>1, SizeAssumption DEF Cell
    <3>4. Capacity + w \in Capacity..(2 * Capacity - 1)
      BY SizeAssumption DEF Cell
    <3>5. PICK p \in Capacity..(2 * Capacity - 1) : p = Capacity + w
      BY <3>4
    <3>6. Wrap(p) = w
      BY <3>5, WrapHigh, SizeAssumption DEF Cell
    <3>7. w # Wrap(End + (n1 + w))
      BY <2>1, <3>2, FreeCell
    <3>8. QED
      BY <3>3, <3>5, <3>6, <3>7
  <2>4. cells'[w] = Filled(at, n1)[w]
    BY <1>1, <2>3
  <2>5. Filled(at, n1)[w] = cells[w]
    BY <2>2 DEF Filled
  <2>6. QED
    BY <2>1, <2>4, <2>5
<1>8. ASSUME NEW c \in Cell, c \in at..(at + n1 - 1)
      PROVE  cells'[c] = Filled(at, n1)[c]
  <2>1. n - n1 <= at
    BY <1>2, <1>5, <1>6, SizeAssumption DEF TypeOK, Cell
  <2>2. ~(c < n - n1)
    BY <1>2, <1>5, <1>8, <2>1, SizeAssumption DEF Cell
  <2>3. QED
    BY <1>1, <2>2
<1>9. length + n1 <= Capacity /\ Wrap(End) + n1 <= Capacity
  BY <1>2 DEF at
<1>10. QED
  BY <1>1, <1>5, <1>7, <1>8, <1>9, LandedAppends DEF at, n1

LEMMA WriteBlockKeepsOrder ==
    ASSUME TypeOK, UnreadInOrder, NEW n \in Nat, length + n <= Capacity, WriteBlock(n)
    PROVE  UnreadInOrder'
<1>1. FirstPart(Wrap(End), n) \in 0..n /\ fresh' = fresh + n
  BY WriteParts DEF WriteBlock
<1>2. fresh' \in Nat /\ fresh' >= fresh + FirstPart(Wrap(End), n)
  BY <1>1 DEF TypeOK
<1>3. QED
  BY <1>1, <1>2, WriteBlockAppends, AppendKeepsOrder

(* Bytes that leave the buffer move the rest up. *)
LEMMA ConsumeShifts ==
    ASSUME TypeOK, NEW n \in 0..length, Consume(n)
    PROVE  \A i \in 1..length' : n + i \in 1..length /\ Unread'[i] = Unread[n + i]
<1>1. /\ cells' = cells /\ fresh' = fresh /\ length' = length - n
      /\ offset' = Wrap(offset + n) /\ length' \in Nat
  BY SizeAssumption DEF Consume, TypeOK
<1>2. ASSUME NEW i \in 1..length' PROVE n + i \in 1..length /\ Unread'[i] = Unread[n + i]
  <2>1. n + i \in 1..length
    BY <1>1, SizeAssumption DEF TypeOK
  <2>2. /\ offset + n \in 0..(2 * Capacity - 1)
        /\ offset + (n + i) - 1 \in 0..(2 * Capacity - 1)
    BY <2>1, SizeAssumption DEF TypeOK, Cell
  <2>3. CASE offset + n < Capacity
    <3>1. Wrap(offset + n) = offset + n
      BY <2>2, <2>3, WrapLow, SizeAssumption DEF TypeOK, Cell
    <3>2. Wrap(offset + n) + i - 1 = offset + (n + i) - 1
      BY <1>1, <2>2, <3>1 DEF TypeOK, Cell
    <3>3. QED
      BY <1>1, <2>1, <3>2 DEF Unread, Wrap
  <2>4. CASE offset + n >= Capacity
    <3>1. Wrap(offset + n) = offset + n - Capacity
      BY <2>2, <2>4, WrapHigh, SizeAssumption DEF TypeOK, Cell
    <3>2. Wrap(offset + n) + i - 1 = offset + n - Capacity + i - 1
      BY <3>1
    <3>3. offset + n - Capacity + i - 1 \in 0..(Capacity - 1)
      BY <2>1, <2>4, SizeAssumption DEF TypeOK, Cell
    <3>4. Wrap(offset + n - Capacity + i - 1) = offset + n - Capacity + i - 1
      BY <3>3, WrapLow
    <3>5. PICK p \in Capacity..(2 * Capacity - 1) : p = offset + (n + i) - 1
      BY <2>1, <2>2, <2>4, SizeAssumption DEF TypeOK, Cell
    <3>6. Wrap(p) = p - Capacity
      BY <3>5, WrapHigh
    <3>7. offset + n - Capacity + i - 1 = p - Capacity
      BY <2>1, <3>5, SizeAssumption DEF TypeOK, Cell
    <3>8. Unread'[i] = cells[Wrap(offset + n - Capacity + i - 1)]
      BY <1>1, <3>2 DEF Unread, Wrap
    <3>9. Unread[n + i] = cells[Wrap(p)]
      BY <2>1, <3>5 DEF Unread
    <3>10. QED
      BY <2>1, <3>4, <3>6, <3>7, <3>8, <3>9
  <2>5. QED
    BY <2>1, <2>3, <2>4, SizeAssumption DEF TypeOK, Cell
<1>3. QED
  BY <1>2

(* And leave it in order. *)
LEMMA ConsumeKeepsOrder ==
    ASSUME TypeOK, UnreadInOrder, NEW n \in 0..length, Consume(n)
    PROVE  UnreadInOrder'
<1>1. fresh' = fresh /\ length' = length - n /\ length' \in Nat
  BY SizeAssumption DEF Consume, TypeOK
<1>2. \A i \in 1..length' : n + i \in 1..length /\ Unread'[i] = Unread[n + i]
  BY ConsumeShifts
<1>3. \A i \in 1..length' : Unread'[i] \in 1..fresh'
  BY <1>1, <1>2 DEF UnreadInOrder
<1>4. ASSUME NEW i \in 1..length', NEW j \in 1..length', i < j
      PROVE  Unread'[i] < Unread'[j]
  <2>1. n + i < n + j
    BY <1>1, <1>4 DEF TypeOK
  <2>2. QED
    BY <1>2, <2>1 DEF UnreadInOrder
<1>5. QED
  BY <1>3, <1>4 DEF UnreadInOrder

LEMMA RecvFirstKeepsOrder == TypeOK /\ UnreadInOrder /\ RecvFirst => UnreadInOrder'
<1> SUFFICES ASSUME TypeOK, UnreadInOrder, RecvFirst PROVE UnreadInOrder'
  OBVIOUS
<1>1. CASE RecvSkipped \/ RecvNoFirstPart
  <2>1. UNCHANGED <<cells, offset, length, fresh>>
    BY <1>1 DEF RecvSkipped, RecvNoFirstPart, memory
  <2>2. QED
    BY <2>1, SameUnreadKeepsOrder
<1>2. CASE RecvToBlockEnd
  <2>1. PICK k \in 0..MIN(Capacity - End, left) : Take(End, k)
    BY <1>2 DEF RecvToBlockEnd
  <2>2. End \in Cell /\ k \in Nat /\ End + k <= Capacity /\ length + k <= Capacity
    BY <1>2, BlockEndIsFree DEF RecvToBlockEnd
  <2>3. Wrap(End) = End
    BY <2>2, WrapLow DEF Cell
  <2>4. QED
    BY <2>1, <2>2, <2>3, TakeKeepsOrder
<1>3. QED
  BY <1>1, <1>2 DEF RecvFirst

LEMMA RecvRestKeepsOrder == TypeOK /\ UnreadInOrder /\ RecvRest => UnreadInOrder'
<1> SUFFICES ASSUME TypeOK, UnreadInOrder, RecvRest PROVE UnreadInOrder'
  OBVIOUS
<1>1. CASE UNCHANGED memory
  BY <1>1, SameUnreadKeepsOrder DEF memory
<1>2. CASE /\ left # 0
           /\ Wrap(End) < offset
           /\ \E k \in 0..RecvRoom : Take(Wrap(End), k)
  <2>1. PICK k \in 0..RecvRoom : Take(Wrap(End), k)
    BY <1>2
  <2>2. length + k <= Capacity /\ Wrap(End) + k <= offset
    BY <1>2, RoomIsFree
  <2>3. k \in Nat /\ Wrap(End) + k <= Capacity
    <3>1. Wrap(End) \in Cell
      BY EndRange, WrapIsCell
    <3>2. QED
      BY <2>2, <3>1, SizeAssumption DEF TypeOK, Cell
  <2>4. QED
    BY <2>1, <2>2, <2>3, TakeKeepsOrder
<1>3. QED
  BY <1>1, <1>2 DEF RecvRest

LEMMA ReadFixedKeepsOrder ==
    ASSUME TypeOK, UnreadInOrder, NEW n \in Nat, NEW dest \in BOOLEAN, ReadFixed(n, dest)
    PROVE  UnreadInOrder'
<1>1. CASE UNCHANGED memory
  BY <1>1, SameUnreadKeepsOrder DEF memory
<1>2. CASE length >= n /\ Consume(n)
  <2>1. n \in 0..length
    BY <1>2 DEF TypeOK
  <2>2. QED
    BY <1>2, <2>1, ConsumeKeepsOrder
<1>3. QED
  BY <1>1, <1>2 DEF ReadFixed

LEMMA WriteFixedKeepsOrder ==
    ASSUME TypeOK, UnreadInOrder, NEW n \in Nat, WriteFixed(n) \/ SendVia(n)
    PROVE  UnreadInOrder'
<1>1. CASE UNCHANGED memory
  BY <1>1, SameUnreadKeepsOrder DEF memory
<1>2. CASE length + n <= Capacity /\ WriteBlock(n)
  BY <1>2, WriteBlockKeepsOrder
<1>3. QED
  BY <1>1, <1>2 DEF WriteFixed, SendVia

LEMMA NextKeepsOrder == TypeOK /\ UnreadInOrder /\ [Next]_vars => UnreadInOrder'
<1> SUFFICES ASSUME TypeOK, UnreadInOrder, [Next]_vars PROVE UnreadInOrder'
  OBVIOUS
<1>1. Size \subseteq Nat
  BY SizeAssumption DEF Size
<1>2. ASSUME NEW n \in Size, Recv(n) \/ Send(n) PROVE UnreadInOrder'
  BY <1>2, SameUnreadKeepsOrder DEF Recv, BeginRecv, Send, memory
<1>3. ASSUME NEW n \in Size, Write(n) PROVE UnreadInOrder'
  <2>1. MIN(Capacity - length, n) \in Nat
    BY <1>1, SizeAssumption DEF MIN, TypeOK
  <2>2. QED
    BY <1>3, <2>1, WriteFixedKeepsOrder DEF Write
<1>4. ASSUME NEW n \in Size, WriteFixed(n) \/ SendVia(n) PROVE UnreadInOrder'
  BY <1>1, <1>4, WriteFixedKeepsOrder
<1>5. ASSUME NEW n \in Size, NEW dest \in BOOLEAN, Read(n, dest) PROVE UnreadInOrder'
  <2>1. MIN(length, n) \in Nat
    BY <1>1, SizeAssumption DEF MIN, TypeOK
  <2>2. QED
    BY <1>5, <2>1, ReadFixedKeepsOrder DEF Read
<1>6. ASSUME NEW n \in Size, NEW dest \in BOOLEAN, ReadFixed(n, dest) PROVE UnreadInOrder'
  BY <1>1, <1>6, ReadFixedKeepsOrder
<1>7. ASSUME NEW from \in Size, NEW n \in Size, Steal(from, n) \/ StealFixed(from, n)
      PROVE  UnreadInOrder'
  <2>1. UNCHANGED memory
    BY <1>7 DEF Steal, StealFixed
  <2>2. QED
    BY <2>1, SameUnreadKeepsOrder DEF memory
<1>8. ASSUME NEW request \in Request, RecvVia(request) PROVE UnreadInOrder'
  BY <1>8, SameUnreadKeepsOrder DEF RecvVia, BeginRecv, memory
<1>9. CASE SendChunk
  <2>1. PICK k \in 1..SendWant : Consume(k)
    BY <1>9 DEF SendChunk
  <2>2. k \in 0..length
    BY SendWantRange DEF TypeOK
  <2>3. QED
    BY <2>1, <2>2, ConsumeKeepsOrder
<1>10. CASE SendEnd \/ StealVia
  BY <1>10, SameUnreadKeepsOrder DEF SendEnd, StealVia, memory
<1>11. CASE Reset
  <2>1. length' = 0
    BY <1>11 DEF Reset
  <2>2. QED
    BY <2>1 DEF UnreadInOrder
<1>12. CASE UNCHANGED vars
  BY <1>12, SameUnreadKeepsOrder DEF vars
<1>13. QED
  BY <1>2, <1>3, <1>4, <1>5, <1>6, <1>7, <1>8, <1>9, <1>10, <1>11, <1>12,
     RecvFirstKeepsOrder, RecvRestKeepsOrder
  DEF Next

(* No byte that is still to be read is overwritten, repeated or reordered,  *)
(* for every capacity and whatever value the uninitialised recv_ret has.    *)
THEOREM UnreadStaysInOrder == Spec => []UnreadInOrder
<1>1. Init => UnreadInOrder
  BY DEF Init, UnreadInOrder
<1>2. TypeOK /\ UnreadInOrder /\ [Next]_vars => UnreadInOrder'
  BY NextKeepsOrder
<1>3. QED
  BY <1>1, <1>2, TypeCorrect, PTL DEF Spec

-----------------------------------------------------------------------------
(* The buffer implements a queue of bytes. *)

LEMMA UnreadType ==
    ASSUME TypeOK
    PROVE  Unread \in Seq(Nat) /\ Len(Unread) = length
<1>1. ASSUME NEW i \in 1..length PROVE cells[Wrap(offset + i - 1)] \in Nat
  BY UnreadCell DEF TypeOK
<1>2. length \in Nat
  BY DEF TypeOK
<1>3. QED
  BY <1>1, <1>2 DEF Unread

LEMMA CellsFrom ==
    ASSUME NEW c \in Cell, NEW i \in 1..Capacity
    PROVE  c + i - 1 \in 0..(2 * Capacity - 1)
  BY SizeAssumption DEF Cell

LEMMA UnreadTypeNext ==
    ASSUME TypeOK'
    PROVE  Unread' \in Seq(Nat) /\ Len(Unread') = length' /\ length' \in Nat
<1>1. /\ offset' \in Cell /\ length' \in 0..Capacity /\ cells' \in [Cell -> Nat]
      /\ length' \in Nat
  BY SizeAssumption DEF TypeOK
<1>2. ASSUME NEW i \in 1..length' PROVE cells'[Wrap(offset' + i - 1)] \in Nat
  <2>1. offset' + i - 1 \in 0..(2 * Capacity - 1)
    <3>1. i \in 1..Capacity
      BY <1>1, SizeAssumption
    <3>2. QED
      BY <1>1, <3>1, CellsFrom
  <2>2. Wrap(offset' + i - 1) \in Cell
    BY <2>1, WrapIsCell
  <2>3. QED
    BY <1>1, <2>2
<1>3. Unread' = [i \in 1..length' |-> cells'[Wrap(offset' + i - 1)]]
  BY DEF Unread, Wrap
<1>4. QED
  BY <1>1, <1>2, <1>3

(* The unread bytes with a block behind them are their concatenation. *)
LEMMA AppendsBlock ==
    ASSUME TypeOK, TypeOK', NEW block \in Seq(Nat), Appends(Len(block)),
           \A i \in 1..Len(block) : block[i] = fresh + i
    PROVE  Unread' = Unread \o block
<1> DEFINE k == Len(block)
           old == Unread
           new == Unread'
           both == Unread \o block
<1>1. /\ old \in Seq(Nat) /\ Len(old) = length /\ length \in Nat
      /\ new \in Seq(Nat) /\ Len(new) = length' /\ k \in Nat
  BY UnreadType, UnreadTypeNext DEF TypeOK
<1>2. /\ length' = length + k
      /\ \A i \in 1..length : new[i] = old[i]
      /\ \A i \in 1..k : new[length + i] = fresh + i
  BY DEF Appends
<1> HIDE DEF old, new
<1>3. /\ both \in Seq(Nat) /\ Len(both) = length + k
      /\ \A i \in 1..(length + k) :
            both[i] = IF i <= length THEN old[i] ELSE block[i - length]
  BY <1>1, ConcatProperties DEF old
<1> HIDE DEF both
<1>4. ASSUME NEW i \in 1..(length + k) PROVE new[i] = both[i]
  <2>1. CASE i <= length
    BY <1>1, <1>2, <1>3, <2>1
  <2>2. CASE ~(i <= length)
    <3>1. i - length \in 1..k /\ length + (i - length) = i
      BY <1>1, <2>2
    <3>2. new[i] = fresh + (i - length) /\ both[i] = block[i - length]
      BY <1>2, <1>3, <2>2, <3>1
    <3>3. QED
      BY <3>1, <3>2 DEF k
  <2>3. QED
    BY <2>1, <2>2
<1> HIDE DEF k
<1>5. new = both
  BY <1>1, <1>2, <1>3, <1>4, SeqEqual
<1>6. QED
  BY <1>5 DEF new, both

(* The next bytes of the stream. *)
LEMMA BlockType ==
    ASSUME NEW n \in Nat, fresh \in Nat
    PROVE  /\ Queue!Block(n) \in Seq(Nat) /\ Len(Queue!Block(n)) = n
           /\ \A i \in 1..n : Queue!Block(n)[i] = fresh + i
<1>1. \A i \in 1..n : fresh + i \in Nat
  OBVIOUS
<1>2. QED
  BY <1>1 DEF Queue!Block

(* A call that moves nothing is a look at no byte. *)
LEMMA NothingIsPeek ==
    ASSUME TypeOK, UNCHANGED memory, got' = << >>
    PROVE  Queue!Next
<1>1. Unread' = Unread /\ fresh' = fresh
  BY DEF memory, Unread
<1>2. SubSeq(Unread, 0 + 1, 0 + 0) = << >>
  BY SubSeqEmpty
<1>3. 0 \in 0..Len(Unread) /\ 0 \in 0..(Len(Unread) - 0)
  BY UnreadType DEF TypeOK
<1>4. Queue!Peek
  BY <1>1, <1>2, <1>3 DEF Queue!Peek
<1>5. QED
  BY <1>4 DEF Queue!Next

(* What a recv() brings. *)
LEMMA TakeIsReceive ==
    ASSUME TypeOK, TypeOK', NEW k \in Nat, Take(Wrap(End), k), got = << >>,
           length + k <= Capacity, Wrap(End) + k <= Capacity
    PROVE  [Queue!Next]_(Queue!vars)
<1>1. Appends(k) /\ fresh' = fresh + k /\ got' = << >> /\ got' = got
  BY TakeAppends DEF Take
<1>2. fresh \in Nat /\ length \in Nat
  BY DEF TypeOK
<1>3. /\ Queue!Block(k) \in Seq(Nat) /\ Len(Queue!Block(k)) = k
      /\ \A i \in 1..k : Queue!Block(k)[i] = fresh + i
  BY <1>2, BlockType
<1>4. Unread' = Unread \o Queue!Block(k)
  BY <1>1, <1>3, AppendsBlock
<1>5. CASE k = 0
  <2>1. Queue!Block(k) = << >>
    BY <1>5 DEF Queue!Block
  <2>2. Unread' = Unread
    BY <1>4, <2>1, UnreadType, ConcatEmptySeq
  <2>3. QED
    BY <1>1, <1>2, <1>5, <2>2 DEF Queue!vars
<1>6. CASE k # 0
  <2>1. k \in 1..(Capacity - Len(Unread))
    BY <1>2, <1>6, UnreadType, SizeAssumption
  <2>2. Queue!Receive
    BY <1>1, <1>4, <2>1 DEF Queue!Receive
  <2>3. QED
    BY <2>2 DEF Queue!Next
<1>7. QED
  BY <1>5, <1>6

(* A written block, of which the wrapped part is dropped. *)
LEMMA WriteBlockIsWrite ==
    ASSUME TypeOK, TypeOK', NEW n \in Nat, length + n <= Capacity, WriteBlock(n), got' = << >>
    PROVE  Queue!Next
<1> DEFINE n1 == FirstPart(Wrap(End), n)
           block == Queue!Block(n)
           kept == SubSeq(block, 1, n1)
<1>1. n1 \in 0..n /\ fresh' = fresh + n /\ Appends(n1)
  BY WriteParts, WriteBlockAppends DEF WriteBlock
<1>2. fresh \in Nat /\ length \in Nat
  BY DEF TypeOK
<1>3. /\ block \in Seq(Nat) /\ Len(block) = n
      /\ \A i \in 1..n : block[i] = fresh + i
  BY <1>2, BlockType
<1> HIDE DEF n1, block
<1>4. \A i \in 1..n1 : block[i] = fresh + i /\ block[i] \in Nat
  BY <1>1, <1>2, <1>3
<1>5. /\ kept \in Seq(Nat)
      /\ Len(kept) = IF 1 <= n1 THEN n1 - 1 + 1 ELSE 0
      /\ \A i \in 1..(n1 - 1 + 1) : kept[i] = block[1 + i - 1]
  BY <1>1, <1>4, SubSeqProperties
<1>6. /\ Len(kept) = n1
      /\ \A i \in 1..n1 : kept[i] = fresh + i
  BY <1>1, <1>4, <1>5
<1>7. Unread' = Unread \o kept
  <2> HIDE DEF kept
  <2>1. QED
    BY <1>1, <1>5, <1>6, AppendsBlock
<1>8. CASE n = 0
  <2>1. n1 = 0 /\ Len(kept) = 0
    BY <1>1, <1>6, <1>8
  <2>2. kept = << >>
    BY <1>5, <2>1, EmptySeq
  <2>3. Unread' = Unread /\ fresh' = fresh
    BY <1>1, <1>2, <1>7, <1>8, <2>2, UnreadType, ConcatEmptySeq
  <2>4. SubSeq(Unread, 0 + 1, 0 + 0) = << >>
    BY SubSeqEmpty
  <2>5. 0 \in 0..Len(Unread) /\ 0 \in 0..(Len(Unread) - 0)
    BY <1>2, UnreadType
  <2>6. Queue!Peek
    BY <2>3, <2>4, <2>5 DEF Queue!Peek
  <2>7. QED
    BY <2>6 DEF Queue!Next
<1>9. CASE n # 0
  <2>1. n \in 1..(Capacity - Len(Unread))
    BY <1>2, <1>9, UnreadType, SizeAssumption
  <2>2. Queue!Write
    BY <1>1, <1>7, <2>1 DEF Queue!Write, block
  <2>3. QED
    BY <2>2 DEF Queue!Next
<1>10. QED
  BY <1>8, <1>9

(* The cells from a position on, wrapped once. *)
LEMMA WrapOn ==
    ASSUME NEW p \in Nat, NEW m \in Nat, p + m < 2 * Capacity
    PROVE  Wrap(p + m) = IF Wrap(p) + m < Capacity THEN Wrap(p) + m
                                                   ELSE Wrap(p) + m - Capacity
<1>1. p \in 0..(2 * Capacity - 1) /\ p + m \in 0..(2 * Capacity - 1)
  BY SizeAssumption
<1>2. QED
  BY <1>1, WrapValue, SizeAssumption

LEMMA EmptySpan ==
    ASSUME NEW at \in Cell
    PROVE  Span(at, 0) = << >>
<1>1. FirstPart(at, 0) = 0
  BY SizeAssumption DEF FirstPart, Cell
<1>2. \A x : Copied(x, 0) = << >>
  BY DEF Copied
<1>3. << >> \o << >> = << >>
  BY ConcatEmptySeq, EmptySeq
<1>4. QED
  BY <1>1, <1>2, <1>3 DEF Span

(* The cells from that of an unread byte on hold the unread bytes from it on. *)
LEMMA SpanIsUnread ==
    ASSUME TypeOK, NEW from \in Nat, NEW n \in Nat, from + n <= length
    PROVE  Span(Wrap(offset + from), n) = SubSeq(Unread, from + 1, from + n)
<1> DEFINE at == Wrap(offset + from)
           n1 == FirstPart(at, n)
           second == Wrap(at + n1)
           one == Copied(at, n1)
           two == Copied(second, n - n1)
           part == SubSeq(Unread, from + 1, from + n)
<1>1. /\ offset \in Nat /\ offset < Capacity /\ length \in Nat /\ length <= Capacity
      /\ offset + from < 2 * Capacity /\ offset + from \in 0..(2 * Capacity - 1)
  BY SizeAssumption DEF TypeOK, Cell
<1>2. at \in Cell /\ at \in Nat /\ at < Capacity /\ Capacity \in Nat
  BY <1>1, WrapIsCell, SizeAssumption DEF Cell
<1>3. ASSUME NEW i \in 1..n
      PROVE  Unread[from + i] = cells[IF at + i - 1 < Capacity THEN at + i - 1
                                                               ELSE at + i - 1 - Capacity]
  <2>1. from + i \in 1..length /\ i - 1 \in Nat /\ (offset + from) + (i - 1) < 2 * Capacity
    BY <1>1, <1>2
  <2>2. Wrap((offset + from) + (i - 1))
          = IF at + (i - 1) < Capacity THEN at + (i - 1) ELSE at + (i - 1) - Capacity
    BY <1>1, <2>1, WrapOn
  <2>3. (offset + from) + (i - 1) = offset + (from + i) - 1
    BY <1>1
  <2>4. Unread[from + i] = cells[Wrap((offset + from) + (i - 1))]
    BY <2>1, <2>3 DEF Unread
  <2>5. at + (i - 1) = at + i - 1
    BY <1>2
  <2>6. QED
    BY <2>2, <2>4, <2>5
<1>4. n1 \in 0..n /\ at + n1 <= Capacity /\ (n1 # n => at + n1 = Capacity)
  BY <1>1, <1>2, SizeAssumption DEF FirstPart
<1>5. n1 # n => second = 0
  <2>1. SUFFICES ASSUME n1 # n PROVE second = 0
    OBVIOUS
  <2>2. Capacity \in Capacity..(2 * Capacity - 1)
    BY SizeAssumption
  <2>3. Wrap(Capacity) = 0
    BY <2>2, WrapHigh, SizeAssumption
  <2>4. QED
    BY <1>4, <2>1, <2>3
<1> HIDE DEF at, n1, second
<1>6. \A i \in 1..n : cells[IF at + i - 1 < Capacity THEN at + i - 1
                                                     ELSE at + i - 1 - Capacity] \in Nat
  <2> TAKE i \in 1..n
  <2>1. from + i \in 1..length
    BY <1>1
  <2>2. QED
    BY <1>3, <2>1, UnreadType
<1>7. /\ one \in Seq(Nat) /\ Len(one) = n1
      /\ \A i \in 1..n1 : one[i] = cells[at + i - 1]
  <2>1. \A i \in 1..n1 : i \in 1..n /\ at + i - 1 < Capacity
    BY <1>2, <1>4
  <2>2. \A i \in 1..n1 : cells[at + i - 1] \in Nat
    BY <1>6, <2>1
  <2>3. QED
    BY <1>4, <2>2 DEF Copied
<1>8. /\ two \in Seq(Nat) /\ Len(two) = n - n1
      /\ \A i \in 1..(n - n1) : two[i] = cells[at + (n1 + i) - 1 - Capacity]
  <2>1. CASE n1 = n
    <3>1. n - n1 = 0
      BY <2>1
    <3>2. two = << >>
      BY <3>1 DEF Copied
    <3>3. << >> \in Seq(Nat) /\ Len(<< >>) = 0 /\ 1..(n - n1) = {}
      BY <3>1
    <3> HIDE DEF two
    <3>4. QED
      BY <3>1, <3>2, <3>3
  <2>2. CASE n1 # n
    <3>1. n - n1 \in Nat /\ second = 0 /\ at + n1 = Capacity
      BY <1>4, <1>5, <2>2
    <3>2. \A i \in 1..(n - n1) :
             /\ second + i - 1 = at + (n1 + i) - 1 - Capacity
             /\ n1 + i \in 1..n
             /\ ~(at + (n1 + i) - 1 < Capacity)
      BY <1>2, <1>4, <3>1
    <3>3. \A i \in 1..(n - n1) : cells[second + i - 1] \in Nat
      BY <1>6, <3>2
    <3>4. QED
      BY <3>1, <3>2, <3>3 DEF Copied
  <2>3. QED
    BY <2>1, <2>2
<1> HIDE DEF one, two
<1>9. /\ one \o two \in Seq(Nat) /\ Len(one \o two) = n
      /\ \A i \in 1..n : (one \o two)[i] = IF i <= n1 THEN one[i] ELSE two[i - n1]
  <2>1. n1 + (n - n1) = n
    BY <1>4
  <2>2. /\ one \o two \in Seq(Nat)
        /\ Len(one \o two) = Len(one) + Len(two)
        /\ \A i \in 1..(Len(one) + Len(two)) :
              (one \o two)[i] = IF i <= Len(one) THEN one[i] ELSE two[i - Len(one)]
    BY <1>7, <1>8, ConcatProperties
  <2>3. Len(one) = n1 /\ Len(one) + Len(two) = n
    BY <1>7, <1>8, <2>1
  <2>4. QED
    BY <2>2, <2>3
<1>10. /\ part \in Seq(Nat) /\ Len(part) = n
       /\ \A i \in 1..n : part[i] = Unread[from + i]
  <2>1. \A i \in (from + 1)..(from + n) : Unread[i] \in Nat
    BY UnreadType
  <2>2. from + 1 \in Int /\ from + n \in Int /\ from + n - (from + 1) + 1 = n
    OBVIOUS
  <2>3. /\ part \in Seq(Nat)
        /\ Len(part) = IF from + 1 <= from + n THEN from + n - (from + 1) + 1 ELSE 0
        /\ \A i \in 1..(from + n - (from + 1) + 1) : part[i] = Unread[from + 1 + i - 1]
    BY <2>1, SubSeqProperties
  <2>4. \A i \in 1..n : from + 1 + i - 1 = from + i
    OBVIOUS
  <2>5. QED
    BY <2>2, <2>3, <2>4
<1>11. ASSUME NEW i \in 1..n PROVE (one \o two)[i] = part[i]
  <2>1. CASE i <= n1
    <3>1. i \in 1..n1 /\ at + i - 1 < Capacity
      BY <1>2, <1>4, <2>1
    <3>2. QED
      BY <1>3, <1>7, <1>9, <1>10, <2>1, <3>1
  <2>2. CASE ~(i <= n1)
    <3>1. i - n1 \in 1..(n - n1) /\ n1 + (i - n1) = i /\ ~(at + i - 1 < Capacity)
      BY <1>2, <1>4, <2>2
    <3>2. two[i - n1] = cells[at + i - 1 - Capacity]
      BY <1>8, <3>1
    <3>3. QED
      BY <1>3, <1>9, <1>10, <2>2, <3>1, <3>2
  <2>3. QED
    BY <2>1, <2>2
<1> HIDE DEF part
<1>12. one \o two = part
  BY <1>9, <1>10, <1>11, SeqEqual
<1>13. QED
  BY <1>12 DEF Span, one, two, part, at, n1, second

(* A send() takes bytes that do not wrap. *)
LEMMA CopiedIsUnread ==
    ASSUME TypeOK, NEW k \in 1..length, offset + k <= Capacity
    PROVE  Copied(offset, k) = SubSeq(Unread, 1, k)
<1>1. offset \in Cell /\ offset \in Nat /\ offset + 0 = offset /\ k \in Nat /\ 0 + k <= length
  BY SizeAssumption DEF TypeOK, Cell
<1>2. Wrap(offset) = offset
  BY <1>1, WrapLow DEF Cell
<1>3. Span(offset, k) = SubSeq(Unread, 1, k)
  <2>1. Span(Wrap(offset + 0), k) = SubSeq(Unread, 0 + 1, 0 + k)
    BY <1>1, SpanIsUnread
  <2>2. 0 + 1 = 1 /\ 0 + k = k
    BY <1>1
  <2>3. QED
    BY <1>1, <1>2, <2>1, <2>2
<1>4. FirstPart(offset, k) = k /\ k - k = 0
  BY <1>1, SizeAssumption DEF FirstPart
<1>5. \A x : Copied(x, 0) = << >>
  BY DEF Copied
<1>6. Copied(offset, k) \in Seq(Nat)
  BY <1>1, CopiedType DEF TypeOK
<1>7. Span(offset, k) = Copied(offset, k)
  BY <1>4, <1>5, <1>6, ConcatEmptySeq DEF Span
<1>8. QED
  BY <1>3, <1>7

(* Bytes that leave the buffer are the first of the queue. *)
LEMMA ConsumeIsDeliver ==
    ASSUME TypeOK, TypeOK', NEW n \in 0..length, Consume(n),
           got' \in {SubSeq(Unread, 1, n), << >>}
    PROVE  Queue!Next
<1> DEFINE rest == SubSeq(Unread, n + 1, length)
           new == Unread'
<1>1. /\ Unread \in Seq(Nat) /\ Len(Unread) = length /\ length \in Nat
      /\ new \in Seq(Nat) /\ Len(new) = length'
  BY UnreadType, UnreadTypeNext DEF TypeOK
<1>2. length' = length - n /\ fresh' = fresh
  BY DEF Consume
<1>3. \A i \in 1..length' : new[i] = Unread[n + i]
  BY ConsumeShifts
<1>4. /\ rest \in Seq(Nat) /\ Len(rest) = length - n
      /\ \A i \in 1..(length - n) : rest[i] = Unread[n + i]
  <2>1. \A i \in (n + 1)..length : Unread[i] \in Nat
    BY <1>1
  <2>2. /\ rest \in Seq(Nat)
        /\ Len(rest) = IF n + 1 <= length THEN length - (n + 1) + 1 ELSE 0
        /\ \A i \in 1..(length - (n + 1) + 1) : rest[i] = Unread[n + 1 + i - 1]
    <3>1. n + 1 \in Int /\ length \in Int
      BY <1>1
    <3>2. QED
      BY <2>1, <3>1, SubSeqProperties
  <2>3. length - (n + 1) + 1 = length - n /\ (n + 1 <= length <=> length - n # 0)
    BY <1>1
  <2>4. \A i \in 1..(length - n) : n + 1 + i - 1 = n + i
    BY <1>1
  <2>5. Len(rest) = length - n
    BY <2>2, <2>3
  <2>6. \A i \in 1..(length - n) : rest[i] = Unread[n + i]
    BY <2>2, <2>3, <2>4
  <2>7. QED
    BY <2>2, <2>5, <2>6
<1> HIDE DEF rest, new
<1>5. new = rest
  BY <1>1, <1>2, <1>3, <1>4, SeqEqual
<1>6. Queue!Deliver
  BY <1>1, <1>2, <1>5 DEF Queue!Deliver, new, rest
<1>7. QED
  BY <1>6 DEF Queue!Next

(* Bytes that are looked at stay. *)
LEMMA SpanIsPeek ==
    ASSUME TypeOK, NEW from \in Nat, NEW n \in Nat, from + n <= length,
           got' = Span(Wrap(offset + from), n), UNCHANGED memory
    PROVE  Queue!Next
<1>1. Unread' = Unread /\ fresh' = fresh
  BY DEF memory, Unread
<1>2. got' = SubSeq(Unread, from + 1, from + n)
  BY SpanIsUnread
<1>3. from \in 0..Len(Unread) /\ n \in 0..(Len(Unread) - from)
  BY UnreadType DEF TypeOK
<1>4. Queue!Peek
  BY <1>1, <1>2, <1>3 DEF Queue!Peek
<1>5. QED
  BY <1>4 DEF Queue!Next

(* A recv hands out nothing. *)
RecvGivesNothing == call \in {"recvFirst", "recvRest"} => got = << >>

LEMMA RecvGivesNothingNext == RecvGivesNothing /\ [Next]_vars => RecvGivesNothing'
<1> SUFFICES ASSUME RecvGivesNothing, [Next]_vars PROVE RecvGivesNothing'
  OBVIOUS
<1>1. CASE call \in {"recvFirst", "recvRest"} /\ UNCHANGED got
  BY <1>1 DEF RecvGivesNothing
<1>2. CASE got' = << >>
  BY <1>2 DEF RecvGivesNothing
<1>3. CASE call' \in {"idle", "send", "steal"}
  BY <1>3 DEF RecvGivesNothing
<1>4. CASE RecvFirst \/ RecvRest
  BY <1>1, <1>4 DEF RecvFirst, RecvRest, RecvSkipped, RecvToBlockEnd, RecvNoFirstPart, Take
<1>5. CASE SendChunk \/ SendEnd \/ StealVia \/ Reset
  BY <1>3, <1>5 DEF SendChunk, SendEnd, StealVia, Reset, ReturnSize, ReturnIo, ReturnWith
<1>6. ASSUME NEW n, Recv(n) \/ Send(n) \/ Write(n) \/ WriteFixed(n) \/ SendVia(n)
      PROVE  RecvGivesNothing'
  BY <1>2, <1>6 DEF Recv, BeginRecv, Send, Write, WriteFixed, SendVia
<1>7. ASSUME NEW n, NEW dest, Read(n, dest) \/ ReadFixed(n, dest) PROVE RecvGivesNothing'
  BY <1>3, <1>7 DEF Read, ReadFixed, ReturnSize, ReturnWith
<1>8. ASSUME NEW from, NEW n, Steal(from, n) \/ StealFixed(from, n) PROVE RecvGivesNothing'
  BY <1>3, <1>8 DEF Steal, StealFixed, ReturnSize, ReturnWith
<1>9. ASSUME NEW request, RecvVia(request) PROVE RecvGivesNothing'
  BY <1>2, <1>9 DEF RecvVia, BeginRecv
<1>10. CASE UNCHANGED vars
  BY <1>10 DEF vars, RecvGivesNothing
<1>11. QED
  BY <1>4, <1>5, <1>6, <1>7, <1>8, <1>9, <1>10 DEF Next

LEMMA InitIsQueueInit == Init => Queue!Init
  BY DEF Init, Queue!Init, Unread

(* The calls, one by one. *)
LEMMA RoomInBlock ==
    ASSUME NEW o \in Cell, NEW w \in Cell, NEW k \in Int, w + k <= o
    PROVE  w + k <= Capacity
BY SizeAssumption DEF Cell

LEMMA RecvIsReceive ==
    ASSUME TypeOK, TypeOK', RecvGivesNothing, RecvFirst \/ RecvRest
    PROVE  [Queue!Next]_(Queue!vars)
<1>1. got = << >>
  BY DEF RecvGivesNothing, RecvFirst, RecvRest
<1>2. CASE UNCHANGED <<memory, got>>
  BY <1>1, <1>2, NothingIsPeek
<1>3. CASE RecvFirst /\ RecvToBlockEnd
  <2>1. PICK k \in 0..MIN(Capacity - End, left) : Take(End, k)
    BY <1>3 DEF RecvToBlockEnd
  <2>2. End \in Cell /\ k \in Nat /\ End + k <= Capacity /\ length + k <= Capacity
    BY <1>3, BlockEndIsFree DEF RecvToBlockEnd
  <2>3. Wrap(End) = End
    BY <2>2, WrapLow DEF Cell
  <2>4. QED
    BY <1>1, <2>1, <2>2, <2>3, TakeIsReceive
<1>4. CASE /\ left # 0
           /\ Wrap(End) < offset
           /\ \E k \in 0..RecvRoom : Take(Wrap(End), k)
  <2>1. PICK k \in 0..RecvRoom : Take(Wrap(End), k)
    BY <1>4
  <2>2. length + k <= Capacity /\ Wrap(End) + k <= offset
    BY <1>4, RoomIsFree
  <2>3. k \in Nat /\ Wrap(End) + k <= Capacity
    <3>1. Wrap(End) \in Cell
      BY EndRange, WrapIsCell
    <3>2. offset \in Cell
      BY DEF TypeOK
    <3>3. k \in Nat /\ k \in Int
      OBVIOUS
    <3>4. QED
      BY <2>2, <3>1, <3>2, <3>3, RoomInBlock
  <2>4. QED
    BY <1>1, <2>1, <2>2, <2>3, TakeIsReceive
<1>5. QED
  BY <1>2, <1>3, <1>4 DEF RecvFirst, RecvRest, RecvSkipped, RecvNoFirstPart

LEMMA ReadFixedIsDeliver ==
    ASSUME TypeOK, TypeOK', NEW n \in Nat, NEW dest \in BOOLEAN, ReadFixed(n, dest)
    PROVE  Queue!Next
<1>1. CASE got' = << >> /\ UNCHANGED memory
  BY <1>1, NothingIsPeek
<1>2. CASE /\ length >= n
           /\ got' = IF dest THEN Span(offset, n) ELSE << >>
           /\ Consume(n)
  <2>1. /\ n \in 0..length /\ 0 + n <= length /\ offset + 0 = offset
        /\ offset \in 0..(Capacity - 1)
    BY <1>2, SizeAssumption DEF TypeOK, Cell
  <2>2. Span(offset, n) = SubSeq(Unread, 1, n)
    <3>1. Wrap(offset) = offset /\ 0 + 1 = 1 /\ 0 + n = n
      BY <2>1, WrapLow
    <3>2. Span(Wrap(offset + 0), n) = SubSeq(Unread, 0 + 1, 0 + n)
      BY <2>1, SpanIsUnread
    <3>3. QED
      BY <2>1, <3>1, <3>2
  <2>3. QED
    BY <1>2, <2>1, <2>2, ConsumeIsDeliver
<1>3. QED
  BY <1>1, <1>2 DEF ReadFixed

LEMMA StealFixedIsPeek ==
    ASSUME TypeOK, NEW from \in Nat, NEW n \in Nat, StealFixed(from, n)
    PROVE  Queue!Next
<1>1. CASE got' = << >>
  BY <1>1, NothingIsPeek DEF StealFixed
<1>2. CASE length >= from + n /\ got' = Span(Wrap(offset + from), n)
  <2>1. from + n <= length
    BY <1>2 DEF TypeOK
  <2>2. QED
    BY <1>2, <2>1, SpanIsPeek DEF StealFixed
<1>3. QED
  BY <1>1, <1>2 DEF StealFixed

LEMMA WriteFixedIsWrite ==
    ASSUME TypeOK, TypeOK', NEW n \in Nat, WriteFixed(n) \/ SendVia(n)
    PROVE  Queue!Next
<1>1. got' = << >>
  BY DEF WriteFixed, SendVia
<1>2. CASE UNCHANGED memory
  BY <1>1, <1>2, NothingIsPeek
<1>3. CASE length + n <= Capacity /\ WriteBlock(n)
  BY <1>1, <1>3, WriteBlockIsWrite
<1>4. QED
  BY <1>2, <1>3 DEF WriteFixed, SendVia

LEMMA StealViaIsPeek ==
    ASSUME TypeOK, StealVia
    PROVE  Queue!Next
<1>1. UNCHANGED memory
  BY DEF StealVia
<1>2. via.offset \in Nat /\ via.size \in Nat /\ length \in Nat
  BY SizeAssumption DEF TypeOK, Request, Size
<1>3. CASE got' = << >>
  BY <1>1, <1>3, NothingIsPeek
<1>4. CASE length < via.offset /\ via.dest
  <2>1. Stolen(via) = 0
    BY <1>4 DEF Stolen
  <2>2. offset + via.offset \in Nat
    BY <1>2, SizeAssumption DEF TypeOK, Cell
  <2>3. Wrap(offset + via.offset) \in Cell
    BY <2>2, SizeAssumption, SMT DEF Wrap, Cell
  <2>4. QED
    BY <1>3, <1>4, <2>1, <2>3, EmptySpan DEF StealVia
<1>5. CASE ~(length < via.offset) /\ via.dest
  <2>1. Stolen(via) \in Nat /\ via.offset + Stolen(via) <= length
    BY <1>2, <1>5 DEF Stolen, MIN
  <2>2. got' = Span(Wrap(offset + via.offset), Stolen(via))
    BY <1>5 DEF StealVia
  <2>3. QED
    BY <1>1, <1>2, <2>1, <2>2, SpanIsPeek
<1>6. QED
  BY <1>3, <1>4, <1>5 DEF StealVia

LEMMA NextIsQueueNext ==
    ASSUME TypeOK, TypeOK', RecvGivesNothing, [Next]_vars
    PROVE  [Queue!Next]_(Queue!vars)
<1>1. Size \subseteq Nat
  BY SizeAssumption DEF Size
<1>2. ASSUME NEW n \in Size, Recv(n) \/ Send(n) PROVE Queue!Next
  BY <1>2, NothingIsPeek DEF Recv, BeginRecv, Send
<1>3. ASSUME NEW n \in Size, Write(n) PROVE Queue!Next
  <2>1. MIN(Capacity - length, n) \in Nat
    BY <1>1, SizeAssumption DEF MIN, TypeOK
  <2>2. QED
    BY <1>3, <2>1, WriteFixedIsWrite DEF Write
<1>4. ASSUME NEW n \in Size, WriteFixed(n) \/ SendVia(n) PROVE Queue!Next
  BY <1>1, <1>4, WriteFixedIsWrite
<1>5. ASSUME NEW n \in Size, NEW dest \in BOOLEAN, Read(n, dest) PROVE Queue!Next
  <2>1. MIN(length, n) \in Nat
    BY <1>1, SizeAssumption DEF MIN, TypeOK
  <2>2. QED
    BY <1>5, <2>1, ReadFixedIsDeliver DEF Read
<1>6. ASSUME NEW n \in Size, NEW dest \in BOOLEAN, ReadFixed(n, dest) PROVE Queue!Next
  BY <1>1, <1>6, ReadFixedIsDeliver
<1>7. ASSUME NEW from \in Size, NEW n \in Size, Steal(from, n) PROVE Queue!Next
  <2>1. CASE got' = << >> /\ UNCHANGED memory
    BY <2>1, NothingIsPeek
  <2>2. CASE length >= from /\ StealFixed(from, MIN(length - from, n))
    <3>1. from \in Nat /\ MIN(length - from, n) \in Nat
      BY <1>1, <2>2 DEF MIN, TypeOK
    <3>2. QED
      BY <2>2, <3>1, StealFixedIsPeek
  <2>3. QED
    BY <1>7, <2>1, <2>2 DEF Steal
<1>8. ASSUME NEW from \in Size, NEW n \in Size, StealFixed(from, n) PROVE Queue!Next
  BY <1>1, <1>8, StealFixedIsPeek
<1>9. ASSUME NEW request \in Request, RecvVia(request) PROVE Queue!Next
  BY <1>9, NothingIsPeek DEF RecvVia, BeginRecv
<1>10. CASE SendChunk
  <2>1. PICK k \in 1..SendWant : got' = Copied(offset, k) /\ Consume(k)
    BY <1>10 DEF SendChunk
  <2>2. k \in 1..length /\ k \in 0..length /\ offset + k <= Capacity
    BY SendWantRange DEF TypeOK
  <2>3. QED
    BY <2>1, <2>2, CopiedIsUnread, ConsumeIsDeliver
<1>11. CASE SendEnd
  BY <1>11, NothingIsPeek DEF SendEnd
<1>12. CASE Reset
  <2>1. length' = 0 /\ got' = << >> /\ fresh' = fresh
    BY <1>12 DEF Reset
  <2>2. Unread' = << >>
    BY <2>1 DEF Unread
  <2>3. QED
    BY <2>1, <2>2 DEF Queue!Next, Queue!Clear
<1>13. CASE UNCHANGED vars
  BY <1>13 DEF vars, Queue!vars, Unread
<1>14. QED
  BY <1>2, <1>3, <1>4, <1>5, <1>6, <1>7, <1>8, <1>9, <1>10, <1>11, <1>12, <1>13,
     RecvIsReceive, StealViaIsPeek
  DEF Next

(* However the sizes, the calls and the kernel cut the stream, and wherever  *)
(* the block wraps: the buffer is a queue of bytes, of which none overtakes  *)
(* another, is handed out twice or gets lost, but for the end of a written   *)
(* block that wraps.                                                         *)
THEOREM IsAByteQueue == Spec => ImplementsQueue
<1>1. Init => RecvGivesNothing
  BY DEF Init, RecvGivesNothing
<1>2. TypeOK /\ TypeOK' /\ RecvGivesNothing /\ [Next]_vars => [Queue!Next]_(Queue!vars)
  BY NextIsQueueNext
<1>3. QED
  BY InitIsQueueInit, TypeCorrect, RecvGivesNothingNext, <1>1, <1>2, PTL
  DEF Spec, ImplementsQueue, Queue!Spec

-----------------------------------------------------------------------------
(* What ss_recv_via_buffer's OK means. *)

(* No request is left from an earlier call, and no result while one runs. *)
CallsAreApart ==
    /\ call = "idle" => via = NoRequest
    /\ call # "idle" => io = "none"

LEMMA ReturnIsApart ==
    ASSUME NEW n, NEW err, ReturnWith(n, err)
    PROVE  CallsAreApart'
  BY DEF ReturnWith, CallsAreApart

LEMMA EndRecvIsApart ==
    ASSUME NEW total, EndRecv(total), io = "none"
    PROVE  CallsAreApart'
  BY ReturnIsApart DEF EndRecv, ReturnSize, ReturnIo, CallsAreApart

LEMMA CallsAreApartNext == CallsAreApart /\ [Next]_vars => CallsAreApart'
<1> SUFFICES ASSUME CallsAreApart, [Next]_vars PROVE CallsAreApart'
  OBVIOUS
<1>1. CASE RecvFirst
  <2>1. io = "none"
    BY <1>1 DEF RecvFirst, CallsAreApart
  <2>2. CASE \E total : EndRecv(total)
    BY <2>1, <2>2, EndRecvIsApart
  <2>3. CASE call' = "recvRest" /\ io' = io
    BY <2>1, <2>3 DEF CallsAreApart
  <2>4. QED
    BY <1>1, <2>2, <2>3 DEF RecvFirst, RecvSkipped, RecvToBlockEnd, RecvNoFirstPart
<1>2. CASE RecvRest
  <2>1. io = "none"
    BY <1>2 DEF RecvRest, CallsAreApart
  <2>2. QED
    BY <1>2, <2>1, EndRecvIsApart DEF RecvRest
<1>3. CASE SendChunk
  BY <1>3 DEF SendChunk, CallsAreApart
<1>4. CASE SendEnd \/ StealVia \/ Reset
  BY <1>4, ReturnIsApart DEF SendEnd, StealVia, Reset, ReturnSize, ReturnIo
<1>5. ASSUME NEW n, Recv(n) \/ Send(n) PROVE CallsAreApart'
  BY <1>5 DEF Recv, Send, BeginRecv, CallsAreApart
<1>6. ASSUME NEW n, Write(n) \/ WriteFixed(n) \/ SendVia(n) PROVE CallsAreApart'
  BY <1>6, ReturnIsApart DEF Write, WriteFixed, SendVia, ReturnSize, ReturnIo
<1>7. ASSUME NEW n, NEW dest, Read(n, dest) \/ ReadFixed(n, dest) PROVE CallsAreApart'
  BY <1>7, ReturnIsApart DEF Read, ReadFixed, ReturnSize
<1>8. ASSUME NEW from, NEW n, Steal(from, n) \/ StealFixed(from, n) PROVE CallsAreApart'
  BY <1>8, ReturnIsApart DEF Steal, StealFixed, ReturnSize
<1>9. ASSUME NEW request, RecvVia(request) PROVE CallsAreApart'
  BY <1>9, ReturnIsApart DEF RecvVia, BeginRecv, ReturnIo, CallsAreApart
<1>10. CASE UNCHANGED vars
  BY <1>10 DEF vars, CallsAreApart
<1>11. QED
  BY <1>1, <1>2, <1>3, <1>4, <1>5, <1>6, <1>7, <1>8, <1>9, <1>10 DEF Next

(* Only the last step of ss_recv_via_buffer says OK to a request. *)
LEMMA OkIsOfSteal ==
    ASSUME CallsAreApart, Next, io' = "OK", via.dest
    PROVE  StealVia
<1>1. call # "idle" /\ io = "none"
  BY DEF CallsAreApart, NoRequest
<1>2. CASE RecvFirst
  BY <1>1, <1>2 DEF RecvFirst, RecvSkipped, RecvToBlockEnd, RecvNoFirstPart, EndRecv,
     ReturnSize, ReturnIo, ReturnWith
<1>3. CASE RecvRest
  BY <1>1, <1>3 DEF RecvRest, EndRecv, ReturnSize, ReturnIo, ReturnWith
<1>4. CASE SendChunk \/ SendEnd
  BY <1>1, <1>4 DEF SendChunk, SendEnd, ReturnSize, ReturnWith
<1>5. QED
  BY <1>1, <1>2, <1>3, <1>4
  DEF Next, Recv, Send, Write, WriteFixed, SendVia, Read, ReadFixed, Steal, StealFixed,
      RecvVia, Reset, ReturnSize, ReturnWith

(* An OK of ss_recv_via_buffer to a caller with a dest means that the whole  *)
(* of what was asked for is there, in order, whether it was received in this *)
(* call or an earlier one, and wherever it wraps.                            *)
THEOREM OkIsTheWholeRequest == Spec => OkIsComplete
<1> DEFINE A == io' = "OK" /\ via.dest =>
                  /\ via.size > 0 => via.offset + via.size <= length
                  /\ got' = SubSeq(Unread, via.offset + 1, via.offset + via.size)
<1>1. Init => CallsAreApart
  BY DEF Init, CallsAreApart
<1>2. TypeOK /\ CallsAreApart /\ [Next]_vars => [A]_vars
  <2> SUFFICES ASSUME TypeOK, CallsAreApart, Next, io' = "OK", via.dest
               PROVE  /\ via.size > 0 => via.offset + via.size <= length
                      /\ got' = SubSeq(Unread, via.offset + 1, via.offset + via.size)
    OBVIOUS
  <2>1. StealVia
    BY OkIsOfSteal
  <2>2. /\ got' = Span(Wrap(offset + via.offset), Stolen(via))
        /\ Stolen(via) = via.size
    BY <2>1 DEF StealVia, ReturnIo, ReturnWith
  <2>3. via.offset \in Nat /\ via.size \in Nat /\ length \in Nat
    BY SizeAssumption DEF TypeOK, Request, Size
  <2>4. CASE length < via.offset
    <3>1. via.size = 0
      BY <2>2, <2>4 DEF Stolen
    <3>2. offset + via.offset \in Nat
      BY <2>3, SizeAssumption DEF TypeOK, Cell
    <3>3. Wrap(offset + via.offset) \in Cell
      BY <3>2, SizeAssumption, SMT DEF Wrap, Cell
    <3>4. got' = << >>
      BY <2>2, <3>1, <3>3, EmptySpan
    <3>5. SubSeq(Unread, via.offset + 1, via.offset + via.size) = << >>
      BY <2>3, <3>1, SubSeqEmpty
    <3>6. ~(via.size > 0)
      BY <3>1
    <3>7. got' = SubSeq(Unread, via.offset + 1, via.offset + via.size)
      BY <3>4, <3>5, Zenon
    <3>8. QED
      BY <3>6, <3>7
  <2>5. CASE ~(length < via.offset)
    <3>1. via.offset + via.size <= length
      BY <2>2, <2>3, <2>5 DEF Stolen, MIN
    <3>2. QED
      BY <2>2, <2>3, <3>1, SpanIsUnread
  <2>6. QED
    BY <2>4, <2>5
<1>3. QED
  BY TypeCorrect, CallsAreApartNext, <1>1, <1>2, PTL DEF Spec, OkIsComplete
=============================================================================
