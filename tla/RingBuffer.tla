----------------------------- MODULE RingBuffer -----------------------------
(***************************************************************************)
(* The byte buffer that stands between every socket and its handlers,      *)
(* util/ss_ring_buffer.c.  A buffer is a block of Capacity cells; the      *)
(* unread bytes are the length cells that follow offset, wrapping at the   *)
(* end of the block.                                                       *)
(*                                                                         *)
(* A byte is represented by its position in the stream offered to the      *)
(* buffer: 1 is the first byte ever received or written, 2 the next, and 0 *)
(* a cell that malloc left uninitialised.  The library calls that make     *)
(* several system calls (ss_ring_buffer_recv, ss_ring_buffer_send and      *)
(* ss_recv_via_buffer) take one step for each of them.                     *)
(***************************************************************************)
EXTENDS Integers, Sequences

CONSTANTS
    Capacity,    \* buffer->capacity
    ChunkSize,   \* CHUNK_SIZE, the most one send() is given
    MaxBytes     \* bound: bytes ever offered to the buffer

ASSUME SizeAssumption ==
    /\ Capacity \in Nat \ {0}
    /\ ChunkSize \in Nat \ {0}
    /\ MaxBytes \in Nat

VARIABLES
    cells,    \* buffer->buffer
    offset,   \* buffer->offset
    length,   \* buffer->length
    fresh,    \* how many bytes have been offered to the buffer
    call,     \* the call under way, and how far it is
    left,     \* total_nbytes_to_read, total_nbytes_to_write of that call
    start,    \* init_lenght, init_length of that call
    via,      \* the arguments of the ss_recv_via_buffer under way
    got,      \* the bytes the last step copied out of the buffer
    ret,      \* the number of bytes the last call returned
    io        \* the ss_io_err_t the last *_via_buffer call returned

memory == <<cells, offset, length, fresh>>
vars == <<cells, offset, length, fresh, call, left, start, via, got, ret, io>>

Cell == 0..(Capacity - 1)
Size == 0..(Capacity + 1)    \* the size arguments of the callers
Request == [offset : Size, size : Size, dest : BOOLEAN]
NoRequest == [offset |-> 0, size |-> 0, dest |-> FALSE]

MIN(x, y) == IF x < y THEN x ELSE y

-----------------------------------------------------------------------------
(* The memory. *)

End == offset + length

Wrap(i) == i % Capacity

(* A memcpy or recv of the next n bytes into the cells from index at on. *)
Filled(at, n) ==
    [c \in Cell |-> IF c \in at..(at + n - 1) THEN fresh + 1 + (c - at) ELSE cells[c]]

(* A memcpy or send of n bytes from the cells from index at on. *)
Copied(at, n) == [i \in 1..n |-> cells[at + i - 1]]

(* Where n bytes from index at on reach the end of the block. *)
FirstPart(at, n) == IF at + n > Capacity THEN Capacity - at ELSE n

(* n bytes from index at on, copied in two parts if they wrap. *)
Span(at, n) ==
    LET n1 == FirstPart(at, n)
    IN  Copied(at, n1) \o Copied(Wrap(at + n1), n - n1)

(* The unread bytes, oldest first. *)
Unread == [i \in 1..length |-> cells[Wrap(offset + i - 1)]]

-----------------------------------------------------------------------------
Init ==
    /\ cells = [c \in Cell |-> 0]
    /\ offset = 0
    /\ length = 0
    /\ fresh = 0
    /\ call = "idle"
    /\ left = 0
    /\ start = 0
    /\ via = NoRequest
    /\ got = << >>
    /\ ret = 0
    /\ io = "none"

(* A call that returns n bytes, or an ss_io_err_t, and leaves no call under way. *)
ReturnWith(n, err) ==
    /\ call' = "idle"
    /\ left' = 0
    /\ start' = 0
    /\ via' = NoRequest
    /\ ret' = n
    /\ io' = err

ReturnSize(n) == ReturnWith(n, "none")

ReturnIo(err) == ReturnWith(0, err)

-----------------------------------------------------------------------------
(* ss_ring_buffer_recv *)

BeginRecv(max, request) ==
    /\ call' = "recvFirst"
    /\ left' = max
    /\ start' = length
    /\ via' = request
    /\ got' = << >>
    /\ ret' = 0
    /\ io' = "none"
    /\ UNCHANGED memory

(* The end of a recv that leaves total unread bytes in the buffer.  Inside   *)
(* ss_recv_via_buffer, a recv that brought nothing ends that call as well.   *)
EndRecv(total) ==
    \/ via = NoRequest /\ ReturnSize(total - start)
    \/ via # NoRequest /\ total - start <= 0 /\ ReturnIo("EAGAIN")
    \/ /\ via # NoRequest
       /\ total - start > 0
       /\ call' = "steal"
       /\ left' = 0
       /\ start' = 0
       /\ UNCHANGED <<via, ret, io>>

(* recv() of at most n bytes into the cells from index at on: the kernel      *)
(* gives k of them, none if it has none, reports an error or the peer closed. *)
Take(at, k) ==
    /\ fresh + k <= MaxBytes
    /\ cells' = Filled(at, k)
    /\ length' = length + k
    /\ fresh' = fresh + k
    /\ UNCHANGED <<offset, got>>

RecvSkipped ==
    /\ left = 0
    /\ EndRecv(length)
    /\ UNCHANGED <<memory, got>>

RecvToBlockEnd ==
    /\ left # 0
    /\ End < Capacity
    /\ LET want == MIN(Capacity - End, left)
       IN  \E k \in 0..want:
             /\ Take(End, k)
             /\ \/ k < want /\ EndRecv(length + k)
                \/ /\ k = want
                   /\ call' = "recvRest"
                   /\ left' = left - k
                   /\ UNCHANGED <<start, via, ret, io>>

(* With no room before the end of the block the first recv() is skipped, and *)
(* recv_ret, which line 85 subtracts all the same, was never written: what   *)
(* is left to read is any number.  Those above Capacity act like Capacity,   *)
(* for the room before offset bounds them.                                   *)
RecvNoFirstPart ==
    /\ left # 0
    /\ End >= Capacity
    /\ call' = "recvRest"
    /\ left' \in 0..Capacity
    /\ UNCHANGED <<memory, start, via, got, ret, io>>

RecvFirst ==
    /\ call = "recvFirst"
    /\ RecvSkipped \/ RecvToBlockEnd \/ RecvNoFirstPart

(* Mutant: the wrapped recv() is bounded by the end of the block. *)
RecvRoomToBlockEnd == MIN(Capacity - Wrap(End), left)

(* Mutant: the wrapped recv() may take one cell too many. *)
RecvRoomOneMore == MIN(offset - Wrap(End) + 1, left)

(* The room that the wrapped recv() is given. *)
RecvRoom == MIN(offset - Wrap(End), left)

RecvRest ==
    /\ call = "recvRest"
    /\ \/ /\ left = 0 \/ Wrap(End) >= offset
          /\ EndRecv(length)
          /\ UNCHANGED <<memory, got>>
       \/ /\ left # 0
          /\ Wrap(End) < offset
          /\ \E k \in 0..RecvRoom:
               /\ Take(Wrap(End), k)
               /\ EndRecv(length + k)

Recv(max) ==
    /\ call = "idle"
    /\ BeginRecv(max, NoRequest)

-----------------------------------------------------------------------------
(* ss_ring_buffer_send: one step for each turn of its loop. *)

Send(max) ==
    /\ call = "idle"
    /\ call' = "send"
    /\ left' = max
    /\ start' = length
    /\ got' = << >>
    /\ ret' = 0
    /\ io' = "none"
    /\ UNCHANGED <<memory, via>>

(* How much the next send() is given. *)
SendWant == MIN(FirstPart(offset, MIN(length, ChunkSize)), left)

(* n unread bytes leave the buffer. *)
Consume(n) ==
    /\ offset' = Wrap(offset + n)
    /\ length' = length - n
    /\ UNCHANGED <<cells, fresh>>

(* Mutant: a short send() is taken for a complete one. *)
SendChunkIgnoringShort ==
    /\ call = "send"
    /\ left > 0
    /\ \E k \in 1..SendWant: got' = Copied(offset, k)
    /\ Consume(SendWant)
    /\ left' = left - SendWant
    /\ UNCHANGED <<call, start, via, ret, io>>

SendChunk ==
    /\ call = "send"
    /\ left > 0
    /\ \E k \in 1..SendWant:
         /\ got' = Copied(offset, k)
         /\ Consume(k)
         /\ left' = left - k
    /\ UNCHANGED <<call, start, via, ret, io>>

(* The loop ends when everything was sent, or on a send() of nothing: the   *)
(* buffer is empty, the socket is full or it reports an error.              *)
SendEnd ==
    /\ call = "send"
    /\ got' = << >>
    /\ ReturnSize(start - length)
    /\ UNCHANGED memory

-----------------------------------------------------------------------------
(* The calls that only move bytes between the buffer and the program. *)

ReadFixed(n, dest) ==
    /\ call = "idle"
    /\ \/ /\ length < n
          /\ got' = << >>
          /\ ReturnSize(-1)
          /\ UNCHANGED memory
       \/ /\ length >= n
          /\ got' = IF dest THEN Span(offset, n) ELSE << >>
          /\ Consume(n)
          /\ ReturnSize(n)

Read(max, dest) == ReadFixed(MIN(length, max), dest)

StealFixed(from, n) ==
    /\ call = "idle"
    /\ \/ /\ length < from + n
          /\ got' = << >>
          /\ ReturnSize(-1)
       \/ /\ length >= from + n
          /\ got' = Span(Wrap(offset + from), n)
          /\ ReturnSize(n)
    /\ UNCHANGED memory

Steal(from, max) ==
    \/ /\ call = "idle"
       /\ length < from
       /\ got' = << >>
       /\ ReturnSize(0)
       /\ UNCHANGED memory
    \/ length >= from /\ StealFixed(from, MIN(length - from, max))

(* The block lands in two parts if it wraps.  Only the first is added to     *)
(* length: the wrapped part is copied to the start of the block and then     *)
(* counted by nobody.                                                        *)
WriteBlock(n) ==
    LET at == Wrap(End)
        n1 == FirstPart(at, n)
    IN  /\ fresh + n <= MaxBytes
        /\ cells' = [c \in Cell |->
                       IF c < n - n1 THEN fresh + n1 + 1 + c ELSE Filled(at, n1)[c]]
        /\ length' = length + n1
        /\ fresh' = fresh + n
        /\ UNCHANGED offset

WriteFixed(n) ==
    /\ call = "idle"
    /\ got' = << >>
    /\ \/ length + n > Capacity /\ ReturnSize(-1) /\ UNCHANGED memory
       \/ length + n <= Capacity /\ WriteBlock(n) /\ ReturnSize(n)

Write(max) == WriteFixed(MIN(Capacity - length, max))

Reset ==
    /\ call = "idle"
    /\ offset' = 0
    /\ length' = 0
    /\ got' = << >>
    /\ ReturnSize(0)
    /\ UNCHANGED <<cells, fresh>>

-----------------------------------------------------------------------------
(* ss_recv_via_buffer and ss_send_via_buffer *)

RecvVia(request) ==
    LET expected == request.offset + request.size
    IN  /\ call = "idle"
        /\ \/ /\ expected > Capacity
              /\ got' = << >>
              /\ ReturnIo("EOVERFLOW")
              /\ UNCHANGED memory
           \/ /\ expected <= Capacity
              /\ length < expected
              /\ BeginRecv(expected - length, request)
           \/ /\ expected <= Capacity
              /\ length >= expected
              /\ call' = "steal"
              /\ via' = request
              /\ got' = << >>
              /\ ret' = 0
              /\ io' = "none"
              /\ UNCHANGED <<memory, left, start>>

(* Mutant: the bytes before the request's offset are counted in. *)
StolenFromFront(request) == MIN(length, request.size)

(* The bytes that the final ss_ring_buffer_steal of the call finds. *)
Stolen(request) ==
    IF length < request.offset THEN 0 ELSE MIN(length - request.offset, request.size)

StealVia ==
    /\ call = "steal"
    /\ got' = IF via.dest THEN Span(Wrap(offset + via.offset), Stolen(via)) ELSE << >>
    /\ ReturnIo(IF via.dest /\ Stolen(via) # via.size THEN "ERROR" ELSE "OK")
    /\ UNCHANGED memory

SendVia(n) ==
    /\ call = "idle"
    /\ got' = << >>
    /\ \/ Capacity < n /\ ReturnIo("EAGAIN") /\ UNCHANGED memory
       \/ Capacity >= n /\ length + n > Capacity /\ ReturnIo("ERROR") /\ UNCHANGED memory
       \/ length + n <= Capacity /\ WriteBlock(n) /\ ReturnIo("OK")

-----------------------------------------------------------------------------
Next ==
    \/ \E n \in Size: Recv(n) \/ Send(n) \/ Write(n) \/ WriteFixed(n) \/ SendVia(n)
    \/ \E n \in Size, dest \in BOOLEAN: Read(n, dest) \/ ReadFixed(n, dest)
    \/ \E from, n \in Size: Steal(from, n) \/ StealFixed(from, n)
    \/ \E request \in Request: RecvVia(request)
    \/ RecvFirst \/ RecvRest \/ SendChunk \/ SendEnd \/ StealVia \/ Reset

Spec == Init /\ [][Next]_vars
-----------------------------------------------------------------------------
(* The types of the variables.  What the code relies on is in two of them: *)
(* offset stays inside the block, and length never exceeds the capacity.   *)
TypeOK ==
    /\ cells \in [Cell -> Nat]
    /\ offset \in Cell
    /\ length \in 0..Capacity
    /\ fresh \in Nat
    /\ call \in {"idle", "recvFirst", "recvRest", "send", "steal"}
    /\ left \in Size
    /\ start \in Size
    /\ via \in Request
    /\ got \in Seq(Nat)
    /\ ret \in Int
    /\ io \in {"none", "OK", "EAGAIN", "ERROR", "EOVERFLOW"}

(* The unread bytes are bytes that were really offered, in the order they   *)
(* were offered and none of them twice: no recv, write or wrap overwrites,  *)
(* duplicates or reorders a byte nobody has read yet, even when recv uses   *)
(* the uninitialised recv_ret of line 85.                                   *)
UnreadInOrder ==
    /\ \A i \in 1..length : Unread[i] \in 1..fresh
    /\ \A i, j \in 1..length : i < j => Unread[i] < Unread[j]

(* ss_recv_via_buffer answers SS_IO_OK to a caller that gave it a dest only *)
(* if dest now holds all the size bytes that follow offset in the stream,   *)
(* however few of them each recv brought.                                   *)
OkIsComplete ==
    [][io' = "OK" /\ via.dest =>
         /\ via.size > 0 => via.offset + via.size <= length
         /\ got' = SubSeq(Unread, via.offset + 1, via.offset + via.size)]_vars

(* Whatever the sequence of calls, the buffer is a byte queue. *)
Queue == INSTANCE ByteQueue WITH queue <- Unread

ImplementsQueue == Queue!Spec

(* A block that ss_ring_buffer_write_fixed accepts is in the buffer when it *)
(* returns ("read data from src to dest (ring buffer)", ss_ring_buffer.h    *)
(* line 43): the unread bytes grow by as many as were offered.              *)
OfferedIsKept ==
    [][length' > length => length' - length = fresh' - fresh]_vars
=============================================================================
