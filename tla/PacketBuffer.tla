----------------------------- MODULE PacketBuffer -----------------------------
(***************************************************************************)
(* The ring of packets of util/ss_packet_buffer.c, between the DNS service *)
(* and its datagram socket.  A block has the size of its packet in front   *)
(* of the data; packets are named by a number, and a block whose packet    *)
(* has gone keeps its data until it is used again.                         *)
(***************************************************************************)
EXTENDS Integers, Sequences

CONSTANTS
    max_packets,   \* blocks in the ring
    packet_size,   \* bytes of data in a block
    MaxPackets     \* bound: packets offered

ASSUME SizeAssumption ==
    max_packets \in Nat \ {0} /\ packet_size \in Nat /\ MaxPackets \in Nat

VARIABLES
    size,           \* the size field of each block
    data,           \* the packet in each block's data; 0 for none
    packet_offset,
    packet_count,
    fresh,          \* packets offered so far: the name of the last
    written,        \* bytes in the back block that are not pushed yet
    popped,         \* the block that the last ss_packet_buffer_pop_front pointed to
    out,            \* the packet sent or popped last
    ret             \* the result of the last call

vars == <<size, data, packet_offset, packet_count, fresh, written, popped, out, ret>>
ring == <<size, data, packet_offset, packet_count>>

Block == 0..(max_packets - 1)
NoBlock == -1

(* No bytes written; a size field that malloc left as it was.              *)
Unset == -1

NoPacket == [name |-> 0, size |-> 0]

(* REAL_BLOCK_INDEX *)
BlockAt(idx) == (packet_offset + idx) % max_packets

Back == BlockAt(packet_count)
Front == BlockAt(0)

InFront == [name |-> data[Front], size |-> size[Front]]

Init ==
    /\ size = [b \in Block |-> Unset]
    /\ data = [b \in Block |-> 0]
    /\ packet_offset = 0
    /\ packet_count = 0
    /\ fresh = 0
    /\ written = Unset
    /\ popped = NoBlock
    /\ out = NoPacket
    /\ ret = "none"

-----------------------------------------------------------------------------
(* Mutant: every block may be filled.                                      *)
HasRoomForAll == packet_count < max_packets

HasRoom == packet_count + 1 < max_packets

Refuse(reason) ==
    /\ ret' = reason
    /\ UNCHANGED <<ring, fresh, written, popped, out>>

(* ss_packet_buffer_recv_back of at most n bytes; the datagram has some of *)
(* them, or recv finds none or fails.                                      *)
RecvBack(n) ==
    \/ (n > packet_size \/ ~HasRoom) /\ n # 0 /\ Refuse("EOVERFLOW")
    \/ n = 0 /\ Refuse("EEMPTY")
    \/ /\ n \in 1..packet_size
       /\ HasRoom
       /\ \/ Refuse("ERROR")
          \/ Refuse("EAGAIN")
          \/ /\ \E rc \in 1..n : size' = [size EXCEPT ![Back] = rc]
             /\ data' = [data EXCEPT ![Back] = fresh + 1]
             /\ fresh' = fresh + 1
             /\ packet_count' = packet_count + 1
             /\ ret' = "OK"
             /\ UNCHANGED <<packet_offset, written, popped, out>>

(* ss_packet_buffer_write_back: the bytes are in the block but the packet  *)
(* is not in the ring yet.                                                 *)
WriteBack(n) ==
    \/ (n > packet_size \/ ~HasRoom) /\ Refuse("FALSE")
    \/ /\ n \in 0..packet_size
       /\ HasRoom
       /\ data' = [data EXCEPT ![Back] = fresh + 1]
       /\ fresh' = fresh + 1
       /\ written' = n
       /\ ret' = "TRUE"
       /\ UNCHANGED <<size, packet_offset, packet_count, popped, out>>

(* ss_packet_buffer_push_back, which tests nothing: its only caller pushes *)
(* the packet that it has just written.                                    *)
PushBack ==
    /\ written # Unset
    /\ size' = [size EXCEPT ![Back] = written]
    /\ packet_count' = packet_count + 1
    /\ written' = Unset
    /\ ret' = "TRUE"
    /\ UNCHANGED <<data, packet_offset, fresh, popped, out>>

(* The front block leaves the ring.                                        *)
DropFront ==
    /\ packet_offset' = (packet_offset + 1) % max_packets
    /\ packet_count' = packet_count - 1

(* Mutant: a packet that could not be sent is dropped.                     *)
SendFrontOnce ==
    \/ packet_count = 0 /\ Refuse("EOVERFLOW")
    \/ /\ packet_count > 0
       /\ DropFront
       /\ \/ /\ ret' = "OK"
             /\ out' = InFront
          \/ /\ ret' = "ERROR"
             /\ UNCHANGED out
       /\ size' = [size EXCEPT ![Front] = 0]
       /\ popped' = NoBlock
       /\ UNCHANGED <<data, fresh, written>>

(* ss_packet_buffer_send_front; a packet of no bytes is dropped.           *)
SendFront ==
    \/ packet_count = 0 /\ Refuse("EOVERFLOW")
    \/ packet_count > 0 /\ size[Front] # 0 /\ Refuse("ERROR")
    \/ /\ packet_count > 0
       /\ DropFront
       /\ ret' = IF size[Front] = 0 THEN "EEMPTY" ELSE "OK"
       /\ out' = InFront
       /\ size' = [size EXCEPT ![Front] = 0]
       /\ popped' = NoBlock
       /\ UNCHANGED <<data, fresh, written>>

(* Mutant: the count stays as it is.                                       *)
PopFrontCounting ==
    \/ packet_count = 0 /\ Refuse("FALSE")
    \/ /\ packet_count > 0
       /\ packet_offset' = (packet_offset + 1) % max_packets
       /\ ret' = "TRUE"
       /\ out' = InFront
       /\ popped' = Front
       /\ UNCHANGED <<size, data, packet_count, fresh, written>>

(* ss_packet_buffer_pop_front: the caller is given the block's data.       *)
PopFront ==
    \/ packet_count = 0 /\ Refuse("FALSE")
    \/ /\ packet_count > 0
       /\ DropFront
       /\ ret' = "TRUE"
       /\ out' = InFront
       /\ popped' = Front
       /\ UNCHANGED <<size, data, fresh, written>>

(* ss_packet_buffer_read_front of n bytes from an offset.                  *)
ReadFront(offset, n) ==
    Refuse(IF packet_count > 0 /\ offset + n <= size[Front] THEN "TRUE" ELSE "FALSE")

Next ==
    \/ \E n \in 0..(packet_size + 1) :
         fresh < MaxPackets /\ written = Unset /\ (RecvBack(n) \/ WriteBack(n))
    \/ PushBack \/ SendFront \/ PopFront
    \/ \E offset, n \in 0..packet_size : ReadFront(offset, n)

Spec == Init /\ [][Next]_vars

-----------------------------------------------------------------------------
(* The types of the variables: one block is always left free, and no size    *)
(* is used that was not set.                                                 *)
TypeOK ==
    /\ size \in [Block -> Unset..packet_size]
    /\ data \in [Block -> 0..fresh]
    /\ packet_offset \in Block
    /\ packet_count \in 0..(max_packets - 1)
    /\ \A i \in 0..(packet_count - 1) : size[BlockAt(i)] \in 0..packet_size
    /\ written \in Unset..packet_size
    /\ popped \in Block \cup {NoBlock}

(* The data that ss_packet_buffer_pop_front pointed its caller to stays as   *)
(* it is while packets arrive, until another one is taken out.               *)
PoppedIsIntact == popped # NoBlock => data[popped] = out.name

(* Whatever the calls, packets go through the ring as through a queue.       *)
Held == [i \in 1..packet_count |->
            [name |-> data[BlockAt(i - 1)], size |-> size[BlockAt(i - 1)]]]

Queue == INSTANCE PacketQueue
    WITH queue <- Held, Limit <- max_packets - 1, Nothing <- NoPacket,
         Packet <- [name : 1..MaxPackets, size : 0..packet_size]

ImplementsPacketQueue == Queue!Spec
=============================================================================
