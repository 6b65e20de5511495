--------------------------- MODULE StructureProofs ---------------------------
(*****************************************************************************)
(* Proofs about the two structures of the DNS service: the string map that   *)
(* has its records, and the ring of packets before its socket.               *)
(*                                                                           *)
(* PacketBuffer, for every number of blocks and every packet size: the ring  *)
(* stays within its blocks (TypeCorrect), a packet that was handed out is    *)
(* not overwritten (PoppedStaysIntact), and the ring is a queue              *)
(* (IsAPacketQueue).                                                         *)
(*                                                                           *)
(* StringMap, for any finite set of names, whichever of them share hashes,   *)
(* and any data: its red-black tree stays balanced (StaysBalanced), is       *)
(* walked in the order of the names (WalksInOrder), and the map is a         *)
(* dictionary (IsADictionary).                                               *)
(*                                                                           *)
(* None of this is inductive: Balanced says nothing of the order, by which   *)
(* names are looked up, nor of the parents, by which loops and walks climb.  *)
(* MapInv is. It says that for some set N of names the nodes of N are a tree *)
(* (Shape: sub[n] holds the nodes from n down, those on each side of n being *)
(* the nodes from its child on that side down), that they are coloured       *)
(* (Coloured: bh[n] is the number of black nodes on every way down from n,   *)
(* where a hole, the place that a running deletion is one black node short   *)
(* below, counts as one), and that no red node has a red parent but the one  *)
(* of a running insertion (Inserting, Deleting, Resting).                    *)
(*                                                                           *)
(* The parts: a tree with sets below its nodes; what a rotation and a change *)
(* of colours do to it; the turns of the two loops (RebalanceKeeps); looking *)
(* up a name (FoundIsThere); linking a node (LinkKeeps); taking one out,     *)
(* itself or with the next one in its place (UnlinkKeeps); the walk and the  *)
(* black nodes as the tables that the model computes (BelowIs, BlacksAre);   *)
(* the next node (SuccessorIs); the theorems. A loop of the code, which the  *)
(* model writes as a function of the number of turns, is taken up as a chain *)
(* of nodes: every set of names being finite, it ends.                       *)
(*****************************************************************************)
EXTENDS StringMap, PacketBuffer, BasicLemmas

-----------------------------------------------------------------------------
(* The packet buffer: arithmetic on blocks; off stands for packet_offset.    *)

LEMMA WrapValue ==
    ASSUME NEW i \in 0..(2 * max_packets - 1)
    PROVE  i % max_packets = IF i < max_packets THEN i ELSE i - max_packets
  BY SizeAssumption, SMT

LEMMA WrapIsBlock ==
    ASSUME NEW off \in Block, NEW i \in Block
    PROVE  (off + i) % max_packets \in Block
  BY WrapValue, SizeAssumption DEF Block

LEMMA WrapIsInjective ==
    ASSUME NEW off \in Block, NEW i \in Block, NEW j \in Block, i # j
    PROVE  (off + i) % max_packets # (off + j) % max_packets
  BY WrapValue, SizeAssumption DEF Block

(* Once the front block has left, each block is one closer to the front. *)
LEMMA WrapAfterDrop ==
    ASSUME NEW off \in Block, NEW i \in 0..(max_packets - 2)
    PROVE  (((off + 1) % max_packets) + i) % max_packets = (off + (i + 1)) % max_packets
<1>1. CASE off + 1 < max_packets
  <2>1. (off + 1) % max_packets = off + 1
    BY <1>1, WrapValue, SizeAssumption DEF Block
  <2>2. QED
    BY <2>1, SizeAssumption DEF Block
<1>2. CASE off + 1 = max_packets
  <2>1. (off + 1) % max_packets = 0
    BY <1>2, WrapValue, SizeAssumption DEF Block
  <2>2. i % max_packets = i /\ (off + (i + 1)) % max_packets = i
    BY <1>2, WrapValue, SizeAssumption DEF Block
  <2>3. QED
    BY <2>1, <2>2, SizeAssumption
<1>3. QED
  BY <1>1, <1>2, SizeAssumption DEF Block

(* And the front block has become the last. *)
LEMMA FrontBecomesLast ==
    ASSUME NEW off \in Block
    PROVE  (((off + 1) % max_packets) + (max_packets - 1)) % max_packets = off
<1>1. CASE off + 1 < max_packets
  <2>1. (off + 1) % max_packets = off + 1
    BY <1>1, WrapValue, SizeAssumption DEF Block
  <2>2. QED
    BY <2>1, WrapValue, SizeAssumption DEF Block
<1>2. CASE off + 1 = max_packets
  <2>1. (off + 1) % max_packets = 0
    BY <1>2, WrapValue, SizeAssumption DEF Block
  <2>2. QED
    BY <1>2, <2>1, WrapValue, SizeAssumption DEF Block
<1>3. QED
  BY <1>1, <1>2, SizeAssumption DEF Block

-----------------------------------------------------------------------------
(* Sequences given by their elements. *)

LEMMA FunctionIsSequence ==
    ASSUME NEW Elem, NEW n \in Nat, NEW s \in [1..n -> Elem]
    PROVE  s \in Seq(Elem) /\ Len(s) = n
  OBVIOUS

LEMMA LongerSequence ==
    ASSUME NEW Elem, NEW n \in Nat, NEW s \in [1..n -> Elem], NEW e \in Elem,
           NEW t \in [1..(n + 1) -> Elem], t[n + 1] = e, \A i \in 1..n : t[i] = s[i]
    PROVE  t = Append(s, e)
<1>1. /\ s \in Seq(Elem) /\ Len(s) = n
      /\ t \in Seq(Elem) /\ Len(t) = n + 1
  BY FunctionIsSequence
<1>2. /\ Append(s, e) \in Seq(Elem) /\ Len(Append(s, e)) = n + 1
      /\ \A i \in 1..n : Append(s, e)[i] = s[i]
      /\ Append(s, e)[n + 1] = e
  BY <1>1, AppendProperties
<1>3. \A i \in 1..Len(t) : t[i] = Append(s, e)[i]
  BY <1>1, <1>2
<1>4. QED
  BY <1>1, <1>2, <1>3, SeqEqual

LEMMA ShorterSequence ==
    ASSUME NEW Elem, NEW n \in Nat \ {0}, NEW s \in [1..n -> Elem],
           NEW t \in [1..(n - 1) -> Elem], \A i \in 1..(n - 1) : t[i] = s[i + 1]
    PROVE  t = Tail(s)
<1>1. /\ s \in Seq(Elem) /\ Len(s) = n /\ s # << >>
      /\ t \in Seq(Elem) /\ Len(t) = n - 1
  BY FunctionIsSequence
<1>2. /\ Tail(s) \in Seq(Elem) /\ Len(Tail(s)) = n - 1
      /\ \A i \in 1..(n - 1) : Tail(s)[i] = s[i + 1]
  BY <1>1, HeadTailProperties
<1>3. \A i \in 1..Len(t) : t[i] = Tail(s)[i]
  BY <1>1, <1>2
<1>4. QED
  BY <1>1, <1>2, <1>3, SeqEqual

-----------------------------------------------------------------------------
(* The inductive invariant.  A packet that is written but not pushed has its *)
(* room; the block handed out last is the one before the front, the one      *)
(* that HasRoom leaves free.                                                 *)
Inductive ==
    /\ TypeOK
    /\ fresh \in Nat
    /\ written # Unset => HasRoom /\ data[Back] \in 1..MaxPackets
    /\ popped # NoBlock => popped = BlockAt(max_packets - 1)
    /\ PoppedIsIntact

LEMMA InitInductive == Init => Inductive
<1> SUFFICES ASSUME Init PROVE Inductive
  OBVIOUS
<1>1. 0 \in Block
  BY SizeAssumption DEF Block
<1>2. TypeOK
  BY <1>1, SizeAssumption DEF Init, TypeOK, Unset
<1>3. QED
  BY <1>2 DEF Init, Inductive, Unset, NoBlock, PoppedIsIntact

LEMMA HeldIsBlock ==
    ASSUME Inductive, NEW i \in 0..(packet_count - 1)
    PROVE  BlockAt(i) \in Block
<1>1. packet_offset \in Block /\ i \in Block
  BY SizeAssumption DEF Inductive, TypeOK, Block
<1>2. QED
  BY <1>1, WrapIsBlock DEF BlockAt

(* Calls that refuse change nothing of this. *)
LEMMA RefuseInductive ==
    ASSUME Inductive, NEW reason, Refuse(reason)
    PROVE  Inductive'
  BY DEF Refuse, ring, Inductive, TypeOK, PoppedIsIntact, BlockAt, Back, HasRoom

(* The block that is filled next holds no packet, and is not the one handed  *)
(* out last.                                                                 *)
LEMMA BackIsFree ==
    ASSUME Inductive, HasRoom
    PROVE  /\ Back \in Block
           /\ \A i \in 0..(packet_count - 1) : BlockAt(i) # Back
           /\ popped # Back
<1>1. /\ packet_offset \in Block /\ packet_count \in Nat
      /\ packet_count + 1 < max_packets
      /\ \A i \in 0..packet_count : i \in Block
  BY SizeAssumption DEF Inductive, TypeOK, HasRoom, Block
<1>2. Back \in Block
  BY <1>1, WrapIsBlock, SizeAssumption DEF Back, BlockAt
<1>3. ASSUME NEW i \in 0..(packet_count - 1)
      PROVE  BlockAt(i) # Back
  BY <1>1, WrapIsInjective DEF Back, BlockAt
<1>4. BlockAt(max_packets - 1) # Back
  BY <1>1, WrapIsInjective, SizeAssumption DEF Back, BlockAt, Block
<1>5. NoBlock \notin Block
  BY SizeAssumption DEF NoBlock, Block
<1>6. QED
  BY <1>2, <1>3, <1>4, <1>5 DEF Inductive

(* A packet that the socket or the caller puts in the back block. *)
LEMMA ReceivedInductive ==
    ASSUME Inductive, HasRoom, fresh < MaxPackets, written = Unset,
           NEW rc \in 0..packet_size,
           size' = [size EXCEPT ![Back] = rc],
           data' = [data EXCEPT ![Back] = fresh + 1],
           fresh' = fresh + 1,
           packet_count' = packet_count + 1,
           UNCHANGED <<packet_offset, written, popped, out>>
    PROVE  Inductive'
<1>1. /\ Back \in Block /\ popped # Back
      /\ \A i \in 0..(packet_count - 1) : BlockAt(i) # Back
  BY BackIsFree
<1>2. /\ packet_count \in Nat /\ packet_count + 1 < max_packets
      /\ size \in [Block -> Unset..packet_size] /\ data \in [Block -> 0..fresh]
      /\ fresh \in Nat
      /\ \A i \in 0..(packet_count - 1) : BlockAt(i) \in Block
  BY HeldIsBlock DEF Inductive, TypeOK, HasRoom
<1>3. ASSUME NEW i \in 0..(packet_count' - 1)
      PROVE  size'[BlockAt(i)'] \in 0..packet_size
  <2>1. BlockAt(i)' = BlockAt(i)
    BY DEF BlockAt
  <2>2. CASE i = packet_count
    BY <1>1, <1>2, <2>1, <2>2 DEF Back
  <2>3. CASE i \in 0..(packet_count - 1)
    BY <1>1, <1>2, <2>1, <2>3 DEF Inductive, TypeOK
  <2>4. QED
    BY <1>2, <2>2, <2>3
<1>4. TypeOK'
  <2>1. size' \in [Block -> Unset..packet_size] /\ data' \in [Block -> 0..fresh']
    BY <1>1, <1>2, SizeAssumption DEF Unset
  <2>2. packet_count' \in 0..(max_packets - 1)
    BY <1>2, SizeAssumption
  <2>3. QED
    BY <1>3, <2>1, <2>2 DEF Inductive, TypeOK
<1>5. (popped # NoBlock => popped = BlockAt(max_packets - 1))'
  BY DEF Inductive, BlockAt
<1>6. PoppedIsIntact'
  BY <1>1, <1>2 DEF Inductive, TypeOK, PoppedIsIntact
<1>7. QED
  BY <1>2, <1>4, <1>5, <1>6 DEF Inductive

LEMMA RecvBackInductive ==
    ASSUME Inductive, fresh < MaxPackets, written = Unset, NEW n, RecvBack(n)
    PROVE  Inductive'
<1>1. CASE \E reason : Refuse(reason)
  BY <1>1, RefuseInductive
<1>2. CASE ~ \E reason : Refuse(reason)
  <2>1. PICK rc \in 1..n : n \in 1..packet_size /\ size' = [size EXCEPT ![Back] = rc]
    BY <1>2 DEF RecvBack
  <2>2. rc \in 0..packet_size
    BY <2>1, SizeAssumption
  <2>3. QED
    BY <1>2, <2>1, <2>2, ReceivedInductive DEF RecvBack
<1>3. QED
  BY <1>1, <1>2

LEMMA WriteBackInductive ==
    ASSUME Inductive, fresh < MaxPackets, written = Unset, NEW n, WriteBack(n)
    PROVE  Inductive'
<1>1. CASE \E reason : Refuse(reason)
  BY <1>1, RefuseInductive
<1>2. CASE ~ \E reason : Refuse(reason)
  <2>1. /\ n \in 0..packet_size /\ HasRoom
        /\ data' = [data EXCEPT ![Back] = fresh + 1]
        /\ fresh' = fresh + 1 /\ written' = n
        /\ UNCHANGED <<size, packet_offset, packet_count, popped, out>>
    BY <1>2 DEF WriteBack
  <2>2. Back \in Block /\ popped # Back
    BY <2>1, BackIsFree
  <2>3. \A i : BlockAt(i)' = BlockAt(i)
    BY <2>1 DEF BlockAt
  <2>4. data \in [Block -> 0..fresh] /\ fresh \in Nat
    BY DEF Inductive, TypeOK
  <2>5. data' \in [Block -> 0..fresh'] /\ data'[Back] = fresh + 1
    BY <2>1, <2>2, <2>4
  <2>6. TypeOK'
    BY <2>1, <2>3, <2>5, SizeAssumption DEF Inductive, TypeOK, Unset
  <2>7. HasRoom' /\ data'[Back'] \in 1..MaxPackets
    BY <2>1, <2>4, <2>5, SizeAssumption DEF HasRoom, Back, BlockAt
  <2>8. PoppedIsIntact'
    BY <2>1, <2>2, <2>4 DEF Inductive, TypeOK, PoppedIsIntact
  <2>9. QED
    BY <2>1, <2>3, <2>4, <2>6, <2>7, <2>8 DEF Inductive
<1>3. QED
  BY <1>1, <1>2

LEMMA PushBackInductive ==
    ASSUME Inductive, PushBack
    PROVE  Inductive'
<1>1. HasRoom /\ written \in 0..packet_size
  BY SizeAssumption DEF PushBack, Inductive, TypeOK, Unset
<1>2. /\ Back \in Block
      /\ \A i \in 0..(packet_count - 1) : BlockAt(i) # Back
  BY <1>1, BackIsFree
<1>3. /\ packet_count \in Nat /\ packet_count + 1 < max_packets
      /\ size \in [Block -> Unset..packet_size]
      /\ \A i \in 0..(packet_count - 1) : BlockAt(i) \in Block
  BY <1>1, HeldIsBlock DEF Inductive, TypeOK, HasRoom
<1>4. /\ size' = [size EXCEPT ![Back] = written] /\ packet_count' = packet_count + 1
      /\ written' = Unset /\ UNCHANGED <<data, packet_offset, fresh, popped, out>>
  BY DEF PushBack
<1>5. \A i : BlockAt(i)' = BlockAt(i)
  BY <1>4 DEF BlockAt
<1>6. ASSUME NEW i \in 0..(packet_count' - 1)
      PROVE  size'[BlockAt(i)'] \in 0..packet_size
  <2>1. CASE i = packet_count
    BY <1>1, <1>2, <1>3, <1>4, <1>5, <2>1 DEF Back
  <2>2. CASE i \in 0..(packet_count - 1)
    BY <1>2, <1>3, <1>4, <1>5, <2>2 DEF Inductive, TypeOK
  <2>3. QED
    BY <1>3, <1>4, <2>1, <2>2
<1>7. TypeOK'
  BY <1>1, <1>2, <1>3, <1>4, <1>6, SizeAssumption DEF Inductive, TypeOK, Unset
<1>8. QED
  BY <1>4, <1>5, <1>7 DEF Inductive, PoppedIsIntact

(* What dropping the front block does to the positions of the others. *)
LEMMA DropShifts ==
    ASSUME Inductive, packet_count > 0, DropFront
    PROVE  /\ Front \in Block
           /\ packet_offset' \in Block
           /\ packet_count' = packet_count - 1
           /\ packet_count \in 1..(max_packets - 1)
           /\ \A i \in 0..packet_count' : BlockAt(i)' = BlockAt(i + 1)
           /\ BlockAt(max_packets - 1)' = Front
           /\ \A i \in 1..(packet_count - 1) : BlockAt(i) # Front /\ BlockAt(i) \in Block
           /\ Back' = Back
<1>1. /\ packet_offset \in Block /\ packet_count \in 1..(max_packets - 1)
      /\ packet_offset' = (packet_offset + 1) % max_packets
      /\ packet_count' = packet_count - 1
  BY SizeAssumption DEF Inductive, TypeOK, DropFront
<1>2. packet_offset' \in Block
  BY <1>1, WrapIsBlock, SizeAssumption DEF Block
<1>3. Front = packet_offset
  BY <1>1, WrapValue, SizeAssumption DEF Front, BlockAt, Block
<1>4. ASSUME NEW i \in 0..packet_count'
      PROVE  BlockAt(i)' = BlockAt(i + 1)
  <2>1. i \in 0..(max_packets - 2)
    BY <1>1, SizeAssumption
  <2>2. QED
    BY <1>1, <2>1, WrapAfterDrop DEF BlockAt
<1>5. BlockAt(max_packets - 1)' = Front
  BY <1>1, <1>3, FrontBecomesLast DEF BlockAt
<1>6. ASSUME NEW i \in 1..(packet_count - 1)
      PROVE  BlockAt(i) # Front /\ BlockAt(i) \in Block
  <2>1. i \in Block /\ 0 \in Block /\ i # 0
    BY <1>1, SizeAssumption DEF Block
  <2>2. QED
    BY <1>1, <2>1, WrapIsBlock, WrapIsInjective DEF Front, BlockAt
<1>7. Back' = Back
  <2>1. packet_count - 1 \in 0..(max_packets - 2) /\ (packet_count - 1) + 1 = packet_count
    BY <1>1, SizeAssumption
  <2>2. (((packet_offset + 1) % max_packets) + (packet_count - 1)) % max_packets
           = (packet_offset + ((packet_count - 1) + 1)) % max_packets
    BY <1>1, <2>1, WrapAfterDrop
  <2>3. QED
    BY <1>1, <2>1, <2>2 DEF Back, BlockAt
<1>8. QED
  BY <1>1, <1>2, <1>3, <1>4, <1>5, <1>6, <1>7

(* Whoever takes the front packet out: only its size field may change. *)
LEMMA TakenInductive ==
    ASSUME Inductive, packet_count > 0, DropFront,
           size' \in {size, [size EXCEPT ![Front] = 0]},
           out' = InFront,
           popped' \in {NoBlock, Front},
           UNCHANGED <<data, fresh, written>>
    PROVE  Inductive'
<1>1. /\ Front \in Block
      /\ packet_offset' \in Block
      /\ packet_count' = packet_count - 1
      /\ packet_count \in 1..(max_packets - 1)
      /\ \A i \in 0..packet_count' : BlockAt(i)' = BlockAt(i + 1)
      /\ BlockAt(max_packets - 1)' = Front
      /\ \A i \in 1..(packet_count - 1) : BlockAt(i) # Front /\ BlockAt(i) \in Block
      /\ Back' = Back
  BY DropShifts
<1>2. size \in [Block -> Unset..packet_size]
  BY DEF Inductive, TypeOK
<1>3. ASSUME NEW i \in 0..(packet_count' - 1)
      PROVE  size'[BlockAt(i)'] \in 0..packet_size
  <2>1. BlockAt(i)' = BlockAt(i + 1) /\ i + 1 \in 1..(packet_count - 1)
    BY <1>1, SizeAssumption
  <2>2. size'[BlockAt(i + 1)] = size[BlockAt(i + 1)]
    BY <1>1, <1>2, <2>1
  <2>3. i + 1 \in 0..(packet_count - 1)
    BY <2>1
  <2>4. QED
    BY <2>1, <2>2, <2>3 DEF Inductive, TypeOK
<1>4. TypeOK'
  <2>1. size' \in [Block -> Unset..packet_size]
    BY <1>1, <1>2, SizeAssumption DEF Unset
  <2>2. packet_count' \in 0..(max_packets - 1)
    BY <1>1, SizeAssumption
  <2>3. QED
    BY <1>1, <1>3, <2>1, <2>2 DEF Inductive, TypeOK
<1>5. (written # Unset => HasRoom /\ data[Back] \in 1..MaxPackets)'
  BY <1>1, SizeAssumption DEF Inductive, HasRoom
<1>6. PoppedIsIntact'
  BY <1>1 DEF InFront, PoppedIsIntact
<1>7. QED
  BY <1>1, <1>4, <1>5, <1>6 DEF Inductive

LEMMA SendFrontInductive ==
    ASSUME Inductive, SendFront
    PROVE  Inductive'
<1>1. CASE \E reason : Refuse(reason)
  BY <1>1, RefuseInductive
<1>2. CASE ~ \E reason : Refuse(reason)
  BY <1>2, TakenInductive DEF SendFront
<1>3. QED
  BY <1>1, <1>2

LEMMA PopFrontInductive ==
    ASSUME Inductive, PopFront
    PROVE  Inductive'
<1>1. CASE \E reason : Refuse(reason)
  BY <1>1, RefuseInductive
<1>2. CASE ~ \E reason : Refuse(reason)
  BY <1>2, TakenInductive DEF PopFront
<1>3. QED
  BY <1>1, <1>2

LEMMA NextInductive ==
    ASSUME Inductive, [Next]_vars
    PROVE  Inductive'
<1>1. ASSUME NEW n \in 0..(packet_size + 1), fresh < MaxPackets, written = Unset, RecvBack(n)
      PROVE  Inductive'
  BY <1>1, RecvBackInductive
<1>2. ASSUME NEW n \in 0..(packet_size + 1), fresh < MaxPackets, written = Unset, WriteBack(n)
      PROVE  Inductive'
  BY <1>2, WriteBackInductive
<1>3. ASSUME PushBack PROVE Inductive'
  BY <1>3, PushBackInductive
<1>4. ASSUME SendFront PROVE Inductive'
  BY <1>4, SendFrontInductive
<1>5. ASSUME PopFront PROVE Inductive'
  BY <1>5, PopFrontInductive
<1>6. ASSUME NEW offset, NEW n, ReadFront(offset, n) PROVE Inductive'
  BY <1>6, RefuseInductive DEF ReadFront
<1>7. ASSUME UNCHANGED vars PROVE Inductive'
  BY <1>7 DEF vars, ring, Inductive, TypeOK, PoppedIsIntact, BlockAt, Back, HasRoom
<1>8. QED
  BY <1>1, <1>2, <1>3, <1>4, <1>5, <1>6, <1>7 DEF Next

(* The inductive invariant holds. *)
THEOREM InductiveHolds == Spec => []Inductive
<1>1. Inductive /\ [Next]_vars => Inductive'
  BY NextInductive
<1>2. QED
  BY InitInductive, <1>1, PTL DEF Spec

(* The offset and the count stay in the ring, whatever the calls, one block  *)
(* always stays free, and every packet held has its size.                    *)
THEOREM TypeCorrect == Spec => []TypeOK
<1>1. Inductive => TypeOK
  BY DEF Inductive
<1>2. QED
  BY InductiveHolds, <1>1, PTL

(* The data that ss_packet_buffer_pop_front handed out is not overwritten by *)
(* packets that arrive.                                                      *)
THEOREM PoppedStaysIntact == Spec => []PoppedIsIntact
<1>1. Inductive => PoppedIsIntact
  BY DEF Inductive
<1>2. QED
  BY InductiveHolds, <1>1, PTL

-----------------------------------------------------------------------------
(* The ring implements a bounded queue. *)

LEMMA InitIsQueueInit == Init => Queue!Init
  BY DEF Init, Queue!Init, Held

(* A packet that gets into the ring gets to the end of the queue. *)
LEMMA EntersQueue ==
    ASSUME Inductive, HasRoom,
           NEW name \in 1..MaxPackets, NEW n \in 0..packet_size,
           size' = [size EXCEPT ![Back] = n],
           data' \in {data, [data EXCEPT ![Back] = name]},
           data'[Back] = name,
           packet_count' = packet_count + 1,
           UNCHANGED <<packet_offset, out>>
    PROVE  Queue!Next
<1> DEFINE p == [name |-> name, size |-> n]
<1>1. /\ packet_count \in Nat /\ packet_count + 1 < max_packets
      /\ size \in [Block -> Unset..packet_size] /\ data \in [Block -> 0..fresh]
  BY DEF Inductive, TypeOK, HasRoom
<1>2. /\ Back \in Block
      /\ \A i \in 0..(packet_count - 1) : BlockAt(i) # Back
  BY BackIsFree
<1>3. \A i : BlockAt(i)' = BlockAt(i)
  BY DEF BlockAt
<1>4. ASSUME NEW i \in 0..(packet_count - 1)
      PROVE  data'[BlockAt(i)] = data[BlockAt(i)] /\ size'[BlockAt(i)] = size[BlockAt(i)]
  <2>1. BlockAt(i) \in Block
    BY HeldIsBlock
  <2>2. QED
    BY <1>1, <1>2, <2>1
<1>5. data'[BlockAt(packet_count)] = name /\ size'[BlockAt(packet_count)] = n
  BY <1>1, <1>2 DEF Back
<1>6. ASSUME NEW i \in 1..packet_count
      PROVE  Held'[i] = Held[i]
  BY <1>1, <1>3, <1>4 DEF Held
<1>7. Len(Held) = packet_count /\ Held' = Append(Held, p)
  <2> DEFINE Elem == {Held[i] : i \in 1..packet_count} \cup {p}
  <2>1. Held \in [1..packet_count -> Elem]
    BY DEF Held
  <2>2. Held'[packet_count + 1] = p
    BY <1>1, <1>3, <1>5 DEF Held
  <2>3. ASSUME NEW i \in 1..(packet_count + 1)
        PROVE  Held'[i] \in Elem
    BY <1>1, <1>6, <2>2
  <2>4. Held' \in [1..(packet_count + 1) -> Elem]
    BY <1>1, <2>3 DEF Held
  <2>5. p \in Elem
    OBVIOUS
  <2> HIDE DEF Elem, p
  <2>6. QED
    BY <1>1, <1>6, <2>1, <2>2, <2>4, <2>5, LongerSequence, FunctionIsSequence
<1>8. p \in [name : 1..MaxPackets, size : 0..packet_size]
  OBVIOUS
<1>9. Queue!Put(p)
  BY <1>1, <1>7, SizeAssumption DEF Queue!Put
<1>10. QED
  BY <1>8, <1>9 DEF Queue!Next

(* The packet that leaves the ring is the first of the queue. *)
LEMMA LeavesQueue ==
    ASSUME Inductive, packet_count > 0, DropFront,
           size' \in {size, [size EXCEPT ![Front] = 0]},
           out' = InFront,
           UNCHANGED data
    PROVE  Queue!Next
<1>1. /\ Front \in Block
      /\ packet_count' = packet_count - 1
      /\ packet_count \in 1..(max_packets - 1)
      /\ \A i \in 0..packet_count' : BlockAt(i)' = BlockAt(i + 1)
      /\ \A i \in 1..(packet_count - 1) : BlockAt(i) # Front /\ BlockAt(i) \in Block
  BY DropShifts
<1>2. size \in [Block -> Unset..packet_size]
  BY DEF Inductive, TypeOK
<1>3. Len(Held) = packet_count /\ Held # << >> /\ Head(Held) = InFront
  BY <1>1 DEF Held, InFront, Front
<1>4. ASSUME NEW i \in 1..(packet_count - 1)
      PROVE  Held'[i] = Held[i + 1]
  <2>1. BlockAt(i - 1)' = BlockAt(i) /\ size'[BlockAt(i)] = size[BlockAt(i)]
    BY <1>1, <1>2
  <2>2. QED
    BY <1>1, <2>1 DEF Held
<1>5. packet_count \in Nat \ {0} /\ 1..packet_count' = 1..(packet_count - 1)
  BY <1>1, SizeAssumption
<1>6. Held' = Tail(Held)
  <2> DEFINE Elem == {Held[i] : i \in 1..packet_count}
  <2>1. Held \in [1..packet_count -> Elem]
    BY DEF Held
  <2>2. ASSUME NEW i \in 1..(packet_count - 1)
        PROVE  Held'[i] \in Elem
    BY <1>4, <1>5
  <2>3. Held' \in [1..(packet_count - 1) -> Elem]
    BY <1>5, <2>2 DEF Held
  <2> HIDE DEF Elem
  <2>4. QED
    BY <1>4, <1>5, <2>1, <2>3, ShorterSequence
<1>7. QED
  BY <1>3, <1>6 DEF Queue!Next, Queue!Take

(* A call that refuses leaves the queue as it is. *)
LEMMA RefuseIsStutter ==
    ASSUME NEW reason, Refuse(reason)
    PROVE  UNCHANGED Queue!vars
  BY DEF Refuse, ring, Queue!vars, Held, BlockAt

LEMMA NextIsQueueNext ==
    ASSUME Inductive, [Next]_vars
    PROVE  [Queue!Next]_(Queue!vars)
<1>1. CASE \E reason : Refuse(reason)
  BY <1>1, RefuseIsStutter
<1>2. CASE ~ \E reason : Refuse(reason)
  <2>1. ASSUME NEW n, fresh < MaxPackets, RecvBack(n)
        PROVE  Queue!Next
    <3>1. PICK rc \in 1..n : n \in 1..packet_size /\ size' = [size EXCEPT ![Back] = rc]
      BY <1>2, <2>1 DEF RecvBack
    <3>2. /\ HasRoom /\ data' = [data EXCEPT ![Back] = fresh + 1]
          /\ packet_count' = packet_count + 1
          /\ UNCHANGED <<packet_offset, out>>
      BY <1>2, <2>1 DEF RecvBack
    <3>3. rc \in 0..packet_size /\ fresh + 1 \in 1..MaxPackets
      BY <2>1, <3>1, SizeAssumption DEF Inductive
    <3>4. data'[Back] = fresh + 1
      BY <3>2, BackIsFree DEF Inductive, TypeOK
    <3>5. QED
      BY <3>1, <3>2, <3>3, <3>4, EntersQueue
  <2>2. ASSUME NEW n, WriteBack(n)
        PROVE  UNCHANGED Queue!vars
    <3>1. /\ HasRoom /\ data' = [data EXCEPT ![Back] = fresh + 1]
          /\ UNCHANGED <<size, packet_offset, packet_count, out>>
      BY <1>2, <2>2 DEF WriteBack
    <3>2. ASSUME NEW i \in 1..packet_count
          PROVE  data'[BlockAt(i - 1)] = data[BlockAt(i - 1)]
      <4>1. BlockAt(i - 1) # Back
        BY <3>1, BackIsFree DEF Inductive, TypeOK
      <4>2. BlockAt(i - 1) \in Block
        BY HeldIsBlock DEF Inductive, TypeOK
      <4>3. QED
        BY <3>1, <4>1, <4>2 DEF Inductive, TypeOK
    <3>3. Held' = Held
      BY <3>1, <3>2 DEF Held, BlockAt
    <3>4. QED
      BY <3>1, <3>3 DEF Queue!vars
  <2>3. ASSUME PushBack PROVE Queue!Next
    <3>1. /\ HasRoom /\ written \in 0..packet_size /\ data[Back] \in 1..MaxPackets
      BY <2>3, SizeAssumption DEF PushBack, Inductive, TypeOK, Unset
    <3>2. QED
      BY <2>3, <3>1, EntersQueue DEF PushBack
  <2>4. ASSUME SendFront PROVE Queue!Next
    BY <1>2, <2>4, LeavesQueue DEF SendFront
  <2>5. ASSUME PopFront PROVE Queue!Next
    BY <1>2, <2>5, LeavesQueue DEF PopFront
  <2>6. ASSUME NEW offset, NEW n, ReadFront(offset, n) PROVE FALSE
    BY <1>2, <2>6 DEF ReadFront
  <2>7. ASSUME UNCHANGED vars PROVE UNCHANGED Queue!vars
    BY <2>7 DEF vars, ring, Queue!vars, Held, BlockAt
  <2>8. QED
    BY <2>1, <2>2, <2>3, <2>4, <2>5, <2>6, <2>7 DEF Next
<1>3. QED
  BY <1>1, <1>2

(* Whatever the calls, and however many blocks there are, packets go through *)
(* the ring as through a queue: whole, once and in order.                    *)
THEOREM IsAPacketQueue == Spec => ImplementsPacketQueue
<1>1. Inductive /\ [Next]_vars => [Queue!Next]_(Queue!vars)
  BY NextIsQueueNext
<1>2. QED
  BY InitIsQueueInit, InductiveHolds, <1>1, PTL DEF Spec, ImplementsPacketQueue, Queue!Spec

-----------------------------------------------------------------------------
(* The order of the names: x is on this side of y.                           *)
Aside(s, x, y) == x # y /\ SideFor(x, y) = s

(* There are two sides.                                                      *)
LEMMA SidesDiffer ==
    ASSUME NEW s \in Side
    PROVE  /\ Other(s) \in Side /\ Other(s) # s /\ Other(Other(s)) = s
           /\ \A r \in Side : r = s \/ r = Other(s)
           /\ Side = {s, Other(s)}
BY DEF Side, Other

(* strcmp after the hashes: a strict order of the names.                     *)
LEMMA PrecedesIsOrder ==
    /\ \A x \in Name : ~Precedes(x, x)
    /\ \A x, y \in Name : x # y => (Precedes(x, y) <=> ~Precedes(y, x))
    /\ \A x, y, z \in Name : Precedes(x, y) /\ Precedes(y, z) => Precedes(x, z)
<1>1. \A x \in Name : x \in Nat /\ Hash[x] \in Nat
  BY TreeAssumption
<1> QED
  BY <1>1 DEF Precedes

LEMMA AsideIs ==
    ASSUME NEW s \in Side, NEW x \in Name, NEW y \in Name
    PROVE  /\ Aside(s, x, y) => x # y /\ ~Aside(Other(s), x, y) /\ Aside(Other(s), y, x)
           /\ x = y \/ Aside(s, x, y) \/ Aside(Other(s), x, y)
           /\ Aside(s, x, y) <=> x # y /\ SideFor(x, y) = s
           /\ SideFor(x, y) \in Side
<1>1. (s = "left" /\ Other(s) = "right") \/ (s = "right" /\ Other(s) = "left")
  BY DEF Side, Other
<1>2. (SideFor(x, y) = "left" /\ Precedes(x, y)) \/ (SideFor(x, y) = "right" /\ ~Precedes(x, y))
  BY DEF SideFor
<1>3. (SideFor(y, x) = "left" /\ Precedes(y, x)) \/ (SideFor(y, x) = "right" /\ ~Precedes(y, x))
  BY DEF SideFor
<1>4. x # y => (Precedes(x, y) <=> ~Precedes(y, x))
  BY PrecedesIsOrder
<1> QED
  BY <1>1, <1>2, <1>3, <1>4 DEF Aside, Side

LEMMA AsideTrans ==
    ASSUME NEW s \in Side, NEW x \in Name, NEW y \in Name, NEW z \in Name,
           Aside(s, x, y), Aside(s, y, z)
    PROVE  Aside(s, x, z)
<1>1. /\ x # y => (Precedes(x, y) <=> ~Precedes(y, x))
      /\ y # z => (Precedes(y, z) <=> ~Precedes(z, y))
      /\ x # z => (Precedes(x, z) <=> ~Precedes(z, x))
      /\ ~Precedes(x, x)
      /\ Precedes(x, y) /\ Precedes(y, z) => Precedes(x, z)
      /\ Precedes(z, y) /\ Precedes(y, x) => Precedes(z, x)
  BY PrecedesIsOrder
<1> QED
  BY <1>1 DEF Aside, SideFor, Side

-----------------------------------------------------------------------------
(* The shape of a tree: its nodes are N, and sub has those from each of them *)
(* down.                                                                     *)
Place == Name \cup {Sentinel}

Par(t, n) == t.parent[n]

Part(sub, s, n) == {x \in sub[n] : Aside(s, x, n)}

Joins(t, N, sub, s, n) ==
    IF Kid(t, s, n) = Sentinel THEN Part(sub, s, n) = {}
    ELSE /\ Kid(t, s, n) \in N /\ Par(t, Kid(t, s, n)) = n
         /\ sub[Kid(t, s, n)] = Part(sub, s, n)

Shape(t, N, sub) ==
    /\ N \in SUBSET Name /\ sub \in [N -> SUBSET N]
    /\ IF N = {} THEN t.root = Sentinel ELSE t.root \in N /\ sub[t.root] = N
    /\ \A n \in N : n \in sub[n] /\ \A s \in Side : Joins(t, N, sub, s, n)

(* Neither the sentinel nor the null pointer is a name, and sets of names    *)
(* are finite.                                                               *)
LEMMA Sentinels == Sentinel \notin Name /\ Null \notin Place /\ \A N \in SUBSET Name : Sentinel \notin N
    /\ IsFiniteSet(N) /\ Cardinality(N) \in Nat
<1>1. Sentinel \notin Name /\ Null \notin Place /\ IsFiniteSet(Name)
  BY TreeAssumption DEF Place
<1>2. \A N \in SUBSET Name : IsFiniteSet(N) /\ Cardinality(N) \in Nat
  BY <1>1, FS_Subset, FS_CardinalityType
<1> QED
  BY <1>1, <1>2

(* What the shape says of one node.                                          *)
LEMMA SubsAre ==
    ASSUME NEW t, NEW N, NEW sub, Shape(t, N, sub), NEW n \in N
    PROVE  /\ n \in Name /\ n # Sentinel /\ N \in SUBSET Name /\ n \in sub[n] /\ sub[n] \in SUBSET N
           /\ sub[n] \in SUBSET Name
           /\ t.root \in N /\ sub[t.root] = N
           /\ \A s \in Side : /\ Joins(t, N, sub, s, n)
                              /\ Part(sub, s, n) \in SUBSET sub[n] /\ n \notin Part(sub, s, n)
                              /\ Kid(t, s, n) = Sentinel \/ Kid(t, s, n) \in N
                              /\ Kid(t, s, n) \in N =>
                                   /\ sub[Kid(t, s, n)] = Part(sub, s, n)
                                   /\ Par(t, Kid(t, s, n)) = n
                                   /\ Kid(t, s, n) \in Part(sub, s, n)
                                   /\ Aside(s, Kid(t, s, n), n)
                              /\ Kid(t, s, n) = Sentinel => Part(sub, s, n) = {}
                              /\ Part(sub, s, n) # {} => Kid(t, s, n) \in N
<1>1. \A s \in Side : Part(sub, s, n) \in SUBSET sub[n] /\ n \notin Part(sub, s, n)
  BY DEF Part, Aside
<1>2. n \in Name /\ n # Sentinel /\ Sentinel \notin N
  BY Sentinels DEF Shape
<1>3. \A m \in N : m \in sub[m]
  BY DEF Shape
<1>4. \A s \in Side : Joins(t, N, sub, s, n)
  BY DEF Shape
<1>5. \A s \in Side : \A x \in Part(sub, s, n) : Aside(s, x, n)
  BY DEF Part
<1>6. \A s \in Side : /\ Kid(t, s, n) = Sentinel \/ Kid(t, s, n) \in N
                      /\ Kid(t, s, n) \in N =>
                                   /\ sub[Kid(t, s, n)] = Part(sub, s, n)
                                   /\ Par(t, Kid(t, s, n)) = n
                      /\ Kid(t, s, n) = Sentinel => Part(sub, s, n) = {}
  BY <1>2, <1>4 DEF Joins
<1>7. /\ N \in SUBSET Name /\ sub[n] \in SUBSET N
      /\ t.root \in N /\ sub[t.root] = N
  BY DEF Shape
<1> QED
  BY <1>1, <1>2, <1>3, <1>4, <1>5, <1>6, <1>7

(* What holds of the root, and of the children of a node if it does of the   *)
(* node, holds of all nodes.                                                 *)
LEMMA TopDown ==
    ASSUME NEW t, NEW N, NEW sub, Shape(t, N, sub),
           NEW S, N # {} => t.root \in S,
           \A n \in N \cap S : \A s \in Side : Kid(t, s, n) \in N => Kid(t, s, n) \in S
    PROVE  N \subseteq S
<1> SUFFICES ASSUME NEW x \in N, x \notin S PROVE FALSE
  OBVIOUS
<1> DEFINE Above == {n \in N \cap S : x \in sub[n]}
           P == {T \in SUBSET N : \A n \in Above : ~(sub[n] \subseteq T)}
<1>1. N \in SUBSET Name /\ IsFiniteSet(N)
  BY Sentinels DEF Shape
<1>2. \A n \in Above : \E m \in Above : sub[m] \subseteq sub[n] \ {n} /\ n \in sub[n] /\ sub[n] \in SUBSET N
  <2> TAKE n \in Above
  <2>1. n \in N /\ n \in S /\ x \in sub[n] /\ x # n /\ n \in Name /\ x \in Name
    BY <1>1
  <2>2. PICK s \in Side : Aside(s, x, n)
    BY <2>1, AsideIs DEF Side
  <2>3. x \in Part(sub, s, n)
    BY <2>1, <2>2 DEF Part
  <2>4. Kid(t, s, n) \in N /\ sub[Kid(t, s, n)] = Part(sub, s, n)
        /\ Part(sub, s, n) \subseteq sub[n] \ {n} /\ n \in sub[n] /\ sub[n] \in SUBSET N
    BY <2>1, <2>3, SubsAre
  <2>5. Kid(t, s, n) \in S
    BY <2>1, <2>4
  <2> QED
    BY <2>3, <2>4, <2>5
<1>3. t.root \in Above
  BY SubsAre
<1> HIDE DEF Above
<1>4. {} \in P
  BY <1>2
<1>5. ASSUME NEW T \in SUBSET N, T # {}, \A y \in T : T \ {y} \in P
      PROVE  T \in P
  <2> SUFFICES ASSUME NEW n \in Above, sub[n] \subseteq T PROVE FALSE
    OBVIOUS
  <2>1. PICK m \in Above : sub[m] \subseteq sub[n] \ {n} /\ n \in sub[n]
    BY <1>2
  <2>2. n \in T /\ sub[m] \subseteq T \ {n}
    BY <2>1
  <2> QED
    BY <1>5, <2>2
<1>6. N \in P
  <2> HIDE DEF P
  <2> QED
    BY <1>1, <1>4, <1>5, FiniteInduct
<1>7. sub[t.root] \in SUBSET N
  BY <1>2, <1>3
<1> QED
  BY <1>3, <1>6, <1>7

(* What holds of a node if it does of its children holds of all nodes.       *)
LEMMA BottomUp ==
    ASSUME NEW t, NEW N, NEW sub, Shape(t, N, sub), NEW S,
           \A n \in N : (\A s \in Side : Kid(t, s, n) \in N => Kid(t, s, n) \in S) => n \in S
    PROVE  N \subseteq S
<1> DEFINE P == {T \in SUBSET N : \A n \in N : sub[n] \subseteq T => n \in S}
<1>1. N \in SUBSET Name /\ IsFiniteSet(N)
  BY Sentinels DEF Shape
<1>2. {} \in P
  BY SubsAre
<1>3. ASSUME NEW T \in SUBSET N, T # {}, \A y \in T : T \ {y} \in P
      PROVE  T \in P
  <2> SUFFICES ASSUME NEW n \in N, sub[n] \subseteq T PROVE n \in S
    OBVIOUS
  <2>1. n \in sub[n] /\ \A s \in Side : Kid(t, s, n) \in N => sub[Kid(t, s, n)] \subseteq sub[n] \ {n}
    BY SubsAre
  <2>2. T \ {n} \in P
    BY <1>3, <2>1
  <2>3. \A s \in Side : Kid(t, s, n) \in N => Kid(t, s, n) \in S
    BY <2>1, <2>2
  <2> QED
    BY <2>3
<1>4. N \in P
  <2> HIDE DEF P
  <2>1. \A T \in SUBSET N : T \in P
    BY <1>1, <1>2, <1>3, FiniteInduct
  <2> QED
    BY <2>1
<1>5. \A n \in N : sub[n] \subseteq N
  BY SubsAre
<1> QED
  BY <1>4, <1>5

LEMMA SomewhereBelow ==
    ASSUME NEW t, NEW N, NEW sub, Shape(t, N, sub), NEW n \in N, NEW x \in sub[n], x # n
    PROVE  \E s \in Side : Kid(t, s, n) \in N /\ x \in sub[Kid(t, s, n)] /\ Aside(s, x, n)
<1>1. n \in Name /\ x \in Name /\ x \in N
  BY SubsAre
<1>2. PICK s \in Side : Aside(s, x, n)
  BY <1>1, AsideIs DEF Side
<1>3. x \in Part(sub, s, n)
  BY <1>2 DEF Part
<1> QED
  BY <1>2, <1>3, SubsAre

(* The nodes below a node that is below another are below that too.          *)
LEMMA Nested ==
    ASSUME NEW t, NEW N, NEW sub, Shape(t, N, sub)
    PROVE  \A n \in N : \A x \in sub[n] : sub[x] \subseteq sub[n]
<1> DEFINE S == {n \in N : \A x \in sub[n] : sub[x] \subseteq sub[n]}
<1>1. ASSUME NEW n \in N, \A s \in Side : Kid(t, s, n) \in N => Kid(t, s, n) \in S
      PROVE  n \in S
  <2>1. ASSUME NEW x \in sub[n], x # n PROVE sub[x] \subseteq sub[n]
    <3>1. PICK s \in Side : Kid(t, s, n) \in N /\ x \in sub[Kid(t, s, n)]
      BY <2>1, SomewhereBelow
    <3>2. sub[x] \subseteq sub[Kid(t, s, n)]
      BY <1>1, <3>1
    <3> QED
      BY <3>1, <3>2, SubsAre
  <2> QED
    BY <2>1
<1> HIDE DEF S
<1>2. N \subseteq S
  BY <1>1, BottomUp
<1> QED
  BY <1>2 DEF S

LEMMA Antisymmetric ==
    ASSUME NEW t, NEW N, NEW sub, Shape(t, N, sub), NEW n \in N, NEW x \in sub[n], n \in sub[x]
    PROVE  x = n
<1> SUFFICES ASSUME x # n PROVE FALSE
  OBVIOUS
<1>1. PICK s \in Side : Kid(t, s, n) \in N /\ x \in sub[Kid(t, s, n)]
  BY SomewhereBelow
<1>2. sub[x] \subseteq sub[Kid(t, s, n)]
  BY <1>1, Nested
<1>3. n \notin sub[Kid(t, s, n)]
  BY <1>1, SubsAre
<1> QED
  BY <1>2, <1>3

LEMMA RootIsTop ==
    ASSUME NEW t, NEW N, NEW sub, Shape(t, N, sub), NEW n \in N
    PROVE  /\ n # t.root => t.root \notin sub[n]
           /\ \A s \in Side : Kid(t, s, n) # t.root
<1>1. t.root \in N /\ n \in sub[t.root]
  BY SubsAre
<1>2. n # t.root => t.root \notin sub[n]
  BY <1>1, Antisymmetric
<1>3. ASSUME NEW s \in Side, Kid(t, s, n) = t.root PROVE FALSE
  <2>1. sub[t.root] = N /\ sub[t.root] = Part(sub, s, n) /\ n \notin Part(sub, s, n)
    BY <1>1, <1>3, SubsAre
  <2> QED
    BY <2>1
<1> QED
  BY <1>2, <1>3

LEMMA KidsDiffer ==
    ASSUME NEW t, NEW N, NEW sub, Shape(t, N, sub), NEW n \in N, NEW m \in N,
           NEW s \in Side, NEW r \in Side, Kid(t, s, n) \in N, Kid(t, s, n) = Kid(t, r, m)
    PROVE  n = m /\ s = r
<1>1. n = m
  BY SubsAre
<1>2. Aside(s, Kid(t, s, n), n) /\ Aside(r, Kid(t, s, n), n)
  BY <1>1, SubsAre
<1> QED
  BY <1>1, <1>2 DEF Aside

(* A node but the root is the child of its parent on one side only.          *)
LEMMA Parents ==
    ASSUME NEW t, NEW N, NEW sub, Shape(t, N, sub), NEW n \in N, n # t.root
    PROVE  /\ Par(t, n) \in N /\ SideOf(t, n) \in Side /\ Kid(t, SideOf(t, n), Par(t, n)) = n
           /\ Par(t, n) # n
           /\ \A s \in Side : \A p \in N : Kid(t, s, p) = n => s = SideOf(t, n) /\ p = Par(t, n)
           /\ Kid(t, Other(SideOf(t, n)), Par(t, n)) # n
           /\ n \in sub[Par(t, n)] /\ Par(t, n) \notin sub[n]
<1> DEFINE S == {m \in N : m = t.root \/ \E p \in N, s \in Side : Kid(t, s, p) = m}
<1>1. N \subseteq S
  <2>1. N # {} => t.root \in S
    BY SubsAre
  <2>2. \A m \in N \cap S : \A s \in Side : Kid(t, s, m) \in N => Kid(t, s, m) \in S
    OBVIOUS
  <2> HIDE DEF S
  <2> QED
    BY <2>1, <2>2, TopDown
<1>2. PICK p \in N, s \in Side : Kid(t, s, p) = n
  BY <1>1
<1>3. Par(t, n) = p
  BY <1>2, SubsAre
<1>4. \A r \in Side : \A q \in N : Kid(t, r, q) = n => r = s /\ q = p
  BY <1>2, KidsDiffer
<1>5. SideOf(t, n) = s
  <2>1. "left" \in Side /\ "right" \in Side /\ (s = "left" \/ s = "right")
    BY DEF Side
  <2>2. SideOf(t, n) = IF Kid(t, "left", p) = n THEN "left" ELSE "right"
    BY <1>3 DEF SideOf, Kid, Par
  <2> QED
    BY <1>2, <1>4, <2>1, <2>2
<1>6. n \in Part(sub, s, p) /\ p \notin Part(sub, s, p) /\ sub[n] = Part(sub, s, p)
          /\ Part(sub, s, p) \subseteq sub[p]
  BY <1>2, SubsAre
<1>7. Other(s) \in Side /\ Other(s) # s
  BY SidesDiffer
<1>8. p # n /\ Kid(t, Other(s), p) # n
  BY <1>4, <1>6, <1>7
<1> QED
  BY <1>2, <1>3, <1>4, <1>5, <1>6, <1>8

(* What is between two nodes below a node is below it too.                   *)
LEMMA Convex ==
    ASSUME NEW t, NEW N, NEW sub, Shape(t, N, sub), NEW s \in Side
    PROVE  \A n \in N : \A x \in sub[n] : \A y \in N : \A z \in sub[n] :
              Aside(s, x, y) /\ Aside(s, y, z) => y \in sub[n]
<1> DEFINE S == {n \in N : \A x \in sub[n] : \A y \in N : \A z \in sub[n] :
                              Aside(s, x, y) /\ Aside(s, y, z) => y \in sub[n]}
<1>1. N # {} => t.root \in S
  BY SubsAre
<1>2. ASSUME NEW n \in N \cap S, NEW r \in Side, Kid(t, r, n) \in N
      PROVE  Kid(t, r, n) \in S
  <2>1. sub[Kid(t, r, n)] = Part(sub, r, n) /\ N \in SUBSET Name /\ sub[n] \in SUBSET N
    BY <1>2, SubsAre
  <2>2. SUFFICES ASSUME NEW x \in Part(sub, r, n), NEW y \in N, NEW z \in Part(sub, r, n),
                        Aside(s, x, y), Aside(s, y, z)
                 PROVE  y \in Part(sub, r, n)
    BY <1>2, <2>1
  <2>3. x \in sub[n] /\ z \in sub[n] /\ Aside(r, x, n) /\ Aside(r, z, n)
    BY DEF Part
  <2>4. y \in sub[n]
    BY <1>2, <2>2, <2>3
  <2>5. x \in Name /\ y \in Name /\ z \in Name /\ n \in Name
    BY <2>1, <2>3
  <2>6. r = s \/ r = Other(s)
    BY SidesDiffer
  <2>7. CASE r = s
    <3>1. Aside(s, y, n)
      BY <2>2, <2>3, <2>5, <2>7, AsideTrans
    <3> QED
      BY <2>4, <2>7, <3>1 DEF Part
  <2>8. CASE r = Other(s)
    <3>1. Aside(r, y, x) /\ Aside(r, x, n)
      BY <2>2, <2>3, <2>5, <2>8, AsideIs
    <3>2. Aside(r, y, n)
      BY <2>5, <3>1, AsideTrans
    <3> QED
      BY <2>4, <3>2 DEF Part
  <2> QED
    BY <2>6, <2>7, <2>8
<1> HIDE DEF S
<1>3. N \subseteq S
  BY <1>1, <1>2, TopDown
<1> QED
  BY <1>3 DEF S

Pointer == Place \cup {Null}

Typed(t) ==
    t \in [root : Place, child : [Side \X Place -> Pointer], parent : [Place -> Pointer], red : SUBSET Place]

LEMMA TypedParts ==
    ASSUME NEW t, Typed(t)
    PROVE  /\ t.root \in Place /\ t.red \in SUBSET Place
           /\ \A s \in Side : \A n \in Place : Kid(t, s, n) \in Pointer
           /\ \A n \in Place : Par(t, n) \in Pointer
BY DEF Typed, Kid, Par

(* up comes where n was, and n below it; inner changes from one to the other. *)
Turns(t, u, s, n, up, inner) ==
    /\ up = Kid(t, Other(s), n) /\ inner = Kid(t, s, up)
    /\ u.root = (IF n = t.root THEN up ELSE t.root)
    /\ \A r \in Side : \A m \in Place :
          Kid(u, r, m) = IF r = Other(s) /\ m = n THEN inner
                         ELSE IF r = s /\ m = up THEN n
                         ELSE IF n # t.root /\ r = SideOf(t, n) /\ m = Par(t, n) THEN up
                         ELSE Kid(t, r, m)
    /\ \A m \in Place :
          Par(u, m) = IF m = n THEN up
                      ELSE IF m = up THEN Par(t, n)
                      ELSE IF m = inner /\ m # Sentinel THEN n
                      ELSE Par(t, m)

(* A rotation is such a turn.                                                *)
LEMMA RotatedTurns ==
    ASSUME NEW t, Typed(t), NEW s \in Side, NEW n \in Place, Kid(t, Other(s), n) \in Place
    PROVE  /\ Typed(Rotated(t, s, n)) /\ Rotated(t, s, n).red = t.red
           /\ \E up \in Place : \E inner \in Pointer : Turns(t, Rotated(t, s, n), s, n, up, inner)
<1>1. PICK r \in Place, c \in [Side \X Place -> Pointer], p \in [Place -> Pointer], d \in SUBSET Place :
         t = [root |-> r, child |-> c, parent |-> p, red |-> d]
  BY DEF Typed
<1>2. PICK up \in Place : up = Kid(t, Other(s), n)
  OBVIOUS
<1>3. PICK inner \in Pointer : inner = Kid(t, s, up)
  BY TypedParts
<1>4. PICK o : o = SideOf(t, n)
  OBVIOUS
<1>5. PICK q \in Pointer : q = Par(t, n)
  BY TypedParts
<1>6. Side \X Place = DOMAIN c /\ DOMAIN p = Place
  OBVIOUS
<1> DEFINE c2 == [e \in Side \X Place |->
                        IF e = <<Other(s), n>> THEN inner
                        ELSE IF e = <<s, up>> THEN n
                        ELSE IF n # r /\ e = <<o, q>> THEN up
                        ELSE c[e]]
           p2 == [m \in Place |->
                         IF m = n THEN up
                         ELSE IF m = up THEN q
                         ELSE IF m = inner /\ m # Sentinel THEN n
                         ELSE p[m]]
           r2 == IF n = r THEN up ELSE r
<1>7. Rotated(t, s, n) = [t EXCEPT !.root = r2, !.child = c2, !.parent = p2]
  <2>1. t.root = r /\ t.child = c /\ t.parent = p
    BY <1>1
  <2> QED
    BY <1>2, <1>3, <1>4, <1>5, <1>6, <2>1 DEF Rotated, Par
<1>8. c2 \in [Side \X Place -> Pointer] /\ p2 \in [Place -> Pointer] /\ r2 \in Place
  BY DEF Pointer
<1>9. \A a \in Side : \A m \in Place : c2[<<a, m>>] = 
                         IF a = Other(s) /\ m = n THEN inner
                         ELSE IF a = s /\ m = up THEN n
                         ELSE IF n # r /\ a = o /\ m = q THEN up
                         ELSE c[<<a, m>>]
  OBVIOUS
<1>10. \A m \in Place : p2[m] = 
                         IF m = n THEN up
                         ELSE IF m = up THEN q
                         ELSE IF m = inner /\ m # Sentinel THEN n
                         ELSE p[m]
  OBVIOUS
<1> HIDE DEF c2, p2, r2
<1>11. Rotated(t, s, n) = [root |-> r2, child |-> c2, parent |-> p2, red |-> d]
  BY <1>1, <1>7
<1>12. PICK u : u = Rotated(t, s, n)
  OBVIOUS
<1>13. u.root = r2 /\ u.child = c2 /\ u.parent = p2 /\ u.red = d /\ t.root = r /\ t.child = c
           /\ t.parent = p /\ t.red = d
  BY <1>1, <1>11, <1>12
<1>14. Typed(u)
  BY <1>8, <1>11, <1>12 DEF Typed
<1>15. \A a \in Side : \A m \in Place :
          Kid(u, a, m) = IF a = Other(s) /\ m = n THEN inner
                         ELSE IF a = s /\ m = up THEN n
                         ELSE IF n # t.root /\ a = SideOf(t, n) /\ m = Par(t, n) THEN up
                         ELSE Kid(t, a, m)
  <2> SUFFICES ASSUME NEW a \in Side, NEW m \in Place
               PROVE  Kid(u, a, m) = IF a = Other(s) /\ m = n THEN inner
                                     ELSE IF a = s /\ m = up THEN n
                                     ELSE IF n # t.root /\ a = SideOf(t, n) /\ m = Par(t, n) THEN up
                                     ELSE Kid(t, a, m)
    OBVIOUS
  <2>1. Kid(u, a, m) = c2[<<a, m>>] /\ Kid(t, a, m) = c[<<a, m>>]
    BY <1>13 DEF Kid
  <2>2. c2[<<a, m>>] = IF a = Other(s) /\ m = n THEN inner
                       ELSE IF a = s /\ m = up THEN n
                       ELSE IF n # r /\ a = o /\ m = q THEN up
                       ELSE c[<<a, m>>]
    BY <1>9
  <2> QED
    BY <1>4, <1>5, <1>13, <2>1, <2>2
<1>16. \A m \in Place :
          Par(u, m) = IF m = n THEN up
                      ELSE IF m = up THEN Par(t, n)
                      ELSE IF m = inner /\ m # Sentinel THEN n
                      ELSE Par(t, m)
  BY <1>5, <1>10, <1>13 DEF Par
<1>17. u.root = (IF n = t.root THEN up ELSE t.root) /\ u.red = t.red
  BY <1>13 DEF r2
<1>18. Turns(t, u, s, n, up, inner)
  BY <1>2, <1>3, <1>15, <1>16, <1>17 DEF Turns
<1> QED
  BY <1>12, <1>14, <1>17, <1>18

(* The nodes below n and up when they are turned.                            *)
SubTurned(sub, s, n, up) ==
    [m \in DOMAIN sub |-> IF m = up THEN sub[n]
                          ELSE IF m = n THEN sub[n] \ ({up} \cup Part(sub, Other(s), up))
                          ELSE sub[m]]

(* A turn leaves a tree of the same nodes in the same order.                 *)
LEMMA TurnKeepsShape ==
    ASSUME NEW t, NEW N, NEW sub, Shape(t, N, sub), NEW u, NEW s \in Side, NEW n \in N,
           NEW up \in N, NEW inner, Turns(t, u, s, n, up, inner)
    PROVE  Shape(u, N, SubTurned(sub, s, n, up))
<1> DEFINE o == Other(s)
           sub2 == SubTurned(sub, s, n, up)
<1>1. o \in Side /\ o # s /\ Other(o) = s /\ \A r \in Side : r = s \/ r = o
  BY SidesDiffer
<1>2. N \in SUBSET Name /\ N \in SUBSET Place /\ Sentinel \notin N /\ sub \in [N -> SUBSET N]
  BY Sentinels DEF Shape, Place
<1>3. /\ up = Kid(t, o, n) /\ up # n /\ sub[up] = Part(sub, o, n) /\ Par(t, up) = n /\ Aside(o, up, n)
      /\ up \in sub[n]
  BY <1>1, SubsAre DEF Turns
<1>17. n \notin sub[up] /\ Part(sub, o, up) \subseteq sub[up] /\ Part(sub, s, up) \subseteq sub[up]
  BY <1>1, <1>3, SubsAre DEF Part
<1>4. up # t.root
  BY <1>1, <1>3, RootIsTop
<1>5. inner = Kid(t, s, up)
  BY DEF Turns
<1>6. sub2 \in [N -> SUBSET N]
  BY <1>2 DEF SubTurned
<1>7. /\ sub2[up] = sub[n] /\ sub2[n] = sub[n] \ ({up} \cup Part(sub, o, up))
      /\ \A m \in N : m # up /\ m # n => sub2[m] = sub[m]
  BY <1>2, <1>3 DEF SubTurned
<1> HIDE DEF sub2
<1>8. u.root \in N /\ sub2[u.root] = N
  <2>1. t.root \in N /\ sub[t.root] = N
    BY SubsAre
  <2>2. u.root = IF n = t.root THEN up ELSE t.root
    BY DEF Turns
  <2> QED
    BY <1>4, <1>7, <2>1, <2>2
<1>9. \A m \in N : m \in sub2[m]
  <2>1. n \in sub[n] /\ up \in sub[n] /\ \A m \in N : m \in sub[m]
    BY <1>3, SubsAre
  <2> QED
    BY <1>3, <1>7, <1>17, <2>1
\* the parts
<1>10. /\ Part(sub2, o, up) = Part(sub, o, up)
       /\ Part(sub2, s, up) = sub2[n]
       /\ Part(sub2, s, n) = Part(sub, s, n)
       /\ Part(sub2, o, n) = Part(sub, s, up)
  <2>1. \A x \in sub[n] : x \in Name /\ (x = n \/ Aside(s, x, n) \/ Aside(o, x, n))
            /\ (x = up \/ Aside(s, x, up) \/ Aside(o, x, up))
    BY <1>2, AsideIs
  <2>2. n \in Name /\ up \in Name /\ n \in sub[n]
    BY <1>2, SubsAre
  <2>3. Aside(s, n, up)
    BY <1>1, <1>3, <2>2, AsideIs
  <2>4. \A x \in sub[n] : Aside(s, x, n) => Aside(s, x, up)
    BY <2>1, <2>2, <2>3, AsideTrans
  <2>5. \A x \in sub[n] : ~(Aside(s, x, up) /\ Aside(o, x, up)) /\ ~(Aside(s, x, n) /\ Aside(o, x, n))
    BY <1>1 DEF Aside
  <2>6. \A x \in sub[n] : Aside(o, x, n) <=> x \in sub[up]
    BY <1>3 DEF Part
  <2>7. \A x \in sub[up] : x \in sub[n]
    BY <1>3 DEF Part
  <2>8. ~Aside(s, n, n) /\ ~Aside(o, n, n) /\ ~Aside(s, up, up) /\ ~Aside(o, up, up) /\ ~Aside(o, n, up)
    BY <2>2, <2>3, <2>5 DEF Aside
  <2>9. \A x \in sub[n] : Aside(o, x, up) => x \in sub[up]
    BY <2>1, <2>4, <2>5, <2>6, <2>8
  <2>10. Part(sub2, o, up) = Part(sub, o, up)
    BY <1>7, <2>7, <2>9 DEF Part
  <2>11. Part(sub2, s, up) = sub2[n]
    BY <1>7, <2>1, <2>5, <2>7, <2>8, <2>9 DEF Part
  <2>12. Part(sub2, s, n) = Part(sub, s, n)
    BY <1>3, <1>7, <2>4, <2>5, <2>8 DEF Part
  <2>13. Part(sub2, o, n) = Part(sub, s, up)
    BY <1>3, <1>7, <2>1, <2>5, <2>6, <2>7, <2>8 DEF Part
  <2> QED
    BY <2>10, <2>11, <2>12, <2>13
<1>11. \A r \in Side : \A m \in N : m # n /\ m # up => Part(sub2, r, m) = Part(sub, r, m)
  BY <1>7 DEF Part
\* the pointers
<1>12. /\ Kid(u, o, n) = inner /\ Kid(u, s, up) = n
       /\ Kid(u, s, n) = Kid(t, s, n) /\ Kid(u, o, up) = Kid(t, o, up)
  <2>1. n # t.root => Par(t, n) # n /\ Par(t, n) # up
    <3>1. n # t.root => Par(t, n) # n /\ Par(t, n) \notin sub[n]
      BY Parents
    <3> QED
      BY <1>3, <3>1
  <2> QED
    BY <1>1, <1>2, <1>3, <2>1 DEF Turns
<1>13. \A r \in Side : \A m \in N :
          m # n /\ m # up => Kid(u, r, m) = IF n # t.root /\ r = SideOf(t, n) /\ m = Par(t, n) THEN up
              ELSE Kid(t, r, m)
  BY <1>1, <1>2 DEF Turns
<1>14. \A m \in N : Par(u, m) = IF m = n THEN up ELSE IF m = up THEN Par(t, n) ELSE IF m = inner THEN n
           ELSE Par(t, m)
  BY <1>2 DEF Turns
<1>15. ASSUME NEW m \in N, m = n \/ m = up, NEW r \in Side PROVE Joins(u, N, sub2, r, m)
  <2>1. CASE m = n /\ r = o
    <3>1. /\ inner = Sentinel => Part(sub, s, up) = {}
          /\ inner # Sentinel => inner \in N /\ sub[inner] = Part(sub, s, up) /\ inner # up /\ inner # n
      <4>1. Joins(t, N, sub, s, up) /\ up \notin Part(sub, s, up) /\ n \notin Part(sub, s, up)
        BY <1>17, SubsAre
      <4>2. inner \in N => inner \in sub[inner]
        BY SubsAre
      <4> QED
        BY <1>5, <4>1, <4>2 DEF Joins
    <3>2. inner # Sentinel => Par(u, inner) = n
      BY <1>14, <3>1
    <3>3. Kid(u, r, m) = inner /\ Part(sub2, r, m) = Part(sub, s, up)
      BY <1>10, <1>12, <2>1
    <3> QED
      BY <1>7, <2>1, <3>1, <3>2, <3>3 DEF Joins
  <2>2. CASE m = n /\ r = s
    <3> DEFINE c == Kid(t, s, n)
    <3>1. Kid(u, r, m) = c /\ Part(sub2, r, m) = Part(sub, s, n)
      BY <1>10, <1>12, <2>2
    <3>2. Joins(t, N, sub, s, n)
      BY SubsAre
    <3>3. c # Sentinel => c # n /\ c # up /\ c # inner /\ c \in N /\ sub[c] = Part(sub, s, n) /\ Par(t, c) = n
      <4> SUFFICES ASSUME c # Sentinel PROVE c # n /\ c # up /\ c # inner
        BY <3>2 DEF Joins
      <4>1. c \in N /\ c # n /\ Par(t, c) = n
        BY <1>2, <3>2, SubsAre DEF Joins
      <4>2. c # up
        BY <1>1, <1>3, <4>1, KidsDiffer
      <4>3. inner \in N => Par(t, inner) = up
        BY <1>5, SubsAre
      <4> QED
        BY <1>3, <4>1, <4>2, <4>3
    <3>4. c # Sentinel => Par(u, c) = n
      BY <1>14, <3>3
    <3> HIDE DEF c
    <3> QED
      BY <1>7, <2>2, <3>1, <3>2, <3>3, <3>4 DEF Joins, c
  <2>3. CASE m = up /\ r = s
    <3>1. Kid(u, r, m) = n /\ Part(sub2, r, m) = sub2[n] /\ Par(u, n) = up
      BY <1>10, <1>12, <1>14, <2>3
    <3> QED
      BY <1>2, <2>3, <3>1 DEF Joins
  <2>4. CASE m = up /\ r = o
    <3> DEFINE c == Kid(t, o, up)
    <3>1. Kid(u, r, m) = c /\ Part(sub2, r, m) = Part(sub, o, up)
      BY <1>10, <1>12, <2>4
    <3>2. Joins(t, N, sub, o, up)
      BY <1>1, SubsAre
    <3>3. c # Sentinel => c # n /\ c # up /\ c # inner /\ c \in N /\ sub[c] = Part(sub, o, up) /\ Par(t, c) = up
      <4> SUFFICES ASSUME c # Sentinel PROVE c # n /\ c # up /\ c # inner
        BY <3>2 DEF Joins
      <4>1. c \in N /\ c # up /\ Par(t, c) = up /\ c \in Part(sub, o, up)
        BY <1>1, <1>2, <3>2, SubsAre DEF Joins
      <4>2. c # inner
        BY <1>1, <1>5, <4>1, KidsDiffer
      <4>3. c # n
        <5>1. n \notin sub[up]
          BY <1>3, SubsAre DEF Part, Aside
        <5> QED
          BY <4>1, <5>1 DEF Part
      <4> QED
        BY <4>1, <4>2, <4>3
    <3>4. c # Sentinel => Par(u, c) = up
      BY <1>14, <3>3
    <3> HIDE DEF c
    <3> QED
      BY <1>7, <2>4, <3>1, <3>2, <3>3, <3>4 DEF Joins, c
  <2> QED
    BY <1>1, <1>15, <2>1, <2>2, <2>3, <2>4
<1>16. ASSUME NEW m \in N, m # n, m # up, NEW r \in Side PROVE Joins(u, N, sub2, r, m)
  <2>1. Joins(t, N, sub, r, m) /\ Part(sub2, r, m) = Part(sub, r, m)
    BY <1>11, <1>16, SubsAre
  <2>2. CASE n # t.root /\ r = SideOf(t, n) /\ m = Par(t, n)
    <3>1. Kid(u, r, m) = up /\ Kid(t, r, m) = n /\ Par(u, up) = m
      BY <1>3, <1>13, <1>14, <1>16, <2>2, Parents
    <3> QED
      BY <1>2, <1>7, <2>1, <3>1 DEF Joins
  <2>3. CASE ~(n # t.root /\ r = SideOf(t, n) /\ m = Par(t, n))
    <3> DEFINE c == Kid(t, r, m)
    <3>1. Kid(u, r, m) = c
      BY <1>13, <1>16, <2>3
    <3>2. c \in N => c # n /\ c # up /\ c # inner /\ Par(t, c) = m
      <4> SUFFICES ASSUME c \in N PROVE c # n /\ c # up /\ c # inner
        BY SubsAre
      <4>1. Par(t, c) = m
        BY SubsAre
      <4>2. c # n
        <5>1. c # t.root
          BY RootIsTop
        <5> QED
          BY <2>3, <5>1, Parents
      <4>3. inner \in N => Par(t, inner) = up
        BY <1>5, SubsAre
      <4> QED
        BY <1>3, <1>16, <4>1, <4>2, <4>3
    <3>3. c \in N => Par(u, c) = m
      BY <1>14, <3>2
    <3> HIDE DEF c
    <3> QED
      BY <1>7, <2>1, <3>1, <3>2, <3>3 DEF Joins, c
  <2> QED
    BY <2>2, <2>3
<1> QED
  BY <1>2, <1>6, <1>8, <1>9, <1>15, <1>16 DEF Shape, sub2

(* Only the colours of a tree change.                                        *)
Coated(t, red) == [t EXCEPT !.red = red]

LEMMA CoatedParts ==
    ASSUME NEW t, Typed(t), NEW red \in SUBSET Place
    PROVE  /\ Typed(Coated(t, red)) /\ Coated(t, red).red = red /\ Coated(t, red).root = t.root
           /\ \A s, n : Kid(Coated(t, red), s, n) = Kid(t, s, n)
           /\ \A n : Par(Coated(t, red), n) = Par(t, n) /\ SideOf(Coated(t, red), n) = SideOf(t, n)
           /\ \A N, sub : Shape(t, N, sub) => Shape(Coated(t, red), N, sub)
<1> DEFINE u == Coated(t, red)
<1>1. /\ Typed(u) /\ u.red = red /\ u.root = t.root /\ u.child = t.child /\ u.parent = t.parent
  BY DEF Typed, Coated
<1> HIDE DEF u
<1>2. /\ \A s, n : Kid(u, s, n) = Kid(t, s, n)
      /\ \A n : Par(u, n) = Par(t, n) /\ SideOf(u, n) = SideOf(t, n)
  BY <1>1 DEF Kid, Par, SideOf
<1>3. \A N, sub : Shape(t, N, sub) => Shape(u, N, sub)
  BY <1>1, <1>2 DEF Shape, Joins
<1> QED
  BY <1>1, <1>2, <1>3 DEF u

(* How each pointer to a child changes in a turn, and where it leads.        *)
LEMMA TurnedKids ==
    ASSUME NEW t, NEW N, NEW sub, Shape(t, N, sub), NEW u, NEW s \in Side, NEW n \in N,
           NEW up \in N, NEW inner, Turns(t, u, s, n, up, inner)
    PROVE  /\ Kid(u, Other(s), n) = inner /\ Kid(u, s, up) = n /\ inner = Kid(t, s, up)
                  /\ up = Kid(t, Other(s), n)
           /\ Kid(u, s, n) = Kid(t, s, n) /\ Kid(u, Other(s), up) = Kid(t, Other(s), up)
           /\ inner \notin {n, up} /\ Kid(t, s, n) \notin {n, up} /\ Kid(t, Other(s), up) \notin {n, up}
           /\ up # n /\ up # t.root
           /\ \A r \in Side : \A m \in N \ {n, up} :
                 \/ Kid(u, r, m) = up /\ Kid(t, r, m) = n
                 \/ Kid(u, r, m) = Kid(t, r, m) /\ Kid(t, r, m) \notin {n, up}
<1> DEFINE o == Other(s)
<1>1. o \in Side /\ o # s /\ Other(o) = s /\ \A r \in Side : r = s \/ r = o
  BY SidesDiffer
<1>2. N \in SUBSET Place /\ Sentinel \notin N
  BY Sentinels DEF Shape, Place
<1>3. /\ up = Kid(t, o, n) /\ up # n /\ sub[up] = Part(sub, o, n) /\ Par(t, up) = n /\ inner = Kid(t, s, up)
  BY <1>1, SubsAre DEF Turns
<1>4. up # t.root
  BY <1>1, <1>3, RootIsTop
<1>5. n # t.root => Par(t, n) # n /\ Par(t, n) # up /\ Kid(t, SideOf(t, n), Par(t, n)) = n
                    /\ \A r \in Side : \A p \in N : Kid(t, r, p) = n => r = SideOf(t, n) /\ p = Par(t, n)
  <2>1. n # t.root => Par(t, n) \notin sub[n]
    BY Parents
  <2>2. up \in sub[n]
    BY <1>1, <1>3, SubsAre
  <2> QED
    BY <2>1, <2>2, Parents
<1>6. /\ Kid(u, o, n) = inner /\ Kid(u, s, up) = n
      /\ Kid(u, s, n) = Kid(t, s, n) /\ Kid(u, o, up) = Kid(t, o, up)
  BY <1>1, <1>2, <1>3, <1>5 DEF Turns
<1>7. \A r \in Side : \A m \in N : m # n /\ m # up =>
         Kid(u, r, m) = IF n # t.root /\ r = SideOf(t, n) /\ m = Par(t, n) THEN up ELSE Kid(t, r, m)
  BY <1>1, <1>2 DEF Turns
<1>8. ASSUME NEW r \in Side, NEW m \in N, Kid(t, r, m) = up PROVE m = n /\ r = o
  BY <1>1, <1>3, <1>8, KidsDiffer
<1>9. ASSUME NEW r \in Side, NEW m \in N, Kid(t, r, m) = n PROVE n # t.root /\ m # up /\ m # n
  <2>1. n # t.root
    BY <1>9, RootIsTop
  <2> QED
    BY <1>5, <1>9, <2>1
<1>10. ASSUME NEW r \in Side, NEW m \in N \ {n, up}
       PROVE \/ Kid(u, r, m) = up /\ Kid(t, r, m) = n
             \/ Kid(u, r, m) = Kid(t, r, m) /\ Kid(t, r, m) \notin {n, up}
  BY <1>5, <1>7, <1>8, <1>9, <1>10
<1>11. inner \notin {n, up} /\ Kid(t, s, n) \notin {n, up} /\ Kid(t, o, up) \notin {n, up}
  BY <1>1, <1>3, <1>8, <1>9
<1> QED
  BY <1>3, <1>4, <1>6, <1>10, <1>11

(* A turn with other colours. *)
LEMMA CoatedTurn ==
    ASSUME NEW t, NEW N, NEW sub, Typed(t), Shape(t, N, sub), NEW red \in SUBSET Place,
           NEW s \in Side, NEW n \in N, Kid(t, Other(s), n) \in N
    PROVE  /\ Typed(Rotated(Coated(t, red), s, n)) /\ Rotated(Coated(t, red), s, n).red = red
           /\ \E up \in N : \E inner \in Pointer : Turns(t, Rotated(Coated(t, red), s, n), s, n, up, inner)
<1>1. PICK v : v = Coated(t, red)
  OBVIOUS
<1>2. /\ Typed(v) /\ v.red = red /\ v.root = t.root
      /\ \A r, m : Kid(v, r, m) = Kid(t, r, m)
      /\ \A m : Par(v, m) = Par(t, m) /\ SideOf(v, m) = SideOf(t, m)
  BY <1>1, CoatedParts
<1>3. n \in Place /\ Kid(v, Other(s), n) \in Place
  BY <1>2, Sentinels DEF Shape, Place
<1>4. PICK w : w = Rotated(v, s, n)
  OBVIOUS
<1>5. PICK up \in Place, inner \in Pointer : Turns(v, w, s, n, up, inner)
  BY <1>2, <1>3, <1>4, RotatedTurns
<1>6. Typed(w) /\ w.red = red
  BY <1>2, <1>3, <1>4, RotatedTurns
<1>7. Turns(t, w, s, n, up, inner) /\ up \in N
  BY <1>2, <1>5 DEF Turns
<1> QED
  BY <1>1, <1>4, <1>6, <1>7

-----------------------------------------------------------------------------
(* The black nodes from a node down are as many on all ways, but for the     *)
(* hole, where one is missing.                                               *)
Own(t, n) == IF n \in t.red THEN 0 ELSE 1
Extra(hole, s, n) == IF <<s, n>> \in hole THEN 1 ELSE 0

Coloured(t, N, bh, hole) ==
    /\ t.red \in SUBSET N
    /\ bh \in [N \cup {Sentinel} -> Nat] /\ bh[Sentinel] = 0
    /\ \A n \in N : \A s \in Side : bh[n] = bh[Kid(t, s, n)] + Extra(hole, s, n) + Own(t, n)

Exchanged(bh, n, up) == [m \in DOMAIN bh |-> IF m = up THEN bh[n] ELSE IF m = n THEN bh[up] ELSE bh[m]]

(* A red child that comes up and gives its colour to the node that goes      *)
(* down: all ways stay as black.                                             *)
LEMMA TurnKeepsColours ==
    ASSUME NEW t, NEW N, NEW sub, Shape(t, N, sub), NEW bh, NEW hole, Coloured(t, N, bh, hole),
           NEW u, NEW s \in Side, NEW n \in N, NEW up \in N, NEW inner,
           Turns(t, u, s, n, up, inner),
           up \in t.red, <<Other(s), n>> \notin hole, <<s, up>> \notin hole,
           u.red = (IF n \in t.red THEN t.red ELSE (t.red \ {up}) \cup {n})
    PROVE  Coloured(u, N, Exchanged(bh, n, up), hole)
<1> DEFINE o == Other(s)
           b2 == Exchanged(bh, n, up)
<1>1. o \in Side /\ o # s /\ Other(o) = s /\ \A r \in Side : r = s \/ r = o
  BY SidesDiffer
<1>2. N \in SUBSET Place /\ Sentinel \notin N
  BY Sentinels DEF Shape, Place
<1>t. /\ Kid(u, o, n) = inner /\ Kid(u, s, up) = n /\ inner = Kid(t, s, up) /\ up = Kid(t, o, n)
      /\ Kid(u, s, n) = Kid(t, s, n) /\ Kid(u, o, up) = Kid(t, o, up)
      /\ inner \notin {n, up} /\ Kid(t, s, n) \notin {n, up} /\ Kid(t, o, up) \notin {n, up}
      /\ up # n
      /\ \A r \in Side : \A m \in N \ {n, up} :
            \/ Kid(u, r, m) = up /\ Kid(t, r, m) = n
            \/ Kid(u, r, m) = Kid(t, r, m) /\ Kid(t, r, m) \notin {n, up}
  BY TurnedKids
<1>3. /\ b2 \in [N \cup {Sentinel} -> Nat] /\ b2[Sentinel] = 0
      /\ b2[up] = bh[n] /\ b2[n] = bh[up]
      /\ \A m \in N \cup {Sentinel} : m # up /\ m # n => b2[m] = bh[m]
  BY <1>2, <1>t DEF Exchanged, Coloured
<1> HIDE DEF b2
<1>4. u.red \in SUBSET N
  BY DEF Coloured
<1>5. /\ Own(t, up) = 0 /\ Own(u, n) = 0 /\ Own(u, up) = Own(t, n)
      /\ \A m \in N : m # up /\ m # n => Own(u, m) = Own(t, m)
      /\ \A m \in N : Own(t, m) \in Nat
  BY <1>t DEF Own
<1>6. \A r \in Side : \A m \in N : Kid(t, r, m) \in N \cup {Sentinel} /\ bh[Kid(t, r, m)] \in Nat
          /\ bh[m] \in Nat
  <2>1. \A r \in Side : \A m \in N : Kid(t, r, m) \in N \cup {Sentinel}
    BY SubsAre
  <2> QED
    BY <2>1 DEF Coloured
<1>7. \A r, m : Extra(hole, r, m) \in Nat
  BY DEF Extra
<1>8. /\ bh[n] = bh[Kid(t, s, n)] + Extra(hole, s, n) + Own(t, n)
      /\ bh[n] = bh[up] + Own(t, n)
      /\ bh[up] = bh[inner]
      /\ bh[up] = bh[Kid(t, o, up)] + Extra(hole, o, up)
  <2>1. up = Kid(t, o, n) /\ inner = Kid(t, s, up)
    BY <1>t
  <2>2. Extra(hole, o, n) = 0 /\ Extra(hole, s, up) = 0
    BY DEF Extra
  <2>3. /\ bh[n] = bh[Kid(t, s, n)] + Extra(hole, s, n) + Own(t, n)
        /\ bh[n] = bh[Kid(t, o, n)] + Extra(hole, o, n) + Own(t, n)
        /\ bh[up] = bh[Kid(t, s, up)] + Extra(hole, s, up) + Own(t, up)
        /\ bh[up] = bh[Kid(t, o, up)] + Extra(hole, o, up) + Own(t, up)
    BY <1>1 DEF Coloured
  <2> QED
    BY <1>1, <1>5, <1>6, <1>7, <2>1, <2>2, <2>3
<1>9. ASSUME NEW r \in Side, NEW m \in N
      PROVE  b2[m] = b2[Kid(u, r, m)] + Extra(hole, r, m) + Own(u, m)
  <2>1. CASE m = n /\ r = s
    <3>1. Kid(u, r, m) = Kid(t, s, n) /\ b2[Kid(t, s, n)] = bh[Kid(t, s, n)]
      BY <1>3, <1>6, <2>1, <1>t
    <3> QED
      BY <1>3, <1>5, <1>6, <1>7, <1>8, <2>1, <3>1
  <2>2. CASE m = n /\ r = o
    <3>1. Kid(u, r, m) = inner /\ b2[inner] = bh[inner] /\ Extra(hole, r, m) = 0 /\ bh[inner] \in Nat
      BY <1>3, <1>6, <2>2, <1>t DEF Extra
    <3>2. b2[m] = bh[inner] /\ Own(u, m) = 0
      BY <1>3, <1>5, <1>8, <2>2
    <3> QED
      BY <3>1, <3>2
  <2>3. CASE m = up /\ r = s
    <3>1. Kid(u, r, m) = n /\ Extra(hole, r, m) = 0
      BY <2>3, <1>t DEF Extra
    <3> QED
      BY <1>3, <1>5, <1>6, <1>7, <1>8, <2>3, <3>1
  <2>4. CASE m = up /\ r = o
    <3>1. Kid(u, r, m) = Kid(t, o, up) /\ b2[Kid(t, o, up)] = bh[Kid(t, o, up)]
      BY <1>1, <1>3, <1>6, <2>4, <1>t
    <3>2. bh[n] = bh[Kid(t, o, up)] + Extra(hole, o, up) + Own(t, n)
      BY <1>1, <1>5, <1>6, <1>7, <1>8
    <3> QED
      BY <1>3, <1>5, <2>4, <3>1, <3>2
  <2>5. CASE m # n /\ m # up
    <3>1. bh[m] = bh[Kid(t, r, m)] + Extra(hole, r, m) + Own(t, m)
      BY DEF Coloured
    <3>2. b2[m] = bh[m] /\ Own(u, m) = Own(t, m)
      BY <1>3, <1>5, <2>5
    <3>3. \/ Kid(u, r, m) = up /\ Kid(t, r, m) = n
          \/ Kid(u, r, m) = Kid(t, r, m) /\ Kid(t, r, m) \notin {n, up}
      BY <2>5, <1>t
    <3>4. b2[Kid(u, r, m)] = bh[Kid(t, r, m)]
      BY <1>3, <1>6, <3>3
    <3> QED
      BY <3>1, <3>2, <3>4
  <2> QED
    BY <1>1, <2>1, <2>2, <2>3, <2>4, <2>5
<1> QED
  BY <1>3, <1>4, <1>9 DEF Coloured, b2

(* The last rotation of a deletion: the sibling takes the colour of the      *)
(* parent, which becomes black, as does the far child, and the hole is       *)
(* filled.                                                                   *)
Filled(bh, n, up, far) ==
    [m \in DOMAIN bh |-> IF m = up THEN bh[n] ELSE IF m = n THEN bh[up]
                         ELSE IF m = far THEN bh[far] + 1 ELSE bh[m]]

(* The same for a hole below the node that goes down, when the far child is  *)
(* red and becomes black.                                                    *)
LEMMA TurnFillsHole ==
    ASSUME NEW t, NEW N, NEW sub, Shape(t, N, sub), NEW bh, NEW hole, Coloured(t, N, bh, hole),
           NEW u, NEW s \in Side, NEW n \in N, NEW up \in N, NEW inner,
           Turns(t, u, s, n, up, inner),
           hole = {<<s, n>>}, up \notin t.red, NEW far, far = Kid(t, Other(s), up), far \in t.red,
           u.red = (t.red \ {up, n, far}) \cup (IF n \in t.red THEN {up} ELSE {})
    PROVE  Coloured(u, N, Filled(bh, n, up, far), {})
<1> DEFINE o == Other(s)
           b2 == Filled(bh, n, up, far)
<1>1. o \in Side /\ o # s /\ Other(o) = s /\ \A r \in Side : r = s \/ r = o
  BY SidesDiffer
<1>2. N \in SUBSET Place /\ Sentinel \notin N
  BY Sentinels DEF Shape, Place
<1>t. /\ Kid(u, o, n) = inner /\ Kid(u, s, up) = n /\ inner = Kid(t, s, up) /\ up = Kid(t, o, n)
      /\ Kid(u, s, n) = Kid(t, s, n) /\ Kid(u, o, up) = Kid(t, o, up)
      /\ inner \notin {n, up} /\ Kid(t, s, n) \notin {n, up} /\ Kid(t, o, up) \notin {n, up}
      /\ up # n
      /\ \A r \in Side : \A m \in N \ {n, up} :
            \/ Kid(u, r, m) = up /\ Kid(t, r, m) = n
            \/ Kid(u, r, m) = Kid(t, r, m) /\ Kid(t, r, m) \notin {n, up}
  BY TurnedKids
<1>3. far \in N /\ far # n /\ far # up /\ up # n
  BY <1>t DEF Coloured
<1>4. /\ b2 \in [N \cup {Sentinel} -> Nat] /\ b2[Sentinel] = 0
      /\ b2[up] = bh[n] /\ b2[n] = bh[up] /\ b2[far] = bh[far] + 1
      /\ \A m \in N \cup {Sentinel} : m # up /\ m # n /\ m # far => b2[m] = bh[m]
  BY <1>2, <1>3 DEF Filled, Coloured
<1> HIDE DEF b2
<1>5. u.red \in SUBSET N
  BY DEF Coloured
<1>6. /\ Own(t, up) = 1 /\ Own(u, n) = 1 /\ Own(u, up) = Own(t, n) /\ Own(u, far) = 1 /\ Own(t, far) = 0
      /\ \A m \in N : m # up /\ m # n /\ m # far => Own(u, m) = Own(t, m)
      /\ \A m \in N : Own(t, m) \in Nat
  BY <1>3 DEF Own
<1>7. \A r \in Side : \A m \in N : Kid(t, r, m) \in N \cup {Sentinel} /\ bh[Kid(t, r, m)] \in Nat
          /\ bh[m] \in Nat
  <2>1. \A r \in Side : \A m \in N : Kid(t, r, m) \in N \cup {Sentinel}
    BY SubsAre
  <2> QED
    BY <2>1 DEF Coloured
<1>8. /\ Extra(hole, s, n) = 1
      /\ \A r \in Side : \A m \in N : ~(r = s /\ m = n) => Extra(hole, r, m) = 0
      /\ \A r, m : Extra({}, r, m) = 0
  BY DEF Extra
<1>9. /\ up = Kid(t, o, n) /\ inner = Kid(t, s, up)
      /\ bh[n] = bh[Kid(t, s, n)] + 1 + Own(t, n)
      /\ bh[n] = bh[up] + Own(t, n)
      /\ bh[up] = bh[inner] + 1
      /\ bh[up] = bh[far] + 1
  <2>1. up = Kid(t, o, n) /\ inner = Kid(t, s, up)
    BY <1>t
  <2>2. Extra(hole, o, n) = 0 /\ Extra(hole, s, up) = 0 /\ Extra(hole, o, up) = 0
    BY <1>1, <1>3, <1>8
  <2>3. /\ bh[n] = bh[Kid(t, s, n)] + Extra(hole, s, n) + Own(t, n)
        /\ bh[n] = bh[Kid(t, o, n)] + Extra(hole, o, n) + Own(t, n)
        /\ bh[up] = bh[Kid(t, s, up)] + Extra(hole, s, up) + Own(t, up)
        /\ bh[up] = bh[Kid(t, o, up)] + Extra(hole, o, up) + Own(t, up)
    BY <1>1 DEF Coloured
  <2> QED
    BY <1>1, <1>6, <1>7, <1>8, <2>1, <2>2, <2>3
<1>10. \A r \in Side : \A m \in N : Kid(t, r, m) = far => r = o /\ m = up
  BY <1>1, <1>3, KidsDiffer
<1>11. ASSUME NEW r \in Side, NEW m \in N
      PROVE  b2[m] = b2[Kid(u, r, m)] + Own(u, m)
  <2>1. CASE m = n /\ r = s
    <3>1. Kid(u, r, m) = Kid(t, s, n) /\ b2[Kid(t, s, n)] = bh[Kid(t, s, n)]
      BY <1>3, <1>4, <1>7, <1>10, <2>1, <1>t
    <3> QED
      BY <1>4, <1>6, <1>7, <1>9, <2>1, <3>1
  <2>2. CASE m = n /\ r = o
    <3>1. Kid(u, r, m) = inner /\ b2[inner] = bh[inner] /\ bh[inner] \in Nat
      BY <1>1, <1>4, <1>7, <1>9, <1>10, <2>2, <1>t
    <3> QED
      BY <1>4, <1>6, <1>7, <1>9, <2>2, <3>1
  <2>3. CASE m = up /\ r = s
    <3>1. Kid(u, r, m) = n
      BY <2>3, <1>t
    <3> QED
      BY <1>4, <1>6, <1>7, <1>9, <2>3, <3>1
  <2>4. CASE m = up /\ r = o
    <3>1. Kid(u, r, m) = far
      BY <2>4, <1>t
    <3> QED
      BY <1>3, <1>4, <1>6, <1>7, <1>9, <2>4, <3>1
  <2>5. CASE m # n /\ m # up
    <3>1. bh[m] = bh[Kid(t, r, m)] + Own(t, m)
      <4>1. bh[m] = bh[Kid(t, r, m)] + Extra(hole, r, m) + Own(t, m)
        BY DEF Coloured
      <4>2. Extra(hole, r, m) = 0 /\ Own(t, m) \in Nat /\ bh[Kid(t, r, m)] \in Nat
        BY <1>6, <1>7, <1>8, <2>5
      <4> QED
        BY <4>1, <4>2
    <3>2. (b2[m] = bh[m] /\ Own(u, m) = Own(t, m)) \/ m = far
      BY <1>4, <1>6, <2>5
    <3>3. \/ Kid(u, r, m) = up /\ Kid(t, r, m) = n
          \/ Kid(u, r, m) = Kid(t, r, m) /\ Kid(t, r, m) \notin {n, up}
      BY <2>5, <1>t
    <3>4. b2[Kid(u, r, m)] = bh[Kid(t, r, m)]
      BY <1>4, <1>7, <1>10, <2>5, <3>3
    <3>5. CASE m = far
      BY <1>4, <1>6, <1>7, <3>1, <3>4, <3>5
    <3> QED
      BY <3>1, <3>2, <3>4, <3>5
  <2> QED
    BY <1>1, <2>1, <2>2, <2>3, <2>4, <2>5
<1>12. ASSUME NEW r \in Side, NEW m \in N
      PROVE  b2[m] = b2[Kid(u, r, m)] + Extra({}, r, m) + Own(u, m)
  <2>1. Kid(u, r, m) \in N \cup {Sentinel}
    <3>1. r = s \/ r = o
      BY <1>1
    <3>2. Kid(t, r, m) \in N \cup {Sentinel} /\ inner \in N \cup {Sentinel}
      BY <1>7, <1>9
    <3> QED
      BY <3>1, <3>2, <1>t
  <2>2. b2[Kid(u, r, m)] \in Nat /\ Own(u, m) \in Nat
    BY <1>4, <2>1 DEF Own
  <2> QED
    BY <1>8, <1>11, <2>2
<1> QED
  BY <1>4, <1>5, <1>12 DEF Coloured, b2

-----------------------------------------------------------------------------
(* Two reds in a row are only where the lower one is in one set or the upper *)
(* one in the other.                                                         *)
Reds(t, N, lower, upper) ==
    \A n \in N : \A s \in Side : n \in t.red /\ Kid(t, s, n) \in t.red => Kid(t, s, n) \in lower \/ n \in upper

Tree(t, N, sub, bh, hole) == Typed(t) /\ Shape(t, N, sub) /\ Coloured(t, N, bh, hole)

Resting(t, N) == t.root \notin t.red /\ Reds(t, N, {}, {})

Inserting(t, a, N) ==
    /\ a \in N /\ a \in t.red
    /\ t.root \in t.red => a = t.root
    /\ Reds(t, N, {a}, {})

Deleting(t, a, N, hole) ==
    /\ t.root \notin t.red /\ Reds(t, N, {a}, {a})
    /\ a \in N \cup {Sentinel}
    /\ \/ a = t.root /\ hole = {}
       \/ /\ a # t.root /\ Par(t, a) \in N
          /\ \E s \in Side : Kid(t, s, Par(t, a)) = a /\ hole = {<<s, Par(t, a)>>}

LEMMA Kinds ==
    ASSUME NEW t, NEW N, NEW sub, NEW bh, NEW hole, Tree(t, N, sub, bh, hole)
    PROVE  /\ Typed(t) /\ Shape(t, N, sub) /\ Coloured(t, N, bh, hole)
           /\ N \in SUBSET Name /\ N \in SUBSET Place /\ Sentinel \notin N
           /\ t.red \in SUBSET N /\ t.red \in SUBSET Place
BY Sentinels DEF Tree, Shape, Coloured, Place

-----------------------------------------------------------------------------
(* Insertion.                                                                *)
LEMMA RecolourKeeps ==
    ASSUME NEW t, NEW N, NEW sub, NEW bh, Tree(t, N, sub, bh, {}), NEW a, Inserting(t, a, N),
           a # t.root, NEW p, p = Par(t, a), p \in t.red, NEW g, g = Par(t, p), NEW c,
           c = Kid(t, Other(SideOf(t, p)), g), c \in t.red,
           NEW u, u = Coated(t, (t.red \ {p, c}) \cup {g})
    PROVE  \E bh2 : Tree(u, N, sub, bh2, {}) /\ Inserting(u, g, N)
<1>1. /\ Typed(t) /\ Shape(t, N, sub) /\ Coloured(t, N, bh, {})
      /\ N \in SUBSET Name /\ N \in SUBSET Place /\ Sentinel \notin N
      /\ t.red \in SUBSET N /\ t.red \in SUBSET Place
  BY Kinds
<1>2. a \in N /\ a \in t.red /\ t.root \notin t.red /\ Reds(t, N, {a}, {})
  BY DEF Inserting
<1>3. p \in N /\ p # a /\ p # t.root /\ Kid(t, SideOf(t, a), p) = a /\ SideOf(t, a) \in Side
  BY <1>1, <1>2, Parents
<1>4. /\ g \in N /\ g # p /\ SideOf(t, p) \in Side /\ Kid(t, SideOf(t, p), g) = p /\ c # p /\ c \in N
      /\ \A s \in Side : \A m \in N : Kid(t, s, m) = p => m = g /\ s = SideOf(t, p)
  BY <1>1, <1>3, Parents
<1>5. g \notin t.red
  BY <1>2, <1>3, <1>4 DEF Reds
<1> DEFINE s == SideOf(t, p)
           o == Other(s)
           red == (t.red \ {p, c}) \cup {g}
           bh2 == [m \in DOMAIN bh |-> IF m \in {p, c} THEN bh[m] + 1 ELSE bh[m]]
<1>6. o \in Side /\ o # s /\ \A r \in Side : r = s \/ r = o
  BY <1>4, SidesDiffer
<1>7. \A r \in Side : \A m \in N : Kid(t, r, m) = c => m = g /\ r = o
  BY <1>1, <1>4, <1>6, KidsDiffer
<1>8. Typed(u) /\ Shape(u, N, sub) /\ u.red = red /\ u.root = t.root /\ \A r, m : Kid(u, r, m) = Kid(t, r, m)
  BY <1>1, <1>4, CoatedParts
<1>9. red \in SUBSET N
  BY <1>1, <1>4
<1>10. bh \in [N \cup {Sentinel} -> Nat] /\ bh[Sentinel] = 0
  BY <1>1 DEF Coloured
<1>11. /\ bh2 \in [N \cup {Sentinel} -> Nat] /\ bh2[Sentinel] = 0
       /\ bh2[p] = bh[p] + 1 /\ bh2[c] = bh[c] + 1
       /\ \A m \in N \cup {Sentinel} : m # p /\ m # c => bh2[m] = bh[m]
  BY <1>1, <1>3, <1>4, <1>10
<1> HIDE DEF bh2
<1>12. ASSUME NEW m \in N, NEW r \in Side
       PROVE  bh2[m] = bh2[Kid(u, r, m)] + Extra({}, r, m) + Own(u, m)
  <2>1. bh[m] = bh[Kid(t, r, m)] + Extra({}, r, m) + Own(t, m)
    BY <1>1 DEF Coloured
  <2>2. PICK k \in N \cup {Sentinel} : k = Kid(t, r, m)
    BY <1>1, SubsAre
  <2>3. PICK x \in Nat : x = bh[m]
    BY <1>10
  <2>4. PICK y \in Nat : y = bh[k]
    BY <1>10
  <2>5. Extra({}, r, m) = 0 /\ Own(t, m) \in Nat /\ Own(u, m) \in Nat
    BY DEF Extra, Own
  <2>8. x = y + Own(t, m)
    BY <2>1, <2>2, <2>3, <2>4, <2>5
  <2>6. CASE m = g
    <3>1. k = p \/ k = c
      BY <1>4, <1>6, <2>2, <2>6
    <3>2. bh2[k] = y + 1 /\ bh2[m] = x
      <4>1. m # p /\ m # c
        BY <1>4, <1>5, <2>6
      <4> QED
        BY <1>11, <1>3, <1>4, <2>3, <2>4, <3>1, <4>1
    <3>3. Own(t, m) = 1 /\ Own(u, m) = 0
      BY <1>5, <1>8, <2>6 DEF Own
    <3> QED
      <4>1. bh2[m] = bh2[k] + 0 + 0
        BY <2>8, <3>2, <3>3
      <4> QED
        BY <1>8, <2>2, <2>5, <3>3, <4>1
  <2>7. CASE m # g
    <3>1. k # p /\ k # c
      BY <1>4, <1>7, <2>2, <2>7
    <3>2. bh2[k] = y
      BY <1>11, <2>4, <3>1
    <3>3. CASE m = p \/ m = c
      <4>1. Own(t, m) = 0 /\ Own(u, m) = 1 /\ bh2[m] = x + 1
        BY <1>8, <1>11, <2>3, <2>7, <3>3 DEF Own
      <4>2. bh2[m] = bh2[k] + 0 + Own(u, m)
        BY <2>8, <3>2, <4>1
      <4> QED
        BY <1>8, <2>2, <2>5, <4>2
    <3>4. CASE m # p /\ m # c
      <4>1. Own(t, m) = Own(u, m) /\ bh2[m] = x
        BY <1>8, <1>11, <2>3, <2>7, <3>4 DEF Own
      <4>2. bh2[m] = bh2[k] + 0 + Own(u, m)
        BY <2>8, <3>2, <4>1
      <4> QED
        BY <1>8, <2>2, <2>5, <4>2
    <3> QED
      BY <3>3, <3>4
  <2> QED
    BY <2>6, <2>7
<1>13. Coloured(u, N, bh2, {})
  BY <1>8, <1>9, <1>11, <1>12 DEF Coloured
<1>14. Reds(u, N, {g}, {})
  <2> SUFFICES ASSUME NEW m \in N, NEW r \in Side, m \in red, Kid(t, r, m) \in red, Kid(t, r, m) # g PROVE FALSE
    BY <1>8 DEF Reds
  <2>1. m # g
    BY <1>4, <1>6
  <2>2. m \in t.red /\ Kid(t, r, m) \in t.red
    BY <2>1
  <2>3. Kid(t, r, m) = a
    BY <1>2, <2>2 DEF Reds
  <2>4. m = p
    BY <1>1, <1>2, <1>3, <2>3, KidsDiffer
  <2> QED
    BY <1>4, <2>4
<1>15. Inserting(u, g, N)
  BY <1>2, <1>4, <1>8, <1>14 DEF Inserting
<1> QED
  BY <1>8, <1>13, <1>15 DEF Tree

(* The rotation of an inner node leaves its parent in its place.             *)
InnerCase(t, a, N, sub, bh, p, g, s) ==
    /\ Tree(t, N, sub, bh, {}) /\ Inserting(t, a, N)
    /\ a # t.root /\ p = Par(t, a) /\ p \in t.red /\ g = Par(t, p)
    /\ s = SideOf(t, p) /\ a = Kid(t, Other(s), p) /\ Kid(t, Other(s), g) \notin t.red

InnerTurned(u, a, N, p, g, s) ==
    /\ \E sub, bh : Tree(u, N, sub, bh, {}) /\ Inserting(u, p, N)
    /\ p # u.root /\ Par(u, p) = a /\ a \in u.red /\ Par(u, a) = g /\ s = SideOf(u, a)
    /\ p = Kid(u, s, a) /\ Kid(u, Other(s), g) \notin u.red

(* The first rotation of ss_rbtree_insert, of an inner node.                 *)
LEMMA InnerTurnKeeps ==
    ASSUME NEW t, NEW a, NEW N, NEW sub, NEW bh, NEW p, NEW g, NEW s,
           InnerCase(t, a, N, sub, bh, p, g, s)
    PROVE  InnerTurned(Rotated(t, s, p), a, N, p, g, s)
<1>a. PICK u : u = Rotated(t, s, p)
  OBVIOUS
<1>b. /\ Tree(t, N, sub, bh, {}) /\ Inserting(t, a, N)
      /\ a # t.root /\ p = Par(t, a) /\ p \in t.red /\ g = Par(t, p)
      /\ s = SideOf(t, p) /\ a = Kid(t, Other(s), p) /\ Kid(t, Other(s), g) \notin t.red
  BY DEF InnerCase
<1> DEFINE o == Other(s)
<1>1. /\ Typed(t) /\ Shape(t, N, sub) /\ Coloured(t, N, bh, {})
      /\ N \in SUBSET Name /\ N \in SUBSET Place /\ Sentinel \notin N
      /\ t.red \in SUBSET N /\ t.red \in SUBSET Place
  BY <1>b, Kinds
<1>2. a \in N /\ a \in t.red /\ t.root \notin t.red /\ Reds(t, N, {a}, {})
  BY <1>b DEF Inserting
<1>3. p \in N /\ p # a /\ p # t.root
  BY <1>1, <1>2, <1>b, Parents
<1>4. /\ g \in N /\ g # p /\ s \in Side /\ Kid(t, s, g) = p
      /\ \A r \in Side : \A m \in N : Kid(t, r, m) = p => m = g /\ r = s
  BY <1>1, <1>3, <1>b, Parents
<1>5. g \notin t.red
  BY <1>2, <1>3, <1>4, <1>b DEF Reds
<1>6. o \in Side /\ o # s /\ Other(o) = s /\ \A r \in Side : r = s \/ r = o
  BY <1>4, SidesDiffer
<1>7. PICK inner \in Pointer : Typed(u) /\ u.red = t.red /\ Turns(t, u, s, p, a, inner)
  <2>1. p \in Place /\ Kid(t, Other(s), p) \in Place /\ Typed(t) /\ s \in Side
    BY <1>1, <1>2, <1>3, <1>4, <1>b
  <2>2. Typed(Rotated(t, s, p)) /\ Rotated(t, s, p).red = t.red
        /\ \E up \in Place : \E inner \in Pointer : Turns(t, Rotated(t, s, p), s, p, up, inner)
    BY <2>1, RotatedTurns
  <2>3. PICK up \in Place, inner \in Pointer : Turns(t, u, s, p, up, inner)
    BY <2>2, <1>a
  <2>4. up = a
    BY <2>3, <1>b DEF Turns
  <2> QED
    BY <2>2, <2>3, <2>4, <1>a
<1>8. PICK sub2 : Shape(u, N, sub2)
  BY <1>1, <1>2, <1>3, <1>4, <1>7, TurnKeepsShape
<1>9. PICK bh2 : Coloured(u, N, bh2, {})
  <2>1. u.red = IF p \in t.red THEN t.red ELSE (t.red \ {a}) \cup {p}
    BY <1>7, <1>b
  <2> QED
    BY <1>1, <1>2, <1>3, <1>4, <1>7, <2>1, TurnKeepsColours
<1>10. /\ Kid(u, o, p) = inner /\ Kid(u, s, a) = p /\ inner = Kid(t, s, a)
       /\ Kid(u, s, p) = Kid(t, s, p) /\ Kid(u, o, a) = Kid(t, o, a)
       /\ Kid(t, s, p) # a /\ inner # a /\ Kid(t, o, a) # a
       /\ \A r \in Side : \A m \in N \ {p, a} :
                 \/ Kid(u, r, m) = a /\ Kid(t, r, m) = p
                 \/ Kid(u, r, m) = Kid(t, r, m) /\ Kid(t, r, m) \notin {p, a}
  BY <1>1, <1>2, <1>3, <1>4, <1>7, TurnedKids
<1>11. g # a
  BY <1>2, <1>5
<1>12. Kid(u, s, g) = a /\ Kid(u, o, g) \notin u.red
  <2>1. Kid(u, s, g) = a
    BY <1>4, <1>10, <1>11
  <2>2. Kid(t, o, g) # p
    BY <1>4, <1>6
  <2> QED
    BY <1>4, <1>6, <1>7, <1>10, <1>11, <2>1, <2>2, <1>b
<1>13. /\ Par(u, p) = a /\ Par(u, a) = g
  BY <1>1, <1>2, <1>3, <1>7, <1>b DEF Turns
<1>14. u.root = t.root /\ s = SideOf(u, a)
  <2>1. u.root = t.root
    BY <1>3, <1>7 DEF Turns
  <2> QED
    BY <1>2, <1>4, <1>8, <1>12, <2>1, Parents
<1>15. Reds(u, N, {p}, {})
  <2> SUFFICES ASSUME NEW m \in N, NEW r \in Side, m \in t.red, Kid(u, r, m) \in t.red,
                      Kid(u, r, m) # p PROVE FALSE
    BY <1>7 DEF Reds
  <2>1. \A q \in N : \A b \in Side : q \in t.red /\ Kid(t, b, q) \in t.red => Kid(t, b, q) = a
    BY <1>2 DEF Reds
  <2>2. m # p
    <3> SUFFICES ASSUME m = p PROVE FALSE
      OBVIOUS
    <3>1. CASE r = s
      BY <1>4, <1>10, <2>1, <3>1
    <3>2. CASE r = o
      <4>1. Kid(t, s, a) \in t.red /\ Kid(t, s, a) # a
        BY <1>10, <3>2
      <4>2. a \in N /\ a \in t.red /\ s \in Side
        BY <1>2, <1>4
      <4> QED
        BY <2>1, <4>1, <4>2
    <3> QED
      BY <1>6, <3>1, <3>2
  <2>3. m # a
    BY <1>2, <1>4, <1>6, <1>10, <2>1
  <2>4. m # g
    BY <1>5
  <2> QED
    BY <1>4, <1>10, <2>1, <2>2, <2>3, <2>4
<1>16. Inserting(u, p, N)
  BY <1>2, <1>3, <1>7, <1>14, <1>15, <1>b DEF Inserting
<1> QED
  <2>1. Tree(u, N, sub2, bh2, {})
    BY <1>7, <1>8, <1>9 DEF Tree
  <2>2. p # u.root /\ Par(u, p) = a /\ a \in u.red /\ Par(u, a) = g /\ s = SideOf(u, a)
        /\ p = Kid(u, s, a) /\ Kid(u, Other(s), g) \notin u.red
    BY <1>2, <1>3, <1>7, <1>10, <1>12, <1>13, <1>14
  <2> QED
    BY <1>a, <1>16, <2>1, <2>2 DEF InnerTurned

(* The rotation of the grandparent ends with no two reds.                    *)
LEMMA OuterTurnKeeps ==
    ASSUME NEW t, NEW N, NEW sub, NEW bh, Tree(t, N, sub, bh, {}), NEW a, Inserting(t, a, N),
           a # t.root, NEW p, p = Par(t, a), p \in t.red, NEW g, g = Par(t, p),
           NEW s, s = SideOf(t, p), a = Kid(t, s, p), Kid(t, Other(s), g) \notin t.red,
           NEW u, u = Rotated(Coated(t, (t.red \ {p}) \cup {g}), Other(s), g)
    PROVE  \E sub2, bh2 : Tree(u, N, sub2, bh2, {}) /\ Inserting(u, a, N)
<1> DEFINE o == Other(s)
           red == (t.red \ {p}) \cup {g}
<1>1. /\ Typed(t) /\ Shape(t, N, sub) /\ Coloured(t, N, bh, {})
      /\ N \in SUBSET Name /\ N \in SUBSET Place /\ Sentinel \notin N
      /\ t.red \in SUBSET N /\ t.red \in SUBSET Place
  BY Kinds
<1>2. a \in N /\ a \in t.red /\ t.root \notin t.red /\ Reds(t, N, {a}, {})
  BY DEF Inserting
<1>3. p \in N /\ p # a /\ p # t.root
  BY <1>1, <1>2, Parents
<1>4. /\ g \in N /\ g # p /\ s \in Side /\ Kid(t, s, g) = p
      /\ \A r \in Side : \A m \in N : Kid(t, r, m) = p => m = g /\ r = s
  BY <1>1, <1>3, Parents
<1>5. g \notin t.red
  BY <1>2, <1>3, <1>4 DEF Reds
<1>6. o \in Side /\ o # s /\ Other(o) = s /\ \A r \in Side : r = s \/ r = o
  BY <1>4, SidesDiffer
<1>7. PICK inner \in Pointer : Typed(u) /\ u.red = red /\ Turns(t, u, o, g, p, inner)
  <2>1. /\ red \in SUBSET Place /\ Kid(t, Other(o), g) = p /\ p \in N /\ g \in N
        /\ o \in Side /\ Typed(t) /\ Shape(t, N, sub)
    BY <1>1, <1>3, <1>4, <1>6
  <2> HIDE DEF o, red
  <2>2. Typed(Rotated(Coated(t, red), o, g)) /\ Rotated(Coated(t, red), o, g).red = red
        /\ \E up \in N : \E inner \in Pointer : Turns(t, Rotated(Coated(t, red), o, g), o, g, up, inner)
    BY <2>1, CoatedTurn
  <2>3. PICK up \in N, inner \in Pointer : Turns(t, u, o, g, up, inner)
    BY <2>2 DEF o, red
  <2>4. up = p
    BY <2>1, <2>3 DEF Turns
  <2> QED
    BY <2>2, <2>3, <2>4 DEF o, red
<1>8. PICK sub2 : Shape(u, N, sub2)
  BY <1>1, <1>3, <1>4, <1>6, <1>7, TurnKeepsShape
<1>9. PICK bh2 : Coloured(u, N, bh2, {})
  BY <1>1, <1>3, <1>4, <1>5, <1>6, <1>7, TurnKeepsColours
<1>10. /\ Kid(u, s, g) = inner /\ Kid(u, o, p) = g /\ inner = Kid(t, o, p)
       /\ Kid(u, o, g) = Kid(t, o, g) /\ Kid(u, s, p) = a
       /\ Kid(t, o, g) # p /\ inner # p /\ inner # a
       /\ \A r \in Side : \A m \in N \ {g, p} :
                 \/ Kid(u, r, m) = p /\ Kid(t, r, m) = g
                 \/ Kid(u, r, m) = Kid(t, r, m) /\ Kid(t, r, m) \notin {g, p}
  <2>1. Kid(t, o, p) # a
    BY <1>1, <1>2, <1>3, <1>4, <1>6, KidsDiffer
  <2>2. /\ Kid(u, Other(o), g) = inner /\ Kid(u, o, p) = g /\ inner = Kid(t, o, p)
        /\ Kid(u, o, g) = Kid(t, o, g) /\ Kid(u, Other(o), p) = Kid(t, Other(o), p)
        /\ Kid(t, o, g) \notin {g, p} /\ inner \notin {g, p}
        /\ \A r \in Side : \A m \in N \ {g, p} :
                 \/ Kid(u, r, m) = p /\ Kid(t, r, m) = g
                 \/ Kid(u, r, m) = Kid(t, r, m) /\ Kid(t, r, m) \notin {g, p}
    BY <1>1, <1>3, <1>4, <1>6, <1>7, TurnedKids
  <2>3. Other(o) = s
    BY <1>6
  <2> QED
    BY <2>1, <2>2, <2>3
<1>11. \A q \in N : \A b \in Side : q \in t.red /\ Kid(t, b, q) \in t.red => Kid(t, b, q) = a
  BY <1>2 DEF Reds
<1>12. inner \notin t.red
  BY <1>3, <1>6, <1>10, <1>11
<1>13. inner # g
  BY <1>1, <1>3, <1>4, <1>6, <1>7, TurnedKids
<1>14. Reds(u, N, {a}, {})
  <2> SUFFICES ASSUME NEW m \in N, NEW r \in Side, m \in red, Kid(u, r, m) \in red PROVE FALSE
    BY <1>7 DEF Reds
  <2>1. m # p
    BY <1>4
  <2>2. CASE m = g
    <3>1. Kid(u, r, m) \notin t.red /\ Kid(u, r, m) # g
      <4>1. Kid(t, o, g) # g
        BY <1>1, <1>3, <1>4, <1>6, <1>7, TurnedKids
      <4>2. Kid(u, s, g) = inner /\ Kid(u, o, g) = Kid(t, o, g) /\ (r = s \/ r = o)
        BY <1>6, <1>10
      <4> QED
        BY <1>12, <1>13, <2>2, <4>1, <4>2
    <3> QED
      BY <3>1
  <2>3. CASE m # g
    <3>1. Kid(u, r, m) = Kid(t, r, m) /\ Kid(t, r, m) \in t.red /\ m \in t.red
      BY <1>10, <2>1, <2>3
    <3>2. m = p
      BY <1>1, <1>2, <1>3, <1>4, <1>11, <3>1, KidsDiffer
    <3> QED
      BY <2>1, <3>2
  <2> QED
    BY <2>2, <2>3
<1>15. u.root \notin red
  <2>1. u.root = IF g = t.root THEN p ELSE t.root
    BY <1>7 DEF Turns
  <2> QED
    BY <1>2, <1>4, <2>1
<1>16. Inserting(u, a, N)
  BY <1>2, <1>3, <1>7, <1>14, <1>15 DEF Inserting
<1> QED
  BY <1>7, <1>8, <1>9, <1>16 DEF Tree

(* The end of the loop.                                                      *)
LEMMA InsertionEnds ==
    ASSUME NEW t, NEW N, NEW sub, NEW bh, Tree(t, N, sub, bh, {}), NEW a, Inserting(t, a, N),
           a = t.root \/ Par(t, a) \notin t.red,
           NEW u, u = Coated(t, t.red \ {t.root})
    PROVE  \E bh2 : Tree(u, N, sub, bh2, {}) /\ Resting(u, N)
<1> DEFINE q == t.root
           red == t.red \ {q}
           bh2 == [m \in DOMAIN bh |-> IF m = q /\ q \in t.red THEN bh[m] + 1 ELSE bh[m]]
<1>1. /\ Typed(t) /\ Shape(t, N, sub) /\ Coloured(t, N, bh, {})
      /\ N \in SUBSET Name /\ N \in SUBSET Place /\ Sentinel \notin N
      /\ t.red \in SUBSET N /\ t.red \in SUBSET Place
  BY Kinds
<1>2. a \in N /\ a \in t.red /\ Reds(t, N, {a}, {})
  BY DEF Inserting
<1>3. q \in N
  BY <1>1, <1>2, SubsAre
<1>8. Typed(u) /\ Shape(u, N, sub) /\ u.red = red /\ u.root = t.root /\ \A r, m : Kid(u, r, m) = Kid(t, r, m)
  BY <1>1, CoatedParts
<1>9. red \in SUBSET N
  BY <1>1
<1>10. bh \in [N \cup {Sentinel} -> Nat] /\ bh[Sentinel] = 0
  BY <1>1 DEF Coloured
<1>11. /\ bh2 \in [N \cup {Sentinel} -> Nat] /\ bh2[Sentinel] = 0
       /\ q \in t.red => bh2[q] = bh[q] + 1
       /\ q \notin t.red => bh2[q] = bh[q]
       /\ \A m \in N \cup {Sentinel} : m # q => bh2[m] = bh[m]
  BY <1>1, <1>3, <1>10
<1> HIDE DEF bh2
<1>12. ASSUME NEW m \in N, NEW r \in Side
       PROVE  bh2[m] = bh2[Kid(u, r, m)] + Extra({}, r, m) + Own(u, m)
  <2>1. bh[m] = bh[Kid(t, r, m)] + Extra({}, r, m) + Own(t, m)
    BY <1>1 DEF Coloured
  <2>2. PICK k \in N \cup {Sentinel} : k = Kid(t, r, m) /\ k # q
    BY <1>1, SubsAre, RootIsTop
  <2>3. PICK x \in Nat : x = bh[m]
    BY <1>10
  <2>4. PICK y \in Nat : y = bh[k] /\ y = bh2[k]
    BY <1>10, <1>11, <2>2
  <2>5. Extra({}, r, m) = 0 /\ Own(t, m) \in Nat /\ Own(u, m) \in Nat
    BY DEF Extra, Own
  <2>8. x = y + Own(t, m)
    BY <2>1, <2>2, <2>3, <2>4, <2>5
  <2>6. CASE m = q /\ q \in t.red
    <3>3. Own(t, m) = 0 /\ Own(u, m) = 1 /\ bh2[m] = x + 1
      BY <1>8, <1>11, <2>3, <2>6 DEF Own
    <3>4. bh2[m] = bh2[k] + 0 + Own(u, m)
      BY <2>4, <2>8, <3>3
    <3> QED
      BY <1>8, <2>2, <2>5, <3>4
  <2>7. CASE ~(m = q /\ q \in t.red)
    <3>3. Own(t, m) = Own(u, m) /\ bh2[m] = x
      BY <1>8, <1>11, <2>3, <2>7 DEF Own
    <3>4. bh2[m] = bh2[k] + 0 + Own(u, m)
      BY <2>4, <2>8, <3>3
    <3> QED
      BY <1>8, <2>2, <2>5, <3>4
  <2> QED
    BY <2>6, <2>7
<1>13. Coloured(u, N, bh2, {})
  BY <1>8, <1>9, <1>11, <1>12 DEF Coloured
<1>14. Reds(u, N, {}, {})
  <2> SUFFICES ASSUME NEW m \in N, NEW r \in Side, m \in red, Kid(t, r, m) \in red PROVE FALSE
    BY <1>8 DEF Reds
  <2>1. Kid(t, r, m) = a
    BY <1>2 DEF Reds
  <2>2. Par(t, a) = m
    BY <1>1, <1>2, <2>1, SubsAre
  <2>3. a # t.root
    BY <1>1, <2>1, RootIsTop
  <2> QED
    BY <2>2, <2>3
<1> QED
  BY <1>8, <1>13, <1>14 DEF Tree, Resting

-----------------------------------------------------------------------------
(* Deletion: the loop.                                                       *)
LEMMA RecolouredTurn ==
    ASSUME NEW t, NEW N, NEW sub, NEW bh, NEW hole, Tree(t, N, sub, bh, hole), NEW red \in SUBSET N,
           NEW s \in Side, NEW n \in N, NEW up \in N, up = Kid(t, Other(s), n),
           NEW u, u = Rotated(Coated(t, red), s, n)
    PROVE  \E inner, sub2 : /\ Typed(u) /\ u.red = red /\ Turns(t, u, s, n, up, inner)
                            /\ Shape(u, N, sub2)
<1>1. Typed(t) /\ Shape(t, N, sub) /\ red \in SUBSET Place /\ Kid(t, Other(s), n) \in N
  BY Kinds
<1>2. Typed(Rotated(Coated(t, red), s, n)) /\ Rotated(Coated(t, red), s, n).red = red
        /\ \E v \in N : \E inner \in Pointer : Turns(t, Rotated(Coated(t, red), s, n), s, n, v, inner)
  BY <1>1, CoatedTurn
<1>3. PICK v \in N, inner \in Pointer : Turns(t, u, s, n, v, inner)
  BY <1>2
<1>4. v = up
  BY <1>3 DEF Turns
<1>5. PICK sub2 : Shape(u, N, sub2)
  BY <1>1, <1>3, TurnKeepsShape
<1> QED
  BY <1>2, <1>3, <1>4, <1>5

(* A black is missing at y, below p on side s.                               *)
Short(t, y, N, sub, bh, s, p) ==
    /\ Tree(t, N, sub, bh, {<<s, p>>})
    /\ s \in Side /\ p \in N /\ Kid(t, s, p) = y /\ Par(t, y) = p
    /\ y \notin t.red /\ t.root \notin t.red /\ Reds(t, N, {}, {})

LEMMA DeletingIsShort ==
    ASSUME NEW t, NEW N, NEW sub, NEW bh, NEW hole, Tree(t, N, sub, bh, hole), NEW a,
           Deleting(t, a, N, hole), a # t.root, a \notin t.red
    PROVE  \E s \in Side : Short(t, a, N, sub, bh, s, Par(t, a))
<1>1. PICK s \in Side : Kid(t, s, Par(t, a)) = a /\ hole = {<<s, Par(t, a)>>}
  BY DEF Deleting
<1>2. Par(t, a) \in N /\ t.root \notin t.red /\ Reds(t, N, {a}, {a})
  BY DEF Deleting
<1>3. Reds(t, N, {}, {})
  BY <1>2 DEF Reds
<1> QED
  BY <1>1, <1>2, <1>3 DEF Short

LEMMA ShortTree ==
    ASSUME NEW t, NEW y, NEW N, NEW sub, NEW bh, NEW s, NEW p, Short(t, y, N, sub, bh, s, p)
    PROVE  /\ Typed(t) /\ Shape(t, N, sub) /\ Coloured(t, N, bh, {<<s, p>>}) /\ Tree(t, N, sub, bh, {<<s, p>>})
           /\ N \in SUBSET Name /\ N \in SUBSET Place /\ Sentinel \notin N /\ t.red \in SUBSET N
BY Kinds DEF Short

LEMMA ShortSides ==
    ASSUME NEW t, NEW y, NEW N, NEW sub, NEW bh, NEW s, NEW p, Short(t, y, N, sub, bh, s, p)
    PROVE  /\ s \in Side /\ Other(s) \in Side /\ Other(s) # s /\ Other(Other(s)) = s
           /\ \A r \in Side : r = s \/ r = Other(s)
           /\ p \in N /\ Kid(t, s, p) = y /\ Par(t, y) = p /\ y \notin t.red /\ t.root \notin t.red
<1>1. /\ s \in Side /\ p \in N /\ Kid(t, s, p) = y /\ Par(t, y) = p
      /\ y \notin t.red /\ t.root \notin t.red
  BY DEF Short
<1> QED
  BY <1>1, SidesDiffer

LEMMA ShortReds ==
    ASSUME NEW t, NEW y, NEW N, NEW sub, NEW bh, NEW s, NEW p, Short(t, y, N, sub, bh, s, p)
    PROVE  \A m \in N : \A r \in Side : m \in t.red => Kid(t, r, m) \notin t.red
BY DEF Short, Reds

LEMMA ShortSibling ==
    ASSUME NEW t, NEW y, NEW N, NEW sub, NEW bh, NEW s, NEW p, Short(t, y, N, sub, bh, s, p),
           NEW w, w = Kid(t, Other(s), p)
    PROVE  /\ y \in N \cup {Sentinel} /\ y # t.root /\ y # p
           /\ w \in N /\ w # y /\ w # p /\ w # t.root
           /\ SideOf(t, y) = s
           /\ \A m \in N : \A r \in Side : Kid(t, r, m) = w => m = p /\ r = Other(s)
<1>0. PICK o : o = Other(s)
  OBVIOUS
<1>1. /\ Typed(t) /\ Shape(t, N, sub) /\ Coloured(t, N, bh, {<<s, p>>}) /\ Tree(t, N, sub, bh, {<<s, p>>})
      /\ N \in SUBSET Name /\ N \in SUBSET Place /\ Sentinel \notin N /\ t.red \in SUBSET N
  BY ShortTree
<1>2. s \in Side /\ p \in N /\ Kid(t, s, p) = y /\ Par(t, y) = p /\ y \notin t.red /\ t.root \notin t.red
  BY ShortSides
<1>3. o \in Side /\ o # s /\ Other(o) = s /\ (\A r \in Side : r = s \/ r = o) /\ w = Kid(t, o, p)
  BY <1>0, <1>2, SidesDiffer
<1>4. y \in N \cup {Sentinel} /\ w \in N \cup {Sentinel} /\ y # t.root /\ w # t.root
  BY <1>1, <1>2, <1>3, SubsAre, RootIsTop
<1>5. w \in N
  <2>1. bh[p] = bh[y] + Extra({<<s, p>>}, s, p) + Own(t, p)
            /\ bh[p] = bh[w] + Extra({<<s, p>>}, o, p) + Own(t, p)
    BY <1>1, <1>2, <1>3 DEF Coloured
  <2>2. Extra({<<s, p>>}, s, p) = 1 /\ Extra({<<s, p>>}, o, p) = 0 /\ Own(t, p) \in Nat
    BY <1>3 DEF Extra, Own
  <2>3. PICK x \in Nat : x = bh[y]
    BY <1>1, <1>4 DEF Coloured
  <2>4. PICK z \in Nat : z = bh[w]
    BY <1>1, <1>4 DEF Coloured
  <2>7. PICK k \in Nat : k = Own(t, p)
    BY <2>2
  <2>8. x + 1 + k = z + 0 + k
    BY <2>1, <2>2, <2>3, <2>4, <2>7
  <2>5. z = x + 1
    BY <2>3, <2>4, <2>7, <2>8
  <2>6. bh[Sentinel] = 0
    BY <1>1 DEF Coloured
  <2>9. x + 1 # 0
    BY <2>3
  <2>10. w # Sentinel
    BY <2>4, <2>5, <2>6, <2>9
  <2> QED
    BY <1>4, <2>10
<1>6. \A m \in N : \A r \in Side : Kid(t, r, m) = w => m = p /\ r = o
  BY <1>1, <1>2, <1>3, <1>5, KidsDiffer
<1>7. w # y /\ w # p /\ y # p
  <2>1. w # y
    BY <1>2, <1>3, <1>6
  <2>2. p \notin Part(sub, s, p) /\ p \notin Part(sub, o, p)
    BY <1>1, <1>2, <1>3, SubsAre
  <2> QED
    BY <1>1, <1>2, <1>3, <1>4, <1>5, <2>1, <2>2, SubsAre
<1>8. SideOf(t, y) = s
  <2>1. SideOf(t, y) = IF Kid(t, "left", p) = y THEN "left" ELSE "right"
    BY <1>2 DEF SideOf, Par
  <2>2. (s = "left" /\ o = "right") \/ (s = "right" /\ o = "left")
    BY <1>0, <1>2 DEF Side, Other
  <2> QED
    BY <1>2, <1>3, <1>7, <2>1, <2>2
<1> QED
  BY <1>0, <1>4, <1>5, <1>6, <1>7, <1>8

(* A red sibling goes up, and the inner one of its children is the new       *)
(* sibling, which is black.                                                  *)
LEMMA RedSiblingTurns ==
    ASSUME NEW t, NEW y, NEW N, NEW sub, NEW bh, NEW s, NEW p, Short(t, y, N, sub, bh, s, p),
           NEW w, w = Kid(t, Other(s), p), w \in t.red,
           NEW u, u = Rotated(Coated(t, (t.red \ {w}) \cup {p}), s, p)
    PROVE  \E sub2, bh2 : Short(u, y, N, sub2, bh2, s, p) /\ Kid(u, Other(s), p) \notin u.red
<1> DEFINE o == Other(s)
           red == (t.red \ {w}) \cup {p}
           hole == {<<s, p>>}
<1>1. /\ Typed(t) /\ Shape(t, N, sub) /\ Coloured(t, N, bh, hole) /\ Tree(t, N, sub, bh, hole)
      /\ N \in SUBSET Name /\ N \in SUBSET Place /\ Sentinel \notin N /\ t.red \in SUBSET N
  BY ShortTree
<1>2. /\ p \in N /\ s \in Side /\ o \in Side /\ o # s /\ \A r \in Side : r = s \/ r = o
  BY ShortSides
<1>3. /\ y \in N \cup {Sentinel} /\ y # t.root /\ y # p /\ y \notin t.red /\ t.root \notin t.red
      /\ Kid(t, s, p) = y /\ Par(t, y) = p /\ w \in N /\ w # p /\ w # y
  BY ShortSides, ShortSibling
<1>4. \A m \in N : \A r \in Side : m \in t.red => Kid(t, r, m) \notin t.red
  BY ShortReds
<1>5. p \notin t.red
  BY <1>2, <1>4
<1>6. red \in SUBSET N
  BY <1>1, <1>2
<1> HIDE DEF red
<1>7. PICK inner, sub2 : /\ Typed(u) /\ u.red = red /\ Turns(t, u, s, p, w, inner)
                         /\ Shape(u, N, sub2)
  BY <1>1, <1>2, <1>3, <1>6, RecolouredTurn DEF red
<1>8. PICK bh2 : Coloured(u, N, bh2, hole)
  <2>1. <<o, p>> \notin hole /\ <<s, w>> \notin hole
    BY <1>2, <1>3
  <2>2. u.red = (IF p \in t.red THEN t.red ELSE (t.red \ {w}) \cup {p})
    BY <1>5, <1>7 DEF red
  <2> HIDE DEF hole
  <2> QED
    BY <1>1, <1>2, <1>3, <1>7, <2>1, <2>2, TurnKeepsColours
<1>10. /\ Kid(u, o, p) = inner /\ Kid(u, s, w) = p /\ inner = Kid(t, s, w)
       /\ Kid(u, s, p) = y /\ Kid(u, o, w) = Kid(t, o, w)
       /\ Kid(t, o, w) # p /\ inner # p
       /\ \A r \in Side : \A m \in N \ {p, w} :
                 \/ Kid(u, r, m) = w /\ Kid(t, r, m) = p
                 \/ Kid(u, r, m) = Kid(t, r, m) /\ Kid(t, r, m) \notin {p, w}
  <2>1. /\ Kid(u, Other(s), p) = inner /\ Kid(u, s, w) = p /\ inner = Kid(t, s, w)
        /\ Kid(u, s, p) = Kid(t, s, p) /\ Kid(u, Other(s), w) = Kid(t, Other(s), w)
        /\ inner \notin {p, w} /\ Kid(t, Other(s), w) \notin {p, w}
    BY <1>1, <1>2, <1>3, <1>7, TurnedKids
  <2>2. \A r \in Side : \A m \in N \ {p, w} :
                 \/ Kid(u, r, m) = w /\ Kid(t, r, m) = p
                 \/ Kid(u, r, m) = Kid(t, r, m) /\ Kid(t, r, m) \notin {p, w}
    BY <1>1, <1>2, <1>3, <1>7, TurnedKids
  <2> QED
    BY <1>3, <2>1, <2>2
<1>11. inner \notin t.red /\ Kid(t, o, w) \notin t.red
  BY <1>2, <1>3, <1>4, <1>10
<1>12. Par(u, y) = p
  <2>1. Par(u, y) = IF y = p THEN w ELSE IF y = w THEN Par(t, p)
                    ELSE IF y = inner /\ y # Sentinel THEN p ELSE Par(t, y)
    BY <1>1, <1>3, <1>7 DEF Turns, Place
  <2> QED
    BY <1>3, <2>1
<1>13. u.root \notin red
  <2>1. u.root = IF p = t.root THEN w ELSE t.root
    BY <1>7 DEF Turns
  <2> QED
    BY <1>3, <2>1 DEF red
<1>14. Reds(u, N, {}, {})
  <2> SUFFICES ASSUME NEW m \in N, NEW r \in Side, m \in red, Kid(u, r, m) \in red PROVE FALSE
    BY <1>7 DEF Reds
  <2>1. m # w
    BY <1>3 DEF red
  <2>2. CASE m = p
    <3>1. Kid(u, r, m) = y \/ Kid(u, r, m) = inner
      BY <1>2, <1>10, <2>2
    <3> QED
      BY <1>3, <1>10, <1>11, <3>1 DEF red
  <2>3. CASE m # p
    <3>1. Kid(u, r, m) = Kid(t, r, m) /\ Kid(t, r, m) \notin {p, w}
      <4>1. w \notin red
        BY <1>3 DEF red
      <4> QED
        BY <1>10, <2>1, <2>3, <4>1
    <3>2. m \in t.red /\ Kid(t, r, m) \in t.red
      BY <2>3, <3>1 DEF red
    <3> QED
      BY <1>4, <3>2
  <2> QED
    BY <2>2, <2>3
<1>15. y \notin red /\ inner \notin red
  BY <1>3, <1>10, <1>11 DEF red
<1>16. Short(u, y, N, sub2, bh2, s, p)
  BY <1>2, <1>7, <1>8, <1>10, <1>12, <1>13, <1>14, <1>15 DEF Short, Tree
<1> QED
  BY <1>7, <1>10, <1>15, <1>16

(* A black sibling with a red child near to y goes down, so that the red one *)
(* is far.                                                                   *)
LEMMA NearRedTurns ==
    ASSUME NEW t, NEW y, NEW N, NEW sub, NEW bh, NEW s, NEW p, Short(t, y, N, sub, bh, s, p),
           NEW w, w = Kid(t, Other(s), p), w \notin t.red,
           NEW near, near = Kid(t, s, w), near \in t.red, Kid(t, Other(s), w) \notin t.red,
           NEW u, u = Rotated(Coated(t, (t.red \ {near}) \cup {w}), Other(s), w)
    PROVE  /\ \E sub2, bh2 : Short(u, y, N, sub2, bh2, s, p)
           /\ Kid(u, Other(s), p) = near /\ near \notin u.red /\ Kid(u, Other(s), near) \in u.red
<1> DEFINE red == (t.red \ {near}) \cup {w}
           hole == {<<s, p>>}
<1>0. PICK o : o = Other(s)
  OBVIOUS
<1>1. /\ Typed(t) /\ Shape(t, N, sub) /\ Coloured(t, N, bh, hole) /\ Tree(t, N, sub, bh, hole)
      /\ N \in SUBSET Name /\ N \in SUBSET Place /\ Sentinel \notin N /\ t.red \in SUBSET N
  BY ShortTree
<1>2. /\ p \in N /\ s \in Side /\ o \in Side /\ o # s /\ Other(o) = s /\ \A r \in Side : r = s \/ r = o
  BY <1>0, ShortSides
<1>3. /\ y \in N \cup {Sentinel} /\ y # t.root /\ y # p /\ y \notin t.red /\ t.root \notin t.red
      /\ Kid(t, s, p) = y /\ Par(t, y) = p /\ w \in N /\ w # p /\ w # y /\ w # t.root
      /\ w = Kid(t, o, p)
  BY <1>0, ShortSides, ShortSibling
<1>4. \A m \in N : \A r \in Side : m \in t.red => Kid(t, r, m) \notin t.red
  BY ShortReds
<1>5. near \in N /\ near # w
  BY <1>1
<1>6. red \in SUBSET N
  BY <1>1, <1>3
<1>9. near # p
  <2>1. near \in sub[w] /\ p \notin sub[w]
    <3>1. Kid(t, o, p) \in N /\ near \in N
      BY <1>3, <1>5
    <3>2. sub[w] = Part(sub, o, p) /\ p \notin Part(sub, o, p)
      BY <1>1, <1>2, <1>3, <3>1, SubsAre
    <3>3. near \in sub[w]
      BY <1>1, <1>2, <1>3, <1>5, SubsAre
    <3> QED
      BY <3>2, <3>3
  <2> QED
    BY <2>1
<1> HIDE DEF red
<1>7. PICK inner, sub2 : /\ Typed(u) /\ u.red = red /\ Turns(t, u, o, w, near, inner)
                         /\ Shape(u, N, sub2)
  <2>1. near = Kid(t, Other(o), w) /\ u = Rotated(Coated(t, red), o, w)
    BY <1>0, <1>2 DEF red
  <2> QED
    BY <1>1, <1>2, <1>3, <1>5, <1>6, <2>1, RecolouredTurn
<1>8. PICK bh2 : Coloured(u, N, bh2, hole)
  <2>1. <<Other(o), w>> \notin hole /\ <<o, near>> \notin hole
    BY <1>2, <1>3
  <2>2. u.red = (IF w \in t.red THEN t.red ELSE (t.red \ {near}) \cup {w})
    BY <1>7 DEF red
  <2> HIDE DEF hole
  <2> QED
    BY <1>1, <1>2, <1>3, <1>5, <1>7, <2>1, <2>2, TurnKeepsColours
<1>10. /\ Kid(u, Other(o), w) = inner /\ Kid(u, o, near) = w /\ inner = Kid(t, o, near)
       /\ Kid(u, o, w) = Kid(t, o, w) /\ Kid(u, Other(o), near) = Kid(t, Other(o), near)
       /\ inner # w /\ Kid(t, o, w) # w
       /\ \A r \in Side : \A m \in N \ {w, near} :
                 \/ Kid(u, r, m) = near /\ Kid(t, r, m) = w
                 \/ Kid(u, r, m) = Kid(t, r, m) /\ Kid(t, r, m) \notin {w, near}
  <2>1. /\ Kid(u, Other(o), w) = inner /\ Kid(u, o, near) = w /\ inner = Kid(t, o, near)
        /\ Kid(u, o, w) = Kid(t, o, w) /\ Kid(u, Other(o), near) = Kid(t, Other(o), near)
        /\ inner \notin {w, near} /\ Kid(t, o, w) \notin {w, near}
    BY <1>1, <1>2, <1>3, <1>5, <1>7, TurnedKids
  <2>2. \A r \in Side : \A m \in N \ {w, near} :
                 \/ Kid(u, r, m) = near /\ Kid(t, r, m) = w
                 \/ Kid(u, r, m) = Kid(t, r, m) /\ Kid(t, r, m) \notin {w, near}
    BY <1>1, <1>2, <1>3, <1>5, <1>7, TurnedKids
  <2> QED
    BY <2>1, <2>2
<1>11. inner \notin t.red
  BY <1>2, <1>5, <1>4, <1>10
<1>12. Kid(u, s, p) = y /\ Kid(u, o, p) = near
  BY <1>2, <1>3, <1>9, <1>10
<1>16. Par(u, y) = p
  <2>1. Par(u, y) = IF y = w THEN near ELSE IF y = near THEN Par(t, w)
                    ELSE IF y = inner /\ y # Sentinel THEN w ELSE Par(t, y)
    BY <1>1, <1>3, <1>7 DEF Turns, Place
  <2>2. y # near
    BY <1>3
  <2>3. inner \in N => Par(t, inner) = near
    BY <1>1, <1>2, <1>5, <1>10, SubsAre
  <2> QED
    BY <1>3, <1>9, <2>1, <2>2, <2>3
<1>13. u.root \notin red
  <2>1. u.root = IF w = t.root THEN near ELSE t.root
    BY <1>7 DEF Turns
  <2> QED
    BY <1>3, <2>1 DEF red
<1>14. Reds(u, N, {}, {})
  <2> SUFFICES ASSUME NEW m \in N, NEW r \in Side, m \in red, Kid(u, r, m) \in red PROVE FALSE
    BY <1>7 DEF Reds
  <2>1. m # near /\ near \notin red
    BY <1>5 DEF red
  <2>2. CASE m = w
    <3>1. Kid(u, r, m) = inner \/ Kid(u, r, m) = Kid(t, o, w)
      BY <1>2, <1>10, <2>2
    <3> QED
      BY <1>0, <1>10, <1>11, <3>1 DEF red
  <2>3. CASE m # w
    <3>1. Kid(u, r, m) = Kid(t, r, m) /\ Kid(t, r, m) \notin {w, near}
      BY <1>10, <2>1, <2>3
    <3>2. m \in t.red /\ Kid(t, r, m) \in t.red
      BY <2>3, <3>1 DEF red
    <3> QED
      BY <1>4, <3>2
  <2> QED
    BY <2>2, <2>3
<1>15. y \notin red /\ near \notin red /\ w \in red
  BY <1>3, <1>5 DEF red
<1>17. Short(u, y, N, sub2, bh2, s, p)
  BY <1>2, <1>7, <1>8, <1>12, <1>16, <1>13, <1>14, <1>15 DEF Short, Tree
<1> QED
  BY <1>0, <1>7, <1>10, <1>12, <1>15, <1>17

(* A black sibling with black children becomes red, and the black is missing *)
(* one level up.                                                             *)
LEMMA SiblingReddened ==
    ASSUME NEW t, NEW y, NEW N, NEW sub, NEW bh, NEW s, NEW p, Short(t, y, N, sub, bh, s, p),
           NEW w, w = Kid(t, Other(s), p), w \notin t.red,
           \A r \in Side : Kid(t, r, w) \notin t.red,
           NEW u, u = Coated(t, t.red \cup {w})
    PROVE  \E bh2, hole2 : Tree(u, N, sub, bh2, hole2) /\ Deleting(u, p, N, hole2)
<1> DEFINE hole == {<<s, p>>}
           red == t.red \cup {w}
           hole2 == IF p = t.root THEN {} ELSE {<<SideOf(t, p), Par(t, p)>>}
           bh2 == [m \in DOMAIN bh |-> IF m \in {p, w} THEN bh[m] - 1 ELSE bh[m]]
<1>0. PICK o : o = Other(s)
  OBVIOUS
<1>1. /\ Typed(t) /\ Shape(t, N, sub) /\ Coloured(t, N, bh, hole) /\ Tree(t, N, sub, bh, hole)
      /\ N \in SUBSET Name /\ N \in SUBSET Place /\ Sentinel \notin N /\ t.red \in SUBSET N
  BY ShortTree
<1>2. /\ p \in N /\ s \in Side /\ o \in Side /\ o # s /\ Other(o) = s /\ \A r \in Side : r = s \/ r = o
  BY <1>0, ShortSides
<1>3. /\ y \in N \cup {Sentinel} /\ y # t.root /\ y # p /\ y \notin t.red /\ t.root \notin t.red
      /\ Kid(t, s, p) = y /\ Par(t, y) = p /\ w \in N /\ w # p /\ w # y /\ w # t.root
      /\ w = Kid(t, o, p)
  BY <1>0, ShortSides, ShortSibling
<1>4. \A m \in N : \A r \in Side : m \in t.red => Kid(t, r, m) \notin t.red
  BY ShortReds
<1>5. \A m \in N : \A r \in Side : Kid(t, r, m) = w => m = p /\ r = o
  BY <1>0, ShortSibling
<1>6. /\ p = t.root => \A m \in N : \A r \in Side : Kid(t, r, m) # p
      /\ p # t.root => /\ SideOf(t, p) \in Side /\ Par(t, p) \in N /\ Kid(t, SideOf(t, p), Par(t, p)) = p
                       /\ \A m \in N : \A r \in Side : Kid(t, r, m) = p => m = Par(t, p) /\ r = SideOf(t, p)
  BY <1>1, <1>2, RootIsTop, Parents
<1>7. Typed(u) /\ Shape(u, N, sub) /\ u.red = red /\ u.root = t.root
      /\ (\A r, m : Kid(u, r, m) = Kid(t, r, m)) /\ Par(u, p) = Par(t, p)
  <2>1. t.red \cup {w} \in SUBSET Place
    BY <1>1, <1>3
  <2> QED
    BY <1>1, <2>1, CoatedParts
<1>8. red \in SUBSET N
  BY <1>1, <1>3
<1>9. bh \in [N \cup {Sentinel} -> Nat] /\ bh[Sentinel] = 0
  BY <1>1 DEF Coloured
<1>10. PICK ys \in Nat : ys = bh[y]
  BY <1>3, <1>9
<1>11. PICK ps \in Nat : ps = bh[p]
  BY <1>2, <1>9
<1>12. PICK ws \in Nat : ws = bh[w]
  BY <1>3, <1>9
<1>13. PICK k \in Nat : k = Own(t, p) /\ k = Own(u, p)
  BY <1>3, <1>7 DEF Own
<1>14. ps = ys + 1 + k /\ ps = ws + k
  <2>1. bh[p] = bh[y] + Extra(hole, s, p) + Own(t, p) /\ bh[p] = bh[w] + Extra(hole, o, p) + Own(t, p)
    BY <1>1, <1>2, <1>3 DEF Coloured
  <2>2. Extra(hole, s, p) = 1 /\ Extra(hole, o, p) = 0
    BY <1>2 DEF Extra
  <2>3. bh[w] + 0 = bh[w]
    BY <1>12
  <2> QED
    BY <1>10, <1>11, <1>12, <1>13, <2>1, <2>2, <2>3
<1>15. ws = ys + 1
  BY <1>10, <1>12, <1>13, <1>14
<1>16. /\ bh2 \in [N \cup {Sentinel} -> Nat] /\ bh2[Sentinel] = 0
       /\ bh2[p] = ys + k /\ bh2[w] = ys
       /\ \A m \in N \cup {Sentinel} : m # p /\ m # w => bh2[m] = bh[m]
  <2>1. bh[p] - 1 = ys + k /\ bh[w] - 1 = ys /\ ys + k \in Nat
    BY <1>10, <1>11, <1>12, <1>13, <1>14, <1>15
  <2> QED
    BY <1>1, <1>2, <1>3, <1>9, <2>1
<1> HIDE DEF bh2
<1>17. ASSUME NEW m \in N, NEW r \in Side
       PROVE  bh2[m] = bh2[Kid(t, r, m)] + Extra(hole2, r, m) + Own(u, m)
  <2>1. bh[m] = bh[Kid(t, r, m)] + Extra(hole, r, m) + Own(t, m)
    BY <1>1 DEF Coloured
  <2>2. PICK c \in N \cup {Sentinel} : c = Kid(t, r, m)
    BY <1>1, SubsAre
  <2>3. PICK xs \in Nat : xs = bh[m]
    BY <1>9
  <2>4. PICK cs \in Nat : cs = bh[c]
    BY <1>9
  <2>5. m # p => Extra(hole, r, m) = 0
    BY DEF Extra
  <2>6. Extra(hole2, r, m) = IF c = p THEN 1 ELSE 0
    BY <1>6, <2>2 DEF Extra
  <2>7. CASE m = p /\ r = s
    <3>1. c = y /\ bh2[c] = ys /\ bh2[m] = ys + k /\ Own(u, m) = k /\ Extra(hole2, r, m) = 0
      BY <1>3, <1>10, <1>13, <1>16, <2>2, <2>6, <2>7
    <3> QED
      BY <1>10, <1>13, <2>2, <3>1
  <2>8. CASE m = p /\ r = o
    <3>1. c = w /\ bh2[c] = ys /\ bh2[m] = ys + k /\ Own(u, m) = k /\ Extra(hole2, r, m) = 0
      BY <1>3, <1>13, <1>16, <2>2, <2>6, <2>8
    <3> QED
      BY <1>10, <1>13, <2>2, <3>1
  <2>9. CASE m = w
    <3>1. c # p
      <4>1. p # t.root => Par(t, p) # w
        <5>1. w \in sub[p]
          BY <1>1, <1>2, <1>3, SubsAre
        <5> QED
          BY <1>1, <1>2, <5>1, Parents
      <4> QED
        BY <1>6, <2>2, <2>9, <4>1
    <3>2. c # w
      BY <1>3, <1>5, <2>2, <2>9
    <3>3. Own(t, m) = 1 /\ Own(u, m) = 0 /\ Extra(hole, r, m) = 0 /\ Extra(hole2, r, m) = 0
      BY <1>3, <1>7, <2>5, <2>6, <2>9, <3>1 DEF Own
    <3>4. bh2[c] = cs /\ bh2[m] = ys /\ xs = ws
      BY <1>12, <1>16, <2>3, <2>4, <2>9, <3>1, <3>2
    <3>5. xs = cs + 0 + 1
      BY <2>1, <2>2, <2>3, <2>4, <3>3
    <3>6. ys = cs + 0 + 0
      BY <1>10, <1>15, <2>4, <3>4, <3>5
    <3> QED
      BY <2>2, <3>3, <3>4, <3>6
  <2>10. CASE m # p /\ m # w
    <3>1. c # w /\ bh2[m] = xs
      BY <1>5, <1>16, <2>2, <2>3, <2>10
    <3>2. PICK d \in Nat : d = Own(t, m) /\ d = Own(u, m)
      BY <1>7, <2>10 DEF Own
    <3>3. xs = cs + 0 + d
      BY <2>1, <2>2, <2>3, <2>4, <2>5, <2>10, <3>2
    <3>4. CASE c = p
      <4>1. bh2[c] = ys + k /\ cs = ys + 1 + k /\ Extra(hole2, r, m) = 1
        BY <1>11, <1>14, <1>16, <2>4, <2>6, <3>4
      <4>2. xs = (ys + k) + 1 + d
        BY <1>10, <1>13, <3>2, <3>3, <4>1
      <4> QED
        BY <2>2, <3>1, <3>2, <4>1, <4>2
    <3>5. CASE c # p
      <4>1. bh2[c] = cs /\ Extra(hole2, r, m) = 0
        BY <1>16, <2>4, <2>6, <3>1, <3>5
      <4> QED
        BY <2>2, <3>1, <3>2, <3>3, <4>1
    <3> QED
      BY <3>4, <3>5
  <2> QED
    BY <1>2, <2>7, <2>8, <2>9, <2>10
<1>18. Coloured(u, N, bh2, hole2)
  <2>2. u.red \in SUBSET N
    BY <1>7, <1>8
  <2> HIDE DEF hole2
  <2>1. ASSUME NEW m \in N, NEW r \in Side
        PROVE  bh2[m] = bh2[Kid(u, r, m)] + Extra(hole2, r, m) + Own(u, m)
    <3>1. Kid(u, r, m) = Kid(t, r, m)
      BY <1>7
    <3> QED
      BY <1>17, <3>1
  <2> QED
    BY <1>16, <2>1, <2>2 DEF Coloured
<1>19. Reds(u, N, {p}, {p})
  <2> SUFFICES ASSUME NEW m \in N, NEW r \in Side, m \in red, Kid(t, r, m) \in red, m # p PROVE FALSE
    BY <1>7 DEF Reds
  <2>1. Kid(t, r, m) # w
    BY <1>5
  <2>2. Kid(t, r, m) \in t.red /\ m \in t.red
    BY <2>1
  <2> QED
    BY <1>4, <2>2
<1>20. Deleting(u, p, N, hole2)
  <2>1. u.root \notin u.red
    BY <1>3, <1>7
  <2>2. \/ p = u.root /\ hole2 = {}
        \/ /\ p # u.root /\ Par(u, p) \in N
           /\ \E r \in Side : Kid(u, r, Par(u, p)) = p /\ hole2 = {<<r, Par(u, p)>>}
    BY <1>6, <1>7
  <2> HIDE DEF hole2
  <2> QED
    BY <1>2, <1>19, <2>1, <2>2 DEF Deleting
<1> QED
  BY <1>7, <1>18, <1>20 DEF Tree

(* A far child that is red ends the loop: the siblings parent takes its side. *)
LEMMA FarRedTurns ==
    ASSUME NEW t, NEW y, NEW N, NEW sub, NEW bh, NEW s, NEW p, Short(t, y, N, sub, bh, s, p),
           NEW w, w = Kid(t, Other(s), p), w \notin t.red,
           NEW far, far = Kid(t, Other(s), w), far \in t.red,
           NEW red, red = (t.red \ {w, p, far}) \cup (IF p \in t.red THEN {w} ELSE {}),
           NEW u, u = Rotated(Coated(t, red), s, p)
    PROVE  \E sub2, bh2 : Tree(u, N, sub2, bh2, {}) /\ Deleting(u, u.root, N, {})
<1> DEFINE hole == {<<s, p>>}
<1>0. PICK o : o = Other(s)
  OBVIOUS
<1>1. /\ Typed(t) /\ Shape(t, N, sub) /\ Coloured(t, N, bh, hole) /\ Tree(t, N, sub, bh, hole)
      /\ N \in SUBSET Name /\ N \in SUBSET Place /\ Sentinel \notin N /\ t.red \in SUBSET N
  BY ShortTree
<1>2. /\ p \in N /\ s \in Side /\ o \in Side /\ o # s /\ Other(o) = s /\ \A r \in Side : r = s \/ r = o
  BY <1>0, ShortSides
<1>3. /\ y \in N \cup {Sentinel} /\ y # t.root /\ y # p /\ y \notin t.red /\ t.root \notin t.red
      /\ Kid(t, s, p) = y /\ Par(t, y) = p /\ w \in N /\ w # p /\ w # y /\ w # t.root
      /\ w = Kid(t, o, p)
  BY <1>0, ShortSides, ShortSibling
<1>4. \A m \in N : \A r \in Side : m \in t.red => Kid(t, r, m) \notin t.red
  BY ShortReds
<1>5. \A m \in N : \A r \in Side : Kid(t, r, m) = w => m = p /\ r = o
  BY <1>0, ShortSibling
<1>6. red \in SUBSET N
  BY <1>1, <1>3
<1>7. PICK inner, sub2 : /\ Typed(u) /\ u.red = red /\ Turns(t, u, s, p, w, inner)
                         /\ Shape(u, N, sub2)
  <2>1. Tree(t, N, sub, bh, hole) /\ s \in Side /\ p \in N /\ w \in N
    BY <1>1, <1>2, <1>3
  <2> QED
    BY <1>6, <2>1, RecolouredTurn
<1>8. PICK bh2 : Coloured(u, N, bh2, {})
  <2>1. u.red = (t.red \ {w, p, far}) \cup (IF p \in t.red THEN {w} ELSE {})
    BY <1>7
  <2>2. /\ Shape(t, N, sub) /\ Coloured(t, N, bh, hole) /\ s \in Side /\ p \in N /\ w \in N
        /\ Turns(t, u, s, p, w, inner) /\ hole = {<<s, p>>}
    BY <1>1, <1>2, <1>3, <1>7
  <2> HIDE DEF hole
  <2>3. Coloured(u, N, Filled(bh, p, w, far), {})
    BY <2>1, <2>2, TurnFillsHole
  <2> QED
    BY <2>3
<1>9. \A r \in Side : \A m \in N \ {p, w} :
                 \/ Kid(u, r, m) = w /\ Kid(t, r, m) = p
                 \/ Kid(u, r, m) = Kid(t, r, m) /\ Kid(t, r, m) \notin {p, w}
  BY <1>1, <1>2, <1>3, <1>7, TurnedKids
<1>10. /\ Kid(u, s, w) = p /\ Kid(u, o, w) = far
  <2>1. Kid(u, s, w) = p /\ Kid(u, Other(s), w) = Kid(t, Other(s), w)
    BY <1>1, <1>2, <1>3, <1>7, TurnedKids
  <2> QED
    BY <1>0, <2>1
<1>11. u.root \notin red /\ u.root \in N
  <2>1. u.root = IF p = t.root THEN w ELSE t.root
    BY <1>7 DEF Turns
  <2>2. t.root \in N
    BY <1>1, <1>2, SubsAre
  <2>3. p = t.root => w \notin red
    BY <1>3
  <2>4. t.root \notin red
    BY <1>3
  <2> QED
    BY <1>3, <2>1, <2>2, <2>3, <2>4
<1>12. Reds(u, N, {}, {})
  <2> SUFFICES ASSUME NEW m \in N, NEW r \in Side, m \in red, Kid(u, r, m) \in red PROVE FALSE
    BY <1>7 DEF Reds
  <2>1. p \notin red /\ far \notin red
    <3>1. far # w
      BY <1>3
    <3> QED
      BY <1>3, <3>1
  <2>2. m # p
    BY <2>1
  <2>3. CASE m = w
    <3>1. Kid(u, r, m) = p \/ Kid(u, r, m) = far
      BY <1>2, <1>10, <2>3
    <3> QED
      BY <2>1, <3>1
  <2>4. CASE m # w
    <3>1. m \in t.red
      BY <2>4
    <3>2. CASE Kid(u, r, m) = w /\ Kid(t, r, m) = p
      <4>1. p \in t.red
        BY <1>3, <3>2
      <4> QED
        BY <1>4, <3>1, <3>2, <4>1
    <3>3. CASE Kid(u, r, m) = Kid(t, r, m) /\ Kid(t, r, m) \notin {p, w}
      <4>1. Kid(t, r, m) \in t.red
        BY <3>3
      <4> QED
        BY <1>4, <3>1, <4>1
    <3> QED
      BY <1>9, <2>2, <2>4, <3>2, <3>3
  <2> QED
    BY <2>3, <2>4
<1>13. Deleting(u, u.root, N, {})
  BY <1>7, <1>11, <1>12 DEF Deleting, Reds
<1> QED
  BY <1>7, <1>8, <1>13 DEF Tree

(* The end of the loop.                                                      *)
LEMMA DeletionEnds ==
    ASSUME NEW t, NEW N, NEW sub, NEW bh, NEW hole, Tree(t, N, sub, bh, hole), NEW a,
           Deleting(t, a, N, hole), a = t.root \/ a \in t.red,
           NEW u, u = Coated(t, t.red \ {a})
    PROVE  \E bh2 : Tree(u, N, sub, bh2, {}) /\ Resting(u, N)
<1>1. /\ Typed(t) /\ Shape(t, N, sub) /\ Coloured(t, N, bh, hole)
      /\ N \in SUBSET Name /\ N \in SUBSET Place /\ Sentinel \notin N /\ t.red \in SUBSET N
  BY Kinds
<1>2. /\ t.root \notin t.red /\ Reds(t, N, {a}, {a}) /\ a \in N \cup {Sentinel}
  BY DEF Deleting
<1>3. /\ Typed(u) /\ Shape(u, N, sub) /\ u.red = t.red \ {a} /\ u.root = t.root
      /\ \A r, m : Kid(u, r, m) = Kid(t, r, m)
  <2>1. t.red \ {a} \in SUBSET Place
    BY <1>1
  <2> QED
    BY <1>1, <2>1, CoatedParts
<1>4. Resting(u, N)
  <2>1. u.root \notin u.red
    BY <1>2, <1>3
  <2>2. Reds(u, N, {}, {})
    <3> SUFFICES ASSUME NEW m \in N, NEW r \in Side, m \in u.red, Kid(u, r, m) \in u.red
                 PROVE  FALSE
      BY DEF Reds
    <3>1. m \in t.red /\ Kid(t, r, m) \in t.red /\ m # a /\ Kid(t, r, m) # a
      BY <1>3
    <3> QED
      BY <1>2, <3>1 DEF Reds
  <2> QED
    BY <2>1, <2>2 DEF Resting
<1>5. CASE a = t.root
  <2>1. u.red = t.red
    BY <1>2, <1>3, <1>5
  <2>3. hole = {}
    BY <1>5 DEF Deleting
  <2>2. Coloured(u, N, bh, {})
    <3>1. \A m : Own(u, m) = Own(t, m)
      BY <2>1 DEF Own
    <3>2. \A m \in N : \A r \in Side : bh[m] = bh[Kid(t, r, m)] + Extra({}, r, m) + Own(t, m)
      BY <1>1, <2>3 DEF Coloured
    <3>3. \A m \in N : \A r \in Side : bh[m] = bh[Kid(u, r, m)] + Extra({}, r, m) + Own(u, m)
      BY <1>3, <3>1, <3>2
    <3>4. u.red \in SUBSET N /\ bh \in [N \cup {Sentinel} -> Nat] /\ bh[Sentinel] = 0
      BY <1>1, <2>1 DEF Coloured
    <3> QED
      BY <3>3, <3>4 DEF Coloured
  <2> QED
    BY <1>3, <1>4, <2>2 DEF Tree
<1>6. CASE a # t.root
  <2>1. a \in N /\ a \in t.red
    BY <1>1, <1>6
  <2>2. PICK s \in Side : Kid(t, s, Par(t, a)) = a /\ hole = {<<s, Par(t, a)>>} /\ Par(t, a) \in N
    BY <1>6 DEF Deleting
  <2>3. \A m \in N : \A r \in Side : Kid(t, r, m) = a => m = Par(t, a) /\ r = s
    BY <1>1, <2>1, <2>2, KidsDiffer
  <2> DEFINE bh2 == [m \in DOMAIN bh |-> IF m = a THEN bh[m] + 1 ELSE bh[m]]
  <2>4. bh \in [N \cup {Sentinel} -> Nat] /\ bh[Sentinel] = 0
    BY <1>1 DEF Coloured
  <2>5. /\ bh2 \in [N \cup {Sentinel} -> Nat] /\ bh2[Sentinel] = 0
        /\ bh2[a] = bh[a] + 1
        /\ \A m \in N \cup {Sentinel} : m # a => bh2[m] = bh[m]
    BY <1>1, <2>1, <2>4
  <2> HIDE DEF bh2
  <2>6. ASSUME NEW m \in N, NEW r \in Side
        PROVE  bh2[m] = bh2[Kid(t, r, m)] + Extra({}, r, m) + Own(u, m)
    <3>1. bh[m] = bh[Kid(t, r, m)] + Extra(hole, r, m) + Own(t, m)
      BY <1>1 DEF Coloured
    <3>2. PICK c \in N \cup {Sentinel} : c = Kid(t, r, m)
      BY <1>1, SubsAre
    <3>3. PICK xs \in Nat : xs = bh[m]
      BY <2>4
    <3>4. PICK cs \in Nat : cs = bh[c]
      BY <2>4
    <3>5. Extra({}, r, m) = 0
      BY DEF Extra
    <3>6. Extra(hole, r, m) = IF c = a THEN 1 ELSE 0
      BY <2>2, <2>3, <3>2 DEF Extra
    <3>7. CASE m = a
      <4>1. c # a
        BY <1>1, <2>1, <2>3, <3>2, <3>7, Parents, <1>6
      <4>2. Own(t, m) = 0 /\ Own(u, m) = 1 /\ Extra(hole, r, m) = 0
        BY <1>3, <2>1, <3>6, <3>7, <4>1 DEF Own
      <4>3. bh2[c] = cs /\ bh2[m] = xs + 1
        BY <2>5, <3>3, <3>4, <3>7, <4>1
      <4>4. xs = cs + 0 + 0
        BY <3>1, <3>2, <3>3, <3>4, <4>2
      <4>5. xs + 1 = cs + 0 + 1
        BY <3>3, <3>4, <4>4
      <4> QED
        BY <3>2, <3>5, <4>2, <4>3, <4>5
    <3>8. CASE m # a
      <4>1. PICK d \in Nat : d = Own(t, m) /\ d = Own(u, m)
        BY <1>3, <3>8 DEF Own
      <4>2. bh2[m] = xs
        BY <2>5, <3>3, <3>8
      <4>3. CASE c = a
        <5>1. bh2[c] = cs + 1 /\ xs = cs + 1 + d
          BY <2>5, <3>1, <3>2, <3>3, <3>4, <3>6, <4>1, <4>3
        <5>2. xs = (cs + 1) + 0 + d
          BY <3>3, <3>4, <4>1, <5>1
        <5> QED
          BY <3>2, <3>5, <4>1, <4>2, <5>1, <5>2
      <4>4. CASE c # a
        <5>1. bh2[c] = cs /\ xs = cs + 0 + d
          BY <2>5, <3>1, <3>2, <3>3, <3>4, <3>6, <4>1, <4>4
        <5> QED
          BY <3>2, <3>5, <4>1, <4>2, <5>1
      <4> QED
        BY <4>3, <4>4
    <3> QED
      BY <3>7, <3>8
  <2>7. Coloured(u, N, bh2, {})
    <3>1. u.red \in SUBSET N
      BY <1>1, <1>3
    <3>2. \A m \in N : \A r \in Side : bh2[m] = bh2[Kid(u, r, m)] + Extra({}, r, m) + Own(u, m)
      BY <1>3, <2>6
    <3> QED
      BY <2>5, <3>1, <3>2 DEF Coloured
  <2> QED
    BY <1>3, <1>4, <2>7 DEF Tree
<1> QED
  BY <1>5, <1>6

-----------------------------------------------------------------------------
(* The loops.                                                                *)
TreeIs(t, d, a, N) ==
    \E sub, bh, hole :
        /\ Tree(t, N, sub, bh, hole)
        /\ \/ d = "none" /\ hole = {} /\ Resting(t, N)
           \/ d = "insert" /\ hole = {} /\ Inserting(t, a, N)
           \/ d = "delete" /\ Deleting(t, a, N, hole)

LEMMA Coats ==
    ASSUME NEW t, Typed(t)
    PROVE  /\ \A v, e : Blackened(v, e) = Coated(v, v.red \ e) /\ Reddened(v, e) = Coated(v, v.red \cup e)
           /\ \A e : Coated(t, e).red = e
           /\ \A e, f : Coated(Coated(t, e), f) = Coated(t, f)
<1>1. \A v, e : Blackened(v, e) = Coated(v, v.red \ e) /\ Reddened(v, e) = Coated(v, v.red \cup e)
  BY DEF Blackened, Reddened, Coated
<1>2. \A e : Coated(t, e).red = e
  BY DEF Typed, Coated
<1>3. \A e, f : Coated(Coated(t, e), f) = Coated(t, f)
  BY DEF Typed, Coated
<1> QED
  BY <1>1, <1>2, <1>3

LEMMA BlackThenRed ==
    ASSUME NEW t, Typed(t), NEW A, NEW B
    PROVE  Reddened(Blackened(t, A), B) = Coated(t, (t.red \ A) \cup B)
<1>1. \A v, e : Blackened(v, e) = Coated(v, v.red \ e) /\ Reddened(v, e) = Coated(v, v.red \cup e)
  BY Coats
<1>2. \A e : Coated(t, e).red = e
  BY Coats
<1>3. \A e, f : Coated(Coated(t, e), f) = Coated(t, f)
  BY Coats
<1> QED
  BY <1>1, <1>2, <1>3

LEMMA RedThenBlack ==
    ASSUME NEW t, Typed(t), NEW A, NEW B
    PROVE  Blackened(Reddened(t, A), B) = Coated(t, (t.red \cup A) \ B)
<1>1. \A v, e : Blackened(v, e) = Coated(v, v.red \ e) /\ Reddened(v, e) = Coated(v, v.red \cup e)
  BY Coats
<1>2. \A e : Coated(t, e).red = e
  BY Coats
<1>3. \A e, f : Coated(Coated(t, e), f) = Coated(t, f)
  BY Coats
<1> QED
  BY <1>1, <1>2, <1>3

LEMMA BlackTwice ==
    ASSUME NEW t, Typed(t), NEW A, NEW B
    PROVE  Blackened(Blackened(t, A), B) = Coated(t, (t.red \ A) \ B)
<1>1. \A v, e : Blackened(v, e) = Coated(v, v.red \ e) /\ Reddened(v, e) = Coated(v, v.red \cup e)
  BY Coats
<1>2. \A e : Coated(t, e).red = e
  BY Coats
<1>3. \A e, f : Coated(Coated(t, e), f) = Coated(t, f)
  BY Coats
<1> QED
  BY <1>1, <1>2, <1>3

(* The turns of the loops, one by one.                                       *)
LEMMA InsertRecoloursKeeps ==
    ASSUME NEW N, TreeIs(tree, doing, at, N), InsertRecolours
    PROVE  TreeIs(tree', doing', at', N)
<1>1. PICK sub, bh : Tree(tree, N, sub, bh, {}) /\ Inserting(tree, at, N)
  BY DEF TreeIs, InsertRecolours
<1>2. PICK p : p = Par(tree, at)
  OBVIOUS
<1>3. PICK g : g = Par(tree, p)
  OBVIOUS
<1>4. PICK c : c = Kid(tree, Other(SideOf(tree, p)), g)
  OBVIOUS
<1>5. /\ doing = "insert" /\ at # tree.root /\ p \in tree.red /\ c \in tree.red
      /\ tree' = Reddened(Blackened(tree, {p, c}), {g}) /\ at' = g /\ doing' = doing
  BY <1>2, <1>3, <1>4 DEF InsertRecolours, TwoReds, Uncle, Grandparent, Par
<1>6. Typed(tree)
  BY <1>1, Kinds
<1>7. tree' = Coated(tree, (tree.red \ {p, c}) \cup {g})
  <2>1. Reddened(Blackened(tree, {p, c}), {g}) = Coated(tree, (tree.red \ {p, c}) \cup {g})
    BY <1>6, BlackThenRed, Zenon
  <2> QED
    BY <1>5, <2>1
<1>8. \E bh2 : Tree(tree', N, sub, bh2, {}) /\ Inserting(tree', g, N)
  BY <1>1, <1>2, <1>3, <1>4, <1>5, <1>7, RecolourKeeps
<1> QED
  BY <1>5, <1>8 DEF TreeIs

LEMMA InsertRotatesKeeps ==
    ASSUME NEW N, TreeIs(tree, doing, at, N), InsertRotates
    PROVE  TreeIs(tree', doing', at', N)
<1>1. PICK sub, bh : Tree(tree, N, sub, bh, {}) /\ Inserting(tree, at, N)
  BY DEF TreeIs, InsertRotates
<1>2. PICK p : p = Par(tree, at)
  OBVIOUS
<1>3. PICK g : g = Par(tree, p)
  OBVIOUS
<1>4. PICK s : s = SideOf(tree, p)
  OBVIOUS
<1>5. PICK node : node = IF at = Kid(tree, Other(s), p) THEN p ELSE at
  OBVIOUS
<1>6. PICK t : t = IF at = Kid(tree, Other(s), p) THEN Rotated(tree, s, p) ELSE tree
  OBVIOUS
<1>7. PICK p2 : p2 = Par(t, node)
  OBVIOUS
<1>8. PICK g2 : g2 = Par(t, p2)
  OBVIOUS
<1>9. /\ doing = "insert" /\ at # tree.root /\ p \in tree.red /\ Kid(tree, Other(s), g) \notin tree.red
      /\ at' = node /\ doing' = doing
      /\ tree' = Rotated(Reddened(Blackened(t, {p2}), {g2}), Other(s), g2)
  BY <1>2, <1>3, <1>4, <1>5, <1>6, <1>7, <1>8 DEF InsertRotates, TwoReds, Uncle, Grandparent, Par
<1>10. /\ \E sub2, bh2 : Tree(t, N, sub2, bh2, {}) /\ Inserting(t, node, N)
       /\ node # t.root /\ p2 \in t.red /\ s = SideOf(t, p2) /\ node = Kid(t, s, p2)
       /\ Kid(t, Other(s), g2) \notin t.red
  <2>1. CASE at = Kid(tree, Other(s), p)
    <3>1. t = Rotated(tree, s, p) /\ node = p
      BY <1>5, <1>6, <2>1
    <3>2. /\ \E sub2, bh2 : Tree(t, N, sub2, bh2, {}) /\ Inserting(t, p, N)
          /\ p # t.root /\ Par(t, p) = at /\ at \in t.red /\ Par(t, at) = g /\ s = SideOf(t, at)
          /\ p = Kid(t, s, at) /\ Kid(t, Other(s), g) \notin t.red
      <4>1. /\ at # tree.root /\ p \in tree.red /\ at = Kid(tree, Other(s), p)
            /\ Kid(tree, Other(s), g) \notin tree.red /\ t = Rotated(tree, s, p)
        BY <1>9, <2>1, <3>1
      <4>2. InnerCase(tree, at, N, sub, bh, p, g, s)
        BY <1>1, <1>2, <1>3, <1>4, <4>1 DEF InnerCase
      <4> QED
        BY <4>1, <4>2, InnerTurnKeeps DEF InnerTurned
    <3> QED
      BY <1>7, <1>8, <3>1, <3>2
  <2>2. CASE at # Kid(tree, Other(s), p)
    <3>1. t = tree /\ node = at /\ p2 = p /\ g2 = g
      BY <1>2, <1>3, <1>5, <1>6, <1>7, <1>8, <2>2
    <3>2. Shape(tree, N, sub) /\ at \in N /\ p \in N /\ Kid(tree, SideOf(tree, at), p) = at
          /\ SideOf(tree, at) \in Side /\ tree.red \in SUBSET N /\ tree.root \notin tree.red
      BY <1>1, <1>2, <1>9, Kinds, Parents DEF Inserting
    <3>3. s \in Side
      BY <1>4, <1>9, <3>2, Parents
    <3>4. SideOf(tree, at) = s
      BY <2>2, <3>2, <3>3, SidesDiffer
    <3> QED
      BY <1>1, <1>4, <1>9, <3>1, <3>2, <3>4
  <2> QED
    BY <2>1, <2>2
<1>11. PICK sub2, bh2 : Tree(t, N, sub2, bh2, {}) /\ Inserting(t, node, N)
  BY <1>10
<1>12. tree' = Rotated(Coated(t, (t.red \ {p2}) \cup {g2}), Other(s), g2)
  <2>1. Typed(t)
    BY <1>11, Kinds
  <2>2. Reddened(Blackened(t, {p2}), {g2}) = Coated(t, (t.red \ {p2}) \cup {g2})
    BY <2>1, BlackThenRed, Zenon
  <2> QED
    BY <1>9, <2>2
<1>13. \E sub3, bh3 : Tree(tree', N, sub3, bh3, {}) /\ Inserting(tree', node, N)
  BY <1>7, <1>8, <1>10, <1>11, <1>12, OuterTurnKeeps
<1> QED
  BY <1>9, <1>13 DEF TreeIs

LEMMA InsertEndsKeeps ==
    ASSUME NEW N, TreeIs(tree, doing, at, N), InsertEnds
    PROVE  TreeIs(tree', doing', at', N)
<1>1. PICK sub, bh : Tree(tree, N, sub, bh, {}) /\ Inserting(tree, at, N)
  BY DEF TreeIs, InsertEnds
<1>2. /\ at = tree.root \/ Par(tree, at) \notin tree.red
      /\ tree' = Blackened(tree, {tree.root}) /\ doing' = "none"
  BY DEF InsertEnds, TwoReds, Par
<1>3. tree' = Coated(tree, tree.red \ {tree.root})
  BY <1>1, <1>2, Kinds, Coats
<1>4. \E bh2 : Tree(tree', N, sub, bh2, {}) /\ Resting(tree', N)
  BY <1>1, <1>2, <1>3, InsertionEnds
<1> QED
  BY <1>2, <1>4 DEF TreeIs

LEMMA DeleteBalancesKeeps ==
    ASSUME NEW N, TreeIs(tree, doing, at, N), DeleteBalances
    PROVE  TreeIs(tree', doing', at', N)
<1>1. doing = "delete" /\ at # tree.root /\ at \notin tree.red /\ DeleteStep(BlackSibling) /\ doing' = doing
  BY DEF DeleteBalances, OneBlackShort
<1>2. PICK sub, bh, hole : Tree(tree, N, sub, bh, hole) /\ Deleting(tree, at, N, hole)
  BY <1>1 DEF TreeIs
<1>3. PICK p : p = Par(tree, at)
  OBVIOUS
<1>4. PICK s \in Side : Short(tree, at, N, sub, bh, s, p)
  BY <1>1, <1>2, <1>3, DeletingIsShort
<1>5. SideOf(tree, at) = s /\ Typed(tree)
  <2>1. SideOf(tree, at) = s
    BY <1>4, ShortSibling
  <2> QED
    BY <1>4, <2>1, ShortTree
<1>6. PICK t : t = BlackSibling
  OBVIOUS
<1>7. \E sub2, bh2 : Short(t, at, N, sub2, bh2, s, p) /\ Kid(t, Other(s), p) \notin t.red
  <2>0. PICK w : w = Kid(tree, Other(s), p)
    OBVIOUS
  <2>1. t = IF w \in tree.red THEN Rotated(Reddened(Blackened(tree, {w}), {p}), s, p) ELSE tree
    BY <1>3, <1>5, <1>6, <2>0 DEF BlackSibling, Par
  <2>2. Reddened(Blackened(tree, {w}), {p}) = Coated(tree, (tree.red \ {w}) \cup {p})
    BY <1>5, BlackThenRed, Zenon
  <2>3. CASE w \in tree.red
    <3>1. t = Rotated(Coated(tree, (tree.red \ {w}) \cup {p}), s, p)
      BY <2>1, <2>2, <2>3
    <3> QED
      BY <1>4, <2>0, <2>3, <3>1, RedSiblingTurns
  <2>4. CASE w \notin tree.red
    BY <1>4, <2>0, <2>1, <2>4
  <2> QED
    BY <2>3, <2>4
<1>8. PICK sub2, bh2 : Short(t, at, N, sub2, bh2, s, p)
  BY <1>7
<1>9. PICK w : w = Kid(t, Other(s), p)
  OBVIOUS
<1>10. Par(t, at) = p /\ SideOf(t, at) = s /\ Typed(t) /\ s \in Side /\ Other(s) \in Side /\ w \notin t.red
       /\ (\A r \in Side : r = s \/ r = Other(s)) /\ Side = {"left", "right"}
  <2>1. Par(t, at) = p /\ s \in Side /\ Other(s) \in Side /\ \A r \in Side : r = s \/ r = Other(s)
    BY <1>8, ShortSides
  <2>2. SideOf(t, at) = s /\ Typed(t)
    <3>1. SideOf(t, at) = s
      BY <1>8, ShortSibling
    <3> QED
      BY <1>8, <3>1, ShortTree
  <2> QED
    BY <1>7, <1>9, <2>1, <2>2 DEF Side
<1>11. IF {Kid(t, "left", w), Kid(t, "right", w)} \cap t.red = {}
       THEN /\ tree' = Reddened(t, {w})
            /\ at' = p
       ELSE LET far == Kid(t, Other(s), w)
                u == IF far \in t.red THEN t
                     ELSE Rotated(Reddened(Blackened(t, {Kid(t, s, w)}), {w}), Other(s), w)
                sib == Kid(u, Other(s), p)
                coloured == IF p \in u.red THEN Reddened(u, {sib}) ELSE Blackened(u, {sib})
             IN  /\ tree' = Rotated(Blackened(coloured, {p, Kid(u, Other(s), sib)}), s, p)
                 /\ at' = tree'.root
  BY <1>1, <1>6, <1>9, <1>10 DEF DeleteStep, Par
<1>12. CASE {Kid(t, "left", w), Kid(t, "right", w)} \cap t.red = {}
  <2>1. tree' = Coated(t, t.red \cup {w}) /\ at' = p
    BY <1>10, <1>11, <1>12, Coats
  <2>2. \A r \in Side : Kid(t, r, w) \notin t.red
    BY <1>10, <1>12
  <2>3. \E bh3, hole3 : Tree(tree', N, sub2, bh3, hole3) /\ Deleting(tree', p, N, hole3)
    BY <1>8, <1>9, <1>10, <2>1, <2>2, SiblingReddened
  <2> QED
    BY <1>1, <2>1, <2>3 DEF TreeIs
<1>13. CASE {Kid(t, "left", w), Kid(t, "right", w)} \cap t.red # {}
  <2>1. PICK u : u = IF Kid(t, Other(s), w) \in t.red THEN t
                     ELSE Rotated(Reddened(Blackened(t, {Kid(t, s, w)}), {w}), Other(s), w)
    OBVIOUS
  <2>2. PICK sib : sib = Kid(u, Other(s), p)
    OBVIOUS
  <2>3. PICK far : far = Kid(u, Other(s), sib)
    OBVIOUS
  <2>4. /\ tree' = Rotated(Blackened(IF p \in u.red THEN Reddened(u, {sib}) ELSE Blackened(u, {sib}),
               {p, far}), s, p)
        /\ at' = tree'.root
    BY <1>11, <1>13, <2>1, <2>2, <2>3
  <2>5. /\ \E sub3, bh3 : Short(u, at, N, sub3, bh3, s, p)
        /\ sib \notin u.red /\ far \in u.red
    <3>1. CASE Kid(t, Other(s), w) \in t.red
      BY <1>8, <1>9, <1>10, <2>1, <2>2, <2>3, <3>1
    <3>2. CASE Kid(t, Other(s), w) \notin t.red
      <4>0. PICK near : near = Kid(t, s, w)
        OBVIOUS
      <4>1. near \in t.red
        BY <1>10, <1>13, <3>2, <4>0
      <4>2. u = Rotated(Coated(t, (t.red \ {near}) \cup {w}), Other(s), w)
        <5>1. Reddened(Blackened(t, {near}), {w}) = Coated(t, (t.red \ {near}) \cup {w})
          BY <1>10, BlackThenRed, Zenon
        <5> QED
          BY <2>1, <3>2, <4>0, <5>1
      <4>3. /\ \E sub3, bh3 : Short(u, at, N, sub3, bh3, s, p)
            /\ Kid(u, Other(s), p) = near /\ near \notin u.red
            /\ Kid(u, Other(s), near) \in u.red
        BY <1>8, <1>9, <1>10, <3>2, <4>0, <4>1, <4>2, NearRedTurns
      <4> QED
        BY <2>2, <2>3, <4>3
    <3> QED
      BY <3>1, <3>2
  <2>6. PICK sub3, bh3 : Short(u, at, N, sub3, bh3, s, p)
    BY <2>5
  <2>7. PICK red : red = (u.red \ {sib, p, far}) \cup (IF p \in u.red THEN {sib} ELSE {})
    OBVIOUS
  <2>8. tree' = Rotated(Coated(u, red), s, p)
    <3>1. Typed(u) /\ sib # p /\ sib # far
      <4>1. sib # p
        BY <2>2, <2>6, ShortSibling
      <4> QED
        BY <2>5, <2>6, <4>1, ShortTree
    <3>2. CASE p \in u.red
      <4>1. (u.red \cup {sib}) \ {p, far} = red
        BY <2>7, <3>1, <3>2
      <4>2. Blackened(Reddened(u, {sib}), {p, far}) = Coated(u, (u.red \cup {sib}) \ {p, far})
        BY <3>1, RedThenBlack, Zenon
      <4> QED
        BY <2>4, <3>2, <4>1, <4>2
    <3>3. CASE p \notin u.red
      <4>1. (u.red \ {sib}) \ {p, far} = red
        BY <2>7, <3>1, <3>3
      <4>2. Blackened(Blackened(u, {sib}), {p, far}) = Coated(u, (u.red \ {sib}) \ {p, far})
        BY <3>1, BlackTwice, Zenon
      <4> QED
        BY <2>4, <3>3, <4>1, <4>2
    <3> QED
      BY <3>2, <3>3
  <2>9. \E sub4, bh4 : Tree(tree', N, sub4, bh4, {}) /\ Deleting(tree', tree'.root, N, {})
    BY <2>2, <2>3, <2>5, <2>6, <2>7, <2>8, FarRedTurns
  <2> QED
    BY <1>1, <2>4, <2>9 DEF TreeIs
<1> QED
  BY <1>12, <1>13

LEMMA DeleteEndsKeeps ==
    ASSUME NEW N, TreeIs(tree, doing, at, N), DeleteEnds
    PROVE  TreeIs(tree', doing', at', N)
<1>1. /\ at = tree.root \/ at \in tree.red
      /\ tree' = Blackened(tree, {at}) /\ doing' = "none" /\ doing = "delete"
  BY DEF DeleteEnds, OneBlackShort
<1>2. PICK sub, bh, hole : Tree(tree, N, sub, bh, hole) /\ Deleting(tree, at, N, hole)
  BY <1>1 DEF TreeIs
<1>3. tree' = Coated(tree, tree.red \ {at})
  <2>1. Typed(tree)
    BY <1>2, Kinds
  <2> QED
    BY <1>1, <2>1, Coats
<1>4. \E bh2 : Tree(tree', N, sub, bh2, {}) /\ Resting(tree', N)
  BY <1>1, <1>2, <1>3, DeletionEnds
<1> QED
  BY <1>1, <1>4 DEF TreeIs

(* Each turn of a loop leaves a tree of the same nodes, with one exception   *)
(* at most.                                                                  *)
LEMMA RebalanceKeeps ==
    ASSUME NEW N, TreeIs(tree, doing, at, N), Rebalance
    PROVE  TreeIs(tree', doing', at', N)
BY InsertRecoloursKeeps, InsertRotatesKeeps, InsertEndsKeeps, DeleteBalancesKeeps, DeleteEndsKeeps
   DEF Rebalance

(* The parents of the nodes below a node, but for the node, are there too.   *)
LEMMA ParentInside ==
    ASSUME NEW t, NEW N, NEW sub, Shape(t, N, sub)
    PROVE  \A k \in N : \A c \in sub[k] : c # k => Par(t, c) \in sub[k]
<1> DEFINE S == {k \in N : \A c \in sub[k] : c # k => Par(t, c) \in sub[k]}
<1>1. ASSUME NEW k \in N, \A s \in Side : Kid(t, s, k) \in N => Kid(t, s, k) \in S
      PROVE  k \in S
  <2> SUFFICES ASSUME NEW c \in sub[k], c # k PROVE Par(t, c) \in sub[k]
    OBVIOUS
  <2>1. PICK s \in Side : Kid(t, s, k) \in N /\ c \in sub[Kid(t, s, k)]
    BY SomewhereBelow
  <2>2. Par(t, Kid(t, s, k)) = k /\ k \in sub[k] /\ sub[Kid(t, s, k)] \subseteq sub[k]
    BY <2>1, SubsAre
  <2>3. CASE c = Kid(t, s, k)
    BY <2>2, <2>3
  <2>4. CASE c # Kid(t, s, k)
    BY <1>1, <2>1, <2>2, <2>4
  <2> QED
    BY <2>3, <2>4
<1> HIDE DEF S
<1>2. N \subseteq S
  BY <1>1, BottomUp
<1> QED
  BY <1>2 DEF S

(* The nodes below a child of a node are fewer.                              *)
LEMMA Fewer ==
    ASSUME NEW t, NEW N, NEW sub, Shape(t, N, sub), NEW n \in N, NEW s \in Side, Kid(t, s, n) \in N
    PROVE  /\ Cardinality(sub[Kid(t, s, n)]) \in Nat /\ Cardinality(sub[n]) \in Nat
           /\ Cardinality(sub[Kid(t, s, n)]) + 1 <= Cardinality(sub[n])
<1>1. IsFiniteSet(sub[n]) /\ n \in sub[n] /\ sub[Kid(t, s, n)] \subseteq sub[n] \ {n}
  <2>1. n \in sub[n] /\ sub[Kid(t, s, n)] \subseteq sub[n] \ {n} /\ sub[n] \in SUBSET Name
    BY SubsAre
  <2> QED
    BY <2>1, Sentinels
<1>2. IsFiniteSet(sub[n] \ {n}) /\ Cardinality(sub[n] \ {n}) = Cardinality(sub[n]) - 1
  BY <1>1, FS_RemoveElement
<1>3. Cardinality(sub[Kid(t, s, n)]) <= Cardinality(sub[n] \ {n}) /\ IsFiniteSet(sub[Kid(t, s, n)])
  BY <1>1, <1>2, FS_Subset
<1>4. Cardinality(sub[Kid(t, s, n)]) \in Nat /\ Cardinality(sub[n]) \in Nat
  BY <1>1, <1>3, FS_CardinalityType
<1> QED
  BY <1>2, <1>3, <1>4

-----------------------------------------------------------------------------
(* The way to a name.                                                        *)
Onward(t, n, m) == IF m \in Name \ {n} THEN Kid(t, SideFor(n, m), m) ELSE m

(* The way as a chain of nodes; the function that Way defines exists.        *)
LEMMA WayUnfolds ==
    ASSUME NEW N, NEW sub, Shape(tree, N, sub), NEW n \in Name
    PROVE  \E step : /\ Way(n) = {step[d] : d \in 0..Cardinality(Name)}
                     /\ step[0] = tree.root
                     /\ \A i \in 1..Cardinality(Name) : step[i] = Onward(tree, n, step[i - 1])
<1> DEFINE X == N \cup {Sentinel}
           C == Cardinality(Name)
           next == [p \in X \X Nat |-> Onward(tree, n, p[1])]
<1>1. tree.root \in X /\ C \in Nat /\ N \in SUBSET Name /\ Sentinel \notin Name
  BY Sentinels DEF Shape
<1>2. \A m \in X : Onward(tree, n, m) \in X
  <2> TAKE m \in X
  <2>1. CASE m \in N
    <3>1. SideFor(n, m) \in Side
      BY DEF Side, SideFor
    <3>2. Kid(tree, SideFor(n, m), m) \in X
      BY <2>1, <3>1, SubsAre
    <3> QED
      BY <2>1, <3>2 DEF Onward
  <2>2. CASE m = Sentinel
    BY <1>1, <2>2 DEF Onward
  <2> QED
    BY <2>1, <2>2
<1>3. next \in [X \X Nat -> X]
  BY <1>2
<1>4. \A m \in X, i \in Nat : next[<<m, i>>] = Onward(tree, n, m)
  OBVIOUS
<1> HIDE DEF X, next, C
<1>5. PICK f \in [0..C -> X] : Recurs(f, C, tree.root, next)
  BY <1>1, <1>3, Recursion
<1> DEFINE Is(g) == g = [d \in 0..C |-> IF d = 0 THEN tree.root ELSE Onward(tree, n, g[d - 1])]
<1>6. Is(f)
  <2>1. \A i \in 0..C : i # 0 => f[i - 1] \in X /\ i \in Nat
    BY <1>1
  <2>2. \A i \in 0..C :
           (IF i = 0 THEN tree.root ELSE next[<<f[i - 1], i>>]) = (IF i = 0 THEN tree.root
               ELSE Onward(tree, n, f[i - 1]))
    BY <1>4, <2>1
  <2> QED
    BY <1>5, <2>2 DEF Recurs
<1> DEFINE step == CHOOSE g : Is(g)
<1>7. Is(step)
  BY <1>6
<1>8. Way(n) = {step[d] : d \in DOMAIN step}
  BY DEF Way, Onward, C
<1> HIDE DEF step
<1>9. step[0] = tree.root /\ (\A i \in 1..C : step[i] = Onward(tree, n, step[i - 1])) /\ DOMAIN step = 0..C
  BY <1>1, <1>7
<1> QED
  BY <1>8, <1>9 DEF C

(* The way leads where a name belongs, and to its node if it has one.        *)
LEMMA WayLeads ==
    ASSUME NEW N, NEW sub, Shape(tree, N, sub), NEW n \in Name
    PROVE  \A y \in Way(n) :
              /\ y \in N \cup {Sentinel}
              /\ y \in N => \A k \in N : y \in sub[k] /\ k # y => SideFor(y, k) = SideFor(n, k)
<1> DEFINE Right(y) == /\ y \in N \cup {Sentinel}
                       /\ y \in N => \A k \in N : y \in sub[k] /\ k # y => SideFor(y, k) = SideFor(n, k)
           P == {y \in N \cup {Sentinel} : Right(y)}
           C == Cardinality(Name)
<1>1. PICK step : /\ Way(n) = {step[d] : d \in 0..C}
                  /\ step[0] = tree.root
                  /\ \A i \in 1..C : step[i] = Onward(tree, n, step[i - 1])
  BY WayUnfolds
<1>2. C \in Nat /\ Sentinel \notin Name /\ N \in SUBSET Name
  BY Sentinels DEF Shape
<1>3. step[0] \in P
  <2>1. tree.root \in N \cup {Sentinel}
    BY DEF Shape
  <2>2. \A k \in N : tree.root \in sub[k] => k = tree.root
    BY RootIsTop
  <2> QED
    BY <1>1, <2>1, <2>2
<1>4. ASSUME NEW y \in P PROVE Onward(tree, n, y) \in P
  <2>1. CASE y \notin N \/ y = n
    BY <1>2, <2>1 DEF Onward
  <2>2. CASE y \in N /\ y # n
    <3> DEFINE s == SideFor(n, y)
               c == Kid(tree, s, y)
    <3>1. Onward(tree, n, y) = c /\ s \in Side
      BY <1>2, <2>2 DEF Onward, SideFor, Side
    <3>2. c \in N \cup {Sentinel}
      BY <2>2, <3>1, SubsAre
    <3>3. ASSUME c \in N, NEW k \in N, c \in sub[k], k # c PROVE SideFor(c, k) = SideFor(n, k)
      <4>1. Par(tree, c) = y /\ Aside(s, c, y) /\ c \in sub[y] /\ c \in sub[c]
        BY <2>2, <3>1, <3>3, SubsAre
      <4>2. y \in sub[k]
        BY <3>3, <4>1, ParentInside
      <4>3. CASE k = y
        BY <4>1, <4>3 DEF Aside
      <4>4. CASE k # y
        <5>1. SideFor(y, k) = SideFor(n, k)
          BY <2>2, <4>2, <4>4
        <5>2. PICK r \in Side : Kid(tree, r, k) \in N /\ y \in sub[Kid(tree, r, k)] /\ Aside(r, y, k)
          BY <4>2, <4>4, SomewhereBelow
        <5>3. c \in sub[Kid(tree, r, k)]
          BY <2>2, <4>1, <5>2, Nested
        <5>4. Aside(r, c, k)
          BY <5>2, <5>3, SubsAre DEF Part
        <5> QED
          BY <5>1, <5>2, <5>4 DEF Aside
      <4> QED
        BY <4>3, <4>4
    <3> HIDE DEF c, s
    <3> QED
      BY <3>1, <3>2, <3>3
  <2> QED
    BY <2>1, <2>2
<1> HIDE DEF P
<1>5. \A i \in 1..C : step[i - 1] \in P => step[i] \in P
  BY <1>1, <1>4
<1>6. \A i \in 0..C : step[i] \in P
  BY <1>2, <1>3, <1>5, StaysIn
<1> QED
  BY <1>1, <1>6 DEF P

(* ss_rbtree_lookup finds a name if and only if there is a node for it.      *)
LEMMA FoundIsThere ==
    ASSUME NEW N, NEW sub, Shape(tree, N, sub), NEW n \in Name
    PROVE  IsFound(n) <=> n \in N
<1> DEFINE C == Cardinality(Name)
<1>1. PICK step : /\ Way(n) = {step[d] : d \in 0..C}
                  /\ step[0] = tree.root
                  /\ \A i \in 1..C : step[i] = Onward(tree, n, step[i - 1])
  BY WayUnfolds
<1>2. C \in Nat /\ Sentinel \notin Name /\ N \in SUBSET Name /\ IsFiniteSet(Name)
  BY Sentinels, FS_CardinalityType DEF Shape
<1>3. IsFound(n) => n \in N
  BY <1>2, WayLeads DEF IsFound
<1>4. ASSUME n \in N PROVE n \in Way(n)
  <2> DEFINE Close(y, i) == y \in N /\ n \in sub[y] /\ (y = n \/ Cardinality(sub[y]) + i <= C)
             Good == {i \in Nat : i <= C => Close(step[i], i)}
  <2>0. \A y \in N : sub[y] \in SUBSET Name /\ IsFiniteSet(sub[y]) /\ Cardinality(sub[y]) \in Nat
    BY SubsAre, Sentinels
  <2>1. 0 \in Good
    <3>1. tree.root \in N /\ sub[tree.root] = N /\ Cardinality(N) \in Nat
      BY <1>2, <1>4, SubsAre, Sentinels
    <3>2. Cardinality(N) <= C
      BY <1>2, FS_Subset
    <3> QED
      BY <1>1, <1>2, <1>4, <3>1, <3>2
  <2>2. \A i \in Nat : i \in Good => i + 1 \in Good
    <3> HIDE DEF Close
    <3> SUFFICES ASSUME NEW i \in Nat, i \in Good, i + 1 <= C PROVE Close(step[i + 1], i + 1)
      OBVIOUS
    <3>1. Close(step[i], i) /\ i + 1 \in 1..C /\ (i + 1) - 1 = i
      BY <1>2
    <3> USE DEF Close
    <3>2. PICK y \in N : y = step[i]
      BY <3>1
    <3>3. step[i + 1] = Onward(tree, n, y)
      BY <1>1, <3>1, <3>2
    <3>4. CASE y = n
      <4>1. step[i + 1] = n
        BY <3>3, <3>4 DEF Onward
      <4> QED
        BY <1>4, <4>1, SubsAre
    <3>5. CASE y # n
      <4> DEFINE s == SideFor(n, y)
      <4>1. s \in Side /\ step[i + 1] = Kid(tree, s, y)
        BY <1>2, <3>3, <3>5 DEF Onward, SideFor, Side
      <4>2. n \in Part(sub, s, y)
        BY <3>1, <3>2, <3>5 DEF Part, Aside
      <4>3. PICK c \in N : c = Kid(tree, s, y) /\ n \in sub[c]
        <5> HIDE DEF s
        <5> QED
          BY <4>1, <4>2, SubsAre
      <4>4. Cardinality(sub[c]) + 1 <= Cardinality(sub[y])
        BY <4>1, <4>3, Fewer
      <4>5. Cardinality(sub[y]) + i <= C
        BY <3>1, <3>2, <3>5
      <4>6. Cardinality(sub[c]) \in Nat /\ Cardinality(sub[y]) \in Nat
        BY <2>0
      <4>7. Cardinality(sub[c]) + (i + 1) <= C
        BY <1>2, <4>4, <4>5, <4>6
      <4> QED
        BY <4>1, <4>3, <4>7
    <3> QED
      BY <3>4, <3>5
  <2> HIDE DEF Good
  <2>3. C \in Good
    BY <1>2, <2>1, <2>2, Induct
  <2>4. Close(step[C], C)
    BY <1>2, <2>3 DEF Good
  <2>5. step[C] = n
    <3> SUFFICES ASSUME step[C] # n PROVE FALSE
      OBVIOUS
    <3>1. PICK y \in N : y = step[C] /\ n \in sub[y] /\ Cardinality(sub[y]) + C <= C
      BY <2>4
    <3>2. Cardinality(sub[y]) = 0
      BY <1>2, <2>0, <3>1
    <3> QED
      BY <2>0, <3>1, <3>2, FS_EmptySet
  <2> QED
    BY <1>1, <1>2, <2>5
<1> QED
  BY <1>3, <1>4 DEF IsFound

-----------------------------------------------------------------------------
(* A tree, by its fields, and the changes of one field.                      *)
Made(r, c, p, d) == [root |-> r, child |-> c, parent |-> p, red |-> d]

Edges == [Side \X Place -> Pointer]
Uplinks == [Place -> Pointer]

KidPut(c, s, m, v, c2) == c2 = [c EXCEPT ![<<s, m>>] = v]
KidsPut(c, m, v, c2) == c2 = [[c EXCEPT ![<<"left", m>>] = v] EXCEPT ![<<"right", m>>] = v]
ParPut(p, m, v, p2) == p2 = [p EXCEPT ![m] = v]

(* A tree from its fields, and its pointers.                                 *)
LEMMA MadeOf ==
    ASSUME NEW r, NEW c, NEW p, NEW d, NEW t, t = Made(r, c, p, d)
    PROVE  /\ t.root = r /\ t.child = c /\ t.parent = p /\ t.red = d
           /\ \A s, n : Kid(t, s, n) = c[<<s, n>>] /\ Par(t, n) = p[n]
BY DEF Made, Kid, Par

LEMMA TypedIsMade ==
    ASSUME NEW t, Typed(t)
    PROVE  \E r \in Place, c \in Edges, p \in Uplinks, d \in SUBSET Place : t = Made(r, c, p, d)
BY DEF Typed, Edges, Uplinks, Made

LEMMA MadeIsTyped ==
    ASSUME NEW r \in Place, NEW c \in Edges, NEW p \in Uplinks, NEW d \in SUBSET Place, NEW t,
           t = Made(r, c, p, d)
    PROVE  Typed(t)
BY DEF Typed, Edges, Uplinks, Made

LEMMA KidSet ==
    ASSUME NEW c \in Edges, NEW s \in Side, NEW m \in Place, NEW v \in Pointer, NEW c2, KidPut(c, s, m, v, c2)
    PROVE  /\ c2 \in Edges
           /\ \A r \in Side : \A k \in Place : c2[<<r, k>>] = IF r = s /\ k = m THEN v ELSE c[<<r, k>>]
BY DEF Edges, KidPut

LEMMA ParSet ==
    ASSUME NEW p \in Uplinks, NEW m \in Place, NEW v \in Pointer, NEW p2, ParPut(p, m, v, p2)
    PROVE  p2 \in Uplinks /\ \A k \in Place : p2[k] = IF k = m THEN v ELSE p[k]
BY DEF Uplinks, ParPut

(* A node gets the same for both children.                                   *)
LEMMA KidsSet ==
    ASSUME NEW c \in Edges, NEW n \in Place, NEW v \in Pointer, NEW c2, KidsPut(c, n, v, c2)
    PROVE  /\ c2 \in Edges
           /\ \A r \in Side : \A k \in Place : c2[<<r, k>>] = IF k = n THEN v ELSE c[<<r, k>>]
<1>1. "left" \in Side /\ "right" \in Side /\ \A a \in Side : a = "left" \/ a = "right"
  BY DEF Side
<1>2. PICK c1 : c1 = [c EXCEPT ![<<"left", n>>] = v]
  OBVIOUS
<1>3. KidPut(c, "left", n, v, c1)
  BY <1>2 DEF KidPut
<1>4. KidPut(c1, "right", n, v, c2)
  BY <1>2 DEF KidPut, KidsPut
<1>5. c1 \in Edges /\ \A r \in Side : \A k \in Place : c1[<<r, k>>] = IF r = "left" /\ k = n THEN v
          ELSE c[<<r, k>>]
  BY <1>1, <1>3, KidSet
<1>6. c2 \in Edges /\ \A r \in Side : \A k \in Place : c2[<<r, k>>] = IF r = "right" /\ k = n THEN v
          ELSE c1[<<r, k>>]
  BY <1>1, <1>4, <1>5, KidSet
<1> QED
  BY <1>1, <1>5, <1>6

-----------------------------------------------------------------------------
(* A new node.                                                               *)
LEMMA FirstLinked ==
    ASSUME NEW n \in Name, Typed(tree), LinkFirst(n)
    PROVE  /\ Typed(tree') /\ tree'.root = n /\ tree'.red = tree.red \ {n}
           /\ \A r \in Side : Kid(tree', r, n) = Sentinel
<1>1. PICK r \in Place, c \in Edges, p \in Uplinks, d \in SUBSET Place : tree = Made(r, c, p, d)
  BY TypedIsMade
<1>2. PICK c2 : c2 = [[c EXCEPT ![<<"left", n>>] = Sentinel] EXCEPT ![<<"right", n>>] = Sentinel]
  OBVIOUS
<1>3. PICK p2 : p2 = [p EXCEPT ![n] = Null]
  OBVIOUS
<1>4. PICK u : u = tree'
  OBVIOUS
<1>5. u = Made(n, c2, p2, d \ {n})
  BY <1>1, <1>2, <1>3, <1>4 DEF LinkFirst, Made
<1>6. n \in Place /\ Sentinel \in Pointer /\ Null \in Pointer /\ d \ {n} \in SUBSET Place
  BY DEF Place, Pointer
<1>7. c2 \in Edges /\ \A a \in Side : c2[<<a, n>>] = Sentinel
  <2>1. KidsPut(c, n, Sentinel, c2)
    BY <1>2 DEF KidsPut
  <2> QED
    BY <2>1, <1>6, KidsSet
<1>8. p2 \in Uplinks
  <2>1. ParPut(p, n, Null, p2)
    BY <1>3 DEF ParPut
  <2> QED
    BY <2>1, <1>6, ParSet
<1>9. Typed(u)
  BY <1>5, <1>6, <1>7, <1>8, MadeIsTyped
<1>10. u.root = n /\ u.red = d \ {n} /\ \A a : Kid(u, a, n) = c2[<<a, n>>]
  BY <1>5, MadeOf
<1>11. tree.red = d
  BY <1>1, MadeOf
<1> QED
  BY <1>4, <1>7, <1>9, <1>10, <1>11

LEMMA BelowLinked ==
    ASSUME NEW n \in Name, NEW m \in Name, NEW s, s = SideFor(n, m), Typed(tree), LinkBelow(n, m)
    PROVE  /\ Typed(tree') /\ tree'.root = tree.root /\ tree'.red = tree.red \cup {n}
           /\ \A r \in Side : \A k \in Place :
                 Kid(tree', r, k) = IF k = n THEN Sentinel ELSE IF r = s /\ k = m THEN n ELSE Kid(tree, r, k)
           /\ \A k \in Place : Par(tree', k) = IF k = n THEN m ELSE Par(tree, k)
<1>1. PICK q \in Place, c \in Edges, p \in Uplinks, d \in SUBSET Place : tree = Made(q, c, p, d)
  BY TypedIsMade
<1>2. s \in Side
  BY DEF SideFor, Side
<1>3. PICK c1 : c1 = [c EXCEPT ![<<s, m>>] = n]
  OBVIOUS
<1>4. PICK c2 : c2 = [[c1 EXCEPT ![<<"left", n>>] = Sentinel] EXCEPT ![<<"right", n>>] = Sentinel]
  OBVIOUS
<1>5. PICK p2 : p2 = [p EXCEPT ![n] = m]
  OBVIOUS
<1>6. PICK u : u = tree'
  OBVIOUS
<1>7. u = Made(q, c2, p2, d \cup {n})
  BY <1>1, <1>3, <1>4, <1>5, <1>6 DEF LinkBelow, Made
<1>8. n \in Place /\ m \in Place /\ Sentinel \in Pointer /\ n \in Pointer /\ m \in Pointer
      /\ d \cup {n} \in SUBSET Place
  BY DEF Place, Pointer
<1>9. KidPut(c, s, m, n, c1) /\ KidsPut(c1, n, Sentinel, c2) /\ ParPut(p, n, m, p2)
  BY <1>3, <1>4, <1>5 DEF KidPut, KidsPut, ParPut
<1>10. c1 \in Edges /\ \A r \in Side : \A k \in Place : c1[<<r, k>>] = IF r = s /\ k = m THEN n ELSE c[<<r, k>>]
  BY <1>2, <1>8, <1>9, KidSet
<1>11. c2 \in Edges /\ \A r \in Side : \A k \in Place : c2[<<r, k>>] = IF k = n THEN Sentinel ELSE c1[<<r, k>>]
  BY <1>8, <1>9, <1>10, KidsSet
<1>12. p2 \in Uplinks /\ \A k \in Place : p2[k] = IF k = n THEN m ELSE p[k]
  BY <1>8, <1>9, ParSet
<1>13. Typed(u)
  BY <1>7, <1>8, <1>11, <1>12, MadeIsTyped
<1>14. u.root = q /\ u.red = d \cup {n} /\ \A a, k : Kid(u, a, k) = c2[<<a, k>>] /\ Par(u, k) = p2[k]
  BY <1>7, MadeOf
<1>15. tree.root = q /\ tree.red = d /\ \A a, k : Kid(tree, a, k) = c[<<a, k>>] /\ Par(tree, k) = p[k]
  BY <1>1, MadeOf
<1>16. \A r \in Side : \A k \in Place :
         Kid(u, r, k) = IF k = n THEN Sentinel ELSE IF r = s /\ k = m THEN n ELSE Kid(tree, r, k)
  <2> TAKE r \in Side
  <2> TAKE k \in Place
  <2>1. Kid(u, r, k) = c2[<<r, k>>] /\ Kid(tree, r, k) = c[<<r, k>>]
    BY <1>14, <1>15
  <2>2. c2[<<r, k>>] = IF k = n THEN Sentinel ELSE c1[<<r, k>>]
    BY <1>11
  <2>3. c1[<<r, k>>] = IF r = s /\ k = m THEN n ELSE c[<<r, k>>]
    BY <1>10
  <2> QED
    BY <2>1, <2>2, <2>3
<1>17. \A k \in Place : Par(u, k) = IF k = n THEN m ELSE Par(tree, k)
  BY <1>12, <1>14, <1>15
<1> QED
  BY <1>6, <1>13, <1>14, <1>15, <1>16, <1>17

(* The first node.                                                           *)
LEMMA LinkFirstKeeps ==
    ASSUME NEW N, TreeIs(tree, doing, at, N), doing = "none", NEW n \in Name, LinkFirst(n)
    PROVE  TreeIs(tree', doing', at', N \cup {n})
<1>1. PICK sub, bh : Tree(tree, N, sub, bh, {}) /\ Resting(tree, N)
  BY DEF TreeIs
<1>2. /\ Typed(tree) /\ Shape(tree, N, sub) /\ N \in SUBSET Name /\ Sentinel \notin N /\ tree.red \in SUBSET N
  BY <1>1, Kinds
<1>3. N = {} /\ tree.red = {}
  BY <1>2 DEF LinkFirst, Shape
<1>4. /\ Typed(tree') /\ tree'.root = n /\ tree'.red = {}
      /\ \A r \in Side : Kid(tree', r, n) = Sentinel
  BY <1>2, <1>3, FirstLinked
<1> DEFINE sub2 == [k \in {n} |-> {n}]
           bh2 == [k \in {n} \cup {Sentinel} |-> IF k = Sentinel THEN 0 ELSE 1]
<1>5. n # Sentinel /\ {n} \in SUBSET Name
  BY Sentinels
<1>6. Shape(tree', {n}, sub2)
  <2>1. \A r \in Side : Part(sub2, r, n) = {}
    BY DEF Part, Aside
  <2> QED
    BY <1>4, <1>5, <2>1 DEF Shape, Joins
<1>7. Coloured(tree', {n}, bh2, {})
  <2>1. bh2 \in [{n} \cup {Sentinel} -> Nat] /\ bh2[Sentinel] = 0 /\ bh2[n] = 1
    BY <1>5
  <2>2. \A r \in Side : bh2[n] = bh2[Kid(tree', r, n)] + Extra({}, r, n) + Own(tree', n)
    BY <1>4, <2>1 DEF Extra, Own
  <2> HIDE DEF bh2
  <2> QED
    BY <1>4, <2>1, <2>2 DEF Coloured
<1>8. Resting(tree', {n})
  BY <1>4 DEF Resting, Reds
<1>9. doing' = "none" /\ N \cup {n} = {n}
  BY <1>3 DEF LinkFirst
<1> HIDE DEF sub2, bh2
<1> QED
  BY <1>4, <1>6, <1>7, <1>8, <1>9 DEF TreeIs, Tree

(* A leaf grows where the way to its name leads.                             *)
LEMMA LeafGrows ==
    ASSUME NEW t, NEW N, NEW sub, NEW bh, Tree(t, N, sub, bh, {}), NEW n \in Name \ N, NEW m \in N,
           NEW s \in Side, s = SideFor(n, m), Kid(t, s, m) = Sentinel,
           \A k \in N : m \in sub[k] /\ k # m => SideFor(m, k) = SideFor(n, k),
           NEW u, Typed(u), u.root = t.root, u.red = t.red \cup {n},
           \A r \in Side : \A k \in Place :
                 Kid(u, r, k) = IF k = n THEN Sentinel ELSE IF r = s /\ k = m THEN n ELSE Kid(t, r, k),
           \A k \in Place : Par(u, k) = IF k = n THEN m ELSE Par(t, k)
    PROVE  \E sub2, bh2 : Tree(u, N \cup {n}, sub2, bh2, {})
<1> DEFINE N2 == N \cup {n}
           sub2 == [k \in N2 |-> IF k = n THEN {n} ELSE IF m \in sub[k] THEN sub[k] \cup {n} ELSE sub[k]]
           bh2 == [k \in N2 \cup {Sentinel} |-> IF k = n THEN 0 ELSE bh[k]]
<1>1. /\ Typed(t) /\ Shape(t, N, sub) /\ Coloured(t, N, bh, {})
      /\ N \in SUBSET Name /\ N \in SUBSET Place /\ Sentinel \notin N
      /\ t.red \in SUBSET N /\ t.red \in SUBSET Place
  BY Kinds
<1>2. n \in Place /\ n \notin N /\ n # Sentinel /\ N2 \in SUBSET Name /\ n # m /\ n \in N2 /\ Sentinel \notin N2
      /\ \A k \in N2 : k = n \/ k \in N
  BY <1>1, Sentinels DEF Place
<1>3. /\ sub2[n] = {n}
      /\ \A k \in N : sub2[k] = IF m \in sub[k] THEN sub[k] \cup {n} ELSE sub[k]
  BY <1>2
<1>4. \A k \in N : sub[k] \in SUBSET N /\ sub[k] \in SUBSET Name /\ k \in sub[k] /\ n \notin sub[k]
  BY <1>1, <1>2, SubsAre
<1>5. sub2 \in [N2 -> SUBSET N2]
  BY <1>4
<1>6. bh \in [N \cup {Sentinel} -> Nat] /\ bh[Sentinel] = 0
  BY <1>1 DEF Coloured
<1>7. bh2 \in [N2 \cup {Sentinel} -> Nat] /\ bh2[Sentinel] = 0 /\ bh2[n] = 0
      /\ \A k \in N \cup {Sentinel} : bh2[k] = bh[k]
  BY <1>2, <1>6
<1> HIDE DEF sub2, bh2, N2
<1>8. /\ \A r \in Side : Kid(u, r, n) = Sentinel
      /\ Kid(u, s, m) = n /\ Par(u, n) = m
      /\ \A r \in Side : \A k \in N : ~(r = s /\ k = m) => Kid(u, r, k) = Kid(t, r, k)
      /\ \A k \in N : Par(u, k) = Par(t, k)
  BY <1>1, <1>2
<1>9. u.root \in N2 /\ sub2[u.root] = N2
  <2>1. t.root \in N /\ sub[t.root] = N
    BY <1>1, SubsAre
  <2> QED
    BY <1>3, <2>1 DEF N2
<1>10. \A k \in N2 : k \in sub2[k]
  BY <1>2, <1>3, <1>4
<1>11. \A r \in Side : Part(sub2, r, n) = {}
  BY <1>3 DEF Part, Aside
<1>12. \A r \in Side : \A k \in N : m \notin sub[k] => Part(sub2, r, k) = Part(sub, r, k)
  BY <1>3 DEF Part
<1>13. \A r \in Side : \A k \in N : m \in sub[k] /\ ~Aside(r, n, k) => Part(sub2, r, k) = Part(sub, r, k)
  BY <1>3 DEF Part
<1>14. \A r \in Side : \A k \in N :
          m \in sub[k] /\ Aside(r, n, k) => Part(sub2, r, k) = Part(sub, r, k) \cup {n}
  BY <1>3 DEF Part
<1>15. ASSUME NEW r \in Side, NEW k \in N PROVE Joins(u, N2, sub2, r, k)
  <2>0. Joins(t, N, sub, r, k)
    BY <1>1, SubsAre
  <2> DEFINE c == Kid(t, r, k)
  <2>1. c \in N => /\ sub[c] = Part(sub, r, k) /\ Par(t, c) = k /\ c # n /\ Part(sub, r, k) \subseteq sub[k]
                   /\ Par(u, c) = k /\ c \in N2
    BY <1>1, <1>2, <1>8, SubsAre DEF N2
  <2>2. c \in N \/ (c = Sentinel /\ c \notin N2 /\ Part(sub, r, k) = {})
    BY <1>1, <1>2, SubsAre
  <2>3. CASE m \notin sub[k]
    <3>1. Kid(u, r, k) = c
      BY <1>4, <1>8, <2>3
    <3>2. Part(sub2, r, k) = Part(sub, r, k)
      BY <1>12, <2>3
    <3>3. c \in N => sub2[c] = sub[c]
      BY <1>3, <2>1, <2>3
    <3>4. c \in N => c # Sentinel
      BY <1>1
    <3> HIDE DEF c
    <3>5. CASE c = Sentinel
      BY <2>2, <3>1, <3>2, <3>4, <3>5 DEF Joins
    <3>6. CASE c \in N
      BY <2>1, <3>1, <3>2, <3>3, <3>4, <3>6 DEF Joins
    <3> QED
      BY <2>2, <3>5, <3>6
  <2>4. CASE k = m /\ r = s
    <3>1. Part(sub, r, k) = {}
      BY <1>1, <2>2, <2>4, Sentinels
    <3>2. Aside(r, n, k) /\ m \in sub[k]
      BY <1>2, <1>4, <2>4 DEF Aside
    <3>3. Part(sub2, r, k) = {n}
      BY <1>14, <3>1, <3>2
    <3> QED
      BY <1>2, <1>3, <1>8, <2>4, <3>3 DEF Joins
  <2>5. CASE m \in sub[k] /\ ~(k = m /\ r = s)
    <3>1. Kid(u, r, k) = c
      BY <1>8, <2>5
    <3>2. Aside(r, n, k) <=> Aside(r, m, k)
      BY <1>2, <2>5 DEF Aside
    <3>3. CASE Aside(r, n, k)
      <4>1. m \in Part(sub, r, k)
        BY <2>5, <3>2, <3>3 DEF Part
      <4>2. c \in N /\ sub2[c] = sub[c] \cup {n}
        BY <1>3, <2>1, <2>2, <4>1
      <4>3. Part(sub2, r, k) = Part(sub, r, k) \cup {n}
        BY <1>14, <2>5, <3>3
      <4> HIDE DEF c
      <4> QED
        BY <1>2, <2>1, <3>1, <4>2, <4>3 DEF Joins
    <3>4. CASE ~Aside(r, n, k)
      <4>1. m \notin Part(sub, r, k)
        BY <3>2, <3>4 DEF Part
      <4>2. c \in N => sub2[c] = sub[c]
        BY <1>3, <2>1, <4>1
      <4>3. Part(sub2, r, k) = Part(sub, r, k)
        BY <1>13, <2>5, <3>4
      <4> HIDE DEF c
      <4> QED
        BY <1>2, <2>1, <2>2, <3>1, <4>2, <4>3 DEF Joins
    <3> QED
      BY <3>3, <3>4
  <2> QED
    BY <2>3, <2>4, <2>5, <1>4
<1>16. \A r \in Side : Joins(u, N2, sub2, r, n)
  BY <1>8, <1>11 DEF Joins
<1>17. Shape(u, N2, sub2)
  BY <1>2, <1>5, <1>9, <1>10, <1>15, <1>16 DEF Shape
<1>18. ASSUME NEW k \in N2, NEW r \in Side
       PROVE  bh2[k] = bh2[Kid(u, r, k)] + Extra({}, r, k) + Own(u, k)
  <2>1. Extra({}, r, k) = 0
    BY DEF Extra
  <2>2. CASE k = n
    <3>1. Own(u, k) = 0 /\ Kid(u, r, k) = Sentinel
      BY <1>8, <2>2 DEF Own
    <3> QED
      BY <1>7, <2>1, <2>2, <3>1
  <2>3. CASE k # n
    <3>1. k \in N
      BY <1>2, <2>3
    <3>2. Own(u, k) = Own(t, k)
      BY <2>3 DEF Own
    <3>3. bh[k] = bh[Kid(t, r, k)] + Extra({}, r, k) + Own(t, k)
      BY <1>1, <3>1 DEF Coloured
    <3>4. bh2[Kid(u, r, k)] = bh[Kid(t, r, k)]
      <4>1. CASE r = s /\ k = m
        BY <1>6, <1>7, <1>8, <4>1
      <4>2. CASE ~(r = s /\ k = m)
        <5>1. Kid(t, r, k) \in N \cup {Sentinel}
          BY <1>1, <3>1, SubsAre
        <5> QED
          BY <1>7, <1>8, <3>1, <4>2, <5>1
      <4> QED
        BY <4>1, <4>2
    <3> QED
      BY <1>7, <3>1, <3>2, <3>3, <3>4
  <2> QED
    BY <2>2, <2>3
<1>19. Coloured(u, N2, bh2, {})
  <2>1. u.red \in SUBSET N2
    BY <1>1 DEF N2
  <2> QED
    BY <1>7, <1>18, <2>1 DEF Coloured
<1> QED
  BY <1>17, <1>19 DEF Tree, N2

(* A node below another.                                                     *)
LEMMA LinkBelowKeeps ==
    ASSUME NEW N, TreeIs(tree, doing, at, N), doing = "none", NEW n \in Name, ~IsFound(n),
           NEW m \in Name, LinkBelow(n, m)
    PROVE  TreeIs(tree', doing', at', N \cup {n})
<1>1. PICK sub, bh : Tree(tree, N, sub, bh, {}) /\ Resting(tree, N)
  BY DEF TreeIs
<1>2. /\ Typed(tree) /\ Shape(tree, N, sub) /\ N \in SUBSET Name /\ Sentinel \notin N /\ tree.red \in SUBSET N
      /\ N \in SUBSET Place
  BY <1>1, Kinds
<1>3. PICK s : s = SideFor(n, m)
  OBVIOUS
<1>4. s \in Side
  BY <1>3 DEF SideFor, Side
<1>5. /\ m \in Way(n) /\ Kid(tree, s, m) = Sentinel /\ doing' = "insert" /\ at' = n
      /\ tree' = [tree EXCEPT !.child[<<s, m>>] = n,
                         !.child[<<"left", n>>] = Sentinel, !.child[<<"right", n>>] = Sentinel,
                         !.parent[n] = m, !.red = @ \cup {n}]
  BY <1>3 DEF LinkBelow
<1>6. n \notin N
  BY <1>2, FoundIsThere
<1>7. m \in N /\ \A k \in N : m \in sub[k] /\ k # m => SideFor(m, k) = SideFor(n, k)
  BY <1>2, <1>5, WayLeads, Sentinels
<1>8. PICK u : u = tree'
  OBVIOUS
<1>9. /\ Typed(u) /\ u.root = tree.root /\ u.red = tree.red \cup {n}
      /\ \A r \in Side : \A k \in Place :
                 Kid(u, r, k) = IF k = n THEN Sentinel ELSE IF r = s /\ k = m THEN n ELSE Kid(tree, r, k)
      /\ \A k \in Place : Par(u, k) = IF k = n THEN m ELSE Par(tree, k)
  BY <1>2, <1>3, <1>8, BelowLinked
<1>10. \E sub2, bh2 : Tree(u, N \cup {n}, sub2, bh2, {})
  BY <1>1, <1>3, <1>4, <1>5, <1>6, <1>7, <1>9, LeafGrows
<1>11. Inserting(u, n, N \cup {n})
  <2>1. tree.root \notin tree.red /\ tree.root \in N
    BY <1>1, <1>2, <1>7, SubsAre DEF Resting
  <2>2. u.root \notin u.red
    BY <1>6, <1>9, <2>1
  <2>3. Reds(u, N \cup {n}, {n}, {})
    <3> SUFFICES ASSUME NEW k \in N \cup {n}, NEW r \in Side, k \in u.red, Kid(u, r, k) \in u.red,
                        Kid(u, r, k) # n
                 PROVE  FALSE
      BY DEF Reds
    <3>1. k # n
      <4>1. n \in Place /\ Sentinel \notin u.red
        BY <1>2, <1>9, Sentinels DEF Place
      <4> QED
        BY <1>9, <4>1
    <3>2. k \in N /\ k \in Place /\ k \in tree.red
      BY <1>2, <1>9, <3>1
    <3>3. Kid(u, r, k) = Kid(tree, r, k)
      BY <1>9, <3>1, <3>2
    <3>4. Kid(tree, r, k) \in tree.red
      BY <1>9, <3>3
    <3> QED
      BY <1>1, <3>2, <3>4 DEF Resting, Reds
  <2> QED
    BY <1>9, <2>2, <2>3 DEF Inserting
<1> QED
  BY <1>5, <1>8, <1>10, <1>11 DEF TreeIs

-----------------------------------------------------------------------------
(* A node with at most one child is taken out.                               *)
TakesOut(t, u, N, x, q, p, c) ==
    /\ u.root = t.root /\ u.red = t.red \ {x}
    /\ \A r \in Side : \A k \in N \ {x} : Kid(u, r, k) = IF r = q /\ k = p THEN c ELSE Kid(t, r, k)
    /\ \A k \in N \ {x} : Par(u, k) = IF k = c THEN p ELSE Par(t, k)

(* The node x, its parent and the one child that it may have.                *)
Single(t, N, x, q, p, c) ==
    /\ x \in N /\ x # t.root /\ q = SideOf(t, x) /\ p = Par(t, x)
    /\ \E s \in Side : Kid(t, Other(s), x) = Sentinel /\ c = Kid(t, s, x)

LEMMA SingleParts ==
    ASSUME NEW t, NEW N, NEW sub, Shape(t, N, sub), NEW x, NEW q, NEW p, NEW c, Single(t, N, x, q, p, c)
    PROVE  /\ x \in N /\ p \in N /\ p # x /\ q \in Side /\ Kid(t, q, p) = x /\ t.root \in N \ {x}
           /\ c = Sentinel \/ c \in N
           /\ c # x /\ c # p /\ c # t.root
           /\ \A r \in Side : \A k \in N : Kid(t, r, k) = x => r = q /\ k = p
           /\ \A r \in Side : \A k \in N : Kid(t, r, k) = c /\ c \in N => k = x
           /\ c = Sentinel => sub[x] = {x}
           /\ c \in N => sub[c] = sub[x] \ {x}
           /\ Part(sub, q, p) = sub[x]
<1>1. PICK s \in Side : Kid(t, Other(s), x) = Sentinel /\ c = Kid(t, s, x)
  BY DEF Single
<1>2. x \in N /\ x # t.root /\ q = SideOf(t, x) /\ p = Par(t, x)
  BY DEF Single
<1>3. p \in N /\ p # x /\ q \in Side /\ Kid(t, q, p) = x /\ x \in sub[p] /\ p \notin sub[x]
      /\ \A r \in Side : \A k \in N : Kid(t, r, k) = x => r = q /\ k = p
  BY <1>2, Parents
<1>4. t.root \in N \ {x}
  BY <1>2, SubsAre
<1>5. c = Sentinel \/ c \in N
  BY <1>1, <1>2, SubsAre
<1>6. Other(s) \in Side /\ Part(sub, Other(s), x) = {}
  BY <1>1, <1>2, SidesDiffer, SubsAre, Sentinels
<1>7. sub[x] = {x} \cup Part(sub, s, x)
  <2>1. sub[x] \in SUBSET Name /\ x \in sub[x] /\ x \in Name
    BY <1>2, SubsAre
  <2>2. \A y \in sub[x] : y = x \/ Aside(s, y, x) \/ Aside(Other(s), y, x)
    BY <2>1, AsideIs
  <2>3. \A y \in sub[x] : Aside(Other(s), y, x) => y \in Part(sub, Other(s), x)
    BY DEF Part
  <2> QED
    BY <1>6, <2>1, <2>2, <2>3 DEF Part
<1>8. x \notin Part(sub, s, x)
  BY <1>2, SubsAre
<1>9. c = Sentinel => sub[x] = {x}
  <2>1. c = Sentinel => Part(sub, s, x) = {}
    BY <1>1, <1>2, SubsAre
  <2> QED
    BY <1>7, <2>1
<1>10. c \in N => sub[c] = sub[x] \ {x} /\ c \in sub[x]
  <2>1. c \in N => sub[c] = Part(sub, s, x) /\ c \in Part(sub, s, x)
    BY <1>1, <1>2, SubsAre
  <2> QED
    BY <1>7, <1>8, <2>1
<1>11. Part(sub, q, p) = sub[x]
  BY <1>2, <1>3, SubsAre
<1>12. c # x /\ c # p /\ c # t.root
  <2>1. Sentinel \notin N
    BY Sentinels DEF Shape
  <2>2. c # t.root
    BY <1>1, <1>2, RootIsTop
  <2>3. c \in N => c # x
    BY <1>1, <1>2, <1>8, SubsAre
  <2> QED
    BY <1>2, <1>3, <1>5, <1>10, <2>1, <2>2, <2>3
<1>13. \A r \in Side : \A k \in N : Kid(t, r, k) = c /\ c \in N => k = x
  BY <1>1, <1>2, KidsDiffer
<1> QED
  BY <1>2, <1>3, <1>4, <1>5, <1>9, <1>10, <1>11, <1>12, <1>13

Without(N, sub, x) == [k \in N \ {x} |-> sub[k] \ {x}]

(* Without the node the tree is as before.                                   *)
LEMMA TakeOutKeepsShape ==
    ASSUME NEW t, NEW N, NEW sub, Shape(t, N, sub), NEW x, NEW q, NEW p, NEW c, Single(t, N, x, q, p, c),
           NEW u, TakesOut(t, u, N, x, q, p, c)
    PROVE  Shape(u, N \ {x}, Without(N, sub, x))
<1> DEFINE N2 == N \ {x}
           sub2 == Without(N, sub, x)
<1>1. /\ x \in N /\ p \in N /\ p # x /\ q \in Side /\ Kid(t, q, p) = x /\ t.root \in N \ {x}
      /\ c = Sentinel \/ c \in N
      /\ c # x /\ c # p
      /\ \A r \in Side : \A k \in N : Kid(t, r, k) = x => r = q /\ k = p
      /\ \A r \in Side : \A k \in N : Kid(t, r, k) = c /\ c \in N => k = x
      /\ c = Sentinel => sub[x] = {x}
      /\ c \in N => sub[c] = sub[x] \ {x}
      /\ Part(sub, q, p) = sub[x]
  BY SingleParts
<1>2. N \in SUBSET Name /\ Sentinel \notin N /\ \A k \in N : k \in sub[k] /\ sub[k] \in SUBSET N
  BY Sentinels, SubsAre DEF Shape
<1>3. \A k \in N2 : sub2[k] = sub[k] \ {x}
  BY DEF Without
<1>4. sub2 \in [N2 -> SUBSET N2]
  BY <1>2 DEF Without
<1> HIDE DEF sub2
<1>5. \A r \in Side : \A k \in N2 : Part(sub2, r, k) = Part(sub, r, k) \ {x}
  BY <1>3 DEF Part
<1>6. u.root \in N2 /\ sub2[u.root] = N2
  <2>1. u.root = t.root /\ sub[t.root] = N
    BY <1>1, SubsAre DEF TakesOut
  <2> QED
    BY <1>1, <1>3, <2>1
<1>7. ASSUME NEW k \in N2, NEW r \in Side PROVE Joins(u, N2, sub2, r, k)
  <2>1. CASE r = q /\ k = p
    <3>1. Kid(u, r, k) = c
      BY <2>1 DEF TakesOut
    <3>2. Part(sub2, r, k) = sub[x] \ {x}
      BY <1>1, <1>5, <2>1
    <3>3. CASE c = Sentinel
      BY <1>1, <3>1, <3>2, <3>3 DEF Joins
    <3>4. CASE c \in N
      <4>1. c \in N2 /\ c # Sentinel /\ Par(u, c) = k
        BY <1>1, <1>2, <2>1, <3>4 DEF TakesOut
      <4>2. sub2[c] = Part(sub2, r, k)
        BY <1>1, <1>3, <3>2, <3>4, <4>1
      <4> QED
        BY <3>1, <4>1, <4>2 DEF Joins
    <3> QED
      BY <1>1, <3>3, <3>4
  <2>2. CASE ~(r = q /\ k = p)
    <3>1. PICK y : y = Kid(t, r, k)
      OBVIOUS
    <3>2. Kid(u, r, k) = y
      BY <2>2, <3>1 DEF TakesOut
    <3>3. (y = Sentinel /\ Part(sub, r, k) = {}) \/ y \in N
      BY <3>1, SubsAre
    <3>4. CASE y = Sentinel
      BY <1>2, <1>5, <3>2, <3>3, <3>4 DEF Joins
    <3>5. CASE y \in N
      <4>1. y \in N2 /\ y # Sentinel /\ y # c
        BY <1>1, <1>2, <2>2, <3>1, <3>5
      <4>2. Par(t, y) = k /\ sub[y] = Part(sub, r, k)
        BY <3>1, <3>5, SubsAre
      <4>3. Par(u, y) = k
        BY <4>1, <4>2 DEF TakesOut
      <4>4. sub2[y] = Part(sub2, r, k)
        BY <1>3, <1>5, <4>1, <4>2
      <4> QED
        BY <3>2, <4>1, <4>3, <4>4 DEF Joins
    <3> QED
      BY <3>3, <3>4, <3>5
  <2> QED
    BY <2>1, <2>2
<1>8. \A k \in N2 : k \in sub2[k]
  BY <1>2, <1>3
<1>9. N2 \in SUBSET Name /\ N2 # {}
  BY <1>2, <1>6
<1> HIDE DEF N2
<1>10. Shape(u, N2, sub2)
  BY <1>4, <1>6, <1>7, <1>8, <1>9 DEF Shape
<1> QED
  BY <1>10 DEF N2, sub2

Narrowed(N, bh, x) == [k \in (N \ {x}) \cup {Sentinel} |-> bh[k]]
Gap(t, x, q, p) == IF x \in t.red THEN {} ELSE {<<q, p>>}

(* Without a black node there is a hole in its place.                        *)
LEMMA TakeOutKeepsColours ==
    ASSUME NEW t, NEW N, NEW sub, Shape(t, N, sub), NEW bh, Coloured(t, N, bh, {}),
           NEW x, NEW q, NEW p, NEW c, Single(t, N, x, q, p, c), NEW u, TakesOut(t, u, N, x, q, p, c)
    PROVE  Coloured(u, N \ {x}, Narrowed(N, bh, x), Gap(t, x, q, p))
<1> DEFINE N2 == N \ {x}
           bh2 == Narrowed(N, bh, x)
           hole == Gap(t, x, q, p)
<1>1. /\ x \in N /\ p \in N /\ p # x /\ q \in Side /\ Kid(t, q, p) = x
      /\ c = Sentinel \/ c \in N
      /\ c # x
      /\ \A r \in Side : \A k \in N : Kid(t, r, k) = x => r = q /\ k = p
  BY SingleParts
<1>2. PICK s \in Side : c = Kid(t, s, x)
  BY DEF Single
<1>3. /\ t.red \in SUBSET N /\ bh \in [N \cup {Sentinel} -> Nat] /\ bh[Sentinel] = 0
      /\ \A k \in N : \A r \in Side : bh[k] = bh[Kid(t, r, k)] + Own(t, k)
  <2>1. \A k \in N : \A r \in Side : Extra({}, r, k) = 0
    BY DEF Extra
  <2>2. /\ t.red \in SUBSET N /\ bh \in [N \cup {Sentinel} -> Nat] /\ bh[Sentinel] = 0
        /\ \A k \in N : \A r \in Side : bh[k] = bh[Kid(t, r, k)] + Extra({}, r, k) + Own(t, k)
    BY DEF Coloured
  <2>3. \A k \in N : \A r \in Side : bh[Kid(t, r, k)] \in Nat /\ Own(t, k) \in Nat
    <3>1. \A k \in N : \A r \in Side : Kid(t, r, k) \in N \cup {Sentinel}
      BY SubsAre
    <3> QED
      BY <2>2, <3>1 DEF Own
  <2> QED
    BY <2>1, <2>2, <2>3
<1>4. /\ bh2 \in [N2 \cup {Sentinel} -> Nat] /\ \A k \in N2 \cup {Sentinel} : bh2[k] = bh[k]
  BY <1>3 DEF Narrowed
<1>5. Sentinel # x
  BY <1>1, Sentinels DEF Shape
<1> HIDE DEF bh2
<1>6. u.red \in SUBSET N2 /\ \A k \in N2 : Own(u, k) = Own(t, k)
  BY <1>3 DEF TakesOut, Own
<1>7. ASSUME NEW k \in N2, NEW r \in Side
      PROVE  bh2[k] = bh2[Kid(u, r, k)] + Extra(hole, r, k) + Own(u, k)
  <2>1. CASE r = q /\ k = p
    <3>1. Kid(u, r, k) = c /\ c \in N2 \cup {Sentinel}
      BY <1>1, <2>1 DEF TakesOut
    <3>2. Extra(hole, r, k) = Own(t, x)
      BY <2>1 DEF Extra, Own, Gap
    <3>3. bh[k] = bh[x] + Own(t, k) /\ bh[x] = bh[c] + Own(t, x)
      BY <1>1, <1>2, <1>3, <2>1
    <3>4. PICK i \in Nat : i = bh[c]
      BY <1>1, <1>3
    <3>5. PICK j \in Nat : j = Own(t, x)
      BY DEF Own
    <3>6. PICK h \in Nat : h = Own(t, k)
      BY DEF Own
    <3>7. bh[k] = i + j + h
      BY <3>3, <3>4, <3>5, <3>6
    <3> QED
      BY <1>4, <1>6, <3>1, <3>2, <3>4, <3>5, <3>6, <3>7
  <2>2. CASE ~(r = q /\ k = p)
    <3>1. PICK y : y = Kid(t, r, k)
      OBVIOUS
    <3>2. y \in N2 \cup {Sentinel} /\ Kid(u, r, k) = y
      <4>1. y \in N \cup {Sentinel}
        BY <3>1, SubsAre
      <4>2. y # x
        BY <1>1, <2>2, <3>1
      <4>3. Kid(u, r, k) = y
        BY <2>2, <3>1 DEF TakesOut
      <4> QED
        BY <1>5, <4>1, <4>2, <4>3
    <3>3. Extra(hole, r, k) = 0
      BY <2>2 DEF Extra, Gap
    <3>4. bh[k] = bh[y] + Own(t, k)
      BY <1>3, <3>1
    <3>5. PICK i \in Nat : i = bh[y]
      BY <1>3, <3>2
    <3>6. PICK h \in Nat : h = Own(t, k)
      BY DEF Own
    <3> QED
      BY <1>4, <1>6, <3>2, <3>3, <3>4, <3>5, <3>6
  <2> QED
    BY <2>1, <2>2
<1> HIDE DEF N2, hole
<1>8. bh2[Sentinel] = 0
  BY <1>3, <1>4
<1>9. \A k \in N2 : \A r \in Side : bh2[k] = bh2[Kid(u, r, k)] + Extra(hole, r, k) + Own(u, k)
  BY <1>7
<1>10. Coloured(u, N2, bh2, hole)
  BY <1>4, <1>6, <1>8, <1>9 DEF Coloured
<1> QED
  BY <1>10 DEF N2, bh2, hole

LEMMA TakeOutReds ==
    ASSUME NEW t, NEW N, NEW sub, Shape(t, N, sub), Reds(t, N, {}, {}),
           NEW x, NEW q, NEW p, NEW c, Single(t, N, x, q, p, c), NEW u, TakesOut(t, u, N, x, q, p, c)
    PROVE  Reds(u, N \ {x}, IF x \in t.red THEN {} ELSE {c}, {})
<1>1. /\ x \in N /\ p \in N /\ p # x /\ q \in Side /\ Kid(t, q, p) = x
  BY SingleParts
<1>2. \A k \in N : \A r \in Side : ~(k \in t.red /\ Kid(t, r, k) \in t.red)
  BY DEF Reds
<1>3. SUFFICES ASSUME NEW k \in N \ {x}, NEW r \in Side, k \in u.red, Kid(u, r, k) \in u.red
               PROVE  x \notin t.red /\ Kid(u, r, k) = c
  BY DEF Reds
<1>4. k \in t.red /\ Kid(u, r, k) \in t.red
  BY <1>3 DEF TakesOut
<1>5. CASE r = q /\ k = p
  <2>1. Kid(u, r, k) = c
    BY <1>5 DEF TakesOut
  <2> QED
    BY <1>1, <1>2, <1>4, <1>5, <2>1
<1>6. CASE ~(r = q /\ k = p)
  <2>1. Kid(u, r, k) = Kid(t, r, k)
    BY <1>6 DEF TakesOut
  <2> QED
    BY <1>2, <1>4, <2>1
<1> QED
  BY <1>5, <1>6

-----------------------------------------------------------------------------
(* A node gets the place of the one before it.                               *)
Instead(n, x, y) == IF y = n THEN x ELSE y
Swapped(n, x, S) == IF n \in S THEN (S \ {n}) \cup {x} ELSE S

StandsIn(u, v, N, n, x) ==
    /\ v.root = Instead(n, x, u.root) /\ v.red = Swapped(n, x, u.red)
    /\ \A r \in Side : \A k \in N : Kid(v, r, Instead(n, x, k)) = Instead(n, x, Kid(u, r, k))
    /\ \A k \in N : k # u.root => Par(v, Instead(n, x, k)) = Instead(n, x, Par(u, k))

NextTo(N, n, x) ==
    /\ n \in N /\ x \in Name \ N
    /\ \A k \in N : k # n => \A r \in Side : /\ Aside(r, n, k) <=> Aside(r, x, k)
                                             /\ Aside(r, k, n) <=> Aside(r, k, x)

LEMMA InsteadIs ==
    ASSUME NEW N \in SUBSET Name, NEW n, NEW x, NextTo(N, n, x)
    PROVE  /\ n \in N /\ x \in Name /\ x \notin N /\ n # x /\ Sentinel \notin N /\ Sentinel # n /\ Sentinel # x
           /\ Instead(n, x, n) = x /\ Instead(n, x, Sentinel) = Sentinel
           /\ Swapped(n, x, N) \in SUBSET Name
           /\ \A k \in N : /\ Instead(n, x, k) \in Swapped(n, x, N) /\ Instead(n, x, k) # Sentinel
                           /\ k # n => Instead(n, x, k) = k
<1>1. n \in N /\ x \in Name /\ x \notin N /\ n # x /\ Sentinel \notin N /\ Sentinel # n /\ Sentinel # x
  BY Sentinels DEF NextTo
<1>2. Instead(n, x, n) = x /\ Instead(n, x, Sentinel) = Sentinel
  BY <1>1 DEF Instead
<1>3. \A k \in N : /\ Instead(n, x, k) \in Swapped(n, x, N) /\ Instead(n, x, k) # Sentinel
                   /\ k # n => Instead(n, x, k) = k
  BY <1>1 DEF Instead, Swapped
<1>4. Swapped(n, x, N) \in SUBSET Name
  BY <1>1 DEF Swapped
<1> QED
  BY <1>1, <1>2, <1>3, <1>4

(* Different nodes have different places, and none is empty.                 *)
LEMMA InsteadIsOnto ==
    ASSUME NEW N \in SUBSET Name, NEW n, NEW x, NextTo(N, n, x)
    PROVE  /\ \A k, m \in N : Instead(n, x, k) = Instead(n, x, m) => k = m
           /\ \A y \in Swapped(n, x, N) : \E k \in N : y = Instead(n, x, k)
<1>1. n \in N /\ x \notin N /\ n # x
  BY InsteadIs
<1>2. \A k, m \in N : Instead(n, x, k) = Instead(n, x, m) => k = m
  BY <1>1 DEF Instead
<1>3. \A y \in Swapped(n, x, N) : \E k \in N : y = Instead(n, x, k)
  BY <1>1 DEF Instead, Swapped
<1> QED
  BY <1>2, <1>3

LEMMA SwappedIs ==
    ASSUME NEW N \in SUBSET Name, NEW n, NEW x, NextTo(N, n, x), NEW S \in SUBSET N
    PROVE  /\ Swapped(n, x, S) \in SUBSET Swapped(n, x, N)
           /\ \A k \in N : Instead(n, x, k) \in Swapped(n, x, S) <=> k \in S
<1>1. n \in N /\ x \notin N /\ n # x
  BY InsteadIs
<1>2. Swapped(n, x, S) \in SUBSET Swapped(n, x, N)
  BY <1>1 DEF Swapped
<1>3. \A k \in N : Instead(n, x, k) \in Swapped(n, x, S) <=> k \in S
  BY <1>1 DEF Instead, Swapped
<1> QED
  BY <1>2, <1>3

(* On which side of one another nodes are does not change.                   *)
LEMMA SidesStay ==
    ASSUME NEW N \in SUBSET Name, NEW n, NEW x, NextTo(N, n, x), NEW r \in Side, NEW k \in N, NEW m \in N
    PROVE  Aside(r, Instead(n, x, k), Instead(n, x, m)) <=> Aside(r, k, m)
<1>1. n \in N /\ x \notin N
  BY DEF NextTo
<1>2. CASE k = n /\ m = n
  BY <1>2 DEF Aside
<1>3. CASE k = n /\ m # n
  BY <1>1, <1>3 DEF NextTo, Instead
<1>4. CASE k # n /\ m = n
  BY <1>1, <1>4 DEF NextTo, Instead
<1>5. CASE k # n /\ m # n
  BY <1>5 DEF Instead
<1> QED
  BY <1>2, <1>3, <1>4, <1>5

(* The sets below the nodes, and the black heights, after that.              *)
Former(n, x, y) == IF y = x THEN n ELSE y
SubsWith(N, sub, n, x) == [y \in Swapped(n, x, N) |-> Swapped(n, x, sub[Former(n, x, y)])]
HeightsWith(N, bh, n, x) == [y \in Swapped(n, x, N) \cup {Sentinel} |-> bh[Former(n, x, y)]]

LEMMA FormerIs ==
    ASSUME NEW N \in SUBSET Name, NEW n, NEW x, NextTo(N, n, x)
    PROVE  /\ \A k \in N : Former(n, x, Instead(n, x, k)) = k
           /\ \A y \in Swapped(n, x, N) : Former(n, x, y) \in N
           /\ Former(n, x, Sentinel) = Sentinel
<1>1. n \in N /\ x \notin N /\ Sentinel # x
  BY InsteadIs
<1> QED
  BY <1>1 DEF Former, Instead, Swapped

(* The node that stands in for its neighbour has the same nodes on both      *)
(* sides.                                                                    *)
LEMMA StandInKeepsShape ==
    ASSUME NEW u, NEW N, NEW sub, Shape(u, N, sub), NEW n, NEW x, NextTo(N, n, x),
           NEW v, StandsIn(u, v, N, n, x)
    PROVE  Shape(v, Swapped(n, x, N), SubsWith(N, sub, n, x))
<1> DEFINE In(y) == Instead(n, x, y)
           N2 == Swapped(n, x, N)
           sub2 == SubsWith(N, sub, n, x)
<1>1. N \in SUBSET Name
  BY DEF Shape
<1>2. /\ n \in N /\ In(n) = x /\ In(Sentinel) = Sentinel
      /\ \A k \in N : In(k) \in N2 /\ In(k) # Sentinel
      /\ N2 \in SUBSET Name
  BY <1>1, InsteadIs
<1>o. \A y \in N2 : \E k \in N : y = In(k)
  BY <1>1, InsteadIsOnto
<1>3. \A S \in SUBSET N : /\ Swapped(n, x, S) \in SUBSET N2
                          /\ \A k \in N : In(k) \in Swapped(n, x, S) <=> k \in S
  BY <1>1, SwappedIs
<1>9. \A k \in N : k \in sub[k] /\ sub[k] \in SUBSET N
  BY SubsAre
<1>4. \A k \in N : sub2[In(k)] = Swapped(n, x, sub[k])
  BY <1>1, <1>2, FormerIs DEF SubsWith
<1>5. sub2 \in [N2 -> SUBSET N2]
  <2>1. \A y \in N2 : Former(n, x, y) \in N
    BY <1>1, FormerIs
  <2>2. \A y \in N2 : Swapped(n, x, sub[Former(n, x, y)]) \in SUBSET N2
    BY <1>1, <1>3, <1>9, <2>1
  <2> QED
    BY <2>2 DEF SubsWith
<1>6. /\ v.root = In(u.root)
      /\ \A r \in Side : \A k \in N : Kid(v, r, In(k)) = In(Kid(u, r, k))
      /\ \A k \in N : k # u.root => Par(v, In(k)) = In(Par(u, k))
  BY DEF StandsIn
<1>7. \A r \in Side : \A k, m \in N : Aside(r, In(k), In(m)) <=> Aside(r, k, m)
  BY <1>1, SidesStay
<1>8. \A r \in Side : \A k \in N : Joins(u, N, sub, r, k)
  BY SubsAre
<1>r. u.root \in N /\ sub[u.root] = N
  BY <1>2, SubsAre
<1> HIDE DEF In, N2, sub2
<1>10. \A r \in Side : \A k \in N : Part(sub2, r, In(k)) = Swapped(n, x, Part(sub, r, k))
  <2> SUFFICES ASSUME NEW r \in Side, NEW k \in N
               PROVE  Part(sub2, r, In(k)) = Swapped(n, x, Part(sub, r, k))
    OBVIOUS
  <2>1. Part(sub, r, k) \in SUBSET N /\ Part(sub2, r, In(k)) \in SUBSET N2
    BY <1>2, <1>5, <1>9 DEF Part
  <2>2. Swapped(n, x, Part(sub, r, k)) \in SUBSET N2
    BY <1>3, <2>1
  <2>3. ASSUME NEW m \in N PROVE In(m) \in Part(sub2, r, In(k)) <=> In(m) \in Swapped(n, x, Part(sub, r, k))
    <3>1. In(m) \in sub2[In(k)] <=> m \in sub[k]
      BY <1>3, <1>4, <1>9
    <3>2. In(m) \in Part(sub2, r, In(k)) <=> m \in Part(sub, r, k)
      BY <1>7, <3>1 DEF Part
    <3> QED
      BY <1>3, <2>1, <3>2
  <2>4. \A y \in N2 : y \in Part(sub2, r, In(k)) <=> y \in Swapped(n, x, Part(sub, r, k))
    BY <1>o, <2>3
  <2> QED
    BY <2>1, <2>2, <2>4
<1>11. ASSUME NEW k \in N, NEW r \in Side PROVE Joins(v, N2, sub2, r, In(k))
  <2>1. PICK y : y = Kid(u, r, k)
    OBVIOUS
  <2>2. Kid(v, r, In(k)) = In(y)
    BY <1>6, <2>1
  <2>3. CASE y = Sentinel
    <3>1. Part(sub, r, k) = {}
      BY <1>8, <2>1, <2>3 DEF Joins
    <3>2. Part(sub2, r, In(k)) = {}
      BY <1>10, <3>1 DEF Swapped
    <3> QED
      BY <1>2, <2>2, <2>3, <3>2 DEF Joins
  <2>4. CASE y # Sentinel
    <3>1. y \in N /\ Par(u, y) = k /\ sub[y] = Part(sub, r, k)
      BY <2>1, <2>4, SubsAre
    <3>2. y # u.root
      BY <2>1, RootIsTop
    <3>3. Par(v, In(y)) = In(k)
      BY <1>6, <3>1, <3>2
    <3>4. sub2[In(y)] = Part(sub2, r, In(k))
      BY <1>4, <1>10, <3>1
    <3> QED
      BY <1>2, <2>2, <3>1, <3>3, <3>4 DEF Joins
  <2> QED
    BY <2>3, <2>4
<1>12. v.root \in N2 /\ sub2[v.root] = N2
  <2>1. sub2[v.root] = Swapped(n, x, N)
    BY <1>4, <1>6, <1>r
  <2> QED
    BY <1>2, <1>6, <1>r, <2>1 DEF N2
<1>13. \A y \in N2 : y \in sub2[y]
  <2>1. \A k \in N : In(k) \in sub2[In(k)]
    BY <1>3, <1>4, <1>9
  <2> QED
    BY <1>o, <2>1
<1>14. \A y \in N2 : \A r \in Side : Joins(v, N2, sub2, r, y)
  BY <1>o, <1>11
<1>15. N2 # {}
  BY <1>12
<1>16. Shape(v, N2, sub2)
  BY <1>2, <1>5, <1>12, <1>13, <1>14, <1>15 DEF Shape
<1> QED
  BY <1>16 DEF N2, sub2

LEMMA StandInKeepsColours ==
    ASSUME NEW u, NEW N, NEW sub, Shape(u, N, sub), NEW bh, NEW hole, Coloured(u, N, bh, hole),
           NEW n, NEW x, NextTo(N, n, x), NEW v, StandsIn(u, v, N, n, x),
           NEW hole2, \A r \in Side : \A k \in N : <<r, Instead(n, x, k)>> \in hole2 <=> <<r, k>> \in hole
    PROVE  Coloured(v, Swapped(n, x, N), HeightsWith(N, bh, n, x), hole2)
<1> DEFINE In(y) == Instead(n, x, y)
           N2 == Swapped(n, x, N)
           bh2 == HeightsWith(N, bh, n, x)
<1>1. N \in SUBSET Name
  BY DEF Shape
<1>2. /\ n \in N /\ In(n) = x /\ In(Sentinel) = Sentinel
      /\ \A k \in N : In(k) \in N2 /\ In(k) # Sentinel
      /\ N2 \in SUBSET Name
  BY <1>1, InsteadIs
<1>o. \A y \in N2 : \E k \in N : y = In(k)
  BY <1>1, InsteadIsOnto
<1>3. \A S \in SUBSET N : /\ Swapped(n, x, S) \in SUBSET N2
                          /\ \A k \in N : In(k) \in Swapped(n, x, S) <=> k \in S
  BY <1>1, SwappedIs
<1>4. u.red \in SUBSET N /\ bh \in [N \cup {Sentinel} -> Nat] /\ bh[Sentinel] = 0
  BY DEF Coloured
<1>5. /\ \A k \in N : Former(n, x, In(k)) = k
      /\ \A y \in N2 : Former(n, x, y) \in N
      /\ Former(n, x, Sentinel) = Sentinel
  BY <1>1, FormerIs
<1>6. /\ bh2 \in [N2 \cup {Sentinel} -> Nat] /\ bh2[Sentinel] = 0
      /\ \A k \in N : bh2[In(k)] = bh[k]
  BY <1>2, <1>4, <1>5 DEF HeightsWith
<1>7. v.red \in SUBSET N2 /\ \A k \in N : Own(v, In(k)) = Own(u, k)
  BY <1>3, <1>4 DEF StandsIn, Own
<1>8. \A r \in Side : \A k \in N : Extra(hole2, r, In(k)) = Extra(hole, r, k)
  BY DEF Extra
<1>9. \A r \in Side : \A k \in N : Kid(v, r, In(k)) = In(Kid(u, r, k))
  BY DEF StandsIn
<1> HIDE DEF In, N2, bh2
<1>10. ASSUME NEW k \in N, NEW r \in Side
       PROVE  bh2[In(k)] = bh2[Kid(v, r, In(k))] + Extra(hole2, r, In(k)) + Own(v, In(k))
  <2>1. PICK y : y = Kid(u, r, k)
    OBVIOUS
  <2>2. bh[k] = bh[y] + Extra(hole, r, k) + Own(u, k)
    BY <2>1 DEF Coloured
  <2>3. y = Sentinel \/ y \in N
    BY <2>1, SubsAre
  <2>4. bh2[In(y)] = bh[y]
    BY <1>2, <1>4, <1>6, <2>3
  <2> QED
    BY <1>6, <1>7, <1>8, <1>9, <2>1, <2>2, <2>4
<1>11. \A y \in N2 : \A r \in Side : bh2[y] = bh2[Kid(v, r, y)] + Extra(hole2, r, y) + Own(v, y)
  BY <1>o, <1>10
<1>12. Coloured(v, N2, bh2, hole2)
  BY <1>6, <1>7, <1>11 DEF Coloured
<1> QED
  BY <1>12 DEF N2, bh2

LEMMA StandInReds ==
    ASSUME NEW u, NEW N, NEW sub, Shape(u, N, sub), NEW bh, NEW hole, Coloured(u, N, bh, hole),
           NEW n, NEW x, NextTo(N, n, x), NEW v, StandsIn(u, v, N, n, x),
           NEW lower, n \notin lower, Reds(u, N, lower, {})
    PROVE  Reds(v, Swapped(n, x, N), lower, {})
<1> DEFINE In(y) == Instead(n, x, y)
           N2 == Swapped(n, x, N)
<1>n. N \in SUBSET Name /\ u.red \in SUBSET N
  BY DEF Shape, Coloured
<1>1. /\ In(Sentinel) = Sentinel /\ Sentinel \notin N
      /\ \A k \in N : In(k) \in N2 /\ In(k) # Sentinel /\ (k # n => In(k) = k)
      /\ N2 \in SUBSET Name
  BY <1>n, InsteadIs
<1>o. \A y \in N2 : \E k \in N : y = In(k)
  BY <1>n, InsteadIsOnto
<1>w. v.red = Swapped(n, x, u.red)
  BY DEF StandsIn
<1>2. \A k \in N : In(k) \in v.red <=> k \in u.red
  BY <1>n, <1>w, SwappedIs
<1>3. v.red \in SUBSET N2
  BY <1>n, <1>w, SwappedIs
<1>k. \A k \in N : \A r \in Side : Kid(u, r, k) \in N \cup {Sentinel}
  BY SubsAre
<1>4. \A r \in Side : \A k \in N : Kid(v, r, In(k)) = In(Kid(u, r, k))
  BY DEF StandsIn
<1> HIDE DEF In, N2
<1>5. SUFFICES ASSUME NEW y \in N2, NEW r \in Side, y \in v.red, Kid(v, r, y) \in v.red
               PROVE  Kid(v, r, y) \in lower
  BY DEF Reds, N2
<1>6. PICK k \in N : y = In(k)
  BY <1>o
<1>7. PICK z : z = Kid(u, r, k)
  OBVIOUS
<1>8. Kid(v, r, y) = In(z)
  BY <1>4, <1>6, <1>7
<1>9. z \in N
  <2>1. Sentinel \notin v.red
    BY <1>1, <1>3, Sentinels
  <2> QED
    BY <1>1, <1>5, <1>7, <1>8, <1>k, <2>1
<1>10. z \in u.red /\ k \in u.red
  BY <1>2, <1>5, <1>6, <1>8, <1>9
<1>11. z \in lower
  BY <1>7, <1>10 DEF Reds
<1> QED
  BY <1>1, <1>8, <1>9, <1>11

-----------------------------------------------------------------------------
(* What comes next.                                                          *)
Iterates(f, C, x, g) == f = [d \in 0..C |-> IF d = 0 THEN x ELSE g[f[d - 1]]]

(* Each function can be applied any number of times in turn.                 *)
LEMMA Iterated ==
    ASSUME NEW X, NEW C \in Nat, NEW x \in X, NEW g \in [X -> X]
    PROVE  \E f \in [0..C -> X] : Iterates(f, C, x, g)
<1> DEFINE next == [p \in X \X Nat |-> g[p[1]]]
<1>1. next \in [X \X Nat -> X] /\ \A m \in X, i \in Nat : next[<<m, i>>] = g[m]
  OBVIOUS
<1> HIDE DEF next
<1>2. PICK f \in [0..C -> X] : Recurs(f, C, x, next)
  BY <1>1, Recursion
<1>3. \A i \in 0..C : i # 0 => f[i - 1] \in X /\ i \in Nat
  OBVIOUS
<1>4. \A i \in 0..C : (IF i = 0 THEN x ELSE next[<<f[i - 1], i>>]) = (IF i = 0 THEN x ELSE g[f[i - 1]])
  BY <1>1, <1>3
<1>5. Iterates(f, C, x, g)
  BY <1>2, <1>4 DEF Recurs, Iterates
<1> QED
  BY <1>5

(* A chain of values, each got from the one before.                          *)
Chain(f, C, x, g) == f[0] = x /\ \A i \in 1..C : f[i] = g[f[i - 1]]

Leftward(t, m) == IF Kid(t, "left", m) \in Name THEN Kid(t, "left", m) ELSE m

(* ss_rbtree_min as a chain of nodes.                                        *)
LEMMA LowestUnfolds ==
    ASSUME NEW t, NEW N, NEW sub, Shape(t, N, sub), NEW y \in N
    PROVE  \E step : Chain(step, Cardinality(Name), y, [m \in N |-> Leftward(t, m)])
                     /\ Lowest(t, y) = step[Cardinality(Name)]
<1> DEFINE C == Cardinality(Name)
           g == [m \in N |-> Leftward(t, m)]
<1>1. C \in Nat
  BY Sentinels
<1>2. \A m \in N : Leftward(t, m) \in N
  <2> TAKE m \in N
  <2>1. "left" \in Side /\ Sentinel \notin Name
    BY Sentinels DEF Side
  <2>2. Kid(t, "left", m) = Sentinel \/ Kid(t, "left", m) \in N
    BY <2>1, SubsAre
  <2> QED
    BY <2>1, <2>2 DEF Leftward
<1>3. g \in [N -> N]
  BY <1>2
<1>4. \A m \in N : g[m] = Leftward(t, m)
  OBVIOUS
<1> HIDE DEF g, C
<1>5. PICK f \in [0..C -> N] : Iterates(f, C, y, g)
  BY <1>1, <1>3, Iterated
<1> DEFINE Is(h) == h = [d \in 0..C |-> IF d = 0 THEN y ELSE Leftward(t, h[d - 1])]
<1>6. Is(f)
  <2>1. \A i \in 0..C : i # 0 => f[i - 1] \in N
    BY <1>1
  <2>2. \A i \in 0..C : (IF i = 0 THEN y ELSE g[f[i - 1]]) = (IF i = 0 THEN y ELSE Leftward(t, f[i - 1]))
    BY <1>4, <2>1
  <2> QED
    BY <1>5, <2>2 DEF Iterates
<1> DEFINE step == CHOOSE h : Is(h)
<1>7. Is(step)
  BY <1>6
<1>8. Lowest(t, y) = step[C]
  BY DEF Lowest, Leftward, C
<1> HIDE DEF step
<1>9. step[0] = y /\ \A i \in 1..C : step[i] = Leftward(t, step[i - 1])
  BY <1>1, <1>7
<1>10. step[0] \in N /\ \A i \in 1..C : step[i - 1] \in N => step[i] \in N
  BY <1>2, <1>9
<1>11. \A i \in 0..C : step[i] \in N
  BY <1>1, <1>10, StaysIn
<1>12. \A i \in 1..C : step[i] = g[step[i - 1]]
  <2> TAKE i \in 1..C
  <2>1. i - 1 \in 0..C
    BY <1>1
  <2> QED
    BY <1>4, <1>9, <1>11, <2>1
<1>13. Chain(step, C, y, g)
  BY <1>9, <1>12 DEF Chain
<1> QED
  BY <1>8, <1>13 DEF C, g

(* It ends at the first of the nodes below.                                  *)
LEMMA LowestIs ==
    ASSUME NEW t, NEW N, NEW sub, Shape(t, N, sub), NEW y \in N
    PROVE  /\ Lowest(t, y) \in sub[y] /\ Kid(t, "left", Lowest(t, y)) = Sentinel
           /\ \A z \in sub[y] : z = Lowest(t, y) \/ Aside("left", Lowest(t, y), z)
<1> DEFINE C == Cardinality(Name)
           g == [m \in N |-> Leftward(t, m)]
           Lower(m) == m \in sub[y] /\ \A z \in sub[y] : z \in sub[m] \/ Aside("left", m, z)
           Close(m, i) == m \in N /\ Lower(m) /\ (Kid(t, "left", m) = Sentinel \/ Cardinality(sub[m]) + i <= C)
<1>1. PICK step : Chain(step, C, y, g) /\ Lowest(t, y) = step[C]
  BY LowestUnfolds
<1>2. C \in Nat /\ Sentinel \notin Name /\ N \in SUBSET Name /\ IsFiniteSet(Name) /\ Sentinel \notin N
  BY Sentinels, FS_CardinalityType DEF Shape
<1>3. \A m \in N : /\ sub[m] \in SUBSET Name /\ sub[m] \in SUBSET N /\ IsFiniteSet(sub[m])
                   /\ Cardinality(sub[m]) \in Nat /\ m \in sub[m]
  BY SubsAre, Sentinels
<1>4. "left" \in Side /\ "right" \in Side /\ Other("left") = "right" /\ Other("right") = "left"
  BY DEF Side, Other
<1>5. Close(y, 0)
  <2>1. Cardinality(sub[y]) <= C
    BY <1>2, <1>3, FS_Subset
  <2>2. Lower(y)
    BY <1>3
  <2> QED
    BY <1>2, <1>3, <2>1, <2>2
<1>6. ASSUME NEW m \in N, NEW i \in Nat, Close(m, i) PROVE Close(Leftward(t, m), i + 1)
  <2>1. PICK c : c = Kid(t, "left", m)
    OBVIOUS
  <2>2. CASE c = Sentinel
    <3>1. Leftward(t, m) = m
      BY <1>2, <2>1, <2>2 DEF Leftward
    <3> QED
      BY <1>6, <2>1, <2>2, <3>1
  <2>3. CASE c # Sentinel
    <3>1. c \in N /\ Aside("left", c, m) /\ sub[c] = Part(sub, "left", m)
      BY <1>4, <2>1, <2>3, SubsAre
    <3>2. Leftward(t, m) = c
      BY <1>2, <2>1, <3>1 DEF Leftward
    <3>3. Cardinality(sub[c]) + 1 <= Cardinality(sub[m])
      BY <1>4, <2>1, <3>1, Fewer
    <3>4. Cardinality(sub[m]) + i <= C
      BY <1>6, <2>1, <2>3
    <3>5. Cardinality(sub[c]) + (i + 1) <= C
      BY <1>2, <1>3, <3>1, <3>3, <3>4
    <3>6. c \in sub[m] /\ sub[m] \in SUBSET sub[y]
      <4>1. c \in sub[m]
        BY <1>3, <3>1 DEF Part
      <4> QED
        BY <1>6, <4>1, Nested
    <3>7. ASSUME NEW z \in sub[y], z \notin sub[c] PROVE Aside("left", c, z)
      <4>1. z \in Name /\ m \in Name /\ c \in Name
        BY <1>2, <1>3, <3>1
      <4>2. CASE z \notin sub[m]
        BY <1>4, <1>6, <3>1, <4>1, <4>2, AsideTrans
      <4>3. CASE z = m
        BY <3>1, <4>3
      <4>4. CASE z \in sub[m] /\ z # m
        <5>1. Aside("left", z, m) \/ Aside("right", z, m)
          BY <1>4, <4>1, <4>4, AsideIs
        <5>2. ~Aside("left", z, m)
          BY <3>1, <3>7, <4>4 DEF Part
        <5>3. Aside("left", m, z)
          BY <1>4, <4>1, <5>1, <5>2, AsideIs
        <5> QED
          BY <1>4, <3>1, <4>1, <5>3, AsideTrans
      <4> QED
        BY <4>2, <4>3, <4>4
    <3>8. Lower(c)
      BY <3>6, <3>7
    <3> QED
      BY <3>1, <3>2, <3>5, <3>8
  <2> QED
    BY <2>2, <2>3
<1> HIDE DEF Close, Lower
<1> DEFINE Good == {i \in Nat : i <= C => step[i] \in N /\ Close(step[i], i)}
<1>7. 0 \in Good
  BY <1>1, <1>5 DEF Chain
<1>8. \A i \in Nat : i \in Good => i + 1 \in Good
  <2> SUFFICES ASSUME NEW i \in Nat, i \in Good, i + 1 <= C
               PROVE  step[i + 1] \in N /\ Close(step[i + 1], i + 1)
    OBVIOUS
  <2>1. step[i] \in N /\ Close(step[i], i) /\ i + 1 \in 1..C /\ (i + 1) - 1 = i
    BY <1>2
  <2>2. PICK m \in N : m = step[i]
    BY <2>1
  <2>3. step[i + 1] = Leftward(t, m)
    BY <1>1, <2>1, <2>2 DEF Chain
  <2>4. Close(step[i + 1], i + 1)
    BY <1>6, <2>1, <2>2, <2>3
  <2> QED
    BY <2>4 DEF Close
<1> HIDE DEF Good
<1>9. C \in Good
  BY <1>2, <1>7, <1>8, Induct
<1>10. PICK x \in N : x = Lowest(t, y) /\ Close(x, C)
  BY <1>1, <1>2, <1>9 DEF Good
<1>11. Kid(t, "left", x) = Sentinel
  <2> SUFFICES ASSUME Kid(t, "left", x) # Sentinel PROVE FALSE
    OBVIOUS
  <2>1. Cardinality(sub[x]) + C <= C
    BY <1>10 DEF Close
  <2>2. Cardinality(sub[x]) = 0
    BY <1>2, <1>3, <2>1
  <2> QED
    BY <1>3, <2>2, FS_EmptySet
<1>12. x \in sub[y] /\ \A z \in sub[y] : z \in sub[x] \/ Aside("left", x, z)
  BY <1>10 DEF Close, Lower
<1>13. ASSUME NEW z \in sub[x], z # x PROVE Aside("left", x, z)
  <2>1. z \in Name /\ x \in Name
    BY <1>2, <1>3
  <2>2. Part(sub, "left", x) = {}
    BY <1>4, <1>11, SubsAre
  <2>3. ~Aside("left", z, x)
    BY <2>2 DEF Part
  <2> QED
    BY <1>4, <1>13, <2>1, <2>3, AsideIs
<1> QED
  BY <1>10, <1>11, <1>12, <1>13

(* The next name of a set.                                                   *)
Follows(N, n, x) == x \in N /\ Aside("left", n, x) /\ \A z \in N : ~(Aside("left", n, z) /\ Aside("left", z, x))

(* The lowest node of the right subtree comes next.                          *)
LEMMA LowestFollows ==
    ASSUME NEW t, NEW N, NEW sub, Shape(t, N, sub), NEW n \in N, NEW y, y = Kid(t, "right", n), y \in N,
           NEW x, x = Lowest(t, y)
    PROVE  x \in sub[y] /\ Kid(t, "left", x) = Sentinel /\ Follows(N, n, x)
<1>1. "left" \in Side /\ "right" \in Side /\ Other("left") = "right" /\ Other("right") = "left"
  BY DEF Side, Other
<1>2. x \in sub[y] /\ Kid(t, "left", x) = Sentinel /\ \A z \in sub[y] : z = x \/ Aside("left", x, z)
  BY LowestIs
<1>3. sub[y] = Part(sub, "right", n) /\ n \in sub[n] /\ sub[n] \in SUBSET Name /\ N \in SUBSET Name
          /\ sub[n] \in SUBSET N
  BY <1>1, SubsAre
<1>4. x \in sub[n] /\ Aside("right", x, n)
  BY <1>2, <1>3 DEF Part
<1>5. Aside("left", n, x)
  BY <1>1, <1>3, <1>4, AsideIs
<1>6. ASSUME NEW z \in N, Aside("left", n, z), Aside("left", z, x) PROVE FALSE
  <2>1. z \in sub[n]
    BY <1>1, <1>3, <1>4, <1>6, Convex
  <2>2. Aside("right", z, n)
    BY <1>1, <1>3, <1>6, AsideIs
  <2>3. z = x \/ Aside("left", x, z)
    BY <1>2, <1>3, <2>1, <2>2 DEF Part
  <2>4. ~Aside("left", x, z)
    BY <1>1, <1>3, <1>4, <1>6, AsideIs
  <2> QED
    BY <1>6, <2>3, <2>4 DEF Aside
<1> QED
  BY <1>2, <1>3, <1>4, <1>5, <1>6 DEF Follows

(* Nothing is between a node and the one that comes next.                    *)
LEMMA FollowingIsNext ==
    ASSUME NEW N \in SUBSET Name, NEW n \in N, NEW x, Follows(N, n, x)
    PROVE  NextTo(N \ {x}, n, x)
<1>1. "left" \in Side /\ "right" \in Side /\ Other("left") = "right" /\ Other("right") = "left"
          /\ Side = {"left", "right"}
  BY DEF Side, Other
<1>2. x \in N /\ Aside("left", n, x) /\ n # x /\ x \in Name /\ n \in Name
  BY DEF Follows, Aside
<1>3. ASSUME NEW k \in N, k # x, k # n
      PROVE  \/ Aside("left", n, k) /\ Aside("left", x, k)
             \/ Aside("left", k, n) /\ Aside("left", k, x)
  <2>1. k \in Name
    OBVIOUS
  <2>2. Aside("left", k, n) \/ Aside("right", k, n)
    BY <1>1, <1>2, <1>3, <2>1, AsideIs
  <2>3. CASE Aside("left", k, n)
    <3>1. Aside("left", k, x)
      BY <1>1, <1>2, <2>1, <2>3, AsideTrans
    <3> QED
      BY <2>3, <3>1
  <2>4. CASE Aside("right", k, n)
    <3>1. Aside("left", n, k)
      BY <1>1, <1>2, <2>1, <2>4, AsideIs
    <3>2. ~Aside("left", k, x)
      BY <3>1 DEF Follows
    <3>3. Aside("right", k, x)
      BY <1>1, <1>2, <1>3, <2>1, <3>2, AsideIs
    <3>4. Aside("left", x, k)
      BY <1>1, <1>2, <2>1, <3>3, AsideIs
    <3> QED
      BY <3>1, <3>4
  <2> QED
    BY <2>2, <2>3, <2>4
<1>4. ASSUME NEW a \in Name, NEW b \in Name, Aside("left", a, b)
      PROVE  Aside("right", b, a) /\ ~Aside("right", a, b) /\ ~Aside("left", b, a)
  <2>1. ~Aside("right", a, b) /\ Aside("right", b, a)
    BY <1>1, <1>4, AsideIs
  <2> QED
    BY <1>1, <2>1, AsideIs
<1>5. ASSUME NEW k \in N \ {x}, k # n, NEW r \in Side
      PROVE  (Aside(r, n, k) <=> Aside(r, x, k)) /\ (Aside(r, k, n) <=> Aside(r, k, x))
  <2>1. k \in Name /\ (r = "left" \/ r = "right")
    BY <1>1
  <2>2. CASE Aside("left", n, k) /\ Aside("left", x, k)
    <3>1. /\ Aside("right", k, n) /\ ~Aside("right", n, k) /\ ~Aside("left", k, n)
          /\ Aside("right", k, x) /\ ~Aside("right", x, k) /\ ~Aside("left", k, x)
      BY <1>2, <1>4, <2>1, <2>2
    <3> QED
      BY <2>1, <2>2, <3>1
  <2>3. CASE Aside("left", k, n) /\ Aside("left", k, x)
    <3>1. /\ Aside("right", n, k) /\ ~Aside("right", k, n) /\ ~Aside("left", n, k)
          /\ Aside("right", x, k) /\ ~Aside("right", k, x) /\ ~Aside("left", x, k)
      BY <1>2, <1>4, <2>1, <2>3
    <3> QED
      BY <2>1, <2>3, <3>1
  <2> QED
    BY <1>3, <1>5, <2>2, <2>3
<1> QED
  BY <1>2, <1>5 DEF NextTo

-----------------------------------------------------------------------------
(* Deletion up to the loop.                                                  *)
LEMMA ClearedIs ==
    ASSUME NEW t, Typed(t), NEW n \in Place, NEW u, u = Cleared(t, n)
    PROVE  /\ Typed(u) /\ u.root = t.root /\ u.red = t.red \ {n}
           /\ \A k \in Place : k # n => Par(u, k) = Par(t, k) /\ \A r \in Side : Kid(u, r, k) = Kid(t, r, k)
<1>1. PICK q \in Place, c \in Edges, p \in Uplinks, d \in SUBSET Place : t = Made(q, c, p, d)
  BY TypedIsMade
<1>2. PICK c2 : c2 = [[c EXCEPT ![<<"left", n>>] = Null] EXCEPT ![<<"right", n>>] = Null]
  OBVIOUS
<1>3. PICK p2 : p2 = [p EXCEPT ![n] = Null]
  OBVIOUS
<1>4. u = Made(q, c2, p2, d \ {n})
  BY <1>1, <1>2, <1>3 DEF Cleared, Made
<1>5. Null \in Pointer /\ d \ {n} \in SUBSET Place
  BY DEF Pointer
<1>6. KidsPut(c, n, Null, c2) /\ ParPut(p, n, Null, p2)
  BY <1>2, <1>3 DEF KidsPut, ParPut
<1>7. c2 \in Edges /\ \A r \in Side : \A k \in Place : c2[<<r, k>>] = IF k = n THEN Null ELSE c[<<r, k>>]
  BY <1>5, <1>6, KidsSet
<1>8. p2 \in Uplinks /\ \A k \in Place : p2[k] = IF k = n THEN Null ELSE p[k]
  BY <1>5, <1>6, ParSet
<1>9. Typed(u)
  BY <1>4, <1>5, <1>7, <1>8, MadeIsTyped
<1>10. u.root = q /\ u.red = d \ {n} /\ \A a, k : Kid(u, a, k) = c2[<<a, k>>] /\ Par(u, k) = p2[k]
  BY <1>4, MadeOf
<1>11. t.root = q /\ t.red = d /\ \A a, k : Kid(t, a, k) = c[<<a, k>>] /\ Par(t, k) = p[k]
  BY <1>1, MadeOf
<1>12. ASSUME NEW k \in Place, k # n PROVE Par(u, k) = Par(t, k) /\ \A r \in Side : Kid(u, r, k) = Kid(t, r, k)
  <2>1. p2[k] = p[k] /\ \A r \in Side : c2[<<r, k>>] = c[<<r, k>>]
    BY <1>7, <1>8, <1>12
  <2>2. Par(u, k) = Par(t, k)
    BY <1>10, <1>11, <2>1
  <2>3. ASSUME NEW r \in Side PROVE Kid(u, r, k) = Kid(t, r, k)
    <3>1. Kid(u, r, k) = c2[<<r, k>>] /\ Kid(t, r, k) = c[<<r, k>>]
      BY <1>10, <1>11
    <3> QED
      BY <2>1, <3>1
  <2> QED
    BY <2>2, <2>3
<1> QED
  BY <1>9, <1>10, <1>11, <1>12

(* The one child of Subst(n), which comes next after n if it is not n.       *)
LEMMA SubstIs ==
    ASSUME NEW N, NEW sub, Shape(tree, N, sub), NEW n \in N, NEW x, x = Subst(n)
    PROVE  /\ x \in N
           /\ x # n => Follows(N, n, x) /\ x # tree.root /\ x \in sub[n]
           /\ \E s \in Side : Kid(tree, Other(s), x) = Sentinel /\ MovingUp(n) = Kid(tree, s, x)
<1>1. "left" \in Side /\ "right" \in Side /\ Other("left") = "right" /\ Other("right") = "left"
  BY DEF Side, Other
<1>2. CASE Sentinel \in {Kid(tree, "left", n), Kid(tree, "right", n)}
  <2>1. x = n
    BY <1>2 DEF Subst
  <2>2. CASE Kid(tree, "left", n) = Sentinel
    <3>1. MovingUp(n) = Kid(tree, "right", x)
      BY <2>1, <2>2 DEF MovingUp
    <3> QED
      BY <1>1, <2>1, <2>2, <3>1
  <2>3. CASE Kid(tree, "left", n) # Sentinel
    <3>1. MovingUp(n) = Kid(tree, "left", x) /\ Kid(tree, "right", x) = Sentinel
      BY <1>2, <2>1, <2>3 DEF MovingUp
    <3> QED
      BY <1>1, <2>1, <3>1
  <2> QED
    BY <2>1, <2>2, <2>3
<1>3. CASE Sentinel \notin {Kid(tree, "left", n), Kid(tree, "right", n)}
  <2>1. PICK y : y = Kid(tree, "right", n)
    OBVIOUS
  <2>2. y \in N /\ x = Lowest(tree, y)
    <3>1. y \in N
      BY <1>1, <1>3, <2>1, SubsAre
    <3> QED
      BY <1>3, <2>1, <3>1 DEF Subst
  <2>3. x \in sub[y] /\ Kid(tree, "left", x) = Sentinel /\ Follows(N, n, x)
    BY <2>1, <2>2, LowestFollows
  <2>4. x \in N
    BY <2>3 DEF Follows
  <2>5. x # tree.root
    <3>1. y # tree.root
      BY <1>1, <2>1, RootIsTop
    <3>2. tree.root \notin sub[y]
      BY <2>2, <3>1, RootIsTop
    <3> QED
      BY <2>3, <3>2
  <2>6. MovingUp(n) = Kid(tree, "right", x)
    BY <2>3 DEF MovingUp
  <2>7. x \in sub[n]
    BY <1>1, <2>1, <2>2, <2>3, SubsAre
  <2> QED
    BY <1>1, <2>3, <2>4, <2>5, <2>6, <2>7
<1> QED
  BY <1>2, <1>3

(* The root with at most one child is taken out.                             *)
LEMMA RootOut ==
    ASSUME NEW t, NEW N, NEW sub, NEW bh, Tree(t, N, sub, bh, {}), Resting(t, N), N # {}, NEW n, n = t.root,
           NEW s \in Side, Kid(t, Other(s), n) = Sentinel, NEW c, c = Kid(t, s, n),
           NEW u, Typed(u), u.root = c, u.red = (t.red \ {c}) \ {n},
           \A k \in N \ {n} : Par(u, k) = Par(t, k) /\ \A r \in Side : Kid(u, r, k) = Kid(t, r, k)
    PROVE  \E sub2, bh2 : Tree(u, N \ {n}, sub2, bh2, {}) /\ Resting(u, N \ {n})
<1> DEFINE N2 == N \ {n}
           sub2 == [k \in N2 |-> sub[k]]
           bh2 == [k \in N2 \cup {Sentinel} |-> IF k = c /\ c \in t.red THEN bh[k] + 1 ELSE bh[k]]
<1>1. /\ Shape(t, N, sub) /\ Coloured(t, N, bh, {})
      /\ N \in SUBSET Name /\ Sentinel \notin N /\ t.red \in SUBSET N
  BY Kinds
<1>2. n \in N /\ sub[n] = N /\ n \in Name
  BY <1>1, SubsAre
<1>3. Other(s) \in Side
  BY SidesDiffer
<1>4. \A k \in N2 : sub[k] \in SUBSET N2 /\ k \in sub[k]
  <2>1. \A k \in N2 : sub[k] \in SUBSET N /\ k \in sub[k]
    BY <1>1, SubsAre
  <2>2. \A k \in N2 : n \notin sub[k]
    BY <1>1, RootIsTop
  <2> QED
    BY <2>1, <2>2
<1>5. Part(sub, s, n) = N2
  <2>1. Part(sub, Other(s), n) = {}
    BY <1>1, <1>2, <1>3, SubsAre
  <2>2. \A y \in N2 : Aside(s, y, n) \/ Aside(Other(s), y, n)
    BY <1>1, <1>2, AsideIs
  <2> QED
    BY <1>2, <2>1, <2>2 DEF Part, Aside
<1>6. (c = Sentinel /\ N2 = {}) \/ (c \in N2 /\ sub[c] = N2)
  <2>1. Joins(t, N, sub, s, n)
    BY <1>1, <1>2, SubsAre
  <2>2. c \in N => c \in sub[c]
    BY <1>1, SubsAre
  <2> QED
    BY <1>5, <2>1, <2>2 DEF Joins
<1>7. sub2 \in [N2 -> SUBSET N2] /\ \A k \in N2 : sub2[k] = sub[k]
  BY <1>4
<1>8. ASSUME NEW k \in N2, NEW r \in Side
      PROVE  /\ Kid(u, r, k) = Kid(t, r, k)
             /\ \/ Kid(t, r, k) \in N2 /\ Kid(t, r, k) # c
                \/ Kid(t, r, k) = Sentinel
  <2>1. Kid(t, r, k) \in N \/ Kid(t, r, k) = Sentinel
    BY <1>1, SubsAre
  <2>2. Kid(t, r, k) # n
    BY <1>1, RootIsTop
  <2>3. Kid(t, r, k) \in N => Kid(t, r, k) # c
    BY <1>1, <1>2, KidsDiffer
  <2>4. Kid(u, r, k) = Kid(t, r, k)
    OBVIOUS
  <2>5. Kid(t, r, k) \in N => Kid(t, r, k) \in N2
    BY <2>2
  <2> HIDE DEF N2
  <2> QED
    BY <2>1, <2>3, <2>4, <2>5
<1> HIDE DEF sub2, bh2
<1>9. \A k \in N2 : \A r \in Side : Joins(u, N2, sub2, r, k)
  <2> SUFFICES ASSUME NEW k \in N2, NEW r \in Side PROVE Joins(u, N2, sub2, r, k)
    OBVIOUS
  <2>1. Part(sub2, r, k) = Part(sub, r, k)
    BY <1>7 DEF Part
  <2>2. PICK y : y = Kid(t, r, k)
    OBVIOUS
  <2>3. Kid(u, r, k) = y
    BY <2>2
  <2>4. CASE y = Sentinel
    <3>1. Joins(t, N, sub, r, k)
      BY <1>1, SubsAre
    <3> QED
      BY <2>1, <2>2, <2>3, <2>4, <3>1 DEF Joins
  <2>5. CASE y # Sentinel
    <3>1. y \in N2
      BY <1>8, <2>2, <2>5
    <3>2. Par(t, y) = k /\ sub[y] = Part(sub, r, k)
      BY <1>1, <2>2, <3>1, SubsAre
    <3> QED
      BY <1>7, <2>1, <2>3, <2>5, <3>1, <3>2 DEF Joins
  <2> QED
    BY <2>4, <2>5
<1>10. Shape(u, N2, sub2)
  <2>1. N2 \in SUBSET Name
    BY <1>1
  <2>2. IF N2 = {} THEN u.root = Sentinel ELSE u.root \in N2 /\ sub2[u.root] = N2
    BY <1>6, <1>7
  <2>3. \A k \in N2 : k \in sub2[k]
    BY <1>4, <1>7
  <2> HIDE DEF N2
  <2> QED
    BY <1>7, <1>9, <2>1, <2>2, <2>3 DEF Shape
<1>11. bh \in [N \cup {Sentinel} -> Nat] /\ bh[Sentinel] = 0
  BY <1>1 DEF Coloured
<1>12. /\ bh2 \in [N2 \cup {Sentinel} -> Nat]
       /\ \A k \in N2 \cup {Sentinel} : bh2[k] = IF k = c /\ c \in t.red THEN bh[k] + 1 ELSE bh[k]
  BY <1>11 DEF bh2
<1>13. bh2[Sentinel] = 0
  BY <1>1, <1>11, <1>12
<1>14. \A k \in N2 : Own(u, k) = IF k = c THEN 1 ELSE Own(t, k)
  BY DEF Own
<1>15. \A k \in N2 : \A r \in Side : bh2[k] = bh2[Kid(u, r, k)] + Extra({}, r, k) + Own(u, k)
  <2> SUFFICES ASSUME NEW k \in N2, NEW r \in Side
               PROVE  bh2[k] = bh2[Kid(u, r, k)] + Extra({}, r, k) + Own(u, k)
    OBVIOUS
  <2>1. PICK y : y = Kid(t, r, k)
    OBVIOUS
  <2>2. Kid(u, r, k) = y /\ y \in N2 \cup {Sentinel} /\ (y = c => y = Sentinel)
    BY <1>8, <2>1
  <2>3. bh2[y] = bh[y]
    BY <1>1, <1>12, <2>2
  <2>4. Extra({}, r, k) = 0
    BY DEF Extra
  <2>5. bh[k] = bh[y] + Extra({}, r, k) + Own(t, k)
    BY <1>1, <2>1 DEF Coloured
  <2>6. PICK i \in Nat : i = bh[y]
    BY <1>11, <2>2
  <2>7. CASE k = c /\ c \in t.red
    <3>1. Own(t, k) = 0 /\ Own(u, k) = 1 /\ bh2[k] = bh[k] + 1
      BY <1>12, <1>14, <2>7 DEF Own
    <3> QED
      BY <2>2, <2>3, <2>4, <2>5, <2>6, <3>1
  <2>8. CASE ~(k = c /\ c \in t.red)
    <3>1. Own(t, k) = Own(u, k) /\ bh2[k] = bh[k]
      BY <1>12, <1>14, <2>8 DEF Own
    <3> QED
      BY <2>2, <2>3, <2>4, <2>5, <3>1
  <2> QED
    BY <2>7, <2>8
<1>16. u.red \in SUBSET N2
  BY <1>1
<1>17. Resting(u, N2)
  <2>1. \A k \in N2 : \A r \in Side : ~(k \in u.red /\ Kid(u, r, k) \in u.red)
    BY DEF Resting, Reds
  <2> QED
    BY <2>1 DEF Resting, Reds
<1> HIDE DEF N2
<1>18. Coloured(u, N2, bh2, {})
  BY <1>12, <1>13, <1>15, <1>16 DEF Coloured
<1>19. Tree(u, N2, sub2, bh2, {})
  BY <1>10, <1>18 DEF Tree
<1> QED
  BY <1>17, <1>19 DEF N2

(* The root, when it is taken out of its own place.                          *)
LEMMA UnlinkRootKeeps ==
    ASSUME NEW N, TreeIs(tree, doing, at, N), doing = "none", NEW n \in N, UnlinkRoot(n)
    PROVE  TreeIs(tree', doing', at', N \ {n})
<1>1. PICK sub, bh : Tree(tree, N, sub, bh, {}) /\ Resting(tree, N)
  BY DEF TreeIs
<1>2. /\ Typed(tree) /\ Shape(tree, N, sub) /\ N \in SUBSET Name /\ N \in SUBSET Place /\ tree.red \in SUBSET N
  BY <1>1, Kinds
<1>3. n = tree.root
  BY <1>2, SubstIs DEF UnlinkRoot
<1>4. PICK c : c = MovingUp(n)
  OBVIOUS
<1>5. PICK s \in Side : Kid(tree, Other(s), n) = Sentinel /\ c = Kid(tree, s, n)
  BY <1>2, <1>3, <1>4, SubstIs DEF UnlinkRoot
<1>6. c \in Place
  <2>1. c \in N \/ c = Sentinel
    BY <1>2, <1>5, SubsAre
  <2> QED
    BY <1>2, <2>1 DEF Place
<1>7. PICK t2 : t2 = Blackened([tree EXCEPT !.root = c], {c})
  OBVIOUS
<1>8. /\ Typed(t2) /\ t2.root = c /\ t2.red = tree.red \ {c}
      /\ \A k : Par(t2, k) = Par(tree, k) /\ \A r : Kid(t2, r, k) = Kid(tree, r, k)
  <2>1. PICK q \in Place, e \in Edges, p \in Uplinks, d \in SUBSET Place : tree = Made(q, e, p, d)
    BY <1>2, TypedIsMade
  <2>2. t2 = Made(c, e, p, d \ {c})
    BY <1>7, <2>1 DEF Blackened, Made
  <2>3. d \ {c} \in SUBSET Place
    OBVIOUS
  <2>4. Typed(t2)
    BY <1>6, <2>2, <2>3, MadeIsTyped
  <2>5. t2.root = c /\ t2.red = d \ {c} /\ t2.child = e /\ t2.parent = p
    BY <2>2, MadeOf
  <2>6. tree.red = d /\ tree.child = e /\ tree.parent = p
    BY <2>1, MadeOf
  <2>7. \A k, r : Kid(t2, r, k) = Kid(tree, r, k)
    BY <2>5, <2>6 DEF Kid
  <2>8. \A k : Par(t2, k) = Par(tree, k)
    BY <2>5, <2>6 DEF Par
  <2> QED
    BY <2>4, <2>5, <2>6, <2>7, <2>8
<1>9. PICK u : u = tree' /\ u = Cleared(t2, n)
  BY <1>4, <1>7 DEF UnlinkRoot
<1>10. n \in Place
  BY <1>2
<1>11. /\ Typed(u) /\ u.root = c /\ u.red = (tree.red \ {c}) \ {n}
       /\ \A k \in Place : k # n => Par(u, k) = Par(t2, k) /\ \A r \in Side : Kid(u, r, k) = Kid(t2, r, k)
  BY <1>8, <1>9, <1>10, ClearedIs
<1>12. \A k \in N \ {n} : Par(u, k) = Par(tree, k) /\ \A r \in Side : Kid(u, r, k) = Kid(tree, r, k)
  BY <1>2, <1>8, <1>11
<1>13. \E sub2, bh2 : Tree(u, N \ {n}, sub2, bh2, {}) /\ Resting(u, N \ {n})
  BY <1>1, <1>3, <1>5, <1>11, <1>12, RootOut
<1>14. doing' = "none"
  BY DEF UnlinkRoot
<1> QED
  BY <1>9, <1>13, <1>14 DEF TreeIs

Taking(n, x, q, p, c, o) ==
    /\ x = Subst(n) /\ q \in Side /\ q = SideOf(tree, x) /\ p \in Place /\ p = Par(tree, x)
    /\ c \in Place /\ c = MovingUp(n) /\ o \in Pointer /\ o = NewParent(n)

Taken(t, q, p, c, o) ==
    /\ Typed(t) /\ t.root = tree.root /\ t.red = tree.red
    /\ \A r \in Side : \A k \in Place : Kid(t, r, k) = IF r = q /\ k = p THEN c ELSE Kid(tree, r, k)
    /\ \A k \in Place : Par(t, k) = IF k = c THEN o ELSE Par(tree, k)

LEMMA TakenOutIs ==
    ASSUME Typed(tree), NEW n, NEW x, NEW q, NEW p, NEW c, NEW o, Taking(n, x, q, p, c, o), NEW t,
           t = TakenOut(n)
    PROVE  Taken(t, q, p, c, o)
<1>t. /\ x = Subst(n) /\ q \in Side /\ q = SideOf(tree, x) /\ p \in Place /\ p = Par(tree, x)
      /\ c \in Place /\ c = MovingUp(n) /\ o \in Pointer /\ o = NewParent(n)
  BY DEF Taking
<1>1. PICK a \in Place, e \in Edges, f \in Uplinks, d \in SUBSET Place : tree = Made(a, e, f, d)
  BY TypedIsMade
<1>2. PICK e2 : e2 = [e EXCEPT ![<<q, p>>] = c]
  OBVIOUS
<1>3. PICK f2 : f2 = [f EXCEPT ![c] = o]
  OBVIOUS
<1>4. t = [tree EXCEPT !.child[<<q, p>>] = c, !.parent[c] = o]
  BY <1>t DEF TakenOut, Par
<1>5. t = Made(a, e2, f2, d)
  BY <1>1, <1>2, <1>3, <1>4 DEF Made
<1>6. KidPut(e, q, p, c, e2) /\ ParPut(f, c, o, f2) /\ c \in Pointer
  BY <1>t, <1>2, <1>3 DEF KidPut, ParPut, Pointer
<1>7. e2 \in Edges /\ \A r \in Side : \A k \in Place : e2[<<r, k>>] = IF r = q /\ k = p THEN c ELSE e[<<r, k>>]
  BY <1>t, <1>6, KidSet
<1>8. f2 \in Uplinks /\ \A k \in Place : f2[k] = IF k = c THEN o ELSE f[k]
  BY <1>t, <1>6, ParSet
<1>9. Typed(t)
  BY <1>5, <1>7, <1>8, MadeIsTyped
<1>10. t.root = a /\ t.red = d /\ \A r, k : Kid(t, r, k) = e2[<<r, k>>] /\ Par(t, k) = f2[k]
  BY <1>5, MadeOf
<1>11. tree.root = a /\ tree.red = d /\ \A r, k : Kid(tree, r, k) = e[<<r, k>>] /\ Par(tree, k) = f[k]
  BY <1>1, MadeOf
<1>12. ASSUME NEW r \in Side, NEW k \in Place
       PROVE  Kid(t, r, k) = IF r = q /\ k = p THEN c ELSE Kid(tree, r, k)
  <2>1. Kid(t, r, k) = e2[<<r, k>>] /\ Kid(tree, r, k) = e[<<r, k>>]
    BY <1>10, <1>11
  <2> QED
    BY <1>7, <2>1
<1>13. \A k \in Place : Par(t, k) = IF k = c THEN o ELSE Par(tree, k)
  BY <1>8, <1>10, <1>11
<1> QED
  BY <1>9, <1>10, <1>11, <1>12, <1>13 DEF Taken

Promoted(t, v, n, x) ==
    /\ Typed(v) /\ v.root = IF t.root = n THEN x ELSE t.root
    /\ v.red = IF n \in t.red THEN t.red \cup {x} ELSE t.red \ {x}
    /\ \A r \in Side : \A k \in Place :
          Kid(v, r, k) = IF k = x THEN Kid(t, r, n)
                         ELSE IF n # t.root /\ r = SideOf(t, n) /\ k = Par(t, n) THEN x ELSE Kid(t, r, k)
    /\ \A k \in Place :
          Par(v, k) = IF k = x THEN Par(t, n)
                      ELSE IF k # Sentinel /\ k \in {Kid(t, "left", n), Kid(t, "right", n)} THEN x
                          ELSE Par(t, k)

LEMMA ReplacingIs ==
    ASSUME NEW t, Typed(t), NEW n \in Place, NEW x \in Place, x = Subst(n), NEW v, v = Replacing(t, n)
    PROVE  Promoted(t, v, n, x)
<1>1. PICK a \in Place, e \in Edges, f \in Uplinks, d \in SUBSET Place : t = Made(a, e, f, d)
  BY TypedIsMade
<1>2. t.root = a /\ t.red = d /\ t.child = e /\ t.parent = f /\ \A r, k : Kid(t, r, k) = e[<<r, k>>]
          /\ Par(t, k) = f[k]
  BY <1>1, MadeOf
<1>3. PICK s : s = SideOf(t, n)
  OBVIOUS
<1>4. PICK g \in Pointer : g = Par(t, n)
  BY TypedParts
<1>5. PICK l \in Pointer : l = Kid(t, "left", n)
  BY TypedParts DEF Side
<1>6. PICK h \in Pointer : h = Kid(t, "right", n)
  BY TypedParts DEF Side
<1> DEFINE e2 == [y \in Side \X Place |-> IF y[2] = x THEN Kid(t, y[1], n)
                                          ELSE IF n # a /\ y = <<s, g>> THEN x ELSE e[y]]
           f2 == [m \in Place |-> IF m = x THEN g ELSE IF m # Sentinel /\ m \in {l, h} THEN x ELSE f[m]]
           a2 == IF a = n THEN x ELSE a
           d2 == IF n \in d THEN d \cup {x} ELSE d \ {x}
<1>7. DOMAIN e = Side \X Place /\ DOMAIN f = Place
  BY DEF Edges, Uplinks
<1>8. v = [t EXCEPT !.root = a2, !.child = e2, !.parent = f2, !.red = d2]
  <2>1. Par(t, n) = t.parent[n]
    BY DEF Par
  <2> QED
    BY <1>2, <1>3, <1>4, <1>5, <1>6, <1>7, <2>1 DEF Replacing
<1>9. x \in Pointer
  BY DEF Pointer
<1>10. ASSUME NEW r \in Side, NEW k \in Place
       PROVE  e2[<<r, k>>] = IF k = x THEN Kid(t, r, n) ELSE IF n # a /\ r = s /\ k = g THEN x ELSE e[<<r, k>>]
  OBVIOUS
<1>11. e2 \in Edges
  <2>1. ASSUME NEW y \in Side \X Place
        PROVE  (IF y[2] = x THEN Kid(t, y[1], n) ELSE IF n # a /\ y = <<s, g>> THEN x ELSE e[y]) \in Pointer
    <3>1. y[1] \in Side /\ e[y] \in Pointer
      BY DEF Edges
    <3>2. Kid(t, y[1], n) \in Pointer
      BY <3>1, TypedParts
    <3> QED
      BY <1>9, <3>1, <3>2
  <2> QED
    BY <2>1 DEF Edges
<1>12. f2 \in Uplinks /\ \A k \in Place : f2[k] = IF k = x THEN g ELSE IF k # Sentinel
           /\ k \in {l, h} THEN x ELSE f[k]
  BY <1>9 DEF Uplinks
<1> HIDE DEF e2, f2
<1>13. v = Made(a2, e2, f2, d2)
  BY <1>1, <1>8 DEF Made
<1>14. a2 \in Place /\ d2 \in SUBSET Place
  OBVIOUS
<1>15. Typed(v)
  BY <1>11, <1>12, <1>13, <1>14, MadeIsTyped
<1>16. v.root = a2 /\ v.red = d2 /\ \A r, k : Kid(v, r, k) = e2[<<r, k>>] /\ Par(v, k) = f2[k]
  BY <1>13, MadeOf
<1>17. ASSUME NEW r \in Side, NEW k \in Place
       PROVE  Kid(v, r, k) = IF k = x THEN Kid(t, r, n)
                             ELSE IF n # t.root /\ r = SideOf(t, n) /\ k = Par(t, n) THEN x ELSE Kid(t, r, k)
  <2>1. Kid(v, r, k) = e2[<<r, k>>] /\ Kid(t, r, k) = e[<<r, k>>]
    BY <1>2, <1>16
  <2> QED
    BY <1>2, <1>3, <1>4, <1>10, <2>1
<1>18. ASSUME NEW k \in Place
       PROVE  Par(v, k) = IF k = x THEN Par(t, n)
                          ELSE IF k # Sentinel /\ k \in {Kid(t, "left", n), Kid(t, "right", n)} THEN x
                              ELSE Par(t, k)
  <2>1. Par(v, k) = f2[k] /\ Par(t, k) = f[k]
    BY <1>2, <1>16
  <2> QED
    BY <1>4, <1>5, <1>6, <1>12, <2>1
<1> QED
  BY <1>2, <1>15, <1>16, <1>17, <1>18 DEF Promoted

(* The node that comes next, taken out of its place, gets that of n.         *)
Nearly(u, t, N, n, x, p, c) ==
    /\ c # n /\ t.root = u.root /\ (t.red = u.red \cup {x} \/ t.red = u.red) /\ u.red \in SUBSET N
    /\ \A r \in Side : \A k \in N : Kid(t, r, k) = Kid(u, r, k)
    /\ \A k \in N : k # c => Par(t, k) = Par(u, k)
    /\ Par(u, c) = p /\ (p # n => Par(t, c) = p)

Replaced(t, v, N, n, x) ==
    /\ v.root = IF t.root = n THEN x ELSE t.root
    /\ v.red = (IF n \in t.red THEN t.red \cup {x} ELSE t.red \ {x}) \ {n}
    /\ \A r \in Side : \A k \in (N \ {n}) \cup {x} :
          Kid(v, r, k) = IF k = x THEN Kid(t, r, n)
                         ELSE IF n # t.root /\ r = SideOf(t, n) /\ k = Par(t, n) THEN x ELSE Kid(t, r, k)
    /\ \A k \in (N \ {n}) \cup {x} :
          Par(v, k) = IF k = x THEN Par(t, n)
                      ELSE IF k # Sentinel /\ k \in {Kid(t, "left", n), Kid(t, "right", n)} THEN x
                          ELSE Par(t, k)

LEMMA NextStandsIn ==
    ASSUME NEW u, NEW N, NEW sub, Shape(u, N, sub), NEW n \in N, NEW x \in Name \ N, NEW p, NEW c,
           NEW t, Nearly(u, t, N, n, x, p, c), NEW v, Replaced(t, v, N, n, x)
    PROVE  StandsIn(u, v, N, n, x)
<1> DEFINE In(y) == Instead(n, x, y)
<1>t. /\ c # n /\ t.root = u.root /\ (t.red = u.red \cup {x} \/ t.red = u.red) /\ u.red \in SUBSET N
      /\ \A r \in Side : \A k \in N : Kid(t, r, k) = Kid(u, r, k)
      /\ \A k \in N : k # c => Par(t, k) = Par(u, k)
      /\ Par(u, c) = p /\ (p # n => Par(t, c) = p)
  BY DEF Nearly
<1>v. /\ v.root = IF t.root = n THEN x ELSE t.root
      /\ v.red = (IF n \in t.red THEN t.red \cup {x} ELSE t.red \ {x}) \ {n}
      /\ \A r \in Side : \A k \in (N \ {n}) \cup {x} :
            Kid(v, r, k) = IF k = x THEN Kid(t, r, n)
                           ELSE IF n # t.root /\ r = SideOf(t, n) /\ k = Par(t, n) THEN x ELSE Kid(t, r, k)
      /\ \A k \in (N \ {n}) \cup {x} :
            Par(v, k) = IF k = x THEN Par(t, n)
                        ELSE IF k # Sentinel /\ k \in {Kid(t, "left", n), Kid(t, "right", n)} THEN x
                            ELSE Par(t, k)
  BY DEF Replaced
<1>1. n # x /\ Sentinel \notin N /\ Sentinel # x /\ N \in SUBSET Name
  BY Sentinels DEF Shape
<1>2. v.root = In(u.root) /\ v.red = Swapped(n, x, u.red)
  <2>1. v.root = In(u.root)
    BY <1>t, <1>v DEF Instead
  <2>2. v.red = Swapped(n, x, u.red)
    BY <1>1, <1>t, <1>v DEF Swapped
  <2> QED
    BY <2>1, <2>2
<1>3. "left" \in Side /\ "right" \in Side /\ \A r \in Side : r = "left" \/ r = "right"
  BY DEF Side
<1>4. \A r \in Side : Kid(u, r, n) # n /\ (Kid(u, r, n) = Sentinel \/ Kid(u, r, n) \in N)
  BY SubsAre
<1>5. n # u.root => /\ Par(u, n) \in N /\ Par(u, n) # n /\ Kid(u, SideOf(u, n), Par(u, n)) = n
                           /\ SideOf(u, n) \in Side
                    /\ \A r \in Side : \A k \in N : Kid(u, r, k) = n => r = SideOf(u, n) /\ k = Par(u, n)
  BY Parents
<1>6. \A r \in Side : \A k \in N : Kid(u, r, k) # u.root
  BY RootIsTop
<1>7. n # u.root => Par(t, n) = Par(u, n) /\ SideOf(t, n) = SideOf(u, n)
  <2>1. Par(t, n) = Par(u, n)
    BY <1>t
  <2>2. t.parent[n] = Par(t, n) /\ u.parent[n] = Par(u, n)
    BY DEF Par
  <2>3. n # u.root => Kid(t, "left", Par(u, n)) = Kid(u, "left", Par(u, n))
    BY <1>3, <1>5, <1>t
  <2> QED
    BY <2>1, <2>2, <2>3 DEF SideOf
<1>8. ASSUME NEW k \in N, NEW r \in Side PROVE Kid(v, r, In(k)) = In(Kid(u, r, k))
  <2>1. CASE k = n
    <3>1. In(k) = x
      BY <2>1 DEF Instead
    <3>2. Kid(v, r, x) = Kid(u, r, n)
      BY <1>t, <1>v
    <3>3. In(Kid(u, r, n)) = Kid(u, r, n)
      BY <1>4 DEF Instead
    <3> QED
      BY <2>1, <3>1, <3>2, <3>3
  <2>2. CASE k # n
    <3>1. In(k) = k /\ k # x
      BY <2>2 DEF Instead
    <3>2. Kid(v, r, k) = IF n # t.root /\ r = SideOf(t, n) /\ k = Par(t, n) THEN x ELSE Kid(u, r, k)
      BY <1>t, <1>v, <2>2, <3>1
    <3>3. (n # t.root /\ r = SideOf(t, n) /\ k = Par(t, n)) <=> Kid(u, r, k) = n
      BY <1>5, <1>6, <1>7, <1>t
    <3> QED
      BY <3>1, <3>2, <3>3 DEF Instead
  <2> QED
    BY <2>1, <2>2
<1>9. ASSUME NEW k \in N, k # u.root PROVE Par(v, In(k)) = In(Par(u, k))
  <2>1. CASE k = n
    <3>1. In(k) = x
      BY <2>1 DEF Instead
    <3>2. Par(v, x) = Par(u, n)
      BY <1>t, <1>v
    <3>3. In(Par(u, n)) = Par(u, n)
      BY <1>5, <1>9, <2>1 DEF Instead
    <3> QED
      BY <2>1, <3>1, <3>2, <3>3
  <2>2. CASE k # n
    <3>1. In(k) = k /\ k # x /\ k # Sentinel
      BY <1>1, <2>2 DEF Instead
    <3>2. Par(v, k) = IF k \in {Kid(u, "left", n), Kid(u, "right", n)} THEN x ELSE Par(t, k)
      BY <1>3, <1>t, <1>v, <2>2, <3>1
    <3>3. CASE Par(u, k) = n
      <4>1. SideOf(u, k) \in Side /\ Kid(u, SideOf(u, k), n) = k
        BY <1>9, <3>3, Parents
      <4>2. k \in {Kid(u, "left", n), Kid(u, "right", n)}
        BY <1>3, <4>1
      <4> QED
        BY <3>1, <3>2, <3>3, <4>2 DEF Instead
    <3>4. CASE Par(u, k) # n
      <4>1. k \notin {Kid(u, "left", n), Kid(u, "right", n)}
        <5>1. \A r \in Side : Kid(u, r, n) = k => Par(u, k) = n
          BY SubsAre
        <5> QED
          BY <1>3, <3>4, <5>1
      <4>2. Par(t, k) = Par(u, k)
        BY <1>t, <3>4
      <4> QED
        BY <3>1, <3>2, <3>4, <4>1, <4>2 DEF Instead
    <3> QED
      BY <3>3, <3>4
  <2> QED
    BY <2>1, <2>2
<1> QED
  BY <1>2, <1>8, <1>9 DEF StandsIn

(* What is left after a node other than the root is taken out: balanced but  *)
(* for the black that may be missing where its child has moved.              *)
LEMMA Freed ==
    ASSUME NEW u, NEW N, NEW sub, NEW bh, NEW hole, Tree(u, N, sub, bh, hole), NEW c, NEW q, NEW p, NEW black,
           u.root \notin u.red, c # u.root, c \in N \cup {Sentinel},
           black \in BOOLEAN, hole = IF black THEN {<<q, p>>} ELSE {},
           Reds(u, N, IF black THEN {c} ELSE {}, {}),
           q \in Side, p \in N, Kid(u, q, p) = c, Par(u, c) = p
    PROVE  TreeIs(u, IF black THEN "delete" ELSE "none", c, N)
<1>1. CASE black
  <2>1. Reds(u, N, {c}, {c}) /\ hole = {<<q, p>>}
    BY <1>1 DEF Reds
  <2>2. Deleting(u, c, N, hole)
    BY <2>1 DEF Deleting
  <2> QED
    BY <1>1, <2>2 DEF TreeIs
<1>2. CASE ~black
  <2>1. Reds(u, N, {}, {}) /\ hole = {}
    BY <1>2
  <2>2. Resting(u, N)
    BY <2>1 DEF Resting
  <2> QED
    BY <1>2, <2>1, <2>2 DEF TreeIs
<1> QED
  BY <1>1, <1>2

Remains(t, N, sub, bh, x, q, p, c, u) ==
    /\ Shape(u, N \ {x}, Without(N, sub, x))
    /\ Coloured(u, N \ {x}, Narrowed(N, bh, x), Gap(t, x, q, p))
    /\ Reds(u, N \ {x}, IF x \in t.red THEN {} ELSE {c}, {})
    /\ u.root \notin u.red /\ u.root = t.root /\ c # u.root /\ c # x
    /\ c \in (N \ {x}) \cup {Sentinel} /\ p \in N \ {x} /\ q \in Side /\ Kid(u, q, p) = c

LEMMA TakenOutParts ==
    ASSUME NEW t, NEW N, NEW sub, NEW bh, Tree(t, N, sub, bh, {}), Resting(t, N),
           NEW x, NEW q, NEW p, NEW c, Single(t, N, x, q, p, c), NEW u, TakesOut(t, u, N, x, q, p, c)
    PROVE  Remains(t, N, sub, bh, x, q, p, c, u)
<1>1. Shape(t, N, sub) /\ Coloured(t, N, bh, {}) /\ Reds(t, N, {}, {}) /\ t.root \notin t.red
  BY DEF Tree, Resting
<1>2. Shape(u, N \ {x}, Without(N, sub, x))
  BY <1>1, TakeOutKeepsShape
<1>3. Coloured(u, N \ {x}, Narrowed(N, bh, x), Gap(t, x, q, p))
  BY <1>1, TakeOutKeepsColours
<1>4. Reds(u, N \ {x}, IF x \in t.red THEN {} ELSE {c}, {})
  BY <1>1, TakeOutReds
<1>5. /\ p \in N \ {x} /\ q \in Side /\ c \in (N \ {x}) \cup {Sentinel} /\ c # t.root /\ c # x
  BY <1>1, SingleParts
<1>6. u.root = t.root /\ u.root \notin u.red /\ Kid(u, q, p) = c
  BY <1>1, <1>5 DEF TakesOut
<1> QED
  BY <1>2, <1>3, <1>4, <1>5, <1>6 DEF Remains

(* The call is over, or its loop is to go on from c.                         *)
GoesOn(n) ==
    IF Subst(n) \in tree.red THEN doing' = doing /\ at' = at ELSE doing' = "delete" /\ at' = MovingUp(n)

LEMMA ThenGoesOn ==
    ASSUME NEW n, GoesOn(n), doing = "none", NEW c, c = MovingUp(n), NEW N, NEW black,
           black = (Subst(n) \notin tree.red),
           NEW u, TreeIs(u, IF black THEN "delete" ELSE "none", c, N)
    PROVE  TreeIs(u, doing', at', N)
<1>1. CASE black
  BY <1>1 DEF GoesOn
<1>2. CASE ~black
  BY <1>2 DEF GoesOn, TreeIs
<1> QED
  BY <1>1, <1>2

(* A node without two children leaves its place.                             *)
LEMMA SameNodeOut ==
    ASSUME NEW N, NEW sub, NEW bh, Tree(tree, N, sub, bh, {}), Resting(tree, N), NEW n \in N,
           Subst(n) = n, n # tree.root,
           NEW c, c = MovingUp(n), NEW u, u = Cleared(TakenOut(n), n)
    PROVE  TreeIs(u, IF n \notin tree.red THEN "delete" ELSE "none", c, N \ {n})
<1>1. /\ Typed(tree) /\ Shape(tree, N, sub) /\ N \in SUBSET Name /\ N \in SUBSET Place /\ n \in Place
  BY Kinds
<1>2. PICK q \in Side : q = SideOf(tree, n)
  BY <1>1, Parents
<1>3. PICK p \in N : p = Par(tree, n)
  BY <1>1, Parents
<1>4. Single(tree, N, n, q, p, c)
  BY <1>1, <1>2, <1>3, SubstIs DEF Single
<1>5. /\ (c \in N \/ c = Sentinel) /\ c # n
  BY <1>1, <1>4, SingleParts
<1>6. c \in Place /\ p \in Place /\ p \in Pointer /\ p = NewParent(n)
  BY <1>1, <1>3, <1>5 DEF Place, Pointer, NewParent, Par
<1>7. PICK t : t = TakenOut(n)
  OBVIOUS
<1>x. PICK x : x = n
  OBVIOUS
<1>8. /\ Typed(t) /\ t.root = tree.root /\ t.red = tree.red
      /\ \A r \in Side : \A k \in Place : Kid(t, r, k) = IF r = q /\ k = p THEN c ELSE Kid(tree, r, k)
      /\ \A k \in Place : Par(t, k) = IF k = c THEN p ELSE Par(tree, k)
  <2>1. x = Subst(n) /\ q = SideOf(tree, x) /\ p = Par(tree, x) /\ c = MovingUp(n) /\ p = NewParent(n)
            /\ t = TakenOut(n)
    BY <1>2, <1>3, <1>6, <1>7, <1>x
  <2>2. Taking(n, x, q, p, c, p)
    BY <1>6, <2>1 DEF Taking
  <2>3. Taken(t, q, p, c, p)
    BY <1>1, <1>7, <2>2, TakenOutIs
  <2> QED
    BY <2>3 DEF Taken
<1>9. /\ Typed(u) /\ u.root = t.root /\ u.red = t.red \ {n}
      /\ \A k \in Place : k # n => Par(u, k) = Par(t, k) /\ \A r \in Side : Kid(u, r, k) = Kid(t, r, k)
  BY <1>1, <1>7, <1>8, ClearedIs
<1>10. TakesOut(tree, u, N, n, q, p, c)
  <2>1. \A k \in N \ {n} : k \in Place /\ k # n
    BY <1>1
  <2>2. \A r \in Side : \A k \in N \ {n} : Kid(u, r, k) = IF r = q /\ k = p THEN c ELSE Kid(tree, r, k)
    BY <1>8, <1>9, <2>1
  <2>3. \A k \in N \ {n} : Par(u, k) = IF k = c THEN p ELSE Par(tree, k)
    BY <1>8, <1>9, <2>1
  <2> QED
    BY <1>8, <1>9, <2>2, <2>3 DEF TakesOut
<1>11. Par(u, c) = p
  BY <1>5, <1>6, <1>8, <1>9
<1>12. PICK black \in BOOLEAN : black = (n \notin tree.red)
  OBVIOUS
<1>13. Gap(tree, n, q, p) = IF black THEN {<<q, p>>} ELSE {}
  BY <1>12 DEF Gap
<1>14. /\ Shape(u, N \ {n}, Without(N, sub, n))
       /\ Coloured(u, N \ {n}, Narrowed(N, bh, n), Gap(tree, n, q, p))
       /\ Reds(u, N \ {n}, IF n \in tree.red THEN {} ELSE {c}, {})
       /\ u.root \notin u.red /\ c # u.root
       /\ c \in (N \ {n}) \cup {Sentinel} /\ p \in N \ {n} /\ Kid(u, q, p) = c
  <2>1. Remains(tree, N, sub, bh, n, q, p, c, u)
    BY <1>4, <1>10, TakenOutParts
  <2> QED
    BY <2>1 DEF Remains
<1>15. Reds(u, N \ {n}, IF black THEN {c} ELSE {}, {})
  BY <1>12, <1>14
<1>16. Tree(u, N \ {n}, Without(N, sub, n), Narrowed(N, bh, n), Gap(tree, n, q, p))
  BY <1>9, <1>14 DEF Tree
<1>17. TreeIs(u, IF black THEN "delete" ELSE "none", c, N \ {n})
  BY <1>11, <1>13, <1>14, <1>15, <1>16, Freed
<1> QED
  BY <1>12, <1>17

(* A node with two children leaves its place to the next one.                *)
LEMMA NextNodeOut ==
    ASSUME NEW N, NEW sub, NEW bh, Tree(tree, N, sub, bh, {}), Resting(tree, N), NEW n \in N,
           NEW x, x = Subst(n), x # n,
           NEW c, c = MovingUp(n), NEW v, v = Cleared(Replacing(TakenOut(n), n), n)
    PROVE  TreeIs(v, IF x \notin tree.red THEN "delete" ELSE "none", c, N \ {n})
<1> DEFINE N1 == N \ {x}
           N2 == N \ {n}
<1>1. /\ Typed(tree) /\ Shape(tree, N, sub) /\ N \in SUBSET Name /\ N \in SUBSET Place /\ n \in Place
             /\ Sentinel \notin N
      /\ tree.red \in SUBSET N
  BY Kinds
<1>2. /\ x \in N /\ x # tree.root /\ Follows(N, n, x) /\ x \in sub[n] /\ x \in Place /\ x \in Name
  BY <1>1, SubstIs
<1>3. PICK q \in Side : q = SideOf(tree, x)
  BY <1>1, <1>2, Parents
<1>4. PICK p \in N : p = Par(tree, x)
  BY <1>1, <1>2, Parents
<1>5. Single(tree, N, x, q, p, c)
  BY <1>1, <1>2, <1>3, <1>4, SubstIs DEF Single
<1>6. (c \in N1 \/ c = Sentinel) /\ c # x /\ p \in N1
  BY <1>1, <1>5, SingleParts
<1>7. c # n
  <2> SUFFICES ASSUME c = n PROVE FALSE
    OBVIOUS
  <2>1. sub[c] = sub[x] \ {x} /\ c \in sub[c] /\ c \in N
    BY <1>1, <1>5, SingleParts, SubsAre
  <2>2. n \in sub[x]
    BY <2>1
  <2> QED
    BY <1>1, <1>2, <2>2, Antisymmetric
<1>8. PICK o : o = NewParent(n)
  OBVIOUS
<1>9. o = IF p = n THEN x ELSE p
  BY <1>2, <1>4, <1>8 DEF NewParent, Par
<1>10. c \in Place /\ p \in Place /\ o \in Pointer
  BY <1>1, <1>2, <1>6, <1>9 DEF Place, Pointer
<1>11. PICK t : t = TakenOut(n)
  OBVIOUS
<1>12. Taken(t, q, p, c, o)
  <2>1. Taking(n, x, q, p, c, o)
    BY <1>3, <1>4, <1>8, <1>10 DEF Taking
  <2> QED
    BY <1>1, <1>11, <2>1, TakenOutIs
<1>13. /\ Typed(t) /\ t.root = tree.root /\ t.red = tree.red
       /\ \A r \in Side : \A k \in Place : Kid(t, r, k) = IF r = q /\ k = p THEN c ELSE Kid(tree, r, k)
       /\ \A k \in Place : Par(t, k) = IF k = c THEN o ELSE Par(tree, k)
  BY <1>12 DEF Taken
<1>14. PICK w : w = Replacing(t, n)
  OBVIOUS
<1>15. /\ Typed(w) /\ w.root = IF t.root = n THEN x ELSE t.root
       /\ w.red = IF n \in t.red THEN t.red \cup {x} ELSE t.red \ {x}
       /\ \A r \in Side : \A k \in Place :
                 Kid(w, r, k) = IF k = x THEN Kid(t, r, n)
                                ELSE IF n # t.root /\ r = SideOf(t, n) /\ k = Par(t, n) THEN x ELSE Kid(t, r, k)
       /\ \A k \in Place :
                 Par(w, k) = IF k = x THEN Par(t, n)
                             ELSE IF k # Sentinel /\ k \in {Kid(t, "left", n),
                                 Kid(t, "right", n)} THEN x ELSE Par(t, k)
  <2>1. Promoted(t, w, n, x)
    BY <1>1, <1>2, <1>13, <1>14, ReplacingIs
  <2> QED
    BY <2>1 DEF Promoted
<1>16. /\ Typed(v) /\ v.root = w.root /\ v.red = w.red \ {n}
       /\ \A k \in Place : k # n => Par(v, k) = Par(w, k) /\ \A r \in Side : Kid(v, r, k) = Kid(w, r, k)
  BY <1>1, <1>11, <1>14, <1>15, ClearedIs
(* The tree in between, but for a pointer that is set at once.               *)
<1>17. PICK a \in Place, e \in Edges, f \in Uplinks, d \in SUBSET Place : t = Made(a, e, f, d)
  BY <1>13, TypedIsMade
<1>18. PICK f2 : f2 = [f EXCEPT ![c] = p]
  OBVIOUS
<1>19. PICK u : u = Made(a, e, f2, d \ {x})
  OBVIOUS
<1>20. f2 \in Uplinks /\ \A k \in Place : f2[k] = IF k = c THEN p ELSE f[k]
  <2>1. ParPut(f, c, p, f2) /\ p \in Pointer
    BY <1>10, <1>18 DEF ParPut, Pointer
  <2> QED
    BY <1>10, <2>1, ParSet
<1>21. /\ u.root = t.root /\ u.red = t.red \ {x}
       /\ \A r, k : Kid(u, r, k) = Kid(t, r, k)
       /\ \A k \in Place : Par(u, k) = IF k = c THEN p ELSE Par(t, k)
  <2>1. u.root = a /\ u.red = d \ {x} /\ \A r, k : Kid(u, r, k) = e[<<r, k>>] /\ Par(u, k) = f2[k]
    BY <1>19, MadeOf
  <2>2. t.root = a /\ t.red = d /\ \A r, k : Kid(t, r, k) = e[<<r, k>>] /\ Par(t, k) = f[k]
    BY <1>17, MadeOf
  <2>3. ASSUME NEW r, NEW k PROVE Kid(u, r, k) = Kid(t, r, k)
    <3>1. Kid(u, r, k) = e[<<r, k>>] /\ Kid(t, r, k) = e[<<r, k>>]
      BY <2>1, <2>2
    <3> QED
      BY <3>1
  <2>4. \A k \in Place : Par(u, k) = IF k = c THEN p ELSE Par(t, k)
    BY <1>20, <2>1, <2>2
  <2> QED
    BY <2>1, <2>2, <2>3, <2>4
<1>22. TakesOut(tree, u, N, x, q, p, c)
  <2>1. \A k \in N \ {x} : k \in Place
    BY <1>1
  <2>2. \A r \in Side : \A k \in N \ {x} : Kid(u, r, k) = IF r = q /\ k = p THEN c ELSE Kid(tree, r, k)
    BY <1>13, <1>21, <2>1
  <2>3. \A k \in N \ {x} : Par(u, k) = IF k = c THEN p ELSE Par(tree, k)
    BY <1>13, <1>21, <2>1
  <2> QED
    BY <1>13, <1>21, <2>2, <2>3 DEF TakesOut
<1>23. PICK sub1 : sub1 = Without(N, sub, x)
  OBVIOUS
<1>24. PICK bh1 : bh1 = Narrowed(N, bh, x)
  OBVIOUS
<1>25. PICK hole : hole = Gap(tree, x, q, p)
  OBVIOUS
<1>26. /\ Shape(u, N1, sub1) /\ Coloured(u, N1, bh1, hole)
       /\ Reds(u, N1, IF x \in tree.red THEN {} ELSE {c}, {})
       /\ u.root \notin u.red /\ u.root = tree.root /\ c # u.root
       /\ Kid(u, q, p) = c
  <2>1. Remains(tree, N, sub, bh, x, q, p, c, u)
    BY <1>5, <1>22, TakenOutParts
  <2> QED
    BY <1>23, <1>24, <1>25, <2>1 DEF Remains
<1>27. NextTo(N1, n, x)
  BY <1>1, <1>2, FollowingIsNext
<1>28. n \in N1 /\ x \in Name \ N1 /\ N1 \in SUBSET Name /\ N1 \in SUBSET Place /\ n # x
  BY <1>1, <1>2
<1>29. Nearly(u, t, N1, n, x, p, c)
  <2>1. t.red = u.red \cup {x} \/ t.red = u.red
    BY <1>21
  <2>2. u.red \in SUBSET N1
    BY <1>1, <1>13, <1>21
  <2>3. \A k \in N1 : k # c => Par(t, k) = Par(u, k)
    BY <1>21, <1>28
  <2>4. Par(u, c) = p /\ (p # n => Par(t, c) = p)
    BY <1>9, <1>10, <1>13, <1>21
  <2> QED
    BY <1>7, <1>21, <2>1, <2>2, <2>3, <2>4 DEF Nearly
<1>30. Replaced(t, v, N1, n, x)
  <2>1. \A k \in (N1 \ {n}) \cup {x} : k \in Place /\ k # n
    BY <1>2, <1>28
  <2>2. \A r \in Side : \A k \in (N1 \ {n}) \cup {x} :
          Kid(v, r, k) = IF k = x THEN Kid(t, r, n)
                         ELSE IF n # t.root /\ r = SideOf(t, n) /\ k = Par(t, n) THEN x ELSE Kid(t, r, k)
    BY <1>15, <1>16, <2>1
  <2>3. \A k \in (N1 \ {n}) \cup {x} :
          Par(v, k) = IF k = x THEN Par(t, n)
                      ELSE IF k # Sentinel /\ k \in {Kid(t, "left", n), Kid(t, "right", n)} THEN x
                          ELSE Par(t, k)
    BY <1>15, <1>16, <2>1
  <2> QED
    BY <1>15, <1>16, <2>2, <2>3 DEF Replaced
<1> HIDE DEF N1, N2
<1>31. StandsIn(u, v, N1, n, x)
  BY <1>26, <1>28, <1>29, <1>30, NextStandsIn
<1>32. Swapped(n, x, N1) = N2
  BY <1>2, <1>28 DEF Swapped, N1, N2
<1>33. PICK black \in BOOLEAN : black = (x \notin tree.red)
  OBVIOUS
<1>34. PICK p2 : p2 = Instead(n, x, p)
  OBVIOUS
<1>35. PICK hole2 : hole2 = IF black THEN {<<q, p2>>} ELSE {}
  OBVIOUS
<1>36. \A r \in Side : \A k \in N1 : <<r, Instead(n, x, k)>> \in hole2 <=> <<r, k>> \in hole
  <2>1. hole = IF black THEN {<<q, p>>} ELSE {}
    BY <1>25, <1>33 DEF Gap
  <2>2. \A k \in N1 : Instead(n, x, k) = p2 <=> k = p
    <3>1. p \in N1 /\ \A k, m \in N1 : Instead(n, x, k) = Instead(n, x, m) => k = m
      BY <1>6, <1>27, <1>28, InsteadIsOnto DEF N1
    <3> QED
      BY <1>34, <3>1
  <2> QED
    BY <1>35, <2>1, <2>2
<1>37. PICK sub2 : sub2 = SubsWith(N1, sub1, n, x)
  OBVIOUS
<1>38. PICK bh2 : bh2 = HeightsWith(N1, bh1, n, x)
  OBVIOUS
<1>39. Shape(v, N2, sub2)
  BY <1>26, <1>27, <1>31, <1>32, <1>37, StandInKeepsShape
<1>40. Coloured(v, N2, bh2, hole2)
  BY <1>26, <1>27, <1>31, <1>32, <1>36, <1>38, StandInKeepsColours
<1>41. Reds(v, N2, IF black THEN {c} ELSE {}, {})
  <2>1. PICK lower : lower = IF black THEN {c} ELSE {}
    OBVIOUS
  <2>2. Reds(u, N1, lower, {}) /\ n \notin lower
    BY <1>7, <1>26, <1>33, <2>1
  <2>3. Reds(v, Swapped(n, x, N1), lower, {})
    BY <1>26, <1>27, <1>31, <2>2, StandInReds
  <2> QED
    BY <1>32, <2>1, <2>3
<1>42. Tree(v, N2, sub2, bh2, hole2)
  BY <1>16, <1>39, <1>40 DEF Tree
<1>43. v.root = Instead(n, x, u.root) /\ v.root \notin v.red
  <2>1. v.root = Instead(n, x, u.root) /\ v.red = Swapped(n, x, u.red)
    BY <1>31 DEF StandsIn
  <2>2. u.root \in N1 /\ u.red \in SUBSET N1
    BY <1>26, <1>28, SubsAre DEF Coloured
  <2>3. Instead(n, x, u.root) \in Swapped(n, x, u.red) <=> u.root \in u.red
    BY <1>27, <1>28, <2>2, SwappedIs
  <2> QED
    BY <1>26, <2>1, <2>3
<1>44. c \in N2 \cup {Sentinel} /\ p2 \in N2
  <2>1. p2 \in N2
    BY <1>2, <1>6, <1>28, <1>34 DEF N1, N2, Instead
  <2> QED
    BY <1>6, <1>7, <2>1 DEF N1, N2
<1>45. c # v.root
  BY <1>6, <1>26, <1>43 DEF Instead
<1>46. Kid(v, q, p2) = c
  <2>1. Kid(v, q, p2) = Instead(n, x, c)
    BY <1>6, <1>26, <1>31, <1>34 DEF StandsIn
  <2> QED
    BY <1>7, <2>1 DEF Instead
<1>47. Par(v, c) = p2
  <2>1. Par(v, c) = Par(w, c)
    BY <1>7, <1>10, <1>16
  <2>2. Par(w, c) = IF c # Sentinel /\ c \in {Kid(t, "left", n), Kid(t, "right", n)} THEN x ELSE o
    BY <1>6, <1>10, <1>13, <1>15
  <2>3. CASE p = n
    BY <1>9, <1>34, <2>1, <2>2, <2>3 DEF Instead
  <2>4. CASE p # n
    <3>1. \A r \in Side : Kid(u, r, n) = c /\ c \in N1 => Par(u, c) = n
      BY <1>26, <1>28, SubsAre
    <3>2. Par(u, c) = p
      BY <1>10, <1>21
    <3>3. c # Sentinel => c \notin {Kid(t, "left", n), Kid(t, "right", n)}
      BY <1>6, <1>21, <2>4, <3>1, <3>2 DEF Side
    <3> QED
      BY <1>9, <1>34, <2>1, <2>2, <2>4, <3>3 DEF Instead
  <2> QED
    BY <2>3, <2>4
<1>48. TreeIs(v, IF black THEN "delete" ELSE "none", c, N2)
  BY <1>35, <1>41, <1>42, <1>43, <1>44, <1>45, <1>46, <1>47, Freed
<1> QED
  BY <1>33, <1>48 DEF N2

LEMMA UnlinkInnerKeeps ==
    ASSUME NEW N, TreeIs(tree, doing, at, N), doing = "none", NEW n \in N, UnlinkInner(n)
    PROVE  TreeIs(tree', doing', at', N \ {n})
<1>1. PICK sub, bh : Tree(tree, N, sub, bh, {}) /\ Resting(tree, N)
  BY DEF TreeIs
<1>2. PICK c : c = MovingUp(n)
  OBVIOUS
<1>3. PICK x : x = Subst(n)
  OBVIOUS
<1>4. GoesOn(n)
  BY DEF UnlinkInner, GoesOn
<1>5. PICK v : v = tree'
  OBVIOUS
<1>6. TreeIs(v, IF x \notin tree.red THEN "delete" ELSE "none", c, N \ {n})
  <2>1. CASE x = n
    <3>1. Subst(n) = n /\ n # tree.root /\ v = Cleared(TakenOut(n), n)
      BY <1>3, <1>5, <2>1 DEF UnlinkInner
    <3>2. TreeIs(v, IF n \notin tree.red THEN "delete" ELSE "none", c, N \ {n})
      BY <1>1, <1>2, <3>1, SameNodeOut
    <3> QED
      BY <2>1, <3>2
  <2>2. CASE x # n
    <3>1. v = Cleared(Replacing(TakenOut(n), n), n)
      BY <1>3, <1>5, <2>2 DEF UnlinkInner
    <3> QED
      BY <1>1, <1>2, <1>3, <2>2, <3>1, NextNodeOut
  <2> QED
    BY <2>1, <2>2
<1>7. PICK black \in BOOLEAN : black = (x \notin tree.red)
  OBVIOUS
<1>8. TreeIs(v, IF black THEN "delete" ELSE "none", c, N \ {n})
  BY <1>6, <1>7
<1>9. TreeIs(v, doing', at', N \ {n})
  BY <1>2, <1>3, <1>4, <1>7, <1>8, ThenGoesOn
<1> QED
  BY <1>5, <1>9

(* ss_rbtree_delete up to its loop takes out the node and no other, and      *)
(* leaves at most one hole.                                                  *)
LEMMA UnlinkKeeps ==
    ASSUME NEW N, TreeIs(tree, doing, at, N), doing = "none", NEW n \in N, Unlink(n)
    PROVE  TreeIs(tree', doing', at', N \ {n})
BY UnlinkRootKeeps, UnlinkInnerKeeps DEF Unlink

(* ss_rbtree_insert up to its loop adds the node and no other, and leaves at *)
(* most two reds in a row.                                                   *)
LEMMA LinkKeeps ==
    ASSUME NEW N, TreeIs(tree, doing, at, N), doing = "none", NEW n \in Name, ~IsFound(n), Link(n)
    PROVE  TreeIs(tree', doing', at', N \cup {n})
BY LinkFirstKeeps, LinkBelowKeeps DEF Link

-----------------------------------------------------------------------------
(* What is in order below a node.                                            *)
Around(t, h, m) ==
    IF m \in Name THEN h[Kid(t, "left", m)] \o <<m>> \o h[Kid(t, "right", m)] ELSE <<>>

LEMMA PointerIs == Pointer = Name \cup {Sentinel, Null}
BY DEF Pointer, Place

LEMMA AroundIsSeq ==
    ASSUME NEW t, Typed(t), NEW h \in [Pointer -> Seq(Nat)], NEW m \in Pointer
    PROVE  Around(t, h, m) \in Seq(Nat)
<1>1. CASE m \in Name
  <2>1. Kid(t, "left", m) \in Pointer /\ Kid(t, "right", m) \in Pointer
    BY <1>1, TypedParts DEF Side, Place
  <2>2. PICK a \in Seq(Nat) : a = h[Kid(t, "left", m)]
    BY <2>1
  <2>3. PICK b \in Seq(Nat) : b = h[Kid(t, "right", m)]
    BY <2>1
  <2>4. m \in Nat
    BY <1>1, TreeAssumption
  <2>5. a \o <<m>> \o b \in Seq(Nat)
    BY <2>4
  <2> QED
    BY <1>1, <2>2, <2>3, <2>5 DEF Around
<1>2. CASE m \notin Name
  BY <1>2 DEF Around
<1> QED
  BY <1>1, <1>2

(* The walk as a table of what is in order below each node, level by level.  *)
LEMMA BelowUnfolds ==
    ASSUME Typed(tree), NEW n
    PROVE  \E w : /\ \A m \in Pointer : w[0][m] = <<>>
                  /\ \A i \in 1..Cardinality(Name) : \A m \in Pointer : w[i][m] = Around(tree, w[i - 1], m)
                  /\ Below(n) = w[Cardinality(Name)][n]
<1> DEFINE C == Cardinality(Name)
           P == Name \cup {Sentinel, Null}
           X == [P -> Seq(Nat)]
           g == [h \in X |-> [m \in P |-> Around(tree, h, m)]]
           base == [m \in P |-> <<>>]
<1>1. C \in Nat /\ Pointer = P
  BY Sentinels, PointerIs
<1>2. base \in X
  OBVIOUS
<1>3. \A h \in X : [m \in P |-> Around(tree, h, m)] \in X
  BY <1>1, AroundIsSeq
<1>4. g \in [X -> X] /\ \A h \in X : g[h] = [m \in P |-> Around(tree, h, m)]
  BY <1>3
<1> HIDE DEF g, C, X
<1>5. PICK f \in [0..C -> X] : Iterates(f, C, base, g)
  BY <1>1, <1>2, <1>4, Iterated
<1> DEFINE Is(w) == w = [d \in 0..C |-> [m \in P |-> IF d = 0 THEN <<>> ELSE Around(tree, w[d - 1], m)]]
<1>6. Is(f)
  <2>1. \A i \in 0..C : i # 0 => f[i - 1] \in X
    BY <1>1
  <2>2. \A i \in 0..C : (IF i = 0 THEN base ELSE g[f[i - 1]]) = [m \in P |-> IF i = 0 THEN <<>>
            ELSE Around(tree, f[i - 1], m)]
    BY <1>4, <2>1
  <2> QED
    BY <1>5, <2>2 DEF Iterates
<1> DEFINE w == CHOOSE v : Is(v)
<1>7. Is(w)
  BY <1>6
<1>8. Below(n) = w[C][n]
  BY DEF Below, Around, C
<1> HIDE DEF w
<1>9. DOMAIN w = 0..C /\ \A d \in 0..C : w[d] = [m \in P |-> IF d = 0 THEN <<>> ELSE Around(tree, w[d - 1], m)]
  BY <1>7
<1>10. \A m \in P : w[0][m] = <<>>
  BY <1>1, <1>9
<1>11. \A i \in 1..C : \A m \in P : w[i][m] = Around(tree, w[i - 1], m)
  BY <1>1, <1>9
<1> QED
  BY <1>1, <1>8, <1>10, <1>11 DEF C

(* A sequence of all of a set, in order.                                     *)
InOrder(s, T) ==
    /\ s \in Seq(Name)
    /\ \A i \in 1..Len(s) : s[i] \in T
    /\ \A x \in T : \E i \in 1..Len(s) : s[i] = x
    /\ \A i, j \in 1..Len(s) : i < j => Aside("left", s[i], s[j])

LEMMA NoneInOrder == InOrder(<<>>, {})
BY DEF InOrder

(* What is on the left, the node and what is on the right are in order one   *)
(* after the other.                                                          *)
LEMMA JoinedInOrder ==
    ASSUME NEW a, NEW b, NEW A \in SUBSET Name, NEW B \in SUBSET Name, NEW m \in Name,
           InOrder(a, A), InOrder(b, B),
           \A x \in A : Aside("left", x, m), \A x \in B : Aside("left", m, x)
    PROVE  InOrder(a \o <<m>> \o b, A \cup {m} \cup B)
<1>1. a \in Seq(Name) /\ b \in Seq(Name)
  BY DEF InOrder
<1>2. PICK p \in Nat : Len(a) = p
  BY <1>1, LenProperties
<1>3. PICK q \in Nat : Len(b) = q
  BY <1>1, LenProperties
<1>4. PICK e \in Seq(Name) : e = <<m>> /\ Len(e) = 1 /\ e[1] = m
  <2>1. <<m>> \in Seq(Name) /\ Len(<<m>>) = 1 /\ <<m>>[1] = m
    OBVIOUS
  <2> QED
    BY <2>1
<1>5. PICK d \in Seq(Name) : d = a \o e
  <2>1. a \o e \in Seq(Name)
    BY <1>1, <1>4
  <2> QED
    BY <2>1, Zenon
<1>r. Len(d) = p + 1 /\ \A j \in 1..(p + 1) : d[j] = IF j <= p THEN a[j] ELSE e[j - p]
  BY <1>1, <1>2, <1>4, <1>5, ConcatProperties
<1>6. PICK c \in Seq(Name) : c = d \o b
  <2>1. d \o b \in Seq(Name)
    BY <1>1, <1>5
  <2> QED
    BY <2>1, Zenon
<1>h. Len(c) = p + 1 + q /\ \A j \in 1..(p + 1 + q) : c[j] = IF j <= p + 1 THEN d[j] ELSE b[j - (p + 1)]
  BY <1>1, <1>3, <1>5, <1>r, <1>6, ConcatProperties
<1>7. \A j \in 1..p : c[j] = a[j] /\ a[j] \in A
  <2> SUFFICES ASSUME NEW j \in 1..p PROVE c[j] = a[j] /\ a[j] \in A
    OBVIOUS
  <2>1. j \in 1..(p + 1) /\ j \in 1..(p + 1 + q) /\ j <= p /\ j <= p + 1
    BY <1>2, <1>3
  <2>2. a[j] \in A
    BY <1>2 DEF InOrder
  <2> QED
    BY <1>r, <1>h, <2>1, <2>2
<1>8. c[p + 1] = m
  BY <1>2, <1>3, <1>4, <1>r, <1>h
<1>9. \A j \in 1..q : c[j + (p + 1)] = b[j] /\ b[j] \in B
  <2> SUFFICES ASSUME NEW j \in 1..q PROVE c[j + (p + 1)] = b[j] /\ b[j] \in B
    OBVIOUS
  <2>1. j + (p + 1) \in 1..(p + 1 + q) /\ ~(j + (p + 1) <= p + 1) /\ (j + (p + 1)) - (p + 1) = j
    BY <1>2, <1>3
  <2>2. b[j] \in B
    BY <1>3 DEF InOrder
  <2> QED
    BY <1>h, <2>1, <2>2
<1>10. \A j \in 1..Len(c) : \/ j \in 1..p
                            \/ j = p + 1
                            \/ \E k \in 1..q : j = k + (p + 1)
  <2> TAKE j \in 1..Len(c)
  <2>1. CASE j <= p + 1
    BY <1>2, <1>3, <1>h, <2>1
  <2>2. CASE ~(j <= p + 1)
    <3>1. j - (p + 1) \in 1..q /\ j = (j - (p + 1)) + (p + 1)
      BY <1>2, <1>3, <1>h, <2>2
    <3> QED
      BY <3>1
  <2> QED
    BY <2>1, <2>2
<1>11. \A j \in 1..Len(c) : c[j] \in A \cup {m} \cup B
  BY <1>7, <1>8, <1>9, <1>10
<1>12. ASSUME NEW x \in A \cup {m} \cup B PROVE \E j \in 1..Len(c) : c[j] = x
  <2>1. CASE x \in A
    <3>1. PICK j \in 1..p : a[j] = x
      BY <1>2, <2>1 DEF InOrder
    <3>2. j \in 1..Len(c)
      BY <1>2, <1>3, <1>h
    <3> QED
      BY <1>7, <3>1, <3>2
  <2>2. CASE x = m
    <3>1. p + 1 \in 1..Len(c)
      BY <1>2, <1>3, <1>h
    <3> QED
      BY <1>8, <2>2, <3>1
  <2>3. CASE x \in B
    <3>1. PICK j \in 1..q : b[j] = x
      BY <1>3, <2>3 DEF InOrder
    <3>2. j + (p + 1) \in 1..Len(c)
      BY <1>2, <1>3, <1>h
    <3> QED
      BY <1>9, <3>1, <3>2
  <2> QED
    BY <2>1, <2>2, <2>3
<1>13. \A x \in A : \A y \in B : Aside("left", x, y)
  <2> TAKE x \in A
  <2> TAKE y \in B
  <2>1. "left" \in Side /\ x \in Name /\ y \in Name
    BY DEF Side
  <2> QED
    BY <2>1, AsideTrans
<1>14. \A i, j \in 1..p : i < j => Aside("left", a[i], a[j])
  BY <1>2 DEF InOrder
<1>15. \A i, j \in 1..q : i < j => Aside("left", b[i], b[j])
  BY <1>3 DEF InOrder
<1>16. ASSUME NEW i \in 1..Len(c), NEW j \in 1..Len(c), i < j PROVE Aside("left", c[i], c[j])
  <2>1. CASE i \in 1..p
    <3>1. CASE j \in 1..p
      BY <1>7, <1>14, <1>16, <2>1, <3>1
    <3>2. CASE j = p + 1
      BY <1>7, <1>8, <2>1, <3>2
    <3>3. ASSUME NEW k \in 1..q, j = k + (p + 1) PROVE Aside("left", c[i], c[j])
      BY <1>7, <1>9, <1>13, <2>1, <3>3
    <3> QED
      BY <1>10, <3>1, <3>2, <3>3
  <2>2. CASE i = p + 1
    <3>1. j \notin 1..p /\ j # p + 1
      BY <1>2, <1>16, <2>2
    <3>2. PICK k \in 1..q : j = k + (p + 1)
      BY <1>10, <3>1
    <3> QED
      BY <1>8, <1>9, <2>2, <3>2
  <2>3. ASSUME NEW l \in 1..q, i = l + (p + 1) PROVE Aside("left", c[i], c[j])
    <3>1. j \notin 1..p /\ j # p + 1
      BY <1>2, <1>3, <1>16, <2>3
    <3>2. PICK k \in 1..q : j = k + (p + 1)
      BY <1>10, <3>1
    <3>3. l < k
      BY <1>2, <1>3, <1>16, <2>3, <3>2
    <3> QED
      BY <1>9, <1>15, <2>3, <3>2, <3>3
  <2> QED
    BY <1>10, <2>1, <2>2, <2>3
<1>17. InOrder(c, A \cup {m} \cup B)
  BY <1>11, <1>12, <1>16 DEF InOrder
<1> QED
  BY <1>4, <1>5, <1>6, <1>17

(* The walk meets each node of the tree once, in order.                      *)
LEMMA BelowIs ==
    ASSUME NEW N, NEW sub, Typed(tree), Shape(tree, N, sub)
    PROVE  InOrder(Below(tree.root), N)
<1> DEFINE C == Cardinality(Name)
<1>1. PICK w : /\ \A m \in Pointer : w[0][m] = <<>>
               /\ \A i \in 1..C : \A m \in Pointer : w[i][m] = Around(tree, w[i - 1], m)
               /\ Below(tree.root) = w[C][tree.root]
  BY BelowUnfolds
<1>2. C \in Nat /\ Sentinel \notin Name /\ N \in SUBSET Name /\ IsFiniteSet(Name) /\ Sentinel \notin N
          /\ Cardinality(N) <= C
  BY Sentinels, FS_CardinalityType, FS_Subset DEF Shape
<1>3. \A m \in N : /\ sub[m] \in SUBSET Name /\ IsFiniteSet(sub[m]) /\ m \in sub[m]
                   /\ Cardinality(sub[m]) \in Nat /\ Cardinality(sub[m]) # 0
  <2> TAKE m \in N
  <2>1. sub[m] \in SUBSET Name /\ IsFiniteSet(sub[m]) /\ m \in sub[m] /\ Cardinality(sub[m]) \in Nat
    BY SubsAre, Sentinels
  <2> QED
    BY <2>1, FS_EmptySet
<1>4. "left" \in Side /\ "right" \in Side /\ Other("left") = "right" /\ Other("right") = "left"
  BY DEF Side, Other
<1>r. N \subseteq Pointer /\ Sentinel \in Pointer
  BY <1>2 DEF Pointer, Place
<1> DEFINE Good == {i \in Nat : i <= C => /\ w[i][Sentinel] = <<>>
                                           /\ \A m \in N : Cardinality(sub[m]) <= i => InOrder(w[i][m], sub[m])}
<1>h. 0 \in Good
  <2>1. \A m \in N : ~(Cardinality(sub[m]) <= 0)
    BY <1>3
  <2> QED
    BY <1>1, <1>r, <2>1
<1>7. \A i \in Nat : i \in Good => i + 1 \in Good
  <2> SUFFICES ASSUME NEW i \in Nat, i \in Good, i + 1 <= C
               PROVE  /\ w[i + 1][Sentinel] = <<>>
                      /\ \A m \in N : Cardinality(sub[m]) <= i + 1 => InOrder(w[i + 1][m], sub[m])
    OBVIOUS
  <2>1. i + 1 \in 1..C /\ (i + 1) - 1 = i /\ i <= C
    BY <1>2
  <2>2. \A m \in Pointer : w[i + 1][m] = Around(tree, w[i], m)
    BY <1>1, <2>1
  <2>3. w[i + 1][Sentinel] = <<>>
    BY <1>2, <1>r, <2>2 DEF Around
  <2>4. w[i][Sentinel] = <<>> /\ \A m \in N : Cardinality(sub[m]) <= i => InOrder(w[i][m], sub[m])
    BY <2>1
  <2>5. ASSUME NEW m \in N, Cardinality(sub[m]) <= i + 1 PROVE InOrder(w[i + 1][m], sub[m])
    <3>1. ASSUME NEW s \in Side PROVE InOrder(w[i][Kid(tree, s, m)], Part(sub, s, m))
      <4>1. CASE Kid(tree, s, m) = Sentinel
        <5>1. Part(sub, s, m) = {}
          BY <4>1, SubsAre
        <5> QED
          BY <2>4, <4>1, <5>1, NoneInOrder
      <4>2. CASE Kid(tree, s, m) # Sentinel
        <5>1. PICK c \in N : c = Kid(tree, s, m) /\ sub[c] = Part(sub, s, m)
          BY <4>2, SubsAre
        <5>2. Cardinality(sub[c]) + 1 <= Cardinality(sub[m])
          BY <5>1, Fewer
        <5>3. Cardinality(sub[c]) \in Nat /\ Cardinality(sub[m]) \in Nat
          BY <1>3
        <5>4. Cardinality(sub[c]) <= i
          BY <2>5, <5>2, <5>3
        <5>5. InOrder(w[i][c], sub[c])
          BY <2>4, <5>4
        <5> QED
          BY <5>1, <5>5
      <4> QED
        BY <4>1, <4>2
    <3>2. w[i + 1][m] = w[i][Kid(tree, "left", m)] \o <<m>> \o w[i][Kid(tree, "right", m)]
      BY <1>2, <1>r, <2>2 DEF Around
    <3>3. m \in Name /\ sub[m] \in SUBSET Name /\ m \in sub[m]
      BY <1>2, <1>3
    <3>4. Part(sub, "left", m) \in SUBSET Name /\ Part(sub, "right", m) \in SUBSET Name
      BY <3>3 DEF Part
    <3>5. \A x \in Part(sub, "left", m) : Aside("left", x, m)
      BY DEF Part
    <3>6. \A x \in Part(sub, "right", m) : Aside("left", m, x)
      <4> TAKE x \in Part(sub, "right", m)
      <4>1. x \in Name /\ Aside("right", x, m)
        BY <3>4 DEF Part
      <4> QED
        BY <1>4, <3>3, <4>1, AsideIs
    <3>7. sub[m] = Part(sub, "left", m) \cup {m} \cup Part(sub, "right", m)
      <4>1. \A x \in sub[m] : x = m \/ Aside("left", x, m) \/ Aside("right", x, m)
        BY <1>4, <3>3, AsideIs
      <4>2. \A x : x \in sub[m] <=> x \in Part(sub, "left", m) \cup {m} \cup Part(sub, "right", m)
        BY <3>3, <4>1 DEF Part
      <4> QED
        BY <4>2
    <3>8. InOrder(w[i][Kid(tree, "left", m)] \o <<m>> \o w[i][Kid(tree, "right", m)],
              Part(sub, "left", m) \cup {m} \cup Part(sub, "right", m))
      BY <1>4, <3>1, <3>3, <3>4, <3>5, <3>6, JoinedInOrder
    <3> QED
      BY <3>2, <3>7, <3>8
  <2> QED
    BY <2>3, <2>5
<1> HIDE DEF Good
<1>8. C \in Good
  BY <1>2, <1>h, <1>7, Induct
<1>9. w[C][Sentinel] = <<>> /\ \A m \in N : Cardinality(sub[m]) <= C => InOrder(w[C][m], sub[m])
  BY <1>2, <1>8 DEF Good
<1>10. CASE N = {}
  <2>1. tree.root = Sentinel
    BY <1>10 DEF Shape
  <2> QED
    BY <1>1, <1>9, <1>10, <2>1, NoneInOrder
<1>11. CASE N # {}
  <2>1. tree.root \in N /\ sub[tree.root] = N
    BY <1>11 DEF Shape
  <2>2. InOrder(w[C][tree.root], N)
    BY <1>2, <1>9, <2>1
  <2> QED
    BY <1>1, <2>2
<1> QED
  BY <1>10, <1>11

-----------------------------------------------------------------------------
(* The black nodes on the ways down.                                         *)
Counted(s, m) == IF doing = "delete" /\ Kid(tree, s, m) = at /\ tree.parent[at] = m THEN 1 ELSE 0

Through(h, m) ==
    IF m \in Name THEN UNION {{b + Counted(s, m) + Own(tree, m) : b \in h[Kid(tree, s, m)]} : s \in Side}
    ELSE {0}

LEMMA ThroughIsSet ==
    ASSUME Typed(tree), NEW h \in [Pointer -> SUBSET Nat], NEW m \in Pointer
    PROVE  Through(h, m) \in SUBSET Nat
<1>1. CASE m \in Name
  <2>1. \A s \in Side : h[Kid(tree, s, m)] \in SUBSET Nat
    BY <1>1, TypedParts DEF Place
  <2>2. \A s \in Side : Counted(s, m) \in Nat /\ Own(tree, m) \in Nat
    BY DEF Counted, Own
  <2>3. ASSUME NEW s \in Side, NEW b \in h[Kid(tree, s, m)] PROVE b + Counted(s, m) + Own(tree, m) \in Nat
    BY <2>1, <2>2
  <2>4. Through(h, m) = UNION {{b + Counted(s, m) + Own(tree, m) : b \in h[Kid(tree, s, m)]} : s \in Side}
    BY <1>1 DEF Through
  <2>5. \A y \in Through(h, m) :
          \E s \in Side : \E b \in h[Kid(tree, s, m)] : y = b + Counted(s, m) + Own(tree, m)
    BY <2>4, Zenon
  <2> QED
    BY <2>3, <2>5
<1>2. CASE m \notin Name
  BY <1>2 DEF Through
<1> QED
  BY <1>1, <1>2

(* The black nodes on the ways down from each node, level by level.          *)
LEMMA BlacksUnfold ==
    ASSUME Typed(tree)
    PROVE  \E w : /\ \A m \in Pointer : w[0][m] = {0}
                  /\ \A i \in 1..Cardinality(Name) : \A m \in Pointer : w[i][m] = Through(w[i - 1], m)
                  /\ Blacks = w[Cardinality(Name)][tree.root]
<1> DEFINE C == Cardinality(Name)
           P == Name \cup {Sentinel, Null}
           X == [P -> SUBSET Nat]
           g == [h \in X |-> [m \in P |-> Through(h, m)]]
           base == [m \in P |-> {0}]
<1>1. C \in Nat /\ Pointer = P
  BY Sentinels, PointerIs
<1>2. base \in X
  OBVIOUS
<1>3. \A h \in X : [m \in P |-> Through(h, m)] \in X
  BY <1>1, ThroughIsSet
<1>4. g \in [X -> X] /\ \A h \in X : g[h] = [m \in P |-> Through(h, m)]
  BY <1>3
<1> HIDE DEF g, C, X
<1>5. PICK f \in [0..C -> X] : Iterates(f, C, base, g)
  BY <1>1, <1>2, <1>4, Iterated
<1> DEFINE Is(w) == w = [d \in 0..C |-> [m \in P |-> IF d = 0 THEN {0} ELSE Through(w[d - 1], m)]]
<1>6. Is(f)
  <2>1. \A i \in 0..C : i # 0 => f[i - 1] \in X
    BY <1>1
  <2>2. \A i \in 0..C : (IF i = 0 THEN base ELSE g[f[i - 1]]) = [m \in P |-> IF i = 0 THEN {0}
            ELSE Through(f[i - 1], m)]
    BY <1>4, <2>1
  <2> QED
    BY <1>5, <2>2 DEF Iterates
<1> DEFINE w == CHOOSE v : Is(v)
<1>7. Is(w)
  BY <1>6
<1>8. Blacks = w[C][tree.root]
  BY DEF Blacks, Through, Counted, Own, C
<1> HIDE DEF w
<1>9. DOMAIN w = 0..C /\ \A d \in 0..C : w[d] = [m \in P |-> IF d = 0 THEN {0} ELSE Through(w[d - 1], m)]
  BY <1>7
<1>10. \A m \in P : w[0][m] = {0}
  BY <1>1, <1>9
<1>11. \A i \in 1..C : \A m \in P : w[i][m] = Through(w[i - 1], m)
  BY <1>1, <1>9
<1> QED
  BY <1>1, <1>8, <1>10, <1>11 DEF C

(* The extra one is counted at the hole.                                     *)
LEMMA CountedAtHole ==
    ASSUME NEW N, NEW sub, NEW bh, NEW hole, Tree(tree, N, sub, bh, hole),
           (hole = {} /\ doing # "delete") \/ (doing = "delete" /\ Deleting(tree, at, N, hole)),
           NEW m \in N, NEW s \in Side
    PROVE  Counted(s, m) = Extra(hole, s, m)
<1>1. Shape(tree, N, sub) /\ Coloured(tree, N, bh, hole)
  BY Kinds
<1>2. CASE hole = {} /\ doing # "delete"
  BY <1>2 DEF Counted, Extra
<1>3. CASE doing = "delete" /\ at = tree.root /\ hole = {}
  <2>1. Kid(tree, s, m) # at
    BY <1>1, <1>3, RootIsTop
  <2> QED
    BY <1>3, <2>1 DEF Counted, Extra
<1>4. ASSUME doing = "delete", at # tree.root, Par(tree, at) \in N, at \in N \cup {Sentinel},
             NEW r \in Side, Kid(tree, r, Par(tree, at)) = at, hole = {<<r, Par(tree, at)>>}
      PROVE  Counted(s, m) = Extra(hole, s, m)
  <2>1. CASE s = r
    BY <1>4, <2>1 DEF Counted, Extra, Par
  <2>2. CASE s # r
    <3>1. Extra(hole, s, m) = 0
      BY <1>4, <2>2 DEF Extra
    <3>2. ASSUME Kid(tree, s, m) = at, m = Par(tree, at) PROVE FALSE
      <4>1. CASE at \in N
        BY <1>1, <1>4, <2>2, <3>2, <4>1, KidsDiffer
      <4>2. CASE at = Sentinel
        <5>1. bh[Sentinel] = 0 /\ Own(tree, m) \in Nat
          BY <1>1 DEF Coloured, Own
        <5>2. bh[m] = 0 + Extra(hole, s, m) + Own(tree, m)
          BY <1>1, <3>2, <4>2, <5>1 DEF Coloured
        <5>3. bh[m] = 0 + Extra(hole, r, m) + Own(tree, m)
          BY <1>1, <1>4, <3>2, <4>2, <5>1 DEF Coloured
        <5>4. Extra(hole, r, m) = 1
          BY <1>4, <3>2 DEF Extra
        <5> QED
          BY <3>1, <5>1, <5>2, <5>3, <5>4
      <4> QED
        BY <1>4, <4>1, <4>2
    <3> QED
      BY <3>1, <3>2 DEF Counted, Par
  <2> QED
    BY <2>1, <2>2
<1> QED
  BY <1>2, <1>3, <1>4 DEF Deleting

(* From the root all ways have as many.                                      *)
LEMMA BlacksAre ==
    ASSUME NEW N, NEW sub, NEW bh, NEW hole, Tree(tree, N, sub, bh, hole),
           (hole = {} /\ doing # "delete") \/ (doing = "delete" /\ Deleting(tree, at, N, hole))
    PROVE  \E b : Blacks = {b}
<1> DEFINE C == Cardinality(Name)
<1>t. Typed(tree) /\ Shape(tree, N, sub) /\ Coloured(tree, N, bh, hole)
  BY Kinds
<1>1. PICK w : /\ \A m \in Pointer : w[0][m] = {0}
               /\ \A i \in 1..C : \A m \in Pointer : w[i][m] = Through(w[i - 1], m)
               /\ Blacks = w[C][tree.root]
  BY <1>t, BlacksUnfold
<1>2. C \in Nat /\ Sentinel \notin Name /\ N \in SUBSET Name /\ IsFiniteSet(Name) /\ Sentinel \notin N
          /\ Cardinality(N) <= C
  BY <1>t, Sentinels, FS_CardinalityType, FS_Subset DEF Shape
<1>3. \A m \in N : /\ sub[m] \in SUBSET Name /\ IsFiniteSet(sub[m]) /\ m \in sub[m]
                   /\ Cardinality(sub[m]) \in Nat /\ Cardinality(sub[m]) # 0
  <2> TAKE m \in N
  <2>1. sub[m] \in SUBSET Name /\ IsFiniteSet(sub[m]) /\ m \in sub[m] /\ Cardinality(sub[m]) \in Nat
    BY <1>t, SubsAre, Sentinels
  <2> QED
    BY <2>1, FS_EmptySet
<1>5. N \subseteq Pointer /\ Sentinel \in Pointer
  BY <1>2 DEF Pointer, Place
<1>v. /\ bh[Sentinel] = 0 /\ \A m \in N : bh[m] \in Nat
      /\ \A m \in N : \A s \in Side : bh[m] = bh[Kid(tree, s, m)] + Extra(hole, s, m) + Own(tree, m)
  BY <1>t DEF Coloured
<1> DEFINE Good == {i \in Nat : i <= C => /\ w[i][Sentinel] = {0}
                                           /\ \A m \in N : Cardinality(sub[m]) <= i => w[i][m] = {bh[m]}}
<1>6. 0 \in Good
  <2>1. \A m \in N : ~(Cardinality(sub[m]) <= 0)
    BY <1>3
  <2> QED
    BY <1>1, <1>5, <2>1
<1>7. \A i \in Nat : i \in Good => i + 1 \in Good
  <2> SUFFICES ASSUME NEW i \in Nat, i \in Good, i + 1 <= C
               PROVE  /\ w[i + 1][Sentinel] = {0}
                      /\ \A m \in N : Cardinality(sub[m]) <= i + 1 => w[i + 1][m] = {bh[m]}
    OBVIOUS
  <2>1. i + 1 \in 1..C /\ (i + 1) - 1 = i /\ i <= C
    BY <1>2
  <2>2. \A m \in Pointer : w[i + 1][m] = Through(w[i], m)
    BY <1>1, <2>1
  <2>3. w[i + 1][Sentinel] = {0}
    BY <1>2, <1>5, <2>2 DEF Through
  <2>4. w[i][Sentinel] = {0} /\ \A m \in N : Cardinality(sub[m]) <= i => w[i][m] = {bh[m]}
    BY <2>1
  <2>5. ASSUME NEW m \in N, Cardinality(sub[m]) <= i + 1 PROVE w[i + 1][m] = {bh[m]}
    <3>1. ASSUME NEW s \in Side PROVE w[i][Kid(tree, s, m)] = {bh[Kid(tree, s, m)]}
      <4>1. CASE Kid(tree, s, m) = Sentinel
        BY <1>v, <2>4, <4>1
      <4>2. CASE Kid(tree, s, m) # Sentinel
        <5>1. PICK c \in N : c = Kid(tree, s, m)
          BY <1>t, <4>2, SubsAre
        <5>2. Cardinality(sub[c]) + 1 <= Cardinality(sub[m])
          BY <1>t, <5>1, Fewer
        <5>3. Cardinality(sub[c]) \in Nat /\ Cardinality(sub[m]) \in Nat
          BY <1>3
        <5>4. Cardinality(sub[c]) <= i
          BY <2>5, <5>2, <5>3
        <5> QED
          BY <2>4, <5>1, <5>4
      <4> QED
        BY <4>1, <4>2
    <3>2. \A s \in Side : Counted(s, m) = Extra(hole, s, m)
      BY CountedAtHole
    <3>3. \A s \in Side : {b + Counted(s, m) + Own(tree, m) : b \in w[i][Kid(tree, s, m)]} = {bh[m]}
      <4> TAKE s \in Side
      <4>1. bh[m] = bh[Kid(tree, s, m)] + Counted(s, m) + Own(tree, m)
        BY <1>v, <3>2
      <4> QED
        BY <3>1, <4>1
    <3>4. UNION {{b + Counted(s, m) + Own(tree, m) : b \in w[i][Kid(tree, s, m)]} : s \in Side} = {bh[m]}
      <4>1. PICK s \in Side : TRUE
        BY DEF Side
      <4> QED
        BY <3>3, <4>1
    <3>5. m \in Name /\ m \in Pointer
      BY <1>2, <1>5
    <3> QED
      BY <2>2, <3>4, <3>5 DEF Through
  <2> QED
    BY <2>3, <2>5
<1> HIDE DEF Good
<1>8. C \in Good
  BY <1>2, <1>6, <1>7, Induct
<1>9. w[C][Sentinel] = {0} /\ \A m \in N : Cardinality(sub[m]) <= C => w[C][m] = {bh[m]}
  BY <1>2, <1>8 DEF Good
<1>10. CASE N = {}
  <2>1. tree.root = Sentinel
    BY <1>t, <1>10 DEF Shape
  <2> QED
    BY <1>1, <1>9, <2>1
<1>11. CASE N # {}
  <2>1. tree.root \in N /\ sub[tree.root] = N
    BY <1>t, <1>11 DEF Shape
  <2> QED
    BY <1>1, <1>2, <1>9, <2>1
<1> QED
  BY <1>10, <1>11

(* What the inductive invariant says of the balance.                         *)
LEMMA TreeBalanced ==
    ASSUME NEW N, TreeIs(tree, doing, at, N)
    PROVE  Balanced
<1>1. PICK sub, bh, hole :
        /\ Tree(tree, N, sub, bh, hole)
        /\ \/ doing = "none" /\ hole = {} /\ Resting(tree, N)
           \/ doing = "insert" /\ hole = {} /\ Inserting(tree, at, N)
           \/ doing = "delete" /\ Deleting(tree, at, N, hole)
  BY DEF TreeIs
<1>v. (hole = {} /\ doing # "delete") \/ (doing = "delete" /\ Deleting(tree, at, N, hole))
  BY <1>1
<1>2. PICK b : Blacks = {b}
  BY <1>1, <1>v, BlacksAre
<1>3. Cardinality(Blacks) = 1
  BY <1>2, FS_Singleton
<1>4. tree.root \in tree.red => doing # "none"
  BY <1>1 DEF Resting
<1>5. Typed(tree) /\ tree.red \in SUBSET N /\ Shape(tree, N, sub)
  BY <1>1, Kinds
<1>6. ASSUME NEW e \in DOMAIN tree.child, e[2] \in tree.red, tree.child[e] \in tree.red
      PROVE  \/ doing = "insert" /\ at = tree.child[e]
             \/ doing = "delete" /\ at \in {tree.child[e], e[2]}
  <2>1. DOMAIN tree.child = Side \X Place
    BY <1>5 DEF Typed
  <2>2. PICK s \in Side, n \in Place : e = <<s, n>>
    BY <2>1
  <2>3. n \in N /\ n \in tree.red /\ tree.child[e] = Kid(tree, s, n) /\ Kid(tree, s, n) \in tree.red /\ e[2] = n
    BY <1>5, <1>6, <2>2 DEF Kid
  <2> QED
    BY <1>1, <2>3 DEF Reds, Resting, Inserting, Deleting
<1> QED
  BY <1>3, <1>4, <1>6 DEF Balanced

-----------------------------------------------------------------------------
(* ss_rbtree_next.                                                           *)
Rising(m) == IF m # tree.root /\ m # Kid(tree, "left", tree.parent[m]) THEN tree.parent[m] ELSE m

(* ss_rbtree_next as a chain of nodes.                                       *)
LEMMA SuccessorUnfolds ==
    ASSUME NEW N, NEW sub, Shape(tree, N, sub), NEW n \in N
    PROVE  \E step : /\ Chain(step, Cardinality(Name), n, [m \in N |-> Rising(m)])
                     /\ step[Cardinality(Name)] \in N
                     /\ Successor(n) = IF Kid(tree, "right", n) # Sentinel THEN Lowest(tree,
                            Kid(tree, "right", n))
                                       ELSE IF step[Cardinality(Name)] = tree.root THEN Null
                                            ELSE tree.parent[step[Cardinality(Name)]]
<1> DEFINE C == Cardinality(Name)
           g == [m \in N |-> Rising(m)]
<1>1. C \in Nat
  BY Sentinels
<1>2. \A m \in N : Rising(m) \in N
  BY Parents DEF Rising, Par
<1>3. g \in [N -> N]
  BY <1>2
<1>4. \A m \in N : g[m] = Rising(m)
  OBVIOUS
<1> HIDE DEF g, C
<1>5. PICK f \in [0..C -> N] : Iterates(f, C, n, g)
  BY <1>1, <1>3, Iterated
<1> DEFINE Is(h) == h = [d \in 0..C |-> IF d = 0 THEN n ELSE Rising(h[d - 1])]
<1>6. Is(f)
  <2>1. \A i \in 0..C : i # 0 => f[i - 1] \in N
    BY <1>1
  <2>2. \A i \in 0..C : (IF i = 0 THEN n ELSE g[f[i - 1]]) = (IF i = 0 THEN n ELSE Rising(f[i - 1]))
    BY <1>4, <2>1
  <2> QED
    BY <1>5, <2>2 DEF Iterates
<1> DEFINE step == CHOOSE h : Is(h)
<1>7. Is(step)
  BY <1>6
<1>8. Successor(n) = IF Kid(tree, "right", n) # Sentinel THEN Lowest(tree, Kid(tree, "right", n))
                     ELSE IF step[C] = tree.root THEN Null ELSE tree.parent[step[C]]
  BY DEF Successor, Rising, C
<1> HIDE DEF step
<1>9. step[0] = n /\ \A i \in 1..C : step[i] = Rising(step[i - 1])
  BY <1>1, <1>7
<1>10. step[0] \in N /\ \A i \in 1..C : step[i - 1] \in N => step[i] \in N
  BY <1>2, <1>9
<1>11. \A i \in 0..C : step[i] \in N
  BY <1>1, <1>10, StaysIn
<1>12. \A i \in 1..C : step[i] = g[step[i - 1]]
  <2> TAKE i \in 1..C
  <2>1. i - 1 \in 0..C
    BY <1>1
  <2> QED
    BY <1>4, <1>9, <1>11, <2>1
<1>13. Chain(step, C, n, g)
  BY <1>9, <1>12 DEF Chain
<1>14. step[C] \in N
  BY <1>1, <1>11
<1> QED
  BY <1>8, <1>13, <1>14 DEF C, g

(* The climb ends below the next node on the way up, or at the root.         *)
Stopped(m) == m = tree.root \/ m = Kid(tree, "left", Par(tree, m))

LastBelow(sub, n, m) == n \in sub[m] /\ \A z \in sub[m] : z = n \/ Aside("left", z, n)

(* One step up from a right child.                                           *)
LEMMA RisingKeeps ==
    ASSUME NEW N, NEW sub, Shape(tree, N, sub), NEW n \in N, NEW m \in N, LastBelow(sub, n, m), ~Stopped(m)
    PROVE  /\ Rising(m) \in N /\ LastBelow(sub, n, Rising(m))
           /\ Cardinality(sub[m]) + 1 <= Cardinality(sub[Rising(m)])
<1>1. "left" \in Side /\ "right" \in Side /\ Other("left") = "right" /\ Other("right") = "left"
      /\ \A r \in Side : r = "left" \/ r = "right"
  BY DEF Side, Other
<1>2. PICK p \in N : p = Par(tree, m) /\ Rising(m) = p /\ Kid(tree, SideOf(tree, m), p) = m
               /\ SideOf(tree, m) \in Side
  BY Parents DEF Rising, Stopped, Par
<1>3. Kid(tree, "right", p) = m
  BY <1>1, <1>2 DEF Stopped
<1>4. sub[m] = Part(sub, "right", p) /\ sub[p] \in SUBSET Name /\ p \in Name /\ N \in SUBSET Name
          /\ p \in sub[p]
  BY <1>1, <1>3, SubsAre
<1>5. Cardinality(sub[m]) + 1 <= Cardinality(sub[p])
  BY <1>1, <1>3, Fewer
<1>6. n \in sub[p] /\ Aside("left", p, n) /\ n \in Name
  <2>1. n \in sub[p] /\ Aside("right", n, p) /\ n \in Name
    BY <1>4 DEF LastBelow, Part
  <2> QED
    BY <1>1, <1>4, <2>1, AsideIs
<1>7. ASSUME NEW z \in sub[p], z # n PROVE Aside("left", z, n)
  <2>1. z \in Name
    BY <1>4
  <2>2. CASE z = p
    BY <1>6, <2>2
  <2>3. CASE Aside("right", z, p)
    BY <1>4, <1>7, <2>3 DEF LastBelow, Part
  <2>4. CASE Aside("left", z, p)
    BY <1>1, <1>4, <1>6, <2>1, <2>4, AsideTrans
  <2> QED
    BY <1>1, <1>4, <2>1, <2>2, <2>3, <2>4, AsideIs
<1> QED
  BY <1>2, <1>5, <1>6, <1>7 DEF LastBelow

LEMMA ClimbEnds ==
    ASSUME NEW N, NEW sub, Shape(tree, N, sub), NEW n \in N, Kid(tree, "right", n) = Sentinel,
           NEW step, Chain(step, Cardinality(Name), n, [m \in N |-> Rising(m)])
    PROVE  \E top \in N : top = step[Cardinality(Name)] /\ LastBelow(sub, n, top) /\ Stopped(top)
<1> DEFINE C == Cardinality(Name)
           g == [m \in N |-> Rising(m)]
           Close(m, i) == LastBelow(sub, n, m) /\ (Stopped(m) \/ i + 1 <= Cardinality(sub[m]))
<1>1. C \in Nat /\ IsFiniteSet(Name) /\ N \in SUBSET Name
  BY Sentinels, TreeAssumption DEF Shape
<1>2. "left" \in Side /\ "right" \in Side /\ Other("left") = "right" /\ Other("right") = "left"
  BY DEF Side, Other
<1>3. \A m \in N : /\ sub[m] \in SUBSET Name /\ IsFiniteSet(sub[m]) /\ m \in sub[m]
                   /\ Cardinality(sub[m]) \in Nat /\ Cardinality(sub[m]) # 0 /\ Cardinality(sub[m]) <= C
  <2> TAKE m \in N
  <2>1. sub[m] \in SUBSET Name /\ IsFiniteSet(sub[m]) /\ m \in sub[m] /\ Cardinality(sub[m]) \in Nat
    BY SubsAre, Sentinels
  <2> QED
    BY <1>1, <2>1, FS_EmptySet, FS_Subset
<1>4. Close(n, 0)
  <2>1. Part(sub, "right", n) = {}
    BY <1>2, SubsAre
  <2>2. \A z \in sub[n] : z = n \/ Aside("left", z, n)
    <3> TAKE z \in sub[n]
    <3>1. z \in Name /\ n \in Name
      BY <1>1, <1>3
    <3>2. ~Aside("right", z, n)
      BY <2>1 DEF Part
    <3> QED
      BY <1>2, <3>1, <3>2, AsideIs
  <2>3. 0 + 1 <= Cardinality(sub[n])
    BY <1>3
  <2> QED
    BY <1>3, <2>2, <2>3 DEF LastBelow
<1>5. ASSUME NEW m \in N, NEW i \in Nat, Close(m, i) PROVE Rising(m) \in N /\ Close(Rising(m), i + 1)
  <2>1. CASE Stopped(m)
    <3>1. Rising(m) = m
      BY <2>1 DEF Stopped, Rising, Par
    <3> QED
      BY <1>5, <2>1, <3>1
  <2>2. CASE ~Stopped(m)
    <3>1. PICK p \in N : p = Rising(m) /\ LastBelow(sub, n, p) /\ Cardinality(sub[m]) + 1 <= Cardinality(sub[p])
      BY <1>5, <2>2, RisingKeeps
    <3>2. Cardinality(sub[m]) \in Nat /\ Cardinality(sub[p]) \in Nat /\ i + 1 <= Cardinality(sub[m])
      BY <1>3, <1>5, <2>2
    <3>3. (i + 1) + 1 <= Cardinality(sub[p])
      BY <3>1, <3>2
    <3> QED
      BY <3>1, <3>3
  <2> QED
    BY <2>1, <2>2
<1> HIDE DEF Close
<1> DEFINE Good == {i \in Nat : i <= C => step[i] \in N /\ Close(step[i], i)}
<1>6. 0 \in Good
  BY <1>4 DEF Chain
<1>7. \A i \in Nat : i \in Good => i + 1 \in Good
  <2> SUFFICES ASSUME NEW i \in Nat, i \in Good, i + 1 <= C
               PROVE  step[i + 1] \in N /\ Close(step[i + 1], i + 1)
    OBVIOUS
  <2>1. step[i] \in N /\ Close(step[i], i) /\ i + 1 \in 1..C /\ (i + 1) - 1 = i
    BY <1>1
  <2>2. PICK m \in N : m = step[i]
    BY <2>1
  <2>3. step[i + 1] = Rising(m)
    BY <2>1, <2>2 DEF Chain
  <2> QED
    BY <1>5, <2>1, <2>2, <2>3
<1> HIDE DEF Good
<1>8. C \in Good
  BY <1>1, <1>6, <1>7, Induct
<1>9. PICK top \in N : top = step[C] /\ Close(top, C)
  BY <1>1, <1>8 DEF Good
<1>10. Stopped(top)
  <2> SUFFICES ASSUME ~Stopped(top) PROVE FALSE
    OBVIOUS
  <2>1. C + 1 <= Cardinality(sub[top])
    BY <1>9 DEF Close
  <2> QED
    BY <1>1, <1>3, <2>1
<1> QED
  BY <1>9, <1>10 DEF Close

(* ss_rbtree_next gives the next node or, after the last, none.              *)
LEMMA SuccessorIs ==
    ASSUME NEW N, NEW sub, Shape(tree, N, sub), NEW n \in N
    PROVE  \/ Successor(n) = Null /\ \A z \in N : ~Aside("left", n, z)
           \/ Follows(N, n, Successor(n))
<1> DEFINE C == Cardinality(Name)
<1>1. PICK step : /\ Chain(step, C, n, [m \in N |-> Rising(m)])
                  /\ step[C] \in N
                  /\ Successor(n) = IF Kid(tree, "right", n) # Sentinel THEN Lowest(tree, Kid(tree, "right", n))
                                    ELSE IF step[C] = tree.root THEN Null ELSE tree.parent[step[C]]
  BY SuccessorUnfolds
<1>2. "left" \in Side /\ "right" \in Side /\ Other("left") = "right" /\ Other("right") = "left"
  BY DEF Side, Other
<1>3. \A m \in N : sub[m] \in SUBSET Name /\ sub[m] \in SUBSET N /\ m \in sub[m] /\ m \in Name
  BY SubsAre
<1>4. CASE Kid(tree, "right", n) # Sentinel
  <2>1. PICK y \in N : y = Kid(tree, "right", n)
    BY <1>2, <1>4, SubsAre
  <2>2. PICK x : x = Lowest(tree, y)
    OBVIOUS
  <2>3. Follows(N, n, x)
    BY <2>1, <2>2, LowestFollows
  <2> QED
    BY <1>1, <1>4, <2>1, <2>2, <2>3
<1>5. CASE Kid(tree, "right", n) = Sentinel
  <2>1. PICK top \in N : top = step[C] /\ LastBelow(sub, n, top) /\ Stopped(top)
    BY <1>1, <1>5, ClimbEnds
  <2>2. CASE top = tree.root
    <3>1. sub[top] = N
      BY <2>2, SubsAre
    <3>2. ASSUME NEW z \in N, Aside("left", n, z) PROVE FALSE
      <4>1. z = n \/ Aside("left", z, n)
        BY <2>1, <3>1 DEF LastBelow
      <4>2. z # n /\ Aside("right", z, n) /\ ~Aside("right", n, z)
        BY <1>2, <1>3, <3>2, AsideIs
      <4> QED
        BY <1>2, <1>3, <4>1, <4>2, AsideIs
    <3> QED
      BY <1>1, <1>5, <2>1, <2>2, <3>2
  <2>3. CASE top # tree.root
    <3>1. PICK p \in N : p = Par(tree, top)
      BY <2>3, Parents
    <3>2. Kid(tree, "left", p) = top
      BY <2>1, <2>3, <3>1 DEF Stopped
    <3>3. sub[top] = Part(sub, "left", p)
      BY <1>2, <3>2, SubsAre
    <3>4. n \in sub[p] /\ Aside("left", n, p)
      BY <2>1, <3>3 DEF LastBelow, Part
    <3>5. ASSUME NEW z \in N, Aside("left", n, z), Aside("left", z, p) PROVE FALSE
      <4>1. z \in sub[p]
        BY <1>2, <1>3, <3>4, <3>5, Convex
      <4>2. z \in sub[top]
        BY <3>3, <3>5, <4>1 DEF Part
      <4>3. z = n \/ Aside("left", z, n)
        BY <2>1, <4>2 DEF LastBelow
      <4>4. z # n /\ Aside("right", z, n) /\ ~Aside("right", n, z)
        BY <1>2, <1>3, <3>5, AsideIs
      <4> QED
        BY <1>2, <1>3, <4>3, <4>4, AsideIs
    <3>6. Successor(n) = p
      BY <1>1, <1>5, <2>1, <2>3, <3>1 DEF Par
    <3> QED
      BY <3>4, <3>5, <3>6 DEF Follows
  <2> QED
    BY <2>2, <2>3
<1> QED
  BY <1>4, <1>5

-----------------------------------------------------------------------------
(* What the inductive invariant says of the order.                           *)
LEMMA ItIsInOrder ==
    ASSUME NEW N, TreeIs(tree, doing, at, N)
    PROVE  NextIsInOrder
<1>1. PICK sub, bh, hole : Tree(tree, N, sub, bh, hole)
  BY DEF TreeIs
<1>2. Typed(tree) /\ Shape(tree, N, sub) /\ N \in SUBSET Name
  BY <1>1, Kinds
<1>3. PICK v : v = Below(tree.root)
  OBVIOUS
<1>4. InOrder(v, N)
  BY <1>2, <1>3, BelowIs
<1>5. v \in Seq(Name) /\ DOMAIN v = 1..Len(v) /\ Len(v) \in Nat
  <2>1. v \in Seq(Name)
    BY <1>4 DEF InOrder
  <2> QED
    BY <2>1, LenProperties
<1>6. PICK l \in Nat : l = Len(v)
  BY <1>5
<1>7. "left" \in Side /\ "right" \in Side /\ Other("left") = "right" /\ Other("right") = "left"
  BY DEF Side, Other
<1>8. /\ \A i \in 1..l : v[i] \in N /\ v[i] \in Name
      /\ \A x \in N : \E i \in 1..l : v[i] = x
      /\ \A i, j \in 1..l : i < j => Aside("left", v[i], v[j])
  BY <1>2, <1>4, <1>6 DEF InOrder
<1>9. ASSUME NEW i \in 1..l, NEW j \in 1..l, Aside("left", v[i], v[j]) PROVE i < j
  <2> SUFFICES ASSUME ~(i < j) PROVE FALSE
    OBVIOUS
  <2>1. v[i] # v[j] /\ ~Aside("left", v[j], v[i])
    <3>1. Aside("right", v[j], v[i]) /\ v[i] # v[j] /\ ~Aside("right", v[i], v[j])
      BY <1>7, <1>8, <1>9, AsideIs
    <3> QED
      BY <1>7, <1>8, <3>1, AsideIs
  <2>2. i # j
    BY <2>1
  <2>3. j < i
    BY <2>2
  <2> QED
    BY <1>8, <2>1, <2>3
<1>10. ASSUME NEW k \in 1..l
       PROVE  IF k = l THEN Successor(v[k]) = Null
              ELSE Precedes(v[k], v[k + 1]) /\ Successor(v[k]) = v[k + 1]
  <2>1. PICK n \in N : n = v[k]
    BY <1>8
  <2>2. \/ Successor(n) = Null /\ \A z \in N : ~Aside("left", n, z)
        \/ Follows(N, n, Successor(n))
    BY <1>2, SuccessorIs
  <2>3. CASE k = l
    <3>1. ASSUME NEW x \in N, Aside("left", n, x) PROVE FALSE
      <4>1. PICK j \in 1..l : v[j] = x
        BY <1>8
      <4>2. k < j
        BY <1>9, <2>1, <3>1, <4>1
      <4> QED
        BY <1>6, <2>3, <4>2
    <3>2. ~Follows(N, n, Successor(n))
      BY <3>1 DEF Follows
    <3> QED
      BY <2>1, <2>2, <2>3, <3>2
  <2>4. CASE k # l
    <3>1. k + 1 \in 1..l /\ k < k + 1
      BY <1>6, <2>4
    <3>2. PICK y \in N : y = v[k + 1]
      BY <1>8, <3>1
    <3>3. Aside("left", n, y)
      BY <1>8, <2>1, <3>1, <3>2
    <3>4. PICK x \in N : x = Successor(n) /\ Aside("left", n, x)
                   /\ ~(Aside("left", n, y) /\ Aside("left", y, x))
      BY <2>2, <3>2, <3>3 DEF Follows
    <3>5. PICK j \in 1..l : v[j] = x
      BY <1>8
    <3>6. k < j
      BY <1>9, <2>1, <3>4, <3>5
    <3>7. ~(k + 1 < j)
      BY <1>8, <3>1, <3>2, <3>3, <3>4, <3>5
    <3>8. j = k + 1
      BY <3>6, <3>7
    <3>9. Precedes(n, y)
      BY <3>3 DEF Aside, SideFor
    <3> QED
      BY <2>1, <2>4, <3>2, <3>4, <3>5, <3>8, <3>9
  <2> QED
    BY <2>3, <2>4
<1> QED
  BY <1>3, <1>5, <1>6, <1>10 DEF NextIsInOrder

-----------------------------------------------------------------------------
(* The calls.                                                                *)
LEMMA EmptyIs == TreeIs(EmptyTree, "none", Null, {})
<1> DEFINE sub == [n \in {} |-> {}]
           bh == [m \in {Sentinel} |-> 0]
           t == EmptyTree
<1>1. Typed(t) /\ t.root = Sentinel /\ t.red = {}
  BY DEF Typed, EmptyTree, Place, Pointer
<1> HIDE DEF t
<1>2. Shape(t, {}, sub)
  BY <1>1 DEF Shape
<1>3. Coloured(t, {}, bh, {})
  BY <1>1 DEF Coloured
<1>4. Resting(t, {})
  BY <1>1 DEF Resting, Reds
<1>5. Tree(t, {}, sub, bh, {})
  BY <1>1, <1>2, <1>3 DEF Tree
<1> HIDE DEF sub, bh
<1> QED
  BY <1>4, <1>5 DEF TreeIs, t

(* Between calls the local of the last loop does not matter.                 *)
LEMMA AtRest ==
    ASSUME NEW t, NEW a, NEW b, NEW N, TreeIs(t, "none", a, N)
    PROVE  TreeIs(t, "none", b, N)
<1>1. PICK sub, bh, hole : Tree(t, N, sub, bh, hole) /\ hole = {} /\ Resting(t, N)
  BY DEF TreeIs
<1> QED
  BY <1>1 DEF TreeIs

(* The names that are found are those of the tree.                           *)
LEMMA TreeNames ==
    ASSUME NEW N, TreeIs(tree, doing, at, N)
    PROVE  N \in SUBSET Name /\ \A n \in Name : IsFound(n) <=> n \in N
<1>1. PICK sub, bh, hole : Tree(tree, N, sub, bh, hole)
  BY DEF TreeIs
<1>2. Shape(tree, N, sub) /\ N \in SUBSET Name
  BY <1>1, Kinds
<1> QED
  BY <1>2, FoundIsThere

(* What each step does to the names and their data.                          *)
Steps(N, M) ==
    \/ /\ N = M /\ UNCHANGED datum
       /\ \/ UNCHANGED answer
          \/ \E n \in Name : answer' = IF n \in N THEN datum[n] ELSE Missing
    \/ \E n \in Name : /\ M = N \ {n} /\ answer' = IF n \in N THEN datum[n] ELSE Missing
                       /\ datum' = [datum EXCEPT ![n] = Missing]
    \/ \E n \in Name : /\ M = N \cup {n} /\ answer' = IF n \in N THEN datum[n] ELSE Missing
                       /\ \E d \in Datum : datum' = [datum EXCEPT ![n] = d]
    \/ M = {} /\ datum' = [n \in Name |-> Missing] /\ UNCHANGED answer

MapHas(N) == TreeIs(tree, doing, at, N) /\ datum = [n \in Name |-> datum[n]]

(* Each step leaves a tree of the names that it should.                      *)
LEMMA StepsAre ==
    ASSUME NEW N, MapHas(N), [MapNext]_mapVars
    PROVE  \E M : MapHas(M)' /\ Steps(N, M)
<1>1. N \in SUBSET Name /\ \A n \in Name : IsFound(n) <=> n \in N
  BY TreeNames DEF MapHas
<1>2. TreeIs(tree, doing, at, N) /\ datum = [n \in Name |-> datum[n]]
  BY DEF MapHas
<1>d. \A n, d : datum' = [datum EXCEPT ![n] = d] => datum' = [m \in Name |-> datum'[m]]
  BY <1>2
<1>3. ASSUME NEW n \in Name, Get(n) PROVE MapHas(N)' /\ Steps(N, N)
  BY <1>1, <1>2, <1>3 DEF Get, Given, treeVars, MapHas, Steps
<1>4. ASSUME NEW n \in Name, NEW d \in Datum, Put(n, d) PROVE MapHas(N \cup {n})' /\ Steps(N, N \cup {n})
  <2>1. Steps(N, N \cup {n})
    BY <1>1, <1>4 DEF Put, Given, Steps
  <2>2. CASE IsFound(n)
    <3>1. N \cup {n} = N
      BY <1>1, <2>2
    <3>2. tree' = tree /\ doing' = doing /\ at' = at
      BY <1>4, <2>2 DEF Put, treeVars
    <3> QED
      BY <1>2, <1>4, <1>d, <2>1, <3>1, <3>2 DEF MapHas, Put
  <2>3. CASE ~IsFound(n)
    <3>1. TreeIs(tree', doing', at', N \cup {n})
      BY <1>2, <1>4, <2>3, LinkKeeps DEF Put
    <3> QED
      BY <1>4, <1>d, <2>1, <3>1 DEF MapHas, Put
  <2> QED
    BY <2>2, <2>3
<1>5. ASSUME NEW n \in Name, Erase(n) PROVE \E M : MapHas(M)' /\ Steps(N, M)
  <2>1. CASE IsFound(n)
    <3>1. TreeIs(tree', doing', at', N \ {n})
      BY <1>1, <1>2, <1>5, <2>1, UnlinkKeeps DEF Erase
    <3>2. MapHas(N \ {n})'
      BY <1>5, <1>d, <2>1, <3>1 DEF MapHas, Erase
    <3>3. Steps(N, N \ {n})
      BY <1>1, <1>5, <2>1 DEF Erase, Given, Steps
    <3> QED
      BY <3>2, <3>3
  <2>2. CASE ~IsFound(n)
    <3>1. MapHas(N)' /\ Steps(N, N)
      BY <1>1, <1>2, <1>5, <2>2 DEF Erase, Given, treeVars, MapHas, Steps
    <3> QED
      BY <3>1
  <2> QED
    BY <2>1, <2>2
<1>6. CASE Clear
  <2>1. TreeIs(tree', doing', at', {})
    BY <1>6, EmptyIs, AtRest DEF Clear
  <2>2. MapHas({})' /\ Steps(N, {})
    BY <1>6, <2>1 DEF Clear, MapHas, Steps
  <2> QED
    BY <2>2
<1>7. CASE Rebalance /\ UNCHANGED <<datum, answer>>
  <2>1. TreeIs(tree', doing', at', N)
    BY <1>2, <1>7, RebalanceKeeps
  <2>2. MapHas(N)' /\ Steps(N, N)
    BY <1>2, <1>7, <2>1 DEF MapHas, Steps
  <2> QED
    BY <2>2
<1>8. CASE UNCHANGED mapVars
  <2>1. MapHas(N)' /\ Steps(N, N)
    BY <1>2, <1>8 DEF mapVars, treeVars, MapHas, Steps
  <2> QED
    BY <2>1
<1> QED
  BY <1>3, <1>4, <1>5, <1>6, <1>7, <1>8 DEF MapNext

(* There is a set of names in the map, shaped and coloured as a red-black    *)
(* tree but for what the running loop is there for.                          *)
MapInv == \E N : MapHas(N)

(* After every call, and every turn of a loop in the middle of one, the      *)
(* nodes of the map are a tree in the order of their names, shaped and       *)
(* coloured as a red-black tree but for the one exception of the running     *)
(* loop.                                                                     *)
THEOREM MapInvHolds == MapSpec => []MapInv
<1>1. MapInit => MapInv
  <2> SUFFICES ASSUME MapInit PROVE MapHas({})
    BY DEF MapInv
  <2> QED
    BY EmptyIs DEF MapInit, TreeInit, MapHas
<1>2. MapInv /\ [MapNext]_mapVars => MapInv'
  BY StepsAre DEF MapInv
<1> QED
  BY <1>1, <1>2, PTL DEF MapSpec

(* ss_rbtree_insert and ss_rbtree_delete, whatever is put in and erased in   *)
(* whatever order: when they return the root is black, no red node has a red *)
(* parent and all ways down have the same number of black nodes, and in      *)
(* between there is the one exception that the loop is there for.            *)
THEOREM StaysBalanced == MapSpec => []Balanced
<1>1. MapInv => Balanced
  BY TreeBalanced DEF MapInv, MapHas
<1> QED
  BY <1>1, MapInvHolds, PTL

(* ss_rbtree_next, as ss_strmap_foreach calls it, goes through the nodes in  *)
(* the order of their names and ends after the last one, also if the parent  *)
(* of the root is a node that was freed.                                     *)
THEOREM WalksInOrder == MapSpec => []NextIsInOrder
<1>1. MapInv => NextIsInOrder
  BY ItIsInOrder DEF MapInv, MapHas
<1> QED
  BY <1>1, MapInvHolds, PTL

Visited == Range(Below(tree.root))
VisitedAre == \A N : TreeIs(tree, doing, at, N) => Visited = N

(* A walk visits the nodes of the tree and no other.                         *)
LEMMA VisitedIs == VisitedAre
<1> SUFFICES ASSUME NEW N, TreeIs(tree, doing, at, N) PROVE Visited = N
  BY DEF VisitedAre
<1>1. PICK sub, bh, hole : Tree(tree, N, sub, bh, hole)
  BY DEF TreeIs
<1>2. PICK v : v = Below(tree.root)
  OBVIOUS
<1>3. InOrder(v, N)
  BY <1>1, <1>2, Kinds, BelowIs
<1>4. v \in Seq(Name)
  BY <1>3 DEF InOrder
<1>5. DOMAIN v = 1..Len(v)
  BY <1>4, LenProperties
<1>6. \A x : x \in Range(v) <=> x \in N
  BY <1>3, <1>5 DEF InOrder, Range
<1>7. Range(v) = N
  BY <1>6
<1> QED
  BY <1>2, <1>7 DEF Visited

(* The string map is a dictionary for any finite set of names, whichever of  *)
(* them share hashes, and any data: what it gives out for a name is what was *)
(* put in last and not erased since, and rebalancing changes nothing in it.  *)
THEOREM IsADictionary == MapSpec => ImplementsDictionary
<1>1. VisitedAre
  BY VisitedIs
<1>2. ASSUME MapInit, VisitedAre PROVE Contents!Init
  <2>1. TreeIs(tree, doing, at, {})
    BY <1>2, EmptyIs DEF MapInit, TreeInit
  <2>2. Visited = {}
    BY <1>2, <2>1 DEF VisitedAre
  <2>3. [n \in Range(Below(tree.root)) |-> datum[n]] = [n \in {} |-> Missing]
    <3>1. [n \in Visited |-> datum[n]] = [n \in {} |-> Missing]
      BY <2>2
    <3> QED
      BY <3>1 DEF Visited
  <2> QED
    BY <1>2, <2>3 DEF Contents!Init, MapInit
<1>3. ASSUME MapInv, VisitedAre, VisitedAre', [MapNext]_mapVars
      PROVE  [Contents!Next]_Contents!vars
  <2>1. PICK N : MapHas(N)
    BY <1>3 DEF MapInv
  <2>2. PICK M : MapHas(M)' /\ Steps(N, M)
    BY <1>3, <2>1, StepsAre
  <2>3. Visited = N /\ Visited' = M
    BY <1>3, <2>1, <2>2 DEF VisitedAre, MapHas
  <2>4. PICK f : f = [n \in N |-> datum[n]]
    OBVIOUS
  <2>5. PICK g : g = [n \in M |-> datum'[n]]
    OBVIOUS
  <2>6. /\ [n \in Range(Below(tree.root)) |-> datum[n]] = f
        /\ [n \in Range(Below(tree.root)) |-> datum[n]]' = g
    <3>1. [n \in Visited |-> datum[n]] = f /\ [n \in Visited |-> datum[n]]' = g
      BY <2>3, <2>4, <2>5
    <3> QED
      BY <3>1 DEF Visited
  <2>7. N \in SUBSET Name /\ datum = [n \in Name |-> datum[n]]
    BY <2>1, TreeNames DEF MapHas
  <2>8. DOMAIN f = N /\ \A n : (IF n \in N THEN datum[n] ELSE Missing) = (IF n \in DOMAIN f THEN f[n]
            ELSE Missing)
    BY <2>4
  <2>9. \/ g = f /\ (answer' = answer \/ \E n \in Name : answer' = IF n \in DOMAIN f THEN f[n] ELSE Missing)
        \/ \E n \in Name : /\ answer' = IF n \in DOMAIN f THEN f[n] ELSE Missing
                           /\ g = [m \in DOMAIN f \ {n} |-> f[m]]
        \/ \E n \in Name : /\ answer' = IF n \in DOMAIN f THEN f[n] ELSE Missing
                           /\ \E d \in Datum : g = [m \in DOMAIN f \cup {n} |-> IF m = n THEN d ELSE f[m]]
        \/ g = [n \in {} |-> Missing] /\ answer' = answer
    <3>1. CASE /\ N = M /\ UNCHANGED datum
               /\ \/ UNCHANGED answer
                  \/ \E n \in Name : answer' = IF n \in N THEN datum[n] ELSE Missing
      <4>1. g = f
        BY <2>4, <2>5, <3>1
      <4> QED
        BY <2>8, <3>1, <4>1
    <3>2. ASSUME NEW n \in Name, M = N \ {n}, answer' = (IF n \in N THEN datum[n] ELSE Missing),
                 datum' = [datum EXCEPT ![n] = Missing]
          PROVE <2>9!2
      <4>1. \A m \in M : datum'[m] = f[m]
        BY <2>4, <2>7, <3>2
      <4>2. g = [m \in DOMAIN f \ {n} |-> f[m]]
        BY <2>5, <2>8, <3>2, <4>1
      <4> QED
        BY <2>8, <3>2, <4>2
    <3>3. ASSUME NEW n \in Name, M = N \cup {n}, answer' = (IF n \in N THEN datum[n] ELSE Missing),
                 NEW d \in Datum, datum' = [datum EXCEPT ![n] = d]
          PROVE <2>9!3
      <4>1. \A m \in M : datum'[m] = IF m = n THEN d ELSE f[m]
        BY <2>4, <2>7, <3>3
      <4>2. g = [m \in DOMAIN f \cup {n} |-> IF m = n THEN d ELSE f[m]]
        BY <2>5, <2>8, <3>3, <4>1
      <4> QED
        BY <2>8, <3>3, <4>2
    <3>4. CASE M = {} /\ datum' = [n \in Name |-> Missing] /\ UNCHANGED answer
      <4>1. g = [n \in {} |-> Missing]
        BY <2>5, <3>4
      <4> QED
        BY <3>4, <4>1
    <3> QED
      BY <2>2, <3>1, <3>2, <3>3, <3>4 DEF Steps
  <2> QED
    BY <2>6, <2>9 DEF Contents!Next, Contents!Look, Contents!Set, Contents!Drop, Contents!Forget,
        Contents!Found, Contents!vars
<1> QED
  BY <1>1, <1>2, <1>3, MapInvHolds, PTL DEF MapSpec, ImplementsDictionary, Contents!Spec
=============================================================================
