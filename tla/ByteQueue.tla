------------------------------ MODULE ByteQueue ------------------------------
(***************************************************************************)
(* What a ring buffer promises its users, with no memory and no offsets: a *)
(* queue of bytes that are taken in at the tail and handed out at the      *)
(* head, in order and each at most once.  Bytes are named by the position  *)
(* they have in the stream offered to the buffer, 1, 2, 3, ...: fresh is   *)
(* how many have been offered so far.  got is what the last step copied    *)
(* out to the user.                                                        *)
(***************************************************************************)
EXTENDS Integers, Sequences

CONSTANT Capacity

VARIABLES queue, fresh, got

vars == <<queue, fresh, got>>

Init ==
    /\ queue = << >>
    /\ fresh = 0
    /\ got = << >>

(* The next n bytes offered to the buffer. *)
Block(n) == [i \in 1..n |-> fresh + i]

(* Bytes come from a socket: all that were taken from it are queued. *)
Receive ==
    \E n \in 1..(Capacity - Len(queue)):
        /\ queue' = queue \o Block(n)
        /\ fresh' = fresh + n
        /\ got' = << >>

(* A block is written by the program; some prefix of it is queued. *)
Write ==
    \E n \in 1..(Capacity - Len(queue)) : \E kept \in 0..n :
        /\ queue' = queue \o SubSeq(Block(n), 1, kept)
        /\ fresh' = fresh + n
        /\ got' = << >>

(* The n oldest bytes leave the queue, copied to the user or skipped. *)
Deliver ==
    \E n \in 0..Len(queue):
        /\ got' \in {SubSeq(queue, 1, n), << >>}
        /\ queue' = SubSeq(queue, n + 1, Len(queue))
        /\ UNCHANGED fresh

(* Bytes are copied out of the queue and stay in it. *)
Peek ==
    \E from \in 0..Len(queue) : \E n \in 0..(Len(queue) - from) :
        /\ got' = SubSeq(queue, from + 1, from + n)
        /\ UNCHANGED <<queue, fresh>>

Clear ==
    /\ queue' = << >>
    /\ got' = << >>
    /\ UNCHANGED fresh

Next == Receive \/ Write \/ Deliver \/ Peek \/ Clear

Spec == Init /\ [][Next]_vars
=============================================================================
