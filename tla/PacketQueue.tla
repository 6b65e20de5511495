----------------------------- MODULE PacketQueue -----------------------------
(* What the packet buffer promises: packets come out whole, each once and in *)
(* the order in which they went in, and at most Limit are held.              *)
EXTENDS Naturals, Sequences

CONSTANTS Packet, Limit, Nothing

VARIABLES
    queue,   \* the packets held
    out      \* the packet that was taken out last

vars == <<queue, out>>

Init == queue = << >> /\ out = Nothing

Put(p) ==
    /\ Len(queue) < Limit
    /\ queue' = Append(queue, p)
    /\ UNCHANGED out

Take ==
    /\ queue # << >>
    /\ out' = Head(queue)
    /\ queue' = Tail(queue)

Next == Take \/ \E p \in Packet : Put(p)

Spec == Init /\ [][Next]_vars
=============================================================================
