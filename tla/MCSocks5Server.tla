--------------------------- MODULE MCSocks5Server ---------------------------
(* Socks5Server with the hellos that take its branches. *)
EXTENDS Socks5Server, TLC

(* Accepted with a request right behind it, accepted at the second method,   *)
(* and refused for each reason: another version, no method in common, none.  *)
SomeHellos == {<<5, 1, 0, 5>>, <<5, 2, 2, 0>>, <<5, 1, 1>>, <<4, 1>>, <<5, 0>>}

(* Accepted or refused, as the segments have it. *)
OneHello == {<<5, 2, 1, 0>>}

AnyMethod == {AUTH_NONE, AUTH_PLAIN}
OnlyNone == {AUTH_NONE}
OnlyPlain == {AUTH_PLAIN}

(* Blocks, descriptors and clients are interchangeable. *)
Symmetry == Permutations(Slot) \cup Permutations(Fd) \cup Permutations(Client)
=============================================================================
