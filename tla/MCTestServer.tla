---------------------------- MODULE MCTestServer ----------------------------
(* A client that sends lines and one that types, with one name to look up.   *)
EXTENDS TestServer

CONSTANTS Host, LongName, Liner, Writer

Echo == <<"echo", "a">>
DnsHost == <<"dns host">>
DnsLong == <<"dns long">>
Dns == <<"dns">>
QuitLine == <<"quit">>
Spaces == <<" ">>

(* A cut leaves "echo" of a line with "echo a".                              *)
MCCommand ==
    [text \in {<<"echo">>, Echo, DnsHost, DnsLong, Dns, QuitLine, Spaces} |->
       CASE text \in {<<"echo">>, Echo} -> [do |-> "echo", name |-> None]
         [] text = DnsHost              -> [do |-> "dns", name |-> Host]
         [] text = DnsLong              -> [do |-> "dns", name |-> LongName]
         [] text = Dns                  -> [do |-> "dns", name |-> None]
         [] text = QuitLine             -> [do |-> "quit", name |-> None]
         [] text = Spaces               -> [do |-> "blank", name |-> None]]

(* What the two send: a typed lookup next to a client that quits, a lookup   *)
(* next to a typed line, and whole lines of every kind, alone.               *)
TypedLookup == <<<<QuitLine>>, <<DnsHost>>>>
EveryLine == <<<<DnsHost, << >>, <<"x">>, QuitLine, Echo>>, << >>>>
TypedEcho == <<<<DnsHost>>, <<Echo>>>>
NoNames == <<<<DnsLong, Spaces, Dns>>, << >>>>

Sendings == {TypedLookup, EveryLine, TypedEcho, NoNames}

MCScript == UNION {{both[1], both[2]} : both \in Sendings}

MCLetter == {"echo", "a", "dns host", "dns long", "dns", "quit", " ", "x"}

MCName == {Host, LongName}
MCTooLong == {LongName}
MCClient == {Liner, Writer}
MCTypist == {Writer}

(* Garbage in the lookup is checked with the last of them.                   *)
MCInit ==
    /\ Init
    /\ <<script[Liner], script[Writer]>> \in Sendings
    /\ current = Garbage => script[Liner] = NoNames[1]

MCSpec == MCInit /\ [][Next]_vars /\ Fairness
=============================================================================
