----------------------------- MODULE MCDnsService -----------------------------
(***************************************************************************)
(* Two names, one an alias of the other and of itself, and two addresses.  *)
(* A name has either aliases or addresses.                                 *)
(*                                                                         *)
(* The store is checked with few requests and all responses, and the       *)
(* transaction ids with many requests for one name and responses without   *)
(* records, at a fixed time; and the reading of a response by itself, of   *)
(* all packets up to six bytes of which two are letters or the lengths of *)
(* labels, and of answers that point to their question.  plan says which.  *)
(***************************************************************************)
EXTENDS DnsService, DnsMessage

CONSTANTS Www, Host, Addr1, Addr2

VARIABLE plan

AliasRr(ttl) == [name |-> Www, type |-> "CNAME", data |-> Host, ttl |-> ttl]
LoopRr == [name |-> Www, type |-> "CNAME", data |-> Www, ttl |-> 1]
AddressRr(a, ttl) == [name |-> Host, type |-> "ADDR", data |-> a, ttl |-> ttl]

MCName == {Www, Host}
MCAddress == {Addr1, Addr2}

MCSection ==
    {<< >>, <<LoopRr>>,
     <<AliasRr(1), AddressRr(Addr1, 1)>>,
     <<AddressRr(Addr1, 2), AddressRr(Addr2, 1)>>}

Letter == 97
MCQuestion == {<<Letter>>, <<Letter, DOT, Letter>>, <<Letter, Letter, Letter>>}

Reply(dn) == <<0>> \o Encoded(dn) \o <<0, 1, 192, 1, 0, Letter>>

MCPacket ==
    UNION {[1..n -> {0, 1, 2, 192}] : n \in 0..6} \cup {Reply(dn) : dn \in MCQuestion}

MCMeta == [type : {"A", "CNAME", "OTHER"}, ttl : {1}, rdlength : {1, 2}]
MCAddrSize == [type \in {"A", "AAAA"} |-> IF type = "A" THEN 1 ELSE 2]

MCInit ==
    /\ Init
    /\ MessageInit
    /\ plan \in {"store", "ids", "message"}
    /\ plan # "message" => packet = << >> /\ header = << >>

(* Bound: requests made and seconds passed while the store is checked. *)
StoreEvents == 4

ServiceNext ==
    /\ plan # "message" /\ doing = "returned"
    /\ Next
    /\ UNCHANGED <<messageVars, plan>>
    /\ plan = "store" => Len(requests') + now' <= StoreEvents
    /\ plan = "ids" =>
         /\ now' = now
         /\ \A i \in DOMAIN requests' : requests'[i].name = Host
         /\ \A response \in responses' : response.answers = << >>

(* With the other plans an empty packet comes first. *)
ReadsMessage ==
    /\ MessageNext
    /\ UNCHANGED <<vars, plan>>

MCNext == ReadsMessage \/ ServiceNext

MCSpec ==
    /\ MCInit /\ [][MCNext]_<<vars, messageVars, plan>>
    /\ WF_messageVars(ReadsMessage)
=============================================================================
