------------------------------ MODULE NameCache ------------------------------
(***************************************************************************)
(* What the DNS service promises its callers: a store of the records heard *)
(* in responses, each valid for as long as it was last said to be, and     *)
(* look-ups that follow aliases: they find an address that valid records   *)
(* lead to, or nothing if valid records lead to a name without any.        *)
(***************************************************************************)
EXTENDS Integers, Sequences

CONSTANTS
    Name,       \* domain names
    Address,    \* addresses
    NoAddress,  \* the answer of a look-up that finds nothing
    Section     \* the answer sections that may be heard: sequences of records

VARIABLES
    now,      \* the time, in seconds
    valid,    \* the records that have not expired
    answer    \* what the last look-up returned

vars == <<now, valid, answer>>

Key(r) == <<r.name, r.type, r.data>>

Aliases(n, records) == {r.data : r \in {q \in records : q.name = n /\ q.type = "CNAME"}}
Addresses(n, records) == {r.data : r \in {q \in records : q.name = n /\ q.type = "ADDR"}}

(* n and the names that aliases lead to from it: what is in every set with *)
(* n and the aliases of its members.                                       *)
Reach(n, records) ==
    {m \in Name : \A S \in SUBSET Name :
                     n \in S /\ (\A x \in S : Aliases(x, records) \subseteq S) => m \in S}

Found(n, records) == UNION {Addresses(m, records) : m \in Reach(n, records)}

LeadsNowhere(n, records) == \E m \in Reach(n, records) : \A r \in records : r.name # m

Init ==
    /\ now \in Nat
    /\ valid = {}
    /\ answer = NoAddress

Tick ==
    /\ now' = now + 1
    /\ valid' = {r \in valid : r.expire >= now'}
    /\ UNCHANGED answer

(* A record heard again is valid for as long as it was said to be last; one *)
(* with a zero ttl is not to be stored.                                     *)
Learn(rrs) ==
    LET kept == {i \in DOMAIN rrs : rrs[i].ttl > 0}
        last == {i \in kept : \A j \in kept : Key(rrs[j]) = Key(rrs[i]) => j <= i}
    IN  /\ valid' = {r \in valid : \A i \in kept : Key(r) # Key(rrs[i])}
                    \cup {[name |-> rrs[i].name, type |-> rrs[i].type, data |-> rrs[i].data,
                           expire |-> now + rrs[i].ttl] : i \in last}
        /\ UNCHANGED <<now, answer>>

(* If aliases part, a look-up follows one of them.                         *)
Look(n) ==
    /\ \/ answer' \in Found(n, valid)
       \/ answer' = NoAddress /\ LeadsNowhere(n, valid)
    /\ UNCHANGED <<now, valid>>

Next ==
    \/ Tick
    \/ \E n \in Name : Look(n)
    \/ \E rrs \in Section : Learn(rrs)

Spec == Init /\ [][Next]_vars
=============================================================================
