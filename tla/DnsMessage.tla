------------------------------ MODULE DnsMessage ------------------------------
(***************************************************************************)
(* How service/ss_dns.c reads a response: ss_dns_recv_handler with         *)
(* read_query, read_answer and the others, down to the labels of a name    *)
(* and the pointers that stand for the rest of one.  DnsService has a      *)
(* whole response as one step; here it is taken apart, a step for each     *)
(* turn of the loop that reads a name and for each part of a record.       *)
(*                                                                         *)
(* A packet is a sequence of bytes.  Of the numbers in the header and of   *)
(* the type, the time to live and the length of a record only the values   *)
(* matter, which the packet's bytes leave open.                            *)
(***************************************************************************)
EXTENDS Integers, Sequences, FiniteSetsExt

CONSTANTS
    Packet,        \* the packets that may come
    Question,      \* names that are asked for
    Meta,          \* what the fixed part of a record may say
    HEADER_SIZE,   \* SS_DNS_HEADER_SIZE
    FIELD_SIZE,    \* of QTYPE and of QCLASS: 2
    META_SIZE,     \* SS_DNS_RR_META_SIZE
    ADDR_SIZE,     \* by type: SS_IPV4_ADDR_SIZE, SS_IPV6_ADDR_SIZE
    DNML,          \* SS_DOMAIN_NAME_MAX_LENGTH
    MaxItems       \* bound: questions and records in a response

Byte == 0..255
DOT == 46

ASSUME MessageAssumption ==
    /\ Packet \subseteq Seq(Byte)
    /\ Meta \subseteq [type : {"A", "AAAA", "CNAME", "OTHER"}, ttl : Int, rdlength : Nat]
    /\ HEADER_SIZE \in Nat /\ FIELD_SIZE \in Nat /\ META_SIZE \in Nat
    /\ ADDR_SIZE \in [{"A", "AAAA"} -> Nat]
    /\ DNML \in Nat /\ MaxItems \in Nat
    /\ Question \subseteq Seq(Byte)

VARIABLES
    packet,        \* the front packet of recv_buffer
    header,        \* the questions and records that the header announces
    todo,          \* those that are still to be read
    offset,        \* recv handler's local of that name
    doing,         \* what is being read there
    at,            \* read_domain_name's offset; through pointers it leaves the other
    jumped,        \* whether it has followed one
    total_length,
    domain,        \* the text of the name so far, each label with a dot behind it
    rr,            \* the name and the fixed part of the record
    start,         \* read_rdata_cname's init_offset
    learned,       \* the records handed to ss_dns_update
    outcome        \* of the last response: whether its transaction id is released

reading == <<at, jumped, total_length, domain>>
messageVars == <<packet, header, todo, offset, doing, reading, rr, start, learned, outcome>>

Item == {"query", "answer", "other"}
NoMeta == [type |-> "OTHER", ttl |-> 0, rdlength |-> 0]

(* The bytes from o to before o + n are in the packet: read_front succeeds. *)
Has(o, n) == o + n <= Len(packet)
At(o) == packet[o + 1]

(* Questions come before answers, and answers before the rest.              *)
InOrder(items) ==
    \A i \in 2..Len(items) :
        /\ items[i] = "query" => items[i - 1] = "query"
        /\ items[i] = "answer" => items[i - 1] # "other"

Responses == {items \in UNION {[1..n -> Item] : n \in 0..MaxItems} : InOrder(items)}

(* The handler is called and has a packet.                                  *)
MessageInit ==
    /\ packet \in Packet
    /\ header \in Responses
    /\ todo = header
    /\ offset = 0 /\ doing = "header"
    /\ at = 0 /\ jumped = FALSE /\ total_length = 0 /\ domain = << >>
    /\ rr = [name |-> << >>, meta |-> NoMeta] /\ start = 0
    /\ learned = << >> /\ outcome = "none"

-----------------------------------------------------------------------------
(* encode_domain_name: the name moves up by one byte, and the byte before   *)
(* each label gets its length.  What is to be asked has no empty labels.    *)

(* The next dot behind position i, or the end. *)
LabelEnd(dn, i) == Min({j \in (i + 1)..Len(dn) : dn[j] = DOT} \cup {Len(dn) + 1})

(* Mutant: the dot behind a label is counted.                               *)
LabelSizeWithDot(dn, i) == LabelEnd(dn, i) - i

LabelSize(dn, i) == (LabelEnd(dn, i) - i - 1) % 256

Encoded(dn) ==
    [k \in 1..(Len(dn) + 2) |->
       IF k = Len(dn) + 2 THEN 0
       ELSE IF k = 1 \/ dn[k - 1] = DOT THEN LabelSize(dn, k - 1)
       ELSE dn[k - 1]]

(* The names that can be asked for: their labels have 1 to 63 bytes.        *)
ASSUME QuestionAssumption ==
    \A dn \in Question :
        /\ Len(dn) <= DNML
        /\ \A k \in 0..Len(dn) :
              k = 0 \/ dn[k] = DOT => LabelEnd(dn, k) - k - 1 \in 1..63

-----------------------------------------------------------------------------
(* ss_dns_recv_handler: a packet comes, its header is read, and then the    *)
(* questions, the answers and the records of the other sections in turn.    *)

(* The name of the next item begins at o, or all is read.                   *)
GoesOn(o, items) ==
    /\ offset' = o
    /\ todo' = items
    /\ at' = o /\ jumped' = FALSE /\ total_length' = 0 /\ domain' = << >>
    /\ IF items = << >>
       THEN doing' = "returned" /\ outcome' = "released"
       ELSE doing' = (IF items[1] = "query" THEN "qname" ELSE "name") /\ UNCHANGED outcome

Fails ==
    /\ doing' = "returned"
    /\ outcome' = "failed"
    /\ UNCHANGED <<packet, header, todo, offset, reading, rr, start, learned>>

HeaderIsRead ==
    /\ doing = "header"
    /\ Has(0, HEADER_SIZE)
    /\ GoesOn(HEADER_SIZE, header)
    /\ UNCHANGED <<packet, header, rr, start, learned>>

(* It is cut short, or the lowest bit of RCODE is set.                      *)
HeaderFails ==
    /\ doing = "header"
    /\ Fails

-----------------------------------------------------------------------------
(* read_domain_name_with_total_length: a turn of its loop for each label,   *)
(* and a call of itself for a pointer.                                      *)

ReadingName == doing \in {"qname", "name", "cname"}

IsLabel(b) == b \in 1..63
IsPointer(b) == b >= 64

(* A question's name is only skipped.                                       *)
Kept == doing # "qname"

(* Mutant: the label that comes is not counted in.                          *)
OnlyFullIsTooLong(label) == total_length > DNML

TooLong(label) == total_length + label > DNML

(* The label is there and the name has room for it.                         *)
TakesLabel == Has(at, 1 + At(at)) /\ ~TooLong(At(at))

Label ==
    /\ ReadingName /\ Has(at, 1) /\ IsLabel(At(at))
    /\ TakesLabel
    /\ at' = at + 1 + At(at)
    /\ offset' = IF jumped THEN offset ELSE at'
    /\ total_length' = total_length + At(at) + (IF Kept THEN 1 ELSE 0)
    /\ domain' = IF Kept THEN domain \o SubSeq(packet, at + 2, at') \o <<DOT>> ELSE domain
    /\ UNCHANGED <<packet, header, todo, doing, jumped, rr, start, learned, outcome>>

Target(o) == (At(o) % 64) * 256 + At(o + 1)

(* Mutant: the name behind the pointer is read with a length of its own.    *)
PointerStartingAnew ==
    /\ ReadingName /\ Has(at, 2) /\ IsPointer(At(at))
    /\ at' = Target(at)
    /\ offset' = IF jumped THEN offset ELSE at + 2
    /\ jumped' = TRUE
    /\ total_length' = 0 /\ domain' = << >>
    /\ UNCHANGED <<packet, header, todo, doing, rr, start, learned, outcome>>

Pointer ==
    /\ ReadingName /\ Has(at, 2) /\ IsPointer(At(at))
    /\ at' = Target(at)
    /\ offset' = IF jumped THEN offset ELSE at + 2
    /\ jumped' = TRUE
    /\ UNCHANGED <<packet, header, todo, doing, total_length, domain, rr, start, learned, outcome>>

(* Nothing there, a label too long or cut short, a pointer cut short.       *)
NameFails ==
    /\ ReadingName
    /\ \/ ~Has(at, 1)
       \/ Has(at, 1) /\ IsLabel(At(at)) /\ ~TakesLabel
       \/ Has(at, 1) /\ IsPointer(At(at)) /\ ~Has(at, 2)
    /\ Fails

AtNameEnd == ReadingName /\ Has(at, 1) /\ At(at) = 0

(* Where what comes after the name begins.                                  *)
AfterName == IF jumped THEN offset ELSE at + 1

(* The last dot gives way to the end of the string.                         *)
Text == IF domain = << >> THEN << >> ELSE SubSeq(domain, 1, Len(domain) - 1)

-----------------------------------------------------------------------------
(* read_query: if QTYPE or QCLASS is missing it returns the OK of the name. *)

QuestionNameEnds ==
    /\ AtNameEnd /\ doing = "qname"
    /\ offset' = AfterName
    /\ doing' = "tail"
    /\ UNCHANGED <<packet, header, todo, reading, rr, start, learned, outcome>>

QuestionEnds ==
    /\ doing = "tail"
    /\ GoesOn(IF Has(offset, 2 * FIELD_SIZE) THEN offset + 2 * FIELD_SIZE
              ELSE IF Has(offset, FIELD_SIZE) THEN offset + FIELD_SIZE
              ELSE offset, Tail(todo))
    /\ UNCHANGED <<packet, header, rr, start, learned>>

-----------------------------------------------------------------------------
(* read_rr.  The class is looked at, but reading the data overwrites what   *)
(* came of it.                                                              *)

NameEnds ==
    /\ AtNameEnd /\ doing = "name"
    /\ offset' = AfterName
    /\ rr' = [rr EXCEPT !.name = Text]
    /\ doing' = "meta"
    /\ UNCHANGED <<packet, header, todo, reading, start, learned, outcome>>

MetaIsRead(meta) ==
    /\ doing = "meta"
    /\ Has(offset, META_SIZE)
    /\ offset' = offset + META_SIZE
    /\ rr' = [rr EXCEPT !.meta = meta]
    /\ start' = offset'
    /\ IF meta.type = "CNAME"
       THEN /\ doing' = "cname"
            /\ at' = offset' /\ jumped' = FALSE /\ total_length' = 0 /\ domain' = << >>
       ELSE doing' = "rdata" /\ UNCHANGED reading
    /\ UNCHANGED <<packet, header, todo, learned, outcome>>

MetaFails ==
    /\ doing = "meta"
    /\ ~Has(offset, META_SIZE)
    /\ Fails

(* read_answer hands the record to ss_dns_update; the others drop it.       *)
RecordEnds(end, data) ==
    /\ learned' = IF todo[1] = "answer" /\ rr.meta.type # "OTHER" /\ rr.meta.ttl > 0
                  THEN Append(learned, [name |-> rr.name, meta |-> rr.meta, data |-> data])
                  ELSE learned
    /\ GoesOn(end, Tail(todo))
    /\ UNCHANGED <<packet, header, rr, start>>

DataIsThere ==
    /\ rr.meta.type # "OTHER" => rr.meta.rdlength = ADDR_SIZE[rr.meta.type]
    /\ Has(offset, rr.meta.rdlength)

DataEnds ==
    /\ doing = "rdata"
    /\ DataIsThere
    /\ RecordEnds(offset + rr.meta.rdlength,
                  SubSeq(packet, offset + 1, offset + rr.meta.rdlength))

DataFails ==
    /\ doing = "rdata"
    /\ ~DataIsThere
    /\ Fails

AliasFits == AfterName - start = rr.meta.rdlength

AliasEnds ==
    /\ AtNameEnd /\ doing = "cname"
    /\ AliasFits
    /\ RecordEnds(AfterName, Text)

AliasFails ==
    /\ AtNameEnd /\ doing = "cname"
    /\ ~AliasFits
    /\ Fails

-----------------------------------------------------------------------------
Reads ==
    \/ HeaderIsRead \/ HeaderFails
    \/ Label \/ Pointer \/ NameFails
    \/ QuestionNameEnds \/ QuestionEnds
    \/ NameEnds \/ (\E meta \in Meta : MetaIsRead(meta)) \/ MetaFails
    \/ DataEnds \/ DataFails \/ AliasEnds \/ AliasFails

Returned ==
    /\ doing = "returned"
    /\ UNCHANGED messageVars

MessageNext == Reads \/ Returned

MessageSpec == MessageInit /\ [][MessageNext]_messageVars

(* The handler runs on.       *)
FairMessageSpec == MessageSpec /\ WF_messageVars(Reads)

-----------------------------------------------------------------------------
(* The types of the variables: the offset stays within the packet, and the   *)
(* text of a name, its end included, within the DNML + 2 bytes of rr->name   *)
(* and rr->rdata.cname, whatever labels and pointers follow one another.     *)
MessageTypeOK ==
    /\ packet \in Seq(Byte)
    /\ header \in Seq(Item) /\ todo \in Seq(Item)
    /\ doing \in {"header", "returned", "qname", "tail", "name", "meta", "rdata", "cname"}
    /\ doing \notin {"header", "returned"} => todo # << >>
    /\ offset \in 0..Len(packet)
    /\ at \in Nat /\ start \in Nat
    /\ jumped \in BOOLEAN
    /\ total_length \in 0..(DNML + 1)
    /\ domain \in Seq(Byte)
    /\ ReadingName => Len(domain) = IF Kept THEN total_length ELSE 0
    /\ rr.name \in Seq(Byte) /\ Len(rr.name) <= DNML
    /\ rr.meta \in Meta \cup {NoMeta}
    /\ outcome \in {"none", "released", "failed"}

(* The packet begins with the question for a name, and an answer with a      *)
(* pointer to it, as the answers of name servers do.                         *)
Echoes(dn) ==
    LET question == HEADER_SIZE + Len(dn) + 2
        pointer == question + 2 * FIELD_SIZE
    IN  /\ Has(pointer, 2)
        /\ SubSeq(packet, HEADER_SIZE + 1, question) = Encoded(dn)
        /\ SubSeq(packet, pointer + 1, pointer + 2) = <<192, HEADER_SIZE>>
        /\ header = <<"query", "answer">>

(* What encode_domain_name wrote into a question comes back from             *)
(* read_domain_name as the name that was asked for, up to the longest, so    *)
(* that the answer is stored under the name that callers look for.           *)
QuestionReadsBack ==
    \A dn \in Question :
        Echoes(dn) /\ offset # 0 /\ doing \notin {"qname", "tail", "name"} => rr.name = dn

(* Pointers that lead to pointers only, and nowhere else.                    *)
PointersCircle ==
    \E circle \in SUBSET (0..(Len(packet) - 2)) \ {{}} :
        \A o \in circle : IsPointer(At(o)) /\ Target(o) \in circle

(* Every response is read to its end or given up, though pointers may lead   *)
(* back to labels that have been read: those make the name too long.  Only   *)
(* pointers that lead to nothing but pointers keep read_domain_name calling  *)
(* itself.                                                                   *)
ReadingEnds == ~PointersCircle => <>(doing = "returned")
=============================================================================
