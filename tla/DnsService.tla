------------------------------ MODULE DnsService ------------------------------
(***************************************************************************)
(* The DNS service, service/ss_dns.c: requests with transaction ids, the   *)
(* responses of a name server that may answer late, twice or never, and    *)
(* the store of records with their times to live.                          *)
(*                                                                         *)
(* The service runs in handlers of the event loop that are never           *)
(* interrupted, so each handler and each call of the interface is a step.  *)
(* A record is what a response says of a name; DnsMessage has the labels    *)
(* and the compression of names.                                           *)
(***************************************************************************)
EXTENDS Integers, Sequences, FiniteSets, FiniteSetsExt, SequencesExt

CONSTANTS
    Name,                  \* domain names
    Address,               \* addresses
    None,                  \* no address, no entry
    Section,               \* the answer sections that responses may have
    SEGMENT_SIZE,          \* transaction ids in a segment of tid_flags: 16
    SEGMENTS,              \* segments next_tid goes through: 4096
    SEND_BUFFER_PACKCAP,   \* blocks of the send buffer: 16
    MIN_REQUEST_INTERVAL,  \* service->export.min_request_interval
    MaxCalls,              \* bound: calls of ss_dns_get_inner in each other that fit on the stack
    MaxEvents              \* bound: requests made and seconds passed, together

(* An entry of the map: when the name was asked for, and its records.      *)
Entry == [last_request : Nat,
          list : Seq([type : {"ADDR", "CNAME"}, data : Name \cup Address, expire : Nat])]

ASSUME NoneAssumption == None \notin Address /\ None \notin Name /\ None \notin Entry

(* Transaction ids are numbers of 16 bits.                                 *)
SS_UINT16_MAX == 65535

ASSUME SizeAssumption ==
    /\ SEGMENT_SIZE \in 2..(SS_UINT16_MAX + 1) /\ SEGMENTS \in Nat /\ SEGMENTS >= 3
    /\ SEND_BUFFER_PACKCAP \in Nat \ {0}
    /\ MIN_REQUEST_INTERVAL \in Nat /\ MaxCalls \in Nat

(* The records of an answer: the data of an alias is a name.               *)
Rr == [name : Name, type : {"ADDR"}, data : Address, ttl : Int]
      \cup [name : Name, type : {"CNAME"}, data : Name, ttl : Int]

ASSUME SectionAssumption == Section \subseteq Seq(Rr)

VARIABLES
    now,        \* time()
    entries,    \* service->map: last_request and the list of records of each name; or None
    tid_flags,  \* the transaction ids whose bit is set
    next_tid,
    send_buffer,\* the requests in it, by number
    crashed,    \* the process has followed a pointer to nowhere or used up its stack
    requests,   \* all requests made: name, id, and whether it is queued, sent or answered
    responses,  \* the responses on their way
    answer      \* what the last look-up found

service == <<entries, tid_flags, next_tid, send_buffer, crashed>>
vars == <<now, service, requests, responses, answer>>

Tid == 0..(SEGMENT_SIZE * SEGMENTS - 1)

(* The clock starts well after the last_request of an entry that was never  *)
(* asked for.                                                               *)
Init ==
    /\ now = MIN_REQUEST_INTERVAL
    /\ entries = [n \in Name |-> None]
    /\ tid_flags = {}
    /\ next_tid = 0
    /\ send_buffer = << >>
    /\ crashed = FALSE
    /\ requests = << >>
    /\ responses = {}
    /\ answer = None

-----------------------------------------------------------------------------
(* Transaction ids. *)

Weight == <<1, 2, 4, 8, 16, 32, 64, 128, 256, 512, 1024, 2048, 4096, 8192, 16384, 32768>>

Bit(n, k) == (n \div Weight[k]) % 2 = 1

(* The bitwise or of two numbers of 16 bits. *)
BitOr(m, n) ==
    CHOOSE either \in 0..SS_UINT16_MAX : \A k \in DOMAIN Weight :
        Bit(either, k) <=> (Bit(m, k) \/ Bit(n, k))

Segment(tid) == tid \div SEGMENT_SIZE

FreeBits(seg) == {b \in 0..(SEGMENT_SIZE - 1) : seg * SEGMENT_SIZE + b \notin tid_flags}

(* The segments next_tid looks at, in turn, until one has a free bit. *)
Turns == {i \in 0..(SEGMENTS - 1) :
            \A j \in 0..(i - 1) : FreeBits((Segment(next_tid) + j) % SEGMENTS) = {}}

SegmentsSeen == {(Segment(next_tid) + i) % SEGMENTS : i \in Turns}

HasNextTid == \E seg \in SegmentsSeen : FreeBits(seg) # {}

(* Mutant: the segment shifted into place. *)
NextTidShifted ==
    LET seg == CHOOSE seg \in SegmentsSeen : FreeBits(seg) # {}
    IN  seg * SEGMENT_SIZE + Min(FreeBits(seg))

(* What next_tid returns: seg | tid, with tid the first free bit of seg. *)
NextTid ==
    LET seg == CHOOSE seg \in SegmentsSeen : FreeBits(seg) # {}
    IN  BitOr(seg, Min(FreeBits(seg)))

-----------------------------------------------------------------------------
(* ss_dns_get *)

(* The records of a list from the first on that has not expired. *)
Fresh(list) ==
    LET live == {i \in DOMAIN list : list[i].expire >= now}
    IN  IF live = {} THEN << >> ELSE SubSeq(list, Min(live), Len(list))

(* A call of ss_dns_get_inner: the expired records at the front of the     *)
(* entry are removed and the next one goes to the back: it is what was to  *)
(* be found, or an alias, and the function calls itself.                   *)
Call(look) ==
    IF look.at = None \/ look.known[look.at] = None
    THEN [look EXCEPT !.at = None]
    ELSE LET fresh == Fresh(look.known[look.at].list)
             used == Head(fresh)
             alias == fresh # << >> /\ used.type = "CNAME"
         IN  [at |-> IF alias THEN used.data ELSE None,
              found |-> IF fresh = << >> \/ alias THEN None ELSE used.data,
              known |-> [look.known EXCEPT ![look.at].list =
                            IF fresh = << >> THEN << >> ELSE Append(Tail(fresh), used)]]

(* A look-up of n: the name that another call would be for, or None; the   *)
(* address that was found, or None; and the entries behind it.             *)
LookUp(n) ==
    LET after[i \in 0..MaxCalls] ==
          IF i = 0 THEN [at |-> n, found |-> None, known |-> entries] ELSE Call(after[i - 1])
    IN  after[MaxCalls]

(* Aliases that lead back to their own name may have no end. *)
Ends(n) == LookUp(n).at = None
Result(n) == LookUp(n).found
Looked(n) == LookUp(n).known

(* The test server polls for the name it waits for.                        *)
Get(n) ==
    /\ ~crashed
    /\ Ends(n)
    /\ answer' = Result(n)
    /\ entries' = Looked(n)
    /\ UNCHANGED <<now, tid_flags, next_tid, send_buffer, crashed, requests, responses>>

(* A look-up, by ss_dns_get or ss_dns_fetch, that the stack has no room    *)
(* for.                                                                    *)
LookUpOverflows(n) ==
    /\ ~crashed
    /\ ~Ends(n)
    /\ crashed' = TRUE
    /\ UNCHANGED <<now, entries, tid_flags, next_tid, send_buffer, requests, responses, answer>>

-----------------------------------------------------------------------------
(* ss_dns_fetch: a look-up, and a request if it finds nothing.             *)

NewEntry == [last_request |-> 0, list |-> << >>]

(* Mutant: the id is occupied before the request is in the send buffer.    *)
RequestOccupyingFirst(n, entry) ==
    /\ HasNextTid
    /\ tid_flags' = tid_flags \cup {NextTid}
    /\ IF Len(send_buffer) + 1 >= SEND_BUFFER_PACKCAP
       THEN UNCHANGED <<next_tid, send_buffer, requests>> /\ entries' = Looked(n)
       ELSE /\ next_tid' = NextTid + 1
            /\ requests' = Append(requests, [name |-> n, tid |-> NextTid, state |-> "queued"])
            /\ send_buffer' = Append(send_buffer, Len(requests'))
            /\ entries' = [Looked(n) EXCEPT ![entry] = [(IF @ = None THEN NewEntry ELSE @)
                                                         EXCEPT !.last_request = now]]

(* Mutant: the last block of the send buffer is used, too.                 *)
RequestIntoLastBlock(n, entry) ==
    /\ HasNextTid
    /\ Len(send_buffer) < SEND_BUFFER_PACKCAP
    /\ tid_flags' = tid_flags \cup {NextTid}
    /\ next_tid' = NextTid + 1
    /\ requests' = Append(requests, [name |-> n, tid |-> NextTid, state |-> "queued"])
    /\ send_buffer' = Append(send_buffer, Len(requests'))
    /\ entries' = [Looked(n) EXCEPT ![entry] = [(IF @ = None THEN NewEntry ELSE @)
                                                 EXCEPT !.last_request = now]]

(* The request is written to the send buffer, then its id is occupied and  *)
(* its time noted in the entry.                                            *)
Request(n, entry) ==
    /\ HasNextTid
    /\ Len(send_buffer) + 1 < SEND_BUFFER_PACKCAP
    /\ tid_flags' = tid_flags \cup {NextTid}
    /\ next_tid' = NextTid + 1
    /\ requests' = Append(requests, [name |-> n, tid |-> NextTid, state |-> "queued"])
    /\ send_buffer' = Append(send_buffer, Len(requests'))
    /\ entries' = [Looked(n) EXCEPT ![entry] = [(IF @ = None THEN NewEntry ELSE @)
                                                 EXCEPT !.last_request = now]]

(* "entry == ss_dns_get_entry()" compares and leaves entry as the stack    *)
(* had it: null, the entry of any name, or a pointer to nowhere.           *)
StaleEntry == {m \in Name : entries[m] # None}

TooSoon(entry) == entries[entry].last_request + MIN_REQUEST_INTERVAL > now

FetchFinds(n) ==
    /\ ~crashed
    /\ Ends(n)
    /\ Result(n) # None
    /\ answer' = Result(n)
    /\ entries' = Looked(n)
    /\ UNCHANGED <<now, tid_flags, next_tid, send_buffer, crashed, requests, responses>>

FetchMisses(n) ==
    /\ ~crashed
    /\ Ends(n)
    /\ Result(n) = None
    /\ answer' = None
    /\ UNCHANGED <<now, responses>>

FetchRequests(n) ==
    /\ FetchMisses(n)
    /\ Len(requests) + now < MaxEvents
    /\ \/ Request(n, n)
       \/ \E entry \in StaleEntry : ~TooSoon(entry) /\ Request(n, entry)
    /\ UNCHANGED crashed

(* Asked too soon, no id, or no room: EAGAIN.                              *)
FetchRefused(n) ==
    /\ FetchMisses(n)
    /\ \/ \E entry \in StaleEntry : TooSoon(entry)
       \/ ~HasNextTid
       \/ Len(send_buffer) + 1 >= SEND_BUFFER_PACKCAP
    /\ entries' = Looked(n)
    /\ UNCHANGED <<tid_flags, next_tid, send_buffer, crashed, requests>>

FetchCrashes(n) ==
    /\ FetchMisses(n)
    /\ crashed' = TRUE
    /\ entries' = Looked(n)
    /\ UNCHANGED <<tid_flags, next_tid, send_buffer, requests>>

-----------------------------------------------------------------------------
(* The handlers of the service's socket. *)

(* The records of a list that have not expired, in order.                   *)
Unexpired(list) ==
    LET kept[i \in 0..Len(list)] ==
          IF i = 0 THEN << >>
          ELSE IF list[i].expire < now THEN kept[i - 1] ELSE Append(kept[i - 1], list[i])
    IN  kept[Len(list)]

ListOf(entry) == IF entry = None THEN << >> ELSE entry.list

WithList(entry, list) == [(IF entry = None THEN NewEntry ELSE entry) EXCEPT !.list = list]

(* Mutant: a record heard again keeps its time to live.                     *)
UpdatedOnlyIfNew(known, r) ==
    LET kept == Unexpired(ListOf(known[r.name]))
        new == [type |-> r.type, data |-> r.data, expire |-> now + r.ttl]
    IN  IF \E i \in DOMAIN kept : kept[i].type = r.type /\ kept[i].data = r.data
        THEN known
        ELSE [known EXCEPT ![r.name] = WithList(@, <<new>> \o kept)]

(* ss_dns_update: the record is refreshed, or put in front; the others that *)
(* have expired are removed.                                                *)
Updated(known, r) ==
    LET old == ListOf(known[r.name])
        new == [type |-> r.type, data |-> r.data, expire |-> now + r.ttl]
        same == {i \in DOMAIN old : old[i].type = r.type /\ old[i].data = r.data}
        kept == Unexpired([i \in DOMAIN old |-> IF i \in same THEN new ELSE old[i]])
    IN  [known EXCEPT ![r.name] = WithList(@, IF same # {} THEN kept ELSE <<new>> \o kept)]

(* read_answer for each record of the section, up to one that cannot be     *)
(* read if there is one; one with no ttl is not kept.                       *)
Learned(answers) ==
    LET after[i \in 0..Len(answers)] ==
          IF i = 0 THEN entries
          ELSE IF answers[i].ttl > 0 THEN Updated(after[i - 1], answers[i]) ELSE after[i - 1]
    IN  after[Len(answers)]

(* A response is received; the network may deliver it again.                *)
Receive(response) ==
    /\ ~crashed
    /\ response \in responses
    /\ responses' \in {responses, responses \ {response}}
    /\ UNCHANGED <<now, next_tid, send_buffer, crashed, answer>>

(* A response with RCODE 0, 2 or 4 is read to its end; its id is released.  *)
ReceiveGood(response) ==
    /\ Receive(response)
    /\ response.outcome = "good"
    /\ entries' = Learned(response.answers)
    /\ tid_flags' = tid_flags \ {requests[response.of].tid}
    /\ requests' = [requests EXCEPT ![response.of].state = "settled"]

(* RCODE 1, 3 or 5: "flags & SS_DNS_FLAG_RCODE != SS_DNS_FLAG_RC_OK" tests  *)
(* the lowest bit.  The id stays occupied.                                  *)
ReceiveRefused(response) ==
    /\ Receive(response)
    /\ response.outcome = "refused"
    /\ UNCHANGED <<entries, tid_flags, requests>>

(* A section with a record that is not as expected: those before it count,  *)
(* and the id stays occupied.                                               *)
ReceiveBroken(response) ==
    /\ Receive(response)
    /\ response.outcome = "broken"
    /\ entries' = Learned(response.answers)
    /\ UNCHANGED <<tid_flags, requests>>

(* ss_dns_send_handler sends until the buffer is empty.                     *)
Flush ==
    /\ ~crashed
    /\ send_buffer # << >>
    /\ requests' = [i \in DOMAIN requests |->
                      IF requests[i].state = "queued" THEN [requests[i] EXCEPT !.state = "sent"]
                      ELSE requests[i]]
    /\ send_buffer' = << >>
    /\ UNCHANGED <<now, entries, tid_flags, next_tid, crashed, responses, answer>>

-----------------------------------------------------------------------------
(* The name server answers a request once, or never.                        *)
SectionsFor(n) == {section \in Section : section = << >> \/ section[1].name = n}

Answer(i) ==
    /\ ~crashed
    /\ requests[i].state = "sent"
    /\ \E section \in SectionsFor(requests[i].name) :
         responses' \in
           {responses \cup {[of |-> i, outcome |-> said[1], answers |-> said[2]]} :
              said \in {<<"good", section>>, <<"refused", << >> >>}
                       \cup {<<"broken", p>> : p \in Prefixes(section)}}
    /\ requests' = [requests EXCEPT ![i].state = "answered"]
    /\ UNCHANGED <<now, service, answer>>

Tick ==
    /\ ~crashed
    /\ Len(requests) + now < MaxEvents
    /\ now' = now + 1
    /\ UNCHANGED <<service, requests, responses, answer>>

Ended ==
    /\ crashed
    /\ UNCHANGED vars

Next ==
    \/ \E n \in Name : \/ Get(n) \/ LookUpOverflows(n) \/ FetchFinds(n) \/ FetchRequests(n)
                       \/ FetchRefused(n) \/ FetchCrashes(n)
    \/ \E response \in responses : \/ ReceiveGood(response) \/ ReceiveRefused(response)
                                   \/ ReceiveBroken(response)
    \/ \E i \in DOMAIN requests : Answer(i)
    \/ Flush \/ Tick \/ Ended

Spec == Init /\ [][Next]_vars

-----------------------------------------------------------------------------
(* The types of the variables; the send buffer never fills its last block    *)
(* and holds the queued requests in the order they were made; and tid_flags, *)
(* which has one element fewer (SS_UINT16_MAX >> 4) than the segments that   *)
(* next_tid goes through, is not read past its end, whatever ids are lost.   *)
TypeOK ==
    /\ now \in Nat
    /\ \A n \in Name : entries[n] = None \/
         /\ entries[n].last_request \in 0..now
         /\ \A i \in DOMAIN entries[n].list : entries[n].list[i].expire \in Nat
    /\ tid_flags \subseteq Tid
    /\ next_tid \in 0..(SEGMENT_SIZE * SEGMENTS)
    /\ \A seg \in SegmentsSeen : seg < SEGMENTS - 1
    /\ Len(send_buffer) < SEND_BUFFER_PACKCAP
    /\ \A i, j \in DOMAIN send_buffer : i < j => send_buffer[i] < send_buffer[j]
    /\ ToSet(send_buffer) = {i \in DOMAIN requests : requests[i].state = "queued"}
    /\ crashed \in BOOLEAN
    /\ \A response \in responses : requests[response.of].state \in {"answered", "settled"}
    /\ answer \in Address \cup {None}

(* No transaction id is occupied for nothing: each belongs to a request that *)
(* has not had its answer.  (Of those, some will never have one.)            *)
OccupiedIsAwaited ==
    \A tid \in tid_flags : \E i \in DOMAIN requests :
        requests[i].tid = tid /\ requests[i].state # "settled"

(* The id of a new request is one that no other request is waiting with      *)
(* ("Idempotently get an available TID, without marking it as occupied",     *)
(* ss_dns.c line 897).                                                       *)
NextTidIsAvailable ==
    [][Len(requests') > Len(requests) =>
         requests'[Len(requests')].tid \notin tid_flags]_vars

(* Callers see a store of the records heard, each valid for as long as it    *)
(* was last said to be, whatever is asked, lost, repeated or cut short.      *)
Valid ==
    UNION {{[name |-> n, type |-> r.type, data |-> r.data, expire |-> r.expire] :
              r \in {q \in ToSet(entries[n].list) : q.expire >= now}} :
           n \in {m \in Name : entries[m] # None}}

Cache == INSTANCE NameCache
    WITH valid <- Valid, NoAddress <- None, Section <- UNION {Prefixes(s) : s \in Section}

ImplementsNameCache == Cache!Spec
=============================================================================
